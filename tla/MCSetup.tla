------------------------------ MODULE MCSetup ------------------------------
(***************************************************************************)
(* Devices for Setup: the defaults of femu_props, on a small drive, with   *)
(* one group of related properties at a time varied around the limits the  *)
(* code compares them with.                                                *)
(***************************************************************************)
EXTENDS Setup

Default ==
    [memsz |-> 1, num_namespaces |-> 1, nr_io_queues |-> 8, db_stride |-> 0,
     max_q_ents |-> 2047, max_sqes |-> 6, max_cqes |-> 4, mdts |-> 10,
     vwc |-> 0, intc |-> 0, cqr |-> 1, extended |-> 0, nlbaf |-> 5, lba_index |-> 0,
     meta |-> 0, mc |-> {}, dps |-> 0, dpc |-> {}, mpsmin |-> 0, mpsmax |-> 0,
     oacs |-> {1}, oncs |-> {2}, cmbsz |-> 0, femu_mode |-> "nossd",
     secs_per_pg |-> 8, pgs_per_blk |-> 8, blks_per_pl |-> 8, pls_per_lun |-> 1,
     luns_per_ch |-> 4, nchs |-> 1, gc_thres_pcent |-> 75, gc_thres_pcent_high |-> 95]

Queues ==
    {[Default EXCEPT !.nr_io_queues = q, !.db_stride = s, !.max_q_ents = e] :
        q \in {0, 1, 8, 511, 512, 2047, 2048}, s \in {0, 1, 12, 13}, e \in {0, 1, 65536}}

\* 2^(mdts + 12 + mpsmin) has to fit the integers of TLC.
EntrySizes ==
    {[Default EXCEPT !.max_sqes = s, !.max_cqes = c, !.mpsmin = lo, !.mpsmax = hi, !.mdts = t] :
        s \in {5, 6, 12, 16}, c \in {3, 4, 15}, lo \in {0, 1, 3, 4, 16}, hi \in {0, 1, 3, 4, 16},
        t \in {0, 1, 14}}

Formats ==
    {[Default EXCEPT !.nlbaf = f, !.lba_index = i, !.extended = e, !.meta = m, !.mc = c, !.memsz = z] :
        f \in {0, 1, 16, 17}, i \in {0, 3, 15, 16}, e \in 0 .. 2, m \in {0, 7, 8, 64},
        c \in {{}, {0}, {1}, {0, 1}}, z \in {1, 3}}

Protections ==
    {[Default EXCEPT !.meta = m, !.mc = {0, 1}, !.dps = d, !.dpc = c] :
        m \in {0, 7, 8}, d \in 0 .. 17, c \in SUBSET (0 .. 4)}

Others ==
    {[Default EXCEPT !.num_namespaces = k, !.memsz = z] : k \in {0, 1, 2, 256, 257}, z \in {1, 750, 1024}}
    \cup {[Default EXCEPT !.vwc = v, !.intc = i, !.cqr = r] : v, i, r \in 0 .. 2}
    \cup {[Default EXCEPT !.oacs = a, !.oncs = b, !.cmbsz = c] :
            a \in {{}, {1}, {0}}, b \in {{}, {0, 3}, {4}}, c \in {0, 1}}

Geometries ==
    {[Default EXCEPT !.femu_mode = "bbssd", !.secs_per_pg = s, !.pgs_per_blk = p, !.blks_per_pl = b,
                     !.pls_per_lun = l, !.luns_per_ch = u, !.nchs = h] :
        s \in {4, 8}, p \in {3, 8, 9}, b \in {1, 4, 8, 9}, l \in {1, 2}, u \in {1, 2, 4, 5}, h \in 1 .. 3}

Thresholds ==
    {[Default EXCEPT !.femu_mode = "bbssd", !.blks_per_pl = b, !.pls_per_lun = l, !.lba_index = i,
                     !.gc_thres_pcent = p, !.gc_thres_pcent_high = h] :
        b \in {1, 4, 8, 20}, l \in {1, 2, 4}, i \in {0, 3}, p, h \in {0, 50, 75, 90, 95, 100}}

MCConfigs ==
    UNION {Queues, EntrySizes, Formats, Protections, Others, Geometries, Thresholds}
=============================================================================
