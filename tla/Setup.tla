------------------------------- MODULE Setup -------------------------------
(***************************************************************************)
(* What femu_realize (femu.c) and ssd_init (ftl.c) compute from the        *)
(* properties of the device: whether it is accepted, the registers and the *)
(* Identify data a host reads, the geometry of the drive with its tables,  *)
(* and the sizes nvme_start_ctrl derives when the host enables it.         *)
(*                                                                         *)
(* femu_realize and nvme_start_ctrl run to their end before a host can do  *)
(* anything.  Products of the geometry wrap around at the width of int and *)
(* the fields of struct ppa at theirs; the widths are parameters, so that  *)
(* small drives reach them.  Sets of bits stand for mc, dpc, oacs, oncs.   *)
(* Left out: strings, identifiers and fields that nothing derives from.    *)
(***************************************************************************)
EXTENDS Integers, FiniteSets

CONSTANTS
    Configs,            \* the values of the device's properties considered
    IntBits,            \* width of int
    BlkBits, PgBits, LunBits, ChBits,   \* widths in struct ppa
    MpsCodes, EsCodes   \* page and entry size codes the host writes to CC

\* No field of struct ppa and no int is wider than 32 bits.
ASSUME WidthsAssumption == {IntBits, BlkBits, PgBits, LunBits, ChBits} \subseteq 1 .. 32
ASSUME HostAssumption == MpsCodes \subseteq 0 .. 15 /\ EsCodes \subseteq 0 .. 15

\* The types of the properties, what the checks rely on without saying so
\* (there is memory, and a drive has at least one page), and a bound of the
\* model: a transfer limit that page_size << mdts does not overflow.
ASSUME ConfigsAssumption == \A n \in Configs :
    /\ {n.num_namespaces, n.nr_io_queues, n.db_stride, n.max_q_ents, n.max_sqes, n.max_cqes,
        n.vwc, n.intc, n.cqr, n.extended, n.nlbaf, n.lba_index, n.meta, n.dps,
        n.mpsmin, n.mpsmax, n.cmbsz} \subseteq Nat
    /\ {n.secs_per_pg, n.pgs_per_blk, n.blks_per_pl, n.pls_per_lun, n.luns_per_ch, n.nchs}
            \subseteq Nat \ {0}
    /\ n.gc_thres_pcent \in 0 .. 100 /\ n.gc_thres_pcent_high \in 0 .. 100
    /\ n.memsz \in Nat \ {0} /\ n.mdts \in 0 .. 15

VARIABLES
    n,      \* the properties of the device
    stage,  \* "new"; "refused" or "aborted"; "off"; "ready" or "failed", as CSTS says
    bar,    \* the register block and CAP
    ctrl,   \* Identify controller
    ns,     \* Identify namespace and ns_blks
    spp,    \* struct ssdparams of the black-box drive
    lm,     \* ssd->lm: tt_lines and free_line_cnt
    sizes   \* n->page_size, n->max_prp_ents, n->cqe_size, n->sqe_size

vars == <<n, stage, bar, ctrl, ns, spp, lm, sizes>>

None == [none |-> TRUE]

Init ==
    /\ n \in Configs
    /\ stage = "new"
    /\ bar = None /\ ctrl = None /\ ns = None
    /\ spp = None /\ lm = None
    /\ sizes = None
-----------------------------------------------------------------------------
(* nvme_check_constraints *)

NVME_MAX_QS == 2047     \* PCI_MSIX_FLAGS_QSIZE

DpsType == n.dps % 8
DpsFirstEight == (n.dps \div 8) % 2 = 1

FormatConstraints ==
    /\ n.nlbaf <= 16 /\ n.lba_index < n.nlbaf
    /\ n.meta # 0 => n.mc # {}
    /\ n.extended # 0 => 0 \in n.mc
    /\ n.extended = 0 /\ n.meta # 0 => 1 \in n.mc
    /\ n.dps # 0 => n.meta >= 8 /\ (IF DpsFirstEight THEN 3 ELSE 4) \in n.dpc
    /\ DpsType # 0 => DpsType - 1 \in n.dpc \cap 0 .. 2

QueueConstraints ==
    /\ n.nr_io_queues \in 1 .. NVME_MAX_QS /\ n.max_q_ents >= 1
    /\ n.db_stride <= 12
    /\ n.max_sqes \in 6 .. 15 /\ n.max_cqes \in 4 .. 15

Constraints ==
    /\ n.num_namespaces \in 1 .. 256
    /\ QueueConstraints
    /\ {n.vwc, n.intc, n.cqr, n.extended} \subseteq {0, 1}
    /\ FormatConstraints
    /\ n.mpsmax <= 15 /\ n.mpsmax <= n.mpsmin
    /\ n.oacs \subseteq {1} /\ n.oncs \subseteq 0 .. 3
-----------------------------------------------------------------------------
(* femu_realize *)

pow2ceil(x) == CHOOSE p \in {2 ^ k : k \in 0 .. 30} : p >= x /\ p < 2 * x

\* mutant: the admin queue's doorbells are forgotten
RegSizeNoAdmin == pow2ceil(4096 + 2 * n.nr_io_queues * 4)

RegSize == pow2ceil(4100 + 2 * (n.nr_io_queues + 1) * 4)

Backend == n.memsz * 1024 * 1024
NsSize  == Backend \div n.num_namespaces

InitCtrl == [sqes |-> <<6, n.max_sqes>>, cqes |-> <<4, n.max_cqes>>, mdts |-> n.mdts]

\* Without MSI-X vectors nvme_init_pci returns early, and femu_realize goes on.
InitBar(vectors) ==
    [reg_size |-> RegSize,
     msix     |-> vectors,
     cmb      |-> vectors /\ n.cmbsz # 0,
     mqes     |-> n.max_q_ents % 65536,
     dstrd    |-> n.db_stride % 16,
     mpsmin   |-> n.mpsmin % 16,
     mpsmax   |-> n.mpsmax % 16]

\* lba_index | extended << 4
Flbas == IF (n.lba_index \div 16) % 2 = 1 THEN n.lba_index ELSE n.lba_index + 16 * n.extended

Lbads(i) == 9 + i

\* mutant: the namespace is counted in sectors whatever the format
NsBlocksInSectors(index) == NsSize \div 512

NsBlocks(index) == NsSize \div 2 ^ Lbads(index)

InitNamespace ==
    LET index == Flbas % 16 IN
    [nlbaf   |-> n.nlbaf - 1,
     flbas   |-> Flbas,
     mc      |-> n.mc,
     dpc     |-> n.dpc,
     dps     |-> n.dps,
     ms      |-> n.meta,
     nsze    |-> NsBlocks(index),
     ns_blks |-> NsSize \div (2 ^ Lbads(index) + n.meta)]

\* The device is refused without an error for QEMU, and nothing is allocated.
Refuse ==
    /\ stage = "new" /\ ~ Constraints
    /\ stage' = "refused"
    /\ UNCHANGED <<n, bar, ctrl, ns, spp, lm, sizes>>

\* assert(n->num_namespaces == 1)
AbortOnNamespaces ==
    /\ stage = "new" /\ Constraints /\ n.num_namespaces # 1
    /\ stage' = "aborted"
    /\ UNCHANGED <<n, bar, ctrl, ns, spp, lm, sizes>>

-----------------------------------------------------------------------------
(* ssd_init_params *)

Wrap(x) == ((x + 2 ^ (IntBits - 1)) % 2 ^ IntBits) - 2 ^ (IntBits - 1)
Mul(a, b) == Wrap(a * b)

\* mutant: the percentage of lines that are in use
GcLinesUsed(pcent, lines) == {(pcent * lines) \div 100}

\* (int)((1 - pcent / 100.0) * lines), where the product of two doubles can
\* fall just below an integer.
GcLines(pcent, lines) ==
    LET exact == (100 - pcent) * lines
        floor == exact \div 100
    IN  IF exact % 100 = 0 /\ exact > 0 THEN {floor - 1, floor} ELSE {floor}

SecsPerCh ==
    Mul(Mul(Mul(Mul(n.secs_per_pg, n.pgs_per_blk), n.blks_per_pl), n.pls_per_lun), n.luns_per_ch)

PgsPerPl  == Mul(n.pgs_per_blk, n.blks_per_pl)
PgsPerLun == Mul(PgsPerPl, n.pls_per_lun)
PgsPerCh  == Mul(PgsPerLun, n.luns_per_ch)

\* mutant: derived from the number of sectors, which overflows first
TtPgsFromSectors == Mul(SecsPerCh, n.nchs) \div n.secs_per_pg

TtPgs == Mul(PgsPerCh, n.nchs)

TtLuns     == Mul(n.luns_per_ch, n.nchs)
PgsPerLine == Mul(TtLuns, n.pgs_per_blk)
TtLines    == Mul(n.blks_per_pl, n.pls_per_lun)

SsdParams(low, high) ==
    [tt_secs             |-> Mul(SecsPerCh, n.nchs),
     pgs_per_pl          |-> PgsPerPl,
     pgs_per_lun         |-> PgsPerLun,
     pgs_per_ch          |-> PgsPerCh,
     tt_pgs              |-> TtPgs,
     tt_luns             |-> TtLuns,
     pgs_per_line        |-> PgsPerLine,
     tt_lines            |-> TtLines,
     gc_thres_lines      |-> low,
     gc_thres_lines_high |-> high]

\* All lines are free, and the write pointer takes the first.
InitLines == [tt_lines |-> n.blks_per_pl, free_line_cnt |-> n.blks_per_pl - 1]

\* mutant: every mode sets up a black-box drive
InitDriveAnyMode ==
    \E low \in GcLines(n.gc_thres_pcent, TtLines),
       high \in GcLines(n.gc_thres_pcent_high, TtLines) :
        /\ spp' = SsdParams(low, high)
        /\ lm' = InitLines
        /\ stage' = IF TtPgs < 0 THEN "aborted" ELSE "off"

\* The mode of the device selects ext_ops.init; that of the black-box mode
\* calls ssd_init.  Tables of a negative size cannot be allocated.
InitDrive ==
    IF n.femu_mode # "bbssd"
    THEN UNCHANGED <<spp, lm>> /\ stage' = "off"
    ELSE \E low \in GcLines(n.gc_thres_pcent, TtLines),
            high \in GcLines(n.gc_thres_pcent_high, TtLines) :
            /\ spp' = SsdParams(low, high)
            /\ lm' = InitLines
            /\ stage' = IF TtPgs < 0 THEN "aborted" ELSE "off"

\* msix_init_exclusive_bar fails where the machine has no MSI, or with too many
\* vectors.
Realize ==
    /\ stage = "new" /\ Constraints /\ n.num_namespaces = 1
    /\ ctrl' = InitCtrl
    /\ \E vectors \in BOOLEAN :
        /\ vectors => n.nr_io_queues + 1 <= 2048
        /\ bar' = InitBar(vectors)
    /\ ns' = InitNamespace
    /\ InitDrive
    /\ UNCHANGED <<n, sizes>>
-----------------------------------------------------------------------------
(* nvme_start_ctrl on the values above, the host having set up AQA, ASQ and *)
(* ACQ, and the part of nvme_clear_ctrl that matters here.                  *)

Startable(mps, sqes, cqes) ==
    /\ bar.mpsmin <= mps /\ mps <= bar.mpsmax
    /\ ctrl.cqes[1] <= cqes /\ cqes <= ctrl.cqes[2]
    /\ ctrl.sqes[1] <= sqes /\ sqes <= ctrl.sqes[2]

\* page_size has sixteen bits
PageSize(mps) == (2 ^ (12 + mps)) % 65536

Start(mps, sqes, cqes) ==
    /\ stage = "off"
    /\ IF Startable(mps, sqes, cqes)
       THEN /\ stage' = "ready"
            /\ sizes' = [page |-> PageSize(mps), prps |-> PageSize(mps) \div 8,
                         sqe |-> 2 ^ sqes, cqe |-> 2 ^ cqes]
       ELSE stage' = "failed" /\ UNCHANGED sizes
    /\ UNCHANGED <<n, bar, ctrl, ns, spp, lm>>

Disable ==
    /\ stage \in {"ready", "failed"}
    /\ stage' = "off"
    /\ UNCHANGED <<n, bar, ctrl, ns, spp, lm, sizes>>

Next ==
    \/ Refuse
    \/ AbortOnNamespaces
    \/ Realize
    \/ \E mps \in MpsCodes, sqes, cqes \in EsCodes : Start(mps, sqes, cqes)
    \/ Disable

Spec == Init /\ [][Next]_vars
-----------------------------------------------------------------------------
(* What is computed from these values later *)

\* mutant: the greatest transfer is refused
TransferBelow(len) == ctrl.mdts = 0 \/ len < sizes.page * 2 ^ ctrl.mdts

\* nvme_check_mdts
TransferAllowed(len) == ctrl.mdts = 0 \/ len <= sizes.page * 2 ^ ctrl.mdts

\* get_new_page: the fields of struct ppa are narrower than the write pointer.
NewPage(ch, lun, line, pg) ==
    [ch |-> ch % 2 ^ ChBits, lun |-> lun % 2 ^ LunBits, pl |-> 0,
     blk |-> line % 2 ^ BlkBits, pg |-> pg % 2 ^ PgBits]

\* mutant: the factors of channel and unit are swapped
ppa2pgidxSwapped(ppa) ==
    Wrap(ppa.ch * spp.pgs_per_lun + ppa.lun * spp.pgs_per_ch + ppa.pl * spp.pgs_per_pl
            + ppa.blk * n.pgs_per_blk + ppa.pg)

ppa2pgidx(ppa) ==
    Wrap(ppa.ch * spp.pgs_per_ch + ppa.lun * spp.pgs_per_lun + ppa.pl * spp.pgs_per_pl
            + ppa.blk * n.pgs_per_blk + ppa.pg)

\* The pages the write pointer visits in a line, as indices of rmap.
PagesOfLine(line) ==
    {ppa2pgidx(NewPage(ch, lun, line, pg)) :
        ch \in 0 .. n.nchs - 1, lun \in 0 .. n.luns_per_ch - 1, pg \in 0 .. n.pgs_per_blk - 1}

\* mutant: rounded up
LpnRoundedUp(slba) == (slba + n.secs_per_pg - 1) \div n.secs_per_pg

\* ssd_read, ssd_write: the entry of maptbl for a logical block.
Lpn(slba) == slba \div n.secs_per_pg
-----------------------------------------------------------------------------
Realized == stage \in {"off", "ready", "failed"}
HasDrive == Realized /\ spp # None

\* The true size of the drive, and whether int and struct ppa can hold it.
Pages == n.pgs_per_blk * n.blks_per_pl * n.pls_per_lun * n.luns_per_ch * n.nchs
FitsInt == Pages < 2 ^ (IntBits - 1)
FitsPpa ==
    /\ n.nchs <= 2 ^ ChBits /\ n.luns_per_ch <= 2 ^ LunBits
    /\ n.blks_per_pl <= 2 ^ BlkBits /\ n.pgs_per_blk <= 2 ^ PgBits

\* A device exists in full or not at all: the tables a handler reads are there
\* as soon as the host can reach it, and a started one has its sizes.
TypeOK ==
    /\ stage \in {"new", "refused", "aborted", "off", "ready", "failed"}
    /\ stage \in {"new", "refused"} => bar = None /\ ctrl = None /\ ns = None /\ spp = None
    /\ Realized => bar # None /\ ctrl # None /\ ns # None
    /\ Realized => ((spp # None) <=> (n.femu_mode = "bbssd"))
    /\ spp # None <=> lm # None
    /\ stage = "ready" => sizes # None
    /\ lm # None => lm.free_line_cnt \in 0 .. lm.tt_lines

\* Every queue of a device that came up, for any number of queues that is accepted,
\* has both its doorbells inside the register block, the stride being the default
\* one (reg_size, femu.c:551, does not depend on it).  Whether it has an interrupt
\* vector is another matter: without MSI-X the device comes up all the same
\* (femu.c:497-499).
QueuesReachable ==
    Realized /\ n.db_stride = 0 =>
        \A q \in 0 .. n.nr_io_queues : 4096 + (2 * q + 1) * 4 * 2 ^ bar.dstrd + 4 <= bar.reg_size

\* The blocks of the namespace, in the format the host reads, lie inside the
\* memory of the device and leave less than a block of it unused; blocks with
\* their metadata, which ns_blks counts, lie inside it as well.
NamespaceFits ==
    Realized =>
        LET block == 2 ^ Lbads(ns.flbas % 16) IN
        /\ ns.nsze * block <= Backend
        /\ Backend < (ns.nsze + 1) * block
        /\ ns.ns_blks * (block + ns.ms) <= Backend
        /\ ns.ms = 0 => ns.ns_blks = ns.nsze

Lengths == {2 ^ k + d : k \in 9 .. 29, d \in {0, 1}}

\* Identify announces the limit on transfers in units of the smallest page size of
\* CAP, and nvme_check_mdts counts in pages of the size in use.  A device with such a
\* limit that was started allows every transfer it announced -- or none at all: pages
\* of 64 KiB and more are accepted, announced and started, and page_size, with its
\* sixteen bits, is 0 for them (nvme.h:1252, femu.c:65).  It refuses every longer
\* transfer too, unless mpsmin has lost bits in CAP (femu.c:316, 463).
MdtsAsAnnounced ==
    stage = "ready" /\ ctrl.mdts # 0 =>
        \A len \in Lengths :
            LET announced == len <= 2 ^ (ctrl.mdts + 12 + bar.mpsmin) IN
            /\ sizes.page # 0 /\ announced => TransferAllowed(len)
            /\ sizes.page = 0 => ~ TransferAllowed(len)
            /\ n.mpsmin <= 15 /\ ~ announced => ~ TransferAllowed(len)

\* When the pages of the drive can be counted in an int, the number of sectors
\* may still overflow, but no number the translation layer computes with does.
OverflowOnlyInSectors ==
    HasDrive /\ FitsInt =>
        /\ spp.tt_pgs = Pages
        /\ spp.tt_pgs = spp.tt_luns * n.pls_per_lun * spp.pgs_per_pl
        /\ spp.pgs_per_line = spp.tt_luns * n.pgs_per_blk
        /\ spp.tt_lines * spp.pgs_per_line = spp.tt_pgs

\* The write pointer visits a different page of the drive at each position of
\* each line, and, if the units have one plane, every page: lines that a
\* reduced field or a wrong factor made overlap would overwrite each other.
LinesTileTheDrive ==
    HasDrive /\ FitsInt /\ FitsPpa =>
        LET visited == UNION {PagesOfLine(line) : line \in 0 .. lm.tt_lines - 1} IN
        /\ visited \subseteq 0 .. spp.tt_pgs - 1
        /\ Cardinality(visited) = lm.tt_lines * spp.pgs_per_line
        /\ n.pls_per_lun = 1 => visited = 0 .. spp.tt_pgs - 1

\* If the drive is as large as the device's memory, no block a host may name is
\* beyond maptbl.  (Nothing compares the two; a request beyond it is only
\* logged, ftl.c:843.)
BlocksHaveEntries ==
    HasDrive /\ FitsInt /\ Backend <= Pages * n.secs_per_pg * 512 =>
        \A slba \in 0 .. ns.nsze - 1 : Lpn(slba) \in 0 .. spp.tt_pgs - 1

\* On a drive with one plane a unit, collection starts neither at once nor too
\* late: a fresh drive does not want it, forced collection is not wanted before
\* the ordinary one, and it is wanted while a line is left if the percentage
\* left over is worth two lines.
CollectionStartsInTime ==
    HasDrive /\ FitsInt /\ n.pls_per_lun = 1 =>
        /\ n.gc_thres_pcent * lm.tt_lines > 100 => lm.free_line_cnt > spp.gc_thres_lines
        /\ n.gc_thres_pcent < n.gc_thres_pcent_high
                => spp.gc_thres_lines_high <= spp.gc_thres_lines
        /\ (100 - n.gc_thres_pcent_high) * lm.tt_lines >= 200 => spp.gc_thres_lines_high >= 1
=============================================================================
