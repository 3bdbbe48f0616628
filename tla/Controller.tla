----------------------------- MODULE Controller -----------------------------
(***************************************************************************)
(* The register file and the doorbells of femu.c: nvme_mmio_write with     *)
(* nvme_write_bar, nvme_start_ctrl, nvme_clear_ctrl and the two doorbell   *)
(* handlers.  A handler runs to its end under the lock of the virtual      *)
(* machine, so each MMIO write is one step; the host may write anything.   *)
(*                                                                         *)
(* Left out: the interrupt masks, which nothing reads, interrupts, the     *)
(* temperature fields and the sizes derived from the page size.  The admin *)
(* commands are implemented in files outside this repository; what matters *)
(* here is which queues they create and delete and that the doorbell       *)
(* buffer configuration hands the I/O queues over to the pollers.          *)
(***************************************************************************)
EXTENDS Integers

CONSTANTS
    NrIoQueues,     \* n->nr_io_queues
    DbStride,       \* n->db_stride
    MpsMin, MpsMax, \* n->mpsmin, n->mpsmax
    Mps,            \* page size codes the host writes to CC
    Lows,           \* low halves of queue addresses, in units of 2 KiB
    HighBits,       \* address bits above 31 the host uses
    AqaSizes,       \* queue sizes the host writes to AQA
    IoSize,         \* entries of an I/O queue
    MaxAddr,        \* bound: last doorbell offset written
    MaxVal          \* bound: greatest doorbell value written (the handlers look at 16 bits)

\* What nvme_check_constraints demands of the properties modelled here; it sets no
\* bound to mpsmin (femu.c:316).
ASSUME ConstraintsAssumption ==
    /\ NrIoQueues \in Nat \ {0}
    /\ DbStride \in 0 .. 12
    /\ MpsMin \in Nat /\ MpsMax \in 0 .. 15 /\ MpsMax <= MpsMin
ASSUME HostAssumption ==
    /\ Mps \subseteq 0 .. 15 /\ Lows \subseteq Nat /\ AqaSizes \subseteq 0 .. 4095
    /\ IoSize \in Nat \ {0} /\ MaxAddr \in Nat /\ MaxVal \in Nat

Qids == 0 .. NrIoQueues
NULL == [size |-> 0]

VARIABLES
    cc,         \* n->bar.cc
    csts,       \* n->bar.csts: the bits set
    aqa,        \* n->bar.aqa
    base,       \* n->bar.asq and n->bar.acq
    cq, sq,     \* n->cq, n->sq
    dataplane,  \* n->dataplane_started
    dbs,        \* n->dbs_addr, n->eis_addr: is a doorbell buffer configured
    given,      \* history: the host gave a doorbell buffer since the last reset
    mmio        \* history: the doorbell just written

vars == <<cc, csts, aqa, base, cq, sq, dataplane, dbs, given, mmio>>

Regs     == {"asq", "acq"}
CcValues == [en : BOOLEAN, shn : BOOLEAN, mps : Mps, qes : BOOLEAN]
Zero     == [en |-> FALSE, shn |-> FALSE, mps |-> 0, qes |-> FALSE]
Address  == [low : Lows \cup {0}, high : SUBSET HighBits]
Nowhere  == [low |-> 0, high |-> {}]
NoMmio   == <<-1, 0>>
NoQueues == [q \in Qids |-> NULL]

Init ==
    /\ cc = Zero
    /\ csts = {}
    /\ aqa = [asqs |-> 0, acqs |-> 0]
    /\ base = [r \in Regs |-> Nowhere]
    /\ cq = NoQueues
    /\ sq = NoQueues
    /\ dataplane = FALSE
    /\ dbs = FALSE
    /\ given = FALSE
    /\ mmio = NoMmio

-----------------------------------------------------------------------------
(* CC: the handler is a sequence of three tests, each a function on this    *)
(* part of the state.                                                       *)

Ctrl == [cc |-> cc, csts |-> csts, cq |-> cq, sq |-> sq, dataplane |-> dataplane, dbs |-> dbs]

CtrlBecomes(s) ==
    /\ cc' = s.cc
    /\ csts' = s.csts
    /\ cq' = s.cq
    /\ sq' = s.sq
    /\ dataplane' = s.dataplane
    /\ dbs' = s.dbs

\* mutant: the loops over the queues start with the first I/O queue
ClearFromOne(s) ==
    [s EXCEPT !.cc = Zero, !.dataplane = FALSE, !.dbs = FALSE,
              !.cq = [q \in Qids |-> IF q = 0 THEN @[q] ELSE NULL],
              !.sq = [q \in Qids |-> IF q = 0 THEN @[q] ELSE NULL]]

\* mutant: dbs_addr is not cleared
ClearKeepDbs(s) ==
    [s EXCEPT !.cc = Zero, !.cq = NoQueues, !.sq = NoQueues, !.dataplane = FALSE]

ClearCtrl(s) ==
    [s EXCEPT !.cc = Zero, !.cq = NoQueues, !.sq = NoQueues,
              !.dataplane = FALSE, !.dbs = FALSE]

Unset(addr)        == addr.low = 0 /\ addr.high = {}
Aligned(addr, mps) == addr.low % 2 ^ (mps + 1) = 0

\* CAP has four bits for the smallest page size, and keeps those of mpsmin.
CapMpsMin == MpsMin % 16

Startable(s) ==
    /\ s.cq[0] = NULL /\ s.sq[0] = NULL
    /\ \A r \in Regs : ~ Unset(base[r]) /\ Aligned(base[r], s.cc.mps)
    /\ CapMpsMin <= s.cc.mps /\ s.cc.mps <= MpsMax
    /\ s.cc.qes
    /\ aqa.asqs # 0 /\ aqa.acqs # 0

StartCtrl(s) ==
    IF Startable(s)
    THEN [s EXCEPT !.csts = {"RDY"},
                   !.cq[0] = [size |-> aqa.acqs + 1, head |-> 0, shadow |-> FALSE],
                   !.sq[0] = [size |-> aqa.asqs + 1, tail |-> 0, shadow |-> FALSE]]
    ELSE [s EXCEPT !.csts = {"CFS"}]

Configure(s, d) ==
    IF ~ d.en /\ ~ s.cc.en /\ ~ d.shn /\ ~ s.cc.shn THEN [s EXCEPT !.cc = d] ELSE s

EnableDisable(s, d) ==
    CASE d.en /\ ~ s.cc.en -> StartCtrl([s EXCEPT !.cc = d])
      [] ~ d.en /\ s.cc.en -> [ClearCtrl(s) EXCEPT !.csts = @ \ {"RDY"}]
      [] OTHER -> s

\* mutant: the end of the shutdown is not announced
ShutdownSilently(s, d) ==
    CASE d.shn /\ ~ s.cc.shn -> [ClearCtrl(s) EXCEPT !.cc = d]
      [] ~ d.shn /\ s.cc.shn -> [s EXCEPT !.cc = d, !.csts = @ \ {"SHST"}]
      [] OTHER -> s

Shutdown(s, d) ==
    CASE d.shn /\ ~ s.cc.shn -> [ClearCtrl(s) EXCEPT !.cc = d, !.csts = @ \cup {"SHST"}]
      [] ~ d.shn /\ s.cc.shn -> [s EXCEPT !.cc = d, !.csts = @ \ {"SHST"}]
      [] OTHER -> s

\* The host resets or shuts down, and knows that queues and buffers are gone.
Restarts(d) == (~ d.en /\ cc.en) \/ (d.shn /\ ~ cc.shn)

\* mutant: shutdown is looked at before enabling
WriteCcShutdownFirst(d) ==
    LET s == EnableDisable(Shutdown(Configure(Ctrl, d), d), d) IN
    /\ CtrlBecomes(s)
    /\ given' = (given /\ ~ Restarts(d))
    /\ mmio' = NoMmio
    /\ UNCHANGED <<aqa, base>>

WriteCc(d) ==
    LET s == Shutdown(EnableDisable(Configure(Ctrl, d), d), d) IN
    /\ CtrlBecomes(s)
    /\ given' = (given /\ ~ Restarts(d))
    /\ mmio' = NoMmio
    /\ UNCHANGED <<aqa, base>>

WriteAqa(asqs, acqs) ==
    /\ aqa' = [asqs |-> asqs, acqs |-> acqs]
    /\ mmio' = NoMmio
    /\ UNCHANGED <<cc, csts, base, cq, sq, dataplane, dbs, given>>

\* Four bytes (no high bits) or eight at the address of the register.
WriteBaseLow(r, addr) ==
    /\ base' = [base EXCEPT ![r] = addr]
    /\ mmio' = NoMmio
    /\ UNCHANGED <<cc, csts, aqa, cq, sq, dataplane, dbs, given>>

\* The high half is only ever merged in.
WriteBaseHigh(r, high) ==
    /\ base' = [base EXCEPT ![r].high = @ \cup high]
    /\ mmio' = NoMmio
    /\ UNCHANGED <<cc, csts, aqa, cq, sq, dataplane, dbs, given>>

-----------------------------------------------------------------------------
(* Doorbells, at an offset from 0x1000 *)

DbSize == 4 * 2 ^ DbStride

\* The handlers are called for accesses of two bytes or more.
DbAddrs == {addr \in 0 .. MaxAddr : addr % 2 = 0}

\* mutant: shifted by one bit too many
IsCqDoorbellShifted(addr) == (addr \div (2 * DbSize)) % 2 = 1

IsCqDoorbell(addr) == (addr \div DbSize) % 2 = 1
DoorbellQid(addr)  == addr \div (2 * DbSize)

Exists(queues, q) == q \in Qids /\ queues[q] # NULL

\* mutant: a value equal to the size is accepted
AcceptedAtSize(queues, q, val) == Exists(queues, q) /\ val <= queues[q].size

Accepted(queues, q, val) == Exists(queues, q) /\ val < queues[q].size

\* What the commands found in the admin queue may do to the I/O queues.
AdminResults(s) ==
    LET io == Qids \ {0}
        Served(queues) == [q \in Qids |->
            IF q # 0 /\ queues[q] # NULL THEN [queues[q] EXCEPT !.shadow = TRUE] ELSE queues[q]]
    IN  {s}
        \cup {[s EXCEPT !.cq[q] = [size |-> IoSize, head |-> 0, shadow |-> s.dbs]] :
                    q \in {p \in io : s.cq[p] = NULL}}
        \cup {[s EXCEPT !.sq[q] = [size |-> IoSize, tail |-> 0, shadow |-> s.dbs]] :
                    q \in {p \in io : s.cq[p] # NULL /\ s.sq[p] = NULL}}
        \cup {[s EXCEPT !.sq[q] = NULL] : q \in {p \in io : s.sq[p] # NULL}}
        \cup {[s EXCEPT !.cq[q] = NULL] : q \in {p \in io : s.cq[p] # NULL /\ s.sq[p] = NULL}}
        \cup {[s EXCEPT !.dbs = TRUE, !.dataplane = TRUE, !.cq = Served(@), !.sq = Served(@)]}

ProcessDbAdmin(addr, val) ==
    LET q == DoorbellQid(addr) IN
    IF IsCqDoorbell(addr)
    THEN CtrlBecomes(IF Accepted(cq, q, val) THEN [Ctrl EXCEPT !.cq[q].head = val] ELSE Ctrl)
    ELSE IF Accepted(sq, q, val)
         THEN \E s \in AdminResults([Ctrl EXCEPT !.sq[q].tail = val]) : CtrlBecomes(s)
         ELSE CtrlBecomes(Ctrl)

\* mutant: I/O doorbells are taken although the pollers are running
ProcessDbIoAlways(addr, val) ==
    LET q == DoorbellQid(addr)
        aligned == addr % DbSize = 0
    IN  CtrlBecomes(
            CASE aligned /\ IsCqDoorbell(addr) /\ Accepted(cq, q, val) -> [Ctrl EXCEPT !.cq[q].head = val]
              [] aligned /\ ~ IsCqDoorbell(addr) /\ Accepted(sq, q, val) -> [Ctrl EXCEPT !.sq[q].tail = val]
              [] OTHER -> Ctrl)

ProcessDbIo(addr, val) ==
    LET q == DoorbellQid(addr)
        served == ~ dataplane /\ addr % DbSize = 0
    IN  CtrlBecomes(
            CASE served /\ IsCqDoorbell(addr) /\ Accepted(cq, q, val) /\ ~ cq[q].shadow ->
                    [Ctrl EXCEPT !.cq[q].head = val]
              [] served /\ ~ IsCqDoorbell(addr) /\ Accepted(sq, q, val) /\ ~ sq[q].shadow ->
                    [Ctrl EXCEPT !.sq[q].tail = val]
              [] OTHER -> Ctrl)

WriteDoorbell(addr, val) ==
    /\ IF addr < 8 THEN ProcessDbAdmin(addr, val) ELSE ProcessDbIo(addr, val)
    /\ given' = (given \/ (dataplane' /\ ~ dataplane))
    /\ mmio' = <<addr, val>>
    /\ UNCHANGED <<aqa, base>>

Next ==
    \/ \E d \in CcValues : WriteCc(d)
    \/ \E asqs, acqs \in AqaSizes : WriteAqa(asqs, acqs)
    \/ \E r \in Regs, addr \in Address : WriteBaseLow(r, addr)
    \/ \E r \in Regs, high \in SUBSET HighBits : WriteBaseHigh(r, high)
    \/ \E addr \in DbAddrs, val \in 0 .. MaxVal : WriteDoorbell(addr, val)

Spec == Init /\ [][Next]_vars
-----------------------------------------------------------------------------
CqType == [size : Nat, head : Nat, shadow : BOOLEAN]
SqType == [size : Nat, tail : Nat, shadow : BOOLEAN]

\* The registers hold values a host can write, and no queue's index is ever
\* outside the queue: the pollers use it unchecked.
TypeOK ==
    /\ cc \in CcValues \cup {Zero}
    /\ csts \subseteq {"RDY", "CFS", "SHST"}
    /\ aqa \in [asqs : AqaSizes \cup {0}, acqs : AqaSizes \cup {0}]
    /\ base \in [Regs -> Address]
    /\ cq \in [Qids -> CqType \cup {NULL}]
    /\ sq \in [Qids -> SqType \cup {NULL}]
    /\ \A q \in Qids : cq[q] # NULL => cq[q].head < cq[q].size
    /\ \A q \in Qids : sq[q] # NULL => sq[q].tail < sq[q].size
    /\ {dataplane, dbs, given} \subseteq BOOLEAN
    /\ mmio \in (-1 .. MaxAddr) \X (0 .. MaxVal)

\* Queues exist, and pollers run on them, only while CSTS says that the
\* controller is ready and neither failed nor shut down; whatever order of
\* resets, shutdowns and enables the host writes to CC (femu.c:94-123).
QueuesOnlyWhenReady ==
    \/ \E q \in Qids : cq[q] # NULL \/ sq[q] # NULL
    \/ dataplane
    => cc.en /\ csts = {"RDY"} /\ cq[0] # NULL /\ sq[0] # NULL

\* What the host must have set before it enables the controller, the page size
\* being the smallest one that CAP announces.
WellConfigured ==
    /\ cc.mps = CapMpsMin
    /\ cc.qes
    /\ \A r \in Regs : ~ Unset(base[r]) /\ Aligned(base[r], cc.mps)
    /\ aqa.asqs # 0 /\ aqa.acqs # 0

\* A well configured controller becomes ready whenever it is enabled, after any
\* history of failed starts, resets and shutdowns (nvme_start_ctrl refuses to
\* start over admin queues that are left, femu.c:51).
RestartSucceeds ==
    [][~ cc.en /\ cc'.en /\ WellConfigured' => csts' = {"RDY"} /\ cq'[0] # NULL /\ sq'[0] # NULL]_vars

\* The controller never drops the host's queues without saying so in CSTS.
QueueLossReported ==
    [][cq[0] # NULL /\ cq'[0] = NULL => "RDY" \notin csts' \/ "SHST" \in csts']_vars

\* No queue has its doorbells in memory the host gave before its last reset,
\* which it may have put to another use since (nvme_clear_ctrl femu.c:40-43).
ShadowOnlyIfGiven ==
    \A q \in Qids :
        \/ cq[q] # NULL /\ cq[q].shadow
        \/ sq[q] # NULL /\ sq[q].shadow
        => given

\* Where the specification of NVMe puts the doorbells of queue q.
SqDoorbell(q) == 2 * q * DbSize
CqDoorbell(q) == (2 * q + 1) * DbSize

\* The offsets that reach the doorbell at start of queue q: that one alone, or any
\* in the register for the admin queues, whose handler does not check alignment.
Reaches(q, start) == IF q = 0 THEN start .. start + DbSize - 1 ELSE {start}

\* Whatever offset is written, the index of a queue moves only by a write to its own
\* doorbell and to the value written, and never while the pollers serve the queue
\* from a doorbell buffer (femu.c:155-244).
DoorbellsHitOwnQueue ==
    [][\A q \in Qids :
        /\ cq[q] # NULL /\ cq'[q] # NULL /\ cq'[q].head # cq[q].head
           => mmio'[1] \in Reaches(q, CqDoorbell(q)) /\ mmio'[2] = cq'[q].head /\ ~ cq[q].shadow
        /\ sq[q] # NULL /\ sq'[q] # NULL /\ sq'[q].tail # sq[q].tail
           => mmio'[1] \in Reaches(q, SqDoorbell(q)) /\ mmio'[2] = sq'[q].tail /\ ~ sq[q].shadow]_vars

\* A legal doorbell value of a queue without a doorbell buffer, the admin queues
\* always among them, is never ignored.
DoorbellsReach ==
    \A q \in Qids :
        /\ cq[q] # NULL /\ ~ cq[q].shadow /\ mmio[1] = CqDoorbell(q) /\ mmio[2] < cq[q].size
           => cq[q].head = mmio[2]
        /\ sq[q] # NULL /\ ~ sq[q].shadow /\ mmio[1] = SqDoorbell(q) /\ mmio[2] < sq[q].size
           => sq[q].tail = mmio[2]
=============================================================================
