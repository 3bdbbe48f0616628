----------------------------- MODULE Lifecycle -----------------------------
(***************************************************************************)
(* The three kinds of threads of a FEMU device and the memory they share:  *)
(* the main thread, which resets and removes the device (femu.c), the      *)
(* pollers (in a file outside this repository), and the FTL thread         *)
(* (ftl.c), which is started with the device and never stops.              *)
(*                                                                         *)
(* The main thread's handlers are cut into one step per object they free,  *)
(* because the other threads do not take its lock.  Poller i serves queue  *)
(* pair i (multipoller_enabled).  A submission queue, and the requests     *)
(* allocated with it, are known by the generation of the queue pair, a     *)
(* number no other pair has: 0 is NULL, and a generation is freed once it  *)
(* is no longer in n->sq.                                                  *)
(*                                                                         *)
(* Once femu_exit has freed the rings, what the FTL thread reads is        *)
(* undefined, and the model lets it rest.                                  *)
(***************************************************************************)
EXTENDS Integers, Sequences

CONSTANTS
    NrPollers,  \* n->nr_pollers
    MaxGen      \* bound: how many queue pairs are created

ASSUME NrPollersAssumption == NrPollers \in Nat \ {0}
ASSUME MaxGenAssumption == MaxGen \in Nat

Pollers == 1 .. NrPollers
Gens    == 1 .. MaxGen
NULL    == 0

VARIABLES
    started,    \* n->dataplane_started
    sq, cq,     \* n->sq, n->cq
    created,    \* number of queue pairs created so far
    pollerOn,   \* n->poller_on
    rings,      \* n->to_ftl, n->to_poller, n->pq: how often they were allocated
    freed,      \* pollers whose rings have been freed
    arrays,     \* n->sq, n->cq and the other tables of femu_realize are allocated
    toFtl,      \* contents of to_ftl
    toPoller,   \* contents of to_poller and pq
    mpc, mi,    \* main thread: its next step, and the loop variable
    exiting,    \* main thread: nvme_clear_ctrl was called by femu_exit
    ppc, psq,   \* pollers: next step, and the queue found in n->sq
    fpc, fi,    \* FTL thread: next step, and the loop variable
    ftlRings,   \* FTL thread: ssd->to_ftl, ssd->to_poller
    freq,       \* FTL thread: req
    busy,       \* history: generations with requests under way when a reset began,
                \* and those for which a late poller has sent one
    late        \* history: pollers still in the pass in which a reset found them

ctrlVars   == <<started, sq, cq, created, pollerOn, arrays>>
ringVars   == <<rings, freed>>
queueVars  == <<toFtl, toPoller>>
mainVars   == <<mpc, mi, exiting, busy, late>>
pollerVars == <<ppc, psq>>
ftlVars    == <<fpc, fi, ftlRings, freq>>
vars == <<ctrlVars, ringVars, queueVars, mainVars, pollerVars, ftlVars>>

\* femu_realize has ended, and ssd_init has started the FTL thread.
Init ==
    /\ started = FALSE
    /\ sq = [i \in Pollers |-> NULL]
    /\ cq = [i \in Pollers |-> NULL]
    /\ created = 0
    /\ pollerOn = FALSE
    /\ rings = 0
    /\ freed = {}
    /\ arrays = TRUE
    /\ toFtl = [i \in Pollers |-> << >>]
    /\ toPoller = [i \in Pollers |-> << >>]
    /\ mpc = "run" /\ mi = 1
    /\ exiting = FALSE
    /\ ppc = [i \in Pollers |-> "none"]
    /\ psq = [i \in Pollers |-> NULL]
    /\ fpc = "wait" /\ fi = 1
    /\ ftlRings = 0
    /\ freq = NULL
    /\ busy = [i \in Pollers |-> {}]
    /\ late = {}

Elements(s) == {s[k] : k \in DOMAIN s}

\* Requests of generation g of queue i that are under way.
Outstanding(i, g) ==
    \/ g \in Elements(toFtl[i]) \cup Elements(toPoller[i])
    \/ fpc = "serve" /\ fi = i /\ freq = g

InPass(i) == ppc[i] \in {"look", "serve", "collect"}

-----------------------------------------------------------------------------
(* Main thread: admin commands of the host                                  *)

CreateQueuePair(i) ==
    /\ mpc = "run"
    /\ sq[i] = NULL /\ cq[i] = NULL
    /\ created < MaxGen
    /\ created' = created + 1
    /\ sq' = [sq EXCEPT ![i] = created']
    /\ cq' = [cq EXCEPT ![i] = created']
    /\ UNCHANGED <<started, pollerOn, arrays, ringVars, queueVars, mainVars, pollerVars, ftlVars>>

\* The doorbell buffer command hands the I/O queues over to the pollers, which
\* it creates, with their rings, the first time only.
StartDataplane ==
    /\ mpc = "run"
    /\ started' = TRUE
    /\ pollerOn' = TRUE
    /\ IF pollerOn
       THEN UNCHANGED <<rings, ppc>>
       ELSE /\ rings' = rings + 1
            /\ ppc' = [i \in Pollers |-> "idle"]
    /\ UNCHANGED <<sq, cq, created, arrays, freed, queueVars, mainVars, psq, ftlVars>>

-----------------------------------------------------------------------------
(* Main thread: nvme_clear_ctrl, called by a reset, a shutdown or femu_exit  *)

Goto(label) == mpc' = label /\ mi' = 1

\* mutant: the loop runs once too often
NextIndexTooFar(then) ==
    IF mi <= NrPollers THEN mi' = mi + 1 /\ mpc' = mpc ELSE Goto(then)

\* A for loop over the queues or pollers, and where the thread goes after it.
NextIndex(then) ==
    IF mi < NrPollers THEN mi' = mi + 1 /\ mpc' = mpc ELSE Goto(then)

\* History: what is in use when a reset begins.  Only requests count as in use;
\* a poller inside a pass may have found none at all.
NoteBusy ==
    /\ busy' = [i \in Pollers |-> busy[i] \cup {g \in Gens : Outstanding(i, g)}]
    /\ late' = late \cup {i \in Pollers : InPass(i)}

\* mutant: dataplane_started is not cleared
BeginClearUnpaused(exit) ==
    /\ mpc = "run"
    /\ NoteBusy
    /\ exiting' = exit
    /\ Goto("free_sq")
    /\ UNCHANGED <<ctrlVars, ringVars, queueVars, pollerVars, ftlVars>>

\* mutant: femu_exit destroys the pollers before it clears the controller
BeginClearAfterJoin(exit) ==
    /\ mpc = "run"
    /\ started' = (started /\ exit)
    /\ NoteBusy
    /\ exiting' = exit
    /\ Goto(IF exit THEN "join" ELSE "free_sq")
    /\ UNCHANGED <<sq, cq, created, pollerOn, arrays, ringVars, queueVars, pollerVars, ftlVars>>

BeginClear(exit) ==
    /\ mpc = "run"
    /\ started' = FALSE
    /\ NoteBusy
    /\ exiting' = exit
    /\ Goto("free_sq")
    /\ UNCHANGED <<sq, cq, created, pollerOn, arrays, ringVars, queueVars, pollerVars, ftlVars>>

FreeSq ==
    /\ mpc = "free_sq"
    /\ sq' = [sq EXCEPT ![mi] = NULL]
    /\ NextIndex("free_cq")
    /\ UNCHANGED <<started, cq, created, pollerOn, arrays, exiting, busy, late>>
    /\ UNCHANGED <<ringVars, queueVars, pollerVars, ftlVars>>

FreeCq ==
    /\ mpc = "free_cq"
    /\ cq' = [cq EXCEPT ![mi] = NULL]
    /\ NextIndex(IF exiting THEN "join" ELSE "run")
    /\ UNCHANGED <<started, sq, created, pollerOn, arrays, exiting, busy, late>>
    /\ UNCHANGED <<ringVars, queueVars, pollerVars, ftlVars>>

-----------------------------------------------------------------------------
(* Main thread: the rest of femu_exit                                        *)

\* mutant: the last poller is not joined
JoinAllButLast ==
    /\ mpc = "join"
    /\ ~ pollerOn \/ ppc[mi] = "done" \/ mi = NrPollers
    /\ NextIndex("free_rings")
    /\ UNCHANGED <<exiting, busy, late, ctrlVars, ringVars, queueVars, pollerVars, ftlVars>>

\* nvme_destroy_poller; nr_pollers is 0 unless the pollers were created.
JoinPoller ==
    /\ mpc = "join"
    /\ ~ pollerOn \/ ppc[mi] = "done"
    /\ NextIndex("free_rings")
    /\ UNCHANGED <<exiting, busy, late, ctrlVars, ringVars, queueVars, pollerVars, ftlVars>>

FreeRings ==
    /\ mpc = "free_rings"
    /\ freed' = IF pollerOn THEN freed \cup {mi} ELSE freed
    /\ NextIndex("free_arrays")
    /\ UNCHANGED <<exiting, busy, late, rings, ctrlVars, queueVars, pollerVars, ftlVars>>

FreeArrays ==
    /\ mpc = "free_arrays"
    /\ arrays' = FALSE
    /\ Goto("gone")
    /\ UNCHANGED <<started, sq, cq, created, pollerOn, exiting, busy, late>>
    /\ UNCHANGED <<ringVars, queueVars, pollerVars, ftlVars>>

-----------------------------------------------------------------------------
(* Pollers, as femu.c and ftl.c need them to behave                          *)

\* A pass begins only while the dataplane is started.
PollerBegin(i) ==
    /\ ppc[i] = "idle"
    /\ started
    /\ ppc' = [ppc EXCEPT ![i] = "look"]
    /\ UNCHANGED <<psq, ctrlVars, ringVars, queueVars, mainVars, ftlVars>>

PollerLook(i) ==
    /\ ppc[i] = "look"
    /\ IF sq[i] # NULL /\ cq[i] # NULL
       THEN psq' = [psq EXCEPT ![i] = sq[i]] /\ ppc' = [ppc EXCEPT ![i] = "serve"]
       ELSE psq' = psq /\ ppc' = [ppc EXCEPT ![i] = "collect"]
    /\ UNCHANGED <<ctrlVars, ringVars, queueVars, mainVars, ftlVars>>

\* It finds no command, or sends one of the queue's requests to the FTL thread.
PollerServe(i) ==
    /\ ppc[i] = "serve"
    /\ \/ UNCHANGED toFtl
       \/ ~ Outstanding(i, psq[i]) /\ toFtl' = [toFtl EXCEPT ![i] = Append(@, psq[i])]
    /\ busy' = IF toFtl' # toFtl /\ i \in late THEN [busy EXCEPT ![i] = @ \cup {psq[i]}] ELSE busy
    /\ ppc' = [ppc EXCEPT ![i] = "collect"]
    /\ psq' = [psq EXCEPT ![i] = NULL]
    /\ UNCHANGED <<toPoller, ctrlVars, ringVars, mpc, mi, exiting, late, ftlVars>>

\* It completes a request whose time has come, or none.
PollerCollect(i) ==
    /\ ppc[i] = "collect"
    /\ \/ UNCHANGED toPoller
       \/ toPoller[i] # << >> /\ toPoller' = [toPoller EXCEPT ![i] = Tail(@)]
    /\ ppc' = [ppc EXCEPT ![i] = "idle"]
    /\ late' = late \ {i}
    /\ UNCHANGED <<psq, toFtl, ctrlVars, ringVars, mpc, mi, exiting, busy, ftlVars>>

\* Nothing in FemuCtrl tells a poller whether the dataplane was stopped by a reset
\* or by femu_exit, and whether a poller returns is decided outside the repository:
\* one that is paused may return, or may not.
PollerReturn(i) ==
    /\ ppc[i] = "idle"
    /\ ~ started
    /\ ppc' = [ppc EXCEPT ![i] = "done"]
    /\ UNCHANGED <<psq, ctrlVars, ringVars, queueVars, mainVars, ftlVars>>

-----------------------------------------------------------------------------
(* FTL thread *)

NextRing == fi' = IF fi < NrPollers THEN fi + 1 ELSE 1

\* mutant: the rings are looked up before the wait for the dataplane
FtlStartEarly ==
    /\ fpc = "wait"
    /\ ftlRings' = rings
    /\ fpc' = "poll"
    /\ UNCHANGED <<fi, freq, ctrlVars, ringVars, queueVars, mainVars, pollerVars>>

FtlStart ==
    /\ fpc = "wait"
    /\ started
    /\ ftlRings' = rings
    /\ fpc' = "poll"
    /\ UNCHANGED <<fi, freq, ctrlVars, ringVars, queueVars, mainVars, pollerVars>>

FtlSkip ==
    /\ fpc = "poll"
    /\ fi \notin freed
    /\ toFtl[fi] = << >>
    /\ NextRing
    /\ UNCHANGED <<fpc, ftlRings, freq, ctrlVars, ringVars, queueVars, mainVars, pollerVars>>

\* mutant: the thread rests while the dataplane is stopped
FtlTakeWhileStarted ==
    /\ fpc = "poll"
    /\ started
    /\ fi \notin freed
    /\ toFtl[fi] # << >>
    /\ freq' = Head(toFtl[fi])
    /\ toFtl' = [toFtl EXCEPT ![fi] = Tail(@)]
    /\ fpc' = "serve"
    /\ UNCHANGED <<fi, ftlRings, toPoller, ctrlVars, ringVars, mainVars, pollerVars>>

FtlTake ==
    /\ fpc = "poll"
    /\ fi \notin freed
    /\ toFtl[fi] # << >>
    /\ freq' = Head(toFtl[fi])
    /\ toFtl' = [toFtl EXCEPT ![fi] = Tail(@)]
    /\ fpc' = "serve"
    /\ UNCHANGED <<fi, ftlRings, toPoller, ctrlVars, ringVars, mainVars, pollerVars>>

FtlReturn ==
    /\ fpc = "serve"
    /\ fi \notin freed
    /\ toPoller' = [toPoller EXCEPT ![fi] = Append(@, freq)]
    /\ freq' = NULL
    /\ fpc' = "poll"
    /\ NextRing
    /\ UNCHANGED <<ftlRings, toFtl, ctrlVars, ringVars, mainVars, pollerVars>>

-----------------------------------------------------------------------------
Host == (\E i \in Pollers : CreateQueuePair(i)) \/ StartDataplane \/ (\E exit \in BOOLEAN : BeginClear(exit))
Clear == FreeSq \/ FreeCq
Exit == JoinPoller \/ FreeRings \/ FreeArrays
Pass(i) == PollerBegin(i) \/ PollerLook(i) \/ PollerServe(i) \/ PollerCollect(i)
Poller(i) == Pass(i) \/ PollerReturn(i)
Ftl == FtlStart \/ FtlSkip \/ FtlTake \/ FtlReturn

Next == Host \/ Clear \/ Exit \/ (\E i \in Pollers : Poller(i)) \/ Ftl

Spec == Init /\ [][Next]_vars

\* Handlers that have begun run to their end, and threads are scheduled; nothing
\* obliges the host, nor a paused poller to return.
FairSpec ==
    /\ Spec
    /\ WF_vars(Clear \/ Exit)
    /\ \A i \in Pollers : WF_vars(Pass(i))
    /\ WF_vars(Ftl)

-----------------------------------------------------------------------------
\* Every loop variable stays within its array, and the rings are allocated once.
TypeOK ==
    /\ {started, pollerOn, arrays, exiting} \subseteq BOOLEAN
    /\ {sq, cq, psq} \subseteq [Pollers -> 0 .. MaxGen] /\ created \in 0 .. MaxGen
    /\ rings \in 0 .. 1 /\ ftlRings \in 0 .. 1
    /\ freed \subseteq Pollers
    /\ {toFtl, toPoller} \subseteq [Pollers -> Seq(Gens)]
    /\ mpc \in {"run", "free_sq", "free_cq", "join", "free_rings", "free_arrays", "gone"}
    /\ mi \in Pollers
    /\ ppc \in [Pollers -> {"none", "idle", "look", "serve", "collect", "done"}]
    /\ fpc \in {"wait", "poll", "serve"} /\ fi \in Pollers
    /\ freq \in 0 .. MaxGen
    /\ busy \in [Pollers -> SUBSET Gens] /\ late \subseteq Pollers

\* The FTL thread copies the ring pointers once, at the first start it notices,
\* and keeps them for ever: they are the rings that the pollers use, after any
\* number of resets and restarts (ftl.c:932-938, marked "not safe" there).
RingsShared == fpc # "wait" => ftlRings = rings /\ rings # 0

\* Whatever point of its loop a poller has reached when the device is removed,
\* its rings, its priority queue and the tables of queues are not freed under
\* it (femu.c:571-588, 599-611).
PollersOnLiveMemory ==
    \A i \in Pollers : InPass(i) => rings # 0 /\ i \notin freed /\ arrays

\* nvme_clear_ctrl frees queues without waiting for pollers or for requests on
\* their way (femu.c:12-35), so memory can be used after it was freed: a queue by
\* a poller that polls it, even for a host whose requests are all back, and a
\* request by the FTL thread and the rings.  Stopping the dataplane first bounds
\* that use: a freed queue is used by the pass in which the reset found its poller
\* and by no later one, and the freed requests still used are those that were
\* under way when the reset began or that such a pass has sent.
FreedUseBounded == \A i \in Pollers, g \in Gens :
    g # sq[i] => /\ psq[i] = g => i \in late
                 /\ Outstanding(i, g) => g \in busy[i]

\* What nvme_destroy_poller expects of the pollers' function, which is not in this
\* repository: one that stays paused returns.
PausedPollersReturn == \A i \in Pollers :
    ppc[i] = "idle" /\ ~ started ~> started \/ ppc[i] = "done"

\* femu_exit waits for nothing but paused pollers: the dataplane is stopped before
\* they are joined, and stays stopped, so every poller gets to the end of its pass.
\* Whether one that is paused then returns is outside this code, which has no
\* signal to tell it so; if they do, femu_exit ends (femu.c:571-588, 599-611).
ExitEnds == PausedPollersReturn => (exiting ~> mpc = "gone")

\* A reset pauses the pollers and not the FTL thread: what they have sent to it
\* before is worked off, whether or not the dataplane is started again -- also
\* when the reset has freed the memory the request lies in (FreedUseBounded).
RequestsDrain == \A i \in Pollers, g \in Gens :
    fpc # "wait" /\ g \in Elements(toFtl[i]) ~> g \notin Elements(toFtl[i]) \/ exiting
=============================================================================
