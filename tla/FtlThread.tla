----------------------------- MODULE FtlThread -----------------------------
(***************************************************************************)
(* ftl_thread of ftl.c between the pollers: requests reach it on one ring  *)
(* per poller, are served in turn, are charged a latency and go back on    *)
(* the ring of the poller they came from.                                  *)
(*                                                                         *)
(* What ssd_write and ssd_read do to the drive is the subject of FTL, the  *)
(* latency they return that of NandTiming; here it is any of Lats.  The    *)
(* thread's last statement, background collection, touches no request.     *)
(* That femu_ring_dequeue fails is impossible: the ring was seen non-empty *)
(* and the thread is its only consumer.                                    *)
(***************************************************************************)
EXTENDS Naturals, Sequences, FiniteSets

CONSTANTS
    NrPollers,      \* n->nr_pollers
    Req,            \* the NvmeRequest objects of all submission queues
    RingSize,       \* requests a ring can hold (FEMU_MAX_INF_REQS)
    Lats,           \* what ssd_write and ssd_read may return
    MaxTime         \* bound: last instant of the clock

Pollers == 1 .. NrPollers
Opcodes == {"write", "read", "dsm", "other"}
NONE    == 0        \* no poller: the request object is unused

ASSUME PollerAssumption == NrPollers \in Nat \ {0} /\ RingSize \in Nat \ {0}
ASSUME LatsAssumption   == Lats \subseteq Nat /\ Lats # {}

VARIABLES
    toFtl,      \* n->to_ftl
    toPoller,   \* n->to_poller
    pq,         \* n->pq: requests waiting for their expire_time
    op,         \* req->cmd.opcode
    stime,      \* req->stime
    reqlat,     \* req->reqlat
    expire,     \* req->expire_time
    owner,      \* history: the poller that submitted the request
    work,       \* history: what serving the request was worth
    started,    \* n->dataplane_started
    now,        \* the clock
    pc, i, req, lat     \* ftl_thread: next step, and its local variables

reqFields  == <<op, stime, reqlat, expire>>
rings      == <<toFtl, toPoller, pq>>
history    == <<owner, work>>
threadVars == <<pc, i, req, lat>>
vars == <<rings, reqFields, history, started, now, threadVars>>

Init ==
    /\ toFtl = [p \in Pollers |-> << >>]
    /\ toPoller = [p \in Pollers |-> << >>]
    /\ pq = [p \in Pollers |-> {}]
    /\ op = [r \in Req |-> "other"]
    /\ stime = [r \in Req |-> 0]
    /\ reqlat = [r \in Req |-> 0]
    /\ expire = [r \in Req |-> 0]
    /\ owner = [r \in Req |-> NONE]
    /\ work = [r \in Req |-> 0]
    /\ started = FALSE
    /\ now = 0
    /\ pc = "wait"
    /\ i = 1
    /\ req \in Req      \* NULL in the code; never used before it is assigned
    /\ lat = 0

-----------------------------------------------------------------------------
(* ftl_thread *)

\* mutant: the loop runs one index too far
NextPollerTooFar == i' = IF i <= NrPollers THEN i + 1 ELSE 1

\* The for loop over the pollers inside while (1).
NextPoller == i' = IF i < NrPollers THEN i + 1 ELSE 1

Wait ==
    /\ pc = "wait"
    /\ started
    /\ pc' = "scan"
    /\ UNCHANGED <<rings, reqFields, history, started, now, i, req, lat>>

Skip ==
    /\ pc = "scan"
    /\ toFtl[i] = << >>
    /\ NextPoller
    /\ UNCHANGED <<rings, reqFields, history, started, now, pc, req, lat>>

Dequeue ==
    /\ pc = "scan"
    /\ toFtl[i] # << >>
    /\ req' = Head(toFtl[i])
    /\ toFtl' = [toFtl EXCEPT ![i] = Tail(@)]
    /\ pc' = "serve"
    /\ UNCHANGED <<toPoller, pq, reqFields, history, started, now, i, lat>>

\* mutant: no case for NVME_CMD_DSM
ServeDsmAsOther ==
    /\ pc = "serve"
    /\ IF op[req] \in {"write", "read"}
       THEN lat' \in Lats /\ work' = [work EXCEPT ![req] = lat']
       ELSE lat' = lat /\ work' = [work EXCEPT ![req] = 0]
    /\ pc' = "charge"
    /\ UNCHANGED <<rings, reqFields, owner, started, now, i, req>>

\* The switch: the default case leaves lat as the last request left it.
Serve ==
    /\ pc = "serve"
    /\ CASE op[req] \in {"write", "read"} -> lat' \in Lats /\ work' = [work EXCEPT ![req] = lat']
         [] op[req] = "dsm" -> lat' = 0 /\ work' = [work EXCEPT ![req] = 0]
         [] op[req] = "other" -> lat' = lat /\ work' = [work EXCEPT ![req] = 0]
    /\ pc' = "charge"
    /\ UNCHANGED <<rings, reqFields, owner, started, now, i, req>>

Charge ==
    /\ pc = "charge"
    /\ reqlat' = [reqlat EXCEPT ![req] = lat]
    /\ expire' = [expire EXCEPT ![req] = @ + lat]
    /\ pc' = "return"
    /\ UNCHANGED <<rings, op, stime, history, started, now, i, req, lat>>

\* mutant: a ring of n slots holds n - 1 requests
FullAtLastSlot(ring) == Len(ring) >= RingSize - 1

Full(ring) == Len(ring) >= RingSize

\* mutant: every request goes back on the ring of the first poller
ReturnToFirst ==
    /\ pc = "return"
    /\ IF Full(toPoller[1])
       THEN owner' = [owner EXCEPT ![req] = NONE] /\ UNCHANGED toPoller
       ELSE toPoller' = [toPoller EXCEPT ![1] = Append(@, req)] /\ UNCHANGED owner
    /\ NextPoller
    /\ pc' = "scan"
    /\ UNCHANGED <<toFtl, pq, reqFields, work, started, now, req, lat>>

\* mutant: the ring of one poller is emptied before the next is looked at
ReturnAndStay ==
    /\ pc = "return"
    /\ IF Full(toPoller[i])
       THEN owner' = [owner EXCEPT ![req] = NONE] /\ UNCHANGED toPoller
       ELSE toPoller' = [toPoller EXCEPT ![i] = Append(@, req)] /\ UNCHANGED owner
    /\ pc' = "scan"
    /\ UNCHANGED <<toFtl, pq, reqFields, work, started, now, i, req, lat>>

\* A request that does not fit on its poller's ring is only reported: nobody
\* holds it any more.
Return ==
    /\ pc = "return"
    /\ IF Full(toPoller[i])
       THEN owner' = [owner EXCEPT ![req] = NONE] /\ UNCHANGED toPoller
       ELSE toPoller' = [toPoller EXCEPT ![i] = Append(@, req)] /\ UNCHANGED owner
    /\ NextPoller
    /\ pc' = "scan"
    /\ UNCHANGED <<toFtl, pq, reqFields, work, started, now, req, lat>>

FtlStep == Wait \/ Skip \/ Dequeue \/ Serve \/ Charge \/ Return

-----------------------------------------------------------------------------
(* The pollers and the admin queue, in files of FEMU outside this repository *)

StartDataplane ==
    /\ ~ started
    /\ started' = TRUE
    /\ UNCHANGED <<rings, reqFields, history, now, threadVars>>

Submit(p, r, o) ==
    /\ started
    /\ owner[r] = NONE
    /\ ~ Full(toFtl[p])
    /\ toFtl' = [toFtl EXCEPT ![p] = Append(@, r)]
    /\ op' = [op EXCEPT ![r] = o]
    /\ stime' = [stime EXCEPT ![r] = now]
    /\ expire' = [expire EXCEPT ![r] = now]
    /\ owner' = [owner EXCEPT ![r] = p]
    /\ UNCHANGED <<toPoller, pq, reqlat, work, started, now, threadVars>>

Collect(p) ==
    /\ toPoller[p] # << >>
    /\ pq' = [pq EXCEPT ![p] = @ \cup {Head(toPoller[p])}]
    /\ toPoller' = [toPoller EXCEPT ![p] = Tail(@)]
    /\ UNCHANGED <<toFtl, reqFields, history, started, now, threadVars>>

\* pqueue_peek and, when its time has come, the completion entry.
Complete(p, r) ==
    /\ r \in pq[p]
    /\ \A s \in pq[p] : expire[r] <= expire[s]
    /\ expire[r] <= now
    /\ pq' = [pq EXCEPT ![p] = @ \ {r}]
    /\ owner' = [owner EXCEPT ![r] = NONE]
    /\ UNCHANGED <<toFtl, toPoller, reqFields, work, started, now, threadVars>>

Tick ==
    /\ now < MaxTime
    /\ now' = now + 1
    /\ UNCHANGED <<rings, reqFields, history, started, threadVars>>

Poll(p) ==
    \/ \E r \in Req, o \in Opcodes : Submit(p, r, o)
    \/ Collect(p)
    \/ \E r \in Req : Complete(p, r)

Next ==
    \/ FtlStep
    \/ StartDataplane
    \/ \E p \in Pollers : Poll(p)
    \/ Tick

Spec == Init /\ [][Next]_vars

\* The FTL thread never stops; the pollers need not go on submitting.
FairSpec == Spec /\ WF_vars(FtlStep)

-----------------------------------------------------------------------------
TypeOK ==
    /\ toFtl \in [Pollers -> Seq(Req)]
    /\ toPoller \in [Pollers -> Seq(Req)]
    /\ pq \in [Pollers -> SUBSET Req]
    /\ op \in [Req -> Opcodes]
    /\ stime \in [Req -> Nat]
    /\ reqlat \in [Req -> Nat]
    /\ expire \in [Req -> Nat]
    /\ owner \in [Req -> Pollers \cup {NONE}]
    /\ work \in [Req -> Nat]
    /\ started \in BOOLEAN
    /\ now \in Nat
    /\ pc \in {"wait", "scan", "serve", "charge", "return"}
    /\ i \in Pollers
    /\ req \in Req
    /\ lat \in Nat

Serving    == pc \in {"serve", "charge", "return"}
InHand(p)  == IF Serving /\ i = p THEN <<req>> ELSE << >>

\* Everything poller p has submitted and not yet collected, oldest first.
Chain(p) == toPoller[p] \o InHand(p) \o toFtl[p]

\* Every request is where its poller expects it, once: it is never duplicated,
\* never answered on another poller's ring, and never in a ring after it was
\* completed (ftl_thread ftl.c:940-973).
RequestsConserved ==
    \A p \in Pollers :
        /\ \A j, k \in DOMAIN Chain(p) : Chain(p)[j] = Chain(p)[k] => j = k
        /\ \A r \in Req : owner[r] = p <=> r \in pq[p] \/ \E j \in DOMAIN Chain(p) : Chain(p)[j] = r
        /\ \A j \in DOMAIN Chain(p) : Chain(p)[j] \notin pq[p]

\* A request that was answered waits for exactly the time its own work took,
\* whatever was served before it and however the pollers interleave.
Answered(r) == \E p \in Pollers :
    r \in pq[p] \/ \E j \in DOMAIN toPoller[p] : toPoller[p][j] = r
Charged(r) == reqlat[r] = work[r] /\ expire[r] = stime[r] + work[r]
LatencyIsOwn == \A r \in Req : Answered(r) /\ op[r] # "other" => Charged(r)

\* The same for every command, those without a case in the switch included: the
\* latency handed back is the request's (comment and assignment ftl.c:966-968).
LatencyIsOwnAlways == \A r \in Req : Answered(r) => Charged(r)

\* With rings as large as the number of requests in flight none is dropped by
\* the enqueue whose failure ftl_thread only reports (ftl.c:970-973).
NothingLost == [][pc = "return" => owner'[req] = owner[req]]_vars

\* No poller is starved: a request on a ring is taken off it although the other
\* pollers may submit all the time (the for loop of ftl_thread ftl.c:941).
Pending(r) == \E p \in Pollers : \E j \in DOMAIN toFtl[p] : toFtl[p][j] = r
NoStarvation == \A r \in Req : Pending(r) ~> ~ Pending(r)
=============================================================================
