------------------------- MODULE Controller_proofs -------------------------
(***************************************************************************)
(* Whatever the host writes to the registers and the doorbells, in any     *)
(* order, for any number of queues, sizes and page sizes.  The handlers    *)
(* work on the part of the state called Ctrl; Sound says what each of      *)
(* their tests, one after the other, leaves true of it.                    *)
(***************************************************************************)
EXTENDS Controller, TLAPS

CtrlStates ==
    [cc : CcValues \cup {Zero}, csts : SUBSET {"RDY", "CFS", "SHST"},
     cq : [Qids -> CqType \cup {NULL}], sq : [Qids -> SqType \cup {NULL}],
     dataplane : BOOLEAN, dbs : BOOLEAN]

InBounds(s) ==
    \A q \in Qids : /\ s.cq[q] # NULL => s.cq[q].head < s.cq[q].size
                    /\ s.sq[q] # NULL => s.sq[q].tail < s.sq[q].size

NoQueueIn(s) == \A q \in Qids : s.cq[q] = NULL /\ s.sq[q] = NULL
Idle(s)      == NoQueueIn(s) /\ ~ s.dataplane

\* QueuesOnlyWhenReady, of this part of the state.
OnlyWhenReady(s) ==
    Idle(s) \/ (s.cc.en /\ s.csts = {"RDY"} /\ s.cq[0] # NULL /\ s.sq[0] # NULL)

\* The pollers run exactly when there is a doorbell buffer, and then they serve
\* every I/O queue from it, those created later too; never the admin queues.
HandedOver(s) ==
    /\ s.dbs = s.dataplane
    /\ \A q \in Qids : /\ s.cq[q] # NULL => s.cq[q].shadow = (q # 0 /\ s.dbs)
                       /\ s.sq[q] # NULL => s.sq[q].shadow = (q # 0 /\ s.dbs)

Sound(s) == s \in CtrlStates /\ InBounds(s) /\ OnlyWhenReady(s) /\ HandedOver(s)

OtherTypes ==
    /\ aqa \in [asqs : AqaSizes \cup {0}, acqs : AqaSizes \cup {0}]
    /\ base \in [Regs -> Address]
    /\ given \in BOOLEAN
    /\ mmio \in (-1 .. MaxAddr) \X (0 .. MaxVal)

\* The inductive invariant.
IInv == Sound(Ctrl) /\ OtherTypes /\ (dbs => given)

-----------------------------------------------------------------------------
(* What it says                                                             *)

\* The fields of the part.
LEMMA CtrlFields ==
    /\ Ctrl.cc = cc /\ Ctrl.csts = csts /\ Ctrl.cq = cq /\ Ctrl.sq = sq
    /\ Ctrl.dataplane = dataplane /\ Ctrl.dbs = dbs
BY DEF Ctrl

\* After a handler the part is what the handler computed.
LEMMA Becomes ==
    ASSUME NEW s \in CtrlStates, CtrlBecomes(s)
    PROVE  Ctrl' = s
<1>1. s = [cc |-> s.cc, csts |-> s.csts, cq |-> s.cq, sq |-> s.sq,
           dataplane |-> s.dataplane, dbs |-> s.dbs]
  BY DEF CtrlStates
<1> QED
  BY <1>1 DEF CtrlBecomes, Ctrl

\* The types follow from the invariant.
LEMMA SoundTypes == IInv => TypeOK
<1> SUFFICES ASSUME IInv PROVE TypeOK
  OBVIOUS
<1>1. Ctrl \in CtrlStates /\ InBounds(Ctrl) /\ OtherTypes
  BY DEF IInv, Sound
<1>2. /\ cc \in CcValues \cup {Zero} /\ csts \subseteq {"RDY", "CFS", "SHST"}
      /\ cq \in [Qids -> CqType \cup {NULL}] /\ sq \in [Qids -> SqType \cup {NULL}]
      /\ dataplane \in BOOLEAN /\ dbs \in BOOLEAN
  BY <1>1, CtrlFields DEF CtrlStates
<1> QED
  BY <1>1, <1>2, CtrlFields DEF TypeOK, InBounds, OtherTypes

\* So do the two invariants about queues and pollers.
LEMMA SoundReady == IInv => QueuesOnlyWhenReady /\ ShadowOnlyIfGiven
<1> SUFFICES ASSUME IInv PROVE QueuesOnlyWhenReady /\ ShadowOnlyIfGiven
  OBVIOUS
<1>1. OnlyWhenReady(Ctrl) /\ HandedOver(Ctrl) /\ (dbs => given)
  BY DEF IInv, Sound
<1>2. QueuesOnlyWhenReady
  BY <1>1, CtrlFields DEF OnlyWhenReady, Idle, NoQueueIn, QueuesOnlyWhenReady
<1>3. ShadowOnlyIfGiven
  BY <1>1, CtrlFields DEF HandedOver, ShadowOnlyIfGiven
<1> QED
  BY <1>2, <1>3

\* The bits of CC.
LEMMA CcBits ==
    /\ Zero \in CcValues \cup {Zero} /\ Zero.en = FALSE /\ Zero.shn = FALSE
    /\ \A d \in CcValues \cup {Zero} : d.en \in BOOLEAN /\ d.shn \in BOOLEAN
<1>1. Zero.en = FALSE /\ Zero.shn = FALSE
  BY DEF Zero
<1>2. \A d \in CcValues : d.en \in BOOLEAN /\ d.shn \in BOOLEAN
  BY DEF CcValues
<1> QED
  BY <1>1, <1>2

\* A record with entries is a queue.
LEMMA NotNull == \A x : x.size # 0 => x # NULL
BY DEF NULL

-----------------------------------------------------------------------------
(* The tests of nvme_write_bar                                              *)

\* nvme_clear_ctrl leaves nothing of the queues and the pollers.
LEMMA ClearSound ==
    ASSUME NEW s \in CtrlStates
    PROVE  /\ Sound(ClearCtrl(s)) /\ Idle(ClearCtrl(s)) /\ ~ ClearCtrl(s).dbs
           /\ ClearCtrl(s).csts = s.csts /\ ClearCtrl(s).cc = Zero
<1> DEFINE c == ClearCtrl(s)
<1>1. c \in CtrlStates
  BY DEF ClearCtrl, CtrlStates, NoQueues
<1>2. /\ c.cq = NoQueues /\ c.sq = NoQueues /\ c.dataplane = FALSE /\ c.dbs = FALSE
      /\ c.csts = s.csts /\ c.cc = Zero
  BY DEF ClearCtrl, CtrlStates
<1>3. Idle(c)
  BY <1>2 DEF Idle, NoQueueIn, NoQueues
<1> QED
  BY <1>1, <1>2, <1>3 DEF Sound, InBounds, OnlyWhenReady, HandedOver, Idle, NoQueueIn

\* Without queues only the types depend on CC and CSTS.
LEMMA IdleSound ==
    ASSUME NEW s, Sound(s), Idle(s), NEW s2 \in CtrlStates,
           s2.cq = s.cq, s2.sq = s.sq, s2.dataplane = s.dataplane, s2.dbs = s.dbs
    PROVE  Sound(s2) /\ Idle(s2)
BY DEF Sound, InBounds, OnlyWhenReady, HandedOver, Idle, NoQueueIn

\* nvme_start_ctrl creates an empty admin queue pair, or fails.
LEMMA StartSound ==
    ASSUME OtherTypes, NEW s, Sound(s), Idle(s), NEW d \in CcValues, d.en, s.cc = d
    PROVE  Sound(StartCtrl(s)) /\ StartCtrl(s).cc = d /\ StartCtrl(s).dbs = s.dbs
<1>1. s \in CtrlStates /\ HandedOver(s)
  BY DEF Sound
<1>2. ~ s.dbs /\ s.cq \in [Qids -> CqType \cup {NULL}] /\ s.sq \in [Qids -> SqType \cup {NULL}]
  BY <1>1 DEF Idle, HandedOver, CtrlStates
<1>3. CASE ~ Startable(s)
  <2>1. StartCtrl(s) = [s EXCEPT !.csts = {"CFS"}] /\ [s EXCEPT !.csts = {"CFS"}]
            = [s EXCEPT !.cc = d, !.csts = {"CFS"}]
    BY <1>1, <1>3 DEF StartCtrl, CtrlStates
  <2> DEFINE t == StartCtrl(s)
  <2>2. t = [s EXCEPT !.cc = d, !.csts = {"CFS"}]
    BY <2>1
  <2>3. /\ t \in CtrlStates /\ t.cc = d
        /\ t.cq = s.cq /\ t.sq = s.sq /\ t.dataplane = s.dataplane /\ t.dbs = s.dbs
    BY <1>1, <2>2 DEF CtrlStates
  <2> HIDE DEF t
  <2>4. Sound(t)
    BY <2>3, IdleSound
  <2> QED
    BY <2>3, <2>4 DEF t
<1>4. CASE Startable(s)
  <2> DEFINE qc == [size |-> aqa.acqs + 1, head |-> 0, shadow |-> FALSE]
             qs == [size |-> aqa.asqs + 1, tail |-> 0, shadow |-> FALSE]
             t == StartCtrl(s)
  <2>1. aqa.acqs \in Nat /\ aqa.asqs \in Nat
    <3>1. AqaSizes \cup {0} \subseteq Nat
      BY HostAssumption
    <3> QED
      BY <3>1 DEF OtherTypes
  <2>2. qc.size = aqa.acqs + 1 /\ qs.size = aqa.asqs + 1 /\ qc.head = 0 /\ qs.tail = 0
    OBVIOUS
  <2>3. /\ qc.head < qc.size /\ qs.tail < qs.size /\ qc.size # 0 /\ qs.size # 0
        /\ qc.shadow = FALSE /\ qs.shadow = FALSE
    BY <2>1
  <2>4. qc # NULL /\ qs # NULL /\ qc \in CqType /\ qs \in SqType
    <3>1. qc \in CqType /\ qs \in SqType
      BY <2>1 DEF CqType, SqType
    <3> HIDE DEF qc, qs
    <3> QED
      BY <2>3, <3>1, NotNull
  <2>5. t = [s EXCEPT !.csts = {"RDY"}, !.cq[0] = qc, !.sq[0] = qs]
    BY <1>4 DEF StartCtrl
  <2> HIDE DEF qc, qs, t
  <2>6. /\ t.cc = s.cc /\ t.csts = {"RDY"} /\ t.dataplane = s.dataplane /\ t.dbs = s.dbs
        /\ t.cq = [s.cq EXCEPT ![0] = qc] /\ t.sq = [s.sq EXCEPT ![0] = qs]
    BY <1>1, <2>5 DEF CtrlStates
  <2>7. 0 \in Qids
    BY ConstraintsAssumption DEF Qids
  <2>8. /\ t.cq \in [Qids -> CqType \cup {NULL}] /\ t.sq \in [Qids -> SqType \cup {NULL}]
        /\ t.cq[0] = qc /\ t.sq[0] = qs
        /\ \A q \in Qids \ {0} : t.cq[q] = NULL /\ t.sq[q] = NULL
    BY <1>2, <2>4, <2>6, <2>7 DEF Idle, NoQueueIn
  <2>9. t \in CtrlStates
    <3>1. t = [s EXCEPT !.csts = {"RDY"}, !.cq = t.cq, !.sq = t.sq]
      BY <1>1, <2>5, <2>6 DEF CtrlStates
    <3> QED
      BY <1>1, <2>8, <3>1 DEF CtrlStates
  <2>10. InBounds(t)
    BY <2>3, <2>8 DEF InBounds
  <2>11. OnlyWhenReady(t)
    BY <2>4, <2>6, <2>8 DEF OnlyWhenReady
  <2>12. HandedOver(t)
    BY <1>1, <1>2, <2>3, <2>6, <2>8 DEF HandedOver
  <2> QED
    BY <2>6, <2>9, <2>10, <2>11, <2>12 DEF Sound, t
<1> QED
  BY <1>3, <1>4

\* What the first two tests of nvme_write_bar leave: queues only if the host wants
\* the controller enabled, and no doorbell buffer after a reset.
LEMMA EnableSound ==
    ASSUME OtherTypes, NEW s, Sound(s), NEW d \in CcValues,
           NEW e, e = EnableDisable(Configure(s, d), d)
    PROVE  /\ Sound(e)
           /\ ~ Idle(e) => d.en
           /\ (e.dbs => s.dbs) /\ ((s.cc.en /\ ~ d.en) => ~ e.dbs)
           /\ e.cc.shn = s.cc.shn \/ ~ e.dbs
<1>1. s \in CtrlStates /\ OnlyWhenReady(s) /\ HandedOver(s)
  BY DEF Sound
<1>2. s.cc \in CcValues \cup {Zero} /\ s.csts \in SUBSET {"RDY", "CFS", "SHST"}
  BY <1>1 DEF CtrlStates
<1>3. d.en \in BOOLEAN /\ s.cc.en \in BOOLEAN
  BY <1>2, CcBits
<1>4. CASE s.cc.en
  <2>1. Configure(s, d) = s
    BY <1>4 DEF Configure
  <2>2. CASE d.en
    BY <1>4, <2>1, <2>2 DEF EnableDisable
  <2>3. CASE ~ d.en
    <3>1. e = [ClearCtrl(s) EXCEPT !.csts = @ \ {"RDY"}]
      BY <1>4, <2>1, <2>3 DEF EnableDisable
    <3> DEFINE c == ClearCtrl(s)
    <3>2. /\ Sound(c) /\ Idle(c) /\ ~ c.dbs /\ c.csts = s.csts /\ c.cc = Zero
      BY <1>1, ClearSound
    <3> HIDE DEF c
    <3>3. c \in CtrlStates /\ e = [c EXCEPT !.csts = c.csts \ {"RDY"}]
      BY <3>1, <3>2 DEF Sound, c
    <3>4. e = [c EXCEPT !.cc = Zero, !.csts = c.csts \ {"RDY"}]
      BY <3>2, <3>3 DEF CtrlStates
    <3>5. c.csts \ {"RDY"} \subseteq {"RDY", "CFS", "SHST"}
      BY <1>2, <3>2
    <3>6. /\ e \in CtrlStates
          /\ e.cq = c.cq /\ e.sq = c.sq /\ e.dataplane = c.dataplane /\ e.dbs = c.dbs
      BY <3>3, <3>4, <3>5, CcBits DEF CtrlStates
    <3>7. Sound(e) /\ Idle(e)
      BY <3>2, <3>6, IdleSound
    <3> QED
      BY <2>3, <3>2, <3>6, <3>7
  <2> QED
    BY <2>2, <2>3
<1>5. CASE ~ s.cc.en
  <2>1. Idle(s) /\ ~ s.dbs
    BY <1>1, <1>5 DEF OnlyWhenReady, HandedOver, Idle
  <2> DEFINE c == Configure(s, d)
             w == [s EXCEPT !.cc = d]
  <2>2. w = [s EXCEPT !.cc = d, !.csts = s.csts]
    BY <1>1 DEF CtrlStates
  <2>3. Sound(w) /\ Idle(w) /\ w.dbs = s.dbs /\ w.cc = d
    <3>1. /\ w \in CtrlStates /\ w.cc = d
          /\ w.cq = s.cq /\ w.sq = s.sq /\ w.dataplane = s.dataplane /\ w.dbs = s.dbs
      BY <1>1, <1>2, <2>2 DEF CtrlStates
    <3> HIDE DEF w
    <3> QED
      BY <2>1, <3>1, IdleSound
  <2>4. c = w \/ c = s
    BY DEF Configure
  <2>5. CASE d.en
    <3>1. c = s
      BY <2>5 DEF Configure
    <3>2. e = StartCtrl(w)
      BY <1>5, <2>5, <3>1 DEF EnableDisable
    <3> HIDE DEF w
    <3> QED
      BY <1>5, <2>1, <2>3, <2>5, <3>2, StartSound
  <2>6. CASE ~ d.en
    <3>1. ~ c.cc.en
      <4>1. CASE c = w
        BY <2>3, <2>6, <4>1
      <4>2. CASE c = s
        BY <1>5, <4>2
      <4> QED
        BY <2>4, <4>1, <4>2
    <3>2. e = c
      BY <2>6, <3>1 DEF EnableDisable
    <3>3. Sound(c) /\ Idle(c) /\ ~ c.dbs
      BY <2>1, <2>3, <2>4
    <3> QED
      BY <1>5, <3>2, <3>3
  <2> QED
    BY <2>5, <2>6
<1> QED
  BY <1>3, <1>4, <1>5

\* All three tests: the part stays sound, only a reset or a shutdown takes the
\* doorbell buffer away, and both do.
LEMMA WriteBarSound ==
    ASSUME OtherTypes, NEW s, Sound(s), NEW d \in CcValues,
           NEW f, f = Shutdown(EnableDisable(Configure(s, d), d), d)
    PROVE  /\ Sound(f)
           /\ f.dbs => s.dbs
           /\ ((s.cc.en /\ ~ d.en) \/ (d.shn /\ ~ s.cc.shn)) => ~ f.dbs
<1> DEFINE e == EnableDisable(Configure(s, d), d)
<1>1. /\ Sound(e) /\ (~ Idle(e) => d.en) /\ (e.dbs => s.dbs)
      /\ (s.cc.en /\ ~ d.en) => ~ e.dbs
      /\ e.cc.shn = s.cc.shn \/ ~ e.dbs
  BY EnableSound
<1>2. f = Shutdown(e, d)
  OBVIOUS
<1> HIDE DEF e
<1>3. e \in CtrlStates /\ OnlyWhenReady(e) /\ HandedOver(e)
  BY <1>1 DEF Sound
<1>4. e.csts \in SUBSET {"RDY", "CFS", "SHST"} /\ e.cc \in CcValues \cup {Zero}
  BY <1>3 DEF CtrlStates
<1>5. d.shn \in BOOLEAN /\ e.cc.shn \in BOOLEAN
  BY <1>4, CcBits
<1>6. CASE d.shn /\ ~ e.cc.shn
  <2> DEFINE c == ClearCtrl(e)
  <2>1. f = [c EXCEPT !.cc = d, !.csts = @ \cup {"SHST"}]
    BY <1>2, <1>6 DEF Shutdown
  <2>2. /\ Sound(c) /\ Idle(c) /\ ~ c.dbs /\ c.csts = e.csts
    BY <1>3, ClearSound
  <2> HIDE DEF c
  <2>3. f = [c EXCEPT !.cc = d, !.csts = c.csts \cup {"SHST"}]
    BY <2>1, <2>2 DEF Sound, CtrlStates
  <2>4. c.csts \cup {"SHST"} \subseteq {"RDY", "CFS", "SHST"}
    BY <1>4, <2>2
  <2>5. /\ f \in CtrlStates
        /\ f.cq = c.cq /\ f.sq = c.sq /\ f.dataplane = c.dataplane /\ f.dbs = c.dbs
    BY <2>2, <2>3, <2>4 DEF Sound, CtrlStates
  <2>6. Sound(f)
    BY <2>2, <2>5, IdleSound
  <2> QED
    BY <2>2, <2>5, <2>6
<1>7. CASE ~ d.shn /\ e.cc.shn
  <2> DEFINE b == e.csts \ {"SHST"}
  <2>1. f = [e EXCEPT !.cc = d, !.csts = b]
    BY <1>2, <1>3, <1>7 DEF Shutdown, CtrlStates
  <2>2. b \in SUBSET {"RDY", "CFS", "SHST"} /\ (e.csts = {"RDY"} => b = {"RDY"})
    BY <1>4
  <2> HIDE DEF b
  <2>3. /\ f \in CtrlStates /\ f.cc = d /\ f.csts = b
        /\ f.cq = e.cq /\ f.sq = e.sq /\ f.dataplane = e.dataplane /\ f.dbs = e.dbs
    BY <1>3, <2>1, <2>2 DEF CtrlStates
  <2>4. InBounds(f) /\ HandedOver(f)
    BY <1>1, <2>3 DEF Sound, InBounds, HandedOver
  <2>5. OnlyWhenReady(f)
    BY <1>1, <1>3, <2>2, <2>3 DEF OnlyWhenReady, Idle, NoQueueIn
  <2> QED
    BY <1>1, <1>7, <2>3, <2>4, <2>5 DEF Sound
<1>8. CASE ~ (d.shn /\ ~ e.cc.shn) /\ ~ (~ d.shn /\ e.cc.shn)
  <2>1. f = e
    BY <1>2, <1>8 DEF Shutdown
  <2> QED
    BY <1>1, <1>5, <1>8, <2>1
<1> QED
  BY <1>6, <1>7, <1>8

-----------------------------------------------------------------------------
(* The doorbells                                                            *)

\* The head, or the tail, of queue q becomes v and nothing else changes.
HeadMoved(s, t, q, v) ==
    /\ t.cq[q] # NULL /\ t.cq[q].head = v
    /\ \A p \in Qids \ {q} : t.cq[p] = s.cq[p]
    /\ t.sq = s.sq /\ t.cc = s.cc

TailMoved(s, t, q, v) ==
    /\ t.sq[q] # NULL /\ t.sq[q].tail = v
    /\ \A p \in Qids \ {q} : t.sq[p] = s.sq[p]
    /\ t.cq = s.cq /\ t.cc = s.cc

\* An index that moves inside its queue.
LEMMA HeadMoves ==
    ASSUME NEW s, Sound(s), NEW q \in Qids, s.cq[q] # NULL, NEW v \in Nat, v < s.cq[q].size,
           NEW t, t = [s EXCEPT !.cq[q].head = v]
    PROVE  Sound(t) /\ HeadMoved(s, t, q, v)
<1>1. s \in CtrlStates /\ InBounds(s) /\ OnlyWhenReady(s) /\ HandedOver(s)
  BY DEF Sound
<1>2. s.cq \in [Qids -> CqType \cup {NULL}] /\ s.cq[q] \in CqType
  BY <1>1 DEF CtrlStates
<1> DEFINE n == [s.cq[q] EXCEPT !.head = v]
<1>3. /\ n \in CqType /\ n.head = v /\ n.size = s.cq[q].size /\ n.shadow = s.cq[q].shadow
  BY <1>2 DEF CqType
<1>4. n.size # 0
  <2>1. s.cq[q].size \in Nat
    BY <1>2 DEF CqType
  <2> QED
    BY <2>1, <1>3
<1>5. t = [s EXCEPT !.cq = [s.cq EXCEPT ![q] = n]]
  BY <1>1 DEF CtrlStates
<1> HIDE DEF n
<1>6. n # NULL
  BY <1>4, NotNull
<1>7. /\ t.cq = [s.cq EXCEPT ![q] = n]
      /\ t.sq = s.sq /\ t.dataplane = s.dataplane /\ t.dbs = s.dbs /\ t.cc = s.cc /\ t.csts = s.csts
  BY <1>1, <1>5 DEF CtrlStates
<1>8. t.cq \in [Qids -> CqType \cup {NULL}] /\ t.cq[q] = n /\ \A p \in Qids \ {q} : t.cq[p] = s.cq[p]
  BY <1>2, <1>3, <1>7
<1>9. t \in CtrlStates
  BY <1>1, <1>5, <1>7, <1>8 DEF CtrlStates
<1>10. InBounds(t)
  BY <1>1, <1>3, <1>7, <1>8 DEF InBounds
<1>11. OnlyWhenReady(t)
  <2>1. ~ Idle(s)
    BY DEF Idle, NoQueueIn
  <2>2. 0 \in Qids
    BY ConstraintsAssumption DEF Qids
  <2> QED
    BY <1>1, <1>6, <1>7, <1>8, <2>1, <2>2 DEF OnlyWhenReady
<1>12. HandedOver(t)
  BY <1>1, <1>3, <1>7, <1>8 DEF HandedOver
<1> QED
  BY <1>3, <1>6, <1>7, <1>8, <1>9, <1>10, <1>11, <1>12 DEF Sound, HeadMoved

\* The same for the tail of a submission queue.
LEMMA TailMoves ==
    ASSUME NEW s, Sound(s), NEW q \in Qids, s.sq[q] # NULL, NEW v \in Nat, v < s.sq[q].size,
           NEW t, t = [s EXCEPT !.sq[q].tail = v]
    PROVE  Sound(t) /\ TailMoved(s, t, q, v)
<1>1. s \in CtrlStates /\ InBounds(s) /\ OnlyWhenReady(s) /\ HandedOver(s)
  BY DEF Sound
<1>2. s.sq \in [Qids -> SqType \cup {NULL}] /\ s.sq[q] \in SqType
  BY <1>1 DEF CtrlStates
<1> DEFINE n == [s.sq[q] EXCEPT !.tail = v]
<1>3. /\ n \in SqType /\ n.tail = v /\ n.size = s.sq[q].size /\ n.shadow = s.sq[q].shadow
  BY <1>2 DEF SqType
<1>4. n.size # 0
  <2>1. s.sq[q].size \in Nat
    BY <1>2 DEF SqType
  <2> QED
    BY <2>1, <1>3
<1>5. t = [s EXCEPT !.sq = [s.sq EXCEPT ![q] = n]]
  BY <1>1 DEF CtrlStates
<1> HIDE DEF n
<1>6. n # NULL
  BY <1>4, NotNull
<1>7. /\ t.sq = [s.sq EXCEPT ![q] = n]
      /\ t.cq = s.cq /\ t.dataplane = s.dataplane /\ t.dbs = s.dbs /\ t.cc = s.cc /\ t.csts = s.csts
  BY <1>1, <1>5 DEF CtrlStates
<1>8. t.sq \in [Qids -> SqType \cup {NULL}] /\ t.sq[q] = n /\ \A p \in Qids \ {q} : t.sq[p] = s.sq[p]
  BY <1>2, <1>3, <1>7
<1>9. t \in CtrlStates
  BY <1>1, <1>5, <1>7, <1>8 DEF CtrlStates
<1>10. InBounds(t)
  BY <1>1, <1>3, <1>7, <1>8 DEF InBounds
<1>11. OnlyWhenReady(t)
  <2>1. ~ Idle(s)
    BY DEF Idle, NoQueueIn
  <2>2. 0 \in Qids
    BY ConstraintsAssumption DEF Qids
  <2> QED
    BY <1>1, <1>6, <1>7, <1>8, <2>1, <2>2 DEF OnlyWhenReady
<1>12. HandedOver(t)
  BY <1>1, <1>3, <1>7, <1>8 DEF HandedOver
<1> QED
  BY <1>3, <1>6, <1>7, <1>8, <1>9, <1>10, <1>11, <1>12 DEF Sound, TailMoved

\* Admin commands keep the admin queues and the indices of the queues that stay.
Kept(s, t) ==
    /\ t.cq[0] = s.cq[0] /\ t.sq[0] = s.sq[0]
    /\ \A q \in Qids : /\ s.cq[q] # NULL /\ t.cq[q] # NULL => t.cq[q].head = s.cq[q].head
                       /\ s.sq[q] # NULL /\ t.sq[q] # NULL => t.sq[q].tail = s.sq[q].tail
    /\ s.dbs => t.dbs
    /\ t.cc = s.cc

\* Changes of the queues that are sound because they are so queue by queue.
LEMMA QueuesSound ==
    ASSUME NEW s, Sound(s), ~ Idle(s),
           NEW c \in [Qids -> CqType \cup {NULL}], NEW d \in [Qids -> SqType \cup {NULL}],
           NEW t, t = [s EXCEPT !.cq = c, !.sq = d],
           c[0] = s.cq[0], d[0] = s.sq[0],
           \A q \in Qids : c[q] = s.cq[q] \/ c[q] = NULL \/
               (/\ s.cq[q] = NULL /\ c[q].head < c[q].size
                /\ c[q].shadow = (q # 0 /\ s.dbs)),
           \A q \in Qids : d[q] = s.sq[q] \/ d[q] = NULL \/
               (/\ s.sq[q] = NULL /\ d[q].tail < d[q].size
                /\ d[q].shadow = (q # 0 /\ s.dbs))
    PROVE  Sound(t) /\ Kept(s, t)
<1>1. s \in CtrlStates /\ InBounds(s) /\ OnlyWhenReady(s) /\ HandedOver(s)
  BY DEF Sound
<1>2. /\ t.cq = c /\ t.sq = d /\ t.dataplane = s.dataplane /\ t.dbs = s.dbs
      /\ t.cc = s.cc /\ t.csts = s.csts
  BY <1>1 DEF CtrlStates
<1>3. t \in CtrlStates
  BY <1>1 DEF CtrlStates
<1>4. InBounds(t)
  BY <1>1, <1>2 DEF InBounds
<1>5. OnlyWhenReady(t)
  BY <1>1, <1>2 DEF OnlyWhenReady
<1>6. HandedOver(t)
  BY <1>1, <1>2 DEF HandedOver
<1>7. Kept(s, t)
  BY <1>2 DEF Kept
<1> QED
  BY <1>3, <1>4, <1>5, <1>6, <1>7 DEF Sound

\* When the pollers serve all I/O queues.
LEMMA AllHandedOver ==
    ASSUME NEW t, t.dbs = TRUE, t.dataplane = TRUE,
           \A q \in Qids :
               /\ t.cq[q] # NULL => (q = 0 => t.cq[q].shadow = FALSE) /\ (q # 0 => t.cq[q].shadow = TRUE)
               /\ t.sq[q] # NULL => (q = 0 => t.sq[q].shadow = FALSE) /\ (q # 0 => t.sq[q].shadow = TRUE)
    PROVE  HandedOver(t)
<1>1. ASSUME NEW q \in Qids
      PROVE  /\ t.cq[q] # NULL => t.cq[q].shadow = (q # 0 /\ t.dbs)
             /\ t.sq[q] # NULL => t.sq[q].shadow = (q # 0 /\ t.dbs)
  <2>1. CASE q = 0
    BY <2>1
  <2>2. CASE q # 0
    BY <2>2
  <2> QED
    BY <2>1, <2>2
<1> QED
  BY <1>1 DEF HandedOver

\* The configuration of a doorbell buffer hands all I/O queues to the pollers.
LEMMA ServedSound ==
    ASSUME NEW s, Sound(s), ~ Idle(s),
           NEW c, c = [q \in Qids |-> IF q # 0 /\ s.cq[q] # NULL
                                      THEN [s.cq[q] EXCEPT !.shadow = TRUE] ELSE s.cq[q]],
           NEW d, d = [q \in Qids |-> IF q # 0 /\ s.sq[q] # NULL
                                      THEN [s.sq[q] EXCEPT !.shadow = TRUE] ELSE s.sq[q]],
           NEW t, t = [s EXCEPT !.dbs = TRUE, !.dataplane = TRUE, !.cq = c, !.sq = d]
    PROVE  Sound(t) /\ Kept(s, t)
<1>1. s \in CtrlStates /\ InBounds(s) /\ OnlyWhenReady(s) /\ HandedOver(s)
  BY DEF Sound
<1>2. s.cq \in [Qids -> CqType \cup {NULL}] /\ s.sq \in [Qids -> SqType \cup {NULL}]
  BY <1>1 DEF CtrlStates
<1>3. 0 \in Qids
  BY ConstraintsAssumption DEF Qids
<1>4. ASSUME NEW q \in Qids
      PROVE  /\ c[q] \in CqType \cup {NULL}
             /\ s.cq[q] = NULL => c[q] = NULL
             /\ s.cq[q] # NULL => /\ c[q].head = s.cq[q].head /\ c[q].size = s.cq[q].size
                                  /\ (q = 0 => c[q].shadow = FALSE) /\ (q # 0 => c[q].shadow = TRUE)
  <2>1. CASE s.cq[q] = NULL
    BY <2>1
  <2>2. CASE s.cq[q] # NULL
    <3>1. s.cq[q] \in CqType
      BY <1>2, <2>2
    <3>2. q = 0 => s.cq[q].shadow = FALSE
      BY <1>1, <2>2 DEF HandedOver
    <3> QED
      BY <2>2, <3>1, <3>2 DEF CqType
  <2> QED
    BY <2>1, <2>2
<1>5. ASSUME NEW q \in Qids
      PROVE  /\ d[q] \in SqType \cup {NULL}
             /\ s.sq[q] = NULL => d[q] = NULL
             /\ s.sq[q] # NULL => /\ d[q].tail = s.sq[q].tail /\ d[q].size = s.sq[q].size
                                  /\ (q = 0 => d[q].shadow = FALSE) /\ (q # 0 => d[q].shadow = TRUE)
  <2>1. CASE s.sq[q] = NULL
    BY <2>1
  <2>2. CASE s.sq[q] # NULL
    <3>1. s.sq[q] \in SqType
      BY <1>2, <2>2
    <3>2. q = 0 => s.sq[q].shadow = FALSE
      BY <1>1, <2>2 DEF HandedOver
    <3> QED
      BY <2>2, <3>1, <3>2 DEF SqType
  <2> QED
    BY <2>1, <2>2
<1>6. c \in [Qids -> CqType \cup {NULL}] /\ d \in [Qids -> SqType \cup {NULL}]
  BY <1>4, <1>5
<1>7. c[0] = s.cq[0] /\ d[0] = s.sq[0]
  BY <1>3
<1>8. /\ t.cq = c /\ t.sq = d /\ t.dataplane = TRUE /\ t.dbs = TRUE
      /\ t.cc = s.cc /\ t.csts = s.csts /\ t \in CtrlStates
  BY <1>1, <1>6 DEF CtrlStates
<1>9. InBounds(t)
  BY <1>1, <1>4, <1>5, <1>8 DEF InBounds
<1>10. OnlyWhenReady(t)
  BY <1>1, <1>7, <1>8 DEF OnlyWhenReady
<1>11. HandedOver(t)
  <2>1. t.dbs = TRUE /\ t.dataplane = TRUE
    BY <1>8
  <2>2. ASSUME NEW q \in Qids
        PROVE  /\ t.cq[q] # NULL => (q = 0 => t.cq[q].shadow = FALSE) /\ (q # 0 => t.cq[q].shadow = TRUE)
               /\ t.sq[q] # NULL => (q = 0 => t.sq[q].shadow = FALSE) /\ (q # 0 => t.sq[q].shadow = TRUE)
    <3>1. c[q] # NULL => (q = 0 => c[q].shadow = FALSE) /\ (q # 0 => c[q].shadow = TRUE)
      BY <1>4
    <3>2. d[q] # NULL => (q = 0 => d[q].shadow = FALSE) /\ (q # 0 => d[q].shadow = TRUE)
      BY <1>5
    <3>3. t.cq[q] = c[q] /\ t.sq[q] = d[q]
      BY <1>8
    <3> QED
      BY <3>1, <3>2, <3>3
  <2> QED
    BY <2>1, <2>2, AllHandedOver
<1>12. Kept(s, t)
  BY <1>4, <1>5, <1>7, <1>8 DEF Kept
<1> QED
  BY <1>8, <1>9, <1>10, <1>11, <1>12 DEF Sound

\* Whatever admin commands the host rang the bell for.
LEMMA AdminSound ==
    ASSUME NEW s, Sound(s), ~ Idle(s), NEW t \in AdminResults(s)
    PROVE  Sound(t) /\ Kept(s, t)
<1>1. s \in CtrlStates
  BY DEF Sound
<1>2. s.cq \in [Qids -> CqType \cup {NULL}] /\ s.sq \in [Qids -> SqType \cup {NULL}] /\ s.dbs \in BOOLEAN
  BY <1>1 DEF CtrlStates
<1>3. 0 \in Qids
  BY ConstraintsAssumption DEF Qids
<1> DEFINE nc == [size |-> IoSize, head |-> 0, shadow |-> s.dbs]
           nd == [size |-> IoSize, tail |-> 0, shadow |-> s.dbs]
<1>4. /\ nc \in CqType /\ nc.head < nc.size /\ nc.shadow = s.dbs
      /\ nd \in SqType /\ nd.tail < nd.size /\ nd.shadow = s.dbs
  BY <1>2, HostAssumption DEF CqType, SqType
<1>5. \/ t = s
      \/ \E q \in Qids \ {0} :
            \/ s.cq[q] = NULL /\ t = [s EXCEPT !.cq = [s.cq EXCEPT ![q] = nc]]
            \/ s.sq[q] = NULL /\ t = [s EXCEPT !.sq = [s.sq EXCEPT ![q] = nd]]
            \/ t = [s EXCEPT !.sq = [s.sq EXCEPT ![q] = NULL]]
            \/ t = [s EXCEPT !.cq = [s.cq EXCEPT ![q] = NULL]]
      \/ t = [s EXCEPT !.dbs = TRUE, !.dataplane = TRUE,
                !.cq = [q \in Qids |-> IF q # 0 /\ s.cq[q] # NULL
                                       THEN [s.cq[q] EXCEPT !.shadow = TRUE] ELSE s.cq[q]],
                !.sq = [q \in Qids |-> IF q # 0 /\ s.sq[q] # NULL
                                       THEN [s.sq[q] EXCEPT !.shadow = TRUE] ELSE s.sq[q]]]
  BY <1>1 DEF AdminResults, CtrlStates
<1> HIDE DEF nc, nd
<1>6. CASE t = s
  BY <1>6 DEF Kept
<1>7. ASSUME NEW q \in Qids \ {0}, s.cq[q] = NULL, t = [s EXCEPT !.cq = [s.cq EXCEPT ![q] = nc]]
      PROVE  Sound(t) /\ Kept(s, t)
  <2> DEFINE c == [s.cq EXCEPT ![q] = nc]
  <2>1. t = [s EXCEPT !.cq = c, !.sq = s.sq]
    BY <1>1, <1>7 DEF CtrlStates
  <2>2. c \in [Qids -> CqType \cup {NULL}] /\ c[0] = s.cq[0]
    BY <1>2, <1>3, <1>4
  <2>3. \A p \in Qids : c[p] = s.cq[p] \/ (p = q /\ c[p] = nc)
    BY <1>2
  <2> HIDE DEF c
  <2>4. nc.shadow = (q # 0 /\ s.dbs)
    BY <1>2, <1>4
  <2>5. \A p \in Qids : c[p] = s.cq[p] \/ c[p] = NULL \/
            (/\ s.cq[p] = NULL /\ c[p].head < c[p].size
             /\ c[p].shadow = (p # 0 /\ s.dbs))
    BY <1>4, <1>7, <2>3, <2>4
  <2> QED
    BY <1>2, <2>1, <2>2, <2>5, QueuesSound
<1>8. ASSUME NEW q \in Qids \ {0}, s.sq[q] = NULL, t = [s EXCEPT !.sq = [s.sq EXCEPT ![q] = nd]]
      PROVE  Sound(t) /\ Kept(s, t)
  <2> DEFINE d == [s.sq EXCEPT ![q] = nd]
  <2>1. t = [s EXCEPT !.cq = s.cq, !.sq = d]
    BY <1>1, <1>8 DEF CtrlStates
  <2>2. d \in [Qids -> SqType \cup {NULL}] /\ d[0] = s.sq[0]
    BY <1>2, <1>3, <1>4
  <2>3. \A p \in Qids : d[p] = s.sq[p] \/ (p = q /\ d[p] = nd)
    BY <1>2
  <2> HIDE DEF d
  <2>4. nd.shadow = (q # 0 /\ s.dbs)
    BY <1>2, <1>4
  <2>5. \A p \in Qids : d[p] = s.sq[p] \/ d[p] = NULL \/
            (/\ s.sq[p] = NULL /\ d[p].tail < d[p].size
             /\ d[p].shadow = (p # 0 /\ s.dbs))
    BY <1>4, <1>8, <2>3, <2>4
  <2> QED
    BY <1>2, <2>1, <2>2, <2>5, QueuesSound
<1>9. ASSUME NEW q \in Qids \ {0}, t = [s EXCEPT !.sq = [s.sq EXCEPT ![q] = NULL]]
      PROVE  Sound(t) /\ Kept(s, t)
  <2> DEFINE d == [s.sq EXCEPT ![q] = NULL]
  <2>1. t = [s EXCEPT !.cq = s.cq, !.sq = d]
    BY <1>1, <1>9 DEF CtrlStates
  <2>2. d \in [Qids -> SqType \cup {NULL}] /\ d[0] = s.sq[0]
    BY <1>2, <1>3
  <2>3. \A p \in Qids : d[p] = s.sq[p] \/ d[p] = NULL
    BY <1>2
  <2> HIDE DEF d
  <2> QED
    BY <1>2, <2>1, <2>2, <2>3, QueuesSound
<1>10. ASSUME NEW q \in Qids \ {0}, t = [s EXCEPT !.cq = [s.cq EXCEPT ![q] = NULL]]
      PROVE  Sound(t) /\ Kept(s, t)
  <2> DEFINE c == [s.cq EXCEPT ![q] = NULL]
  <2>1. t = [s EXCEPT !.cq = c, !.sq = s.sq]
    BY <1>1, <1>10 DEF CtrlStates
  <2>2. c \in [Qids -> CqType \cup {NULL}] /\ c[0] = s.cq[0]
    BY <1>2, <1>3
  <2>3. \A p \in Qids : c[p] = s.cq[p] \/ c[p] = NULL
    BY <1>2
  <2> HIDE DEF c
  <2> QED
    BY <1>2, <2>1, <2>2, <2>3, QueuesSound
<1> QED
  BY <1>5, <1>6, <1>7, <1>8, <1>9, <1>10, ServedSound

-----------------------------------------------------------------------------
(* The layout of the doorbells                                              *)

\* A doorbell has four bytes or more, for each stride that passes the checks.
LEMMA DbSizeType == DbSize \in Nat /\ DbSize >= 4
<1>1. DbStride \in 0 .. 12
  BY ConstraintsAssumption
<1>2. 2 ^ DbStride \in Nat /\ 2 ^ DbStride >= 1
  <2> DEFINE OK(x) == x \in Nat /\ x >= 1
  <2>1. /\ OK(2 ^ 0) /\ OK(2 ^ 1) /\ OK(2 ^ 2) /\ OK(2 ^ 3) /\ OK(2 ^ 4)
        /\ OK(2 ^ 5) /\ OK(2 ^ 6) /\ OK(2 ^ 7) /\ OK(2 ^ 8)
        /\ OK(2 ^ 9) /\ OK(2 ^ 10) /\ OK(2 ^ 11) /\ OK(2 ^ 12)
    OBVIOUS
  <2>2. \/ DbStride = 0 \/ DbStride = 1 \/ DbStride = 2 \/ DbStride = 3 \/ DbStride = 4
        \/ DbStride = 5 \/ DbStride = 6 \/ DbStride = 7 \/ DbStride = 8 \/ DbStride = 9
        \/ DbStride = 10 \/ DbStride = 11 \/ DbStride = 12
    BY <1>1
  <2> HIDE DEF OK
  <2>3. OK(2 ^ DbStride)
    BY <2>1, <2>2, Zenon
  <2> QED
    BY <2>3 DEF OK
<1> QED
  BY <1>2 DEF DbSize

\* The handlers decode an offset back into the queue whose doorbell is there.
LEMMA Decoded ==
    ASSUME NEW q \in Nat
    PROVE  /\ IsCqDoorbell(CqDoorbell(q)) /\ DoorbellQid(CqDoorbell(q)) = q
           /\ ~ IsCqDoorbell(SqDoorbell(q)) /\ DoorbellQid(SqDoorbell(q)) = q
           /\ CqDoorbell(q) % DbSize = 0 /\ SqDoorbell(q) % DbSize = 0
           /\ CqDoorbell(q) \in Nat /\ SqDoorbell(q) \in Nat
<1> DEFINE D == DbSize
<1>1. D \in Nat /\ D > 0
  BY DbSizeType
<1> HIDE DEF D
<1>2. \A k \in Nat : (k * D) \div D = k /\ (k * D) % D = 0 /\ k * D \in Nat
  BY <1>1
<1>3. ((2 * q) * D) \div (2 * D) = q
  BY <1>1
<1>4. ((2 * q + 1) * D) \div (2 * D) = q
  BY <1>1
<1>5. 2 * q \in Nat /\ (2 * q) % 2 = 0 /\ 2 * q + 1 \in Nat /\ (2 * q + 1) % 2 = 1
  OBVIOUS
<1>6. SqDoorbell(q) = (2 * q) * D /\ CqDoorbell(q) = (2 * q + 1) * D
  BY DEF SqDoorbell, CqDoorbell, D
<1>7. \A addr : IsCqDoorbell(addr) <=> (addr \div D) % 2 = 1
  BY DEF IsCqDoorbell, D
<1>8. \A addr : DoorbellQid(addr) = addr \div (2 * D)
  BY DEF DoorbellQid, D
<1>9. SqDoorbell(q) % D = 0 /\ CqDoorbell(q) % D = 0
  BY <1>2, <1>5, <1>6
<1>10. SqDoorbell(q) \div D = 2 * q /\ CqDoorbell(q) \div D = 2 * q + 1
  BY <1>2, <1>5, <1>6
<1>11. ~ IsCqDoorbell(SqDoorbell(q)) /\ IsCqDoorbell(CqDoorbell(q))
  BY <1>5, <1>7, <1>10
<1>12. DoorbellQid(SqDoorbell(q)) = q /\ DoorbellQid(CqDoorbell(q)) = q
  BY <1>3, <1>4, <1>6, <1>8
<1> QED
  BY <1>2, <1>5, <1>6, <1>9, <1>11, <1>12 DEF D

\* An offset lies in the doorbell register of the queue that is decoded from it.
LEMMA Encoded ==
    ASSUME NEW addr \in Nat, NEW q, q = DoorbellQid(addr)
    PROVE  /\ q \in Nat
           /\ IsCqDoorbell(addr) => addr \in CqDoorbell(q) .. CqDoorbell(q) + DbSize - 1
           /\ ~ IsCqDoorbell(addr) => addr \in SqDoorbell(q) .. SqDoorbell(q) + DbSize - 1
           /\ addr % DbSize = 0 => addr = IF IsCqDoorbell(addr) THEN CqDoorbell(q) ELSE SqDoorbell(q)
<1> DEFINE D == DbSize
           a == addr \div D
           r == addr % D
           k == a \div 2
           b == a % 2
<1>1. D \in Nat /\ D > 0
  BY DbSizeType
<1>2. /\ SqDoorbell(q) = 2 * q * D /\ CqDoorbell(q) = (2 * q + 1) * D
      /\ IsCqDoorbell(addr) <=> b = 1
      /\ q = addr \div (2 * D)
  BY DEF SqDoorbell, CqDoorbell, IsCqDoorbell, DoorbellQid
<1> HIDE DEF D
<1>3. a \in Nat /\ r \in 0 .. D - 1 /\ addr = D * a + r
  BY <1>1
<1>4. k \in Nat /\ b \in {0, 1} /\ a = 2 * k + b
  BY <1>3
<1> HIDE DEF a, r, k, b
<1>5. D * k \in Nat /\ D * a = 2 * (D * k) + D * b
  BY <1>1, <1>4
<1>6. D * b \in 0 .. D
  BY <1>1, <1>4
<1>7. addr = (2 * D) * k + (D * b + r) /\ D * b + r \in 0 .. 2 * D - 1
  <2>1. (2 * D) * k = 2 * (D * k)
    BY <1>1, <1>4
  <2>2. CASE b = 0
    BY <1>1, <1>3, <1>5, <2>1, <2>2
  <2>3. CASE b = 1
    BY <1>1, <1>3, <1>5, <2>1, <2>3
  <2> QED
    BY <1>4, <2>2, <2>3
<1>8. addr \div (2 * D) = k
  <2>1. \A E, m, i, x : /\ E \in Nat /\ E > 0 /\ m \in Nat /\ i \in 0 .. E - 1
                        /\ x = E * m + i
                        => x \div E = m
    OBVIOUS
  <2>2. 2 * D \in Nat /\ 2 * D > 0
    BY <1>1
  <2> QED
    BY <1>4, <1>7, <2>1, <2>2, Zenon
<1>9. 2 * q * D = 2 * (D * k) /\ (2 * q + 1) * D = 2 * (D * k) + D
  BY <1>1, <1>2, <1>4, <1>8
<1>10. addr \in 2 * (D * k) + D * b .. 2 * (D * k) + D * b + D - 1
  BY <1>1, <1>3, <1>5, <1>6
<1>11. addr % D = 0 => addr = 2 * (D * k) + D * b
  BY <1>1, <1>3, <1>5 DEF r
<1>12. CASE b = 1
  BY <1>1, <1>2, <1>4, <1>8, <1>9, <1>10, <1>11, <1>12 DEF D
<1>13. CASE b = 0
  BY <1>1, <1>2, <1>4, <1>8, <1>9, <1>10, <1>11, <1>13 DEF D
<1> QED
  BY <1>4, <1>12, <1>13

\* The first eight bytes are the admin queues', whatever the stride.
LEMMA AdminQid == ASSUME NEW addr \in Nat, addr < 8 PROVE DoorbellQid(addr) = 0
<1> DEFINE D == DbSize
<1>1. D \in Nat /\ D >= 4
  BY DbSizeType
<1> HIDE DEF D
<1>2. addr \div (2 * D) = 0
  BY <1>1
<1> QED
  BY <1>2 DEF DoorbellQid, D

-----------------------------------------------------------------------------
(* What a doorbell does                                                     *)

HeadTaken(addr, val) ==
    LET q == DoorbellQid(addr)
    IN  /\ IsCqDoorbell(addr) /\ Accepted(cq, q, val) /\ ~ cq[q].shadow
        /\ addr < 8 \/ addr % DbSize = 0
        /\ Ctrl' = [Ctrl EXCEPT !.cq[q].head = val]

TailTaken(addr, val) ==
    LET q == DoorbellQid(addr)
        s == [Ctrl EXCEPT !.sq[q].tail = val]
    IN  /\ ~ IsCqDoorbell(addr) /\ Accepted(sq, q, val) /\ ~ sq[q].shadow
        /\ addr < 8 \/ addr % DbSize = 0
        /\ Sound(s) /\ ~ Idle(s)
        /\ Ctrl' = s \/ (q = 0 /\ Ctrl' \in AdminResults(s))

Ignored(addr, val) ==
    LET q == DoorbellQid(addr)
    IN  /\ \/ addr >= 8 /\ dataplane
           \/ addr % DbSize # 0
           \/ IsCqDoorbell(addr) /\ ~ (Accepted(cq, q, val) /\ ~ cq[q].shadow)
           \/ ~ IsCqDoorbell(addr) /\ ~ (Accepted(sq, q, val) /\ ~ sq[q].shadow)
        /\ Ctrl' = Ctrl

\* Every write to a doorbell moves one index, or is ignored for a reason.
LEMMA DoorbellLaw ==
    ASSUME IInv, NEW addr \in DbAddrs, NEW val \in 0 .. MaxVal, WriteDoorbell(addr, val)
    PROVE  HeadTaken(addr, val) \/ TailTaken(addr, val) \/ Ignored(addr, val)
<1> DEFINE q == DoorbellQid(addr)
<1>1. Sound(Ctrl) /\ Ctrl \in CtrlStates /\ HandedOver(Ctrl)
  BY DEF IInv, Sound
<1>2. addr \in Nat /\ val \in Nat
  BY DEF DbAddrs
<1>3. 0 \in Qids
  BY ConstraintsAssumption DEF Qids
<1> HIDE DEF q
<1>4. ASSUME Accepted(cq, q, val)
      PROVE  [Ctrl EXCEPT !.cq[q].head = val] \in CtrlStates
  <2>1. q \in Qids /\ Ctrl.cq[q] # NULL /\ val < Ctrl.cq[q].size
    BY <1>4, CtrlFields DEF Accepted, Exists
  <2> QED
    BY <1>1, <1>2, <2>1, HeadMoves DEF Sound
<1>5. ASSUME Accepted(sq, q, val)
      PROVE  LET s == [Ctrl EXCEPT !.sq[q].tail = val]
             IN  s \in CtrlStates /\ Sound(s) /\ ~ Idle(s)
  <2> DEFINE s == [Ctrl EXCEPT !.sq[q].tail = val]
  <2>1. q \in Qids /\ Ctrl.sq[q] # NULL /\ val < Ctrl.sq[q].size
    BY <1>5, CtrlFields DEF Accepted, Exists
  <2>2. Sound(s) /\ TailMoved(Ctrl, s, q, val)
    BY <1>1, <1>2, <2>1, TailMoves
  <2> HIDE DEF s
  <2>3. s \in CtrlStates /\ ~ Idle(s)
    BY <2>1, <2>2 DEF Sound, Idle, NoQueueIn, TailMoved
  <2> QED
    BY <2>2, <2>3 DEF s
<1>6. CASE addr < 8
  <2>1. q = 0 /\ ProcessDbAdmin(addr, val)
    BY <1>2, <1>6, AdminQid DEF WriteDoorbell, q
  <2>2. (cq[0] # NULL => ~ cq[0].shadow) /\ (sq[0] # NULL => ~ sq[0].shadow)
    BY <1>1, <1>3, CtrlFields DEF HandedOver
  <2>3. CASE IsCqDoorbell(addr)
    <3>1. CASE Accepted(cq, q, val)
      <4>1. CtrlBecomes([Ctrl EXCEPT !.cq[q].head = val])
        BY <2>1, <2>3, <3>1 DEF ProcessDbAdmin, q
      <4>2. Ctrl' = [Ctrl EXCEPT !.cq[q].head = val]
        BY <1>4, <3>1, <4>1, Becomes
      <4>3. ~ cq[q].shadow
        BY <2>1, <2>2, <3>1 DEF Accepted, Exists
      <4> QED
        BY <1>6, <2>3, <3>1, <4>2, <4>3 DEF HeadTaken, q
    <3>2. CASE ~ Accepted(cq, q, val)
      <4>1. CtrlBecomes(Ctrl)
        BY <2>1, <2>3, <3>2 DEF ProcessDbAdmin, q
      <4>2. Ctrl' = Ctrl
        BY <1>1, <4>1, Becomes
      <4> QED
        BY <2>3, <3>2, <4>2 DEF Ignored, q
    <3> QED
      BY <3>1, <3>2
  <2>4. CASE ~ IsCqDoorbell(addr)
    <3>1. CASE Accepted(sq, q, val)
      <4> DEFINE s == [Ctrl EXCEPT !.sq[q].tail = val]
      <4>1. PICK t \in AdminResults(s) : CtrlBecomes(t)
        BY <2>1, <2>4, <3>1 DEF ProcessDbAdmin, q
      <4>2. Sound(s) /\ ~ Idle(s)
        BY <1>5, <3>1
      <4>3. t \in CtrlStates
        BY <4>2, AdminSound DEF Sound
      <4>4. Ctrl' = t
        BY <4>1, <4>3, Becomes
      <4>5. ~ sq[q].shadow
        BY <2>1, <2>2, <3>1 DEF Accepted, Exists
      <4> QED
        BY <1>6, <2>1, <2>4, <3>1, <4>2, <4>4, <4>5 DEF TailTaken, q
    <3>2. CASE ~ Accepted(sq, q, val)
      <4>1. CtrlBecomes(Ctrl)
        BY <2>1, <2>4, <3>2 DEF ProcessDbAdmin, q
      <4>2. Ctrl' = Ctrl
        BY <1>1, <4>1, Becomes
      <4> QED
        BY <2>4, <3>2, <4>2 DEF Ignored, q
    <3> QED
      BY <3>1, <3>2
  <2> QED
    BY <2>3, <2>4
<1>7. CASE addr >= 8
  <2>1. ProcessDbIo(addr, val)
    BY <1>2, <1>7 DEF WriteDoorbell
  <2>3. CASE ~ dataplane /\ addr % DbSize = 0 /\ IsCqDoorbell(addr) /\ Accepted(cq, q, val) /\ ~ cq[q].shadow
    <3>1. CtrlBecomes([Ctrl EXCEPT !.cq[q].head = val])
      BY <2>1, <2>3 DEF ProcessDbIo, q
    <3>2. Ctrl' = [Ctrl EXCEPT !.cq[q].head = val]
      BY <1>4, <2>3, <3>1, Becomes
    <3> QED
      BY <2>3, <3>2 DEF HeadTaken, q
  <2>4. CASE ~ dataplane /\ addr % DbSize = 0 /\ ~ IsCqDoorbell(addr) /\ Accepted(sq, q, val) /\ ~ sq[q].shadow
    <3>1. CtrlBecomes([Ctrl EXCEPT !.sq[q].tail = val])
      BY <2>1, <2>4 DEF ProcessDbIo, q
    <3>2. Ctrl' = [Ctrl EXCEPT !.sq[q].tail = val]
      BY <1>5, <2>4, <3>1, Becomes
    <3> QED
      BY <1>5, <2>4, <3>2 DEF TailTaken, q
  <2>5. CASE /\ ~ (~ dataplane /\ addr % DbSize = 0 /\ IsCqDoorbell(addr) /\ Accepted(cq, q, val) /\ ~ cq[q].shadow)
             /\ ~ (~ dataplane /\ addr % DbSize = 0 /\ ~ IsCqDoorbell(addr) /\ Accepted(sq, q, val) /\ ~ sq[q].shadow)
    <3>1. CtrlBecomes(Ctrl)
      BY <2>1, <2>5 DEF ProcessDbIo, q
    <3>2. Ctrl' = Ctrl
      BY <1>1, <3>1, Becomes
    <3> QED
      BY <1>7, <2>5, <3>2 DEF Ignored, q
  <2> QED
    BY <2>3, <2>4, <2>5
<1> QED
  BY <1>2, <1>6, <1>7

\* What the step leaves of the queues.
LEMMA DoorbellKeeps ==
    ASSUME IInv, NEW addr \in DbAddrs, NEW val \in 0 .. MaxVal, WriteDoorbell(addr, val)
    PROVE  /\ Sound(Ctrl') /\ cc' = cc
           /\ cq[0] # NULL => cq'[0] # NULL
           /\ \A q \in Qids :
                 /\ (cq[q] # NULL /\ cq'[q] # NULL /\ cq'[q].head # cq[q].head) =>
                        HeadTaken(addr, val) /\ q = DoorbellQid(addr) /\ cq'[q].head = val
                 /\ (sq[q] # NULL /\ sq'[q] # NULL /\ sq'[q].tail # sq[q].tail) =>
                        TailTaken(addr, val) /\ q = DoorbellQid(addr) /\ sq'[q].tail = val
           /\ HeadTaken(addr, val) => cq'[DoorbellQid(addr)].head = val
           /\ TailTaken(addr, val) => sq'[DoorbellQid(addr)].tail = val
<1> DEFINE k == DoorbellQid(addr)
<1>1. Sound(Ctrl) /\ val \in Nat /\ Ctrl' = [cc |-> cc', csts |-> csts', cq |-> cq', sq |-> sq',
                                             dataplane |-> dataplane', dbs |-> dbs']
  BY DEF IInv, Ctrl
<1>2. Ctrl'.cc = cc' /\ Ctrl'.cq = cq' /\ Ctrl'.sq = sq'
  BY <1>1
<1> HIDE DEF k
<1>3. CASE HeadTaken(addr, val)
  <2>1. PICK t : t = [Ctrl EXCEPT !.cq[k].head = val]
    OBVIOUS
  <2>2. k \in Qids /\ Ctrl.cq[k] # NULL /\ val < Ctrl.cq[k].size
    BY <1>3, CtrlFields DEF HeadTaken, Accepted, Exists, k
  <2>3. Sound(t) /\ HeadMoved(Ctrl, t, k, val)
    BY <1>1, <2>1, <2>2, HeadMoves
  <2>4. /\ t.sq = sq /\ t.cc = cc
        /\ (\A p \in Qids \ {k} : t.cq[p] = cq[p]) /\ t.cq[k] # NULL /\ t.cq[k].head = val
    BY <2>3, CtrlFields DEF HeadMoved
  <2>5. Ctrl' = t
    BY <1>3, <2>1 DEF HeadTaken, k
  <2>6. cc' = cc /\ sq' = sq /\ cq' = t.cq /\ Sound(Ctrl')
    BY <1>2, <2>3, <2>4, <2>5
  <2>7. ~ TailTaken(addr, val)
    BY <1>3 DEF HeadTaken, TailTaken
  <2>8. 0 \in Qids
    BY ConstraintsAssumption DEF Qids
  <2> QED
    BY <1>3, <2>4, <2>6, <2>7, <2>8 DEF k
<1>4. CASE TailTaken(addr, val)
  <2>1. PICK s : s = [Ctrl EXCEPT !.sq[k].tail = val]
    OBVIOUS
  <2>2. k \in Qids /\ Ctrl.sq[k] # NULL /\ val < Ctrl.sq[k].size
    BY <1>4, CtrlFields DEF TailTaken, Accepted, Exists, k
  <2>3. Sound(s) /\ TailMoved(Ctrl, s, k, val)
    BY <1>1, <2>1, <2>2, TailMoves
  <2>4. /\ s.cq = cq /\ s.cc = cc
        /\ (\A p \in Qids \ {k} : s.sq[p] = sq[p]) /\ s.sq[k] # NULL /\ s.sq[k].tail = val
    BY <2>3, CtrlFields DEF TailMoved
  <2>5. /\ Sound(s) /\ ~ Idle(s)
        /\ Ctrl' = s \/ (k = 0 /\ Ctrl' \in AdminResults(s))
    BY <1>4, <2>1 DEF TailTaken, k
  <2>6. Sound(Ctrl') /\ (Ctrl' = s \/ (k = 0 /\ Kept(s, Ctrl')))
    BY <2>5, AdminSound
  <2>7. /\ cc' = cc /\ cq'[0] = cq[0]
        /\ \A q \in Qids : /\ cq[q] # NULL /\ cq'[q] # NULL => cq'[q].head = cq[q].head
                           /\ s.sq[q] # NULL /\ sq'[q] # NULL => sq'[q].tail = s.sq[q].tail
        /\ sq'[k] = s.sq[k]
    BY <1>2, <2>4, <2>6 DEF Kept
  <2>8. ~ HeadTaken(addr, val)
    BY <1>4 DEF HeadTaken, TailTaken
  <2>9. ASSUME NEW q \in Qids, sq[q] # NULL, sq'[q] # NULL, sq'[q].tail # sq[q].tail
        PROVE  q = k
    BY <2>4, <2>7, <2>9
  <2> QED
    BY <1>4, <2>4, <2>6, <2>7, <2>8, <2>9 DEF k
<1>5. CASE Ignored(addr, val) /\ ~ HeadTaken(addr, val) /\ ~ TailTaken(addr, val)
  <2>1. cc' = cc /\ cq' = cq /\ sq' = sq /\ Sound(Ctrl')
    BY <1>1, <1>2, <1>5, CtrlFields DEF Ignored
  <2> QED
    BY <1>5, <2>1
<1> QED
  BY <1>3, <1>4, <1>5, DoorbellLaw

-----------------------------------------------------------------------------
(* The theorems                                                             *)

\* After power-on.
LEMMA IInvInit == Init => IInv
<1> SUFFICES ASSUME Init PROVE IInv
  OBVIOUS
<1>1. Ctrl \in CtrlStates
  BY DEF Init, Ctrl, CtrlStates, NoQueues
<1>2. cq = [q \in Qids |-> NULL] /\ sq = [q \in Qids |-> NULL] /\ dataplane = FALSE /\ dbs = FALSE
  BY DEF Init, NoQueues
<1>3. \A q \in Qids : Ctrl.cq[q] = NULL /\ Ctrl.sq[q] = NULL
  BY <1>2, CtrlFields
<1>4. Sound(Ctrl)
  BY <1>1, <1>2, <1>3, CtrlFields DEF Sound, InBounds, OnlyWhenReady, HandedOver, Idle, NoQueueIn
<1>5. OtherTypes
  <2>1. aqa \in [asqs : AqaSizes \cup {0}, acqs : AqaSizes \cup {0}] /\ given \in BOOLEAN
    BY DEF Init
  <2>2. base \in [Regs -> Address]
    BY DEF Init, Address, Nowhere
  <2>3. mmio \in (-1 .. MaxAddr) \X (0 .. MaxVal)
    BY HostAssumption DEF Init, NoMmio
  <2> QED
    BY <2>1, <2>2, <2>3 DEF OtherTypes
<1> QED
  BY <1>2, <1>4, <1>5 DEF IInv

\* No doorbell was written.
LEMMA NoMmioType == NoMmio \in (-1 .. MaxAddr) \X (0 .. MaxVal)
BY HostAssumption DEF NoMmio

\* Each MMIO write keeps the invariant.
LEMMA IInvNext == IInv /\ [Next]_vars => IInv'
<1> SUFFICES ASSUME IInv, [Next]_vars PROVE IInv'
  OBVIOUS
<1>1. Sound(Ctrl) /\ OtherTypes /\ (dbs => given)
  BY DEF IInv
<1>2. ASSUME NEW d \in CcValues, WriteCc(d) PROVE IInv'
  <2>1. PICK f : f = Shutdown(EnableDisable(Configure(Ctrl, d), d), d)
    OBVIOUS
  <2>2. /\ Sound(f) /\ (f.dbs => Ctrl.dbs)
        /\ ((Ctrl.cc.en /\ ~ d.en) \/ (d.shn /\ ~ Ctrl.cc.shn)) => ~ f.dbs
    BY <1>1, <2>1, WriteBarSound
  <2>3. CtrlBecomes(f)
    BY <1>2, <2>1 DEF WriteCc
  <2>4. Ctrl' = f
    BY <2>2, <2>3, Becomes DEF Sound
  <2>5. dbs' => dbs /\ ~ Restarts(d)
    BY <2>2, <2>3, CtrlFields DEF CtrlBecomes, Restarts
  <2>6. dbs' => given'
    BY <1>1, <1>2, <2>5 DEF WriteCc
  <2>7. OtherTypes'
    BY <1>1, <1>2, NoMmioType DEF OtherTypes, WriteCc
  <2> QED
    BY <2>2, <2>4, <2>6, <2>7 DEF IInv
<1>3. ASSUME NEW asqs \in AqaSizes, NEW acqs \in AqaSizes, WriteAqa(asqs, acqs) PROVE IInv'
  <2>1. Ctrl' = Ctrl /\ dbs' = dbs /\ given' = given
    BY <1>3 DEF WriteAqa, Ctrl
  <2>2. OtherTypes'
    BY <1>1, <1>3, NoMmioType DEF OtherTypes, WriteAqa
  <2> QED
    BY <1>1, <2>1, <2>2 DEF IInv
<1>4. ASSUME NEW r \in Regs, NEW addr \in Address, WriteBaseLow(r, addr) PROVE IInv'
  <2>1. Ctrl' = Ctrl /\ dbs' = dbs /\ given' = given
    BY <1>4 DEF WriteBaseLow, Ctrl
  <2>2. OtherTypes'
    BY <1>1, <1>4, NoMmioType DEF OtherTypes, WriteBaseLow
  <2> QED
    BY <1>1, <2>1, <2>2 DEF IInv
<1>5. ASSUME NEW r \in Regs, NEW high \in SUBSET HighBits, WriteBaseHigh(r, high) PROVE IInv'
  <2>1. Ctrl' = Ctrl /\ dbs' = dbs /\ given' = given
    BY <1>5 DEF WriteBaseHigh, Ctrl
  <2>2. [base[r] EXCEPT !.high = @ \cup high] \in Address
    BY <1>1 DEF OtherTypes, Address
  <2>3. base' \in [Regs -> Address]
    BY <1>1, <1>5, <2>2 DEF WriteBaseHigh, OtherTypes
  <2>4. OtherTypes'
    BY <1>1, <1>5, <2>3, NoMmioType DEF OtherTypes, WriteBaseHigh
  <2> QED
    BY <1>1, <2>1, <2>4 DEF IInv
<1>6. ASSUME NEW addr \in DbAddrs, NEW val \in 0 .. MaxVal, WriteDoorbell(addr, val) PROVE IInv'
  <2>1. Sound(Ctrl')
    BY <1>6, DoorbellKeeps
  <2>2. dbs' = dataplane' /\ dbs = dataplane
    <3>1. Ctrl'.dbs = dbs' /\ Ctrl'.dataplane = dataplane'
      BY DEF Ctrl
    <3> QED
      BY <1>1, <2>1, <3>1, CtrlFields DEF Sound, HandedOver
  <2>3. dbs' => given'
    BY <1>1, <1>6, <2>2 DEF WriteDoorbell
  <2>4. dataplane \in BOOLEAN /\ dataplane' \in BOOLEAN
    <3>1. Ctrl'.dataplane = dataplane'
      BY DEF Ctrl
    <3> QED
      BY <1>1, <2>1, <3>1, CtrlFields DEF Sound, CtrlStates
  <2>5. addr \in -1 .. MaxAddr
    BY HostAssumption DEF DbAddrs
  <2>6. OtherTypes'
    BY <1>1, <1>6, <2>4, <2>5 DEF OtherTypes, WriteDoorbell
  <2> QED
    BY <2>1, <2>3, <2>6 DEF IInv
<1>7. CASE UNCHANGED vars
  BY <1>1, <1>7 DEF vars, IInv, Ctrl, OtherTypes
<1> QED
  BY <1>2, <1>3, <1>4, <1>5, <1>6, <1>7 DEF Next

\* The inductive invariant holds whatever the host writes, for every number of
\* queues, stride and queue size that nvme_check_constraints accepts.
THEOREM Inductive == Spec => []IInv
BY IInvInit, IInvNext, PTL DEF Spec

\* No doorbell takes an index outside its queue, over any changes of the queues
\* (nvme_process_db_admin, nvme_process_db_io).
THEOREM TypeCorrect == Spec => []TypeOK
BY Inductive, SoundTypes, PTL

\* Queues and pollers exist only while CSTS says ready and nothing else, after any
\* order of enables, resets and shutdowns (nvme_write_bar femu.c:94-123).
THEOREM QueuesAlwaysOnlyWhenReady == Spec => []QueuesOnlyWhenReady
BY Inductive, SoundReady, PTL

\* No queue keeps its doorbells in memory that the host gave before its last reset
\* or shutdown (nvme_clear_ctrl femu.c:40-43).
THEOREM ShadowAlwaysGiven == Spec => []ShadowOnlyIfGiven
BY Inductive, SoundReady, PTL

-----------------------------------------------------------------------------
(* Doorbells                                                                *)

\* With doorbells four bytes apart only the admin queues' are in the first eight
\* bytes.
LEMMA AdminFirst ==
    ASSUME DbStride = 0, NEW q \in Qids
    PROVE  /\ q # 0 => SqDoorbell(q) >= 8 /\ CqDoorbell(q) >= 8
           /\ SqDoorbell(0) < 8 /\ CqDoorbell(0) < 8
<1>1. DbSize = 4
  BY DEF DbSize
<1>2. q \in Nat
  BY ConstraintsAssumption DEF Qids
<1> QED
  BY <1>1, <1>2 DEF SqDoorbell, CqDoorbell

\* A doorbell is ignored only with a bad value, without a queue, or because the
\* pollers serve its queue.
LEMMA ReachNext ==
    ASSUME DbStride = 0
    PROVE  IInv /\ DoorbellsReach /\ [Next]_vars => DoorbellsReach'
<1> SUFFICES ASSUME IInv, DoorbellsReach, [Next]_vars PROVE DoorbellsReach'
  OBVIOUS
<1>1. \A q \in Qids : q \in Nat
  BY ConstraintsAssumption DEF Qids
<1>2. CASE mmio' = NoMmio
  <2>1. mmio'[1] = -1
    BY <1>2 DEF NoMmio
  <2>2. \A q \in Qids : CqDoorbell(q) \in Nat /\ SqDoorbell(q) \in Nat
    BY <1>1, Decoded
  <2>3. \A q \in Qids : mmio'[1] # CqDoorbell(q) /\ mmio'[1] # SqDoorbell(q)
    BY <2>1, <2>2
  <2> QED
    BY <2>3 DEF DoorbellsReach
<1>3. ASSUME NEW addr \in DbAddrs, NEW val \in 0 .. MaxVal, WriteDoorbell(addr, val) PROVE DoorbellsReach'
  <2>1. mmio' = <<addr, val>> /\ mmio'[1] = addr /\ mmio'[2] = val
    BY <1>3 DEF WriteDoorbell
  <2>2. Sound(Ctrl) /\ HandedOver(Ctrl)
    BY DEF IInv, Sound
  <2>3. HeadTaken(addr, val) \/ TailTaken(addr, val) \/ Ignored(addr, val)
    BY <1>3, DoorbellLaw
  <2>4. /\ HeadTaken(addr, val) => cq'[DoorbellQid(addr)].head = val
        /\ TailTaken(addr, val) => sq'[DoorbellQid(addr)].tail = val
    BY <1>3, DoorbellKeeps
  <2>5. addr \in Nat
    BY DEF DbAddrs
  <2>6. Ctrl' = Ctrl => cq' = cq /\ sq' = sq
    BY DEF Ctrl
  <2>7. ASSUME NEW q \in Qids, cq'[q] # NULL, ~ cq'[q].shadow, addr = CqDoorbell(q), val < cq'[q].size
        PROVE  cq'[q].head = val
    <3>1. IsCqDoorbell(addr) /\ DoorbellQid(addr) = q /\ addr % DbSize = 0
      BY <1>1, <2>7, Decoded
    <3>2. ~ TailTaken(addr, val)
      BY <3>1 DEF TailTaken
    <3>3. CASE HeadTaken(addr, val)
      BY <2>4, <3>1, <3>3
    <3>4. CASE Ignored(addr, val)
      <4>1. cq' = cq
        BY <2>6, <3>4 DEF Ignored
      <4>2. Accepted(cq, q, val) /\ ~ cq[q].shadow
        BY <2>7, <4>1 DEF Accepted, Exists
      <4>3. addr >= 8 /\ dataplane
        BY <3>1, <3>4, <4>2 DEF Ignored
      <4>4. q # 0
        BY <2>5, <2>7, <4>3, AdminFirst
      <4>5. cq[q].shadow = (q # 0 /\ dbs) /\ dbs = dataplane
        BY <2>2, <2>7, <4>1, CtrlFields DEF HandedOver
      <4> QED
        BY <4>2, <4>3, <4>4, <4>5
    <3> QED
      BY <2>3, <3>2, <3>3, <3>4
  <2>8. ASSUME NEW q \in Qids, sq'[q] # NULL, ~ sq'[q].shadow, addr = SqDoorbell(q), val < sq'[q].size
        PROVE  sq'[q].tail = val
    <3>1. ~ IsCqDoorbell(addr) /\ DoorbellQid(addr) = q /\ addr % DbSize = 0
      BY <1>1, <2>8, Decoded
    <3>2. ~ HeadTaken(addr, val)
      BY <3>1 DEF HeadTaken
    <3>3. CASE TailTaken(addr, val)
      BY <2>4, <3>1, <3>3
    <3>4. CASE Ignored(addr, val)
      <4>1. sq' = sq
        BY <2>6, <3>4 DEF Ignored
      <4>2. Accepted(sq, q, val) /\ ~ sq[q].shadow
        BY <2>8, <4>1 DEF Accepted, Exists
      <4>3. addr >= 8 /\ dataplane
        BY <3>1, <3>4, <4>2 DEF Ignored
      <4>4. q # 0
        BY <2>5, <2>8, <4>3, AdminFirst
      <4>5. sq[q].shadow = (q # 0 /\ dbs) /\ dbs = dataplane
        BY <2>2, <2>8, <4>1, CtrlFields DEF HandedOver
      <4> QED
        BY <4>2, <4>3, <4>4, <4>5
    <3> QED
      BY <2>3, <3>2, <3>3, <3>4
  <2> QED
    BY <2>1, <2>7, <2>8 DEF DoorbellsReach
<1>4. CASE UNCHANGED vars
  BY <1>4 DEF vars, DoorbellsReach
<1> QED
  BY <1>2, <1>3, <1>4 DEF Next, WriteCc, WriteAqa, WriteBaseLow, WriteBaseHigh

\* With the stride 0 no legal doorbell of a queue without a doorbell buffer is lost;
\* run ctrl_stride shows that another stride loses some.
THEOREM DoorbellsAlwaysReach == ASSUME DbStride = 0 PROVE Spec => []DoorbellsReach
<1>1. Init => DoorbellsReach
  BY DEF Init, DoorbellsReach, NoQueues
<1> QED
  BY <1>1, Inductive, ReachNext, PTL DEF Spec

\* nvme_write_bar for CC takes all queues away, or none.
LEMMA AllOrNone ==
    ASSUME NEW s \in CtrlStates, s.cc.en, NEW d,
           NEW f, f = Shutdown(EnableDisable(Configure(s, d), d), d)
    PROVE  (f.cq = s.cq /\ f.sq = s.sq) \/ (f.cq = NoQueues /\ f.sq = NoQueues)
<1> DEFINE e == EnableDisable(Configure(s, d), d)
<1>1. \A x \in CtrlStates : ClearCtrl(x).cq = NoQueues /\ ClearCtrl(x).sq = NoQueues
                            /\ ClearCtrl(x) \in CtrlStates
  BY ClearSound DEF ClearCtrl, CtrlStates, Sound
<1>2. /\ e \in CtrlStates
      /\ (e.cq = s.cq /\ e.sq = s.sq) \/ (e.cq = NoQueues /\ e.sq = NoQueues)
  <2>1. Configure(s, d) = s
    BY DEF Configure
  <2>2. CASE d.en
    <3>1. e = s
      BY <2>1, <2>2 DEF EnableDisable
    <3> QED
      BY <3>1
  <2>3. CASE ~ d.en
    <3> DEFINE c == ClearCtrl(s)
    <3>1. e = [c EXCEPT !.csts = @ \ {"RDY"}]
      BY <2>1, <2>3 DEF EnableDisable
    <3>2. c \in CtrlStates /\ c.cq = NoQueues /\ c.sq = NoQueues
      BY <1>1
    <3> HIDE DEF c, e
    <3> QED
      BY <3>1, <3>2 DEF CtrlStates
  <2> QED
    BY <2>2, <2>3
<1>3. f = Shutdown(e, d)
  OBVIOUS
<1> HIDE DEF e
<1>4. CASE d.shn /\ ~ e.cc.shn
  <2> DEFINE c == ClearCtrl(e)
  <2>1. f = [c EXCEPT !.cc = d, !.csts = @ \cup {"SHST"}]
    BY <1>3, <1>4 DEF Shutdown
  <2>2. c \in CtrlStates /\ c.cq = NoQueues /\ c.sq = NoQueues
    BY <1>1, <1>2
  <2> HIDE DEF c
  <2> QED
    BY <2>1, <2>2 DEF CtrlStates
<1>5. CASE ~ (d.shn /\ ~ e.cc.shn)
  <2>1. f = e \/ f = [e EXCEPT !.cc = d, !.csts = @ \ {"SHST"}]
    BY <1>3, <1>5 DEF Shutdown
  <2>2. f.cq = e.cq /\ f.sq = e.sq
    BY <1>2, <2>1 DEF CtrlStates
  <2> QED
    BY <1>2, <2>2
<1> QED
  BY <1>4, <1>5

\* It moves no index of a queue that is left.
LEMMA IndicesKept ==
    ASSUME IInv, NEW d \in CcValues, WriteCc(d), NEW q \in Qids
    PROVE  /\ cq[q] # NULL /\ cq'[q] # NULL => cq'[q] = cq[q]
           /\ sq[q] # NULL /\ sq'[q] # NULL => sq'[q] = sq[q]
<1> DEFINE f == Shutdown(EnableDisable(Configure(Ctrl, d), d), d)
<1>1. cq' = f.cq /\ sq' = f.sq
  BY DEF WriteCc, CtrlBecomes
<1>2. Ctrl \in CtrlStates /\ OnlyWhenReady(Ctrl)
  BY DEF IInv, Sound
<1>3. CASE Ctrl.cc.en
  <2>1. (f.cq = Ctrl.cq /\ f.sq = Ctrl.sq) \/ (f.cq = NoQueues /\ f.sq = NoQueues)
    BY <1>2, <1>3, AllOrNone
  <2> HIDE DEF f
  <2> QED
    BY <1>1, <2>1, CtrlFields DEF NoQueues
<1>4. CASE ~ Ctrl.cc.en
  BY <1>2, <1>4, CtrlFields DEF OnlyWhenReady, Idle, NoQueueIn
<1> QED
  BY <1>3, <1>4

\* For every stride and every offset, the index of a queue moves only by a write to
\* its own doorbell -- of an admin queue, to any offset in its register -- and not
\* while the pollers serve the queue from a doorbell buffer.
THEOREM DoorbellsAlwaysHitOwnQueue == Spec => DoorbellsHitOwnQueue
<1> DEFINE Moves(q) ==
        /\ cq[q] # NULL /\ cq'[q] # NULL /\ cq'[q].head # cq[q].head
           => mmio'[1] \in Reaches(q, CqDoorbell(q)) /\ mmio'[2] = cq'[q].head /\ ~ cq[q].shadow
        /\ sq[q] # NULL /\ sq'[q] # NULL /\ sq'[q].tail # sq[q].tail
           => mmio'[1] \in Reaches(q, SqDoorbell(q)) /\ mmio'[2] = sq'[q].tail /\ ~ sq[q].shadow
<1>1. ASSUME IInv, [Next]_vars, NEW q \in Qids
      PROVE  Moves(q)
  <2>1. ASSUME NEW d \in CcValues, WriteCc(d) PROVE Moves(q)
    BY <1>1, <2>1, IndicesKept
  <2>2. ASSUME NEW addr \in DbAddrs, NEW val \in 0 .. MaxVal, WriteDoorbell(addr, val) PROVE Moves(q)
    <3>1. mmio'[1] = addr /\ mmio'[2] = val /\ addr \in Nat
      BY <2>2 DEF WriteDoorbell, DbAddrs
    <3>2. ASSUME q = DoorbellQid(addr), addr < 8 \/ addr % DbSize = 0
          PROVE  /\ IsCqDoorbell(addr) => addr \in Reaches(q, CqDoorbell(q))
                 /\ ~ IsCqDoorbell(addr) => addr \in Reaches(q, SqDoorbell(q))
      <4>1. CASE q = 0
        BY <3>1, <3>2, <4>1, Encoded DEF Reaches
      <4>2. CASE q # 0
        <5>1. addr % DbSize = 0
          BY <3>1, <3>2, <4>2, AdminQid
        <5> QED
          BY <3>1, <3>2, <4>2, <5>1, Encoded DEF Reaches
      <4> QED
        BY <4>1, <4>2
    <3>3. ASSUME cq[q] # NULL, cq'[q] # NULL, cq'[q].head # cq[q].head
          PROVE  mmio'[1] \in Reaches(q, CqDoorbell(q)) /\ mmio'[2] = cq'[q].head /\ ~ cq[q].shadow
      <4>1. HeadTaken(addr, val) /\ q = DoorbellQid(addr) /\ cq'[q].head = val
        BY <1>1, <2>2, <3>3, DoorbellKeeps
      <4>2. IsCqDoorbell(addr) /\ ~ cq[q].shadow /\ (addr < 8 \/ addr % DbSize = 0)
        BY <4>1 DEF HeadTaken
      <4> QED
        BY <3>1, <3>2, <4>1, <4>2
    <3>4. ASSUME sq[q] # NULL, sq'[q] # NULL, sq'[q].tail # sq[q].tail
          PROVE  mmio'[1] \in Reaches(q, SqDoorbell(q)) /\ mmio'[2] = sq'[q].tail /\ ~ sq[q].shadow
      <4>1. TailTaken(addr, val) /\ q = DoorbellQid(addr) /\ sq'[q].tail = val
        BY <1>1, <2>2, <3>4, DoorbellKeeps
      <4>2. ~ IsCqDoorbell(addr) /\ ~ sq[q].shadow /\ (addr < 8 \/ addr % DbSize = 0)
        BY <4>1 DEF TailTaken
      <4> QED
        BY <3>1, <3>2, <4>1, <4>2
    <3> QED
      BY <3>3, <3>4
  <2>3. CASE UNCHANGED <<cq, sq>>
    BY <2>3
  <2> QED
    BY <1>1, <2>1, <2>2, <2>3 DEF Next, WriteAqa, WriteBaseLow, WriteBaseHigh, vars
<1>2. IInv /\ [Next]_vars => [\A q \in Qids : Moves(q)]_vars
  BY <1>1
<1> QED
  BY <1>2, Inductive, PTL DEF Spec, DoorbellsHitOwnQueue

-----------------------------------------------------------------------------
(* CC                                                                       *)

\* Only nvme_write_bar for CC takes the admin queues away, and it says so.
LEMMA LossReported ==
    ASSUME NEW s, Sound(s), s.cq[0] # NULL, NEW d \in CcValues,
           NEW f, f = Shutdown(EnableDisable(Configure(s, d), d), d), f.cq[0] = NULL
    PROVE  "RDY" \notin f.csts \/ "SHST" \in f.csts
<1>1. s \in CtrlStates /\ OnlyWhenReady(s)
  BY DEF Sound
<1>2. 0 \in Qids
  BY ConstraintsAssumption DEF Qids
<1>3. s.cc.en
  BY <1>1, <1>2 DEF OnlyWhenReady, Idle, NoQueueIn
<1> DEFINE e == EnableDisable(Configure(s, d), d)
<1>4. Configure(s, d) = s
  BY <1>3 DEF Configure
<1>5. f = Shutdown(e, d)
  OBVIOUS
<1>6. CASE d.en
  <2>1. e = s
    BY <1>3, <1>4, <1>6 DEF EnableDisable
  <2>2. CASE d.shn /\ ~ s.cc.shn
    <3> DEFINE c == ClearCtrl(s)
    <3>1. c \in CtrlStates
      BY <1>1, ClearSound DEF Sound
    <3>2. f = [c EXCEPT !.cc = d, !.csts = @ \cup {"SHST"}]
      BY <1>5, <2>1, <2>2 DEF Shutdown
    <3> HIDE DEF c
    <3>3. f.csts = c.csts \cup {"SHST"}
      BY <3>1, <3>2 DEF CtrlStates
    <3> QED
      BY <3>3
  <2>3. CASE ~ (d.shn /\ ~ s.cc.shn)
    <3>1. f = s \/ f = [s EXCEPT !.cc = d, !.csts = @ \ {"SHST"}]
      BY <1>5, <2>1, <2>3 DEF Shutdown
    <3>2. f.cq = s.cq
      BY <1>1, <3>1 DEF CtrlStates
    <3> QED
      BY <3>2
  <2> QED
    BY <2>2, <2>3
<1>7. CASE ~ d.en
  <2> DEFINE c == ClearCtrl(s)
  <2>1. c \in CtrlStates
    BY <1>1, ClearSound DEF Sound
  <2>2. e = [c EXCEPT !.csts = @ \ {"RDY"}]
    BY <1>3, <1>4, <1>7 DEF EnableDisable
  <2> HIDE DEF c
  <2>3. e \in CtrlStates /\ e.csts = c.csts \ {"RDY"}
    BY <2>1, <2>2 DEF CtrlStates
  <2> HIDE DEF e
  <2>4. CASE d.shn /\ ~ e.cc.shn
    <3> DEFINE g == ClearCtrl(e)
    <3>1. g \in CtrlStates
      BY <2>3, ClearSound DEF Sound
    <3>2. f = [g EXCEPT !.cc = d, !.csts = @ \cup {"SHST"}]
      BY <1>5, <2>4 DEF Shutdown
    <3> HIDE DEF g
    <3>3. f.csts = g.csts \cup {"SHST"}
      BY <3>1, <3>2 DEF CtrlStates
    <3> QED
      BY <3>3
  <2>5. CASE ~ (d.shn /\ ~ e.cc.shn)
    <3>1. f = e \/ f = [e EXCEPT !.cc = d, !.csts = @ \ {"SHST"}]
      BY <1>5, <2>5 DEF Shutdown
    <3>2. CASE f = e
      BY <2>3, <3>2
    <3>3. CASE f = [e EXCEPT !.cc = d, !.csts = @ \ {"SHST"}]
      <4>1. f.csts = e.csts \ {"SHST"}
        BY <2>3, <3>3 DEF CtrlStates
      <4> QED
        BY <2>3, <4>1
    <3> QED
      BY <3>1, <3>2, <3>3
  <2> QED
    BY <2>4, <2>5
<1> QED
  BY <1>6, <1>7

\* The host's queues never vanish without a sign of it in CSTS.
THEOREM QueueLossAlwaysReported == Spec => QueueLossReported
<1>1. ASSUME IInv, [Next]_vars, cq[0] # NULL, cq'[0] = NULL
      PROVE  "RDY" \notin csts' \/ "SHST" \in csts'
  <2>1. ASSUME NEW d \in CcValues, WriteCc(d) PROVE "RDY" \notin csts' \/ "SHST" \in csts'
    <3>1. PICK f : f = Shutdown(EnableDisable(Configure(Ctrl, d), d), d)
      OBVIOUS
    <3>2. csts' = f.csts /\ cq' = f.cq
      BY <2>1, <3>1 DEF WriteCc, CtrlBecomes
    <3> QED
      BY <1>1, <3>1, <3>2, LossReported, CtrlFields DEF IInv
  <2>2. ASSUME NEW addr \in DbAddrs, NEW val \in 0 .. MaxVal, WriteDoorbell(addr, val) PROVE FALSE
    BY <1>1, <2>2, DoorbellKeeps
  <2>3. CASE UNCHANGED cq
    BY <1>1, <2>3
  <2> QED
    BY <1>1, <2>1, <2>2, <2>3 DEF Next, WriteAqa, WriteBaseLow, WriteBaseHigh, vars
<1>2. IInv /\ [Next]_vars
      => [cq[0] # NULL /\ cq'[0] = NULL => "RDY" \notin csts' \/ "SHST" \in csts']_vars
  BY <1>1
<1> QED
  BY <1>2, Inductive, PTL DEF Spec, QueueLossReported

\* If CAP announces a page size at all, a well configured controller starts after
\* any history; run ctrl_mps shows that none does when the announced limits cross.
THEOREM RestartAlwaysSucceeds == ASSUME CapMpsMin <= MpsMax PROVE Spec => RestartSucceeds
<1>1. ASSUME IInv, [Next]_vars, ~ cc.en, cc'.en, WellConfigured'
      PROVE  csts' = {"RDY"} /\ cq'[0] # NULL /\ sq'[0] # NULL
  <2>1. Sound(Ctrl) /\ OtherTypes /\ Ctrl \in CtrlStates /\ OnlyWhenReady(Ctrl)
    BY <1>1 DEF IInv, Sound
  <2>2. 0 \in Qids
    BY ConstraintsAssumption DEF Qids
  <2>3. cq[0] = NULL /\ sq[0] = NULL /\ Idle(Ctrl)
    BY <1>1, <2>1, <2>2, CtrlFields DEF OnlyWhenReady, Idle, NoQueueIn
  <2>4. ASSUME NEW d \in CcValues, WriteCc(d)
        PROVE  csts' = {"RDY"} /\ cq'[0] # NULL /\ sq'[0] # NULL
    <3> DEFINE c == Configure(Ctrl, d)
               e == EnableDisable(c, d)
               f == Shutdown(e, d)
               w == [Ctrl EXCEPT !.cc = d]
    <3>1. /\ csts' = f.csts /\ cq' = f.cq /\ sq' = f.sq /\ cc' = f.cc
          /\ base' = base /\ aqa' = aqa
      BY <2>4 DEF WriteCc, CtrlBecomes
    <3>2. ~ Ctrl.cc.en
      BY <1>1, CtrlFields
    <3>3. w \in CtrlStates /\ w.cc = d /\ w.cq = cq /\ w.sq = sq /\ w.csts = csts
          /\ w.dataplane = dataplane /\ w.dbs = dbs
      BY <2>1, CtrlFields DEF CtrlStates
    <3>4. d.en
      <4>1. SUFFICES ASSUME ~ d.en PROVE FALSE
        OBVIOUS
      <4>2. c = Ctrl \/ c = w
        BY DEF Configure
      <4>3. ~ c.cc.en /\ c \in CtrlStates
        BY <2>1, <3>2, <3>3, <4>1, <4>2
      <4>4. e = c
        BY <4>1, <4>3 DEF EnableDisable
      <4> HIDE DEF c
      <4>5. \/ f = [ClearCtrl(e) EXCEPT !.cc = d, !.csts = @ \cup {"SHST"}]
            \/ f = [e EXCEPT !.cc = d, !.csts = @ \ {"SHST"}]
            \/ f = e
        BY DEF Shutdown
      <4>6. ClearCtrl(e) \in CtrlStates
        BY <4>3, <4>4, ClearSound DEF Sound
      <4>7. f.cc = d \/ f.cc = e.cc
        BY <4>3, <4>4, <4>5, <4>6 DEF CtrlStates
      <4> QED
        BY <1>1, <3>1, <4>1, <4>3, <4>4, <4>7
    <3>5. c = Ctrl
      BY <3>4 DEF Configure
    <3>6. e = StartCtrl(w)
      BY <3>2, <3>4, <3>5 DEF EnableDisable
    <3> HIDE DEF c, e, w
    <3>7. Sound(w) /\ Idle(w)
      BY <2>1, <2>3, <3>3, IdleSound, CtrlFields
    <3>8. e.cc = d /\ Sound(e)
      BY <2>1, <3>3, <3>4, <3>6, <3>7, StartSound
    <3>9. f = e
      BY <3>8 DEF Shutdown
    <3>10. cc' = d
      BY <3>1, <3>8, <3>9
    <3>11. Startable(w)
      <4>1. /\ d.mps = CapMpsMin /\ d.qes
            /\ \A r \in Regs : ~ Unset(base[r]) /\ Aligned(base[r], d.mps)
            /\ aqa.asqs # 0 /\ aqa.acqs # 0
        BY <1>1, <3>1, <3>10 DEF WellConfigured
      <4>2. CapMpsMin <= d.mps /\ d.mps <= MpsMax
        BY <4>1, ConstraintsAssumption DEF CapMpsMin
      <4> QED
        BY <2>3, <3>3, <4>1, <4>2 DEF Startable
    <3>12. e.csts = {"RDY"}
      BY <3>3, <3>6, <3>11 DEF StartCtrl, CtrlStates
    <3>13. ~ Idle(e)
      <4>1. e.cq[0] = [size |-> aqa.acqs + 1, head |-> 0, shadow |-> FALSE]
        BY <2>2, <3>3, <3>6, <3>11 DEF StartCtrl, CtrlStates
      <4>2. aqa.acqs + 1 # 0
        <5>1. AqaSizes \cup {0} \subseteq Nat
          BY HostAssumption
        <5> QED
          BY <2>1, <5>1 DEF OtherTypes
      <4>3. e.cq[0] # NULL
        BY <4>1, <4>2, NotNull
      <4> QED
        BY <2>2, <4>3 DEF Idle, NoQueueIn
    <3>14. e.cq[0] # NULL /\ e.sq[0] # NULL
      BY <3>8, <3>13 DEF Sound, OnlyWhenReady
    <3> QED
      BY <3>1, <3>9, <3>12, <3>14
  <2>5. ASSUME NEW addr \in DbAddrs, NEW val \in 0 .. MaxVal, WriteDoorbell(addr, val) PROVE FALSE
    BY <1>1, <2>5, DoorbellKeeps
  <2>6. CASE UNCHANGED cc
    BY <1>1, <2>6
  <2> QED
    BY <1>1, <2>4, <2>5, <2>6 DEF Next, WriteAqa, WriteBaseLow, WriteBaseHigh, vars
<1>2. IInv /\ [Next]_vars
      => [~ cc.en /\ cc'.en /\ WellConfigured' => csts' = {"RDY"} /\ cq'[0] # NULL /\ sq'[0] # NULL]_vars
  BY <1>1
<1> QED
  BY <1>2, Inductive, PTL DEF Spec, RestartSucceeds
=============================================================================
