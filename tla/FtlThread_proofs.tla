-------------------------- MODULE FtlThread_proofs --------------------------
(***************************************************************************)
(* What the FTL thread does to requests, for any number of pollers and of  *)
(* requests, and rings of any size.                                        *)
(***************************************************************************)
EXTENDS FtlThread, SequenceTheorems, FiniteSetTheorems, TLAPS

-----------------------------------------------------------------------------
(* Sequences as rings                                                       *)

Elems(s) == {s[k] : k \in DOMAIN s}
NoDup(s) == \A j, k \in DOMAIN s : s[j] = s[k] => j = k

\* What two rings hold together.
LEMMA ConcatElems ==
    ASSUME NEW S, NEW s \in Seq(S), NEW t \in Seq(S)
    PROVE  Elems(s \o t) = Elems(s) \cup Elems(t)
<1> DEFINE u == s \o t
<1>1. /\ Len(s) \in Nat /\ Len(t) \in Nat
      /\ DOMAIN s = 1 .. Len(s) /\ DOMAIN t = 1 .. Len(t)
  OBVIOUS
<1>2. /\ u \in Seq(S) /\ Len(u) = Len(s) + Len(t)
      /\ \A k \in 1 .. Len(s) + Len(t) : u[k] = IF k <= Len(s) THEN s[k] ELSE t[k - Len(s)]
  BY ConcatProperties
<1> HIDE DEF u
<1>3. DOMAIN u = 1 .. Len(s) + Len(t)
  BY <1>2
<1>4. ASSUME NEW k \in DOMAIN u PROVE u[k] \in Elems(s) \cup Elems(t)
  <2>1. CASE k <= Len(s)
    BY <1>1, <1>2, <1>3, <2>1 DEF Elems
  <2>2. CASE ~ k <= Len(s)
    <3>1. k - Len(s) \in DOMAIN t /\ u[k] = t[k - Len(s)]
      BY <1>1, <1>2, <1>3, <2>2
    <3> QED
      BY <3>1 DEF Elems
  <2> QED
    BY <2>1, <2>2
<1>5. ASSUME NEW k \in DOMAIN s PROVE s[k] \in Elems(u)
  <2>1. k \in DOMAIN u /\ u[k] = s[k]
    BY <1>1, <1>2, <1>3
  <2> QED
    BY <2>1 DEF Elems
<1>6. ASSUME NEW k \in DOMAIN t PROVE t[k] \in Elems(u)
  <2>1. k + Len(s) \in DOMAIN u /\ u[k + Len(s)] = t[k]
    BY <1>1, <1>2, <1>3
  <2> QED
    BY <2>1 DEF Elems
<1> QED
  BY <1>4, <1>5, <1>6 DEF Elems, u

\* Nothing is twice in two rings that share nothing.
LEMMA ConcatNoDup ==
    ASSUME NEW S, NEW s \in Seq(S), NEW t \in Seq(S)
    PROVE  NoDup(s \o t) <=> NoDup(s) /\ NoDup(t) /\ Elems(s) \cap Elems(t) = {}
<1> DEFINE u == s \o t
<1>1. /\ Len(s) \in Nat /\ Len(t) \in Nat
      /\ DOMAIN s = 1 .. Len(s) /\ DOMAIN t = 1 .. Len(t)
  OBVIOUS
<1>2. /\ u \in Seq(S) /\ Len(u) = Len(s) + Len(t)
      /\ \A k \in 1 .. Len(s) + Len(t) : u[k] = IF k <= Len(s) THEN s[k] ELSE t[k - Len(s)]
  BY ConcatProperties
<1> HIDE DEF u
<1>3. DOMAIN u = 1 .. Len(s) + Len(t)
  BY <1>2
<1>4. \A k \in DOMAIN s : k \in DOMAIN u /\ u[k] = s[k]
  BY <1>1, <1>2, <1>3
<1>5. \A k \in DOMAIN t : k + Len(s) \in DOMAIN u /\ u[k + Len(s)] = t[k]
  BY <1>1, <1>2, <1>3
<1>6. ASSUME NoDup(u) PROVE NoDup(s) /\ NoDup(t) /\ Elems(s) \cap Elems(t) = {}
  <2>1. NoDup(s)
    BY <1>4, <1>6 DEF NoDup
  <2>2. NoDup(t)
    <3> SUFFICES ASSUME NEW j \in DOMAIN t, NEW k \in DOMAIN t, t[j] = t[k] PROVE j = k
      BY DEF NoDup
    <3>1. j + Len(s) = k + Len(s)
      BY <1>5, <1>6 DEF NoDup
    <3> QED
      BY <1>1, <3>1
  <2>3. ASSUME NEW j \in DOMAIN s, NEW k \in DOMAIN t, s[j] = t[k] PROVE FALSE
    <3>1. j = k + Len(s)
      BY <1>4, <1>5, <1>6, <2>3 DEF NoDup
    <3> QED
      BY <1>1, <3>1
  <2> QED
    BY <2>1, <2>2, <2>3 DEF Elems
<1>7. ASSUME NoDup(s), NoDup(t), Elems(s) \cap Elems(t) = {} PROVE NoDup(u)
  <2> SUFFICES ASSUME NEW j \in DOMAIN u, NEW k \in DOMAIN u, u[j] = u[k] PROVE j = k
    BY DEF NoDup
  <2>1. ASSUME NEW x \in DOMAIN u
        PROVE  \/ x \in DOMAIN s /\ u[x] = s[x]
               \/ x - Len(s) \in DOMAIN t /\ u[x] = t[x - Len(s)]
    BY <1>1, <1>2, <1>3
  <2>2. CASE j \in DOMAIN s /\ u[j] = s[j] /\ k \in DOMAIN s /\ u[k] = s[k]
    BY <1>7, <2>2 DEF NoDup
  <2>3. CASE /\ j - Len(s) \in DOMAIN t /\ u[j] = t[j - Len(s)]
             /\ k - Len(s) \in DOMAIN t /\ u[k] = t[k - Len(s)]
    <3>1. j - Len(s) = k - Len(s)
      BY <1>7, <2>3 DEF NoDup
    <3> QED
      BY <1>1, <1>3, <3>1
  <2>4. CASE j \in DOMAIN s /\ u[j] = s[j] /\ k - Len(s) \in DOMAIN t /\ u[k] = t[k - Len(s)]
    BY <1>7, <2>4 DEF Elems
  <2>5. CASE k \in DOMAIN s /\ u[k] = s[k] /\ j - Len(s) \in DOMAIN t /\ u[j] = t[j - Len(s)]
    BY <1>7, <2>5 DEF Elems
  <2> QED
    BY <2>1, <2>2, <2>3, <2>4, <2>5
<1> QED
  BY <1>6, <1>7 DEF u

\* An empty ring holds nothing.
LEMMA EmptyElems == Elems(<< >>) = {} /\ NoDup(<< >>)
BY DEF Elems, NoDup

\* A ring with one request holds that one.
LEMMA SingleElems == ASSUME NEW x PROVE Elems(<<x>>) = {x} /\ NoDup(<<x>>)
BY DEF Elems, NoDup

\* An enqueue adds its request, and the ring has no request twice if it was not
\* there.
LEMMA AppendElems ==
    ASSUME NEW S, NEW s \in Seq(S), NEW x \in S
    PROVE  /\ Elems(Append(s, x)) = Elems(s) \cup {x}
           /\ NoDup(s) /\ x \notin Elems(s) => NoDup(Append(s, x))
<1> DEFINE e == <<x>>
<1>1. Append(s, x) = s \o e /\ e \in Seq(S)
  BY AppendIsConcat
<1>2. Elems(e) = {x} /\ NoDup(e)
  BY SingleElems
<1> HIDE DEF e
<1>3. Elems(s \o e) = Elems(s) \cup Elems(e)
  BY <1>1, ConcatElems
<1>4. NoDup(s \o e) <=> NoDup(s) /\ NoDup(e) /\ Elems(s) \cap Elems(e) = {}
  BY <1>1, ConcatNoDup
<1> QED
  BY <1>1, <1>2, <1>3, <1>4

\* A dequeue takes out the head and nothing else.
LEMMA TailElems ==
    ASSUME NEW S, NEW s \in Seq(S), s # << >>
    PROVE  /\ Elems(s) = {Head(s)} \cup Elems(Tail(s))
           /\ NoDup(s) => NoDup(Tail(s)) /\ Head(s) \notin Elems(Tail(s))
<1>1. Tail(s) \in Seq(S) /\ Head(s) \in S /\ <<Head(s)>> \in Seq(S)
  BY HeadTailProperties
<1>2. s = <<Head(s)>> \o Tail(s)
  <2>1. Len(s) \in Nat /\ Len(s) >= 1 /\ Head(s) = s[1]
    OBVIOUS
  <2>2. 1 \in 1 .. Len(s) /\ Len(s) \in 1 .. Len(s)
    BY <2>1
  <2>3. SubSeq(s, 1, Len(s)) = <<s[1]>> \o SubSeq(s, 1 + 1, Len(s))
    BY <2>2, SubSeqRecursiveFirst
  <2> QED
    BY <2>1, <2>3, SubSeqFull, TailIsSubSeq
<1> DEFINE h == <<Head(s)>>
           t == Tail(s)
<1>3. s = h \o t /\ h \in Seq(S) /\ t \in Seq(S)
  BY <1>1, <1>2
<1>4. Elems(h) = {Head(s)} /\ NoDup(h)
  BY SingleElems
<1> HIDE DEF h, t
<1>5. Elems(h \o t) = Elems(h) \cup Elems(t)
  BY <1>3, ConcatElems
<1>6. NoDup(h \o t) <=> NoDup(h) /\ NoDup(t) /\ Elems(h) \cap Elems(t) = {}
  BY <1>3, ConcatNoDup
<1>7. /\ Elems(s) = {Head(s)} \cup Elems(t)
      /\ NoDup(s) => NoDup(t) /\ Head(s) \notin Elems(t)
  BY <1>3, <1>4, <1>5, <1>6
<1> QED
  BY <1>7 DEF t

-----------------------------------------------------------------------------
(* Types                                                                    *)

\* TypeOK, by the group of variables.
RingTypes ==
    /\ toFtl \in [Pollers -> Seq(Req)] /\ toPoller \in [Pollers -> Seq(Req)]
    /\ pq \in [Pollers -> SUBSET Req]
FieldTypes ==
    /\ op \in [Req -> Opcodes]
    /\ stime \in [Req -> Nat] /\ reqlat \in [Req -> Nat] /\ expire \in [Req -> Nat]
HistoryTypes == owner \in [Req -> Pollers \cup {NONE}] /\ work \in [Req -> Nat]
GlobalTypes  == started \in BOOLEAN /\ now \in Nat
ThreadTypes ==
    /\ pc \in {"wait", "scan", "serve", "charge", "return"}
    /\ i \in Pollers /\ req \in Req /\ lat \in Nat

\* The types of the rings, of the requests and of the thread.
LEMMA TypeParts == TypeOK <=> RingTypes /\ FieldTypes /\ HistoryTypes /\ GlobalTypes /\ ThreadTypes
BY DEF TypeOK, RingTypes, FieldTypes, HistoryTypes, GlobalTypes, ThreadTypes

\* The thread starts with everything in its type.
LEMMA TypeInit == Init => TypeOK
<1> SUFFICES ASSUME Init PROVE TypeOK
  OBVIOUS
<1> USE DEF Init
<1>1. RingTypes
  BY DEF RingTypes
<1>2. FieldTypes
  BY DEF FieldTypes, Opcodes
<1>3. HistoryTypes
  BY DEF HistoryTypes
<1>4. GlobalTypes
  BY DEF GlobalTypes
<1>5. ThreadTypes
  BY PollerAssumption DEF ThreadTypes, Pollers
<1> QED
  BY <1>1, <1>2, <1>3, <1>4, <1>5, TypeParts

\* The thread goes on to a poller there is.
LEMMA NextPollerType == ASSUME ThreadTypes, NextPoller PROVE i' \in Pollers
BY PollerAssumption DEF ThreadTypes, NextPoller, Pollers

\* A step types the groups of variables that it leaves alone.
LEMMA TypeFrame ==
    ASSUME TypeOK
    PROVE  /\ RingTypes /\ FieldTypes /\ HistoryTypes /\ GlobalTypes /\ ThreadTypes
           /\ UNCHANGED rings => RingTypes'
           /\ UNCHANGED reqFields => FieldTypes'
           /\ UNCHANGED history => HistoryTypes'
           /\ UNCHANGED <<started, now>> => GlobalTypes'
           /\ UNCHANGED threadVars => ThreadTypes'
BY TypeParts DEF RingTypes, FieldTypes, HistoryTypes, GlobalTypes, ThreadTypes,
       rings, reqFields, history, threadVars

\* Every step keeps the types.
LEMMA TypeNext == TypeOK /\ [Next]_vars => TypeOK'
<1> SUFFICES ASSUME TypeOK, [Next]_vars PROVE TypeOK'
  OBVIOUS
<1>f. RingTypes /\ FieldTypes /\ HistoryTypes /\ GlobalTypes /\ ThreadTypes
  BY TypeParts
<1> SUFFICES RingTypes' /\ FieldTypes' /\ HistoryTypes' /\ GlobalTypes' /\ ThreadTypes'
  BY DEF TypeOK, RingTypes, FieldTypes, HistoryTypes, GlobalTypes, ThreadTypes
<1> DEFINE Goal == RingTypes' /\ FieldTypes' /\ HistoryTypes' /\ GlobalTypes' /\ ThreadTypes'
<1>1. CASE Wait
  BY <1>1, TypeFrame DEF Wait, ThreadTypes
<1>2. CASE Skip
  BY <1>2, TypeFrame, NextPollerType DEF Skip, ThreadTypes
<1>3. CASE Dequeue
  <2>1. Head(toFtl[i]) \in Req /\ Tail(toFtl[i]) \in Seq(Req)
    BY <1>3, <1>f, HeadTailProperties DEF Dequeue, RingTypes, ThreadTypes
  <2>2. RingTypes'
    BY <1>3, <1>f, <2>1 DEF Dequeue, RingTypes
  <2>3. ThreadTypes'
    BY <1>3, <1>f, <2>1 DEF Dequeue, ThreadTypes
  <2> QED
    BY <1>3, <2>2, <2>3, TypeFrame DEF Dequeue
<1>4. CASE Serve
  <2>1. lat' \in Nat /\ work' \in [Req -> Nat]
    <3>1. op[req] \in Opcodes
      BY <1>f DEF FieldTypes, ThreadTypes
    <3>2. CASE op[req] \in {"write", "read"}
      BY <1>4, <1>f, <3>2, LatsAssumption DEF Serve, HistoryTypes
    <3>3. CASE op[req] = "dsm"
      BY <1>4, <1>f, <3>3 DEF Serve, HistoryTypes
    <3>4. CASE op[req] = "other"
      BY <1>4, <1>f, <3>4 DEF Serve, HistoryTypes, ThreadTypes
    <3> QED
      BY <3>1, <3>2, <3>3, <3>4 DEF Opcodes
  <2>2. HistoryTypes'
    BY <1>4, <1>f, <2>1 DEF Serve, HistoryTypes
  <2>3. ThreadTypes'
    BY <1>4, <1>f, <2>1 DEF Serve, ThreadTypes
  <2> QED
    BY <1>4, <2>2, <2>3, TypeFrame DEF Serve
<1>5. CASE Charge
  <2>1. expire[req] + lat \in Nat /\ lat \in Nat
    BY <1>f DEF FieldTypes, ThreadTypes
  <2>2. FieldTypes'
    BY <1>5, <1>f, <2>1 DEF Charge, FieldTypes
  <2>3. ThreadTypes'
    BY <1>5, <1>f DEF Charge, ThreadTypes
  <2> QED
    BY <1>5, <2>2, <2>3, TypeFrame DEF Charge
<1>6. CASE Return
  <2>1. Append(toPoller[i], req) \in Seq(Req)
    BY <1>f, AppendProperties DEF RingTypes, ThreadTypes
  <2>2. RingTypes'
    BY <1>6, <1>f, <2>1 DEF Return, RingTypes
  <2>3. HistoryTypes'
    BY <1>6, <1>f DEF Return, HistoryTypes
  <2>4. ThreadTypes'
    BY <1>6, <1>f, NextPollerType DEF Return, ThreadTypes
  <2> QED
    BY <1>6, <2>2, <2>3, <2>4, TypeFrame DEF Return
<1>7. CASE StartDataplane
  BY <1>7, TypeFrame DEF StartDataplane, GlobalTypes
<1>8. ASSUME NEW p \in Pollers, NEW r \in Req, NEW o \in Opcodes, Submit(p, r, o) PROVE Goal
  <2>1. Append(toFtl[p], r) \in Seq(Req)
    BY <1>f, AppendProperties DEF RingTypes
  <2>2. RingTypes'
    BY <1>8, <1>f, <2>1 DEF Submit, RingTypes
  <2>3. FieldTypes'
    BY <1>8, <1>f DEF Submit, FieldTypes, GlobalTypes
  <2>4. HistoryTypes'
    BY <1>8, <1>f DEF Submit, HistoryTypes
  <2> QED
    BY <1>8, <2>2, <2>3, <2>4, TypeFrame DEF Submit
<1>9. ASSUME NEW p \in Pollers, Collect(p) PROVE Goal
  <2>1. Head(toPoller[p]) \in Req /\ Tail(toPoller[p]) \in Seq(Req)
    BY <1>9, <1>f, HeadTailProperties DEF Collect, RingTypes
  <2>2. RingTypes'
    BY <1>9, <1>f, <2>1 DEF Collect, RingTypes
  <2> QED
    BY <1>9, <2>2, TypeFrame DEF Collect
<1>10. ASSUME NEW p \in Pollers, NEW r \in Req, Complete(p, r) PROVE Goal
  <2>1. RingTypes'
    BY <1>10, <1>f DEF Complete, RingTypes
  <2>2. HistoryTypes'
    BY <1>10, <1>f DEF Complete, HistoryTypes
  <2> QED
    BY <1>10, <2>1, <2>2, TypeFrame DEF Complete
<1>11. CASE Tick
  BY <1>11, TypeFrame DEF Tick, GlobalTypes
<1>12. CASE UNCHANGED vars
  BY <1>12, TypeFrame DEF vars
<1> QED
  BY <1>1, <1>2, <1>3, <1>4, <1>5, <1>6, <1>7, <1>8, <1>9, <1>10, <1>11, <1>12
     DEF Next, FtlStep, Poll

\* The rings hold requests, and the loop variable stays within the pollers, in
\* every interleaving of the FTL thread with the pollers.
THEOREM TypeCorrect == Spec => []TypeOK
BY TypeInit, TypeNext, PTL DEF Spec

-----------------------------------------------------------------------------
(* Where a request is                                                       *)

Hand(p)  == IF Serving /\ i = p THEN {req} ELSE {}
Sent(p)  == Elems(toFtl[p])
Back(p)  == Elems(toPoller[p])
Place(p) == pq[p] \cup Back(p) \cup Hand(p) \cup Sent(p)

\* RequestsConserved by the places of a poller's requests: they are disjoint,
\* no ring holds a request twice, and together they hold what the poller owns.
Placed(p) ==
    /\ NoDup(toPoller[p]) /\ NoDup(toFtl[p])
    /\ Back(p) \cap Sent(p) = {}
    /\ Hand(p) \cap (Back(p) \cup Sent(p)) = {}
    /\ pq[p] \cap (Back(p) \cup Hand(p) \cup Sent(p)) = {}
    /\ \A r \in Req : owner[r] = p <=> r \in Place(p)

AllPlaced == \A p \in Pollers : Placed(p)

\* Three rings in a row hold what each holds, nothing twice if they share nothing.
LEMMA ChainParts ==
    ASSUME NEW s \in Seq(Req), NEW h \in Seq(Req), NEW t \in Seq(Req)
    PROVE  /\ s \o h \o t \in Seq(Req)
           /\ Elems(s \o h \o t) = Elems(s) \cup Elems(h) \cup Elems(t)
           /\ NoDup(s \o h \o t) <=> /\ NoDup(s) /\ NoDup(h) /\ NoDup(t)
                                     /\ Elems(s) \cap Elems(h) = {}
                                     /\ (Elems(s) \cup Elems(h)) \cap Elems(t) = {}
<1> DEFINE sh == s \o h
<1>1. sh \in Seq(Req)
  BY ConcatProperties
<1>2. Elems(sh) = Elems(s) \cup Elems(h)
  BY ConcatElems
<1>3. NoDup(sh) <=> NoDup(s) /\ NoDup(h) /\ Elems(s) \cap Elems(h) = {}
  BY ConcatNoDup
<1> HIDE DEF sh
<1>4. sh \o t \in Seq(Req)
  BY <1>1, ConcatProperties
<1>5. Elems(sh \o t) = Elems(sh) \cup Elems(t)
  BY <1>1, ConcatElems
<1>6. NoDup(sh \o t) <=> NoDup(sh) /\ NoDup(t) /\ Elems(sh) \cap Elems(t) = {}
  BY <1>1, ConcatNoDup
<1>7. /\ sh \o t \in Seq(Req)
      /\ Elems(sh \o t) = Elems(s) \cup Elems(h) \cup Elems(t)
      /\ NoDup(sh \o t) <=> /\ NoDup(s) /\ NoDup(h) /\ NoDup(t)
                            /\ Elems(s) \cap Elems(h) = {}
                            /\ (Elems(s) \cup Elems(h)) \cap Elems(t) = {}
  BY <1>2, <1>3, <1>4, <1>5, <1>6
<1> QED
  BY <1>7 DEF sh

\* Nothing is twice on the way of a poller.
LEMMA ChainFacts ==
    ASSUME TypeOK, AllPlaced, NEW p \in Pollers
    PROVE  /\ Chain(p) \in Seq(Req)
           /\ NoDup(Chain(p))
           /\ Elems(Chain(p)) = Back(p) \cup Hand(p) \cup Sent(p)
<1>1. toPoller[p] \in Seq(Req) /\ toFtl[p] \in Seq(Req) /\ req \in Req
  BY DEF TypeOK
<1>2. InHand(p) \in Seq(Req) /\ Elems(InHand(p)) = Hand(p) /\ NoDup(InHand(p))
  <2>1. CASE Serving /\ i = p
    <3>1. InHand(p) = <<req>> /\ Hand(p) = {req}
      BY <2>1 DEF InHand, Hand
    <3>2. <<req>> \in Seq(Req)
      BY <1>1
    <3> QED
      BY <3>1, <3>2, SingleElems
  <2>2. CASE ~ (Serving /\ i = p)
    <3>1. InHand(p) = << >> /\ Hand(p) = {}
      BY <2>2 DEF InHand, Hand
    <3> QED
      BY <3>1, EmptyElems
  <2> QED
    BY <2>1, <2>2
<1>3. Placed(p)
  BY DEF AllPlaced
<1> HIDE DEF InHand, Hand
<1>4. /\ Chain(p) \in Seq(Req)
      /\ Elems(Chain(p)) = Elems(toPoller[p]) \cup Elems(InHand(p)) \cup Elems(toFtl[p])
      /\ NoDup(Chain(p)) <=> /\ NoDup(toPoller[p]) /\ NoDup(InHand(p)) /\ NoDup(toFtl[p])
                             /\ Elems(toPoller[p]) \cap Elems(InHand(p)) = {}
                             /\ (Elems(toPoller[p]) \cup Elems(InHand(p))) \cap Elems(toFtl[p]) = {}
  BY <1>1, <1>2, ChainParts DEF Chain
<1> QED
  BY <1>2, <1>3, <1>4 DEF Placed, Back, Sent

\* Requests that all have their place are conserved.
LEMMA PlacedConserves == TypeOK /\ AllPlaced => RequestsConserved
<1> SUFFICES ASSUME TypeOK, AllPlaced, NEW p \in Pollers
             PROVE  /\ \A j, k \in DOMAIN Chain(p) : Chain(p)[j] = Chain(p)[k] => j = k
                    /\ \A r \in Req : owner[r] = p <=> \/ r \in pq[p]
                                                       \/ \E j \in DOMAIN Chain(p) : Chain(p)[j] = r
                    /\ \A j \in DOMAIN Chain(p) : Chain(p)[j] \notin pq[p]
  BY DEF RequestsConserved
<1>1. NoDup(Chain(p)) /\ Elems(Chain(p)) = Back(p) \cup Hand(p) \cup Sent(p)
  BY ChainFacts
<1>2. Placed(p)
  BY DEF AllPlaced
<1>3. \A r \in Req : owner[r] = p <=> r \in pq[p] \/ r \in Elems(Chain(p))
  BY <1>1, <1>2 DEF Placed, Place
<1>4. \A r \in Elems(Chain(p)) : r \notin pq[p]
  BY <1>1, <1>2 DEF Placed
<1>5. \A r : r \in Elems(Chain(p)) <=> \E j \in DOMAIN Chain(p) : Chain(p)[j] = r
  BY DEF Elems
<1> QED
  BY <1>1, <1>3, <1>4, <1>5 DEF NoDup

\* No request is under way at first.
LEMMA PlacedInit == Init => AllPlaced
<1> SUFFICES ASSUME Init, NEW p \in Pollers PROVE Placed(p)
  BY DEF AllPlaced
<1>1. /\ toFtl[p] = << >> /\ toPoller[p] = << >> /\ pq[p] = {} /\ ~ Serving
      /\ \A r \in Req : owner[r] = NONE
  BY DEF Init, Serving
<1>2. p # NONE
  BY PollerAssumption DEF Pollers, NONE
<1> QED
  BY <1>1, <1>2, EmptyElems DEF Placed, Place, Hand, Sent, Back

\* A poller's requests stay in place when its rings, its queue and its ownership
\* do, and the FTL thread does not take or hand back one of them.
LEMMA PlacedFrame ==
    ASSUME NEW p \in Pollers, Placed(p),
           toFtl'[p] = toFtl[p], toPoller'[p] = toPoller[p], pq'[p] = pq[p],
           Hand(p)' = Hand(p),
           \A r \in Req : owner'[r] = p <=> owner[r] = p
    PROVE  Placed(p)'
BY DEF Placed, Place, Sent, Back

\* Every step moves a request to its next place.
LEMMA PlacedNext == TypeOK /\ AllPlaced /\ [Next]_vars => AllPlaced'
<1> SUFFICES ASSUME TypeOK, AllPlaced, [Next]_vars, NEW p \in Pollers PROVE Placed(p)'
  BY DEF AllPlaced
<1>f. RingTypes /\ HistoryTypes /\ ThreadTypes
  BY TypeParts
<1>p. Placed(p)
  BY DEF AllPlaced
<1>n. p # NONE
  BY PollerAssumption DEF Pollers, NONE
<1>1. CASE Wait
  BY <1>1, <1>p, PlacedFrame DEF Wait, rings, history, Hand, Serving
<1>2. CASE Skip
  BY <1>2, <1>p, PlacedFrame DEF Skip, rings, history, Hand, Serving
<1>3. CASE Dequeue
  <2>1. toPoller'[p] = toPoller[p] /\ pq'[p] = pq[p] /\ owner' = owner
    BY <1>3 DEF Dequeue, history
  <2>2. Hand(p) = {}
    BY <1>3 DEF Dequeue, Hand, Serving
  <2>3. CASE p = i
    <3>1. toFtl[p] \in Seq(Req) /\ toFtl[p] # << >> /\ toFtl'[p] = Tail(toFtl[p])
      BY <1>3, <1>f, <2>3 DEF Dequeue, RingTypes
    <3>2. Hand(p)' = {Head(toFtl[p])}
      BY <1>3, <2>3 DEF Dequeue, Hand, Serving
    <3>3. Sent(p) = {Head(toFtl[p])} \cup Sent(p)'
      BY <3>1, TailElems DEF Sent
    <3>4. NoDup(toFtl[p]) => NoDup(toFtl'[p]) /\ Head(toFtl[p]) \notin Sent(p)'
      BY <3>1, TailElems DEF Sent
    <3>5. Back(p)' = Back(p)
      BY <2>1 DEF Back
    <3> QED
      BY <1>p, <2>1, <2>2, <3>2, <3>3, <3>4, <3>5 DEF Placed, Place
  <2>4. CASE p # i
    <3>1. toFtl'[p] = toFtl[p] /\ Hand(p)' = {}
      BY <1>3, <1>f, <2>4 DEF Dequeue, RingTypes, Hand
    <3> QED
      BY <1>p, <2>1, <2>2, <3>1, PlacedFrame
  <2> QED
    BY <2>3, <2>4
<1>4. CASE Serve
  BY <1>4, <1>p, PlacedFrame DEF Serve, rings, Hand, Serving
<1>5. CASE Charge
  BY <1>5, <1>p, PlacedFrame DEF Charge, rings, history, Hand, Serving
<1>6. CASE Return
  <2>1. toFtl'[p] = toFtl[p] /\ pq'[p] = pq[p] /\ Hand(p)' = {}
    BY <1>6 DEF Return, Hand, Serving
  <2>2. CASE p = i
    <3>1. Hand(p) = {req} /\ req \in Req /\ owner[req] = p
      BY <1>6, <1>f, <1>p, <2>2 DEF Return, Hand, Serving, Placed, Place, ThreadTypes
    <3>2. CASE Full(toPoller[i])
      <4>1. toPoller'[p] = toPoller[p] /\ owner' = [owner EXCEPT ![req] = NONE]
        BY <1>6, <3>2 DEF Return
      <4>2. \A r \in Req : owner'[r] = p <=> owner[r] = p /\ r # req
        BY <1>f, <1>n, <4>1 DEF HistoryTypes
      <4>3. Sent(p)' = Sent(p) /\ Back(p)' = Back(p)
        BY <2>1, <4>1 DEF Sent, Back
      <4> QED
        BY <1>p, <2>1, <3>1, <4>1, <4>2, <4>3 DEF Placed, Place
    <3>3. CASE ~ Full(toPoller[i])
      <4>1. toPoller'[p] = Append(toPoller[p], req) /\ owner' = owner
        BY <1>6, <1>f, <2>2, <3>3 DEF Return, RingTypes
      <4>2. toPoller[p] \in Seq(Req)
        BY <1>f DEF RingTypes
      <4>3. Back(p)' = Back(p) \cup {req}
        BY <3>1, <4>1, <4>2, AppendElems DEF Back
      <4>4. NoDup(toPoller[p]) /\ req \notin Back(p) => NoDup(toPoller'[p])
        BY <3>1, <4>1, <4>2, AppendElems DEF Back
      <4>5. Sent(p)' = Sent(p)
        BY <2>1 DEF Sent
      <4> QED
        BY <1>p, <2>1, <3>1, <4>1, <4>3, <4>4, <4>5 DEF Placed, Place
    <3> QED
      BY <3>2, <3>3
  <2>3. CASE p # i
    <3>1. toPoller'[p] = toPoller[p] /\ Hand(p) = {}
      BY <1>6, <1>f, <2>3 DEF Return, RingTypes, Hand
    <3>2. owner[req] = i
      <4>1. Placed(i) /\ req \in Hand(i) /\ req \in Req
        BY <1>6, <1>f DEF Return, AllPlaced, Hand, Serving, ThreadTypes
      <4> QED
        BY <4>1 DEF Placed, Place
    <3>3. \A r \in Req : owner'[r] = p <=> owner[r] = p
      BY <1>6, <1>f, <1>n, <2>3, <3>2 DEF Return, HistoryTypes
    <3> QED
      BY <1>p, <2>1, <3>1, <3>3, PlacedFrame
  <2> QED
    BY <2>2, <2>3
<1>7. CASE StartDataplane
  BY <1>7, <1>p, PlacedFrame DEF StartDataplane, rings, history, threadVars, Hand, Serving
<1>8. ASSUME NEW q \in Pollers, NEW r \in Req, NEW o \in Opcodes, Submit(q, r, o)
      PROVE  Placed(p)'
  <2>1. /\ toPoller'[p] = toPoller[p] /\ pq'[p] = pq[p] /\ Hand(p)' = Hand(p)
        /\ owner[r] = NONE /\ owner' = [owner EXCEPT ![r] = q]
    BY <1>8 DEF Submit, threadVars, Hand, Serving
  <2>2. CASE p = q
    <3>1. toFtl[p] \in Seq(Req) /\ toFtl'[p] = Append(toFtl[p], r)
      BY <1>8, <1>f, <2>2 DEF Submit, RingTypes
    <3>2. Sent(p)' = Sent(p) \cup {r} /\ Back(p)' = Back(p)
      BY <2>1, <3>1, AppendElems DEF Sent, Back
    <3>3. NoDup(toFtl[p]) /\ r \notin Sent(p) => NoDup(toFtl'[p])
      BY <3>1, AppendElems DEF Sent
    <3>4. r \notin Place(p)
      BY <1>p, <1>n, <2>1 DEF Placed
    <3>5. \A s \in Req : owner'[s] = p <=> owner[s] = p \/ s = r
      BY <1>f, <2>1, <2>2 DEF HistoryTypes
    <3> QED
      BY <1>p, <2>1, <3>2, <3>3, <3>4, <3>5 DEF Placed, Place
  <2>3. CASE p # q
    <3>1. toFtl'[p] = toFtl[p]
      BY <1>8, <1>f, <2>3 DEF Submit, RingTypes
    <3>2. \A s \in Req : owner'[s] = p <=> owner[s] = p
      BY <1>f, <1>n, <2>1, <2>3 DEF HistoryTypes
    <3> QED
      BY <1>p, <2>1, <3>1, <3>2, PlacedFrame
  <2> QED
    BY <2>2, <2>3
<1>9. ASSUME NEW q \in Pollers, Collect(q) PROVE Placed(p)'
  <2>1. toFtl'[p] = toFtl[p] /\ Hand(p)' = Hand(p) /\ owner' = owner
    BY <1>9 DEF Collect, threadVars, history, Hand, Serving
  <2>2. CASE p = q
    <3>1. /\ toPoller[p] \in Seq(Req) /\ toPoller[p] # << >>
          /\ toPoller'[p] = Tail(toPoller[p])
          /\ pq'[p] = pq[p] \cup {Head(toPoller[p])}
      BY <1>9, <1>f, <2>2 DEF Collect, RingTypes
    <3>2. Back(p) = {Head(toPoller[p])} \cup Back(p)' /\ Sent(p)' = Sent(p)
      BY <2>1, <3>1, TailElems DEF Back, Sent
    <3>3. NoDup(toPoller[p]) => NoDup(toPoller'[p]) /\ Head(toPoller[p]) \notin Back(p)'
      BY <3>1, TailElems DEF Back
    <3> QED
      BY <1>p, <2>1, <3>1, <3>2, <3>3 DEF Placed, Place
  <2>3. CASE p # q
    <3>1. toPoller'[p] = toPoller[p] /\ pq'[p] = pq[p]
      BY <1>9, <1>f, <2>3 DEF Collect, RingTypes
    <3> QED
      BY <1>p, <2>1, <3>1, PlacedFrame
  <2> QED
    BY <2>2, <2>3
<1>10. ASSUME NEW q \in Pollers, NEW r \in Req, Complete(q, r) PROVE Placed(p)'
  <2>1. /\ toFtl'[p] = toFtl[p] /\ toPoller'[p] = toPoller[p] /\ Hand(p)' = Hand(p)
        /\ owner' = [owner EXCEPT ![r] = NONE]
    BY <1>10 DEF Complete, threadVars, Hand, Serving
  <2>2. owner[r] = q
    BY <1>10 DEF Complete, AllPlaced, Placed, Place
  <2>3. CASE p = q
    <3>1. r \in pq[p] /\ pq'[p] = pq[p] \ {r}
      BY <1>10, <1>f, <2>3 DEF Complete, RingTypes
    <3>2. \A s \in Req : owner'[s] = p <=> owner[s] = p /\ s # r
      BY <1>f, <1>n, <2>1 DEF HistoryTypes
    <3>3. Sent(p)' = Sent(p) /\ Back(p)' = Back(p)
      BY <2>1 DEF Sent, Back
    <3> QED
      BY <1>p, <2>1, <3>1, <3>2, <3>3 DEF Placed, Place
  <2>4. CASE p # q
    <3>1. pq'[p] = pq[p]
      BY <1>10, <1>f, <2>4 DEF Complete, RingTypes
    <3>2. \A s \in Req : owner'[s] = p <=> owner[s] = p
      BY <1>f, <1>n, <2>1, <2>2, <2>4 DEF HistoryTypes
    <3> QED
      BY <1>p, <2>1, <3>1, <3>2, PlacedFrame
  <2> QED
    BY <2>3, <2>4
<1>11. CASE Tick
  BY <1>11, <1>p, PlacedFrame DEF Tick, rings, history, threadVars, Hand, Serving
<1>12. CASE UNCHANGED vars
  BY <1>12, <1>p, PlacedFrame DEF vars, rings, history, threadVars, Hand, Serving
<1> QED
  BY <1>1, <1>2, <1>3, <1>4, <1>5, <1>6, <1>7, <1>8, <1>9, <1>10, <1>11, <1>12
     DEF Next, FtlStep, Poll

\* The inductive invariant of the requests' ways.
THEOREM PlacedAlways == Spec => [](TypeOK /\ AllPlaced)
BY TypeInit, TypeNext, PlacedInit, PlacedNext, PTL DEF Spec

\* No request is duplicated, answered to another poller, or left in a ring after
\* its completion, whatever the order in which the threads take their steps.
THEOREM RequestsAlwaysConserved == Spec => []RequestsConserved
BY PlacedAlways, PlacedConserves, PTL

-----------------------------------------------------------------------------
(* Rings that are large enough                                              *)

\* A ring without duplicates is not longer than there are requests.
LEMMA NoDupFits ==
    ASSUME NEW S, IsFiniteSet(S), NEW s \in Seq(S), NoDup(s)
    PROVE  Len(s) <= Cardinality(S)
<1> SUFFICES ASSUME ~ Len(s) <= Cardinality(S) PROVE FALSE
  OBVIOUS
<1>1. Len(s) \in Nat /\ Cardinality(S) \in Nat
  BY FS_CardinalityType
<1>2. IsFiniteSet(1 .. Len(s)) /\ Cardinality(1 .. Len(s)) = Len(s)
  <2>1. 1 \in Int /\ Len(s) \in Int
    BY <1>1
  <2>2. /\ IsFiniteSet(1 .. Len(s))
        /\ Cardinality(1 .. Len(s)) = IF 1 > Len(s) THEN 0 ELSE Len(s) - 1 + 1
    BY <2>1, FS_Interval
  <2> QED
    BY <1>1, <2>2
<1>3. Cardinality(S) < Cardinality(1 .. Len(s))
  BY <1>1, <1>2
<1>4. s \in [1 .. Len(s) -> S]
  BY LenProperties
<1>5. \E j, k \in 1 .. Len(s) : j # k /\ s[j] = s[k]
  BY <1>2, <1>3, <1>4, FS_PigeonHole
<1> QED
  BY <1>4, <1>5 DEF NoDup

\* The request in hand is not one of those that fill its poller's ring.
LEMMA RoomForOne ==
    ASSUME IsFiniteSet(Req), Cardinality(Req) <= RingSize, TypeOK, AllPlaced, Serving
    PROVE  ~ Full(toPoller[i])
<1> DEFINE s == Append(toPoller[i], req)
<1>1. toPoller[i] \in Seq(Req) /\ req \in Req /\ i \in Pollers
  BY DEF TypeOK
<1>2. NoDup(toPoller[i]) /\ req \notin Elems(toPoller[i])
  BY <1>1 DEF AllPlaced, Placed, Hand, Back
<1>3. s \in Seq(Req) /\ Len(s) = Len(toPoller[i]) + 1 /\ NoDup(s)
  BY <1>1, <1>2, AppendElems, AppendProperties
<1>4. Len(s) <= Cardinality(Req)
  BY <1>3, NoDupFits
<1>5. Len(toPoller[i]) \in Nat /\ Cardinality(Req) \in Nat /\ RingSize \in Nat
  BY <1>1, FS_CardinalityType, PollerAssumption
<1> HIDE DEF s
<1> QED
  BY <1>3, <1>4, <1>5 DEF Full

\* A ring with a slot for every request never makes ftl_thread drop one: the
\* enqueue whose failure it only reports does not fail.
THEOREM NothingEverLost ==
    ASSUME IsFiniteSet(Req), Cardinality(Req) <= RingSize
    PROVE  Spec => NothingLost
<1>1. TypeOK /\ AllPlaced /\ [Next]_vars => [pc = "return" => owner'[req] = owner[req]]_vars
  <2> SUFFICES ASSUME TypeOK, AllPlaced, [Next]_vars, pc = "return"
               PROVE  owner'[req] = owner[req]
    OBVIOUS
  <2>1. Serving /\ owner[req] = i /\ i # NONE /\ i \in Pollers /\ req \in Req
    <3>1. Serving /\ i \in Pollers /\ req \in Req
      BY DEF Serving, TypeOK
    <3>2. req \in Hand(i) /\ Placed(i)
      BY <3>1 DEF Hand, AllPlaced
    <3> QED
      BY <3>1, <3>2, PollerAssumption DEF Placed, Place, Pollers, NONE
  <2>2. HistoryTypes
    BY TypeParts
  <2>3. CASE Return
    BY <2>1, <2>3, RoomForOne DEF Return
  <2>4. ASSUME NEW p \in Pollers, NEW r \in Req, NEW o \in Opcodes, Submit(p, r, o)
        PROVE  owner'[req] = owner[req]
    BY <2>1, <2>2, <2>4 DEF Submit, HistoryTypes
  <2>5. ASSUME NEW p \in Pollers, NEW r \in Req, Complete(p, r)
        PROVE  owner'[req] = owner[req]
    <3>1. r # req
      <4>1. owner[r] = p /\ r \in pq[p] /\ Placed(p)
        BY <2>5 DEF Complete, AllPlaced, Placed, Place
      <4>2. p = i => req \in Hand(p)
        BY <2>1 DEF Hand
      <4> QED
        BY <2>1, <4>1, <4>2 DEF Placed
    <3> QED
      BY <2>1, <2>2, <2>5, <3>1 DEF Complete, HistoryTypes
  <2>6. CASE FtlStep /\ ~ Return
    BY <2>6 DEF FtlStep, Wait, Skip, Dequeue, Serve, Charge, history
  <2>7. CASE StartDataplane \/ Tick \/ UNCHANGED vars
    BY <2>7 DEF StartDataplane, Tick, vars, history
  <2>8. ASSUME NEW p \in Pollers, Collect(p) PROVE owner'[req] = owner[req]
    BY <2>8 DEF Collect, history
  <2> QED
    BY <2>3, <2>4, <2>5, <2>6, <2>7, <2>8 DEF Next, Poll
<1> QED
  BY <1>1, PlacedAlways, PTL DEF NothingLost, Spec

-----------------------------------------------------------------------------
(* The latency a request is charged                                         *)

\* A request that is on its way waits from its submission on; the one in hand is
\* charged for its own work.
OwnSoFar ==
    /\ \A r \in Req : Pending(r) => expire[r] = stime[r]
    /\ pc \in {"serve", "charge"} => expire[req] = stime[req]
    /\ pc = "charge" /\ op[req] # "other" => lat = work[req]
    /\ pc = "return" /\ op[req] # "other" => Charged(req)

\* An answered request is in the priority queue of a poller or on a ring back.
LEMMA AnsweredPlace == \A r : Answered(r) <=> \E p \in Pollers : r \in pq[p] \cup Back(p)
BY DEF Answered, Back, Elems

\* A pending request is on a ring to the thread.
LEMMA PendingPlace == \A r : Pending(r) <=> \E p \in Pollers : r \in Sent(p)
BY DEF Pending, Sent, Elems

\* The request in hand is nowhere else, and one without an owner is nowhere.
LEMMA Apart ==
    ASSUME TypeOK, AllPlaced, NEW r \in Req, owner[r] = NONE \/ (Serving /\ r = req)
    PROVE  /\ ~ Answered(r) /\ ~ Pending(r)
           /\ owner[r] = NONE => ~ (Serving /\ r = req)
<1>1. \A p \in Pollers : p # NONE
  BY PollerAssumption DEF Pollers, NONE
<1>2. ASSUME Serving, r = req PROVE i \in Pollers /\ r \in Hand(i) /\ owner[r] = i /\ Placed(i)
  BY <1>2 DEF TypeOK, Hand, AllPlaced, Placed, Place
<1>3. ASSUME NEW p \in Pollers, r \in pq[p] \cup Back(p) \cup Sent(p) PROVE FALSE
  <2>1. Placed(p) /\ owner[r] = p
    BY <1>3 DEF AllPlaced, Placed, Place
  <2>2. p = i /\ r \in Hand(p)
    BY <1>1, <1>2, <2>1
  <2> QED
    BY <1>3, <2>1, <2>2 DEF Placed
<1> QED
  BY <1>1, <1>2, <1>3, AnsweredPlace, PendingPlace

\* Only Return answers a request, and only Submit sets one on its way.
LEMMA AnsweredNext ==
    ASSUME TypeOK, [Next]_vars, NEW r \in Req, Answered(r)'
    PROVE  Answered(r) \/ (pc = "return" /\ r = req)
<1> DEFINE Q == Answered(r) \/ (pc = "return" /\ r = req)
<1>p. PICK p \in Pollers : r \in pq'[p] \cup Back(p)'
  BY DEF Answered, Back, Elems
<1>f. RingTypes /\ ThreadTypes
  BY TypeParts
<1>1. CASE UNCHANGED <<toPoller, pq>>
  BY <1>1, <1>p, AnsweredPlace DEF Back
<1>2. CASE Return
  <2>1. toPoller[i] \in Seq(Req) /\ req \in Req
    BY <1>f DEF RingTypes, ThreadTypes
  <2>2. CASE p = i /\ toPoller' = [toPoller EXCEPT ![i] = Append(@, req)]
    <3>1. Back(p)' = Back(p) \cup {req}
      BY <1>f, <2>1, <2>2, AppendElems DEF Back, RingTypes
    <3> QED
      BY <1>2, <1>p, <3>1, AnsweredPlace DEF Return
  <2>3. CASE p # i \/ UNCHANGED toPoller
    <3>1. toPoller'[p] = toPoller[p]
      BY <1>2, <1>f, <2>3 DEF Return, RingTypes
    <3> QED
      BY <1>2, <1>p, <3>1, AnsweredPlace DEF Return, Back
  <2> QED
    BY <1>2, <2>2, <2>3 DEF Return
<1>3. ASSUME NEW q \in Pollers, Collect(q) PROVE Q
  <2>1. CASE p = q
    <3>1. /\ toPoller[p] \in Seq(Req) /\ toPoller[p] # << >>
          /\ toPoller'[p] = Tail(toPoller[p])
          /\ pq'[p] = pq[p] \cup {Head(toPoller[p])}
      BY <1>3, <1>f, <2>1 DEF Collect, RingTypes
    <3>2. Back(p) = {Head(toPoller[p])} \cup Back(p)'
      BY <3>1, TailElems DEF Back
    <3> QED
      BY <1>p, <3>1, <3>2, AnsweredPlace
  <2>2. CASE p # q
    <3>1. toPoller'[p] = toPoller[p] /\ pq'[p] = pq[p]
      BY <1>3, <1>f, <2>2 DEF Collect, RingTypes
    <3> QED
      BY <1>p, <3>1, AnsweredPlace DEF Back
  <2> QED
    BY <2>1, <2>2
<1>4. ASSUME NEW q \in Pollers, NEW x \in Req, Complete(q, x) PROVE Q
  <2>1. UNCHANGED toPoller /\ pq'[p] \subseteq pq[p]
    BY <1>4, <1>f DEF Complete, RingTypes
  <2> QED
    BY <1>p, <2>1, AnsweredPlace DEF Back
<1>5. CASE FtlStep /\ ~ Return
  BY <1>1, <1>5 DEF FtlStep, Wait, Skip, Dequeue, Serve, Charge, rings
<1>6. CASE StartDataplane \/ Tick \/ UNCHANGED vars
  BY <1>1, <1>6 DEF StartDataplane, Tick, vars, rings
<1>7. ASSUME NEW q \in Pollers, NEW x \in Req, NEW o \in Opcodes, Submit(q, x, o) PROVE Q
  BY <1>1, <1>7 DEF Submit
<1> QED
  BY <1>2, <1>3, <1>4, <1>5, <1>6, <1>7 DEF Next, Poll

\* A request stays under way until it is answered.
LEMMA PendingNext ==
    ASSUME TypeOK, [Next]_vars, NEW r \in Req, Pending(r)'
    PROVE  Pending(r) \/ expire'[r] = stime'[r]
<1> DEFINE Q == Pending(r) \/ expire'[r] = stime'[r]
<1>p. PICK p \in Pollers : r \in Sent(p)'
  BY DEF Pending, Sent, Elems
<1>f. RingTypes /\ ThreadTypes
  BY TypeParts
<1>1. CASE UNCHANGED toFtl
  BY <1>1, <1>p, PendingPlace DEF Sent
<1>2. CASE Dequeue
  <2>1. CASE p = i
    <3>1. /\ toFtl[p] \in Seq(Req) /\ toFtl[p] # << >>
          /\ toFtl'[p] = Tail(toFtl[p])
      BY <1>2, <1>f, <2>1 DEF Dequeue, RingTypes
    <3>2. Sent(p) = {Head(toFtl[p])} \cup Sent(p)'
      BY <3>1, TailElems DEF Sent
    <3> QED
      BY <1>p, <3>2, PendingPlace
  <2>2. CASE p # i
    <3>1. toFtl'[p] = toFtl[p]
      BY <1>2, <1>f, <2>2 DEF Dequeue, RingTypes
    <3> QED
      BY <1>p, <3>1, PendingPlace DEF Sent
  <2> QED
    BY <2>1, <2>2
<1>3. ASSUME NEW q \in Pollers, NEW x \in Req, NEW o \in Opcodes, Submit(q, x, o) PROVE Q
  <2>1. CASE p = q
    <3>1. toFtl[p] \in Seq(Req) /\ toFtl'[p] = Append(toFtl[p], x)
      BY <1>3, <1>f, <2>1 DEF Submit, RingTypes
    <3>2. Sent(p)' = Sent(p) \cup {x}
      BY <3>1, AppendElems DEF Sent
    <3>3. expire'[x] = stime'[x]
      BY <1>3, TypeParts DEF Submit, FieldTypes
    <3> QED
      BY <1>p, <3>2, <3>3, PendingPlace
  <2>2. CASE p # q
    <3>1. toFtl'[p] = toFtl[p]
      BY <1>3, <1>f, <2>2 DEF Submit, RingTypes
    <3> QED
      BY <1>p, <3>1, PendingPlace DEF Sent
  <2> QED
    BY <2>1, <2>2
<1>4. CASE FtlStep /\ ~ Dequeue
  BY <1>1, <1>4 DEF FtlStep, Wait, Skip, Return, Serve, Charge, rings
<1>5. CASE StartDataplane \/ Tick \/ UNCHANGED vars
  BY <1>1, <1>5 DEF StartDataplane, Tick, vars, rings
<1>6. ASSUME NEW q \in Pollers, Collect(q) \/ (\E x \in Req : Complete(q, x)) PROVE Q
  BY <1>1, <1>6 DEF Collect, Complete
<1> QED
  BY <1>2, <1>3, <1>4, <1>5, <1>6 DEF Next, Poll

\* Every step charges a request its own latency.
LEMMA OwnNext == TypeOK /\ AllPlaced /\ LatencyIsOwn /\ OwnSoFar /\ [Next]_vars
                    => (LatencyIsOwn /\ OwnSoFar)'
<1> SUFFICES ASSUME TypeOK, AllPlaced, LatencyIsOwn, OwnSoFar, [Next]_vars
             PROVE  (LatencyIsOwn /\ OwnSoFar)'
  OBVIOUS
<1> DEFINE Goal == (LatencyIsOwn /\ OwnSoFar)'
<1>f. FieldTypes /\ HistoryTypes /\ ThreadTypes
  BY TypeParts
<1>a. ASSUME NEW r \in Req, Answered(r)' PROVE Answered(r) \/ (pc = "return" /\ r = req)
  BY <1>a, AnsweredNext
<1>s. ASSUME NEW r \in Req, Pending(r)' PROVE Pending(r) \/ expire'[r] = stime'[r]
  BY <1>s, PendingNext
<1>h. Serving => ~ Answered(req) /\ ~ Pending(req)
  BY <1>f, Apart DEF ThreadTypes
<1>n. ASSUME NEW r \in Req, owner[r] = NONE
      PROVE  ~ Answered(r) /\ ~ Pending(r) /\ (Serving => r # req)
  BY <1>n, Apart
<1>c. ASSUME NEW r \in Req, Answered(r)', op[r] # "other" PROVE Charged(r)
  BY <1>a, <1>c DEF LatencyIsOwn, OwnSoFar
<1>u. ASSUME UNCHANGED <<op, stime, reqlat, expire, work>>
      PROVE  LatencyIsOwn' /\ \A r \in Req : Pending(r)' => expire'[r] = stime'[r]
  BY <1>c, <1>s, <1>u DEF LatencyIsOwn, OwnSoFar, Charged
<1>1. CASE Wait \/ Skip \/ Return
  <2>1. pc' = "scan" /\ UNCHANGED <<op, stime, reqlat, expire>>
    BY <1>1 DEF Wait, Skip, Return, reqFields
  <2>2. UNCHANGED work
    BY <1>1 DEF Wait, Skip, Return, history
  <2> QED
    BY <1>u, <2>1, <2>2 DEF OwnSoFar
<1>2. CASE Dequeue
  <2>1. pc' = "serve" /\ UNCHANGED <<op, stime, reqlat, expire, work>>
    BY <1>2 DEF Dequeue, reqFields, history
  <2>2. req' \in Req /\ Pending(req')
    <3>1. toFtl[i] \in Seq(Req) /\ toFtl[i] # << >> /\ req' = Head(toFtl[i]) /\ i \in Pollers
      BY <1>2, TypeParts DEF Dequeue, RingTypes, ThreadTypes
    <3>2. Head(toFtl[i]) \in Elems(toFtl[i])
      BY <3>1, TailElems
    <3> QED
      BY <3>1, <3>2, PendingPlace, HeadTailProperties DEF Sent
  <2>3. expire[req'] = stime[req']
    BY <2>2 DEF OwnSoFar
  <2> QED
    BY <1>u, <2>1, <2>3 DEF OwnSoFar
<1>3. CASE Serve
  <2>1. pc = "serve" /\ pc' = "charge" /\ UNCHANGED <<op, stime, reqlat, expire, req>> /\ Serving
    BY <1>3 DEF Serve, reqFields, Serving
  <2>2. op[req] # "other" => lat' = work'[req]
    BY <1>3, <1>f DEF Serve, FieldTypes, ThreadTypes, HistoryTypes, Opcodes
  <2>3. \A r \in Req : r # req => work'[r] = work[r]
    BY <1>3, <1>f DEF Serve, FieldTypes, ThreadTypes, HistoryTypes, Opcodes
  <2>4. ASSUME NEW r \in Req, Answered(r)', op'[r] # "other" PROVE Charged(r)'
    <3>1. r # req
      BY <1>a, <1>h, <2>1, <2>4
    <3> QED
      BY <1>c, <2>1, <2>3, <2>4, <3>1 DEF Charged
  <2>5. ASSUME NEW r \in Req, Pending(r)' PROVE expire'[r] = stime'[r]
    BY <1>s, <2>1, <2>5 DEF OwnSoFar
  <2> QED
    BY <2>1, <2>2, <2>4, <2>5 DEF OwnSoFar, LatencyIsOwn
<1>4. CASE Charge
  <2>1. pc = "charge" /\ pc' = "return" /\ UNCHANGED <<op, stime, work, req>> /\ Serving
    BY <1>4 DEF Charge, history, Serving
  <2>2. /\ reqlat' = [reqlat EXCEPT ![req] = lat]
        /\ expire' = [expire EXCEPT ![req] = @ + lat]
    BY <1>4 DEF Charge
  <2>3. \A r \in Req : r # req => reqlat'[r] = reqlat[r] /\ expire'[r] = expire[r]
    BY <1>f, <2>2 DEF FieldTypes
  <2>4. reqlat'[req] = lat /\ expire'[req] = stime[req] + lat
    BY <1>f, <2>1, <2>2 DEF FieldTypes, ThreadTypes, OwnSoFar
  <2>5. op'[req'] # "other" => Charged(req)'
    BY <2>1, <2>4 DEF OwnSoFar, Charged
  <2>6. ASSUME NEW r \in Req, Answered(r)', op'[r] # "other" PROVE Charged(r)'
    <3>1. r # req
      BY <1>a, <1>h, <2>1, <2>6
    <3> QED
      BY <1>c, <2>1, <2>3, <2>6, <3>1 DEF Charged
  <2>7. ASSUME NEW r \in Req, Pending(r)' PROVE expire'[r] = stime'[r]
    <3>1. CASE Pending(r)
      <4>1. r # req
        BY <1>h, <2>1, <3>1
      <4> QED
        BY <2>1, <2>3, <3>1, <4>1 DEF OwnSoFar
    <3> QED
      BY <1>s, <2>7, <3>1
  <2> QED
    BY <2>1, <2>5, <2>6, <2>7 DEF OwnSoFar, LatencyIsOwn
<1>5. ASSUME NEW q \in Pollers, NEW x \in Req, NEW o \in Opcodes, Submit(q, x, o) PROVE Goal
  <2>1. /\ UNCHANGED <<reqlat, work, pc, req, lat>> /\ owner[x] = NONE
        /\ op' = [op EXCEPT ![x] = o] /\ stime' = [stime EXCEPT ![x] = now]
        /\ expire' = [expire EXCEPT ![x] = now]
    BY <1>5 DEF Submit, threadVars
  <2>2. \A r \in Req : r # x => op'[r] = op[r] /\ stime'[r] = stime[r] /\ expire'[r] = expire[r]
    BY <1>f, <2>1 DEF FieldTypes
  <2>3. ~ Answered(x) /\ ~ Pending(x) /\ (Serving => x # req)
    BY <1>n, <2>1
  <2>4. pc = "return" => Serving
    BY DEF Serving
  <2>5. ASSUME NEW r \in Req, Answered(r)', op'[r] # "other" PROVE Charged(r)'
    <3>1. r # x
      BY <1>a, <2>3, <2>4, <2>5
    <3> QED
      BY <1>c, <2>1, <2>2, <2>5, <3>1 DEF Charged
  <2>6. ASSUME NEW r \in Req, Pending(r)' PROVE expire'[r] = stime'[r]
    <3>1. CASE Pending(r)
      <4>1. r # x
        BY <2>3, <3>1
      <4> QED
        BY <2>2, <3>1, <4>1 DEF OwnSoFar
    <3> QED
      BY <1>s, <2>6, <3>1
  <2>7. Serving => op'[req] = op[req] /\ stime'[req] = stime[req] /\ expire'[req] = expire[req]
    BY <1>f, <2>2, <2>3 DEF ThreadTypes
  <2> QED
    BY <2>1, <2>5, <2>6, <2>7 DEF OwnSoFar, LatencyIsOwn, Charged, Serving
<1>6. ASSUME NEW q \in Pollers, Collect(q) \/ (\E x \in Req : Complete(q, x)) PROVE Goal
  <2>1. UNCHANGED <<op, stime, reqlat, expire, work, pc, req, lat>>
    BY <1>6 DEF Collect, Complete, reqFields, history, threadVars
  <2> QED
    BY <1>u, <2>1 DEF OwnSoFar, Charged
<1>7. CASE StartDataplane \/ Tick \/ UNCHANGED vars
  <2>1. UNCHANGED <<op, stime, reqlat, expire, work, pc, req, lat>>
    BY <1>7 DEF StartDataplane, Tick, vars, reqFields, history, threadVars
  <2> QED
    BY <1>u, <2>1 DEF OwnSoFar, Charged
<1> QED
  BY <1>1, <1>2, <1>3, <1>4, <1>5, <1>6, <1>7 DEF Next, FtlStep, Poll

\* A command with a case in the switch is answered with the latency of its own
\* work, whatever the thread served before it.
THEOREM LatencyAlwaysOwn == Spec => []LatencyIsOwn
<1>1. Init => LatencyIsOwn /\ OwnSoFar
  <2> SUFFICES ASSUME Init PROVE LatencyIsOwn /\ OwnSoFar
    OBVIOUS
  <2>1. ASSUME NEW r \in Req PROVE ~ Answered(r) /\ ~ Pending(r)
    BY DEF Init, Answered, Pending
  <2> QED
    BY <2>1 DEF Init, LatencyIsOwn, OwnSoFar
<1> QED
  BY <1>1, PlacedAlways, OwnNext, PTL DEF Spec
=============================================================================
