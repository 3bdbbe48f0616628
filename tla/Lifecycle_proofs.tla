-------------------------- MODULE Lifecycle_proofs --------------------------
(***************************************************************************)
(* The safety of the device's life cycle for any number of pollers, and of *)
(* queue pairs created and freed while they run.                           *)
(***************************************************************************)
EXTENDS Lifecycle, SequenceTheorems, TLAPS

-----------------------------------------------------------------------------
(* The rings                                                                *)

\* What a ring holds after an enqueue.
LEMMA ElementsAppend ==
    ASSUME NEW S, NEW s \in Seq(S), NEW x
    PROVE  Elements(Append(s, x)) = Elements(s) \cup {x}
<1>1. Len(s) \in Nat /\ DOMAIN s = 1 .. Len(s)
  OBVIOUS
<1>2. /\ DOMAIN Append(s, x) = 1 .. Len(s) + 1
      /\ \A k \in 1 .. Len(s) : Append(s, x)[k] = s[k]
      /\ Append(s, x)[Len(s) + 1] = x
  BY <1>1
<1>3. 1 .. Len(s) + 1 = (1 .. Len(s)) \cup {Len(s) + 1}
  BY <1>1
<1> QED
  BY <1>1, <1>2, <1>3 DEF Elements

\* A dequeue takes an element out and puts none in.
LEMMA ElementsTail ==
    ASSUME NEW S, NEW s \in Seq(S), s # << >>
    PROVE  /\ Head(s) \in Elements(s) /\ Head(s) \in S
           /\ Tail(s) \in Seq(S)
           /\ Elements(Tail(s)) \subseteq Elements(s)
<1>1. Len(s) \in Nat /\ Len(s) >= 1 /\ DOMAIN s = 1 .. Len(s) /\ Head(s) = s[1]
  OBVIOUS
<1>2. /\ Tail(s) \in Seq(S)
      /\ DOMAIN Tail(s) = 1 .. Len(s) - 1
      /\ \A k \in 1 .. Len(s) - 1 : Tail(s)[k] = s[k + 1]
  BY <1>1
<1>3. \A k \in 1 .. Len(s) - 1 : k + 1 \in DOMAIN s
  BY <1>1
<1>4. 1 \in DOMAIN s /\ s[1] \in S
  BY <1>1
<1> QED
  BY <1>1, <1>2, <1>3, <1>4 DEF Elements

-----------------------------------------------------------------------------
(* Types                                                                    *)

\* TypeOK, by the group of variables.
CtrlTypes ==
    /\ started \in BOOLEAN /\ pollerOn \in BOOLEAN /\ arrays \in BOOLEAN
    /\ sq \in [Pollers -> 0 .. MaxGen] /\ cq \in [Pollers -> 0 .. MaxGen]
    /\ created \in 0 .. MaxGen

RingTypes == freed \subseteq Pollers

QueueTypes == toFtl \in [Pollers -> Seq(Gens)] /\ toPoller \in [Pollers -> Seq(Gens)]

MainTypes ==
    /\ mpc \in {"run", "free_sq", "free_cq", "join", "free_rings", "free_arrays", "gone"}
    /\ mi \in Pollers
    /\ exiting \in BOOLEAN
    /\ busy \in [Pollers -> SUBSET Gens] /\ late \subseteq Pollers

PollerTypes ==
    /\ ppc \in [Pollers -> {"none", "idle", "look", "serve", "collect", "done"}]
    /\ psq \in [Pollers -> 0 .. MaxGen]

FtlTypes == fpc \in {"wait", "poll", "serve"} /\ fi \in Pollers /\ freq \in 0 .. MaxGen

Types == CtrlTypes /\ RingTypes /\ QueueTypes /\ MainTypes /\ PollerTypes /\ FtlTypes

\* What the FTL thread and the pollers hold is never the null queue.
Held ==
    /\ fpc = "serve" <=> freq # NULL
    /\ \A i \in Pollers : ppc[i] = "serve" <=> psq[i] # NULL

\* The pollers and the rings are created together, by the first start.
Started ==
    /\ started => pollerOn
    /\ rings = IF pollerOn THEN 1 ELSE 0
    /\ ftlRings \in 0 .. 1
    /\ \A i \in Pollers : ppc[i] = "none" <=> ~ pollerOn

\* femu_exit stops the dataplane, joins every poller, and only then frees.
ExitOrder ==
    /\ mpc # "run" => ~ started
    /\ exiting => mpc # "run"
    /\ mpc \in {"join", "free_rings", "free_arrays", "gone"} => exiting
    /\ mpc = "join" => \A j \in Pollers : pollerOn /\ j < mi => ppc[j] = "done"
    /\ mpc \in {"free_rings", "free_arrays", "gone"} =>
           \A j \in Pollers : pollerOn => ppc[j] = "done"
    /\ mpc \notin {"free_rings", "free_arrays", "gone"} => freed = {}
    /\ ~ arrays => mpc = "gone"

\* While queues are being freed, everything in use has been noted.
BusyNoted ==
    mpc = "free_sq" =>
        \A j \in Pollers : /\ InPass(j) => j \in late
                           /\ \A g \in Gens : Outstanding(j, g) => g \in busy[j]

IInv == Types /\ Held /\ Started /\ RingsShared /\ ExitOrder /\ FreedUseBounded /\ BusyNoted

-----------------------------------------------------------------------------
\* The device is realized with everything in its type.
LEMMA TypesInit == Init => Types
<1> SUFFICES ASSUME Init PROVE Types
  OBVIOUS
<1> USE NrPollersAssumption, MaxGenAssumption DEF Init, NULL
<1>1. CtrlTypes
  <2>1. started \in BOOLEAN /\ pollerOn \in BOOLEAN /\ arrays \in BOOLEAN
    OBVIOUS
  <2>2. sq \in [Pollers -> 0 .. MaxGen] /\ cq \in [Pollers -> 0 .. MaxGen] /\ created \in 0 .. MaxGen
    OBVIOUS
  <2> QED
    BY <2>1, <2>2 DEF CtrlTypes
<1>2. QueueTypes
  BY DEF QueueTypes
<1>3. MainTypes
  <2>1. busy \in [Pollers -> SUBSET Gens]
    OBVIOUS
  <2>2. mi \in Pollers
    BY DEF Pollers
  <2>3. exiting \in BOOLEAN /\ late \subseteq Pollers
    OBVIOUS
  <2> QED
    BY <2>1, <2>2, <2>3 DEF MainTypes
<1>4. PollerTypes
  BY DEF PollerTypes
<1>5. FtlTypes /\ RingTypes
  BY DEF FtlTypes, RingTypes, Pollers
<1> QED
  BY <1>1, <1>2, <1>3, <1>4, <1>5 DEF Types

\* A step types the groups of variables that it leaves alone.
LEMMA TypesFrame ==
    ASSUME Types
    PROVE  /\ UNCHANGED ctrlVars => CtrlTypes'
           /\ UNCHANGED ringVars => RingTypes'
           /\ UNCHANGED queueVars => QueueTypes'
           /\ UNCHANGED mainVars => MainTypes'
           /\ UNCHANGED pollerVars => PollerTypes'
           /\ UNCHANGED ftlVars => FtlTypes'
BY DEF Types, CtrlTypes, RingTypes, QueueTypes, MainTypes, PollerTypes, FtlTypes,
       ctrlVars, ringVars, queueVars, mainVars, pollerVars, ftlVars

\* The loops of the main thread stay within their arrays.
LEMMA NextIndexType ==
    ASSUME MainTypes, NEW then, NextIndex(then)
    PROVE  mi' \in Pollers /\ (mpc' = mpc \/ mpc' = then)
BY NrPollersAssumption DEF MainTypes, NextIndex, Goto, Pollers

\* The FTL thread goes on to a ring there is.
LEMMA NextRingType == ASSUME FtlTypes, NextRing PROVE fi' \in Pollers
BY NrPollersAssumption DEF FtlTypes, NextRing, Pollers

\* Every step keeps the types.
LEMMA TypesNext == Types /\ Held /\ [Next]_vars => Types'
<1> SUFFICES ASSUME Types, Held, [Next]_vars PROVE Types'
  OBVIOUS
<1> USE TypesFrame
<1>1. ASSUME NEW i \in Pollers, CreateQueuePair(i) PROVE Types'
  <2>1. created + 1 \in 0 .. MaxGen
    BY <1>1, MaxGenAssumption DEF CreateQueuePair, Types, CtrlTypes
  <2>2. CtrlTypes'
    BY <1>1, <2>1 DEF CreateQueuePair, Types, CtrlTypes
  <2> QED
    BY <1>1, <2>2 DEF CreateQueuePair, Types
<1>2. CASE StartDataplane
  <2>1. CtrlTypes' /\ RingTypes'
    BY <1>2 DEF StartDataplane, Types, CtrlTypes, RingTypes
  <2>2. PollerTypes'
    BY <1>2 DEF StartDataplane, Types, PollerTypes
  <2> QED
    BY <1>2, <2>1, <2>2 DEF StartDataplane, Types
<1>3. ASSUME NEW exit \in BOOLEAN, BeginClear(exit) PROVE Types'
  <2>1. busy' \in [Pollers -> SUBSET Gens] /\ late' \subseteq Pollers
    BY <1>3 DEF BeginClear, NoteBusy, Types, MainTypes
  <2>2. mi' \in Pollers
    BY <1>3, NrPollersAssumption DEF BeginClear, Goto, Pollers
  <2>3. MainTypes'
    BY <1>3, <2>1, <2>2 DEF BeginClear, Goto, MainTypes
  <2>4. CtrlTypes'
    BY <1>3 DEF BeginClear, Types, CtrlTypes
  <2> QED
    BY <1>3, <2>3, <2>4 DEF BeginClear, Types
<1>4. CASE FreeSq
  <2>1. CtrlTypes'
    <3>1. NULL \in 0 .. MaxGen
      BY MaxGenAssumption DEF NULL
    <3>2. sq' \in [Pollers -> 0 .. MaxGen]
      BY <1>4, <3>1 DEF FreeSq, Types, CtrlTypes
    <3> QED
      BY <1>4, <3>2 DEF FreeSq, Types, CtrlTypes
  <2>2. MainTypes'
    BY <1>4, NextIndexType DEF FreeSq, Types, MainTypes
  <2> QED
    BY <1>4, <2>1, <2>2 DEF FreeSq, Types
<1>5. CASE FreeCq
  <2>1. CtrlTypes'
    <3>1. NULL \in 0 .. MaxGen
      BY MaxGenAssumption DEF NULL
    <3>2. cq' \in [Pollers -> 0 .. MaxGen]
      BY <1>5, <3>1 DEF FreeCq, Types, CtrlTypes
    <3> QED
      BY <1>5, <3>2 DEF FreeCq, Types, CtrlTypes
  <2>2. MainTypes'
    BY <1>5, NextIndexType DEF FreeCq, Types, MainTypes
  <2> QED
    BY <1>5, <2>1, <2>2 DEF FreeCq, Types
<1>6. CASE JoinPoller
  <2>1. MainTypes'
    BY <1>6, NextIndexType DEF JoinPoller, Types, MainTypes
  <2> QED
    BY <1>6, <2>1 DEF JoinPoller, Types
<1>7. CASE FreeRings
  <2>1. MainTypes'
    BY <1>7, NextIndexType DEF FreeRings, Types, MainTypes
  <2>2. RingTypes'
    BY <1>7 DEF FreeRings, Types, RingTypes, MainTypes
  <2> QED
    BY <1>7, <2>1, <2>2 DEF FreeRings, Types
<1>8. CASE FreeArrays
  <2>1. CtrlTypes'
    BY <1>8 DEF FreeArrays, Types, CtrlTypes
  <2>2. MainTypes'
    BY <1>8, NrPollersAssumption DEF FreeArrays, Goto, Types, MainTypes, Pollers
  <2> QED
    BY <1>8, <2>1, <2>2 DEF FreeArrays, Types
<1>9. ASSUME NEW i \in Pollers, PollerBegin(i) PROVE Types'
  BY <1>9 DEF PollerBegin, Types, PollerTypes
<1>10. ASSUME NEW i \in Pollers, PollerLook(i) PROVE Types'
  <2>1. PollerTypes'
    BY <1>10 DEF PollerLook, Types, PollerTypes, CtrlTypes
  <2> QED
    BY <1>10, <2>1 DEF PollerLook, Types
<1>11. ASSUME NEW i \in Pollers, PollerServe(i) PROVE Types'
  <2>1. psq[i] \in Gens
    BY <1>11 DEF PollerServe, Types, PollerTypes, Held, Gens, NULL
  <2>2. QueueTypes'
    <3>1. Append(toFtl[i], psq[i]) \in Seq(Gens)
      BY <2>1 DEF Types, QueueTypes
    <3>2. CASE UNCHANGED toFtl
      BY <1>11, <3>2 DEF PollerServe, Types, QueueTypes
    <3>3. CASE toFtl' = [toFtl EXCEPT ![i] = Append(@, psq[i])]
      BY <1>11, <3>1, <3>3 DEF PollerServe, Types, QueueTypes
    <3> QED
      BY <1>11, <3>2, <3>3 DEF PollerServe
  <2>3. PollerTypes'
    BY <1>11, MaxGenAssumption DEF PollerServe, Types, PollerTypes, NULL
  <2>4. MainTypes'
    <3>1. busy' \in [Pollers -> SUBSET Gens]
      BY <1>11, <2>1 DEF PollerServe, Types, MainTypes
    <3> QED
      BY <1>11, <3>1 DEF PollerServe, Types, MainTypes
  <2> QED
    BY <1>11, <2>2, <2>3, <2>4 DEF PollerServe, Types
<1>12. ASSUME NEW i \in Pollers, PollerCollect(i) PROVE Types'
  <2>1. QueueTypes'
    <3>1. CASE UNCHANGED toPoller
      BY <1>12, <3>1 DEF PollerCollect, Types, QueueTypes
    <3>2. CASE toPoller[i] # << >> /\ toPoller' = [toPoller EXCEPT ![i] = Tail(@)]
      <4>1. Tail(toPoller[i]) \in Seq(Gens)
        BY <3>2, ElementsTail DEF Types, QueueTypes
      <4> QED
        BY <1>12, <3>2, <4>1 DEF PollerCollect, Types, QueueTypes
    <3> QED
      BY <1>12, <3>1, <3>2 DEF PollerCollect
  <2>2. PollerTypes'
    BY <1>12 DEF PollerCollect, Types, PollerTypes
  <2>3. MainTypes'
    BY <1>12 DEF PollerCollect, Types, MainTypes
  <2> QED
    BY <1>12, <2>1, <2>2, <2>3 DEF PollerCollect, Types
<1>13. ASSUME NEW i \in Pollers, PollerReturn(i) PROVE Types'
  BY <1>13 DEF PollerReturn, Types, PollerTypes
<1>14. CASE FtlStart
  BY <1>14 DEF FtlStart, Types, FtlTypes
<1>15. CASE FtlSkip
  BY <1>15, NextRingType DEF FtlSkip, Types, FtlTypes
<1>16. CASE FtlTake
  <2>1. Head(toFtl[fi]) \in Gens /\ Tail(toFtl[fi]) \in Seq(Gens)
    BY <1>16, ElementsTail DEF FtlTake, Types, FtlTypes, QueueTypes
  <2>2. QueueTypes'
    BY <1>16, <2>1 DEF FtlTake, Types, QueueTypes
  <2>3. FtlTypes'
    BY <1>16, <2>1 DEF FtlTake, Types, FtlTypes, Gens
  <2> QED
    BY <1>16, <2>2, <2>3 DEF FtlTake, Types
<1>17. CASE FtlReturn
  <2>1. freq \in Gens
    BY <1>17 DEF FtlReturn, Types, FtlTypes, Held, Gens, NULL
  <2>2. QueueTypes'
    BY <1>17, <2>1 DEF FtlReturn, Types, QueueTypes, FtlTypes
  <2>3. FtlTypes'
    BY <1>17, NextRingType, MaxGenAssumption DEF FtlReturn, Types, FtlTypes, NULL
  <2> QED
    BY <1>17, <2>2, <2>3 DEF FtlReturn, Types
<1>18. CASE UNCHANGED vars
  BY <1>18 DEF Types, vars
<1> QED
  BY <1>1, <1>2, <1>3, <1>4, <1>5, <1>6, <1>7, <1>8, <1>9, <1>10, <1>11, <1>12, <1>13,
     <1>14, <1>15, <1>16, <1>17, <1>18
     DEF Next, Host, Clear, Exit, Poller, Pass, Ftl

-----------------------------------------------------------------------------
(* The invariants, one after the other *)

\* A poller and the FTL thread hold a queue in one step of their loops only.
LEMMA HeldNext == Types /\ Started /\ Held /\ [Next]_vars => Held'
<1> SUFFICES ASSUME Types, Started, Held, [Next]_vars PROVE Held'
  OBVIOUS
<1>1. ASSUME NEW i \in Pollers, CreateQueuePair(i) PROVE Held'
  BY <1>1 DEF CreateQueuePair, Held, pollerVars, ftlVars
<1>2. CASE StartDataplane
  BY <1>2 DEF StartDataplane, Held, Started, Types, PollerTypes, ftlVars
<1>3. ASSUME NEW exit \in BOOLEAN, BeginClear(exit) PROVE Held'
  BY <1>3 DEF BeginClear, Held, pollerVars, ftlVars
<1>4. CASE FreeSq
  BY <1>4 DEF FreeSq, Held, pollerVars, ftlVars
<1>5. CASE FreeCq
  BY <1>5 DEF FreeCq, Held, pollerVars, ftlVars
<1>6. CASE JoinPoller
  BY <1>6 DEF JoinPoller, Held, pollerVars, ftlVars
<1>7. CASE FreeRings
  BY <1>7 DEF FreeRings, Held, pollerVars, ftlVars
<1>8. CASE FreeArrays
  BY <1>8 DEF FreeArrays, Held, pollerVars, ftlVars
<1>9. ASSUME NEW i \in Pollers, PollerBegin(i) PROVE Held'
  BY <1>9 DEF PollerBegin, Held, Types, PollerTypes, ftlVars
<1>10. ASSUME NEW i \in Pollers, PollerLook(i) PROVE Held'
  BY <1>10 DEF PollerLook, Held, Types, PollerTypes, ftlVars
<1>11. ASSUME NEW i \in Pollers, PollerServe(i) PROVE Held'
  BY <1>11 DEF PollerServe, Held, Types, PollerTypes, ftlVars
<1>12. ASSUME NEW i \in Pollers, PollerCollect(i) PROVE Held'
  BY <1>12 DEF PollerCollect, Held, Types, PollerTypes, ftlVars
<1>13. ASSUME NEW i \in Pollers, PollerReturn(i) PROVE Held'
  BY <1>13 DEF PollerReturn, Held, Types, PollerTypes, ftlVars
<1>14. CASE FtlStart
  BY <1>14 DEF FtlStart, Held, pollerVars
<1>15. CASE FtlSkip
  BY <1>15 DEF FtlSkip, Held, pollerVars, ftlVars
<1>16. CASE FtlTake
  <2>1. Head(toFtl[fi]) \in Gens
    BY <1>16, ElementsTail DEF FtlTake, Types, FtlTypes, QueueTypes
  <2>2. freq' # NULL
    BY <1>16, <2>1 DEF FtlTake, Gens, NULL
  <2> QED
    BY <1>16, <2>2 DEF FtlTake, Held, pollerVars
<1>17. CASE FtlReturn
  BY <1>17 DEF FtlReturn, Held, pollerVars
<1>18. CASE UNCHANGED vars
  BY <1>18 DEF vars, Held, pollerVars, ftlVars
<1> QED
  BY <1>1, <1>2, <1>3, <1>4, <1>5, <1>6, <1>7, <1>8, <1>9, <1>10, <1>11, <1>12, <1>13,
     <1>14, <1>15, <1>16, <1>17, <1>18
     DEF Next, Host, Clear, Exit, Poller, Pass, Ftl

\* Only the first start creates the pollers and their rings.
LEMMA StartedNext == Types /\ Started /\ [Next]_vars => Started'
<1> SUFFICES ASSUME Types, Started, [Next]_vars PROVE Started'
  OBVIOUS
<1>1. ASSUME NEW i \in Pollers, CreateQueuePair(i) PROVE Started'
  BY <1>1 DEF CreateQueuePair, Started, ctrlVars, ringVars, pollerVars, ftlVars
<1>2. CASE StartDataplane
  BY <1>2 DEF StartDataplane, Started, Types, PollerTypes, ftlVars
<1>3. ASSUME NEW exit \in BOOLEAN, BeginClear(exit) PROVE Started'
  BY <1>3 DEF BeginClear, Started, ctrlVars, ringVars, pollerVars, ftlVars
<1>4. CASE FreeSq
  BY <1>4 DEF FreeSq, Started, ctrlVars, ringVars, pollerVars, ftlVars
<1>5. CASE FreeCq
  BY <1>5 DEF FreeCq, Started, ctrlVars, ringVars, pollerVars, ftlVars
<1>6. CASE JoinPoller
  BY <1>6 DEF JoinPoller, Started, ctrlVars, ringVars, pollerVars, ftlVars
<1>7. CASE FreeRings
  BY <1>7 DEF FreeRings, Started, ctrlVars, ringVars, pollerVars, ftlVars
<1>8. CASE FreeArrays
  BY <1>8 DEF FreeArrays, Started, ctrlVars, ringVars, pollerVars, ftlVars
<1>9. ASSUME NEW i \in Pollers, PollerBegin(i) PROVE Started'
  BY <1>9 DEF PollerBegin, Started, Types, PollerTypes, ctrlVars, ringVars, ftlVars
<1>10. ASSUME NEW i \in Pollers, PollerLook(i) PROVE Started'
  BY <1>10 DEF PollerLook, Started, Types, PollerTypes, ctrlVars, ringVars, ftlVars
<1>11. ASSUME NEW i \in Pollers, PollerServe(i) PROVE Started'
  BY <1>11 DEF PollerServe, Started, Types, PollerTypes, ctrlVars, ringVars, ftlVars
<1>12. ASSUME NEW i \in Pollers, PollerCollect(i) PROVE Started'
  BY <1>12 DEF PollerCollect, Started, Types, PollerTypes, ctrlVars, ringVars, ftlVars
<1>13. ASSUME NEW i \in Pollers, PollerReturn(i) PROVE Started'
  BY <1>13 DEF PollerReturn, Started, Types, PollerTypes, ctrlVars, ringVars, ftlVars
<1>14. CASE FtlStart
  BY <1>14 DEF FtlStart, Started, ctrlVars, ringVars, pollerVars, ftlVars
<1>15. CASE FtlSkip
  BY <1>15 DEF FtlSkip, Started, ctrlVars, ringVars, pollerVars, ftlVars
<1>16. CASE FtlTake
  BY <1>16 DEF FtlTake, Started, ctrlVars, ringVars, pollerVars, ftlVars
<1>17. CASE FtlReturn
  BY <1>17 DEF FtlReturn, Started, ctrlVars, ringVars, pollerVars, ftlVars
<1>18. CASE UNCHANGED vars
  BY <1>18 DEF vars, Started, ctrlVars, ringVars, pollerVars, ftlVars
<1> QED
  BY <1>1, <1>2, <1>3, <1>4, <1>5, <1>6, <1>7, <1>8, <1>9, <1>10, <1>11, <1>12, <1>13,
     <1>14, <1>15, <1>16, <1>17, <1>18
     DEF Next, Host, Clear, Exit, Poller, Pass, Ftl

\* The FTL thread looks the rings up once they exist, and they never change.
LEMMA RingsSharedNext == Types /\ Started /\ RingsShared /\ [Next]_vars => RingsShared'
<1> SUFFICES ASSUME Types, Started, RingsShared, [Next]_vars PROVE RingsShared'
  OBVIOUS
<1>1. ASSUME NEW i \in Pollers, CreateQueuePair(i) PROVE RingsShared'
  BY <1>1 DEF CreateQueuePair, RingsShared, ringVars, ftlVars
<1>2. CASE StartDataplane
  BY <1>2 DEF StartDataplane, RingsShared, Started, ftlVars
<1>3. ASSUME NEW exit \in BOOLEAN, BeginClear(exit) PROVE RingsShared'
  BY <1>3 DEF BeginClear, RingsShared, ringVars, ftlVars
<1>4. CASE FreeSq
  BY <1>4 DEF FreeSq, RingsShared, ringVars, ftlVars
<1>5. CASE FreeCq
  BY <1>5 DEF FreeCq, RingsShared, ringVars, ftlVars
<1>6. CASE JoinPoller
  BY <1>6 DEF JoinPoller, RingsShared, ringVars, ftlVars
<1>7. CASE FreeRings
  BY <1>7 DEF FreeRings, RingsShared, ringVars, ftlVars
<1>8. CASE FreeArrays
  BY <1>8 DEF FreeArrays, RingsShared, ringVars, ftlVars
<1>9. ASSUME NEW i \in Pollers, PollerBegin(i) PROVE RingsShared'
  BY <1>9 DEF PollerBegin, RingsShared, ringVars, ftlVars
<1>10. ASSUME NEW i \in Pollers, PollerLook(i) PROVE RingsShared'
  BY <1>10 DEF PollerLook, RingsShared, ringVars, ftlVars
<1>11. ASSUME NEW i \in Pollers, PollerServe(i) PROVE RingsShared'
  BY <1>11 DEF PollerServe, RingsShared, ringVars, ftlVars
<1>12. ASSUME NEW i \in Pollers, PollerCollect(i) PROVE RingsShared'
  BY <1>12 DEF PollerCollect, RingsShared, ringVars, ftlVars
<1>13. ASSUME NEW i \in Pollers, PollerReturn(i) PROVE RingsShared'
  BY <1>13 DEF PollerReturn, RingsShared, ringVars, ftlVars
<1>14. CASE FtlStart
  BY <1>14 DEF FtlStart, RingsShared, Started, ringVars
<1>15. CASE FtlSkip
  BY <1>15 DEF FtlSkip, RingsShared, ringVars, ftlVars
<1>16. CASE FtlTake
  BY <1>16 DEF FtlTake, RingsShared, ringVars, ftlVars
<1>17. CASE FtlReturn
  BY <1>17 DEF FtlReturn, RingsShared, ringVars, ftlVars
<1>18. CASE UNCHANGED vars
  BY <1>18 DEF vars, RingsShared, ringVars, ftlVars
<1> QED
  BY <1>1, <1>2, <1>3, <1>4, <1>5, <1>6, <1>7, <1>8, <1>9, <1>10, <1>11, <1>12, <1>13,
     <1>14, <1>15, <1>16, <1>17, <1>18
     DEF Next, Host, Clear, Exit, Poller, Pass, Ftl

\* A poller that has returned stays so, and femu_exit goes on when all have.
LEMMA ExitOrderNext == Types /\ Started /\ ExitOrder /\ [Next]_vars => ExitOrder'
<1> SUFFICES ASSUME Types, Started, ExitOrder, [Next]_vars PROVE ExitOrder'
  OBVIOUS
<1>1. ASSUME NEW i \in Pollers, CreateQueuePair(i) PROVE ExitOrder'
  BY <1>1 DEF CreateQueuePair, ExitOrder, mainVars, ringVars, pollerVars
<1>2. CASE StartDataplane
  BY <1>2 DEF StartDataplane, ExitOrder, mainVars
<1>3. ASSUME NEW exit \in BOOLEAN, BeginClear(exit) PROVE ExitOrder'
  BY <1>3 DEF BeginClear, ExitOrder, Goto, ringVars, ctrlVars, pollerVars
<1>4. CASE FreeSq
  BY <1>4 DEF FreeSq, ExitOrder, NextIndex, Goto, ringVars, pollerVars
<1>5. CASE FreeCq
  <2>1. \/ mpc' \in {"free_cq", "run"} /\ (exiting => mpc' # "run")
        \/ mpc' = "join" /\ mi' = 1 /\ exiting
    BY <1>5 DEF FreeCq, NextIndex, Goto
  <2>2. \A j \in Pollers : ~ j < 1
    BY DEF Pollers
  <2> QED
    BY <1>5, <2>1, <2>2 DEF FreeCq, ExitOrder, ringVars, pollerVars
<1>6. CASE JoinPoller
  <2>1. ASSUME NEW j \in Pollers, pollerOn, j < mi' \/ mpc' # "join" PROVE ppc[j] = "done"
    BY <1>6, <2>1, NrPollersAssumption DEF JoinPoller, ExitOrder, NextIndex, Goto, Types, MainTypes, Pollers
  <2>2. mpc' \in {"join", "free_rings"}
    BY <1>6 DEF JoinPoller, NextIndex, Goto
  <2> QED
    BY <1>6, <2>1, <2>2 DEF JoinPoller, ExitOrder, ctrlVars, ringVars, pollerVars
<1>7. CASE FreeRings
  <2>1. mpc' \in {"free_rings", "free_arrays"}
    BY <1>7 DEF FreeRings, NextIndex, Goto
  <2> QED
    BY <1>7, <2>1 DEF FreeRings, ExitOrder, ctrlVars, pollerVars
<1>8. CASE FreeArrays
  BY <1>8 DEF FreeArrays, ExitOrder, Goto, ringVars, pollerVars
<1>9. ASSUME NEW i \in Pollers, PollerBegin(i) PROVE ExitOrder'
  BY <1>9 DEF PollerBegin, ExitOrder, Types, PollerTypes, mainVars, ctrlVars, ringVars
<1>10. ASSUME NEW i \in Pollers, PollerLook(i) PROVE ExitOrder'
  BY <1>10 DEF PollerLook, ExitOrder, Types, PollerTypes, mainVars, ctrlVars, ringVars
<1>11. ASSUME NEW i \in Pollers, PollerServe(i) PROVE ExitOrder'
  BY <1>11 DEF PollerServe, ExitOrder, Types, PollerTypes, mainVars, ctrlVars, ringVars
<1>12. ASSUME NEW i \in Pollers, PollerCollect(i) PROVE ExitOrder'
  BY <1>12 DEF PollerCollect, ExitOrder, Types, PollerTypes, mainVars, ctrlVars, ringVars
<1>13. ASSUME NEW i \in Pollers, PollerReturn(i) PROVE ExitOrder'
  BY <1>13 DEF PollerReturn, ExitOrder, Types, PollerTypes, mainVars, ctrlVars, ringVars
<1>14. CASE FtlStart
  BY <1>14 DEF FtlStart, ExitOrder, ctrlVars, ringVars, mainVars, pollerVars
<1>15. CASE FtlSkip
  BY <1>15 DEF FtlSkip, ExitOrder, ctrlVars, ringVars, mainVars, pollerVars
<1>16. CASE FtlTake
  BY <1>16 DEF FtlTake, ExitOrder, ctrlVars, ringVars, mainVars, pollerVars
<1>17. CASE FtlReturn
  BY <1>17 DEF FtlReturn, ExitOrder, ctrlVars, ringVars, mainVars, pollerVars
<1>18. CASE UNCHANGED vars
  BY <1>18 DEF vars, ExitOrder, ctrlVars, ringVars, mainVars, pollerVars
<1> QED
  BY <1>1, <1>2, <1>3, <1>4, <1>5, <1>6, <1>7, <1>8, <1>9, <1>10, <1>11, <1>12, <1>13,
     <1>14, <1>15, <1>16, <1>17, <1>18
     DEF Next, Host, Clear, Exit, Poller, Pass, Ftl

-----------------------------------------------------------------------------
(* What a step can do to the requests of one generation *)

\* A request is only put under way by a poller that serves its queue, and noted
\* if the poller is late.
LEMMA OutstandingNext ==
    ASSUME Types, Held, [Next]_vars, NEW j \in Pollers, NEW g \in Gens, Outstanding(j, g)'
    PROVE  Outstanding(j, g) \/ (psq[j] = g /\ (j \in late => g \in busy'[j]))
<1> DEFINE Q == Outstanding(j, g) \/ (psq[j] = g /\ (j \in late => g \in busy'[j]))
<1> USE DEF Outstanding
<1>1. ASSUME NEW i \in Pollers, CreateQueuePair(i) PROVE Q
  BY <1>1 DEF CreateQueuePair, queueVars, ftlVars
<1>2. CASE StartDataplane
  BY <1>2 DEF StartDataplane, queueVars, ftlVars
<1>3. ASSUME NEW exit \in BOOLEAN, BeginClear(exit) PROVE Q
  BY <1>3 DEF BeginClear, queueVars, ftlVars
<1>4. CASE FreeSq
  BY <1>4 DEF FreeSq, queueVars, ftlVars
<1>5. CASE FreeCq
  BY <1>5 DEF FreeCq, queueVars, ftlVars
<1>6. CASE JoinPoller
  BY <1>6 DEF JoinPoller, queueVars, ftlVars
<1>7. CASE FreeRings
  BY <1>7 DEF FreeRings, queueVars, ftlVars
<1>8. CASE FreeArrays
  BY <1>8 DEF FreeArrays, queueVars, ftlVars
<1>9. ASSUME NEW i \in Pollers, PollerBegin(i) PROVE Q
  BY <1>9 DEF PollerBegin, queueVars, ftlVars
<1>10. ASSUME NEW i \in Pollers, PollerLook(i) PROVE Q
  BY <1>10 DEF PollerLook, queueVars, ftlVars
<1>11. ASSUME NEW i \in Pollers, PollerServe(i) PROVE Q
  <2>1. CASE UNCHANGED toFtl
    BY <1>11, <2>1 DEF PollerServe, ftlVars
  <2>2. CASE toFtl' = [toFtl EXCEPT ![i] = Append(@, psq[i])]
    <3>1. Elements(toFtl'[i]) = Elements(toFtl[i]) \cup {psq[i]}
      BY <2>2, ElementsAppend DEF Types, QueueTypes
    <3>2. j # i => toFtl'[j] = toFtl[j]
      BY <2>2 DEF Types, QueueTypes
    <3>3. Len(toFtl'[i]) # Len(toFtl[i])
      BY <2>2 DEF Types, QueueTypes
    <3>4. i \in late => psq[i] \in busy'[i]
      BY <1>11, <3>3 DEF PollerServe, Types, MainTypes
    <3> QED
      BY <1>11, <3>1, <3>2, <3>4 DEF PollerServe, ftlVars
  <2> QED
    BY <1>11, <2>1, <2>2 DEF PollerServe
<1>12. ASSUME NEW i \in Pollers, PollerCollect(i) PROVE Q
  <2>1. CASE UNCHANGED toPoller
    BY <1>12, <2>1 DEF PollerCollect, ftlVars
  <2>2. CASE toPoller[i] # << >> /\ toPoller' = [toPoller EXCEPT ![i] = Tail(@)]
    <3>1. Elements(toPoller'[i]) \subseteq Elements(toPoller[i])
      BY <2>2, ElementsTail DEF Types, QueueTypes
    <3>2. j # i => toPoller'[j] = toPoller[j]
      BY <2>2 DEF Types, QueueTypes
    <3> QED
      BY <1>12, <3>1, <3>2 DEF PollerCollect, ftlVars
  <2> QED
    BY <1>12, <2>1, <2>2 DEF PollerCollect
<1>13. ASSUME NEW i \in Pollers, PollerReturn(i) PROVE Q
  BY <1>13 DEF PollerReturn, queueVars, ftlVars
<1>14. CASE FtlStart
  BY <1>14 DEF FtlStart, queueVars, ftlVars
<1>15. CASE FtlSkip
  BY <1>15 DEF FtlSkip, queueVars, ftlVars
<1>16. CASE FtlTake
  <2>1. /\ Head(toFtl[fi]) \in Elements(toFtl[fi])
        /\ Elements(toFtl'[fi]) \subseteq Elements(toFtl[fi])
    BY <1>16, ElementsTail DEF FtlTake, Types, QueueTypes, FtlTypes
  <2>2. j # fi => toFtl'[j] = toFtl[j]
    BY <1>16 DEF FtlTake, Types, QueueTypes
  <2> QED
    BY <1>16, <2>1, <2>2 DEF FtlTake
<1>17. CASE FtlReturn
  <2>1. Elements(toPoller'[fi]) = Elements(toPoller[fi]) \cup {freq}
    BY <1>17, ElementsAppend DEF FtlReturn, Types, QueueTypes, FtlTypes
  <2>2. j # fi => toPoller'[j] = toPoller[j]
    BY <1>17 DEF FtlReturn, Types, QueueTypes
  <2> QED
    BY <1>17, <2>1, <2>2 DEF FtlReturn
<1>18. CASE UNCHANGED vars
  BY <1>18 DEF vars, queueVars, ftlVars
<1> QED
  BY <1>1, <1>2, <1>3, <1>4, <1>5, <1>6, <1>7, <1>8, <1>9, <1>10, <1>11, <1>12, <1>13,
     <1>14, <1>15, <1>16, <1>17, <1>18
     DEF Next, Host, Clear, Exit, Poller, Pass, Ftl

\* A poller finds a queue in n->sq or has held it before.
LEMMA PsqNext ==
    ASSUME Types, [Next]_vars, NEW j \in Pollers, NEW g \in Gens, psq'[j] = g
    PROVE  psq[j] = g \/ (InPass(j) /\ sq[j] = g /\ UNCHANGED sq)
<1> DEFINE Q == psq[j] = g \/ (InPass(j) /\ sq[j] = g /\ UNCHANGED sq)
<1>1. ASSUME NEW i \in Pollers, CreateQueuePair(i) PROVE Q
  BY <1>1 DEF CreateQueuePair, pollerVars
<1>2. CASE StartDataplane
  BY <1>2 DEF StartDataplane, pollerVars
<1>3. ASSUME NEW exit \in BOOLEAN, BeginClear(exit) PROVE Q
  BY <1>3 DEF BeginClear, pollerVars
<1>4. CASE FreeSq
  BY <1>4 DEF FreeSq, pollerVars
<1>5. CASE FreeCq
  BY <1>5 DEF FreeCq, pollerVars
<1>6. CASE JoinPoller
  BY <1>6 DEF JoinPoller, pollerVars
<1>7. CASE FreeRings
  BY <1>7 DEF FreeRings, pollerVars
<1>8. CASE FreeArrays
  BY <1>8 DEF FreeArrays, pollerVars
<1>9. ASSUME NEW i \in Pollers, PollerBegin(i) PROVE Q
  BY <1>9 DEF PollerBegin, pollerVars
<1>10. ASSUME NEW i \in Pollers, PollerLook(i) PROVE Q
  BY <1>10 DEF PollerLook, Types, PollerTypes, InPass, ctrlVars
<1>11. ASSUME NEW i \in Pollers, PollerServe(i) PROVE Q
  BY <1>11 DEF PollerServe, Types, PollerTypes, Gens, NULL
<1>12. ASSUME NEW i \in Pollers, PollerCollect(i) PROVE Q
  BY <1>12 DEF PollerCollect, pollerVars
<1>13. ASSUME NEW i \in Pollers, PollerReturn(i) PROVE Q
  BY <1>13 DEF PollerReturn, pollerVars
<1>14. CASE FtlStart
  BY <1>14 DEF FtlStart, pollerVars
<1>15. CASE FtlSkip
  BY <1>15 DEF FtlSkip, pollerVars
<1>16. CASE FtlTake
  BY <1>16 DEF FtlTake, pollerVars
<1>17. CASE FtlReturn
  BY <1>17 DEF FtlReturn, pollerVars
<1>18. CASE UNCHANGED vars
  BY <1>18 DEF vars, pollerVars
<1> QED
  BY <1>1, <1>2, <1>3, <1>4, <1>5, <1>6, <1>7, <1>8, <1>9, <1>10, <1>11, <1>12, <1>13,
     <1>14, <1>15, <1>16, <1>17, <1>18
     DEF Next, Host, Clear, Exit, Poller, Pass, Ftl

\* Only the reset takes a queue out of n->sq.
LEMMA SqNext ==
    ASSUME Types, [Next]_vars, NEW j \in Pollers, NEW g \in Gens, sq[j] = g
    PROVE  sq'[j] = g \/ (mpc = "free_sq" /\ mi = j)
<1> DEFINE Q == sq'[j] = g \/ (mpc = "free_sq" /\ mi = j)
<1>1. ASSUME NEW i \in Pollers, CreateQueuePair(i) PROVE Q
  BY <1>1 DEF CreateQueuePair, Types, CtrlTypes, Gens, NULL
<1>2. CASE StartDataplane
  BY <1>2 DEF StartDataplane, ctrlVars
<1>3. ASSUME NEW exit \in BOOLEAN, BeginClear(exit) PROVE Q
  BY <1>3 DEF BeginClear, ctrlVars
<1>4. CASE FreeSq
  BY <1>4 DEF FreeSq, Types, CtrlTypes
<1>5. CASE FreeCq
  BY <1>5 DEF FreeCq, ctrlVars
<1>6. CASE JoinPoller
  BY <1>6 DEF JoinPoller, ctrlVars
<1>7. CASE FreeRings
  BY <1>7 DEF FreeRings, ctrlVars
<1>8. CASE FreeArrays
  BY <1>8 DEF FreeArrays, ctrlVars
<1>9. ASSUME NEW i \in Pollers, PollerBegin(i) PROVE Q
  BY <1>9 DEF PollerBegin, ctrlVars
<1>10. ASSUME NEW i \in Pollers, PollerLook(i) PROVE Q
  BY <1>10 DEF PollerLook, ctrlVars
<1>11. ASSUME NEW i \in Pollers, PollerServe(i) PROVE Q
  BY <1>11 DEF PollerServe, ctrlVars
<1>12. ASSUME NEW i \in Pollers, PollerCollect(i) PROVE Q
  BY <1>12 DEF PollerCollect, ctrlVars
<1>13. ASSUME NEW i \in Pollers, PollerReturn(i) PROVE Q
  BY <1>13 DEF PollerReturn, ctrlVars
<1>14. CASE FtlStart
  BY <1>14 DEF FtlStart, ctrlVars
<1>15. CASE FtlSkip
  BY <1>15 DEF FtlSkip, ctrlVars
<1>16. CASE FtlTake
  BY <1>16 DEF FtlTake, ctrlVars
<1>17. CASE FtlReturn
  BY <1>17 DEF FtlReturn, ctrlVars
<1>18. CASE UNCHANGED vars
  BY <1>18 DEF vars, ctrlVars
<1> QED
  BY <1>1, <1>2, <1>3, <1>4, <1>5, <1>6, <1>7, <1>8, <1>9, <1>10, <1>11, <1>12, <1>13,
     <1>14, <1>15, <1>16, <1>17, <1>18
     DEF Next, Host, Clear, Exit, Poller, Pass, Ftl

\* While the dataplane is stopped no poller begins a pass.
LEMMA InPassNext ==
    ASSUME Types, [Next]_vars, NEW j \in Pollers, ~ started, InPass(j)'
    PROVE  InPass(j)
<1> DEFINE Q == InPass(j)
<1> USE DEF InPass
<1>1. ASSUME NEW i \in Pollers, CreateQueuePair(i) PROVE Q
  BY <1>1 DEF CreateQueuePair, pollerVars
<1>2. CASE StartDataplane
  BY <1>2 DEF StartDataplane, Types, PollerTypes
<1>3. ASSUME NEW exit \in BOOLEAN, BeginClear(exit) PROVE Q
  BY <1>3 DEF BeginClear, pollerVars
<1>4. CASE FreeSq
  BY <1>4 DEF FreeSq, pollerVars
<1>5. CASE FreeCq
  BY <1>5 DEF FreeCq, pollerVars
<1>6. CASE JoinPoller
  BY <1>6 DEF JoinPoller, pollerVars
<1>7. CASE FreeRings
  BY <1>7 DEF FreeRings, pollerVars
<1>8. CASE FreeArrays
  BY <1>8 DEF FreeArrays, pollerVars
<1>9. ASSUME NEW i \in Pollers, PollerBegin(i) PROVE Q
  BY <1>9 DEF PollerBegin, Types, PollerTypes
<1>10. ASSUME NEW i \in Pollers, PollerLook(i) PROVE Q
  BY <1>10 DEF PollerLook, Types, PollerTypes
<1>11. ASSUME NEW i \in Pollers, PollerServe(i) PROVE Q
  BY <1>11 DEF PollerServe, Types, PollerTypes
<1>12. ASSUME NEW i \in Pollers, PollerCollect(i) PROVE Q
  BY <1>12 DEF PollerCollect, Types, PollerTypes
<1>13. ASSUME NEW i \in Pollers, PollerReturn(i) PROVE Q
  BY <1>13 DEF PollerReturn, Types, PollerTypes
<1>14. CASE FtlStart
  BY <1>14 DEF FtlStart, pollerVars
<1>15. CASE FtlSkip
  BY <1>15 DEF FtlSkip, pollerVars
<1>16. CASE FtlTake
  BY <1>16 DEF FtlTake, pollerVars
<1>17. CASE FtlReturn
  BY <1>17 DEF FtlReturn, pollerVars
<1>18. CASE UNCHANGED vars
  BY <1>18 DEF vars, pollerVars
<1> QED
  BY <1>1, <1>2, <1>3, <1>4, <1>5, <1>6, <1>7, <1>8, <1>9, <1>10, <1>11, <1>12, <1>13,
     <1>14, <1>15, <1>16, <1>17, <1>18
     DEF Next, Host, Clear, Exit, Poller, Pass, Ftl

\* The requests that resets leave behind only add up.
LEMMA BusyGrows ==
    ASSUME Types, [Next]_vars, NEW j \in Pollers
    PROVE  busy[j] \subseteq busy'[j]
<1> DEFINE Q == busy[j] \subseteq busy'[j]
<1>1. ASSUME NEW i \in Pollers, CreateQueuePair(i) PROVE Q
  BY <1>1 DEF CreateQueuePair, mainVars
<1>2. CASE StartDataplane
  BY <1>2 DEF StartDataplane, mainVars
<1>3. ASSUME NEW exit \in BOOLEAN, BeginClear(exit) PROVE Q
  BY <1>3 DEF BeginClear, NoteBusy
<1>4. CASE FreeSq
  BY <1>4 DEF FreeSq, mainVars
<1>5. CASE FreeCq
  BY <1>5 DEF FreeCq, mainVars
<1>6. CASE JoinPoller
  BY <1>6 DEF JoinPoller, mainVars
<1>7. CASE FreeRings
  BY <1>7 DEF FreeRings, mainVars
<1>8. CASE FreeArrays
  BY <1>8 DEF FreeArrays, mainVars
<1>9. ASSUME NEW i \in Pollers, PollerBegin(i) PROVE Q
  BY <1>9 DEF PollerBegin, mainVars
<1>10. ASSUME NEW i \in Pollers, PollerLook(i) PROVE Q
  BY <1>10 DEF PollerLook, mainVars
<1>11. ASSUME NEW i \in Pollers, PollerServe(i) PROVE Q
  BY <1>11 DEF PollerServe, Types, MainTypes
<1>12. ASSUME NEW i \in Pollers, PollerCollect(i) PROVE Q
  BY <1>12 DEF PollerCollect
<1>13. ASSUME NEW i \in Pollers, PollerReturn(i) PROVE Q
  BY <1>13 DEF PollerReturn, mainVars
<1>14. CASE FtlStart
  BY <1>14 DEF FtlStart, mainVars
<1>15. CASE FtlSkip
  BY <1>15 DEF FtlSkip, mainVars
<1>16. CASE FtlTake
  BY <1>16 DEF FtlTake, mainVars
<1>17. CASE FtlReturn
  BY <1>17 DEF FtlReturn, mainVars
<1>18. CASE UNCHANGED vars
  BY <1>18 DEF vars, mainVars
<1> QED
  BY <1>1, <1>2, <1>3, <1>4, <1>5, <1>6, <1>7, <1>8, <1>9, <1>10, <1>11, <1>12, <1>13,
     <1>14, <1>15, <1>16, <1>17, <1>18
     DEF Next, Host, Clear, Exit, Poller, Pass, Ftl

\* A late poller is late until its pass ends.
LEMMA LateStays ==
    ASSUME Types, [Next]_vars, NEW j \in late, InPass(j)'
    PROVE  j \in late'
<1> DEFINE Q == j \in late'
<1>1. ASSUME NEW i \in Pollers, CreateQueuePair(i) PROVE Q
  BY <1>1 DEF CreateQueuePair, mainVars
<1>2. CASE StartDataplane
  BY <1>2 DEF StartDataplane, mainVars
<1>3. ASSUME NEW exit \in BOOLEAN, BeginClear(exit) PROVE Q
  BY <1>3 DEF BeginClear, NoteBusy
<1>4. CASE FreeSq
  BY <1>4 DEF FreeSq
<1>5. CASE FreeCq
  BY <1>5 DEF FreeCq
<1>6. CASE JoinPoller
  BY <1>6 DEF JoinPoller
<1>7. CASE FreeRings
  BY <1>7 DEF FreeRings
<1>8. CASE FreeArrays
  BY <1>8 DEF FreeArrays
<1>9. ASSUME NEW i \in Pollers, PollerBegin(i) PROVE Q
  BY <1>9 DEF PollerBegin, mainVars
<1>10. ASSUME NEW i \in Pollers, PollerLook(i) PROVE Q
  BY <1>10 DEF PollerLook, mainVars
<1>11. ASSUME NEW i \in Pollers, PollerServe(i) PROVE Q
  BY <1>11 DEF PollerServe
<1>12. ASSUME NEW i \in Pollers, PollerCollect(i) PROVE Q
  BY <1>12 DEF PollerCollect, InPass, Types, PollerTypes
<1>13. ASSUME NEW i \in Pollers, PollerReturn(i) PROVE Q
  BY <1>13 DEF PollerReturn, mainVars
<1>14. CASE FtlStart
  BY <1>14 DEF FtlStart, mainVars
<1>15. CASE FtlSkip
  BY <1>15 DEF FtlSkip, mainVars
<1>16. CASE FtlTake
  BY <1>16 DEF FtlTake, mainVars
<1>17. CASE FtlReturn
  BY <1>17 DEF FtlReturn, mainVars
<1>18. CASE UNCHANGED vars
  BY <1>18 DEF vars, mainVars
<1> QED
  BY <1>1, <1>2, <1>3, <1>4, <1>5, <1>6, <1>7, <1>8, <1>9, <1>10, <1>11, <1>12, <1>13,
     <1>14, <1>15, <1>16, <1>17, <1>18
     DEF Next, Host, Clear, Exit, Poller, Pass, Ftl

-----------------------------------------------------------------------------
\* A queue that a poller holds when it is freed is held by a late one.
LEMMA HolderLate ==
    ASSUME Types, Held, FreedUseBounded, BusyNoted, [Next]_vars,
           NEW j \in Pollers, NEW g \in Gens, g # sq'[j], psq[j] = g
    PROVE  j \in late
<1>1. CASE g # sq[j]
  BY <1>1 DEF FreedUseBounded
<1>2. CASE g = sq[j]
  <2>1. mpc = "free_sq"
    BY <1>2, SqNext
  <2>2. InPass(j)
    BY DEF Held, InPass, Gens, NULL
  <2> QED
    BY <2>1, <2>2 DEF BusyNoted
<1> QED
  BY <1>1, <1>2

\* What the reset frees and is in use has been noted, so nothing else is used
\* after it was freed.
LEMMA FreedUseNext ==
    Types /\ Started /\ Held /\ FreedUseBounded /\ BusyNoted /\ [Next]_vars => FreedUseBounded'
<1> SUFFICES ASSUME Types, Started, Held, FreedUseBounded, BusyNoted, [Next]_vars,
                    NEW j \in Pollers, NEW g \in Gens, g # sq'[j]
             PROVE  /\ psq'[j] = g => j \in late'
                    /\ Outstanding(j, g)' => g \in busy'[j]
  BY DEF FreedUseBounded
<1>1. ASSUME psq'[j] = g PROVE j \in late'
  <2>1. psq[j] = g
    BY <1>1, PsqNext
  <2>2. j \in late
    BY <2>1, HolderLate
  <2>3. InPass(j)'
    <3>1. Held'
      BY HeldNext
    <3> QED
      BY <1>1, <3>1 DEF Held, InPass, Gens, NULL
  <2> QED
    BY <2>2, <2>3, LateStays
<1>2. ASSUME Outstanding(j, g)' PROVE g \in busy'[j]
  <2>1. CASE Outstanding(j, g) /\ g # sq[j]
    BY <2>1, BusyGrows DEF FreedUseBounded
  <2>2. CASE Outstanding(j, g) /\ g = sq[j]
    <3>1. mpc = "free_sq"
      BY <2>2, SqNext
    <3> QED
      BY <2>2, <3>1, BusyGrows DEF BusyNoted
  <2>3. CASE psq[j] = g /\ (j \in late => g \in busy'[j])
    BY <2>3, HolderLate
  <2> QED
    BY <1>2, <2>1, <2>2, <2>3, OutstandingNext
<1> QED
  BY <1>1, <1>2

\* A reset begins with BeginClear, and only FreeSq frees submission queues.
LEMMA FreeSqBegins ==
    ASSUME [Next]_vars, mpc # "free_sq", mpc' = "free_sq"
    PROVE  \E exit \in BOOLEAN : BeginClear(exit)
<1> DEFINE Q == \E exit \in BOOLEAN : BeginClear(exit)
<1>1. ASSUME NEW i \in Pollers, CreateQueuePair(i) PROVE Q
  BY <1>1 DEF CreateQueuePair, mainVars
<1>2. CASE StartDataplane
  BY <1>2 DEF StartDataplane, mainVars
<1>3. ASSUME NEW exit \in BOOLEAN, BeginClear(exit) PROVE Q
  BY <1>3
<1>4. CASE FreeSq
  BY <1>4 DEF FreeSq, NextIndex, Goto
<1>5. CASE FreeCq
  BY <1>5 DEF FreeCq, NextIndex, Goto
<1>6. CASE JoinPoller
  BY <1>6 DEF JoinPoller, NextIndex, Goto
<1>7. CASE FreeRings
  BY <1>7 DEF FreeRings, NextIndex, Goto
<1>8. CASE FreeArrays
  BY <1>8 DEF FreeArrays, Goto
<1>9. ASSUME NEW i \in Pollers, PollerBegin(i) PROVE Q
  BY <1>9 DEF PollerBegin, mainVars
<1>10. ASSUME NEW i \in Pollers, PollerLook(i) PROVE Q
  BY <1>10 DEF PollerLook, mainVars
<1>11. ASSUME NEW i \in Pollers, PollerServe(i) PROVE Q
  BY <1>11 DEF PollerServe, mainVars
<1>12. ASSUME NEW i \in Pollers, PollerCollect(i) PROVE Q
  BY <1>12 DEF PollerCollect, mainVars
<1>13. ASSUME NEW i \in Pollers, PollerReturn(i) PROVE Q
  BY <1>13 DEF PollerReturn, mainVars
<1>14. CASE FtlStart
  BY <1>14 DEF FtlStart, mainVars
<1>15. CASE FtlSkip
  BY <1>15 DEF FtlSkip, mainVars
<1>16. CASE FtlTake
  BY <1>16 DEF FtlTake, mainVars
<1>17. CASE FtlReturn
  BY <1>17 DEF FtlReturn, mainVars
<1>18. CASE UNCHANGED vars
  BY <1>18 DEF vars, mainVars
<1> QED
  BY <1>1, <1>2, <1>3, <1>4, <1>5, <1>6, <1>7, <1>8, <1>9, <1>10, <1>11, <1>12, <1>13,
     <1>14, <1>15, <1>16, <1>17, <1>18
     DEF Next, Host, Clear, Exit, Poller, Pass, Ftl

\* The reset notes what is in use when it begins; while it frees the queues, only
\* late pollers take anything into use.
LEMMA BusyNotedNext ==
    Types /\ Held /\ ExitOrder /\ BusyNoted /\ [Next]_vars => BusyNoted'
<1> SUFFICES ASSUME Types, Held, ExitOrder, BusyNoted, [Next]_vars,
                    mpc' = "free_sq", NEW j \in Pollers
             PROVE  /\ InPass(j)' => j \in late'
                    /\ \A g \in Gens : Outstanding(j, g)' => g \in busy'[j]
  BY DEF BusyNoted
<1>1. CASE mpc = "free_sq"
  <2>1. ASSUME InPass(j)' PROVE j \in late'
    BY <1>1, <2>1, InPassNext, LateStays DEF ExitOrder, BusyNoted
  <2>2. ASSUME NEW g \in Gens, Outstanding(j, g)' PROVE g \in busy'[j]
    <3>1. CASE Outstanding(j, g)
      BY <1>1, <3>1, BusyGrows DEF BusyNoted
    <3>2. CASE psq[j] = g /\ (j \in late => g \in busy'[j])
      BY <1>1, <3>2 DEF BusyNoted, Held, InPass, Gens, NULL
    <3> QED
      BY <2>2, <3>1, <3>2, OutstandingNext
  <2> QED
    BY <2>1, <2>2
<1>2. CASE mpc # "free_sq"
  <2>1. PICK exit \in BOOLEAN : BeginClear(exit)
    BY <1>2, FreeSqBegins
  <2>2. InPass(j)' => InPass(j)
    BY <2>1 DEF BeginClear, pollerVars, InPass
  <2>3. \A g \in Gens : Outstanding(j, g)' => Outstanding(j, g)
    BY <2>1 DEF BeginClear, queueVars, ftlVars, Outstanding
  <2> QED
    BY <2>1, <2>2, <2>3 DEF BeginClear, NoteBusy
<1> QED
  BY <1>1, <1>2

-----------------------------------------------------------------------------
\* The inductive invariant of the life cycle.
THEOREM Inductive == Spec => []IInv
<1>1. Init => IInv
  <2> SUFFICES ASSUME Init PROVE IInv
    OBVIOUS
  <2>1. Types
    BY TypesInit
  <2>2. Held /\ Started /\ RingsShared /\ ExitOrder /\ BusyNoted
    BY DEF Init, Held, Started, RingsShared, ExitOrder, BusyNoted, NULL
  <2>3. FreedUseBounded
    BY DEF Init, FreedUseBounded, Outstanding, Elements, Gens, NULL
  <2> QED
    BY <2>1, <2>2, <2>3 DEF IInv
<1>2. IInv /\ [Next]_vars => IInv'
  BY TypesNext, HeldNext, StartedNext, RingsSharedNext, ExitOrderNext, FreedUseNext,
     BusyNotedNext DEF IInv
<1> QED
  BY <1>1, <1>2, PTL DEF Spec

\* The threads' variables keep their types: every loop stays within its array,
\* and the rings are allocated once.
THEOREM TypeCorrect == Spec => []TypeOK
<1>1. IInv => TypeOK
  <2> SUFFICES ASSUME IInv PROVE TypeOK
    OBVIOUS
  <2>1. rings \in 0 .. 1 /\ ftlRings \in 0 .. 1
    BY DEF IInv, Started
  <2> QED
    BY <2>1 DEF IInv, TypeOK, Types, CtrlTypes, RingTypes, QueueTypes, MainTypes, PollerTypes, FtlTypes
<1> QED
  BY <1>1, Inductive, PTL

\* The rings that the FTL thread uses are those of the pollers, whatever resets
\* and restarts the host makes.
THEOREM RingsAlwaysShared == Spec => []RingsShared
<1>1. IInv => RingsShared
  BY DEF IInv
<1> QED
  BY <1>1, Inductive, PTL

\* femu_exit frees nothing that a poller can still touch, at whatever point of
\* its loop every poller is when the device is removed.
THEOREM PollersAlwaysOnLiveMemory == Spec => []PollersOnLiveMemory
<1>1. IInv => PollersOnLiveMemory
  <2> SUFFICES ASSUME IInv, NEW i \in Pollers, InPass(i)
               PROVE  rings # 0 /\ i \notin freed /\ arrays
    BY DEF PollersOnLiveMemory
  <2>1. ppc[i] # "none" /\ ppc[i] # "done"
    BY DEF InPass
  <2>2. pollerOn /\ rings # 0
    BY <2>1 DEF IInv, Started
  <2>3. mpc \notin {"free_rings", "free_arrays", "gone"}
    BY <2>1, <2>2 DEF IInv, ExitOrder
  <2> QED
    BY <2>2, <2>3 DEF IInv, ExitOrder
<1> QED
  BY <1>1, Inductive, PTL

\* What a reset has freed is used only in the pass in which it found the queue's
\* poller, and through requests that were under way when it began or that such a
\* pass has sent, whatever the host does afterwards.
THEOREM FreedUseAlwaysBounded == Spec => []FreedUseBounded
<1>1. IInv => FreedUseBounded
  BY DEF IInv
<1> QED
  BY <1>1, Inductive, PTL
=============================================================================
