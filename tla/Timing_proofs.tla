--------------------------- MODULE Timing_proofs ---------------------------
(***************************************************************************)
(* What ssd_advance_status reserves and charges, in the three set-ups, for *)
(* any latencies, any number of LUNs and commands in any order.  The three *)
(* set-ups obey one law, Effect, which says what a command does to a LUN   *)
(* and to the engine; they differ in which commands use the engine.        *)
(***************************************************************************)
EXTENDS MCTiming, SequenceTheorems, TLAPS

-----------------------------------------------------------------------------
(* One law for all set-ups                                                  *)

Kinds == {"read", "write", "erase"}

\* The first instant at which a unit that is free at avail can start, asked at t.
After(avail, t) == IF avail < t THEN t ELSE avail

\* What a command of LUN l asked at time t does, in a set-up in which it uses the
\* engine or does not: the units before and after it, and the latency it returns.
ReadEffect(uses, l, t, lun, crypt, lun2, crypt2, lat2) ==
    LET nand == After(lun[l], t) + PgRdLat
    IN  /\ lun2 = [lun EXCEPT ![l] = nand]
        /\ crypt2 = IF uses THEN After(crypt, nand) + DecLat ELSE crypt
        /\ lat2 = (IF uses THEN crypt2 ELSE nand) - t

WriteEffect(uses, l, t, lun, crypt, lun2, crypt2, lat2) ==
    LET nand == After(lun[l], IF uses THEN crypt2 ELSE t) + PgWrLat
    IN  /\ crypt2 = IF uses THEN After(crypt, t) + EncLat ELSE crypt
        /\ lun2 = [lun EXCEPT ![l] = nand]
        /\ lat2 = nand - t

EraseEffect(uses, l, t, lun, crypt, lun2, crypt2, lat2) ==
    LET nand == After(lun[l], t) + BlkErLat
    IN  /\ lun2 = [lun EXCEPT ![l] = nand]
        /\ crypt2 = crypt
        /\ lat2 = nand - t

Effect(kind, uses, l, t, lun, crypt, lun2, crypt2, lat2) ==
    \/ kind = "read" /\ ReadEffect(uses, l, t, lun, crypt, lun2, crypt2, lat2)
    \/ kind = "write" /\ WriteEffect(uses, l, t, lun, crypt, lun2, crypt2, lat2)
    \/ kind = "erase" /\ EraseEffect(uses, l, t, lun, crypt, lun2, crypt2, lat2)

\* The same command in the three set-ups.
Lockstep(kind, gc, l, t) ==
    /\ Effect(kind, FALSE, l, t, lunNone, cryptNone, lunNone', cryptNone', latNone')
    /\ Effect(kind, ~ gc, l, t, lunTweak, cryptTweak, lunTweak', cryptTweak', latTweak')
    /\ Effect(kind, TRUE, l, t, lunTweakless, cryptTweakless,
              lunTweakless', cryptTweakless', latTweakless')
    /\ now' = now

\* Types of the units of one set-up.
Units(lun, crypt) == lun \in [LUN -> Nat] /\ crypt \in Nat

\* The type invariant, set-up by set-up.
LEMMA TypeParts ==
    TypeOK <=> /\ now \in Nat \ {0}
               /\ Units(lunNone, cryptNone) /\ latNone \in Nat
               /\ Units(lunTweak, cryptTweak) /\ latTweak \in Nat
               /\ Units(lunTweakless, cryptTweakless) /\ latTweakless \in Nat
BY DEF TypeOK, None!TypeOK, Tweak!TypeOK, Tweakless!TypeOK, Units

\* ssd_advance_status obeys the law, whoever issues the command.
LEMMA ReadLaw ==
    ASSUME TypeOK, NEW l \in LUN, NEW s \in 0 .. now, NEW t, t = IF s = 0 THEN now ELSE s
    PROVE  /\ None!NandRead(l, "USER_IO", s) /\ Tweak!NandRead(l, "USER_IO", s)
              /\ Tweakless!NandRead(l, "USER_IO", s) => Lockstep("read", FALSE, l, t)
           /\ None!NandRead(l, "GC_IO", s) /\ Tweak!NandRead(l, "GC_IO", s)
              /\ Tweakless!NandRead(l, "GC_IO", s) => Lockstep("read", TRUE, l, t)
<1> USE DEF Lockstep, Effect, ReadEffect, After
<1>1. ASSUME NEW type \in {"USER_IO", "GC_IO"}, None!NandRead(l, type, s)
      PROVE  ReadEffect(FALSE, l, t, lunNone, cryptNone, lunNone', cryptNone', latNone') /\ now' = now
  BY <1>1, TypeParts DEF None!NandRead, None!StartAt, None!Stime, None!Crypts, Units
<1>2. ASSUME NEW type \in {"USER_IO", "GC_IO"}, Tweak!NandRead(l, type, s)
      PROVE  ReadEffect(type # "GC_IO", l, t, lunTweak, cryptTweak, lunTweak', cryptTweak', latTweak')
  BY <1>2, TypeParts DEF Tweak!NandRead, Tweak!StartAt, Tweak!Stime, Tweak!Crypts, Units
<1>3. ASSUME NEW type \in {"USER_IO", "GC_IO"}, Tweakless!NandRead(l, type, s)
      PROVE  ReadEffect(TRUE, l, t, lunTweakless, cryptTweakless,
                        lunTweakless', cryptTweakless', latTweakless')
  BY <1>3, TypeParts DEF Tweakless!NandRead, Tweakless!StartAt, Tweakless!Stime, Tweakless!Crypts, Units
<1> HIDE DEF ReadEffect
<1> QED
  BY <1>1, <1>2, <1>3

\* The same for a program.
LEMMA WriteLaw ==
    ASSUME TypeOK, NEW l \in LUN, NEW s \in 0 .. now, NEW t, t = IF s = 0 THEN now ELSE s
    PROVE  /\ None!NandWrite(l, "USER_IO", s) /\ Tweak!NandWrite(l, "USER_IO", s)
              /\ Tweakless!NandWrite(l, "USER_IO", s) => Lockstep("write", FALSE, l, t)
           /\ None!NandWrite(l, "GC_IO", s) /\ Tweak!NandWrite(l, "GC_IO", s)
              /\ Tweakless!NandWrite(l, "GC_IO", s) => Lockstep("write", TRUE, l, t)
<1> USE DEF Lockstep, Effect, WriteEffect, After
<1>1. ASSUME NEW type \in {"USER_IO", "GC_IO"}, None!NandWrite(l, type, s)
      PROVE  WriteEffect(FALSE, l, t, lunNone, cryptNone, lunNone', cryptNone', latNone') /\ now' = now
  BY <1>1, TypeParts DEF None!NandWrite, None!StartAt, None!Stime, None!Crypts, Units
<1>2. ASSUME NEW type \in {"USER_IO", "GC_IO"}, Tweak!NandWrite(l, type, s)
      PROVE  WriteEffect(type # "GC_IO", l, t, lunTweak, cryptTweak, lunTweak', cryptTweak', latTweak')
  BY <1>2, TypeParts DEF Tweak!NandWrite, Tweak!StartAt, Tweak!Stime, Tweak!Crypts, Units
<1>3. ASSUME NEW type \in {"USER_IO", "GC_IO"}, Tweakless!NandWrite(l, type, s)
      PROVE  WriteEffect(TRUE, l, t, lunTweakless, cryptTweakless,
                         lunTweakless', cryptTweakless', latTweakless')
  BY <1>3, TypeParts DEF Tweakless!NandWrite, Tweakless!StartAt, Tweakless!Stime, Tweakless!Crypts, Units
<1> HIDE DEF WriteEffect
<1> QED
  BY <1>1, <1>2, <1>3

\* And for an erase, which only garbage collection issues.
LEMMA EraseLaw ==
    ASSUME TypeOK, NEW l \in LUN,
           None!NandErase(l, 0), Tweak!NandErase(l, 0), Tweakless!NandErase(l, 0)
    PROVE  Lockstep("erase", TRUE, l, now)
BY TypeParts DEF Lockstep, Effect, EraseEffect, After, Units,
                 None!NandErase, None!StartAt, None!Stime,
                 Tweak!NandErase, Tweak!StartAt, Tweak!Stime,
                 Tweakless!NandErase, Tweakless!StartAt, Tweakless!Stime

\* Every command is asked for at an instant that is not in the future.
LEMMA CommandLaw ==
    ASSUME TypeOK, NEW l \in LUN
    PROVE  /\ \A s \in 1 .. now : /\ UserRead(l, s) => Lockstep("read", FALSE, l, s)
                                  /\ UserWrite(l, s) => Lockstep("write", FALSE, l, s)
           /\ GcRead(l) => Lockstep("read", TRUE, l, now)
           /\ GcWrite(l) => Lockstep("write", TRUE, l, now)
           /\ GcErase(l) => Lockstep("erase", TRUE, l, now)
<1>1. now \in Nat \ {0}
  BY TypeParts
<1>2. ASSUME NEW s \in 1 .. now, UserRead(l, s) PROVE Lockstep("read", FALSE, l, s)
  <2>1. /\ None!NandRead(l, "USER_IO", s) /\ Tweak!NandRead(l, "USER_IO", s)
        /\ Tweakless!NandRead(l, "USER_IO", s)
    BY <1>2 DEF UserRead, None!UserRead, Tweak!UserRead, Tweakless!UserRead
  <2>2. s \in 0 .. now /\ s = IF s = 0 THEN now ELSE s
    BY <1>1
  <2> QED
    BY <2>1, <2>2, ReadLaw
<1>3. ASSUME NEW s \in 1 .. now, UserWrite(l, s) PROVE Lockstep("write", FALSE, l, s)
  <2>1. /\ None!NandWrite(l, "USER_IO", s) /\ Tweak!NandWrite(l, "USER_IO", s)
        /\ Tweakless!NandWrite(l, "USER_IO", s)
    BY <1>3 DEF UserWrite, None!UserWrite, Tweak!UserWrite, Tweakless!UserWrite
  <2>2. s \in 0 .. now /\ s = IF s = 0 THEN now ELSE s
    BY <1>1
  <2> QED
    BY <2>1, <2>2, WriteLaw
<1>4. 0 \in 0 .. now /\ now = IF 0 = 0 THEN now ELSE 0
  BY <1>1
<1>5. GcRead(l) => Lockstep("read", TRUE, l, now)
  BY <1>4, ReadLaw DEF GcRead, None!GcRead, Tweak!GcRead, Tweakless!GcRead
<1>6. GcWrite(l) => Lockstep("write", TRUE, l, now)
  BY <1>4, WriteLaw DEF GcWrite, None!GcWrite, Tweak!GcWrite, Tweakless!GcWrite
<1>7. GcErase(l) => Lockstep("erase", TRUE, l, now)
  BY EraseLaw DEF GcErase, None!GcErase, Tweak!GcErase, Tweakless!GcErase
<1> QED
  BY <1>2, <1>3, <1>5, <1>6, <1>7

-----------------------------------------------------------------------------
(* Consequences of the law                                                  *)

\* No command ends before it was asked for.
LEMMA EffectTypes ==
    ASSUME NEW kind \in Kinds, NEW uses \in BOOLEAN, NEW l \in LUN, NEW t \in Nat,
           NEW lun, NEW crypt, Units(lun, crypt),
           NEW lun2, NEW crypt2, NEW lat2,
           Effect(kind, uses, l, t, lun, crypt, lun2, crypt2, lat2)
    PROVE  Units(lun2, crypt2) /\ lat2 \in Nat
<1> USE LatencyAssumption DEF Effect, After, Units
<1>1. CASE kind = "read"
  BY <1>1 DEF ReadEffect
<1>2. CASE kind = "write"
  BY <1>2 DEF WriteEffect
<1>3. CASE kind = "erase"
  BY <1>3 DEF EraseEffect
<1> QED
  BY <1>1, <1>2, <1>3 DEF Kinds

\* A set-up that uses the engine at least as often, and whose units are free no
\* earlier, stays so and returns no smaller latency.
LEMMA EffectOrder ==
    ASSUME NEW kind \in Kinds, NEW usesA \in BOOLEAN, NEW usesB \in BOOLEAN, usesA => usesB,
           NEW l \in LUN, NEW t \in Nat,
           NEW lunA, NEW cryptA, Units(lunA, cryptA), NEW lunB, NEW cryptB, Units(lunB, cryptB),
           \A m \in LUN : lunA[m] <= lunB[m], cryptA <= cryptB,
           NEW lunA2, NEW cryptA2, NEW latA2, NEW lunB2, NEW cryptB2, NEW latB2,
           Effect(kind, usesA, l, t, lunA, cryptA, lunA2, cryptA2, latA2),
           Effect(kind, usesB, l, t, lunB, cryptB, lunB2, cryptB2, latB2)
    PROVE  /\ \A m \in LUN : lunA2[m] <= lunB2[m]
           /\ cryptA2 <= cryptB2
           /\ latA2 <= latB2
<1> USE LatencyAssumption DEF Effect, After, Units
<1>1. CASE kind = "read"
  BY <1>1 DEF ReadEffect
<1>2. CASE kind = "write"
  BY <1>2 DEF WriteEffect
<1>3. CASE kind = "erase"
  BY <1>3 DEF EraseEffect
<1> QED
  BY <1>1, <1>2, <1>3 DEF Kinds

NandLat(kind)  == CASE kind = "read" -> PgRdLat [] kind = "write" -> PgWrLat [] kind = "erase" -> BlkErLat
CryptLat(kind) == CASE kind = "read" -> DecLat [] kind = "write" -> EncLat [] kind = "erase" -> 0

\* What a command reserves begins when the unit is free, and a page's stages
\* follow each other.
LEMMA EffectSpans ==
    ASSUME NEW kind \in Kinds, NEW uses \in BOOLEAN, NEW l \in LUN, NEW t \in Nat,
           NEW lun, NEW crypt, Units(lun, crypt),
           NEW lun2, NEW crypt2, NEW lat2,
           Effect(kind, uses, l, t, lun, crypt, lun2, crypt2, lat2)
    PROVE  /\ lun[l] <= lun2[l] - NandLat(kind) /\ lun2[l] - NandLat(kind) <= lun2[l]
           /\ \A m \in LUN : lun[m] <= lun2[m]
           /\ crypt <= crypt2
           /\ t <= lun2[l] - NandLat(kind)
           /\ crypt2 # crypt => /\ crypt <= crypt2 - CryptLat(kind)
                                /\ t <= crypt2 - CryptLat(kind)
                                /\ kind = "read" => lun2[l] <= crypt2 - CryptLat(kind)
                                /\ kind = "write" => crypt2 <= lun2[l] - NandLat(kind)
<1> USE LatencyAssumption DEF Effect, After, Units
<1>1. CASE kind = "read"
  <2>1. NandLat(kind) = PgRdLat /\ CryptLat(kind) = DecLat
    BY <1>1 DEF NandLat, CryptLat
  <2> QED
    BY <1>1, <2>1 DEF ReadEffect
<1>2. CASE kind = "write"
  <2>1. NandLat(kind) = PgWrLat /\ CryptLat(kind) = EncLat
    BY <1>2 DEF NandLat, CryptLat
  <2> QED
    BY <1>2, <2>1 DEF WriteEffect
<1>3. CASE kind = "erase"
  <2>1. NandLat(kind) = BlkErLat
    BY <1>3 DEF NandLat
  <2> QED
    BY <1>3, <2>1 DEF EraseEffect
<1> QED
  BY <1>1, <1>2, <1>3 DEF Kinds

-----------------------------------------------------------------------------
(* Types and the order of the set-ups                                       *)

\* A step is a tick of the clock or a command.
LEMMA StepLaw ==
    ASSUME TypeOK, Next
    PROVE  \/ Tick
           \/ \E kind \in Kinds, gc \in BOOLEAN, l \in LUN, t \in 1 .. now : Lockstep(kind, gc, l, t)
<1>1. now \in 1 .. now
  BY TypeParts
<1>2. ASSUME NEW l \in LUN, GcRead(l) \/ GcWrite(l) \/ GcErase(l)
      PROVE  \E kind \in Kinds, gc \in BOOLEAN, t \in 1 .. now : Lockstep(kind, gc, l, t)
  BY <1>1, <1>2, CommandLaw DEF Kinds
<1>3. ASSUME NEW l \in LUN, NEW s \in 1 .. now, UserRead(l, s) \/ UserWrite(l, s)
      PROVE  \E kind \in Kinds, gc \in BOOLEAN, t \in 1 .. now : Lockstep(kind, gc, l, t)
  BY <1>3, CommandLaw DEF Kinds
<1> QED
  BY <1>2, <1>3 DEF Next

\* Steps keep the types.
LEMMA TypeNext == TypeOK /\ [Next]_vars => TypeOK'
<1> SUFFICES ASSUME TypeOK, [Next]_vars PROVE TypeOK'
  OBVIOUS
<1> DEFINE Goal == /\ now' \in Nat \ {0}
                   /\ Units(lunNone', cryptNone') /\ latNone' \in Nat
                   /\ Units(lunTweak', cryptTweak') /\ latTweak' \in Nat
                   /\ Units(lunTweakless', cryptTweakless') /\ latTweakless' \in Nat
<1>1. Goal => TypeOK'
  BY DEF TypeOK, None!TypeOK, Tweak!TypeOK, Tweakless!TypeOK, Units
<1>2. CASE Tick
  BY <1>1, <1>2, TypeParts DEF Tick, None!Tick, Tweak!Tick, Tweakless!Tick
<1>3. ASSUME NEW kind \in Kinds, NEW gc \in BOOLEAN, NEW l \in LUN, NEW t \in 1 .. now,
             Lockstep(kind, gc, l, t)
      PROVE  TypeOK'
  <2>1. now \in Nat \ {0} /\ t \in Nat
    BY TypeParts
  <2>2. Units(lunNone', cryptNone') /\ latNone' \in Nat
    BY <1>3, <2>1, TypeParts, EffectTypes DEF Lockstep
  <2>3. Units(lunTweak', cryptTweak') /\ latTweak' \in Nat
    BY <1>3, <2>1, TypeParts, EffectTypes DEF Lockstep
  <2>4. Units(lunTweakless', cryptTweakless') /\ latTweakless' \in Nat
    BY <1>3, <2>1, TypeParts, EffectTypes DEF Lockstep
  <2> QED
    BY <1>1, <1>3, <2>1, <2>2, <2>3, <2>4 DEF Lockstep
<1>4. CASE UNCHANGED vars
  BY <1>1, <1>4, TypeParts DEF vars
<1> QED
  BY <1>2, <1>3, <1>4, StepLaw

\* A new drive has them.
LEMMA TypeInit == Init => TypeOK
BY TypeParts DEF Init, None!Init, Tweak!Init, Tweakless!Init, Units

\* No time of any set-up is ever negative, although requests reach the drive out
\* of order: a latency is never that of a command that ends before its request.
THEOREM TypeCorrect == Spec => []TypeOK
BY TypeInit, TypeNext, PTL DEF Spec

\* Steps keep the order of the set-ups.
LEMMA NeverHelpsNext == TypeOK /\ CryptNeverHelps /\ [Next]_vars => CryptNeverHelps'
<1> SUFFICES ASSUME TypeOK, CryptNeverHelps, [Next]_vars PROVE CryptNeverHelps'
  OBVIOUS
<1>1. CASE Tick
  BY <1>1 DEF CryptNeverHelps, Tick, None!Tick, Tweak!Tick, Tweakless!Tick
<1>2. ASSUME NEW kind \in Kinds, NEW gc \in BOOLEAN, NEW l \in LUN, NEW t \in 1 .. now,
             Lockstep(kind, gc, l, t)
      PROVE  CryptNeverHelps'
  <2>1. t \in Nat /\ (~ gc) \in BOOLEAN
    BY TypeParts
  <2>2. /\ Units(lunNone, cryptNone) /\ Units(lunTweak, cryptTweak)
        /\ Units(lunTweakless, cryptTweakless)
    BY TypeParts
  <2>3. /\ \A m \in LUN : lunNone[m] <= lunTweak[m] /\ lunTweak[m] <= lunTweakless[m]
        /\ cryptNone <= cryptTweak /\ cryptTweak <= cryptTweakless
    BY <2>2 DEF CryptNeverHelps, Units
  <2>4. (\A m \in LUN : lunNone'[m] <= lunTweak'[m]) /\ latNone' <= latTweak'
    BY <1>2, <2>1, <2>2, <2>3, EffectOrder DEF Lockstep
  <2>5. /\ \A m \in LUN : lunTweak'[m] <= lunTweakless'[m]
        /\ cryptTweak' <= cryptTweakless' /\ latTweak' <= latTweakless'
    BY <1>2, <2>1, <2>2, <2>3, EffectOrder DEF Lockstep
  <2>6. cryptNone' = 0
    BY <1>2 DEF Lockstep, Effect, ReadEffect, WriteEffect, EraseEffect, CryptNeverHelps
  <2> QED
    BY <2>4, <2>5, <2>6 DEF CryptNeverHelps
<1>3. CASE UNCHANGED vars
  BY <1>3 DEF CryptNeverHelps, vars
<1> QED
  BY <1>1, <1>2, <1>3, StepLaw

\* For all latencies and all streams of commands: the engine, and garbage
\* collection through it, delay every command or leave its time as it was.
THEOREM CryptNeverEverHelps == Spec => []CryptNeverHelps
<1>1. Init => CryptNeverHelps
  BY DEF Init, None!Init, Tweak!Init, Tweakless!Init, CryptNeverHelps
<1> QED
  BY <1>1, TypeCorrect, NeverHelpsNext, PTL DEF Spec

-----------------------------------------------------------------------------
(* The reservations of all commands, over time.  What keeps them apart: an   *)
(* earlier reservation ends no later than its unit is free, and a later one   *)
(* begins no earlier.                                                         *)

LunOf(u)   == CASE u = "none" -> lunNone [] u = "tweak" -> lunTweak [] u = "tweakless" -> lunTweakless
CryptOf(u) == CASE u = "none" -> cryptNone [] u = "tweak" -> cryptTweak [] u = "tweakless" -> cryptTweakless

Spans        == [from : Nat, to : Nat]
Reservations == [nand : Spans, crypt : Seq(Spans)]
Entries      == [lun : LUN, kind : Kinds, asked : Nat, on : [Setups -> Reservations]]

\* The units are free again only after the reservation r of LUN l.
Over(r, l, lun, crypt) ==
    /\ r.nand.to <= lun[l]
    /\ r.crypt # << >> => r.crypt[1].to <= crypt

\* The reservation r of LUN l starts only when the units are free.
Waits(r, l, lun, crypt) ==
    /\ lun[l] <= r.nand.from
    /\ r.crypt # << >> => crypt <= r.crypt[1].from

\* The stages of a command asked for at t follow t and each other.
InOrder(r, kind, t) ==
    /\ t <= r.nand.from
    /\ r.crypt # << >> =>
           /\ t <= r.crypt[1].from
           /\ kind = "read" => r.nand.to <= r.crypt[1].from
           /\ kind = "write" => r.crypt[1].to <= r.nand.from

LogInv ==
    /\ log \in Seq(Entries)
    /\ \A u \in Setups : \A i \in DOMAIN log : Over(log[i].on[u], log[i].lun, LunOf(u), CryptOf(u))

\* The times of a reservation.
LEMMA ReservationTimes ==
    ASSUME NEW r \in Reservations
    PROVE  /\ r.nand.from \in Nat /\ r.nand.to \in Nat
           /\ r.crypt # << >> => r.crypt[1].from \in Nat /\ r.crypt[1].to \in Nat
<1>1. r.nand.from \in Nat /\ r.nand.to \in Nat /\ r.crypt \in Seq(Spans)
  BY DEF Reservations, Spans
<1>2. r.crypt # << >> => r.crypt[1] \in Spans
  BY <1>1
<1> QED
  BY <1>1, <1>2 DEF Spans

\* What a set-up reserves for a command waits for the units, and takes them.
LEMMA ReservationLaw ==
    ASSUME NEW kind \in Kinds, NEW uses \in BOOLEAN, NEW l \in LUN, NEW t \in Nat,
           NEW lun, NEW crypt, Units(lun, crypt),
           NEW lun2, NEW crypt2, NEW lat2,
           Effect(kind, uses, l, t, lun, crypt, lun2, crypt2, lat2),
           NEW r, r = Reservation(l, lun2, crypt, crypt2, NandLat(kind), CryptLat(kind))
    PROVE  /\ r \in Reservations
           /\ Waits(r, l, lun, crypt)
           /\ Over(r, l, lun2, crypt2)
           /\ InOrder(r, kind, t)
<1>1. Units(lun2, crypt2)
  BY EffectTypes
<1>2. /\ lun[l] <= lun2[l] - NandLat(kind) /\ lun2[l] - NandLat(kind) <= lun2[l]
      /\ t <= lun2[l] - NandLat(kind)
      /\ crypt2 # crypt => /\ crypt <= crypt2 - CryptLat(kind)
                           /\ t <= crypt2 - CryptLat(kind)
                           /\ kind = "read" => lun2[l] <= crypt2 - CryptLat(kind)
                           /\ kind = "write" => crypt2 <= lun2[l] - NandLat(kind)
  BY EffectSpans
<1>3. NandLat(kind) \in Nat /\ CryptLat(kind) \in Nat
  BY LatencyAssumption DEF NandLat, CryptLat, Kinds
<1>4. /\ lun[l] \in Nat /\ lun2[l] \in Nat /\ crypt \in Nat /\ crypt2 \in Nat
  BY <1>1 DEF Units
<1> DEFINE n == [from |-> lun2[l] - NandLat(kind), to |-> lun2[l]]
           c == [from |-> crypt2 - CryptLat(kind), to |-> crypt2]
<1>5. /\ n \in Spans
      /\ lun[l] <= n.from /\ t <= n.from /\ n.to <= lun2[l]
  BY <1>2, <1>3, <1>4 DEF Spans
<1>6. CASE crypt2 = crypt
  <2>1. r = [nand |-> n, crypt |-> << >>]
    BY <1>6 DEF Reservation, Span
  <2> HIDE DEF n
  <2>2. r.nand = n /\ r.crypt = << >>
    BY <2>1
  <2>3. << >> \in Seq(Spans)
    OBVIOUS
  <2>4. r \in Reservations
    BY <2>1, <2>3, <1>5 DEF Reservations
  <2> QED
    BY <2>2, <2>4, <1>5 DEF Waits, Over, InOrder
<1>7. CASE crypt2 # crypt
  <2>1. r = [nand |-> n, crypt |-> <<c>>]
    BY <1>7 DEF Reservation, Span
  <2>2. /\ crypt <= crypt2 - CryptLat(kind) /\ t <= crypt2 - CryptLat(kind)
        /\ kind = "read" => lun2[l] <= crypt2 - CryptLat(kind)
        /\ kind = "write" => crypt2 <= lun2[l] - NandLat(kind)
    BY <1>2, <1>7
  <2>3. c \in Spans /\ crypt <= c.from /\ c.to <= crypt2
    BY <2>2, <1>3, <1>4 DEF Spans
  <2>4. (kind = "read" => n.to <= c.from) /\ (kind = "write" => c.to <= n.from)
    BY <2>2
  <2>5. t <= c.from
    BY <2>2
  <2> HIDE DEF n, c
  <2>6. r.nand = n /\ r.crypt = <<c>>
    BY <2>1
  <2>7. <<c>> \in Seq(Spans) /\ <<c>>[1] = c /\ <<c>> # << >>
    BY <2>3
  <2>8. r \in Reservations
    BY <2>1, <2>7, <1>5 DEF Reservations
  <2>9. r.crypt[1] = c
    BY <2>6, <2>7
  <2> QED
    BY <2>3, <2>4, <2>5, <2>6, <2>8, <2>9, <1>5 DEF Waits, Over, InOrder
<1> QED
  BY <1>6, <1>7

\* The units of a set-up before and after a command.
LEMMA LockstepOf ==
    ASSUME TypeOK, NEW kind \in Kinds, NEW gc \in BOOLEAN, NEW l \in LUN, NEW t,
           Lockstep(kind, gc, l, t), NEW u \in Setups
    PROVE  /\ Units(LunOf(u), CryptOf(u))
           /\ \E uses \in BOOLEAN : \E lat2 :
                  Effect(kind, uses, l, t, LunOf(u), CryptOf(u), LunOf(u)', CryptOf(u)', lat2)
           /\ Entry(l, kind, t, NandLat(kind), CryptLat(kind)).on[u]
                  = Reservation(l, LunOf(u)', CryptOf(u), CryptOf(u)', NandLat(kind), CryptLat(kind))
<1>1. CASE u = "none"
  <2>1. LunOf(u) = lunNone /\ CryptOf(u) = cryptNone /\ LunOf(u)' = lunNone' /\ CryptOf(u)' = cryptNone'
    BY <1>1 DEF LunOf, CryptOf
  <2> QED
    BY <1>1, <2>1, TypeParts DEF Lockstep, Entry, Reserved, Setups
<1>2. CASE u = "tweak"
  <2>1. LunOf(u) = lunTweak /\ CryptOf(u) = cryptTweak /\ LunOf(u)' = lunTweak' /\ CryptOf(u)' = cryptTweak'
    BY <1>2 DEF LunOf, CryptOf
  <2>2. (~ gc) \in BOOLEAN
    OBVIOUS
  <2> QED
    BY <1>2, <2>1, <2>2, TypeParts DEF Lockstep, Entry, Reserved, Setups
<1>3. CASE u = "tweakless"
  <2>1. /\ LunOf(u) = lunTweakless /\ CryptOf(u) = cryptTweakless
        /\ LunOf(u)' = lunTweakless' /\ CryptOf(u)' = cryptTweakless'
    BY <1>3 DEF LunOf, CryptOf
  <2> QED
    BY <1>3, <2>1, TypeParts DEF Lockstep, Entry, Reserved, Setups
<1> QED
  BY <1>1, <1>2, <1>3 DEF Setups

\* A step ticks, or records a command that obeys the law.
LEMMA RecordLaw ==
    ASSUME TypeOK, MCNext
    PROVE  \/ Tick /\ UNCHANGED log
           \/ \E kind \in Kinds, gc \in BOOLEAN, l \in LUN, t \in 1 .. now :
                  /\ Lockstep(kind, gc, l, t)
                  /\ Record(Entry(l, kind, t, NandLat(kind), CryptLat(kind)))
<1>1. now \in 1 .. now
  BY TypeParts
<1>2. /\ NandLat("read") = PgRdLat /\ CryptLat("read") = DecLat
      /\ NandLat("write") = PgWrLat /\ CryptLat("write") = EncLat
      /\ NandLat("erase") = BlkErLat /\ CryptLat("erase") = 0
  BY DEF NandLat, CryptLat
<1>3. "read" \in Kinds /\ "write" \in Kinds /\ "erase" \in Kinds
  BY DEF Kinds
<1> QED
  BY <1>1, <1>2, <1>3, CommandLaw DEF MCNext

\* What a recorded command did: its reservations waited for the units and took
\* them, and no unit became free earlier.
LEMMA Recorded ==
    ASSUME TypeOK, LogInv, NEW kind \in Kinds, NEW gc \in BOOLEAN, NEW l \in LUN, NEW t \in 1 .. now,
           Lockstep(kind, gc, l, t), Record(Entry(l, kind, t, NandLat(kind), CryptLat(kind)))
    PROVE  \E e \in Entries :
              /\ log' = Append(log, e) /\ e.lun = l /\ e.kind = kind /\ e.asked = t
              /\ \A u \in Setups :
                    /\ Waits(e.on[u], l, LunOf(u), CryptOf(u))
                    /\ Over(e.on[u], l, LunOf(u)', CryptOf(u)')
                    /\ InOrder(e.on[u], kind, t)
                    /\ \A m \in LUN : LunOf(u)[m] <= LunOf(u)'[m]
                    /\ CryptOf(u) <= CryptOf(u)'
                    /\ Units(LunOf(u), CryptOf(u)) /\ Units(LunOf(u)', CryptOf(u)')
<1> DEFINE e == Entry(l, kind, t, NandLat(kind), CryptLat(kind))
<1>1. t \in Nat
  BY TypeParts
<1>2. ASSUME NEW u \in Setups
      PROVE  /\ e.on[u] \in Reservations
             /\ Waits(e.on[u], l, LunOf(u), CryptOf(u))
             /\ Over(e.on[u], l, LunOf(u)', CryptOf(u)')
             /\ InOrder(e.on[u], kind, t)
             /\ \A m \in LUN : LunOf(u)[m] <= LunOf(u)'[m]
             /\ CryptOf(u) <= CryptOf(u)'
             /\ Units(LunOf(u), CryptOf(u)) /\ Units(LunOf(u)', CryptOf(u)')
  <2>1. /\ Units(LunOf(u), CryptOf(u))
        /\ \E uses \in BOOLEAN : \E lat2 :
               Effect(kind, uses, l, t, LunOf(u), CryptOf(u), LunOf(u)', CryptOf(u)', lat2)
        /\ e.on[u] = Reservation(l, LunOf(u)', CryptOf(u), CryptOf(u)', NandLat(kind), CryptLat(kind))
    BY LockstepOf
  <2>2. PICK uses \in BOOLEAN : \E lat2 :
               Effect(kind, uses, l, t, LunOf(u), CryptOf(u), LunOf(u)', CryptOf(u)', lat2)
    BY <2>1
  <2> HIDE DEF e
  <2>3. /\ e.on[u] \in Reservations
        /\ Waits(e.on[u], l, LunOf(u), CryptOf(u))
        /\ Over(e.on[u], l, LunOf(u)', CryptOf(u)')
        /\ InOrder(e.on[u], kind, t)
    BY <1>1, <2>1, <2>2, ReservationLaw
  <2>4. (\A m \in LUN : LunOf(u)[m] <= LunOf(u)'[m]) /\ CryptOf(u) <= CryptOf(u)'
    BY <1>1, <2>1, <2>2, EffectSpans
  <2>5. Units(LunOf(u)', CryptOf(u)')
    BY <1>1, <2>1, <2>2, EffectTypes
  <2> QED
    BY <2>1, <2>3, <2>4, <2>5
<1>3. /\ e = [lun |-> l, kind |-> kind, asked |-> t, on |-> e.on]
      /\ e.on = [u \in Setups |-> e.on[u]]
  BY DEF Entry
<1>4. log' = Append(log, e)
  BY DEF Record
<1> HIDE DEF e
<1>5. e.on \in [Setups -> Reservations]
  BY <1>2, <1>3
<1> DEFINE o == e.on
<1>6. e = [lun |-> l, kind |-> kind, asked |-> t, on |-> o]
  BY <1>3
<1> HIDE DEF o
<1>7. e \in Entries /\ e.lun = l /\ e.kind = kind /\ e.asked = t
  BY <1>1, <1>5, <1>6 DEF Entries, o
<1> QED
  BY <1>2, <1>4, <1>7

\* A sequence grown by one element.
LEMMA Grown ==
    ASSUME NEW S, NEW s \in Seq(S), NEW x \in S, NEW s2, s2 = Append(s, x)
    PROVE  /\ s2 \in Seq(S)
           /\ DOMAIN s2 = DOMAIN s \cup {Len(s) + 1} /\ Len(s) + 1 \notin DOMAIN s
           /\ \A i \in DOMAIN s : s2[i] = s[i]
           /\ s2[Len(s) + 1] = x
OBVIOUS

\* The invariant of the log, and the two properties that follow from it.
AllApart == LogInv /\ UnitsServeOneAtATime /\ StagesInOrder

\* A command, or a tick, keeps the reservations apart.
LEMMA ApartNext == TypeOK /\ AllApart /\ [MCNext]_mcVars => AllApart'
<1> SUFFICES ASSUME TypeOK, AllApart, [MCNext]_mcVars PROVE AllApart'
  OBVIOUS
<1>0. LogInv /\ log \in Seq(Entries)
  BY DEF AllApart, LogInv
<1>1. CASE (Tick \/ UNCHANGED vars) /\ UNCHANGED log
  <2>1. UNCHANGED <<lunNone, cryptNone, lunTweak, cryptTweak, lunTweakless, cryptTweakless>>
    BY <1>1 DEF Tick, None!Tick, Tweak!Tick, Tweakless!Tick, vars
  <2>2. \A u \in Setups : LunOf(u)' = LunOf(u) /\ CryptOf(u)' = CryptOf(u)
    BY <2>1 DEF LunOf, CryptOf
  <2>3. LogInv'
    BY <1>1, <2>2 DEF AllApart, LogInv
  <2> QED
    BY <1>1, <2>3 DEF AllApart, UnitsServeOneAtATime, StagesInOrder
<1>2. ASSUME NEW kind \in Kinds, NEW gc \in BOOLEAN, NEW l \in LUN, NEW t \in 1 .. now,
             Lockstep(kind, gc, l, t), Record(Entry(l, kind, t, NandLat(kind), CryptLat(kind)))
      PROVE  AllApart'
  <2>1. PICK e \in Entries :
              /\ log' = Append(log, e) /\ e.lun = l /\ e.kind = kind /\ e.asked = t
              /\ \A u \in Setups :
                    /\ Waits(e.on[u], l, LunOf(u), CryptOf(u))
                    /\ Over(e.on[u], l, LunOf(u)', CryptOf(u)')
                    /\ InOrder(e.on[u], kind, t)
                    /\ \A m \in LUN : LunOf(u)[m] <= LunOf(u)'[m]
                    /\ CryptOf(u) <= CryptOf(u)'
                    /\ Units(LunOf(u), CryptOf(u)) /\ Units(LunOf(u)', CryptOf(u)')
    BY <1>0, <1>2, Recorded
  <2> DEFINE k == Len(log) + 1
  <2>2. /\ log' \in Seq(Entries)
        /\ DOMAIN log' = DOMAIN log \cup {k} /\ k \notin DOMAIN log
        /\ \A i \in DOMAIN log : log'[i] = log[i]
        /\ log'[k] = e
    BY <1>0, <2>1, Grown
  <2> HIDE DEF k
  <2>3. \A i \in DOMAIN log : log[i] \in Entries
    BY <1>0
  <2>4. ASSUME NEW u \in Setups, NEW i \in DOMAIN log
        PROVE  /\ log[i].on[u] \in Reservations
               /\ log[i].lun \in LUN
               /\ Over(log[i].on[u], log[i].lun, LunOf(u), CryptOf(u))
               /\ Over(log[i].on[u], log[i].lun, LunOf(u)', CryptOf(u)')
    <3>1. log[i].on[u] \in Reservations /\ log[i].lun \in LUN
      BY <2>3 DEF Entries
    <3>2. log[i].on[u].nand.to \in Nat
      BY <3>1, ReservationTimes
    <3>3. log[i].on[u].crypt # << >> => log[i].on[u].crypt[1].to \in Nat
      BY <3>1, ReservationTimes
    <3>4. Over(log[i].on[u], log[i].lun, LunOf(u), CryptOf(u))
      BY <1>0 DEF LogInv
    <3>5. LunOf(u)[log[i].lun] \in Nat /\ LunOf(u)'[log[i].lun] \in Nat
      BY <2>1, <3>1 DEF Units
    <3>6. CryptOf(u) \in Nat /\ CryptOf(u)' \in Nat
      BY <2>1 DEF Units
    <3>7. LunOf(u)[log[i].lun] <= LunOf(u)'[log[i].lun] /\ CryptOf(u) <= CryptOf(u)'
      BY <2>1, <3>1
    <3>8. log[i].on[u].nand.to <= LunOf(u)'[log[i].lun]
      BY <3>2, <3>4, <3>5, <3>7 DEF Over
    <3>9. log[i].on[u].crypt # << >> => log[i].on[u].crypt[1].to <= CryptOf(u)'
      BY <3>3, <3>4, <3>6, <3>7 DEF Over
    <3> QED
      BY <3>1, <3>4, <3>8, <3>9 DEF Over
  <2>5. LogInv'
    <3>1. ASSUME NEW u \in Setups, NEW i \in DOMAIN log'
          PROVE  Over(log'[i].on[u], log'[i].lun, LunOf(u)', CryptOf(u)')
      BY <2>1, <2>2, <2>4
    <3> QED
      BY <2>2, <3>1 DEF LogInv
  <2>6. ASSUME NEW u \in Setups, NEW i \in DOMAIN log
        PROVE  LET a == log[i].on[u]
                   b == e.on[u]
               IN  /\ log[i].lun = l => a.nand.to <= b.nand.from
                   /\ (a.crypt # << >> /\ b.crypt # << >>) => a.crypt[1].to <= b.crypt[1].from
    <3> DEFINE a == log[i].on[u]
               b == e.on[u]
    <3>1. Over(a, log[i].lun, LunOf(u), CryptOf(u)) /\ Waits(b, l, LunOf(u), CryptOf(u))
      BY <2>1, <2>4
    <3>2. a \in Reservations /\ b \in Reservations
      BY <2>1, <2>4 DEF Entries
    <3>3. LunOf(u)[l] \in Nat /\ CryptOf(u) \in Nat
      BY <2>1 DEF Units
    <3> HIDE DEF a, b
    <3>4. a.nand.to \in Nat /\ b.nand.from \in Nat
      BY <3>2, ReservationTimes
    <3>5. a.crypt # << >> => a.crypt[1].to \in Nat
      BY <3>2, ReservationTimes
    <3>6. b.crypt # << >> => b.crypt[1].from \in Nat
      BY <3>2, ReservationTimes
    <3>7. log[i].lun = l => a.nand.to <= b.nand.from
      BY <3>1, <3>3, <3>4 DEF Over, Waits
    <3>8. (a.crypt # << >> /\ b.crypt # << >>) => a.crypt[1].to <= b.crypt[1].from
      BY <3>1, <3>3, <3>5, <3>6 DEF Over, Waits
    <3> QED
      BY <3>7, <3>8 DEF a, b
  <2>7. UnitsServeOneAtATime'
    <3> SUFFICES ASSUME NEW u \in Setups, NEW i \in DOMAIN log', NEW j \in DOMAIN log', i # j
                 PROVE  LET a == log'[i].on[u]
                            b == log'[j].on[u]
                        IN  /\ log'[i].lun = log'[j].lun => Disjoint(a.nand, b.nand)
                            /\ (a.crypt # << >> /\ b.crypt # << >>) => Disjoint(a.crypt[1], b.crypt[1])
      BY DEF UnitsServeOneAtATime
    <3>1. CASE i \in DOMAIN log /\ j \in DOMAIN log
      BY <2>2, <3>1 DEF AllApart, UnitsServeOneAtATime
    <3>2. CASE i \in DOMAIN log /\ j = k
      BY <2>1, <2>2, <2>6, <3>2 DEF Disjoint
    <3>3. CASE i = k /\ j \in DOMAIN log
      BY <2>1, <2>2, <2>6, <3>3 DEF Disjoint
    <3> QED
      BY <2>2, <3>1, <3>2, <3>3
  <2>8. StagesInOrder'
    <3> SUFFICES ASSUME NEW u \in Setups, NEW i \in DOMAIN log' 
                 PROVE  InOrder(log'[i].on[u], log'[i].kind, log'[i].asked)
      BY DEF StagesInOrder, InOrder
    <3>1. CASE i \in DOMAIN log
      BY <2>2, <3>1 DEF AllApart, StagesInOrder, InOrder
    <3>2. CASE i = k
      BY <2>1, <2>2, <3>2
    <3> QED
      BY <2>2, <3>1, <3>2
  <2> QED
    BY <2>5, <2>7, <2>8 DEF AllApart
<1> QED
  BY <1>1, <1>2, RecordLaw DEF mcVars

\* Recording the commands adds nothing to what the drive can do.
LEMMA McStep == MCNext => Next
BY DEF MCNext, Next

\* The invariant that keeps reservations apart holds throughout, with the types it
\* needs, for any latencies (zero ones too) and any number of recorded commands.
THEOREM ApartAlways == MCSpec => [](TypeOK /\ AllApart)
<1>1. MCInit => TypeOK /\ AllApart
  <2>1. MCInit => TypeOK
    BY TypeInit DEF MCInit
  <2>2. MCInit => log \in Seq(Entries) /\ DOMAIN log = {}
    BY DEF MCInit
  <2> QED
    BY <2>1, <2>2 DEF AllApart, LogInv, UnitsServeOneAtATime, StagesInOrder
<1>2. TypeOK /\ [MCNext]_mcVars => TypeOK'
  BY McStep, TypeNext DEF mcVars
<1> QED
  BY <1>1, <1>2, ApartNext, PTL DEF MCSpec

\* However user and GC commands of any ages interleave, no LUN and no crypt engine
\* is ever reserved for two commands at the same time (ssd_advance_status).
THEOREM UnitsAlwaysServeOneAtATime == MCSpec => []UnitsServeOneAtATime
BY ApartAlways, PTL DEF AllApart

\* However old a request is, no unit is ever reserved for it before the instant it
\* was asked for, and a page is always decrypted after it was read and programmed
\* after it was encrypted (ssd_advance_status).
THEOREM StagesAlwaysInOrder == MCSpec => []StagesInOrder
BY ApartAlways, PTL DEF AllApart
=============================================================================
