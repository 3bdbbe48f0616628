------------------------------ MODULE MCTiming ------------------------------
(* CryptOverhead with a record of the intervals the units of the three        *)
(* set-ups were reserved for, so that TLC can compare the reservations of     *)
(* different commands and the set-ups with one another.                       *)
EXTENDS CryptOverhead, Sequences, TLC

CONSTANT MaxCmds    \* bound: number of commands in a behaviour

LunSymmetry == Permutations(LUN)

VARIABLE log        \* one record per command, derived from what the command changed

mcVars == <<vars, log>>

Setups == {"none", "tweak", "tweakless"}

\* The interval that ends when the unit becomes free again.
Span(end, length) == [from |-> end - length, to |-> end]

\* What a set-up reserved, from its units before and after the command; no
\* crypt reservation when the engine was not used.
Reservation(l, lun, crypt, cryptAfter, nandLat, cryptLat) ==
    [nand |-> Span(lun[l], nandLat),
     crypt |-> IF cryptAfter = crypt THEN << >> ELSE <<Span(cryptAfter, cryptLat)>>]

Reserved(u, l, nandLat, cryptLat) ==
    CASE u = "none" -> Reservation(l, lunNone', cryptNone, cryptNone', nandLat, cryptLat)
      [] u = "tweak" -> Reservation(l, lunTweak', cryptTweak, cryptTweak', nandLat, cryptLat)
      [] u = "tweakless" ->
            Reservation(l, lunTweakless', cryptTweakless, cryptTweakless', nandLat, cryptLat)

\* asked: when the command was asked for, the same in all set-ups.
Entry(l, kind, asked, nandLat, cryptLat) ==
    [lun |-> l, kind |-> kind, asked |-> asked, on |-> [u \in Setups |-> Reserved(u, l, nandLat, cryptLat)]]

Record(e) == Len(log) < MaxCmds /\ log' = Append(log, e)

MCInit == Init /\ log = << >>

MCNext ==
    \/ Tick /\ UNCHANGED log
    \/ \E l \in LUN :
           \/ \E s \in 1 .. now :
                  \/ UserRead(l, s) /\ Record(Entry(l, "read", s, PgRdLat, DecLat))
                  \/ UserWrite(l, s) /\ Record(Entry(l, "write", s, PgWrLat, EncLat))
           \/ GcRead(l) /\ Record(Entry(l, "read", now, PgRdLat, DecLat))
           \/ GcWrite(l) /\ Record(Entry(l, "write", now, PgWrLat, EncLat))
           \/ GcErase(l) /\ Record(Entry(l, "erase", now, BlkErLat, 0))

MCSpec == MCInit /\ [][MCNext]_mcVars

Disjoint(a, b) == a.to <= b.from \/ b.to <= a.from

\* However user and GC commands of different ages interleave, in every set-up a
\* LUN serves one command at a time and the crypt engine one page at a time
\* (ssd_advance_status ftl.c:466-587).
UnitsServeOneAtATime ==
    \A u \in Setups : \A i, j \in DOMAIN log : i # j =>
        LET a == log[i].on[u]
            b == log[j].on[u]
        IN  /\ log[i].lun = log[j].lun => Disjoint(a.nand, b.nand)
            /\ a.crypt # << >> /\ b.crypt # << >> => Disjoint(a.crypt[1], b.crypt[1])

\* However old the requests are and whatever is reserved already, no unit is
\* reserved for a command before the instant it was asked for -- the request's
\* arrival, or now for garbage collection -- and a page is decrypted after it was
\* read and programmed after it was encrypted (ssd_advance_status ftl.c:466-587).
StagesInOrder ==
    \A u \in Setups : \A i \in DOMAIN log :
        LET a == log[i].on[u]
        IN  /\ log[i].asked <= a.nand.from
            /\ a.crypt # << >> =>
                   /\ log[i].asked <= a.crypt[1].from
                   /\ log[i].kind = "read" => a.nand.to <= a.crypt[1].from
                   /\ log[i].kind = "write" => a.crypt[1].to <= a.nand.from
=============================================================================
