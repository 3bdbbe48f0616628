--------------------------- MODULE CryptOverhead ---------------------------
(***************************************************************************)
(* The three set-ups the repository measures (results/femu/none, tweak and *)
(* tweakless), given the same commands at the same times: three copies of  *)
(* NandTiming in lock-step.  The FTL's choice of commands does not depend  *)
(* on latencies, so one stream of commands fits all three.                 *)
(***************************************************************************)
EXTENDS Naturals

CONSTANTS LUN, PgRdLat, PgWrLat, BlkErLat, EncLat, DecLat, MaxTime, Horizon

ASSUME LatencyAssumption ==
    /\ PgRdLat \in Nat
    /\ PgWrLat \in Nat
    /\ BlkErLat \in Nat
    /\ EncLat \in Nat
    /\ DecLat \in Nat

VARIABLES
    now,
    lunNone, cryptNone, latNone,                \* no crypt delay
    lunTweak, cryptTweak, latTweak,             \* garbage collection bypasses the engine
    lunTweakless, cryptTweakless, latTweakless  \* it does not

None == INSTANCE NandTiming WITH
    EnableCryptDelay <- FALSE, EnableTweakless <- FALSE,
    lunAvail <- lunNone, cryptAvail <- cryptNone, lat <- latNone

Tweak == INSTANCE NandTiming WITH
    EnableCryptDelay <- TRUE, EnableTweakless <- FALSE,
    lunAvail <- lunTweak, cryptAvail <- cryptTweak, lat <- latTweak

Tweakless == INSTANCE NandTiming WITH
    EnableCryptDelay <- TRUE, EnableTweakless <- TRUE,
    lunAvail <- lunTweakless, cryptAvail <- cryptTweakless, lat <- latTweakless

vars == <<now, lunNone, cryptNone, latNone, lunTweak, cryptTweak, latTweak,
          lunTweakless, cryptTweakless, latTweakless>>

Init == None!Init /\ Tweak!Init /\ Tweakless!Init

\* The same command for all three; each keeps to the bound.
UserRead(l, s)  == None!UserRead(l, s) /\ Tweak!UserRead(l, s) /\ Tweakless!UserRead(l, s)
UserWrite(l, s) == None!UserWrite(l, s) /\ Tweak!UserWrite(l, s) /\ Tweakless!UserWrite(l, s)
GcRead(l)       == None!GcRead(l) /\ Tweak!GcRead(l) /\ Tweakless!GcRead(l)
GcWrite(l)      == None!GcWrite(l) /\ Tweak!GcWrite(l) /\ Tweakless!GcWrite(l)
GcErase(l)      == None!GcErase(l) /\ Tweak!GcErase(l) /\ Tweakless!GcErase(l)

Tick == None!Tick /\ Tweak!Tick /\ Tweakless!Tick

Next ==
    \/ Tick
    \/ \E l \in LUN :
           \/ \E s \in 1 .. now : UserRead(l, s) \/ UserWrite(l, s)
           \/ GcRead(l) \/ GcWrite(l) \/ GcErase(l)

Spec == Init /\ [][Next]_vars

-----------------------------------------------------------------------------
\* Times of all three are never negative: no command ends before its request
\* arrived, although requests reach the drive out of order.
TypeOK == None!TypeOK /\ Tweak!TypeOK /\ Tweakless!TypeOK

\* What the comparison of the three set-ups rests on: no command ever gets a
\* smaller latency, and no unit becomes free earlier, because there is a crypt
\* engine or because garbage collection has to go through it -- whatever was
\* queued on the LUNs and on the engine before (ssd_advance_status ftl.c:466-587).
CryptNeverHelps ==
    /\ \A l \in LUN : lunNone[l] <= lunTweak[l] /\ lunTweak[l] <= lunTweakless[l]
    /\ cryptNone = 0
    /\ cryptTweak <= cryptTweakless
    /\ latNone <= latTweak
    /\ latTweak <= latTweakless
=============================================================================
