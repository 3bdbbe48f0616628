----------------------------- MODULE NandTiming -----------------------------
(***************************************************************************)
(* ssd_advance_status of ftl.c: when each LUN and the drive's one crypt    *)
(* engine are next free, and the latency a NAND command is charged.        *)
(*                                                                         *)
(* Time is a natural number of arbitrary units; the 64-bit nanosecond      *)
(* counters of the code do not wrap in the life of a drive.  The #if 0     *)
(* channel model and gc_endtime, which nothing reads, are left out.        *)
(***************************************************************************)
EXTENDS Naturals

CONSTANTS
    LUN,                \* all (channel, LUN) pairs
    PgRdLat,            \* spp->pg_rd_lat
    PgWrLat,            \* spp->pg_wr_lat
    BlkErLat,           \* spp->blk_er_lat
    EncLat,             \* spp->enc_lat
    DecLat,             \* spp->dec_lat
    EnableCryptDelay,   \* spp->enable_crypt_delay
    EnableTweakless,    \* spp->enable_tweakless
    MaxTime,            \* bound: last instant of the host's clock
    Horizon             \* bound: no command to a unit reserved beyond it

VARIABLES
    now,            \* qemu_clock_get_ns(QEMU_CLOCK_REALTIME)
    lunAvail,       \* nand_lun.next_lun_avail_time
    cryptAvail,     \* ssd->next_crypt_avail_time
    lat             \* what the last command returned

vars == <<now, lunAvail, cryptAvail, lat>>

Init ==
    /\ now = 1
    /\ lunAvail = [l \in LUN |-> 0]
    /\ cryptAvail = 0
    /\ lat = 0

Types == {"USER_IO", "GC_IO"}

\* mutant: the earlier of the two instead of the later
StartAtEarlier(avail, t) == IF avail < t THEN avail ELSE t

\* The start of a command or of one of its stages: not before time t, and not
\* before the unit is free.
StartAt(avail, t) == IF avail < t THEN t ELSE avail

\* A command without a start time of its own starts now.
Stime(s) == IF s = 0 THEN now ELSE s

\* mutant: the test of enable_tweakless inverted
CryptsInverted(type) == EnableCryptDelay /\ (type # "GC_IO" \/ ~ EnableTweakless)

\* With a tweak, garbage collection moves pages as they are; without one it
\* has to decrypt and encrypt them again.
Crypts(type) == EnableCryptDelay /\ (type # "GC_IO" \/ EnableTweakless)

\* mutant: the engine's own reservation is ignored
NandReadCryptFree(l, type, s) ==
    LET nand  == StartAt(lunAvail[l], Stime(s)) + PgRdLat
        crypt == nand + DecLat
    IN  /\ lunAvail' = [lunAvail EXCEPT ![l] = nand]
        /\ IF Crypts(type)
           THEN cryptAvail' = crypt /\ lat' = crypt - Stime(s)
           ELSE cryptAvail' = cryptAvail /\ lat' = nand - Stime(s)
        /\ now' = now

\* read, then decrypt
NandRead(l, type, s) ==
    LET nand  == StartAt(lunAvail[l], Stime(s)) + PgRdLat
        crypt == StartAt(cryptAvail, nand) + DecLat
    IN  /\ lunAvail' = [lunAvail EXCEPT ![l] = nand]
        /\ IF Crypts(type)
           THEN cryptAvail' = crypt /\ lat' = crypt - Stime(s)
           ELSE cryptAvail' = cryptAvail /\ lat' = nand - Stime(s)
        /\ now' = now

\* mutant: programming does not wait for the encryption
NandWriteAtOnce(l, type, s) ==
    LET crypt == StartAt(cryptAvail, Stime(s)) + EncLat
        nand  == StartAt(lunAvail[l], Stime(s)) + PgWrLat
    IN  /\ cryptAvail' = IF Crypts(type) THEN crypt ELSE cryptAvail
        /\ lunAvail' = [lunAvail EXCEPT ![l] = nand]
        /\ lat' = nand - Stime(s)
        /\ now' = now

\* encrypt, then program
NandWrite(l, type, s) ==
    LET crypt == StartAt(cryptAvail, Stime(s)) + EncLat
        ready == IF Crypts(type) THEN crypt ELSE Stime(s)
        nand  == StartAt(lunAvail[l], ready) + PgWrLat
    IN  /\ cryptAvail' = IF Crypts(type) THEN crypt ELSE cryptAvail
        /\ lunAvail' = [lunAvail EXCEPT ![l] = nand]
        /\ lat' = nand - Stime(s)
        /\ now' = now

NandErase(l, s) ==
    LET nand == StartAt(lunAvail[l], Stime(s)) + BlkErLat
    IN  /\ lunAvail' = [lunAvail EXCEPT ![l] = nand]
        /\ lat' = nand - Stime(s)
        /\ UNCHANGED <<now, cryptAvail>>

-----------------------------------------------------------------------------
(* Who issues commands: ssd_read and ssd_write with the request's arrival    *)
(* time, which may be any earlier instant when requests of several pollers   *)
(* queue for the FTL thread; garbage collection with stime = 0.              *)

WithinHorizon(l) == lunAvail[l] <= Horizon /\ cryptAvail <= Horizon

UserRead(l, s)  == WithinHorizon(l) /\ NandRead(l, "USER_IO", s)
UserWrite(l, s) == WithinHorizon(l) /\ NandWrite(l, "USER_IO", s)
GcRead(l)       == WithinHorizon(l) /\ NandRead(l, "GC_IO", 0)
GcWrite(l)      == WithinHorizon(l) /\ NandWrite(l, "GC_IO", 0)
GcErase(l)      == WithinHorizon(l) /\ NandErase(l, 0)

Tick == now < MaxTime /\ now' = now + 1 /\ UNCHANGED <<lunAvail, cryptAvail, lat>>

Next ==
    \/ Tick
    \/ \E l \in LUN :
           \/ \E s \in 1 .. now : UserRead(l, s) \/ UserWrite(l, s)
           \/ GcRead(l) \/ GcWrite(l) \/ GcErase(l)

Spec == Init /\ [][Next]_vars

\* Times are never negative: no command ends before its request arrived.
TypeOK ==
    /\ now \in Nat \ {0}
    /\ lunAvail \in [LUN -> Nat]
    /\ cryptAvail \in Nat
    /\ lat \in Nat
=============================================================================
