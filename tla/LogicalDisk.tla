---------------------------- MODULE LogicalDisk ----------------------------
(***************************************************************************)
(* What a host may rely on: the drive is an array of pages, a request      *)
(* works through the pages it names once each and in order, a write puts   *)
(* its data into exactly those pages, and nothing else ever changes the    *)
(* contents of a page.  FTLDisk implements it.                             *)
(***************************************************************************)
EXTENDS Integers

CONSTANTS
    NumPages,   \* pages of the drive
    Values,     \* what a page can hold
    Blank       \* what a page holds before it is first written

VARIABLES
    disk,       \* contents of the pages
    phase,      \* what the drive is doing for the host
    todo        \* pages the request has still to read or write

vars == <<disk, phase, todo>>

Pages == 0 .. NumPages - 1

Init ==
    /\ disk = [p \in Pages |-> Blank]
    /\ phase = "idle"
    /\ todo = {}

Accept ==
    /\ phase = "idle"
    /\ \/ /\ phase' \in {"read", "write"}
          /\ \E first, last \in Pages : first <= last /\ todo' = first .. last
       \/ /\ phase' = "answered"
          /\ todo' = {}
    /\ UNCHANGED disk

\* The pages of a request are served from the first to the last.
NextPage(p) == p \in todo /\ \A q \in todo : p <= q

Serve(p) ==
    /\ NextPage(p)
    /\ todo' = todo \ {p}
    /\ phase' = IF todo' = {} THEN "answered" ELSE phase

ReadPage(p) ==
    /\ phase = "read"
    /\ Serve(p)
    /\ UNCHANGED disk

WritePage(p) ==
    /\ phase = "write"
    /\ Serve(p)
    /\ \E v \in Values : disk' = [disk EXCEPT ![p] = v]

\* The emulator may end, for want of space, with the page or without it.
Stop ==
    /\ phase' = "stopped"
    /\ todo' = {}
    /\ \/ UNCHANGED disk
       \/ /\ phase = "write"
          /\ \E p \in Pages, v \in Values : NextPage(p) /\ disk' = [disk EXCEPT ![p] = v]

Finish ==
    /\ phase = "answered"
    /\ phase' = "idle"
    /\ UNCHANGED <<disk, todo>>

Next ==
    \/ Accept
    \/ \E p \in Pages : ReadPage(p) \/ WritePage(p)
    \/ Stop
    \/ Finish

Spec == Init /\ [][Next]_vars
=============================================================================
