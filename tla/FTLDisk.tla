------------------------------ MODULE FTLDisk ------------------------------
(***************************************************************************)
(* FTL with the data of the pages, to state what its tables are for.       *)
(*                                                                         *)
(* FEMU keeps the host's data outside the FTL, in a memory backend indexed *)
(* by logical address, and emulates only what a drive would do to find it. *)
(* The history variable data is the data such a drive would keep in its    *)
(* physical pages: a write programs it into the page under the write       *)
(* pointer, garbage collection copies it, an erase destroys it.  Data that *)
(* has been superseded is dropped at once, which leaves a reader of it     *)
(* with nothing and TLC with fewer states.                                 *)
(***************************************************************************)
EXTENDS FTL

CONSTANTS
    Values,     \* what the host writes
    Blank       \* a page without wanted data

VARIABLE data   \* history: contents of the physical pages

diskVars == <<vars, data>>

DiskInit == Init /\ data = [p \in Ppa |-> Blank]

\* The page the copy or the new version of a page makes obsolete is dropped.
Program(v, old) == data' = [data EXCEPT ![old] = Blank, ![wp] = v]

HostWrite ==
    /\ ProgramPage
    /\ \E v \in Values : Program(v, IF Mapped(lpn) THEN maptbl[lpn] ELSE wp)

\* gc_read_page and gc_write_page
GcMove == GcCopyPage /\ Program(data[gcPpa], gcPpa)

Erase ==
    /\ GcEraseBlock
    /\ data' = [p \in Ppa |-> IF BlkOf(p) = BlkOf(gcPpa) THEN Blank ELSE data[p]]

TablesOnly ==
    /\ \/ Recv \/ ReadPage
       \/ ForegroundGcDone \/ ForegroundGc \/ InvalidateOld
       \/ BackgroundGcDone \/ BackgroundGc \/ GcSkipPage \/ GcFreeLine
    /\ UNCHANGED data

DiskNext == HostWrite \/ GcMove \/ Erase \/ TablesOnly

DiskSpec == DiskInit /\ [][DiskNext]_diskVars

-----------------------------------------------------------------------------
(* The logical disk that maptbl makes of the physical pages *)

Writing == pc \in {"gc_high", "invalidate", "program"} \/ (Collecting /\ gcForce)

Contents == [l \in LPN |-> IF Mapped(l) THEN data[maptbl[l]] ELSE Blank]

Phase ==
    CASE Writing -> "write"
      [] pc = "read" -> "read"
      [] pc = "idle" -> "idle"
      [] pc = "aborted" -> "stopped"
      [] OTHER -> "answered"

Todo == IF Writing \/ pc = "read" THEN lpn .. endLpn ELSE {}

Disk == INSTANCE LogicalDisk WITH
    NumPages <- NumLpns, disk <- Contents, phase <- Phase, todo <- Todo

\* Whatever the tables, the lines and garbage collection are doing, looking a
\* logical page up in maptbl finds what the host last wrote there; a request
\* touches its own pages, once each and in order; and collections, before,
\* between or after the pages of a write, are invisible (ssd_read ftl.c:832-866,
\* ssd_write 868-921, do_gc 786-830).
ImplementsLogicalDisk == Disk!Spec
=============================================================================
