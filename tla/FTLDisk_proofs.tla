--------------------------- MODULE FTLDisk_proofs ---------------------------
(***************************************************************************)
(* FTLDisk implements LogicalDisk, for every geometry, host and threshold: *)
(* whatever the FTL does with its tables and lines, the host sees an array *)
(* of pages.  The argument is the mapping's coherence, which FTL_proofs    *)
(* proves; what is added is where the superseded version of the page being *)
(* written is, and how far the request has come.                           *)
(***************************************************************************)
EXTENDS FTLDisk, FTL_proofs

\* The page a write replaces is marked invalid before the new one is mapped
\* (ssd_write ftl.c:891-899).
StaleOld == pc = "program" /\ Mapped(lpn) => pgStatus[maptbl[lpn]] = "invalid"

\* A request in service has a page left.
PagesLeft == Writing \/ pc = "read" => lpn <= endLpn

DataType == data \in [Ppa -> Values \cup {Blank}]

DInv == IInv /\ StaleOld /\ PagesLeft /\ DataType

-----------------------------------------------------------------------------
(* FTLDisk only adds the data to FTL *)

\* Every step of the drive with data is a step of the FTL, or none.
LEMMA DiskStepIsStep == [DiskNext]_diskVars => [Next]_vars
BY DEF DiskNext, diskVars, HostWrite, GcMove, Erase, TablesOnly, Next, Step

\* What FTL's theorems say of Spec holds of the drive with its data.
THEOREM DiskIsFtl == DiskSpec => Spec
<1>1. DiskInit => Init
  BY DEF DiskInit
<1> QED
  BY <1>1, DiskStepIsStep, PTL DEF DiskSpec, Spec

-----------------------------------------------------------------------------
(* The inductive invariant *)

\* ssd_init: nothing is mapped and no request is in service.
LEMMA DInvInit == DiskInit => DInv
<1> SUFFICES ASSUME DiskInit PROVE DInv
  OBVIOUS
<1>1. IInv /\ pc = "idle"
  BY IInvInit DEF DiskInit, Init
<1>2. StaleOld /\ PagesLeft
  BY <1>1 DEF StaleOld, PagesLeft, Writing, Collecting
<1>3. DataType
  BY DEF DiskInit, DataType
<1> QED
  BY <1>1, <1>2, <1>3 DEF DInv

\* InvalidateOld is the only way to the program step.
LEMMA StaleOldStep == IInv /\ Next => StaleOld'
<1> SUFFICES ASSUME IInv, Next, pc' = "program" PROVE StaleOld'
  BY DEF StaleOld
<1>1. InvalidateOld
  BY DEF Next, Recv, Step, RecvWrite, RecvRead, RecvOther, Accept, Goto, ReadPage,
     ForegroundGcDone, ForegroundGc, SelectVictim, ProgramPage, WritePage, BackgroundGcDone,
     BackgroundGc, GcCopyPage, AfterGcPage, GcSkipPage, GcEraseBlock, GcFreeLine
<1>2. /\ maptbl' = maptbl /\ lpn' = lpn
      /\ lpn \in LPN
      /\ maptbl \in [LPN -> Ppa \cup {UNMAPPED_PPA}]
      /\ pgStatus \in [Ppa -> PageStatus]
  BY <1>1 DEF InvalidateOld, reqVars, IInv, TypeOK
<1>3. CASE Mapped(lpn)
  <2>1. maptbl[lpn] \in Ppa
    BY <1>2, <1>3 DEF Mapped
  <2>2. pgStatus' = [pgStatus EXCEPT ![maptbl[lpn]] = "invalid"]
    BY <1>1, <1>3 DEF InvalidateOld, MarkPageInvalid
  <2> QED
    BY <1>2, <2>1, <2>2 DEF StaleOld
<1>4. CASE ~ Mapped(lpn)
  BY <1>2, <1>4 DEF StaleOld, Mapped
<1> QED
  BY <1>3, <1>4

\* start_lpn <= end_lpn of every request that is accepted.
LEMMA AcceptedPages ==
    ASSUME NEW s \in Nat, NEW n \in Nat \ {0}
    PROVE  s \div SecsPerPg <= (s + n - 1) \div SecsPerPg
<1>1. SecsPerPg \in Nat \ {0}
  BY HostAssumption
<1> DEFINE a == s \div SecsPerPg
           b == (s + n - 1) \div SecsPerPg
<1>2. a \in Nat /\ SecsPerPg * a <= s
  BY <1>1
<1>3. b \in Nat /\ s + n - 1 < SecsPerPg * (b + 1)
  BY <1>1
<1>4. ~ (b + 1 <= a)
  <2> SUFFICES ASSUME b + 1 <= a PROVE FALSE
    OBVIOUS
  <2> HIDE DEF a, b
  <2>1. SecsPerPg * (a - (b + 1)) >= 0
    BY <1>1, <1>2, <1>3
  <2>2. SecsPerPg * (a - (b + 1)) = SecsPerPg * a - SecsPerPg * (b + 1)
    BY <1>1, <1>2, <1>3
  <2>3. SecsPerPg * a \in Int /\ SecsPerPg * (b + 1) \in Int
    BY <1>1, <1>2, <1>3
  <2> QED
    BY <1>2, <1>3, <2>1, <2>2, <2>3
<1> QED
  BY <1>2, <1>3, <1>4

\* The loops of ssd_read and ssd_write end with the last page.
LEMMA PagesLeftStep == IInv /\ PagesLeft /\ Next => PagesLeft'
<1> SUFFICES ASSUME IInv, PagesLeft, Next PROVE PagesLeft'
  OBVIOUS
<1>1. lpn \in Int /\ endLpn \in Int
  BY DEF IInv, TypeOK, LPN
<1>2. CASE RecvWrite \/ RecvRead
  <2>1. PICK slba \in 0 .. NumLpns * SecsPerPg - 1, nlb \in 1 .. MaxNlb :
             \E label : Accept(slba, nlb, label)
    BY <1>2 DEF RecvWrite, RecvRead
  <2>2. slba \in Nat /\ nlb \in Nat \ {0}
    BY <2>1
  <2>3. lpn' <= endLpn'
    BY <2>1, <2>2, AcceptedPages DEF Accept
  <2> QED
    BY <2>3 DEF PagesLeft
<1>3. CASE ReadPage
  BY <1>1, <1>3 DEF ReadPage, NextLpn, PagesLeft, Writing, Collecting
<1>4. CASE ProgramPage
  BY <1>1, <1>4 DEF ProgramPage, WritePage, NextLpn, PagesLeft, Writing, Collecting
<1>5. CASE /\ UNCHANGED reqVars
           /\ Writing' \/ pc' = "read" => Writing \/ pc = "read"
  BY <1>1, <1>5 DEF PagesLeft, reqVars
<1>6. CASE RecvOther \/ BackgroundGcDone
  BY <1>6 DEF RecvOther, BackgroundGcDone, Goto, PagesLeft, Writing, Collecting
<1>7. CASE ForegroundGcDone \/ InvalidateOld
  BY <1>5, <1>7 DEF ForegroundGcDone, InvalidateOld, Writing
<1>8. CASE ForegroundGc
  BY <1>5, <1>8 DEF ForegroundGc, SelectVictim, Writing
<1>9. CASE BackgroundGc
  BY <1>5, <1>9 DEF BackgroundGc, SelectVictim, Writing, Collecting
<1>10. CASE GcCopyPage \/ GcSkipPage
  BY <1>5, <1>10 DEF GcCopyPage, GcSkipPage, WritePage, AfterGcPage, Writing, Collecting
<1>11. CASE GcEraseBlock \/ GcFreeLine
  BY <1>5, <1>11 DEF GcEraseBlock, GcFreeLine, Writing, Collecting
<1> QED
  BY <1>2, <1>3, <1>4, <1>6, <1>7, <1>8, <1>9, <1>10, <1>11 DEF Next, Recv, Step

\* The pages hold what the host wrote, or nothing wanted.
LEMMA DataTypeStep == IInv /\ DataType /\ DiskNext => DataType'
<1> SUFFICES ASSUME IInv, DataType, DiskNext PROVE DataType'
  OBVIOUS
<1>1. CASE HostWrite
  BY <1>1 DEF HostWrite, Program, DataType
<1>2. CASE GcMove
  <2>1. gcPpa \in Ppa
    BY DEF IInv, TypeOK
  <2> QED
    BY <1>2, <2>1 DEF GcMove, Program, DataType
<1>3. CASE Erase
  BY <1>3 DEF Erase, DataType
<1>4. CASE TablesOnly
  BY <1>4 DEF TablesOnly, DataType
<1> QED
  BY <1>1, <1>2, <1>3, <1>4 DEF DiskNext

\* Every step keeps the invariant.
LEMMA DInvStep == DInv /\ [DiskNext]_diskVars => DInv'
<1> SUFFICES ASSUME DInv, [DiskNext]_diskVars PROVE DInv'
  OBVIOUS
<1>1. IInv'
  BY DiskStepIsStep, IInvStep DEF DInv
<1>2. CASE DiskNext
  <2>1. Next
    BY <1>2 DEF DiskNext, HostWrite, GcMove, Erase, TablesOnly, Next, Step
  <2> QED
    BY <1>1, <1>2, <2>1, StaleOldStep, PagesLeftStep, DataTypeStep DEF DInv
<1>3. CASE UNCHANGED diskVars
  <2>1. UNCHANGED <<pc, maptbl, pgStatus, lpn, endLpn, gcForce, data>>
    BY <1>3 DEF diskVars, vars, mapVars, nandVars, reqVars, gcVars
  <2>2. StaleOld' /\ PagesLeft'
    BY <2>1 DEF DInv, StaleOld, PagesLeft, Mapped, Writing, Collecting
  <2>3. DataType'
    BY <2>1 DEF DInv, DataType
  <2> QED
    BY <1>1, <2>2, <2>3 DEF DInv
<1> QED
  BY <1>2, <1>3

\* The inductive invariant holds in every state of every drive.
THEOREM DiskInductive == DiskSpec => []DInv
BY DInvInit, DInvStep, PTL DEF DiskSpec

-----------------------------------------------------------------------------
(* The phases *)

\* What the host is being served at each step of the FTL thread.
LEMMA PhaseCases ==
    /\ Writing => Phase = "write" /\ Todo = lpn .. endLpn
    /\ pc = "read" => Phase = "read" /\ Todo = lpn .. endLpn
    /\ pc = "idle" => Phase = "idle" /\ Todo = {}
    /\ pc = "aborted" => Phase = "stopped" /\ Todo = {}
    /\ pc = "complete" \/ (Collecting /\ ~ gcForce) => Phase = "answered" /\ Todo = {}
<1>1. CASE Writing
  <2>1. pc # "read" /\ pc # "idle" /\ pc # "aborted" /\ pc # "complete"
    BY <1>1 DEF Writing, Collecting
  <2> QED
    BY <1>1, <2>1 DEF Phase, Todo, Writing, Collecting
<1>2. CASE ~ Writing
  BY <1>2 DEF Phase, Todo, Writing, Collecting
<1> QED
  BY <1>1, <1>2

\* The host sees the same pages while maptbl and the mapped data stay.
LEMMA SameContents ==
    ASSUME maptbl' = maptbl, \A l \in LPN : Mapped(l) => data'[maptbl[l]] = data[maptbl[l]]
    PROVE  Contents' = Contents
BY DEF Contents, Mapped

\* The request's next page, as LogicalDisk sees it.
LEMMA NextPageIsLpn ==
    ASSUME DInv, Writing \/ pc = "read"
    PROVE  /\ lpn \in 0 .. NumLpns - 1
           /\ Disk!NextPage(lpn)
<1>1. lpn \in LPN /\ endLpn \in LPN /\ lpn <= endLpn
  BY DEF DInv, IInv, TypeOK, PagesLeft
<1>2. Todo = lpn .. endLpn
  BY PhaseCases
<1> QED
  BY <1>1, <1>2 DEF Disk!NextPage, LPN

-----------------------------------------------------------------------------
(* Each step of the drive is a step of the logical disk, or invisible *)

\* ftl_thread takes a request: the logical disk accepts it.
LEMMA RecvRefines == DInv /\ TypeOK' /\ Recv /\ UNCHANGED data => Disk!Accept
<1> SUFFICES ASSUME DInv, TypeOK', Recv, UNCHANGED data PROVE Disk!Accept
  OBVIOUS
<1>1. pc = "idle" /\ maptbl' = maptbl
  BY DEF Recv, RecvWrite, RecvRead, RecvOther, Accept, Goto, mapVars
<1>2. Contents' = Contents
  BY <1>1, SameContents
<1>3. Phase = "idle"
  BY <1>1, PhaseCases
<1>4. CASE RecvOther
  <2>1. pc' = "complete"
    BY <1>4 DEF RecvOther, Goto
  <2>2. Phase' = "answered" /\ Todo' = {}
    BY <2>1 DEF Phase, Todo, Writing, Collecting
  <2> QED
    BY <1>2, <1>3, <2>2 DEF Disk!Accept
<1>5. CASE RecvWrite \/ RecvRead
  <2>1. PICK slba \in 0 .. NumLpns * SecsPerPg - 1, nlb \in 1 .. MaxNlb, label \in {"gc_high", "read"} :
             Accept(slba, nlb, label)
    BY <1>5 DEF RecvWrite, RecvRead
  <2>2. slba \in Nat /\ nlb \in Nat \ {0}
    BY <2>1
  <2>3. lpn' <= endLpn'
    BY <2>1, <2>2, AcceptedPages DEF Accept
  <2>4. lpn' \in 0 .. NumLpns - 1 /\ endLpn' \in 0 .. NumLpns - 1
    BY DEF TypeOK, LPN
  <2>5. pc' \in {"gc_high", "read"}
    BY <2>1 DEF Accept
  <2>6. Phase' \in {"read", "write"} /\ Todo' = lpn' .. endLpn'
    BY <2>5 DEF Phase, Todo, Writing, Collecting
  <2> QED
    BY <1>2, <1>3, <2>3, <2>4, <2>6 DEF Disk!Accept, Disk!Pages
<1> QED
  BY <1>4, <1>5 DEF Recv

\* What is left of a range without its first element.
LEMMA RestOfRange ==
    ASSUME NEW a \in Int, NEW b \in Int, a <= b
    PROVE  /\ a < b => (a .. b) \ {a} = a + 1 .. b /\ (a .. b) \ {a} # {}
           /\ ~ (a < b) => (a .. b) \ {a} = {}
<1>1. CASE a < b
  <2>1. b \in (a .. b) \ {a}
    BY <1>1
  <2> QED
    BY <1>1, <2>1
<1>2. CASE ~ (a < b)
  BY <1>2
<1> QED
  BY <1>1, <1>2

\* lpn++: the page leaves what is left of the request.
LEMMA TodoShrinks ==
    ASSUME lpn \in Int, endLpn \in Int, lpn <= endLpn, NextLpn,
           Todo = lpn .. endLpn,
           Todo' = IF lpn < endLpn THEN lpn' .. endLpn' ELSE {}
    PROVE  /\ Todo' = Todo \ {lpn}
           /\ Todo' = {} <=> ~ (lpn < endLpn)
<1>1. /\ lpn < endLpn => Todo \ {lpn} = lpn + 1 .. endLpn /\ Todo \ {lpn} # {}
      /\ ~ (lpn < endLpn) => Todo \ {lpn} = {}
  BY RestOfRange
<1>2. CASE lpn < endLpn
  <2>1. lpn' = lpn + 1 /\ endLpn' = endLpn
    BY <1>2 DEF NextLpn
  <2>2. Todo' = lpn + 1 .. endLpn
    BY <1>2, <2>1
  <2> QED
    BY <1>1, <1>2, <2>2
<1>3. CASE ~ (lpn < endLpn)
  BY <1>1, <1>3
<1> QED
  BY <1>2, <1>3

\* One iteration of ssd_read reads the next page.
LEMMA ReadPageRefines == DInv /\ ReadPage /\ UNCHANGED data => Disk!ReadPage(lpn)
<1> SUFFICES ASSUME DInv, ReadPage, UNCHANGED data PROVE Disk!ReadPage(lpn)
  OBVIOUS
<1>1. /\ pc = "read" /\ maptbl' = maptbl /\ NextLpn
      /\ pc' = IF lpn < endLpn THEN "read" ELSE "complete"
  BY DEF ReadPage, mapVars
<1>2. lpn \in Int /\ endLpn \in Int /\ lpn <= endLpn
  BY <1>1 DEF DInv, IInv, TypeOK, LPN, PagesLeft
<1>3. Contents' = Contents
  BY <1>1, SameContents
<1>4. Phase = "read" /\ Todo = lpn .. endLpn
  BY <1>1, PhaseCases
<1>5. /\ Phase' = IF lpn < endLpn THEN "read" ELSE "answered"
      /\ Todo' = IF lpn < endLpn THEN lpn' .. endLpn' ELSE {}
  BY <1>1 DEF Phase, Todo, Writing, Collecting
<1>6. Todo' = Todo \ {lpn} /\ (Todo' = {} <=> ~ (lpn < endLpn))
  BY <1>1, <1>2, <1>4, <1>5, TodoShrinks
<1>7. Disk!NextPage(lpn)
  BY <1>1, NextPageIsLpn
<1> QED
  BY <1>3, <1>4, <1>5, <1>6, <1>7 DEF Disk!ReadPage, Disk!Serve

\* A page that maps a logical page is neither under the write pointer nor
\* the one being replaced, and no two logical pages share one.
LEMMA MappedPages ==
    ASSUME DInv, pc # "aborted", NEW l \in LPN, Mapped(l), ~ InFlight(l)
    PROVE  /\ maptbl[l] \in Ppa /\ maptbl[l] # wp
           /\ pgStatus[maptbl[l]] = "valid" /\ ~ Moved(maptbl[l])
           /\ rmap[maptbl[l]] = l
<1>1. Live(maptbl[l]) /\ rmap[maptbl[l]] = l
  BY DEF DInv, IInv, MappingCoherent
<1>2. maptbl[l] \in Ppa
  BY DEF DInv, IInv, TypeOK, Mapped
<1>3. pgStatus[wp] = "free"
  BY WpErased DEF DInv
<1> QED
  BY <1>1, <1>2, <1>3 DEF Live

\* A write puts its data into its page and no other.
LEMMA HostWriteContents ==
    ASSUME DInv, ProgramPage, NEW v \in Values,
           Program(v, IF Mapped(lpn) THEN maptbl[lpn] ELSE wp)
    PROVE  Contents' = [Contents EXCEPT ![lpn] = v]
<1> DEFINE old == IF Mapped(lpn) THEN maptbl[lpn] ELSE wp
<1>1. /\ pc = "program" /\ lpn \in LPN
      /\ maptbl' = [maptbl EXCEPT ![lpn] = wp]
      /\ maptbl \in [LPN -> Ppa \cup {UNMAPPED_PPA}]
      /\ data \in [Ppa -> Values \cup {Blank}]
  BY DEF ProgramPage, WritePage, DInv, IInv, TypeOK, DataType
<1>2. wp \in Ppa /\ pgStatus[wp] = "free"
  BY <1>1, WpErased DEF DInv
<1>3. old = wp \/ pgStatus[old] = "invalid"
  BY <1>1 DEF DInv, StaleOld
<1>4. data' = [data EXCEPT ![old] = Blank, ![wp] = v]
  BY DEF Program
<1> HIDE DEF old
<1>5. ASSUME NEW l \in LPN, l # lpn, Mapped(l)
      PROVE  Mapped(l)' /\ data'[maptbl'[l]] = data[maptbl[l]]
  <2>1. /\ maptbl[l] \in Ppa /\ maptbl[l] # wp
        /\ pgStatus[maptbl[l]] = "valid"
    BY <1>1, <1>5, MappedPages DEF InFlight
  <2>2. maptbl[l] # old
    BY <1>3, <2>1
  <2>3. maptbl'[l] = maptbl[l]
    BY <1>1, <1>5
  <2> QED
    BY <1>1, <1>4, <1>5, <2>1, <2>2, <2>3 DEF Mapped
<1>6. ASSUME NEW l \in LPN, l # lpn, ~ Mapped(l) PROVE ~ Mapped(l)'
  BY <1>1, <1>6 DEF Mapped
<1>7. maptbl'[lpn] # UNMAPPED_PPA /\ data'[maptbl'[lpn]] = v
  <2>1. maptbl'[lpn] = wp /\ wp # UNMAPPED_PPA
    BY <1>1, <1>2, NullAssumption
  <2>2. data'[wp] = v
    BY <1>1, <1>2, <1>4
  <2> QED
    BY <2>1, <2>2
<1>8. ASSUME NEW l \in LPN
      PROVE  Contents'[l] = IF l = lpn THEN v ELSE Contents[l]
  <2>1. CASE l = lpn
    BY <1>7, <2>1 DEF Contents, Mapped
  <2>2. CASE l # lpn /\ Mapped(l)
    BY <1>5, <2>2 DEF Contents, Mapped
  <2>3. CASE l # lpn /\ ~ Mapped(l)
    BY <1>6, <2>3 DEF Contents, Mapped
  <2> QED
    BY <2>1, <2>2, <2>3
<1> QED
  BY <1>1, <1>8 DEF Contents

\* One iteration of ssd_write writes the next page, and may end the emulator.
LEMMA HostWriteRefines ==
    DInv /\ HostWrite => Disk!WritePage(lpn) \/ Disk!Stop
<1> SUFFICES ASSUME DInv, HostWrite PROVE Disk!WritePage(lpn) \/ Disk!Stop
  OBVIOUS
<1>1. PICK v \in Values : Program(v, IF Mapped(lpn) THEN maptbl[lpn] ELSE wp)
  BY DEF HostWrite
<1>2. /\ ProgramPage /\ pc = "program" /\ NextLpn
      /\ pc' = IF Aborts THEN "aborted" ELSE IF lpn < endLpn THEN "invalidate" ELSE "complete"
  BY DEF HostWrite, ProgramPage, WritePage
<1>3. Contents' = [Contents EXCEPT ![lpn] = v]
  BY <1>1, <1>2, HostWriteContents
<1>4. Writing
  BY <1>2 DEF Writing
<1>5. Phase = "write" /\ Todo = lpn .. endLpn
  BY <1>4, PhaseCases
<1>6. lpn \in 0 .. NumLpns - 1 /\ Disk!NextPage(lpn)
  BY <1>4, NextPageIsLpn
<1>7. CASE Aborts
  <2>1. Phase' = "stopped" /\ Todo' = {}
    BY <1>2, <1>7 DEF Phase, Todo, Writing, Collecting
  <2> QED
    BY <1>3, <1>5, <1>6, <2>1 DEF Disk!Stop, Disk!Pages
<1>8. CASE ~ Aborts
  <2>1. lpn \in Int /\ endLpn \in Int /\ lpn <= endLpn
    BY <1>4 DEF DInv, IInv, TypeOK, LPN, PagesLeft
  <2>2. /\ Phase' = IF lpn < endLpn THEN "write" ELSE "answered"
        /\ Todo' = IF lpn < endLpn THEN lpn' .. endLpn' ELSE {}
    BY <1>2, <1>8 DEF Phase, Todo, Writing, Collecting
  <2>3. Todo' = Todo \ {lpn} /\ (Todo' = {} <=> ~ (lpn < endLpn))
    BY <1>2, <1>5, <2>1, <2>2, TodoShrinks
  <2> QED
    BY <1>3, <1>5, <1>6, <2>2, <2>3 DEF Disk!WritePage, Disk!Serve
<1> QED
  BY <1>7, <1>8

\* gc_write_page moves a page's data along with its mapping.
LEMMA GcMoveContents == DInv /\ GcMove => Contents' = Contents
<1> SUFFICES ASSUME DInv, GcMove PROVE Contents' = Contents
  OBVIOUS
<1> DEFINE r == rmap[gcPpa]
<1>1. /\ pc = "gc_page" /\ pgStatus[gcPpa] = "valid" /\ gcPpa \in Ppa
      /\ maptbl' = [maptbl EXCEPT ![r] = wp]
      /\ data' = [data EXCEPT ![gcPpa] = Blank, ![wp] = data[gcPpa]]
      /\ maptbl \in [LPN -> Ppa \cup {UNMAPPED_PPA}]
      /\ data \in [Ppa -> Values \cup {Blank}]
  BY DEF GcMove, GcCopyPage, WritePage, Program, DInv, IInv, TypeOK, DataType
<1>2. wp \in Ppa
  BY <1>1, WpErased DEF DInv
<1>3. r \in LPN /\ maptbl[r] = gcPpa
  <2>1. ~ Moved(gcPpa)
    BY <1>1 DEF Moved, Ppa, Pgs
  <2> QED
    BY <1>1, <2>1 DEF Live, DInv, IInv, MappingCoherent
<1> HIDE DEF r
<1>4. ASSUME NEW l \in LPN, l # r, Mapped(l)
      PROVE  Mapped(l)' /\ data'[maptbl'[l]] = data[maptbl[l]]
  <2>1. /\ maptbl[l] \in Ppa /\ maptbl[l] # wp
        /\ rmap[maptbl[l]] = l
    BY <1>1, <1>4, MappedPages DEF InFlight
  <2>2. maptbl[l] # gcPpa
    BY <1>4, <2>1 DEF r
  <2>3. maptbl'[l] = maptbl[l]
    BY <1>1, <1>4
  <2> QED
    BY <1>1, <1>4, <2>1, <2>2, <2>3 DEF Mapped
<1>5. ASSUME NEW l \in LPN, l # r, ~ Mapped(l) PROVE ~ Mapped(l)'
  BY <1>1, <1>5 DEF Mapped
<1>6. /\ maptbl[r] # UNMAPPED_PPA /\ maptbl'[r] # UNMAPPED_PPA
      /\ data'[maptbl'[r]] = data[maptbl[r]]
  <2>1. maptbl'[r] = wp /\ wp # UNMAPPED_PPA /\ gcPpa # UNMAPPED_PPA
    BY <1>1, <1>2, <1>3, NullAssumption
  <2>2. data'[wp] = data[gcPpa]
    BY <1>1, <1>2
  <2> QED
    BY <1>3, <2>1, <2>2
<1>7. ASSUME NEW l \in LPN PROVE Contents'[l] = Contents[l]
  <2>1. CASE l = r
    BY <1>6, <2>1 DEF Contents, Mapped
  <2>2. CASE l # r /\ Mapped(l)
    BY <1>4, <2>2 DEF Contents, Mapped
  <2>3. CASE l # r /\ ~ Mapped(l)
    BY <1>5, <2>3 DEF Contents, Mapped
  <2> QED
    BY <2>1, <2>2, <2>3
<1> QED
  BY <1>7 DEF Contents

\* A collection is part of the write that forced it, or comes after the answer.
LEMMA CollectingPhase ==
    ASSUME Collecting, Collecting', gcForce \in BOOLEAN, UNCHANGED <<lpn, endLpn, gcForce>>
    PROVE  Phase' = Phase /\ Todo' = Todo
<1>1. CASE gcForce
  <2>1. Writing /\ Writing'
    BY <1>1 DEF Writing
  <2> QED
    BY <2>1 DEF Phase, Todo
<1>2. CASE ~ gcForce
  <2>1. Phase = "answered" /\ Todo = {}
    BY <1>2, PhaseCases
  <2>2. Phase' = "answered" /\ Todo' = {}
    BY <1>2 DEF Phase, Todo, Writing, Collecting
  <2> QED
    BY <2>1, <2>2
<1> QED
  BY <1>1, <1>2

\* gc_write_page is invisible, unless it ends the emulator.
LEMMA GcMoveRefines == DInv /\ GcMove => UNCHANGED Disk!vars \/ Disk!Stop
<1> SUFFICES ASSUME DInv, GcMove PROVE UNCHANGED Disk!vars \/ Disk!Stop
  OBVIOUS
<1>1. Contents' = Contents
  BY GcMoveContents
<1>2. /\ Collecting /\ gcForce \in BOOLEAN /\ UNCHANGED <<lpn, endLpn, gcForce>>
      /\ pc' = IF Aborts THEN "aborted" ELSE AfterGcPage
  BY DEF GcMove, GcCopyPage, WritePage, Collecting, reqVars, DInv, IInv, TypeOK
<1>3. CASE Aborts
  <2>1. Phase' = "stopped" /\ Todo' = {}
    BY <1>2, <1>3 DEF Phase, Todo, Writing, Collecting
  <2> QED
    BY <1>1, <2>1 DEF Disk!Stop
<1>4. CASE ~ Aborts
  <2>1. Collecting'
    BY <1>2, <1>4 DEF Collecting, AfterGcPage
  <2> QED
    BY <1>1, <1>2, <2>1, CollectingPhase DEF Disk!vars
<1> QED
  BY <1>3, <1>4

\* mark_block_free destroys no data that is still mapped.
LEMMA EraseRefines == DInv /\ Erase => UNCHANGED Disk!vars
<1> SUFFICES ASSUME DInv, Erase PROVE UNCHANGED Disk!vars
  OBVIOUS
<1>1. /\ pc = "gc_erase" /\ maptbl' = maptbl
      /\ data' = [p \in Ppa |-> IF BlkOf(p) = BlkOf(gcPpa) THEN Blank ELSE data[p]]
  BY DEF Erase, GcEraseBlock, mapVars
<1>2. ASSUME NEW l \in LPN, Mapped(l) PROVE data'[maptbl[l]] = data[maptbl[l]]
  <2>1. maptbl[l] \in Ppa /\ ~ Moved(maptbl[l])
    BY <1>1, <1>2, MappedPages DEF InFlight
  <2> QED
    BY <1>1, <2>1 DEF Moved, Collecting
<1>3. Contents' = Contents
  BY <1>1, <1>2, SameContents
<1>4. /\ Collecting /\ Collecting' /\ gcForce \in BOOLEAN
      /\ UNCHANGED <<lpn, endLpn, gcForce>>
  BY DEF Erase, GcEraseBlock, Collecting, reqVars, DInv, IInv, TypeOK
<1> QED
  BY <1>3, <1>4, CollectingPhase DEF Disk!vars

\* Leaving a collection returns to the write that forced it, or to the rings.
LEMMA GcFreeLineRefines ==
    DInv /\ GcFreeLine /\ UNCHANGED data => UNCHANGED Disk!vars \/ Disk!Finish
<1> SUFFICES ASSUME DInv, GcFreeLine, UNCHANGED data PROVE UNCHANGED Disk!vars \/ Disk!Finish
  OBVIOUS
<1>1. /\ pc = "gc_free" /\ maptbl' = maptbl /\ gcForce \in BOOLEAN
      /\ pc' = IF gcForce THEN "gc_high" ELSE "idle"
      /\ UNCHANGED <<lpn, endLpn, gcForce>>
  BY DEF GcFreeLine, mapVars, reqVars, DInv, IInv, TypeOK
<1>2. Contents' = Contents
  BY <1>1, SameContents
<1>3. CASE gcForce
  BY <1>1, <1>2, <1>3 DEF Disk!vars, Phase, Todo, Writing, Collecting
<1>4. CASE ~ gcForce
  <2>1. Phase = "answered" /\ Todo = {}
    BY <1>1, <1>4, PhaseCases DEF Collecting
  <2>2. Phase' = "idle" /\ Todo' = {}
    BY <1>1, <1>4 DEF Phase, Todo, Writing, Collecting
  <2> QED
    BY <1>2, <2>1, <2>2 DEF Disk!Finish
<1> QED
  BY <1>3, <1>4

\* ftl_thread goes back to its rings: the request is finished.
LEMMA BackgroundGcDoneRefines ==
    DInv /\ BackgroundGcDone /\ UNCHANGED data => Disk!Finish
<1> SUFFICES ASSUME DInv, BackgroundGcDone, UNCHANGED data PROVE Disk!Finish
  OBVIOUS
<1>1. pc = "complete" /\ pc' = "idle" /\ maptbl' = maptbl
  BY DEF BackgroundGcDone, Goto, mapVars
<1>2. Contents' = Contents
  BY <1>1, SameContents
<1>3. Phase = "answered" /\ Todo = {}
  BY <1>1, PhaseCases
<1>4. Phase' = "idle" /\ Todo' = {}
  BY <1>1 DEF Phase, Todo, Writing, Collecting
<1> QED
  BY <1>2, <1>3, <1>4 DEF Disk!Finish

\* The other steps of the tables are invisible.
LEMMA TableStepStutters ==
    ASSUME DInv, UNCHANGED data,
           \/ ForegroundGcDone \/ ForegroundGc \/ InvalidateOld
           \/ BackgroundGc \/ GcSkipPage
    PROVE  UNCHANGED Disk!vars
<1>1. maptbl' = maptbl
  BY DEF ForegroundGcDone, ForegroundGc, InvalidateOld, BackgroundGc, GcSkipPage,
     SelectVictim, mapVars
<1>2. Contents' = Contents
  BY <1>1, SameContents
<1>3. UNCHANGED <<lpn, endLpn>>
  BY DEF ForegroundGcDone, ForegroundGc, InvalidateOld, BackgroundGc, GcSkipPage,
     SelectVictim, reqVars
<1>4. CASE ForegroundGcDone \/ ForegroundGc \/ InvalidateOld
  <2>1. Writing /\ Writing'
    BY <1>4 DEF ForegroundGcDone, ForegroundGc, InvalidateOld, SelectVictim, Writing, Collecting
  <2> QED
    BY <1>2, <1>3, <2>1 DEF Disk!vars, Phase, Todo
<1>5. CASE BackgroundGc
  <2>1. pc = "complete" /\ pc' = "gc_page" /\ gcForce' = FALSE
    BY <1>5 DEF BackgroundGc, SelectVictim
  <2>2. Phase = "answered" /\ Todo = {}
    BY <2>1, PhaseCases
  <2>3. Phase' = "answered" /\ Todo' = {}
    BY <2>1 DEF Phase, Todo, Writing, Collecting
  <2> QED
    BY <1>2, <2>2, <2>3 DEF Disk!vars
<1>6. CASE GcSkipPage
  <2>1. Collecting /\ Collecting' /\ gcForce' = gcForce /\ gcForce \in BOOLEAN
    BY <1>6 DEF GcSkipPage, AfterGcPage, Collecting, DInv, IInv, TypeOK
  <2> QED
    BY <1>2, <1>3, <2>1, CollectingPhase DEF Disk!vars
<1> QED
  BY <1>4, <1>5, <1>6

\* The cases together.
LEMMA DiskStepRefines == DInv /\ TypeOK' /\ [DiskNext]_diskVars => [Disk!Next]_Disk!vars
<1> SUFFICES ASSUME DInv, TypeOK', [DiskNext]_diskVars PROVE [Disk!Next]_Disk!vars
  OBVIOUS
<1>1. CASE HostWrite
  <2>1. lpn \in Disk!Pages
    BY DEF DInv, IInv, TypeOK, LPN, Disk!Pages
  <2> QED
    BY <1>1, <2>1, HostWriteRefines DEF Disk!Next
<1>2. CASE GcMove
  BY <1>2, GcMoveRefines DEF Disk!Next
<1>3. CASE Erase
  BY <1>3, EraseRefines
<1>4. CASE TablesOnly
  <2>1. UNCHANGED data
    BY <1>4 DEF TablesOnly
  <2>2. CASE Recv
    BY <2>1, <2>2, RecvRefines DEF Disk!Next
  <2>3. CASE ReadPage
    <3>1. lpn \in Disk!Pages
      BY DEF DInv, IInv, TypeOK, LPN, Disk!Pages
    <3> QED
      BY <2>1, <2>3, <3>1, ReadPageRefines DEF Disk!Next
  <2>4. CASE ForegroundGcDone \/ ForegroundGc \/ InvalidateOld \/ BackgroundGc \/ GcSkipPage
    BY <2>1, <2>4, TableStepStutters
  <2>5. CASE BackgroundGcDone
    BY <2>1, <2>5, BackgroundGcDoneRefines DEF Disk!Next
  <2>6. CASE GcFreeLine
    BY <2>1, <2>6, GcFreeLineRefines DEF Disk!Next
  <2> QED
    BY <1>4, <2>2, <2>3, <2>4, <2>5, <2>6 DEF TablesOnly
<1>5. CASE UNCHANGED diskVars
  <2>1. UNCHANGED <<maptbl, data, pc, lpn, endLpn, gcForce>>
    BY <1>5 DEF diskVars, vars, mapVars, reqVars, gcVars
  <2>2. UNCHANGED <<Contents, Phase, Todo>>
    BY <2>1 DEF Contents, Mapped, Phase, Todo, Writing, Collecting
  <2> QED
    BY <2>2 DEF Disk!vars
<1> QED
  BY <1>1, <1>2, <1>3, <1>4, <1>5 DEF DiskNext

\* ssd_init: a drive of blank pages.
LEMMA DiskInitRefines == DiskInit => Disk!Init
<1> SUFFICES ASSUME DiskInit PROVE Disk!Init
  OBVIOUS
<1>1. pc = "idle" /\ maptbl = [l \in LPN |-> UNMAPPED_PPA]
  BY DEF DiskInit, Init, InitMapping
<1>2. Contents = [p \in Disk!Pages |-> Blank]
  BY <1>1 DEF Contents, Mapped, Disk!Pages, LPN
<1> QED
  BY <1>1, <1>2, PhaseCases DEF Disk!Init

\* Whatever the tables, the lines and garbage collection are doing, looking a
\* logical page up in maptbl finds what the host last wrote there, a request
\* touches its own pages once each and in order, and collections are invisible
\* (ssd_read ftl.c:832-866, ssd_write 868-921, do_gc 786-830): on every drive.
THEOREM DriveIsLogicalDisk == DiskSpec => ImplementsLogicalDisk
<1>1. DInv => TypeOK
  BY DEF DInv, IInv
<1> QED
  BY <1>1, DiskInitRefines, DiskStepRefines, DiskInductive, PTL
     DEF DiskSpec, ImplementsLogicalDisk, Disk!Spec
=============================================================================
