---------------------------- MODULE FTL_proofs ----------------------------
(***************************************************************************)
(* The safety of FTL's mapping and line management, for every geometry,    *)
(* host and threshold.  IInv of FTL is inductive: the mapping can only be  *)
(* kept coherent because pages are programmed where they are erased, which *)
(* needs the roles of the lines, which in turn are chosen by the counters. *)
(* The types come first, since every other proof needs them.               *)
(***************************************************************************)
EXTENDS FTL, SequenceTheorems, TLAPS

\* The sector range of an accepted request stays within the logical pages
\* (start_lpn and end_lpn of ssd_read and ssd_write).
LEMMA LpnOfSector ==
    ASSUME NEW n \in Nat, NEW s \in Nat \ {0}, NEW a \in Nat, a < n * s
    PROVE  a \div s \in 0 .. n - 1
<1> DEFINE q == a \div s
<1>1. q \in Nat /\ s * q <= a
  OBVIOUS
<1>2. ~ (q >= n)
  <2> SUFFICES ASSUME q >= n PROVE FALSE
    OBVIOUS
  <2> HIDE DEF q
  <2>1. PICK d \in Nat : q = n + d
    <3>1. q - n \in Nat /\ q = n + (q - n)
      BY <1>1
    <3> QED
      BY <3>1
  <2>2. s * q = n * s + s * d
    BY <1>1, <2>1
  <2>3. s * d >= 0
    OBVIOUS
  <2> QED
    BY <1>1, <2>2, <2>3
<1> QED
  BY <1>1, <1>2

\* The first page of a line, where the write pointer and do_gc start.
LEMMA FirstPpaType == \A l \in Lines : FirstPpa(l) \in Ppa
BY GeometryAssumption DEF FirstPpa, PpaAt, Ppa, Lines, Pgs, Luns, Chs

\* get_blk.
LEMMA BlkOfType == \A p \in Ppa : BlkOf(p) \in Blk
BY DEF BlkOf, Ppa, Blk

\* ssd_advance_write_pointer stays within the line it is in.
LEMMA NextInLineType ==
    \A p \in Ppa : ~ LastOfLine(p) => NextInLine(p) \in Ppa /\ NextInLine(p).blk = p.blk
<1> SUFFICES ASSUME NEW p \in Ppa, ~ LastOfLine(p)
             PROVE  NextInLine(p) \in Ppa /\ NextInLine(p).blk = p.blk
  OBVIOUS
<1>1. p.ch \in Chs /\ p.lun \in Luns /\ p.pg \in Pgs
  BY DEF Ppa
<1>2. CASE p.ch < NChs - 1
  BY <1>1, <1>2, GeometryAssumption DEF NextInLine, PpaAt, Ppa, Chs
<1>3. CASE ~ (p.ch < NChs - 1) /\ p.lun < LunsPerCh - 1
  BY <1>1, <1>3, GeometryAssumption DEF NextInLine, PpaAt, Ppa, Chs, Luns
<1>4. CASE ~ (p.ch < NChs - 1) /\ ~ (p.lun < LunsPerCh - 1)
  BY <1>1, <1>4, GeometryAssumption DEF LastOfLine, NextInLine, PpaAt, Ppa, Chs, Luns, Pgs
<1> QED
  BY <1>2, <1>3, <1>4

\* do_gc stays within its line.
LEMMA NextBlockType ==
    \A p \in Ppa : ~ LastBlock(p) => NextBlock(p) \in Ppa /\ NextBlock(p).blk = p.blk
BY GeometryAssumption DEF LastBlock, NextBlock, PpaAt, Ppa, Pgs, Luns, Chs

\* pqueue_insert and pqueue_pop keep the queue a set of lines with integer keys.
LEMMA PqInsertType ==
    ASSUME NEW pq, IsPq(pq), NEW l \in Lines, NEW k \in Int
    PROVE  DOMAIN PqInsert(pq, l, k) = DOMAIN pq \cup {l} /\ IsPq(PqInsert(pq, l, k))
BY DEF PqInsert, IsPq

\* pqueue_pop.
LEMMA PqRemoveType ==
    ASSUME NEW pq, IsPq(pq), NEW l \in Lines
    PROVE  DOMAIN PqRemove(pq, l) = DOMAIN pq \ {l} /\ IsPq(PqRemove(pq, l))
BY DEF PqRemove, IsPq

\* mark_page_invalid keeps the types of the page, block and line records.
LEMMA MarkPageInvalidType ==
    ASSUME TypeOK, NEW p \in Ppa, MarkPageInvalid(p)
    PROVE  /\ pgStatus' \in [Ppa -> PageStatus]
           /\ blkIpc' \in [Blk -> Int] /\ blkVpc' \in [Blk -> Int]
           /\ lineIpc' \in [Lines -> Int] /\ lineVpc' \in [Lines -> Int]
           /\ linePos' \in [Lines -> BOOLEAN]
           /\ IsPq(victimPq')
           /\ freeList' \in Seq(Lines) /\ freeCnt' \in Int /\ fullList' \subseteq Lines
<1> DEFINE vpc == lineVpc[p.blk] - 1
<1>1. p.blk \in Lines /\ vpc \in Int
  BY DEF TypeOK, Ppa
<1>2. /\ pgStatus' \in [Ppa -> PageStatus]
      /\ blkIpc' \in [Blk -> Int] /\ blkVpc' \in [Blk -> Int]
  BY BlkOfType DEF TypeOK, MarkPageInvalid, PageStatus
<1>3. lineIpc' \in [Lines -> Int] /\ lineVpc' \in [Lines -> Int]
  BY <1>1 DEF TypeOK, MarkPageInvalid
<1>4. CASE lineVpc[p.blk] = PgsPerLine
  <2>1. victimPq' = PqInsert(victimPq, p.blk, vpc)
    BY <1>4 DEF MarkPageInvalid
  <2>2. IsPq(victimPq)
    BY DEF TypeOK
  <2>3. IsPq(PqInsert(victimPq, p.blk, vpc))
    <3> HIDE DEF vpc
    <3> QED
      BY <1>1, <2>2, PqInsertType
  <2> QED
    BY <1>1, <1>2, <1>3, <1>4, <2>1, <2>3 DEF TypeOK, MarkPageInvalid
<1>5. CASE lineVpc[p.blk] # PgsPerLine
  <2>1. IsPq(victimPq')
    BY <1>1, <1>5 DEF TypeOK, MarkPageInvalid, IsPq
  <2> QED
    BY <1>2, <1>3, <1>5, <2>1 DEF TypeOK, MarkPageInvalid
<1> QED
  BY <1>4, <1>5

\* So does writing a page, for user data and for a copy alike.
LEMMA WritePageType ==
    ASSUME TypeOK, NEW l \in LPN \cup {INVALID_LPN}, NEW then, WritePage(l, then)
    PROVE  /\ maptbl' \in [LPN -> Ppa \cup {UNMAPPED_PPA}]
           /\ rmap' \in [Ppa -> LPN \cup {INVALID_LPN}]
           /\ pgStatus' \in [Ppa -> PageStatus]
           /\ blkIpc' \in [Blk -> Int] /\ blkVpc' \in [Blk -> Int]
           /\ lineIpc' \in [Lines -> Int] /\ lineVpc' \in [Lines -> Int]
           /\ linePos' \in [Lines -> BOOLEAN]
           /\ IsPq(victimPq')
           /\ freeList' \in Seq(Lines) /\ freeCnt' \in Int /\ fullList' \subseteq Lines
           /\ wp' \in Ppa
           /\ pc' \in {"aborted", then}
<1> DEFINE v == lineVpc[wp.blk] + 1
<1>1. wp \in Ppa /\ wp.blk \in Lines /\ v \in Int
  BY DEF TypeOK, Ppa
<1>2. /\ maptbl' \in [LPN -> Ppa \cup {UNMAPPED_PPA}]
      /\ rmap' \in [Ppa -> LPN \cup {INVALID_LPN}]
      /\ pc' \in {"aborted", then}
  BY <1>1 DEF TypeOK, WritePage
<1>3. /\ pgStatus' \in [Ppa -> PageStatus]
      /\ blkIpc' \in [Blk -> Int] /\ blkVpc' \in [Blk -> Int]
      /\ lineIpc' \in [Lines -> Int] /\ lineVpc' \in [Lines -> Int]
  BY <1>1, BlkOfType DEF TypeOK, WritePage, MarkPageValid, PageStatus
<1>4. AdvanceWritePointer(v)
  BY DEF WritePage
<1>5. /\ linePos' \in [Lines -> BOOLEAN]
      /\ IsPq(victimPq')
      /\ fullList' \subseteq Lines
  <2>1. CASE ~ LastOfLine(wp)
    BY <1>4, <2>1 DEF TypeOK, AdvanceWritePointer, IsPq
  <2>2. CASE LastOfLine(wp)
    <3>1. FileLine(wp.blk, v)
      BY <1>4, <2>2 DEF AdvanceWritePointer
    <3>2. IsPq(victimPq)
      BY DEF TypeOK
    <3>3. IsPq(victimPq')
      <4>1. victimPq' = victimPq \/ victimPq' = PqInsert(victimPq, wp.blk, v)
        BY <3>1 DEF FileLine
      <4>2. IsPq(PqInsert(victimPq, wp.blk, v))
        <5> HIDE DEF v
        <5> QED
          BY <1>1, <3>2, PqInsertType
      <4> QED
        BY <3>2, <4>1, <4>2
    <3> QED
      BY <1>1, <3>1, <3>3 DEF TypeOK, FileLine
  <2> QED
    BY <2>1, <2>2
<1>6. wp' \in Ppa /\ freeList' \in Seq(Lines) /\ freeCnt' \in Int
  <2>1. CASE ~ LastOfLine(wp)
    BY <1>1, <1>4, <2>1, NextInLineType DEF TypeOK, AdvanceWritePointer
  <2>2. CASE LastOfLine(wp) /\ NoFreeLine
    BY <1>1, <1>4, <2>2, FirstPpaType DEF TypeOK, AdvanceWritePointer
  <2>3. CASE LastOfLine(wp) /\ ~ NoFreeLine
    <3>1. Head(freeList) \in Lines /\ Tail(freeList) \in Seq(Lines)
      <4>1. freeList \in Seq(Lines) /\ freeList # << >>
        BY <2>3 DEF TypeOK, NoFreeLine
      <4> QED
        BY <4>1, HeadTailProperties
    <3>2. wp' = FirstPpa(Head(freeList)) /\ freeList' = Tail(freeList) /\ freeCnt' = freeCnt - 1
      BY <1>4, <2>3 DEF AdvanceWritePointer
    <3> QED
      BY <3>1, <3>2, FirstPpaType DEF TypeOK
  <2> QED
    BY <2>1, <2>2, <2>3
<1> QED
  BY <1>2, <1>3, <1>5, <1>6

\* ssd_init leaves everything in its type.
LEMMA TypeInit == Init => TypeOK
<1> SUFFICES ASSUME Init PROVE TypeOK
  OBVIOUS
<1> USE DEF InitMapping, InitNand, InitLines, InitWritePointer
<1>1. FirstPpa(0) \in Ppa /\ 0 \in LPN
  BY FirstPpaType, GeometryAssumption, HostAssumption DEF Lines, LPN
<1>2. freeList \in Seq(Lines) /\ freeCnt \in Int
  <2>1. TtLines - 1 \in Nat /\ \A i \in 1 .. TtLines - 1 : i \in Lines
    BY GeometryAssumption DEF Lines
  <2> QED
    BY <2>1, IsASeq DEF Init
<1>3. IsPq(victimPq)
  BY DEF Init, IsPq
<1>4. /\ maptbl \in [LPN -> Ppa \cup {UNMAPPED_PPA}]
      /\ rmap \in [Ppa -> LPN \cup {INVALID_LPN}]
      /\ pgStatus \in [Ppa -> PageStatus]
  BY DEF Init, PageStatus
<1>5. /\ blkIpc \in [Blk -> Int]
      /\ blkVpc \in [Blk -> Int]
      /\ lineIpc \in [Lines -> Int]
      /\ lineVpc \in [Lines -> Int]
      /\ linePos \in [Lines -> BOOLEAN]
  BY DEF Init
<1>6. fullList \subseteq Lines /\ wp \in Ppa /\ gcPpa \in Ppa /\ lpn \in LPN /\ endLpn \in LPN
  BY <1>1 DEF Init
<1> QED
  BY <1>2, <1>3, <1>4, <1>5, <1>6 DEF Init, TypeOK

\* Every step does.
LEMMA TypeStep == TypeOK /\ [Next]_vars => TypeOK'
<1> SUFFICES ASSUME TypeOK, [Next]_vars PROVE TypeOK'
  OBVIOUS
<1> USE DEF mapVars, nandVars, lineVars, reqVars, gcVars
<1>1. CASE UNCHANGED vars
  BY <1>1 DEF TypeOK, vars
<1>2. ASSUME NEW slba \in 0 .. NumLpns * SecsPerPg - 1, NEW nlb \in 1 .. MaxNlb,
             NEW label \in {"gc_high", "read"}, Accept(slba, nlb, label)
      PROVE  TypeOK'
  <2>1. slba \in Nat /\ slba + nlb - 1 \in Nat
    BY HostAssumption
  <2>2. slba < NumLpns * SecsPerPg /\ slba + nlb - 1 < NumLpns * SecsPerPg
    <3>1. NumLpns * SecsPerPg \in Nat
      BY HostAssumption
    <3> QED
      BY <1>2, <3>1, HostAssumption DEF Accept
  <2>3. slba \div SecsPerPg \in LPN /\ (slba + nlb - 1) \div SecsPerPg \in LPN
    BY <2>1, <2>2, LpnOfSector, HostAssumption DEF LPN
  <2> QED
    BY <1>2, <2>3 DEF Accept, TypeOK
<1>3. CASE RecvOther \/ BackgroundGcDone
  BY <1>3 DEF RecvOther, BackgroundGcDone, Goto, TypeOK
<1>4. ASSUME NextLpn PROVE lpn' \in LPN /\ endLpn' \in LPN
  BY <1>4, HostAssumption DEF NextLpn, TypeOK, LPN
<1>5. CASE ReadPage
  BY <1>4, <1>5 DEF ReadPage, TypeOK
<1>6. CASE ForegroundGcDone
  BY <1>6 DEF ForegroundGcDone, TypeOK
<1>7. ASSUME NEW force \in BOOLEAN, SelectVictim(force) PROVE TypeOK'
  <2>1. PICK v \in PqPeek :
            /\ victimPq' = PqRemove(victimPq, v)
            /\ linePos' = [linePos EXCEPT ![v] = FALSE]
            /\ gcPpa' = FirstPpa(v)
    BY <1>7 DEF SelectVictim
  <2>2. v \in Lines
    BY DEF PqPeek, TypeOK, IsPq
  <2>3. IsPq(victimPq') /\ gcPpa' \in Ppa
    BY <2>1, <2>2, PqRemoveType, FirstPpaType DEF TypeOK
  <2> QED
    BY <1>7, <2>1, <2>3 DEF SelectVictim, TypeOK
<1>8. CASE InvalidateOld
  <2>1. CASE Mapped(lpn)
    <3>1. maptbl[lpn] \in Ppa /\ MarkPageInvalid(maptbl[lpn])
      BY <1>8, <2>1 DEF InvalidateOld, Mapped, TypeOK
    <3>2. rmap' \in [Ppa -> LPN \cup {INVALID_LPN}]
      BY <1>8, <2>1, <3>1 DEF InvalidateOld, TypeOK
    <3> QED
      BY <1>8, <3>1, <3>2, MarkPageInvalidType DEF InvalidateOld, TypeOK
  <2>2. CASE ~ Mapped(lpn)
    BY <1>8, <2>2 DEF InvalidateOld, TypeOK
  <2> QED
    BY <2>1, <2>2
<1>9. CASE ProgramPage
  <2>1. PICK then \in {"invalidate", "complete"} : WritePage(lpn, then)
    BY <1>9 DEF ProgramPage
  <2>2. lpn \in LPN \cup {INVALID_LPN}
    BY DEF TypeOK
  <2>3. lpn' \in LPN /\ endLpn' \in LPN /\ UNCHANGED gcVars
    BY <1>4, <1>9 DEF ProgramPage
  <2> QED
    BY <2>1, <2>2, <2>3, WritePageType DEF TypeOK
<1>10. ASSUME GcNextPage PROVE gcPpa' \in Ppa
  BY <1>10, GeometryAssumption DEF GcNextPage, TypeOK, Ppa, PpaAt, Pgs
<1>11. CASE GcCopyPage
  <2>1. PICK then \in {"gc_page", "gc_erase"} : WritePage(rmap[gcPpa], then)
    BY <1>11 DEF GcCopyPage, AfterGcPage
  <2>2. rmap[gcPpa] \in LPN \cup {INVALID_LPN}
    BY DEF TypeOK
  <2>3. gcPpa' \in Ppa /\ UNCHANGED <<reqVars, gcForce>>
    BY <1>10, <1>11 DEF GcCopyPage
  <2> QED
    BY <2>1, <2>2, <2>3, WritePageType DEF TypeOK
<1>12. CASE GcSkipPage
  BY <1>10, <1>12 DEF GcSkipPage, AfterGcPage, TypeOK
<1>13. CASE GcEraseBlock
  <2>1. gcPpa' \in Ppa
    BY <1>13, NextBlockType DEF GcEraseBlock, TypeOK
  <2>2. pgStatus' \in [Ppa -> PageStatus]
    BY <1>13 DEF GcEraseBlock, TypeOK, PageStatus
  <2>3. blkIpc' \in [Blk -> Int] /\ blkVpc' \in [Blk -> Int]
    <3>1. /\ blkIpc' = [blkIpc EXCEPT ![BlkOf(gcPpa)] = 0]
          /\ blkVpc' = [blkVpc EXCEPT ![BlkOf(gcPpa)] = 0]
      BY <1>13 DEF GcEraseBlock
    <3>2. blkIpc \in [Blk -> Int] /\ blkVpc \in [Blk -> Int] /\ BlkOf(gcPpa) \in Blk
      BY BlkOfType DEF TypeOK
    <3> QED
      BY <3>1, <3>2
  <2>4. pc' \in {"gc_free", "gc_page"}
    BY <1>13 DEF GcEraseBlock
  <2>5. UNCHANGED <<mapVars, lineVars, wp, reqVars, gcForce>>
    BY <1>13 DEF GcEraseBlock
  <2> QED
    BY <2>1, <2>2, <2>3, <2>4, <2>5 DEF TypeOK
<1>14. CASE GcFreeLine
  <2>1. gcPpa.blk \in Lines /\ gcPpa' \in Ppa
    BY <1>14, FirstPpaType, GeometryAssumption DEF GcFreeLine, TypeOK, Ppa, Lines
  <2>2. freeList' \in Seq(Lines)
    BY <1>14, <2>1, AppendProperties DEF GcFreeLine, TypeOK
  <2> QED
    BY <1>14, <2>1, <2>2 DEF GcFreeLine, TypeOK
<1> QED
  BY <1>1, <1>2, <1>3, <1>5, <1>6, <1>7, <1>8, <1>9, <1>11, <1>12, <1>13, <1>14
     DEF Next, Recv, Step, RecvWrite, RecvRead, ForegroundGc, BackgroundGc

\* Type correctness: among others, that lpn and end_lpn never leave the mapping
\* table, whatever request was accepted (ftl.c:832-846, 868-891).
THEOREM TypeCorrect == Spec => []TypeOK
BY TypeInit, TypeStep, PTL DEF Spec

-----------------------------------------------------------------------------
(* The free list *)

Elems(s)  == {s[i] : i \in DOMAIN s}
NoDup(s)  == \A i, j \in DOMAIN s : s[i] = s[j] => i = j

\* get_next_free_line takes exactly the first line out of the list.
LEMMA TailElems ==
    ASSUME NEW S, NEW s \in Seq(S), s # << >>, NoDup(s)
    PROVE  /\ Elems(Tail(s)) = Elems(s) \ {Head(s)}
           /\ NoDup(Tail(s))
           /\ Len(Tail(s)) = Len(s) - 1
           /\ Head(s) \in Elems(s)
<1> DEFINE t == Tail(s)
<1>1. /\ Len(s) \in Nat /\ Len(s) >= 1
      /\ DOMAIN s = 1 .. Len(s)
      /\ Head(s) = s[1]
  OBVIOUS
<1>2. /\ Len(t) = Len(s) - 1
      /\ DOMAIN t = 1 .. Len(t)
      /\ \A i \in 1 .. Len(t) : t[i] = s[i + 1]
  BY HeadTailProperties
<1> HIDE DEF t
<1>3. Elems(t) = Elems(s) \ {Head(s)}
  <2>1. ASSUME NEW e \in Elems(t) PROVE e \in Elems(s) /\ e # Head(s)
    <3>1. PICK i \in 1 .. Len(t) : e = t[i]
      BY <1>2 DEF Elems
    <3>2. e = s[i + 1] /\ i + 1 \in DOMAIN s /\ i + 1 # 1 /\ 1 \in DOMAIN s
      BY <1>1, <1>2, <3>1
    <3> QED
      BY <1>1, <3>2 DEF Elems, NoDup
  <2>2. ASSUME NEW e \in Elems(s), e # Head(s) PROVE e \in Elems(t)
    <3>1. PICK i \in DOMAIN s : e = s[i]
      BY DEF Elems
    <3>2. i - 1 \in 1 .. Len(t)
      BY <1>1, <1>2, <2>2, <3>1
    <3>3. t[i - 1] = e
      BY <1>1, <1>2, <3>1, <3>2
    <3> QED
      BY <1>2, <3>2, <3>3 DEF Elems
  <2> QED
    BY <2>1, <2>2
<1>4. NoDup(t)
  <2> SUFFICES ASSUME NEW i \in 1 .. Len(t), NEW j \in 1 .. Len(t), t[i] = t[j] PROVE i = j
    BY <1>2 DEF NoDup
  <2>1. i + 1 \in DOMAIN s /\ j + 1 \in DOMAIN s /\ s[i + 1] = s[j + 1]
    BY <1>1, <1>2
  <2> QED
    BY <2>1 DEF NoDup
<1>5. Head(s) \in Elems(s)
  BY <1>1 DEF Elems
<1> QED
  BY <1>2, <1>3, <1>4, <1>5 DEF t

\* mark_line_free adds exactly its line.
LEMMA AppendElems ==
    ASSUME NEW S, NEW s \in Seq(S), NEW x \in S, NoDup(s), x \notin Elems(s)
    PROVE  /\ Elems(Append(s, x)) = Elems(s) \cup {x}
           /\ NoDup(Append(s, x))
           /\ Len(Append(s, x)) = Len(s) + 1
<1> DEFINE t == Append(s, x)
<1>1. Len(s) \in Nat /\ DOMAIN s = 1 .. Len(s)
  OBVIOUS
<1>2. /\ Len(t) = Len(s) + 1
      /\ DOMAIN t = 1 .. Len(s) + 1
      /\ \A i \in 1 .. Len(s) : t[i] = s[i]
      /\ t[Len(s) + 1] = x
  BY AppendProperties
<1> HIDE DEF t
<1>3. \A i \in DOMAIN t : i \in DOMAIN s \/ i = Len(s) + 1
  BY <1>1, <1>2
<1>4. Elems(t) = Elems(s) \cup {x}
  <2>1. ASSUME NEW e \in Elems(t) PROVE e \in Elems(s) \cup {x}
    BY <1>1, <1>2, <1>3 DEF Elems
  <2>2. ASSUME NEW e \in Elems(s) PROVE e \in Elems(t)
    <3>1. PICK i \in 1 .. Len(s) : e = s[i]
      BY <1>1 DEF Elems
    <3>2. i \in DOMAIN t /\ t[i] = e
      BY <1>1, <1>2, <3>1
    <3> QED
      BY <3>2 DEF Elems
  <2>3. x \in Elems(t)
    <3>1. Len(s) + 1 \in DOMAIN t
      BY <1>1, <1>2
    <3> QED
      BY <1>2, <3>1 DEF Elems
  <2> QED
    BY <2>1, <2>2, <2>3
<1>5. NoDup(t)
  <2> SUFFICES ASSUME NEW i \in DOMAIN t, NEW j \in DOMAIN t, t[i] = t[j] PROVE i = j
    BY DEF NoDup
  <2>1. \A k \in DOMAIN s : t[k] = s[k] /\ s[k] # x
    BY <1>1, <1>2 DEF Elems
  <2> QED
    BY <1>2, <1>3, <2>1 DEF NoDup
<1> QED
  BY <1>2, <1>4, <1>5 DEF t

-----------------------------------------------------------------------------
(* The order in which ssd_advance_write_pointer visits the pages of a line *)

\* The position of a page in its line, in the order of programming.
LEMMA IndexRange == \A p \in Ppa : Index(p) \in Nat /\ Index(p) < PgsPerLine
<1> SUFFICES ASSUME NEW p \in Ppa PROVE Index(p) \in Nat /\ Index(p) < PgsPerLine
  OBVIOUS
<1> DEFINE k == p.lun + LunsPerCh * p.pg
<1>1. p.ch \in 0 .. NChs - 1 /\ p.lun \in 0 .. LunsPerCh - 1 /\ p.pg \in 0 .. PgsPerBlk - 1
  BY DEF Ppa, Chs, Luns, Pgs
<1>2. k \in Nat
  BY <1>1, GeometryAssumption
<1>3. k + 1 <= LunsPerCh * PgsPerBlk
  <2>1. LunsPerCh * p.pg + LunsPerCh <= LunsPerCh * PgsPerBlk
    <3>1. LunsPerCh * (PgsPerBlk - 1 - p.pg) >= 0
      BY <1>1, GeometryAssumption
    <3> QED
      BY <1>1, <3>1, GeometryAssumption
  <2> QED
    BY <1>1, <2>1, GeometryAssumption
<1>4. NChs * k + NChs <= NChs * (LunsPerCh * PgsPerBlk)
  <2> HIDE DEF k
  <2>1. NChs * (LunsPerCh * PgsPerBlk - 1 - k) >= 0
    BY <1>2, <1>3, GeometryAssumption
  <2> QED
    BY <1>2, <2>1, GeometryAssumption
<1>5. PgsPerLine = NChs * (LunsPerCh * PgsPerBlk) /\ Index(p) = p.ch + NChs * k
  BY GeometryAssumption DEF PgsPerLine, Index
<1>6. NChs * k \in Nat
  BY <1>2, GeometryAssumption
<1> HIDE DEF k
<1> QED
  BY <1>1, <1>4, <1>5, <1>6, GeometryAssumption

\* The write pointer starts a line at its first page,
LEMMA IndexFirst == \A l \in Lines : Index(FirstPpa(l)) = 0
BY GeometryAssumption DEF Index, FirstPpa, PpaAt

\* goes through it page by page,
LEMMA IndexNext == \A p \in Ppa : ~ LastOfLine(p) => Index(NextInLine(p)) = Index(p) + 1
<1> SUFFICES ASSUME NEW p \in Ppa, ~ LastOfLine(p) PROVE Index(NextInLine(p)) = Index(p) + 1
  OBVIOUS
<1>1. p.ch \in 0 .. NChs - 1 /\ p.lun \in 0 .. LunsPerCh - 1 /\ p.pg \in 0 .. PgsPerBlk - 1
  BY DEF Ppa, Chs, Luns, Pgs
<1>2. CASE p.ch < NChs - 1
  BY <1>1, <1>2, GeometryAssumption DEF Index, NextInLine, PpaAt
<1>3. CASE ~ (p.ch < NChs - 1) /\ p.lun < LunsPerCh - 1
  <2> DEFINE k == p.lun + LunsPerCh * p.pg
  <2>1. k \in Nat
    BY <1>1, GeometryAssumption
  <2>2. Index(p) = NChs - 1 + NChs * k
    <3>1. p.ch = NChs - 1
      BY <1>1, <1>3, GeometryAssumption
    <3> QED
      BY <3>1 DEF Index
  <2>3. Index(NextInLine(p)) = NChs * (k + 1)
    <3>1. p.lun + 1 + LunsPerCh * p.pg = k + 1
      BY <1>1, GeometryAssumption
    <3>2. NextInLine(p) = PpaAt(p.blk, p.pg, p.lun + 1, 0)
      BY <1>3 DEF NextInLine
    <3> QED
      BY <2>1, <3>1, <3>2, GeometryAssumption DEF Index, PpaAt
  <2> HIDE DEF k
  <2> QED
    BY <2>1, <2>2, <2>3, GeometryAssumption
<1>4. CASE ~ (p.ch < NChs - 1) /\ ~ (p.lun < LunsPerCh - 1)
  BY <1>1, <1>4, GeometryAssumption DEF Index, NextInLine, PpaAt
<1> QED
  BY <1>2, <1>3, <1>4

\* and ends it with its last.
LEMMA IndexLast == \A p \in Ppa : LastOfLine(p) => Index(p) + 1 = PgsPerLine
<1> SUFFICES ASSUME NEW p \in Ppa, LastOfLine(p) PROVE Index(p) + 1 = PgsPerLine
  OBVIOUS
<1>1. Index(p) = NChs - 1 + NChs * (LunsPerCh - 1 + LunsPerCh * (PgsPerBlk - 1))
  BY DEF LastOfLine, Index
<1>2. LunsPerCh - 1 + LunsPerCh * (PgsPerBlk - 1) = LunsPerCh * PgsPerBlk - 1
  BY GeometryAssumption
<1>3. NChs * (LunsPerCh * PgsPerBlk - 1) = NChs * LunsPerCh * PgsPerBlk - NChs
  BY GeometryAssumption
<1> QED
  BY <1>1, <1>2, <1>3, GeometryAssumption DEF PgsPerLine

\* The pages passed by the write pointer are those that precede it.
Before(p, q) ==
    \/ p.pg < q.pg
    \/ p.pg = q.pg /\ p.lun < q.lun
    \/ p.pg = q.pg /\ p.lun = q.lun /\ p.ch < q.ch

\* No page precedes the first,
LEMMA BeforeFirst == \A p \in Ppa, l \in Lines : ~ Before(p, FirstPpa(l))
BY GeometryAssumption DEF Before, FirstPpa, PpaAt, Ppa, Pgs, Luns, Chs

\* two pages of a line differ in page, LUN or channel,
LEMMA SamePlace ==
    \A p, q \in Ppa : p.blk = q.blk /\ p.pg = q.pg /\ p.lun = q.lun /\ p.ch = q.ch => p = q
BY DEF Ppa

\* an advance adds exactly the page it leaves,
LEMMA BeforeNext ==
    \A p, q \in Ppa : p.blk = q.blk /\ ~ LastOfLine(q) =>
        (Before(p, NextInLine(q)) <=> Before(p, q) \/ p = q)
<1> SUFFICES ASSUME NEW p \in Ppa, NEW q \in Ppa, p.blk = q.blk, ~ LastOfLine(q)
             PROVE  Before(p, NextInLine(q)) <=> Before(p, q) \/ p = q
  OBVIOUS
<1>1. /\ p.ch \in 0 .. NChs - 1 /\ p.lun \in 0 .. LunsPerCh - 1 /\ p.pg \in 0 .. PgsPerBlk - 1
      /\ q.ch \in 0 .. NChs - 1 /\ q.lun \in 0 .. LunsPerCh - 1 /\ q.pg \in 0 .. PgsPerBlk - 1
  BY DEF Ppa, Chs, Luns, Pgs
<1>2. p = q <=> p.pg = q.pg /\ p.lun = q.lun /\ p.ch = q.ch
  BY SamePlace
<1>3. CASE q.ch < NChs - 1
  BY <1>1, <1>2, <1>3, GeometryAssumption DEF Before, NextInLine, PpaAt
<1>4. CASE ~ (q.ch < NChs - 1) /\ q.lun < LunsPerCh - 1
  BY <1>1, <1>2, <1>4, GeometryAssumption DEF Before, NextInLine, PpaAt
<1>5. CASE ~ (q.ch < NChs - 1) /\ ~ (q.lun < LunsPerCh - 1)
  BY <1>1, <1>2, <1>5, GeometryAssumption DEF Before, NextInLine, PpaAt
<1> QED
  BY <1>3, <1>4, <1>5

\* the last page follows all others,
LEMMA BeforeLast ==
    \A p, q \in Ppa : p.blk = q.blk /\ LastOfLine(q) => Before(p, q) \/ p = q
<1> SUFFICES ASSUME NEW p \in Ppa, NEW q \in Ppa, p.blk = q.blk, LastOfLine(q)
             PROVE  Before(p, q) \/ p = q
  OBVIOUS
<1>1. /\ p.ch \in 0 .. NChs - 1 /\ p.lun \in 0 .. LunsPerCh - 1 /\ p.pg \in 0 .. PgsPerBlk - 1
      /\ q.ch = NChs - 1 /\ q.lun = LunsPerCh - 1 /\ q.pg = PgsPerBlk - 1
  BY DEF Ppa, Chs, Luns, Pgs, LastOfLine
<1>2. p = q <=> p.pg = q.pg /\ p.lun = q.lun /\ p.ch = q.ch
  BY SamePlace, <1>1
<1> QED
  BY <1>1, <1>2, GeometryAssumption DEF Before

\* and no page precedes itself.
LEMMA BeforeIrreflexive == \A p \in Ppa : ~ Before(p, p)
BY DEF Before, Ppa, Pgs, Luns, Chs

-----------------------------------------------------------------------------
(* What a write of one page preserves, for user data and for a copy alike *)

\* The page under the write pointer is erased, so nothing is mapped to it.
LEMMA WpErased ==
    ASSUME IInv, pc # "aborted"
    PROVE  wp \in Ppa /\ wp.blk \in Lines /\ pgStatus[wp] = "free"
<1>1. wp \in Ppa /\ wp.blk \in Lines
  BY DEF IInv, TypeOK, Ppa
<1>2. ~ Programmed(wp)
  BY <1>1, BeforeIrreflexive DEF Programmed, Before
<1> QED
  BY <1>1, <1>2 DEF IInv, ErasedExactly

\* Case 1: the current line is not used up.
LEMMA WriteWithinLine ==
    ASSUME IInv, pc # "aborted", NEW l \in LPN, NEW then, WritePage(l, then),
           ~ LastOfLine(wp), GcLine' = GcLine,
           \A p \in Ppa : Erased(p)' <=> Erased(p)
    PROVE  LinesPartitioned' /\ ErasedExactly' /\ LineCountsByRole'
<1>1. wp \in Ppa /\ wp.blk \in Lines /\ pgStatus[wp] = "free"
  BY WpErased
<1>2. wp' = NextInLine(wp) /\ wp' \in Ppa /\ wp'.blk = wp.blk
  BY <1>1, NextInLineType DEF WritePage, AdvanceWritePointer
<1>3. UNCHANGED <<linePos, victimPq, freeList, freeCnt, fullList>>
  BY DEF WritePage, AdvanceWritePointer
<1>4. FreeLines' = FreeLines /\ Victims' = Victims
  BY <1>3 DEF FreeLines, Victims
<1>5. LinesPartitioned'
  BY <1>2, <1>3, <1>4 DEF IInv, LinesPartitioned
<1>6. ErasedExactly'
  <2> SUFFICES ASSUME NEW p \in Ppa
               PROVE  pgStatus'[p] = "free" <=>
                          \/ p.blk \in FreeLines'
                          \/ p.blk = wp'.blk /\ ~ Programmed(p)'
                          \/ Erased(p)'
    BY DEF ErasedExactly
  <2>1. pgStatus'[p] = "free" <=> pgStatus[p] = "free" /\ p # wp
    BY <1>1 DEF WritePage, MarkPageValid, IInv, TypeOK
  <2>2. p.blk = wp.blk => (Programmed(p)' <=> Programmed(p) \/ p = wp)
    BY <1>1, <1>2, BeforeNext DEF Programmed, Before
  <2>3. wp.blk \notin FreeLines /\ wp.blk \notin GcLine
    BY DEF IInv, LinesPartitioned
  <2>4. Erased(p) => p.blk \in GcLine
    BY DEF Erased, GcLine
  <2>5. pgStatus[p] = "free" <=>
            \/ p.blk \in FreeLines
            \/ p.blk = wp.blk /\ ~ Programmed(p)
            \/ Erased(p)
    BY DEF IInv, ErasedExactly
  <2> QED
    BY <1>2, <1>4, <2>1, <2>2, <2>3, <2>4, <2>5
<1>7. LineCountsByRole'
  <2>1. /\ lineVpc' = [lineVpc EXCEPT ![wp.blk] = @ + 1]
        /\ lineIpc' = lineIpc
        /\ lineVpc \in [Lines -> Int] /\ lineIpc \in [Lines -> Int]
    BY DEF WritePage, MarkPageValid, IInv, TypeOK
  <2>2. /\ wp.blk \notin FreeLines /\ wp.blk \notin Victims /\ wp.blk \notin fullList
        /\ FreeLines \subseteq Lines /\ Victims \subseteq Lines /\ fullList \subseteq Lines
    BY DEF IInv, LinesPartitioned
  <2>3. Index(wp)' = Index(wp) + 1
    BY <1>1, <1>2, IndexNext DEF Index
  <2>4. Index(wp) \in Nat
    BY <1>1, IndexRange
  <2>5. /\ \A x \in FreeLines : lineVpc[x] = 0 /\ lineIpc[x] = 0
        /\ \A x \in Victims : lineVpc[x] < PgsPerLine
        /\ \A x \in fullList : lineVpc[x] = PgsPerLine
        /\ lineVpc[wp.blk] + lineIpc[wp.blk] = Index(wp)
        /\ lineIpc[wp.blk] >= 0
    BY DEF IInv, LineCountsByRole
  <2>6. \A x \in Lines : x # wp.blk => lineVpc'[x] = lineVpc[x] /\ lineIpc'[x] = lineIpc[x]
    BY <2>1
  <2>7. lineVpc'[wp.blk] = lineVpc[wp.blk] + 1 /\ lineIpc'[wp.blk] = lineIpc[wp.blk]
        /\ lineVpc[wp.blk] \in Int /\ lineIpc[wp.blk] \in Int
    BY <1>1, <2>1
  <2>8. lineVpc'[wp'.blk] + lineIpc'[wp'.blk] = Index(wp)' /\ lineIpc'[wp'.blk] >= 0
    BY <1>2, <2>3, <2>4, <2>5, <2>7
  <2>9. /\ \A x \in FreeLines' : lineVpc'[x] = 0 /\ lineIpc'[x] = 0
        /\ \A x \in Victims' : lineVpc'[x] < PgsPerLine
        /\ \A x \in fullList' : lineVpc'[x] = PgsPerLine
    BY <1>3, <1>4, <2>2, <2>5, <2>6
  <2> QED
    BY <2>8, <2>9 DEF LineCountsByRole
<1> QED
  BY <1>5, <1>6, <1>7

\* Case 2: it is, and becomes a full line or a victim; the first free line
\* is the next current line.
LEMMA WriteEndsLine ==
    ASSUME IInv, pc # "aborted", NEW l \in LPN, NEW then, WritePage(l, then),
           LastOfLine(wp), ~ NoFreeLine, GcLine' = GcLine,
           \A p \in Ppa : Erased(p)' <=> Erased(p)
    PROVE  LinesPartitioned' /\ ErasedExactly' /\ LineCountsByRole'
<1> DEFINE cur == wp.blk
           nxt == Head(freeList)
           v   == lineVpc[cur] + 1
<1>1. wp \in Ppa /\ cur \in Lines /\ pgStatus[wp] = "free"
  BY WpErased
<1>2. /\ freeList \in Seq(Lines) /\ freeList # << >>
      /\ NoDup(freeList) /\ freeCnt = Len(freeList)
  BY DEF IInv, TypeOK, NoFreeLine, LinesPartitioned, NoDup
<1>3. /\ FreeLines = Elems(freeList) /\ FreeLines' = Elems(freeList')
      /\ freeList' = Tail(freeList) /\ freeCnt' = freeCnt - 1
      /\ wp' = FirstPpa(nxt)
      /\ FileLine(cur, v)
  BY DEF FreeLines, Elems, WritePage, AdvanceWritePointer
<1>4. /\ FreeLines' = FreeLines \ {nxt} /\ nxt \in FreeLines
      /\ NoDup(freeList') /\ freeCnt' = Len(freeList')
  BY <1>2, <1>3, TailElems
<1>5. /\ Lines = {cur} \cup FreeLines \cup Victims \cup fullList \cup GcLine
      /\ cur \notin FreeLines \cup Victims \cup fullList \cup GcLine
      /\ FreeLines \cap (Victims \cup fullList \cup GcLine) = {}
      /\ Victims \cap (fullList \cup GcLine) = {}
      /\ fullList \cap GcLine = {}
      /\ \A x \in Lines : linePos[x] <=> x \in Victims
  BY DEF IInv, LinesPartitioned
<1>6. nxt \in Lines /\ nxt # cur /\ wp' \in Ppa /\ wp'.blk = nxt
  BY <1>3, <1>4, <1>5, FirstPpaType DEF FirstPpa, PpaAt
<1>7. /\ lineVpc' = [lineVpc EXCEPT ![cur] = v]
      /\ lineIpc' = lineIpc
      /\ lineVpc \in [Lines -> Int] /\ lineIpc \in [Lines -> Int]
      /\ linePos \in [Lines -> BOOLEAN]
  BY DEF WritePage, MarkPageValid, IInv, TypeOK
<1>8. /\ v \in Int /\ lineIpc[cur] \in Int
      /\ v + lineIpc[cur] = PgsPerLine
      /\ lineIpc[cur] >= 0
      /\ PgsPerLine \in Int
  <2>1. lineVpc[cur] + lineIpc[cur] = Index(wp) /\ lineIpc[cur] >= 0
    BY DEF IInv, LineCountsByRole
  <2>2. Index(wp) + 1 = PgsPerLine /\ Index(wp) \in Nat
    BY <1>1, IndexLast, IndexRange
  <2>3. lineVpc[cur] \in Int /\ lineIpc[cur] \in Int
    BY <1>1, <1>7
  <2> QED
    BY <2>1, <2>2, <2>3
\* The line has one role afterwards, and the count of its valid pages fits it.
<1>9. /\ Victims \cup fullList \cup {cur} = Victims' \cup fullList'
      /\ Victims' \cap fullList' = {}
      /\ Victims \subseteq Victims' /\ fullList \subseteq fullList'
      /\ \A x \in Lines : linePos'[x] <=> x \in Victims'
      /\ cur \in Victims' => v < PgsPerLine
      /\ cur \in fullList' => v = PgsPerLine
  <2>1. CASE v = PgsPerLine
    <3>1. fullList' = fullList \cup {cur} /\ victimPq' = victimPq /\ linePos' = linePos
      BY <1>3, <2>1 DEF FileLine
    <3>2. Victims' = Victims
      BY <3>1 DEF Victims
    <3> QED
      BY <1>5, <2>1, <3>1, <3>2
  <2>2. CASE v # PgsPerLine
    <3>1. /\ fullList' = fullList
          /\ victimPq' = PqInsert(victimPq, cur, v)
          /\ linePos' = [linePos EXCEPT ![cur] = TRUE]
      BY <1>3, <2>2 DEF FileLine
    <3>2. Victims' = Victims \cup {cur}
      BY <3>1 DEF Victims, PqInsert
    <3>3. v < PgsPerLine
      BY <1>8, <2>2
    <3>4. \A x \in Lines : linePos'[x] <=> x \in Victims'
      BY <1>1, <1>5, <1>7, <3>1, <3>2
    <3> QED
      BY <1>5, <3>1, <3>2, <3>3, <3>4
  <2> QED
    BY <2>1, <2>2
<1> HIDE DEF nxt, v
<1>10. LinesPartitioned'
  <2>1. Lines = {nxt} \cup FreeLines' \cup Victims' \cup fullList' \cup GcLine'
    BY <1>4, <1>5, <1>9
  <2>2. nxt \notin FreeLines' \cup Victims' \cup fullList' \cup GcLine'
    BY <1>4, <1>5, <1>9
  <2>3. /\ FreeLines' \cap (Victims' \cup fullList' \cup GcLine') = {}
        /\ Victims' \cap (fullList' \cup GcLine') = {}
        /\ fullList' \cap GcLine' = {}
    BY <1>4, <1>5, <1>9
  <2>4. \A i, j \in DOMAIN freeList' : freeList'[i] = freeList'[j] => i = j
    BY <1>4 DEF NoDup
  <2> QED
    BY <1>4, <1>6, <1>9, <2>1, <2>2, <2>3, <2>4 DEF LinesPartitioned
<1>11. ErasedExactly'
  <2> SUFFICES ASSUME NEW p \in Ppa
               PROVE  pgStatus'[p] = "free" <=>
                          \/ p.blk \in FreeLines'
                          \/ p.blk = wp'.blk /\ ~ Programmed(p)'
                          \/ Erased(p)'
    BY DEF ErasedExactly
  <2>1. pgStatus'[p] = "free" <=> pgStatus[p] = "free" /\ p # wp
    BY <1>1 DEF WritePage, MarkPageValid, IInv, TypeOK
  <2>2. pgStatus[p] = "free" <=>
            \/ p.blk \in FreeLines
            \/ p.blk = cur /\ ~ Programmed(p)
            \/ Erased(p)
    BY DEF IInv, ErasedExactly
  <2>3. Erased(p) => p.blk \in GcLine
    BY DEF Erased, GcLine
  <2>4. p.blk = cur => Programmed(p) \/ p = wp
    BY <1>1, BeforeLast DEF Programmed, Before
  <2>5. ~ Programmed(p)'
    BY <1>3, <1>6, BeforeFirst DEF Programmed, Before
  <2> QED
    BY <1>4, <1>5, <1>6, <2>1, <2>2, <2>3, <2>4, <2>5
<1>12. LineCountsByRole'
  <2>1. /\ \A x \in FreeLines : lineVpc[x] = 0 /\ lineIpc[x] = 0
        /\ \A x \in Victims : lineVpc[x] < PgsPerLine
        /\ \A x \in fullList : lineVpc[x] = PgsPerLine
    BY DEF IInv, LineCountsByRole
  <2>2. /\ \A x \in Lines : x # cur => lineVpc'[x] = lineVpc[x] /\ lineIpc'[x] = lineIpc[x]
        /\ lineVpc'[cur] = v
    BY <1>1, <1>7
  <2>3. \A x \in FreeLines' : lineVpc'[x] = 0 /\ lineIpc'[x] = 0
    BY <1>4, <1>5, <2>1, <2>2
  <2>4. \A x \in Victims' : lineVpc'[x] < PgsPerLine
    BY <1>4, <1>5, <1>9, <2>1, <2>2
  <2>5. \A x \in fullList' : lineVpc'[x] = PgsPerLine
    BY <1>4, <1>5, <1>9, <2>1, <2>2
  <2>6. lineVpc'[nxt] = 0 /\ lineIpc'[nxt] = 0
    BY <1>4, <1>6, <2>1, <2>2
  <2>7. Index(wp)' = 0
    BY <1>3, <1>6, IndexFirst DEF Index
  <2> QED
    BY <1>6, <2>3, <2>4, <2>5, <2>6, <2>7 DEF LineCountsByRole
<1> QED
  BY <1>10, <1>11, <1>12

\* Both cases: whatever is written, the lines stay in order; if no line is
\* free the thread aborts and nothing is claimed.
LEMMA WriteKeepsLines ==
    ASSUME IInv, pc # "aborted", NEW l \in LPN, NEW then, WritePage(l, then),
           pc' # "aborted" => GcLine' = GcLine /\ \A p \in Ppa : Erased(p)' <=> Erased(p)
    PROVE  LinesPartitioned' /\ ErasedExactly' /\ LineCountsByRole'
<1>1. CASE pc' = "aborted"
  BY <1>1 DEF LinesPartitioned, ErasedExactly, LineCountsByRole
<1>2. CASE pc' # "aborted"
  <2>1. ~ Aborts
    BY <1>2 DEF WritePage
  <2>2. CASE ~ LastOfLine(wp)
    BY <1>2, <2>2, WriteWithinLine
  <2>3. CASE LastOfLine(wp) /\ ~ NoFreeLine
    BY <1>2, <2>3, WriteEndsLine
  <2> QED
    BY <2>1, <2>2, <2>3 DEF Aborts
<1> QED
  BY <1>1, <1>2

\* The mapping stays coherent if the page written takes the place of the only
\* live page its logical page had.
LEMMA WriteKeepsMapping ==
    ASSUME IInv, pc # "aborted", NEW l \in LPN, NEW then, WritePage(l, then),
           pc' # "aborted" =>
               /\ pc' # "program"
               /\ \A p \in Ppa : Live(p)' <=> p = wp \/ (Live(p) /\ rmap[p] # l),
           \A k \in LPN : InFlight(k) => k = l
    PROVE  MappingCoherent'
<1> SUFFICES ASSUME pc' # "aborted" PROVE MappingCoherent'
  BY DEF MappingCoherent
<1>1. wp \in Ppa /\ ~ Live(wp)
  BY WpErased DEF Live
<1>2. /\ maptbl' = [maptbl EXCEPT ![l] = wp]
      /\ rmap' = [rmap EXCEPT ![wp] = l]
      /\ maptbl \in [LPN -> Ppa \cup {UNMAPPED_PPA}]
      /\ rmap \in [Ppa -> LPN \cup {INVALID_LPN}]
  BY DEF WritePage, IInv, TypeOK
<1>3. /\ \A k \in LPN : Mapped(k) /\ ~ InFlight(k) =>
              Live(maptbl[k]) /\ rmap[maptbl[k]] = k
      /\ \A p \in Ppa : Live(p) => rmap[p] \in LPN /\ maptbl[rmap[p]] = p
  BY DEF IInv, MappingCoherent
<1>4. \A k \in LPN : ~ InFlight(k)'
  BY DEF InFlight
<1>5. ASSUME NEW k \in LPN, Mapped(k)'
      PROVE  Live(maptbl[k])' /\ rmap'[maptbl'[k]] = k
  <2>1. CASE k = l
    BY <1>1, <1>2, <2>1
  <2>2. CASE k # l
    <3>1. maptbl'[k] = maptbl[k] /\ Mapped(k) /\ maptbl[k] \in Ppa
      BY <1>2, <1>5, <2>2 DEF Mapped
    <3>2. Live(maptbl[k]) /\ rmap[maptbl[k]] = k
      BY <1>3, <2>2, <3>1
    <3>3. maptbl[k] # wp
      BY <1>1, <3>2
    <3>4. rmap'[maptbl[k]] = k
      BY <1>1, <1>2, <3>1, <3>2, <3>3
    <3>5. Live(maptbl[k])'
      <4>1. \A p \in Ppa : (Live(p) /\ rmap[p] # l) => Live(p)'
        OBVIOUS
      <4>2. \A p \in Ppa : maptbl'[k] = p /\ Live(p)' => Live(maptbl[k])'
        BY DEF Live, Moved
      <4> QED
        BY <2>2, <3>1, <3>2, <4>1, <4>2
    <3> QED
      BY <3>1, <3>4, <3>5
  <2> QED
    BY <2>1, <2>2
<1>6. ASSUME NEW p \in Ppa, Live(p)'
      PROVE  rmap'[p] \in LPN /\ maptbl'[rmap'[p]] = p
  <2>1. CASE p = wp
    BY <1>1, <1>2, <2>1
  <2>2. CASE p # wp /\ Live(p) /\ rmap[p] # l
    BY <1>2, <1>3, <2>2
  <2> QED
    BY <1>6, <2>1, <2>2
<1> QED
  BY <1>4, <1>5, <1>6 DEF MappingCoherent

-----------------------------------------------------------------------------
(* The steps of a collection *)

\* clean_one_block passes one page; which pages of the line are erased already
\* does not change.
LEMMA GcPagePassed ==
    ASSUME TypeOK, pc = "gc_page", GcNextPage, pc' = AfterGcPage
    PROVE  /\ GcLine' = GcLine
           /\ \A p \in Ppa : Erased(p)' <=> Erased(p)
           /\ \A p \in Ppa : Moved(p)' <=> Moved(p) \/ p = gcPpa
           /\ pc' \in {"gc_page", "gc_erase"}
<1>1. /\ gcPpa \in Ppa
      /\ gcPpa.pg \in 0 .. PgsPerBlk - 1
  BY DEF TypeOK, Ppa, Pgs
<1>2. pc' \in {"gc_page", "gc_erase"}
  BY DEF AfterGcPage
<1>3. gcPpa'.blk = gcPpa.blk /\ gcPpa'.lun = gcPpa.lun /\ gcPpa'.ch = gcPpa.ch
  BY DEF GcNextPage, PpaAt
<1>4. GcLine' = GcLine
  BY <1>2, <1>3 DEF GcLine, Collecting
<1>5. ASSUME NEW p \in Ppa PROVE Erased(p)' <=> Erased(p)
  BY <1>2, <1>3 DEF Erased, Collecting
<1>6. ASSUME NEW p \in Ppa PROVE Moved(p)' <=> Moved(p) \/ p = gcPpa
  <2>1. p.pg \in 0 .. PgsPerBlk - 1
    BY DEF Ppa, Pgs
  <2>2. p = gcPpa <=> BlkOf(p) = BlkOf(gcPpa) /\ p.pg = gcPpa.pg
    <3>1. BlkOf(p) = BlkOf(gcPpa) => p.blk = gcPpa.blk /\ p.lun = gcPpa.lun /\ p.ch = gcPpa.ch
      BY DEF BlkOf
    <3> QED
      BY <1>1, <3>1, SamePlace
  <2>3. BlkOf(gcPpa') = BlkOf(gcPpa)
    BY <1>3 DEF BlkOf
  <2>4. CASE gcPpa.pg < PgsPerBlk - 1
    <3>1. pc' = "gc_page" /\ gcPpa'.pg = gcPpa.pg + 1
      BY <2>4 DEF AfterGcPage, GcNextPage, PpaAt
    <3> QED
      BY <1>1, <2>1, <2>2, <2>3, <3>1 DEF Moved, Collecting
  <2>5. CASE ~ (gcPpa.pg < PgsPerBlk - 1)
    <3>1. pc' = "gc_erase" /\ gcPpa.pg = PgsPerBlk - 1
      BY <1>1, <2>5, GeometryAssumption DEF AfterGcPage
    <3> QED
      BY <1>1, <2>1, <2>2, <2>3, <3>1 DEF Moved, Collecting
  <2> QED
    BY <2>4, <2>5
<1> QED
  BY <1>2, <1>4, <1>5, <1>6

\* gc_write_page: the copy replaces the page it was made from.
LEMMA GcCopyPageSafe == IInv /\ TypeOK' /\ GcCopyPage => IInv'
<1> SUFFICES ASSUME IInv, TypeOK', GcCopyPage PROVE IInv'
  OBVIOUS
<1> DEFINE l == rmap[gcPpa]
<1>1. /\ pc = "gc_page" /\ pgStatus[gcPpa] = "valid"
      /\ WritePage(l, AfterGcPage) /\ GcNextPage
      /\ gcPpa \in Ppa
  BY DEF GcCopyPage, IInv, TypeOK
<1>2. Live(gcPpa)
  <2>1. ~ Moved(gcPpa)
    BY <1>1 DEF Moved, Collecting, IInv, TypeOK, Ppa, Pgs
  <2> QED
    BY <1>1, <2>1 DEF Live
<1>3. /\ \A p \in Ppa : Live(p) => rmap[p] \in LPN /\ maptbl[rmap[p]] = p
      /\ \A k \in LPN : ~ InFlight(k)
  BY <1>1 DEF IInv, MappingCoherent, InFlight
<1>4. l \in LPN
  BY <1>1, <1>2, <1>3
<1>5. ASSUME pc' # "aborted"
      PROVE  /\ GcLine' = GcLine
             /\ \A p \in Ppa : Erased(p)' <=> Erased(p)
             /\ \A p \in Ppa : Moved(p)' <=> Moved(p) \/ p = gcPpa
             /\ pc' \in {"gc_page", "gc_erase"}
  <2>1. pc' = AfterGcPage /\ TypeOK
    BY <1>1, <1>5 DEF WritePage, IInv
  <2> QED
    BY <1>1, <2>1, GcPagePassed
<1>6. LinesPartitioned' /\ ErasedExactly' /\ LineCountsByRole'
  BY <1>1, <1>4, <1>5, WriteKeepsLines
<1>7. MappingCoherent'
  <2>1. ASSUME pc' # "aborted", NEW p \in Ppa
        PROVE  Live(p)' <=> p = wp \/ (Live(p) /\ rmap[p] # l)
    <3>1. wp \in Ppa /\ ~ Moved(wp) /\ wp # gcPpa
      <4>1. wp.blk # gcPpa.blk
        BY <1>1 DEF IInv, LinesPartitioned, GcLine, Collecting
      <4> QED
        BY <1>1, <4>1, WpErased DEF Moved, BlkOf
    <3>2. pgStatus'[p] = "valid" <=> p = wp \/ pgStatus[p] = "valid"
      BY <1>1, <3>1 DEF WritePage, MarkPageValid, IInv, TypeOK
    <3>3. Live(p) => (rmap[p] # l <=> p # gcPpa)
      BY <1>1, <1>2, <1>3
    <3>4. Moved(p)' <=> Moved(p) \/ p = gcPpa
      BY <1>5, <2>1
    <3> QED
      BY <3>1, <3>2, <3>3, <3>4 DEF Live
  <2> QED
    BY <1>1, <1>3, <1>4, <1>5, <2>1, WriteKeepsMapping
<1>8. FreedAfterLastBlock'
  BY <1>1, <1>5 DEF FreedAfterLastBlock, WritePage
<1> QED
  BY <1>6, <1>7, <1>8 DEF IInv

\* clean_one_block passes a page that holds no data.
LEMMA GcSkipPageSafe == IInv /\ TypeOK' /\ GcSkipPage => IInv'
<1> SUFFICES ASSUME IInv, TypeOK', GcSkipPage PROVE IInv'
  OBVIOUS
<1>1. /\ pc = "gc_page" /\ pgStatus[gcPpa] # "valid"
      /\ GcNextPage /\ pc' = AfterGcPage
      /\ UNCHANGED <<maptbl, rmap, pgStatus, lineVars, wp>>
  BY DEF GcSkipPage, mapVars, nandVars
<1>2. /\ GcLine' = GcLine
      /\ \A p \in Ppa : Erased(p)' <=> Erased(p)
      /\ \A p \in Ppa : Moved(p)' <=> Moved(p) \/ p = gcPpa
      /\ pc' \in {"gc_page", "gc_erase"}
  BY <1>1, GcPagePassed DEF IInv
<1>3. \A p \in Ppa : Live(p)' <=> Live(p)
  BY <1>1, <1>2 DEF Live
<1>4. MappingCoherent'
  <2>1. \A k \in LPN : ~ InFlight(k) /\ ~ InFlight(k)'
    BY <1>1, <1>2 DEF InFlight
  <2>2. \A k \in LPN : Mapped(k) => maptbl[k] \in Ppa
    BY DEF Mapped, IInv, TypeOK
  <2>3. \A k \in LPN : Mapped(k)' <=> Mapped(k)
    BY <1>1 DEF Mapped
  <2>4. \A k \in LPN, p \in Ppa : maptbl[k] = p /\ Live(p) => Live(maptbl[k])'
    BY <1>1, <1>2 DEF Live, Moved
  <2> QED
    BY <1>1, <1>3, <2>1, <2>2, <2>3, <2>4 DEF IInv, MappingCoherent
<1>5. LinesPartitioned'
  BY <1>1, <1>2 DEF IInv, LinesPartitioned, lineVars, FreeLines, Victims
<1>6. ErasedExactly'
  BY <1>1, <1>2 DEF IInv, ErasedExactly, lineVars, FreeLines, Programmed
<1>7. LineCountsByRole'
  BY <1>1 DEF IInv, LineCountsByRole, lineVars, FreeLines, Victims, Index
<1>8. FreedAfterLastBlock'
  BY <1>2 DEF FreedAfterLastBlock
<1> QED
  BY <1>4, <1>5, <1>6, <1>7, <1>8 DEF IInv

\* The pages of the block join the erased ones, and of the block do_gc goes on
\* to no page is moved yet.
LEMMA EraseProgress ==
    ASSUME TypeOK, pc = "gc_erase", GcEraseBlock
    PROVE  /\ GcLine' = GcLine
           /\ pc' \in {"gc_page", "gc_free"}
           /\ \A p \in Ppa : Erased(p)' <=> Erased(p) \/ BlkOf(p) = BlkOf(gcPpa)
           /\ \A p \in Ppa : ~ Moved(p)'
           /\ pc' = "gc_free" => LastBlock(gcPpa')
<1>1. gcPpa \in Ppa
  BY DEF TypeOK
<1>2. gcPpa.lun \in 0 .. LunsPerCh - 1 /\ gcPpa.ch \in 0 .. NChs - 1
  BY <1>1 DEF Ppa, Luns, Chs
<1>3. \A p \in Ppa : BlkOf(p) = BlkOf(gcPpa) <=>
                      p.blk = gcPpa.blk /\ p.lun = gcPpa.lun /\ p.ch = gcPpa.ch
  BY DEF BlkOf
<1>4. CASE LastBlock(gcPpa)
  <2>1. gcPpa' = gcPpa /\ pc' = "gc_free"
    BY <1>4 DEF GcEraseBlock
  <2> QED
    BY <1>3, <1>4, <2>1 DEF GcLine, Collecting, Erased, Moved
<1>5. CASE ~ LastBlock(gcPpa)
  <2>1. gcPpa' = NextBlock(gcPpa) /\ pc' = "gc_page"
    BY <1>5 DEF GcEraseBlock
  <2>2. gcPpa'.blk = gcPpa.blk /\ gcPpa'.pg = 0
    BY <2>1 DEF NextBlock, PpaAt
  <2>3. ASSUME NEW p \in Ppa PROVE Erased(p)' <=> Erased(p) \/ BlkOf(p) = BlkOf(gcPpa)
    <3>1. p.lun \in 0 .. LunsPerCh - 1 /\ p.ch \in 0 .. NChs - 1
      BY DEF Ppa, Luns, Chs
    <3>2. CASE gcPpa.lun < LunsPerCh - 1
      <4>1. gcPpa'.lun = gcPpa.lun + 1 /\ gcPpa'.ch = gcPpa.ch
        BY <2>1, <3>2 DEF NextBlock, PpaAt
      <4> QED
        BY <1>2, <1>3, <2>1, <2>2, <3>1, <4>1 DEF Erased, Collecting
    <3>3. CASE ~ (gcPpa.lun < LunsPerCh - 1)
      <4>1. gcPpa'.lun = 0 /\ gcPpa'.ch = gcPpa.ch + 1
        BY <2>1, <3>3 DEF NextBlock, PpaAt
      <4>2. p.ch < gcPpa.ch + 1 <=> p.ch < gcPpa.ch \/ p.ch = gcPpa.ch
        BY <1>2, <3>1
      <4>3. p.lun < gcPpa.lun \/ p.lun = gcPpa.lun
        BY <1>2, <3>1, <3>3, GeometryAssumption
      <4>4. ~ (p.lun < 0)
        BY <3>1
      <4> QED
        BY <1>3, <2>1, <2>2, <4>1, <4>2, <4>3, <4>4 DEF Erased, Collecting
    <3> QED
      BY <3>2, <3>3
  <2>4. \A p \in Ppa : ~ Moved(p)'
    BY <2>1, <2>2 DEF Moved, Ppa, Pgs
  <2> QED
    BY <2>1, <2>2, <2>3, <2>4 DEF GcLine, Collecting
<1> QED
  BY <1>4, <1>5

\* mark_block_free: the block has no live page left.
LEMMA GcEraseBlockSafe == IInv /\ TypeOK' /\ GcEraseBlock => IInv'
<1> SUFFICES ASSUME IInv, TypeOK', GcEraseBlock PROVE IInv'
  OBVIOUS
<1>1. /\ pc = "gc_erase" /\ gcPpa \in Ppa
      /\ pgStatus' = [p \in Ppa |-> IF BlkOf(p) = BlkOf(gcPpa) THEN "free" ELSE pgStatus[p]]
      /\ UNCHANGED <<maptbl, rmap, lineVars, wp>>
  BY DEF GcEraseBlock, mapVars, IInv, TypeOK
<1>2. /\ GcLine' = GcLine
      /\ pc' \in {"gc_page", "gc_free"}
      /\ \A p \in Ppa : Erased(p)' <=> Erased(p) \/ BlkOf(p) = BlkOf(gcPpa)
      /\ \A p \in Ppa : ~ Moved(p)'
      /\ pc' = "gc_free" => LastBlock(gcPpa')
  BY <1>1, EraseProgress DEF IInv
<1>3. \A p \in Ppa : Live(p)' <=> Live(p)
  BY <1>1, <1>2 DEF Live, Moved, Collecting
<1>4. MappingCoherent'
  <2>1. \A k \in LPN : ~ InFlight(k) /\ ~ InFlight(k)'
    BY <1>1, <1>2 DEF InFlight
  <2>2. \A k \in LPN : Mapped(k) => maptbl[k] \in Ppa
    BY DEF Mapped, IInv, TypeOK
  <2>3. \A k \in LPN : Mapped(k)' <=> Mapped(k)
    BY <1>1 DEF Mapped
  <2>4. \A k \in LPN, p \in Ppa : maptbl[k] = p /\ Live(p)' => Live(maptbl[k])'
    BY <1>1 DEF Live, Moved
  <2> QED
    BY <1>1, <1>3, <2>1, <2>2, <2>3, <2>4 DEF IInv, MappingCoherent
<1>5. LinesPartitioned'
  BY <1>1, <1>2 DEF IInv, LinesPartitioned, lineVars, FreeLines, Victims
<1>6. ErasedExactly'
  BY <1>1, <1>2 DEF IInv, ErasedExactly, lineVars, FreeLines, Programmed
<1>7. LineCountsByRole'
  BY <1>1 DEF IInv, LineCountsByRole, lineVars, FreeLines, Victims, Index
<1>8. FreedAfterLastBlock'
  BY <1>2 DEF FreedAfterLastBlock
<1> QED
  BY <1>4, <1>5, <1>6, <1>7, <1>8 DEF IInv

\* mark_line_free: the whole line is erased when it joins the free lines.
LEMMA GcFreeLineSafe == IInv /\ TypeOK' /\ GcFreeLine => IInv'
<1> SUFFICES ASSUME IInv, TypeOK', GcFreeLine PROVE IInv'
  OBVIOUS
<1> DEFINE g == gcPpa.blk
<1>1. /\ pc = "gc_free" /\ pc' \in {"gc_high", "idle"}
      /\ gcPpa \in Ppa /\ g \in Lines
      /\ lineIpc' = [lineIpc EXCEPT ![g] = 0]
      /\ lineVpc' = [lineVpc EXCEPT ![g] = 0]
      /\ freeList' = Append(freeList, g) /\ freeCnt' = freeCnt + 1
      /\ UNCHANGED <<maptbl, rmap, pgStatus, linePos, victimPq, fullList, wp>>
  BY DEF GcFreeLine, mapVars, nandVars, IInv, TypeOK, Ppa
<1>2. /\ GcLine = {g} /\ GcLine' = {}
      /\ Victims' = Victims
  BY <1>1 DEF GcLine, Collecting, Victims
<1>3. /\ Lines = {wp.blk} \cup FreeLines \cup Victims \cup fullList \cup {g}
      /\ wp.blk \notin FreeLines \cup Victims \cup fullList \cup {g}
      /\ FreeLines \cap (Victims \cup fullList \cup {g}) = {}
      /\ Victims \cap (fullList \cup {g}) = {}
      /\ fullList \cap {g} = {}
      /\ NoDup(freeList) /\ freeCnt = Len(freeList)
      /\ \A x \in Lines : linePos[x] <=> x \in Victims
  BY <1>1, <1>2 DEF IInv, LinesPartitioned, NoDup
<1>4. /\ FreeLines' = FreeLines \cup {g}
      /\ NoDup(freeList') /\ freeCnt' = Len(freeList')
  <2>1. freeList \in Seq(Lines) /\ FreeLines = Elems(freeList) /\ FreeLines' = Elems(freeList')
    BY DEF IInv, TypeOK, FreeLines, Elems
  <2> QED
    BY <1>1, <1>3, <2>1, AppendElems
<1>5. \A p \in Ppa : Erased(p) <=> p.blk = g
  <2>1. gcPpa.lun = LunsPerCh - 1 /\ gcPpa.ch = NChs - 1
    BY <1>1 DEF IInv, FreedAfterLastBlock, LastBlock
  <2> QED
    BY <1>1, <2>1, GeometryAssumption DEF Erased, Collecting, Ppa, Luns, Chs
<1>6. \A p \in Ppa : Live(p)' <=> Live(p)
  BY <1>1 DEF Live, Moved, Collecting
<1> HIDE DEF g
<1>7. MappingCoherent'
  <2>1. \A k \in LPN : ~ InFlight(k) /\ ~ InFlight(k)'
    BY <1>1 DEF InFlight
  <2>2. \A k \in LPN : Mapped(k) => maptbl[k] \in Ppa
    BY DEF Mapped, IInv, TypeOK
  <2>3. \A k \in LPN : Mapped(k)' <=> Mapped(k)
    BY <1>1 DEF Mapped
  <2>4. \A k \in LPN, p \in Ppa : maptbl[k] = p /\ Live(p)' => Live(maptbl[k])'
    BY <1>1 DEF Live, Moved
  <2> QED
    BY <1>1, <1>6, <2>1, <2>2, <2>3, <2>4 DEF IInv, MappingCoherent
<1>8. LinesPartitioned'
  <2>1. \A i, j \in DOMAIN freeList' : freeList'[i] = freeList'[j] => i = j
    BY <1>4 DEF NoDup
  <2> QED
    BY <1>1, <1>2, <1>3, <1>4, <2>1 DEF LinesPartitioned
<1>9. ErasedExactly'
  <2>1. \A p \in Ppa : ~ Erased(p)'
    BY <1>1 DEF Erased, Collecting
  <2>2. \A p \in Ppa : Programmed(p)' <=> Programmed(p)
    BY <1>1 DEF Programmed
  <2> QED
    BY <1>1, <1>3, <1>4, <1>5, <2>1, <2>2 DEF IInv, ErasedExactly
<1>10. LineCountsByRole'
  <2>1. lineVpc \in [Lines -> Int] /\ lineIpc \in [Lines -> Int]
    BY DEF IInv, TypeOK
  <2>2. Index(wp)' = Index(wp)
    BY <1>1 DEF Index
  <2>3. /\ \A x \in Lines : x # g => lineVpc'[x] = lineVpc[x] /\ lineIpc'[x] = lineIpc[x]
        /\ lineVpc'[g] = 0 /\ lineIpc'[g] = 0
    BY <1>1, <2>1
  <2>4. wp.blk \in Lines /\ FreeLines \subseteq Lines /\ Victims \subseteq Lines /\ fullList \subseteq Lines
    BY <1>3
  <2> QED
    BY <1>1, <1>2, <1>3, <1>4, <2>2, <2>3, <2>4 DEF IInv, LineCountsByRole
<1>11. FreedAfterLastBlock'
  BY <1>1 DEF FreedAfterLastBlock
<1> QED
  BY <1>7, <1>8, <1>9, <1>10, <1>11 DEF IInv

\* select_victim_line: a line leaves the queue and none of it is moved yet.
LEMMA SelectVictimSafe ==
    ASSUME IInv, TypeOK', pc \in {"gc_high", "complete"}, NEW force, SelectVictim(force)
    PROVE  IInv'
<1>1. PICK v \in PqPeek :
          /\ victimPq' = PqRemove(victimPq, v)
          /\ linePos' = [linePos EXCEPT ![v] = FALSE]
          /\ gcPpa' = FirstPpa(v)
          /\ pc' = "gc_page"
          /\ UNCHANGED <<maptbl, rmap, pgStatus, lineIpc, lineVpc, freeList, freeCnt, fullList, wp>>
  BY DEF SelectVictim, mapVars, nandVars
<1>2. v \in Victims /\ Victims' = Victims \ {v} /\ FreeLines' = FreeLines
  BY <1>1 DEF PqPeek, PqRemove, Victims, FreeLines
<1>3. GcLine = {} /\ GcLine' = {v}
  BY <1>1 DEF GcLine, Collecting, FirstPpa, PpaAt
<1>4. /\ \A p \in Ppa : ~ Erased(p) /\ ~ Erased(p)'
      /\ \A p \in Ppa : ~ Moved(p) /\ ~ Moved(p)'
  <2>1. gcPpa'.pg = 0 /\ gcPpa'.lun = 0 /\ gcPpa'.ch = 0
    BY <1>1 DEF FirstPpa, PpaAt
  <2> QED
    BY <1>1, <2>1 DEF Erased, Moved, Collecting, Ppa, Pgs, Luns, Chs
<1>5. \A p \in Ppa : Live(p)' <=> Live(p)
  BY <1>1, <1>4 DEF Live
<1>6. MappingCoherent'
  <2>1. \A k \in LPN : ~ InFlight(k) /\ ~ InFlight(k)'
    BY <1>1 DEF InFlight
  <2>2. \A k \in LPN : Mapped(k) => maptbl[k] \in Ppa
    BY DEF Mapped, IInv, TypeOK
  <2>3. \A k \in LPN : Mapped(k)' <=> Mapped(k)
    BY <1>1 DEF Mapped
  <2>4. \A k \in LPN, p \in Ppa : maptbl[k] = p /\ Live(p)' => Live(maptbl[k])'
    BY <1>1 DEF Live, Moved
  <2> QED
    BY <1>1, <1>5, <2>1, <2>2, <2>3, <2>4 DEF IInv, MappingCoherent
<1>7. LinesPartitioned'
  <2>1. /\ Lines = {wp.blk} \cup FreeLines \cup Victims \cup fullList
        /\ wp.blk \notin FreeLines \cup Victims \cup fullList
        /\ FreeLines \cap (Victims \cup fullList) = {}
        /\ Victims \cap fullList = {}
        /\ \A i, j \in DOMAIN freeList : freeList[i] = freeList[j] => i = j
        /\ freeCnt = Len(freeList)
        /\ \A x \in Lines : linePos[x] <=> x \in Victims
        /\ linePos \in [Lines -> BOOLEAN]
    BY <1>3 DEF IInv, TypeOK, LinesPartitioned
  <2>2. \A x \in Lines : linePos'[x] <=> x \in Victims'
    BY <1>1, <1>2, <2>1
  <2>3. /\ Lines = {wp.blk} \cup FreeLines \cup Victims' \cup fullList \cup {v}
        /\ wp.blk \notin FreeLines \cup Victims' \cup fullList \cup {v}
        /\ FreeLines \cap (Victims' \cup fullList \cup {v}) = {}
        /\ Victims' \cap (fullList \cup {v}) = {}
        /\ fullList \cap {v} = {}
    BY <1>2, <2>1
  <2> QED
    BY <1>1, <1>2, <1>3, <2>1, <2>2, <2>3 DEF LinesPartitioned
<1>8. ErasedExactly'
  BY <1>1, <1>2, <1>4 DEF IInv, ErasedExactly, Programmed
<1>9. LineCountsByRole'
  BY <1>1, <1>2 DEF IInv, LineCountsByRole, Index
<1>10. FreedAfterLastBlock'
  BY <1>1 DEF FreedAfterLastBlock
<1> QED
  BY <1>6, <1>7, <1>8, <1>9, <1>10 DEF IInv

-----------------------------------------------------------------------------
(* The steps of a write *)

\* mark_page_invalid files the line of the old page anew.
LEMMA MarkPageInvalidKeepsLines ==
    ASSUME IInv, pc = "invalidate", pc' = "program",
           NEW m \in Ppa, pgStatus[m] = "valid", MarkPageInvalid(m), wp' = wp
    PROVE  LinesPartitioned' /\ ErasedExactly' /\ LineCountsByRole'
<1> DEFINE b == m.blk
           n == lineVpc[b] - 1
<1>1. /\ b \in Lines /\ wp \in Ppa /\ wp.blk \in Lines
      /\ pgStatus \in [Ppa -> PageStatus]
      /\ lineVpc \in [Lines -> Int] /\ lineIpc \in [Lines -> Int]
      /\ linePos \in [Lines -> BOOLEAN] /\ IsPq(victimPq)
  BY DEF IInv, TypeOK, Ppa
<1>2. /\ pgStatus' = [pgStatus EXCEPT ![m] = "invalid"]
      /\ lineIpc' = [lineIpc EXCEPT ![b] = @ + 1]
      /\ lineVpc' = [lineVpc EXCEPT ![b] = n]
      /\ freeList' = freeList /\ freeCnt' = freeCnt
  BY DEF MarkPageInvalid
<1>3. GcLine = {} /\ GcLine' = {} /\ FreeLines' = FreeLines
  BY <1>2 DEF GcLine, Collecting, FreeLines
<1>4. /\ Lines = {wp.blk} \cup FreeLines \cup Victims \cup fullList
      /\ wp.blk \notin FreeLines \cup Victims \cup fullList
      /\ FreeLines \cap (Victims \cup fullList) = {}
      /\ Victims \cap fullList = {}
      /\ \A i, j \in DOMAIN freeList : freeList[i] = freeList[j] => i = j
      /\ freeCnt = Len(freeList)
      /\ \A x \in Lines : linePos[x] <=> x \in Victims
  BY <1>3 DEF IInv, LinesPartitioned
<1>5. /\ \A x \in FreeLines : lineVpc[x] = 0 /\ lineIpc[x] = 0
      /\ \A x \in Victims : lineVpc[x] < PgsPerLine
      /\ \A x \in fullList : lineVpc[x] = PgsPerLine
      /\ lineVpc[wp.blk] + lineIpc[wp.blk] = Index(wp)
      /\ lineIpc[wp.blk] >= 0
  BY DEF IInv, LineCountsByRole
<1>6. b \notin FreeLines
  BY DEF IInv, ErasedExactly
<1>7. lineVpc[wp.blk] < PgsPerLine /\ PgsPerLine \in Int /\ Index(wp) \in Int
  <2>1. Index(wp) \in Nat /\ Index(wp) < PgsPerLine /\ PgsPerLine \in Int
    BY <1>1, IndexRange, GeometryAssumption DEF PgsPerLine
  <2>2. lineVpc[wp.blk] \in Int /\ lineIpc[wp.blk] \in Int
    BY <1>1
  <2> QED
    BY <1>5, <2>1, <2>2
<1>8. /\ Victims \cup fullList = Victims' \cup fullList'
      /\ Victims' \cap fullList' = {}
      /\ Victims \subseteq Victims' /\ fullList' \subseteq fullList
      /\ b \notin fullList'
      /\ Victims' \subseteq Victims \cup {b}
      /\ \A x \in Lines : linePos'[x] <=> x \in Victims'
  <2>1. CASE lineVpc[b] = PgsPerLine
    <3>1. /\ fullList' = fullList \ {b}
          /\ victimPq' = PqInsert(victimPq, b, n)
          /\ linePos' = [linePos EXCEPT ![b] = TRUE]
      BY <2>1 DEF MarkPageInvalid
    <3>2. Victims' = Victims \cup {b}
      BY <3>1 DEF Victims, PqInsert
    <3>3. b \in fullList
      <4>1. b # wp.blk
        BY <1>7, <2>1
      <4>2. b \notin Victims
        BY <1>1, <1>5, <1>7, <2>1
      <4> QED
        BY <1>1, <1>4, <1>6, <4>1, <4>2
    <3>4. \A x \in Lines : linePos'[x] <=> x \in Victims'
      BY <1>1, <1>4, <3>1, <3>2
    <3> QED
      BY <1>4, <3>1, <3>2, <3>3, <3>4
  <2>2. CASE lineVpc[b] # PgsPerLine
    <3>1. /\ fullList' = fullList /\ linePos' = linePos
          /\ victimPq' = IF linePos[b] THEN [victimPq EXCEPT ![b] = n] ELSE victimPq
      BY <2>2 DEF MarkPageInvalid
    <3>2. Victims' = Victims
      BY <3>1 DEF Victims
    <3>3. b \notin fullList
      BY <1>5, <2>2
    <3> QED
      BY <1>4, <3>1, <3>2, <3>3
  <2> QED
    BY <2>1, <2>2
<1> HIDE DEF n, b
<1>9. LinesPartitioned'
  <2>1. /\ Lines = {wp'.blk} \cup FreeLines' \cup Victims' \cup fullList' \cup GcLine'
        /\ wp'.blk \notin FreeLines' \cup Victims' \cup fullList' \cup GcLine'
        /\ FreeLines' \cap (Victims' \cup fullList' \cup GcLine') = {}
        /\ Victims' \cap (fullList' \cup GcLine') = {}
        /\ fullList' \cap GcLine' = {}
    BY <1>3, <1>4, <1>8
  <2> QED
    BY <1>2, <1>4, <1>8, <2>1 DEF LinesPartitioned
<1>10. ErasedExactly'
  <2>1. \A p \in Ppa : pgStatus'[p] = "free" <=> pgStatus[p] = "free"
    BY <1>1, <1>2 DEF IInv, TypeOK
  <2>2. \A p \in Ppa : ~ Erased(p) /\ ~ Erased(p)'
    BY DEF Erased, Collecting
  <2>3. \A p \in Ppa : Programmed(p)' <=> Programmed(p)
    BY DEF Programmed
  <2> QED
    BY <1>3, <2>1, <2>2, <2>3 DEF IInv, ErasedExactly
<1>11. LineCountsByRole'
  <2>1. /\ \A x \in Lines : x # b => lineVpc'[x] = lineVpc[x] /\ lineIpc'[x] = lineIpc[x]
        /\ lineVpc'[b] = n /\ lineIpc'[b] = lineIpc[b] + 1
        /\ n = lineVpc[b] - 1 /\ lineVpc[b] \in Int /\ lineIpc[b] \in Int
    BY <1>1, <1>2 DEF n
  <2>2. b \in fullList \/ b \in Victims \/ b = wp.blk
    BY <1>1, <1>4, <1>6 DEF b
  <2>3. b \in Lines /\ n < PgsPerLine
    BY <1>1, <1>5, <1>7, <2>1, <2>2 DEF b
  <2>4. FreeLines \subseteq Lines /\ Victims' \subseteq Lines /\ fullList' \subseteq Lines
    BY <1>4, <1>8
  <2>5. \A x \in FreeLines' : lineVpc'[x] = 0 /\ lineIpc'[x] = 0
    BY <1>3, <1>5, <1>6, <2>1, <2>4 DEF b
  <2>6. \A x \in Victims' : lineVpc'[x] < PgsPerLine
    BY <1>5, <1>8, <2>1, <2>3, <2>4
  <2>7. \A x \in fullList' : lineVpc'[x] = PgsPerLine
    BY <1>5, <1>8, <2>1, <2>4
  <2>8. lineVpc'[wp'.blk] + lineIpc'[wp'.blk] = Index(wp)' /\ lineIpc'[wp'.blk] >= 0
    <3>1. Index(wp)' = Index(wp) /\ wp'.blk = wp.blk
      BY DEF Index
    <3>2. CASE wp.blk = b
      BY <1>5, <2>1, <3>1, <3>2
    <3>3. CASE wp.blk # b
      BY <1>1, <1>5, <2>1, <3>1, <3>3
    <3> QED
      BY <3>2, <3>3
  <2> QED
    BY <2>5, <2>6, <2>7, <2>8 DEF LineCountsByRole
<1> QED
  BY <1>9, <1>10, <1>11

\* ssd_write takes the old page of a logical page away.
LEMMA InvalidateOldSafe == IInv /\ TypeOK' /\ InvalidateOld => IInv'
<1> SUFFICES ASSUME IInv, TypeOK', InvalidateOld PROVE IInv'
  OBVIOUS
<1>1. /\ pc = "invalidate" /\ pc' = "program"
      /\ lpn \in LPN /\ lpn' = lpn /\ wp' = wp
      /\ maptbl' = maptbl
      /\ maptbl \in [LPN -> Ppa \cup {UNMAPPED_PPA}]
      /\ rmap \in [Ppa -> LPN \cup {INVALID_LPN}]
      /\ pgStatus \in [Ppa -> PageStatus]
  BY DEF InvalidateOld, reqVars, IInv, TypeOK
<1>2. /\ \A k \in LPN : Mapped(k) => Live(maptbl[k]) /\ rmap[maptbl[k]] = k
      /\ \A p \in Ppa : Live(p) => rmap[p] \in LPN /\ maptbl[rmap[p]] = p
  BY <1>1 DEF IInv, MappingCoherent, InFlight
<1>3. /\ \A p \in Ppa : ~ Moved(p) /\ ~ Moved(p)'
      /\ \A k \in LPN : InFlight(k)' <=> k = lpn
      /\ \A k \in LPN : Mapped(k)' <=> Mapped(k)
  BY <1>1 DEF Moved, Collecting, InFlight, Mapped
<1>4. FreedAfterLastBlock'
  BY <1>1 DEF FreedAfterLastBlock
<1>5. CASE Mapped(lpn)
  <2> DEFINE m == maptbl[lpn]
  <2>1. /\ MarkPageInvalid(m)
        /\ rmap' = [rmap EXCEPT ![m] = INVALID_LPN]
    BY <1>5 DEF InvalidateOld
  <2>2. m \in Ppa /\ rmap[m] = lpn /\ pgStatus[m] = "valid"
    BY <1>1, <1>2, <1>5 DEF Mapped, Live
  <2>3. pgStatus' = [pgStatus EXCEPT ![m] = "invalid"]
    BY <2>1 DEF MarkPageInvalid
  <2>4. LinesPartitioned' /\ ErasedExactly' /\ LineCountsByRole'
    BY <1>1, <2>1, <2>2, MarkPageInvalidKeepsLines
  <2>5. \A p \in Ppa : Live(p)' <=> Live(p) /\ p # m
    BY <1>1, <1>3, <2>2, <2>3 DEF Live
  <2> HIDE DEF m
  <2>6. ASSUME NEW k \in LPN, Mapped(k), k # lpn
        PROVE  Live(maptbl[k])' /\ rmap'[maptbl'[k]] = k
    <3>1. Live(maptbl[k]) /\ rmap[maptbl[k]] = k /\ maptbl[k] \in Ppa
      BY <1>1, <1>2, <2>6 DEF Mapped
    <3>2. maptbl[k] # m
      BY <2>2, <2>6, <3>1
    <3>3. \A p \in Ppa : maptbl[k] = p /\ Live(p)' => Live(maptbl[k])'
      BY <1>1 DEF Live, Moved
    <3> QED
      BY <1>1, <2>1, <2>5, <3>1, <3>2, <3>3
  <2>7. ASSUME NEW p \in Ppa, Live(p)'
        PROVE  rmap'[p] \in LPN /\ maptbl'[rmap'[p]] = p /\ rmap'[p] # lpn
    <3>1. Live(p) /\ p # m /\ rmap'[p] = rmap[p]
      BY <1>1, <2>1, <2>5, <2>7
    <3> QED
      BY <1>1, <1>2, <3>1 DEF m
  <2>8. MappingCoherent'
    BY <1>1, <1>3, <2>6, <2>7 DEF MappingCoherent
  <2> QED
    BY <1>4, <2>4, <2>8 DEF IInv
<1>6. CASE ~ Mapped(lpn)
  <2>1. UNCHANGED <<rmap, pgStatus, lineVars>>
    BY <1>6 DEF InvalidateOld, nandVars
  <2>2. \A p \in Ppa : Live(p)' <=> Live(p)
    BY <1>3, <2>1 DEF Live
  <2>3. MappingCoherent'
    <3>1. \A k \in LPN, p \in Ppa : maptbl[k] = p /\ Live(p)' => Live(maptbl[k])'
      BY <1>1 DEF Live, Moved
    <3>2. \A k \in LPN : Mapped(k) => maptbl[k] \in Ppa
      BY <1>1 DEF Mapped
    <3>3. \A p \in Ppa : Live(p) => rmap[p] # lpn
      BY <1>1, <1>2, <1>6, NullAssumption DEF Mapped
    <3> QED
      BY <1>1, <1>2, <1>3, <2>1, <2>2, <3>1, <3>2, <3>3 DEF MappingCoherent
  <2>4. GcLine = {} /\ GcLine' = {} /\ FreeLines' = FreeLines /\ Victims' = Victims
    BY <1>1, <2>1 DEF GcLine, Collecting, FreeLines, Victims, lineVars
  <2>5. LinesPartitioned'
    BY <1>1, <2>1, <2>4 DEF IInv, LinesPartitioned, lineVars
  <2>6. ErasedExactly'
    BY <1>1, <2>1, <2>4 DEF IInv, ErasedExactly, Programmed, Erased, Collecting
  <2>7. LineCountsByRole'
    BY <1>1, <2>1, <2>4 DEF IInv, LineCountsByRole, Index, lineVars
  <2> QED
    BY <1>4, <2>3, <2>5, <2>6, <2>7 DEF IInv
<1> QED
  BY <1>5, <1>6

\* ssd_write programs the new page.
LEMMA ProgramPageSafe == IInv /\ TypeOK' /\ ProgramPage => IInv'
<1> SUFFICES ASSUME IInv, TypeOK', ProgramPage PROVE IInv'
  OBVIOUS
<1> DEFINE then == IF lpn < endLpn THEN "invalidate" ELSE "complete"
<1>1. /\ pc = "program" /\ lpn \in LPN
      /\ WritePage(lpn, then)
      /\ pc' \in {"invalidate", "complete", "aborted"}
  BY DEF ProgramPage, WritePage, IInv, TypeOK
<1>2. /\ GcLine' = GcLine
      /\ \A p \in Ppa : Erased(p)' <=> Erased(p)
      /\ \A p \in Ppa : ~ Moved(p) /\ ~ Moved(p)'
      /\ \A k \in LPN : InFlight(k) <=> k = lpn
  BY <1>1 DEF GcLine, Erased, Moved, Collecting, InFlight
<1>3. LinesPartitioned' /\ ErasedExactly' /\ LineCountsByRole'
  <2> HIDE DEF then
  <2> QED
    BY <1>1, <1>2, WriteKeepsLines
<1>4. MappingCoherent'
  <2>1. ASSUME NEW p \in Ppa PROVE Live(p)' <=> p = wp \/ (Live(p) /\ rmap[p] # lpn)
    <3>1. pgStatus'[p] = "valid" <=> p = wp \/ pgStatus[p] = "valid"
      BY <1>1, WpErased DEF WritePage, MarkPageValid, IInv, TypeOK
    <3>2. Live(p) => rmap[p] # lpn
      BY <1>1 DEF IInv, MappingCoherent, InFlight
    <3> QED
      BY <1>2, <3>1, <3>2 DEF Live
  <2>2. pc' # "aborted" =>
            /\ pc' # "program"
            /\ \A p \in Ppa : Live(p)' <=> p = wp \/ (Live(p) /\ rmap[p] # lpn)
    BY <1>1, <2>1
  <2>3. pc # "aborted" /\ \A k \in LPN : InFlight(k) => k = lpn
    BY <1>1, <1>2
  <2> HIDE DEF then
  <2> QED
    BY <1>1, <2>2, <2>3, WriteKeepsMapping
<1>5. FreedAfterLastBlock'
  BY <1>1 DEF FreedAfterLastBlock
<1> QED
  BY <1>3, <1>4, <1>5 DEF IInv

\* Taking a request, reading, and leaving a collection loop change no page.
LEMMA ControlStepSafe ==
    ASSUME IInv, TypeOK', pc \in {"idle", "read", "gc_high", "complete"},
           pc' \in {"idle", "read", "gc_high", "invalidate", "complete"},
           UNCHANGED <<mapVars, nandVars, lineVars, wp>>
    PROVE  IInv'
<1>1. UNCHANGED <<maptbl, rmap, pgStatus, lineIpc, lineVpc, linePos, victimPq,
                  freeList, freeCnt, fullList, wp>>
  BY DEF mapVars, nandVars, lineVars
<1>2. /\ GcLine = {} /\ GcLine' = {}
      /\ FreeLines' = FreeLines /\ Victims' = Victims
      /\ \A p \in Ppa : ~ Erased(p) /\ ~ Erased(p)'
      /\ \A p \in Ppa : Programmed(p)' <=> Programmed(p)
      /\ \A k \in LPN : ~ InFlight(k) /\ ~ InFlight(k)'
      /\ \A k \in LPN : Mapped(k)' <=> Mapped(k)
  BY <1>1 DEF GcLine, Collecting, FreeLines, Victims, Erased, Programmed, InFlight, Mapped
<1>3. MappingCoherent'
  <2>1. \A p \in Ppa : Live(p)' <=> Live(p)
    BY <1>1 DEF Live, Moved, Collecting
  <2>2. \A k \in LPN, p \in Ppa : maptbl[k] = p /\ Live(p)' => Live(maptbl[k])'
    BY <1>1 DEF Live, Moved
  <2>3. \A k \in LPN : Mapped(k) => maptbl[k] \in Ppa
    BY DEF Mapped, IInv, TypeOK
  <2> QED
    BY <1>1, <1>2, <2>1, <2>2, <2>3 DEF IInv, MappingCoherent
<1>4. LinesPartitioned'
  BY <1>1, <1>2 DEF IInv, LinesPartitioned
<1>5. ErasedExactly'
  BY <1>1, <1>2 DEF IInv, ErasedExactly
<1>6. LineCountsByRole'
  BY <1>1, <1>2 DEF IInv, LineCountsByRole, Index
<1> QED
  BY <1>3, <1>4, <1>5, <1>6 DEF IInv, FreedAfterLastBlock

-----------------------------------------------------------------------------
\* ssd_init: nothing mapped, one current line and all others free.
LEMMA IInvInit == Init => IInv
<1> SUFFICES ASSUME Init PROVE IInv
  OBVIOUS
<1>1. TypeOK
  BY TypeInit
<1>2. /\ pc = "idle" /\ wp = FirstPpa(0) /\ wp.blk = 0 /\ 0 \in Lines
      /\ maptbl = [l \in LPN |-> UNMAPPED_PPA]
      /\ pgStatus = [p \in Ppa |-> "free"]
      /\ lineIpc = [l \in Lines |-> 0] /\ lineVpc = [l \in Lines |-> 0]
      /\ linePos = [l \in Lines |-> FALSE]
      /\ victimPq = << >> /\ fullList = {}
      /\ freeList = [i \in 1 .. TtLines - 1 |-> i]
      /\ freeCnt = TtLines - 1
  BY GeometryAssumption DEF Init, InitMapping, InitNand, InitLines, InitWritePointer,
     FirstPpa, PpaAt, Lines
<1>3. /\ Victims = {} /\ GcLine = {}
      /\ DOMAIN freeList = 1 .. TtLines - 1
      /\ FreeLines = 1 .. TtLines - 1
  BY <1>2 DEF Victims, GcLine, Collecting, FreeLines
<1>4. MappingCoherent
  BY <1>2 DEF MappingCoherent, Mapped, Live
<1>5. LinesPartitioned
  <2>1. Lines = {0} \cup 1 .. TtLines - 1
    BY GeometryAssumption DEF Lines
  <2>2. Len(freeList) = TtLines - 1
    BY <1>2, <1>3, GeometryAssumption
  <2>3. \A i, j \in DOMAIN freeList : freeList[i] = freeList[j] => i = j
    BY <1>2, <1>3
  <2>4. \A l \in Lines : linePos[l] <=> l \in Victims
    BY <1>2, <1>3
  <2>5. freeCnt = Len(freeList)
    BY <1>2, <2>2
  <2>6. 0 \notin FreeLines
    BY <1>3
  <2>7. Lines = {wp.blk} \cup FreeLines \cup Victims \cup fullList \cup GcLine
    BY <1>2, <1>3, <2>1
  <2> QED
    BY <1>2, <1>3, <2>3, <2>4, <2>5, <2>6, <2>7 DEF LinesPartitioned
<1>6. ErasedExactly
  <2>1. \A p \in Ppa : ~ Programmed(p)
    BY <1>2, BeforeFirst DEF Programmed, Before
  <2>2. \A p \in Ppa : p.blk = 0 \/ p.blk \in 1 .. TtLines - 1
    BY GeometryAssumption DEF Ppa, Lines
  <2> QED
    BY <1>2, <1>3, <2>1, <2>2 DEF ErasedExactly, Erased, Collecting
<1>7. LineCountsByRole
  <2>1. Index(wp) = 0
    BY <1>2, IndexFirst
  <2>2. FreeLines \subseteq Lines
    BY <1>3 DEF Lines
  <2> QED
    BY <1>2, <1>3, <2>1, <2>2 DEF LineCountsByRole
<1> QED
  BY <1>1, <1>2, <1>4, <1>5, <1>6, <1>7 DEF IInv, FreedAfterLastBlock

\* Every step keeps the invariant.
LEMMA IInvStep == IInv /\ [Next]_vars => IInv'
<1> SUFFICES ASSUME IInv, [Next]_vars PROVE IInv'
  OBVIOUS
<1>1. TypeOK'
  BY TypeStep DEF IInv
<1>2. CASE RecvWrite
  BY <1>1, <1>2, ControlStepSafe DEF RecvWrite, Accept
<1>3. CASE RecvRead
  BY <1>1, <1>3, ControlStepSafe DEF RecvRead, Accept
<1>4. CASE RecvOther
  BY <1>1, <1>4, ControlStepSafe DEF RecvOther, Goto
<1>5. CASE ReadPage
  BY <1>1, <1>5, ControlStepSafe DEF ReadPage
<1>6. CASE ForegroundGcDone
  BY <1>1, <1>6, ControlStepSafe DEF ForegroundGcDone
<1>7. CASE ForegroundGc
  BY <1>1, <1>7, SelectVictimSafe DEF ForegroundGc
<1>8. CASE InvalidateOld
  BY <1>1, <1>8, InvalidateOldSafe
<1>9. CASE ProgramPage
  BY <1>1, <1>9, ProgramPageSafe
<1>10. CASE BackgroundGcDone
  BY <1>1, <1>10, ControlStepSafe DEF BackgroundGcDone, Goto
<1>11. CASE BackgroundGc
  BY <1>1, <1>11, SelectVictimSafe DEF BackgroundGc
<1>12. CASE GcCopyPage
  BY <1>1, <1>12, GcCopyPageSafe
<1>13. CASE GcSkipPage
  BY <1>1, <1>13, GcSkipPageSafe
<1>14. CASE GcEraseBlock
  BY <1>1, <1>14, GcEraseBlockSafe
<1>15. CASE GcFreeLine
  BY <1>1, <1>15, GcFreeLineSafe
<1>16. CASE UNCHANGED vars
  <2>1. UNCHANGED <<maptbl, rmap, pgStatus, lineIpc, lineVpc, linePos, victimPq,
                    freeList, freeCnt, fullList, wp, pc, lpn, gcPpa>>
    BY <1>16 DEF vars, mapVars, nandVars, lineVars, reqVars, gcVars
  <2>2. GcLine' = GcLine /\ FreeLines' = FreeLines /\ Victims' = Victims
    BY <2>1 DEF GcLine, Collecting, FreeLines, Victims
  <2>3. MappingCoherent'
    BY <2>1 DEF IInv, MappingCoherent, Mapped, InFlight, Live, Moved, Collecting
  <2>4. LinesPartitioned'
    BY <2>1, <2>2 DEF IInv, LinesPartitioned
  <2>5. ErasedExactly'
    BY <2>1, <2>2 DEF IInv, ErasedExactly, Programmed, Erased, Collecting
  <2>6. LineCountsByRole' /\ FreedAfterLastBlock'
    BY <2>1, <2>2 DEF IInv, LineCountsByRole, Index, FreedAfterLastBlock
  <2> QED
    BY <1>1, <2>3, <2>4, <2>5, <2>6 DEF IInv
<1> QED
  BY <1>2, <1>3, <1>4, <1>5, <1>6, <1>7, <1>8, <1>9, <1>10, <1>11, <1>12, <1>13, <1>14,
     <1>15, <1>16 DEF Next, Recv, Step

\* The inductive invariant holds in every state of every drive.
THEOREM Inductive == Spec => []IInv
<1>1. Init => IInv
  BY IInvInit
<1>2. IInv /\ [Next]_vars => IInv'
  BY IInvStep
<1> QED
  BY <1>1, <1>2, PTL DEF Spec

\* maptbl and rmap agree at every step of every write and collection
\* (ftl.c:891-907, 691-703), for every geometry and every threshold.
THEOREM MappingAlwaysCoherent == Spec => []MappingCoherent
<1>1. IInv => MappingCoherent
  BY DEF IInv
<1> QED
  BY <1>1, Inductive, PTL

\* A line is never lost, never filed twice and never both used and free
\* (struct line_mgmt ftl.h:188-199).
THEOREM LinesAlwaysPartitioned == Spec => []LinesPartitioned
<1>1. IInv => LinesPartitioned
  BY DEF IInv
<1> QED
  BY <1>1, Inductive, PTL

\* The write pointer only ever stands on an erased page: the assertion of
\* mark_page_valid (ftl.c:645) holds on every drive.
THEOREM AlwaysErasedExactly == Spec => []ErasedExactly
<1>1. IInv => ErasedExactly
  BY DEF IInv
<1> QED
  BY <1>1, Inductive, PTL

\* mark_page_invalid and mark_page_valid make no page free.
LEMMA OnlyErasesFree ==
    ASSUME IInv, Next, NEW p \in Ppa, pgStatus[p] # "free", pgStatus'[p] = "free"
    PROVE  pc = "gc_erase" /\ BlkOf(p) = BlkOf(gcPpa)
<1>1. pgStatus \in [Ppa -> PageStatus]
  BY DEF IInv, TypeOK
<1>2. ASSUME pgStatus' = pgStatus PROVE FALSE
  BY <1>2
<1>3. ASSUME NEW q, NEW s, s # "free", pgStatus' = [pgStatus EXCEPT ![q] = s] PROVE FALSE
  BY <1>1, <1>3
<1>4. CASE GcEraseBlock
  BY <1>1, <1>4 DEF GcEraseBlock
<1>5. CASE InvalidateOld
  <2>1. CASE Mapped(lpn)
    BY <1>3, <1>5, <2>1 DEF InvalidateOld, MarkPageInvalid
  <2>2. CASE ~ Mapped(lpn)
    BY <1>2, <1>5, <2>2 DEF InvalidateOld, nandVars
  <2> QED
    BY <2>1, <2>2
<1>6. CASE ProgramPage
  BY <1>3, <1>6 DEF ProgramPage, WritePage, MarkPageValid
<1>7. CASE GcCopyPage
  BY <1>3, <1>7 DEF GcCopyPage, WritePage, MarkPageValid
<1>8. CASE RecvWrite \/ RecvRead \/ RecvOther \/ ReadPage
  BY <1>2, <1>8 DEF RecvWrite, RecvRead, RecvOther, ReadPage, Accept, Goto, nandVars
<1>9. CASE ForegroundGcDone \/ BackgroundGcDone \/ GcSkipPage \/ GcFreeLine
  BY <1>2, <1>9 DEF ForegroundGcDone, BackgroundGcDone, GcSkipPage, GcFreeLine, Goto, nandVars
<1>10. CASE ForegroundGc \/ BackgroundGc
  BY <1>2, <1>10 DEF ForegroundGc, BackgroundGc, SelectVictim, nandVars
<1> QED
  BY <1>4, <1>5, <1>6, <1>7, <1>8, <1>9, <1>10 DEF Next, Recv, Step

\* No erase takes a page away that is still mapped (do_gc ftl.c:803-822).
THEOREM ErasesLoseNothing == Spec => EraseLosesNothing
<1>1. IInv /\ [Next]_vars =>
          [\A p \in Ppa : pgStatus[p] # "free" /\ pgStatus'[p] = "free" =>
              \A l \in LPN : maptbl[l] # p]_vars
  <2> SUFFICES ASSUME IInv, Next, NEW p \in Ppa, pgStatus[p] # "free", pgStatus'[p] = "free",
                      NEW l \in LPN, maptbl[l] = p
               PROVE  FALSE
    OBVIOUS
  <2>1. pc = "gc_erase" /\ BlkOf(p) = BlkOf(gcPpa)
    BY OnlyErasesFree
  <2>2. Mapped(l) /\ ~ InFlight(l)
    BY <2>1, NullAssumption DEF Mapped, InFlight
  <2>3. Live(maptbl[l])
    BY <2>1, <2>2 DEF IInv, MappingCoherent
  <2> QED
    BY <2>1, <2>3 DEF Live, Moved, Collecting
<1> QED
  BY <1>1, Inductive, PTL DEF Spec, EraseLosesNothing
=============================================================================
