--------------------------- MODULE FTL_counters ---------------------------
(***************************************************************************)
(* What FTL's counters say, for every geometry, host and threshold: the    *)
(* numbers of valid and invalid pages kept for blocks and lines are exact, *)
(* so garbage collection picks the cheapest line; and on a drive with some *)
(* over-provisioning the write pointer always finds a free line.           *)
(***************************************************************************)
EXTENDS FTL_proofs, FiniteSetTheorems, WellFoundedInduction

-----------------------------------------------------------------------------
(* Counting pages *)

PagesOf(S)    == {p \in Ppa : p.blk \in S}
LinePages(l)  == {p \in Ppa : p.blk = l}
BlockPages(b) == {p \in Ppa : BlkOf(p) = b}

Count(st, s, S) == Cardinality({p \in S : st[p] = s})

\* The pages of a set of lines: every line has PgsPerLine of them.
LEMMA PagesOfLines ==
    ASSUME NEW S \in SUBSET Lines, IsFiniteSet(S)
    PROVE  /\ IsFiniteSet(PagesOf(S))
           /\ Cardinality(PagesOf(S)) = Cardinality(S) * PgsPerLine
<1> DEFINE InLuns == Luns \X Chs
           Coords == Pgs \X InLuns
           f == [c \in S \X Coords |-> PpaAt(c[1], c[2][1], c[2][2][1], c[2][2][2])]
<1>1. /\ IsFiniteSet(Luns) /\ Cardinality(Luns) = LunsPerCh
      /\ IsFiniteSet(Chs) /\ Cardinality(Chs) = NChs
      /\ IsFiniteSet(Pgs) /\ Cardinality(Pgs) = PgsPerBlk
  <2>1. NChs - 1 \in Int /\ LunsPerCh - 1 \in Int /\ PgsPerBlk - 1 \in Int
    BY GeometryAssumption
  <2> QED
    BY <2>1, FS_Interval, GeometryAssumption DEF Luns, Chs, Pgs
<1>2. IsFiniteSet(InLuns) /\ Cardinality(InLuns) = LunsPerCh * NChs
  BY <1>1, FS_Product
<1>3. IsFiniteSet(Coords) /\ Cardinality(Coords) = PgsPerBlk * (LunsPerCh * NChs)
  <2> HIDE DEF InLuns
  <2> QED
    BY <1>1, <1>2, FS_Product
<1>4. IsFiniteSet(S \X Coords) /\ Cardinality(S \X Coords) = Cardinality(S) * PgsPerLine
  <2>1. PgsPerBlk * (LunsPerCh * NChs) = PgsPerLine
    BY GeometryAssumption DEF PgsPerLine
  <2> HIDE DEF Coords
  <2> QED
    BY <1>3, <2>1, FS_Product
<1>5. f \in Bijection(S \X Coords, PagesOf(S))
  <2>1. ASSUME NEW c \in S \X Coords PROVE f[c] \in PagesOf(S)
    BY <2>1 DEF PagesOf, Ppa, PpaAt
  <2>2. ASSUME NEW c \in S \X Coords, NEW d \in S \X Coords, f[c] = f[d] PROVE c = d
    <3>1. PICK c1 \in S, c2 \in Pgs, c3 \in Luns, c4 \in Chs : c = <<c1, <<c2, <<c3, c4>>>>>>
      OBVIOUS
    <3>2. PICK d1 \in S, d2 \in Pgs, d3 \in Luns, d4 \in Chs : d = <<d1, <<d2, <<d3, d4>>>>>>
      OBVIOUS
    <3>3. f[c] = PpaAt(c1, c2, c3, c4) /\ f[d] = PpaAt(d1, d2, d3, d4)
      BY <3>1, <3>2
    <3>4. c1 = d1 /\ c2 = d2 /\ c3 = d3 /\ c4 = d4
      BY <2>2, <3>3 DEF PpaAt
    <3> QED
      BY <3>1, <3>2, <3>4
  <2>3. ASSUME NEW p \in PagesOf(S) PROVE \E c \in S \X Coords : f[c] = p
    <3>1. <<p.blk, <<p.pg, <<p.lun, p.ch>>>>>> \in S \X Coords
      BY DEF PagesOf, Ppa
    <3>2. f[<<p.blk, <<p.pg, <<p.lun, p.ch>>>>>>] = PpaAt(p.blk, p.pg, p.lun, p.ch)
      BY <3>1
    <3>3. PpaAt(p.blk, p.pg, p.lun, p.ch) = p
      BY DEF PpaAt, PagesOf, Ppa
    <3> QED
      BY <3>1, <3>2, <3>3
  <2> HIDE DEF Coords
  <2>4. f \in [S \X Coords -> PagesOf(S)]
    BY <2>1
  <2> HIDE DEF f
  <2> QED
    BY <2>2, <2>3, <2>4 DEF Bijection, Injection, Surjection, IsInjective
<1> HIDE DEF f, Coords
<1>6. ExistsBijection(S \X Coords, PagesOf(S))
  BY <1>5 DEF ExistsBijection
<1> QED
  BY <1>4, <1>6, FS_Bijection

\* lm->tt_lines.
LEMMA LinesFinite == IsFiniteSet(Lines) /\ Cardinality(Lines) = TtLines
<1>1. TtLines - 1 \in Int
  BY GeometryAssumption
<1> QED
  BY <1>1, FS_Interval, GeometryAssumption DEF Lines

\* The pages of the drive.
LEMMA PpaFinite == IsFiniteSet(Ppa)
<1>1. PagesOf(Lines) = Ppa
  BY DEF PagesOf, Ppa
<1> QED
  BY <1>1, LinesFinite, PagesOfLines

\* A number of pages is a natural number.
LEMMA CountType ==
    ASSUME NEW st, NEW s, NEW S \in SUBSET Ppa
    PROVE  Count(st, s, S) \in Nat /\ IsFiniteSet({p \in S : st[p] = s})
<1>1. {p \in S : st[p] = s} \in SUBSET Ppa
  OBVIOUS
<1> QED
  BY <1>1, PpaFinite, FS_Subset, FS_CardinalityType DEF Count

\* Page q goes from one status to another.
Marks(st, tt, q, new) ==
    /\ st \in [Ppa -> PageStatus] /\ q \in Ppa /\ new \in PageStatus
    /\ st[q] # new
    /\ tt = [st EXCEPT ![q] = new]

\* A page that changes its status is counted under the new one from then on.
LEMMA CountAfter ==
    ASSUME NEW st, NEW tt, NEW q, NEW new, Marks(st, tt, q, new),
           NEW s \in PageStatus, NEW S \in SUBSET Ppa
    PROVE  Count(tt, s, S) =
               IF q \notin S THEN Count(st, s, S)
               ELSE IF s = new THEN Count(st, s, S) + 1
               ELSE IF s = st[q] THEN Count(st, s, S) - 1
               ELSE Count(st, s, S)
<1> DEFINE A == {p \in S : st[p] = s}
           B == {p \in S : tt[p] = s}
<1>1. IsFiniteSet(A)
  BY CountType
<1>2. q \in Ppa /\ st[q] # new /\ \A p \in Ppa : tt[p] = IF p = q THEN new ELSE st[p]
  BY DEF Marks
<1>3. CASE q \notin S
  <2>1. A = B
    BY <1>2, <1>3
  <2> QED
    BY <1>3, <2>1 DEF Count
<1>4. CASE q \in S /\ s = new
  <2>1. B = A \cup {q} /\ q \notin A
    BY <1>2, <1>4
  <2>2. Cardinality(B) = Cardinality(A) + 1
    <3> HIDE DEF A, B
    <3> QED
      BY <1>1, <2>1, FS_AddElement
  <2> QED
    BY <1>4, <2>2 DEF Count
<1>5. CASE q \in S /\ s # new /\ s = st[q]
  <2>1. B = A \ {q} /\ q \in A
    BY <1>2, <1>5
  <2>2. Cardinality(B) = Cardinality(A) - 1
    <3> HIDE DEF A, B
    <3> QED
      BY <1>1, <2>1, FS_RemoveElement
  <2> QED
    BY <1>5, <2>2 DEF Count
<1>6. CASE q \in S /\ s # new /\ s # st[q]
  <2>1. A = B
    BY <1>2, <1>6
  <2> QED
    BY <1>6, <2>1 DEF Count
<1> QED
  BY <1>3, <1>4, <1>5, <1>6

\* A heap that is not empty has a root: among finitely many keys one is least.
LEMMA LeastKey ==
    ASSUME NEW V, IsFiniteSet(V), V # {}, NEW key \in [V -> Int]
    PROVE  \E v \in V : \A w \in V : key[v] <= key[w]
<1> DEFINE Below(v) == {w \in V : key[w] < key[v]}
           T == {Below(v) : v \in V}
           R == StrictSubsetOrdering(V)
<1>1. IsWellFoundedOn(R, SUBSET V)
  BY FS_StrictSubsetOrderingWellFounded, FS_FiniteSubsetsOfFinite
<1>2. T \subseteq SUBSET V /\ T # {}
  <2>1. PICK v \in V : TRUE
    OBVIOUS
  <2>2. Below(v) \in T
    OBVIOUS
  <2> QED
    BY <2>2
<1>3. \E x \in T : \A y \in T : ~ (<<y, x>> \in R)
  <2> HIDE DEF R, T
  <2> QED
    BY <1>1, <1>2, WFMin
<1>4. PICK v \in V : \A w \in V : ~ (<<Below(w), Below(v)>> \in R)
  BY <1>3
<1>5. ASSUME NEW w \in V, key[w] < key[v] PROVE FALSE
  <2>1. w \in Below(v) /\ w \notin Below(w)
    BY <1>5
  <2>2. Below(w) \subseteq Below(v)
    BY <1>5
  <2>3. <<Below(w), Below(v)>> \in R
    BY <2>1, <2>2 DEF StrictSubsetOrdering
  <2> QED
    BY <1>4, <2>3
<1> QED
  BY <1>5

-----------------------------------------------------------------------------
(* The counters are exact *)

BlocksExact ==
    \A b \in Blk : /\ blkIpc[b] = Count(pgStatus, "invalid", BlockPages(b))
                   /\ blkVpc[b] = Count(pgStatus, "valid", BlockPages(b))

LineExact(l) ==
    /\ lineIpc[l] = Count(pgStatus, "invalid", LinePages(l))
    /\ lineVpc[l] = Count(pgStatus, "valid", LinePages(l))

LinesExact == \A l \in Lines \ GcLine : LineExact(l)

\* The heap holds each line under its present vpc.
KeysExact == \A l \in Victims : victimPq[l] = lineVpc[l]

\* The inductive invariant: the rest of CountersExact is in IInv, because the
\* counters decide the roles of the lines.
CInv == IInv /\ (pc # "aborted" => BlocksExact /\ LinesExact /\ KeysExact)

\* What the properties of FTL count is Count.
LEMMA InLineIsCount == \A l, s : InLine(l, s) = Count(pgStatus, s, LinePages(l))
<1> SUFFICES ASSUME NEW l, NEW s PROVE InLine(l, s) = Count(pgStatus, s, LinePages(l))
  OBVIOUS
<1>1. {p \in Pages(s) : p.blk = l} = {p \in LinePages(l) : pgStatus[p] = s}
  BY DEF Pages, LinePages
<1> QED
  BY <1>1 DEF InLine, Count

\* The invariant says at least what the property does.
LEMMA CInvGivesExact == CInv => CountersExact
<1> SUFFICES ASSUME CInv, pc # "aborted" PROVE CountersExact
  BY DEF CountersExact
<1>1. \A b, s : {p \in Pages(s) : BlkOf(p) = b} = {p \in BlockPages(b) : pgStatus[p] = s}
  BY DEF Pages, BlockPages
<1>2. \A b, s : Cardinality({p \in Pages(s) : BlkOf(p) = b}) = Count(pgStatus, s, BlockPages(b))
  BY <1>1 DEF Count
<1>3. \A b \in Blk :
          /\ blkIpc[b] = Cardinality({p \in Pages("invalid") : BlkOf(p) = b})
          /\ blkVpc[b] = Cardinality({p \in Pages("valid") : BlkOf(p) = b})
  BY <1>2 DEF CInv, BlocksExact
<1>4. \A l \in Lines \ GcLine :
          /\ lineIpc[l] = InLine(l, "invalid")
          /\ lineVpc[l] = InLine(l, "valid")
  BY InLineIsCount DEF CInv, LinesExact, LineExact
<1>5. /\ \A l \in fullList : lineVpc[l] = PgsPerLine
      /\ \A l \in Victims : victimPq[l] = lineVpc[l] /\ lineVpc[l] < PgsPerLine
  BY DEF CInv, IInv, LineCountsByRole, KeysExact
<1> QED
  BY <1>3, <1>4, <1>5 DEF CountersExact

\* mark_page_valid and mark_page_invalid count the page they mark, in its
\* block and in its line.
LEMMA MarkedInBlock ==
    ASSUME NEW st, NEW tt, NEW q, NEW new, Marks(st, tt, q, new),
           NEW s \in PageStatus, NEW b
    PROVE  Count(tt, s, BlockPages(b)) =
               IF b # BlkOf(q) THEN Count(st, s, BlockPages(b))
               ELSE IF s = new THEN Count(st, s, BlockPages(b)) + 1
               ELSE IF s = st[q] THEN Count(st, s, BlockPages(b)) - 1
               ELSE Count(st, s, BlockPages(b))
<1> DEFINE S == BlockPages(b)
<1>1. S \in SUBSET Ppa /\ (q \notin S <=> b # BlkOf(q))
  BY DEF BlockPages, Marks
<1> HIDE DEF S
<1>2. Count(tt, s, S) =
          IF q \notin S THEN Count(st, s, S)
          ELSE IF s = new THEN Count(st, s, S) + 1
          ELSE IF s = st[q] THEN Count(st, s, S) - 1
          ELSE Count(st, s, S)
  BY <1>1, CountAfter
<1> QED
  BY <1>1, <1>2 DEF S

\* The same of the line of the page.
LEMMA MarkedInLine ==
    ASSUME NEW st, NEW tt, NEW q, NEW new, Marks(st, tt, q, new),
           NEW s \in PageStatus, NEW l
    PROVE  Count(tt, s, LinePages(l)) =
               IF l # q.blk THEN Count(st, s, LinePages(l))
               ELSE IF s = new THEN Count(st, s, LinePages(l)) + 1
               ELSE IF s = st[q] THEN Count(st, s, LinePages(l)) - 1
               ELSE Count(st, s, LinePages(l))
<1> DEFINE S == LinePages(l)
<1>1. S \in SUBSET Ppa /\ (q \notin S <=> l # q.blk)
  BY DEF LinePages, Marks
<1> HIDE DEF S
<1>2. Count(tt, s, S) =
          IF q \notin S THEN Count(st, s, S)
          ELSE IF s = new THEN Count(st, s, S) + 1
          ELSE IF s = st[q] THEN Count(st, s, S) - 1
          ELSE Count(st, s, S)
  BY <1>1, CountAfter
<1> QED
  BY <1>1, <1>2 DEF S

\* A page written under the write pointer is counted in its block and line.
LEMMA WriteKeepsCounters ==
    ASSUME CInv, pc # "aborted", NEW l, NEW then, WritePage(l, then), GcLine' = GcLine
    PROVE  BlocksExact' /\ LinesExact' /\ KeysExact'
<1> DEFINE cur == wp.blk
<1>1. /\ wp \in Ppa /\ cur \in Lines /\ pgStatus[wp] = "free"
      /\ BlkOf(wp) \in Blk
  BY WpErased, BlkOfType DEF CInv
<1>2. /\ pgStatus \in [Ppa -> PageStatus]
      /\ blkVpc \in [Blk -> Int] /\ lineVpc \in [Lines -> Int]
      /\ "valid" \in PageStatus /\ "invalid" \in PageStatus
  BY DEF CInv, IInv, TypeOK, PageStatus
<1>3. /\ pgStatus' = [pgStatus EXCEPT ![wp] = "valid"]
      /\ blkVpc' = [blkVpc EXCEPT ![BlkOf(wp)] = @ + 1]
      /\ lineVpc' = [lineVpc EXCEPT ![cur] = @ + 1]
      /\ blkIpc' = blkIpc /\ lineIpc' = lineIpc
  BY DEF WritePage, MarkPageValid
<1>4. /\ \A b : /\ Count(pgStatus', "invalid", BlockPages(b)) = Count(pgStatus, "invalid", BlockPages(b))
                /\ Count(pgStatus', "valid", BlockPages(b)) =
                       IF b # BlkOf(wp) THEN Count(pgStatus, "valid", BlockPages(b))
                       ELSE Count(pgStatus, "valid", BlockPages(b)) + 1
      /\ \A k : /\ Count(pgStatus', "invalid", LinePages(k)) = Count(pgStatus, "invalid", LinePages(k))
                /\ Count(pgStatus', "valid", LinePages(k)) =
                       IF k # cur THEN Count(pgStatus, "valid", LinePages(k))
                       ELSE Count(pgStatus, "valid", LinePages(k)) + 1
  <2>1. /\ Marks(pgStatus, pgStatus', wp, "valid")
        /\ pgStatus[wp] # "valid" /\ pgStatus[wp] # "invalid"
    BY <1>1, <1>2, <1>3 DEF Marks
  <2>2. ASSUME NEW b
        PROVE  /\ Count(pgStatus', "invalid", BlockPages(b)) = Count(pgStatus, "invalid", BlockPages(b))
               /\ Count(pgStatus', "valid", BlockPages(b)) =
                      IF b # BlkOf(wp) THEN Count(pgStatus, "valid", BlockPages(b))
                      ELSE Count(pgStatus, "valid", BlockPages(b)) + 1
    BY <1>2, <2>1, MarkedInBlock
  <2>3. ASSUME NEW k
        PROVE  /\ Count(pgStatus', "invalid", LinePages(k)) = Count(pgStatus, "invalid", LinePages(k))
               /\ Count(pgStatus', "valid", LinePages(k)) =
                      IF k # cur THEN Count(pgStatus, "valid", LinePages(k))
                      ELSE Count(pgStatus, "valid", LinePages(k)) + 1
    BY <1>2, <2>1, MarkedInLine
  <2> QED
    BY <2>2, <2>3
<1>5. BlocksExact /\ LinesExact /\ KeysExact
  BY DEF CInv
<1>6. BlocksExact'
  BY <1>1, <1>2, <1>3, <1>4, <1>5 DEF BlocksExact
<1>7. LinesExact'
  BY <1>1, <1>2, <1>3, <1>4, <1>5 DEF LinesExact, LineExact
<1>8. KeysExact'
  <2>1. Victims \subseteq Lines /\ cur \notin Victims
    BY DEF CInv, IInv, LinesPartitioned
  <2>2. \A k \in Victims : victimPq[k] = lineVpc'[k]
    BY <1>2, <1>3, <1>5, <2>1 DEF KeysExact
  <2>3. victimPq' = victimPq \/ victimPq' = PqInsert(victimPq, cur, lineVpc[cur] + 1)
    BY DEF WritePage, AdvanceWritePointer, FileLine
  <2>4. lineVpc'[cur] = lineVpc[cur] + 1
    BY <1>1, <1>2, <1>3
  <2> QED
    BY <2>2, <2>3, <2>4 DEF KeysExact, Victims, PqInsert
<1> QED
  BY <1>6, <1>7, <1>8

\* A page marked invalid moves from the valid ones to the invalid ones of its
\* block and line, and its line is re-keyed or filed as a victim.
LEMMA InvalidateKeepsCounters ==
    ASSUME CInv, pc = "invalidate", pc' = "program",
           NEW m \in Ppa, pgStatus[m] = "valid", MarkPageInvalid(m)
    PROVE  BlocksExact' /\ LinesExact' /\ KeysExact'
<1> DEFINE b0 == m.blk
           vpc == lineVpc[b0] - 1
<1>1. b0 \in Lines /\ BlkOf(m) \in Blk
  BY BlkOfType DEF Ppa
<1>2. /\ pgStatus \in [Ppa -> PageStatus]
      /\ blkVpc \in [Blk -> Int] /\ lineVpc \in [Lines -> Int]
      /\ blkIpc \in [Blk -> Int] /\ lineIpc \in [Lines -> Int]
      /\ "valid" \in PageStatus /\ "invalid" \in PageStatus
  BY DEF CInv, IInv, TypeOK, PageStatus
<1>3. /\ pgStatus' = [pgStatus EXCEPT ![m] = "invalid"]
      /\ blkIpc' = [blkIpc EXCEPT ![BlkOf(m)] = @ + 1]
      /\ blkVpc' = [blkVpc EXCEPT ![BlkOf(m)] = @ - 1]
      /\ lineIpc' = [lineIpc EXCEPT ![b0] = @ + 1]
      /\ lineVpc' = [lineVpc EXCEPT ![b0] = vpc]
  BY DEF MarkPageInvalid
<1>4. /\ \A b : /\ Count(pgStatus', "invalid", BlockPages(b)) =
                       IF b # BlkOf(m) THEN Count(pgStatus, "invalid", BlockPages(b))
                       ELSE Count(pgStatus, "invalid", BlockPages(b)) + 1
                /\ Count(pgStatus', "valid", BlockPages(b)) =
                       IF b # BlkOf(m) THEN Count(pgStatus, "valid", BlockPages(b))
                       ELSE Count(pgStatus, "valid", BlockPages(b)) - 1
      /\ \A k : /\ Count(pgStatus', "invalid", LinePages(k)) =
                       IF k # b0 THEN Count(pgStatus, "invalid", LinePages(k))
                       ELSE Count(pgStatus, "invalid", LinePages(k)) + 1
                /\ Count(pgStatus', "valid", LinePages(k)) =
                       IF k # b0 THEN Count(pgStatus, "valid", LinePages(k))
                       ELSE Count(pgStatus, "valid", LinePages(k)) - 1
  <2>0. Marks(pgStatus, pgStatus', m, "invalid")
    BY <1>2, <1>3 DEF Marks
  <2>1. ASSUME NEW b
        PROVE  /\ Count(pgStatus', "invalid", BlockPages(b)) =
                      IF b # BlkOf(m) THEN Count(pgStatus, "invalid", BlockPages(b))
                      ELSE Count(pgStatus, "invalid", BlockPages(b)) + 1
               /\ Count(pgStatus', "valid", BlockPages(b)) =
                      IF b # BlkOf(m) THEN Count(pgStatus, "valid", BlockPages(b))
                      ELSE Count(pgStatus, "valid", BlockPages(b)) - 1
    BY <1>2, <2>0, MarkedInBlock
  <2>2. ASSUME NEW k
        PROVE  /\ Count(pgStatus', "invalid", LinePages(k)) =
                      IF k # b0 THEN Count(pgStatus, "invalid", LinePages(k))
                      ELSE Count(pgStatus, "invalid", LinePages(k)) + 1
               /\ Count(pgStatus', "valid", LinePages(k)) =
                      IF k # b0 THEN Count(pgStatus, "valid", LinePages(k))
                      ELSE Count(pgStatus, "valid", LinePages(k)) - 1
    BY <1>2, <2>0, MarkedInLine
  <2> QED
    BY <2>1, <2>2
<1>5. BlocksExact /\ LinesExact /\ KeysExact /\ GcLine = {} /\ GcLine' = {}
  BY DEF CInv, GcLine, Collecting
<1>6. BlocksExact'
  BY <1>1, <1>2, <1>3, <1>4, <1>5 DEF BlocksExact
<1>7. LinesExact'
  BY <1>1, <1>2, <1>3, <1>4, <1>5 DEF LinesExact, LineExact
<1>8. KeysExact'
  <2>1. Victims \subseteq Lines /\ \A x \in Lines : linePos[x] <=> x \in Victims
    BY DEF CInv, IInv, LinesPartitioned
  <2>2. \A k \in Victims : k # b0 => victimPq[k] = lineVpc'[k]
    BY <1>2, <1>3, <1>5, <2>1 DEF KeysExact
  <2>3. \/ victimPq' = PqInsert(victimPq, b0, vpc)
        \/ victimPq' = [victimPq EXCEPT ![b0] = vpc]
        \/ victimPq' = victimPq /\ b0 \notin Victims
    BY <1>1, <2>1 DEF MarkPageInvalid
  <2>4. lineVpc'[b0] = vpc
    BY <1>1, <1>2, <1>3
  <2> HIDE DEF vpc, b0
  <2> QED
    BY <2>2, <2>3, <2>4 DEF KeysExact, Victims, PqInsert
<1> QED
  BY <1>6, <1>7, <1>8

\* mark_block_free leaves the other blocks and lines alone.
LEMMA EraseKeepsCounters ==
    ASSUME CInv, GcEraseBlock
    PROVE  BlocksExact' /\ LinesExact' /\ KeysExact'
<1> DEFINE g == BlkOf(gcPpa)
<1>1. /\ pc = "gc_erase" /\ gcPpa \in Ppa /\ g \in Blk
      /\ pgStatus' = [p \in Ppa |-> IF BlkOf(p) = g THEN "free" ELSE pgStatus[p]]
      /\ blkIpc' = [blkIpc EXCEPT ![g] = 0]
      /\ blkVpc' = [blkVpc EXCEPT ![g] = 0]
      /\ UNCHANGED <<lineIpc, lineVpc, victimPq>>
  BY BlkOfType DEF GcEraseBlock, lineVars, CInv, IInv, TypeOK
<1>2. GcLine = {gcPpa.blk} /\ GcLine' = GcLine
  <2>1. GcLine' = GcLine
    BY <1>1, EraseProgress DEF CInv, IInv
  <2> QED
    BY <1>1, <2>1 DEF GcLine, Collecting
<1>3. /\ BlocksExact /\ LinesExact /\ KeysExact
      /\ blkIpc \in [Blk -> Int] /\ blkVpc \in [Blk -> Int]
  BY <1>1 DEF CInv, IInv, TypeOK
<1>4. \A b, s : b # g => Count(pgStatus', s, BlockPages(b)) = Count(pgStatus, s, BlockPages(b))
  <2> SUFFICES ASSUME NEW b, NEW s, b # g
               PROVE  Count(pgStatus', s, BlockPages(b)) = Count(pgStatus, s, BlockPages(b))
    OBVIOUS
  <2>1. {p \in BlockPages(b) : pgStatus'[p] = s} = {p \in BlockPages(b) : pgStatus[p] = s}
    BY <1>1 DEF BlockPages
  <2> QED
    BY <2>1 DEF Count
<1>5. \A s : s # "free" => Count(pgStatus', s, BlockPages(g)) = 0
  <2> SUFFICES ASSUME NEW s, s # "free" PROVE Count(pgStatus', s, BlockPages(g)) = 0
    OBVIOUS
  <2>1. {p \in BlockPages(g) : pgStatus'[p] = s} = {}
    BY <1>1 DEF BlockPages
  <2> QED
    BY <2>1, FS_EmptySet DEF Count
<1>6. \A k \in Lines \ GcLine : \A s : Count(pgStatus', s, LinePages(k)) = Count(pgStatus, s, LinePages(k))
  <2> SUFFICES ASSUME NEW k \in Lines \ GcLine, NEW s
               PROVE  Count(pgStatus', s, LinePages(k)) = Count(pgStatus, s, LinePages(k))
    OBVIOUS
  <2>1. {p \in LinePages(k) : pgStatus'[p] = s} = {p \in LinePages(k) : pgStatus[p] = s}
    BY <1>1, <1>2 DEF LinePages, BlkOf
  <2> QED
    BY <2>1 DEF Count
<1> HIDE DEF g
<1>7. BlocksExact'
  BY <1>1, <1>3, <1>4, <1>5 DEF BlocksExact
<1>8. LinesExact'
  BY <1>1, <1>2, <1>3, <1>6 DEF LinesExact, LineExact
<1>9. KeysExact'
  BY <1>1, <1>3 DEF KeysExact, Victims
<1> QED
  BY <1>7, <1>8, <1>9

\* mark_line_free: the line has been erased throughout, so 0 is right.
LEMMA FreeLineKeepsCounters ==
    ASSUME CInv, GcFreeLine
    PROVE  BlocksExact' /\ LinesExact' /\ KeysExact'
<1> DEFINE g == gcPpa.blk
<1>1. /\ pc = "gc_free" /\ gcPpa \in Ppa /\ g \in Lines /\ ~ Collecting'
      /\ lineIpc' = [lineIpc EXCEPT ![g] = 0]
      /\ lineVpc' = [lineVpc EXCEPT ![g] = 0]
      /\ UNCHANGED <<pgStatus, blkIpc, blkVpc, victimPq>>
  BY DEF GcFreeLine, nandVars, Collecting, CInv, IInv, TypeOK, Ppa
<1>2. GcLine = {g} /\ GcLine' = {}
  BY <1>1 DEF GcLine, Collecting
<1>3. /\ BlocksExact /\ LinesExact /\ KeysExact
      /\ lineIpc \in [Lines -> Int] /\ lineVpc \in [Lines -> Int]
  BY <1>1 DEF CInv, IInv, TypeOK
<1>4. \A p \in LinePages(g) : pgStatus[p] = "free"
  <2>1. gcPpa.lun = LunsPerCh - 1 /\ gcPpa.ch = NChs - 1
    BY <1>1 DEF CInv, IInv, FreedAfterLastBlock, LastBlock
  <2>2. \A p \in LinePages(g) : Erased(p)
    BY <1>1, <2>1, GeometryAssumption DEF LinePages, Erased, Collecting, Ppa, Luns, Chs
  <2> QED
    BY <1>1, <2>2 DEF CInv, IInv, ErasedExactly, LinePages
<1>5. \A s : s # "free" => Count(pgStatus, s, LinePages(g)) = 0
  <2> SUFFICES ASSUME NEW s, s # "free" PROVE Count(pgStatus, s, LinePages(g)) = 0
    OBVIOUS
  <2>1. {p \in LinePages(g) : pgStatus[p] = s} = {}
    BY <1>4
  <2> QED
    BY <2>1, FS_EmptySet DEF Count
<1> HIDE DEF g
<1>6. BlocksExact'
  BY <1>1, <1>3 DEF BlocksExact
<1>7. LinesExact'
  BY <1>1, <1>2, <1>3, <1>5 DEF LinesExact, LineExact
<1>8. KeysExact'
  <2>1. g \notin Victims /\ Victims \subseteq Lines
    BY <1>1, <1>2 DEF CInv, IInv, LinesPartitioned
  <2> QED
    BY <1>1, <1>3, <2>1 DEF KeysExact, Victims
<1> QED
  BY <1>6, <1>7, <1>8

\* select_victim_line takes a line out of the queue.
LEMMA SelectKeepsCounters ==
    ASSUME CInv, pc \in {"gc_high", "complete"}, NEW force, SelectVictim(force)
    PROVE  BlocksExact' /\ LinesExact' /\ KeysExact'
<1>1. PICK v \in PqPeek :
          /\ victimPq' = PqRemove(victimPq, v)
          /\ UNCHANGED <<pgStatus, blkIpc, blkVpc, lineIpc, lineVpc>>
  BY DEF SelectVictim, nandVars
<1>2. BlocksExact /\ LinesExact /\ KeysExact /\ GcLine = {}
  BY DEF CInv, GcLine, Collecting
<1>3. BlocksExact' /\ LinesExact'
  BY <1>1, <1>2 DEF BlocksExact, LinesExact, LineExact
<1>4. KeysExact'
  BY <1>1, <1>2 DEF KeysExact, Victims, PqRemove
<1> QED
  BY <1>3, <1>4

\* Steps that mark no page and file no line.
LEMMA OtherStepKeepsCounters ==
    ASSUME CInv, pc # "aborted", GcLine' = GcLine,
           UNCHANGED <<pgStatus, blkIpc, blkVpc, lineIpc, lineVpc, victimPq>>
    PROVE  BlocksExact' /\ LinesExact' /\ KeysExact'
<1>1. BlocksExact /\ LinesExact /\ KeysExact
  BY DEF CInv
<1> QED
  BY <1>1 DEF BlocksExact, LinesExact, LineExact, KeysExact, Victims

\* ssd_init: all pages are free and all counters 0.
LEMMA CInvInit == Init => CInv
<1> SUFFICES ASSUME Init PROVE CInv
  OBVIOUS
<1>1. /\ pgStatus = [p \in Ppa |-> "free"]
      /\ blkIpc = [b \in Blk |-> 0] /\ blkVpc = [b \in Blk |-> 0]
      /\ lineIpc = [l \in Lines |-> 0] /\ lineVpc = [l \in Lines |-> 0]
      /\ victimPq = << >>
  BY DEF Init, InitNand, InitLines
<1>2. ASSUME NEW s, s # "free", NEW S \in SUBSET Ppa PROVE Count(pgStatus, s, S) = 0
  <2>1. {p \in S : pgStatus[p] = s} = {}
    BY <1>1, <1>2
  <2> QED
    BY <2>1, FS_EmptySet DEF Count
<1>3. \A b : BlockPages(b) \in SUBSET Ppa /\ LinePages(b) \in SUBSET Ppa
  BY DEF BlockPages, LinePages
<1>4. BlocksExact /\ LinesExact /\ KeysExact
  BY <1>1, <1>2, <1>3 DEF BlocksExact, LinesExact, LineExact, KeysExact, Victims
<1> QED
  BY <1>4, IInvInit DEF CInv

\* Every step keeps the counters exact.
LEMMA CInvStep == CInv /\ [Next]_vars => CInv'
<1> SUFFICES ASSUME CInv, [Next]_vars, pc' # "aborted"
             PROVE  BlocksExact' /\ LinesExact' /\ KeysExact'
  BY IInvStep DEF CInv
<1>1. pgStatus \in [Ppa -> PageStatus] /\ TypeOK
  BY DEF CInv, IInv, TypeOK
<1>2. CASE RecvWrite \/ RecvRead \/ RecvOther \/ ReadPage \/ ForegroundGcDone \/ BackgroundGcDone
  <2>1. /\ pc # "aborted" /\ GcLine' = GcLine
        /\ UNCHANGED <<pgStatus, blkIpc, blkVpc, lineIpc, lineVpc, victimPq>>
    BY <1>2 DEF RecvWrite, RecvRead, RecvOther, Accept, Goto, ReadPage, ForegroundGcDone,
       BackgroundGcDone, nandVars, lineVars, GcLine, Collecting
  <2> QED
    BY <2>1, OtherStepKeepsCounters
<1>3. CASE ForegroundGc \/ BackgroundGc
  BY <1>3, SelectKeepsCounters DEF ForegroundGc, BackgroundGc
<1>4. CASE InvalidateOld
  <2>1. pc = "invalidate" /\ pc' = "program" /\ GcLine' = GcLine
    BY <1>4 DEF InvalidateOld, GcLine, Collecting
  <2>2. CASE Mapped(lpn)
    <3>1. maptbl[lpn] \in Ppa /\ pgStatus[maptbl[lpn]] = "valid"
      BY <1>1, <2>1, <2>2 DEF TypeOK, Mapped, InFlight, Live, CInv, IInv, MappingCoherent
    <3> QED
      BY <1>4, <2>1, <2>2, <3>1, InvalidateKeepsCounters DEF InvalidateOld
  <2>3. CASE ~ Mapped(lpn)
    <3>1. UNCHANGED <<pgStatus, blkIpc, blkVpc, lineIpc, lineVpc, victimPq>>
      BY <1>4, <2>3 DEF InvalidateOld, nandVars, lineVars
    <3> QED
      BY <2>1, <3>1, OtherStepKeepsCounters
  <2> QED
    BY <2>2, <2>3
<1>5. CASE ProgramPage
  <2>1. /\ pc = "program" /\ \E then : WritePage(lpn, then)
        /\ pc' \in {"invalidate", "complete", "aborted"}
    BY <1>5 DEF ProgramPage, WritePage
  <2>2. GcLine' = GcLine
    BY <2>1 DEF GcLine, Collecting
  <2> QED
    BY <2>1, <2>2, WriteKeepsCounters
<1>6. CASE GcCopyPage
  <2>1. /\ pc = "gc_page" /\ WritePage(rmap[gcPpa], AfterGcPage)
        /\ GcNextPage /\ pc' = AfterGcPage
    BY <1>6 DEF GcCopyPage, WritePage
  <2>2. GcLine' = GcLine
    BY <1>1, <2>1, GcPagePassed
  <2> QED
    BY <2>1, <2>2, WriteKeepsCounters
<1>7. CASE GcSkipPage
  <2>1. /\ pc = "gc_page" /\ GcNextPage /\ pc' = AfterGcPage
        /\ UNCHANGED <<pgStatus, blkIpc, blkVpc, lineIpc, lineVpc, victimPq>>
    BY <1>7 DEF GcSkipPage, nandVars, lineVars
  <2>2. GcLine' = GcLine
    BY <1>1, <2>1, GcPagePassed
  <2> QED
    BY <2>1, <2>2, OtherStepKeepsCounters
<1>8. CASE GcEraseBlock
  BY <1>8, EraseKeepsCounters
<1>9. CASE GcFreeLine
  BY <1>9, FreeLineKeepsCounters
<1>10. CASE UNCHANGED vars
  <2>1. /\ pc # "aborted" /\ GcLine' = GcLine
        /\ UNCHANGED <<pgStatus, blkIpc, blkVpc, lineIpc, lineVpc, victimPq>>
    BY <1>10 DEF vars, nandVars, lineVars, gcVars, GcLine, Collecting
  <2> QED
    BY <2>1, OtherStepKeepsCounters
<1> QED
  BY <1>2, <1>3, <1>4, <1>5, <1>6, <1>7, <1>8, <1>9, <1>10 DEF Next, Recv, Step

\* The counters are exact in every state of every drive.
THEOREM CountersInductive == Spec => []CInv
BY CInvInit, CInvStep, PTL DEF Spec

\* ipc and vpc of every block and line are exact, and the queue holds each
\* victim under its present vpc, at every step of every write and collection
\* (the assertions at ftl.c:606-619, 650, 656, 772).
THEOREM CountersAlwaysExact == Spec => []CountersExact
BY CountersInductive, CInvGivesExact, PTL

\* do_gc always collects a line with the fewest valid pages (ftl.c:621-626,
\* 706-727): the heap's keys are never stale.
THEOREM VictimAlwaysCheapest == Spec => GreedyVictim
<1>1. CInv /\ [Next]_vars =>
          [(pc \in {"gc_high", "complete"} /\ pc' = "gc_page") =>
              \A v \in Victims : InLine(gcPpa'.blk, "valid") <= InLine(v, "valid")]_vars
  <2> SUFFICES ASSUME CInv, Next, pc \in {"gc_high", "complete"}, pc' = "gc_page",
                      NEW w \in Victims
               PROVE  InLine(gcPpa'.blk, "valid") <= InLine(w, "valid")
    OBVIOUS
  <2>1. ForegroundGc \/ BackgroundGc
    BY DEF Next, Recv, Step, RecvWrite, RecvRead, RecvOther, Accept, Goto, ReadPage,
       ForegroundGcDone, InvalidateOld, ProgramPage, BackgroundGcDone, GcCopyPage, GcSkipPage,
       GcEraseBlock, GcFreeLine
  <2>2. PICK v \in PqPeek : gcPpa' = FirstPpa(v)
    BY <2>1 DEF ForegroundGc, BackgroundGc, SelectVictim
  <2>3. v \in Victims /\ gcPpa'.blk = v /\ victimPq[v] <= victimPq[w]
    BY <2>2 DEF PqPeek, Victims, FirstPpa, PpaAt
  <2>4. \A l \in Victims : victimPq[l] = InLine(l, "valid")
    <3>1. GcLine = {} /\ Victims \subseteq Lines
      BY DEF GcLine, Collecting, CInv, IInv, LinesPartitioned
    <3> QED
      BY <3>1, InLineIsCount DEF CInv, KeysExact, LinesExact, LineExact
  <2> QED
    BY <2>3, <2>4
<1> QED
  BY <1>1, CountersInductive, PTL DEF Spec, GreedyVictim

-----------------------------------------------------------------------------
(* The write pointer always finds a free line *)

\* The pages that can be programmed before ssd_advance_write_pointer aborts.
Room == freeCnt * PgsPerLine + PgsPerLine - Index(wp)

\* The pages a collection still has to copy.
StillLive == {p \in LinePages(gcPpa.blk) : Live(p)}

\* Between requests more than a line is free, which is room for any collection;
\* foreground collection makes room for the request on top of it; and a victim
\* has an invalid page, so its live pages fit into what is left of the current
\* line and one other.
Enough ==
    /\ pc # "aborted"
    /\ endLpn - lpn < GcThresLinesHigh * PgsPerLine
    /\ pc \in {"idle", "read", "gc_high", "complete"} => Room > PgsPerLine
    /\ pc \in {"invalidate", "program"} =>
           Room > PgsPerLine + 1 /\ Room > PgsPerLine + 1 + (endLpn - lpn)
    /\ Collecting => Room > 1 + Cardinality(StillLive)

RInv == CInv /\ Enough

\* The sizes the arithmetic below is about.
LEMMA Sizes ==
    /\ PgsPerLine \in Nat /\ PgsPerLine >= 1
    /\ TtLines \in Nat /\ NumLpns \in Nat /\ GcThresLinesHigh \in Int
<1>1. NChs * LunsPerCh \in Nat \ {0}
  BY GeometryAssumption
<1>2. NChs * LunsPerCh * PgsPerBlk \in Nat \ {0}
  <2> DEFINE k == NChs * LunsPerCh
  <2>1. k \in Nat \ {0} /\ PgsPerBlk \in Nat \ {0}
    BY <1>1, GeometryAssumption
  <2> HIDE DEF k
  <2>2. k * PgsPerBlk \in Nat \ {0}
    BY <2>1
  <2> QED
    BY <2>2 DEF k
<1> QED
  BY <1>2, GeometryAssumption, HostAssumption, ThresholdAssumption DEF PgsPerLine

\* The room left is a number, and free_line_cnt the length of the list.
LEMMA RoomType ==
    ASSUME IInv, pc # "aborted"
    PROVE  /\ freeCnt \in Nat /\ freeCnt = Len(freeList)
           /\ Index(wp) \in Nat /\ Index(wp) < PgsPerLine
           /\ freeCnt * PgsPerLine \in Nat
           /\ Room \in Int
<1>1. freeCnt = Len(freeList) /\ freeList \in Seq(Lines) /\ wp \in Ppa
  BY DEF IInv, TypeOK, LinesPartitioned
<1>2. freeCnt \in Nat
  BY <1>1
<1>3. Index(wp) \in Nat /\ Index(wp) < PgsPerLine
  BY <1>1, IndexRange
<1>4. freeCnt * PgsPerLine \in Nat
  BY <1>2, Sizes
<1> QED
  BY <1>1, <1>2, <1>3, <1>4, Sizes DEF Room

\* A page written takes one page of room, and aborts only for the last.
LEMMA WriteTakesOnePage ==
    ASSUME IInv, pc # "aborted", NEW l, NEW then, WritePage(l, then), Room > 1
    PROVE  Room' = Room - 1 /\ pc' = then
<1>1. /\ wp \in Ppa /\ freeList \in Seq(Lines)
      /\ pc' = IF Aborts THEN "aborted" ELSE then
      /\ AdvanceWritePointer(lineVpc[wp.blk] + 1)
  BY DEF IInv, TypeOK, WritePage
<1>2. /\ freeCnt \in Nat /\ freeCnt = Len(freeList)
      /\ Index(wp) \in Nat
      /\ freeCnt * PgsPerLine \in Nat
  BY RoomType
<1>3. CASE ~ LastOfLine(wp)
  <2>1. wp' = NextInLine(wp) /\ freeCnt' = freeCnt /\ ~ Aborts
    BY <1>1, <1>3 DEF AdvanceWritePointer, Aborts
  <2>2. Index(wp') = Index(wp) + 1
    BY <1>1, <1>3, <2>1, IndexNext
  <2>3. Room' = freeCnt * PgsPerLine + PgsPerLine - Index(wp')
    BY <2>1 DEF Room, Index
  <2> QED
    BY <1>1, <1>2, <2>1, <2>2, <2>3, Sizes DEF Room
<1>4. CASE LastOfLine(wp)
  <2>1. Index(wp) + 1 = PgsPerLine
    BY <1>1, <1>4, IndexLast
  <2>2. Room = freeCnt * PgsPerLine + 1
    BY <1>2, <2>1, Sizes DEF Room
  <2>3. freeCnt # 0
    BY <2>2, Sizes
  <2>4. ~ NoFreeLine
    BY <1>2, <2>3 DEF NoFreeLine
  <2>5. freeCnt' = freeCnt - 1 /\ wp' = FirstPpa(Head(freeList)) /\ ~ Aborts
    BY <1>1, <1>4, <2>4 DEF AdvanceWritePointer, Aborts
  <2>6. Head(freeList) \in Lines
    BY <1>1, <2>4 DEF NoFreeLine
  <2>7. Index(wp') = 0
    BY <2>5, <2>6, IndexFirst
  <2>8. Room' = (freeCnt - 1) * PgsPerLine + PgsPerLine - 0
    BY <2>5, <2>7 DEF Room, Index
  <2>9. (freeCnt - 1) * PgsPerLine + PgsPerLine = freeCnt * PgsPerLine
    BY <1>2, Sizes
  <2> QED
    BY <1>1, <1>2, <2>2, <2>5, <2>8, <2>9, Sizes
<1> QED
  BY <1>3, <1>4

\* The pages of an accepted request fit into the lines foreground collection
\* keeps free.
LEMMA RequestFits ==
    ASSUME WellProvisioned, NEW s \in Nat, NEW n \in 1 .. MaxNlb
    PROVE  (s + n - 1) \div SecsPerPg - s \div SecsPerPg < GcThresLinesHigh * PgsPerLine
<1> DEFINE S == SecsPerPg
           a == s \div S
           b == (s + n - 1) \div S
           e == (MaxNlb + S - 2) \div S
<1>1. S \in Nat \ {0} /\ MaxNlb \in Nat \ {0}
  BY HostAssumption
<1>2. a \in Nat /\ s < S * (a + 1)
  BY <1>1
<1>3. b \in Nat /\ S * b <= s + n - 1
  BY <1>1
<1>4. e \in Nat /\ MaxNlb + S - 2 < S * (e + 1)
  <2> DEFINE x == MaxNlb + S - 2
  <2>1. x \in Nat \/ x = -1
    BY <1>1
  <2>2. x # -1
    BY <1>1
  <2> HIDE DEF x
  <2> QED
    BY <1>1, <2>1, <2>2 DEF x
<1>5. e < GcThresLinesHigh * PgsPerLine
  BY DEF WellProvisioned
<1>6. ~ (b - a > e)
  <2> SUFFICES ASSUME b >= a + e + 1 PROVE FALSE
    BY <1>2, <1>3, <1>4
  <2> HIDE DEF a, b, e, S
  <2>1. S * (b - (a + e + 1)) >= 0
    BY <1>1, <1>2, <1>3, <1>4
  <2>2. S * (b - (a + e + 1)) = S * b - S * (a + 1) - S * (e + 1) + S
    BY <1>1, <1>2, <1>3, <1>4
  <2>3. S * b \in Int /\ S * (a + 1) \in Int /\ S * (e + 1) \in Int
    BY <1>1, <1>2, <1>3, <1>4
  <2>4. S * b >= S * (a + 1) + S * (e + 1) - S
    BY <1>1, <2>1, <2>2, <2>3
  <2> QED
    BY <1>1, <1>2, <1>3, <1>4, <2>3, <2>4
<1>7. GcThresLinesHigh * PgsPerLine \in Int
  BY Sizes
<1> HIDE DEF a, b, e
<1>8. b - a < GcThresLinesHigh * PgsPerLine
  BY <1>2, <1>3, <1>4, <1>5, <1>6, <1>7
<1> QED
  BY <1>8 DEF a, b

\* A well-provisioned drive has a foreground threshold.
LEMMA ProvisionPositive == WellProvisioned => 0 < GcThresLinesHigh * PgsPerLine
<1> SUFFICES ASSUME WellProvisioned PROVE 0 < GcThresLinesHigh * PgsPerLine
  OBVIOUS
<1>1. 0 \in Nat /\ 1 \in 1 .. MaxNlb /\ SecsPerPg \in Nat \ {0}
  BY HostAssumption
<1>2. (0 + 1 - 1) \div SecsPerPg - 0 \div SecsPerPg < GcThresLinesHigh * PgsPerLine
  BY <1>1, RequestFits
<1>3. 0 \div SecsPerPg \in Int
  BY <1>1
<1> QED
  BY <1>2, <1>3

\* All pages of a full line are valid.
LEMMA FullLinesValid ==
    ASSUME CInv, pc # "aborted", NEW p \in PagesOf(fullList)
    PROVE  pgStatus[p] = "valid"
<1> DEFINE l == p.blk
           V == {q \in LinePages(l) : pgStatus[q] = "valid"}
<1>1. /\ p \in Ppa /\ l \in fullList /\ l \in Lines /\ l \notin GcLine
      /\ lineVpc[l] = PgsPerLine
  BY DEF PagesOf, CInv, IInv, LinesPartitioned, LineCountsByRole
<1>2. Cardinality(V) = PgsPerLine
  BY <1>1 DEF CInv, LinesExact, LineExact, Count
<1>3. IsFiniteSet(LinePages(l)) /\ Cardinality(LinePages(l)) = PgsPerLine
  <2>1. LinePages(l) = PagesOf({l})
    BY DEF LinePages, PagesOf
  <2>2. {l} \in SUBSET Lines /\ IsFiniteSet({l}) /\ Cardinality({l}) = 1
    BY <1>1, FS_Singleton
  <2>3. IsFiniteSet(PagesOf({l})) /\ Cardinality(PagesOf({l})) = 1 * PgsPerLine
    BY <2>2, PagesOfLines
  <2> QED
    BY <2>1, <2>3, Sizes
<1>4. V \in SUBSET LinePages(l)
  OBVIOUS
<1>5. V = LinePages(l)
  <2> HIDE DEF V, l
  <2> QED
    BY <1>2, <1>3, <1>4, FS_Subset
<1> QED
  BY <1>1, <1>5 DEF LinePages

\* No more lines are full than the data can fill.
LEMMA FullLinesBounded ==
    ASSUME CInv, pc \in {"gc_high", "complete"}
    PROVE  IsFiniteSet(fullList) /\ Cardinality(fullList) * PgsPerLine <= NumLpns
<1>1. fullList \in SUBSET Lines /\ IsFiniteSet(fullList)
  <2>1. fullList \in SUBSET Lines
    BY DEF CInv, IInv, TypeOK
  <2> QED
    BY <2>1, LinesFinite, FS_Subset
<1>2. /\ IsFiniteSet(PagesOf(fullList))
      /\ Cardinality(PagesOf(fullList)) = Cardinality(fullList) * PgsPerLine
  BY <1>1, PagesOfLines
<1>3. IsFiniteSet(LPN) /\ Cardinality(LPN) = NumLpns
  <2>1. NumLpns - 1 \in Int
    BY Sizes
  <2> QED
    BY <2>1, FS_Interval, Sizes, HostAssumption DEF LPN
<1> DEFINE f == [p \in PagesOf(fullList) |-> rmap[p]]
<1>4. ASSUME NEW p \in PagesOf(fullList) PROVE f[p] \in LPN /\ maptbl[f[p]] = p
  <2>1. p \in Ppa /\ pgStatus[p] = "valid"
    BY FullLinesValid DEF PagesOf
  <2>2. Live(p)
    BY <2>1 DEF Live, Moved, Collecting
  <2> QED
    BY <2>1, <2>2 DEF CInv, IInv, MappingCoherent
<1>5. f \in [PagesOf(fullList) -> LPN]
  BY <1>4
<1> HIDE DEF f
<1>6. f \in Injection(PagesOf(fullList), LPN)
  BY <1>4, <1>5 DEF Injection, IsInjective
<1>7. Cardinality(PagesOf(fullList)) <= Cardinality(LPN)
  BY <1>3, <1>6, FS_Injection
<1> QED
  BY <1>1, <1>2, <1>3, <1>7

\* When nothing is left to collect, more lines are free than the threshold asks.
LEMMA FreeWithoutVictims ==
    ASSUME WellProvisioned, CInv, pc \in {"gc_high", "complete"}, Victims = {}
    PROVE  freeCnt > GcThresLinesHigh
<1> DEFINE A == Lines \ {wp.blk}
           F == Cardinality(fullList)
<1>1. /\ Lines = {wp.blk} \cup FreeLines \cup fullList
      /\ wp.blk \notin FreeLines \cup fullList
      /\ FreeLines \cap fullList = {}
      /\ freeCnt = Len(freeList) /\ freeList \in Seq(Lines)
  BY DEF CInv, IInv, TypeOK, LinesPartitioned, GcLine, Collecting
<1>2. IsFiniteSet(FreeLines) /\ Cardinality(FreeLines) <= freeCnt
  <2>1. freeList \in [1 .. freeCnt -> FreeLines] /\ freeCnt \in Nat
    BY <1>1 DEF FreeLines
  <2>2. freeList \in Surjection(1 .. freeCnt, FreeLines)
    BY <2>1 DEF Surjection, FreeLines
  <2>3. IsFiniteSet(1 .. freeCnt) /\ Cardinality(1 .. freeCnt) = freeCnt
    BY <2>1, FS_Interval
  <2> QED
    BY <2>2, <2>3, FS_Surjection
<1>3. IsFiniteSet(A) /\ Cardinality(A) = TtLines - 1
  BY <1>1, LinesFinite, FS_RemoveElement
<1>4. F = TtLines - 1 - Cardinality(FreeLines)
  <2>1. fullList = A \ FreeLines /\ A \cap FreeLines = FreeLines
    BY <1>1
  <2> HIDE DEF A
  <2>2. Cardinality(A \ FreeLines) = Cardinality(A) - Cardinality(A \cap FreeLines)
    BY <1>3, FS_Difference
  <2> QED
    BY <1>3, <2>1, <2>2
<1>5. F \in Nat /\ F * PgsPerLine <= NumLpns
  BY FullLinesBounded, FS_CardinalityType
<1>6. NumLpns < PgsPerLine * (TtLines - GcThresLinesHigh - 1)
  BY DEF WellProvisioned
<1> HIDE DEF F
<1>7. F < TtLines - GcThresLinesHigh - 1
  <2> SUFFICES ASSUME F >= TtLines - GcThresLinesHigh - 1 PROVE FALSE
    BY <1>5, Sizes
  <2> DEFINE d == F - (TtLines - GcThresLinesHigh - 1)
  <2>1. d \in Nat /\ TtLines - GcThresLinesHigh - 1 = F - d
    BY <1>5, Sizes
  <2> HIDE DEF d
  <2>2. PgsPerLine * (F - d) = F * PgsPerLine - PgsPerLine * d
    BY <1>5, <2>1, Sizes
  <2>3. PgsPerLine * d >= 0 /\ PgsPerLine * d \in Int /\ F * PgsPerLine \in Int
    BY <1>5, <2>1, Sizes
  <2>4. NumLpns < PgsPerLine * (F - d)
    BY <1>6, <2>1
  <2> QED
    BY <1>5, <2>2, <2>3, <2>4, Sizes
<1>8. freeCnt \in Nat /\ Cardinality(FreeLines) \in Nat
  BY <1>1, <1>2, FS_CardinalityType
<1> QED
  BY <1>2, <1>4, <1>7, <1>8, Sizes

\* ssd_init: all lines but the first are free.
LEMMA EnoughInit == WellProvisioned /\ Init => Enough
<1> SUFFICES ASSUME WellProvisioned, Init PROVE Enough
  OBVIOUS
<1>1. /\ pc = "idle" /\ endLpn = 0 /\ lpn = 0
      /\ freeCnt = TtLines - 1 /\ wp = FirstPpa(0)
  BY DEF Init, InitWritePointer
<1>2. 0 < GcThresLinesHigh * PgsPerLine
  BY ProvisionPositive
<1>3. Index(wp) = 0
  BY <1>1, IndexFirst, GeometryAssumption DEF Lines
<1>4. TtLines - 1 >= 1
  <2>1. GcThresLinesHigh >= 1
    <3>1. ~ (GcThresLinesHigh <= 0)
      <4> SUFFICES ASSUME GcThresLinesHigh <= 0 PROVE FALSE
        OBVIOUS
      <4> DEFINE k == 0 - GcThresLinesHigh
      <4>1. k \in Nat /\ GcThresLinesHigh = 0 - k
        BY Sizes
      <4> HIDE DEF k
      <4>2. (0 - k) * PgsPerLine = 0 - k * PgsPerLine /\ k * PgsPerLine \in Nat
        BY <4>1, Sizes
      <4> QED
        BY <1>2, <4>1, <4>2
    <3> QED
      BY <3>1, Sizes
  <2>2. TtLines - GcThresLinesHigh - 1 >= 1
    <3> DEFINE k == 0 - (TtLines - GcThresLinesHigh - 1)
    <3> SUFFICES ASSUME k >= 0 PROVE FALSE
      BY Sizes
    <3>1. k \in Nat /\ TtLines - GcThresLinesHigh - 1 = 0 - k
      BY Sizes
    <3>2. NumLpns < PgsPerLine * (TtLines - GcThresLinesHigh - 1)
      BY DEF WellProvisioned
    <3> HIDE DEF k
    <3>3. PgsPerLine * (0 - k) = 0 - PgsPerLine * k /\ PgsPerLine * k \in Nat
      BY <3>1, Sizes
    <3> QED
      BY <3>1, <3>2, <3>3, Sizes
  <2> QED
    BY <2>1, <2>2, Sizes
<1>5. Room > PgsPerLine
  <2>1. Room = (TtLines - 1) * PgsPerLine + PgsPerLine - 0
    BY <1>1, <1>3 DEF Room
  <2>2. (TtLines - 1) * PgsPerLine >= PgsPerLine /\ (TtLines - 1) * PgsPerLine \in Int
    <3>1. (TtLines - 1 - 1) * PgsPerLine >= 0
      BY <1>4, Sizes
    <3> QED
      BY <1>4, <3>1, Sizes
  <2> QED
    BY <2>1, <2>2, Sizes
<1> QED
  BY <1>1, <1>2, <1>5 DEF Enough, Collecting

\* Taking a request.
LEMMA RecvEnough ==
    ASSUME WellProvisioned, RInv, RecvWrite \/ RecvRead
    PROVE  Enough'
<1>1. PICK slba \in 0 .. NumLpns * SecsPerPg - 1, nlb \in 1 .. MaxNlb, label \in {"gc_high", "read"} :
           Accept(slba, nlb, label)
  BY DEF RecvWrite, RecvRead
<1>2. /\ pc = "idle" /\ pc' \in {"gc_high", "read"}
      /\ lpn' = slba \div SecsPerPg
      /\ endLpn' = (slba + nlb - 1) \div SecsPerPg
      /\ UNCHANGED <<freeCnt, wp>>
  BY <1>1 DEF RecvWrite, RecvRead, Accept, lineVars
<1>3. endLpn' - lpn' < GcThresLinesHigh * PgsPerLine
  <2>1. slba \in Nat
    OBVIOUS
  <2> QED
    BY <1>2, <2>1, RequestFits
<1>4. Room' = Room
  BY <1>2 DEF Room, Index
<1> QED
  BY <1>2, <1>3, <1>4 DEF RInv, Enough, Collecting

\* Leaving foreground collection: the room for the request is there.
LEMMA ForegroundGcDoneEnough ==
    ASSUME WellProvisioned, RInv, ForegroundGcDone
    PROVE  Enough'
<1>1. /\ pc = "gc_high" /\ pc' = "invalidate"
      /\ ~ ShouldGcHigh \/ NoVictim(TRUE)
      /\ UNCHANGED <<freeCnt, wp, lpn, endLpn>>
  BY DEF ForegroundGcDone, lineVars, reqVars
<1>2. /\ freeCnt \in Nat /\ Index(wp) \in Nat /\ Index(wp) < PgsPerLine
      /\ freeCnt * PgsPerLine \in Nat
  BY <1>1, RoomType DEF RInv, CInv
<1>3. freeCnt > GcThresLinesHigh
  <2>1. CASE ~ ShouldGcHigh
    BY <1>2, <2>1, Sizes DEF ShouldGcHigh
  <2>2. CASE NoVictim(TRUE)
    <3>1. PqPeek = {}
      BY <2>2 DEF NoVictim, MayCollect
    <3>2. /\ IsFiniteSet(Victims) /\ victimPq \in [Victims -> Int]
      <4>1. Victims \in SUBSET Lines /\ victimPq \in [Victims -> Int]
        BY DEF RInv, CInv, IInv, TypeOK, IsPq, Victims
      <4> QED
        BY <4>1, LinesFinite, FS_Subset
    <3>3. Victims = {}
      <4> SUFFICES ASSUME Victims # {} PROVE FALSE
        OBVIOUS
      <4>1. \E v \in Victims : \A w \in Victims : victimPq[v] <= victimPq[w]
        BY <3>2, LeastKey
      <4> QED
        BY <3>1, <4>1 DEF PqPeek, Victims
    <3> QED
      BY <1>1, <3>3, FreeWithoutVictims DEF RInv
  <2> QED
    BY <1>1, <2>1, <2>2
<1> DEFINE H == GcThresLinesHigh * PgsPerLine
<1>4. freeCnt * PgsPerLine >= H + PgsPerLine /\ H \in Int
  <2>1. (freeCnt - GcThresLinesHigh - 1) * PgsPerLine >= 0
    <3> DEFINE d == freeCnt - GcThresLinesHigh - 1
    <3>1. d \in Nat
      BY <1>2, <1>3, Sizes
    <3> HIDE DEF d
    <3>2. d * PgsPerLine >= 0
      BY <3>1, Sizes
    <3> QED
      BY <3>2 DEF d
  <2>2. (freeCnt - GcThresLinesHigh - 1) * PgsPerLine = freeCnt * PgsPerLine - H - PgsPerLine
    BY <1>2, Sizes
  <2>3. H \in Int
    BY Sizes
  <2> HIDE DEF H
  <2> QED
    BY <1>2, <2>1, <2>2, <2>3, Sizes
<1>5. endLpn - lpn < H /\ lpn \in Int /\ endLpn \in Int
  BY DEF RInv, CInv, IInv, TypeOK, LPN, Enough
<1>6. 0 < H
  BY ProvisionPositive
<1>7. Room' = freeCnt * PgsPerLine + PgsPerLine - Index(wp)
  BY <1>1 DEF Room, Index
<1> HIDE DEF H
<1>8. Room' > PgsPerLine + 1 /\ Room' > PgsPerLine + 1 + (endLpn - lpn)
  BY <1>2, <1>4, <1>5, <1>6, <1>7, Sizes
<1> QED
  BY <1>1, <1>5, <1>8 DEF Enough, Collecting, H

\* A collection starts: the victim has an invalid page.
LEMMA SelectEnough ==
    ASSUME RInv, pc \in {"gc_high", "complete"}, NEW force, SelectVictim(force)
    PROVE  Enough'
<1>1. PICK v \in PqPeek :
          /\ gcPpa' = FirstPpa(v) /\ pc' = "gc_page"
          /\ UNCHANGED <<pgStatus, freeCnt, wp, lpn, endLpn>>
  BY DEF SelectVictim, nandVars, reqVars
<1>2. v \in Victims /\ v \in Lines /\ GcLine = {}
  BY <1>1 DEF PqPeek, Victims, GcLine, Collecting, RInv, CInv, IInv, TypeOK, IsPq
<1>3. \A p \in Ppa : ~ Moved(p)'
  <2>1. gcPpa'.pg = 0
    BY <1>1 DEF FirstPpa, PpaAt
  <2> QED
    BY <1>1, <2>1 DEF Moved, Collecting, Ppa, Pgs
<1>4. StillLive' = {p \in LinePages(v) : pgStatus[p] = "valid"}
  <2>1. LinePages(gcPpa'.blk) = LinePages(v) /\ LinePages(v) \subseteq Ppa
    BY <1>1 DEF LinePages, FirstPpa, PpaAt
  <2>2. \A p \in LinePages(v) : Live(p)' <=> pgStatus[p] = "valid"
    BY <1>1, <1>3, <2>1 DEF Live
  <2>3. StillLive' = {p \in LinePages(v) : Live(p)'}
    BY <2>1 DEF StillLive, LinePages
  <2> QED
    BY <2>2, <2>3
<1>5. /\ Cardinality(StillLive') = lineVpc[v]
      /\ lineVpc[v] \in Int /\ lineVpc[v] < PgsPerLine
  BY <1>2, <1>4 DEF RInv, CInv, IInv, TypeOK, LineCountsByRole, LinesExact, LineExact, Count
<1>6. Room' = Room /\ Room \in Int
  BY <1>1, RoomType DEF Room, Index, RInv, CInv
<1>7. Room > PgsPerLine
  BY DEF RInv, Enough
<1>8. Room' > 1 + Cardinality(StillLive')
  BY <1>5, <1>6, <1>7, Sizes
<1> QED
  BY <1>1, <1>8 DEF RInv, Enough, Collecting

\* A page of the request is programmed.
LEMMA ProgramPageEnough ==
    ASSUME WellProvisioned, RInv, ProgramPage
    PROVE  Enough'
<1> DEFINE then == IF lpn < endLpn THEN "invalidate" ELSE "complete"
<1>1. pc = "program" /\ WritePage(lpn, then) /\ NextLpn
  BY DEF ProgramPage
<1>2. /\ Room \in Int /\ lpn \in Int /\ endLpn \in Int
      /\ Room > PgsPerLine + 1 /\ Room > PgsPerLine + 1 + (endLpn - lpn)
      /\ endLpn - lpn < GcThresLinesHigh * PgsPerLine
  BY <1>1, RoomType DEF RInv, CInv, IInv, TypeOK, LPN, Enough
<1>3. Room' = Room - 1 /\ pc' = then
  <2> HIDE DEF then
  <2>1. Room > 1
    BY <1>2, Sizes
  <2> QED
    BY <1>1, <2>1, WriteTakesOnePage DEF RInv, CInv
<1> DEFINE H == GcThresLinesHigh * PgsPerLine
<1>4. H \in Int /\ 0 < H
  BY Sizes, ProvisionPositive
<1> HIDE DEF H
<1>5. CASE lpn < endLpn
  <2>1. lpn' = lpn + 1 /\ endLpn' = endLpn /\ pc' = "invalidate"
    BY <1>1, <1>3, <1>5 DEF NextLpn
  <2>2. endLpn' - lpn' < H
    BY <1>2, <1>4, <2>1 DEF H
  <2>3. Room' > PgsPerLine + 1 /\ Room' > PgsPerLine + 1 + (endLpn' - lpn')
    BY <1>2, <1>3, <1>5, <2>1, Sizes
  <2> QED
    BY <2>1, <2>2, <2>3 DEF Enough, Collecting, H
<1>6. CASE ~ (lpn < endLpn)
  <2>1. lpn' = 0 /\ endLpn' = 0 /\ pc' = "complete"
    BY <1>1, <1>3, <1>6 DEF NextLpn
  <2>2. endLpn' - lpn' < H
    BY <1>4, <2>1
  <2>3. Room' > PgsPerLine
    BY <1>2, <1>3, Sizes
  <2> QED
    BY <2>1, <2>2, <2>3 DEF Enough, Collecting, H
<1> QED
  BY <1>5, <1>6

\* ssd_read changes neither tables nor room.
LEMMA ReadPageEnough ==
    ASSUME WellProvisioned, RInv, ReadPage
    PROVE  Enough'
<1>1. /\ pc = "read" /\ NextLpn /\ pc' \in {"read", "complete"}
      /\ UNCHANGED <<freeCnt, wp>>
  BY DEF ReadPage, lineVars
<1>2. Room' = Room /\ Room > PgsPerLine
  BY <1>1 DEF Room, Index, RInv, Enough
<1> DEFINE H == GcThresLinesHigh * PgsPerLine
<1>3. H \in Int /\ 0 < H /\ lpn \in Int /\ endLpn \in Int /\ endLpn - lpn < H
  BY Sizes, ProvisionPositive DEF RInv, CInv, IInv, TypeOK, LPN, Enough
<1> HIDE DEF H
<1>4. endLpn' - lpn' < H
  BY <1>1, <1>3 DEF NextLpn
<1> QED
  BY <1>1, <1>2, <1>4 DEF Enough, Collecting, H

\* A live page of the victim is copied: one page of room for one page less to do.
LEMMA GcCopyEnough ==
    ASSUME RInv, GcCopyPage
    PROVE  Enough'
<1>1. /\ pc = "gc_page" /\ pgStatus[gcPpa] = "valid" /\ gcPpa \in Ppa
      /\ WritePage(rmap[gcPpa], AfterGcPage) /\ GcNextPage
      /\ UNCHANGED <<lpn, endLpn>>
      /\ TypeOK
  BY DEF GcCopyPage, reqVars, RInv, CInv, IInv, TypeOK
<1>2. IsFiniteSet(StillLive) /\ Cardinality(StillLive) \in Nat
  <2>1. StillLive \in SUBSET Ppa
    BY DEF StillLive, LinePages
  <2> QED
    BY <2>1, PpaFinite, FS_Subset, FS_CardinalityType
<1>3. Room \in Int /\ Room > 1 + Cardinality(StillLive)
  BY <1>1, RoomType DEF RInv, CInv, Enough, Collecting
<1>4. Room' = Room - 1 /\ pc' = AfterGcPage
  <2>1. Room > 1
    BY <1>2, <1>3
  <2> QED
    BY <1>1, <2>1, WriteTakesOnePage DEF RInv, CInv
<1>5. /\ GcLine' = GcLine
      /\ \A p \in Ppa : Moved(p)' <=> Moved(p) \/ p = gcPpa
      /\ pc' \in {"gc_page", "gc_erase"}
  BY <1>1, <1>4, GcPagePassed
<1>6. gcPpa'.blk = gcPpa.blk
  BY <1>1 DEF GcNextPage, PpaAt
<1>7. wp \in Ppa /\ wp.blk # gcPpa.blk
  BY <1>1, WpErased DEF RInv, CInv, IInv, LinesPartitioned, GcLine, Collecting
<1>8. StillLive' = StillLive \ {gcPpa} /\ gcPpa \in StillLive
  <2>1. LinePages(gcPpa'.blk) = LinePages(gcPpa.blk)
    BY <1>6
  <2>2. pgStatus' = [pgStatus EXCEPT ![wp] = "valid"] /\ pgStatus \in [Ppa -> PageStatus]
    BY <1>1 DEF WritePage, MarkPageValid, TypeOK
  <2>3. ASSUME NEW p \in LinePages(gcPpa.blk) PROVE Live(p)' <=> Live(p) /\ p # gcPpa
    <3>1. p \in Ppa /\ p # wp
      BY <1>7 DEF LinePages
    <3> QED
      BY <1>5, <2>2, <3>1 DEF Live
  <2>4. Live(gcPpa) /\ gcPpa \in LinePages(gcPpa.blk)
    <3>1. ~ Moved(gcPpa)
      BY <1>1 DEF Moved, Ppa, Pgs
    <3> QED
      BY <1>1, <3>1 DEF Live, LinePages
  <2>5. StillLive' = {p \in LinePages(gcPpa'.blk) : Live(p)'}
    BY DEF StillLive, LinePages
  <2> QED
    BY <2>1, <2>3, <2>4, <2>5 DEF StillLive
<1>9. Cardinality(StillLive') = Cardinality(StillLive) - 1
  BY <1>2, <1>8, FS_RemoveElement
<1>10. Room' > 1 + Cardinality(StillLive')
  BY <1>2, <1>3, <1>4, <1>9
<1> QED
  BY <1>1, <1>5, <1>10 DEF RInv, Enough, Collecting

\* Passing over a page without data and erasing a block copy nothing.
LEMMA CollectionStepEnough ==
    ASSUME RInv, Collecting, Collecting', gcPpa'.blk = gcPpa.blk,
           \A p \in Ppa : Live(p)' <=> Live(p),
           UNCHANGED <<freeCnt, wp, lpn, endLpn>>
    PROVE  Enough'
<1>1. StillLive' = StillLive
  <2>1. StillLive' = {p \in LinePages(gcPpa'.blk) : Live(p)'}
    BY DEF StillLive, LinePages
  <2>2. LinePages(gcPpa'.blk) = LinePages(gcPpa.blk) /\ LinePages(gcPpa.blk) \subseteq Ppa
    BY DEF LinePages
  <2> QED
    BY <2>1, <2>2 DEF StillLive
<1>2. Room' = Room
  BY DEF Room, Index
<1>3. Room > 1 + Cardinality(StillLive)
  BY DEF RInv, Enough
<1> QED
  BY <1>1, <1>2, <1>3 DEF RInv, Enough, Collecting

\* The line freed makes up for the pages the collection took.
LEMMA FreeLineEnough ==
    ASSUME RInv, GcFreeLine
    PROVE  Enough'
<1>1. /\ pc = "gc_free" /\ pc' \in {"gc_high", "idle"}
      /\ freeCnt' = freeCnt + 1
      /\ UNCHANGED <<wp, lpn, endLpn>>
  BY DEF GcFreeLine, reqVars
<1>2. /\ freeCnt \in Nat /\ Index(wp) \in Nat /\ Room \in Int
      /\ freeCnt * PgsPerLine \in Nat
  BY <1>1, RoomType DEF RInv, CInv
<1>3. Cardinality(StillLive) \in Nat
  <2>1. StillLive \in SUBSET Ppa
    BY DEF StillLive, LinePages
  <2> QED
    BY <2>1, PpaFinite, FS_Subset, FS_CardinalityType
<1>4. Room > 1 + Cardinality(StillLive)
  BY <1>1 DEF RInv, Enough, Collecting
<1>5. Room' = Room + PgsPerLine
  <2>1. Room' = (freeCnt + 1) * PgsPerLine + PgsPerLine - Index(wp)
    BY <1>1 DEF Room, Index
  <2>2. (freeCnt + 1) * PgsPerLine = freeCnt * PgsPerLine + PgsPerLine
    BY <1>2, Sizes
  <2> QED
    BY <1>2, <2>1, <2>2, Sizes DEF Room
<1>6. Room' > PgsPerLine
  BY <1>2, <1>3, <1>4, <1>5, Sizes
<1> QED
  BY <1>1, <1>6 DEF RInv, Enough, Collecting

\* Every step of a well-provisioned drive leaves enough room.
LEMMA RInvStep == WellProvisioned /\ RInv /\ [Next]_vars => RInv'
<1> SUFFICES ASSUME WellProvisioned, RInv, [Next]_vars PROVE Enough'
  BY CInvStep DEF RInv
<1>1. TypeOK
  BY DEF RInv, CInv, IInv
<1>2. CASE RecvWrite \/ RecvRead
  BY <1>2, RecvEnough
<1>3. CASE ReadPage
  BY <1>3, ReadPageEnough
<1>4. CASE ForegroundGcDone
  BY <1>4, ForegroundGcDoneEnough
<1>5. CASE ForegroundGc \/ BackgroundGc
  BY <1>5, SelectEnough DEF ForegroundGc, BackgroundGc
<1>6. CASE ProgramPage
  BY <1>6, ProgramPageEnough
<1>7. CASE GcCopyPage
  BY <1>7, GcCopyEnough
<1>8. CASE RecvOther \/ BackgroundGcDone \/ InvalidateOld
  <2>1. UNCHANGED <<freeCnt, wp, lpn, endLpn>>
    BY <1>8 DEF RecvOther, BackgroundGcDone, Goto, InvalidateOld, MarkPageInvalid, lineVars, reqVars
  <2>2. \/ pc = "idle" /\ pc' = "complete"
        \/ pc = "complete" /\ pc' = "idle"
        \/ pc = "invalidate" /\ pc' = "program"
    BY <1>8 DEF RecvOther, BackgroundGcDone, Goto, InvalidateOld
  <2>3. Room' = Room
    BY <2>1 DEF Room, Index
  <2> QED
    BY <2>1, <2>2, <2>3 DEF RInv, Enough, Collecting
<1>9. CASE GcSkipPage
  <2>1. /\ pc = "gc_page" /\ pgStatus[gcPpa] # "valid" /\ GcNextPage /\ pc' = AfterGcPage
        /\ UNCHANGED <<pgStatus, freeCnt, wp, lpn, endLpn>>
    BY <1>9 DEF GcSkipPage, nandVars, lineVars, reqVars
  <2>2. /\ \A p \in Ppa : Moved(p)' <=> Moved(p) \/ p = gcPpa
        /\ pc' \in {"gc_page", "gc_erase"}
    BY <1>1, <2>1, GcPagePassed
  <2>3. \A p \in Ppa : Live(p)' <=> Live(p)
    BY <2>1, <2>2 DEF Live
  <2>4. gcPpa'.blk = gcPpa.blk
    BY <2>1 DEF GcNextPage, PpaAt
  <2> QED
    BY <2>1, <2>2, <2>3, <2>4, CollectionStepEnough DEF Collecting
<1>10. CASE GcEraseBlock
  <2>1. /\ pc = "gc_erase"
        /\ pgStatus' = [p \in Ppa |-> IF BlkOf(p) = BlkOf(gcPpa) THEN "free" ELSE pgStatus[p]]
        /\ UNCHANGED <<freeCnt, wp, lpn, endLpn>>
        /\ gcPpa'.blk = gcPpa.blk
    BY <1>10 DEF GcEraseBlock, lineVars, reqVars, NextBlock, PpaAt
  <2>2. pc' \in {"gc_page", "gc_free"} /\ \A p \in Ppa : ~ Moved(p)'
    BY <1>1, <1>10, <2>1, EraseProgress
  <2>3. \A p \in Ppa : Live(p)' <=> Live(p)
    BY <2>1, <2>2 DEF Live, Moved, Collecting
  <2> QED
    BY <2>1, <2>2, <2>3, CollectionStepEnough DEF Collecting
<1>11. CASE GcFreeLine
  BY <1>11, FreeLineEnough
<1>12. CASE UNCHANGED vars
  <2>1. UNCHANGED <<pc, pgStatus, freeCnt, wp, lpn, endLpn, gcPpa>>
    BY <1>12 DEF vars, nandVars, lineVars, reqVars, gcVars
  <2>2. Room' = Room /\ StillLive' = StillLive
    BY <2>1 DEF Room, Index, StillLive, LinePages, Live, Moved, Collecting
  <2> QED
    BY <2>1, <2>2 DEF RInv, Enough, Collecting
<1> QED
  BY <1>2, <1>3, <1>4, <1>5, <1>6, <1>7, <1>8, <1>9, <1>10, <1>11, <1>12 DEF Next, Recv, Step

\* On a well-provisioned drive the write pointer never runs out of free lines,
\* in the middle of a write or of a collection, whatever the host writes
\* (ssd_advance_write_pointer ftl.c:193-197).
THEOREM DriveNeverAborts ==
    ASSUME WellProvisioned
    PROVE  Spec => []NeverAborts
<1>1. Init => RInv
  BY CInvInit, EnoughInit DEF RInv
<1>2. RInv /\ [Next]_vars => RInv'
  BY RInvStep
<1>3. RInv => NeverAborts
  BY DEF RInv, Enough, NeverAborts
<1> QED
  BY <1>1, <1>2, <1>3, PTL DEF Spec
=============================================================================
