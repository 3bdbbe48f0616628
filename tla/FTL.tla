-------------------------------- MODULE FTL --------------------------------
(***************************************************************************)
(* The black-box flash translation layer of ftl.c: page mapping, the       *)
(* super-block ("line") allocator, the write pointer and greedy garbage    *)
(* collection, as the single FTL thread executes them.                     *)
(*                                                                         *)
(* ssd_write, do_gc and ftl_thread run for many pages at a time, so they   *)
(* are cut into the steps below; pc says which one the thread executes     *)
(* next.  A step never stops half-way through one of the helpers that     *)
(* ftl.c calls, except where ssd_advance_write_pointer calls abort().      *)
(*                                                                         *)
(* Latencies are the subject of NandTiming, not of this module.  Erase     *)
(* counts, victim_line_cnt and full_line_cnt are never read by the code    *)
(* (the latter two only by ftl_debug) and are left out.                    *)
(***************************************************************************)
EXTENDS Integers, Sequences, FiniteSets

CONSTANTS
    NChs,               \* spp->nchs
    LunsPerCh,          \* spp->luns_per_ch
    PgsPerBlk,          \* spp->pgs_per_blk
    TtLines,            \* spp->tt_lines = blks_per_pl (one plane per LUN)
    SecsPerPg,          \* spp->secs_per_pg
    NumLpns,            \* logical pages the namespace exposes to the host
    MaxNlb,             \* bound on the sectors of one request (MDTS)
    GcThresLines,       \* spp->gc_thres_lines
    GcThresLinesHigh,   \* spp->gc_thres_lines_high
    VictimShare,        \* the 8 of select_victim_line
    UNMAPPED_PPA,       \* value of an unmapped maptbl entry
    INVALID_LPN         \* value of an empty rmap entry

Chs   == 0 .. NChs - 1
Luns  == 0 .. LunsPerCh - 1
Pgs   == 0 .. PgsPerBlk - 1
Lines == 0 .. TtLines - 1
LPN   == 0 .. NumLpns - 1

\* A physical page address.  pl is always 0 (one plane per LUN), and sec is
\* only ever written, so neither is kept.
Ppa == [blk : Lines, pg : Pgs, lun : Luns, ch : Chs]

\* A block is a page address without its page; a line is the set of blocks
\* with the same blk, one on every LUN of every channel.
Blk == [blk : Lines, lun : Luns, ch : Chs]
BlkOf(p) == [blk |-> p.blk, lun |-> p.lun, ch |-> p.ch]

PgsPerLine == NChs * LunsPerCh * PgsPerBlk

ASSUME GeometryAssumption ==
    /\ NChs \in Nat \ {0}
    /\ LunsPerCh \in Nat \ {0}
    /\ PgsPerBlk \in Nat \ {0}
    /\ TtLines \in Nat \ {0}

ASSUME HostAssumption ==
    /\ SecsPerPg \in Nat \ {0}
    /\ NumLpns \in Nat \ {0}
    /\ MaxNlb \in Nat \ {0}

ASSUME ThresholdAssumption ==
    /\ GcThresLines \in Int
    /\ GcThresLinesHigh \in Int
    /\ VictimShare \in Nat \ {0}

ASSUME NullAssumption ==
    /\ UNMAPPED_PPA \notin Ppa
    /\ INVALID_LPN \notin LPN

VARIABLES
    maptbl,     \* ssd->maptbl: logical page -> physical page
    rmap,       \* ssd->rmap: physical page -> logical page
    pgStatus,   \* nand_page.status: "free" | "valid" | "invalid"
    blkIpc,     \* nand_block.ipc
    blkVpc,     \* nand_block.vpc
    lineIpc,    \* line.ipc
    lineVpc,    \* line.vpc
    linePos,    \* line.pos # 0: what mark_page_invalid takes for "in the queue"
    victimPq,   \* victim_line_pq: lines in it -> the key the heap holds them under
    freeList,   \* free_line_list
    freeCnt,    \* free_line_cnt
    fullList,   \* full_line_list (its order is never used)
    wp,         \* write pointer; wp.blk is also curline
    pc,         \* the step the FTL thread executes next
    lpn,        \* loop variable of ssd_read and ssd_write
    endLpn,     \* end_lpn of the request being served
    gcPpa,      \* the ppa do_gc and clean_one_block iterate
    gcForce     \* do_gc's force argument; TRUE until ssd_write's loop around it ends

mapVars  == <<maptbl, rmap>>
nandVars == <<pgStatus, blkIpc, blkVpc>>
lineVars == <<lineIpc, lineVpc, linePos, victimPq, freeList, freeCnt, fullList>>
reqVars  == <<lpn, endLpn>>
gcVars   == <<gcPpa, gcForce>>
vars == <<mapVars, nandVars, lineVars, wp, pc, reqVars, gcVars>>

PpaAt(l, pg, lun, ch) == [blk |-> l, pg |-> pg, lun |-> lun, ch |-> ch]
FirstPpa(l) == PpaAt(l, 0, 0, 0)

\* ssd_init_maptbl, ssd_init_rmap
InitMapping ==
    /\ maptbl = [l \in LPN |-> UNMAPPED_PPA]
    /\ rmap = [p \in Ppa |-> INVALID_LPN]

\* ssd_init_ch down to ssd_init_nand_page: everything erased
InitNand ==
    /\ pgStatus = [p \in Ppa |-> "free"]
    /\ blkIpc = [b \in Blk |-> 0]
    /\ blkVpc = [b \in Blk |-> 0]

\* ssd_init_lines puts all lines on the free list in id order;
\* ssd_init_write_pointer takes the first.
InitLines ==
    /\ lineIpc = [l \in Lines |-> 0]
    /\ lineVpc = [l \in Lines |-> 0]
    /\ linePos = [l \in Lines |-> FALSE]
    /\ victimPq = << >>
    /\ fullList = {}

InitWritePointer ==
    /\ freeList = [i \in 1 .. TtLines - 1 |-> i]
    /\ freeCnt = TtLines - 1
    /\ wp = FirstPpa(0)

Init ==
    /\ InitMapping
    /\ InitNand
    /\ InitLines
    /\ InitWritePointer
    /\ pc = "idle"
    /\ lpn = 0
    /\ endLpn = 0
    /\ gcPpa = FirstPpa(0)
    /\ gcForce = FALSE

-----------------------------------------------------------------------------
(* Helpers of ftl.c *)

\* mutant: < for <=
ShouldGcHighStrict == freeCnt < GcThresLinesHigh

ShouldGc     == freeCnt <= GcThresLines
ShouldGcHigh == freeCnt <= GcThresLinesHigh

Mapped(l) == maptbl[l] # UNMAPPED_PPA

\* pqueue_insert of a line under key k, and pqueue_pop of the line just peeked.
PqInsert(pq, l, k) == [v \in DOMAIN pq \cup {l} |-> IF v = l THEN k ELSE pq[v]]
PqRemove(pq, l)    == [v \in DOMAIN pq \ {l} |-> pq[v]]

\* pqueue_peek: any line the min-heap may have at its root.
PqPeek == {v \in DOMAIN victimPq : \A w \in DOMAIN victimPq : victimPq[v] <= victimPq[w]}

\* mutant: line->vpc-- without pqueue_change_priority
MarkPageInvalidNoRekey(p) ==
    LET l       == p.blk
        wasFull == lineVpc[l] = PgsPerLine
        vpc     == lineVpc[l] - 1
    IN  /\ pgStatus' = [pgStatus EXCEPT ![p] = "invalid"]
        /\ blkIpc' = [blkIpc EXCEPT ![BlkOf(p)] = @ + 1]
        /\ blkVpc' = [blkVpc EXCEPT ![BlkOf(p)] = @ - 1]
        /\ lineIpc' = [lineIpc EXCEPT ![l] = @ + 1]
        /\ lineVpc' = [lineVpc EXCEPT ![l] = vpc]
        /\ fullList' = fullList \ {l}
        /\ victimPq' = IF wasFull THEN PqInsert(victimPq, l, vpc) ELSE victimPq
        /\ linePos' = [linePos EXCEPT ![l] = @ \/ wasFull]
        /\ UNCHANGED <<freeList, freeCnt>>

\* mark_page_invalid.  A line filed as full becomes a victim; a line already in
\* the victim queue is re-keyed; the current line is in neither.
MarkPageInvalid(p) ==
    LET l       == p.blk
        wasFull == lineVpc[l] = PgsPerLine
        vpc     == lineVpc[l] - 1
    IN  /\ pgStatus' = [pgStatus EXCEPT ![p] = "invalid"]
        /\ blkIpc' = [blkIpc EXCEPT ![BlkOf(p)] = @ + 1]
        /\ blkVpc' = [blkVpc EXCEPT ![BlkOf(p)] = @ - 1]
        /\ lineIpc' = [lineIpc EXCEPT ![l] = @ + 1]
        /\ lineVpc' = [lineVpc EXCEPT ![l] = vpc]
        /\ IF wasFull
           THEN /\ fullList' = fullList \ {l}
                /\ victimPq' = PqInsert(victimPq, l, vpc)
                /\ linePos' = [linePos EXCEPT ![l] = TRUE]
           ELSE /\ victimPq' = IF linePos[l] THEN [victimPq EXCEPT ![l] = vpc] ELSE victimPq
                /\ UNCHANGED <<fullList, linePos>>
        /\ UNCHANGED <<freeList, freeCnt>>

\* mark_page_valid
MarkPageValid(p) ==
    /\ pgStatus' = [pgStatus EXCEPT ![p] = "valid"]
    /\ blkVpc' = [blkVpc EXCEPT ![BlkOf(p)] = @ + 1]
    /\ lineVpc' = [lineVpc EXCEPT ![p.blk] = @ + 1]
    /\ UNCHANGED <<blkIpc, lineIpc>>

\* ssd_advance_write_pointer: channel first, then LUN, then page.
LastOfLine(p) == p.ch = NChs - 1 /\ p.lun = LunsPerCh - 1 /\ p.pg = PgsPerBlk - 1

NextInLine(p) ==
    IF p.ch < NChs - 1 THEN PpaAt(p.blk, p.pg, p.lun, p.ch + 1)
    ELSE IF p.lun < LunsPerCh - 1 THEN PpaAt(p.blk, p.pg, p.lun + 1, 0)
    ELSE PpaAt(p.blk, p.pg + 1, 0, 0)

\* The used-up current line, whose vpc is now v, is filed as full or as a victim.
FileLine(l, v) ==
    IF v = PgsPerLine
    THEN /\ fullList' = fullList \cup {l}
         /\ UNCHANGED <<victimPq, linePos>>
    ELSE /\ victimPq' = PqInsert(victimPq, l, v)
         /\ linePos' = [linePos EXCEPT ![l] = TRUE]
         /\ UNCHANGED fullList

\* get_next_free_line finds nothing: ssd_advance_write_pointer calls abort().
NoFreeLine == freeList = << >>
Aborts     == LastOfLine(wp) /\ NoFreeLine

AdvanceWritePointer(v) ==
    IF ~ LastOfLine(wp)
    THEN /\ wp' = NextInLine(wp)
         /\ UNCHANGED <<linePos, victimPq, freeList, freeCnt, fullList>>
    ELSE /\ FileLine(wp.blk, v)
         /\ IF NoFreeLine
            THEN /\ wp' = FirstPpa(wp.blk)
                 /\ UNCHANGED <<freeList, freeCnt>>
            ELSE /\ wp' = FirstPpa(Head(freeList))
                 /\ freeList' = Tail(freeList)
                 /\ freeCnt' = freeCnt - 1

\* mutant: set_rmap_ent forgotten
WritePageNoRmap(l, then) ==
    /\ maptbl' = [maptbl EXCEPT ![l] = wp]
    /\ rmap' = rmap
    /\ MarkPageValid(wp)
    /\ AdvanceWritePointer(lineVpc[wp.blk] + 1)
    /\ pc' = IF Aborts THEN "aborted" ELSE then

\* The tail that ssd_write and gc_write_page share: logical page l goes to the
\* page under the write pointer.  then is where the thread goes if it survives.
WritePage(l, then) ==
    /\ maptbl' = [maptbl EXCEPT ![l] = wp]
    /\ rmap' = [rmap EXCEPT ![wp] = l]
    /\ MarkPageValid(wp)
    /\ AdvanceWritePointer(lineVpc[wp.blk] + 1)
    /\ pc' = IF Aborts THEN "aborted" ELSE then

\* select_victim_line once pqueue_peek returned v
MayCollect(v, force) == force \/ lineIpc[v] >= PgsPerLine \div VictimShare

\* mutant: pos not cleared when the line leaves the queue
SelectVictimKeepPos(force) ==
    \E v \in PqPeek :
        /\ MayCollect(v, force)
        /\ victimPq' = PqRemove(victimPq, v)
        /\ gcPpa' = FirstPpa(v)
        /\ gcForce' = force
        /\ pc' = "gc_page"
        /\ UNCHANGED <<mapVars, nandVars, lineIpc, lineVpc, linePos, freeList, freeCnt, fullList, wp, reqVars>>

SelectVictim(force) ==
    \E v \in PqPeek :
        /\ MayCollect(v, force)
        /\ victimPq' = PqRemove(victimPq, v)
        /\ linePos' = [linePos EXCEPT ![v] = FALSE]
        /\ gcPpa' = FirstPpa(v)
        /\ gcForce' = force
        /\ pc' = "gc_page"
        /\ UNCHANGED <<mapVars, nandVars, lineIpc, lineVpc, freeList, freeCnt, fullList, wp, reqVars>>

\* select_victim_line returns NULL
NoVictim(force) == \A v \in PqPeek : ~ MayCollect(v, force)

Goto(label) ==
    /\ pc' = label
    /\ UNCHANGED <<mapVars, nandVars, lineVars, wp, reqVars, gcVars>>

-----------------------------------------------------------------------------
(* ftl_thread takes the next request off a ring *)

\* The logical pages of a request of nlb sectors from slba; the NVMe layer has
\* checked it against the namespace size.
Accept(slba, nlb, label) ==
    /\ slba + nlb <= NumLpns * SecsPerPg
    /\ lpn' = slba \div SecsPerPg
    /\ endLpn' = (slba + nlb - 1) \div SecsPerPg
    /\ pc' = label
    /\ UNCHANGED <<mapVars, nandVars, lineVars, wp, gcVars>>

RecvWrite ==
    /\ pc = "idle"
    /\ \E slba \in 0 .. NumLpns * SecsPerPg - 1, nlb \in 1 .. MaxNlb : Accept(slba, nlb, "gc_high")

RecvRead ==
    /\ pc = "idle"
    /\ \E slba \in 0 .. NumLpns * SecsPerPg - 1, nlb \in 1 .. MaxNlb : Accept(slba, nlb, "read")

\* NVME_CMD_DSM and the default case change nothing here.
RecvOther ==
    /\ pc = "idle"
    /\ Goto("complete")

\* mutant: the loop condition tested after the increment
NextLpnLate ==
    IF lpn <= endLpn
    THEN lpn' = lpn + 1 /\ UNCHANGED endLpn
    ELSE lpn' = 0 /\ endLpn' = 0

\* lpn++ of the loops in ssd_read and ssd_write; both are reset when it ends.
NextLpn ==
    IF lpn < endLpn
    THEN lpn' = lpn + 1 /\ UNCHANGED endLpn
    ELSE lpn' = 0 /\ endLpn' = 0

(* ssd_read: one iteration of its loop *)
ReadPage ==
    /\ pc = "read"
    /\ NextLpn
    /\ pc' = IF lpn < endLpn THEN "read" ELSE "complete"
    /\ UNCHANGED <<mapVars, nandVars, lineVars, wp, gcVars>>

(* ssd_write: the foreground GC loop, then one page at a time *)
ForegroundGcDone ==
    /\ pc = "gc_high"
    /\ ~ ShouldGcHigh \/ NoVictim(TRUE)
    /\ pc' = "invalidate"
    /\ gcForce' = FALSE
    /\ UNCHANGED <<mapVars, nandVars, lineVars, wp, reqVars, gcPpa>>

ForegroundGc ==
    /\ pc = "gc_high"
    /\ ShouldGcHigh
    /\ SelectVictim(TRUE)

InvalidateOld ==
    /\ pc = "invalidate"
    /\ pc' = "program"
    /\ IF Mapped(lpn)
       THEN /\ MarkPageInvalid(maptbl[lpn])
            /\ rmap' = [rmap EXCEPT ![maptbl[lpn]] = INVALID_LPN]
       ELSE UNCHANGED <<rmap, nandVars, lineVars>>
    /\ UNCHANGED <<maptbl, wp, reqVars, gcVars>>

ProgramPage ==
    /\ pc = "program"
    /\ WritePage(lpn, IF lpn < endLpn THEN "invalidate" ELSE "complete")
    /\ NextLpn
    /\ UNCHANGED gcVars

(* ftl_thread after the request went back to its poller *)
BackgroundGcDone ==
    /\ pc = "complete"
    /\ ~ ShouldGc \/ NoVictim(FALSE)
    /\ Goto("idle")

BackgroundGc ==
    /\ pc = "complete"
    /\ ShouldGc
    /\ SelectVictim(FALSE)

(* do_gc: clean_one_block page by page, then mark_block_free, block by block *)
GcNextPage ==
    gcPpa' = IF gcPpa.pg < PgsPerBlk - 1
             THEN PpaAt(gcPpa.blk, gcPpa.pg + 1, gcPpa.lun, gcPpa.ch)
             ELSE gcPpa

\* mutant: clean_one_block stops one page early
AfterGcPageEarly == IF gcPpa.pg < PgsPerBlk - 2 THEN "gc_page" ELSE "gc_erase"

AfterGcPage == IF gcPpa.pg < PgsPerBlk - 1 THEN "gc_page" ELSE "gc_erase"

GcCopyPage ==
    /\ pc = "gc_page"
    /\ pgStatus[gcPpa] = "valid"
    /\ WritePage(rmap[gcPpa], AfterGcPage)
    /\ GcNextPage
    /\ UNCHANGED <<reqVars, gcForce>>

GcSkipPage ==
    /\ pc = "gc_page"
    /\ pgStatus[gcPpa] # "valid"
    /\ GcNextPage
    /\ pc' = AfterGcPage
    /\ UNCHANGED <<mapVars, nandVars, lineVars, wp, reqVars, gcForce>>

\* mutant: only the LUNs of the first channel are cleaned
LastBlockOfChannel(p) == p.lun = LunsPerCh - 1

LastBlock(p) == p.lun = LunsPerCh - 1 /\ p.ch = NChs - 1

\* mutant: the channel is not advanced
NextBlockSameChannel(p) ==
    IF p.lun < LunsPerCh - 1
    THEN PpaAt(p.blk, 0, p.lun + 1, p.ch)
    ELSE PpaAt(p.blk, 0, 0, p.ch)

NextBlock(p) ==
    IF p.lun < LunsPerCh - 1
    THEN PpaAt(p.blk, 0, p.lun + 1, p.ch)
    ELSE PpaAt(p.blk, 0, 0, p.ch + 1)

GcEraseBlock ==
    /\ pc = "gc_erase"
    /\ pgStatus' = [p \in Ppa |-> IF BlkOf(p) = BlkOf(gcPpa) THEN "free" ELSE pgStatus[p]]
    /\ blkIpc' = [blkIpc EXCEPT ![BlkOf(gcPpa)] = 0]
    /\ blkVpc' = [blkVpc EXCEPT ![BlkOf(gcPpa)] = 0]
    /\ IF LastBlock(gcPpa)
       THEN gcPpa' = gcPpa /\ pc' = "gc_free"
       ELSE gcPpa' = NextBlock(gcPpa) /\ pc' = "gc_page"
    /\ UNCHANGED <<mapVars, lineVars, wp, reqVars, gcForce>>

\* mutant: mark_line_free leaves ipc behind
GcFreeLineKeepIpc ==
    /\ pc = "gc_free"
    /\ lineVpc' = [lineVpc EXCEPT ![gcPpa.blk] = 0]
    /\ freeList' = Append(freeList, gcPpa.blk)
    /\ freeCnt' = freeCnt + 1
    /\ pc' = IF gcForce THEN "gc_high" ELSE "idle"
    /\ gcPpa' = FirstPpa(0)
    /\ UNCHANGED <<mapVars, nandVars, lineIpc, linePos, victimPq, fullList, wp, reqVars, gcForce>>

\* mark_line_free, and do_gc returns to the loop of ssd_write or to ftl_thread
GcFreeLine ==
    /\ pc = "gc_free"
    /\ lineIpc' = [lineIpc EXCEPT ![gcPpa.blk] = 0]
    /\ lineVpc' = [lineVpc EXCEPT ![gcPpa.blk] = 0]
    /\ freeList' = Append(freeList, gcPpa.blk)
    /\ freeCnt' = freeCnt + 1
    /\ pc' = IF gcForce THEN "gc_high" ELSE "idle"
    /\ gcPpa' = FirstPpa(0)
    /\ UNCHANGED <<mapVars, nandVars, linePos, victimPq, fullList, wp, reqVars, gcForce>>

-----------------------------------------------------------------------------
Recv == RecvWrite \/ RecvRead \/ RecvOther

Step ==
    \/ ReadPage
    \/ ForegroundGcDone
    \/ ForegroundGc
    \/ InvalidateOld
    \/ ProgramPage
    \/ BackgroundGcDone
    \/ BackgroundGc
    \/ GcCopyPage
    \/ GcSkipPage
    \/ GcEraseBlock
    \/ GcFreeLine

Next == Recv \/ Step

Spec == Init /\ [][Next]_vars

\* Once it has taken a request the FTL thread keeps running; nothing obliges
\* the host to send another one.
FairSpec == Spec /\ WF_vars(Step)

-----------------------------------------------------------------------------
(* Properties *)

PageStatus == {"free", "valid", "invalid"}

IsPq(pq) == DOMAIN pq \subseteq Lines /\ pq \in [DOMAIN pq -> Int]

TypeOK ==
    /\ maptbl \in [LPN -> Ppa \cup {UNMAPPED_PPA}]
    /\ rmap \in [Ppa -> LPN \cup {INVALID_LPN}]
    /\ pgStatus \in [Ppa -> PageStatus]
    /\ blkIpc \in [Blk -> Int]
    /\ blkVpc \in [Blk -> Int]
    /\ lineIpc \in [Lines -> Int]
    /\ lineVpc \in [Lines -> Int]
    /\ linePos \in [Lines -> BOOLEAN]
    /\ IsPq(victimPq)
    /\ freeList \in Seq(Lines)
    /\ freeCnt \in Int
    /\ fullList \subseteq Lines
    /\ wp \in Ppa
    /\ pc \in {"idle", "read", "gc_high", "invalidate", "program", "complete",
               "gc_page", "gc_erase", "gc_free", "aborted"}
    /\ lpn \in LPN
    /\ endLpn \in LPN
    /\ gcPpa \in Ppa
    /\ gcForce \in BOOLEAN

\* Pages already passed by the write pointer in the current line.
Programmed(p) ==
    /\ p.blk = wp.blk
    /\ \/ p.pg < wp.pg
       \/ p.pg = wp.pg /\ p.lun < wp.lun
       \/ p.pg = wp.pg /\ p.lun = wp.lun /\ p.ch < wp.ch

Collecting == pc \in {"gc_page", "gc_erase", "gc_free"}
GcLine     == IF Collecting THEN {gcPpa.blk} ELSE {}

\* In the line being collected: pages whose block is erased already, and pages
\* of the block being cleaned that hold a copy made obsolete by gc_write_page.
Erased(p) ==
    /\ Collecting
    /\ p.blk = gcPpa.blk
    /\ \/ p.ch < gcPpa.ch
       \/ p.ch = gcPpa.ch /\ p.lun < gcPpa.lun
       \/ p.ch = gcPpa.ch /\ p.lun = gcPpa.lun /\ pc = "gc_free"

Moved(p) ==
    /\ Collecting
    /\ BlkOf(p) = BlkOf(gcPpa)
    /\ \/ pc = "gc_page" /\ p.pg < gcPpa.pg
       \/ pc = "gc_erase"

Live(p) == pgStatus[p] = "valid" /\ ~ Moved(p)

\* Between mark_page_invalid and set_maptbl_ent, ssd_write's lpn has no page.
InFlight(l) == pc = "program" /\ l = lpn

FreeLines == {freeList[i] : i \in DOMAIN freeList}
Victims   == DOMAIN victimPq

\* maptbl and rmap are inverse to each other on the live pages, at every step
\* of a write and of a collection: every mapped logical page is on a live page
\* that points back to it, and every live page belongs to exactly one logical
\* page, not to the one just invalidated (ssd_write ftl.c:891-907, gc_write_page 691-703).
MappingCoherent == pc # "aborted" =>
    /\ \A l \in LPN : Mapped(l) /\ ~ InFlight(l) =>
           Live(maptbl[l]) /\ rmap[maptbl[l]] = l
    /\ \A p \in Ppa : Live(p) =>
           rmap[p] \in LPN /\ maptbl[rmap[p]] = p /\ ~ InFlight(rmap[p])

\* Every line has exactly one role: current, free, victim, full or being
\* collected; pos tells victims from the others (ftl.h:169-176) and
\* free_line_cnt is the length of the list it counts.
LinesPartitioned == pc # "aborted" =>
    /\ Lines = {wp.blk} \cup FreeLines \cup Victims \cup fullList \cup GcLine
    /\ wp.blk \notin FreeLines \cup Victims \cup fullList \cup GcLine
    /\ FreeLines \cap (Victims \cup fullList \cup GcLine) = {}
    /\ Victims \cap (fullList \cup GcLine) = {}
    /\ fullList \cap GcLine = {}
    /\ \A i, j \in DOMAIN freeList : freeList[i] = freeList[j] => i = j
    /\ \A l \in Lines : linePos[l] <=> l \in Victims
    /\ freeCnt = Len(freeList)

\* Flash is programmed in order and only where it is erased: free lines are
\* erased throughout, the current line exactly from the write pointer on, the
\* line being collected exactly in the blocks already erased, and filed lines
\* have no free page (the assertions at ftl.c:645, 763).
ErasedExactly == pc # "aborted" =>
    \A p \in Ppa : pgStatus[p] = "free" <=>
        \/ p.blk \in FreeLines
        \/ p.blk = wp.blk /\ ~ Programmed(p)
        \/ Erased(p)

\* ipc and vpc of every block, and of every line but the one being collected,
\* are the numbers of its invalid and valid pages; a line is filed as full
\* exactly when it has no invalid page, and the victim queue holds each line
\* under its present vpc (the assertions at ftl.c:606-619, 650, 656, 772).
Pages(status)   == {p \in Ppa : pgStatus[p] = status}
InLine(l, status) == Cardinality({p \in Pages(status) : p.blk = l})
CountersExact == pc # "aborted" =>
    /\ \A b \in Blk :
           /\ blkIpc[b] = Cardinality({p \in Pages("invalid") : BlkOf(p) = b})
           /\ blkVpc[b] = Cardinality({p \in Pages("valid") : BlkOf(p) = b})
    /\ \A l \in Lines \ GcLine :
           /\ lineIpc[l] = InLine(l, "invalid")
           /\ lineVpc[l] = InLine(l, "valid")
    /\ \A l \in fullList : lineVpc[l] = PgsPerLine
    /\ \A l \in Victims : victimPq[l] = lineVpc[l] /\ lineVpc[l] < PgsPerLine

\* The over-provisioning under which the FTL keeps a free line: the data do not
\* fill all lines but the current one and as many as the foreground threshold,
\* and a request fits into as many lines as that threshold.  run-blackbox.sh
\* satisfies it: 256 lines of 1024 pages, threshold 12, 192000 logical pages.
WellProvisioned ==
    /\ NumLpns < PgsPerLine * (TtLines - GcThresLinesHigh - 1)
    /\ (MaxNlb + SecsPerPg - 2) \div SecsPerPg < GcThresLinesHigh * PgsPerLine

\* The counters of a line by its role, without counting pages: what decides
\* where mark_page_invalid and ssd_advance_write_pointer file a line.
Index(p) == p.ch + NChs * (p.lun + LunsPerCh * p.pg)
LineCountsByRole == pc # "aborted" =>
    /\ \A l \in FreeLines : lineVpc[l] = 0 /\ lineIpc[l] = 0
    /\ \A l \in Victims : lineVpc[l] < PgsPerLine
    /\ \A l \in fullList : lineVpc[l] = PgsPerLine
    /\ lineVpc[wp.blk] + lineIpc[wp.blk] = Index(wp)
    /\ lineIpc[wp.blk] >= 0

\* do_gc frees the line when its last block is erased.
FreedAfterLastBlock == pc = "gc_free" => LastBlock(gcPpa)

\* The inductive invariant of FTL_proofs.
IInv ==
    /\ TypeOK
    /\ MappingCoherent
    /\ LinesPartitioned
    /\ ErasedExactly
    /\ LineCountsByRole
    /\ FreedAfterLastBlock

\* With over-provisioning (WellProvisioned, or less on the small drive of the
\* run) the write pointer never runs out of free lines, in the middle of a write
\* or of a collection (ftl.c:193-197).
NeverAborts == pc # "aborted"

\* do_gc collects the line with the fewest valid pages there is among the
\* victims, however often overwrites re-keyed the queue before (ftl.c:621-626).
GreedyVictim ==
    [][(pc \in {"gc_high", "complete"} /\ pc' = "gc_page") =>
        \A v \in Victims : InLine(gcPpa'.blk, "valid") <= InLine(v, "valid")]_vars

\* An erase never takes away the page a logical page is mapped to (do_gc
\* ftl.c:803-822: everything valid in the block was copied before).
EraseLosesNothing ==
    [][\A p \in Ppa : pgStatus[p] # "free" /\ pgStatus'[p] = "free" =>
        \A l \in LPN : maptbl[l] # p]_vars

\* What the comment at ftl.c:885 says of the loop it stands in: once foreground
\* collection has started it goes on until !should_gc, unless nothing is left
\* to collect.  (The loop tests should_gc_high.)
ForegroundGcReachesLowMark ==
    [][(pc = "gc_high" /\ gcForce /\ pc' = "invalidate") => ~ ShouldGc \/ Victims = {}]_vars

\* A request that was taken off a ring is answered and the thread comes back for
\* the next one: the foreground loop of ssd_write ends although every collection
\* may use up free lines (ftl.c:884-889), and so does the background one.
RequestsServed == pc # "idle" ~> pc = "idle"
=============================================================================
