# Verification of FemuFDE

FemuFDE is a set of replacement files for FEMU, the NVMe SSD emulator inside
QEMU: a flash translation layer (`ftl.c`, `ftl.h`) whose NAND model also charges
for full-disk encryption, the controller device (`femu.c`, `nvme.h`), and the
scripts and measurements that compare three set-ups: no encryption, encryption
with a tweak, and tweakless encryption.

This directory specifies that code in TLA+, model-checks it with TLC on small
instances, and proves with TLAPS all the safety properties the passing runs check,
for every instance or for those that meet a condition section 4 names.

## 1. Inventory

| Component | Source | State it keeps | Operations |
|---|---|---|---|
| Flash translation layer | `ftl.c`, `ftl.h` | `maptbl`, `rmap`, page status, block and line counters, the three line lists, `line.pos`, write pointer | `ssd_read`, `ssd_write`, `do_gc` and everything they call |
| NAND and crypt timing | `ftl.c:466-587` | `next_lun_avail_time`, `next_crypt_avail_time` | `ssd_advance_status` |
| FTL thread and rings | `ftl.c:923-983`, `nvme.h` | `to_ftl[i]`, `to_poller[i]`, `req->reqlat`, `req->expire_time` | `ftl_thread` |
| Geometry and parameters | `ftl.c:238-293`, `ftl.h:52-74` | `struct ssdparams` | `ssd_init_params`, `ppa2pgidx` |
| Controller registers and doorbells | `femu.c:8-256` | `bar`, `sq[]`, `cq[]`, `dataplane_started` | `nvme_write_bar`, `nvme_start_ctrl`, `nvme_clear_ctrl`, doorbell handlers |
| Device lifecycle | `femu.c:533-616` | threads, rings, allocations | `femu_realize`, `femu_exit`, `nvme_destroy_poller` |
| Property checking | `femu.c:295-324` | none | `nvme_check_constraints` |
| Identify data, PCI registration | `femu.c:326-531`, `nvme.h` | `id_ctrl`, `id_ns`, `bar.cap`, constant tables | filled once |
| Crypto micro-benchmark | `symCryptBench.c` | none | a measurement loop |
| Scripts, results | `*.sh`, `results/` | none | |

How they interact.  The guest writes the controller's registers and doorbells
(MMIO, in QEMU's threads).  Poller threads (in FEMU's `nvme-io.c`, which is not
in this repository) take commands from the submission queues and put each
request on the ring `to_ftl[i]` of their poller.  One FTL thread takes requests
off those rings, runs the translation layer on them, adds the latency the NAND
model computes to `req->expire_time`, and puts the request on `to_poller[i]`;
then it may collect one line in the background.  The poller completes the
request when `expire_time` has passed.

What is hard.  Inside the translation layer: a long legal sequence of
overwrites and collections moves lines between five roles while four counters
per state change decide the role; collection programs pages of the line pool
it is refilling, so it can run out of lines half-way; a block is erased at the
end of a loop that must have copied everything out.  Between the threads:
requests of several pollers reach the one FTL thread with different ages; ring
operations can fail; controller resets free queues under the pollers, and the
removal of the device frees the rings under the FTL thread, which never stops.
In the set-up: some fifty properties meet fixed widths (`int`, bit fields,
sixteen-bit sizes) and each other, and few are checked.  In the timing: one crypt engine is shared by all LUNs and its mode test is repeated in
two branches.  PROJECT.json lists each of these at its line under "hazards".

What makes each component correct.

- Translation layer: `maptbl` and `rmap` are inverse on the live pages at
  every step (`MappingCoherent`); every line has exactly one role
  (`LinesPartitioned`); only erased pages are programmed and exactly the pages
  passed over are not erased (`ErasedExactly`); an erase loses nothing
  (`EraseLosesNothing`); the counters are exact (`CountersExact`); the victim
  is the cheapest (`GreedyVictim`); the write pointer never runs dry on a
  provisioned drive (`NeverAborts`); writes complete (`RequestsServed`). All of
  this is so that the drive is an array of pages to its host
  (`ImplementsLogicalDisk`).
- Timing: no unit is reserved twice for the same instant, nor before the command was
  asked for, the stages of a command do not overlap, and the crypt engine never makes
  anything faster.
- FTL thread: every request is answered once, to its own poller, with its own
  latency.
- Controller: what `CSTS` says agrees with which queues exist; a well configured
  start always succeeds; a doorbell moves the index it belongs to and is never
  ignored; nothing given by the host survives its reset.
- Lifecycle: the FTL thread and the pollers use the same rings for ever; what the
  removal frees no poller uses; what a reset frees may still be in use, but no longer
  than the passes it interrupted and the requests under way then; the removal waits
  for paused pollers only; a reset does not hold up what the FTL thread was sent.
- Set-up: registers, Identify data, geometry and sizes computed from accepted
  properties agree with one another and with the memory behind them.

## 2. Modules

| Module | Models | Composes |
|---|---|---|
| `FTL` | the translation layer, as the steps of the FTL thread | |
| `LogicalDisk` | abstract: what a host may rely on | |
| `FTLDisk` | `FTL` with the data of its pages, a refinement of `LogicalDisk` | `FTL`, `LogicalDisk` |
| `FTL_proofs` | theorems about `FTL`: types, mapping, line roles, erasure | extends `FTL` |
| `FTL_counters` | the counters, the choice of the victim, why no drive aborts | extends `FTL_proofs` |
| `FTLDisk_proofs` | the refinement of `LogicalDisk` | extends `FTLDisk`, `FTL_proofs` |
| `NandTiming` | `ssd_advance_status` | |
| `CryptOverhead` | the three measured set-ups side by side | three instances of `NandTiming` |
| `FtlThread` | `ftl_thread` between the pollers' rings | |
| `Controller` | `nvme_mmio_write` and what it calls | |
| `Lifecycle` | `nvme_clear_ctrl` and `femu_exit` against pollers and FTL thread | |
| `Setup` | `nvme_check_constraints`, `femu_realize`, `ssd_init`, `nvme_start_ctrl` as functions of the properties | |
| `Timing_proofs` | theorems about `CryptOverhead` and the log of `MCTiming` | extends `MCTiming` |
| `FtlThread_proofs`, `Controller_proofs`, `Lifecycle_proofs`, `Setup_proofs` | theorems about the module of that name | extend it |
| `MC*` | small instances of the module of that name; `MCTiming` of `CryptOverhead` with a log of reservations | extend it |

How they correspond to the code:

**FTL.** One variable per array or list of `struct ssd`; a page address is a
record of `blk`, `pg`, `lun` and `ch`. The loops of `ssd_write`, `ssd_read`,
`do_gc` and `clean_one_block` are unrolled into steps, `pc` naming the next one
and `lpn`, `gcPpa` holding the loop variables. A step is one loop body with all
the helpers it calls: `ProgramPage` is `get_new_page`, the two table updates,
`mark_page_valid` and `ssd_advance_write_pointer`; `GcCopyPage` the same inside
a collection. `RecvWrite`, `RecvRead` and `RecvOther` take any legal request
off a ring; the foreground loop of `ssd_write` and the background collection of
`ftl_thread` share the steps of `do_gc`, told apart by `gcForce`. The heap is
the set of lines it holds with the key each was last filed under, and
`PqPeek` any line of least key. `abort()` is the label "aborted". Left out
because nothing reads them: `erase_cnt`, `victim_line_cnt`, `full_line_cnt`;
`pl` and `sec`, which are always 0 with the one plane per LUN the code supports.

**FTLDisk, LogicalDisk.** FEMU keeps the host's data in a memory indexed by
logical address and emulates only what a drive would do to find it. `data` is a
history variable: what the pages of such a drive would hold. A host write
programs it under the write pointer, a collection copies it, an erase destroys
it. The abstract disk is `data` looked up through `maptbl` (`Contents`); `Phase` and
`Todo` say which pages of the request are left. Every step of a collection, and
every step of a write but `ProgramPage`, is a stuttering step of `LogicalDisk`.

**NandTiming, CryptOverhead.** `NandRead`, `NandWrite`, `NandErase` are the three
cases of the switch; `UserRead` to `GcErase` its callers with the command type
and start time they pass. `gc_endtime` (never read) and the channel model
inside `#if 0` are left out.

**FtlThread.** `Wait`, `Skip`, `Dequeue`, `Serve`, `Charge`, `Return` cut the loop
at the points where a poller can see the difference. What `ssd_read` and
`ssd_write` return is any value of `Lats`. The pollers are modelled from what the
fields of `NvmeRequest` and the rings require of them and are marked external:
`Submit` sets `stime` and `expire_time` to the clock, `Collect` moves a request
from the ring to the priority queue, `Complete` ends it when its time has come.
`owner` and `work` are history variables.

**Controller.** One action per register or doorbell write. `WriteCc` applies the
three tests of the code in their order as functions on the controller's state,
so that one write may reset, start and shut down as it does there. `CapMpsMin` is what
CAP keeps of `mpsmin`, which no check bounds. An address is
a low half and the set of its bits above 31, which is all that `=`, `|=`, the
test for zero and the test for alignment distinguish. Doorbells are decoded
from byte offsets as in the code. Queue creation, deletion and the doorbell
buffer command run inside the admin doorbell and are external.

**Lifecycle.** Here the handlers of the main thread are cut at every object they
free, since neither the pollers nor the FTL thread take its lock: `BeginClear`
clears `dataplane_started`, `FreeSq` and `FreeCq` are the two loops of
`nvme_clear_ctrl`, `JoinPoller` and `FreeRings` those of `nvme_destroy_poller`,
`FreeArrays` the rest of `femu_exit`. A queue pair, with the requests allocated
in it, is a generation number, freed when it is no longer in `n->sq`; poller `i` serves
pair `i`, as with `multipoller_enabled`. `FtlStart` copies the ring pointers, `FtlSkip`,
`FtlTake` and `FtlReturn` are the loop. Pollers are external: a pass looks the
queue up, takes at most one request, completes at most one, and starts only while
`dataplane_started` is set. Nothing in `FemuCtrl` tells a poller an exit from a reset:
a paused one may return (`PollerReturn`), or may stay for the next start. `busy` and
`late` are history: the requests under way and the passes in progress when a reset
began. Deletion of a queue by an admin command is left out (`Controller` has it). After
`FreeRings` what the FTL thread reads is undefined, and the model lets it rest there.

**Setup.** `n` is a record of the properties, chosen at the start. `Refuse`,
`AbortOnNamespaces` and `Realize` are the three ways `femu_realize` can go, each a
whole call; `InitDrive` is `ssd_init`, which the black-box mode calls at its end.
`Start` and `Disable` are the controller's, reduced to the sizes they derive. Bit
masks are sets of bit numbers. `Wrap` is the arithmetic of `int`, `%` the
truncation to a bit field; their widths are constants. The product of two doubles
that `gc_thres_lines` is cut from may fall just below an integer, so `GcLines`
allows both values there.

## 3. Runs

| Run | Instance | Shows |
|---|---|---|
| `ftl_lines` | 4 lines of 2 pages on 2 channels, 2 sectors per page, 3 logical pages, requests of up to 5 sectors | types, `MappingCoherent`, `LinesPartitioned`, `NeverAborts`, `RequestsServed` |
| `ftl_blocks` | `MCFTLDisk`: 4 lines of 2 blocks of 2 pages, 2 logical pages, 2 values | `ErasedExactly`, `CountersExact`, `EraseLosesNothing`, `GreedyVictim`, and the refinement `ImplementsLogicalDisk` |
| `ftl_lowmark` | 5 lines, thresholds 3 and 1 | violated: the foreground loop stops at the high threshold, its comment says the low one |
| `ftl_smalldrive` | 4 lines, shipped thresholds rounded as the code does, 25% spare | violated: the write pointer finds no line |
| `timing` | 2 LUNs, 4 commands of any age, three set-ups | `CryptNeverHelps`; in each set-up units serve one command at a time, and none before it was asked for, stages in order |
| `thread_rings` | 2 pollers, 2 requests, rings of 2 | `RequestsConserved`, `LatencyIsOwn`, `NothingLost`, `NoStarvation` |
| `thread_stale` | 2 pollers, 2 requests | violated: `lat` left over from the request before |
| `ctrl_queues` | one I/O queue pair, stride 0; addresses unset, misaligned or beyond 32 bits, two page sizes | types, `QueuesOnlyWhenReady`, `QueueLossReported`, `ShadowOnlyIfGiven`, `RestartSucceeds`, the two doorbell properties |
| `ctrl_mps` | `mpsmin=1,mpsmax=0` | violated: accepted by the property check, cannot be started |
| `ctrl_stride` | `stride=1` | violated: the admin completion doorbell is dropped |
| `lifecycle` | 2 pollers, 2 queue pairs in the device's life | `RingsShared`, `PollersOnLiveMemory`, `FreedUseBounded`, `ExitEnds`, `RequestsDrain` |
| `setup` | 5741 settings of the properties | what `femu_realize` and `ssd_init` compute is consistent (seven properties besides the types) |

Why the bounds are enough.

- *FTL.* Two pages per line let a line be full, partly valid and empty of valid
  pages; two blocks of two pages per line (`ftl_blocks`) add erasing one block
  while another still holds data. Four lines give one current, one being
  collected and two that are free, full or victims. All state spaces are finite
  without any counter bound. `VictimShare` stands for the 8 of `pgs_per_line / 8`:
  with lines of fewer than eight pages the quotient is 0 and background
  collection takes any victim (8 in the cfg); with 1 it refuses every line that
  holds a valid page, so both outcomes of the test occur.
  `ftl_lines` needs requests that touch three pages, otherwise the foreground loop
  never goes round twice; with `abort()` a dead end, `RequestsServed` could not hold
  if the write pointer ran dry.
  Two values in `ftl_blocks` tell a page's data from another's, and from a page
  that lost it; they are interchangeable, and symmetry is used for them.
- *Timing.* `MaxTime`, `Horizon` and `MaxCmds` stop the clock and the queueing;
  a drive at the bound can do nothing more, which is why this run switches the
  deadlock check off. Four commands are two per LUN, or three waiting for the
  crypt engine behind one; with `MaxTime = 3` a request is asked for now or up to two
  instants ago, before or after what is reserved on its units.
- *FtlThread.* Two requests on two pollers wait on one ring behind one another or
  on two rings beside one another. `MaxTime = 1` gives requests two ages and lets
  some expire; two latencies tell a request's own from another's. The rings hold
  all requests, as those of the code do with 65536 entries as long as no more are
  in flight; `Return` models the loss beyond that.
- *Controller.* One I/O pair next to the admin pair tells a wrong queue id from a
  right one; `MaxAddr` covers the doorbells of both pairs and every misaligned
  address between them; `MaxVal` is one more than the last legal index.
- *Lifecycle.* Two queue pairs are one pair each, or one created again on the
  place of one that was freed; with two pollers the loops of the main thread have
  a first and a last round, and one poller can run while the other is joined.
- *Setup.* The defaults of `femu_props`, with one group of properties that the code
  relates at a time set to the values below, on and above each limit. The widths
  are scaled down (`int` to 11 bits, the fields of `struct ppa` to 1 to 3) so that
  drives of a few hundred pages are on both sides of every one of them; a drive of
  256 pages of 8 sectors is as large as the memory of one megabyte.
- `CHECK_DEADLOCK FALSE` elsewhere in `ftl_smalldrive`, where `abort()` really
  ends the thread, in `lifecycle`, where the device is gone at the end, and in
  `setup`, where a refused or aborted device does nothing more.

Symmetry is used for LUNs of the timing model and for requests in `thread_stale`:
nothing distinguishes their members. It is not used for the
channels and LUNs of `FTL`, whose order the write pointer follows, nor in any
liveness run.

Fairness. `FTL!FairSpec` and `FtlThread!FairSpec` are weakly fair to the FTL thread's
own steps and to nothing else: it is a thread that never blocks once started,
and the operating system schedules it. Neither the host nor the pollers are
obliged to do anything, so `RequestsServed` and `NoStarvation` hold whether or not
requests keep coming. `Lifecycle!FairSpec` is weakly fair to each of the three
kinds of threads, but to the main thread only inside a handler: one that has begun
runs to its end, and nothing obliges the host to begin one. Pollers are fair in their
passes, not in `PollerReturn`: whether a paused poller returns is decided outside this
repository, so `ExitEnds` has it as a hypothesis (`PausedPollersReturn`) and shows what
is this code's part: that every poller is paused before it is joined, and stays so.

What the properties of `Lifecycle` and `Setup` do not promise. `nvme_clear_ctrl` frees
memory that is in use: a queue by a poller that is polling it, even if all requests of
the host are back, and requests on their way. `FreedUseBounded` bounds that use and does
not exclude it, and a request that `RequestsDrain` sees answered may lie in freed memory.
If paused pollers do not return `femu_exit` never ends; if they do, a reset may leave
none for the next start. `QueuesReachable` is for the default stride and about doorbells:
without MSI-X (`femu.c:497`) a device comes up without interrupt vectors.
`MdtsAsAnnounced` includes that a device with pages of 64 KiB or more refuses every
transfer, its `page_size` being 0, and leaves open what a device allows beyond MDTS if CAP
has lost bits of its `mpsmin`. `LinesTileTheDrive`, `OverflowOnlyInSectors` and
`BlocksHaveEntries` are for geometries that fit `int` and `struct ppa`, the last for
namespaces no larger than the drive, `CollectionStartsInTime` for one plane per unit.
Nothing in the code enforces these conditions; the hazards name the places.

## 4. Proofs

A run looks at one instance; a theorem holds for every value of the constants
the module's named assumptions allow. What the assumptions say is what the code
presupposes: positive geometry, null values that are no addresses, properties of
the types `femu_props` gives them. Hypotheses beyond them are in the last column.

| Module | Theorem | States | If |
|---|---|---|---|
| `FTL_proofs` | `TypeCorrect` | `[]TypeOK` | |
| | `Inductive` | `[]IInv` | |
| | `MappingAlwaysCoherent` | `[]MappingCoherent` | |
| | `LinesAlwaysPartitioned` | `[]LinesPartitioned` | |
| | `AlwaysErasedExactly` | `[]ErasedExactly` | |
| | `ErasesLoseNothing` | `EraseLosesNothing` | |
| `FTL_counters` | `CountersInductive` | `[]CInv` | |
| | `CountersAlwaysExact` | `[]CountersExact` | |
| | `VictimAlwaysCheapest` | `GreedyVictim` | |
| | `DriveNeverAborts` | `[]NeverAborts` | `WellProvisioned` |
| `FTLDisk_proofs` | `DiskIsFtl` | `DiskSpec => Spec` | |
| | `DiskInductive` | `[]DInv` | |
| | `DriveIsLogicalDisk` | `ImplementsLogicalDisk` | |
| `Timing_proofs` | `TypeCorrect`, `CryptNeverEverHelps` | `[]TypeOK`, `[]CryptNeverHelps` | |
| | `UnitsAlwaysServeOneAtATime`, `StagesAlwaysInOrder` | `[]UnitsServeOneAtATime`, `[]StagesInOrder` | |
| `FtlThread_proofs` | `TypeCorrect`, `RequestsAlwaysConserved` | `[]TypeOK`, `[]RequestsConserved` | |
| | `NothingEverLost` | `NothingLost` | a ring holds as many requests as there are |
| | `LatencyAlwaysOwn` | `[]LatencyIsOwn` | |
| `Controller_proofs` | `Inductive`, `TypeCorrect` | `[]IInv`, `[]TypeOK` | |
| | `QueuesAlwaysOnlyWhenReady`, `ShadowAlwaysGiven` | `[]QueuesOnlyWhenReady`, `[]ShadowOnlyIfGiven` | |
| | `DoorbellsAlwaysReach` | `[]DoorbellsReach` | `DbStride = 0` |
| | `DoorbellsAlwaysHitOwnQueue`, `QueueLossAlwaysReported` | `DoorbellsHitOwnQueue`, `QueueLossReported` | |
| | `RestartAlwaysSucceeds` | `RestartSucceeds` | `CapMpsMin <= MpsMax` |
| `Lifecycle_proofs` | `Inductive`, `TypeCorrect` | `[]IInv`, `[]TypeOK` | |
| | `RingsAlwaysShared`, `PollersAlwaysOnLiveMemory`, `FreedUseAlwaysBounded` | `[]RingsShared`, `[]PollersOnLiveMemory`, `[]FreedUseBounded` | |
| `Setup_proofs` | `Inductive`, `TypeCorrect` | `[]IInv`, `[]TypeOK` | |
| | `QueuesAlwaysReachable`, `NamespaceAlwaysFits`, `MdtsAlwaysAsAnnounced`, `OverflowAlwaysOnlyInSectors`, `CollectionAlwaysStartsInTime`, `BlocksAlwaysHaveEntries`, `LinesAlwaysTileTheDrive` | `[]` of the property each is named for | |

All are theorems of `Spec`; those about data are of `DiskSpec`, those about the
log of reservations of `MCSpec`.

The hypotheses. `DbStride = 0` is the default of the device, `CapMpsMin <= MpsMax` says
that CAP announces a page size at all: `ctrl_stride` and `ctrl_mps` show that the two
theorems fail without them. Since `nvme_check_constraints` lets no `mpsmax` above
`mpsmin` pass, the second is met by devices with both equal and by those whose `mpsmin`
lost bits in CAP (16 and 4, say, announce 0 to 4); the others cannot be started. A ring of FEMU has 65536 entries, which is
the bound on requests in flight of `NothingEverLost`. `WellProvisioned` is a
condition on the drive that `run-blackbox.sh` satisfies and `ftl_smalldrive` breaks; it
is sufficient, not tight: `ftl_lines` is outside it and does not abort either. The
conditions inside the properties of `Setup` are discussed at the end of section 3.

### The arguments

**Mapping.** `IInv` is `TypeOK`, `MappingCoherent`, `LinesPartitioned` and `ErasedExactly`
with two strengthenings. The three properties need one another:
the write pointer programs an erased page only if the current line is erased
from it on (`ErasedExactly`), a new current line is erased only if the free list
holds nothing else (`LinesPartitioned`), and an erased page has no logical page
(`MappingCoherent`). `LineCountsByRole` ties a line's counters to its role: the
number of pages of the current line passed by the write pointer, all of them for
a full or victim line, so that `FileLine` and `MarkPageInvalid`, which decide by
counter, decide rightly; exact counters are not needed for that.
`FreedAfterLastBlock` says that a line goes back to the free list only after its
last block was erased. The place of a page in its line is a number (`Index`), and
lemmas say how the write pointer's and the collector's next page relate to it.
`IInvStep` has one lemma per step of the thread. `ErasesLoseNothing` follows from
the invariant and `OnlyErasesFree`: the collector has moved every page before it
erases a block.

**Counters.** `CInv` adds to `IInv` that the counters of every block, and of every
line that is not being collected, are cardinalities of sets of pages, and that
the queue files a line under its present `vpc`. Lemmas say how the
cardinality changes when one page changes its status; each step changes one
page, but for an erase, which empties a block. The victim is the cheapest because
its key is least and keys are counters.

**No abort.** `Room` is the number of pages that can be programmed before
`ssd_advance_write_pointer` finds no line. Between requests it is more than a line;
while a line is collected, more than the pages still to be copied (`Enough`). A victim has an
invalid page, so collecting it gives back more than it takes. That there is a
victim when the foreground loop wants one is a pigeonhole: `WellProvisioned` says that
full lines alone cannot hold what is mapped. The loop ends with the lines of the
threshold free, which is more than a request writes.

**Refinement.** `DInv` adds what the data need: the superseded version of the page
being written is stale already (`StaleOld`), and a request in service has a page left.
Two logical pages share no page and live pages are not erased, so a program changes
the contents of one logical page, a copy and an erase of none. Each step maps
to a step of `LogicalDisk` or to a stutter.

**Timing.** The three set-ups obey one law, `Effect`, in terms of `max`, and differ in
which commands use the engine. The order of the set-ups follows from `max` and `+` being
monotone. For the log, `LogInv` says that each unit is free only after everything
reserved on it; that a stage begins no earlier than it was asked for follows from the
two maxima each start is.

**FTL thread.** `AllPlaced` says where the requests of a poller are (priority queue,
ring back, hand, ring forth), that these places are disjoint and that no ring holds
a request twice; rings are sequences, so lemmas say what appending and taking the
head does to their elements. `OwnSoFar` follows the latency of the request in hand
from the submission to its return.

**Controller.** A register write applies up to three handlers one after the other.
`Sound` is stated of the part of the state they pass on, and each handler is shown to
keep it, so a write that resets, starts and shuts down at once needs no case of its
own. It says besides what `QueuesOnlyWhenReady` does not: the doorbell buffer exists
exactly while the pollers run, and then serves every I/O queue.

**Lifecycle.** `Held` and `Started` tie the threads' own pointers to the rings there are,
`ExitOrder` says that `femu_exit` stops the dataplane, joins every poller and only then
frees, and `BusyNoted` that while queues are being freed every request under way and
every pass in progress is noted in the history: without it nothing relates what the
loop frees to what was in use when the reset began.

**Set-up.** The invariant says that what a device has is what was computed from its
properties; the rest is arithmetic. Products of positive factors that fit an `int`
have parts that fit; the threshold, cut from a product of doubles, is bounded from
both sides; `ppa2pgidx` of a page the write pointer visits is a number whose digits
are the position (`PlaceInjective`), so that no two positions are the same page and,
there being as many as pages, all are visited (`PositionsCount`).

Only model-checked: what holds under fairness (`RequestsServed`, `NoStarvation`,
`ExitEnds`, `RequestsDrain`), which is out of the prover's reach, and the five runs
that expect a violation, which are counterexamples.

## 5. Not modelled

- The pollers, admin commands, the heap, ring and priority-queue libraries:
  FEMU files outside this repository; they appear as external actions and
  operators, modelled from how the code here uses them.
- The FTL thread after `femu_exit` has freed its rings: it is never joined, and
  what it reads is undefined.
- The use of a device that was refused (`n->sq` is NULL there): undefined as well.
- The interrupt masks (`INTMS`, `INTMC`), which nothing in this repository reads,
  interrupts, and `nvme_mmio_read`, which copies the registers.
- Most of the Identify and feature tables, PCI registration, the controller memory
  buffer: constant data, memory copies and calls into QEMU.
- The latency of a whole request, the maximum over its pages: `FTL` and `NandTiming`
  are checked apart, and `FtlThread` takes any latency.
- `symCryptBench.c`, the scripts and the results: measurements.

## 6. Plan

What is left are refinements of what is proved.

1. *No abort*: a condition that `ftl_lines` meets as well; the present argument
   sets aside the whole threshold for a request of any size.
2. *Progress*: as action properties, what makes the liveness runs pass: a
   collection leaves more room than it found, a page written brings the request
   nearer its end, `femu_exit` repeats no step.
3. *Start and reset together*: from `RestartAlwaysSucceeds` and
   `QueueLossAlwaysReported`, what a host that waits for `CSTS` may rely on, as an
   abstract controller the detailed one implements.
