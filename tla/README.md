# JARVIS OS in TLA+

Specifications, model-checking configurations and machine-checked proofs for the
x86-64 kernel image of JARVIS OS (`phase3/src`) and for the household memory store
(`phase7/memory`). Line numbers and paths are relative to the repository root unless they
start with a file name of `phase3/src`.

Contents: [the system](#1-the-system) ·
[the modules and the code](#2-the-modules-and-the-code) ·
[the runs](#3-the-runs) · [fairness](#4-fairness) · [the proofs](#5-the-proofs) ·
[where the code and its comments disagree](#6-where-the-code-and-its-comments-disagree) ·
[what is not modelled](#7-what-is-not-modelled) · [the plan](#8-the-plan) ·
[running it](#9-running-it)

## 1. The system

The image is a seL4 rootserver and the processes it starts.

```
 I211 card           candidate            rings, 15 x 256 B, CRC-32
 rx/tx rings  input  ---------->  PA  =============================>  PB
 <--------->  process <---------- |   <=============================  |
              (crash-isolated)    |   pages without a lock: snapshot, worker threads
                                  |   preamble, embedding             (one per core)
                                  |
                          NVMe: replay floor, control-IN turns and their
                          vectors, episodic records, model image
```

* **PA** (`sel4/main_x86.c`) is single-threaded. It owns the drivers, the decision
  cache, the SHIELD scan, the stores on NVMe and the supervision of PB. Its workload
  loop has one iteration per *slot*: a poll of control-IN, a cache lookup or one
  exchange with PB, a statistics block that samples the watchers and may ask for a wake
  inference, and a hang check.
* **PB** (`sel4/inference_server.c`) is the inference engine. It serves one request
  at a time from its request ring and answers on its response ring, a generation in
  several *chunks*. PA and PB run at equal priority on one core, so either can be
  preempted between any two of its accesses to the shared pages.
* **Workers** (`ai/threadpool_sel4.c`) are threads of PB, one on each further core,
  for the matrix rows of a generation.
* **The input process** (`sel4/input_server.c`) parses untrusted frames on a core of its
  own and hands PA candidates, which PA verifies (HMAC, epoch, nonce, sequence number).

Apart from the image, `phase7/memory` is a Python service that keeps what a household
says: one SQLite file, one writer, and a process that may stop between two transactions.

### 1.1 Components

State is what the component keeps between operations. "Hard" says which behaviours
a test would hardly reach. `PROJECT.json` lists the same components with their files,
and every hazard with the line where it bites and the properties that would catch it.

| Component (code) | State | Operations | Interacts with | Hard | Correct when | Module |
|---|---|---|---|---|---|---|
| Shared-memory ring (`ipc/shmem_ipc.c`) | two 32-bit indices, 15 slots with CRC | init, send, receive, pending | written by one process, read by the other | interleaving of single accesses, index wrap, corruption, a respawn in the middle of a call | a bounded FIFO; nobody inside the other's slot; nothing torn delivered | ShmemRing |
| PA-PB link and self-heal (`main_x86.c`, `inference_server.c`, `ai/km2b_miss.c`, `ai/pb_health.c`) | ring contents, sequence counters, miss counter, crash-loop window, dead latch | five dispatch lanes, PB's serve loop, respawn, hang check | both rings, PB's fault endpoint | late answers, crash in mid-reply or during a respawn, full rings | a stopped PB is restarted or given up; nothing of its old life is taken for the new one; PA never waits for ever | PbLink |
| Control-IN mailboxes, input process (`input_server.c`, `net/control_mailbox.h`, `net/control_ratelimit.c`) | one mailbox each way, counters, liveness latch, token bucket | forward, poll, verify, serve, rate-limit | PA, input process, replay floor, gate | a candidate of an older frame, a starved process taken for dead, clock wrap | PA verifies the frame it counts; the limit holds | ControlMailbox, TokenBucket |
| Control-IN routing and exits (`ai/route.c`, `ai/ctrl_exit.c`, `pa_ctrl_gate`) | query number, stop latch, stashed vector | shield, veto, recall, dispatch, five exits | link, stores, embedding page | late answers, latches shared by lanes, five exits that must agree | operator, store, audit and hang detector hear the same | ControlGate |
| Network driver (`drivers/nic_i211.c`) | two descriptor rings, one DMA buffer out | wire, arm, receive, send | the card by DMA | a card that fills and fetches at any time; a buffer used again at once | no frame torn, lost or repeated | RxRing, TxRing |
| Replay floor (`net/control_floor.c`, `net/control_replay.c`, persist and resume in `main_x86.c`) | two floor sectors, sequence floor, reservation, write count | boot, verify, write-ahead persist | NVMe with a volatile cache | power loss and warm reset between any two steps, torn sectors, counter wrap | no sequence number accepted twice; the lane never closes for good | ReplayFloor |
| Store of control-IN turns (`ai/episodic_store.c`, `ai/ctrl_epi_index.c`, `ai/embed_store.c`) | header and record sectors, index, vectors | boot, append, index, embed, backfill | gate, NVMe | stop between record and header, failed writes, index against a store that rolled | a turn is recalled as it was, for its own question | RecallStore |
| Worker pool of PB (`ai/threadpool_sel4.c`) | job, shared index, count, notifications | parallel-for, worker entry, pool init, reset by PA | PB-main, PA's respawn | every interleaving of count, signal and wait; a respawn inside a dispatch | every index once, for its own dispatch; the join exact; no wake-up lost | WorkerPool |
| Host thread pool (`ai/threadpool.c`) | generation, two condition variables | parallel-for, shutdown | host tools | slow wakers, spurious wake-ups, generation wrap | as the worker pool | HostPool |
| NVMe driver (`drivers/nvme.c`) | queue indices, phase bits, command counter, one bounce buffer | submit and wait, read, write, flush | the drive by DMA | completions after a timeout, out of order, many turns of the queue | a completion is taken once, in order; a flush that returned 0 is durable | NvmeQueue |
| Embedding page (`ipc/embed_region.h`) | one page, a header with a ready flag | ask, answer | PA, PB | a vector written after its request was given up | the vector is the whole vector of the text asked for | EmbedRegion |
| Shared context pool (`ai/shared_context.c`) | state snapshot under a sequence word; preamble | publish, read, pack, clear | PA, PB | reader overlaps writer | what an answer was made from is whole and its own | ContextSnapshot, ContextPreamble |
| Monitors and wake gate (`ai/monitors.c`, `ai/behaviors.c`, `ai/wake.c`) | watcher states, hourly budgets, wake latch | sample, inform, consult | statistics block, wake lane | three limiters in a row, clock wrap | one event told once, the degraded notice always | WatchGate |
| Decision cache (`ai/decision_cache.c`, `ai/cache_growth.c`) | fixed table, promotion counters, batch | lookup, insert, remove, promote, seed | workload loop, episodic store | tombstones, eviction against promotion, restarts | an LRU map; the boot patterns stay | DecisionCache, CacheGrowth |
| Household memory (`phase7/memory/jarvis_memory`) | spans, rows, links, two indexes, audit | ingest, contradict, merge, purge | retrieval | stops between transactions, candidates in any order, purge of closed rows | one current row; every loss audited and deserved; exact indexes | BeliefStore |
| Parse and verification; action spine; inference engine; retrieval's ranking | none | pure functions | the above | numerics and text | equal to references | - |
| Legacy rings, NVMe log, other drivers, phases 0, 1, 2, tools, front ends | - | - | - | - | - | - (section 7) |

## 2. The modules and the code

| Module | What it is | Proofs |
|---|---|---|
| `BoundedFifo` | abstract: a bounded FIFO that its supervisor may empty | - |
| `ParallelFor` | abstract: what a parallel-for promises its caller | - |
| `LruCache` | abstract: a map that forgets only the least recently used | - |
| `ShmemRing` | the ring at the grain of single accesses | `SharedPagesProofs` |
| `PbLink` | PA's lanes, PB's serve loop, the self-heal | `WorkloadProofs` |
| `ReplayFloor` | the write-ahead floor against resets of two kinds | `StoresProofs` |
| `WorkerPool` | PB's pool, its workers and the respawn | `PoolProofs` |
| `NvmeQueue` | the I/O queue pair and the drive | `NvmeQueueProofs` |
| `TokenBucket` | the rate limit on its wrapping clock | `ControlPathProofs` |
| `ControlMailbox` | PA's poll and the input process, store by store | `ControlPathProofs` |
| `ControlGate` | a query from the shield to its exit | `ControlPathProofs` |
| `RxRing`, `TxRing` | the card's descriptor rings, driver and card | `ControlPathProofs` |
| `EmbedRegion`, `ContextSnapshot`, `ContextPreamble` | the pages PA and PB share without a lock | `SharedPagesProofs` |
| `WatchGate` | watchers, hourly caps, wake latch | `WorkloadProofs` |
| `RecallStore` | the store of turns, its index and its vectors | `StoresProofs` |
| `DecisionCache`, `CacheGrowth` | the table; what fills it | `CacheProofs`, `StoresProofs` |
| `HostPool` | the pthread pool | `PoolProofs` |
| `BeliefStore` | the household store's writes | `BeliefProofs` |

**Refinements.** `ShmemRing`, the completions of `NvmeQueue` and the receptions of
`RxRing` implement `BoundedFifo`; `PbLink`, `EmbedRegion`, `ContextPreamble` and
`ControlGate` use rings as bounded FIFOs. `WorkerPool` and `HostPool` implement
`ParallelFor`. `DecisionCache` implements `LruCache`, and `CacheGrowth` extends
`DecisionCache` with what drives it. `TokenBucket` gives the verdict that
`ControlMailbox` chooses freely, `ReplayFloor` the outcome of its persist, `ControlGate`
what becomes of an accepted query, `PbLink` the consult that `WatchGate` asks for.
`ReplayFloor` states, about the drive, what `NvmeQueue` shows to hold while no command
timed out: a flush that returned 0 is durable.

**MC modules.** `MCSharedPages`, `MCControlPath`, `MCWorkload`, `MCStores` and `MCPools`
bundle the modules that belong together. A variable `part`, chosen at the start, says
which of them a behaviour is about; the others rest. So a run costs the sum of the state
spaces and not their product, and each part is still checked in full, since the parts of a
bundle share no variable, but for the cache by itself and under growth, which share the
table. Where a part is wanted with several values of a constant, the initial state chooses
one (`resets` of the floor, `house` of the household store) or, in `MCPools`, a second
instance has variables of its own (`Rough`). `MCShmemRing`, `MCPbLink`,
`MCReplayFloor`, `MCWorkerPool`, `MCNvmeQueue` serve the runs that refute something.

A definition whose comment says "mutant" is a plausible mistake; no specification uses
it. With the mutant in place of the definition named in `PROJECT.json`, TLC finds the
property violated.

### 2.1 ShmemRing

One action per access the other side can see. `SendBegin` loads the indices and passes
the full check of `shmem_ipc_send`; `SendHeader`, `SendPayload`, `SendCrc` fill the
slot; `SendPublish` is the release store. `RecvBegin` ... `RecvRelease` mirror
`shmem_ipc_recv`; a CRC error leaves `read_idx` where it is. `Reinit` is
`shmem_ipc_init` called by a respawn, which abandons PB's half-done call. `Corrupt` is
a bit flip in a published message, the event the CRC is there for. A message is an
opaque value, its header and its payload kept apart so that a torn one can be told.
The model is sequentially consistent: the code's release and acquire pairs order
exactly the accesses the properties depend on.

### 2.2 PbLink

`pa.pc` is where PA is in one iteration: `top` (control-IN poll), `lane` (the slot),
`stats` (wake), `next` (hang check); `purge`, `send`, `wait`, `drain` inside a lane;
`ready` inside a respawn. The lanes are data: `RequestType`, `AnswerType`, which of
them drain before sending (`PurgeLanes`), which poll the fault endpoint while they wait
(`FaultLanes`), where each goes on (`After`, `AfterFailed`). Timeouts may happen at any
moment of a wait, whatever PB does: that covers a slow PB as well as a dead one, and the
poll budget's last yield, after which nobody looks at the ring again. `RestartBegin` is
`pa_restart_pb` and `km2b_do_respawn`; its two outcomes are a PB about to enter and a PB
left suspended because a register access failed. PB may fault or wedge at any step,
before its ready ACK too. History fields (`cur` of a message or job, `own` of PA) mark
what belongs to the request PA waits for; no guard reads them.

### 2.3 ReplayFloor

`Receive`, `WriteDone`, `FlushDone`, `PersistFails` and `Check` are the steps of
`pa_verify_candidate` with `ctrl_floor_persist_ahead` inside; `Boot` is
`control_replay_init` and the resume from the winner of `ctrl_floor_select`. Write
counts wrap at `WcMod` (2^32) and are compared as the code compares them; sequence
arithmetic is modulo `SeqRange` (2^64). `resets`, chosen at the start among `Deployments`,
says which resets the box meets. The drive has a cache and media; `PowerCut` leaves
of every sector its old content, its new content, or, if it was dirty or in flight,
garbage; `WarmReset` restarts PA and keeps the cache. Frames arrive in any order, any
number of times.

### 2.4 WorkerPool

Thread 0 is PB-main. A step is one access to a shared field of `g_pool` or one kernel
call. A notification is one bit: a signal wakes the thread that blocks on it, or is
remembered once. `Suspend`, `ResetWorker`, `PollWake`, `PollDone` and `PoolInit` are the
respawn: PA suspends PB-main wherever it is, resets and resumes one worker after the
other, then resumes PB-main in `pb_restart_entry`, which drains the bits and initialises
the pool. Suspending a thread does not clear the bit it was about to wait for, so a
worker signalled before it was back in its wait is reset *with its wake pending*;
`PendingAtReset` says whether behaviours with that event are considered.

### 2.5 NvmeQueue

`Submit` is `nvme_submit_and_wait` up to its poll loop: write the data into PA's only
bounce buffer, take the next command identifier (1 .. 65535, wrapping), ring the
doorbell. `Poll` takes the entry at `cq_head` when its phase bit is the driver's, for
whichever command it is (the driver compares no identifier); `Timeout` gives up and
leaves the command with the drive. `Complete` is the drive: it executes a held command,
in any order and however late, moves data from or to the bounce buffer only then, may
refuse it, and never fills the last entry. `acked` and `flushed` are history: what a
caller may conclude from return values.

### 2.6 ControlMailbox and TokenBucket

`Poll` is one pass of PA's control-IN block: consume a new candidate and verify it
(`PaConsume`, `PaVerify` with the persist that may close the lane), the liveness window
(`PaTick`, `ctrl_in_liveness_tick`), forward a frame when none is in flight (`PaForward`
... `PaSignal`: body, header, sequence word, wake, each a step). `Serve` is the input
process from its wake to its publication: the snapshot of the raw mailbox, the bucket's
verdict, the parse, the status and the candidate, then the sequence word. `InDies` may
happen at any step of it. A frame is garbled, forged, replayed or good, which is all the
verdicts depend on.

`TokenBucket` is `control_ratelimit_allow`: elapsed milliseconds modulo `ClockMod`, the refill in
the code's width, the cap, the charge. `credit` is history: an ideal bucket on an unbounded
clock, charged for every frame let through.

### 2.7 ControlGate

`pa_ctrl_gate`: the query shield (`Accept`, `Refuse`), the router (`Classify`), the veto
with its embedding (`Veto`), answers PA gives itself (`ServeLocal`), the degraded answer,
recall by key, by vector or none, the send (a full request ring takes no query), the wait for
PB, the drain of the rest, and `ctrl_exit_decide` with what follows: store, reply, embedding,
tail. The wait counts polls; when those of a window are spent, `PbWaitDecide`
(`ai/pb_progress.c`) extends it if PB's tick has moved and fewer than `WindowCap` windows were
granted, else it is over (`GatePoll`, `GateExtend`, `GateTimeout`). The deployed build compiles
the tick out, which is `WindowCap = 0`. PB takes requests from its ring one at a time,
generates for as long as it likes, ticks, sends the stop reason if the response ring has room
(`SendStats`), and then the text in chunks, each with the next number (`SendText`), of which
the rest is dropped when the ring stays full (`SendCut`): also when nobody waits any more, so
that the chunks of an abandoned query come in any number before those of the query in hand,
under its number or another. `GateReceive` compares the number of the first chunk and
`GateDrain` that of none. `OtherLane` is a request of another lane, with its own stop reason.
What a query says is what classification makes of it, chosen when looked at.

### 2.8 RxRing and TxRing

`RxRing`: the card owns the descriptors from RDH up to RDT, fills a buffer in two bursts,
and writes the status last (`CardBegins`, `CardGoesOn`, `CardReports`, of a damaged frame
too). `Wire` and `Arm` are the boot; `i211_nic_recv` is the copy in two steps, the clearing
of the descriptor, and the tail moved to the descriptor just freed. `TxRing`:
`i211_send_phys` copies into the one DMA buffer, fills the next descriptor and moves the
tail; the boot burst polls for it to be done, telemetry and replies do not. The card fetches
part by part, however late; PA neither asks for room in the ring nor waits for the buffer, and
the model lets it go on: a frame may be copied over others that have not left, and the tail
may come round to the head, where the card sees an empty ring. `due` is history: the frames
handed over that have not left, and for each whether the buffer has been its own since its
doorbell.

### 2.9 The pages without a lock

Each access to a page is a step. `EmbedRegion`: `pa_embed_request` clears the ready flag,
drains late completions, sends, waits, gives up at any moment, and then checks ready,
status, sequence and length before it copies; PB writes the vector, the header fields and
the ready flag, for whichever request it has, or, when it cannot embed the text, the header
alone with `EMBED_STATUS_ERR`. `ContextSnapshot`: the sequence lock, writer
and reader, the word wrapping. `ContextPreamble`: PA packs or clears and sends; PB copies
what the pool holds when it takes the query up, which may be late.

### 2.10 WatchGate

A window ends (`WindowEnds`: the clock moves on by any amount up to `MaxWindow`, the values
are sampled once), then one step per watcher in the code's order (errors, self-heals,
uptime mark, degraded notice), each with its hysteresis, its debounce, the hourly inform
budget and the latch of the wake gate, then the wake lane's decision (`Consult`: pending,
cooldown, budget).

### 2.11 RecallStore

`StoreBoot`, `InitFlush` and `BuildIndex` are the boot; `Turn`, `WriteRecord`,
`WriteHeader`, `EmbedTurn`, `Backfill` are `ctrl_epi_write` and the vector path, with their
error returns; a write that reports an error may have reached the disk. `Stop` may happen
at any step and leaves the sector being written old, new or torn. `Added` is
`ctrl_index_add`, called for a turn just written and, by `Built` (`ctrl_index_build`), for each
record at boot. Recall is an operator (`Recalled`, `Candidates`), as it changes nothing.
`past` and `behind` are history: how far the records, and the header in memory, are ahead of
the header on disk.

### 2.12 DecisionCache and CacheGrowth

`CacheInsert`, `CacheHit`, `CacheRemove`, `CacheClear` over a table with open addressing;
access times are kept as the order of the slots. `CacheGrowth` drives the same table: the
patterns of the boot, the two lanes that look up the queries `Asked`, the episodic batch, the promotion
pass record by record (`Fold`, `Promote`, `EndPass`), and a restart that seeds the counts
from the store.

### 2.13 HostPool

What runs under the mutex is one step, up to a wait; `next_idx` is taken outside it. A
thread in `pthread_cond_wait` is asleep until signalled or wakes without reason
(`Spurious`). The generation number wraps at `GenMod`.

### 2.14 BeliefStore

`Ingest` is one candidate through the rules in the order of `rules.py` (`Accrue`,
`EndValue`, `Coexist`, `History`, `Settle`), `Contradict` the evidence rules,
`MergeCluster` and `PurgeCluster` the two operations on people, `EmbedPending` the vector
index, and `Recompute` the second transaction, which `StopBetween` may cut off. Confidence
is represented by the number of days it is computed from. `house`, chosen at the start, bounds
what one household hears; no rule reads it. A candidate carries what `candidate.py` looks at
(its kind, and that a stated one cites spans of one speaker, whoever that is) and the spans it
names against itself, which `ingest` links with the role "contradict" (`Cited`).

## 3. The runs

| Run | Size | Shows | Properties |
|---|---|---|---|
| `shared_pages` | 1.5 M states, 3 min | what PA shares with PB and with the drive: nothing torn, nothing of another request | `PageTypes` `RingSafe` `OwnVector` `ContextIntact` `PhaseTellsNew` `QueueInStep` `ImplementsFifo` `CompletionsFifo` |
| `control_path` | 0.4 M, 3 min | a frame from the card to the exit of its query, and the reply out | `ControlTypes` `MailboxSafe` `RateBound` `ExitHonest` `ThisTurn` `FramesWhole` `AnsweredOrGivenUp` `QueryEnds` `ReceptionsFifo` |
| `workload` | 0.4 M, 2 min | PA's lanes against every failure of PB; the watchers over the wrap of the clock | `WorkloadTypes` `GivenUp` `CleanSlate` `MissBound` `ConsultHonest` `DeadStopsDispatch` `FailureHandled` `PaNeverStuck` `OncePerCrossing` `DegradedTold` |
| `stores` | 0.9 M, 3 min | what is kept, over stops, resets, failed writes, full tables | `StoreTypes` `AcceptedOnce` `FloorKept` `RecallHonest` `CacheSound` `BeliefSafe` `ImplementsLru` |
| `pools` | 0.2 M, 2 min | both pools, with respawns and with spurious wake-ups | `PoolTypes` `PoolSafe` `HostExact` `ImplementsParallelFor` `HostImplementsParallelFor` `DispatchesGoOn` |
| `ring_overrun` | violation | a slot count that does not divide the index range | `NoOverwrite` |
| `link_own` | violation | a late chunk answers the next query | `CtrlReplyOwn` |
| `floor_both` | violation | a warm reset, then a power loss | `AcceptedOnce` |
| `pool_stale` | violation | a worker reset with its wake pending | `OwnJob` |
| `nvme_shift` | violation | completions shifted by one command | `FlushedIsDurable` |
| `vector_number` | violation | a vector under the number of an older record | `VectorNumber` |
| `digest_once` | violation | an uptime digest posted again after the clock wrapped | `DigestOnce` |

Deadlock is checked in every run: none of these systems may stop. The type invariants of
the parts are one conjunction per bundle.

### 3.1 What the properties say

* `RingSafe`: the producer is never inside a slot the consumer has not released
  (`NoOverwrite`), and nothing torn or corrupted before its CRC check is delivered
  (`DeliveredIntact`). `ImplementsFifo`: every accepted message comes out once, in order.
* `OwnVector`: the vector a caller is given is a whole one, never one PB was writing, and of
  the text it asked about; of an earlier request's text only if PB fails the very request PA is
  making (`FailedOwn`; section 6 has the trace).
  `ContextIntact`: a snapshot is one publication, whole (`NoTornSnapshot`); an answer PA
  uses was generated from the preamble packed for that query, whole (`OwnPreamble`), although
  a query taken up late may well read one that is being rewritten.
* `PhaseTellsNew`: one bit tells new completions from those of the turn before;
  `CompletionsFifo`: none lost, repeated or reordered; `QueueInStep`: each command given up
  leaves one completion too many behind, for ever (`Lag`), and until then a flush is durable
  and a read returns the last acknowledged write (`InStep`).
* `MailboxSafe`: PA verifies the frame it forwarded last, with the status that frame earns
  (`OwnFrame`); neither side writes a payload the other reads (`NobodyReadsWhileWritten`);
  the four counters never part by more than the frame in flight (`InLockstep`); the lane is
  given up only when one frame went unanswered for the whole series of windows
  (`LatchOnlySilent`). `AnsweredOrGivenUp`: a frame in flight is answered, or the lane is
  given up or closed.
* `RateBound`: in any interval at most the capacity and what the interval refills, across
  every wrap.
* `ExitHonest`: operator, store and audit are told one story (`OneStory`); only an answer of
  PB itself resets the hang detector, and a handled fault is not counted as a silence too
  (`ContactHonest`); a record says a memory was used exactly when one was (`ProvenanceTrue`).
  `ThisTurn`: an answer whose first chunk is this query's own is its own to the last chunk,
  although old chunks may bear its number and the drain takes any, and it is marked truncated
  exactly when this query's generation was cut, unless PB had no room to say so (`AnswerOwn`);
  and a vector compared or kept is this turn's (`VectorOfThisTurn`). An answer whose *first*
  chunk is an old one is accepted by the code: that is `link_own`, and nothing is claimed of it
  here. `QueryEnds`: PA comes back from every query, also from a PB that ticks for ever: what
  ends the wait is that extensions are counted.
* `FramesWhole`: the card writes through no descriptor without a buffer and into none PA is
  reading, a received frame is copied whole, and all descriptors but one are at any moment
  the card's, reported, or about to be handed back (`RxSafe`); what lies between head and tail
  are the descriptors of the frames that have not left, in order, and a frame that had the one
  transmit buffer to itself from its doorbell on leaves whole, whatever crowd came before it;
  the done bit the boot polls is of its own hello (`SentWhole`). `ReceptionsFifo`: frames are taken once, in order.
* `GivenUp`: the crash-loop latch, its window and its healthy count, updated from four
  places, never part (`WindowInv`), and a PB that was given up leaves nothing pending
  (`DeadIdle`). `DeadStopsDispatch`: no lane sends to it. `CleanSlate`: in the wait for the
  ready ACK, only the new PB can have put something into the rings. `MissBound`: at most
  `MissThreshold + 2` exhausted waits before the hang check acts, because an iteration waits
  in up to three lanes and is checked once. `FailureHandled`: whatever stops PB, it serves
  again or is given up. `PaNeverStuck`: every wait, drain and restart of PA ends, although
  PB may wait for PA to drain.
* `ConsultHonest`: two consults of a type lie a cooldown apart in real time
  (`ConsultsApart`), and PB is consulted only about what the operator was told in the same
  window (`ConsultTold`). `OncePerCrossing`: a watcher that fired does not fire again before
  its value was below the threshold. `DegradedTold`: the notice that PB is gone reaches the
  operator, however the caps are used up.
* `AcceptedOnce`: no replay across any resets of one kind. `FloorKept`: whatever reset
  comes *now*, the next boot resumes at or above everything accepted (`Covered`), and a torn
  write never closes the lane of a box that accepted a frame (`NeverBricked`).
* `RecallHonest`: read by logical index, the store is its history (`HistoryInOrder`); while
  it has not rolled, a question is answered from its newest usable turn (`NewestAnswer`);
  whatever it has been through, nothing is recalled for a question but a turn on that
  question (`RightRecall`).
* `CacheSound`: every entry is found by the probe of its own query and no query has two
  (`Reachable`); growth never costs a pattern, and only what was asked repeatedly is promoted
  (`GrowthKeeps`). `ImplementsLru`: the table forgets only on demand or to make room, the
  least recently used first.
* `BeliefSafe`: one current row (`OneCurrent`); every loss is named by the audit
  (`LossAudited`) and lost to a row that outranks it or is of its rank and not older
  (`LossDeserved`); the indexes hold the current rows exactly (`IndexExact`); every row rests
  on a span that is still there (`Grounded`); confidence is what the spans give, unless the
  process stopped before it was computed (`ConfidenceExact`).
* `PoolSafe`: past the join every index was handed out and nobody is at work (`JoinExact`),
  and an index is worked on with its own dispatch's function and context (`OwnJob`).
  `HostExact`: the same of the host pool, and its count of workers that owe a pass is exact
  (`OwedExact`). `ImplementsParallelFor`, `HostImplementsParallelFor`; `DispatchesGoOn`: no
  lost wake-up, in either pool.

### 3.2 The bounds, and why they are enough

* Ring: 2 slots, indices mod 4, 2 messages, one bit flip. Two slots reach full, empty and
  both sides in one slot; four index values wrap within two turns. The theorems lift the
  result to every safe geometry.
* Embedding page: sequence numbers mod 4 with one request queued, one being served and one
  to come; PB may fail each of them. Snapshot: four publications wrap the
  sequence word. Preamble: two preambles, two queries queued, numbers mod 4.
* NVMe: 3 entries are the smallest queue that is ever neither empty nor full; 2 sectors
  (symmetric), identifiers mod 3, one command given up. Both phases flip every three
  completions; no bound on commands, only on those given up.
* Mailboxes: sequence numbers mod 3 wrap all the time; a window of one iteration and two
  windows make "one below" and "at" differ. Bucket: room for two frames, a refill of half a
  frame per step, a clock of 11 values that no filling time divides. Gate: query numbers mod
  2, so that a chunk of an old answer bears this query's number as often as not; one request
  queued and one generated; a response ring of 2 and answers of up to 2 chunks, so that the
  stop reason or a chunk finds the ring full; windows of 2 polls, one extension.
* Card: receive ring of 3 (a cursor, a tail and one more), two packets and a damaged one;
  transmit ring of 3 (two frames crowd, a third overruns), a burst of 3 hellos, frame
  numbers mod 2.
* Link: with one slot the ring is full after one message, so lost ACKs, PB blocked on a
  chunk and truncation all occur; two chunks are a first and a later one; thresholds of 2.
  One sequence number suffices for `workload`, whose properties do not depend on matching:
  every answer of the awaited type then passes the comparison; `link_own` uses 16.
* Watchers: a clock of 5 values with an hour of 2, so the last hour is short, as in the
  code; mark 2, cooldown 3, two informs and one consult an hour, windows of up to 2 steps.
* Floor: 4 write counts wrap within one behaviour, and 6 sequence numbers force persists
  that rewrite both sectors after they held the winner. Power cuts and warm resets are two
  parts of `stores`.
* Store of turns: two records, four turns, two stops, one error: it rolls, restarts and rolls
  again. Cache: a table of three with four queries, of which two share a home slot. Growth:
  threshold, table of counts, batch and store of two.
* Household: a slot of one value with three rows on one span and two dates; a slot of many
  with two values; an edge with three spans of two days and two voices, one of
  which a candidate may name against itself (bench/harness.py only names spans it added).
* Pools: three workers give a first, a middle and a last one; a range of 1 is shorter than
  the team, a range of 3 is not; two respawns let the second interrupt the recovery from the
  first. `Rough`, the part with respawns at any moment and liveness, has two workers. Host
  pool: two workers and two generation numbers.

The bounds that stand in guards are `IndexLimit` and `MaxFlips` (ring), `MaxRestarts` (PB's
pool), `MaxTimeouts` and "`CidMod` commands do not pass while the drive holds one" (NVMe),
the analogous condition on numbers outstanding (`EmbedRegion`, `ContextPreamble`),
`MaxWindow` (watchers), `MaxTurns`, `MaxStops`, `MaxErrors` (turns), and `rows` and `against`
of `Households` (household store). The other modules are finite without one.

## 4. Fairness

* `PbLink`: `WF(Pa)`: PA's loop always runs on, as nothing in it blocks (every wait is a
  counted poll with `seL4_Yield`). `SF(Choose("heartbeat"))`: the generator that picks
  the slots returns to the heartbeat, whatever else it picks. Nothing is assumed of PB.
* `ControlMailbox`: `WF(Poll)`, for the same reason, and `WF(Serve)`: the input process has
  a core of its own. It may die at any step, which `Serve` does not cover, and it need not.
* `ControlGate`: `WF(GateStep)`, PA only: its loop polls and never blocks. Nothing of PB, which
  may tick and send for ever. `WatchGate`: `WF(WatchNext)`: one
  thread, windows go on.
* `WorkerPool`: `WF` of each worker, which has a core of its own, and of PB-main, which
  takes turns with PA at equal priority; the functions handed to the pool are loops over
  a row that end. `HostPool`: `WF` of the caller and of each worker: a mutex held for a few
  instructions, and an operating system that runs its threads.
* The other modules claim no liveness and assume no fairness. A drive that never answers, a
  card that never fetches and a PB that never takes a message are allowed everywhere.

## 5. The proofs

`tlapm` checks eight modules from nothing; no proof is left out. Every invariant of a passing
run, and every action property and refinement, is stated by a theorem for all values of the
constants; only liveness is not. Constants carry only the assumptions in the modules
(`RingAssumption`, `EmbedAssumption`, `SnapshotAssumption`, `PreambleAssumption`,
`NvmeAssumption`; `RxAssumption`, `MailboxAssumption`, `BucketAssumption`, `GateAssumption`,
`TxAssumption`; `LinkAssumption`, `WatchAssumption`; `FloorAssumption`, `StoreAssumption`,
`CacheAssumption`, `GrowthAssumption`, `BeliefAssumption`; `PoolAssumption`, `HostAssumption`,
`PoolsAssumption`), plus a named condition where the code needs one. What the assumptions ask
is what the code's constants satisfy: sizes are positive, a ring of numbers is wider than what
can be outstanding in it, a clock is longer than a cooldown and a window, the patterns of the
boot fit below the high-water mark and that below the table.

| Theorem | Statement | Condition |
|---|---|---|
| **`SharedPagesProofs`**, `NvmeQueueProofs` | | |
| `TypeCorrect`, `Invariance` | types, `[]IInv` of the ring | `SafeGeometry` for `IInv` |
| `RingSafety` | `[]RingSafe` | `SafeGeometry` |
| `Refinement` | `Spec => ImplementsFifo` | `SafeGeometry` |
| `EmbedTypeCorrect` | types of the embedding transport | - |
| `VectorIsOwn` | `[]OwnVector` | - |
| `SnapshotTypeCorrect`, `SnapshotsWhole` | types, `[]NoTornSnapshot` | - |
| `PreambleTypeCorrect`, `PreambleIsOwn` | types, `[]OwnPreamble` | - |
| `PageTypesCorrect`, `ContextStaysIntact` | `[]PageTypes`, `[]ContextIntact` of the bundle | - |
| `NvmeTypeCorrect`, `LapInvariance`, `PhaseIsNew` | types, `[]LapInv`, `[]PhaseTellsNew` | - |
| `QueueRefinement` | completions implement `BoundedFifo` | - |
| `QueueKeepsStep` | `[]QueueInStep` | - |
| **`ControlPathProofs`** | | |
| `RxTypeCorrect`, `ReceptionIsSafe` | types, `[]RxSafe` | - |
| `ReceptionRefinement` | `RxSpec => ReceptionsFifo` | - |
| `TxTypeCorrect`, `FramesLeaveWhole` | types, `[]SentWhole` | - |
| `MailboxTypeCorrect`, `MailboxIsSafe` | types, `[]MailboxSafe` | - |
| `BucketTypeCorrect`, `BucketInvariance`, `BucketBound` | types, `[]NeverAhead`, `[]RateBound` | - |
| `GateTypeCorrect`, `ExitsAreHonest`, `TurnsDoNotMix` | types, `[]ExitHonest`, `[]ThisTurn` | - |
| `ControlTypesCorrect`, `FramesCrossWhole` | `[]ControlTypes`, `[]FramesWhole` of the bundle | - |
| **`WorkloadProofs`** | | |
| `LinkTypeCorrect`, `LinkInvariance` | types, inductive invariant of the link | - |
| `GivenUpAtBound`, `RespawnIsClean`, `BoundedDetection` | `[]GivenUp`, `[]CleanSlate`, `[]MissBound` | - |
| `NoDispatchToTheDead` | `DeadStopsDispatch` | - |
| `WatchTypeCorrect`, `ConsultsAreHonest` | types, `[]ConsultHonest` | - |
| `OneEventPerCrossing` | `OncePerCrossing` | - |
| `WorkloadTypesCorrect` | `[]WorkloadTypes` of the bundle | - |
| **`StoresProofs`**, `CacheProofs`, `BeliefProofs` | | |
| `FloorTypeCorrect` | types of the floor | - |
| `FloorInvariance`, `NoReplay`, `FloorSurvives` | `[]IInv`, `[]AcceptedOnce`, `[]FloorKept` | `SafeDeployment` |
| `RecallTypeCorrect`, `RecallIsHonest` | types, `[]RecallHonest` | - |
| `CacheInvariant`, `CacheIsLru` | `[]CacheInv` (types, `Reachable`), `CacheSpec => ImplementsLru` | - |
| `GrowthTypeCorrect`, `GrowthIsSound` | types, `[](Reachable /\ GrowthKeeps)` | - |
| `BeliefTypeCorrect`, `HouseholdIsSound` | types, `[]BeliefSafe` | - |
| `StoresTypesCorrect`, `StoresCacheSound` | `[]StoreTypes`, `[]CacheSound` of the bundle | - |
| `StoresCacheIsLru` | `StoresSpec => ImplementsLru` | - |
| `StoresAcceptOnce`, `StoresKeepFloor` | `[]AcceptedOnce`, `[]FloorKept` of the bundle | `SafeDeployment` |
| `StoresRecallHonest`, `StoresHouseSafe` | `[]RecallHonest`, `[]BeliefSafe` of the bundle | - |
| **`PoolProofs`** | | |
| `PoolTypeCorrect` | types of PB's pool | - |
| `PoolInvariance`, `PoolSafety`, `PoolRefinement` | `[]PoolInv`, `[]PoolSafe`, `Spec => ImplementsParallelFor` | `~PendingAtReset` |
| `HostTypeCorrect`, `HostPoolExact` | types, `[]HostExact` | - |
| `HostPoolRefinement` | `HostSpec => HostImplementsParallelFor` | - |
| `PoolsTypesCorrect` | `[]PoolTypes` of the bundle | - |

The theorems of a bundle hold for every value of its parts' constants too. Only the second
instance in `MCPools` has values written into it: two workers and one job.

**The conditions are the findings' other half.** `SafeGeometry`: the slot count divides
the index range, or no send starts at the index wrap. The deployed ring (15 slots, 2^32)
meets it by the second disjunct only, for the first 2^32 - 1 messages after an init.
`SafeDeployment`: the box meets power losses or warm resets, not both, and
`MaxSeq + Reserve < SeqRange`. `~PendingAtReset`: no worker is reset with its wake pending.
`ring_overrun`, `floor_both` and `pool_stale` show that each is needed.

**The arguments.**

* *Ring.* A side inside a call holds a private copy of an index only it writes
  (`IndexInv`), so the pending count its check saw can only move in its favour. Within a
  safe geometry `SlotAt` is injective on the pending positions and on the next one
  (`SlotsApart`), so the producer's slot is not occupied: `NoOverwrite`. `SlotInv`,
  `ProdInv` and `ConsInv` carry what slot and locals hold, which gives
  `DeliveredIntact` and the head of `Queued` for the refinement. Every step but publish,
  release and reinit leaves `Queued` alone: a stutter.
* *Link.* `LinkInv` joins the five properties and adds `ControlInv` (which lane can be at
  which point). `MissBound` needs `LanesTried`: how many lanes may have counted before
  the present point of the iteration. `CleanSlate` needs that a respawn empties both
  rings before PB can run, and that the resumed PB has nothing to take.
* *Floor.* `IInv` is about the disks a reset may leave *now* (`CrashSafe`: each is `Good`)
  and about how the disk relates to PA's memory (`Holds`: the sector PA does not write
  next holds its reservation; `Spare`: the other holds nothing newer). `RulingWins` shows
  that the record after another in count wins the wrapping comparison, so a write to the
  spare sector either is not there after a reset, or rules with a larger floor.
* *Pool.* `Owing`, the set of workers yet to count themselves off, has `active` members;
  each step moves one worker between reasons to owe or out of the set (`OwingLess`), and
  who takes `active` to 0 is the one who signals. `ResetInv` says what a half-done
  respawn has put in order. The mapping to `ParallelFor` hides a dispatch before its
  first signal and after its join.
* *NVMe.* `LapInv` says which lap wrote each entry: below the tail the present one, from
  the tail on the one before. With `host.head` and `drive.tail` less than a lap apart,
  equal phases mean head <= tail, so the entry at the head carries the driver's phase
  exactly if head # tail: `PhaseTellsNew`. `PostedIs` then turns steps into FIFO steps.
* *Bucket.* `NeverAhead`: what the bucket holds, with what it would be given now, is at most
  what the ideal one holds. Elapsed time modulo the clock is at most the real time
  (`ElapsedType`, `AddedBound`), and the word that is added at most what that time is worth,
  whether the product wrapped or not (`ModLess`); so every error of the width is in favour
  of refusing.
* *Mailboxes.* Four counters chase each other over two sequence words. `CountersInv` knows
  three positions while a frame is outstanding: the input process has not looked at it
  (`Unseen`), works on it (`Working`), or has answered (`Quiet`, as when nothing is
  outstanding). `FrameInv` then says whose frame each mailbox and each local holds, and
  `LatchInv` that the silence is `miss * Deadline + age`, so that the latch falls with the
  last window and at no other moment.
* *Gate.* `FreshInv` and `VectorInv` say at which points a local, the stash and the record
  that wants a vector are this query's or empty. For text and stop reason, the rings are
  followed from the send on. `NothingOwn`: before it, nothing of this query is with PB.
  `InOrder`: PB serves in order, so what is older comes before what is this query's, in the
  request ring, in PB and in the response ring, and once a chunk or a stop reason of this query
  has been taken nothing older is left anywhere; so the drain, which looks at no number, has
  nothing else to take. `Marked`: a chunk whose stop reason PB could send has it in the latch
  or ahead of it in the ring (`Announced`).
* *Pages.* Embedding: `RequestInv` keeps PA's request the last of the ring, so when the page
  is ready under PA's number PB has no vector left to write (`AnswerInv`), and what PA checked
  stays so until it has copied (`CheckedInv`). `WholeInv`: a good status read since PA cleared
  the page is of an answer whose vector is whole, whoever's it is. Snapshot: `WordInv` counts the publications
  since PB took the word; fewer than a turn of it and at least one make the two readings
  differ. Preamble: `PackInv`, `ReadInv` and `ReplyInv` follow the bytes for the one number
  PA waits for, and say nothing of the others, which may be mixtures.

* *NVMe, whose completion.* `LagInv`: the driver has taken as many completions as it submitted
  commands but for those it gave up. `StepInv` says what holds until one is given up: the drive
  holds at most the command waited for (`HeldIsOwn`), so what was acknowledged is in its cache
  and after a flush on the media (`MediaInv`), and the completion at the head is of that
  command (`CommandInv`).
* *Card.* Receiving, `ArmedRing` ties the tail register to the cursor, one behind or, while a
  descriptor is handed back, two, and `ReportedRing` the reported descriptors to the stretch
  from the cursor up to the head register (`Between`); so what PA reads is never where the card
  writes (`CardAtWork`), and a reported buffer is whole (`WholeFrames`). Sending, `TxInv` needs
  no exclusion: `Handed` and `AtTail` keep the descriptors between head and tail those of the
  frames that are due, also when the tail overruns the head; `OwnLast` lets only the last of
  them have the buffer, and only until the next is copied; `BufferFilled` and `HeadRead` follow
  its bytes into the card.
* *Watchers.* A stamp on a clock that wraps tells the time since the last consult as long as
  that is below the cooldown (`StampInv`), which is when it is needed: `Cooldown + MaxWindow`
  within the clock's range keeps "just now" and "a whole turn ago" apart. `ArmedInv`: an armed
  watcher has been below its threshold since it fired.
* *Host pool.* `OwedExact`, in the run too, counts the workers that owe a pass; `ClaimInv` gives
  each busy worker the dispatch the caller waits for, `IndicesInv` keeps the claimed indices
  apart. That a worker's last generation differs from the pool's exactly when it owes survives
  the wrap because the caller cannot dispatch again before all have passed.
* *Store of turns.* `HeadersAgree`: the cursor is the total modulo the size, and the header on
  disk lags by the appends that reported an error (`behind`). `Ordered`: the slots of the last
  `StoreMax` numbers hold their records but for the oldest `past`, the ones a record beyond the
  header has been written over; `past + behind <= 1 + errors` is what a stop and the errors can
  do together, and the reason why `HistoryInOrder` is true with exactly that bound. `Indexing`:
  until the store rolls, the index lists the usable records and nothing else (`Lists`), after a
  boot (`Built`) as well as after an append (`Added`).
* *Cache.* A probe finds its entry if no slot before it is empty (`Findable`) and no query has
  two (`Single`); an insertion, an eviction and a tombstone each keep that for every other
  query, whatever its home slot. The order of the slots by age lists each valid one once
  (`AgeOnce`), which makes the mapping to `LruCache` a map: what is evicted is its oldest.
* *Growth.* Nothing is removed while the loop runs, so there are no tombstones and `used` counts
  (`Tended`); the patterns stay because the pass stops below the table's size. `Counted`: what
  a key has in the table of counts plus what of it is in the batch and not yet counted never
  exceeds how often it was recorded, nor does what the store and the batch hold together, which
  is what a reboot counts again. So who is promoted was recorded `Threshold` times, also
  across reboots.
* *Household.* `BeliefSafe` is nearly inductive. It lacks that the rows a second transaction is
  due for exist (`TodoHeld`) and that rows of a slot of many values have no heir (`ManyNoHeir`).
  The id of a purged row may be given to the next one: `LossDeserved` holds because the purge
  keeps the id in `purged`.
* *The bundles.* A step of a bundle is one of a part and leaves the others' variables alone
  (`PartsStep`, `PagesStep`, `StoresAreRecall` and the like), so that each part's invariant
  carries over. The cache and its growth share the table: `TablePart`.

`Built`, the promotion pass and the seeding at a boot walk a list; their lemmas go by the least
number a claim fails for, which exists as the natural numbers are well-founded
(`NaturalsInduction`, without its theorems that take an operator).

**Only model-checked.** Every liveness property (fairness and ENABLED are out of TLAPS's reach):
`FailureHandled`, `PaNeverStuck`, `AnsweredOrGivenUp`, `QueryEnds`, `DegradedTold`,
`DispatchesGoOn`. The properties with a condition are model-checked where it holds, but for
the respawns at any moment (`Rough`), of which the types and liveness are claimed. No
specification declares a recursive operator.

## 6. Where the code and its comments disagree

Each of these is a run that TLC refutes, from a property that a comment of the code states.

* `ring_overrun`, `ipc/shmem_ipc.c:76`. The full check compares free-running 32-bit
  indices and slots are `index % 15`. 15 does not divide 2^32; at the wrap two pending
  positions share a slot. It takes 2^32 messages in one direction without a respawn.
* `link_own`, `main_x86.c:4208`. PB numbers a reply's chunks upwards from its request's
  number; consecutive control-IN queries have consecutive numbers. A later chunk of a
  reply given up after a timeout passes the match of the next query.
* `floor_both`, `main_x86.c:6784`. A boot after a warm reset trusts a floor record that is
  only in the drive's cache, and writes next over the last durable one; a power loss
  during that write leaves neither.
* `pool_stale`, `main_x86.c:2909`. A worker is resumed before its pending wake is drained
  and goes on with the orphaned dispatch. The window is the time between a signal and
  the worker's return to its wait.
* `nvme_shift`, `drivers/nvme.c:129`. A late completion is taken as the next command's;
  after one timeout every flush may report durability one command early.
* `vector_number`, `main_x86.c:576`. A vector's number is computed from a count that stays
  at its maximum once the store of turns has rolled. The vector is stored under the number of
  an older record, or refused. The key check keeps this from recalling a wrong answer
  (`RightRecall` holds); semantic recall of every later turn is lost until a boot fills it in.
* `digest_once`, `main_x86.c:8939`. "Fire-once per mark ... by construction": the watcher of
  a mark re-arms when the 32-bit uptime wraps after 49.7 days.

Smaller ones, met while modelling, without a run of their own:

* `UsedExact` (stated in `DecisionCache`): a probe that meets no empty slot ignores the
  tombstones it passed, so the insertion evicts; into a table of nothing but tombstones it
  goes without being counted, and the next removal takes `entries_used` below zero. The
  deployed lanes never remove.
* The one exception in `OwnVector`: `embed_region.h` has PA refuse a result "whose seq belongs
  to the PREVIOUS request", but PA reads status before number and PB writes number before
  status. PA gives a request up and makes the next; PB completes the first late, and its
  completion wakes PA, which reads ready and the first answer's good status; PB now fails the
  second and puts its number on the page; PA finds the number it waits for and copies the first
  request's vector. It takes PB running between two reads of PA, and a text PB cannot embed.
  `shared_pages` has all of it, and shows that a wrong vector takes no less than this: a claim
  without the exception fails in it after 26 steps.
* `NamesStay` (stated in `BeliefStore`): `schema.py:5-6` has an audit row name the same row
  for the life of the store; SQLite gives the id of a purged last row to the next one.
* Household: a stored row keeps no time it was said at, so that of two candidates on one date
  the one ingested later wins, whichever was said first; a row is committed with confidence 1.0
  before the second transaction computes it; an index delete renders the row with the display
  name of today.

Behaviours of the model that no property claims away:

* PA takes the end of a drain for the end of a reply although PB may be preempted between two
  chunks (`main_x86.c:4254`, `DrainEnd`); the wake lane matches no sequence number
  (`main_x86.c:9345`, `Matches`).
* The very first persist of an unprovisioned box, torn, leaves the lane closed, by the code's
  fail-safe (`control_floor.c:82`, outside `NeverBricked`); a reservation near 2^64 wraps
  (`control_floor.c:93`, excluded by `SafeDeployment`).
* Replies and telemetry share one DMA buffer, and only the boot burst waits for the card
  (`main_x86.c:3507`, `:4883`): a frame the card has not fetched is overwritten by the next, and
  a card as many frames behind as the ring has descriptors loses them all. `TxRing` has both;
  `SentWhole` shows that the damage stays with the frames that were crowded.
* An answer whose first chunk is an old one with a fitting number is accepted and the new one
  drained into it (`ControlGate`, whose `AnswerOwn` is silent there; `link_own` refutes the
  claim that it cannot be).

## 7. What is not modelled

* Of the link: `MSG_DEBUG` (every receive loop skips it, the gate's too), a boot without a usable model, a
  failed lookup of PB's restart symbols (self-heal is then off), ring CRC errors (ShmemRing
  has them; the link's rings deliver).
* Of the ring and the pages: weak memory beyond the release/acquire pairs; the ring of recent
  decisions in the context pool.
* Of PB's pool: the serial path and the shutdown, a register-access failure in the reset of a
  worker, function bodies (they do not touch the pool). Of the host pool: the serial path and
  the start of the threads.
* Of the floor: frames that fail to parse or authenticate change nothing and are left out;
  nonce ring and epoch are the Boolean `fresh`.
* Of NVMe: the admin queue and bring-up, PRP lists (one page per command), the submission
  ring's slots (the driver never checks its head: a drive that stopped fetching while
  commands time out would let the tail pass it).
* Of the network: the RTL8168, register bring-up, packet formatting; `net_stack.c` and
  `net_cmd.c`, which `main_x86.c` does not use.
* Of the gate: the duty window and the reply packets. Of the watchers: those of the stores'
  wrap (their total only grows) and the texts. Of the stores: the semantic and the audit
  store, which have the same write path and no index; distillation.
* Of the household store: persons and their names, the derivation of evidence from text,
  events, and what a rejected candidate leaves (an audit line that names no row).
* Whole components. Parsing and HMAC, the action spine,
  ranking, tokenizer, forward pass and sampling are sequential functions without state that
  the repository tests against references: a model would restate them. The legacy rings
  (`ipc/dual_ring_buffer.c`) are used by host tests only; the NVMe log is append-only text
  that nothing reads back; block, console, timer and the other drivers are register I/O.
  Phases 0 and 1 are a prototype, the ARM64 image of phase 2 is the ancestor of the modelled
  code (its rings and cache live on in `ipc/` and `ai/`); build and measurement tools run once
  and keep no state; the voice and console front ends are functions of their input or views
  of the stores.

These make up most of the repository's lines: numerics (the forward pass and the quantised
kernels), device bring-up, the ARM64 image and its drivers, self-tests, telemetry text and
front ends. What keeps state and runs beside something else is in the modules above.

## 8. The plan

What is left, in order of how much rests on it:

1. Theorems: that what is proved of a part holds in its bundle, where that is not stated yet;
   the theorems of what the points below add.
2. `NvmeQueue` under `ReplayFloor` and under `RecallStore`, in place of their own drives: what
   a flush that returns one command early costs them.
3. `ControlMailbox`, `ControlGate` and `PbLink` in one behaviour, on one slot of the workload
   loop, rather than side by side.
4. The semantic and the audit store as instances of the write path of `RecallStore`.
5. The boot order of the image: which component may run before which has recovered.

## 9. Running it

```
tlc -workers 2 -config MCWorkload.cfg MCWorkload
tlapm WorkloadProofs.tla
```

The passing runs take two to three minutes each, the refuting ones seconds. The proofs take a
few minutes a module.
