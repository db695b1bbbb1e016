# TLA+ models of VPP's threads, queues, fifos, hash tables and BFD

VPP processes packets in vectors on a graph of nodes. One main thread and a
number of worker threads each run the same loop over their own clone of the
graph. This directory models the parts of VPP in which these threads, the
processes of applications attached through shared memory, and peers on the
network meet.

Paths below are relative to the root of the repository; the C code is under
`src/`, so that a file appears in `PROJECT.json` as `src/src/...`.

## Inventory

| Component | State | Operations | Meets | Hard behaviour | What makes it correct | Module |
|---|---|---|---|---|---|---|
| Worker barrier (`src/vlib/threads.c`, `threads.h`) | `wait_at_barrier`, `workers_at_barrier`, `node_reforks_required`, `recursion_level` | sync, release, barrier check, refork, start-up | every handler that changes shared state | two spins, counters read by threads at different times, recursion, deadlines | exclusion, exact counters, nobody left behind | `Barrier` |
| `vlib_workers_sync/continue`, `vlib_worker_wait_one_loop` | `wait_before_barrier`, `workers_before_barrier`, `done_work_before_barrier`, loop counts | called by nodes (session pools) and by ip6 FIB | barrier, RPC | two counters added without atomicity; waiting for each other | exclusive section, grace period, termination | `Barrier` |
| RPC to main (`src/vlibmemory`) | three vectors of requests | post, hand over, swap, execute | barrier, loop head | lost or unsent requests | every RPC runs, with the barrier held | `Barrier` |
| Frame queues (`src/vlib/buffer_funcs.c`) | per-thread ring: `head`, `tail`, elements; `check_frame_queues` | enqueue, dequeue, poll | every worker with every worker | CAS races, full ring, late flag, splitting | no buffer lost, doubled or reordered; delivery | `FrameQueue` |
| Message queue (`src/svm/message_queue.c`) | queue of references, data rings, robust mutex, condvar | allocate, add, sub, batch sub, wait, free | VPP workers and application processes | lock-free consumer, lost wake-ups, crash of a lock holder, timeouts | a bounded FIFO; nobody sleeps for ever | `MsgQueue`, `BoundedFifo` |
| Main loop and dispatch (`src/vlib/main.c`) | pending frames, node states, interrupts | dispatch, put frame, suspend | all of the above | order of polling, barrier and dispatch | - | partly |
| Process nodes and events | event vectors, timing wheel | signal, wait, resume | main loop, RPC | an event signalled while the process times out | no event lost | planned |
| Buffers (`src/vlib/buffer.c`) | per-thread caches, pools, reference counts | alloc, free, clone | all nodes | cache and pool exchange, clone counts | no double use | planned |
| `svm_fifo`, `fifo_segment` | indices, list of chunks, chunk lookup trees, out-of-order segments | enqueue in and out of order, dequeue, peek, drop, drop all; chunk allocation | session layer and applications | one producer, one consumer, no lock; remembered chunks; wrapping indices | the bytes of the stream, in order; no chunk lost | `SvmFifo`, `Reassembly` |
| io events of a session (`src/vnet/session`, `src/vcl/vppcom.c`) | `has_event`, `want_deq_ntf`, `has_deq_ntf`, two message queues, postponed messages, `unhandled_evts_vector` | enqueue and notify, send, reschedule, read, write, `epoll_ctl`, `epoll_wait` | vpp worker, application, transport | flags tested, set and cleared by two processes around tests of the fifos; full queues | nobody sleeps on data or on room to write; written data is sent | `SessionIo` |
| bihash (`src/vppinfra/bihash_template.[ch]`) | bucket words, backing stores, freelists, working copies, `saved_bucket` | add, replace, overwrite stale, delete, split, search | all tables of sessions, routes, neighbours, ... | readers without a lock, recycling, hash collisions | a map; every block has one use; exact search | `Bihash` |
| vppinfra: locks, timer wheels | counters, slots | lock, start/stop/expire | everything | overflow of wheels | timers fire once, in time | planned |
| BFD (`src/vnet/bfd`) | session state, poll state, intervals in use and configured, echo | periodic send, receive, timeout, set parameters, admin up/down, re-create | the peer over the network | loss, reordering, stale sessions, poll sequences that cross | up is mutual; intervals change through polls; convergence | `Bfd` |
| Binary API (`vlibmemory`, `vlibapi`) | client registrations, message rings | connect, send, reap | applications | clients that die | - | planned |
| Session establishment, TCP, VRRP, LACP, memif | protocol state machines and timers | events, packets, timers | peers | loss, retries, late timers | - | candidates |
| FIB, interfaces, features, adjacencies | configuration | API and CLI handlers | main thread under the barrier | only what the barrier excludes | - | not modelled |
| Packet-processing nodes, drivers, crypto | per-packet data | - | - | data rather than control | - | not modelled |
| CLI, formatting, logging, build, tests, tools | - | - | - | - | - | not modelled |

`PROJECT.json` lists all components with the reason for each that is left out,
and the hazards, each at the line where it bites.

## Modules

### `Barrier`

A state of the model is the shared words of `vlib_worker_threads[0]`, a program
counter for main (`mpc`) and for each worker (`wpc`), and what the surrounding
code adds. Every access to a shared word is one step; the sums and comparisons
of two volatile words in `vlib_workers_sync` and `vlib_workers_continue` are two
steps, in either order, because C does not order them.

| Model | Code |
|---|---|
| `BarrierSync`, `SyncDone` | `vlib_worker_thread_barrier_sync_int` up to and after its spin; a nested call only counts |
| `BarrierRelease`, `OpenBarrier`, `Drained`, `Reforked` | `vlib_worker_thread_barrier_release`: recursion and refork request, the store, the two spins |
| `SpinTimeOut` | the deadlines: `os_panic` |
| `SendPendingRpcs`, `BarrierCheck`, `CountIn`, `SeeRelease`, `CountOut`, `ReforkCheck`, `Refork`, `ReforkDone`, `EndLoop` | one pass of a worker's loop |
| `WorkersSync` ... `CountBefore`, `ReadFirst`, `ReadSecond`, `SectionDone` | `vlib_workers_sync` and the caller's work |
| `WorkersContinue` ... `BeforeDown` | `vlib_workers_continue` |
| `PublishAndWait`, `LoopsDone`, `FreeOld`, `TakeRef` | replacing ip6's vector of prefix lengths, and its readers |
| `PostRpc`, `AskForBarrier`, `HandleRpcs`, `RunRpc` | RPCs |
| `LaunchArrive`, `LaunchSeeRelease`, `LaunchLeave`, `InitialSync`, `InitialRelease`, `BootInit` | `vlib_worker_thread_init`, `start_workers`, the initial barrier |

`RunRpc` folds the nested sync and release around the RPC function, which only
count up and down. The hold-down timer, the elog events, the perf callbacks and
the clock offset of the workers are left out. `Init` is the state after a
start-up in which every worker has left the initial barrier; `BootInit` is the
start-up itself. A node graph clone is only up to date or not (`stale`), and a
vector is only the current or the replaced one (`ref`).

### `FrameQueue`

Every thread has a ring and both roles. An element's arrays, `offset` and
`n_vectors` become the sequence of entries not yet taken out. A call with
several packets for several threads goes through the same steps as
`vlib_buffer_enqueue_to_thread_inline`: load `tail`, compare with `head`,
compare-and-swap, fill, publish, ask the owner to poll, next thread; or append to
`drop_list`. The dequeue function, its partial copies and its threshold are
`Dequeue`, `ResetElt`, `BumpHead`, `EndDequeue`. The barrier check in the spin
on a full ring is left out: it only delays the spin. `CheckCount` stands for
the 100 idle polls. Whether a call drops on congestion or waits is an argument
of the call (`drop`), drawn from `DropOnCongestion`; `MaxBuffers` bounds what
each thread hands off. `PollTest` and `ClearCheck` are apart because the loop
reads `check_frame_queues` again before it clears it. A chunk is a function from
positions to packets, defined on the positions still to be placed: `For` is the
mask of `clib_mask_compare_u16`, `Nth` and `Compress` are `clib_compress_u32`.

### `MsgQueue`, `BoundedFifo`

Producers hold the mutex from the allocation of a ring element to the enqueue;
the consumer takes it only to sleep or to signal. Each access to a `cursize` and
each mutex operation is a step. The two sides stay with the functions they use:
`mode` is chosen initially from `Conds`, `Batches` and `Adds`, that is
`svm_msg_q_sub` with its three ways of waiting, `vcl_mq_dequeue_batch` with
`svm_msg_q_sub_raw_batch`, and `svm_msg_q_alloc_msg` with `svm_msg_q_add`. The pthread primitives are modelled
from their specification: a broadcast moves every sleeper to the lock, a sleeper
may wake up for no reason (`Spurious`), and the mutex of a dead holder goes to
the next one with `EOWNERDEAD` (`MayCrash`). A lock call then makes the mutex
consistent; `pthread_cond_wait` also returns `EOWNERDEAD`, which the code ignores, so
that the next unlock leaves a mutex nobody can lock again (`sick`, `Lost`). There the
model ends: the calls ignore that error as well and go on without any exclusion.
A producer may die in every step (`Crash`), and between moving a tail and raising the
`cursize` that goes with it (`CrashInside`). `svm_msg_q_alloc_msg` takes no lock;
only one producer uses it in a behaviour, the only use that its code supports.
The names of processes, rings and of "nobody" are different (`NamesAssumption`).

`BoundedFifo` is what the queue promises. `MsgQueue!IsFifo` is the refinement:
the channel is the queue's references read through the rings, and what was
received is what the consumer has read or holds.

`svm_msg_q_sub_raw` only asserts that the queue is not empty. After `EOWNERDEAD` and
after an early return of the timed wait it is called on an empty queue; `ReadEmpty` then
copies whatever the slot at head holds, and `cursize` wraps below zero (modulo `W`,
2^32 in the code). The history variable `damaged` records this, and a death between
the halves of an update. Nothing is claimed of a damaged queue. As a bound, the calls
that are on their way go on there and no new one begins (`Begins`).

The safety run mixes all modes and lets producers die. `IsFifo`, `AddAssert` and the
types hold until the queue is damaged, `FreeInOrder` until then or until a producer
dies. `SubAssert` says who never damages it: a consumer that tests the size itself (a
batch, or no wait), and one in `svm_msg_q_wait` as long as every producer lives.
`ConsumerNotForgotten` also has the premises that all live and that the wait is not the
timed one. The instances under "Other instances" check the raw predicates
`FreeExpectsOrder`, `SubExpectsMsg` and `SleepsOnEmpty` without these premises.

### `SvmFifo`, `Reassembly`

The two ends of a fifo. A call is a few steps: load the indices, allocate and
link chunks or unlink and collect them, copy, store the index; each step touches
at most one word that the other side reads. A byte is its position in the
stream, modulo `W`, so a byte in the wrong place, or one nobody wrote, is
visible to the consumer and recorded in `wrong`. The red-black trees are sets of
key and chunk, looked up the way `f_find_node_rbtree` does; `ooo_segment_add` and
`ooo_segment_try_collect` are functional definitions on a sequence of segments.

| Model | Code |
|---|---|
| `ProdLoad`, `ProdAlloc`, `ProdGrowFails`, `ProdLink`, `ProdCopy`, `ProdCopyOoo`, `ProdStore` | `svm_fifo_enqueue`, `svm_fifo_enqueue_segments`, `svm_fifo_enqueue_with_offset`, `f_try_chunk_alloc` |
| `ConsLoad`, `ConsDequeue`, `ConsPeek`, `ConsSegments`, `ConsDropAll`, `ConsUnlink`, `ConsCollect`, `ConsStore` | `svm_fifo_dequeue`, `svm_fifo_peek`, `svm_fifo_segments`, `svm_fifo_dequeue_drop`, `svm_fifo_dequeue_drop_all`, `f_unlink_chunks` |
| `Lookup`, `FindNode`, `Untrack`, `Passed` | the chunk lookup trees and the remembered chunks |

A fifo is used in one of two roles, as the session layer does: `rx` (out-of-order
enqueue, plain dequeue) or `tx` (in-order enqueue, peek and drop; after
`svm_fifo_dequeue_drop_all` the transport is gone). Chunks have one size.
A peek at the very end of the data, which would read no byte, is left out: the
session layer and tcp test what lies beyond their offset first.
`Reassembly` is what an rx fifo promises: a window of positions, received in any
order, of which the contiguous front is delivered. `IsReassembly` maps the fifo
to it; an enqueue changes it when the tail is stored.

### `SessionIo`

One session between a vpp worker (`vpc`) and an application (`apc`). The fifos
are byte counts, since `SvmFifo` is about the bytes; the message queues are bounded
sequences, since `MsgQueue` is about them. Every test, swap, set and clear of a
flag in shared memory is a step, and the plain read-modify-writes of
`want_deq_ntf` are two.

| Model | Code |
|---|---|
| `RxEnqueue`, `RxTest`, `RxSet`, `RxAdd`, `AcceptReply`, `Postpone`, `HandlePostponed` | enqueue and `app_send_io_evt_rx`, the accept reply, `app_wrk_add_mq_postponed_msg` and its handler |
| `MqPoll`, `TxTake`, `TxNoSpace`, `FillBuffer`, `TxSend`, `TxUnset`, `TxTest`, `TxSwap`, `Ack`, `Reschedule` | the session node's event lists, `session_tx_fifo_read_and_snd_i`, `session_tx_fill_buffer`, `session_tx_maybe_reschedule`, acknowledgements, `transport_connection_reschedule` |
| `NtfTest`, `NtfClear`, `NtfStore`, `NtfSend` | `svm_fifo_needs_deq_ntf`, `svm_fifo_clear_deq_ntf`, `app_send_io_evt_tx` |
| `ReadEmpty` ... `ReadSwap`, `WaitFlush` | `vppcom_session_read_internal` |
| `Write` ... `WriteStore` | `vppcom_session_write_inline` |
| `EpollAdd`, `EpollMod`, `EpollModStore` | `vppcom_epoll_ctl` |
| `EpollWait`, `HandleRx...`, `HandleTx`, `UnhandledDone`, `LtIn`, `LtOut`, `MqDequeue`, `EpollReturns`, `EpollTimeout`, `EpollLoop` | `vppcom_epoll_wait` and its handlers |

The application itself is external: it makes blocking calls, or runs an event
loop that believes what it was told until a call says otherwise, which is what
epoll asks of it (`canRead`, `canWrite`). `peek` distinguishes tcp, whose data
stays in the fifo until it is acknowledged, from transports that dequeue. In `peek`
the offset that `TxTest` compares with is the one after the send: `session_tx_fill_buffer`
advances it (`session_node.c:1012`), so that a full send deschedules the connection.
Only tcp reschedules a connection, so only there does `NoLostTx` accept a descheduled
session with data to send.

### `Bihash`

A backing store is a block of `2^log2_pages` pages; `mem` holds its slots. A bucket
word is a record, and a writer that holds the bucket's lock changes it in one
step per store. `Split` is `split_and_rehash` and, when it fails,
`split_and_rehash_linear`, as the retry loop calls them; building the new store is one
step, because nobody else can see it before `Publish` swaps the bucket word.
`MakeWorkingCopy` is a step of its own: from then on readers search the copy.
Readers load lock, offset, shape, each slot and the value one after the other
(`SearchUnlocked` ... `SearchCopy`). A freed block keeps its contents except for
the link of the freelist, which overwrites the first key (`JunkSlot`); a debug
image poisons it first (`dbg`), and that is the one the runs take. `ref` is the map the table
stands for, changed where the entry becomes visible. Whether entries live next to
the bucket (`BIHASH_KVP_AT_BUCKET_LEVEL`) is a parameter of the table, `inl`.

### `Bfd`

Two peers. Every handler runs under `bfd_lock`, so it is one action: `Tick`
(`bfd_on_timeout` with what it sends), `Expire`, `Receive` (`bfd_udp_input` with
`bfd_consume_pkt` and the answer to a poll), `SetParams`, `OnConfigChange`, `SetFlags`,
`SetEchoSource`, `Recreate`. A session is a record, and the setters of the code are
operators from records to records. Time is abstract: a timer may run out at any
moment before the link is calm, and intervals are only compared. `\E x \in {e}`
in these definitions only names a value. Packets may overtake each other and be
lost until `CalmDown`; from then on the operator keeps away, nothing is lost, and
no detection time runs out because the latency is below the transmit interval: what
a side has sent, the answer to it, and what was on its way to the side when it sent
arrive before its next packet is due (the guard of `Tick`; `crossed` remembers the
last of these). The transmitters are independent otherwise, and their packets may
cross. Without that assumption the handshake need not converge: when a packet is
still on its way after two transmissions of its receiver, two peers that answer each
other's old packets can keep taking each other down. `bfd_send_echo` may fail to
transport an echo, which switches the function off, until the link is calm.

### `BarrierProofs`, `FrameQueueProofs`, `MsgQueueProofs`, `SvmFifoProofs`, `SvmFifoDataProofs`, `SessionIoProofs`, `BfdProofs`, `NatLemmas`, `MC*`

The proofs about the modules they are named after (those about `SvmFifo` are in two
modules, the second built on the first), with facts about numbers that
several of them use in `NatLemmas`; and the instances for TLC, which only add the
symmetry sets and, for `FrameQueue`, how much each thread sends. Symmetry is used
in runs without liveness properties only.

Definitions marked `(mutant)` are deliberate slips of the definition below them.
No specification uses them: they document which property notices which slip.

## Runs

| Run | Instance | Shows |
|---|---|---|
| `Barrier_safety` | 2 workers, nesting 2, 2 handler steps, 1 sync per loop, readers of ip6's vector, timeouts | exclusion, no stale graph, grace period, `vlib_workers_sync` sections exclusive and their counter drained |
| `Barrier_live` | 2 workers from `start_workers` into the main loop, fair | the counter exact from the start; start-up ends, workers released, one-loop waits end, RPCs executed |
| `FrameQueue_safety` | 2 threads, rings of 2, frames of 2, calls of up to 3, dropping and waiting | buffers conserved and in order across races, splits and partial copies; claims exclusive; ring bounded |
| `FrameQueue_live` | 2 threads, frames of 1, calls of up to 2, dropping, fair | delivery, termination of the call |
| `MsgQueue_safety` | 2 producers that may die, 2 rings, queue of 2, every combination of entry points, spurious wake-ups | bounded FIFO until the queue is damaged, order of frees, who never dequeues from an empty queue, no lost wake-up of the consumer, messages valid until enqueued |
| `MsgQueue_live` | 2 producers, queue of 1, a ring that is never full, fair | nobody sleeps for ever |
| `SvmFifo_safety` | 3 chunks of 2 bytes of which other fifos hold up to 2, fifo of 4, requests of up to 3 bytes at offsets of up to 3, indices modulo 16 | the right bytes, chunks conserved and forgotten in time, segments canonical, reassembly |
| `SessionIo_safety` | fifos of 2, queues of 1, 1 postponed message, 1 `EPOLL_CTL_MOD`, the three ways of using a session, with and without peeking | no lost rx, tx or dequeue event |
| `SessionIo_live` | fifos of 1, queues of 1, event loops, fair | data is read, data is sent, a refused writer is told |
| `Bihash_safety` | 4 keys (a and b collide on all bits, c shares their bucket, d does not), two values for a and c, one slot per page, 2 writers and a reader in four shares of the work | the table is a map, blocks have one use, quiet searches are exact |
| `Bfd_safety` | intervals 1 and 2, one packet and one answer in flight each way, a change by the operator, a re-created session, echo on one side | up is mutual, intervals settled |
| `Bfd_live` | two changes by the operator of one side (so that only that side polls), one session each, losses, expiry, then a calm link on which packets cross, fair | convergence, poll sequences end |

The bounds make the interesting cases happen: two workers are enough for one to
leave the barrier while the other has not been scheduled, and for a sum of
counters to be reached without one of them; rings of two slots fill up and wrap;
`MaxNest = 2` and `MaxWork = 2` put a graph change at either level; calls of three
with frames of two are split, and a node frame too small for an element is filled
twice; a queue of two fills while the consumer is between its reads. Three
chunks are the most a fifo of four bytes can span, and with fewer it runs out in
the middle of an enqueue; its indices wrap; there is room for two segments apart from each other and from the
tail. Queues of one element make every second message a postponed or waiting
one. With one slot per page the second key of a bucket splits it, and a and b
force the resplit and the linear search; six operations of one writer go there and
all the way back. One packet each way in flight is enough for one that is older than
the last state change, and `MaxNet` admits an answer to a poll beside it.

Deadlock is checked in `Barrier_live`, `FrameQueue_live`, `SvmFifo_safety`,
`Bihash_safety` (where `Finished` is the end of the work) and the `Bfd` runs. It
is not in `Barrier_safety`, because a panicked VPP stops; in `FrameQueue_safety`,
because a thread that waits for a slot of its own full ring stops for good (see
below); and in the `MsgQueue` and `SessionIo` runs, because a process that waits
with nothing to come is an end state of the instance.

### Other instances

These configurations make TLC report a violation (of both properties, where there
are two, with `-continue`). They record what the code
does where its comments, assertions or documentation suggest otherwise, and where
a property of a run above therefore has a premise.

| Configuration | Property | What happens |
|---|---|---|
| `Barrier_boot_race` | `ForeachVlibMainAssert` | a barrier right after the initial one can find a worker that has not yet counted itself out of the initial one: it is counted into the next barrier, never sets `parked_at_barrier`, and runs while main holds it |
| `Barrier_sync_forced` | `SyncForced` | the RPC of `vlib_workers_sync` stays in the vector of the worker that waits for it |
| `Barrier_sync_twice` | `SectionExclusive` | a second `vlib_workers_sync` in one pass of the loop counts workers that are still leaving the first |
| `Barrier_wait_loop` | `OnceAroundTheTrack` | `vlib_worker_wait_one_loop` and `vlib_workers_sync` wait for each other |
| `FrameQueue_aux` | `FreedAreBuffers` | aux words are freed as if they were buffers |
| | `AuxDelivered` | `vlib_frame_queue_main_init` looks at the node's `aux_offset` before it stores `node_index`: the aux-aware dequeue function is not chosen |
| `FrameQueue_self` | `HandoffEnds` | a thread that waits for a slot of its own full ring waits for ever |
| `FrameQueue_size` | `SizeMeansSize` | a ring of n elements takes n - 1 frames |
| `MsgQueue_ring_wakeup` | `ProducerServed` | a producer that fills a ring while an element is being freed is not woken |
| `MsgQueue_batch_wakeup` | `ProducerServed` | a producer that fills the queue during a batch dequeue is not woken |
| `MsgQueue_timed_full` | `SleepsOnEmpty` | a timed wait sleeps on a full queue |
| `MsgQueue_timed_spurious` | `SubExpectsMsg` | a timed wait that wakes up early dequeues from an empty queue |
| `MsgQueue_dead_owner` | `ConsumerKeepsNoLock` | `EOWNERDEAD` leaves the mutex locked by the consumer |
| `MsgQueue_dead_empty` | `SubExpectsMsg` | `EOWNERDEAD` ends the wait with the queue empty |
| `MsgQueue_crash_order` | `FreeExpectsOrder` | a dead producer leaves a hole in its ring |
| `MsgQueue_add_full` | `AddKeepsNoLock` | `svm_msg_q_add` returns -2 with the mutex held |
| `SessionIo_block_hang` | `ReaderNotForgotten` | a blocking reader clears `has_event` (`vppcom.c:2003`) before vpp sets it late (`application_worker.c:880`); the message is flushed, the flag stays up, and the next data is not announced |
| | `WriterNotForgotten` | a blocking writer asks for a notification (`vppcom.c:2226`) after its test that the fifo is full; the dequeue in between notifies nobody |
| `SessionIo_mod_hang` | `NoLostWriteMod` | a TX event handled while `EPOLLOUT` is off does not reset `has_deq_ntf` (`vppcom.c:3011`): none follows when it is on again |
| `SessionIo_epoll_hang` | `ReportsAtOnce` | `epoll_wait` without a timeout waits (`vppcom.c:3177`) although unhandled events have filled in some |
| `Bihash_search` | `SearchLinear` | a search compares the key, a delete overwrites the slot, and the search copies all ones and reports them as the value |
| `Bfd_settled` | `PendingDone` | answering the peer's poll clears one's own (`bfd_main.c:1048`) before the new intervals are in use |
| `Bfd_detect` | `DetectsInTime` | the peer's new transmit interval is stored without recalculating the detection time (`bfd_main.c:1858`) |

Further instances that pass. The type invariant of `Bihash` holds on the instance of
`Bihash_safety`; those of the other modules are proved.
`Barrier_sync_live`: with one `vlib_workers_sync` per loop and fair
scheduling, barriers are obtained, one-loop waits end, RPCs are executed, and syncs are served as long as
main keeps taking the barrier (`SyncServedByOthers`).

### Fairness

Worker threads are pinned to cores of their own and never block, so each one's
`WorkerStep` and main's `MainStep` are weakly fair. What a node or a handler may
do but need not (`WorkerChoice`, `MainChoice`, `Enqueue`, `Call`) has no
fairness. `HandleRpcs` is strongly fair: the API process is one of several that
main runs in turn, so main may be busy with a barrier of another handler each
time but gets to it in the end. `SyncServedByOthers` states its own premise,
that main goes on taking the barrier, and
`RpcExecuted` that no worker is stuck in `vlib_workers_sync` (a worker that is
never hands its vector over, as `Barrier_sync_forced` shows). The three
properties of `Barrier_live` about the time after the start-up have the premise
`CleanStart`, that the start-up race of `Barrier_boot_race` did not happen: a worker
that missed its release waits for ever. In `MsgQueue` weak fairness per process is
enough for the mutex because the number of messages is bounded.

In `SessionIo` the worker and the application keep running (`VppStep`, `AppStep`). The
session node polls its queue, its postponed messages and its event lists in every
pass of the main loop, between which it also handles packets: those actions are
strongly fair, since packets may come in between each time. That a transport has
room in the end and that its peer acknowledges is assumed of the network; that a
peer sends is not. In `Bfd` the transmit timer is armed again by every path that
handles it, and a config-change event may come before it each time, hence strong
fairness of `Tick`; arrival of packets and the handling of events are weakly fair, on
a link that has become calm.

## Proofs

All theorems are about every value of the constants that satisfies the
assumptions of the module (named `...Assumption` there; TLC evaluates them on every
instance), so about any number of threads, producers or rings, any size of
rings, queues, frames and fifos, any intervals. In each module `Invariance` is
`Spec => []IInv` for an inductive `IInv`, a conjunction of named parts; a step
lemma has one case per action that can disturb the part. The properties follow
from `IInv`. Before they were proved, the invariants were checked with TLC on the
instances of the runs.

| Module | Theorem | Property |
|---|---|---|
| `BarrierProofs` | `TypeCorrect`, `CounterExact`, `MutualExclusion`, `ReforkComplete`, `GraceSafe`, `BeforeDrained` | `TypeOK`, `AtBarrierCounts`, `WorkersParked`, `NoStaleGraph`, `GracePeriod`, `BeforeBarrierDrained` |
| | `SectionsExclude` (in executions with `[]SyncsOnce`) | `SectionExclusive` |
| | `BootCounterExact` (of `BootSpec`) | `AtBarrierCounts` |
| `FrameQueueProofs` | `TypeCorrect`, `RingIsSafe`, `OrderIsKept` | `TypeOK`, `RingSafe`, `OrderKept` |
| | `BuffersConserved` (if `~WithAux`) | `Conserved` |
| `MsgQueueProofs` | `TypeCorrect`, `AssertsAreKept`, `ConsumerIsWoken` | `TypeOK`, `AssertsHold`, `ConsumerNotForgotten` |
| | `IsBoundedFifo` | `IsFifo`, the refinement of `BoundedFifo` |
| `SvmFifoProofs` | `ChunksAreConserved`, `OooIsCanonical` | `ChunksConserved`, `OooCanonical` |
| | `NeverOverfull` | the bound on the bytes in the fifo, a part of `TypeOK` |
| | `ImplementsReassembly` | `IsReassembly`, the refinement of `Reassembly` |
| `SvmFifoDataProofs` | `ReadsAreExact`, `NoChunkIsStale`, `TypesHold` | `ReadExact`, `NoStaleChunk`, `TypeOK` |
| `SessionIoProofs` | `TypeCorrect`, `TxNeverLost`, `RxNeverLost`, `WriteNeverLost` | `TypeOK`, `NoLostTx`, `NoLostRx`, `NoLostWrite` |
| `BfdProofs` | `TypeCorrect`, `UpMutual`, `IntervalsInUse` | `TypeOK`, `UpIsMutual`, `IntervalsSettled` |

### `BarrierProofs`

None of the properties is inductive: that main has seen `workersAtBarrier = N` says
something about the workers only if the counter is known to be exact, and that a
parked worker stays parked only if the flag is known to be up for as long as main
holds the barrier. `IInv` is the conjunction of

- `Types`, `RpcTypes`;
- `MainOrder`: which values recursion level, flag and refork request have at
  each place of main;
- `Counters`: each of the three counters is the size of a set of workers;
- `Parking`: where workers can be for each place of main (nobody leaves while
  the flag is up, nobody arrives while it is down, and nobody is inside once the
  release has drained);
- `Reforking`: during a refork `node_reforks_required` is the number of
  workers still to refork, and they wait for each other;
- `Grace`: references do not outlive a pass of the loop.

`InMove` says how the size of such a set changes when one worker moves; `InAll` and
`InNone` turn `workersAtBarrier = N` into "every worker".

`SectionsExclude` needs more, `SectionInv`, because the spins of `vlib_workers_sync`
and `vlib_workers_continue` compare words that were read at different times. The
workers go through three phases: they gather (nobody is past the first spin), all
have gathered (`Gathered`: nobody can leave), all are done (`Dispersed`: nobody can
enter again). `Phases` says that they are in one of these, `FirstReads` that the
word read first still bounds what it was read from, and `OneSync` that a worker does not
come back in the same pass of the loop. The last needs the premise of the theorem,
`[]SyncsOnce`: no worker calls `vlib_workers_sync` twice in one pass of its loop.
Nothing around `pool_get_aligned_safe` (`session.h:840`) guarantees it, since two pools may grow
in one pass, and without it the exclusion fails (`Barrier_sync_twice`). What is
excluded is the execution of nodes: two workers may be in their sections together.

### `FrameQueueProofs`

`IInv` is `Types`, `Polling` (the poll counter is positive while the ring is looked
at; the current frame and what was taken make up whole frames), `Positions` (head
and tail are less than a ring apart, positions beyond tail are not valid, the one
being reset was published) and `Claims` (what a producer saw in tail is still a
lower bound; the slot it has claimed lies between head and tail, is not valid, not
being reset and nobody else's). Positions are unbounded and slots are positions
modulo `NElts`: `SlotDistinct` says that different positions less than a ring
apart have different slots.

`OInv` adds what the order needs: what is beyond tail is empty (`Emptied`); the vector of
a caller is numbered and its chunk sorted (`Sending`); what is delivered, then the
elements from head to tail, are sorted for each sender (`Sorted`); what a caller
has still to place comes after all that (`Coming`); and a producer that has
claimed a position has nothing behind it (`LastClaim`), which is why claiming before
filling does not reorder.

`CInv` says that a buffer handed over is in exactly one place and any other in none
(`Kept`). Thirteen actions leave the places of every buffer alone (`StillStep`);
`ChunkMoves`, `FillMoves`, `DequeueMovesOne`, `DropMoves` and `FreeMoves` show that
each of the others moves a buffer from its place to one other. That `Compress` takes every
packet of the mask once is `NthOnto` and `NthOnce`. The theorem is about callers
without aux data: with it `DropGroup` writes the aux words over the buffers of the
drop list, and they are lost (`FrameQueue_aux`).

### `MsgQueueProofs`

`IInv` has `Types`, `QueueTypes`, `RingTypes`, `CallTypes`; `Locking` (who is inside has
the mutex) and `Calls` (what a producer knows of its message, its ring and the
queue); `Consuming` (the consumer's copy is the front of the queue); `Waking`; and the parts
about the messages on their way: `Flight`, the one being freed, those taken out and
those in the queue, in this order. `Ordered` says that in `Flight` a message has a
smaller `Age` (elements of its ring allocated since) than those before it of the
same ring, `NoGaps` that while nobody has died every element in use is that of a
message on its way, and `Contents` that the elements hold what was sent. A step does
one of five things to `Flight` (`Moves`: `Still`, `Takes`, `Sends`, `Starts`,
`Frees`), so that the three parts have five cases each rather than one per action.

`IsBoundedFifo` is the refinement: the initial states map to the empty
channel, and each of the five maps to a step of `BoundedFifo` or to none.

`IInv` is the invariant of a queue that is not damaged. What is inductive for all
states is `Inv`: `Types`, `~damaged => IInv`, and `Spared`, that it takes a dead producer
or the timed wait to damage the queue. Of the steps in `Damages` nothing is to be
shown but that, with `Waking`, they need one or the other; the steps in `Works` keep
`IInv`, where `NoWrap` and the lemmas on counting (`PublishCounts`, `DecrementCounts`,
`TakeCounts`, `FreeCounts`) show that no size wraps modulo `W`. `IsFifo` therefore is the
refinement of every step after which the queue is not damaged; together with `Spared`
this is all of a behaviour in which no producer dies and no timed wait is used.

### `SvmFifoProofs`

The theorems hold for any chunks, any length of a chunk, any size of the fifo and any
modulus `W` of the positions that is at least twice the size and four chunks, and twice
the sum of the size, `min_alloc` and a chunk. 2^32 is, for fifos and chunks of up to
half a gigabyte: `svm_fifo_init` bounds `min_alloc` by 64 kB. `IInv` is

- `Types`, of the indices, the list and the two calls;
- `Lists`: the pointers from `startC` lead to `endC` and end there (`Chain`), those of the
  chunks about to be linked likewise, and list, free list, chunks to link and chunks to
  give back have no chunk in common. The end of the list matters: the consumer walks
  `next` while the producer extends it, and unlinks every chunk but the last;
- `Window`: what a call was admitted with still fits. The producer tests for room
  against a `head` that may move on, the consumer loads a `tail` that may; both stay
  right because each index moves one way;
- `Canonical`: the ooo segments, as distances from `tail`, are sorted, apart, beyond
  `tail` and inside the window.

Positions wrap, so the first lemmas say when they may be computed with as if they did
not (`PlusPlus`, `DiffPlus`, `Compare`: within `Size` of one position comparisons
are those of the distances). `ListOfChain` says that the walk of `ListFrom` returns the
chain; it is the one recursive function of the module, and `WalkOfChain` shows that the
chain is the only function that satisfies its equation, by looking at the
first place where another would differ. `SpliceCanonical` is about one segment put
in place of some neighbours; `AddCanonical` shows that each branch of `ooo_segment_add`
does this and adds exactly the new positions, and `CollectCanonical` that
`ooo_segment_try_collect` moves `tail` to the first position that has not
arrived. In the refinement `ProdStore` and `ProdCopyOoo` are `Arrive`, `ConsStore` is `Take` or
nothing, and every other step is nothing.

### `SvmFifoDataProofs`

That the consumer gets the bytes that went in, and that no remembered chunk outlives
its place in the list, depend on where the chunks lie. `Place` is the
distance of each chunk of the list from `tail`, and `DataInvariance` is
`Spec => [](IInv /\ JInv)`, where `JInv` is

- `Geometry`: the chunks lie end to end (`Laid`), from the one of the first byte still to be
  read to beyond all that has arrived or is about to be copied, and end less than
  `min_alloc` and a chunk beyond the window. The last bound keeps wrapping positions
  comparable, and is why `min_alloc` is in the assumption;
- `Pending`: the chunks about to be linked continue the list as far as the call needs;
- `ProdSide`: `tail_chunk` holds the position up to which the producer has written, or is
  unknown exactly when the list is full; the `old` tail chunk of a call holds `tail`;
  `ooo_enq` is remembered only while something is ahead of `tail`;
- `EnqSide`: the enqueue tree has every chunk from that of `tail` to its last one, under
  its start byte, and none that begins beyond what has arrived by more than a
  byte. Without gaps, because a lookup takes the greatest key that is not after
  the position; and no farther, because `f_lookup_clear_enq_chunks` forgets the chunk of
  `tail` itself only when no segment is left: a chunk tracked beyond that would
  stay in the tree, with a gap before it;
- `ConsSide`, `DeqSide`: `head_chunk` holds the position the consumer's call has got to, and
  the dequeue tree is without gaps from `start_chunk` on, until
  `svm_fifo_dequeue_drop_all`;
- `Calls`: which calls a role makes, and that what a read was admitted with has arrived;
- `Bytes`: every position that has arrived and was not read has its own byte, in
  the chunk that holds it;
- `Kinds`: the types `IInv` leaves open, and `wrong = {}`: in `JInv` because the reads
  are exact by `Bytes`, `Geometry` and the three ways to a chunk.

The lemmas about operators say what they do in terms of `Place`: `IncludesIs`,
`FindIs` and `BeforeIs` for the walks along `next`, `CopyToIs` and `ReadIs` for the copies
(a read from any chunk that holds its first position returns the right bytes),
`NodeIs`, `EnteredIs` and `LookupIs` for the trees. Then there is one lemma per action. The hard ones are `UnlinkKeeps` (the list loses its front, while the producer may
be about to append to its end), `ProdCopyOooKeeps` (the tree grows up to the chunk
of the copied bytes) and `ProdStoreKeeps`, where `tail` moves and every distance
changes (`Shifted`).

### `SessionIoProofs`

Besides types and control, `IInv` has one part for each way an event can be on its
way. `TxInv`: unsent data means that the tx flag is up or about to be
swapped or tested, and a flag that is up is an element, a message or a descheduled
tcp connection. `RxInv`: data in the rx fifo means that vpp is about to announce it, a
message is queued or the application knows, with the weaker versions that hold
between the application's clearing of `has_event` and its second look at the fifo.
`WriteInv`: room in the tx fifo of an event loop that asked for a
notification means that one is queued or due. The properties are these
parts where both sides are idle.

### `BfdProofs`

`Good` is what every handler keeps of one session, whatever it is called with, and the
setters are shown to change what they say and nothing else. `Links` says that a
packet that names the receiver was sent by someone who had heard it (`Truthful`,
relative to the history of who heard whom), for every packet still on its way,
however old; `UpIsMutual` follows because a session comes up on such a packet only.

### Only model-checked

- All liveness properties.
- The properties of `Barrier_live` about the start-up other than its counter.
- Everything about `Bihash`. What `Rehash` and `Split` compute is a fold over the slots
  of a block, whose value for every input the provers cannot establish by induction;
  the ownership of blocks also depends on the arena never being exhausted, which
  the bounds of the instance see to.

## Plan

1. Core: `Barrier`, `BarrierProofs`, `FrameQueue`, `MsgQueue`, `BoundedFifo`. (done)
2. `SvmFifo` with `Reassembly`, `SessionIo`, `Bihash`, `Bfd`. (done)
3. Proofs about `Barrier`, `FrameQueue`, `MsgQueue` with its refinement of
   `BoundedFifo`, `SvmFifo` with its refinement of `Reassembly`, `SessionIo`, `Bfd`.
   (done) Left: the ownership of the blocks of `Bihash`.
4. `MsgQueue` in eventfd mode, where both sides share one eventfd and a
   spinlock; the torn read of ip6's vector (length from one, elements from
   another); the lock-free chunk list of a fifo segment with its tag.
5. `TwTimer` (wheels against a reference set of deadlines), `RWLock`,
   `ProcessEvents` (process nodes, events and their timeouts).
6. Session establishment and closing between session layer and VCL; TCP's
   connection states; VRRP, LACP, memif.

## Not modelled

Memory ordering weaker than sequential consistency (the code's barriers and
acquire/release pairs are assumed to do their work), the contents of packets and
messages, tracing, statistics and event logs, and the components the inventory
lists as such. Of the modelled components: the eventfd mode of the message queue;
filling a fifo in advance, cloning it, and the memory accounting of its segment;
more than one session, control events and connection states of the session layer;
lazy instantiation, blocks too large to recycle, and iteration of a bihash;
authentication, demand mode and the timing wheel of BFD.

The repository holds some nine hundred thousand lines, most of them per-packet
transformations, protocol encodings, plugins, drivers and command-line
formatting. The models cover the mechanisms the rest relies on for its
concurrency and, with BFD, one protocol machine; they are a small share of the
lines.
