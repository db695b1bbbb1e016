------------------------------- MODULE Barrier -------------------------------
(***************************************************************************)
(* The worker-thread barrier of vlib (src/src/vlib/threads.c, threads.h,   *)
(* the worker part of vlib_main_or_worker_loop in main.c) with the things  *)
(* the code builds on it:                                                  *)
(*                                                                         *)
(*  - the barrier itself: main raises wait_at_barrier and spins until      *)
(*    workers_at_barrier reaches the number of workers; the release lowers *)
(*    the flag and spins until the counter is back to 0;                   *)
(*  - recursive sync/release on the main thread;                           *)
(*  - the node-graph refork that a release may ask of every worker;        *)
(*  - RPCs from the workers to the main thread, which run with the barrier *)
(*    held;                                                                *)
(*  - vlib_workers_sync/vlib_workers_continue, with which a worker stops   *)
(*    the other workers "before the barrier";                              *)
(*  - vlib_worker_wait_one_loop, the grace period after which main frees   *)
(*    memory that lock-free readers on the workers may still use;          *)
(*  - the start-up sequence (start_workers, the initial barrier).          *)
(*                                                                         *)
(* Every access to a shared word is a step of its own; code that touches   *)
(* only thread-local state is folded into the neighbouring step.           *)
(***************************************************************************)
EXTENDS Integers, Sequences, FiniteSets

CONSTANTS
  Workers,     \* the worker threads (all threads but thread 0)
  MaxNest,     \* bound on recursion_level
  MaxWork,     \* bound on what one main-thread handler does under the barrier
  MaxSyncs,    \* bound on vlib_workers_sync calls of one main-loop iteration
  GraceUsers,  \* TRUE: ip6_fib frees vectors after vlib_worker_wait_one_loop
  MayTimeOut   \* TRUE: a spin of the main thread may outlive its deadline

ASSUME WorkersAssumption == IsFiniteSet(Workers) /\ Workers # {}
ASSUME BoundsAssumption ==
  /\ MaxNest \in Nat \ {0}
  /\ MaxWork \in Nat
  /\ MaxSyncs \in Nat
  /\ GraceUsers \in BOOLEAN
  /\ MayTimeOut \in BOOLEAN

VARIABLES
  waitAtBarrier,     \* *vlib_worker_threads->wait_at_barrier
  workersAtBarrier,  \* *vlib_worker_threads->workers_at_barrier
  nodeReforks,       \* *vlib_worker_threads->node_reforks_required
  recursionLevel,    \* vlib_worker_threads[0].recursion_level
  needUpdate,        \* vgm->need_vlib_worker_thread_node_runtime_update
  waitBefore,        \* vlib_worker_threads->wait_before_barrier
  workersBefore,     \* vlib_worker_threads->workers_before_barrier
  doneBefore,        \* vlib_worker_threads->done_work_before_barrier
  wpc,               \* where each worker is
  mpc,               \* where the main thread is
  phase,             \* "start", "initial" (barriers of the start-up), "run"
  work,              \* handler steps taken since the barrier was closed
  reforkNeeded,      \* refork_needed of vlib_worker_thread_barrier_release
  parked,            \* vm->parked_at_barrier of each worker
  stale,             \* workers whose node graph clone is out of date
  syncs,             \* vlib_workers_sync calls since the top of the loop
  seen,              \* first operand read by the spin of vlib_workers_sync
  workerRpcs,        \* vm->pending_rpc_requests of each worker
  pendingRpcs,       \* pending_rpc_requests of the main thread
  processingRpcs,    \* processing_rpc_requests of the main thread
  ref,               \* vector a worker reads: "none", "cur" or "old"
  behind             \* workers whose main_loop_count is still the recorded one

barrierVars == <<waitAtBarrier, workersAtBarrier, nodeReforks>>
mainVars == <<recursionLevel, needUpdate, mpc, phase, work, reforkNeeded>>
workerVars == <<wpc, parked, stale, syncs, seen>>
syncVars == <<waitBefore, workersBefore, doneBefore>>
rpcVars == <<workerRpcs, pendingRpcs, processingRpcs>>
graceVars == <<ref, behind>>
vars == <<barrierVars, mainVars, workerVars, syncVars, rpcVars, graceVars>>

N == Cardinality(Workers)

-----------------------------------------------------------------------------
(***************************************************************************)
(* Where a worker can be.                                                  *)
(***************************************************************************)

\* vlib_worker_thread_init: not yet counted, spinning, about to count down.
LaunchStates == {"launch", "launchParked", "launchLeaving"}

\* vlib_worker_thread_barrier_check after it saw wait_at_barrier.
CheckStates == {"arriving", "parked", "leaving", "left", "reforking",
                "reforkWait"}

\* vlib_workers_sync and vlib_workers_continue.
SyncStates == {"syncAsk", "syncWait", "syncCount", "syncSpin", "syncSpinAt",
               "syncSpinBefore", "section", "continue", "continueSpin",
               "continueSpinDone", "continueSpinBefore", "doneDown",
               "beforeDown"}

\* "top" and "check": the head of the loop; "run": dispatching nodes.
WorkerStates ==
  {"top", "check", "run"} \cup LaunchStates \cup CheckStates \cup SyncStates

MainStates == {"idle", "syncing", "held", "opening", "draining",
               "reforkSpin", "waitLoop", "freeing", "initialSync", "panic"}

\* A queued RPC: which worker posted it, and vlib_worker_sync_rpc or another.
Rpc == [from : Workers, fn : {"sync", "user"}]

Goto(w, s) == wpc' = [wpc EXCEPT ![w] = s]

(***************************************************************************)
(* The accesses to shared words.  Definitions marked (mutant) are slips    *)
(* that the properties below must notice; no specification uses them.      *)
(***************************************************************************)

\* clib_atomic_fetch_add on workers_at_barrier.
AtBarrierUp == workersAtBarrier' = workersAtBarrier + 1
AtBarrierDownMissing == workersAtBarrier' = workersAtBarrier  \* (mutant)
AtBarrierDown == workersAtBarrier' = workersAtBarrier - 1

\* What the spin of vlib_worker_thread_barrier_sync_int waits for.
AllButOneAtBarrier == workersAtBarrier >= N - 1  \* (mutant)
AllAtBarrier == workersAtBarrier = N

\* The store that reopens the barrier.
LowerFlagMissing == waitAtBarrier' = waitAtBarrier  \* (mutant)
LowerFlag == waitAtBarrier' = FALSE

\* The reforks vlib_worker_thread_barrier_release asks for, a worker's
\* countdown, and what both sides then wait for.
ReforksAskedOneShort == IF needUpdate THEN N - 1 ELSE 0  \* (mutant)
ReforksAsked == IF needUpdate THEN N ELSE 0
ReforksDownMissing == nodeReforks' = nodeReforks  \* (mutant)
ReforksDown == nodeReforks' = nodeReforks - 1
SomeReforked == nodeReforks < N  \* (mutant)
AllReforked == nodeReforks = 0

\* The counters of vlib_workers_sync and vlib_workers_continue.
BeforeBarrierDownMissing == workersBefore' = workersBefore  \* (mutant)
BeforeBarrierDown == workersBefore' = workersBefore - 1
DoneUp == doneBefore' = doneBefore + 1
AllButOneStopped(sum) == sum >= N - 1  \* (mutant)
AllStopped(sum) == sum >= N

\* Main's queue after worker w has handed over its RPCs.
HandOverReplaces(w) == workerRpcs[w]  \* (mutant)
HandOver(w) == pendingRpcs \o workerRpcs[w]

\* vlib_increment_main_loop_counter, as vlib_worker_wait_one_loop sees it.
LoopUncounted(w) == behind  \* (mutant)
LoopCounted(w) == behind \ {w}
SomeLoopsDone == behind # Workers  \* (mutant)
AllLoopsDone == behind = {}

-----------------------------------------------------------------------------
(***************************************************************************)
(* Start-up and steady state.  start_workers allocates the shared words    *)
(* with the barrier already closed, launches the workers and then takes    *)
(* the barrier like any other caller.                                      *)
(***************************************************************************)
InitCommon ==
  /\ workersAtBarrier = 0
  /\ nodeReforks = 0
  /\ recursionLevel = 0
  /\ needUpdate = FALSE
  /\ waitBefore = 0 /\ workersBefore = 0 /\ doneBefore = 0
  /\ mpc = "idle"
  /\ work = 0
  /\ reforkNeeded = FALSE
  /\ parked = [w \in Workers |-> FALSE]
  /\ stale = {}
  /\ syncs = [w \in Workers |-> 0]
  /\ seen = [w \in Workers |-> 0]
  /\ workerRpcs = [w \in Workers |-> << >>]
  /\ pendingRpcs = << >>
  /\ processingRpcs = << >>
  /\ ref = [w \in Workers |-> "none"]
  /\ behind = {}

\* start_workers: the barrier is closed before the first thread exists.
BootInit ==
  /\ waitAtBarrier = TRUE
  /\ wpc = [w \in Workers |-> "launch"]
  /\ phase = "start"
  /\ InitCommon

\* The state in which the start-up leaves the threads when every worker has
\* counted itself out of the initial barrier before main needs it again.
Init ==
  /\ waitAtBarrier = FALSE
  /\ wpc = [w \in Workers |-> "top"]
  /\ phase = "run"
  /\ InitCommon

\* vlib_worker_thread_init: count in, spin, count out.
LaunchArrive(w) ==
  /\ wpc[w] = "launch"
  /\ AtBarrierUp
  /\ Goto(w, "launchParked")
  /\ UNCHANGED <<waitAtBarrier, nodeReforks, parked, stale, syncs, seen,
                 mainVars, syncVars, rpcVars, graceVars>>

LaunchSeeRelease(w) ==
  /\ wpc[w] = "launchParked"
  /\ ~waitAtBarrier
  /\ Goto(w, "launchLeaving")
  /\ UNCHANGED <<barrierVars, parked, stale, syncs, seen,
                 mainVars, syncVars, rpcVars, graceVars>>

LaunchLeave(w) ==
  /\ wpc[w] = "launchLeaving"
  /\ AtBarrierDown
  /\ Goto(w, "top")
  /\ UNCHANGED <<waitAtBarrier, nodeReforks, parked, stale, syncs, seen,
                 mainVars, syncVars, rpcVars, graceVars>>

\* vlib_worker_thread_initial_barrier_sync_and_release: close, ...
InitialSync ==
  /\ mpc = "idle" /\ phase = "initial"
  /\ waitAtBarrier' = TRUE
  /\ mpc' = "initialSync"
  /\ UNCHANGED <<workersAtBarrier, nodeReforks, recursionLevel, needUpdate,
                 phase, work, reforkNeeded, workerVars, syncVars, rpcVars,
                 graceVars>>

\* ... spin until all are in, open, and go on without waiting for anybody.
InitialRelease ==
  /\ mpc = "initialSync"
  /\ AllAtBarrier
  /\ LowerFlag
  /\ phase' = "run"
  /\ mpc' = "idle"
  /\ UNCHANGED <<workersAtBarrier, nodeReforks, recursionLevel, needUpdate,
                 work, reforkNeeded, workerVars, syncVars, rpcVars, graceVars>>

-----------------------------------------------------------------------------
(***************************************************************************)
(* The worker's loop: vlib_main_or_worker_loop with is_main = 0.           *)
(***************************************************************************)

\* Head of the loop: hand the queued RPCs over (vl_api_send_pending_rpc_requests
\* appends them under the spinlock).
SendPendingRpcs(w) ==
  /\ wpc[w] = "top"
  /\ pendingRpcs' = HandOver(w)
  /\ workerRpcs' = [workerRpcs EXCEPT ![w] = << >>]
  /\ Goto(w, "check")
  /\ UNCHANGED <<barrierVars, parked, stale, syncs, seen, processingRpcs,
                 mainVars, syncVars, graceVars>>

\* vlib_worker_thread_barrier_check: the test at its head.
BarrierCheck(w) ==
  /\ wpc[w] = "check"
  /\ Goto(w, IF waitAtBarrier THEN "arriving" ELSE "run")
  /\ parked' = [parked EXCEPT ![w] = waitAtBarrier]
  /\ UNCHANGED <<barrierVars, stale, syncs, seen,
                 mainVars, syncVars, rpcVars, graceVars>>

CountIn(w) ==
  /\ wpc[w] = "arriving"
  /\ AtBarrierUp
  /\ Goto(w, "parked")
  /\ UNCHANGED <<waitAtBarrier, nodeReforks, parked, stale, syncs, seen,
                 mainVars, syncVars, rpcVars, graceVars>>

\* The spin on wait_at_barrier ends; the clock offset is recomputed.
SeeRelease(w) ==
  /\ wpc[w] = "parked"
  /\ ~waitAtBarrier
  /\ Goto(w, "leaving")
  /\ UNCHANGED <<barrierVars, parked, stale, syncs, seen,
                 mainVars, syncVars, rpcVars, graceVars>>

CountOut(w) ==
  /\ wpc[w] = "leaving"
  /\ parked' = [parked EXCEPT ![w] = FALSE]
  /\ AtBarrierDown
  /\ Goto(w, "left")
  /\ UNCHANGED <<waitAtBarrier, nodeReforks, stale, syncs, seen,
                 mainVars, syncVars, rpcVars, graceVars>>

ReforkCheck(w) ==
  /\ wpc[w] = "left"
  /\ Goto(w, IF nodeReforks # 0 THEN "reforking" ELSE "run")
  /\ UNCHANGED <<barrierVars, parked, stale, syncs, seen,
                 mainVars, syncVars, rpcVars, graceVars>>

\* vlib_worker_thread_node_refork rebuilds the clone; then the countdown.
Refork(w) ==
  /\ wpc[w] = "reforking"
  /\ stale' = stale \ {w}
  /\ ReforksDown
  /\ Goto(w, "reforkWait")
  /\ UNCHANGED <<waitAtBarrier, workersAtBarrier, parked, syncs, seen,
                 mainVars, syncVars, rpcVars, graceVars>>

ReforkDone(w) ==
  /\ wpc[w] = "reforkWait"
  /\ AllReforked
  /\ Goto(w, "run")
  /\ UNCHANGED <<barrierVars, parked, stale, syncs, seen,
                 mainVars, syncVars, rpcVars, graceVars>>

\* A node on the worker reads a vector main may replace.
TakeRef(w) ==
  /\ GraceUsers
  /\ wpc[w] = "run"
  /\ ref[w] = "none"
  /\ ref' = [ref EXCEPT ![w] = "cur"]
  /\ UNCHANGED <<barrierVars, workerVars, mainVars, syncVars, rpcVars, behind>>

\* vl_api_rpc_call_main_thread_inline on a worker: the request goes to the
\* worker's own vector (one outstanding user RPC per worker).
HasUserRpc(q, w) == \E i \in DOMAIN q : q[i] = [from |-> w, fn |-> "user"]

PostRpc(w) ==
  /\ wpc[w] = "run"
  /\ ~ HasUserRpc(workerRpcs[w] \o pendingRpcs \o processingRpcs, w)
  /\ workerRpcs' = [workerRpcs EXCEPT ![w] =
                      Append(@, [from |-> w, fn |-> "user"])]
  /\ UNCHANGED <<barrierVars, workerVars, mainVars, syncVars, pendingRpcs,
                 processingRpcs, graceVars>>

\* End of the loop: vlib_increment_main_loop_counter.
EndLoop(w) ==
  /\ wpc[w] = "run"
  /\ ref' = [ref EXCEPT ![w] = "none"]
  /\ behind' = LoopCounted(w)
  /\ syncs' = [syncs EXCEPT ![w] = 0]
  /\ Goto(w, "top")
  /\ UNCHANGED <<barrierVars, parked, stale, seen,
                 mainVars, syncVars, rpcVars>>

-----------------------------------------------------------------------------
(***************************************************************************)
(* vlib_workers_sync and vlib_workers_continue, called by a node when a    *)
(* pool shared with the other threads must grow (pool_get_aligned_safe).   *)
(***************************************************************************)

\* vlib_workers_sync: the test of wait_at_barrier ...
WorkersSync(w) ==
  /\ wpc[w] = "run"
  /\ syncs[w] < MaxSyncs
  /\ syncs' = [syncs EXCEPT ![w] = @ + 1]
  /\ Goto(w, IF waitAtBarrier THEN "syncWait" ELSE "syncAsk")
  /\ UNCHANGED <<barrierVars, parked, stale, seen,
                 mainVars, syncVars, rpcVars, graceVars>>

\* ... and the swap on wait_before_barrier; the first one asks main for a
\* barrier with an RPC, queued on the worker itself.
AskForBarrier(w) ==
  /\ wpc[w] = "syncAsk"
  /\ waitBefore' = 1
  /\ workerRpcs' = IF waitBefore = 0
                     THEN [workerRpcs EXCEPT ![w] =
                             Append(@, [from |-> w, fn |-> "sync"])]
                     ELSE workerRpcs
  /\ Goto(w, "syncWait")
  /\ UNCHANGED <<barrierVars, parked, stale, syncs, seen, workersBefore,
                 doneBefore, pendingRpcs, processingRpcs, mainVars, graceVars>>

SeeBarrier(w) ==
  /\ wpc[w] = "syncWait"
  /\ waitAtBarrier
  /\ Goto(w, "syncCount")
  /\ UNCHANGED <<barrierVars, parked, stale, syncs, seen,
                 mainVars, syncVars, rpcVars, graceVars>>

CountBefore(w) ==
  /\ wpc[w] = "syncCount"
  /\ workersBefore' = workersBefore + 1
  /\ Goto(w, "syncSpin")
  /\ UNCHANGED <<barrierVars, parked, stale, syncs, seen, waitBefore,
                 doneBefore, mainVars, rpcVars, graceVars>>

\* The spin adds two volatile words; C leaves open which is read first.
ReadFirst(w) ==
  /\ wpc[w] = "syncSpin"
  /\ \/ /\ seen' = [seen EXCEPT ![w] = workersAtBarrier]
        /\ Goto(w, "syncSpinBefore")
     \/ /\ seen' = [seen EXCEPT ![w] = workersBefore]
        /\ Goto(w, "syncSpinAt")
  /\ UNCHANGED <<barrierVars, parked, stale, syncs,
                 mainVars, syncVars, rpcVars, graceVars>>

ReadSecond(w) ==
  /\ wpc[w] \in {"syncSpinAt", "syncSpinBefore"}
  /\ LET sum == seen[w] + (IF wpc[w] = "syncSpinAt" THEN workersAtBarrier
                                                   ELSE workersBefore)
     IN  Goto(w, IF AllStopped(sum) THEN "section" ELSE "syncSpin")
  /\ seen' = [seen EXCEPT ![w] = 0]
  /\ UNCHANGED <<barrierVars, parked, stale, syncs,
                 mainVars, syncVars, rpcVars, graceVars>>

\* The caller reallocates the pool and calls vlib_workers_continue.
SectionDone(w) ==
  /\ wpc[w] = "section"
  /\ Goto(w, "continue")
  /\ UNCHANGED <<barrierVars, parked, stale, syncs, seen,
                 mainVars, syncVars, rpcVars, graceVars>>

WorkersContinue(w) ==
  /\ wpc[w] = "continue"
  /\ DoneUp
  /\ Goto(w, "continueSpin")
  /\ UNCHANGED <<barrierVars, parked, stale, syncs, seen, waitBefore,
                 workersBefore, mainVars, rpcVars, graceVars>>

\* The spin compares two volatile words, again in either order.
ReadDone(w) ==
  /\ wpc[w] = "continueSpin"
  /\ \/ /\ seen' = [seen EXCEPT ![w] = doneBefore]
        /\ Goto(w, "continueSpinBefore")
     \/ /\ seen' = [seen EXCEPT ![w] = workersBefore]
        /\ Goto(w, "continueSpinDone")
  /\ UNCHANGED <<barrierVars, parked, stale, syncs,
                 mainVars, syncVars, rpcVars, graceVars>>

AllDone(w) ==
  /\ wpc[w] \in {"continueSpinDone", "continueSpinBefore"}
  /\ LET allDone == IF wpc[w] = "continueSpinDone"
                      THEN doneBefore >= seen[w]
                      ELSE seen[w] >= workersBefore
     IN  Goto(w, IF allDone THEN "doneDown" ELSE "continueSpin")
  /\ seen' = [seen EXCEPT ![w] = 0]
  /\ UNCHANGED <<barrierVars, parked, stale, syncs,
                 mainVars, syncVars, rpcVars, graceVars>>

DoneDown(w) ==
  /\ wpc[w] = "doneDown"
  /\ doneBefore' = doneBefore - 1
  /\ Goto(w, "beforeDown")
  /\ UNCHANGED <<barrierVars, parked, stale, syncs, seen, waitBefore,
                 workersBefore, mainVars, rpcVars, graceVars>>

BeforeDown(w) ==
  /\ wpc[w] = "beforeDown"
  /\ BeforeBarrierDown
  /\ Goto(w, "run")
  /\ UNCHANGED <<barrierVars, parked, stale, syncs, seen, waitBefore,
                 doneBefore, mainVars, rpcVars, graceVars>>

-----------------------------------------------------------------------------
(***************************************************************************)
(* The main thread.                                                        *)
(***************************************************************************)

\* vlib_worker_thread_barrier_sync_int, for a caller that may be nested.
\* The hold-down timer only delays the store.
BarrierSync ==
  /\ \/ mpc = "idle" /\ phase \in {"start", "run"}
     \/ mpc = "held" /\ recursionLevel < MaxNest /\ work < MaxWork
  /\ recursionLevel' = recursionLevel + 1
  /\ IF recursionLevel > 0
       THEN /\ work' = work + 1
            /\ UNCHANGED <<waitAtBarrier, mpc>>
       ELSE /\ waitAtBarrier' = TRUE
            /\ mpc' = "syncing"
            /\ UNCHANGED work
  /\ UNCHANGED <<workersAtBarrier, nodeReforks, needUpdate, phase,
                 reforkNeeded, workerVars, syncVars, rpcVars, graceVars>>

SyncDone ==
  /\ mpc = "syncing"
  /\ AllAtBarrier
  /\ mpc' = "held"
  /\ UNCHANGED <<recursionLevel, needUpdate, phase, work, reforkNeeded,
                 barrierVars, workerVars, syncVars, rpcVars, graceVars>>

\* Under the barrier a handler changes the node graph
\* (vlib_worker_thread_node_runtime_update).
NodeRuntimeUpdate ==
  /\ mpc = "held" /\ phase = "run"
  /\ work < MaxWork
  /\ work' = work + 1
  /\ needUpdate' = TRUE
  /\ stale' = Workers
  /\ UNCHANGED <<recursionLevel, mpc, phase, reforkNeeded, wpc, parked, syncs,
                 seen, barrierVars, syncVars, rpcVars, graceVars>>

\* vl_mem_api_handle_rpc: swap the vectors; if there is work, take the barrier.
HandleRpcs ==
  /\ mpc = "idle" /\ phase = "run"
  /\ pendingRpcs # << >>
  /\ processingRpcs' = pendingRpcs
  /\ pendingRpcs' = << >>
  /\ recursionLevel' = recursionLevel + 1
  /\ waitAtBarrier' = TRUE
  /\ mpc' = "syncing"
  /\ UNCHANGED <<workersAtBarrier, nodeReforks, needUpdate, phase, work,
                 reforkNeeded, workerVars, syncVars, workerRpcs, graceVars>>

\* vl_api_rpc_call_t_handler: nested sync, the function, nested release.
RunRpc ==
  /\ mpc = "held"
  /\ processingRpcs # << >>
  /\ processingRpcs' = Tail(processingRpcs)
  /\ waitBefore' = IF Head(processingRpcs).fn = "sync" THEN 0 ELSE waitBefore
  /\ UNCHANGED <<barrierVars, mainVars, workerVars, workersBefore, doneBefore,
                 workerRpcs, pendingRpcs, graceVars>>

\* vlib_worker_thread_barrier_release up to the store to wait_at_barrier.
BarrierRelease ==
  /\ mpc = "held"
  /\ recursionLevel = 1 => processingRpcs = << >>
  /\ recursionLevel' = recursionLevel - 1
  /\ IF recursionLevel > 1
       THEN UNCHANGED <<mpc, needUpdate, reforkNeeded, nodeReforks>>
       ELSE /\ mpc' = "opening"
            /\ needUpdate' = FALSE
            /\ reforkNeeded' = needUpdate
            /\ nodeReforks' = nodeReforks + ReforksAsked
  /\ UNCHANGED <<waitAtBarrier, workersAtBarrier, phase, work, workerVars,
                 syncVars, rpcVars, graceVars>>

OpenBarrier ==
  /\ mpc = "opening"
  /\ LowerFlag
  /\ work' = 0
  /\ mpc' = "draining"
  /\ UNCHANGED <<workersAtBarrier, nodeReforks, recursionLevel, needUpdate,
                 phase, reforkNeeded, workerVars, syncVars, rpcVars, graceVars>>

\* What the start-up does next when start_workers returns.
NextPhase == IF phase = "start" THEN "initial" ELSE phase

Drained ==
  /\ mpc = "draining"
  /\ workersAtBarrier = 0
  /\ mpc' = IF reforkNeeded THEN "reforkSpin" ELSE "idle"
  /\ phase' = IF reforkNeeded THEN phase ELSE NextPhase
  /\ UNCHANGED <<recursionLevel, needUpdate, work, reforkNeeded,
                 barrierVars, workerVars, syncVars, rpcVars, graceVars>>

Reforked ==
  /\ mpc = "reforkSpin"
  /\ AllReforked
  /\ reforkNeeded' = FALSE
  /\ mpc' = "idle"
  /\ UNCHANGED <<recursionLevel, needUpdate, phase, work,
                 barrierVars, workerVars, syncVars, rpcVars, graceVars>>

\* The deadline of one of the spins passes: os_panic.
SpinTimeOut ==
  /\ MayTimeOut
  /\ \/ mpc \in {"syncing", "initialSync"} /\ workersAtBarrier # N
     \/ mpc = "draining" /\ workersAtBarrier > 0
     \/ mpc = "reforkSpin" /\ nodeReforks > 0
  /\ mpc' = "panic"
  /\ UNCHANGED <<recursionLevel, needUpdate, phase, work, reforkNeeded,
                 barrierVars, workerVars, syncVars, rpcVars, graceVars>>

\* compute_prefix_lengths_in_search_order: publish the new vector, then
\* vlib_worker_wait_one_loop, which records the loop counts unless the barrier
\* is held.
PublishAndWait ==
  /\ GraceUsers
  /\ phase = "run"
  /\ \/ mpc = "idle" /\ work' = work
     \/ mpc = "held" /\ work < MaxWork /\ work' = work + 1
  /\ ref' = [w \in Workers |-> IF ref[w] = "cur" THEN "old" ELSE ref[w]]
  /\ behind' = IF waitAtBarrier THEN {} ELSE Workers
  /\ mpc' = IF waitAtBarrier THEN "freeing" ELSE "waitLoop"
  /\ UNCHANGED <<recursionLevel, needUpdate, phase, reforkNeeded,
                 barrierVars, workerVars, syncVars, rpcVars>>

\* Every count has changed.
LoopsDone ==
  /\ mpc = "waitLoop"
  /\ AllLoopsDone
  /\ mpc' = "freeing"
  /\ UNCHANGED <<recursionLevel, needUpdate, phase, work, reforkNeeded,
                 barrierVars, workerVars, syncVars, rpcVars, graceVars>>

\* vec_free (old), back to the caller.
FreeOld ==
  /\ mpc = "freeing"
  /\ mpc' = IF recursionLevel > 0 THEN "held" ELSE "idle"
  /\ UNCHANGED <<recursionLevel, needUpdate, phase, work, reforkNeeded,
                 barrierVars, workerVars, syncVars, rpcVars, graceVars>>

-----------------------------------------------------------------------------
\* The steps a running worker cannot put off.
WorkerStep(w) ==
  \/ LaunchArrive(w) \/ LaunchSeeRelease(w) \/ LaunchLeave(w)
  \/ SendPendingRpcs(w) \/ BarrierCheck(w) \/ CountIn(w) \/ SeeRelease(w)
  \/ CountOut(w) \/ ReforkCheck(w) \/ Refork(w) \/ ReforkDone(w)
  \/ EndLoop(w)
  \/ AskForBarrier(w) \/ SeeBarrier(w) \/ CountBefore(w) \/ ReadFirst(w)
  \/ ReadSecond(w) \/ SectionDone(w) \/ WorkersContinue(w) \/ ReadDone(w)
  \/ AllDone(w) \/ DoneDown(w) \/ BeforeDown(w)

\* What a node may or may not do in one pass of the loop.
WorkerChoice(w) == TakeRef(w) \/ PostRpc(w) \/ WorkersSync(w)

\* What the main thread must go on with; the RPC process polls.
MainStep ==
  \/ InitialSync \/ InitialRelease \/ SyncDone \/ HandleRpcs \/ RunRpc
  \/ BarrierRelease \/ OpenBarrier \/ Drained \/ Reforked
  \/ LoopsDone \/ FreeOld

\* What an API, CLI or process-node handler may or may not ask for.
MainChoice == BarrierSync \/ NodeRuntimeUpdate \/ PublishAndWait

\* A panicked process takes no step.
Next ==
  /\ mpc # "panic"
  /\ \/ \E w \in Workers : WorkerStep(w) \/ WorkerChoice(w)
     \/ MainStep \/ MainChoice \/ SpinTimeOut

Spec == Init /\ [][Next]_vars

BootSpec == BootInit /\ [][Next]_vars

(***************************************************************************)
(* Fairness: every thread has a core of its own and is always scheduled,   *)
(* so no thread stops in the middle of the code modelled here.  The RPC    *)
(* process of the main thread polls, in turn with its other processes.     *)
(* Nothing makes main ask for a barrier on its own.                        *)
(***************************************************************************)
Fairness ==
  /\ \A w \in Workers : WF_vars(mpc # "panic" /\ WorkerStep(w))
  /\ WF_vars(mpc # "panic" /\ MainStep)
  /\ SF_vars(mpc # "panic" /\ HandleRpcs)

FairSpec == Spec /\ Fairness

\* start_workers goes on to its own barrier once the threads are launched.
BootFairSpec ==
  BootSpec /\ Fairness /\ WF_vars(phase = "start" /\ BarrierSync)

-----------------------------------------------------------------------------
(***************************************************************************)
(* Properties.                                                             *)
(***************************************************************************)

\* Every variable keeps its type; no counter of the barrier goes negative.
TypeOK ==
  /\ waitAtBarrier \in BOOLEAN
  /\ workersAtBarrier \in Nat
  /\ nodeReforks \in Nat
  /\ recursionLevel \in Nat
  /\ needUpdate \in BOOLEAN
  /\ waitBefore \in {0, 1} /\ workersBefore \in Nat /\ doneBefore \in Nat
  /\ wpc \in [Workers -> WorkerStates]
  /\ mpc \in MainStates
  /\ phase \in {"start", "initial", "run"}
  /\ work \in Nat
  /\ reforkNeeded \in BOOLEAN
  /\ parked \in [Workers -> BOOLEAN]
  /\ stale \in SUBSET Workers
  /\ syncs \in [Workers -> Nat]
  /\ seen \in [Workers -> Nat]
  /\ workerRpcs \in [Workers -> Seq(Rpc)]
  /\ pendingRpcs \in Seq(Rpc)
  /\ processingRpcs \in Seq(Rpc)
  /\ ref \in [Workers -> {"none", "cur", "old"}]
  /\ behind \in SUBSET Workers

\* The main thread is between the end of the sync spin and the store that
\* reopens the barrier.
BarrierHeld ==
  \/ mpc \in {"held", "opening"}
  \/ mpc = "freeing" /\ recursionLevel > 0

\* Mutual exclusion: while main is past the spin of
\* vlib_worker_thread_barrier_sync_int and has not reopened the barrier, every
\* worker is inside the barrier's spin (it holds no reference to anything).
WorkersParked ==
  BarrierHeld => \A w \in Workers : wpc[w] \in {"parked", "launchParked"}

\* foreach_vlib_main, which main uses under the barrier, asserts
\* (threads.h:220) that the vlib_main of every worker is parked_at_barrier.
ForeachVlibMainAssert ==
  BarrierHeld /\ phase = "run" => \A w \in Workers : parked[w]

\* workers_at_barrier counts exactly the workers between their two atomic adds,
\* through start-up, recursion and timeouts.
AtBarrierCounts ==
  workersAtBarrier =
    Cardinality({w \in Workers :
                   wpc[w] \in {"parked", "leaving", "launchParked",
                               "launchLeaving"}})

\* A worker that executes nodes, or is inside vlib_workers_sync.
Running(w) == wpc[w] \in {"top", "check", "run", "arriving"} \cup SyncStates

\* Parallel refork: nobody runs the node graph until every worker has rebuilt
\* its clone of it after vlib_worker_thread_node_runtime_update.
NoStaleGraph == \A w \in Workers : Running(w) => stale = {}

\* vlib_worker_wait_one_loop is a grace period: when main frees the replaced
\* vector, no worker still reads it.
GracePeriod == mpc = "freeing" => \A w \in Workers : ref[w] # "old"

\* Between vlib_workers_sync and vlib_workers_continue all other workers are
\* "either at worker barrier or the barrier before it" (threads.c:1505): none
\* executes nodes.
SectionExclusive ==
  (\E w \in Workers : wpc[w] = "section") =>
    \A v \in Workers : wpc[v] \notin {"run", "top", "check", "left"}

\* The main thread never gets the barrier while a worker is between
\* vlib_workers_sync and the end of vlib_workers_continue, and both counters
\* of the barrier before the barrier are then back to zero.
BeforeBarrierDrained == BarrierHeld => workersBefore = 0 /\ doneBefore = 0

\* The start-up ends: the barrier that start_workers closes before the first
\* thread exists, the one it takes itself and the initial one never deadlock
\* with workers still on their way out of the one before.
BootCompletes == <>(phase = "run")

\* A barrier once asked for is obtained: no interleaving of the workers'
\* barrier check, refork and sync spins keeps main in its spin for ever.
BarrierObtained == (mpc = "syncing") ~> (mpc = "held")

\* No worker is left over from the initial barrier when the next one is
\* obtained; if one is (see ForeachVlibMainAssert), it can wait for ever.
CleanStart == []ForeachVlibMainAssert

\* No worker is left behind at the barrier, nor in the refork spin.
WorkersReleased ==
  CleanStart =>
    \A w \in Workers :
      (wpc[w] \in {"parked", "reforkWait"}) ~> (wpc[w] = "run")

\* An RPC a worker posts is executed: main gets to it with the barrier held,
\* unless some worker is stuck in vlib_workers_sync's wait for a barrier.
AboutToRun(rpc) ==
  mpc = "held" /\ processingRpcs # << >> /\ Head(processingRpcs) = rpc
RpcExecuted ==
  CleanStart /\ (\A w \in Workers : []<>(wpc[w] # "syncWait")) =>
    \A w \in Workers :
      HasUserRpc(workerRpcs[w], w) ~> AboutToRun([from |-> w, fn |-> "user"])

\* "Force workers sync from within worker" (threads.h:496): a worker that calls
\* vlib_workers_sync gets its section.
SyncForced ==
  \A w \in Workers :
    (wpc[w] \in {"syncAsk", "syncWait"}) ~> (wpc[w] = "section")

\* What does hold: if main keeps taking the barrier for other reasons, every
\* worker that calls vlib_workers_sync gets its section and comes out of
\* vlib_workers_continue.
SyncServedByOthers ==
  CleanStart /\ []<>(mpc = "syncing") =>
    \A w \in Workers :
      /\ (wpc[w] \in {"syncAsk", "syncWait"}) ~> (wpc[w] = "section")
      /\ (wpc[w] = "section") ~> (wpc[w] = "run")

\* "Wait until each of the workers has been once around the track"
\* (threads.c:1530): the wait ends.
OnceAroundTheTrack == (mpc = "waitLoop") ~> (mpc = "freeing")

\* What does hold: it ends unless some worker is stuck in vlib_workers_sync's
\* wait for a barrier.
WaitOneLoopEnds ==
  CleanStart /\ (\A w \in Workers : []<>(wpc[w] # "syncWait")) => OnceAroundTheTrack
=============================================================================
