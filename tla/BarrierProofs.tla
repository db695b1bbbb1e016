---------------------------- MODULE BarrierProofs ----------------------------
(***************************************************************************)
(* Proofs about Barrier, for any finite set of workers and any bounds.     *)
(*                                                                         *)
(* The inductive invariant says which threads each shared counter counts   *)
(* and in which order main and the workers go through the barrier.         *)
(***************************************************************************)
EXTENDS Barrier, FiniteSetTheorems, TLAPS

\* The accesses to shared words are always expanded.
USE DEF AtBarrierUp, AtBarrierDown, AllAtBarrier, LowerFlag, ReforksAsked,
        ReforksDown, AllReforked, BeforeBarrierDown, DoneUp, AllStopped,
        HandOver, LoopCounted, AllLoopsDone

\* The workers that are in one of the states S.
In(S) == {w \in Workers : wpc[w] \in S}

\* Between the two atomic adds on workers_at_barrier.
AtStates == {"parked", "leaving", "launchParked", "launchLeaving"}

\* Between the two atomic adds on workers_before_barrier, and on
\* done_work_before_barrier.
BeforeStates == {"syncSpin", "syncSpinAt", "syncSpinBefore", "section",
                 "continue", "continueSpin", "continueSpinDone",
                 "continueSpinBefore", "doneDown", "beforeDown"}
DoneStates == {"continueSpin", "continueSpinDone", "continueSpinBefore",
               "doneDown"}

\* On the way from a release with a refork to the refork.
PreRefork == {"parked", "leaving", "left", "reforking"}

-----------------------------------------------------------------------------
\* TypeOK with the counters known to be integers only.
Types ==
  /\ waitAtBarrier \in BOOLEAN
  /\ workersAtBarrier \in Int
  /\ nodeReforks \in Int
  /\ recursionLevel \in Int
  /\ needUpdate \in BOOLEAN
  /\ waitBefore \in {0, 1} /\ workersBefore \in Int /\ doneBefore \in Int
  /\ wpc \in [Workers -> WorkerStates]
  /\ mpc \in MainStates
  /\ phase = "run"
  /\ work \in Nat
  /\ reforkNeeded \in BOOLEAN
  /\ parked \in [Workers -> BOOLEAN]
  /\ stale \in SUBSET Workers
  /\ syncs \in [Workers -> Nat]
  /\ seen \in [Workers -> Nat]
  /\ ref \in [Workers -> {"none", "cur", "old"}]
  /\ behind \in SUBSET Workers

\* The RPC vectors hold RPCs.
RpcTypes ==
  /\ workerRpcs \in [Workers -> Seq(Rpc)]
  /\ pendingRpcs \in Seq(Rpc)
  /\ processingRpcs \in Seq(Rpc)

\* Main's own state: the flag is up exactly from the sync to the reopening,
\* at a positive recursion level up to the release.
MainOrder ==
  /\ mpc # "initialSync"
  /\ recursionLevel >= 0
  /\ mpc \in {"idle", "opening", "draining", "reforkSpin", "waitLoop"} =>
       recursionLevel = 0
  /\ mpc \in {"syncing", "held"} => recursionLevel > 0
  /\ mpc # "panic" =>
       (waitAtBarrier <=> BarrierHeld \/ mpc = "syncing")
  /\ reforkNeeded => mpc \in {"opening", "draining", "reforkSpin", "panic"}
  /\ needUpdate => mpc \in {"held", "freeing"} /\ recursionLevel > 0

\* What each counter counts.
Counters ==
  /\ workersAtBarrier = Cardinality(In(AtStates))
  /\ workersBefore = Cardinality(In(BeforeStates))
  /\ doneBefore = Cardinality(In(DoneStates))

\* Where the workers can be at each point of main.
Parking ==
  /\ \A w \in Workers : wpc[w] \notin LaunchStates
  /\ mpc # "panic" =>
       /\ BarrierHeld => \A w \in Workers : wpc[w] = "parked"
       /\ waitAtBarrier => \A w \in Workers : wpc[w] # "leaving"
       /\ ~waitAtBarrier => \A w \in Workers : wpc[w] # "arriving"
       /\ ~waitAtBarrier /\ mpc # "draining" =>
            \A w \in Workers : wpc[w] \notin {"parked", "leaving"}

\* A refork round counts down from N; its workers wait for each other.
Reforking ==
  /\ reforkNeeded =>
       /\ nodeReforks = Cardinality(In(PreRefork))
       /\ nodeReforks # 0 =>
            \A w \in Workers : wpc[w] \in PreRefork \cup {"reforkWait"}
  /\ ~reforkNeeded =>
       nodeReforks = 0 /\ \A w \in Workers : wpc[w] # "reforking"
  /\ stale # {} => needUpdate \/ reforkNeeded
  /\ reforkNeeded => \A w \in stale : wpc[w] \in PreRefork

\* A reference lives within one pass of the loop; a replaced vector is only
\* read by workers that main still waits for.
Grace ==
  /\ \A w \in Workers : ref[w] # "none" => wpc[w] \in {"run"} \cup SyncStates
  /\ \A w \in Workers : ref[w] = "old" => mpc = "waitLoop" /\ w \in behind

IInv ==
  Types /\ RpcTypes /\ MainOrder /\ Counters /\ Parking /\ Reforking /\ Grace

-----------------------------------------------------------------------------
\* The counted sets are finite.
LEMMA InFinite ==
  ASSUME NEW S
  PROVE  IsFiniteSet(In(S)) /\ Cardinality(In(S)) \in Nat
<1>1. In(S) \subseteq Workers
  BY DEF In
<1>2. IsFiniteSet(In(S))
  BY <1>1, WorkersAssumption, FS_Subset
<1> QED
  BY <1>2, FS_CardinalityType

\* Moving one worker changes the number of workers in S by at most one.
LEMMA InMove ==
  ASSUME wpc \in [Workers -> WorkerStates], NEW S, NEW w \in Workers, NEW s,
         Goto(w, s)
  PROVE  /\ wpc[w] \notin S /\ s \in S =>
              Cardinality(In(S)') = Cardinality(In(S)) + 1
         /\ wpc[w] \in S /\ s \notin S =>
              Cardinality(In(S)') = Cardinality(In(S)) - 1
         /\ (wpc[w] \in S <=> s \in S) => In(S)' = In(S)
<1>1. wpc' = [wpc EXCEPT ![w] = s]
  BY DEF Goto
<1>2. CASE wpc[w] \notin S /\ s \in S
  <2>1. In(S)' = In(S) \cup {w} /\ w \notin In(S)
    BY <1>1, <1>2 DEF In
  <2> QED
    BY <1>2, <2>1, InFinite, FS_AddElement
<1>3. CASE wpc[w] \in S /\ s \notin S
  <2>1. In(S)' = In(S) \ {w} /\ w \in In(S)
    BY <1>1, <1>3 DEF In
  <2> QED
    BY <1>3, <2>1, InFinite, FS_RemoveElement
<1>4. CASE wpc[w] \in S <=> s \in S
  BY <1>1, <1>4 DEF In
<1> QED
  BY <1>2, <1>3, <1>4

\* A zero counter means that nobody is there ...
LEMMA InNone ==
  ASSUME NEW S
  PROVE  Cardinality(In(S)) = 0 <=> \A w \in Workers : wpc[w] \notin S
<1>1. Cardinality(In(S)) = 0 <=> In(S) = {}
  BY InFinite, FS_EmptySet
<1> QED
  BY <1>1 DEF In

\* ... and a counter at N that everybody is.
LEMMA InAll ==
  ASSUME NEW S
  PROVE  Cardinality(In(S)) = N <=> \A w \in Workers : wpc[w] \in S
<1>1. In(S) \subseteq Workers
  BY DEF In
<1>2. Cardinality(In(S)) = N <=> In(S) = Workers
  BY <1>1, WorkersAssumption, FS_Subset DEF N
<1> QED
  BY <1>2 DEF In

\* There is at least one worker.
LEMMA NType == N \in Nat /\ N # 0
  BY WorkersAssumption, FS_CardinalityType, FS_EmptySet DEF N

\* The same for the four sets the invariant counts.
LEMMA CountersMove ==
  ASSUME Types, NEW w \in Workers, NEW s, Goto(w, s)
  PROVE  /\ Cardinality(In(AtStates)') = Cardinality(In(AtStates))
              + (IF s \in AtStates THEN 1 ELSE 0)
              - (IF wpc[w] \in AtStates THEN 1 ELSE 0)
         /\ Cardinality(In(BeforeStates)') = Cardinality(In(BeforeStates))
              + (IF s \in BeforeStates THEN 1 ELSE 0)
              - (IF wpc[w] \in BeforeStates THEN 1 ELSE 0)
         /\ Cardinality(In(DoneStates)') = Cardinality(In(DoneStates))
              + (IF s \in DoneStates THEN 1 ELSE 0)
              - (IF wpc[w] \in DoneStates THEN 1 ELSE 0)
         /\ Cardinality(In(PreRefork)') = Cardinality(In(PreRefork))
              + (IF s \in PreRefork THEN 1 ELSE 0)
              - (IF wpc[w] \in PreRefork THEN 1 ELSE 0)
<1>1. wpc \in [Workers -> WorkerStates]
  BY DEF Types
<1>2. ASSUME NEW S
      PROVE  Cardinality(In(S)') = Cardinality(In(S))
                + (IF s \in S THEN 1 ELSE 0) - (IF wpc[w] \in S THEN 1 ELSE 0)
  BY <1>1, InMove, InFinite
<1> QED
  BY <1>2

-----------------------------------------------------------------------------
\* A worker's step leaves main's own state and the barrier's flag alone.
LEMMA WorkerFrame ==
  ASSUME NEW w \in Workers, WorkerStep(w) \/ WorkerChoice(w)
  PROVE  UNCHANGED <<mainVars, waitAtBarrier>>
<1>1. ASSUME WorkerStep(w) PROVE UNCHANGED <<mainVars, waitAtBarrier>>
  BY <1>1 DEF WorkerStep, LaunchArrive, LaunchSeeRelease, LaunchLeave,
     SendPendingRpcs, BarrierCheck, CountIn, SeeRelease, CountOut, ReforkCheck,
     Refork, ReforkDone, EndLoop, AskForBarrier, SeeBarrier, CountBefore,
     ReadFirst, ReadSecond, SectionDone, WorkersContinue, ReadDone, AllDone,
       DoneDown,
     BeforeDown, barrierVars
<1>2. ASSUME WorkerChoice(w) PROVE UNCHANGED <<mainVars, waitAtBarrier>>
  BY <1>2 DEF WorkerChoice, TakeRef, PostRpc, WorkersSync, barrierVars
<1> QED
  BY <1>1, <1>2

\* Types are preserved; the counters are integers.
LEMMA TypesStep == IInv /\ Next => Types'
<1> SUFFICES ASSUME IInv, Next PROVE Types'
  OBVIOUS
<1> USE DEF IInv, Types, MainStates, WorkerStates, LaunchStates, CheckStates,
   SyncStates, Goto, barrierVars, mainVars, workerVars, syncVars, rpcVars,
   graceVars
<1>1. ASSUME NEW w \in Workers, WorkerStep(w) PROVE Types'
  <2>1. CASE LaunchArrive(w) \/ LaunchSeeRelease(w) \/ LaunchLeave(w)
    BY <2>1 DEF LaunchArrive, LaunchSeeRelease, LaunchLeave
  <2>2. CASE CountIn(w) \/ SeeRelease(w)
    BY <2>2 DEF CountIn, SeeRelease
  <2>3. CASE CountOut(w)
    BY <2>3 DEF CountOut
  <2>4. CASE BarrierCheck(w)
    BY <2>4 DEF BarrierCheck
  <2>5. CASE ReforkCheck(w) \/ Refork(w) \/ ReforkDone(w) \/ EndLoop(w)
    BY <2>5 DEF ReforkCheck, Refork, ReforkDone, EndLoop
  <2>6. CASE SeeBarrier(w) \/ CountBefore(w) \/ ReadSecond(w) \/ SectionDone(w)
    BY <2>6 DEF SeeBarrier, CountBefore, ReadSecond, SectionDone
  <2>7. CASE WorkersContinue(w) \/ AllDone(w) \/ DoneDown(w) \/ BeforeDown(w)
    BY <2>7 DEF WorkersContinue, AllDone, DoneDown, BeforeDown
  <2>8. CASE SendPendingRpcs(w) \/ AskForBarrier(w)
    BY <2>8 DEF SendPendingRpcs, AskForBarrier
  <2>9. CASE ReadFirst(w) \/ ReadDone(w)
    <3>1. /\ workersAtBarrier \in Nat /\ workersBefore \in Nat
          /\ doneBefore \in Nat
      BY InFinite DEF Counters
    <3> QED
      BY <2>9, <3>1 DEF ReadFirst, ReadDone
  <2> QED
    BY <1>1, <2>1, <2>2, <2>5, <2>6, <2>7, <2>8, <2>9, <2>4, <2>3
       DEF WorkerStep
<1>2. ASSUME NEW w \in Workers, WorkerChoice(w) PROVE Types'
  <2>1. CASE TakeRef(w)
    BY <2>1 DEF TakeRef
  <2>2. CASE PostRpc(w)
    BY <2>2 DEF PostRpc
  <2>3. CASE WorkersSync(w)
    BY <2>3 DEF WorkersSync
  <2> QED
    BY <1>2, <2>1, <2>2, <2>3 DEF WorkerChoice
<1>3. CASE BarrierSync
  <2>1. CASE recursionLevel > 0
    BY <1>3, <2>1 DEF BarrierSync
  <2>2. CASE ~(recursionLevel > 0)
    BY <1>3, <2>2 DEF BarrierSync
  <2> QED
    BY <2>1, <2>2
<1>4. CASE BarrierRelease
  <2>1. CASE recursionLevel > 1
    BY <1>4, <2>1 DEF BarrierRelease
  <2>2. CASE ~(recursionLevel > 1)
    <3>1. nodeReforks' \in Int
      BY <1>4, <2>2, NType DEF BarrierRelease
    <3>2. reforkNeeded' \in BOOLEAN /\ needUpdate' \in BOOLEAN
      BY <1>4, <2>2, Zenon DEF BarrierRelease
    <3>3. recursionLevel' \in Int /\ mpc' \in MainStates
      BY <1>4, <2>2 DEF BarrierRelease
    <3> QED
      BY <1>4, <3>1, <3>2, <3>3 DEF BarrierRelease
  <2> QED
    BY <2>1, <2>2
<1>5. CASE InitialSync \/ InitialRelease
  BY <1>5 DEF InitialSync, InitialRelease
<1>6. CASE SyncDone
  BY <1>6 DEF SyncDone
<1>7. CASE OpenBarrier
  BY <1>7 DEF OpenBarrier
<1>8. CASE HandleRpcs
  BY <1>8 DEF HandleRpcs
<1>9. CASE RunRpc
  BY <1>9 DEF RunRpc
<1>10. CASE Drained
  BY <1>10 DEF Drained, NextPhase
<1>11. CASE Reforked \/ LoopsDone \/ FreeOld \/ SpinTimeOut
  BY <1>11 DEF Reforked, LoopsDone, FreeOld, SpinTimeOut
<1>12. CASE NodeRuntimeUpdate
  BY <1>12 DEF NodeRuntimeUpdate
<1>13. CASE PublishAndWait
  BY <1>13 DEF PublishAndWait
<1> QED
  BY <1>1, <1>2, <1>3, <1>4, <1>5, <1>8, <1>9, <1>10, <1>11, <1>12, <1>13,
     <1>6, <1>7 DEF Next, MainStep, MainChoice

\* RPC vectors only ever hold RPCs.
LEMMA RpcTypesStep == IInv /\ Next => RpcTypes'
<1> SUFFICES ASSUME IInv, Next PROVE RpcTypes'
  OBVIOUS
<1>0. RpcTypes
  BY DEF IInv
<1>1. CASE UNCHANGED rpcVars
  BY <1>0, <1>1 DEF RpcTypes, rpcVars
<1>2. ASSUME NEW w \in Workers, NEW r \in Rpc,
             workerRpcs' = [workerRpcs EXCEPT ![w] = Append(@, r)],
             UNCHANGED <<pendingRpcs, processingRpcs>>
      PROVE  RpcTypes'
  BY <1>0, <1>2 DEF RpcTypes
<1>3. ASSUME NEW w \in Workers, WorkerStep(w) \/ WorkerChoice(w)
      PROVE  RpcTypes'
  <2>1. CASE SendPendingRpcs(w)
    BY <1>0, <2>1 DEF SendPendingRpcs, RpcTypes
  <2>2. CASE PostRpc(w)
    BY <1>2, <2>2 DEF PostRpc, Rpc
  <2>3. CASE AskForBarrier(w)
    <3>0. [from |-> w, fn |-> "sync"] \in Rpc
      BY DEF Rpc
    <3>1. CASE waitBefore = 0
      BY <1>2, <2>3, <3>0, <3>1 DEF AskForBarrier
    <3>2. CASE waitBefore # 0
      BY <1>1, <2>3, <3>2 DEF AskForBarrier, rpcVars
    <3> QED
      BY <3>1, <3>2
  <2> QED
    BY <1>1, <1>3, <2>1, <2>2, <2>3 DEF WorkerStep, WorkerChoice, LaunchArrive,
       LaunchSeeRelease, LaunchLeave, BarrierCheck, CountIn, SeeRelease,
       CountOut, ReforkCheck, Refork, ReforkDone, EndLoop, SeeBarrier,
       CountBefore, ReadFirst, ReadSecond, SectionDone, WorkersContinue,
       ReadDone, AllDone, DoneDown, BeforeDown, TakeRef, WorkersSync
<1>4. CASE HandleRpcs
  BY <1>0, <1>4 DEF HandleRpcs, RpcTypes
<1>5. CASE RunRpc
  BY <1>0, <1>5 DEF RunRpc, RpcTypes
<1> QED
  BY <1>1, <1>3, <1>4, <1>5 DEF Next, MainStep, MainChoice, InitialSync,
     InitialRelease, SyncDone, BarrierRelease, OpenBarrier, Drained, Reforked,
     LoopsDone, FreeOld, BarrierSync, NodeRuntimeUpdate, PublishAndWait,
     SpinTimeOut

\* The order of main's own steps.
LEMMA MainOrderStep == IInv /\ Next => MainOrder'
<1> SUFFICES ASSUME IInv, Next PROVE MainOrder'
  OBVIOUS
<1> USE DEF IInv, MainOrder, Types, BarrierHeld, barrierVars, mainVars,
   workerVars, syncVars, rpcVars, graceVars
<1>1. ASSUME NEW w \in Workers, WorkerStep(w) \/ WorkerChoice(w)
      PROVE  MainOrder'
  BY <1>1, WorkerFrame
<1>2. CASE InitialSync \/ InitialRelease \/ SyncDone \/ HandleRpcs \/ RunRpc \/
           OpenBarrier
  BY <1>2 DEF InitialSync, InitialRelease, SyncDone, HandleRpcs, RunRpc,
     OpenBarrier
<1>3. CASE Drained \/ Reforked \/ LoopsDone \/ FreeOld \/ SpinTimeOut \/
           NodeRuntimeUpdate
  BY <1>3 DEF Drained, Reforked, LoopsDone, FreeOld, SpinTimeOut,
     NodeRuntimeUpdate
<1>4. CASE BarrierSync \/ PublishAndWait
  BY <1>4 DEF BarrierSync, PublishAndWait
<1>5. CASE BarrierRelease
  BY <1>5, NType DEF BarrierRelease
<1> QED
  BY <1>1, <1>2, <1>3, <1>4, <1>5 DEF Next, MainStep, MainChoice

\* Each atomic add moves its thread into, or out of, the counted set.
LEMMA CountersStep == IInv /\ Next => Counters'
<1> SUFFICES ASSUME IInv, Next PROVE Counters'
  OBVIOUS
<1>0. Types /\ Counters
  BY DEF IInv
<1>a. ASSUME wpc' = wpc,
             UNCHANGED <<workersAtBarrier, workersBefore, doneBefore>>
      PROVE  Counters'
  BY <1>0, <1>a DEF Counters, In
<1>b. ASSUME NEW w \in Workers, NEW s, Goto(w, s),
             wpc[w] \notin AtStates \cup BeforeStates,
             s \notin AtStates \cup BeforeStates,
             UNCHANGED <<workersAtBarrier, workersBefore, doneBefore>>
      PROVE  Counters'
  BY <1>0, <1>b, CountersMove, InFinite
     DEF Counters, BeforeStates, DoneStates
<1> USE DEF AtStates, BeforeStates, DoneStates, Types
<1>1. ASSUME NEW w \in Workers, WorkerStep(w) PROVE Counters'
  <2>1. CASE \/ SendPendingRpcs(w) \/ BarrierCheck(w) \/ ReforkCheck(w)
             \/ Refork(w) \/ ReforkDone(w) \/ EndLoop(w)
             \/ AskForBarrier(w) \/ SeeBarrier(w)
    BY <1>b, <2>1 DEF SendPendingRpcs, BarrierCheck, ReforkCheck, Refork,
       ReforkDone, EndLoop, AskForBarrier, SeeBarrier, barrierVars, mainVars,
       workerVars, syncVars, rpcVars, graceVars
  <2>2. CASE LaunchArrive(w) \/ LaunchSeeRelease(w) \/ LaunchLeave(w)
    BY <1>0, <2>2, CountersMove DEF LaunchArrive, LaunchSeeRelease,
       LaunchLeave, Counters, barrierVars, mainVars, workerVars, syncVars,
       rpcVars, graceVars
  <2>3. CASE CountIn(w) \/ SeeRelease(w) \/ CountOut(w)
    BY <1>0, <2>3, CountersMove DEF CountIn, SeeRelease, CountOut, Counters,
       barrierVars, mainVars, workerVars, syncVars, rpcVars, graceVars
  <2>4. CASE CountBefore(w)
    BY <1>0, <2>4, CountersMove DEF CountBefore, Counters, barrierVars,
       mainVars, workerVars, syncVars, rpcVars, graceVars
  <2>5. CASE ReadFirst(w)
    BY <1>0, <2>5, CountersMove DEF ReadFirst, Counters, barrierVars, mainVars,
       workerVars, syncVars, rpcVars, graceVars
  <2>6. CASE ReadSecond(w) \/ SectionDone(w)
    BY <1>0, <2>6, CountersMove DEF ReadSecond, SectionDone, Counters,
       barrierVars, mainVars, workerVars, syncVars, rpcVars, graceVars
  <2>7. CASE WorkersContinue(w) \/ ReadDone(w) \/ AllDone(w)
    BY <1>0, <2>7, CountersMove DEF WorkersContinue, ReadDone, AllDone,
       Counters,
       barrierVars, mainVars, workerVars, syncVars, rpcVars, graceVars
  <2>8. CASE DoneDown(w) \/ BeforeDown(w)
    BY <1>0, <2>8, CountersMove DEF DoneDown, BeforeDown, Counters,
       barrierVars, mainVars, workerVars, syncVars, rpcVars, graceVars
  <2> QED
    BY <1>1, <2>1, <2>2, <2>3, <2>4, <2>5, <2>6, <2>7, <2>8 DEF WorkerStep
<1>2. ASSUME NEW w \in Workers, WorkerChoice(w) PROVE Counters'
  BY <1>a, <1>b, <1>2 DEF WorkerChoice, WorkersSync, TakeRef, PostRpc,
     barrierVars, mainVars, workerVars, syncVars, rpcVars, graceVars
<1>3. CASE MainStep \/ MainChoice \/ SpinTimeOut
  BY <1>a, <1>3 DEF MainStep, MainChoice, InitialSync, InitialRelease,
     SyncDone, HandleRpcs, RunRpc, BarrierRelease, OpenBarrier, Drained,
     Reforked, LoopsDone, FreeOld, BarrierSync, NodeRuntimeUpdate,
     PublishAndWait, SpinTimeOut, barrierVars, mainVars, workerVars, syncVars,
     rpcVars, graceVars
<1> QED
  BY <1>1, <1>2, <1>3 DEF Next

\* Main closes an empty barrier: a full count then means that everybody waits.
LEMMA ParkingStep == IInv /\ Next => Parking'
<1> SUFFICES ASSUME IInv, Next PROVE Parking'
  OBVIOUS
<1>0. Types /\ MainOrder /\ Parking /\ mpc # "panic"
  BY DEF IInv, Next
<1>a. ASSUME NEW w \in Workers, NEW s, Goto(w, s), wpc[w] # "parked",
             s \notin LaunchStates,
             s = "arriving" => waitAtBarrier,
             s \notin {"parked", "leaving"},
             UNCHANGED <<mainVars, waitAtBarrier>>
      PROVE  Parking'
  BY <1>0, <1>a DEF Parking, Goto, Types, BarrierHeld, mainVars
<1>1. ASSUME NEW w \in Workers, WorkerStep(w) PROVE Parking'
  <2>0. UNCHANGED <<mainVars, waitAtBarrier>>
    BY <1>1, WorkerFrame
  <2>1. CASE LaunchArrive(w) \/ LaunchSeeRelease(w) \/ LaunchLeave(w)
    BY <1>0, <2>1 DEF LaunchArrive, LaunchSeeRelease, LaunchLeave, Parking,
       LaunchStates
  <2>2. CASE CountIn(w)
    BY <1>0, <2>0, <2>2 DEF CountIn, Parking, Goto, Types, MainOrder,
       BarrierHeld, LaunchStates, mainVars
  <2>3. CASE SeeRelease(w)
    BY <1>0, <2>0, <2>3 DEF SeeRelease, Parking, Goto, Types, MainOrder,
       BarrierHeld, LaunchStates, mainVars
  <2>4. CASE \/ SendPendingRpcs(w) \/ BarrierCheck(w) \/ CountOut(w)
             \/ ReforkCheck(w) \/ Refork(w) \/ ReforkDone(w)
             \/ EndLoop(w) \/ AskForBarrier(w) \/ SeeBarrier(w)
    BY <1>a, <2>0, <2>4 DEF LaunchStates, SendPendingRpcs, BarrierCheck,
       CountOut, ReforkCheck, Refork, ReforkDone, EndLoop, AskForBarrier,
       SeeBarrier
  <2>5. CASE \/ CountBefore(w) \/ ReadFirst(w) \/ ReadSecond(w)
             \/ SectionDone(w) \/ WorkersContinue(w) \/ ReadDone(w)
             \/ AllDone(w)
             \/ DoneDown(w) \/ BeforeDown(w)
    BY <1>a, <2>0, <2>5 DEF LaunchStates, CountBefore, ReadFirst, ReadSecond,
       SectionDone, WorkersContinue, ReadDone, AllDone,
       DoneDown, BeforeDown
  <2> QED
    BY <1>1, <2>1, <2>2, <2>3, <2>4, <2>5 DEF WorkerStep
<1>2. ASSUME NEW w \in Workers, WorkerChoice(w) PROVE Parking'
  <2>0. UNCHANGED <<mainVars, waitAtBarrier>>
    BY <1>2, WorkerFrame
  <2>1. CASE WorkersSync(w)
    BY <1>a, <2>0, <2>1 DEF WorkersSync, LaunchStates
  <2>2. CASE TakeRef(w) \/ PostRpc(w)
    BY <1>0, <2>0, <2>2 DEF TakeRef, PostRpc, Parking, BarrierHeld, mainVars,
       workerVars
  <2> QED
    BY <1>2, <2>1, <2>2 DEF WorkerChoice
<1>3. CASE SyncDone
  <2>1. \A w \in Workers : wpc[w] \in AtStates
    BY <1>3, InAll DEF SyncDone, IInv, Counters
  <2> QED
    BY <1>0, <1>3, <2>1 DEF SyncDone, AtStates, Parking, MainOrder,
       BarrierHeld, LaunchStates, barrierVars, workerVars
<1>4. CASE Drained
  <2>1. \A w \in Workers : wpc[w] \notin AtStates
    BY <1>4, InNone DEF Drained, IInv, Counters
  <2> QED
    BY <1>0, <1>4, <2>1 DEF Drained, AtStates, Parking, MainOrder, BarrierHeld,
       barrierVars, workerVars
<1>5. CASE \/ InitialSync \/ InitialRelease \/ HandleRpcs
           \/ RunRpc \/ OpenBarrier
  BY <1>0, <1>5 DEF Parking, MainOrder, BarrierHeld, InitialSync,
     InitialRelease, HandleRpcs, RunRpc, OpenBarrier, barrierVars, mainVars,
     workerVars, syncVars, rpcVars, graceVars
<1>6. CASE \/ Reforked \/ LoopsDone \/ FreeOld
           \/ SpinTimeOut \/ NodeRuntimeUpdate
  BY <1>0, <1>6 DEF Parking, MainOrder, BarrierHeld, Reforked, LoopsDone,
     FreeOld, SpinTimeOut, NodeRuntimeUpdate, barrierVars, mainVars,
     workerVars, syncVars, rpcVars, graceVars
<1>7. CASE \/ BarrierSync \/ BarrierRelease \/ PublishAndWait
  BY <1>0, <1>7 DEF Parking, MainOrder, BarrierHeld, BarrierSync,
     BarrierRelease, PublishAndWait, barrierVars, mainVars, workerVars,
     syncVars, rpcVars, graceVars
<1> QED
  BY <1>1, <1>2, <1>3, <1>4, <1>5, <1>6, <1>7 DEF Next, MainStep, MainChoice

\* A worker's move that neither starts nor ends its refork keeps the round.
LEMMA ReforkingMove ==
  ASSUME Types, Reforking, NEW w \in Workers, NEW s, Goto(w, s),
         UNCHANGED <<nodeReforks, stale, reforkNeeded, needUpdate>>,
         wpc[w] \in PreRefork <=> s \in PreRefork,
         wpc[w] = "reforkWait" /\ s # "reforkWait" => nodeReforks = 0,
         s = "reforking" => reforkNeeded
  PROVE  Reforking'
<1>1. wpc' = [wpc EXCEPT ![w] = s] /\ wpc \in [Workers -> WorkerStates]
  BY DEF Goto, Types
<1>2. In(PreRefork)' = In(PreRefork)
  BY <1>1, InMove
<1>3. reforkNeeded' =>
        /\ nodeReforks' = Cardinality(In(PreRefork)')
        /\ nodeReforks' # 0 =>
             \A v \in Workers : wpc'[v] \in PreRefork \cup {"reforkWait"}
  BY <1>1, <1>2 DEF Reforking
<1>4. ~reforkNeeded' =>
        nodeReforks' = 0 /\ \A v \in Workers : wpc'[v] # "reforking"
  BY <1>1 DEF Reforking
<1>5. stale' # {} => needUpdate' \/ reforkNeeded'
  BY DEF Reforking
<1>6. reforkNeeded' => \A v \in stale' : wpc'[v] \in PreRefork
  BY <1>1 DEF Reforking, Types
<1> QED
  BY <1>3, <1>4, <1>5, <1>6 DEF Reforking

\* The countdown of a refork round.
LEMMA ReforkingStep == IInv /\ Next => Reforking'
<1> SUFFICES ASSUME IInv, Next PROVE Reforking'
  OBVIOUS
<1>0. Types /\ MainOrder /\ Parking /\ Reforking /\ mpc # "panic"
  BY DEF IInv, Next
<1>z. Cardinality(In(PreRefork)) = 0
        <=> \A w \in Workers : wpc[w] \notin PreRefork
  BY InNone
<1>a. ASSUME wpc' = wpc,
             UNCHANGED <<nodeReforks, stale, reforkNeeded, needUpdate>>
      PROVE  Reforking'
  BY <1>0, <1>a DEF Reforking, In
<1>1. ASSUME NEW w \in Workers, WorkerStep(w) PROVE Reforking'
  <2>1. CASE \/ LaunchArrive(w) \/ LaunchSeeRelease(w) \/ LaunchLeave(w)
             \/ SendPendingRpcs(w) \/ BarrierCheck(w) \/ SeeRelease(w)
             \/ CountOut(w) \/ ReforkDone(w) \/ EndLoop(w)
             \/ AskForBarrier(w)
    BY <1>0, <2>1, ReforkingMove DEF PreRefork, LaunchArrive, LaunchSeeRelease,
       LaunchLeave, SendPendingRpcs, BarrierCheck, SeeRelease, CountOut,
       ReforkDone, EndLoop, AskForBarrier, barrierVars, mainVars, workerVars,
       syncVars, rpcVars, graceVars
  <2>2. CASE \/ SeeBarrier(w) \/ CountBefore(w) \/ ReadFirst(w)
             \/ ReadSecond(w) \/ SectionDone(w) \/ WorkersContinue(w)
             \/ ReadDone(w) \/ AllDone(w) \/ DoneDown(w) \/ BeforeDown(w)
    BY <1>0, <2>2, ReforkingMove DEF PreRefork, SeeBarrier, CountBefore,
       ReadFirst, ReadSecond, SectionDone, WorkersContinue, ReadDone, AllDone,
       DoneDown,
       BeforeDown, barrierVars, mainVars, workerVars, syncVars, rpcVars,
       graceVars
  <2>3. CASE CountIn(w)
    <3>1. ~reforkNeeded
      BY <1>0, <2>3 DEF CountIn, MainOrder, Parking, BarrierHeld
    <3> QED
      BY <1>0, <2>3, <3>1 DEF CountIn, Reforking, Goto, Types, barrierVars,
         mainVars, workerVars, syncVars, rpcVars, graceVars
  <2>4. CASE ReforkCheck(w)
    <3>1. nodeReforks # 0 <=> reforkNeeded
      BY <1>0, <1>z, <2>4 DEF ReforkCheck, Reforking, PreRefork
    <3>2. CASE reforkNeeded
      BY <1>0, <2>4, <3>1, <3>2, ReforkingMove DEF ReforkCheck, PreRefork,
         barrierVars, mainVars, workerVars, syncVars, rpcVars, graceVars
    <3>3. CASE ~reforkNeeded
      BY <1>0, <2>4, <3>1, <3>3 DEF ReforkCheck, Reforking, Goto, Types,
         barrierVars, mainVars, workerVars, syncVars, rpcVars, graceVars
    <3> QED
      BY <3>2, <3>3
  <2>5. CASE Refork(w)
    <3>1. reforkNeeded
      BY <1>0, <2>5 DEF Refork, Reforking
    <3>2. Cardinality(In(PreRefork)') = Cardinality(In(PreRefork)) - 1
      <4>1. /\ wpc \in [Workers -> WorkerStates] /\ Goto(w, "reforkWait")
            /\ wpc[w] \in PreRefork /\ "reforkWait" \notin PreRefork
        BY <1>0, <2>5 DEF Refork, PreRefork, Types
      <4> QED
        BY <4>1, InMove
    <3>3. nodeReforks # 0
      BY <1>0, <1>z, <2>5, <3>1 DEF Refork, Reforking, PreRefork
    <3>4. wpc' = [wpc EXCEPT ![w] = "reforkWait"] /\ wpc[w] = "reforking"
      BY <2>5 DEF Refork, Goto
    <3> QED
      BY <1>0, <2>5, <3>1, <3>2, <3>3, <3>4 DEF Refork, Reforking, Types,
         PreRefork, barrierVars, mainVars, workerVars, syncVars, rpcVars,
         graceVars
  <2> QED
    BY <1>1, <2>1, <2>2, <2>3, <2>4, <2>5 DEF WorkerStep
<1>2. ASSUME NEW w \in Workers, WorkerChoice(w) PROVE Reforking'
  <2>1. CASE WorkersSync(w)
    BY <1>0, <2>1, ReforkingMove DEF WorkersSync, PreRefork, barrierVars,
       mainVars, workerVars, syncVars, rpcVars, graceVars
  <2>2. CASE TakeRef(w) \/ PostRpc(w)
    BY <1>a, <2>2 DEF TakeRef, PostRpc, barrierVars, mainVars, workerVars,
       syncVars, rpcVars, graceVars
  <2> QED
    BY <1>2, <2>1, <2>2 DEF WorkerChoice
<1>3. CASE InitialSync \/ InitialRelease \/ SyncDone \/ HandleRpcs \/ RunRpc \/
           OpenBarrier \/ Drained \/ LoopsDone \/ FreeOld \/ BarrierSync \/
           PublishAndWait \/ SpinTimeOut
  BY <1>a, <1>3 DEF InitialSync, InitialRelease, SyncDone, HandleRpcs, RunRpc,
     OpenBarrier, Drained, LoopsDone, FreeOld, BarrierSync, PublishAndWait,
     SpinTimeOut, barrierVars, mainVars, workerVars, syncVars, rpcVars,
     graceVars
<1>4. CASE BarrierRelease
  BY <1>0, <1>4, InAll, NType DEF BarrierRelease, Reforking, Parking,
     PreRefork, MainOrder, BarrierHeld, Types, In, barrierVars, mainVars,
     workerVars, syncVars, rpcVars, graceVars
<1>5. CASE Reforked
  BY <1>0, <1>z, <1>5 DEF Reforked, Reforking, PreRefork, Types, MainOrder,
     barrierVars, mainVars, workerVars, syncVars, rpcVars, graceVars
<1>6. CASE NodeRuntimeUpdate
  BY <1>0, <1>6 DEF NodeRuntimeUpdate, Reforking, MainOrder, Types, In,
     barrierVars, mainVars, workerVars, syncVars, rpcVars, graceVars
<1> QED
  BY <1>1, <1>2, <1>3, <1>4, <1>5, <1>6 DEF Next, MainStep, MainChoice

\* A replaced vector is only read by workers that main waits for.
LEMMA GraceStep == IInv /\ Next => Grace'
<1> SUFFICES ASSUME IInv, Next PROVE Grace'
  OBVIOUS
<1>0. Types /\ MainOrder /\ Parking /\ Grace
  BY DEF IInv
<1>a. ASSUME NEW w \in Workers, NEW s, Goto(w, s),
             wpc[w] \notin {"run"} \cup SyncStates
               \/ s \in {"run"} \cup SyncStates,
             UNCHANGED <<ref, behind, mpc>>
      PROVE  Grace'
  BY <1>0, <1>a DEF Grace, Goto, Types
<1>1. ASSUME NEW w \in Workers, WorkerStep(w) PROVE Grace'
  <2>0. UNCHANGED <<mainVars, waitAtBarrier>>
    BY <1>1, WorkerFrame
  <2>1. CASE EndLoop(w)
    BY <1>0, <2>0, <2>1 DEF EndLoop, Grace, Types, Goto, mainVars
  <2>2. CASE \/ LaunchArrive(w) \/ LaunchSeeRelease(w) \/ LaunchLeave(w)
             \/ SendPendingRpcs(w) \/ BarrierCheck(w) \/ CountIn(w)
             \/ SeeRelease(w) \/ CountOut(w) \/ ReforkCheck(w)
             \/ Refork(w) \/ ReforkDone(w)
    BY <1>a, <2>0, <2>2 DEF SyncStates, mainVars, graceVars, LaunchArrive,
       LaunchSeeRelease, LaunchLeave, SendPendingRpcs, BarrierCheck, CountIn,
       SeeRelease, CountOut, ReforkCheck, Refork, ReforkDone
  <2>3. CASE \/ AskForBarrier(w) \/ SeeBarrier(w) \/ CountBefore(w)
             \/ ReadFirst(w) \/ ReadSecond(w) \/ SectionDone(w)
             \/ WorkersContinue(w) \/ ReadDone(w) \/ AllDone(w) \/ DoneDown(w)
             \/ BeforeDown(w)
    BY <1>a, <2>0, <2>3 DEF SyncStates, mainVars, graceVars, AskForBarrier,
       SeeBarrier, CountBefore, ReadFirst, ReadSecond, SectionDone,
       WorkersContinue, ReadDone, AllDone, DoneDown, BeforeDown
  <2> QED
    BY <1>1, <2>1, <2>2, <2>3 DEF WorkerStep
<1>2. ASSUME NEW w \in Workers, WorkerChoice(w) PROVE Grace'
  <2>1. CASE TakeRef(w)
    BY <1>0, <2>1 DEF TakeRef, Grace, Types, mainVars, workerVars
  <2>2. CASE PostRpc(w)
    BY <1>0, <2>2 DEF PostRpc, Grace, mainVars, workerVars, graceVars
  <2>3. CASE WorkersSync(w)
    BY <1>a, <2>3 DEF WorkersSync, SyncStates, mainVars, graceVars
  <2> QED
    BY <1>2, <2>1, <2>2, <2>3 DEF WorkerChoice
<1>3. CASE PublishAndWait
  BY <1>0, <1>3 DEF PublishAndWait, Grace, Types, MainOrder, Parking,
     BarrierHeld, SyncStates, workerVars
<1>4. CASE LoopsDone
  BY <1>0, <1>4 DEF LoopsDone, Grace, workerVars, graceVars
<1>5. CASE \/ InitialSync \/ InitialRelease \/ SyncDone
           \/ HandleRpcs \/ RunRpc \/ BarrierRelease
           \/ OpenBarrier
  BY <1>0, <1>5 DEF Grace, mainVars, workerVars, graceVars, InitialSync,
     InitialRelease, SyncDone, HandleRpcs, RunRpc, BarrierRelease, OpenBarrier
<1>6. CASE \/ Drained \/ Reforked \/ FreeOld
           \/ BarrierSync \/ NodeRuntimeUpdate \/ SpinTimeOut
  BY <1>0, <1>6 DEF Grace, mainVars, workerVars, graceVars, Drained, Reforked,
     FreeOld, BarrierSync, NodeRuntimeUpdate, SpinTimeOut
<1> QED
  BY <1>1, <1>2, <1>3, <1>4, <1>5, <1>6 DEF Next, MainStep, MainChoice

-----------------------------------------------------------------------------
\* The invariant is inductive, for every finite set of workers.
THEOREM Invariance == Spec => []IInv
<1>1. Init => IInv
  <2> SUFFICES ASSUME Init PROVE IInv
    OBVIOUS
  <2>1. Types
    <3>1. /\ parked \in [Workers -> BOOLEAN]
          /\ wpc \in [Workers -> WorkerStates]
          /\ ref \in [Workers -> {"none", "cur", "old"}]
      BY DEF Init, InitCommon, WorkerStates
    <3>2. syncs \in [Workers -> Nat] /\ seen \in [Workers -> Nat]
      BY DEF Init, InitCommon
    <3>3. stale \in SUBSET Workers /\ behind \in SUBSET Workers
      BY DEF Init, InitCommon
    <3>4. /\ waitAtBarrier \in BOOLEAN /\ needUpdate \in BOOLEAN
          /\ reforkNeeded \in BOOLEAN
      BY DEF Init, InitCommon
    <3>5. /\ workersAtBarrier \in Int /\ nodeReforks \in Int
          /\ recursionLevel \in Int /\ work \in Nat
          /\ waitBefore \in {0, 1} /\ workersBefore \in Int
          /\ doneBefore \in Int
      BY DEF Init, InitCommon
    <3>6. phase = "run" /\ mpc \in MainStates
      BY DEF Init, InitCommon, MainStates
    <3> QED
      BY <3>1, <3>2, <3>3, <3>4, <3>5, <3>6 DEF Types
  <2>2. RpcTypes
    BY DEF Init, InitCommon, RpcTypes
  <2>3. MainOrder /\ Parking /\ Grace
    BY DEF Init, InitCommon, MainOrder, Parking, Grace, BarrierHeld,
           LaunchStates
  <2>4. Counters
    BY InNone DEF Init, InitCommon, Counters, AtStates, BeforeStates,
                  DoneStates
  <2>5. Reforking
    BY DEF Init, InitCommon, Reforking
  <2> QED
    BY <2>1, <2>3, <2>4, <2>5, <2>2 DEF IInv
<1>2. IInv /\ [Next]_vars => IInv'
  <2> SUFFICES ASSUME IInv, [Next]_vars PROVE IInv'
    OBVIOUS
  <2>1. CASE Next
    BY <2>1, TypesStep, RpcTypesStep, MainOrderStep, CountersStep,
       ParkingStep, ReforkingStep, GraceStep DEF IInv
  <2>2. CASE UNCHANGED vars
    BY <2>2 DEF vars, barrierVars, mainVars, workerVars, syncVars, rpcVars,
                graceVars, IInv, Types, RpcTypes, MainOrder, Counters,
                Parking, Reforking, Grace, In, BarrierHeld
  <2> QED
    BY <2>1, <2>2
<1> QED
  BY <1>1, <1>2, PTL DEF Spec

\* No variable leaves its type: in particular no atomic counter of the barrier
\* ever goes below zero.
THEOREM TypeCorrect == Spec => []TypeOK
<1>1. IInv => TypeOK
  <2> SUFFICES ASSUME IInv PROVE TypeOK
    OBVIOUS
  <2>1. workersAtBarrier \in Nat /\ workersBefore \in Nat /\ doneBefore \in Nat
    BY InFinite DEF IInv, Counters
  <2>2. nodeReforks \in Nat
    BY InFinite DEF IInv, Types, Reforking
  <2> QED
    BY <2>1, <2>2 DEF IInv, Types, RpcTypes, MainOrder, TypeOK
<1> QED
  BY <1>1, Invariance, PTL

\* Mutual exclusion of the barrier: from the end of main's sync spin to its
\* reopening store every worker is in the barrier's spin.
THEOREM MutualExclusion == Spec => []WorkersParked
<1>1. IInv => WorkersParked
  BY DEF IInv, Parking, WorkersParked, BarrierHeld
<1> QED
  BY <1>1, Invariance, PTL

\* workers_at_barrier counts the workers between their two atomic adds.
THEOREM CounterExact == Spec => []AtBarrierCounts
<1>1. IInv => AtBarrierCounts
  BY DEF IInv, Counters, AtBarrierCounts, In, AtStates
<1> QED
  BY <1>1, Invariance, PTL

\* Parallel refork: nobody runs before every clone of the graph is rebuilt.
THEOREM ReforkComplete == Spec => []NoStaleGraph
<1>1. IInv => NoStaleGraph
  <2> SUFFICES ASSUME IInv, NEW w \in Workers, Running(w), stale # {}
               PROVE  FALSE
    BY DEF NoStaleGraph
  <2>1. CASE needUpdate
    BY <2>1 DEF IInv, MainOrder, Parking, Running, BarrierHeld, SyncStates
  <2>2. CASE reforkNeeded
    <3>1. PICK v \in stale : wpc[v] \in PreRefork
      BY <2>2 DEF IInv, Reforking
    <3>2. Cardinality(In(PreRefork)) # 0
      BY <3>1, InNone DEF IInv, Types
    <3> QED
      BY <2>2, <3>2 DEF IInv, Reforking, Running, PreRefork, SyncStates
  <2> QED
    BY <2>1, <2>2 DEF IInv, Reforking
<1> QED
  BY <1>1, Invariance, PTL

\* vlib_worker_wait_one_loop is a grace period, with and without the barrier.
THEOREM GraceSafe == Spec => []GracePeriod
<1>1. IInv => GracePeriod
  BY DEF IInv, Grace, GracePeriod
<1> QED
  BY <1>1, Invariance, PTL

\* Main never holds the barrier while a worker is in its section before it.
THEOREM BeforeDrained == Spec => []BeforeBarrierDrained
<1>1. IInv => BeforeBarrierDrained
  <2> SUFFICES ASSUME IInv, BarrierHeld
               PROVE  workersBefore = 0 /\ doneBefore = 0
    BY DEF BeforeBarrierDrained
  <2>1. \A w \in Workers : wpc[w] = "parked"
    BY DEF IInv, Parking, BarrierHeld
  <2> QED
    BY <2>1, InNone DEF IInv, Counters, BeforeStates, DoneStates
<1> QED
  BY <1>1, Invariance, PTL

-----------------------------------------------------------------------------
(***************************************************************************)
(* vlib_workers_sync and vlib_workers_continue, when a pass of the loop    *)
(* has at most one of them.  Its spins add and compare words that were     *)
(* read at different times, so a sum proves something only if nobody who   *)
(* was counted can have left.  There are three phases: workers gather;     *)
(* the first one into its section finds all of them gathered; and the      *)
(* first one out of it finds all of them done.                             *)
(***************************************************************************)

\* In the spin of vlib_workers_sync; past it; past the spin of
\* vlib_workers_continue.
SpinStates == {"syncSpin", "syncSpinAt", "syncSpinBefore"}
PastStates == BeforeStates \ SpinStates
OutStates == {"doneDown", "beforeDown"}

\* Everybody is counted, and nobody has been let out yet.
Gathered ==
  \A w \in Workers : wpc[w] \in (AtStates \cup BeforeStates) \ OutStates

\* Everybody is done, and nobody can begin again before the barrier.
Dispersed ==
  \A w \in Workers :
    \/ wpc[w] \in AtStates \cup DoneStates \cup OutStates
    \/ wpc[w] \in {"top", "check", "arriving"}
    \/ wpc[w] = "run" /\ syncs[w] > 0

\* A worker on its way into or out of a section has used up its one sync, and
\* the flag it has seen is still up.
OneSync ==
  /\ \A w \in Workers : wpc[w] \in SyncStates => syncs[w] > 0
  /\ \A w \in Workers :
       wpc[w] \in BeforeStates \cup {"syncCount"} => waitAtBarrier

\* The phases.
Phases == (\E w \in Workers : wpc[w] \in PastStates) => Gathered \/ Dispersed

\* What a word read first still says when the other one is read.
FirstReads ==
  \A w \in Workers :
    /\ wpc[w] = "syncSpinAt" => seen[w] <= workersBefore
    /\ wpc[w] = "syncSpinBefore" => seen[w] <= workersAtBarrier
    /\ ~Dispersed /\ wpc[w] = "continueSpinDone" => workersBefore <= seen[w]
    /\ ~Dispersed /\ wpc[w] = "continueSpinBefore" => seen[w] <= doneBefore

SectionInv == OneSync /\ Phases /\ FirstReads

\* What the callers would have to see to: no worker is in its second
\* vlib_workers_sync of one pass of its loop.
SyncsOnce == \A w \in Workers : syncs[w] <= 1

\* The sums of counters that the two spins wait for.
LEMMA AllGathered ==
  ASSUME Types, Counters, workersAtBarrier + workersBefore >= N
  PROVE  \A w \in Workers : wpc[w] \in AtStates \cup BeforeStates
<1>1. /\ IsFiniteSet(In(AtStates)) /\ IsFiniteSet(In(BeforeStates))
      /\ Cardinality(In(AtStates)) \in Nat
      /\ Cardinality(In(BeforeStates)) \in Nat
  BY InFinite
<1>2. In(AtStates) \cap In(BeforeStates) = {}
  BY DEF In, AtStates, BeforeStates
<1>3. Cardinality(In(AtStates) \cup In(BeforeStates))
        = Cardinality(In(AtStates)) + Cardinality(In(BeforeStates))
  <2>1. Cardinality(In(AtStates) \cup In(BeforeStates))
          = Cardinality(In(AtStates)) + Cardinality(In(BeforeStates))
            - Cardinality(In(AtStates) \cap In(BeforeStates))
    BY <1>1, FS_Union
  <2>2. Cardinality(In(AtStates) \cap In(BeforeStates)) = 0
    BY <1>2, FS_EmptySet
  <2> QED
    BY <1>1, <2>1, <2>2
<1>4. In(AtStates) \cup In(BeforeStates) = In(AtStates \cup BeforeStates)
  BY DEF In
<1>5. In(AtStates \cup BeforeStates) \subseteq Workers
  BY DEF In
<1>6. Cardinality(In(AtStates \cup BeforeStates)) <= N
  BY <1>5, WorkersAssumption, FS_Subset DEF N
<1>7. Cardinality(In(AtStates \cup BeforeStates)) = N
  <2>1. Cardinality(In(AtStates \cup BeforeStates)) >= N
    BY <1>3, <1>4 DEF Counters
  <2>2. Cardinality(In(AtStates \cup BeforeStates)) \in Nat
    BY InFinite
  <2> QED
    BY <1>6, <2>1, <2>2, NType
<1> QED
  BY <1>7, InAll

\* ... and the comparison that vlib_workers_continue waits for.
LEMMA AllAreDone ==
  ASSUME Types, Counters, doneBefore >= workersBefore
  PROVE  \A w \in Workers : wpc[w] \in BeforeStates => wpc[w] \in DoneStates
<1>1. /\ IsFiniteSet(In(BeforeStates)) /\ Cardinality(In(DoneStates)) \in Nat
      /\ Cardinality(In(BeforeStates)) \in Nat
  BY InFinite
<1>2. In(DoneStates) \subseteq In(BeforeStates)
  BY DEF In, DoneStates, BeforeStates
<1>3. Cardinality(In(DoneStates)) <= Cardinality(In(BeforeStates))
  BY <1>1, <1>2, FS_Subset
<1>4. Cardinality(In(DoneStates)) = Cardinality(In(BeforeStates))
  BY <1>1, <1>3 DEF Counters
<1>5. In(DoneStates) = In(BeforeStates)
  BY <1>1, <1>2, <1>4, FS_Subset
<1> QED
  BY <1>5 DEF In

\* The flag a worker in vlib_workers_sync has seen stays up, and its one sync
\* stays used.
LEMMA OneSyncStep ==
  ASSUME IInv, SectionInv, Next
  PROVE  OneSync'
<1>0. Types /\ MainOrder /\ Parking /\ OneSync /\ mpc # "panic"
  BY DEF IInv, SectionInv, Next
<1> USE DEF OneSync, Types, Goto, SyncStates, BeforeStates, barrierVars,
   mainVars, workerVars, syncVars, rpcVars, graceVars
<1>1. ASSUME NEW w \in Workers, WorkerStep(w) \/ WorkerChoice(w)
      PROVE  OneSync'
  <2>0. ~LaunchArrive(w) /\ ~LaunchSeeRelease(w) /\ ~LaunchLeave(w)
    BY <1>0 DEF LaunchArrive, LaunchSeeRelease, LaunchLeave, Parking,
       LaunchStates
  <2>1. CASE SendPendingRpcs(w)
    BY <1>0, <2>1 DEF SendPendingRpcs
  <2>2. CASE BarrierCheck(w)
    BY <1>0, <2>2 DEF BarrierCheck
  <2>3. CASE CountIn(w)
    BY <1>0, <2>3 DEF CountIn
  <2>4. CASE SeeRelease(w)
    BY <1>0, <2>4 DEF SeeRelease
  <2>5. CASE CountOut(w)
    BY <1>0, <2>5 DEF CountOut
  <2>6. CASE ReforkCheck(w)
    BY <1>0, <2>6 DEF ReforkCheck
  <2>7. CASE Refork(w)
    BY <1>0, <2>7 DEF Refork
  <2>8. CASE ReforkDone(w)
    BY <1>0, <2>8 DEF ReforkDone
  <2>9. CASE EndLoop(w)
    BY <1>0, <2>9 DEF EndLoop
  <2>10. CASE AskForBarrier(w)
    BY <1>0, <2>10 DEF AskForBarrier
  <2>11. CASE SeeBarrier(w)
    BY <1>0, <2>11 DEF SeeBarrier
  <2>12. CASE CountBefore(w)
    BY <1>0, <2>12 DEF CountBefore
  <2>13. CASE ReadFirst(w)
    BY <1>0, <2>13 DEF ReadFirst
  <2>14. CASE ReadSecond(w)
    BY <1>0, <2>14 DEF ReadSecond
  <2>15. CASE SectionDone(w)
    BY <1>0, <2>15 DEF SectionDone
  <2>16. CASE WorkersContinue(w)
    BY <1>0, <2>16 DEF WorkersContinue
  <2>17. CASE ReadDone(w)
    BY <1>0, <2>17 DEF ReadDone
  <2>18. CASE AllDone(w)
    BY <1>0, <2>18 DEF AllDone
  <2>19. CASE DoneDown(w)
    BY <1>0, <2>19 DEF DoneDown
  <2>20. CASE BeforeDown(w)
    BY <1>0, <2>20 DEF BeforeDown
  <2>21. CASE TakeRef(w)
    BY <1>0, <2>21 DEF TakeRef
  <2>22. CASE PostRpc(w)
    BY <1>0, <2>22 DEF PostRpc
  <2>23. CASE WorkersSync(w)
    BY <1>0, <2>23 DEF WorkersSync
  <2> QED
    BY <1>1, <2>0, <2>1, <2>2, <2>3, <2>4, <2>5, <2>6, <2>7, <2>8, <2>9,
       <2>10, <2>11, <2>12, <2>13, <2>14, <2>15, <2>16, <2>17, <2>18,
       <2>19, <2>20, <2>21, <2>22, <2>23
       DEF WorkerStep, WorkerChoice
<1>2. CASE InitialSync
  BY <1>0, <1>2 DEF InitialSync
<1>3. CASE SyncDone
  BY <1>0, <1>3 DEF SyncDone
<1>4. CASE HandleRpcs
  BY <1>0, <1>4 DEF HandleRpcs
<1>5. CASE RunRpc
  BY <1>0, <1>5 DEF RunRpc
<1>6. CASE BarrierRelease
  BY <1>0, <1>6 DEF BarrierRelease
<1>7. CASE Drained
  BY <1>0, <1>7 DEF Drained
<1>8. CASE Reforked
  BY <1>0, <1>8 DEF Reforked
<1>9. CASE LoopsDone
  BY <1>0, <1>9 DEF LoopsDone
<1>10. CASE FreeOld
  BY <1>0, <1>10 DEF FreeOld
<1>11. CASE BarrierSync
  BY <1>0, <1>11 DEF BarrierSync
<1>12. CASE NodeRuntimeUpdate
  BY <1>0, <1>12 DEF NodeRuntimeUpdate
<1>13. CASE PublishAndWait
  BY <1>0, <1>13 DEF PublishAndWait
<1>14. CASE SpinTimeOut
  BY <1>0, <1>14 DEF SpinTimeOut
<1>15. CASE OpenBarrier \/ InitialRelease
  BY <1>0, <1>15 DEF OpenBarrier, InitialRelease, Parking, MainOrder,
     BarrierHeld
<1> QED
  BY <1>1, <1>2, <1>3, <1>4, <1>5, <1>6, <1>7, <1>8, <1>9, <1>10, <1>11,
     <1>12, <1>13, <1>14, <1>15
     DEF Next, MainStep, MainChoice

\* Once dispersed, the workers stay so until the barrier: each has used its
\* one sync and finds the flag up at the head of its loop.
LEMMA DispersedStep ==
  ASSUME SyncsOnce', IInv, OneSync, Dispersed, waitAtBarrier,
         mpc # "panic", NEW w \in Workers, WorkerStep(w) \/ WorkerChoice(w)
  PROVE  Dispersed'
<1>0. /\ Types /\ Dispersed /\ waitAtBarrier
      /\ \A v \in Workers : wpc[v] # "leaving"
      /\ \A v \in Workers : wpc[v] \in SyncStates => syncs[v] > 0
  BY DEF IInv, Parking, OneSync
<1> USE DEF Dispersed, Types, Goto, SyncStates, AtStates, DoneStates,
   OutStates, barrierVars, mainVars, workerVars, syncVars, rpcVars, graceVars
<1>1. ~LaunchArrive(w) /\ ~LaunchSeeRelease(w) /\ ~LaunchLeave(w)
  BY DEF IInv, LaunchArrive, LaunchSeeRelease, LaunchLeave, Parking,
     LaunchStates
<1>2. CASE SendPendingRpcs(w)
  BY <1>0, <1>2 DEF SendPendingRpcs
<1>3. CASE BarrierCheck(w)
  BY <1>0, <1>3 DEF BarrierCheck
<1>4. CASE CountIn(w)
  BY <1>0, <1>4 DEF CountIn
<1>5. CASE SeeRelease(w)
  BY <1>0, <1>5 DEF SeeRelease
<1>6. CASE CountOut(w)
  BY <1>0, <1>6 DEF CountOut
<1>7. CASE ReforkCheck(w)
  BY <1>0, <1>7 DEF ReforkCheck
<1>8. CASE Refork(w)
  BY <1>0, <1>8 DEF Refork
<1>9. CASE ReforkDone(w)
  BY <1>0, <1>9 DEF ReforkDone
<1>10. CASE EndLoop(w)
  BY <1>0, <1>10 DEF EndLoop
<1>11. CASE AskForBarrier(w)
  BY <1>0, <1>11 DEF AskForBarrier
<1>12. CASE SeeBarrier(w)
  BY <1>0, <1>12 DEF SeeBarrier
<1>13. CASE CountBefore(w)
  BY <1>0, <1>13 DEF CountBefore
<1>14. CASE ReadFirst(w)
  BY <1>0, <1>14 DEF ReadFirst
<1>15. CASE ReadSecond(w)
  BY <1>0, <1>15 DEF ReadSecond
<1>16. CASE SectionDone(w)
  BY <1>0, <1>16 DEF SectionDone
<1>17. CASE WorkersContinue(w)
  BY <1>0, <1>17 DEF WorkersContinue
<1>18. CASE ReadDone(w)
  BY <1>0, <1>18 DEF ReadDone
<1>19. CASE AllDone(w)
  BY <1>0, <1>19 DEF AllDone
<1>20. CASE DoneDown(w)
  BY <1>0, <1>20 DEF DoneDown
<1>21. CASE BeforeDown(w)
  BY <1>0, <1>21 DEF BeforeDown
<1>22. CASE TakeRef(w)
  BY <1>0, <1>22 DEF TakeRef
<1>23. CASE PostRpc(w)
  BY <1>0, <1>23 DEF PostRpc
<1>24. CASE WorkersSync(w)
  <2>1. syncs'[w] = syncs[w] + 1 /\ syncs'[w] <= 1 /\ syncs[w] \in Nat
    BY <1>0, <1>24 DEF WorkersSync, SyncsOnce
  <2> QED
    BY <1>0, <1>24, <2>1 DEF WorkersSync
<1> QED
  BY <1>1, <1>2, <1>3, <1>4, <1>5, <1>6, <1>7, <1>8, <1>9, <1>10, <1>11,
     <1>12, <1>13, <1>14, <1>15, <1>16, <1>17, <1>18, <1>19, <1>20,
     <1>21, <1>22, <1>23, <1>24
     DEF WorkerStep, WorkerChoice

\* Who enters a section finds all gathered; who leaves one finds all done.
LEMMA PhasesStep ==
  ASSUME SyncsOnce', IInv, SectionInv, Next
  PROVE  Phases'
<1>0. /\ Types /\ MainOrder /\ Parking /\ OneSync /\ Phases /\ mpc # "panic"
  BY DEF IInv, SectionInv, Next
<1> USE DEF Phases, PastStates, SpinStates, Gathered, Types, Goto, AtStates,
   BeforeStates, OutStates, barrierVars, mainVars, workerVars, syncVars,
   rpcVars, graceVars
<1>1. ASSUME NEW w \in Workers, WorkerStep(w) \/ WorkerChoice(w)
      PROVE  Phases'
  <2>a. waitAtBarrier /\ Dispersed => Dispersed'
    BY <1>0, <1>1, DispersedStep
  <2>b. /\ (\E v \in Workers : wpc[v] \in PastStates) => waitAtBarrier
        /\ waitAtBarrier => \A v \in Workers : wpc[v] # "leaving"
    BY <1>0 DEF OneSync, Parking
  <2>0. ~LaunchArrive(w) /\ ~LaunchSeeRelease(w) /\ ~LaunchLeave(w)
    BY <1>0 DEF LaunchArrive, LaunchSeeRelease, LaunchLeave, Parking,
       LaunchStates
  <2>c. Phases /\ Types
    BY <1>0
  <2>1. CASE SendPendingRpcs(w)
    BY <2>1, <2>a, <2>b, <2>c DEF SendPendingRpcs
  <2>2. CASE BarrierCheck(w)
    BY <2>2, <2>a, <2>b, <2>c DEF BarrierCheck
  <2>3. CASE CountIn(w)
    BY <2>3, <2>a, <2>b, <2>c DEF CountIn
  <2>4. CASE SeeRelease(w)
    BY <2>4, <2>a, <2>b, <2>c DEF SeeRelease
  <2>5. CASE CountOut(w)
    BY <2>5, <2>a, <2>b, <2>c DEF CountOut
  <2>6. CASE ReforkCheck(w)
    BY <2>6, <2>a, <2>b, <2>c DEF ReforkCheck
  <2>7. CASE Refork(w)
    BY <2>7, <2>a, <2>b, <2>c DEF Refork
  <2>8. CASE ReforkDone(w)
    BY <2>8, <2>a, <2>b, <2>c DEF ReforkDone
  <2>9. CASE EndLoop(w)
    BY <2>9, <2>a, <2>b, <2>c DEF EndLoop
  <2>10. CASE AskForBarrier(w)
    BY <2>10, <2>a, <2>b, <2>c DEF AskForBarrier
  <2>11. CASE SeeBarrier(w)
    BY <2>11, <2>a, <2>b, <2>c DEF SeeBarrier
  <2>12. CASE CountBefore(w)
    BY <2>12, <2>a, <2>b, <2>c DEF CountBefore
  <2>13. CASE ReadFirst(w)
    BY <2>13, <2>a, <2>b, <2>c DEF ReadFirst
  <2>14. CASE SectionDone(w)
    BY <2>14, <2>a, <2>b, <2>c DEF SectionDone
  <2>15. CASE WorkersContinue(w)
    BY <2>15, <2>a, <2>b, <2>c DEF WorkersContinue
  <2>16. CASE ReadDone(w)
    BY <2>16, <2>a, <2>b, <2>c DEF ReadDone
  <2>17. CASE DoneDown(w)
    BY <2>17, <2>a, <2>b, <2>c DEF DoneDown
  <2>18. CASE BeforeDown(w)
    BY <2>18, <2>a, <2>b, <2>c DEF BeforeDown
  <2>19. CASE TakeRef(w)
    BY <2>19, <2>a, <2>b, <2>c DEF TakeRef
  <2>20. CASE PostRpc(w)
    BY <2>20, <2>a, <2>b, <2>c DEF PostRpc
  <2>21. CASE WorkersSync(w)
    BY <2>21, <2>a, <2>b, <2>c DEF WorkersSync
  <2>30. CASE ReadSecond(w)
    <3>1. wpc[w] \in {"syncSpinAt", "syncSpinBefore"}
      BY <2>30 DEF ReadSecond
    <3>2. CASE wpc' = [wpc EXCEPT ![w] = "syncSpin"]
      BY <2>a, <2>b, <2>c, <3>1, <3>2
    <3>3. CASE wpc' = [wpc EXCEPT ![w] = "section"]
      <4>1. workersAtBarrier + workersBefore >= N
        <5>1. /\ workersAtBarrier \in Nat /\ workersBefore \in Nat
              /\ seen[w] \in Nat
          BY <2>c, InFinite DEF IInv, Counters
        <5>2. wpc'[w] = "section"
          BY <2>c, <3>3
        <5>3. /\ wpc[w] = "syncSpinAt" => seen[w] + workersAtBarrier >= N
              /\ wpc[w] = "syncSpinBefore" => seen[w] + workersBefore >= N
          BY <2>30, <2>c, <5>2 DEF ReadSecond
        <5>4. /\ wpc[w] = "syncSpinAt" => seen[w] <= workersBefore
              /\ wpc[w] = "syncSpinBefore" => seen[w] <= workersAtBarrier
          BY DEF SectionInv, FirstReads
        <5> QED
          BY <3>1, <5>1, <5>3, <5>4, NType
      <4>2. \A v \in Workers : wpc[v] \in AtStates \cup BeforeStates
        BY <4>1, AllGathered DEF IInv
      <4>3. \A v \in Workers : wpc[v] \notin OutStates
        BY <2>c, <3>1 DEF Dispersed, DoneStates
      <4> QED
        BY <2>c, <3>1, <3>3, <4>2, <4>3
    <3> QED
      BY <2>30, <3>2, <3>3 DEF ReadSecond
  <2>31. CASE AllDone(w)
    <3>1. wpc[w] \in {"continueSpinDone", "continueSpinBefore"}
      BY <2>31 DEF AllDone
    <3>2. CASE Dispersed
      BY <2>a, <2>b, <2>c, <3>1, <3>2
    <3>3. CASE ~Dispersed /\ wpc' = [wpc EXCEPT ![w] = "continueSpin"]
      BY <2>c, <3>1, <3>3
    <3>4. CASE ~Dispersed /\ wpc' = [wpc EXCEPT ![w] = "doneDown"]
      <4>1. doneBefore >= workersBefore
        <5>1. /\ doneBefore \in Nat /\ workersBefore \in Nat
              /\ seen[w] \in Nat
          BY <2>c, InFinite DEF IInv, Counters
        <5>2. wpc'[w] = "doneDown"
          BY <2>c, <3>4
        <5>3. /\ wpc[w] = "continueSpinDone" => doneBefore >= seen[w]
              /\ wpc[w] = "continueSpinBefore" => seen[w] >= workersBefore
          BY <2>31, <2>c, <5>2 DEF AllDone
        <5>4. /\ wpc[w] = "continueSpinDone" => workersBefore <= seen[w]
              /\ wpc[w] = "continueSpinBefore" => seen[w] <= doneBefore
          BY <3>4 DEF SectionInv, FirstReads
        <5> QED
          BY <3>1, <5>1, <5>3, <5>4
      <4>2. \A v \in Workers : wpc[v] \in BeforeStates => wpc[v] \in DoneStates
        BY <4>1, AllAreDone DEF IInv
      <4>3. \A v \in Workers : wpc[v] \in AtStates \cup BeforeStates
        BY <2>c, <3>1, <3>4
      <4> QED
        BY <2>c, <3>4, <4>2, <4>3 DEF Dispersed
    <3> QED
      BY <2>31, <3>2, <3>3, <3>4 DEF AllDone
  <2> QED
    BY <1>1, <2>0, <2>1, <2>2, <2>3, <2>4, <2>5, <2>6, <2>7, <2>8, <2>9,
       <2>10, <2>11, <2>12, <2>13, <2>14, <2>15, <2>16, <2>17, <2>18,
       <2>19, <2>20, <2>21, <2>30, <2>31
       DEF WorkerStep, WorkerChoice
<1>2. CASE InitialSync
  BY <1>0, <1>2 DEF InitialSync, Dispersed
<1>3. CASE InitialRelease
  BY <1>0, <1>3 DEF InitialRelease, Dispersed
<1>4. CASE SyncDone
  BY <1>0, <1>4 DEF SyncDone, Dispersed
<1>5. CASE HandleRpcs
  BY <1>0, <1>5 DEF HandleRpcs, Dispersed
<1>6. CASE RunRpc
  BY <1>0, <1>6 DEF RunRpc, Dispersed
<1>7. CASE BarrierRelease
  BY <1>0, <1>7 DEF BarrierRelease, Dispersed
<1>8. CASE OpenBarrier
  BY <1>0, <1>8 DEF OpenBarrier, Dispersed
<1>9. CASE Drained
  BY <1>0, <1>9 DEF Drained, Dispersed
<1>10. CASE Reforked
  BY <1>0, <1>10 DEF Reforked, Dispersed
<1>11. CASE LoopsDone
  BY <1>0, <1>11 DEF LoopsDone, Dispersed
<1>12. CASE FreeOld
  BY <1>0, <1>12 DEF FreeOld, Dispersed
<1>13. CASE BarrierSync
  BY <1>0, <1>13 DEF BarrierSync, Dispersed
<1>14. CASE NodeRuntimeUpdate
  BY <1>0, <1>14 DEF NodeRuntimeUpdate, Dispersed
<1>15. CASE PublishAndWait
  BY <1>0, <1>15 DEF PublishAndWait, Dispersed
<1>16. CASE SpinTimeOut
  BY <1>0, <1>16 DEF SpinTimeOut, Dispersed
<1> QED
  BY <1>1, <1>2, <1>3, <1>4, <1>5, <1>6, <1>7, <1>8, <1>9, <1>10, <1>11,
     <1>12, <1>13, <1>14, <1>15, <1>16
     DEF Next, MainStep, MainChoice

\* Nobody who was counted leaves before the sum is complete.
LEMMA FirstReadsStep ==
  ASSUME SyncsOnce', IInv, SectionInv, Next
  PROVE  FirstReads'
<1>0. /\ Types /\ Parking /\ OneSync /\ Phases /\ FirstReads /\ mpc # "panic"
      /\ workersAtBarrier \in Nat /\ workersBefore \in Nat /\ doneBefore \in Nat
  BY InFinite DEF IInv, SectionInv, Next, Counters
<1> USE DEF FirstReads, Types, Goto, barrierVars, mainVars, workerVars,
   syncVars, rpcVars, graceVars
<1>1. ASSUME NEW w \in Workers, WorkerStep(w) \/ WorkerChoice(w)
      PROVE  FirstReads'
  <2>a. waitAtBarrier /\ Dispersed => Dispersed'
    BY <1>0, <1>1, DispersedStep
  <2>b. \A v \in Workers : wpc[v] \in BeforeStates => waitAtBarrier
    BY <1>0 DEF OneSync
  <2>c. waitAtBarrier => \A v \in Workers : wpc[v] # "leaving"
    BY <1>0 DEF Parking
  <2>d. (\E v \in Workers : wpc[v] \in PastStates) => Gathered \/ Dispersed
    BY <1>0 DEF Phases
  <2>e. FirstReads /\ Types /\ workersAtBarrier \in Nat
        /\ workersBefore \in Nat /\ doneBefore \in Nat
    BY <1>0
  <2>0. ~LaunchArrive(w) /\ ~LaunchSeeRelease(w) /\ ~LaunchLeave(w)
    BY <1>0 DEF LaunchArrive, LaunchSeeRelease, LaunchLeave, Parking,
       LaunchStates
  <2> USE DEF BeforeStates
  <2>1. CASE SendPendingRpcs(w)
    BY <2>1, <2>a, <2>b, <2>e DEF SendPendingRpcs
  <2>2. CASE BarrierCheck(w)
    BY <2>2, <2>a, <2>b, <2>e DEF BarrierCheck
  <2>3. CASE CountIn(w)
    BY <2>3, <2>a, <2>b, <2>e DEF CountIn
  <2>4. CASE SeeRelease(w)
    BY <2>4, <2>a, <2>b, <2>e DEF SeeRelease
  <2>5. CASE ReforkCheck(w)
    BY <2>5, <2>a, <2>b, <2>e DEF ReforkCheck
  <2>6. CASE Refork(w)
    BY <2>6, <2>a, <2>b, <2>e DEF Refork
  <2>7. CASE ReforkDone(w)
    BY <2>7, <2>a, <2>b, <2>e DEF ReforkDone
  <2>8. CASE EndLoop(w)
    BY <2>8, <2>a, <2>b, <2>e DEF EndLoop
  <2>9. CASE AskForBarrier(w)
    BY <2>9, <2>a, <2>b, <2>e DEF AskForBarrier
  <2>10. CASE SeeBarrier(w)
    BY <2>10, <2>a, <2>b, <2>e DEF SeeBarrier
  <2>11. CASE ReadSecond(w)
    BY <2>11, <2>a, <2>b, <2>e DEF ReadSecond
  <2>12. CASE SectionDone(w)
    BY <2>12, <2>a, <2>b, <2>e DEF SectionDone
  <2>13. CASE WorkersContinue(w)
    BY <2>13, <2>a, <2>b, <2>e DEF WorkersContinue
  <2>14. CASE AllDone(w)
    BY <2>14, <2>a, <2>b, <2>e DEF AllDone
  <2>15. CASE TakeRef(w)
    BY <2>15, <2>a, <2>b, <2>e DEF TakeRef
  <2>16. CASE PostRpc(w)
    BY <2>16, <2>a, <2>b, <2>e DEF PostRpc
  <2>17. CASE WorkersSync(w)
    BY <2>17, <2>a, <2>b, <2>e DEF WorkersSync
  <2>30. CASE CountOut(w)
    BY <2>30, <2>a, <2>b, <2>c, <2>e DEF CountOut
  <2>31. CASE CountBefore(w)
    <3>1. ~(\E v \in Workers : wpc[v] \in PastStates) \/ Dispersed
      BY <2>31, <2>d DEF CountBefore, Gathered, AtStates
    <3> QED
      BY <2>31, <2>a, <2>b, <2>e, <3>1 DEF CountBefore, PastStates, SpinStates
  <2>32. CASE ReadFirst(w)
    BY <2>32, <2>a, <2>b, <2>e DEF ReadFirst
  <2>33. CASE ReadDone(w)
    BY <2>33, <2>a, <2>b, <2>e DEF ReadDone
  <2>34. CASE DoneDown(w)
    <3>1. Dispersed
      BY <2>34, <2>d DEF DoneDown, Gathered, OutStates, PastStates, SpinStates
    <3> QED
      BY <2>34, <2>a, <2>b, <2>e, <3>1 DEF DoneDown
  <2>35. CASE BeforeDown(w)
    <3>1. Dispersed
      BY <2>35, <2>d DEF BeforeDown, Gathered, OutStates, PastStates,
         SpinStates
    <3>2. \A v \in Workers : wpc[v] \notin SpinStates
      BY <3>1 DEF Dispersed, SpinStates, AtStates, DoneStates, OutStates
    <3> QED
      BY <2>35, <2>a, <2>b, <2>e, <3>1, <3>2 DEF BeforeDown, SpinStates
  <2> QED
    BY <1>1, <2>0, <2>1, <2>2, <2>3, <2>4, <2>5, <2>6, <2>7, <2>8, <2>9,
       <2>10, <2>11, <2>12, <2>13, <2>14, <2>15, <2>16, <2>17, <2>30,
       <2>31, <2>32, <2>33, <2>34, <2>35
       DEF WorkerStep, WorkerChoice
<1>2. CASE InitialSync
  BY <1>0, <1>2 DEF InitialSync, Dispersed
<1>3. CASE InitialRelease
  BY <1>0, <1>3 DEF InitialRelease, Dispersed
<1>4. CASE SyncDone
  BY <1>0, <1>4 DEF SyncDone, Dispersed
<1>5. CASE HandleRpcs
  BY <1>0, <1>5 DEF HandleRpcs, Dispersed
<1>6. CASE RunRpc
  BY <1>0, <1>6 DEF RunRpc, Dispersed
<1>7. CASE BarrierRelease
  BY <1>0, <1>7 DEF BarrierRelease, Dispersed
<1>8. CASE OpenBarrier
  BY <1>0, <1>8 DEF OpenBarrier, Dispersed
<1>9. CASE Drained
  BY <1>0, <1>9 DEF Drained, Dispersed
<1>10. CASE Reforked
  BY <1>0, <1>10 DEF Reforked, Dispersed
<1>11. CASE LoopsDone
  BY <1>0, <1>11 DEF LoopsDone, Dispersed
<1>12. CASE FreeOld
  BY <1>0, <1>12 DEF FreeOld, Dispersed
<1>13. CASE BarrierSync
  BY <1>0, <1>13 DEF BarrierSync, Dispersed
<1>14. CASE NodeRuntimeUpdate
  BY <1>0, <1>14 DEF NodeRuntimeUpdate, Dispersed
<1>15. CASE PublishAndWait
  BY <1>0, <1>15 DEF PublishAndWait, Dispersed
<1>16. CASE SpinTimeOut
  BY <1>0, <1>16 DEF SpinTimeOut, Dispersed
<1> QED
  BY <1>1, <1>2, <1>3, <1>4, <1>5, <1>6, <1>7, <1>8, <1>9, <1>10, <1>11,
     <1>12, <1>13, <1>14, <1>15, <1>16
     DEF Next, MainStep, MainChoice

\* The phases are invariant while no pass of a loop has a second sync.
THEOREM SectionInvariance == Spec /\ []SyncsOnce => []SectionInv
<1>1. Init => SectionInv
  BY DEF Init, InitCommon, SectionInv, OneSync, Phases, FirstReads, PastStates,
     SyncStates, BeforeStates
<1>2. IInv /\ SectionInv /\ SyncsOnce' /\ [Next]_vars => SectionInv'
  <2> SUFFICES ASSUME IInv, SectionInv, SyncsOnce', [Next]_vars PROVE SectionInv'
    OBVIOUS
  <2>1. CASE Next
    BY <2>1, OneSyncStep, PhasesStep, FirstReadsStep DEF SectionInv
  <2>2. CASE UNCHANGED vars
    BY <2>2 DEF vars, barrierVars, mainVars, workerVars, syncVars, SectionInv,
       OneSync, Phases, FirstReads, Gathered, Dispersed
  <2> QED
    BY <2>1, <2>2
<1> QED
  BY <1>1, <1>2, Invariance, PTL DEF Spec

\* While a worker is between vlib_workers_sync and vlib_workers_continue no
\* worker executes nodes: the others are at the barrier or before it, some
\* perhaps in sections of their own.  This holds for any number of workers in
\* every execution in which no worker calls vlib_workers_sync a second time in
\* one pass of its loop.  Nothing around its call (session.h:840) guarantees
\* that, and without it the exclusion fails (Barrier_sync_twice).
THEOREM SectionsExclude == Spec /\ []SyncsOnce => []SectionExclusive
<1>1. SectionInv => SectionExclusive
  BY DEF SectionInv, Phases, Gathered, Dispersed, SectionExclusive, PastStates,
     SpinStates, AtStates, BeforeStates, DoneStates, OutStates
<1> QED
  BY <1>1, SectionInvariance, PTL

\* The counter is exact from the first thread's start on.
BootCounts ==
  /\ wpc \in [Workers -> WorkerStates]
  /\ workersAtBarrier \in Int
  /\ workersAtBarrier = Cardinality(In(AtStates))

\* workers_at_barrier is exact also through the start-up, where the initial
\* barrier is left without waiting for anybody.
THEOREM BootCounterExact == BootSpec => []AtBarrierCounts
<1>1. BootInit => BootCounts
  BY InNone DEF BootInit, InitCommon, BootCounts, AtStates, WorkerStates,
     LaunchStates
<1>2. BootCounts /\ [Next]_vars => BootCounts'
  <2> SUFFICES ASSUME BootCounts, [Next]_vars PROVE BootCounts'
    OBVIOUS
  <2>0. wpc \in [Workers -> WorkerStates] /\ workersAtBarrier \in Int
        /\ Cardinality(In(AtStates)) \in Nat
    BY InFinite DEF BootCounts
  <2>a. ASSUME wpc' = wpc, workersAtBarrier' = workersAtBarrier
        PROVE  BootCounts'
    BY <2>a DEF BootCounts, In
  <2>b. ASSUME NEW w \in Workers, NEW s \in WorkerStates, Goto(w, s),
               workersAtBarrier' = workersAtBarrier
                 + (IF s \in AtStates THEN 1 ELSE 0)
                 - (IF wpc[w] \in AtStates THEN 1 ELSE 0)
        PROVE  BootCounts'
    <3>1. Cardinality(In(AtStates)') = Cardinality(In(AtStates))
                + (IF s \in AtStates THEN 1 ELSE 0)
                - (IF wpc[w] \in AtStates THEN 1 ELSE 0)
      BY <2>0, <2>b, InMove
    <3> QED
      BY <2>0, <2>b, <3>1 DEF BootCounts, Goto
  <2> USE DEF AtStates, WorkerStates, LaunchStates, CheckStates, SyncStates,
     barrierVars, mainVars, workerVars, syncVars, rpcVars, graceVars
  <2>1. ASSUME NEW w \in Workers, WorkerStep(w) \/ WorkerChoice(w)
        PROVE  BootCounts'
    <3>1. CASE LaunchArrive(w)
      BY <2>0, <3>1, <2>a, <2>b DEF LaunchArrive
    <3>2. CASE LaunchSeeRelease(w)
      BY <2>0, <3>2, <2>a, <2>b DEF LaunchSeeRelease
    <3>3. CASE LaunchLeave(w)
      BY <2>0, <3>3, <2>a, <2>b DEF LaunchLeave
    <3>4. CASE SendPendingRpcs(w)
      BY <2>0, <3>4, <2>a, <2>b DEF SendPendingRpcs
    <3>5. CASE BarrierCheck(w)
      BY <2>0, <3>5, <2>a, <2>b DEF BarrierCheck
    <3>6. CASE CountIn(w)
      BY <2>0, <3>6, <2>a, <2>b DEF CountIn
    <3>7. CASE SeeRelease(w)
      BY <2>0, <3>7, <2>a, <2>b DEF SeeRelease
    <3>8. CASE CountOut(w)
      BY <2>0, <3>8, <2>a, <2>b DEF CountOut
    <3>9. CASE ReforkCheck(w)
      BY <2>0, <3>9, <2>a, <2>b DEF ReforkCheck
    <3>10. CASE Refork(w)
      BY <2>0, <3>10, <2>a, <2>b DEF Refork
    <3>11. CASE ReforkDone(w)
      BY <2>0, <3>11, <2>a, <2>b DEF ReforkDone
    <3>12. CASE EndLoop(w)
      BY <2>0, <3>12, <2>a, <2>b DEF EndLoop
    <3>13. CASE AskForBarrier(w)
      BY <2>0, <3>13, <2>a, <2>b DEF AskForBarrier
    <3>14. CASE SeeBarrier(w)
      BY <2>0, <3>14, <2>a, <2>b DEF SeeBarrier
    <3>15. CASE CountBefore(w)
      BY <2>0, <3>15, <2>a, <2>b DEF CountBefore
    <3>16. CASE ReadFirst(w)
      BY <2>0, <3>16, <2>a, <2>b DEF ReadFirst
    <3>17. CASE ReadSecond(w)
      BY <2>0, <3>17, <2>a, <2>b DEF ReadSecond
    <3>18. CASE SectionDone(w)
      BY <2>0, <3>18, <2>a, <2>b DEF SectionDone
    <3>19. CASE WorkersContinue(w)
      BY <2>0, <3>19, <2>a, <2>b DEF WorkersContinue
    <3>20. CASE ReadDone(w)
      BY <2>0, <3>20, <2>a, <2>b DEF ReadDone
    <3>21. CASE AllDone(w)
      BY <2>0, <3>21, <2>a, <2>b DEF AllDone
    <3>22. CASE DoneDown(w)
      BY <2>0, <3>22, <2>a, <2>b DEF DoneDown
    <3>23. CASE BeforeDown(w)
      BY <2>0, <3>23, <2>a, <2>b DEF BeforeDown
    <3>24. CASE TakeRef(w)
      BY <2>0, <3>24, <2>a, <2>b DEF TakeRef
    <3>25. CASE PostRpc(w)
      BY <2>0, <3>25, <2>a, <2>b DEF PostRpc
    <3>26. CASE WorkersSync(w)
      BY <2>0, <3>26, <2>a, <2>b DEF WorkersSync
    <3> QED
      BY <2>1, <3>1, <3>2, <3>3, <3>4, <3>5, <3>6, <3>7, <3>8, <3>9, <3>10,
         <3>11, <3>12, <3>13, <3>14, <3>15, <3>16, <3>17, <3>18, <3>19,
         <3>20, <3>21, <3>22, <3>23, <3>24, <3>25, <3>26
         DEF WorkerStep, WorkerChoice
  <2>2. CASE InitialSync
    BY <2>2, <2>a DEF InitialSync
  <2>3. CASE InitialRelease
    BY <2>3, <2>a DEF InitialRelease
  <2>4. CASE SyncDone
    BY <2>4, <2>a DEF SyncDone
  <2>5. CASE HandleRpcs
    BY <2>5, <2>a DEF HandleRpcs
  <2>6. CASE RunRpc
    BY <2>6, <2>a DEF RunRpc
  <2>7. CASE BarrierRelease
    BY <2>7, <2>a DEF BarrierRelease
  <2>8. CASE OpenBarrier
    BY <2>8, <2>a DEF OpenBarrier
  <2>9. CASE Drained
    BY <2>9, <2>a DEF Drained
  <2>10. CASE Reforked
    BY <2>10, <2>a DEF Reforked
  <2>11. CASE LoopsDone
    BY <2>11, <2>a DEF LoopsDone
  <2>12. CASE FreeOld
    BY <2>12, <2>a DEF FreeOld
  <2>13. CASE BarrierSync
    BY <2>13, <2>a DEF BarrierSync
  <2>14. CASE NodeRuntimeUpdate
    BY <2>14, <2>a DEF NodeRuntimeUpdate
  <2>15. CASE PublishAndWait
    BY <2>15, <2>a DEF PublishAndWait
  <2>16. CASE SpinTimeOut
    BY <2>16, <2>a DEF SpinTimeOut
  <2>30. CASE UNCHANGED vars
    BY <2>a, <2>30 DEF vars
  <2> QED
    BY <2>1, <2>2, <2>3, <2>4, <2>5, <2>6, <2>7, <2>8, <2>9, <2>10, <2>11,
       <2>12, <2>13, <2>14, <2>15, <2>16, <2>30
       DEF Next, MainStep, MainChoice
<1>3. BootCounts => AtBarrierCounts
  BY DEF BootCounts, AtBarrierCounts, In, AtStates
<1> QED
  BY <1>1, <1>2, <1>3, PTL DEF BootSpec
=============================================================================
