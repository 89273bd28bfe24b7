------------------------ MODULE EngineLifecycle_proofs ------------------------
(***************************************************************************)
(* Proofs about the threads of the process, for every set of playlists,    *)
(* every number of thread slots and every number of requests.              *)
(*                                                                         *)
(* The inductive invariant adds to the types where the main thread holds a *)
(* lock (MainHolds), that every living scheduler thread is the current one *)
(* or, when there is none, the one that drains (Lone), and that the        *)
(* shutdown joins whatever still lives (Joined), and that a thread that is *)
(* about to write has a playlist to write (Targeted).  The safety          *)
(* properties of the runs are part of it or follow from it.                *)
(***************************************************************************)
EXTENDS EngineLifecycle, FiniteSetTheorems, TLAPS

MainHolds ==
  /\ main.at \in {"editing", "deleting"} <=> lock = Main
  /\ main.at \in {"delete", "deleting"} <=> gate = Main

Lone ==
  /\ \A j, k \in Alive : j = k
  /\ IF scheduler = None THEN Alive \subseteq draining ELSE Alive \subseteq {scheduler}

Joined ==
  main.at \in {"join", "exited"} => stopping /\ Alive \subseteq main.joining

Targeted ==
  \A k \in Workers : worker[k].at \in {"guard", "check", "write"} =>
    worker[k].playlist \in Playlists

IInv ==
  /\ TypeOK /\ MainHolds /\ Lone /\ Joined /\ Targeted
  /\ WritesMatchConfiguration /\ DeletionExcludesCycle /\ ShutdownTruthful

(* What sections of the controller and steps of a scheduler thread do to   *)
(* the threads.                                                            *)
Spared(k) ==
  UNCHANGED <<worker[k].at, worker[k].plan, worker[k].withSource, worker[k].playlist>>

Started(k) == worker[k].at = "ended" /\ worker'[k].at = "loop"

LEMMA EndedType == Ended \in WorkerType
BY DEF Ended, WorkerType, Revisions

-------------------------------------------------------------------------------
(* RequestStop marks a thread and changes none of its progress.            *)
LEMMA StopEffect ==
  ASSUME TypeOK, Lone, RequestStop
  PROVE  /\ worker' \in [Workers -> WorkerType]
         /\ scheduler' = None /\ draining' \subseteq Workers
         /\ {waiter', configured'} \subseteq BOOLEAN
         /\ \A k \in Workers : Spared(k)
         /\ Alive' = Alive /\ Alive \subseteq draining'
<1> USE DEF TypeOK, RequestStop, Draining
<1>1. worker' \in [Workers -> WorkerType]
  <2>1. CASE scheduler = None
    BY <2>1
  <2>2. CASE scheduler # None
    <3>1. worker[scheduler] \in WorkerType
      BY <2>2
    <3>2. Stopped(scheduler) \in WorkerType
      BY <3>1 DEF Stopped, WorkerType
    <3>3. QED
      BY <2>2, <3>2
  <2>3. QED
    BY <2>1, <2>2
<1>2. \A k \in Workers : Spared(k)
  <2>1. SUFFICES ASSUME NEW k \in Workers, k = scheduler, scheduler # None PROVE Spared(k)
    BY DEF Spared
  <2>2. worker[k] \in WorkerType /\ worker'[k] = Stopped(k)
    BY <2>1
  <2>3. QED
    BY <2>2 DEF Spared, Stopped, WorkerType
<1>3. Alive' = Alive
  BY <1>2 DEF Alive, Spared
<1>4. draining' \subseteq Workers /\ Alive \subseteq draining'
  BY LifecycleAssumption DEF Lone, Alive
<1>5. QED
  BY <1>1, <1>2, <1>3, <1>4

(* A scheduler is only started where no thread lives. *)
LEMMA StartEffect ==
  ASSUME TypeOK, Alive = {}, NEW k \in Workers, worker' = Starting(k)
  PROVE  /\ worker' \in [Workers -> WorkerType]
         /\ \A j \in Workers : Spared(j) \/ Started(j)
         /\ Alive' = {k}
<1>1. [Ended EXCEPT !.at = "loop"] \in WorkerType
  BY EndedType DEF WorkerType
<1>2. worker' \in [Workers -> WorkerType] /\ worker'[k].at = "loop"
  BY <1>1, EndedType DEF TypeOK, Starting, WorkerType
<1>3. \A j \in Workers \ {k} : worker'[j] = worker[j]
  BY DEF TypeOK, Starting
<1>4. QED
  BY <1>2, <1>3 DEF Alive, Spared, Started

LEMMA WakeEffect ==
  ASSUME TypeOK, NEW k \in Workers, worker' = Waking(k)
  PROVE  /\ worker' \in [Workers -> WorkerType]
         /\ \A j \in Workers : Spared(j)
         /\ Alive' = Alive
<1>1. worker[k] \in WorkerType
  BY DEF TypeOK
<1>2. [worker[k] EXCEPT !.wake = TRUE] \in WorkerType
  BY <1>1 DEF WorkerType
<1>3. worker' = [worker EXCEPT ![k] = [worker[k] EXCEPT !.wake = TRUE]]
  BY DEF TypeOK, Waking
<1>4. worker' \in [Workers -> WorkerType]
  BY <1>2, <1>3 DEF TypeOK
<1>5. \A j \in Workers : Spared(j)
  BY <1>1, <1>3 DEF TypeOK, Spared, WorkerType
<1>6. QED
  BY <1>4, <1>5 DEF Alive, Spared

(* Reconciling with the configuration starts a thread only if none lives,  *)
(* and none at all while the process stops.                                *)
LEMMA ReconcileEffect ==
  ASSUME TypeOK, Lone, NEW wanted, Reconcile(wanted)
  PROVE  /\ worker' \in [Workers -> WorkerType]
         /\ scheduler' \in Workers \cup {None} /\ draining' \subseteq Workers
         /\ {waiter', configured'} \subseteq BOOLEAN
         /\ \A j \in Workers : Spared(j) \/ Started(j)
         /\ Lone'
<1>1. CASE RequestStop
  BY <1>1, StopEffect DEF Lone
<1>2. CASE KeepRunning
  <2> USE <1>2 DEF TypeOK, KeepRunning, Draining, Alive
  <2>1. {waiter', configured'} \subseteq BOOLEAN /\ draining' \subseteq Workers
    OBVIOUS
  <2>2. CASE scheduler # None /\ worker' = Waking(scheduler) /\ UNCHANGED scheduler
    BY <2>1, <2>2, WakeEffect DEF Lone
  <2>3. CASE scheduler = None /\ draining' = Draining /\ UNCHANGED <<scheduler, worker>>
    BY <2>1, <2>3 DEF Lone, Spared
  <2>4. CASE scheduler = None /\ Draining = {}
             /\ \E k \in Workers \ Alive : scheduler' = k /\ worker' = Starting(k)
    <3>1. Alive = {}
      BY <2>4 DEF Lone
    <3>2. PICK k \in Workers : scheduler' = k /\ worker' = Starting(k)
      BY <2>4
    <3>3. QED
      BY <2>1, <3>1, <3>2, StartEffect, LifecycleAssumption DEF Lone
  <2>5. QED
    BY <2>2, <2>3, <2>4
<1>3. QED
  BY <1>1, <1>2 DEF Reconcile

(* Sections of the controller touch no thread that holds a lock. *)
LEMMA ControllerKeeps ==
  ASSUME TypeOK, Targeted, WritesMatchConfiguration, DeletionExcludesCycle,
         \A j \in Workers : Spared(j) \/ Started(j),
         UNCHANGED <<config, sourceGone, gate, lock>>
  PROVE  /\ (\A k \in Workers : worker[k].at \in {"check", "write"} <=> lock = k)'
         /\ (\A k \in Workers : k \in InCycle <=> gate = k)'
         /\ Targeted' /\ WritesMatchConfiguration' /\ DeletionExcludesCycle'
<1>1. ASSUME NEW k \in Workers
      PROVE  /\ worker'[k].at \in {"check", "write"} <=> worker[k].at \in {"check", "write"}
             /\ k \in InCycle' <=> k \in InCycle
  BY DEF Spared, Started, InCycle
<1>2. (\A k \in Workers : worker[k].at \in {"check", "write"} <=> lock = k)'
  BY <1>1 DEF TypeOK
<1>3. (\A k \in Workers : k \in InCycle <=> gate = k)'
  BY <1>1 DEF TypeOK
<1>4. WritesMatchConfiguration'
  BY DEF WritesMatchConfiguration, WorkerAt, Spared, Started
<1>5. DeletionExcludesCycle'
  BY DEF DeletionExcludesCycle, WorkerAt, Spared, Started, InCycle
<1>6. Targeted'
  BY DEF Targeted, Spared, Started
<1>7. QED
  BY <1>2, <1>3, <1>4, <1>5, <1>6

-------------------------------------------------------------------------------
(* The steps of a scheduler thread. *)
OwnStep(k) ==
  WorkerStep(k) \/ IntervalElapses(k) \/ \E p \in Playlists : WantWrite(k, p)

LEMMA PlanTypes ==
  ASSUME TypeOK, NEW k \in Workers
  PROVE  /\ Loaded(k) \in WorkerType /\ Loaded(k).at = "work"
         /\ Loaded(k).withSource = ~sourceGone
         /\ Awake(k) \in WorkerType /\ Awake(k).at = "loop"
         /\ \A p \in Playlists :
              /\ Aimed(k, p) \in WorkerType
              /\ Aimed(k, p).at = "guard" /\ Aimed(k, p).playlist = p
              /\ Aimed(k, p).withSource = worker[k].withSource
         /\ Handled(k).at = "work" /\ Handled(k).withSource = worker[k].withSource
         /\ worker[k].playlist \in Playlists => Handled(k) \in WorkerType
<1>1. worker[k] \in WorkerType
  BY DEF TypeOK
<1>2. QED
  BY <1>1 DEF Loaded, Handled, Awake, Aimed, TypeOK, WorkerType

LEMMA WorkerEffect ==
  ASSUME TypeOK, Targeted, NEW k \in Workers, OwnStep(k)
  PROVE  /\ worker[k].at # "ended"
         /\ worker'[k] \in WorkerType
         /\ worker' = [worker EXCEPT ![k] = worker'[k]]
         /\ UNCHANGED <<config, sourceGone, main, control, stopping, edits>>
         /\ gate' \in Workers \cup {Main, None} /\ lock' \in Workers \cup {Main, None}
         /\ due' \in BOOLEAN
<1> USE DEF TypeOK, WorkerAt, Move, control
<1>1. worker[k] \in WorkerType
  OBVIOUS
<1>2. CASE Loop(k) \/ AfterCycle(k)
  <2>1. PICK next \in {"gate", "wait"} :
          worker' = [worker EXCEPT ![k] = IF StopRequested(k) THEN Ended
                                          ELSE [worker[k] EXCEPT !.at = next]]
    BY <1>2 DEF Loop, AfterCycle
  <2>2. [worker[k] EXCEPT !.at = next] \in WorkerType
    BY <1>1 DEF WorkerType
  <2>3. worker'[k] \in WorkerType /\ worker' = [worker EXCEPT ![k] = worker'[k]]
    BY <2>1, <2>2, EndedType
  <2>4. QED
    BY <1>2, <2>3 DEF Loop, AfterCycle
<1>3. CASE EnterCycle(k) \/ TakeLock(k) \/ BeginWrite(k) \/ StopWaiting(k)
           \/ IntervalElapses(k) \/ LoadFails(k)
  <2>1. PICK next \in {"load", "check", "write", "loop", "woken", "after"} : Move(k, next)
    BY <1>3 DEF EnterCycle, TakeLock, BeginWrite, StopWaiting, IntervalElapses, LoadFails
  <2>2. [worker[k] EXCEPT !.at = next] \in WorkerType
    BY <1>1 DEF WorkerType
  <2>3. worker' = [worker EXCEPT ![k] = [worker[k] EXCEPT !.at = next]]
    BY <2>1
  <2>4. worker'[k] \in WorkerType /\ worker' = [worker EXCEPT ![k] = worker'[k]]
    BY <2>2, <2>3
  <2>5. QED
    BY <1>3, <2>4
       DEF EnterCycle, TakeLock, BeginWrite, StopWaiting, IntervalElapses, LoadFails
<1>4. CASE Load(k) \/ ClearWake(k)
  BY <1>4, PlanTypes DEF Load, ClearWake
<1>5. CASE \E p \in Playlists : WantWrite(k, p)
  <2>1. PICK p \in Playlists : WantWrite(k, p)
    BY <1>5
  <2>2. QED
    BY <2>1, PlanTypes DEF WantWrite
<1>6. CASE RefuseWrite(k) \/ EndWrite(k)
  <2>1. Handled(k) \in WorkerType
    BY <1>6, PlanTypes DEF RefuseWrite, EndWrite, Targeted
  <2>2. QED
    BY <1>6, <2>1 DEF RefuseWrite, EndWrite, Leave
<1>7. CASE EndCycle(k)
  BY <1>1, <1>7, EndedType DEF EndCycle, Ended, WorkerType
<1>8. QED
  BY <1>2, <1>3, <1>4, <1>5, <1>6, <1>7 DEF OwnStep, WorkerStep

LEMMA OutsideCycle ==
  ASSUME TypeOK, NEW k \in Workers, Loop(k) \/ AfterCycle(k) \/ EndCycle(k)
  PROVE  worker'[k].at \in {"ended", "gate", "wait", "after"}
<1>1. worker[k] \in WorkerType
  BY DEF TypeOK
<1>2. CASE Loop(k) \/ AfterCycle(k)
  <2>1. PICK next \in {"gate", "wait"} :
          worker' = [worker EXCEPT ![k] = IF StopRequested(k) THEN Ended
                                          ELSE [worker[k] EXCEPT !.at = next]]
    BY <1>2 DEF Loop, AfterCycle
  <2>2. worker'[k] \in {Ended, [worker[k] EXCEPT !.at = next]}
    BY <2>1 DEF TypeOK
  <2>3. Ended.at = "ended" /\ [worker[k] EXCEPT !.at = next].at = next
    BY <1>1 DEF Ended, WorkerType
  <2>4. QED
    BY <2>2, <2>3
<1>3. CASE EndCycle(k)
  BY <1>3 DEF EndCycle, Ended, TypeOK
<1>4. QED
  BY <1>2, <1>3

(* A step of a scheduler thread keeps the invariant. *)
LEMMA WorkerKeeps ==
  ASSUME IInv, NEW k \in Workers, OwnStep(k)
  PROVE  IInv'
<1> USE DEF IInv
<1>1. /\ worker[k].at # "ended" /\ worker'[k] \in WorkerType
      /\ worker' = [worker EXCEPT ![k] = worker'[k]]
      /\ UNCHANGED <<config, sourceGone, main, control, stopping, edits>>
      /\ gate' \in Workers \cup {Main, None} /\ lock' \in Workers \cup {Main, None}
      /\ due' \in BOOLEAN
  BY WorkerEffect
<1>2. \A j \in Workers \ {k} : worker'[j] = worker[j]
  BY <1>1 DEF TypeOK
<1>3. Alive' \subseteq Alive
  BY <1>1, <1>2 DEF Alive
<1>4. Lone' /\ Joined' /\ ShutdownTruthful'
  BY <1>1, <1>3 DEF Lone, Joined, ShutdownTruthful, MainAt, control
<1>5. /\ worker'[k].at \in {"check", "write"} <=> lock' = k
      /\ k \in InCycle' <=> gate' = k
      /\ UNCHANGED lock \/ (lock = None /\ lock' = k) \/ (lock = k /\ lock' = None)
      /\ UNCHANGED gate \/ (gate = None /\ gate' = k) \/ (gate = k /\ gate' = None)
  <2> USE DEF TypeOK, InCycle, WorkerAt, Move
  <2>1. CASE Loop(k) \/ AfterCycle(k)
    BY <1>1, <2>1, LifecycleAssumption DEF Loop, AfterCycle, Ended, WorkerType
  <2>2. CASE EnterCycle(k)
    BY <1>1, <2>2, LifecycleAssumption DEF EnterCycle, WorkerType
  <2>3. CASE Load(k) \/ LoadFails(k)
    BY <1>1, <2>3, PlanTypes, LifecycleAssumption DEF Load, LoadFails, WorkerType
  <2>4. CASE TakeLock(k)
    BY <1>1, <2>4, LifecycleAssumption DEF TakeLock, WorkerType
  <2>5. CASE BeginWrite(k) \/ StopWaiting(k) \/ IntervalElapses(k)
    BY <1>1, <2>5, LifecycleAssumption
       DEF BeginWrite, StopWaiting, IntervalElapses, WorkerType
  <2>6. CASE RefuseWrite(k) \/ EndWrite(k)
    BY <1>1, <2>6, PlanTypes, LifecycleAssumption DEF RefuseWrite, EndWrite, Leave
  <2>7. CASE EndCycle(k)
    BY <1>1, <2>7, LifecycleAssumption DEF EndCycle, Ended, WorkerType
  <2>8. CASE ClearWake(k) \/ \E p \in Playlists : WantWrite(k, p)
    BY <1>1, <2>8, PlanTypes, LifecycleAssumption DEF ClearWake, WantWrite
  <2>9. QED
    BY <2>1, <2>2, <2>3, <2>4, <2>5, <2>6, <2>7, <2>8 DEF OwnStep, WorkerStep
<1>6. TypeOK'
  <2>1. worker' \in [Workers -> WorkerType]
    BY <1>1 DEF TypeOK
  <2>2. (\A j \in Workers : worker[j].at \in {"check", "write"} <=> lock = j)'
    BY <1>2, <1>5, LifecycleAssumption DEF TypeOK
  <2>3. (\A j \in Workers : j \in InCycle <=> gate = j)'
    BY <1>2, <1>5, LifecycleAssumption DEF TypeOK, InCycle
  <2>4. QED
    BY <1>1, <2>1, <2>2, <2>3 DEF TypeOK, control
<1>7. MainHolds'
  BY <1>1, <1>5, LifecycleAssumption DEF MainHolds
<1>8. Targeted' /\ WritesMatchConfiguration'
  <2>1. /\ worker'[k].at = "write" =>
             config'[worker'[k].playlist] = worker'[k].plan[worker'[k].playlist]
        /\ worker'[k].at \in {"guard", "check", "write"} => worker'[k].playlist \in Playlists
    <3> USE DEF TypeOK, WorkerAt, Move, Targeted
    <3>1. CASE BeginWrite(k)
      BY <1>1, <3>1 DEF BeginWrite, WorkerType
    <3>2. CASE Loop(k) \/ AfterCycle(k) \/ EndCycle(k)
      BY <3>2, OutsideCycle
    <3>3. CASE EnterCycle(k) \/ StopWaiting(k) \/ IntervalElapses(k)
      BY <1>1, <3>3 DEF EnterCycle, StopWaiting, IntervalElapses, WorkerType
    <3>4. CASE Load(k) \/ LoadFails(k)
      BY <1>1, <3>4, PlanTypes DEF Load, LoadFails, WorkerType
    <3>5. CASE RefuseWrite(k) \/ EndWrite(k)
      BY <1>1, <3>5, PlanTypes DEF RefuseWrite, EndWrite, Leave
    <3>6. CASE ClearWake(k) \/ \E p \in Playlists : WantWrite(k, p)
      BY <1>1, <3>6, PlanTypes DEF ClearWake, WantWrite
    <3>7. CASE TakeLock(k)
      BY <1>1, <3>7 DEF TakeLock, WorkerType
    <3>8. QED
      BY <3>1, <3>2, <3>3, <3>4, <3>5, <3>6, <3>7 DEF OwnStep, WorkerStep
  <2>2. QED
    BY <1>1, <1>2, <2>1 DEF Targeted, WritesMatchConfiguration, WorkerAt
<1>9. DeletionExcludesCycle'
  <2>1. worker'[k].at \in {"work", "guard", "check", "write"} =>
          worker'[k].withSource = ~sourceGone'
    <3> USE DEF TypeOK, WorkerAt, Move, DeletionExcludesCycle, InCycle
    <3>1. CASE Load(k) \/ LoadFails(k)
      BY <1>1, <3>1, PlanTypes DEF Load, LoadFails, WorkerType
    <3>2. CASE Loop(k) \/ AfterCycle(k) \/ EndCycle(k)
      BY <3>2, OutsideCycle
    <3>3. CASE EnterCycle(k) \/ StopWaiting(k) \/ IntervalElapses(k)
      BY <1>1, <3>3 DEF EnterCycle, StopWaiting, IntervalElapses, WorkerType
    <3>4. CASE TakeLock(k) \/ BeginWrite(k)
      BY <1>1, <3>4 DEF TakeLock, BeginWrite, WorkerType
    <3>5. CASE RefuseWrite(k) \/ EndWrite(k)
      BY <1>1, <3>5, PlanTypes DEF RefuseWrite, EndWrite, Leave
    <3>6. CASE ClearWake(k) \/ \E p \in Playlists : WantWrite(k, p)
      BY <1>1, <3>6, PlanTypes DEF ClearWake, WantWrite
    <3>7. QED
      BY <3>1, <3>2, <3>3, <3>4, <3>5, <3>6 DEF OwnStep, WorkerStep
  <2>2. QED
    BY <1>1, <1>2, <2>1 DEF DeletionExcludesCycle, InCycle, WorkerAt
<1>10. QED
  BY <1>4, <1>6, <1>7, <1>8, <1>9

-------------------------------------------------------------------------------
(* A section of the controller, together with what it does to the rest of  *)
(* the state, keeps the invariant: it starts no thread during shutdown.    *)
LEMMA ControllerInvariant ==
  ASSUME IInv,
         worker' \in [Workers -> WorkerType],
         scheduler' \in Workers \cup {None}, draining' \subseteq Workers,
         {waiter', configured', stopping', due'} \subseteq BOOLEAN,
         edits' \in 0..MaxEdits, main' \in MainType,
         \A j \in Workers : Spared(j) \/ Started(j),
         UNCHANGED <<config, sourceGone, gate, lock>>,
         MainHolds', Lone', Joined', ShutdownTruthful'
  PROVE  IInv'
<1>1. /\ (\A k \in Workers : worker[k].at \in {"check", "write"} <=> lock = k)'
      /\ (\A k \in Workers : k \in InCycle <=> gate = k)'
      /\ Targeted' /\ WritesMatchConfiguration' /\ DeletionExcludesCycle'
  BY ControllerKeeps DEF IInv
<1>2. TypeOK'
  BY <1>1 DEF TypeOK, IInv
<1>3. QED
  BY <1>1, <1>2 DEF IInv

LEMMA RestartKeeps ==
  ASSUME IInv, RestartAfterDrain
  PROVE  IInv'
<1> USE DEF RestartAfterDrain, Draining
<1>1. TypeOK /\ MainHolds /\ Lone /\ Joined /\ ShutdownTruthful
  BY DEF IInv
<1>2. UNCHANGED <<config, sourceGone, gate, lock, main, stopping, edits, due>>
  OBVIOUS
<1>3. MainHolds' /\ main' \in MainType /\ edits' \in 0..MaxEdits
  BY <1>1, <1>2 DEF MainHolds, TypeOK
<1>4. {waiter', configured', stopping', due'} \subseteq BOOLEAN /\ draining' \subseteq Workers
  BY <1>1 DEF TypeOK
<1>5. CASE ~stopping /\ configured /\ scheduler = None
  <2>1. Alive = {}
    BY <1>1, <1>5 DEF Lone
  <2>2. PICK k \in Workers : scheduler' = k /\ worker' = Starting(k)
    BY <1>5
  <2>3. /\ worker' \in [Workers -> WorkerType]
        /\ \A j \in Workers : Spared(j) \/ Started(j)
        /\ Alive' = {k}
    BY <1>1, <2>1, <2>2, StartEffect
  <2>4. Lone'
    BY <2>2, <2>3, LifecycleAssumption DEF Lone
  <2>5. main.at \notin {"join", "exited"}
    BY <1>1, <1>5 DEF Joined
  <2>6. Joined' /\ ShutdownTruthful'
    BY <1>2, <2>5 DEF Joined, ShutdownTruthful, MainAt
  <2>7. QED
    BY <1>2, <1>3, <1>4, <2>2, <2>3, <2>4, <2>6, ControllerInvariant
<1>6. CASE ~(~stopping /\ configured /\ scheduler = None)
  <2>1. UNCHANGED <<scheduler, worker>>
    BY <1>6
  <2>2. Lone' /\ Joined' /\ ShutdownTruthful'
    BY <1>1, <1>2, <2>1 DEF Lone, Joined, ShutdownTruthful, MainAt, Alive
  <2>3. \A j \in Workers : Spared(j)
    BY <2>1 DEF Spared
  <2>4. worker' \in [Workers -> WorkerType] /\ scheduler' \in Workers \cup {None}
    BY <1>1, <2>1 DEF TypeOK
  <2>5. QED
    BY <1>2, <1>3, <1>4, <2>2, <2>3, <2>4, ControllerInvariant
<1>7. QED
  BY <1>5, <1>6

LEMMA ReconcileKeeps ==
  ASSUME IInv, Boot \/ ReconcileAfter
  PROVE  IInv'
<1> USE DEF Boot, ReconcileAfter, MainAt, Proceed
<1>1. TypeOK /\ MainHolds /\ Lone
  BY DEF IInv
<1>2. PICK wanted : Reconcile(wanted)
  OBVIOUS
<1>3. /\ main' = [main EXCEPT !.at = "idle"] /\ main.at \in {"boot", "reconcile"}
      /\ UNCHANGED <<config, sourceGone, gate, lock, stopping, edits, due>>
  OBVIOUS
<1>4. main' \in MainType /\ main'.at = "idle"
  BY <1>1, <1>3 DEF TypeOK, MainType
<1>5. MainHolds' /\ Joined' /\ ShutdownTruthful'
  BY <1>1, <1>3, <1>4 DEF MainHolds, Joined, ShutdownTruthful
<1>6. {stopping', due'} \subseteq BOOLEAN /\ edits' \in 0..MaxEdits
  BY <1>1, <1>3 DEF TypeOK
<1>7. QED
  BY <1>1, <1>2, <1>3, <1>4, <1>5, <1>6, ReconcileEffect, ControllerInvariant

(* The shutdown joins every living thread. *)
LEMMA ShutdownKeeps ==
  ASSUME IInv, Shutdown
  PROVE  IInv'
<1> USE DEF Shutdown, MainAt
<1>1. TypeOK /\ MainHolds /\ Lone
  BY DEF IInv
<1>2. /\ worker' \in [Workers -> WorkerType]
      /\ scheduler' = None /\ draining' \subseteq Workers
      /\ {waiter', configured'} \subseteq BOOLEAN
      /\ \A k \in Workers : Spared(k)
      /\ Alive' = Alive /\ Alive \subseteq draining'
  BY <1>1, StopEffect
<1>3. main' \in MainType /\ main'.at = "join" /\ main'.joining = draining'
  BY <1>1, <1>2 DEF TypeOK, MainType
<1>4. MainHolds' /\ Lone' /\ Joined' /\ ShutdownTruthful'
  BY <1>1, <1>2, <1>3 DEF MainHolds, Lone, Joined, ShutdownTruthful
<1>5. {stopping', due'} \subseteq BOOLEAN /\ edits' \in 0..MaxEdits
  BY <1>1 DEF TypeOK
<1>6. QED
  BY <1>2, <1>3, <1>4, <1>5, ControllerInvariant

LEMMA ConnectKeeps ==
  ASSUME IInv, Connect
  PROVE  IInv'
<1> USE DEF Connect, MainAt, control
<1>1. TypeOK /\ MainHolds /\ Lone /\ Joined /\ ShutdownTruthful
  BY DEF IInv
<1>2. /\ worker' \in [Workers -> WorkerType]
      /\ \A j \in Workers : Spared(j)
      /\ Alive' = Alive
  BY <1>1, WakeEffect DEF TypeOK
<1>3. MainHolds' /\ Lone' /\ Joined' /\ ShutdownTruthful'
  BY <1>1, <1>2 DEF MainHolds, Lone, Joined, ShutdownTruthful
<1>4. /\ scheduler' \in Workers \cup {None} /\ draining' \subseteq Workers
      /\ {waiter', configured', stopping', due'} \subseteq BOOLEAN
      /\ edits' \in 0..MaxEdits /\ main' \in MainType
  BY <1>1, LifecycleAssumption DEF TypeOK
<1>5. QED
  BY <1>2, <1>3, <1>4, ControllerInvariant

(* Steps of the main thread that leave the threads alone. *)
LEMMA RequestKeeps ==
  ASSUME IInv,
         \/ RequestEdit \/ RequestDelete \/ BeginEdit \/ TryGate \/ BeginDelete
         \/ Exit \/ Signal \/ Over
  PROVE  IInv'
<1>1. TypeOK /\ MainHolds /\ Lone /\ Joined /\ ShutdownTruthful
      /\ Targeted /\ WritesMatchConfiguration /\ DeletionExcludesCycle
  BY DEF IInv
<1>2. UNCHANGED <<config, sourceGone, worker, scheduler, waiter, configured, due>>
  BY DEF RequestEdit, RequestDelete, Request, BeginEdit, TryGate, BeginDelete, Exit, Signal,
         Over, control, vars
<1>3. Alive' = Alive /\ InCycle' = InCycle
  BY <1>2 DEF Alive, InCycle
<1>4. Targeted' /\ WritesMatchConfiguration' /\ DeletionExcludesCycle'
  BY <1>1, <1>2, <1>3 DEF Targeted, WritesMatchConfiguration, DeletionExcludesCycle, WorkerAt
<1>5. /\ main' \in MainType /\ edits' \in 0..MaxEdits /\ draining' \subseteq Workers
      /\ stopping' \in BOOLEAN
  <2> USE <1>1 DEF TypeOK, MainType
  <2>1. CASE RequestEdit \/ RequestDelete
    <3>1. PICK next \in {"edit", "gate"} : Request(next)
      BY <2>1 DEF RequestEdit, RequestDelete
    <3>2. main' \in MainType
      BY <3>1 DEF Request, Proceed
    <3>3. edits' \in 0..MaxEdits
      BY <3>1, LifecycleAssumption DEF Request
    <3>4. QED
      BY <3>1, <3>2, <3>3 DEF Request, control
  <2>2. CASE BeginEdit \/ TryGate \/ BeginDelete
    BY <2>2 DEF BeginEdit, TryGate, BeginDelete, Proceed, control
  <2>3. CASE Exit
    BY <2>3 DEF Exit, Draining
  <2>4. CASE Signal \/ Over
    BY <2>4 DEF Signal, Over, control, vars
  <2>5. QED
    BY <2>1, <2>2, <2>3, <2>4
<1>6. /\ \/ UNCHANGED lock
         \/ lock = None /\ lock' = Main
      /\ \/ UNCHANGED gate
         \/ gate = None /\ gate' = Main
  BY DEF RequestEdit, RequestDelete, Request, BeginEdit, TryGate, BeginDelete, Exit, Signal,
         Over, control, vars
<1>7. TypeOK'
  BY <1>1, <1>2, <1>3, <1>5, <1>6, LifecycleAssumption DEF TypeOK
<1>8. MainHolds'
  BY <1>1, LifecycleAssumption
     DEF RequestEdit, RequestDelete, Request, BeginEdit, TryGate, BeginDelete, Exit, Signal,
         Over, control, vars, Proceed, MainAt, TypeOK, MainType, MainHolds
<1>9. Lone'
  BY <1>1, <1>2, <1>3
     DEF RequestEdit, RequestDelete, Request, BeginEdit, TryGate, BeginDelete, Exit, Signal,
         Over, control, vars, Draining, Lone
<1>10. Joined' /\ ShutdownTruthful'
  BY <1>1, <1>3
     DEF RequestEdit, RequestDelete, Request, BeginEdit, TryGate, BeginDelete, Exit, Signal,
         Over, control, vars, Proceed, MainAt, TypeOK, MainType, Joined, ShutdownTruthful
<1>11. QED
  BY <1>4, <1>7, <1>8, <1>9, <1>10 DEF IInv

(* The configuration changes while no thread writes. *)
LEMMA EditKeeps ==
  ASSUME IInv, NEW p \in Playlists, NEW revision \in Revisions,
         Edit(p, revision) \/ EditUnannounced(p, revision)
  PROVE  IInv'
<1> USE DEF Edit, EditUnannounced, Proceed, MainAt
<1>1. TypeOK /\ MainHolds /\ Lone /\ Targeted /\ DeletionExcludesCycle
  BY DEF IInv
<1>2. lock = Main /\ lock' = None /\ main.at = "editing"
  BY <1>1 DEF MainHolds
<1>3. \A k \in Workers : worker[k].at \notin {"check", "write"}
  BY <1>1, <1>2, LifecycleAssumption DEF TypeOK
<1>4. UNCHANGED <<sourceGone, gate, worker, control, stopping, edits>>
  OBVIOUS
<1>5. main'.at \in {"idle", "reconcile"} /\ main' \in MainType
  BY <1>1, <1>2 DEF TypeOK, MainType, AnyEnabled
<1>6. Alive' = Alive /\ InCycle' = InCycle
  BY <1>4 DEF Alive, InCycle
<1>7. config' \in [Playlists -> Revisions] /\ due' \in BOOLEAN
  BY <1>1 DEF TypeOK, AnyEnabled
<1>8. TypeOK'
  BY <1>1, <1>2, <1>3, <1>4, <1>5, <1>6, <1>7, LifecycleAssumption DEF TypeOK, control
<1>9. MainHolds' /\ Lone' /\ Joined' /\ ShutdownTruthful'
  BY <1>1, <1>2, <1>4, <1>5, <1>6, LifecycleAssumption
     DEF MainHolds, Lone, Joined, ShutdownTruthful, control
<1>10. Targeted' /\ WritesMatchConfiguration' /\ DeletionExcludesCycle'
  BY <1>1, <1>3, <1>4, <1>6
     DEF Targeted, WritesMatchConfiguration, DeletionExcludesCycle, WorkerAt
<1>11. QED
  BY <1>8, <1>9, <1>10 DEF IInv

(* A source is deleted while no thread is in a cycle. *)
LEMMA DeleteKeeps ==
  ASSUME IInv, Delete \/ DeleteUnannounced
  PROVE  IInv'
<1> USE DEF Delete, DeleteUnannounced, Proceed, MainAt
<1>1. TypeOK /\ MainHolds /\ Lone /\ Targeted
  BY DEF IInv
<1>2. lock = Main /\ lock' = None /\ gate = Main /\ gate' = None
  BY <1>1 DEF MainHolds
<1>3. \A k \in Workers : worker[k].at \notin {"check", "write"} /\ k \notin InCycle
  BY <1>1, <1>2, LifecycleAssumption DEF TypeOK
<1>4. UNCHANGED <<config, worker, control, stopping, edits>>
  OBVIOUS
<1>5. main'.at \in {"idle", "reconcile"} /\ main' \in MainType
  BY <1>1 DEF TypeOK, MainType, AnyEnabled
<1>6. Alive' = Alive /\ InCycle' = InCycle
  BY <1>4 DEF Alive, InCycle
<1>7. sourceGone' \in BOOLEAN /\ due' \in BOOLEAN
  BY <1>1 DEF TypeOK, AnyEnabled
<1>8. TypeOK'
  BY <1>1, <1>2, <1>3, <1>4, <1>5, <1>6, <1>7, LifecycleAssumption DEF TypeOK, control
<1>9. MainHolds' /\ Lone' /\ Joined' /\ ShutdownTruthful'
  BY <1>1, <1>2, <1>4, <1>5, <1>6, LifecycleAssumption
     DEF MainHolds, Lone, Joined, ShutdownTruthful, control
<1>10. Targeted' /\ WritesMatchConfiguration' /\ DeletionExcludesCycle'
  BY <1>1, <1>3, <1>4, <1>6
     DEF Targeted, WritesMatchConfiguration, DeletionExcludesCycle, WorkerAt, InCycle
<1>11. QED
  BY <1>8, <1>9, <1>10 DEF IInv

LEMMA Invariance == Spec => []IInv
<1>1. Init => IInv
  <2> SUFFICES ASSUME Init PROVE IInv
    OBVIOUS
  <2>1. \A k \in Workers : worker[k] = Ended
    BY DEF Init
  <2>2. Ended.at = "ended"
    BY DEF Ended
  <2>3. Alive = {} /\ InCycle = {} /\ \A k \in Workers : worker[k].at = "ended"
    BY <2>1, <2>2 DEF Alive, InCycle
  <2>4. TypeOK
    <3>1. main \in MainType /\ worker \in [Workers -> WorkerType] /\ edits \in 0..MaxEdits
      BY EndedType, LifecycleAssumption DEF Init, MainType
    <3>2. (\A k \in Workers : worker[k].at \in {"check", "write"} <=> lock = k)
          /\ (\A k \in Workers : k \in InCycle <=> gate = k)
      BY <2>3, LifecycleAssumption DEF Init
    <3>3. QED
      BY <3>1, <3>2 DEF Init, TypeOK, AnyEnabled
  <2>5. MainHolds /\ Lone /\ Joined /\ ShutdownTruthful
    BY <2>3, LifecycleAssumption DEF Init, MainHolds, Lone, Joined, ShutdownTruthful, MainAt
  <2>6. Targeted /\ WritesMatchConfiguration /\ DeletionExcludesCycle
    BY <2>3 DEF Targeted, WritesMatchConfiguration, DeletionExcludesCycle, WorkerAt
  <2>7. QED
    BY <2>4, <2>5, <2>6 DEF IInv
<1>2. IInv /\ [Next]_vars => IInv'
  <2> SUFFICES ASSUME IInv, [Next]_vars PROVE IInv'
    OBVIOUS
  <2>1. CASE Boot \/ ReconcileAfter
    BY <2>1, ReconcileKeeps
  <2>2. CASE Shutdown
    BY <2>2, ShutdownKeeps
  <2>3. CASE Connect
    BY <2>3, ConnectKeeps
  <2>4. CASE \/ RequestEdit \/ RequestDelete \/ BeginEdit \/ TryGate \/ BeginDelete
             \/ Exit \/ Signal \/ Over
    BY <2>4, RequestKeeps
  <2>5. CASE \E p \in Playlists, revision \in Revisions :
               Edit(p, revision) \/ EditUnannounced(p, revision)
    BY <2>5, EditKeeps
  <2>6. CASE Delete \/ DeleteUnannounced
    BY <2>6, DeleteKeeps
  <2>7. CASE RestartAfterDrain
    BY <2>7, RestartKeeps
  <2>8. CASE \E k \in Workers : OwnStep(k)
    BY <2>8, WorkerKeeps
  <2>9. CASE UNCHANGED vars
    BY <2>9 DEF vars, control, IInv, TypeOK, MainHolds, Lone, Joined, Alive, InCycle, MainAt,
                WorkerAt, Targeted, WritesMatchConfiguration, DeletionExcludesCycle,
                ShutdownTruthful
  <2>10. QED
    BY <2>1, <2>2, <2>3, <2>4, <2>5, <2>6, <2>7, <2>8, <2>9 DEF Next, MainStep, OwnStep
<1>3. QED
  BY <1>1, <1>2, PTL DEF Spec

-------------------------------------------------------------------------------
(* Types, and who holds the cycle gate and the configuration lock when. *)
THEOREM TypeCorrect == Spec => []TypeOK
<1>1. IInv => TypeOK
  BY DEF IInv
<1>2. QED
  BY <1>1, Invariance, PTL

(* One scheduler thread at a time, however playlists are disabled and      *)
(* enabled and however long a thread drains.                               *)
THEOREM SchedulerAlone == Spec => []OneScheduler
<1>1. IInv => OneScheduler
  <2> SUFFICES ASSUME IInv PROVE Cardinality(Alive) <= 1
    BY DEF OneScheduler
  <2>1. CASE Alive = {}
    BY <2>1, FS_EmptySet
  <2>2. CASE Alive # {}
    <3>1. PICK k \in Alive : TRUE
      BY <2>2
    <3>2. Alive = {k}
      BY DEF IInv, Lone
    <3>3. Cardinality({k}) = 1
      BY FS_Singleton
    <3>4. QED
      BY <3>2, <3>3
  <2>3. QED
    BY <2>1, <2>2
<1>2. QED
  BY <1>1, Invariance, PTL

(* No write is ever made for a contract the owner has already replaced. *)
THEOREM ContractHolds == Spec => []WritesMatchConfiguration
<1>1. IInv => WritesMatchConfiguration
  BY DEF IInv
<1>2. QED
  BY <1>1, Invariance, PTL

(* No source goes while a cycle uses what it loaded of it. *)
THEOREM DeletionExcluded == Spec => []DeletionExcludesCycle
<1>1. IInv => DeletionExcludesCycle
  BY DEF IInv
<1>2. QED
  BY <1>1, Invariance, PTL

(* A shutdown reported complete has left no thread behind. *)
THEOREM ShutdownComplete == Spec => []ShutdownTruthful
<1>1. IInv => ShutdownTruthful
  BY DEF IInv
<1>2. QED
  BY <1>1, Invariance, PTL
===============================================================================
