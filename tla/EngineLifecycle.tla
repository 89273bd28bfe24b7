-------------------------- MODULE EngineLifecycle --------------------------
(***************************************************************************)
(* The threads of the process and what keeps them apart.                   *)
(*                                                                         *)
(* The main thread serves the admin requests one by one, then shuts the    *)
(* process down.  Scheduler threads run engine cycles; the lifecycle       *)
(* controller starts one when the first playlist is enabled, wakes it when *)
(* the configuration changes, and lets it drain when the last playlist is  *)
(* disabled.  A restart waiter starts the next scheduler once the drained  *)
(* one has ended.  A signal may ask the process to stop at any moment.     *)
(*                                                                         *)
(* Three locks: the cycle gate (a whole engine cycle against the deletion  *)
(* of a source, which only tries it), the configuration lock (changes of   *)
(* the configuration, its loading, and each write to Spotify), taken in    *)
(* this order, and the lock of the controller.  Nothing waits while it     *)
(* holds the last one, so that each of its sections is a single step.      *)
(*                                                                         *)
(* A playlist is the revision of its write contract, 0 when it is disabled *)
(* or unmanaged; revision 2 is the one that selects the removable source.  *)
(***************************************************************************)
EXTENDS Naturals, FiniteSets

CONSTANTS
  Playlists,
  Workers,    \* scheduler threads, reused once they have ended
  Main,       \* the main thread
  None,
  MaxEdits    \* bound: requests that change something

ASSUME LifecycleAssumption ==
  /\ Workers # {} /\ Main \notin Workers /\ None \notin Workers \cup {Main}
  /\ MaxEdits \in Nat

VARIABLES
  config,      \* durable configuration: revision of each playlist
  sourceGone,  \* whether the removable source has been deleted
  gate, lock,  \* holders of the cycle gate and of the configuration lock
  main,        \* step of the main thread, and the value it hands to reconcile
  worker,      \* step, events, plan and progress of each scheduler thread
  scheduler,   \* the controller's current scheduler thread
  draining,    \* threads asked to stop and not seen dead yet
  waiter,      \* whether the restart waiter runs
  configured,  \* status: the scheduler is meant to run
  stopping,    \* the process stop event
  edits,
  due          \* history: a request answered normally, or a connection, is
               \* owed a cycle that begins to load the configuration

control == <<scheduler, draining, waiter, configured>>
vars == <<config, sourceGone, gate, lock, main, worker, control, stopping, edits, due>>

Revisions == 0..2

AnyEnabled(c) == \E p \in Playlists : c[p] # 0

Ended == [at |-> "ended", stop |-> FALSE, wake |-> FALSE,
          plan |-> [p \in Playlists |-> 0], withSource |-> FALSE,
          playlist |-> None, handled |-> {}]

Alive == {k \in Workers : worker[k].at # "ended"}

InCycle == {k \in Workers : worker[k].at \in {"load", "work", "guard", "check", "write"}}

MainType ==
  [at: {"boot", "idle", "edit", "editing", "gate", "delete", "deleting",
        "reconcile", "join", "exited"},
   configured: BOOLEAN, drained: BOOLEAN, joining: SUBSET Workers]

WorkerType ==
  [at: {"ended", "loop", "gate", "load", "work", "guard", "check", "write",
        "after", "wait", "woken"},
   stop: BOOLEAN, wake: BOOLEAN, plan: [Playlists -> Revisions],
   withSource: BOOLEAN, playlist: Playlists \cup {None}, handled: SUBSET Playlists]

(* Types; and a scheduler thread holds the configuration lock exactly      *)
(* while it checks and writes, the cycle gate exactly during a cycle.      *)
TypeOK ==
  /\ config \in [Playlists -> Revisions]
  /\ gate \in Workers \cup {Main, None}
  /\ lock \in Workers \cup {Main, None}
  /\ main \in MainType
  /\ worker \in [Workers -> WorkerType]
  /\ scheduler \in Workers \cup {None}
  /\ draining \subseteq Workers
  /\ {waiter, configured, stopping, sourceGone, due} \subseteq BOOLEAN
  /\ edits \in 0..MaxEdits
  /\ \A k \in Workers : worker[k].at \in {"check", "write"} <=> lock = k
  /\ \A k \in Workers : k \in InCycle <=> gate = k

-----------------------------------------------------------------------------
(***************************************************************************)
(* Sections of the controller, under its lock.                             *)
(***************************************************************************)
Starting(k) == [worker EXCEPT ![k] = [Ended EXCEPT !.at = "loop"]]

Waking(k) == [worker EXCEPT ![k].wake = TRUE]

Draining == draining \cap Alive

KeepRunningBesideDraining ==
  /\ configured' = TRUE
  /\ \/ /\ scheduler # None
        /\ worker' = Waking(scheduler)
        /\ draining' = Draining
        /\ UNCHANGED <<scheduler, waiter>>
     \/ /\ scheduler = None
        /\ \E k \in Workers \ Alive : scheduler' = k /\ worker' = Starting(k)
        /\ draining' = Draining
        /\ UNCHANGED waiter

(* A scheduler is woken, started, or left to the waiter while another      *)
(* thread is still draining.                                               *)
KeepRunning ==
  /\ configured' = TRUE
  /\ \/ /\ scheduler # None
        /\ worker' = Waking(scheduler)
        /\ draining' = Draining
        /\ UNCHANGED <<scheduler, waiter>>
     \/ /\ scheduler = None /\ Draining # {}
        /\ waiter' = TRUE
        /\ draining' = Draining
        /\ UNCHANGED <<scheduler, worker>>
     \/ /\ scheduler = None /\ Draining = {}
        /\ \E k \in Workers \ Alive : scheduler' = k /\ worker' = Starting(k)
        /\ draining' = {}
        /\ UNCHANGED waiter

Stopped(k) == [worker[k] EXCEPT !.stop = TRUE, !.wake = TRUE]

RequestStop ==
  /\ configured' = FALSE
  /\ scheduler' = None
  /\ IF scheduler = None
     THEN /\ draining' = Draining
          /\ UNCHANGED worker
     ELSE /\ draining' = Draining \cup ({scheduler} \cap Alive)
          /\ worker' = [worker EXCEPT ![scheduler] = Stopped(scheduler)]
  /\ UNCHANGED waiter

Reconcile(wanted) == IF wanted /\ ~stopping THEN KeepRunning ELSE RequestStop

-----------------------------------------------------------------------------
(***************************************************************************)
(* The restart waiter.  It joins the draining threads in turns of 250 ms;  *)
(* a turn after which one of them still lives changes nothing.             *)
(***************************************************************************)
RestartAfterDrain ==
  /\ waiter
  /\ Draining = {}
  /\ draining' = {}
  /\ waiter' = FALSE
  /\ IF ~stopping /\ configured /\ scheduler = None
     THEN \E k \in Workers \ Alive : scheduler' = k /\ worker' = Starting(k)
     ELSE UNCHANGED <<scheduler, worker>>
  /\ configured' = (configured /\ ~stopping)
  /\ UNCHANGED <<config, sourceGone, gate, lock, main, stopping, edits, due>>

-----------------------------------------------------------------------------
(***************************************************************************)
(* A scheduler thread.                                                     *)
(***************************************************************************)
StopRequested(k) == worker[k].stop \/ stopping

WorkerAt(k, here) == worker[k].at = here
Move(k, next)     == worker' = [worker EXCEPT ![k].at = next]

Loop(k) ==
  /\ WorkerAt(k, "loop")
  /\ worker' = [worker EXCEPT ![k] =
                  IF StopRequested(k) THEN Ended ELSE [@ EXCEPT !.at = "gate"]]
  /\ UNCHANGED <<config, sourceGone, gate, lock, main, control, stopping, edits, due>>

EnterCycle(k) ==
  /\ WorkerAt(k, "gate") /\ gate = None
  /\ gate' = k
  /\ Move(k, "load")
  /\ UNCHANGED <<config, sourceGone, lock, main, control, stopping, edits, due>>

Loaded(k) ==
  [worker[k] EXCEPT !.at = "work", !.plan = config, !.withSource = ~sourceGone,
                    !.handled = {}]

Load(k) ==
  /\ WorkerAt(k, "load") /\ lock = None
  /\ worker' = [worker EXCEPT ![k] = Loaded(k)]
  /\ due' = FALSE
  /\ UNCHANGED <<config, sourceGone, gate, lock, main, control, stopping, edits>>

(* The configuration cannot be read or compiled, or is gone: the cycle is  *)
(* over, and the wake that began it is used up.                            *)
LoadFails(k) ==
  /\ WorkerAt(k, "load") /\ lock = None
  /\ gate' = None
  /\ Move(k, "after")
  /\ due' = FALSE
  /\ UNCHANGED <<config, sourceGone, lock, main, control, stopping, edits>>

Aimed(k, p) == [worker[k] EXCEPT !.at = "guard", !.playlist = p]

(* Playlist p needs a write: the mutation guard waits for the lock. *)
WantWrite(k, p) ==
  /\ WorkerAt(k, "work")
  /\ worker[k].plan[p] # 0 /\ p \notin worker[k].handled
  /\ worker' = [worker EXCEPT ![k] = Aimed(k, p)]
  /\ UNCHANGED <<config, sourceGone, gate, lock, main, control, stopping, edits, due>>

TakeLock(k) ==
  /\ WorkerAt(k, "guard") /\ lock = None
  /\ lock' = k
  /\ Move(k, "check")
  /\ UNCHANGED <<config, sourceGone, gate, main, control, stopping, edits, due>>

(* Under the lock, no stop is requested and the contract of the playlist   *)
(* is still the one the cycle planned with.                                *)
BeginWrite(k) ==
  /\ WorkerAt(k, "check")
  /\ ~StopRequested(k)
  /\ config[worker[k].playlist] = worker[k].plan[worker[k].playlist]
  /\ Move(k, "write")
  /\ UNCHANGED <<config, sourceGone, gate, lock, main, control, stopping, edits, due>>

Handled(k) ==
  [worker[k] EXCEPT !.at = "work", !.playlist = None,
                    !.handled = @ \cup {worker[k].playlist}]

Leave(k) ==
  /\ lock' = None
  /\ worker' = [worker EXCEPT ![k] = Handled(k)]
  /\ UNCHANGED <<config, sourceGone, gate, main, control, stopping, edits, due>>

(* A stop is requested, the contract has changed, or the configuration     *)
(* cannot be loaded again.                                                 *)
RefuseWrite(k) == WorkerAt(k, "check") /\ Leave(k)

EndWrite(k) == WorkerAt(k, "write") /\ Leave(k)

(* The playlists that remain need no write, or the cycle failed. *)
EndCycle(k) ==
  /\ WorkerAt(k, "work")
  /\ gate' = None
  /\ worker' = [worker EXCEPT ![k] =
                  [Ended EXCEPT !.at = "after", !.stop = worker[k].stop,
                                !.wake = worker[k].wake]]
  /\ UNCHANGED <<config, sourceGone, lock, main, control, stopping, edits, due>>

AfterCycleForgettingWake(k) ==
  /\ WorkerAt(k, "after")
  /\ worker' = [worker EXCEPT ![k] =
                  IF StopRequested(k) THEN Ended
                  ELSE [@ EXCEPT !.at = "wait", !.wake = FALSE]]
  /\ UNCHANGED <<config, sourceGone, gate, lock, main, control, stopping, edits, due>>

AfterCycle(k) ==
  /\ WorkerAt(k, "after")
  /\ worker' = [worker EXCEPT ![k] =
                  IF StopRequested(k) THEN Ended ELSE [@ EXCEPT !.at = "wait"]]
  /\ UNCHANGED <<config, sourceGone, gate, lock, main, control, stopping, edits, due>>

(* The wait is polled every 250 ms for a stop; the wake event is cleared   *)
(* after the wait has returned.                                            *)
StopWaiting(k) ==
  /\ WorkerAt(k, "wait")
  /\ StopRequested(k) \/ worker[k].wake
  /\ Move(k, IF StopRequested(k) THEN "loop" ELSE "woken")
  /\ UNCHANGED <<config, sourceGone, gate, lock, main, control, stopping, edits, due>>

Awake(k) == [worker[k] EXCEPT !.at = "loop", !.wake = FALSE]

ClearWake(k) ==
  /\ WorkerAt(k, "woken")
  /\ worker' = [worker EXCEPT ![k] = Awake(k)]
  /\ UNCHANGED <<config, sourceGone, gate, lock, main, control, stopping, edits, due>>

IntervalElapses(k) ==
  /\ WorkerAt(k, "wait")
  /\ Move(k, "loop")
  /\ UNCHANGED <<config, sourceGone, gate, lock, main, control, stopping, edits, due>>

-----------------------------------------------------------------------------
(***************************************************************************)
(* The main thread.                                                        *)
(***************************************************************************)
MainAt(here) == main.at = here
Proceed(next) == main' = [main EXCEPT !.at = next]

(* Before the first request; the start finds the durable configuration. *)
Boot ==
  /\ MainAt("boot")
  /\ Reconcile(AnyEnabled(config))
  /\ Proceed("idle")
  /\ UNCHANGED <<config, sourceGone, gate, lock, stopping, edits, due>>

Request(next) ==
  /\ MainAt("idle")
  /\ edits < MaxEdits /\ edits' = edits + 1
  /\ Proceed(next)
  /\ UNCHANGED <<config, sourceGone, gate, lock, worker, control, stopping, due>>

RequestEdit   == Request("edit")
RequestDelete == Request("gate")

(* Spotify has become connected. *)
Connect ==
  /\ MainAt("idle")
  /\ edits < MaxEdits /\ edits' = edits + 1
  /\ scheduler # None /\ worker' = Waking(scheduler)
  /\ due' = TRUE
  /\ UNCHANGED <<config, sourceGone, gate, lock, main, control, stopping>>

BeginEditUnlocked ==
  /\ MainAt("edit")
  /\ Proceed("editing")
  /\ UNCHANGED <<config, sourceGone, gate, lock, worker, control, stopping, edits, due>>

BeginEdit ==
  /\ MainAt("edit") /\ lock = None
  /\ lock' = Main
  /\ Proceed("editing")
  /\ UNCHANGED <<config, sourceGone, gate, worker, control, stopping, edits, due>>

(* The request succeeds: its handler goes on to the controller. *)
Edit(p, revision) ==
  /\ MainAt("editing")
  /\ revision = 2 => ~sourceGone
  /\ config' = [config EXCEPT ![p] = revision]
  /\ due' = AnyEnabled(config')
  /\ lock' = None
  /\ main' = [main EXCEPT !.at = "reconcile", !.configured = AnyEnabled(config')]
  /\ UNCHANGED <<sourceGone, gate, worker, control, stopping, edits>>

(* The request raises, before or after the configuration has been replaced *)
(* (the save itself may still raise then, or the clearing of the journal   *)
(* behind it), or it is a page view, which may finalize an activation: the *)
(* controller is not told.                                                 *)
EditUnannounced(p, revision) ==
  /\ MainAt("editing")
  /\ revision = 2 => ~sourceGone
  /\ config' \in {config, [config EXCEPT ![p] = revision]}
  /\ lock' = None
  /\ Proceed("idle")
  /\ UNCHANGED <<sourceGone, gate, worker, control, stopping, edits, due>>

TryGateBlindly ==
  /\ MainAt("gate")
  /\ Proceed("delete")
  /\ UNCHANGED <<config, sourceGone, gate, lock, worker, control, stopping, edits, due>>

(* Deletion of a source: refused while a cycle runs, never waiting for it. *)
TryGate ==
  /\ MainAt("gate")
  /\ IF gate = None
     THEN gate' = Main /\ Proceed("delete")
     ELSE Proceed("idle") /\ UNCHANGED gate
  /\ UNCHANGED <<config, sourceGone, lock, worker, control, stopping, edits, due>>

BeginDelete ==
  /\ MainAt("delete") /\ lock = None
  /\ lock' = Main
  /\ Proceed("deleting")
  /\ UNCHANGED <<config, sourceGone, gate, worker, control, stopping, edits, due>>

DeleteKeepingGate ==
  LET referenced == \E p \in Playlists : config[p] = 2
  IN  /\ MainAt("deleting")
      /\ sourceGone' = (sourceGone \/ ~referenced)
      /\ lock' = None
      /\ main' = IF referenced \/ sourceGone THEN [main EXCEPT !.at = "idle"]
                 ELSE [main EXCEPT !.at = "reconcile", !.configured = AnyEnabled(config)]
      /\ due' = IF main'.at = "reconcile" THEN AnyEnabled(config) ELSE due
      /\ UNCHANGED <<config, gate, worker, control, stopping, edits>>

(* Its journals are cleared and its definition goes, unless a playlist     *)
(* selects it.                                                             *)
Delete ==
  LET referenced == \E p \in Playlists : config[p] = 2
  IN  /\ MainAt("deleting")
      /\ sourceGone' = (sourceGone \/ ~referenced)
      /\ lock' = None
      /\ gate' = None
      /\ main' = IF referenced \/ sourceGone THEN [main EXCEPT !.at = "idle"]
                 ELSE [main EXCEPT !.at = "reconcile", !.configured = AnyEnabled(config)]
      /\ due' = IF main'.at = "reconcile" THEN AnyEnabled(config) ELSE due
      /\ UNCHANGED <<config, worker, control, stopping, edits>>

(* Clearing a journal or saving raises, before or after the definition has *)
(* gone.                                                                   *)
DeleteUnannounced ==
  /\ MainAt("deleting")
  /\ ~sourceGone /\ \A p \in Playlists : config[p] # 2
  /\ sourceGone' \in BOOLEAN
  /\ lock' = None
  /\ gate' = None
  /\ Proceed("idle")
  /\ UNCHANGED <<config, worker, control, stopping, edits, due>>

ReconcileAfter ==
  /\ MainAt("reconcile")
  /\ Reconcile(main.configured)
  /\ Proceed("idle")
  /\ UNCHANGED <<config, sourceGone, gate, lock, stopping, edits, due>>

Signal ==
  /\ ~stopping /\ stopping' = TRUE
  /\ UNCHANGED <<config, sourceGone, gate, lock, main, worker, control, edits, due>>

ShutdownJoiningDrainedOnly ==
  /\ MainAt("idle") /\ stopping
  /\ RequestStop
  /\ main' = [main EXCEPT !.at = "join", !.joining = draining]
  /\ UNCHANGED <<config, sourceGone, gate, lock, stopping, edits, due>>

Shutdown ==
  /\ MainAt("idle") /\ stopping
  /\ RequestStop
  /\ main' = [main EXCEPT !.at = "join", !.joining = draining']
  /\ UNCHANGED <<config, sourceGone, gate, lock, stopping, edits, due>>

(* Every joined thread has ended, or ten seconds have passed for each. *)
Exit ==
  /\ MainAt("join")
  /\ main' = [main EXCEPT !.at = "exited", !.drained = main.joining \cap Alive = {}]
  /\ draining' = Draining
  /\ UNCHANGED <<config, sourceGone, gate, lock, worker, scheduler, waiter, configured,
                 stopping, edits, due>>

(* The process is over. *)
Over == MainAt("exited") /\ UNCHANGED vars

-----------------------------------------------------------------------------
Init ==
  /\ config \in [Playlists -> Revisions]
  /\ sourceGone = FALSE
  /\ gate = None /\ lock = None
  /\ main = [at |-> "boot", configured |-> FALSE, drained |-> FALSE, joining |-> {}]
  /\ worker = [k \in Workers |-> Ended]
  /\ scheduler = None /\ draining = {} /\ waiter = FALSE /\ configured = FALSE
  /\ stopping = FALSE
  /\ edits = 0
  /\ due = AnyEnabled(config)

MainStep ==
  \/ Boot \/ BeginEdit \/ TryGate \/ BeginDelete \/ Delete \/ DeleteUnannounced
  \/ ReconcileAfter \/ Shutdown \/ Exit
  \/ \E p \in Playlists, revision \in Revisions :
       Edit(p, revision) \/ EditUnannounced(p, revision)

WorkerStep(k) ==
  \/ Loop(k) \/ EnterCycle(k) \/ Load(k) \/ LoadFails(k) \/ TakeLock(k)
  \/ BeginWrite(k) \/ RefuseWrite(k) \/ EndWrite(k) \/ EndCycle(k)
  \/ AfterCycle(k) \/ StopWaiting(k) \/ ClearWake(k)

Next ==
  \/ MainStep \/ RequestEdit \/ RequestDelete \/ Connect \/ Signal
  \/ RestartAfterDrain \/ Over
  \/ \E k \in Workers :
       \/ WorkerStep(k) \/ IntervalElapses(k)
       \/ \E p \in Playlists : WantWrite(k, p)

Spec == Init /\ [][Next]_vars

(* Threads keep running and a request to Spotify ends (its client has a    *)
(* timeout).  Nothing is assumed of who gets a lock that several wait for, *)
(* of the interval between two cycles, nor of requests and signals.        *)
Fairness ==
  /\ WF_vars(MainStep)
  /\ \A k \in Workers : WF_vars(WorkerStep(k))
  /\ WF_vars(RestartAfterDrain)

FairSpec == Spec /\ Fairness
-----------------------------------------------------------------------------
(***************************************************************************)
(* Properties.                                                             *)
(***************************************************************************)

(* One sequential engine scheduler (ARCHITECTURE.md, runtime topology):    *)
(* however playlists are disabled and enabled again, a new scheduler       *)
(* thread never runs beside one that still drains.                         *)
OneScheduler == Cardinality(Alive) <= 1

(* A write to Spotify happens under the contract that is durable at that   *)
(* moment, not under the one the cycle was planned with minutes ago: once  *)
(* a request that changed or stopped a playlist has been answered, nothing *)
(* more is written for the old contract.                                   *)
WritesMatchConfiguration ==
  \A k \in Workers : WorkerAt(k, "write") =>
    config[worker[k].playlist] = worker[k].plan[worker[k].playlist]

(* A source is never deleted, its journals cleared, under a cycle that     *)
(* loaded it and would write its rows again.                               *)
DeletionExcludesCycle ==
  \A k \in InCycle \ {j \in Workers : WorkerAt(j, "load")} :
    worker[k].withSource = ~sourceGone

(* A shutdown that reports to be complete leaves no scheduler thread, and  *)
(* none starts after it: no write is in flight or still to come.           *)
ShutdownTruthful == MainAt("exited") /\ main.drained => Alive = {}

(* What the controller has been told reaches a cycle without waiting for   *)
(* the interval: after a request that was answered normally, or a new      *)
(* connection to Spotify, a cycle begins and loads the configuration, or   *)
(* reports that it cannot.  The wake is not lost whatever the scheduler    *)
(* does meanwhile, whatever other requests change without telling the      *)
(* controller, and a playlist enabled while the old scheduler drains gets  *)
(* a new one.                                                              *)
ChangesAreSeen == []<>(~due \/ ~AnyEnabled(config) \/ stopping)

(* After the stop signal every thread comes to rest: no lock order between *)
(* requests, cycles, writes and deletions keeps them waiting.              *)
ComesToRest == stopping ~> (MainAt("exited") /\ Alive = {} /\ ~waiter)
=============================================================================
