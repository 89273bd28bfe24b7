---------------------------- MODULE Reconciliation ----------------------------
(***************************************************************************)
(* One managed playlist and its Spotify destination: the engine's decision *)
(* to skip or to reconcile (engine.py), the reconciliation itself          *)
(* (reconciliation.py) and the durable evidence it leaves: the attestation *)
(* (persistence.py), the pending snapshot confirmation                     *)
(* (snapshot_pending.py) and the exact and degraded leases                 *)
(* (spotify/first_persistence.py).                                         *)
(*                                                                         *)
(* A playlist's content is a pair: one slot per page of a read. A desired  *)
(* fingerprint is the desired content itself. Spotify keeps every version  *)
(* of the destination; a snapshot id is the number of a version. Item      *)
(* reads are current; the snapshot endpoint may lag behind the engine's    *)
(* own writes. Reads and writes of Spotify and of SQLite are single steps, *)
(* so that anything may happen between them.                               *)
(***************************************************************************)
EXTENDS Integers, Sequences, FiniteSets, SequencesExt

CONSTANTS Desireds,      \* contents the sources may ask for
          Foreign,       \* contents somebody else may put there
          None,          \* no attestation, no lease, no pending confirmation
          Hidden,        \* a slot Spotify returns without its media
          Unread,        \* the first page has not been read
          Environments,  \* what Spotify, the other editors and the machine may do
          MaxVersions, MaxChanges  \* bounds

Contents == Desireds \union Foreign

\* paged: a complete read takes two requests (over 50 items); opaque: a read may return a
\* hidden slot; lag: the snapshot endpoint may lag; crashes: the process may die; unsafe:
\* a SQLite write may fail; edits, faults: bounds of their number.
EnvironmentType == [paged : BOOLEAN, opaque : BOOLEAN, lag : BOOLEAN, crashes : BOOLEAN,
                    unsafe : BOOLEAN, edits : Nat, faults : Nat]

AttestationType == [snapshot : 1..MaxVersions, fp : Desireds]
PendingType == [base : 1..MaxVersions, expected : 1..MaxVersions, fp : Desireds,
                whole : BOOLEAN, live : BOOLEAN]

ASSUME ContentsAssumption ==
  /\ Desireds # {}
  /\ \A c \in Contents : DOMAIN c = 1..2 /\ c = <<c[1], c[2]>>
  /\ None \notin Contents /\ None \notin AttestationType /\ None \notin PendingType
  /\ \A c \in Contents, i \in 1..2 : c[i] \notin {Hidden, Unread}
  /\ \A n \in Environments : n \in EnvironmentType
  /\ MaxVersions \in Nat \ {0} /\ MaxChanges \in Nat

VARIABLES
  env,       \* the environment of this behaviour
  hist,      \* the versions of the destination, each with its author
  view,      \* the version the snapshot endpoint reports
  desired,   \* what the local journal builds now
  att,       \* the playlist attestation
  pending,   \* the pending snapshot confirmation
  exact,     \* desired fingerprint of the exact destination verification
  degraded,  \* desired fingerprint of the degraded one
  run,       \* the reconciliation in progress: lost in a crash
  faults,    \* faults so far
  changes,   \* changes of the desired state so far
  doubt      \* history: a 5xx or transport outcome no later evidence settled

remote  == <<hist, view>>
durable == <<att, pending, exact, degraded>>
vars    == <<env, remote, desired, durable, run, faults, changes, doubt>>

Latest == Len(hist)
Items  == hist[Latest].items

SnapPoints == {"pendingSnapshot", "shortcut", "resolve", "restableSnapshot",
               "stableBefore", "stableAfter", "checkAttestation", "baseline",
               "confirmSnapshot", "confirmAgain", "opaqueSnapshot",
               "attestBefore", "attestAfter"}
ReadPoints == {"read", "restableRead", "stableRead", "readback", "confirmRead",
               "ambiguous", "attestRead"}
Outcomes   == {"exact", "proved", "degraded", "unqualified", "failed"}

IdleRun == [at |-> "idle", want |-> None, quick |-> FALSE, retried |-> FALSE,
            base |-> 0, seen |-> 0, sent |-> 0, page |-> Unread,
            slots |-> <<Unread, Unread>>, todo |-> <<>>, result |-> "done"]

Init ==
  /\ env \in Environments
  /\ \E c \in Contents : hist = <<[items |-> c, own |-> FALSE]>>
  /\ view = 1
  /\ desired \in Desireds
  /\ att = None /\ pending = None /\ exact = None /\ degraded = None
  /\ run = IdleRun
  /\ faults = 0 /\ changes = 0
  /\ doubt = FALSE

-------------------------------------------------------------------------------
(* The world: Spotify, other editors, the sources, the clock.              *)

Version(c, own) == [items |-> c, own |-> own]

\* Someone edits the items, or the name or cover: the snapshot advances in any case.
Edit ==
  /\ Latest < MaxVersions
  /\ Cardinality({v \in 1..Latest : ~hist[v].own}) <= env.edits
  /\ \E c \in Foreign \union {Items} : hist' = Append(hist, Version(c, FALSE))
  /\ view' = Latest + 1
  /\ UNCHANGED <<desired, durable, run, faults, changes, doubt>>

Propagate ==
  /\ view # Latest
  /\ view' = Latest
  /\ UNCHANGED <<hist, desired, durable, run, faults, changes, doubt>>

\* A source refresh of the same thread, before the playlist's turn.
ChangeDesired ==
  /\ run.at = "idle"
  /\ changes < MaxChanges
  /\ changes' = changes + 1
  /\ desired' \in Desireds \ {desired}
  /\ UNCHANGED <<remote, durable, run, faults, doubt>>

LeaseNeverExpires == FALSE

\* verified_at is only ever renewed with the lease: an expired lease is as good as none.
ExpireLease ==
  /\ \/ exact # None /\ exact' = None /\ UNCHANGED degraded
     \/ degraded # None /\ degraded' = None /\ UNCHANGED exact
  /\ UNCHANGED <<remote, desired, att, pending, run, faults, changes, doubt>>

Fault == faults < env.faults /\ faults' = faults + 1

\* The time to live outlasts the propagation of a snapshot, but for a fault.
ExpirePending ==
  /\ pending # None /\ pending.live
  /\ pending' = [pending EXCEPT !.live = FALSE]
  /\ Fault \/ (view = Latest /\ UNCHANGED faults)
  /\ UNCHANGED <<remote, desired, att, exact, degraded, run, changes, doubt>>

Crash ==
  /\ env.crashes
  /\ run.at # "idle"
  /\ Fault
  /\ run' = IdleRun
  /\ UNCHANGED <<remote, desired, durable, changes, doubt>>

-------------------------------------------------------------------------------
(* Steps of a reconciliation                                               *)

Goto(place) == run' = [run EXCEPT !.at = place, !.page = Unread]

Op(name, base, snapshot, whole) ==
  [name |-> name, base |-> base, snapshot |-> snapshot, whole |-> whole]

SetAttestation(s)       == Op("setAttestation", 0, s, TRUE)
SetPending(b, s, whole) == Op("setPending", b, s, whole)
Simple(name)            == Op(name, 0, 0, TRUE)
ClearPending            == Simple("clearPending")

\* Durable writes still to make, one SQLite transaction each, and what follows them.
Settle(ops, result) ==
  run' = [run EXCEPT !.at = "settle", !.page = Unread, !.todo = ops, !.result = result]

\* _visible_positions_match
Match(slots, want) == \A i \in 1..2 : slots[i] \in {Hidden, want[i]}
Whole(slots) == Hidden \notin {slots[1], slots[2]}

FullRead   == <<IF env.paged THEN run.page ELSE Items[1], Items[2]>>
HiddenRead == <<Hidden, Items[2]>>

\* An item read: complete, or with one slot that has no readable media.
Reading(slots) ==
  /\ env.paged => run.page # Unread
  /\ \/ slots = FullRead /\ UNCHANGED faults
     \/ env.opaque /\ Fault /\ slots = HiddenRead

FirstPage ==
  /\ env.paged
  /\ run.at \in ReadPoints
  /\ run.page = Unread
  /\ run' = [run EXCEPT !.page = Items[1]]
  /\ UNCHANGED <<remote, desired, durable, faults, changes, doubt>>

-------------------------------------------------------------------------------
(* engine.py: _destination_skip_evidence                                   *)

SkipDegraded(fp) == degraded = fp /\ att # None /\ att.fp = fp
CanSkip(fp)      == pending = None /\ (exact = fp \/ SkipDegraded(fp))

Skip ==
  /\ run.at = "idle"
  /\ CanSkip(desired)
  /\ UNCHANGED vars

BeginKeepingLease ==
  /\ run.at = "idle"
  /\ ~CanSkip(desired)
  /\ run' = [IdleRun EXCEPT !.at = "dispatch", !.want = desired, !.quick = TRUE]
  /\ UNCHANGED <<remote, desired, durable, faults, changes, doubt>>

\* No lease authorises a skip: a degraded lease that was in the way is dropped.
Begin ==
  /\ run.at = "idle"
  /\ ~CanSkip(desired)
  /\ degraded' = None
  /\ run' = [IdleRun EXCEPT !.at = "dispatch", !.want = desired, !.quick = TRUE]
  /\ UNCHANGED <<remote, desired, att, pending, exact, faults, changes, doubt>>

-------------------------------------------------------------------------------
(* reconciliation.py: before the write                                     *)

Stale(p) == p.fp # run.want \/ ~p.live

\* The shortcut is for a changed desired state on a destination attested for another one.
ShortcutOrRead ==
  IF run.quick /\ pending = None /\ att # None /\ att.fp # run.want
  THEN Goto("shortcut") ELSE Goto("read")

Dispatch ==
  /\ run.at = "dispatch"
  /\ IF pending = None THEN ShortcutOrRead
     ELSE IF Stale(pending) THEN Settle(<<ClearPending>>, "dispatch")
     ELSE IF pending.whole THEN Goto("pendingSnapshot")
     ELSE Goto("read")
  /\ UNCHANGED <<remote, desired, durable, faults, changes, doubt>>

PendingSnapshot ==
  /\ run.at = "pendingSnapshot"
  /\ IF view = pending.expected
     THEN Settle(<<SetAttestation(view), ClearPending>>, "exact")
     ELSE run' = [run EXCEPT !.at = "read", !.seen = view]
  /\ UNCHANGED <<remote, desired, durable, faults, changes, doubt>>

Shortcut ==
  /\ run.at = "shortcut"
  /\ IF view = att.snapshot
     THEN run' = [run EXCEPT !.at = "write", !.base = view]
     ELSE Goto("read")
  /\ UNCHANGED <<remote, desired, durable, faults, changes, doubt>>

\* The complete read. A kept pending confirmation is resolved before anything else.
Read ==
  /\ run.at = "read"
  /\ \E slots \in {FullRead, HiddenRead} :
       LET seen == [run EXCEPT !.slots = slots, !.page = Unread]
       IN  /\ Reading(slots)
           /\ run' = IF pending = None THEN [seen EXCEPT !.at = "compare"]
                     ELSE IF Match(slots, run.want) THEN [seen EXCEPT !.at = "resolve"]
                     ELSE [seen EXCEPT !.at = "settle", !.todo = <<ClearPending>>,
                                       !.result = "compare"]
  /\ UNCHANGED <<remote, desired, durable, changes, doubt>>

\* _resolve_pending_confirmation: a snapshot seen before the read is used again.
Resolve ==
  /\ run.at = "resolve"
  /\ LET s == IF run.seen # 0 THEN run.seen ELSE view
     IN  IF s = pending.expected
         THEN Settle(<<SetAttestation(s), ClearPending>>,
                     IF Whole(run.slots) THEN "exact" ELSE "degraded")
         ELSE IF s = pending.base THEN Settle(<<>>, "unqualified")
         ELSE IF Whole(run.slots)
         THEN run' = [run EXCEPT !.at = "restableRead", !.seen = s]
         ELSE Settle(<<>>, "failed")
  /\ UNCHANGED <<remote, desired, durable, faults, changes, doubt>>

\* Strict reads: a hidden slot raises, and a torn read is another content.
StrictRead(place, next, otherwise) ==
  /\ run.at = place
  /\ env.paged => run.page # Unread
  /\ IF FullRead = run.want THEN Goto(next) ELSE Settle(<<>>, otherwise)
  /\ UNCHANGED <<remote, desired, durable, faults, changes, doubt>>

RestableRead == StrictRead("restableRead", "restableSnapshot", "failed")

RestableSnapshot ==
  /\ run.at = "restableSnapshot"
  /\ IF view = run.seen
     THEN Settle(<<SetAttestation(view), ClearPending>>, "exact")
     ELSE Settle(<<>>, "failed")
  /\ UNCHANGED <<remote, desired, durable, faults, changes, doubt>>

CompareBlindly ==
  /\ run.at = "compare"
  /\ Goto("baseline")
  /\ UNCHANGED <<remote, desired, durable, faults, changes, doubt>>

CompareTrusting ==
  /\ run.at = "compare"
  /\ IF run.slots = run.want THEN Settle(<<>>, "exact")
     ELSE Goto("baseline")
  /\ UNCHANGED <<remote, desired, durable, faults, changes, doubt>>

\* Already as desired; or visibly so, behind a matching attestation; or to be written.
Compare ==
  /\ run.at = "compare"
  /\ IF run.slots = run.want
     THEN IF env.paged THEN Goto("stableBefore") ELSE Settle(<<>>, "exact")
     ELSE IF /\ ~Whole(run.slots) /\ Match(run.slots, run.want)
             /\ att # None /\ att.fp = run.want
     THEN Goto("checkAttestation")
     ELSE Goto("baseline")
  /\ UNCHANGED <<remote, desired, durable, faults, changes, doubt>>

StableBefore ==
  /\ run.at = "stableBefore"
  /\ run' = [run EXCEPT !.at = "stableRead", !.seen = view]
  /\ UNCHANGED <<remote, desired, durable, faults, changes, doubt>>

\* Unequal or unavailable slots are not fatal here: the pass falls through to a write.
StableRead ==
  /\ run.at = "stableRead"
  /\ \E slots \in {FullRead, HiddenRead} :
       /\ Reading(slots)
       /\ run' = [run EXCEPT !.at = "stableAfter", !.page = Unread, !.slots =
                    IF slots = run.want THEN slots ELSE <<Unread, Unread>>]
  /\ UNCHANGED <<remote, desired, durable, changes, doubt>>

StableAfter ==
  /\ run.at = "stableAfter"
  /\ IF view = run.seen /\ run.slots = run.want
     THEN Settle(<<>>, "exact") ELSE Goto("baseline")
  /\ UNCHANGED <<remote, desired, durable, faults, changes, doubt>>

CheckAttestation ==
  /\ run.at = "checkAttestation"
  /\ IF view = att.snapshot THEN Settle(<<>>, "degraded")
     ELSE run' = [run EXCEPT !.at = "write", !.base = view]
  /\ UNCHANGED <<remote, desired, durable, faults, changes, doubt>>

Baseline ==
  /\ run.at = "baseline"
  /\ run' = [run EXCEPT !.at = "write", !.base = view]
  /\ UNCHANGED <<remote, desired, durable, faults, changes, doubt>>

-------------------------------------------------------------------------------
(* reconciliation.py: the write and what is made of its outcome            *)

Replace ==
  /\ Latest < MaxVersions
  /\ hist' = Append(hist, Version(run.want, TRUE))
  /\ view' \in (IF env.lag THEN {view, Latest + 1} ELSE {Latest + 1})

Write ==
  /\ run.at = "write"
  /\ Replace
  /\ run' = [run EXCEPT !.at = "readback", !.sent = Latest + 1]
  /\ UNCHANGED <<desired, durable, faults, changes, doubt>>

\* An error status, a transport error or an answer that is no JSON object.
RequestFails == Fault

\* A 5xx answer or a transport error: applied or not.
WriteAmbiguous ==
  /\ run.at = "write"
  /\ RequestFails
  /\ Replace \/ UNCHANGED remote
  /\ Goto("ambiguous")
  /\ doubt' = TRUE
  /\ UNCHANGED <<desired, durable, changes>>

\* HTTP 400: the official catalogue is read again and drops an item that was desired;
\* one more pass, without the shortcut (engine.py: _stale_rejection_retry).
WriteStale ==
  /\ run.at = "write"
  /\ ~run.retried
  /\ RequestFails
  /\ \E d \in Desireds :
       /\ ToSet(run.want) \ ToSet(d) # {}
       /\ desired' = d
       /\ run' = [IdleRun EXCEPT !.at = "dispatch", !.want = d, !.retried = TRUE]
  /\ UNCHANGED <<remote, durable, changes, doubt>>

Ambiguous == StrictRead("ambiguous", "attestBefore", "failed")

AttestBefore ==
  /\ run.at = "attestBefore"
  /\ run' = [run EXCEPT !.at = "attestRead", !.seen = view]
  /\ UNCHANGED <<remote, desired, durable, faults, changes, doubt>>

AttestRead == StrictRead("attestRead", "attestAfter", "unqualified")

AttestAfter ==
  /\ run.at = "attestAfter"
  /\ IF view = run.seen
     THEN Settle(<<SetAttestation(view), ClearPending>>, "proved")
     ELSE Settle(<<>>, "unqualified")
  /\ UNCHANGED <<remote, desired, durable, faults, changes, doubt>>

\* After an accepted write. With a baseline, the transition to the new snapshot is
\* awaited in the pending journal; without one it must be seen now.
Readback ==
  /\ run.at = "readback"
  /\ \E slots \in {FullRead, HiddenRead} :
       /\ Reading(slots)
       /\ IF ~Match(slots, run.want) THEN Settle(<<>>, "failed")
          ELSE IF ~Whole(slots) THEN Goto("opaqueSnapshot")
          ELSE IF run.base \notin {0, run.sent}
          THEN Settle(<<SetPending(run.base, run.sent, TRUE)>>, "unqualified")
          ELSE Goto("confirmSnapshot")
  /\ UNCHANGED <<remote, desired, durable, changes, doubt>>

ConfirmSnapshot ==
  /\ run.at = "confirmSnapshot"
  /\ IF view = run.sent
     THEN Settle(<<ClearPending, SetAttestation(run.sent)>>, "exact")
     ELSE Goto("confirmRead")
  /\ UNCHANGED <<remote, desired, durable, faults, changes, doubt>>

ConfirmRead == StrictRead("confirmRead", "confirmAgain", "failed")

ConfirmAgain ==
  /\ run.at = "confirmAgain"
  /\ IF view = run.sent
     THEN Settle(<<ClearPending, SetAttestation(run.sent)>>, "exact")
     ELSE Settle(<<>>, "failed")
  /\ UNCHANGED <<remote, desired, durable, faults, changes, doubt>>

OpaqueSnapshot ==
  /\ run.at = "opaqueSnapshot"
  /\ IF view = run.sent
     THEN Settle(<<SetAttestation(run.sent), ClearPending>>, "degraded")
     ELSE IF run.base # 0 /\ view = run.base
     THEN Settle(<<SetPending(run.base, run.sent, FALSE)>>, "unqualified")
     ELSE Settle(<<>>, "failed")
  /\ UNCHANGED <<remote, desired, durable, faults, changes, doubt>>

-------------------------------------------------------------------------------
(* Failures, durable writes, and what the engine records                   *)

\* A page that is no page, ends too early or goes on too long.
PageFails ==
  /\ run.at \in ReadPoints
  /\ RequestFails
  /\ Settle(<<>>, "failed")
  /\ UNCHANGED <<remote, desired, durable, changes, doubt>>

\* Any other Spotify call, the write's guard and a 4xx answer included, may fail the
\* pass. At the bound of the versions the guard always refuses.
CallFails ==
  /\ run.at \in SnapPoints \union {"write"}
  /\ \/ RequestFails
     \/ run.at = "write" /\ Latest = MaxVersions /\ UNCHANGED faults
  /\ Settle(<<>>, "failed")
  /\ UNCHANGED <<remote, desired, durable, changes, doubt>>

\* Optional evidence: its absence is tolerated.
OptionalFails ==
  /\ RequestFails
  /\ \/ run.at = "shortcut" /\ Goto("read")
     \/ run.at = "baseline" /\ Goto("write")
     \/ /\ run.at \in {"attestBefore", "attestRead", "attestAfter"}
        /\ Settle(<<>>, "unqualified")
  /\ UNCHANGED <<remote, desired, durable, changes, doubt>>

PendingOnBaseline(op) == [base |-> op.snapshot, expected |-> op.base, fp |-> run.want,
                          whole |-> op.whole, live |-> TRUE]

Pending(op) == [base |-> op.base, expected |-> op.snapshot, fp |-> run.want,
                whole |-> op.whole, live |-> TRUE]

Apply(op) ==
  /\ att' = IF op.name = "setAttestation"
            THEN [snapshot |-> op.snapshot, fp |-> run.want] ELSE att
  /\ pending' = CASE op.name = "setPending"   -> Pending(op)
                  [] op.name = "clearPending" -> None
                  [] OTHER                    -> pending
  /\ exact' = CASE op.name = "recordExact" -> run.want
                [] op.name = "clearExact"  -> None
                [] OTHER                   -> exact
  /\ degraded' = CASE op.name = "recordDegraded" -> run.want
                   [] op.name = "clearDegraded"  -> None
                   [] OTHER                      -> degraded

Persist ==
  /\ run.at = "settle"
  /\ run.todo # <<>>
  /\ Apply(Head(run.todo))
  /\ run' = [run EXCEPT !.todo = Tail(@)]
  /\ UNCHANGED <<remote, desired, faults, changes, doubt>>

\* PersistenceError: the pass fails, unless it was proving an ambiguous write (the exact
\* readback stands without its attestation) or was already recording (the cycle ends).
PersistFails ==
  /\ env.unsafe
  /\ run.at = "settle"
  /\ run.todo # <<>>
  /\ Fault
  /\ CASE run.result = "done"   -> run' = IdleRun
       [] run.result = "proved" -> Settle(<<>>, "unqualified")
       [] OTHER                 -> Settle(<<>>, "failed")
  /\ UNCHANGED <<remote, desired, durable, changes, doubt>>

RecordingKeepingLease(result) ==
  CASE result \in {"exact", "proved"} -> <<Simple("recordExact"), Simple("clearDegraded")>>
    [] result = "degraded" -> <<Simple("clearExact"), Simple("recordDegraded")>>
    [] OTHER               -> <<>>

\* engine.py: the leases after each outcome.
Recording(result) ==
  CASE result \in {"exact", "proved"}
                        -> <<Simple("recordExact"), Simple("clearDegraded")>>
    [] result = "degraded" /\ pending = None
                        -> <<Simple("clearExact"), Simple("recordDegraded")>>
    [] result = "failed" -> <<Simple("clearExact")>>
    [] OTHER             -> <<Simple("clearExact"), Simple("clearDegraded")>>

Settled ==
  /\ run.at = "settle"
  /\ run.todo = <<>>
  /\ run' = CASE run.result = "done" -> IdleRun
              [] run.result \in Outcomes ->
                   [IdleRun EXCEPT !.at = "settle", !.want = run.want,
                                   !.todo = Recording(run.result)]
              [] OTHER -> [run EXCEPT !.at = run.result, !.result = "done"]
  /\ doubt' = (doubt /\ run.result \notin Outcomes \ {"failed"})
  /\ UNCHANGED <<remote, desired, durable, faults, changes>>

-------------------------------------------------------------------------------
Step ==
  \/ Begin \/ Dispatch \/ PendingSnapshot \/ Shortcut \/ FirstPage \/ Read
  \/ Resolve \/ RestableRead \/ RestableSnapshot
  \/ Compare \/ StableBefore \/ StableRead \/ StableAfter
  \/ CheckAttestation \/ Baseline
  \/ Write \/ Ambiguous \/ AttestBefore \/ AttestRead \/ AttestAfter
  \/ Readback \/ ConfirmSnapshot \/ ConfirmRead \/ ConfirmAgain \/ OpaqueSnapshot
  \/ Persist \/ Settled

Trouble ==
  WriteAmbiguous \/ WriteStale \/ PageFails \/ CallFails \/ OptionalFails \/ PersistFails \/ Crash

World == Edit \/ Propagate \/ ChangeDesired \/ ExpireLease \/ ExpirePending

Next == (Skip \/ Step \/ Trouble \/ World) /\ UNCHANGED env

Spec == Init /\ [][Next]_vars

-------------------------------------------------------------------------------
(* Scheduling: the engine thread runs, Spotify propagates, leases and the pending  *)
(* confirmation time out. Edits, desired changes and troubles are never fair.       *)

Fairness ==
  /\ WF_vars(Step /\ UNCHANGED env)
  /\ WF_vars(Propagate /\ UNCHANGED env)
  /\ WF_vars(ExpireLease /\ UNCHANGED env)
  /\ WF_vars(ExpirePending /\ UNCHANGED env)

FairSpec == Spec /\ Fairness

-------------------------------------------------------------------------------
(* Properties                                                              *)

OpType == [name : {"setAttestation", "setPending", "clearPending", "recordExact",
                   "clearExact", "recordDegraded", "clearDegraded"},
           base : 0..MaxVersions, snapshot : 0..MaxVersions, whole : BOOLEAN]

Places == SnapPoints \union ReadPoints \union {"idle", "dispatch", "compare", "write", "settle"}
Slots  == {c[i] : c \in Contents, i \in 1..2} \union {Hidden, Unread}
RunType == [at : Places, want : Desireds \union {None}, quick : BOOLEAN, retried : BOOLEAN,
            base : 0..MaxVersions, seen : 0..MaxVersions, sent : 0..MaxVersions,
            page : Slots, slots : Slots \X Slots, todo : Seq(OpType),
            result : Outcomes \union {"done", "dispatch", "compare"}]

\* Types, and that every snapshot id the engine holds names a version of the destination.
TypeOK ==
  /\ env \in Environments
  /\ hist \in Seq([items : Contents, own : BOOLEAN])
  /\ Latest \in 1..MaxVersions /\ view \in 1..Latest
  /\ desired \in Desireds
  /\ att # None => att \in AttestationType /\ att.snapshot <= Latest
  /\ pending # None => pending \in PendingType /\ pending.expected <= Latest
  /\ {exact, degraded} \subseteq Desireds \union {None}
  /\ run \in RunType
  /\ {run.base, run.seen, run.sent} \subseteq 0..Latest
  /\ run.at # "idle" => run.want \in Desireds
  /\ faults \in 0..env.faults /\ changes \in 0..MaxChanges /\ doubt \in BOOLEAN

\* The destination held fp after the engine's last write to it (or with it).
HeldSinceOwnWrite(fp) ==
  \E v \in 1..Latest :
    /\ hist[v].items = fp
    /\ \A w \in v + 1 .. Latest : ~hist[w].own

\* The exact lease is what lets a cycle leave the destination unread for six hours: while
\* no pass runs, the engine itself has not overwritten what the lease vouches for. (Not
\* through crashes and failing SQLite: see DoubtIsResolved.)
ExactLeaseTruthful ==
  ~env.crashes /\ ~env.unsafe =>
    (run.at = "idle" /\ exact # None /\ pending = None => HeldSinceOwnWrite(exact))

\* The same of the degraded lease together with the attestation it needs, through crashes
\* and failing SQLite, as long as the snapshot endpoint is current.
DegradedLeaseTruthful ==
  ~env.lag =>
    (run.at = "idle" /\ pending = None /\ degraded # None /\ SkipDegraded(degraded)
       => HeldSinceOwnWrite(degraded))

\* A pending confirmation waits for the snapshot of a write the engine really made with
\* the content it names, so that seeing that snapshot later may count as a verified write.
PendingTruthful ==
  pending # None => hist[pending.expected] = Version(pending.fp, TRUE)

\* A write whose outcome a 5xx or a transport error left open is never skipped over: some
\* readback or snapshot evidence settles it first (ARCHITECTURE.md invariant 9).
DoubtIsResolved ==
  run.at = "idle" /\ CanSkip(desired) => ~doubt

\* That, while the process lives and SQLite works.
DoubtIsResolvedAlive == ~env.crashes /\ ~env.unsafe => DoubtIsResolved

\* Unchanged desired state causes no write (ARCHITECTURE.md, Destination reconciliation):
\* where nobody else edits, reads are whole and snapshots current, a write is never sent to
\* a destination that already holds what is desired, a write that was applied before a
\* crash or an unclear answer included.
NoRepeatedWrite ==
  env.edits = 0 /\ ~env.lag /\ ~env.opaque => (run.at = "write" => Items # run.want)

\* Once edits, changes and troubles stop, the destination gets and keeps what is desired.
Converges == <>[](Items = desired)
===============================================================================
