--------------------------- MODULE PartialAdditions ---------------------------
(***************************************************************************)
(* Add-only mode of one playlist (partial_reconciliation.py and            *)
(* _partial_reconcile_playlist of engine.py): while a source's catalogue   *)
(* is not covered, the engine only inserts episodes it has positively seen *)
(* and that the destination lacks. A durable intent with the expected      *)
(* content fences a POST whose outcome is not known: through crashes, and  *)
(* through a request that Spotify carries out after it has timed out.      *)
(* While every source is covered the playlist is skipped on its exact      *)
(* lease or reconciled normally; module Reconciliation has the detail of   *)
(* that, here it is one step.  A normal pass that finds the destination as *)
(* desired writes nothing and drops the intent all the same: a POST that   *)
(* is carried out after that finds no fence (withdrawn).                   *)
(***************************************************************************)
EXTENDS Integers, Sequences, FiniteSets, SequencesExt

CONSTANTS Fulls,         \* full desired contents of a covered playlist
          Candidates,    \* positively observed contents of an uncovered one
          Foreign,       \* contents somebody else may put there
          None,          \* no intent, no lease
          MaxItems,      \* max_episodes of the playlist
          Crashes,       \* TRUE if the process may die
          StoreMayFail,  \* TRUE if a SQLite write may fail
          MaxChanges, MaxEdits, MaxFaults   \* bounds

Contents == Fulls \union Candidates \union Foreign
Episodes == UNION {ToSet(s) : s \in Contents}

ASSUME ConstantsAssumption ==
  /\ Fulls # {} /\ Candidates # {}
  /\ Contents \subseteq Seq(Episodes) /\ None \notin Seq(Episodes)
  /\ {MaxItems, MaxChanges, MaxEdits, MaxFaults} \subseteq Nat
  /\ \A s \in Fulls \union Candidates : IsInjective(s) /\ Len(s) <= MaxItems

VARIABLES
  dest,      \* the destination's items
  inflight,  \* the POSTs that may still be carried out: [post, additions]
  intent,    \* the durable intent: the expected content
  lease,     \* desired content of the exact destination verification
  settling,  \* a pending snapshot confirmation of a normal reconciliation exists
  covered,   \* every assigned source has proven coverage
  desired,   \* the full desired content when covered, the candidates otherwise
  run,       \* the engine's place and what it holds in memory
  doubt,     \* history: a POST ended in a 5xx or transport error nothing has settled
  withdrawn, \* history: a pass that wrote nothing dropped the intent of a POST in flight
  changes, edits, faults

durable == <<intent, lease, settling>>
sources == <<covered, desired>>
bounds  == <<changes, edits, faults>>
history == <<doubt, withdrawn>>
vars    == <<dest, inflight, durable, sources, run, history, bounds>>

IdleRun == [at |-> "idle", additions |-> <<>>, expected |-> <<>>]

Places == {"idle", "fence", "confirm", "resolved", "read", "begin", "ready", "post",
           "ambiguous", "verify", "withdraw", "verified", "added"}

Init ==
  /\ dest \in Fulls \union Foreign
  /\ inflight = {}
  /\ intent = None /\ lease = None /\ settling = FALSE
  /\ covered = TRUE /\ desired \in Fulls
  /\ run = IdleRun
  /\ doubt = FALSE /\ withdrawn = FALSE
  /\ changes = 0 /\ edits = 0 /\ faults = 0

Fault == faults < MaxFaults /\ faults' = faults + 1 /\ UNCHANGED <<changes, edits>>

Goto(place) == run' = [run EXCEPT !.at = place]
Stop        == run' = IdleRun

-------------------------------------------------------------------------------
(* The world                                                               *)

\* Source refreshes, between two turns of the playlist.
ChangeSources ==
  /\ run.at = "idle"
  /\ changes < MaxChanges
  /\ changes' = changes + 1
  /\ \/ covered' = TRUE /\ desired' \in Fulls
     \/ covered' = FALSE /\ desired' \in Candidates
  /\ UNCHANGED <<dest, inflight, durable, run, edits, faults, history>>

Edit ==
  /\ edits < MaxEdits
  /\ edits' = edits + 1
  /\ dest' \in Foreign
  /\ UNCHANGED <<inflight, durable, sources, run, changes, faults, history>>

\* A timed-out POST is carried out after all, or is lost.
Land ==
  /\ \E request \in inflight :
       /\ dest' \in {request.additions \o dest, dest}
       /\ inflight' = inflight \ {request}
  /\ UNCHANGED <<durable, sources, run, bounds, history>>

LeaseNeverExpires == FALSE

ExpireLease ==
  /\ lease # None
  /\ lease' = None
  /\ UNCHANGED <<dest, inflight, intent, settling, sources, run, bounds, history>>

Crash ==
  /\ Crashes
  /\ run.at # "idle"
  /\ Fault
  /\ Stop
  /\ UNCHANGED <<dest, inflight, durable, sources, history>>

-------------------------------------------------------------------------------
(* A covered playlist                                                      *)

CanSkip == covered /\ ~settling /\ lease = desired

Skip ==
  /\ run.at = "idle"
  /\ CanSkip
  /\ UNCHANGED vars

\* Neither mode is authorised: the destination is preserved.
Preserve ==
  /\ run.at = "idle"
  /\ ~covered /\ settling
  /\ UNCHANGED vars

\* The intent is dropped after a normal pass (quietly kept if SQLite refuses).
DropIntent ==
  \/ intent' = None /\ UNCHANGED bounds
  \/ UNCHANGED intent /\ StoreMayFail /\ Fault

\* A normal reconciliation reads the destination as desired: it records the lease and drops
\* the intent without a write, whatever POST is still in flight.
NormalVerifies ==
  /\ run.at = "idle"
  /\ covered /\ ~CanSkip
  /\ dest = desired
  /\ lease' = desired /\ settling' = FALSE
  /\ DropIntent
  /\ doubt' = FALSE
  /\ withdrawn' = (inflight # {} /\ (withdrawn \/ intent' = None))
  /\ UNCHANGED <<dest, inflight, sources, run>>

\* It replaces the content: the lease is recorded, or the snapshot is awaited. No POST is
\* carried out later than a replacement of the whole content.
NormalReplaces ==
  /\ run.at = "idle"
  /\ covered /\ ~CanSkip
  /\ dest # desired
  /\ dest' = desired
  /\ inflight' = {}
  /\ \/ lease' = desired /\ settling' = FALSE /\ DropIntent
     \/ lease' = None /\ settling' = TRUE /\ intent' = None /\ Fault
  /\ doubt' = FALSE /\ withdrawn' = FALSE
  /\ UNCHANGED <<sources, run>>

\* It fails: before its write, or after one that may have been carried out.
NormalFails ==
  /\ run.at = "idle"
  /\ covered /\ ~CanSkip
  /\ Fault
  /\ \/ UNCHANGED <<dest, inflight, withdrawn>>
     \/ dest # desired /\ dest' = desired /\ inflight' = {} /\ withdrawn' = FALSE
  /\ lease' = None
  /\ UNCHANGED <<intent, settling, sources, run, doubt>>

-------------------------------------------------------------------------------
(* reconcile_partial_additions                                             *)

BeginPartial ==
  /\ run.at = "idle"
  /\ ~covered /\ ~settling
  /\ Goto("fence")
  /\ UNCHANGED <<dest, inflight, durable, sources, bounds, history>>

\* An unresolved intent is only ever resolved, never followed by an insertion.
Fence ==
  /\ run.at = "fence"
  /\ Goto(IF intent = None THEN "read" ELSE "confirm")
  /\ UNCHANGED <<dest, inflight, durable, sources, bounds, history>>

\* _confirm_expected on the old intent: a complete read between two equal snapshots.
Confirm ==
  /\ run.at = "confirm"
  /\ IF dest = intent THEN Goto("resolved") ELSE Stop
  /\ doubt' = (doubt /\ dest # intent)
  /\ UNCHANGED <<dest, inflight, durable, sources, bounds, withdrawn>>

\* The candidates the destination lacks, in their order.
Missing(candidates, current) ==
  LET positions == {i \in DOMAIN candidates : candidates[i] \notin ToSet(current)}
      Nth(n) == CHOOSE i \in positions : Cardinality({j \in positions : j <= i}) = n
  IN  [n \in 1..Cardinality(positions) |-> candidates[Nth(n)]]

\* The complete prewrite read: nothing to add and a full destination end the turn.
Read ==
  /\ run.at = "read"
  /\ LET additions == Missing(desired, dest)
     IN  IF additions = <<>> \/ Len(additions) + Len(dest) > MaxItems THEN Stop
         ELSE run' = [at |-> "begin", additions |-> additions, expected |-> additions \o dest]
  /\ UNCHANGED <<dest, inflight, durable, sources, bounds, history>>

BeginIntentInMemory ==
  /\ run.at = "begin"
  /\ Goto("ready")
  /\ UNCHANGED <<dest, inflight, durable, sources, bounds, history>>

BeginIntent ==
  /\ run.at = "begin"
  /\ intent = None
  /\ intent' = run.expected
  /\ Goto("ready")
  /\ UNCHANGED <<dest, inflight, lease, settling, sources, bounds, history>>

\* before_write: a requested stop withdraws the intent of a POST that was never sent.
BeforeWrite ==
  /\ run.at = "ready"
  /\ Goto("post") \/ Goto("withdraw")
  /\ UNCHANGED <<dest, inflight, durable, sources, bounds, history>>

Post ==
  /\ run.at = "post"
  /\ dest' = run.additions \o dest
  /\ Goto("verify")
  /\ UNCHANGED <<inflight, durable, sources, bounds, history>>

\* An answer below 500 proves that nothing was inserted.
PostRejected ==
  /\ run.at = "post"
  /\ Fault
  /\ Goto("withdraw")
  /\ UNCHANGED <<dest, inflight, durable, sources, history>>

\* 5xx or transport error: carried out, still to be carried out, or lost.
PostAmbiguous ==
  /\ run.at = "post"
  /\ Fault
  /\ \/ dest' = run.additions \o dest /\ UNCHANGED inflight
     \/ /\ inflight' = inflight \union {[post |-> faults', additions |-> run.additions]}
        /\ UNCHANGED dest
     \/ UNCHANGED <<dest, inflight>>
  /\ Goto("ambiguous")
  /\ doubt' = TRUE
  /\ UNCHANGED <<durable, sources, withdrawn>>

AmbiguousForgotten ==
  /\ run.at \in {"ambiguous", "verify"}
  /\ IF dest = run.expected THEN Goto("verified") ELSE Goto("withdraw")
  /\ UNCHANGED <<dest, inflight, durable, sources, bounds, history>>

\* Only the exact expected content counts; otherwise the intent stays.
Verify ==
  /\ run.at \in {"ambiguous", "verify"}
  /\ IF dest = run.expected THEN Goto("verified") ELSE Stop
  /\ doubt' = (doubt /\ dest # run.expected)
  /\ UNCHANGED <<dest, inflight, durable, sources, bounds, withdrawn>>

\* journal.clear after a resolved, a withdrawn and a verified POST.
ClearIntent ==
  /\ run.at \in {"resolved", "withdraw", "verified"}
  /\ intent' = None
  /\ IF run.at = "verified" THEN Goto("added") ELSE Stop
  /\ UNCHANGED <<dest, inflight, lease, settling, sources, bounds, history>>

\* The engine drops the leases after a verified addition; a PersistenceError is suppressed.
DropLease ==
  /\ run.at = "added"
  /\ \/ lease' = None /\ UNCHANGED bounds
     \/ StoreMayFail /\ Fault /\ UNCHANGED lease
  /\ Stop
  /\ UNCHANGED <<dest, inflight, intent, settling, sources, history>>

\* A read or snapshot call fails, the destination moved under it, or SQLite refuses.
CallFails ==
  /\ \/ run.at \in {"confirm", "read", "ambiguous", "verify"}
     \/ StoreMayFail /\ run.at \in {"begin", "resolved", "withdraw", "verified"}
  /\ Fault
  /\ Stop
  /\ UNCHANGED <<dest, inflight, durable, sources, history>>

-------------------------------------------------------------------------------
Partial ==
  \/ BeginPartial \/ Fence \/ Confirm \/ Read \/ BeginIntent \/ BeforeWrite
  \/ Post \/ Verify \/ ClearIntent \/ DropLease

Normal == NormalVerifies \/ NormalReplaces

Trouble == PostRejected \/ PostAmbiguous \/ CallFails \/ NormalFails \/ Crash

World == ChangeSources \/ Edit \/ Land \/ ExpireLease

Next == Skip \/ Preserve \/ Normal \/ Partial \/ Trouble \/ World

Spec == Init /\ [][Next]_vars

\* The engine thread runs; a lease expires; a timed-out request does not stay for ever.
Fairness == WF_vars(Partial) /\ WF_vars(Normal) /\ WF_vars(ExpireLease) /\ WF_vars(Land)

FairSpec == Spec /\ Fairness

-------------------------------------------------------------------------------
(* Properties                                                              *)

Requests == [post : 1..MaxFaults, additions : Seq(Episodes)]

\* Types; what is added is never empty and is in front of what is expected.
TypeOK ==
  /\ dest \in Seq(Episodes) /\ inflight \subseteq Requests
  /\ intent # None => intent \in Seq(Episodes) /\ Len(intent) \in 1..MaxItems
  /\ lease \in Fulls \union {None}
  /\ {settling, covered, doubt, withdrawn} \subseteq BOOLEAN
  /\ desired \in IF covered THEN Fulls ELSE Candidates
  /\ run \in [at : Places, additions : Seq(Episodes), expected : Seq(Episodes)]
  /\ IsPrefix(run.additions, run.expected)
  /\ run.expected # <<>> => run.at # "idle" /\ run.additions # <<>>
  /\ changes \in 0..MaxChanges /\ edits \in 0..MaxEdits /\ faults \in 0..MaxFaults

\* From the moment a POST may be sent until its outcome is known, across crashes, failed
\* readbacks and requests that are carried out late, the durable intent is there. Only a
\* normal pass that found the destination exactly as desired may have dropped the intent of
\* a POST that is carried out later still.
OpenPostIsFenced ==
  /\ run.at \in {"post", "ambiguous", "verify"} => intent # None
  /\ inflight # {} => intent # None \/ withdrawn

\* Where nobody else edits, no episode is inserted twice, as long as no such pass has
\* dropped the intent of a POST in flight; the next replacement of the content mends it.
NoDuplicates == edits = 0 /\ ~withdrawn => IsInjective(dest)

\* Mutating transport/5xx failures remain ambiguous until evidence resolves them
\* (ARCHITECTURE.md invariant 9): no cycle skips a playlist whose last POST is in doubt.
DoubtIsResolved == run.at = "idle" /\ CanSkip => ~doubt

\* Once the sources stay covered, the intent is dropped and the destination is exact.
CoverageResolves ==
  <>[]covered => <>[](intent = None /\ dest = desired)
===============================================================================
