-------------------------- MODULE Provisioning_proofs --------------------------
(***************************************************************************)
(* Proofs about the activation of managed playlists, for every set of      *)
(* templates, sources and destinations, and every number of requests and   *)
(* faults.                                                                 *)
(*                                                                         *)
(* Every write of the managed state keeps it valid, and what it leaves out *)
(* of that, the suspended playlists, fit to be repaired (Sound); the other *)
(* parts of the inductive invariant say what a request knows between its   *)
(* steps (Midway), that what is recorded anywhere was really created       *)
(* (Recorded), and, where writes succeed, that what the owner let go is    *)
(* named nowhere (LetGo).                                                  *)
(***************************************************************************)
EXTENDS Provisioning, TLAPS

StateType ==
  [playlists: [Templates -> Playlist \cup {None}],
   templates: SUBSET Templates,
   quarantined: SUBSET Templates,
   sources: [Sources -> {"on", "off", "gone"}]]

RunPlaces == {"idle", "down", "create", "record", "finalize", "clear"}

RunType ==
  [at: RunPlaces, boot: BOOLEAN, destination: Destinations \cup {None}]

(* Of every playlist, suspended or not: its draft exists, and its sources. *)
Sound(s) ==
  /\ Managed(s) \subseteq s.templates \cup s.quarantined
  /\ \A t \in Managed(s) : \A x \in s.playlists[t].sources : s.sources[x] # "gone"
  /\ \A t \in Enabled(s) : s.playlists[t].sources \cap On(s) # {}

Good(s) == Valid(s) /\ Sound(s)

PendingFed == journal # None => journal.sources \cap On(state) # {}

(* The intent's template is managed with the intent's destination. *)
Applied ==
  /\ journal.template \in Managed(state)
  /\ state.playlists[journal.template].destination = journal.destination

Midway ==
  /\ run.at \in {"create", "record"} => Started
  /\ run.at = "record" => /\ run.destination \in Destinations
                          /\ \A t \in Templates : Loose(t) \subseteq {run.destination}
  /\ run.at = "clear" => Known /\ Applied

Recorded ==
  /\ \A t \in Managed(state) : remote[state.playlists[t].destination] # None
  /\ \A d \in released : remote[d] # None
  /\ Known => remote[journal.destination] # None
  /\ run.at = "record" => remote[run.destination] # None

LetGo ==
  "disk" \notin env =>
    /\ \A t \in Managed(state) : state.playlists[t].destination \notin released
    /\ Known => journal.destination \notin released
    /\ run.at = "record" => run.destination \notin released
    /\ run.at \in {"idle", "create", "record"} /\ Known => ~Applied

IInv ==
  /\ TypeOK /\ Good(state) /\ PendingFed /\ Midway /\ Recorded /\ LetGo
  /\ EveryCreationAccounted /\ CreationsDoNotOverlap

-------------------------------------------------------------------------------
(* What the assignments to parts of the managed state make of it. *)
LEMMA PlaylistAssigned ==
  ASSUME NEW s \in StateType, NEW t \in Templates, NEW q \in Playlist \cup {None}
  PROVE  LET new == [s EXCEPT !.playlists[t] = q]
         IN  /\ new \in StateType
             /\ new.playlists = [s.playlists EXCEPT ![t] = q]
             /\ new.templates = s.templates /\ new.quarantined = s.quarantined
             /\ new.sources = s.sources
BY DEF StateType

LEMMA SourceAssigned ==
  ASSUME NEW s \in StateType, NEW x \in Sources, NEW how \in {"on", "off", "gone"}
  PROVE  LET new == [s EXCEPT !.sources[x] = how]
         IN  /\ new \in StateType
             /\ new.sources = [s.sources EXCEPT ![x] = how]
             /\ new.templates = s.templates /\ new.quarantined = s.quarantined
             /\ new.playlists = s.playlists
BY DEF StateType

Drafts(s, ts, qs) == [s EXCEPT !.templates = ts, !.quarantined = qs]

LEMMA DraftsAssigned ==
  ASSUME NEW s \in StateType, NEW ts \in SUBSET Templates, NEW qs \in SUBSET Templates
  PROVE  /\ Drafts(s, ts, qs) \in StateType
         /\ Drafts(s, ts, qs).templates = ts /\ Drafts(s, ts, qs).quarantined = qs
         /\ Drafts(s, ts, qs).sources = s.sources
         /\ Drafts(s, ts, qs).playlists = s.playlists
BY DEF Drafts, StateType

(* A source may change its state: who is managed, enabled and suspended    *)
(* stays.                                                                  *)
LEMMA SamePlaylists ==
  ASSUME NEW s, NEW new, new.playlists = s.playlists, new.templates = s.templates,
         new.quarantined = s.quarantined
  PROVE  /\ Managed(new) = Managed(s) /\ Enabled(new) = Enabled(s)
         /\ Effective(new) = Effective(s) /\ Active(new) = Active(s)
BY DEF Managed, Enabled, Effective, Active, Suspended

LEMMA ValidIfSound ==
  ASSUME NEW s, Sound(s), Effective(s) \subseteq s.templates,
         \A t, u \in Active(s) :
           s.playlists[t].destination = s.playlists[u].destination => t = u
  PROVE  Valid(s)
BY DEF Valid, Sound, Effective, Active

(* A write puts the new state in place or leaves the old one. *)
LEMMA GoodEither ==
  ASSUME Good(state), NEW new, Good(new), state' \in {state, new}
  PROVE  Good(state)'
<1>1. Good(state')
  OBVIOUS
<1>2. QED
  BY <1>1 DEF Good, Valid, Sound, Managed, Enabled, Effective, Active, Suspended, On

(* The steps of a request or a start, and how they move on. *)
LEMMA RunMoves ==
  /\ Idle \in RunType /\ Idle.at = "idle" /\ Down \in RunType /\ Down.at = "down"
  /\ \A d \in Destinations \cup {None}, at \in RunPlaces, boot \in BOOLEAN :
       /\ Step(at, boot, d) \in RunType
       /\ Step(at, boot, d).at = at /\ Step(at, boot, d).destination = d
  /\ \A at \in RunPlaces : run \in RunType =>
       /\ Then(at) \in RunType
       /\ Then(at).at = at /\ Then(at).destination = run.destination
BY DEF Idle, Down, Step, Then, RunType, RunPlaces

(* The outcomes of a write, and where the request stands after it. *)
LEMMA WriteEffect ==
  ASSUME TypeOK, NEW o, NEW next, Write(o, next)
  PROVE  /\ o \in {"done", "lost", "late"}
         /\ "disk" \notin env => o = "done"
         /\ faults' \in 0..MaxFaults
         /\ \/ o = "done" /\ run' = next
            \/ o # "done" /\ run' \in {Idle, Down}
BY ProvisioningAssumption DEF Write, Outcomes, Abandoned, TypeOK

LEMMA IntentMade ==
  ASSUME NEW t \in Templates, NEW chosen \in SUBSET Sources, chosen # {}
  PROVE  LET j == [template |-> t, sources |-> chosen, destination |-> None]
         IN  /\ j \in Intent /\ j # None
             /\ j.template = t /\ j.sources = chosen /\ j.destination = None
<1>1. chosen \in (SUBSET Sources) \ {{}}
  OBVIOUS
<1>2. [template |-> t, sources |-> chosen, destination |-> None] \in Intent
  BY <1>1 DEF Intent
<1>3. QED
  BY <1>2, NoneAssumption

LEMMA IntentKnown ==
  ASSUME NEW j \in Intent, NEW d \in Destinations
  PROVE  LET k == [j EXCEPT !.destination = d]
         IN  /\ k \in Intent /\ k # None /\ k.destination # None
             /\ k.template = j.template /\ k.sources = j.sources /\ k.destination = d
<1>1. [j EXCEPT !.destination = d] \in Intent
  BY DEF Intent
<1>2. QED
  BY <1>1, NoneAssumption, ProvisioningAssumption DEF Intent

(* Only the journal, the progress and the bounds have changed. *)
LEMMA StateKept ==
  ASSUME IInv, UNCHANGED <<state, remote, released>>
  PROVE  /\ Good(state)'
         /\ Managed(state)' = Managed(state) /\ On(state)' = On(state)
         /\ \A t \in Templates : Loose(t)' = Loose(t)
BY GoodEither DEF IInv, Managed, On, Loose

-------------------------------------------------------------------------------
LEMMA ActivateKeeps ==
  ASSUME IInv, UNCHANGED env, NEW t \in Templates, NEW chosen \in SUBSET Sources,
         Activate(t, chosen)
  PROVE  IInv'
<1> DEFINE j == [template |-> t, sources |-> chosen, destination |-> None]
<1>1. /\ journal = None /\ run = Idle /\ chosen # {} /\ chosen \subseteq On(state)
      /\ t \in Templates \ Managed(state)
      /\ UNCHANGED <<state, remote, released>> /\ edits < MaxEdits /\ edits' = edits + 1
  BY DEF Activate, Request, IInv, TypeOK
<1>2. PICK o : SaveJournal(j, o) /\ Write(o, Then("create"))
  BY DEF Activate
<1>3. /\ j \in Intent /\ j # None
      /\ j.template = t /\ j.sources = chosen /\ j.destination = None
  BY <1>1, IntentMade
<1>4. TypeOK
  BY DEF IInv
<1>5. /\ o \in {"done", "lost", "late"} /\ faults' \in 0..MaxFaults
      /\ \/ o = "done" /\ run' = Then("create")
         \/ o # "done" /\ run' \in {Idle, Down}
  BY <1>2, <1>4, WriteEffect
<1> HIDE DEF j
<1>6. journal' \in {journal, j} /\ (o # "lost" => journal' = j)
  BY <1>2, <1>5 DEF SaveJournal
<1>7. run'.at \in {"create", "idle", "down"} /\ (run'.at = "create" => o = "done")
  BY <1>4, <1>5, RunMoves DEF TypeOK, RunType, RunPlaces
<1>8. TypeOK'
  <2>1. run' \in RunType
    BY <1>4, <1>5, RunMoves DEF TypeOK, RunType, RunPlaces
  <2>2. edits' \in 0..MaxEdits
    BY <1>1, <1>4, ProvisioningAssumption DEF TypeOK
  <2>3. journal' \in Intent \cup {None}
    BY <1>3, <1>4, <1>6 DEF TypeOK
  <2>4. QED
    BY <1>1, <1>4, <1>5, <2>1, <2>2, <2>3 DEF TypeOK, RunType, RunPlaces
<1>9. /\ Good(state)'
      /\ Managed(state)' = Managed(state) /\ On(state)' = On(state)
      /\ \A u \in Templates : Loose(u)' = Loose(u)
  BY <1>1, StateKept
<1>10. \A u \in Templates : Loose(u) = {}
  BY <1>1 DEF IInv, EveryCreationAccounted
<1>11. PendingFed'
  BY <1>1, <1>3, <1>6, <1>9 DEF PendingFed
<1>12. Midway'
  BY <1>3, <1>6, <1>7, <1>9, <1>10 DEF Midway, Started
<1>13. Recorded'
  BY <1>1, <1>3, <1>6, <1>7, <1>9 DEF Recorded, Known, IInv
<1>14. LetGo'
  BY <1>1, <1>3, <1>6, <1>7, <1>9 DEF LetGo, Known, IInv
<1>15. EveryCreationAccounted' /\ CreationsDoNotOverlap'
  BY <1>9, <1>10 DEF EveryCreationAccounted, CreationsDoNotOverlap
<1>16. QED
  BY <1>8, <1>9, <1>11, <1>12, <1>13, <1>14, <1>15 DEF IInv

(* The journal is cleared, or not, when nothing depends on it any more. *)
LEMMA ClearingKeeps ==
  ASSUME IInv, UNCHANGED <<env, state, remote, released, edits>>,
         \A t \in Templates : Loose(t) = {},
         NEW o, SaveJournal(None, o), Write(o, Idle)
  PROVE  IInv'
<1>1. TypeOK
  BY DEF IInv
<1>2. /\ o \in {"done", "lost", "late"} /\ faults' \in 0..MaxFaults
      /\ "disk" \notin env => o = "done"
      /\ run' \in {Idle, Down}
  BY <1>1, WriteEffect
<1>3. journal' \in {journal, None} /\ (o # "lost" => journal' = None)
  BY <1>2 DEF SaveJournal
<1>4. run' \in RunType /\ run'.at \in {"idle", "down"}
  BY <1>2, RunMoves
<1>5. TypeOK'
  BY <1>1, <1>2, <1>3, <1>4 DEF TypeOK, RunType, RunPlaces
<1>6. /\ Good(state)'
      /\ Managed(state)' = Managed(state) /\ On(state)' = On(state)
      /\ \A t \in Templates : Loose(t)' = Loose(t)
  BY StateKept
<1>7. PendingFed'
  BY <1>3, <1>6 DEF IInv, PendingFed
<1>8. Midway'
  BY <1>4 DEF Midway
<1>9. Recorded'
  BY <1>3, <1>4, <1>6 DEF IInv, Recorded, Known
<1>10. LetGo'
  BY <1>2, <1>3, <1>4, <1>6 DEF IInv, LetGo, Known
<1>11. EveryCreationAccounted' /\ CreationsDoNotOverlap'
  BY <1>4, <1>6 DEF EveryCreationAccounted, CreationsDoNotOverlap
<1>12. QED
  BY <1>5, <1>6, <1>7, <1>8, <1>9, <1>10, <1>11 DEF IInv

LEMMA ClearKeeps ==
  ASSUME IInv, UNCHANGED env, CreateRefused \/ FinalizedBefore \/ ClearJournal
  PROVE  IInv'
<1>1. UNCHANGED <<state, remote, released, edits>>
  BY DEF CreateRefused, FinalizedBefore, ClearJournal
<1>2. PICK o : SaveJournal(None, o) /\ Write(o, Idle)
  BY DEF CreateRefused, FinalizedBefore, ClearJournal
<1>3. \A t \in Templates : Loose(t) = {}
  <2>1. CASE CreateRefused
    BY <2>1 DEF CreateRefused, IInv, CreationsDoNotOverlap
  <2>2. CASE FinalizedBefore \/ ClearJournal
    <3>1. Known /\ Applied
      BY <2>2 DEF FinalizedBefore, ClearJournal, Applied, IInv, Midway
    <3>2. \A t \in Templates : Loose(t) \subseteq {journal.destination}
      BY <3>1 DEF IInv, EveryCreationAccounted, Known, Started
    <3>3. \A t \in Templates : journal.destination \notin Loose(t)
      BY <3>1 DEF Applied, Loose
    <3>4. QED
      BY <3>2, <3>3
  <2>3. QED
    BY <2>1, <2>2
<1>4. QED
  BY <1>1, <1>2, <1>3, ClearingKeeps

(* Nothing durable changes, and no request is left in the middle. *)
LEMMA QuietKeeps ==
  ASSUME IInv, UNCHANGED env,
         \/ NothingToFinalize \/ FinalizeSuspended \/ FinalizeRefused
         \/ PageView \/ Crash \/ StartProcess
  PROVE  IInv'
<1>1. TypeOK
  BY DEF IInv
<1>2. UNCHANGED <<journal, state, remote, released, edits>>
  BY DEF NothingToFinalize, FinalizeSuspended, FinalizeRefused, PageView, Crash, StartProcess
<1>2a. faults' \in 0..MaxFaults
  <2>1. UNCHANGED faults \/ (faults < MaxFaults /\ faults' = faults + 1)
    BY DEF NothingToFinalize, FinalizeSuspended, FinalizeRefused, PageView, Crash, StartProcess
  <2>2. QED
    BY <1>1, <2>1, ProvisioningAssumption DEF TypeOK
<1>3. /\ run' \in RunType /\ run'.at \in {"idle", "down", "finalize"}
      /\ run'.at = "idle" /\ Known => ~Applied
  <2>1. CASE NothingToFinalize
    BY <2>1, RunMoves DEF NothingToFinalize
  <2>2. CASE FinalizeRefused
    BY <2>2, RunMoves DEF FinalizeRefused, Abandoned, Applied
  <2>2a. CASE FinalizeSuspended
    BY <2>2a, RunMoves DEF FinalizeSuspended, Applied
  <2>3. CASE PageView
    <3>1. run \in RunType
      BY <1>1 DEF TypeOK, RunType, RunPlaces
    <3>2. "finalize" \in RunPlaces
      BY DEF RunPlaces
    <3>3. QED
      BY <2>3, <3>1, <3>2, RunMoves DEF PageView
  <2>4. CASE Crash
    BY <2>4, RunMoves DEF Crash
  <2>5. CASE StartProcess
    BY <2>5 DEF StartProcess, Step, RunType, RunPlaces
  <2>6. QED
    BY <2>1, <2>2, <2>2a, <2>3, <2>4, <2>5
<1>4. TypeOK'
  BY <1>1, <1>2, <1>2a, <1>3 DEF TypeOK, RunType, RunPlaces
<1>5. /\ Good(state)'
      /\ Managed(state)' = Managed(state) /\ On(state)' = On(state)
      /\ \A t \in Templates : Loose(t)' = Loose(t)
  BY <1>2, StateKept
<1>6. PendingFed' /\ Midway'
  BY <1>2, <1>3, <1>5 DEF IInv, PendingFed, Midway
<1>7. Recorded'
  BY <1>2, <1>3, <1>5 DEF IInv, Recorded, Known
<1>8. LetGo'
  BY <1>2, <1>3, <1>5 DEF IInv, LetGo, Known, Applied
<1>9. EveryCreationAccounted' /\ CreationsDoNotOverlap'
  BY <1>2, <1>3, <1>5 DEF IInv, EveryCreationAccounted, CreationsDoNotOverlap, Started
<1>10. QED
  BY <1>4, <1>5, <1>6, <1>7, <1>8, <1>9 DEF IInv

-------------------------------------------------------------------------------
(* The create request: from here on a playlist nobody accounts for may     *)
(* exist, but only the one the started intent asks for.                    *)
LEMMA CreationEffect ==
  ASSUME IInv, run.at = "create", NEW d \in Destinations, remote[d] = None,
         remote' = [remote EXCEPT ![d] = journal.template],
         UNCHANGED <<journal, state, released>>
  PROVE  /\ Started /\ Started' /\ journal.template \in Templates /\ d \notin released
         /\ remote' \in [Destinations -> Templates \cup {None}]
         /\ \A e \in Destinations : remote[e] # None => remote'[e] # None
         /\ remote'[d] # None
         /\ \A t \in Templates : Loose(t)' \subseteq (IF t = journal.template THEN {d} ELSE {})
<1>1. Started /\ Started'
  BY DEF IInv, Midway, Started
<1>2. journal.template \in Templates
  BY <1>1 DEF IInv, TypeOK, Intent, Started
<1>3. d \notin released
  BY DEF IInv, Recorded
<1>4. /\ remote' \in [Destinations -> Templates \cup {None}]
      /\ remote'[d] # None
      /\ \A e \in Destinations \ {d} : remote'[e] = remote[e]
  BY <1>2, ProvisioningAssumption DEF IInv, TypeOK
<1>5. \A t \in Templates : Loose(t) = {}
  BY DEF IInv, CreationsDoNotOverlap
<1>6. ASSUME NEW t \in Templates
      PROVE  Loose(t)' \subseteq (IF t = journal.template THEN {d} ELSE {})
  <2>1. \A e \in Destinations \ {d} : e \in Loose(t)' => e \in Loose(t)
    BY <1>4 DEF Loose, Managed
  <2>2. d \in Loose(t)' => t = journal.template
    BY <1>2 DEF Loose, IInv, TypeOK
  <2>3. QED
    BY <1>5, <2>1, <2>2 DEF Loose
<1>7. QED
  BY <1>1, <1>2, <1>3, <1>4, <1>6

LEMMA CreateAnsweredKeeps ==
  ASSUME IInv, UNCHANGED env, NEW d \in Destinations, CreateAnswered(d)
  PROVE  IInv'
<1>1. /\ run.at = "create" /\ remote[d] = None
      /\ remote' = [remote EXCEPT ![d] = journal.template]
      /\ run' = Step("record", FALSE, d)
      /\ UNCHANGED <<journal, state, released, faults, edits>>
  BY DEF CreateAnswered
<1>2. /\ Started /\ Started' /\ journal.template \in Templates /\ d \notin released
      /\ remote' \in [Destinations -> Templates \cup {None}]
      /\ \A e \in Destinations : remote[e] # None => remote'[e] # None
      /\ remote'[d] # None
      /\ \A t \in Templates : Loose(t)' \subseteq (IF t = journal.template THEN {d} ELSE {})
  BY <1>1, CreationEffect
<1>3. run' \in RunType /\ run'.at = "record" /\ run'.destination = d
  BY <1>1 DEF Step, RunType, RunPlaces
<1>4. TypeOK'
  BY <1>1, <1>2, <1>3 DEF IInv, TypeOK, RunType, RunPlaces
<1>5. Good(state)' /\ PendingFed'
  BY <1>1, GoodEither DEF IInv, On, PendingFed
<1>6. Midway'
  BY <1>2, <1>3 DEF Midway
<1>7. Recorded'
  BY <1>1, <1>2, <1>3 DEF IInv, TypeOK, Recorded, Known, Managed, Playlist, Started
<1>8. LetGo'
  BY <1>1, <1>2, <1>3 DEF IInv, LetGo, Known, Started, Managed
<1>9. EveryCreationAccounted' /\ CreationsDoNotOverlap'
  BY <1>1, <1>2, <1>3 DEF EveryCreationAccounted, CreationsDoNotOverlap, Started
<1>10. QED
  BY <1>4, <1>5, <1>6, <1>7, <1>8, <1>9 DEF IInv

LEMMA CreateUncertainKeeps ==
  ASSUME IInv, UNCHANGED env, NEW d \in Destinations, CreateUncertain(d)
  PROVE  IInv'
<1>1. /\ run.at = "create" /\ run' = Idle
      /\ UNCHANGED <<journal, state, released, faults, edits>>
  BY DEF CreateUncertain
<1>2. run' \in RunType /\ run'.at = "idle"
  BY <1>1, RunMoves
<1>3. Started /\ Started'
  BY <1>1 DEF IInv, Midway, Started
<1>4. /\ remote' \in [Destinations -> Templates \cup {None}]
      /\ \A e \in Destinations : remote[e] # None => remote'[e] # None
      /\ \A t \in Templates : Loose(t)' \subseteq (IF t = journal.template THEN {d} ELSE {})
  <2>1. CASE UNCHANGED remote
    <3>1. \A t \in Templates : Loose(t) = {}
      BY <1>1 DEF IInv, CreationsDoNotOverlap
    <3>2. QED
      BY <1>1, <2>1, <3>1, StateKept DEF IInv, TypeOK
  <2>2. CASE remote[d] = None /\ remote' = [remote EXCEPT ![d] = journal.template]
    BY <1>1, <2>2, CreationEffect
  <2>3. QED
    BY <2>1, <2>2 DEF CreateUncertain
<1>5. TypeOK'
  BY <1>1, <1>2, <1>4 DEF IInv, TypeOK, RunType, RunPlaces
<1>6. Good(state)' /\ PendingFed'
  BY <1>1, GoodEither DEF IInv, On, PendingFed
<1>7. Midway'
  BY <1>2 DEF Midway
<1>8. Recorded'
  BY <1>1, <1>2, <1>3, <1>4 DEF IInv, TypeOK, Recorded, Known, Managed, Playlist, Started
<1>9. LetGo'
  BY <1>1, <1>2, <1>3 DEF IInv, LetGo, Known, Started, Managed
<1>10. EveryCreationAccounted' /\ CreationsDoNotOverlap'
  BY <1>1, <1>2, <1>3, <1>4 DEF EveryCreationAccounted, CreationsDoNotOverlap, Started
<1>11. QED
  BY <1>5, <1>6, <1>7, <1>8, <1>9, <1>10 DEF IInv

-------------------------------------------------------------------------------
(* The destination of the intent is recorded: the one Spotify answered, or *)
(* the one the owner names while he lets the other one go.                 *)
LEMMA DestinationKeeps ==
  ASSUME IInv, UNCHANGED <<env, state, remote>>, Started, edits' \in 0..MaxEdits,
         NEW d \in Destinations, remote[d] # None,
         NEW o, SaveJournal([journal EXCEPT !.destination = d], o),
         Write(o, Then("finalize")),
         \/ run.at = "record" /\ run.destination = d /\ released' = released
         \/ released' = IF o = "lost" THEN released
                        ELSE (released \cup Loose(journal.template)) \ {d}
  PROVE  IInv'
<1> DEFINE k == [journal EXCEPT !.destination = d]
<1>1. TypeOK /\ journal \in Intent
  BY DEF IInv, TypeOK, Started
<1>2. /\ k \in Intent /\ k # None /\ k.destination # None
      /\ k.template = journal.template /\ k.sources = journal.sources /\ k.destination = d
  BY <1>1, IntentKnown
<1>3. /\ o \in {"done", "lost", "late"} /\ faults' \in 0..MaxFaults
      /\ "disk" \notin env => o = "done"
      /\ \/ o = "done" /\ run' = Then("finalize")
         \/ o # "done" /\ run' \in {Idle, Down}
  BY <1>1, WriteEffect
<1>4. SaveJournal(k, o)
  OBVIOUS
<1> HIDE DEF k
<1>5. journal' = IF o = "lost" THEN journal ELSE k
  BY <1>4 DEF SaveJournal
<1>6. /\ run' \in RunType /\ run'.at \in {"idle", "down", "finalize"}
      /\ "disk" \notin env => run'.at = "finalize"
  BY <1>1, <1>3, RunMoves DEF TypeOK, RunType, RunPlaces
<1>7. released' \subseteq Destinations
  BY <1>1 DEF TypeOK, Loose
<1>8. TypeOK'
  BY <1>1, <1>2, <1>3, <1>5, <1>6, <1>7 DEF TypeOK, RunType, RunPlaces
<1>9. Good(state)' /\ PendingFed'
  BY <1>1, <1>2, <1>5, GoodEither, NoneAssumption DEF IInv, On, PendingFed
<1>10. Midway'
  BY <1>6 DEF Midway
<1>11. Recorded'
  <2>1. \A e \in released' : e \in released \/ e \in Loose(journal.template)
    OBVIOUS
  <2>2. \A e \in released' : remote[e] # None
    <3>1. \A e \in Loose(journal.template) : remote[e] # None
      BY <1>1, ProvisioningAssumption DEF Loose, Intent
    <3>2. QED
      BY <2>1, <3>1 DEF IInv, Recorded
  <2>3. QED
    BY <1>2, <1>5, <1>6, <2>2 DEF IInv, Recorded, Known, Managed
<1>12. LetGo'
  <2>1. CASE "disk" \in env
    BY <2>1 DEF LetGo
  <2>2. CASE "disk" \notin env
    <3>1. o = "done" /\ journal' = k /\ run'.at = "finalize"
      BY <1>3, <1>5, <1>6, <2>2
    <3>2. \A t \in Managed(state) : state.playlists[t].destination \notin released
      BY <2>2 DEF IInv, LetGo
    <3>3. \A t \in Managed(state) :
            state.playlists[t].destination \notin Loose(journal.template)
      BY DEF Loose
    <3>4. \A t \in Managed(state) : state.playlists[t].destination \notin released'
      BY <3>1, <3>2, <3>3
    <3>5. d \notin released'
      BY <2>2, <3>1 DEF IInv, LetGo
    <3>6. QED
      BY <1>2, <3>1, <3>4, <3>5 DEF LetGo, Managed
  <2>3. QED
    BY <2>1, <2>2
<1>13. EveryCreationAccounted'
  <2>1. CASE o = "lost"
    <3>1. UNCHANGED <<journal, released>>
      BY <1>5, <2>1
    <3>2. \A t \in Templates : Loose(t)' = Loose(t)
      BY <3>1, StateKept
    <3>3. QED
      BY <3>1, <3>2 DEF IInv, EveryCreationAccounted, Started
  <2>2. CASE o # "lost"
    <3>1. ASSUME NEW t \in Templates, NEW e \in Loose(t)', e # d PROVE FALSE
      <4>1. e \in Destinations /\ e \notin released'
        BY <3>1 DEF Loose
      <4>2. e \notin released
        BY <2>2, <3>1, <4>1
      <4>3. e \in Loose(t)
        BY <3>1, <4>2 DEF Loose, Managed
      <4>4. CASE run.at = "record" /\ run.destination = d
        BY <3>1, <4>3, <4>4 DEF IInv, Midway
      <4>5. CASE released' = (released \cup Loose(journal.template)) \ {d}
        <5>1. journal.template = t
          BY <1>1, <4>1, <4>3, ProvisioningAssumption DEF IInv, EveryCreationAccounted, Started
        <5>2. QED
          BY <3>1, <4>1, <4>3, <4>5, <5>1
      <4>6. QED
        BY <2>2, <4>4, <4>5
    <3>2. QED
      BY <1>2, <1>5, <2>2, <3>1 DEF EveryCreationAccounted
  <2>3. QED
    BY <2>1, <2>2
<1>14. CreationsDoNotOverlap'
  BY <1>6 DEF CreationsDoNotOverlap
<1>15. QED
  BY <1>8, <1>9, <1>10, <1>11, <1>12, <1>13, <1>14 DEF IInv

LEMMA RecordKeeps ==
  ASSUME IInv, UNCHANGED env,
         RecordDestination \/ \E d \in Destinations : Adopt(d)
  PROVE  IInv'
<1>1. TypeOK
  BY DEF IInv
<1>2. CASE RecordDestination
  <2>1. PICK o : /\ SaveJournal([journal EXCEPT !.destination = run.destination], o)
                 /\ Write(o, Then("finalize"))
    BY <1>2 DEF RecordDestination
  <2>2. run.at = "record" /\ UNCHANGED <<state, remote, released, edits>>
    BY <1>2 DEF RecordDestination
  <2>3. Started /\ run.destination \in Destinations /\ remote[run.destination] # None
    BY <2>2 DEF IInv, Midway, Recorded
  <2>4. edits' \in 0..MaxEdits
    BY <1>1, <2>2 DEF TypeOK
  <2>5. QED
    BY <2>1, <2>2, <2>3, <2>4, DestinationKeeps
<1>3. ASSUME NEW d \in Destinations, Adopt(d) PROVE IInv'
  <2>1. PICK o : /\ SaveJournal([journal EXCEPT !.destination = d], o)
                 /\ Write(o, Then("finalize"))
                 /\ released' = IF o = "lost" THEN released
                                ELSE (released \cup Loose(journal.template)) \ {d}
    BY <1>3 DEF Adopt
  <2>2. /\ Started /\ remote[d] # None /\ UNCHANGED <<state, remote>>
        /\ edits < MaxEdits /\ edits' = edits + 1
    BY <1>3 DEF Adopt, Request
  <2>3. edits' \in 0..MaxEdits
    BY <1>1, <2>2, ProvisioningAssumption DEF TypeOK
  <2>4. QED
    BY <2>1, <2>2, <2>3, DestinationKeeps
<1>4. QED
  BY <1>2, <1>3

LEMMA ClearUncertainKeeps ==
  ASSUME IInv, UNCHANGED env, ClearUncertain
  PROVE  IInv'
<1>1. TypeOK /\ Started
  BY DEF IInv, ClearUncertain
<1>2. PICK o : /\ SaveJournal(None, o) /\ Write(o, Then("finalize"))
               /\ released' = IF o = "lost" THEN released
                              ELSE released \cup Loose(journal.template)
  BY DEF ClearUncertain
<1>3. UNCHANGED <<state, remote>> /\ edits < MaxEdits /\ edits' = edits + 1
  BY DEF ClearUncertain, Request
<1>4. /\ o \in {"done", "lost", "late"} /\ faults' \in 0..MaxFaults
      /\ \/ o = "done" /\ run' = Then("finalize")
         \/ o # "done" /\ run' \in {Idle, Down}
  BY <1>1, <1>2, WriteEffect
<1>5. journal' = (IF o = "lost" THEN journal ELSE None)
  BY <1>2 DEF SaveJournal
<1>6. run' \in RunType /\ run'.at \in {"idle", "down", "finalize"}
  BY <1>1, <1>4, RunMoves DEF TypeOK, RunType, RunPlaces
<1>7. ~Known'
  BY <1>1, <1>5 DEF Known, Started
<1>8. TypeOK'
  <2>1. edits' \in 0..MaxEdits
    BY <1>1, <1>3, ProvisioningAssumption DEF TypeOK
  <2>2. released' \subseteq Destinations
    BY <1>1, <1>2 DEF TypeOK, Loose
  <2>3. QED
    BY <1>1, <1>3, <1>4, <1>5, <1>6, <2>1, <2>2 DEF TypeOK, RunType, RunPlaces
<1>9. Good(state)' /\ PendingFed'
  BY <1>1, <1>3, <1>5, GoodEither DEF IInv, On, PendingFed
<1>10. Midway'
  BY <1>6 DEF Midway
<1>11. Recorded'
  <2>1. \A e \in Loose(journal.template) : remote[e] # None
    BY <1>1, ProvisioningAssumption DEF TypeOK, Started, Loose, Intent
  <2>2. \A e \in released' : remote[e] # None
    BY <1>2, <2>1 DEF IInv, Recorded
  <2>3. QED
    BY <1>3, <1>6, <1>7, <2>2 DEF IInv, Recorded, Managed
<1>12. LetGo'
  <2>1. \A t \in Managed(state) :
          state.playlists[t].destination \notin Loose(journal.template)
    BY DEF Loose
  <2>2. QED
    BY <1>2, <1>3, <1>6, <1>7, <2>1 DEF IInv, LetGo, Managed
<1>13. EveryCreationAccounted'
  <2>1. CASE o = "lost"
    BY <1>1, <1>2, <1>3, <1>5, <2>1, StateKept DEF IInv, EveryCreationAccounted, Started
  <2>2. CASE o # "lost"
    <3>1. ASSUME NEW t \in Templates, NEW e \in Loose(t)' PROVE FALSE
      <4>1. e \notin released' /\ e \in Loose(t)
        BY <1>2, <1>3, <2>2, <3>1 DEF Loose, Managed
      <4>2. journal.template = t
        BY <1>1, <4>1, ProvisioningAssumption
           DEF IInv, TypeOK, EveryCreationAccounted, Started, Intent, Loose
      <4>3. QED
        BY <1>2, <2>2, <4>1, <4>2
    <3>2. QED
      BY <3>1 DEF EveryCreationAccounted
  <2>3. QED
    BY <2>1, <2>2
<1>14. CreationsDoNotOverlap'
  BY <1>6 DEF CreationsDoNotOverlap
<1>15. QED
  BY <1>8, <1>9, <1>10, <1>11, <1>12, <1>13, <1>14 DEF IInv

-------------------------------------------------------------------------------
(* Requests that change the managed state and no destination in it. *)
SameDestinations(new) ==
  /\ Managed(new) = Managed(state)
  /\ \A t \in Managed(state) :
       new.playlists[t].destination = state.playlists[t].destination

Fed(new) == journal # None => journal.sources \cap On(new) # {}

LEMMA EditKeeps ==
  ASSUME IInv, UNCHANGED <<env, journal, remote, released>>,
         run.at = "idle", edits' \in 0..MaxEdits,
         NEW new \in StateType, Good(new), Fed(new), SameDestinations(new),
         NEW o, SaveState(new, o),
         Write(o, Idle) \/ Write(o, Then("finalize"))
  PROVE  IInv'
<1>1. TypeOK
  BY DEF IInv
<1>2. /\ o \in {"done", "lost", "late"} /\ faults' \in 0..MaxFaults
      /\ run' \in {Idle, Down, Then("finalize")}
  BY <1>1, WriteEffect
<1>3. state' = (IF o = "lost" THEN state ELSE new)
  BY DEF SaveState
<1>4. run' \in RunType /\ run'.at \in {"idle", "down", "finalize"}
  BY <1>1, <1>2, RunMoves DEF TypeOK, RunType, RunPlaces
<1>5. state' \in StateType
  BY <1>1, <1>3 DEF TypeOK, StateType
<1>6. TypeOK'
  BY <1>1, <1>2, <1>4, <1>5 DEF TypeOK, RunType, RunPlaces, StateType
<1>7. /\ Managed(state') = Managed(state)
      /\ \A t \in Managed(state) :
           state'.playlists[t].destination = state.playlists[t].destination
  BY <1>3 DEF SameDestinations
<1>8. \A t \in Templates : Loose(t)' = Loose(t)
  BY <1>7 DEF Loose
<1>9. Good(state)'
  BY <1>3, GoodEither DEF IInv
<1>10. PendingFed'
  BY <1>3 DEF IInv, PendingFed, Fed, On
<1>11. Midway'
  BY <1>4 DEF Midway
<1>12. Recorded'
  BY <1>4, <1>7 DEF IInv, Recorded, Known
<1>13. LetGo'
  BY <1>4, <1>7 DEF IInv, LetGo, Known, Applied
<1>14. EveryCreationAccounted' /\ CreationsDoNotOverlap'
  BY <1>4, <1>8 DEF IInv, EveryCreationAccounted, CreationsDoNotOverlap, Started
<1>15. QED
  BY <1>6, <1>9, <1>10, <1>11, <1>12, <1>13, <1>14 DEF IInv

LEMMA UpdateKeeps ==
  ASSUME IInv, UNCHANGED env, NEW t \in Templates, NEW chosen \in SUBSET Sources,
         NEW enabled \in BOOLEAN, Update(t, chosen, enabled)
  PROVE  IInv'
<1> DEFINE new == [state EXCEPT !.playlists[t].sources = chosen,
                                !.playlists[t].enabled = enabled]
           q == [state.playlists[t] EXCEPT !.sources = chosen, !.enabled = enabled]
<1>1. TypeOK /\ state \in StateType /\ t \in Managed(state) /\ Valid(new) /\ Sound(state)
  BY DEF IInv, Good, TypeOK, StateType, Update, Effective
<1>2. state.playlists[t] \in Playlist
  BY <1>1 DEF StateType, Managed
<1>3. /\ q \in Playlist /\ q.destination = state.playlists[t].destination
      /\ q.sources = chosen /\ q.enabled = enabled
  BY <1>2 DEF Playlist
<1>3a. new = [state EXCEPT !.playlists[t] = q]
  BY <1>1 DEF StateType
<1>4. PICK o : SaveState(new, o) /\ Write(o, Then("finalize"))
  BY DEF Update
<1>5. /\ run = Idle /\ edits < MaxEdits /\ edits' = edits + 1
      /\ UNCHANGED <<journal, remote, released>>
  BY DEF Update, Request
<1> HIDE DEF q, new
<1>6. /\ new \in StateType /\ new.playlists = [state.playlists EXCEPT ![t] = q]
      /\ new.sources = state.sources /\ new.templates = state.templates
      /\ new.quarantined = state.quarantined
  BY <1>1, <1>3, <1>3a, PlaylistAssigned
<1>7. SameDestinations(new)
  BY <1>1, <1>3, <1>6, NoneAssumption DEF SameDestinations, Managed, StateType
<1>8. Fed(new)
  BY <1>6 DEF IInv, PendingFed, Fed, On
<1>9. run.at = "idle" /\ edits' \in 0..MaxEdits
  BY <1>1, <1>5, RunMoves, ProvisioningAssumption DEF TypeOK
<1>10. Good(new)
  <2>1. \A u \in Templates \ {t} : new.playlists[u] = state.playlists[u]
    BY <1>1, <1>6 DEF StateType
  <2>2. new.playlists[t] = q
    BY <1>1, <1>6 DEF StateType, Managed
  <2>3. \A x \in chosen : state.sources[x] # "gone"
    BY <1>1 DEF Update, On, Sound
  <2>4. enabled => chosen \cap On(state) # {}
    BY DEF Update
  <2>5. On(new) = On(state)
    BY <1>6 DEF On
  <2>6. Managed(new) \subseteq Managed(state)
    BY <1>7 DEF SameDestinations
  <2>7. Sound(new)
    <3>1. Managed(new) \subseteq new.templates \cup new.quarantined
      BY <1>1, <1>6, <2>6 DEF Sound
    <3>2. ASSUME NEW u \in Managed(new), NEW x \in new.playlists[u].sources
          PROVE  new.sources[x] # "gone"
      BY <1>1, <1>3, <1>6, <2>1, <2>2, <2>3, <2>6, <3>2 DEF Sound, Managed
    <3>3. ASSUME NEW u \in Enabled(new) PROVE new.playlists[u].sources \cap On(new) # {}
      <4>1. CASE u = t
        BY <1>3, <2>2, <2>4, <2>5, <3>3, <4>1 DEF Enabled
      <4>2. CASE u # t
        BY <1>1, <2>1, <2>5, <2>6, <3>3, <4>2 DEF Sound, Enabled, Managed
      <4>3. QED
        BY <4>1, <4>2
    <3>4. QED
      BY <3>1, <3>2, <3>3 DEF Sound
  <2>8. QED
    BY <1>1, <2>7 DEF Good
<1>11. QED
  BY <1>1, <1>4, <1>5, <1>6, <1>7, <1>8, <1>9, <1>10, EditKeeps

LEMMA SourceKeeps ==
  ASSUME IInv, UNCHANGED env, NEW x \in Sources,
         EnableSource(x) \/ DisableSource(x) \/ DeleteSource(x)
  PROVE  IInv'
<1>1. TypeOK /\ state \in StateType /\ Valid(state) /\ Sound(state) /\ PendingFed
  BY DEF IInv, Good, TypeOK, StateType
<1>2. PICK how \in {"on", "off", "gone"}, o \in Outcomes :
        /\ SaveState([state EXCEPT !.sources[x] = how], o) /\ Write(o, Idle)
        /\ \/ EnableSource(x) /\ how = "on"
           \/ DisableSource(x) /\ how = "off"
           \/ DeleteSource(x) /\ how = "gone"
  BY DEF EnableSource, DisableSource, DeleteSource
<1> DEFINE new == [state EXCEPT !.sources[x] = how]
<1>3. SaveState(new, o)
  BY <1>2
<1>4. /\ new \in StateType /\ new.sources = [state.sources EXCEPT ![x] = how]
      /\ new.templates = state.templates /\ new.quarantined = state.quarantined
      /\ new.playlists = state.playlists
  BY <1>1, SourceAssigned
<1> HIDE DEF new
<1>5. /\ run = Idle /\ edits < MaxEdits /\ edits' = edits + 1
      /\ UNCHANGED <<journal, remote, released>>
  BY DEF EnableSource, DisableSource, DeleteSource, Request
<1>6. run.at = "idle" /\ edits' \in 0..MaxEdits
  BY <1>1, <1>5, RunMoves, ProvisioningAssumption DEF TypeOK
<1>7. /\ Managed(new) = Managed(state) /\ Enabled(new) = Enabled(state)
      /\ Effective(new) = Effective(state) /\ Active(new) = Active(state)
      /\ SameDestinations(new)
  BY <1>4, SamePlaylists DEF SameDestinations
<1>8. Sound(new) /\ Fed(new)
  <2>1. CASE EnableSource(x) /\ how = "on"
    <3>1. On(state) \subseteq On(new)
      BY <1>1, <1>4, <2>1 DEF On, StateType
    <3>2. \A y \in Sources : state.sources[y] # "gone" => new.sources[y] # "gone"
      BY <1>1, <1>4, <2>1 DEF StateType
    <3>3. QED
      BY <1>1, <1>4, <1>7, <3>1, <3>2
         DEF Sound, PendingFed, Fed, StateType, Playlist, Managed, Enabled
  <2>2. CASE DisableSource(x) /\ how = "off"
    <3>1. On(new) = On(state) \ {x}
      BY <1>1, <1>4, <2>2 DEF On, StateType
    <3>2. \A y \in Sources : state.sources[y] # "gone" => new.sources[y] # "gone"
      BY <1>1, <1>4, <2>2 DEF StateType
    <3>3. Sound(new)
      BY <1>1, <1>4, <1>7, <2>2, <3>1, <3>2
         DEF Sound, StateType, Playlist, Managed, Enabled, DisableSource
    <3>4. Fed(new)
      BY <1>1, <2>2, <3>1 DEF PendingFed, Fed, DisableSource
    <3>5. QED
      BY <3>3, <3>4
  <2>3. CASE DeleteSource(x) /\ how = "gone"
    <3>1. \A y \in Sources \ {x} : new.sources[y] = state.sources[y]
      BY <1>1, <1>4 DEF StateType
    <3>2. On(state) \ {x} \subseteq On(new)
      BY <3>1 DEF On
    <3>3. \A t \in Managed(state) : x \notin state.playlists[t].sources
      BY <2>3 DEF DeleteSource
    <3>4. journal # None => x \notin journal.sources
      BY <2>3 DEF DeleteSource
    <3>5. Fed(new)
      BY <1>1, <3>2, <3>4 DEF PendingFed, Fed
    <3>6. Sound(new)
      BY <1>1, <1>4, <1>7, <3>1, <3>2, <3>3
         DEF Sound, StateType, Playlist, Managed, Enabled
    <3>7. QED
      BY <3>5, <3>6
  <2>4. QED
    BY <1>2, <2>1, <2>2, <2>3
<1>9. Good(new)
  <2>1. Valid(new)
    BY <1>1, <1>4, <1>7, <1>8, ValidIfSound DEF Valid
  <2>2. QED
    BY <1>8, <2>1 DEF Good
<1>10. QED
  BY <1>2, <1>3, <1>4, <1>5, <1>6, <1>7, <1>8, <1>9, EditKeeps

(* A change of the drafts alone. *)
LEMMA DraftsChanged ==
  ASSUME IInv, NEW ts \in SUBSET Templates, NEW qs \in SUBSET Templates,
         Managed(state) \subseteq ts \cup qs, qs # {} \/ Managed(state) \subseteq ts,
         \A t \in Managed(state) \cap ts : t \in state.templates,
         NEW new, new = Drafts(state, ts, qs)
  PROVE  /\ new \in StateType /\ Good(new) /\ Fed(new) /\ SameDestinations(new)
         /\ new.playlists = state.playlists /\ new.sources = state.sources
<1>1. state \in StateType /\ Valid(state) /\ Sound(state) /\ PendingFed
  BY DEF IInv, Good, TypeOK, StateType
<1>2. /\ new \in StateType /\ new.templates = ts /\ new.quarantined = qs
      /\ new.sources = state.sources /\ new.playlists = state.playlists
  BY <1>1, DraftsAssigned
<1>3. /\ Managed(new) = Managed(state) /\ Enabled(new) = Enabled(state)
      /\ On(new) = On(state) /\ SameDestinations(new)
  BY <1>2 DEF Managed, Enabled, On, SameDestinations
<1>4. Effective(new) \subseteq ts
  BY <1>2, <1>3 DEF Effective, Suspended
<1>5. Effective(new) \subseteq Effective(state)
  BY <1>3, <1>4 DEF Effective, Suspended
<1>6. Sound(new)
  BY <1>1, <1>2, <1>3 DEF Sound
<1>7. Valid(new)
  <2>1. Active(new) \subseteq Active(state)
    BY <1>3, <1>5 DEF Active
  <2>2. \A t, u \in Active(new) :
          new.playlists[t].destination = new.playlists[u].destination => t = u
    BY <1>1, <1>2, <2>1 DEF Valid
  <2>3. QED
    BY <1>2, <1>4, <1>6, <2>2, ValidIfSound
<1>8. Fed(new)
  BY <1>1, <1>3 DEF PendingFed, Fed
<1>9. QED
  BY <1>2, <1>3, <1>6, <1>7, <1>8 DEF Good

LEMMA DraftsWritten ==
  ASSUME IInv, UNCHANGED env, Request, UNCHANGED <<journal, remote, released>>,
         NEW ts \in SUBSET Templates, NEW qs \in SUBSET Templates,
         Managed(state) \subseteq ts \cup qs, qs # {} \/ Managed(state) \subseteq ts,
         \A t \in Managed(state) \cap ts : t \in state.templates,
         NEW new, new = Drafts(state, ts, qs),
         NEW o, SaveState(new, o), Write(o, Idle)
  PROVE  IInv'
<1>1. new \in StateType /\ Good(new) /\ Fed(new) /\ SameDestinations(new)
  BY DraftsChanged
<1>2. run.at = "idle" /\ edits' \in 0..MaxEdits
  BY RunMoves, ProvisioningAssumption DEF IInv, TypeOK, Request
<1>3. QED
  BY <1>1, <1>2, EditKeeps

LEMMA TemplateKeeps ==
  ASSUME IInv, UNCHANGED env, NEW t \in Templates,
         CreateTemplate(t) \/ DeleteTemplate(t) \/ DiscardQuarantined(t)
  PROVE  IInv'
<1>1. /\ state \in StateType /\ Request /\ UNCHANGED <<journal, remote, released>>
      /\ state.templates \in SUBSET Templates /\ state.quarantined \in SUBSET Templates
  BY DEF IInv, TypeOK, StateType, CreateTemplate, DeleteTemplate, DiscardQuarantined
<1>2. Managed(state) \subseteq state.templates \cup state.quarantined
  BY DEF IInv, Good, Sound
<1>3. CASE CreateTemplate(t)
  <2>1. [state EXCEPT !.templates = @ \cup {t}]
          = Drafts(state, state.templates \cup {t}, state.quarantined)
    BY <1>1 DEF StateType, Drafts
  <2>2. PICK o \in Outcomes :
          /\ SaveState(Drafts(state, state.templates \cup {t}, state.quarantined), o)
          /\ Write(o, Idle)
    BY <1>3, <2>1 DEF CreateTemplate
  <2>3. t \notin Managed(state)
    BY <1>2, <1>3 DEF CreateTemplate
  <2>4. state.templates \cup {t} \in SUBSET Templates
    BY <1>1
  <2>5. QED
    BY <1>1, <1>2, <2>2, <2>3, <2>4, DraftsWritten
<1>4. CASE DeleteTemplate(t)
  <2>1. [state EXCEPT !.templates = @ \ {t}]
          = Drafts(state, state.templates \ {t}, state.quarantined)
    BY <1>1 DEF StateType, Drafts
  <2>2. PICK o \in Outcomes :
          /\ SaveState(Drafts(state, state.templates \ {t}, state.quarantined), o)
          /\ Write(o, Idle)
    BY <1>4, <2>1 DEF DeleteTemplate
  <2>3. t \notin Managed(state)
    BY <1>4 DEF DeleteTemplate
  <2>4. state.templates \ {t} \in SUBSET Templates
    BY <1>1
  <2>5. QED
    BY <1>1, <1>2, <2>2, <2>3, <2>4, DraftsWritten
<1>5. CASE DiscardQuarantined(t)
  <2>1. [state EXCEPT !.quarantined = @ \ {t}]
          = Drafts(state, state.templates, state.quarantined \ {t})
    BY <1>1 DEF StateType, Drafts
  <2>2. PICK o \in Outcomes :
          /\ SaveState(Drafts(state, state.templates, state.quarantined \ {t}), o)
          /\ Write(o, Idle)
    BY <1>5, <2>1 DEF DiscardQuarantined
  <2>3. Managed(state) \subseteq state.templates
    BY <1>5 DEF DiscardQuarantined, Suspended
  <2>4. state.quarantined \ {t} \in SUBSET Templates
    BY <1>1
  <2>5. QED
    BY <1>1, <2>2, <2>3, <2>4, DraftsWritten
<1>6. QED
  BY <1>3, <1>4, <1>5

(* A draft is damaged or restored in the file, whatever is in progress. *)
LEMMA QuarantineKeeps ==
  ASSUME IInv, UNCHANGED env, NEW t \in Templates, DamageDraft(t) \/ RepairDraft(t)
  PROVE  IInv'
<1>1. TypeOK /\ state \in StateType /\ Valid(state) /\ Sound(state) /\ PendingFed
  BY DEF IInv, Good, TypeOK, StateType
<1>2. /\ state' \in StateType /\ Good(state')
      /\ state'.playlists = state.playlists /\ state'.sources = state.sources
  <2>1. CASE DamageDraft(t)
    <3> DEFINE ts == state.templates \ {t}
               qs == state.quarantined \cup {t}
    <3>1. state' = Drafts(state, ts, qs)
      BY <1>1, <2>1 DEF DamageDraft, Drafts, StateType
    <3>2. /\ ts \in SUBSET Templates /\ qs \in SUBSET Templates /\ qs # {}
          /\ Managed(state) \subseteq ts \cup qs
          /\ \A u \in Managed(state) \cap ts : u \in state.templates
      BY <1>1 DEF StateType, Sound
    <3> HIDE DEF ts, qs
    <3>3. QED
      BY <3>1, <3>2, DraftsChanged
  <2>2. CASE RepairDraft(t)
    <3> DEFINE ts == state.templates \cup {t}
               qs == state.quarantined \ {t}
    <3>1. state' = Drafts(state, ts, qs) /\ Valid(state')
      BY <1>1, <2>2 DEF RepairDraft, Drafts, StateType
    <3>2. /\ ts \in SUBSET Templates /\ qs \in SUBSET Templates
          /\ ts \cup qs = state.templates \cup state.quarantined \cup {t}
      BY <1>1 DEF StateType
    <3> HIDE DEF ts, qs
    <3>3. /\ state' \in StateType /\ state'.templates = ts /\ state'.quarantined = qs
          /\ state'.sources = state.sources /\ state'.playlists = state.playlists
      BY <1>1, <3>1, <3>2, DraftsAssigned
    <3>4. Sound(state')
      BY <1>1, <3>2, <3>3 DEF Sound, Managed, Enabled, On
    <3>5. QED
      BY <3>1, <3>3, <3>4 DEF Good
  <2>3. QED
    BY <2>1, <2>2
<1>3. /\ UNCHANGED <<journal, remote, released, run>>
      /\ faults' \in 0..MaxFaults /\ edits' \in 0..MaxEdits
  BY <1>1, ProvisioningAssumption DEF DamageDraft, RepairDraft, Request, TypeOK
<1>4. TypeOK'
  BY <1>1, <1>2, <1>3 DEF TypeOK, StateType
<1>5. Good(state)'
  BY <1>2, GoodEither DEF IInv
<1>6. /\ Managed(state') = Managed(state) /\ On(state') = On(state)
      /\ \A u \in Templates : Loose(u)' = Loose(u)
  BY <1>2, <1>3 DEF Managed, On, Loose
<1>7. PendingFed' /\ Midway' /\ Recorded' /\ LetGo'
  BY <1>2, <1>3, <1>6
     DEF IInv, PendingFed, Midway, Recorded, LetGo, Started, Known, Applied
<1>8. EveryCreationAccounted' /\ CreationsDoNotOverlap'
  BY <1>3, <1>6 DEF IInv, EveryCreationAccounted, CreationsDoNotOverlap, Started
<1>9. QED
  BY <1>4, <1>5, <1>7, <1>8 DEF IInv

-------------------------------------------------------------------------------
(* The two steps that bring a destination into the managed state and out   *)
(* of it.                                                                  *)
LEMMA FinalizeKeeps ==
  ASSUME IInv, UNCHANGED env, Finalize
  PROVE  IInv'
<1> DEFINE t == journal.template
           q == [destination |-> journal.destination, sources |-> journal.sources,
                 enabled |-> TRUE]
<1>1. TypeOK /\ state \in StateType /\ Known /\ run.at = "finalize" /\ t \notin Managed(state)
      /\ Finalizable /\ UNCHANGED <<journal, remote, released, edits>>
  BY DEF IInv, TypeOK, StateType, Finalize
<1>2. journal \in Intent /\ journal.destination \in Destinations
  BY <1>1 DEF TypeOK, Known, Intent
<1>3. t \in Templates /\ q \in Playlist /\ q # None
  <2>1. t \in Templates /\ journal.sources \in SUBSET Sources
    BY <1>2 DEF Intent
  <2>2. q \in Playlist
    BY <1>2, <2>1 DEF Playlist
  <2>3. QED
    BY <2>1, <2>2, NoneAssumption
<1>4. q.destination = journal.destination
  OBVIOUS
<1>5. Finalized = [state EXCEPT !.playlists[t] = q]
  BY DEF Finalized
<1>6. PICK o : SaveState(Finalized, o) /\ Write(o, Then("clear"))
  BY DEF Finalize
<1> HIDE DEF q, t
<1>7. Finalized \in StateType /\ Finalized.playlists = [state.playlists EXCEPT ![t] = q]
      /\ Finalized.sources = state.sources /\ Finalized.templates = state.templates
      /\ Finalized.quarantined = state.quarantined
  BY <1>1, <1>3, <1>5, PlaylistAssigned
<1>8. /\ Managed(Finalized) = Managed(state) \cup {t}
      /\ Finalized.playlists[t].destination = journal.destination
      /\ \A u \in Managed(state) : Finalized.playlists[u] = state.playlists[u]
  BY <1>1, <1>3, <1>4, <1>7 DEF Managed, StateType
<1>9. /\ o \in {"done", "lost", "late"} /\ faults' \in 0..MaxFaults
      /\ "disk" \notin env => o = "done"
      /\ \/ o = "done" /\ run' = Then("clear")
         \/ o # "done" /\ run' \in {Idle, Down}
  BY <1>1, <1>6, WriteEffect
<1>10. state' = (IF o = "lost" THEN state ELSE Finalized)
  BY <1>6 DEF SaveState
<1>11. /\ run' \in RunType /\ run'.at \in {"idle", "down", "clear"}
       /\ run'.at = "clear" <=> o = "done"
  BY <1>1, <1>9, RunMoves DEF TypeOK, RunType, RunPlaces
<1>12. TypeOK'
  <2>1. state' \in StateType
    BY <1>1, <1>7, <1>10
  <2>2. QED
    BY <1>1, <1>9, <1>11, <2>1 DEF TypeOK, RunType, RunPlaces, StateType
<1>13. Good(state)'
  <2>1. journal.template \in state.templates /\ Valid(Finalized)
        /\ journal.sources \subseteq On(state) /\ journal.sources # {}
    BY <1>1, <1>2 DEF Finalizable, Intent
  <2>2. Finalized.playlists[t] = q /\ q.sources = journal.sources
    BY <1>1, <1>3, <1>7 DEF StateType, q
  <2>3. On(Finalized) = On(state) /\ Sound(state)
    BY <1>7 DEF On, IInv, Good
  <2>4. Sound(Finalized)
    <3>1. Managed(Finalized) \subseteq Finalized.templates \cup Finalized.quarantined
      BY <1>7, <1>8, <2>1, <2>3 DEF Sound, t
    <3>2. ASSUME NEW u \in Managed(Finalized), NEW x \in Finalized.playlists[u].sources
          PROVE  Finalized.sources[x] # "gone"
      <4>1. CASE u = t
        BY <1>7, <2>1, <2>2, <3>2, <4>1 DEF On
      <4>2. CASE u # t
        BY <1>7, <1>8, <2>3, <3>2, <4>2 DEF Sound
      <4>3. QED
        BY <4>1, <4>2
    <3>3. ASSUME NEW u \in Enabled(Finalized)
          PROVE  Finalized.playlists[u].sources \cap On(Finalized) # {}
      <4>1. CASE u = t
        BY <2>1, <2>2, <2>3, <4>1
      <4>2. CASE u # t
        BY <1>8, <2>3, <3>3, <4>2 DEF Sound, Enabled
      <4>3. QED
        BY <4>1, <4>2
    <3>4. QED
      BY <3>1, <3>2, <3>3 DEF Sound
  <2>5. Good(Finalized)
    BY <2>1, <2>4 DEF Good
  <2>6. QED
    BY <1>10, <2>5, GoodEither DEF IInv
<1>14. On(state') = On(state)
  BY <1>7, <1>10 DEF On
<1>15. PendingFed'
  BY <1>1, <1>14 DEF IInv, PendingFed
<1>16. Midway'
  BY <1>1, <1>8, <1>9, <1>10, <1>11 DEF Midway, Known, Applied, t
<1>17. Recorded'
  BY <1>1, <1>8, <1>10, <1>11 DEF IInv, Recorded, Known
<1>18. LetGo'
  <2>1. CASE "disk" \notin env
    <3>1. o = "done" /\ state' = Finalized /\ run'.at = "clear"
      BY <1>9, <1>10, <1>11, <2>1
    <3>2. \A u \in Managed(Finalized) : Finalized.playlists[u].destination \notin released
      BY <1>1, <1>8, <2>1 DEF IInv, LetGo
    <3>3. QED
      BY <1>1, <2>1, <3>1, <3>2 DEF IInv, LetGo, Known
  <2>2. QED
    BY <2>1 DEF LetGo
<1>19. EveryCreationAccounted' /\ CreationsDoNotOverlap'
  <2>1. \A u \in Templates : Loose(u)' \subseteq Loose(u)
    BY <1>1, <1>8, <1>10 DEF Loose
  <2>2. \A u \in Templates : Loose(u) \subseteq {journal.destination}
    BY <1>1 DEF IInv, EveryCreationAccounted, Known, Started
  <2>3. QED
    BY <1>1, <1>11, <2>1, <2>2 DEF EveryCreationAccounted, CreationsDoNotOverlap, Known
<1>20. QED
  BY <1>12, <1>13, <1>15, <1>16, <1>17, <1>18, <1>19 DEF IInv

LEMMA StopKeeps ==
  ASSUME IInv, UNCHANGED env, NEW t \in Templates, StopManaging(t)
  PROVE  IInv'
<1> DEFINE remaining == [state EXCEPT !.playlists[t] = None]
           target == state.playlists[t].destination
<1>1. /\ TypeOK /\ state \in StateType /\ t \in Managed(state) /\ Valid(remaining)
      /\ Sound(state)
      /\ run = Idle /\ UNCHANGED <<journal, remote>>
      /\ edits < MaxEdits /\ edits' = edits + 1
  BY DEF IInv, Good, TypeOK, StateType, StopManaging, Request, Effective
<1>2. PICK o :
        /\ SaveState(remaining, o) /\ Write(o, Then("finalize"))
        /\ released' = IF o = "lost" \/ WantedElsewhere(target, t)
                       THEN released ELSE released \cup {target}
  BY DEF StopManaging
<1>3. remaining \in StateType /\ remaining.playlists = [state.playlists EXCEPT ![t] = None]
      /\ remaining.sources = state.sources /\ remaining.templates = state.templates
      /\ remaining.quarantined = state.quarantined
  BY <1>1, PlaylistAssigned
<1>4. state.playlists[t] \in Playlist /\ target \in Destinations
  BY <1>1 DEF StateType, Managed, Playlist
<1> HIDE DEF remaining, target
<1>5. /\ Managed(remaining) = Managed(state) \ {t}
      /\ \A u \in Managed(remaining) : remaining.playlists[u] = state.playlists[u]
  BY <1>1, <1>3 DEF Managed, StateType
<1>6. /\ o \in {"done", "lost", "late"} /\ faults' \in 0..MaxFaults
      /\ "disk" \notin env => o = "done"
      /\ \/ o = "done" /\ run' = Then("finalize")
         \/ o # "done" /\ run' \in {Idle, Down}
  BY <1>1, <1>2, WriteEffect
<1>7. state' = (IF o = "lost" THEN state ELSE remaining)
  BY <1>2 DEF SaveState
<1>8. /\ run' \in RunType /\ run'.at \in {"idle", "down", "finalize"}
      /\ o = "done" => run'.at = "finalize"
  BY <1>1, <1>6, RunMoves DEF TypeOK, RunType, RunPlaces
<1>9. TypeOK'
  <2>1. state' \in StateType /\ released' \subseteq Destinations
    BY <1>1, <1>2, <1>3, <1>4, <1>7 DEF TypeOK
  <2>2. edits' \in 0..MaxEdits
    BY <1>1, ProvisioningAssumption DEF TypeOK
  <2>3. QED
    BY <1>1, <1>6, <1>8, <2>1, <2>2 DEF TypeOK, RunType, RunPlaces, StateType
<1>10. Good(state)'
  <2>1. On(remaining) = On(state)
    BY <1>3 DEF On
  <2>2. Enabled(remaining) \subseteq Enabled(state)
    BY <1>5 DEF Enabled
  <2>3. Sound(remaining)
    BY <1>1, <1>3, <1>5, <2>1, <2>2 DEF Sound, Enabled
  <2>4. QED
    BY <1>1, <1>7, <2>3, GoodEither DEF IInv, Good
<1>11. PendingFed'
  BY <1>1, <1>3, <1>7 DEF IInv, PendingFed, On
<1>12. Midway'
  BY <1>8 DEF Midway
<1>13. Recorded'
  <2>1. remote[target] # None
    BY <1>1 DEF IInv, Recorded, target
  <2>2. \A e \in released' : remote[e] # None
    BY <1>2, <2>1 DEF IInv, Recorded
  <2>3. QED
    BY <1>1, <1>5, <1>7, <1>8, <2>2 DEF IInv, Recorded, Known
<1>14. LetGo'
  <2>1. CASE "disk" \notin env
    <3>1. state' = remaining /\ run'.at = "finalize"
      BY <1>6, <1>7, <1>8, <2>1
    <3>2. Known => journal.destination \notin released /\ ~Applied
      BY <1>1, <2>1, RunMoves DEF IInv, LetGo
    <3>3. CASE released' = released
      BY <1>1, <1>5, <2>1, <3>1, <3>2, <3>3 DEF IInv, LetGo, Known
    <3>4. CASE ~WantedElsewhere(target, t) /\ released' = released \cup {target}
      <4>1. \A u \in Managed(remaining) : remaining.playlists[u].destination \notin released'
        BY <1>5, <2>1, <3>4 DEF IInv, LetGo, WantedElsewhere
      <4>2. Known => journal.destination \notin released'
        <5>1. SUFFICES ASSUME Known PROVE journal.destination # target
          BY <3>2, <3>4
        <5>2. CASE journal.template = t
          BY <1>1, <3>2, <5>1, <5>2 DEF Applied, target
        <5>3. CASE journal.template # t
          BY <3>4, <5>1, <5>3 DEF WantedElsewhere
        <5>4. QED
          BY <5>2, <5>3
      <4>3. QED
        BY <1>1, <3>1, <4>1, <4>2 DEF LetGo, Known
    <3>5. QED
      BY <1>2, <3>3, <3>4
  <2>2. QED
    BY <2>1 DEF LetGo
<1>15. EveryCreationAccounted'
  <2>1. CASE o = "lost"
    BY <1>1, <1>2, <1>7, <2>1, StateKept DEF IInv, EveryCreationAccounted, Started
  <2>2. CASE o # "lost"
    <3>1. state' = remaining
      BY <1>7, <2>2
    <3>2. ASSUME NEW u \in Templates, NEW e \in Loose(u)'
          PROVE  \/ e \in Loose(u)
                 \/ Known /\ journal.destination = e
      <4>1. /\ remote[e] = u /\ e \in Destinations /\ e \notin released' /\ e \notin released
            /\ \A v \in Managed(remaining) : state.playlists[v].destination # e
        BY <1>1, <1>2, <1>5, <3>1 DEF Loose
      <4>2. CASE e # target
        BY <1>5, <4>1, <4>2 DEF Loose, target
      <4>3. CASE e = target
        BY <1>2, <1>5, <2>2, <4>1, <4>3 DEF WantedElsewhere
      <4>4. QED
        BY <4>2, <4>3
    <3>3. CASE Known
      BY <1>1, <3>2, <3>3 DEF IInv, EveryCreationAccounted, Known, Started
    <3>4. CASE ~Known
      <4>1. \A u \in Templates : Loose(u)' \subseteq Loose(u)
        BY <3>2, <3>4
      <4>2. ASSUME NEW u \in Templates, NEW e \in Loose(u)'
            PROVE  /\ journal # None
                   /\ \/ journal.destination = e
                      \/ Started /\ journal.template = u /\ Loose(u)' = {e}
        BY <4>1, <4>2 DEF IInv, EveryCreationAccounted
      <4>3. QED
        BY <1>1, <4>2 DEF EveryCreationAccounted, Started
    <3>5. QED
      BY <3>3, <3>4
  <2>3. QED
    BY <2>1, <2>2
<1>16. CreationsDoNotOverlap'
  BY <1>8 DEF CreationsDoNotOverlap
<1>17. QED
  BY <1>9, <1>10, <1>11, <1>12, <1>13, <1>14, <1>15, <1>16 DEF IInv

-------------------------------------------------------------------------------
LEMMA Invariance == Spec => []IInv
<1>1. Init => IInv
  <2> SUFFICES ASSUME Init PROVE IInv
    OBVIOUS
  <2>1. /\ Managed(state) = {} /\ Enabled(state) = {} /\ Active(state) = {} /\ journal = None /\ run.at = "down"
        /\ \A d \in Destinations : remote[d] = None
    BY RunMoves DEF Init, Managed, Enabled, Active
  <2>2. TypeOK
    BY RunMoves, ProvisioningAssumption DEF Init, TypeOK, RunType, RunPlaces
  <2>3. Good(state)
    BY <2>1 DEF Good, Valid, Sound, Effective
  <2>4. \A t \in Templates : Loose(t) = {}
    BY <2>1, ProvisioningAssumption DEF Loose
  <2>5. PendingFed /\ Midway /\ LetGo /\ EveryCreationAccounted /\ CreationsDoNotOverlap
    BY <2>1, <2>4 DEF PendingFed, Midway, LetGo, Known, EveryCreationAccounted,
                      CreationsDoNotOverlap
  <2>6. Recorded
    BY <2>1 DEF Init, Recorded, Known
  <2>7. QED
    BY <2>2, <2>3, <2>5, <2>6 DEF IInv
<1>2. IInv /\ [Next]_vars => IInv'
  <2> SUFFICES ASSUME IInv, [Next]_vars PROVE IInv'
    OBVIOUS
  <2>1. CASE UNCHANGED vars
    BY <2>1, GoodEither DEF vars, IInv, TypeOK, Managed, On, PendingFed, Midway, Applied,
                Recorded, LetGo, Started, Known, Loose, EveryCreationAccounted,
                CreationsDoNotOverlap
  <2>2. CASE Working /\ UNCHANGED env
    <3>1. CASE \E d \in Destinations : CreateAnswered(d)
      BY <2>2, <3>1, CreateAnsweredKeeps
    <3>2. CASE \E d \in Destinations : CreateUncertain(d)
      BY <2>2, <3>2, CreateUncertainKeeps
    <3>3. CASE CreateRefused \/ FinalizedBefore \/ ClearJournal
      BY <2>2, <3>3, ClearKeeps
    <3>4. CASE RecordDestination
      BY <2>2, <3>4, RecordKeeps
    <3>5. CASE NothingToFinalize \/ FinalizeSuspended \/ FinalizeRefused
      BY <2>2, <3>5, QuietKeeps
    <3>6. CASE Finalize
      BY <2>2, <3>6, FinalizeKeeps
    <3>7. QED
      BY <2>2, <3>1, <3>2, <3>3, <3>4, <3>5, <3>6 DEF Working
  <2>3. CASE Owner /\ UNCHANGED env
    <3>1. CASE \E t \in Templates, chosen \in SUBSET Sources : Activate(t, chosen)
      BY <2>3, <3>1, ActivateKeeps
    <3>2. CASE \E t \in Templates, chosen \in SUBSET Sources, e \in BOOLEAN : Update(t, chosen, e)
      BY <2>3, <3>2, UpdateKeeps
    <3>3. CASE \E t \in Templates : StopManaging(t)
      BY <2>3, <3>3, StopKeeps
    <3>4. CASE \E t \in Templates :
                 CreateTemplate(t) \/ DeleteTemplate(t) \/ DiscardQuarantined(t)
      BY <2>3, <3>4, TemplateKeeps
    <3>5. CASE \E x \in Sources : EnableSource(x) \/ DisableSource(x) \/ DeleteSource(x)
      BY <2>3, <3>5, SourceKeeps
    <3>6. CASE \E d \in Destinations : Adopt(d)
      BY <2>3, <3>6, RecordKeeps
    <3>7. CASE ClearUncertain
      BY <2>3, <3>7, ClearUncertainKeeps
    <3>8. CASE \E t \in Templates : RepairDraft(t)
      BY <2>3, <3>8, QuarantineKeeps
    <3>9. QED
      BY <2>3, <3>1, <3>2, <3>3, <3>4, <3>5, <3>6, <3>7, <3>8 DEF Owner
  <2>4. CASE (PageView \/ Crash \/ StartProcess) /\ UNCHANGED env
    BY <2>4, QuietKeeps
  <2>5. CASE Damage /\ UNCHANGED env
    BY <2>5, QuarantineKeeps DEF Damage
  <2>6. QED
    BY <2>1, <2>2, <2>3, <2>4, <2>5 DEF Next
<1>3. QED
  BY <1>1, <1>2, PTL DEF Spec

-------------------------------------------------------------------------------
(* Types, for any templates, sources, destinations and bounds. *)
THEOREM TypeCorrect == Spec => []TypeOK
<1>1. IInv => TypeOK
  BY DEF IInv
<1>2. QED
  BY <1>1, Invariance, PTL

(* No playlist created at Spotify is ever lost track of, and no second one *)
(* is created for the same uncertain request.                              *)
THEOREM CreationAccounted == Spec => []EveryCreationAccounted
<1>1. IInv => EveryCreationAccounted
  BY DEF IInv
<1>2. QED
  BY <1>1, Invariance, PTL

(* A create request is sent only when every earlier one is settled. *)
THEOREM CreationsApart == Spec => []CreationsDoNotOverlap
<1>1. IInv => CreationsDoNotOverlap
  BY DEF IInv
<1>2. QED
  BY <1>1, Invariance, PTL

(* While writes succeed, crashes and restarts bring back nothing the owner *)
(* has let go.                                                             *)
THEOREM LetGoHolds == Spec => []LetGoStaysLetGo
<1>1. IInv => LetGoStaysLetGo
  BY DEF IInv, LetGo, LetGoStaysLetGo
<1>2. QED
  BY <1>1, Invariance, PTL

(* Each enabled playlist, suspended or not, and the pending activation     *)
(* keep a source that is on.                                               *)
THEOREM SourcesKept == Spec => []SourcesRemain
<1>1. IInv => SourcesRemain
  BY DEF IInv, Good, Sound, PendingFed, SourcesRemain
<1>2. QED
  BY <1>1, Invariance, PTL

(* Two playlists the engine reconciles never share a destination. *)
THEOREM OneWriter == Spec => []OneWriterPerDestination
<1>1. IInv => OneWriterPerDestination
  BY DEF IInv, Good, Valid, OneWriterPerDestination
<1>2. QED
  BY <1>1, Invariance, PTL
===============================================================================
