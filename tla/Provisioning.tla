---------------------------- MODULE Provisioning ----------------------------
(***************************************************************************)
(* Activating a managed playlist: the only place where the program asks    *)
(* Spotify to create something, an operation with no idempotency key.      *)
(*                                                                         *)
(* Two files carry the outcome: the provisioning journal, which holds one  *)
(* intent from before the create request until the destination is          *)
(* managed, and the managed state with the playlists, the owner's template *)
(* drafts and the sources.  An activation writes them in the order         *)
(*   journal (request started) -> create -> journal (destination known)    *)
(*   -> managed state -> journal cleared                                   *)
(* and may be cut between any two of them, by a crash or by a write that   *)
(* fails.  Every page view and every playlist request ends by finalizing a *)
(* known destination, and so does the start of the process.                *)
(*                                                                         *)
(* Admin requests are served one at a time by one thread, each under the   *)
(* configuration lock, so a request is the sequence of its steps and only  *)
(* a crash cuts in.                                                        *)
(*                                                                         *)
(* A draft whose stored record somebody has damaged is quarantined by the  *)
(* next load of the managed state: while any is, a playlist or a pending   *)
(* activation whose template cannot be read is suspended.                  *)
(***************************************************************************)
EXTENDS Naturals, FiniteSets

CONSTANTS
  Templates,     \* playlist templates the owner may draft and activate
  Sources,       \* sources a playlist may be fed from
  Destinations,  \* identifiers Spotify may give to a created playlist
  None,
  Environments,  \* sets of the faults that may occur: "disk", "crash", "damage"
  MaxFaults,     \* bound: failing writes, crashes and damaged drafts
  MaxEdits       \* bound: requests of the owner that change something

ASSUME ProvisioningAssumption ==
  /\ None \notin Templates \cup Destinations
  /\ Environments \subseteq SUBSET {"disk", "crash", "damage"}
  /\ MaxFaults \in Nat
  /\ MaxEdits \in Nat

VARIABLES
  journal,   \* managed-playlist-provisioning.json: an intent, or None
  state,     \* managed state: playlists, drafts (read, quarantined), sources
  remote,    \* the playlists this program had Spotify create, by template name
  released,  \* history: destinations the owner has let go of
  run,       \* the step of the request, or of the start, in progress
  faults, edits, env

vars == <<journal, state, remote, released, run, faults, edits, env>>

Intent == [template: Templates, sources: (SUBSET Sources) \ {{}},
           destination: Destinations \cup {None}]

Playlist == [destination: Destinations, sources: SUBSET Sources, enabled: BOOLEAN]

ASSUME NoneAssumption == None \notin Intent /\ None \notin Playlist

(* REQUEST_STARTED and DESTINATION_KNOWN *)
Started == journal # None /\ journal.destination = None
Known   == journal # None /\ journal.destination # None

Managed(s) == {t \in Templates : s.playlists[t] # None}
Enabled(s) == {t \in Managed(s) : s.playlists[t].enabled}

(* template_suspended_by_quarantine; the engine leaves such a playlist out. *)
Suspended(s, t) == s.quarantined # {} /\ t \notin s.templates
Effective(s) == {t \in Managed(s) : ~Suspended(s, t)}
Active(s)  == Enabled(s) \cap Effective(s)

On(s)      == {x \in Sources : s.sources[x] = "on"}

Step(at, boot, destination) == [at |-> at, boot |-> boot, destination |-> destination]
Idle == Step("idle", FALSE, None)
Down == Step("down", FALSE, None)
Then(at) == [run EXCEPT !.at = at]

(* A failing request ends; a failing start ends the process. *)
Abandoned == IF run.boot THEN Down ELSE Idle

TypeOK ==
  /\ journal \in Intent \cup {None}
  /\ state \in [playlists: [Templates -> Playlist \cup {None}],
                templates: SUBSET Templates,
                quarantined: SUBSET Templates,
                sources: [Sources -> {"on", "off", "gone"}]]
  /\ remote \in [Destinations -> Templates \cup {None}]
  /\ released \subseteq Destinations
  /\ run \in [at: {"idle", "down", "create", "record", "finalize", "clear"},
              boot: BOOLEAN, destination: Destinations \cup {None}]
  /\ faults \in 0..MaxFaults
  /\ edits \in 0..MaxEdits
  /\ env \in Environments

-----------------------------------------------------------------------------
(***************************************************************************)
(* Writes.  Each file is replaced atomically and then synchronized: a      *)
(* failing write has either changed nothing ("lost") or put the new        *)
(* content in place before the error ("late").  Both raise.                *)
(***************************************************************************)
Outcomes ==
  {"done"} \cup (IF "disk" \in env /\ faults < MaxFaults THEN {"lost", "late"} ELSE {})

Write(o, next) ==
  /\ o \in Outcomes
  /\ faults' = IF o = "done" THEN faults ELSE faults + 1
  /\ run' = IF o = "done" THEN next ELSE Abandoned

SaveJournal(intent, o) == journal' = IF o = "lost" THEN journal ELSE intent
SaveState(new, o)      == state' = IF o = "lost" THEN state ELSE new
ValidAllowingDuplicates(s) ==
  /\ Effective(s) \subseteq s.templates
  /\ \A t \in Effective(s) : \A x \in s.playlists[t].sources : s.sources[x] # "gone"
  /\ \A t \in Active(s) : s.playlists[t].sources \cap On(s) # {}

(* What every write of the managed state checks first: each playlist that  *)
(* is not suspended has its template and its sources, each enabled one a   *)
(* source that is on, and no two enabled ones the same destination.        *)
Valid(s) ==
  /\ Effective(s) \subseteq s.templates
  /\ \A t \in Effective(s) : \A x \in s.playlists[t].sources : s.sources[x] # "gone"
  /\ \A t \in Active(s) : s.playlists[t].sources \cap On(s) # {}
  /\ \A t, u \in Active(s) :
       s.playlists[t].destination = s.playlists[u].destination => t = u

(* Destinations created for template t that nobody accounts for yet. *)
Loose(t) ==
  {d \in Destinations : /\ remote[d] = t /\ d \notin released
                        /\ \A u \in Managed(state) : state.playlists[u].destination # d}

Request == run = Idle /\ edits < MaxEdits /\ edits' = edits + 1
-----------------------------------------------------------------------------
(***************************************************************************)
(* Activation.                                                             *)
(***************************************************************************)
Activate(t, chosen) ==
  /\ Request
  /\ journal = None
  /\ t \in state.templates \ Managed(state)
  /\ chosen # {} /\ chosen \subseteq On(state)
  /\ \E o \in Outcomes :
       /\ SaveJournal([template |-> t, sources |-> chosen, destination |-> None], o)
       /\ Write(o, Then("create"))
  /\ UNCHANGED <<state, remote, released>>

(* Spotify answers with the new playlist. *)
CreateAnswered(d) ==
  /\ run.at = "create" /\ remote[d] = None
  /\ remote' = [remote EXCEPT ![d] = journal.template]
  /\ run' = Step("record", FALSE, d)
  /\ UNCHANGED <<journal, state, released, faults, edits>>

(* The cooldown suppresses the request, or Spotify refuses it with a       *)
(* status below 500: nothing was created and the intent is withdrawn.      *)
CreateRefused ==
  /\ run.at = "create"
  /\ \E o \in Outcomes : SaveJournal(None, o) /\ Write(o, Idle)
  /\ UNCHANGED <<state, remote, released, edits>>
CreateUncertainWithdrawn(d) ==
  /\ run.at = "create"
  /\ \/ UNCHANGED remote
     \/ remote[d] = None /\ remote' = [remote EXCEPT ![d] = journal.template]
  /\ run' = Idle
  /\ journal' = None
  /\ UNCHANGED <<state, released, faults, edits>>

(* A 5xx, a transport error or an answer without a usable identifier: the  *)
(* playlist may exist, and the intent stays.                               *)
CreateUncertain(d) ==
  /\ run.at = "create"
  /\ \/ UNCHANGED remote
     \/ remote[d] = None /\ remote' = [remote EXCEPT ![d] = journal.template]
  /\ run' = Idle
  /\ UNCHANGED <<journal, state, released, faults, edits>>

RecordDestination ==
  /\ run.at = "record"
  /\ \E o \in Outcomes :
       /\ SaveJournal([journal EXCEPT !.destination = run.destination], o)
       /\ Write(o, Then("finalize"))
  /\ UNCHANGED <<state, remote, released, edits>>
-----------------------------------------------------------------------------
(***************************************************************************)
(* Finalizing a known destination.  The sources of the intent are treated  *)
(* as newly chosen ones: every one of them must be on.  For a suspended    *)
(* template nothing is done and the journal is kept: a page view and a     *)
(* start go on, an activation or an adoption ends in an assertion.         *)
(***************************************************************************)
Finalized ==
  [state EXCEPT !.playlists[journal.template] =
     [destination |-> journal.destination, sources |-> journal.sources, enabled |-> TRUE]]

Finalizable ==
  /\ journal.template \in state.templates
  /\ journal.sources \subseteq On(state)
  /\ Valid(Finalized)

NothingToFinalize ==
  /\ run.at = "finalize" /\ ~Known
  /\ run' = Idle
  /\ UNCHANGED <<journal, state, remote, released, faults, edits>>

(* An earlier finalization reached the managed state but not its end. *)
FinalizedBefore ==
  /\ run.at = "finalize" /\ Known
  /\ journal.template \in Managed(state)
  /\ state.playlists[journal.template].destination = journal.destination
  /\ \E o \in Outcomes : SaveJournal(None, o) /\ Write(o, Idle)
  /\ UNCHANGED <<state, remote, released, edits>>

Finalize ==
  /\ run.at = "finalize" /\ Known
  /\ journal.template \notin Managed(state)
  /\ ~Suspended(state, journal.template)
  /\ Finalizable
  /\ \E o \in Outcomes : SaveState(Finalized, o) /\ Write(o, Then("clear"))
  /\ UNCHANGED <<journal, remote, released, edits>>

FinalizeSuspended ==
  /\ run.at = "finalize" /\ Known
  /\ journal.template \notin Managed(state)
  /\ Suspended(state, journal.template)
  /\ run' = Idle
  /\ UNCHANGED <<journal, state, remote, released, faults, edits>>

(* PlaylistProvisioningRecoveryRequired, or a validation error *)
FinalizeRefused ==
  /\ run.at = "finalize" /\ Known
  /\ IF journal.template \in Managed(state)
     THEN state.playlists[journal.template].destination # journal.destination
     ELSE ~Suspended(state, journal.template) /\ ~Finalizable
  /\ run' = Abandoned
  /\ UNCHANGED <<journal, state, remote, released, faults, edits>>

ClearJournal ==
  /\ run.at = "clear"
  /\ \E o \in Outcomes : SaveJournal(None, o) /\ Write(o, Idle)
  /\ UNCHANGED <<state, remote, released, edits>>

PageView ==
  /\ run = Idle
  /\ run' = Then("finalize")
  /\ UNCHANGED <<journal, state, remote, released, faults, edits>>

Crash ==
  /\ "crash" \in env /\ faults < MaxFaults
  /\ run # Down
  /\ run' = Down
  /\ faults' = faults + 1
  /\ UNCHANGED <<journal, state, remote, released, edits>>
StartProcessPlainly ==
  /\ run = Down
  /\ run' = Idle
  /\ UNCHANGED <<journal, state, remote, released, faults, edits>>

StartProcess ==
  /\ run = Down
  /\ run' = Step("finalize", TRUE, None)
  /\ UNCHANGED <<journal, state, remote, released, faults, edits>>
-----------------------------------------------------------------------------
(***************************************************************************)
(* The owner settles an uncertain activation: by naming the playlist that  *)
(* was created, or by dropping it.  A named playlist must be the owner's   *)
(* and bear the name of the intent; names are the owner's to choose, for   *)
(* two templates the same one if he likes, so any of his may pass.         *)
(***************************************************************************)
Adopt(d) ==
  /\ Request
  /\ Started
  /\ remote[d] # None
  /\ \E o \in Outcomes :
       /\ SaveJournal([journal EXCEPT !.destination = d], o)
       /\ Write(o, Then("finalize"))
       /\ released' = IF o = "lost" THEN released
                      ELSE (released \cup Loose(journal.template)) \ {d}
  /\ UNCHANGED <<state, remote>>

ClearUncertain ==
  /\ Request
  /\ Started
  /\ \E o \in Outcomes :
       /\ SaveJournal(None, o)
       /\ Write(o, Then("finalize"))
       /\ released' = IF o = "lost" THEN released
                      ELSE released \cup Loose(journal.template)
  /\ UNCHANGED <<state, remote>>
-----------------------------------------------------------------------------
(***************************************************************************)
(* The rest of the administration that meets a pending activation.         *)
(***************************************************************************)
WantedElsewhere(d, t) ==
  \/ \E u \in Managed(state) \ {t} : state.playlists[u].destination = d
  \/ Known /\ journal.template # t /\ journal.destination = d

StopManaging(t) ==
  LET remaining == [state EXCEPT !.playlists[t] = None]
      target    == state.playlists[t].destination
  IN  /\ Request
      /\ t \in Effective(state)
      /\ Valid(remaining)
      /\ \E o \in Outcomes :
           /\ SaveState(remaining, o)
           /\ Write(o, Then("finalize"))
           /\ released' = IF o = "lost" \/ WantedElsewhere(target, t)
                          THEN released ELSE released \cup {target}
      /\ UNCHANGED <<journal, remote>>

(* A paused playlist may keep, or be given, no source; a source that is    *)
(* off stays assigned but cannot be newly assigned.                        *)
Update(t, chosen, enabled) ==
  LET updated == [state EXCEPT !.playlists[t].sources = chosen,
                               !.playlists[t].enabled = enabled]
  IN  /\ Request
      /\ t \in Effective(state)
      /\ chosen \subseteq On(state) \cup state.playlists[t].sources
      /\ enabled => chosen \cap On(state) # {}
      /\ Valid(updated)
      /\ \E o \in Outcomes : SaveState(updated, o) /\ Write(o, Then("finalize"))
      /\ UNCHANGED <<journal, remote, released>>

EnableSource(x) ==
  /\ Request
  /\ state.sources[x] = "off"
  /\ \E o \in Outcomes : SaveState([state EXCEPT !.sources[x] = "on"], o) /\ Write(o, Idle)
  /\ UNCHANGED <<journal, remote, released>>
DisableSourceOfPending(x) ==
  LET without == On(state) \ {x}
  IN  /\ Request
      /\ state.sources[x] = "on"
      /\ \A t \in Enabled(state) :
           x \in state.playlists[t].sources => state.playlists[t].sources \cap without # {}
      /\ \E o \in Outcomes : SaveState([state EXCEPT !.sources[x] = "off"], o) /\ Write(o, Idle)
      /\ UNCHANGED <<journal, remote, released>>

(* source_disable_blockers: a source may go while every enabled playlist,  *)
(* and the pending activation, keeps another one that is on.               *)
DisableSource(x) ==
  LET without == On(state) \ {x}
  IN  /\ Request
      /\ state.sources[x] = "on"
      /\ \A t \in Enabled(state) :
           x \in state.playlists[t].sources => state.playlists[t].sources \cap without # {}
      /\ journal # None /\ x \in journal.sources => journal.sources \cap without # {}
      /\ \E o \in Outcomes : SaveState([state EXCEPT !.sources[x] = "off"], o) /\ Write(o, Idle)
      /\ UNCHANGED <<journal, remote, released>>

(* A source is deleted only while nothing names it and no draft is         *)
(* quarantined; that the drafts do not name it is left out.                *)
DeleteSource(x) ==
  LET removed == [state EXCEPT !.sources[x] = "gone"]
  IN  /\ Request
      /\ state.sources[x] # "gone"
      /\ \A t \in Managed(state) : x \notin state.playlists[t].sources
      /\ state.quarantined = {}
      /\ journal # None => x \notin journal.sources
      /\ \E o \in Outcomes : SaveState(removed, o) /\ Write(o, Idle)
      /\ UNCHANGED <<journal, remote, released>>

(* The write refuses a draft with the identifier of a quarantined one. *)
CreateTemplate(t) ==
  /\ Request
  /\ t \notin state.templates \cup state.quarantined
  /\ \E o \in Outcomes :
       /\ SaveState([state EXCEPT !.templates = @ \cup {t}], o)
       /\ Write(o, Idle)
  /\ UNCHANGED <<journal, remote, released>>
DeleteTemplateOfPending(t) ==
  /\ Request
  /\ t \in state.templates \ Managed(state)
  /\ \E o \in Outcomes :
       /\ SaveState([state EXCEPT !.templates = @ \ {t}], o)
       /\ Write(o, Idle)
  /\ UNCHANGED <<journal, remote, released>>

DeleteTemplate(t) ==
  /\ Request
  /\ t \in state.templates \ Managed(state)
  /\ journal # None => journal.template # t
  /\ \E o \in Outcomes :
       /\ SaveState([state EXCEPT !.templates = @ \ {t}], o)
       /\ Write(o, Idle)
  /\ UNCHANGED <<journal, remote, released>>
-----------------------------------------------------------------------------
(***************************************************************************)
(* Quarantine.  Somebody damages the stored record of a draft; the owner   *)
(* restores it in the file, or discards it once nothing depends on it.     *)
(***************************************************************************)
DamageDraft(t) ==
  /\ "damage" \in env /\ faults < MaxFaults
  /\ t \in state.templates
  /\ state' = [state EXCEPT !.templates = @ \ {t}, !.quarantined = @ \cup {t}]
  /\ faults' = faults + 1
  /\ UNCHANGED <<journal, remote, released, run, edits>>

(* Only a repair that leaves a configuration the engine accepts. *)
RepairDraft(t) ==
  LET repaired == [state EXCEPT !.templates = @ \cup {t}, !.quarantined = @ \ {t}]
  IN  /\ Request
      /\ t \in state.quarantined
      /\ Valid(repaired)
      /\ state' = repaired
      /\ UNCHANGED <<journal, remote, released, run, faults>>

DiscardQuarantined(t) ==
  LET rest == [state EXCEPT !.quarantined = @ \ {t}]
  IN  /\ Request
      /\ t \in state.quarantined
      /\ \A u \in Managed(state) : ~Suspended(state, u)
      /\ journal = None
      /\ Valid(rest)
      /\ \E o \in Outcomes : SaveState(rest, o) /\ Write(o, Idle)
      /\ UNCHANGED <<journal, remote, released>>
-----------------------------------------------------------------------------
Init ==
  /\ journal = None
  /\ state = [playlists |-> [t \in Templates |-> None],
              templates |-> Templates,
              quarantined |-> {},
              sources   |-> [x \in Sources |-> "on"]]
  /\ remote = [d \in Destinations |-> None]
  /\ released = {}
  /\ run = Down
  /\ faults = 0 /\ edits = 0
  /\ env \in Environments

Working ==
  \/ \E d \in Destinations : CreateAnswered(d) \/ CreateUncertain(d)
  \/ CreateRefused \/ RecordDestination \/ ClearJournal
  \/ NothingToFinalize \/ FinalizedBefore \/ FinalizeSuspended
  \/ Finalize \/ FinalizeRefused

Owner ==
  \/ \E t \in Templates, chosen \in SUBSET Sources : Activate(t, chosen)
  \/ \E t \in Templates, chosen \in SUBSET Sources, e \in BOOLEAN : Update(t, chosen, e)
  \/ \E t \in Templates : StopManaging(t) \/ CreateTemplate(t) \/ DeleteTemplate(t)
  \/ \E t \in Templates : RepairDraft(t) \/ DiscardQuarantined(t)
  \/ \E x \in Sources : EnableSource(x) \/ DisableSource(x) \/ DeleteSource(x)
  \/ \E d \in Destinations : Adopt(d)
  \/ ClearUncertain

Damage == \E t \in Templates : DamageDraft(t)

Next == (Working \/ Owner \/ PageView \/ Damage \/ Crash \/ StartProcess) /\ UNCHANGED env

Spec == Init /\ [][Next]_vars

(* The admin thread serves the request it has begun, the process is        *)
(* restarted when it is down, and the owner keeps opening the page.        *)
Fairness ==
  /\ WF_vars(Working /\ UNCHANGED env)
  /\ WF_vars(PageView /\ UNCHANGED env)
  /\ WF_vars(StartProcess /\ UNCHANGED env)

FairSpec == Spec /\ Fairness
-----------------------------------------------------------------------------
(***************************************************************************)
(* Properties.                                                             *)
(***************************************************************************)

(* Every playlist Spotify created for this program is managed, let go by   *)
(* the owner, recorded in the journal, or the one a started intent may     *)
(* still be asking for: no crash, failing write or ambiguous answer        *)
(* orphans a creation silently, and there is never a second one.           *)
EveryCreationAccounted ==
  \A t \in Templates : \A d \in Loose(t) :
    /\ journal # None
    /\ \/ journal.destination = d
       \/ Started /\ journal.template = t /\ Loose(t) = {d}

(* A create request is sent only when the outcome of every earlier one is  *)
(* settled: uncertain provisioning cannot lead to a duplicate creation.    *)
CreationsDoNotOverlap ==
  run.at = "create" => \A t \in Templates : Loose(t) = {}

(* With writes that succeed, a playlist the owner stopped managing, or     *)
(* whose activation was dropped, is not brought back by the finalization   *)
(* that runs with every page view: only by adopting it again.              *)
LetGoStaysLetGo ==
  "disk" \notin env =>
    \A t \in Managed(state) : state.playlists[t].destination \notin released

(* Whatever the owner disables or deletes meanwhile, each enabled playlist *)
(* and the pending activation keep a source that is on, the suspended ones *)
(* included: they find it when their draft is repaired.                    *)
SourcesRemain ==
  /\ \A t \in Enabled(state) : state.playlists[t].sources \cap On(state) # {}
  /\ journal # None => journal.sources \cap On(state) # {}

(* Two playlists the engine reconciles never write to one destination,     *)
(* although the owner may adopt, pause, stop and resume in any order, and  *)
(* drafts may be damaged and repaired.                                     *)
OneWriterPerDestination ==
  \A t, u \in Active(state) :
    state.playlists[t].destination = state.playlists[u].destination => t = u

(* What can keep a known destination out of the managed state: a source of *)
(* the intent that is off, another enabled playlist that already has the   *)
(* destination, or a damaged draft.  All are the owner's to undo.          *)
Blocked ==
  Known /\ \/ ~(journal.sources \subseteq On(state))
           \/ Suspended(state, journal.template)
           \/ \E u \in Active(state) :
                u # journal.template
                /\ state.playlists[u].destination = journal.destination

(* A known destination never stays in the journal for ever for any other   *)
(* reason: its template is still there or quarantined, and no failure      *)
(* wedges it.                                                              *)
KnownResolves == []<>(~Known \/ Blocked)
=============================================================================
