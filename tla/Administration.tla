--------------------------- MODULE Administration ---------------------------
(***************************************************************************)
(* The administration of a running installation: one server thread that    *)
(* answers the requests of several browsers, the worker of a source audit, *)
(* another process on the same directory, and restarts.                    *)
(*                                                                         *)
(*   diagnostics_runtime.py  the handlers of sources, imports, audits      *)
(*   engine_runtime.py       the handlers of playlists and drafts, serve   *)
(*   source_import.py, playlist_import.py, portable_playlists.py           *)
(*   source_admin.py, managed_admin.py, source_audit_jobs.py               *)
(*                                                                         *)
(* A request consumes the token of its page, loads the configuration under *)
(* the configuration lock, decides, saves, and for imports and identities  *)
(* reads back what a failed save left.  The lock is held from loading to   *)
(* the answer.                                                             *)
(***************************************************************************)
EXTENDS OperationalStore, AdminSessions

CONSTANTS
    Features,       \* which optional actors, or several tabs, one behaviour has
    MaxWrites,      \* configuration changes of the browsers
    MaxCrashes,     \* restarts
    MaxElsewhere,   \* writes of another process
    Audited         \* sources an audit inspects

ASSUME AdministrationBounds ==
    /\ Features \subseteq
           SUBSET {"tabs", "import", "review", "audit", "elsewhere", "crash", "fault", "loss", "damage"}
    /\ MaxWrites \in Nat /\ MaxCrashes \in Nat /\ MaxElsewhere \in Nat /\ Audited \in Nat

VARIABLES
    phase,          \* of the process: "down", "opened", "up"
    request,        \* what the server thread is doing
    pending,        \* an activation that uses the installed source waits
    job,            \* SourceAuditJobs
    with,           \* the features of this behaviour
    writes, crashes, elsewhere      \* bounds

sessions == <<session, page>>
bounds   == <<with, writes, crashes, elsewhere>>
vars     == <<store, sessions, phase, request, pending, job, bounds>>

Idle  == [at |-> "idle"]
NoJob == [status |-> "none", at |-> "none", done |-> 0, cancel |-> FALSE, result |-> "none"]

Edits     == {"update", "delete", "discard", "cover", "repair"}
Previewed == {"sources", "playlist"}

Init ==
    /\ StoreInit /\ SessionsInit
    /\ phase = "down"
    /\ request = Idle
    /\ pending = FALSE
    /\ job = NoJob
    /\ with \in Features
    /\ IF "damage" \in with THEN legacy \in Damaged \cup {"invalid", "ancient"}
       ELSE legacy = "clean" \/ (legacy = "none" /\ "crash" \in with)
    /\ writes = 0 /\ crashes = 0 /\ elsewhere = 0

Holding == request.at \in {"saving", "reading"}

LockFree == ~Holding

-----------------------------------------------------------------------------
(* Starting and ending.                                                    *)

Starting(p) ==
    /\ phase' = p
    /\ UNCHANGED <<sessions, request, pending, job, bounds>>

Open     == phase = "down" /\ (OpenExisting \/ Initialized) /\ Starting("opened")
OpenCut  == phase = "down" /\ "fault" \in with /\ InitializationCut /\ Starting("down")
Refused  == phase = "down" /\ OpenRefused /\ Starting("down")

\* load_effective_config, and the store the services share.
Configured ==
    /\ phase = "opened"
    /\ \/ Loaded /\ DiskUnchanged /\ Starting("up")
       \/ Unloadable /\ DiskUnchanged /\ Starting("down")

Ends ==
    /\ phase' = "down"
    /\ SessionsForgotten
    /\ request' = Idle
    /\ job' = NoJob

\* A crash, or the end of serve, which waits for no worker.
Crash ==
    /\ phase # "down" /\ "crash" \in with /\ crashes < MaxCrashes
    /\ crashes' = crashes + 1
    /\ Ends
    /\ UNCHANGED <<store, pending, with, writes, elsewhere>>

-----------------------------------------------------------------------------
(* Sessions and pages.  The server answers one request at a time.          *)

Serving == phase = "up" /\ request.at = "idle"

Browsing == Serving /\ UNCHANGED <<phase, request, pending, job, bounds>>

\* Without "tabs" a behaviour has one browser with one page.
Alone(others) == "tabs" \in with \/ others = {}

Login(b)         == /\ Browsing /\ LogsIn(b) /\ UNCHANGED store
                    /\ Alone({c \in Browsers : session[c].in})
SessionOver(b)   == Browsing /\ SessionEnds(b) /\ UNCHANGED store
TokenOver(b)     == Browsing /\ TokenExpires(b) /\ UNCHANGED store
PreviewOver(b)   == Browsing /\ PreviewExpires(b) /\ UNCHANGED store
ClosePage(s)     == Browsing /\ Closed(s) /\ UNCHANGED store
Logout(s)        == Browsing /\ LogsOut(s) /\ UNCHANGED store

\* Downloads read the configuration and keep nothing.
Exported(b)       == Browsing /\ session[b].in /\ Loaded /\ DiskUnchanged /\ UNCHANGED sessions
ExportSources(b)  == Exported(b)
ExportPlaylist(b) == Packages(document) # {} /\ Exported(b)

Opened(b, s, kind, remembered) ==
    /\ Browsing
    /\ session[b].in /\ ~Shows(s) /\ Alone({t \in Slots : Shows(t)})
    /\ Loaded /\ DiskUnchanged
    /\ Rendered(s, Form(b, kind, remembered, FALSE))
    /\ UNCHANGED session

\* The pages of the playlists and of the sources: forms that promise nothing.
OpenOrdinary(b, s) == Opened(b, s, "ordinary", NoDocument)

OpenSources(b, s)    == Opened(b, s, "ordinary", NoDocument)
OpenSourceForm(b, s) == MayUpdate(document) /\ Opened(b, s, "ordinary", NoDocument)
OpenDeletion(b, s)   == MayUpdate(document) /\ Opened(b, s, "ordinary", NoDocument)

\* The repair of a damaged draft carries the fingerprint of its raw text.
OpenRepair(b, s) ==
    MayDropDamaged(document, pending)
        /\ Opened(b, s, "repair", [NoDocument EXCEPT !.draft = document.draft])

\* The form of an imported draft carries the fingerprint of that draft.
OpenDraft(b, s) ==
    document.draft \in Readable /\ Opened(b, s, "draft", [NoDocument EXCEPT !.draft = document.draft])

\* The confirmation of an identity carries one of the whole configuration.
OpenIdentity(b, s) ==
    /\ document.owned \in {"plain", "identified"} /\ ~Suspended(document)
    /\ Opened(b, s, "identity", document)

-----------------------------------------------------------------------------
(* Receiving a request.                                                    *)

\* An answer that says what is in the file, and one that does not.
Answered(reply) == request' = [at |-> "answer", reply |-> reply]

Dismissed == request' = Idle

\* Of the page in slot s; history: the pages its token came with.
Turn(op, s, staged) ==
    [at |-> "loading", op |-> op, slot |-> s, bearers |-> Bearers(page[s].by), staged |-> staged]

\* A form is read, its token consumed and, when accepted, carried out.
Submitted(s, kind, op, accepted) ==
    LET b == page[s].by
    IN  /\ Serving /\ MayPost(s) /\ page[s].kind = kind
        /\ page' = Consumed(b)
        /\ request' = IF accepted
                      THEN Turn(op, s, [kind |-> op, base |-> page[s].base,
                                        pend |-> page[s].pend, file |-> "none"])
                      ELSE Idle
        /\ UNCHANGED <<store, session, phase, pending, job, bounds>>

SourceForm(s)     == Submitted(s, "ordinary", "update", TRUE)
SourceDeletion(s) == Submitted(s, "ordinary", "delete", TRUE)
SourceCreation(s) == Submitted(s, "ordinary", "create", session[page[s].by].reviewed)
PlaylistForm(s)   == Submitted(s, "ordinary", "activation", TRUE)
TemplateForm(s)   == Submitted(s, "ordinary", "discard", TRUE)
CoverForm(s)      == Submitted(s, "ordinary", "cover", TRUE)
RepairForm(s)     == Submitted(s, "repair", "repair", TRUE)
DraftForm(s)      == Submitted(s, "draft", "draft", TRUE)
IdentityForm(s)   == Submitted(s, "identity", "identity", TRUE)
SpotifyForm(s)    == Submitted(s, "ordinary", "none", FALSE)
AuditForm(s)      == "audit" \in with /\ Submitted(s, "ordinary", "audit", TRUE)
CancelForm(s)     == "audit" \in with /\ Submitted(s, "ordinary", "cancel", TRUE)

\* The report of a candidate is kept in the session, that of a show which is
\* installed already, or of a failed inspection, is not.
Inspect(s) ==
    /\ "review" \in with
    /\ Serving /\ MayPost(s) /\ page[s].kind = "ordinary"
    /\ Loaded /\ DiskUnchanged
    /\ page' = Consumed(page[s].by)
    /\ \E report \in Examined :
         session' = [session EXCEPT ![page[s].by].reviewed = MayCreate(document) /\ Suitable(report)]
    /\ UNCHANGED <<phase, request, pending, job, bounds>>

\* The report of an installed source takes the place of a candidate's.
InspectInstalled(s) ==
    /\ "review" \in with
    /\ Serving /\ MayPost(s) /\ page[s].kind = "ordinary"
    /\ Loaded \/ Unloadable
    /\ DiskUnchanged
    /\ page' = Consumed(page[s].by)
    /\ session' = [session EXCEPT ![page[s].by].reviewed = FALSE]
    /\ UNCHANGED <<phase, request, pending, job, bounds>>

\* A document is uploaded: its plan is shown, and staged with a fingerprint.
Uploaded(s, kind, file, understood) ==
    LET b    == page[s].by
        form == [Form(b, kind, document, pending) EXCEPT !.file = file]
    IN  /\ "import" \in with
        /\ Serving /\ MayPost(s) /\ page[s].kind = "ordinary"
        /\ IF understood /\ Legible(document) /\ MayStage(b)
           THEN /\ page' = StagedPage(Consumed(b), b, s, form)
                /\ session' = [session EXCEPT ![b].staged =
                     [kind |-> kind, base |-> document, pend |-> pending, file |-> file]]
           ELSE page' = Consumed(b) /\ UNCHANGED session
        /\ IF understood THEN Loaded \/ Unloadable ELSE UNCHANGED expected
        /\ DiskUnchanged
        /\ UNCHANGED <<phase, request, pending, job, bounds>>

UploadSources(s)  == \E file \in Documents : Uploaded(s, "sources", file, SourcesUnderstood(file))
UploadPlaylist(s) == \E file \in {"a", "invalid", "torn"} : Uploaded(s, "playlist", file, PackageUnderstood(file))

\* Confirming takes the preview from the session, whatever comes of it; only
\* a confirmation with invalid fields leaves it there.
Confirmed(s, kind) ==
    LET b == page[s].by
    IN  /\ Serving /\ MayPost(s) /\ page[s].kind = kind
        /\ \/ /\ Takes(s)
              /\ session' = [session EXCEPT ![b].staged = NoPreview]
              /\ page' = WithoutPreview(Consumed(b), b)
              /\ request' \in {Turn(kind, s, session[b].staged), Idle}
           \/ page' = Consumed(b) /\ UNCHANGED <<session, request>>
        /\ UNCHANGED <<store, phase, pending, job, bounds>>

ConfirmSources(s)  == Confirmed(s, "sources")
ConfirmPlaylist(s) == Confirmed(s, "playlist")

-----------------------------------------------------------------------------
(* Deciding, under the configuration lock.                                 *)

Working(at) == phase = "up" /\ request.at = at

Unrelated == UNCHANGED <<phase, job, pending, bounds>>

\* Whether a source inspected for a candidate is examined again, without the
\* lock, after a first look for duplicates.
Reinspect ==
    /\ Working("loading") /\ request.op = "create"
    /\ Loaded /\ DiskUnchanged
    /\ IF MayCreate(document)
       THEN \E report \in Examined :
              request' = IF Suitable(report) THEN [request EXCEPT !.at = "inspected"] ELSE Idle
       ELSE Dismissed
    /\ Unrelated /\ UNCHANGED sessions

\* A configuration equal to the loaded one is not written.
Decided(op, next) ==
    request' = IF next = document THEN Idle
               ELSE [at |-> "saving", op |-> op, slot |-> request.slot,
                     bearers |-> request.bearers, base |-> document, next |-> next]

Deciding(op) ==
    /\ Working(IF op = "create" THEN "inspected" ELSE "loading") /\ request.op = op
    /\ Loaded /\ DiskUnchanged
    /\ Unrelated /\ UNCHANGED sessions

SameAsShownIgnoringDraft(shown) == document.source = shown.base.source

\* source_import_fingerprint: of the configuration and the pending activation.
SameAsShown(shown) == document = shown.base /\ pending = shown.pend

\* The decisions on conflicts must be those the plan asks for.
DecideSources ==
    LET shown == request.staged
    IN  /\ Deciding("sources")
        /\ \/ /\ Installable(shown.file) /\ SameAsShown(shown)
              /\ Decided("sources", WithSource(document, shown.file))
           \/ /\ ~Installable(shown.file) \/ ~SameAsShown(shown) \/ Conflict(document, shown.file)
              /\ Dismissed

DecidePlaylist ==
    LET shown == request.staged
    IN  /\ Deciding("playlist")
        /\ \/ /\ SameAsShown(shown) /\ ~Blocked(document)
              /\ Decided("playlist", WithPlaylist(document, shown.file))
           \/ /\ ~SameAsShown(shown) \/ Blocked(document) \/ Conflict(document, shown.file)
              /\ Dismissed

\* The fingerprint of an identity leaves the pending activation out.
DecideIdentity ==
    /\ Deciding("identity")
    /\ IF document = request.staged.base
       THEN Decided("identity", IdentityPrepared(document)) ELSE Dismissed

\* That of a draft is of the draft alone.
DecideDraft ==
    /\ Deciding("draft")
    /\ IF document.draft = request.staged.base.draft
       THEN Decided("draft", DraftEdited(document)) ELSE Dismissed

\* Deleting a source also needs the gate of the engine's cycle.
DecideEdit(op) ==
    /\ Deciding(op)
    /\ \/ Possible(document, op, pending) /\ Decided(op, Edited(document, op))
       \/ (Possible(document, op, pending) => op = "delete") /\ Dismissed

LoadFails ==
    /\ \/ Working("inspected")
       \/ Working("loading") /\ request.op \notin {"activation", "audit", "cancel"}
    /\ Unloadable /\ DiskUnchanged
    /\ Dismissed
    /\ Unrelated /\ UNCHANGED sessions

Decide ==
    \/ DecideSources \/ DecidePlaylist \/ DecideIdentity \/ DecideDraft
    \/ \E op \in Edits \cup {"create"} : DecideEdit(op)

-----------------------------------------------------------------------------
(* Saving and answering.                                                   *)

WritesAllowed == writes < MaxWrites /\ writes' = writes + 1

UnrelatedToSave == UNCHANGED <<phase, job, pending, with, crashes, elsewhere>>

\* The token of these pages has now had its effect.
Used == page' = [s \in Slots |-> IF s \in request.bearers THEN [page[s] EXCEPT !.used = TRUE]
                                 ELSE page[s]]

Reviewed(b) == session' = [session EXCEPT ![b].reviewed = @ /\ request.op # "create"]

Save ==
    /\ Working("saving")
    /\ WritesAllowed
    /\ Saved(request.next)
    /\ Answered("saved")
    /\ Used /\ Reviewed(page[request.slot].by)
    /\ UnrelatedToSave

\* Imports and identities read back what a failed save has left.
AfterFailure ==
    IF request.op \in Previewed \cup {"identity"}
    THEN request' = [request EXCEPT !.at = "reading"] ELSE Dismissed

SaveFails ==
    /\ Working("saving")
    /\ SaveRefused(request.next) \/ ("fault" \in with /\ SaveLost)
    /\ AfterFailure
    /\ UnrelatedToSave /\ UNCHANGED <<sessions, writes>>

SaveUncertain ==
    /\ Working("saving")
    /\ WritesAllowed
    /\ "fault" \in with /\ SaveLate(request.next)
    /\ AfterFailure
    /\ Used /\ UNCHANGED session
    /\ UnrelatedToSave

VerdictOfSuccessOnly(observed) ==
    IF observed = request.next THEN "saved" ELSE "intact"

Verdict(observed) ==
    IF observed = request.next THEN "saved"
    ELSE IF observed = request.base THEN "intact" ELSE "uncertain"

ReadBack ==
    /\ Working("reading")
    /\ \/ Loaded /\ DiskUnchanged /\ Answered(Verdict(document))
       \/ Unloadable /\ DiskUnchanged /\ Answered("uncertain")
    /\ Unrelated /\ UNCHANGED sessions

Respond ==
    /\ Working("answer")
    /\ request' = Idle
    /\ Unrelated /\ UNCHANGED <<store, sessions>>

\* An activation of another draft with the installed source is left uncertain,
\* or resolved: see the module Provisioning.
Activation ==
    /\ Working("loading") /\ request.op = "activation"
    /\ Loaded /\ DiskUnchanged
    /\ pending \/ document.source # "none"
    /\ pending' = ~pending
    /\ request' = Idle
    /\ UNCHANGED <<sessions, phase, job, bounds>>

ActivationRefused ==
    /\ Working("loading") /\ request.op = "activation"
    /\ \/ Loaded /\ ~pending /\ document.source = "none"
       \/ Unloadable
    /\ DiskUnchanged
    /\ request' = Idle
    /\ Unrelated /\ UNCHANGED sessions

-----------------------------------------------------------------------------
(* The audit: one job at a time, a worker that looks at the cancellation   *)
(* between two sources and once more when it publishes its result.         *)

AuditRequest(op) ==
    /\ Working("loading") /\ request.op = op
    /\ request' = Idle
    /\ UNCHANGED <<store, sessions, phase, pending, bounds>>

AuditStart ==
    /\ AuditRequest("audit")
    /\ job' = IF job.status = "running" THEN job
              ELSE [NoJob EXCEPT !.status = "running", !.at = "snapshot"]

AuditCancel ==
    /\ AuditRequest("cancel")
    /\ job' = IF job.status = "running" THEN [job EXCEPT !.cancel = TRUE] ELSE job

Worker(at) == phase = "up" /\ job.at = at

WorkerStep == UNCHANGED <<sessions, phase, request, pending, bounds>>

AuditEnding(result) == job' = [job EXCEPT !.at = "publishing", !.result = result]

\* service.snapshot() of the shared store, under the configuration lock.
SnapshotAnytime == TRUE

SnapshotFree == LockFree

AuditSnapshot ==
    /\ Worker("snapshot")
    /\ SnapshotFree
    /\ \/ Loaded /\ DiskUnchanged /\ job' = [job EXCEPT !.at = "auditing"]
       \/ Unloadable /\ DiskUnchanged /\ AuditEnding("failed")
    /\ WorkerStep

\* One source has been inspected, and progress is called: the owner cancelled,
\* the deadline has passed, or the next source is taken up.
AuditProgress ==
    /\ Worker("auditing") /\ job.done < Audited
    /\ \/ job.cancel /\ AuditEnding("cancelled")
       \/ ~job.cancel /\ job' = [job EXCEPT !.done = @ + 1]
       \/ ~job.cancel /\ AuditEnding("failed")
    /\ WorkerStep /\ UNCHANGED store

\* The archive is built, or cannot be.
AuditBundled ==
    /\ Worker("auditing") /\ job.done = Audited
    /\ \/ job.cancel /\ AuditEnding("cancelled")
       \/ ~job.cancel /\ \E result \in {"succeeded", "failed"} : AuditEnding(result)
    /\ WorkerStep /\ UNCHANGED store

ConclusionAsComputed == job.result

Conclusion == IF job.cancel THEN "cancelled" ELSE job.result

AuditPublished ==
    /\ Worker("publishing")
    /\ job' = [job EXCEPT !.at = "none", !.status = Conclusion, !.result = "none"]
    /\ WorkerStep /\ UNCHANGED store

AuditExpires ==
    /\ phase = "up" /\ job.at = "none" /\ job.status # "none"
    /\ job' = NoJob
    /\ WorkerStep /\ UNCHANGED store

-----------------------------------------------------------------------------
(* Outside the process.                                                    *)

Outside == UNCHANGED <<sessions, phase, request, pending, job, with, writes, crashes>>

Loss == "loss" \in with /\ DocumentLost /\ Outside /\ UNCHANGED elsewhere

Elsewhere ==
    /\ "elsewhere" \in with /\ elsewhere < MaxElsewhere
    /\ elsewhere' = elsewhere + 1
    /\ \E op \in {"update", "create", "discard", "cover"} :
         Possible(document, op, pending) /\ WrittenElsewhere(Edited(document, op))
    /\ Outside

-----------------------------------------------------------------------------
Start == Open \/ OpenCut \/ Refused \/ Configured

Browse(b) ==
    \/ Login(b) \/ SessionOver(b) \/ TokenOver(b) \/ PreviewOver(b)
    \/ \E s \in Slots : \/ OpenOrdinary(b, s) \/ OpenSources(b, s) \/ OpenSourceForm(b, s) \/ OpenDeletion(b, s)
                         \/ OpenRepair(b, s) \/ OpenDraft(b, s) \/ OpenIdentity(b, s)
    \/ ExportSources(b) \/ ExportPlaylist(b)

Post(s) ==
    \/ Logout(s) \/ SpotifyForm(s) \/ InspectInstalled(s)
    \/ SourceForm(s) \/ SourceDeletion(s) \/ SourceCreation(s) \/ PlaylistForm(s) \/ TemplateForm(s)
    \/ CoverForm(s) \/ RepairForm(s) \/ DraftForm(s) \/ IdentityForm(s) \/ AuditForm(s) \/ CancelForm(s)
    \/ Inspect(s) \/ UploadSources(s) \/ UploadPlaylist(s) \/ ConfirmSources(s) \/ ConfirmPlaylist(s)

Finish == Save \/ SaveFails \/ SaveUncertain \/ ReadBack \/ Respond

Audit ==
    \/ AuditStart \/ AuditCancel \/ AuditSnapshot \/ AuditProgress \/ AuditBundled
    \/ AuditPublished \/ AuditExpires

Next ==
    \/ Start \/ Crash
    \/ \E b \in Browsers : Browse(b)
    \/ \E s \in Slots : ClosePage(s) \/ Post(s)
    \/ Reinspect \/ Decide \/ LoadFails \/ Finish
    \/ Activation \/ ActivationRefused
    \/ Audit
    \/ Loss \/ Elsewhere

Spec == Init /\ [][Next]_vars
-----------------------------------------------------------------------------
(* Properties.                                                             *)

TypeOK ==
    /\ StoreTypeOK
    /\ phase \in {"down", "opened", "up"}
    /\ request.at \in {"idle", "loading", "inspected", "saving", "reading", "answer"}
    /\ pending \in BOOLEAN
    /\ \A s \in Slots : Shows(s) => page[s].by \in Browsers
    /\ \A b \in Browsers : Staged(b) => session[b].in
    /\ job.status \in {"none", "running", "succeeded", "failed", "cancelled"}
    /\ (job.at # "none") = (job.status = "running")
    /\ job.done \in 0..Audited

Writes == Save \/ SaveUncertain

Promised(p) ==
    CASE p.kind = "sources"  -> WithSource(p.base, p.file)
      [] p.kind = "playlist" -> WithPlaylist(p.base, p.file)
      [] OTHER               -> Edited(p.base, p.kind)

\* What a confirmed page writes is exactly what it showed, on exactly the
\* configuration it was rendered from, however many tabs, previews, browsers
\* and edits came between: the fingerprints of source_import.py:136,
\* portable_playlists.py:342 and the draft form, and the preview id.
AppliedAsShown ==
    [][ Writes =>
          LET p == page[request.slot]
          IN  /\ p.kind \in Previewed \cup {"identity"} =>
                    document = p.base /\ document' = Promised(p)
              /\ p.kind \in Previewed => pending = p.pend
              /\ p.kind = "draft" =>
                    document.draft = p.base.draft /\ document'.draft = Promised(p).draft ]_vars

\* A damaged draft is never edited, imported over or lost with another change:
\* it only goes with its own confirmed repair, and stays as long as a playlist
\* was made from it or an activation waits (managed_admin.py:490).
DamageContained ==
    [][ (Writes /\ document.draft \in Damaged /\ document'.draft # document.draft) =>
          /\ page[request.slot].kind = "repair" /\ document'.draft = "none"
          /\ document.draft = "damaged" /\ ~pending ]_vars

\* A token has at most one effect: once a request with it has written the
\* configuration, submitting that page again, or any other page that was
\* rendered with the same token, in whatever tab, changes nothing, and no page
\* is rendered with it any more (issue_csrf_token, consume_csrf_token).
EffectOnce ==
    [][ Writes => /\ request.slot \in request.bearers
                  /\ \A s \in request.bearers : ~page[s].used
                  /\ \A s \in Slots : Shows(s) /\ page'[s].used => ~page'[s].live ]_vars

\* A write replaces the very configuration its request decided on, whatever
\* another process or the worker of an audit did in between: the exact bytes
\* of the last load are compared under the lock of the directory.
NoLostUpdate == [][Writes => document = request.base]_vars

\* An import or identity that is reported as saved is in the file at that
\* moment, and one reported as not saved has left the configuration it found.
ReplyTruthful ==
    [][ (Holding /\ request'.at = "answer") =>
          /\ request'.reply = "saved" => document' = request.next
          /\ request'.reply = "intact" => document' = request.base ]_vars

\* Once a configuration was published here, no start ever makes another one
\* from the inert files of an earlier release, or an empty one.
NoFallback == [][(Open /\ document' # document) => ~published]_vars

\* An audit the owner has cancelled while it ran never ends otherwise.
CancelHonoured == job.cancel => job.status \in {"running", "cancelled"}
=============================================================================
