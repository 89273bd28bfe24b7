---------------------------- MODULE SourceCoverage ----------------------------
(***************************************************************************)
(* One Spotify show collected by the engine cycle (engine.py, spotify/     *)
(* public_detector.py, spotify/first_catalogue.py, spotify/                *)
(* first_persistence.py): the public detector decides when the catalogue is *)
(* read, a paged read of a list that changes meanwhile may or may not prove *)
(* its coverage, a proven read replaces the journal, and a playlist is only *)
(* rebuilt from a journal that covers its own retention.                   *)
(*                                                                         *)
(* Time is counted in cycles and every stored timestamp is an age.         *)
(***************************************************************************)
EXTENDS Naturals, Sequences, FiniteSetsExt, SequencesExt

CONSTANTS
    N,          \* episodes the show publishes, in this order
    PageSize,   \* DEFAULT_PAGE_SIZE
    MaxPages,   \* max_catalogue_pages
    Filters,    \* the episodes a collection filter may reject
    Order,      \* the playlists in the order of the configuration
    Retention,  \* the retention of each of them
    Inactivity, \* source_inactivity
    Degraded,   \* degraded_source_audit
    Horizon,    \* bound: episodes do not get older than this
    Watched,    \* the episode whose way into the journal is timed
    Patient,    \* the playlist whose way back to coverage is timed
    MaxOwner    \* bound: changes made by the owner

Episodes == 1..N
Playlists == ToSet(Order)
Never == Inactivity + 1   \* the age of a timestamp that is NULL
Null == 0                 \* an item of a page that is null

\* The constants make sense together: episodes grow older than every retention.
ASSUME HorizonCovers ==
    /\ N \in Nat /\ PageSize \in Nat \ {0} /\ MaxPages \in Nat \ {0}
    /\ Order \in Seq(Playlists) /\ IsInjective(Order) /\ Retention \in [Playlists -> Nat]
    /\ Inactivity \in Nat /\ Degraded \in Nat /\ Horizon \in Nat /\ MaxOwner \in Nat
    /\ Inactivity > Degraded /\ Degraded > 0
    /\ \A p \in Playlists : Horizon > Retention[p]
    /\ Filters \subseteq SUBSET (Episodes \ {Watched})
    /\ Watched \in Episodes /\ Patient \in Playlists

VARIABLES
    show,      \* the show's episodes in the Web API, newest first
    listed,    \* how many have ever been listed there
    rejected,  \* the episodes the source's collection filter rejects
    age,       \* cycles since each episode was released
    det,       \* row of spotify_public_detector_state
    src,       \* row of spotify_first_source_state
    journal,   \* episodes with a row in spotify_first_episode_state
    enabled,   \* the playlists that are enabled and use the source
    cyc,       \* the running cycle
    changes,   \* changes made by the owner
    ghost      \* what the properties compare with

vars == <<show, listed, rejected, age, det, src, journal, enabled, cyc, changes, ghost>>
world == <<show, listed, rejected>>

\* known: there is a last_episode_id; anchor: the newer of last_change_at and
\* last_catalogue_refresh_at; looked: the newer of last_detector_success_at and
\* last_degraded_audit_at, or a degraded interval ago; newer: last_change_at is later
\* than the source's last_refresh_at.
NoDetector == [exists |-> FALSE, known |-> FALSE, failing |-> FALSE, newer |-> FALSE,
               anchor |-> Never, looked |-> Degraded]
NoSource == [known |-> FALSE, refresh |-> Never, proven |-> FALSE, cut |-> 0]
\* partial: the episodes seen by this cycle's refresh, if it met a null item.
NoCycle == [pc |-> "idle", changed |-> FALSE, escalation |-> FALSE, cut |-> 0,
            pages |-> 0, total |-> 0, seen |-> <<>>, nulls |-> FALSE,
            complete |-> FALSE, partial |-> {}, todo |-> {}, episodes |-> {},
            faulty |-> FALSE]

Stages == {"idle", "observe", "plan", "fetch", "apply", "mark", "playlists"}
DetectorRows ==
    [exists : BOOLEAN, known : BOOLEAN, failing : BOOLEAN, newer : BOOLEAN,
     anchor : 0..Never, looked : 0..Degraded]
SourceRows == [known : BOOLEAN, refresh : 0..Never, proven : BOOLEAN, cut : 0..Horizon]
Cycles ==
    [pc : Stages, changed : BOOLEAN, escalation : BOOLEAN, cut : 0..Horizon,
     pages : 0..MaxPages, total : 0..N, seen : Seq(Episodes \cup {Null}),
     nulls : BOOLEAN, complete : BOOLEAN, partial : SUBSET Episodes,
     todo : SUBSET Playlists, episodes : SUBSET Episodes, faulty : BOOLEAN]

TypeOK ==
    /\ show \in Seq(Episodes) /\ listed \in 0..N /\ rejected \in Filters
    /\ age \in [Episodes -> 0..Horizon]
    /\ det \in DetectorRows /\ src \in SourceRows /\ cyc \in Cycles
    /\ journal \subseteq Episodes /\ enabled \subseteq Playlists
    /\ changes \in 0..MaxOwner
    /\ ghost \in [owed : SUBSET Episodes, possible : SUBSET Episodes,
                  since : SUBSET Episodes, throughout : SUBSET Episodes,
                  waited : Nat, blocked : Nat]

-----------------------------------------------------------------------------
(* Ages and windows *)

\* The age of a timestamp stops growing when every limit has passed.
Older(a) == IF a < Inactivity THEN a + 1 ELSE a
InWindow(episodes, p) == {e \in episodes : age[e] <= Retention[p]}
MaxRetention == Max({Retention[p] : p \in enabled})
\* The newest of several timestamps, as an age.
Latest(ages) == Min(ages)

\* A playlist may be rebuilt from the journal: _playlist_blocking_source_ids.
Covers(p) == src.refresh + src.cut >= Retention[p]
Ready(p) == src.known /\ src.proven /\ Covers(p)

\* PublicDetectorState.audit_due, and the fallback without a detector row.
AuditDueSinceAnyLook ==
    IF det.exists THEN Latest({det.anchor, det.looked}) >= Inactivity
                  ELSE src.refresh >= Inactivity
AuditDueFromDetector == det.exists /\ det.anchor # Never /\ det.anchor >= Inactivity
AuditDue ==
    IF det.exists THEN det.anchor # Never /\ det.anchor >= Inactivity
                  ELSE src.refresh >= Inactivity

\* PublicDetectorState.degraded_audit_due. A success is never older than a change.
DegradedAuditDue ==
    det.failing /\ Latest({det.anchor, det.looked, src.refresh}) >= Degraded

-----------------------------------------------------------------------------
(* The world outside: Spotify and the owner *)

Init ==
    /\ show = <<>> /\ listed = 0 /\ rejected \in Filters
    /\ age = [e \in Episodes |-> 0]
    /\ det = NoDetector /\ src = NoSource /\ journal = {}
    /\ enabled \in SUBSET Playlists
    /\ cyc = NoCycle
    /\ changes = 0
    /\ ghost = [owed |-> {}, possible |-> {}, since |-> {}, throughout |-> {},
             waited |-> 0, blocked |-> 0]

\* Between the pages of a read is as good as any other moment.
Visible == cyc.pc = "idle" \/ (cyc.pc = "fetch" /\ cyc.pages > 0)

Listed ==
    /\ Visible /\ listed < N
    /\ listed' = listed + 1
    /\ show' = <<listed + 1>> \o show
    /\ ghost' = IF cyc.pc = "fetch" THEN [ghost EXCEPT !.since = @ \cup {listed + 1}] ELSE ghost
    /\ UNCHANGED <<rejected, age, det, src, journal, enabled, cyc, changes>>

Removed(e) ==
    /\ Visible
    /\ \E i \in DOMAIN show : show[i] = e /\ show' = RemoveAt(show, i)
    /\ ghost' = [ghost EXCEPT !.throughout = @ \ {e}]
    /\ UNCHANGED <<listed, rejected, age, det, src, journal, enabled, cyc, changes>>

\* The clocks of NoEpisodeOverlooked and CoverageReturns start again.
Restarted(record) == [record EXCEPT !.waited = 0, !.blocked = 0]

OwnerActs == cyc.pc = "idle" /\ changes < MaxOwner /\ changes' = changes + 1
Toggled(p) ==
    /\ OwnerActs
    /\ enabled' = IF p \in enabled THEN enabled \ {p} ELSE enabled \cup {p}
    /\ ghost' = Restarted(ghost)
    /\ UNCHANGED <<world, age, det, src, journal, cyc>>

\* Between two cycles the owner takes the source out of its playlists, deletes it and puts it
\* back. The deletion clears the journal, then the detector's row; if it fails in between, the
\* row stays.
SourceCleared ==
    /\ OwnerActs
    /\ src' = NoSource /\ journal' = {}
    /\ det' \in {det, NoDetector}
    /\ ghost' = [Restarted(ghost) EXCEPT !.owed = {}, !.possible = {}]
    /\ UNCHANGED <<world, age, enabled, cyc>>

-----------------------------------------------------------------------------
(* A cycle begins and the public page is observed *)

TimePasses ==
    /\ age' = [e \in Episodes |-> IF e <= listed THEN Min({age[e] + 1, Horizon}) ELSE 0]
    /\ det' = [det EXCEPT !.anchor = Older(@), !.looked = Min({@ + 1, Degraded})]
    /\ src' = [src EXCEPT !.refresh = Older(@)]

CycleStarts ==
    /\ cyc.pc = "idle" /\ enabled # {}
    /\ TimePasses
    /\ cyc' = [NoCycle EXCEPT !.pc = "observe"]
    /\ ghost' = [ghost EXCEPT !.owed = {e \in @ : age'[e] < Horizon},
                              !.possible = {e \in @ : age'[e] < Horizon}]
    /\ UNCHANGED <<world, journal, enabled, changes>>

NothingEnabled ==
    /\ cyc.pc = "idle" /\ enabled = {}
    /\ TimePasses
    /\ UNCHANGED <<world, journal, enabled, cyc, changes, ghost>>

ObservedAs(detector, changed) ==
    /\ cyc.pc = "observe"
    /\ det' = detector
    /\ cyc' = [cyc EXCEPT !.pc = "plan", !.changed = changed]
    /\ UNCHANGED <<world, age, src, journal, enabled, changes, ghost>>

\* Whether the page shows another episode than the last time. It may run ahead of the
\* Web API, lag behind it or flap, so that a later look may always show another one.
Shown == IF det.known THEN BOOLEAN ELSE {TRUE}

\* The page shows an episode: record_success.
EpisodeObserved ==
    \E changed \in Shown :
        ObservedAs([det EXCEPT !.exists = TRUE, !.known = TRUE, !.failing = FALSE,
                               !.looked = 0, !.anchor = IF changed THEN 0 ELSE @,
                               !.newer = @ \/ changed],
                   changed)

\* Only for a response that cannot be understood is the oEmbed title compared with the
\* last one, if one is known.
TitleChanged == IF det.exists THEN BOOLEAN ELSE {FALSE}
DetectorFailing == [det EXCEPT !.exists = TRUE, !.failing = TRUE]

\* An HTTP, transport or response failure: record_failure.
PageFailed == \E title_changed \in TitleChanged : ObservedAs(DetectorFailing, title_changed)

\* The detector's database fails: nothing is recorded and nothing changed.
DetectorNotPersisted == ObservedAs(det, FALSE)

-----------------------------------------------------------------------------
(* _refresh_plan *)

RefreshNeeded == ~src.known \/ cyc.changed \/ det.newer

FetchWith(cycle, retention) ==
    [cycle EXCEPT !.pc = "fetch", !.cut = retention, !.pages = 0, !.total = 0,
                  !.seen = <<>>, !.nulls = FALSE, !.complete = FALSE]
FetchBegins(retention) ==
    /\ cyc' = FetchWith(cyc, retention)
    /\ ghost' = [ghost EXCEPT !.since = ToSet(show), !.throughout = ToSet(show)]

\* Whose turn it is: the playlists are served in the order of the configuration.
First(playlists) ==
    Order[Min({i \in DOMAIN Order : Order[i] \in playlists})]

\* What a read established is forgotten when it is over.
ReadOver == [ghost EXCEPT !.since = {}, !.throughout = {}]

\* The loop over the playlists begins with the episodes of the journal.
PlaylistsWith(cycle) ==
    [cycle EXCEPT !.pc = "playlists", !.episodes = journal,
                  !.todo = enabled, !.pages = 0, !.seen = <<>>, !.cut = 0, !.complete = FALSE]

PlanUrgent ==
    /\ cyc.pc = "plan" /\ RefreshNeeded
    /\ FetchBegins(MaxRetention)
    /\ UNCHANGED <<world, age, det, src, journal, enabled, changes>>

\* The attempt is recorded first, whatever becomes of it.
PlanDegradedAudit ==
    /\ cyc.pc = "plan" /\ ~RefreshNeeded /\ DegradedAuditDue
    /\ det' = [det EXCEPT !.looked = 0]
    /\ FetchBegins(MaxRetention)
    /\ UNCHANGED <<world, age, src, journal, enabled, changes>>

\* Not due, or the attempt could not be recorded.
PlanAudit ==
    /\ cyc.pc = "plan" /\ ~RefreshNeeded /\ AuditDue
    /\ FetchBegins(MaxRetention)
    /\ UNCHANGED <<world, age, det, src, journal, enabled, changes>>

PlanNothing ==
    /\ cyc.pc = "plan" /\ ~RefreshNeeded /\ ~AuditDue
    /\ cyc' = [PlaylistsWith(cyc) EXCEPT !.faulty = DegradedAuditDue]
    /\ UNCHANGED <<world, age, det, src, journal, enabled, changes, ghost>>

-----------------------------------------------------------------------------
(* fetch_source_catalogue *)

Items ==
    SubSeq(show, cyc.pages * PageSize + 1, Min({(cyc.pages + 1) * PageSize, Len(show)}))

\* _validate_page and the check of duplicates
PageAcceptedUnchecked(fresh) == ToSet(fresh) \cap ToSet(cyc.seen) \subseteq {Null}
PageAccepted(fresh) ==
    /\ cyc.pages > 0 => Len(show) = cyc.total
    /\ ToSet(fresh) \cap ToSet(cyc.seen) \subseteq {Null}

\* Some items may be null: their episodes are not seen.
Candidates(nulls) == [i \in DOMAIN Items |-> IF Items[i] \in nulls THEN Null ELSE Items[i]]

PageFetched(nulls) ==
    LET fresh == Candidates(nulls)
        complete == (cyc.pages + 1) * PageSize >= Len(show)
    IN  /\ cyc.pc = "fetch" /\ nulls \subseteq ToSet(Items)
        /\ PageAccepted(fresh)
        /\ cyc' = [cyc EXCEPT !.pages = @ + 1, !.total = Len(show),
                              !.seen = @ \o fresh, !.nulls = @ \/ nulls # {},
                              !.complete = complete, !.faulty = @ \/ nulls # {},
                              !.pc = IF complete \/ cyc.pages + 1 = MaxPages
                                     THEN "apply" ELSE "fetch"]
        /\ UNCHANGED <<world, age, det, src, journal, enabled, changes, ghost>>

\* The source keeps its old authority; an escalation fails its playlist, and
\* the episodes are read again for the next one.
Unrefreshed(cycle) ==
    IF cycle.escalation
    THEN [cycle EXCEPT !.pc = "playlists", !.escalation = FALSE, !.episodes = journal,
                       !.todo = @ \ {First(@)}, !.pages = 0, !.seen = <<>>,
                       !.cut = 0, !.complete = FALSE]
    ELSE PlaylistsWith(cycle)

\* No session, a failed request or a contradictory page.
FetchFails ==
    /\ cyc.pc = "fetch"
    /\ cyc' = [Unrefreshed(cyc) EXCEPT !.faulty = TRUE]
    /\ ghost' = ReadOver
    /\ UNCHANGED <<world, age, det, src, journal, enabled, changes>>

\* A rejected item makes no episode, but its date still tells how far the read went.
Accepted(seen) == ToSet(seen) \ (rejected \cup {Null})

\* _boundary_covers
BoundaryCovers ==
    /\ cyc.seen # <<>>
    /\ \A i \in 2..Len(cyc.seen) : age[cyc.seen[i]] >= age[cyc.seen[i - 1]]
    /\ age[Last(cyc.seen)] > cyc.cut
CoverageProven == ~cyc.nulls /\ (cyc.complete \/ BoundaryCovers)

-----------------------------------------------------------------------------
(* apply_source_refresh and mark_catalogue_refresh *)

\* An escalation gives up on a prefix that is merely too short.
NotWorthApplying == cyc.escalation /\ ~CoverageProven /\ ~cyc.nulls

\* _replace_source_episodes: only a proven catalogue deletes by absence.
ReplacedAlways == Accepted(cyc.seen)
Replaced == IF CoverageProven THEN Accepted(cyc.seen) ELSE journal \cup Accepted(cyc.seen)

\* _record_refresh
Authority == [known |-> TRUE, refresh |-> 0, proven |-> CoverageProven, cut |-> cyc.cut]

\* One transaction for the rows and the authority over them.
RefreshApplied ==
    /\ cyc.pc = "apply" /\ ~NotWorthApplying
    /\ journal' = Replaced
    /\ src' = Authority
    /\ det' = [det EXCEPT !.newer = FALSE]
    /\ cyc' = [cyc EXCEPT !.pc = "mark"]
    /\ ghost' = IF CoverageProven
                THEN [ReadOver EXCEPT !.owed = ghost.throughout, !.possible = ghost.since]
                ELSE [ghost EXCEPT !.owed = {}, !.possible = {}, !.throughout = {}]
    /\ UNCHANGED <<world, age, enabled, changes>>

RefreshNotApplied ==
    /\ cyc.pc = "apply"
    /\ cyc' = [Unrefreshed(cyc) EXCEPT !.faulty = TRUE]
    /\ ghost' = ReadOver
    /\ UNCHANGED <<world, age, det, src, journal, enabled, changes>>

\* The second transaction, in the detector's table.
RefreshMarked ==
    /\ cyc.pc = "mark"
    /\ det' = IF det.exists THEN [det EXCEPT !.anchor = 0] ELSE det
    /\ cyc' = IF cyc.escalation THEN Unrefreshed(cyc)
              ELSE [PlaylistsWith(cyc) EXCEPT
                      !.partial = IF cyc.nulls THEN Accepted(cyc.seen) ELSE {}]
    /\ UNCHANGED <<world, age, src, journal, enabled, changes, ghost>>

RefreshNotMarked ==
    /\ cyc.pc = "mark"
    /\ cyc' = [Unrefreshed(cyc) EXCEPT !.faulty = TRUE]
    /\ ghost' = ReadOver
    /\ UNCHANGED <<world, age, det, src, journal, enabled, changes>>

-----------------------------------------------------------------------------
(* The playlists, in the order of the configuration *)

Turn(p) == cyc.pc = "playlists" /\ cyc.todo # {} /\ p = First(cyc.todo)

\* The desired state is built and reconciled, or the destination is skipped.
Reconciled(p) ==
    /\ Turn(p) /\ Ready(p)
    /\ cyc' = [cyc EXCEPT !.todo = @ \ {p}]
    /\ UNCHANGED <<world, age, det, src, journal, enabled, changes, ghost>>

\* Spotify refuses an episode that is gone (HTTP 400): _stale_rejection_retry
\* reads the catalogue again for the retention of this playlist.
StaleRejected(p) ==
    /\ Turn(p) /\ Ready(p)
    /\ ~(InWindow(cyc.episodes, p) \subseteq ToSet(show))
    /\ cyc' = [FetchWith(cyc, Retention[p]) EXCEPT !.escalation = TRUE, !.faulty = TRUE]
    /\ ghost' = [ghost EXCEPT !.since = ToSet(show), !.throughout = ToSet(show)]
    /\ UNCHANGED <<world, age, det, src, journal, enabled, changes>>

\* _partial_catalogue_evidence and the retention of the additions
AdditionsFromJournal(p) ==
    IF src.known /\ src.refresh = 0 /\ Covers(p) /\ cyc.partial # {}
    THEN InWindow(cyc.episodes, p) ELSE {}
Additions(p) ==
    IF src.known /\ src.refresh = 0 /\ Covers(p)
    THEN InWindow(cyc.episodes \cap cyc.partial, p) ELSE {}

\* The destination is preserved, apart from additions that were seen just now.
Preserved(p) ==
    /\ Turn(p) /\ ~Ready(p)
    /\ cyc' = [cyc EXCEPT !.todo = @ \ {p}]
    /\ UNCHANGED <<world, age, det, src, journal, enabled, changes, ghost>>

\* The first page range, which a refresh can see.
Reachable == ToSet(SubSeq(show, 1, Min({PageSize * MaxPages, Len(show)})))

\* prune removes rows nobody has seen for a month, far behind every window.
CycleEnds ==
    /\ cyc.pc = "playlists" /\ cyc.todo = {}
    /\ journal' = {e \in journal : age[e] < Horizon \/ Contains(show, e)}
    /\ ghost' = IF cyc.faulty THEN Restarted(ReadOver) ELSE
         [ReadOver EXCEPT
            !.waited = IF Watched \in Reachable \ journal' THEN @ + 1 ELSE 0,
            !.blocked = IF Patient \in enabled /\ ~Ready(Patient) /\ Reachable = ToSet(show)
                        THEN @ + 1 ELSE 0]
    /\ cyc' = NoCycle
    /\ UNCHANGED <<world, age, det, src, enabled, changes>>

\* The process dies, or a read of the database raises out of the cycle.
Aborted ==
    /\ cyc.pc # "idle"
    /\ cyc' = NoCycle
    /\ ghost' = Restarted(ReadOver)
    /\ UNCHANGED <<world, age, det, src, journal, enabled, changes>>

-----------------------------------------------------------------------------
Observes == EpisodeObserved \/ PageFailed \/ DetectorNotPersisted
Plans == PlanUrgent \/ PlanDegradedAudit \/ PlanAudit \/ PlanNothing
Serves == \E p \in Playlists : Reconciled(p) \/ StaleRejected(p) \/ Preserved(p)

Next ==
    \/ Listed
    \/ \E e \in Episodes : Removed(e)
    \/ SourceCleared
    \/ \E p \in Playlists : Toggled(p)
    \/ CycleStarts \/ NothingEnabled
    \/ Observes \/ Plans
    \/ \E nulls \in SUBSET Episodes : PageFetched(nulls)
    \/ FetchFails
    \/ RefreshApplied \/ RefreshNotApplied \/ RefreshMarked \/ RefreshNotMarked
    \/ Serves \/ CycleEnds
    \/ Aborted

Spec == Init /\ [][Next]_vars

-----------------------------------------------------------------------------
(* Properties *)

\* What a ready playlist is rebuilt from is the truth of the last proven read: every
\* episode of its window that was listed throughout that read and is not rejected, and none that was
\* already gone before it.
ReadyTruthful ==
    \A p \in Playlists : Turn(p) /\ Ready(p) =>
        /\ InWindow(ghost.owed \ rejected, p) \subseteq cyc.episodes
        /\ InWindow(cyc.episodes, p) \subseteq ghost.possible

\* No episode the show lists is overlooked for longer than the inactivity audit
\* allows, in cycles without a fault.
NoEpisodeOverlooked == ghost.waited <= Inactivity

\* What may be added to a playlist without coverage was listed during this cycle's read.
AdditionsAreCurrent ==
    \A p \in Playlists : Turn(p) /\ ~Ready(p) => Additions(p) \subseteq ghost.since

\* A playlist whose source lost its authority gets it back within the inactivity audit,
\* in cycles without a fault and with a show that fits into the pages.
CoverageReturns == ghost.blocked <= Inactivity
=============================================================================
