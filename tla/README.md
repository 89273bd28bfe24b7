# Verification of News Bulletin Playlist

TLA+ models of the service in `src/src/news_bulletin_playlist/`, TLC runs over small
instances, and TLAPS proofs for every instance. Paths below without a directory are files
of that package; `ARCHITECTURE.md` is `src/docs/ARCHITECTURE.md`.

    tlc -workers 2 -config Reconciliation.cfg MCReconciliation
    tlapm SpotifyBackoff_proofs.tla     # and the other *_proofs modules

## 1. The system

One process keeps the owner's Spotify playlists filled with the latest news bulletins.

| thread | what it does |
|---|---|
| main | starts the process, serves admin requests one at a time (`HTTPServer`), shuts down |
| engine scheduler | runs cycles: refresh sources, build desired contents, reconcile destinations |
| restart waiter | starts the next scheduler when a drained one has ended |
| source audit | one background job that inspects sources |

They meet in these places:

- **Locks.** The cycle gate (a cycle against the deletion of a source), the configuration
  lock (configuration changes, its loading, every write to Spotify), the controller lock,
  the authorization lock (the Spotify credential and its token), and the request lock of
  the rate limit.
- **Durable state.** A SQLite database (cooldown row, attestations, pending snapshots,
  leases, partial intents, episode journal, detector row), the managed state file with its
  authority marker, the provisioning journal, the credential file. Each file is replaced
  atomically; nothing spans two of them, nor two SQLite transactions.
- **Spotify.** Calls may be refused, limited (429), or end in a 5xx or transport error
  after which the write may have been applied. Reads of items and snapshots are separate
  calls, and so are the pages of a show. Other people may edit a destination at any time.
- **Browsers.** Several tabs and machines keep pages that were rendered from an older
  configuration; another process may work on the same directory.

### Components

| component | state | operations | what must hold |
|---|---|---|---|
| rate-limit cooldown (`spotify_backoff.py`) | row, memory fallback, request lock, latch per cycle | token and call guards, 429, expiry, restart | no request before the deadline of a 429, whatever SQLite does; calls resume |
| reconciliation (`reconciliation.py`, `snapshot_pending.py`, `persistence.py`, leases of `spotify/first_persistence.py`, `engine.py`) | attestation, pending confirmation, exact and degraded lease | skip, read, shortcut, replace, readback, confirm, record | evidence is truthful, doubt is resolved, no needless write, convergence |
| partial additions (`partial_reconciliation.py`, `engine.py`) | durable intent of one POST | confirm old intent, insert, verify, withdraw | nothing inserted twice, the intent is dropped in the end |
| provisioning (`managed_provisioning.py`, `managed_admin.py`, `managed_state.py`) | journal of one activation, managed state | activate, create, finalize, adopt, clear, stop, update | no creation lost or repeated, nothing let go comes back |
| lifecycle (`engine_runtime.py`, `engine_cycle_synchronization.py`, loop of `engine.py`) | scheduler, draining threads, waiter, events, locks | configure, wake, drain, restart, write guard, delete source, shut down | one scheduler, writes only under the durable contract, truthful shutdown, no deadlock |
| source catalogue and coverage (`spotify/first_*.py`, `engine.py`) | episode journal, authority of a source | plan, read pages, apply, mark, escalate, prune | a playlist is rebuilt only from the truth of a proven read; coverage comes back |
| public release detection (`spotify/public_detector.py`) | detector row per source | observe, audit, degrade | no change is overlooked for longer than an audit |
| authorization (`spotify/auth.py`, `engine_runtime.py`) | credential file, token cache, pending request, flag | get token, refresh, mark, callback, bind a session, compare | writes use the token of the account they are for; a rejected token is dropped |
| source audit jobs (`source_audit_jobs.py`) | the job, its progress, its result | start, step, cancel, publish, expire | one job; a cancelled one is never reported otherwise |
| admin session (`admin_session.py`, `lan_admin.py`) | session, page token, preview, review | log in, render, post, stage, take, log out | what is used, replaced or expired is refused |
| installation (`v11_*.py`, `installation_*.py`) | marker, document, loaded bytes | initialize, load, compare and swap | a start never replaces what was published; no update is lost |
| imports, exports, drafts (`source_import.py`, `playlist_import.py`, `portable_*.py`) | configuration | preview, stage, confirm, prepare an identity, edit, repair | a confirmed page writes what it showed, once, and is answered truthfully |
| diagnostics records, pages, providers, offline tools | records, pure functions | | no decision of the core depends on them |

`PROJECT.json` lists them with their files and status, and under `hazards` each place
where the code can go wrong in a way a test hardly reaches, with the properties that
watch it.

## 2. Modules

| module | models | extends |
|---|---|---|
| `Cooldown` | abstract: one deadline, at most one request in flight | |
| `SpotifyBackoff` | the cooldown as implemented | refines `Cooldown` |
| `Reconciliation` | one destination, its evidence, and one reconciliation at the grain of one call or one transaction | |
| `PartialAdditions` | the add-only mode around a normal reconciliation taken as one step | |
| `Provisioning` | an activation, cut anywhere by crashes and failing writes | |
| `EngineLifecycle` | the threads, locks and events | |
| `Authorization` | one credential shared by engine, administrator and callback | |
| `SourceCoverage` | one show from the public page to the playlists built from it | |
| `ConfigurationEdits` | what each operation makes of a configuration: pure operators | |
| `OperationalStore` | the operational document: first creation, loading, compare-and-swap | `ConfigurationEdits` |
| `AdminSessions` | sessions and the pages browsers still show | |
| `Administration` | the requests: receive, decide, save, read back, answer; the audit; restarts | composes the last three |
| `..._proofs` | theorems about the module named | the module named |
| `MC...` | values of the constants for TLC | the module named |

Inside the modules some operators are near copies of an action with one guard or
assignment changed (`StoreUnlatched`, `TryGateBlindly`, ...). They belong to no
specification: they are the mutants of `PROJECT.json`, each making one property fail, and
so show that the property depends on that piece of code.

### State and code

**SpotifyBackoff.** `row` is the SQLite row, `fallback` is `_fallback_by_path`, `holder` is
`_request_lock`, `latch` is `_cycle_limited`, `since` the time a cycle passes to the token
guard. A client is one cycle or admin request. The lock is held from the check through
the call to the recording of a 429, as in `_call`; a 429 is two steps (memory, then SQLite)
so that a crash falls between them. `Active`, `Inactive` and `Unavailable` are the outcomes
of `SpotifyRateLimitJournal.active`. 0 is "no deadline". A tick is an
arbitrary unit: the code only adds a delay to the time and compares and maximizes deadlines.

**Reconciliation.** `hist` is every version of the destination with its author; a snapshot
id is an index in it. `view` is what the snapshot endpoint answers. `att`, `pending`,
`exact`, `degraded` are the durable evidence; `run` is the reconciliation in memory, with
`at` the next call, `todo` the SQLite writes still to make and `result` what it will
report. A content has two slots, one per page when `env.paged`; `Hidden` is an item Spotify
returns without media. Each Spotify call and each transaction is one step; a refused call
and a failing page each end the reconciliation in their own way.

**PartialAdditions.** `intent` is the row of `partial_reconciliation`; `inflight` holds the
timed out POSTs Spotify may still carry out; `settling` is a pending confirmation of the
normal mode; `covered` says whether all sources are. `run` holds the additions and the
expected content. A normal pass is one step: `NormalVerifies` finds the destination as
desired and writes nothing (`reconciliation.py:273`), `NormalReplaces` writes it,
`NormalFails` ends before or after its write; the first two drop the intent
(`engine.py:1120`). `withdrawn` is history: the first has dropped the intent of a POST that
is still in flight.

**Provisioning.** `journal` is `managed-playlist-provisioning.json`, `state` the managed
state, `remote` what Spotify created, `run` the step of the request in progress. Requests
are serial, each under the configuration lock, so only a crash cuts into one. A failing
write is `"lost"` (nothing replaced) or `"late"` (replaced, then `fsync` or `chmod` raised).
`released` is a history variable: destinations the owner knowingly gave up. A draft in
`quarantined` has a stored record that cannot be read; while there is one, what is made from
an unreadable draft is `Suspended`: the engine leaves the playlist out, and
`finalize_known_provisioning` returns nothing and keeps the journal (`FinalizeSuspended`).

**EngineLifecycle.** `worker[k]` is a scheduler thread with its own stop and wake events and
the `plan` it loaded; `scheduler`, `draining`, `waiter`, `configured` are fields of the
`EngineLifecycleController`; `gate` and `lock` the cycle gate and the configuration lock.
Sections under the controller lock are single steps, since nothing waits inside them. A
playlist is the revision of its write contract. `Edit` and `Delete` are requests that
succeed and go on to `reconcile`; `EditUnannounced` and `DeleteUnannounced` are requests that
raise, before or after their change is durable, and page views that finalize an activation:
the controller hears nothing of them. `LoadFails` is a cycle that ends without a
configuration, its wake used up. `due` is history: the controller has been told something
and no cycle has begun to load since.

**Authorization.** `file` is the credential file, `pending`, `cached` and `reauth` are
`_pending`, `_access_token` and `_reauthorization_required`; a grant is one completed
authorization, its number the `authorized_at` the context is computed from, and a
generation is one refresh token of it. `remote` is which of them Spotify still accepts.
`pc` says where the engine, the administrator's request and the callback are: waiting for
the request lock, for the authorization lock, asking Spotify, holding its answer. The
refresh and what follows it are separate steps, so revocation, crashes and failing saves
fall between them. `session` is the `ProviderAuthorizationSession`; `ContextMatches` and
`ContextDiffers` are the guard's comparison, made before and under the configuration lock.
`rejected`, `retained`, `lockCtx`, `torn` (a save replaced the file and raised, so that the
cached token stayed behind) and `mixed` (the session was bound in that state) are history.

**SourceCoverage.** `show` is what the Web API lists, newest first, and may change between
two pages of a read; `det` is the row of `spotify_public_detector_state`, `src` the row of
`spotify_first_source_state`, `journal` the episodes in `spotify_first_episode_state`; every
stored timestamp is an age in cycles. `cyc` is the running cycle: `observe` (the public
page), `plan` (`_refresh_plan`), `fetch` (the paged read), `apply` and `mark` (its two
transactions), `playlists` (who may be rebuilt, preserved or added to, with `todo` the
enabled ones still to serve and `First` the order of the configuration). A null item keeps
its place in `seen` as `Null`; `Accepted` is what null items and the collection filter
leave. `StaleRejected` is a write Spotify refuses because an episode
is gone; the catalogue is then read again for that playlist alone. `ghost` is what the
properties compare with: what was listed throughout and since the last proven read.

**Administration.** A configuration is what the operations tell apart of it: how the one
installable source is defined, the draft of the one portable playlist, and the playlist a
migrated installation brought along (`ConfigurationEdits`). `OperationalStore` has the
marker (`authority`), the `document`, and `expected`, the bytes of the last load that a save
compares under the directory lock. `AdminSessions` has `session` (preview, review) and
`page`: a page carries whether its token and preview are still the current ones, whether
that token has had an effect, the configuration it was rendered from, and the fingerprint
fields of its form. All live pages of a session share one token (`Bearers`); a request
keeps the pages that shared the one it consumed. `request` is
the server thread: `loading`, `inspected`, `saving`, `reading` (imports and identities read
back what a failed save left), `answer`; the configuration lock is held from loading to
the answer, so only another process, the audit's worker and crashes come in between. `job`
is the audit. A damaged draft is a record that could not be understood and is set apart
with its raw text; `legacy` is what an earlier release left: nothing, a clean record, one
with a damaged draft, one that cannot be read, one of a schema that is not migrated.
`with` is a set of features chosen at the start of a behaviour: which optional actors and
troubles it has.

## 3. Runs

| run | asks | bounds |
|---|---|---|
| `SpotifyBackoff` | safety, refinement of `Cooldown`, calls resume | 2 clients, 3 ticks, Retry-After 1 or absent (2), 1 restart, failing SQLite |
| `Reconciliation` | truthful evidence, resolved doubt, no repeated write | 4 environments, 4 versions, 2 changes, 1 edit, 2 or 3 faults |
| `ReconciliationLiveness` | convergence | 7 versions, 1 change, 1 edit, 2 faults |
| `ReconciliationCrash` | finding: doubt skipped over after a crash | 2 faults, no edits |
| `PartialAdditions` | fence and no duplicates but after a pass without a write, coverage resolves | limit 3, 4 changes, 1 edit, 3 faults |
| `PartialAdditionsSkip` | finding: doubt skipped over when coverage returns | 3 changes, 1 fault |
| `Provisioning` | creations, releases, sources, writers, finalization | 2 templates, sources, destinations, 5 requests, 2 faults (crashes, failing writes, damaged drafts) |
| `EngineLifecycle` | lifecycle safety, wakes, rest after a stop, no deadlock | 2 playlists, 2 thread slots, 4 requests |
| `Authorization` | binding, durability, stale writes, dead tokens, working connections, no circular wait | 2 grants of 2 generations, 2 started requests, 1 admin operation, 1 restart, 1 guarded write per cycle, saves lost or late |
| `AuthorizationBinding` | finding: a token bound to another account's grant | saves lost or late |
| `SourceCoverage` | truthful rebuilding, no episode overlooked, current additions, coverage returns | 3 episodes, pages of 1, at most 2 pages, 2 playlists, horizon 3, any of the playlists enabled at first, 1 change of the owner |
| `Administration` | cancelled audits, imports as shown, damage, single effects, lost updates, replies, first documents | 2 browsers, 2 pages, 1 preview each, 2 writes, 1 each of fault, loss, restart, foreign write |

Why the bounds are enough to be interesting:

- *Backoff.* Two clients are an engine cycle and an admin request, the only concurrent
  users. A 429, its expiry and a restart fit into three ticks. The fallback delay (2) is
  longer than a Retry-After (1), so a shorter deadline can meet a longer one in either
  order. The theorems of section 4 hold for all clocks.
- *Reconciliation.* Four versions hold the initial content, a write, a foreign edit or an
  ambiguous write, and a second write; two changes of the desired state lead back to the
  first one, which is what stale evidence needs. The two foreign contents are chosen so
  that a read torn between them shows a desired one. Faults are never all combined: each
  environment drops one dimension to stay small, and every property is checked in the
  environments its own statement names.
- *Partial additions.* Three faults are two POSTs in flight at once and a failing clear or
  normal pass between them. The limit of 3 leaves room for two of the candidate contents
  beside a short destination and for none beside a long one. The pending confirmation of a
  normal pass counts against the faults, only to bound how often it happens.
- *Provisioning.* Two templates can contend for one destination, a pending activation can
  lose one of two sources. Five requests cover activate, adopt, stop, activate, adopt. The
  environments are none, crashes, crashes with failing writes, and damaged drafts; two of
  these damage the pending draft and the one of the playlist that contends with it.
- *Lifecycle.* Four requests disable the last playlist, enable another one, delete a source
  and change a contract, each of them announced to the controller or not. Two thread slots show a second scheduler, were it ever started.
- *Authorization.* Two grants are the old and the new account; two generations a rotation
  whose answer is lost; two started requests an older tab's callback. An administrator's
  request is one with or without the configuration lock.
- *Source coverage.* Pages of one episode make a read of two pages that a third, a removal
  or a null item can fall between; a show of three does not fit into the pages, a shorter
  one does. One playlist has a longer retention than the other, so that a repair for one
  narrows the other's coverage.
- *Administration.* Two writes are an import and an edit that makes another page stale;
  two pages of one browser share a token, two browsers do not. The set `Features` lists the
  combinations of actors and troubles that are checked: each of imports with reviews, an
  audit, another process, failing files, lost documents, restarts and damaged drafts, with
  several tabs or with one, but never all together.

Deadlock is checked in every run but `Administration`, where a start that is refused (an
unreadable record, a lost document) ends the system: the operator has to act.

### Fairness

- *SpotifyBackoff*: threads run, calls end, and the lock is granted to a client that asks
  again and again (strong fairness: a Python lock starves nobody for ever in practice, the
  code gives no stronger promise); the token endpoint and SQLite do not refuse for ever.
  No 429 and no restart is ever fair.
- *Reconciliation, PartialAdditions*: the engine thread runs, Spotify propagates snapshots,
  leases and pending confirmations expire (six hours, one hour). Faults, edits and changes
  are bounded and not fair, so the liveness properties say what happens after the last.
- *Provisioning*: a begun request is served, a dead process is restarted, the owner opens
  the page from time to time.
- *EngineLifecycle*: threads run and requests to Spotify end (the client has a timeout).
  Nothing is assumed of the order in which waiting threads get a lock, of the interval
  between cycles, of requests or of signals.
- *Authorization*: threads run and requests end. The administrator gets the request lock
  in the end (strong fairness, as above), a cooldown is over at some time, and Spotify
  answers at some time a refresh that is asked again and again. Nothing is assumed of the
  user, of expiries, of revocations.
- *SourceCoverage* and *Administration* need none: "within the inactivity audit" is counted
  in cycles, which makes it a safety property.

### What the runs show to be true

- A 429 silences every client of the process, token requests included, until it has
  passed, also while SQLite refuses writes. After a restart only what was stored counts.
- Pending confirmations and leases never vouch for content the engine has itself
  overwritten, through lagging snapshots, hidden items and torn reads.
- An insertion of unknown outcome stays fenced across crashes, failed passes and late
  POSTs, and no episode is inserted twice. The exception is a normal pass that had nothing
  to write (see below).
- No cut in an activation orphans or repeats a creation. A known destination is finalized
  unless the owner disabled one of its sources or gave the destination to another enabled
  playlist, or its draft is damaged. Damaged drafts come back into a configuration that
  still has their sources and no second writer for a destination.
- However playlists are disabled and enabled, one scheduler runs; a write happens only
  under the durable contract; a shutdown reported complete leaves nothing running; what a
  request that succeeded has changed, or a new connection, begins a cycle, through cycles
  whose configuration cannot be loaded and changes nobody announced.
- A session writes with the token of the account it is bound to, and at most the one write
  that is past its last comparison when the owner re-authorizes is stale. A cached token
  has its refresh token on disk. Both hold but for a save that raises after it has replaced
  the file (finding 3): until the next token, or the next session bound after it, the
  cached token may be an older one than the file's. A credential Spotify rejected stays
  only if it can be neither overwritten nor removed. The three locks are never waited for
  in a circle.
- A playlist is rebuilt from episodes that were listed in the last proven read, all of
  them, however the show changes between its pages; additions without coverage were seen
  in this cycle; an overlooked change and a lost authority are repaired within the
  inactivity audit, whatever the public page says.
- A confirmed import, identity or draft writes exactly what its page showed, on the
  configuration it showed it for, once for all the tabs that share its token, whatever other
  tabs, browsers, processes and the audit do; its answer is true also when the save failed; a damaged draft is lost to
  nothing but its own repair; a start never makes a first document twice.

### Findings (runs that must fail)

1. **`ReconciliationCrash`.** Invariant 9 of ARCHITECTURE.md says that ambiguous writes stay
   ambiguous until evidence resolves them. The old exact lease is cleared only *after* an
   ambiguous write, in `_record_playlist_failure`. If the process dies in between and the
   desired state returns to the leased content, the playlist is skipped until the lease
   expires. `Converges` shows that the expiry repairs it.
2. **`PartialAdditionsSkip`.** The exception path of `_partial_reconcile_playlist` keeps the
   exact lease and the skip does not look at the open intent, so a POST in doubt is skipped
   over when coverage returns with the leased content.
3. **`AuthorizationBinding`.** `acquire_provider_session` promises to bind a token to its
   authorization generation under one lock (`engine_runtime.py:200`). It takes the token
   from memory and the generation from the file. When saving a new grant fails *after*
   `os.replace` (`chmod` or the directory `fsync`), `complete_callback` leaves before it
   replaces the cached token: the next session has the old account's token under the new
   account's context, and every comparison of the guard accepts it until the token expires.

Noticed while modelling, not stated as a run:

- A normal pass that finds the destination as desired succeeds without a write
  (`reconciliation.py:273`), and `engine.py:1120` then clears the intent of a POST that timed
  out and may still be carried out, although `partial_reconciliation.py:5` says the intent
  "fences uncertain POST outcomes" and `src/docs/BETA_V11_ACCEPTANCE.md:18` that "uncertain
  POSTs are fenced". If the source loses its coverage again, the late POST and a new
  add-only POST can insert one episode twice, until the next replacement.
  `OpenPostIsFenced` and `NoDuplicates` without `withdrawn` are violated by that behaviour.
- A request whose change is durable but that then raises (the clearing of the journal after
  the save, `managed_admin.py:664`; a save that raises after `os.replace`), and a page view
  that finalizes an activation, do not reach `lifecycle.reconcile`
  (`engine_runtime.py:971`). The running scheduler sees the change at its interval; if none
  runs, none is started until a later request succeeds. `ChangesAreSeen` is about what the
  controller is told.
- An activation or adoption whose template is suspended ends in the assertion that follows
  `finalize_known_provisioning` (`managed_admin.py:608` and `:696`); the journal is kept.
- `spotify_backoff.py:362` says a 429 silences the rest of the client's life. When SQLite
  refuses the deadline, `_call` leaves with `PersistenceError` before the latch is set, and
  the client is silent only until the shared deadline. `LimitedStaysSilent`, which is
  proved, states what does hold: a client whose 429 was *stored*.
- Finalizing refuses an intent with any disabled source (`managed_admin.py:657`) although
  `source_admin.py:147` blocks only the disabling of the last one. The tests document the
  refusal as deliberate; at a start it ends the process (`engine_runtime.py:1331`).
- With lagging snapshots and a crash, the attested shortcut may send the same content
  once more. `NoRepeatedWrite` is stated where snapshots are current.
- A repair after a rejected write records the retention of the rejected playlist as the
  source's cutoff (`engine.py:1193`), so a playlist with a longer retention waits until
  time or the next refresh restores its coverage. `CoverageReturns` counts cycles without
  a repair; how long the other playlist waits when one is rejected in every cycle is not
  bounded by the code.
- `OpenPostIsFenced` rests on nobody else putting an episode on top that the add-only mode
  may be about to insert: the readback that drops an intent compares contents, not authors.
  Without `FrontIsOurs` (section 4) TLC finds it violated: somebody inserts the very
  episodes by hand while the POST is late, the intent counts as confirmed and is dropped,
  and the POST is carried out on top of them.

## 4. Proofs

### The cooldown

`SpotifyBackoff_proofs` proves, for every set of clients, set of Retry-After values,
fallback delay, clock bound and number of restarts, assuming only `ConstantsAssumption`:

| theorem | says |
|---|---|
| `TypeCorrect` | `Spec => []TypeOK`: types, and that the holder of the request lock is exactly the client inside the guarded region |
| `CooldownHolds` | `Spec => []CooldownObeyed` |
| `CooldownImplemented` | `Spec => ImplementsCooldown` |
| `DeadlineExtends` | `Spec => DeadlineOnlyExtends` |
| `LimitedSilent` | `Spec => []LimitedStaysSilent` |

`CooldownObeyed` (nothing is in flight before the imposed deadline) is not inductive: a
call is let through because `row` and `fallback` have passed, so one must know that they
cover the imposed deadline. The invariant proved is

    IInv == TypeOK /\ NoClientFromTheFuture /\ Covered /\ CooldownObeyed

`Covered` says that the imposed deadline has passed or is at most the later of row and
fallback. It survives a waiting cycle's old `now` because no client's `now` lies in the
future, and a 429 of one client cannot meet a request of another because the lock, part of
`TypeOK`, admits one. `ActiveKeepsCover` is the lemma about the three outcomes of `active`.
The refinement follows from `IInv` step by step: `RateLimited` maps to `Limit`, `Store` to
`Persist`, the outcomes of `active` to `Persist`, `Lapse` or `Send`, the rest to stutters.
`LimitedSilent` has an invariant of its own, `Silenced`: the deadline being stored is never
the empty one, so the latch is set.

### The threads

`EngineLifecycle_proofs` proves, for every set of playlists, thread slots and bounds,
assuming only `LifecycleAssumption`, that `Spec` keeps `TypeOK` (`TypeCorrect`),
`OneScheduler` (`SchedulerAlone`), `WritesMatchConfiguration` (`ContractHolds`),
`DeletionExcludesCycle` (`DeletionExcluded`) and `ShutdownTruthful` (`ShutdownComplete`).
The invariant is

    IInv == TypeOK /\ MainHolds /\ Lone /\ Joined /\ Targeted
            /\ WritesMatchConfiguration /\ DeletionExcludesCycle /\ ShutdownTruthful

`OneScheduler` counts threads, which says nothing of the controller's fields; `Lone` does:
a living thread is the current scheduler or, when there is none, one that drains. That is
why `reconcile` may start a thread when it has neither. `MainHolds` ties the locks to the
main thread's steps, so that an edit or a deletion excludes a guard or a cycle; `Joined`
says that the set collected by the shutdown covers whatever still lives; `Targeted`, that a
thread in the guard has a playlist. The lemmas take
the sections of the controller (`StopEffect`, `StartEffect`, `WakeEffect`,
`ReconcileEffect`) apart from the handlers that call them.

### Provisioning

`Provisioning_proofs` proves, for every set of templates, sources and destinations and
every number of requests and faults, assuming `ProvisioningAssumption` and
`NoneAssumption`, that `Spec` keeps `TypeOK` (`TypeCorrect`), `EveryCreationAccounted`
(`CreationAccounted`), `CreationsDoNotOverlap` (`CreationsApart`), `LetGoStaysLetGo`
(`LetGoHolds`), `SourcesRemain` (`SourcesKept`) and `OneWriterPerDestination`
(`OneWriter`). The invariant is

    IInv == TypeOK /\ Good(state) /\ PendingFed /\ Midway /\ Recorded /\ LetGo
            /\ EveryCreationAccounted /\ CreationsDoNotOverlap

`Midway` is what a request knows between its steps: the intent is only started until the
identifier is recorded, and applied before the journal is cleared. `Recorded`: what is
managed, released or in the journal was really created, so a new identifier is none of
them. `LetGo` extends `LetGoStaysLetGo` to the journal and to the request in progress;
its last part, that an idle process has no known intent that was already applied, is where
a start that does not finalize would break it. What each write checks (`Valid`) leaves the
suspended playlists out; `Good` says of them too that their drafts exist, read or
quarantined, and their sources, so that damage and repair keep `SourcesRemain`. The lemmas state what a write, an assignment to one part of the state and
a change of the intent do, then one lemma per group of actions shows that `IInv` survives.

### The administration

`Administration_proofs` proves, for every set of browsers, pages and features and all
bounds, assuming `SessionBounds`, `StoreBounds` and `AdministrationBounds`, every property
of the `Administration` run: `ShownIsApplied`, `DamageStaysContained`, `OneEffect`,
`NoUpdateLost`, `RepliesTruthful`, `FirstOnlyOnce` and `CancellationHonoured`. The
invariant is

    IInv == StoreTypes /\ PagesTrue /\ RequestTypes
            /\ TurnTrue /\ TurnShown /\ DecisionTrue /\ JobTrue
            /\ (phase # "up" => request = Idle) /\ (published => authority)

A write happens several steps after its page was rendered, so the invariant follows the
page. `PagesTrue`: a page whose preview is still the session's shows exactly what that
preview says, live pages of one session agree on whether their token was used, and a token
that had its effect is live on no page. `TurnTrue` and `TurnShown`:
a request that may still write has a page that is still shown, whose token it has consumed
and which has had no effect yet, and what the request carries is what that page showed.
`DecisionTrue`: what a deciding request is about to write is what its page promised, and
the bytes it compares with are those it decided on; that is what makes a lost update
impossible, since the save compares `document` with `expected`. Each action has a lemma,
and the operations on pages (`EndingKeepsPages`, `FormKeepsPages`, `StagingKeepsPages`,
`TakingKeepsPages`, ...) have theirs, which the actions cite.

### The authorization

`Authorization_proofs` proves, for every number of grants, rotations, started requests,
operations and restarts and all faults of saving, assuming only `BoundsAssumption`, that
`Spec` keeps `TypeOK` (`TypeCorrect`), `GuardedWrite` (`WritesGuarded`),
`DeadCredentialDropped` (`DeadCredentialGone`), `SessionBinding` (`SessionsBound`) and
`CacheDurable` (`CacheIsDurable`). The last two say exactly when they do not apply: while
the cache is `torn` from the file by a save that raised after replacing it, and for a
session bound then (`mixed`). `SessionTruthful`, without that exception, is what
`AuthorizationBinding` refutes. The first invariant is

    IInv == TypeOK /\ Owners /\ AnswersFit /\ Dated
            /\ RejectedAreOld /\ DeadCredentialDropped /\ Guarded

`Owners`: whoever has asked Spotify holds the authorization lock; hence `AnswersFit`, the
answer is about the credential still in the file. `Dated`: a new grant is newer than every
context and every rejected token, so neither comes back. That is why the second comparison
under the configuration lock (`Guarded`) tells the context at the moment the lock was
taken: it may have gone since, it cannot have come. `Bound` adds that a caller who has its
token but has not yet read the context sees the file that token came from, if the cache is
not torn: nobody else gets the authorization lock in between.

### The reconciliation

`Reconciliation_proofs` proves, for every set of contents and environments and every number
of versions, changes, edits and faults, assuming only `ContentsAssumption`:

| theorem | says |
|---|---|
| `TypeCorrect` | `Spec => []TypeOK`: types, and that a snapshot id held anywhere names a version that exists |
| `PendingAwaitsOwnWrite` | `Spec => []PendingTruthful` |
| `ExactLeaseHolds` | `Spec => []ExactLeaseTruthful` |
| `DegradedLeaseHolds` | `Spec => []DegradedLeaseTruthful` |
| `DoubtStopsSkips` | `Spec => []DoubtIsResolvedAlive` |
| `WritesAreNeeded` | `Spec => []NoRepeatedWrite` |

What a lease says of the destination is a statement about its history: the engine wrote
this version last (`LastIn`), or the destination held this content since the engine's last
write (`HeldIn`). Both outlive whatever other people do. The invariant follows the evidence
on its way:

    Observed (the reads and snapshots of the pass) -> Vouched (its outcome)
      -> Planned (the SQLite writes it settles, in order)
      -> Awaited, Attested, DegradedDropped, ExactKept, DoubtKept (the journals)

so a crash between two transactions leaves journals that are each true by themselves. The
step that carries it all is the readback between two equal snapshots: every edit and every
propagation moves the view beyond what the pass has seen, so nothing was edited in between.
`Known` is about a destination nobody else edits and gives `NoRepeatedWrite`.
Every part has one lemma for the steps of the pass and one for all steps.

### The add-only mode

`PartialAdditions_proofs` proves, for every set of contents, limit and number of changes,
edits and faults, assuming only `ConstantsAssumption`:

| theorem | says |
|---|---|
| `TypeCorrect` | `Spec => []TypeOK` |
| `OpenPostsFenced` | `Spec => []OpenPostIsFenced`, if nobody else puts on top what the mode may insert (`FrontIsOurs`) |
| `FencedWhenAlone` | the same without that condition, while there are no foreign edits |
| `NoEpisodeTwice` | `Spec => []NoDuplicates`, if no foreign content has an episode twice (`ForeignInjective`) |

Both properties except a POST whose intent a normal pass has dropped that had nothing to
write (`withdrawn`), and nothing else: a pass that fails, a refused clear or a crash never
does. Both conditions hold of the checked instance and are about other people, not about
the code; without the first the property is false (see above), without the second somebody
else puts the duplicate there. The invariant is

    IInv == TypeOK /\ Turn /\ Headed /\ Unconfirmed /\ Quiet /\ Fresh

`Unconfirmed`: a POST that may still be carried out keeps the destination from looking like
its intent, so nothing can confirm, and therefore nothing withdraws, that intent before the
POST is settled. It holds because what is intended begins with an episode (`Headed`) the
destination does not begin with. It is claimed while no intent was dropped in that way
(`Undisturbed`). `Quiet`: once an outcome is settled nothing is in flight.
`Fresh`: without edits the additions fit the destination as it still is.

### The source catalogue

`SourceCoverage_proofs` proves, for every number of episodes, size and number of pages, set
of filters, retentions and audit intervals, assuming only `HorizonCovers`:

| theorem | says |
|---|---|
| `TypeCorrect` | `Spec => []TypeOK` |
| `ReadyPlaylistsAreTrue` | `Spec => []ReadyTruthful` |
| `OnlyCurrentAdditions` | `Spec => []AdditionsAreCurrent` |
| `AuditsFindEpisodes` | `Spec => []NoEpisodeOverlooked` |
| `AuditsRestoreCoverage` | `Spec => []CoverageReturns` |

The invariant is

    IInv == TypeOK /\ Sorted /\ Detected /\ Placed /\ Behind /\ Paged
            /\ Truth /\ Additional /\ Counted /\ Served

Why may a read be trusted during which episodes come and go? `_validate_page` only compares
totals, and a publication together with a withdrawal keeps the total. `Behind` is the
answer: take an episode that was listed all the time and that no page has shown yet. New
episodes come in front of it, so the number of episodes behind it never grows; and it is
smaller than the number of items still to be read, `total - pages * PageSize`. A read that
ends with the list has nothing left to read, so there is no such episode; one that ends at
the limit of pages has its last item in front of every such episode (`Paged`,
`UnseenIsOld`), and `_boundary_covers` demands that this item is older than every
retention. That gives `Truth`: what a proven read has missed is older than `cut`, and
stays so as `cut + refresh` and its age grow together.

The two properties that count cycles follow from `Counted`: while a count runs, the age of
the last look at the catalogue is at least the count (`Bounded`), so when the count reaches
`Inactivity` an audit is due in the very cycle that would exceed it (`NotDueIsQuiet`); and
a cycle with a read and without a fault ends the count (`Established`, `Served`). That
includes a source without a detector row and a row that knows nothing (`Detected`).
`Greatest`, that a bounded set of numbers has a greatest element, is proved by cardinality,
since the induction theorems cannot be used.

### Only model-checked

- Liveness (`CallsResume`, `Converges`, `CoverageResolves`, `KnownResolves`,
  `ChangesAreSeen`, `ComesToRest`, `ConnectedWorks`, `EveryCycleEnds`): the prover has no
  rules for fairness and ENABLED. Every other property of a passing run is a theorem.
- `TypeOK` of `Administration`, which is no property of a run: `IInv` there contains the
  types its argument needs. TLC finds it true under `Administration.cfg`.
- The properties of the three runs that must fail, of course.

## 5. Assumptions and what is left out

- No write is carried out after its answer, nor after a later replacement of the whole
  content. A timed-out POST of the add-only mode may be carried out late; a timed-out
  replacement or creation has been carried out or never will be.
- Item reads are current, only the snapshot endpoint lags. In `PartialAdditions` a read
  between two equal snapshots is one step.
- `LetGoStaysLetGo` is stated for writes that do not fail. With `unlink` failing for ever
  and saves succeeding, the snapshot of a Stop managing request can be finalized again
  (hazard at `managed_provisioning.py:144`, without a property).
- An adoption may pass for any playlist the owner has, whatever its name. Template default
  sources do not block the deletion of a source in `Provisioning`, which allows more than
  the code does.
- `Provisioning`: a damaged draft is repaired in the file, and only to a configuration the
  engine accepts; a quarantined record that has lost its identifier is not told apart.
- `EngineLifecycle`: a change is one assignment; that a failing request may have changed
  more than one file is in `Provisioning`. It leaves the authorization context of the write guard to `Authorization`,
  which has no configuration changes; the two meet in the configuration lock only.
- Joining a thread at shutdown has a ten second timeout, so `Exit` may come while it runs.
- `Authorization`: the authorization context stands for one grant (the code hashes
  `authorized_at`, two grants of the same instant are not told apart). An access token is
  either accepted or about to expire.
- `SourceCoverage`: episodes appear on top of the list with the date of the day and the
  clock does not go back. Time passes from cycle to cycle, not within one. The properties
  that count cycles start again after failed reads, null items, repairs, crashes and
  changes of the owner. A collection filter may reject any episode but the watched one. A
  source that is unassigned, deleted and added again between two cycles is one step.
- `Administration`: one source, one portable draft and one migrated playlist stand for all;
  imports of several objects are all or nothing in the code as well. A document of a root
  that was never migrated is only tried where starts may be cut off. The recovery of a
  playlist without usable sources by `effective_config.py` cannot happen to a v11
  document, whose migration pauses such playlists. What Spotify does during an activation
  is in `Provisioning`; here it toggles `pending`.
- Parsing, rendering, wording, diagnostics events and metrics are left out everywhere: no
  decision depends on them.

### Not modelled

- Providers and title interpretation: regular expressions over titles and dates; pure
  functions that the unit tests enumerate better than a model would.
- The selection of episodes for the temporal slots of a playlist, and the timestamps
  `public_release.py` derives: they decide on data the models do not have.
- Rendering of pages, covers, the recorders of diagnostics, the command line and the
  offline tools: no state shared with the running process, or none that is read back.
- The delay after wrong passwords and the address and transport checks of the
  administration.
- The informative run-state row and SQLite schema migrations.

## 6. Plan

What would add most next:

1. The step lemmas of the liveness properties, which need no fairness rule: what stays true
   until the awaited step, and that the step makes progress; first for `CoverageResolves`
   (an intent is only replaced by its outcome) and `KnownResolves`. `TypeOK` of
   `Administration` as a theorem.
2. The composition of `SourceCoverage` with `PartialAdditions`: `covered` of the latter is
   `Ready` of the former, assumed free today.
3. Several sources for one playlist in `SourceCoverage`, with the fairness between
   repairs that the code does not state (the hazard at `engine.py:1193`).
