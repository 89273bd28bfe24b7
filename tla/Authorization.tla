--------------------------- MODULE Authorization ---------------------------
(***************************************************************************)
(* One Spotify authorization shared by three threads of the process: the   *)
(* engine, which binds an access token to the grant it came from and then  *)
(* writes playlists with it, an administrator's operation that needs a     *)
(* token, and the web server that completes the authorization callback.    *)
(*                                                                         *)
(*   spotify/auth.py     SpotifyCredentialStore, SpotifyAuthService        *)
(*   engine_runtime.py   AuthSynchronization, _LockedAuthProvider          *)
(*   spotify_backoff.py  SpotifyRateLimitGuardAuth (the request lock)      *)
(*   engine.py           _provider_mutation_guard                          *)
(*                                                                         *)
(* A grant is one completed authorization; its number stands for the       *)
(* authorized_at timestamp, from which the authorization context is        *)
(* computed.  A refresh token is a grant and a generation: Spotify may     *)
(* replace it whenever it answers a refresh.                               *)
(***************************************************************************)
EXTENDS Naturals, FiniteSets

CONSTANTS
    MaxGrants,      \* authorizations a user completes at Spotify
    MaxGen,         \* generations of the refresh token of one grant
    MaxStarts,      \* authorization requests started in the web interface
    MaxRequests,    \* operations of the administrator that need a token
    MaxCrashes,     \* process restarts
    Playlists,      \* guarded writes an engine cycle attempts
    SaveFaults      \* how saving the credential file may fail: "lost" before
                    \* os.replace, "late" after it

ASSUME BoundsAssumption ==
    /\ MaxGrants \in Nat /\ MaxGen \in Nat \ {0} /\ MaxStarts \in Nat
    /\ MaxRequests \in Nat /\ MaxCrashes \in Nat /\ Playlists \in Nat
    /\ SaveFaults \subseteq {"lost", "late"}

Threads == {"engine", "admin", "web"}
Nobody  == "nobody"
Grants  == 1..MaxGrants

VARIABLES
    file,       \* the credential file
    pending,    \* _pending: the authorization request waiting for its callback
    cached,     \* _access_token
    reauth,     \* _reauthorization_required
    remote,     \* at Spotify: the live generation of each grant, 0 if none
    lock,       \* owners of the authorization, request and configuration locks
    pc,         \* where each thread is
    answer,     \* what Spotify answered the holder of the authorization lock
    session,    \* ProviderAuthorizationSession of the engine cycle
    todo,       \* guarded writes left in the engine cycle
    lockCtx,    \* history: the context when the engine took the config lock
    rejected,   \* history: refresh tokens Spotify answered invalid_grant to
    retained,   \* history: a rejected token could be neither replaced nor removed
    torn,       \* history: a save replaced the file and raised, and the token
                \* cached before it is still there
    mixed,      \* history: the session was bound while the two were torn
    bounds      \* events counted against the bounds

service == <<pending, cached, reauth>>
ghosts  == <<lockCtx, rejected, retained, torn, mixed>>
cycle   == <<session, todo>>
vars    == <<file, service, remote, lock, pc, answer, cycle, ghosts, bounds>>

NoFile    == [status |-> "none", grant |-> 0, gen |-> 0]
NoPending == [state |-> 0, expired |-> FALSE]
NoToken   == [grant |-> 0, gen |-> 0, fresh |-> FALSE]
NoAnswer  == [result |-> "none", grant |-> 0, gen |-> 0]
NoSession == [grant |-> 0, ctx |-> 0]

Results == {"none", "ok", "invalid_grant"}
EnginePcs == {"idle", "request", "auth", "refresh", "answer", "token", "run",
              "config", "recheck", "write", "writing"}
AdminPcs  == {"idle", "request", "auth", "refresh", "answer", "token"}
WebPcs    == {"idle", "exchange", "answer"}

\* What load accepts: an active record has a refresh token, a marker has none.
CredentialFiles ==
    {NoFile}
        \union [status : {"active"}, grant : Grants, gen : 1..MaxGen]
        \union [status : {"reauth_required"}, grant : Grants, gen : {0}]

TypeOK ==
    /\ file \in CredentialFiles
    /\ pending \in [state : 0..MaxStarts, expired : BOOLEAN]
    /\ cached \in [grant : 0..MaxGrants, gen : 0..MaxGen, fresh : BOOLEAN]
    /\ reauth \in BOOLEAN
    /\ remote \in [Grants -> 0..MaxGen]
    /\ lock \in [auth : Threads \union {Nobody}, request : {"engine", "admin", Nobody},
                 config : {"engine", "admin", Nobody}]
    /\ pc \in [engine : EnginePcs, admin : AdminPcs, web : WebPcs]
    /\ answer \in [result : Results, grant : 0..MaxGrants, gen : 0..MaxGen]
    /\ session \in [grant : 0..MaxGrants, ctx : 0..MaxGrants]
    /\ todo \in 0..Playlists
    /\ lockCtx \in 0..MaxGrants
    /\ rejected \subseteq (Grants \X (1..MaxGen))
    /\ retained \in BOOLEAN /\ torn \in BOOLEAN /\ mixed \in BOOLEAN
    /\ bounds \in [grants : 0..MaxGrants, starts : 0..MaxStarts,
                   requests : 0..MaxRequests, crashes : 0..MaxCrashes]

Init ==
    /\ file = NoFile /\ pending = NoPending /\ cached = NoToken /\ reauth = FALSE
    /\ remote = [g \in Grants |-> 0]
    /\ lock = [auth |-> Nobody, request |-> Nobody, config |-> Nobody]
    /\ pc = [engine |-> "idle", admin |-> "idle", web |-> "idle"]
    /\ answer = NoAnswer /\ session = NoSession /\ todo = 0
    /\ lockCtx = 0 /\ rejected = {} /\ retained = FALSE /\ torn = FALSE /\ mixed = FALSE
    /\ bounds = [grants |-> 0, starts |-> 0, requests |-> 0, crashes |-> 0]

-----------------------------------------------------------------------------
(***************************************************************************)
(* What the credential file and the service say.                           *)
(***************************************************************************)

\* authorization_context: the grant of an active credential, 0 for None.
ContextOf(f) == IF f.status = "active" THEN f.grant ELSE 0

\* authorization_state, as the administration pages show it.
AuthorizationState ==
    IF reauth \/ file.status = "reauth_required" THEN "reauth_required"
    ELSE IF file.status = "none" THEN "disconnected" ELSE "connected"

\* The files SpotifyCredentialStore.save can leave, and whether it raised.
SaveOutcomes(record) ==
    {[file |-> record, raised |-> FALSE]}
        \union (IF "lost" \in SaveFaults THEN {[file |-> file, raised |-> TRUE]} ELSE {})
        \union (IF "late" \in SaveFaults THEN {[file |-> record, raised |-> TRUE]} ELSE {})

\* The exception of a save leaves before the cache is replaced.
Unrefreshed(outcome) ==
    /\ torn' = (torn \/ (outcome.file # file /\ cached # NoToken))
    /\ UNCHANGED cached

\* A variant without the removal of a credential whose marker cannot be saved.
MarkOutcomesKeepingToken(previous) ==
    LET marker == [status |-> "reauth_required", grant |-> previous.grant, gen |-> 0]
    IN  {[file |-> o.file, stuck |-> FALSE] : o \in SaveOutcomes(marker)}

\* mark_reauthorization_required: a marker without a token replaces the record;
\* if it cannot be saved the file is removed, which can fail as well.
MarkOutcomes(previous) ==
    LET marker == [status |-> "reauth_required", grant |-> previous.grant, gen |-> 0]
        kept(f) == [file |-> f, stuck |-> TRUE]
        clean(f) == [file |-> f, stuck |-> FALSE]
    IN  UNION {IF o.raised THEN {clean(NoFile), kept(o.file)} ELSE {clean(o.file)} :
                  o \in SaveOutcomes(marker)}

\* The locks after a thread has left every "with" block it was in.
ReleaseAll(t) ==
    [auth |-> IF lock.auth = t THEN Nobody ELSE lock.auth,
     request |-> IF lock.request = t THEN Nobody ELSE lock.request,
     config |-> IF lock.config = t THEN Nobody ELSE lock.config]

Goto(t, label) == pc' = [pc EXCEPT ![t] = label]

\* An exception leaves the thread's operation: the engine's cycle ends without
\* a session, the administrator's operation fails.
Abandon(t) ==
    /\ Goto(t, "idle")
    /\ lock' = ReleaseAll(t)
    /\ answer' = IF lock.auth = t THEN NoAnswer ELSE answer

-----------------------------------------------------------------------------
(***************************************************************************)
(* SpotifyAuthService.get_access_token, called by the engine and by the    *)
(* administrator under the request lock and the authorization lock.        *)
(***************************************************************************)

TakeRequestLock(t) ==
    /\ t \in {"engine", "admin"} /\ pc[t] = "request"
    /\ lock.request = Nobody
    /\ lock' = [lock EXCEPT !.request = t]
    /\ Goto(t, "auth")
    /\ UNCHANGED <<file, service, remote, answer, cycle, ghosts, bounds>>

\* get_access_token returns: the engine keeps the token for its session.
TokenReturned(t, grant) ==
    /\ Goto(t, "token")
    /\ session' = IF t = "engine" THEN [grant |-> grant, ctx |-> 0] ELSE session

\* A rate-limit cooldown refuses the token before Spotify is asked.
CooldownRefuses(t) ==
    /\ t \in {"engine", "admin"} /\ pc[t] = "auth"
    /\ Abandon(t)
    /\ UNCHANGED <<file, service, remote, cycle, ghosts, bounds>>

TakeAuthLock(t) ==
    /\ t \in {"engine", "admin"} /\ pc[t] = "auth" /\ lock.auth = Nobody

TokenRefused(t) ==
    /\ TakeAuthLock(t)
    /\ reauth \/ (~cached.fresh /\ file.status # "active")
    /\ cached' = IF reauth THEN cached ELSE NoToken
    /\ torn' = (torn /\ reauth)
    /\ Abandon(t)
    /\ UNCHANGED <<file, pending, reauth, remote, cycle, lockCtx, rejected, retained, mixed, bounds>>

\* A variant that leaves the authorization lock between token and context.
TokenFromCacheUnlocking(t) ==
    /\ TakeAuthLock(t)
    /\ ~reauth /\ cached.fresh
    /\ TokenReturned(t, cached.grant)
    /\ UNCHANGED <<file, service, remote, lock, answer, todo, ghosts, bounds>>

TokenFromCache(t) ==
    /\ TakeAuthLock(t)
    /\ ~reauth /\ cached.fresh
    /\ lock' = [lock EXCEPT !.auth = t]
    /\ TokenReturned(t, cached.grant)
    /\ UNCHANGED <<file, service, remote, answer, todo, ghosts, bounds>>

RefreshRequested(t) ==
    /\ TakeAuthLock(t)
    /\ ~reauth /\ ~cached.fresh /\ file.status = "active"
    /\ lock' = [lock EXCEPT !.auth = t]
    /\ Goto(t, "refresh")
    /\ UNCHANGED <<file, service, remote, answer, cycle, ghosts, bounds>>

\* Spotify answers the refresh: with a token, and perhaps a new refresh token
\* that replaces the old one, or with invalid_grant if that one is dead.
RefreshAnswered(t) ==
    /\ t \in {"engine", "admin"} /\ pc[t] = "refresh"
    /\ Goto(t, "answer")
    /\ IF remote[file.grant] = file.gen
          THEN \E gen \in {file.gen} \union ({file.gen + 1} \intersect (1..MaxGen)) :
                  /\ remote' = [remote EXCEPT ![file.grant] = gen]
                  /\ answer' = [result |-> "ok", grant |-> file.grant, gen |-> gen]
          ELSE /\ answer' = [result |-> "invalid_grant", grant |-> file.grant, gen |-> file.gen]
               /\ UNCHANGED remote
    /\ UNCHANGED <<file, service, lock, cycle, ghosts, bounds>>

\* The refresh fails: Spotify is unreachable or answers an error, or its answer
\* is lost or unusable although it replaced the refresh token.
RefreshFailed(t) ==
    /\ t \in {"engine", "admin"} /\ pc[t] = "refresh"
    /\ Abandon(t)
    /\ \/ UNCHANGED remote
       \/ /\ remote[file.grant] = file.gen /\ file.gen < MaxGen
          /\ remote' = [remote EXCEPT ![file.grant] = file.gen + 1]
    /\ UNCHANGED <<file, service, cycle, ghosts, bounds>>

\* A variant that caches the token before it saves the new refresh token.
TokenAcceptedCachingFirst(t) ==
    /\ t \in {"engine", "admin"} /\ pc[t] = "answer" /\ answer.result = "ok"
    /\ cached' = [grant |-> answer.grant, gen |-> answer.gen, fresh |-> TRUE]
    /\ \E o \in IF answer.gen = file.gen
                 THEN {[file |-> file, raised |-> FALSE]}
                 ELSE SaveOutcomes([status |-> "active", grant |-> file.grant,
                                    gen |-> answer.gen]) :
          /\ file' = o.file
          /\ IF o.raised
                THEN Abandon(t) /\ UNCHANGED session
                ELSE TokenReturned(t, answer.grant) /\ answer' = NoAnswer /\ UNCHANGED lock
    /\ torn' = FALSE
    /\ UNCHANGED <<pending, reauth, remote, todo, lockCtx, rejected, retained, mixed, bounds>>

\* The token is cached only after a replaced refresh token has been saved.
TokenAccepted(t) ==
    /\ t \in {"engine", "admin"} /\ pc[t] = "answer" /\ answer.result = "ok"
    /\ LET record == [status |-> "active", grant |-> file.grant, gen |-> answer.gen]
       IN  \E o \in IF answer.gen = file.gen
                       THEN {[file |-> file, raised |-> FALSE]}
                       ELSE SaveOutcomes(record) :
              /\ file' = o.file
              /\ IF o.raised
                    THEN Abandon(t) /\ Unrefreshed(o) /\ UNCHANGED session
                    ELSE /\ cached' = [grant |-> answer.grant, gen |-> answer.gen,
                                       fresh |-> TRUE]
                         /\ torn' = FALSE
                         /\ TokenReturned(t, answer.grant)
                         /\ answer' = NoAnswer
                         /\ UNCHANGED lock
    /\ UNCHANGED <<pending, reauth, remote, todo, lockCtx, rejected, retained, mixed, bounds>>

\* A variant that treats invalid_grant as any other refusal of the endpoint.
GrantRejectedAsError(t) ==
    /\ t \in {"engine", "admin"} /\ pc[t] = "answer" /\ answer.result = "invalid_grant"
    /\ cached' = NoToken
    /\ rejected' = rejected \union {<<answer.grant, answer.gen>>}
    /\ torn' = FALSE
    /\ Abandon(t)
    /\ UNCHANGED <<file, pending, reauth, remote, cycle, lockCtx, retained, mixed, bounds>>

\* invalid_grant: the token is forgotten, the flag raised, the file marked.
GrantRejected(t) ==
    /\ t \in {"engine", "admin"} /\ pc[t] = "answer" /\ answer.result = "invalid_grant"
    /\ cached' = NoToken
    /\ reauth' = TRUE
    /\ rejected' = rejected \union {<<answer.grant, answer.gen>>}
    /\ \E o \in MarkOutcomes(file) :
          file' = o.file /\ retained' = (retained \/ o.stuck)
    /\ torn' = FALSE
    /\ Abandon(t)
    /\ UNCHANGED <<pending, remote, cycle, lockCtx, mixed, bounds>>

-----------------------------------------------------------------------------
(***************************************************************************)
(* The engine cycle.                                                       *)
(***************************************************************************)

CycleStarts ==
    /\ pc.engine = "idle"
    /\ Goto("engine", "request")
    /\ todo' = Playlists
    /\ session' = NoSession
    /\ UNCHANGED <<file, service, remote, lock, answer, ghosts, bounds>>

\* acquire_provider_session reads the context before it leaves the lock.
SessionBound ==
    /\ pc.engine = "token"
    /\ lock' = ReleaseAll("engine")
    /\ IF ContextOf(file) = 0
          THEN Goto("engine", "idle") /\ UNCHANGED <<session, mixed>>
          ELSE /\ session' = [session EXCEPT !.ctx = ContextOf(file)]
               /\ mixed' = torn
               /\ Goto("engine", "run")
    /\ UNCHANGED <<file, service, remote, answer, todo, lockCtx, rejected, retained, torn, bounds>>

ContextMatches == lock.auth = Nobody /\ ContextOf(file) = session.ctx
ContextDiffers == lock.auth = Nobody /\ ContextOf(file) # session.ctx

\* _provider_mutation_guard refuses the write, before the configuration lock
\* or inside it; the destination is preserved and the cycle goes on.
WriteRefused ==
    /\ pc.engine \in {"run", "recheck"} /\ todo > 0
    /\ ContextDiffers
    /\ todo' = todo - 1
    /\ Goto("engine", "run")
    /\ lock' = ReleaseAll("engine")
    /\ UNCHANGED <<file, service, remote, answer, session, ghosts, bounds>>

GuardEntered ==
    /\ pc.engine = "run" /\ todo > 0
    /\ ContextMatches
    /\ Goto("engine", "config")
    /\ UNCHANGED <<file, service, remote, lock, answer, cycle, ghosts, bounds>>

TakeConfigLock ==
    /\ pc.engine = "config" /\ lock.config = Nobody
    /\ lock' = [lock EXCEPT !.config = "engine"]
    /\ Goto("engine", "recheck")
    /\ lockCtx' = ContextOf(file)
    /\ UNCHANGED <<file, service, remote, answer, cycle, rejected, retained, torn, mixed, bounds>>

\* A variant without the second comparison, under the configuration lock.
GuardPassedUnchecked ==
    /\ pc.engine = "recheck"
    /\ Goto("engine", "write")
    /\ UNCHANGED <<file, service, remote, lock, answer, cycle, ghosts, bounds>>

GuardPassed ==
    /\ pc.engine = "recheck" /\ ContextMatches
    /\ Goto("engine", "write")
    /\ UNCHANGED <<file, service, remote, lock, answer, cycle, ghosts, bounds>>

\* The client takes the request lock and sends the write with the session's
\* token; the authorization lock is not held.
WriteSent ==
    /\ pc.engine = "write" /\ lock.request = Nobody
    /\ lock' = [lock EXCEPT !.request = "engine"]
    /\ Goto("engine", "writing")
    /\ UNCHANGED <<file, service, remote, answer, cycle, ghosts, bounds>>

WriteDone ==
    /\ pc.engine = "writing"
    /\ todo' = todo - 1
    /\ lock' = ReleaseAll("engine")
    /\ Goto("engine", "run")
    /\ UNCHANGED <<file, service, remote, answer, session, ghosts, bounds>>

CycleEnds ==
    /\ pc.engine = "run" /\ todo = 0
    /\ Goto("engine", "idle")
    /\ session' = NoSession
    /\ UNCHANGED <<file, service, remote, lock, answer, todo, ghosts, bounds>>

-----------------------------------------------------------------------------
(***************************************************************************)
(* The administrator's operations: under the configuration lock (create,   *)
(* synchronise, adopt) or without it (inspecting a show).                  *)
(***************************************************************************)

AdminStarts ==
    /\ pc.admin = "idle" /\ bounds.requests < MaxRequests
    /\ bounds' = [bounds EXCEPT !.requests = @ + 1]
    /\ \/ lock.config = Nobody /\ lock' = [lock EXCEPT !.config = "admin"]
       \/ UNCHANGED lock
    /\ Goto("admin", "request")
    /\ UNCHANGED <<file, service, remote, answer, cycle, ghosts>>

\* A variant that keeps the configuration lock.
AdminDoneKeepingLock ==
    /\ pc.admin = "token"
    /\ Goto("admin", "idle")
    /\ lock' = [ReleaseAll("admin") EXCEPT !.config = lock.config]
    /\ UNCHANGED <<file, service, remote, answer, cycle, ghosts, bounds>>

AdminDone ==
    /\ pc.admin = "token"
    /\ Abandon("admin")
    /\ UNCHANGED <<file, service, remote, cycle, ghosts, bounds>>

-----------------------------------------------------------------------------
(***************************************************************************)
(* The web server, under the authorization lock.                           *)
(***************************************************************************)

\* start_authorization replaces a request that is still pending.
AuthorizationStarts ==
    /\ pc.web = "idle" /\ lock.auth = Nobody /\ bounds.starts < MaxStarts
    /\ pending' = [state |-> bounds.starts + 1, expired |-> FALSE]
    /\ bounds' = [bounds EXCEPT !.starts = @ + 1]
    /\ UNCHANGED <<file, cached, reauth, remote, lock, pc, answer, cycle, ghosts>>

\* complete_callback refuses an expired request, or one that answers an older
\* tab, or a callback in which the user denied access.
CallbackRefused ==
    /\ pc.web = "idle" /\ lock.auth = Nobody
    /\ \E state \in 1..bounds.starts, denied \in BOOLEAN :
          /\ pending.expired \/ state # pending.state \/ denied
          /\ pending' = IF pending.expired \/ state = pending.state THEN NoPending ELSE pending
    /\ UNCHANGED <<file, cached, reauth, remote, lock, pc, answer, cycle, ghosts, bounds>>

CallbackAccepted ==
    /\ pc.web = "idle" /\ lock.auth = Nobody
    /\ pending.state # 0 /\ ~pending.expired
    /\ pending' = NoPending
    /\ lock' = [lock EXCEPT !.auth = "web"]
    /\ Goto("web", "exchange")
    /\ UNCHANGED <<file, cached, reauth, remote, answer, cycle, ghosts, bounds>>

\* The code is exchanged for a new grant, or the exchange fails.
CodeExchanged ==
    /\ pc.web = "exchange" /\ bounds.grants < MaxGrants
    /\ LET g == bounds.grants + 1
       IN  /\ bounds' = [bounds EXCEPT !.grants = g]
           /\ remote' = [remote EXCEPT ![g] = 1]
           /\ answer' = [result |-> "ok", grant |-> g, gen |-> 1]
    /\ Goto("web", "answer")
    /\ UNCHANGED <<file, service, lock, cycle, ghosts>>

ExchangeFailed ==
    /\ pc.web = "exchange"
    /\ Abandon("web")
    /\ UNCHANGED <<file, service, remote, cycle, ghosts, bounds>>

\* The credential is saved first; only then the flag and the cache change.
GrantSaved ==
    /\ pc.web = "answer"
    /\ \E o \in SaveOutcomes([status |-> "active", grant |-> answer.grant, gen |-> answer.gen]) :
          /\ file' = o.file
          /\ IF o.raised
                THEN Unrefreshed(o) /\ UNCHANGED reauth
                ELSE /\ reauth' = FALSE
                     /\ cached' = [grant |-> answer.grant, gen |-> answer.gen, fresh |-> TRUE]
                     /\ torn' = FALSE
    /\ Abandon("web")
    /\ UNCHANGED <<pending, remote, cycle, lockCtx, rejected, retained, mixed, bounds>>

-----------------------------------------------------------------------------
(***************************************************************************)
(* Time, Spotify and the process.                                          *)
(***************************************************************************)

\* The access token comes within a minute of its expiry.
TokenExpires ==
    /\ cached.fresh
    /\ cached' = [cached EXCEPT !.fresh = FALSE]
    /\ UNCHANGED <<file, pending, reauth, remote, lock, pc, answer, cycle, ghosts, bounds>>

PendingExpires ==
    /\ pending.state # 0 /\ ~pending.expired
    /\ pending' = [pending EXCEPT !.expired = TRUE]
    /\ UNCHANGED <<file, cached, reauth, remote, lock, pc, answer, cycle, ghosts, bounds>>

\* The user, or Spotify, revokes a grant.
Revoked ==
    /\ \E g \in Grants : remote[g] # 0 /\ remote' = [remote EXCEPT ![g] = 0]
    /\ UNCHANGED <<file, service, lock, pc, answer, cycle, ghosts, bounds>>

\* The process dies and starts again: only the file survives.
Restart ==
    /\ bounds.crashes < MaxCrashes
    /\ bounds' = [bounds EXCEPT !.crashes = @ + 1]
    /\ pending' = NoPending /\ cached' = NoToken /\ reauth' = FALSE
    /\ lock' = [auth |-> Nobody, request |-> Nobody, config |-> Nobody]
    /\ pc' = [engine |-> "idle", admin |-> "idle", web |-> "idle"]
    /\ answer' = NoAnswer /\ session' = NoSession /\ todo' = 0 /\ lockCtx' = 0
    /\ torn' = FALSE /\ mixed' = FALSE
    /\ UNCHANGED <<file, remote, rejected, retained>>

-----------------------------------------------------------------------------
GetAccessToken(t) ==
    \/ TakeRequestLock(t) \/ CooldownRefuses(t) \/ TokenRefused(t) \/ TokenFromCache(t)
    \/ RefreshRequested(t) \/ RefreshAnswered(t) \/ RefreshFailed(t)
    \/ TokenAccepted(t) \/ GrantRejected(t)

EngineStep ==
    \/ CycleStarts \/ SessionBound \/ WriteRefused \/ GuardEntered \/ TakeConfigLock
    \/ GuardPassed \/ WriteSent \/ WriteDone \/ CycleEnds

WebStep ==
    \/ AuthorizationStarts \/ CallbackRefused \/ CallbackAccepted
    \/ CodeExchanged \/ ExchangeFailed \/ GrantSaved

Environment == TokenExpires \/ PendingExpires \/ Revoked \/ Restart

Next ==
    \/ \E t \in {"engine", "admin"} : GetAccessToken(t)
    \/ EngineStep \/ AdminStarts \/ AdminDone \/ WebStep \/ Environment

Spec == Init /\ [][Next]_vars

\* Threads run on.  The engine takes the request lock again and again, so the
\* administrator needs strong fairness for it; a cooldown is over at some time,
\* and Spotify answers at some time a refresh that is asked again and again.
TokenStep(t) == TokenRefused(t) \/ TokenFromCache(t) \/ RefreshRequested(t)

Fairness ==
    /\ WF_vars(EngineStep) /\ WF_vars(AdminDone)
    /\ WF_vars(ExchangeFailed \/ GrantSaved)
    /\ WF_vars(TakeRequestLock("engine")) /\ SF_vars(TakeRequestLock("admin"))
    /\ SF_vars(TokenStep("engine")) /\ WF_vars(TokenStep("admin"))
    /\ SF_vars(RefreshAnswered("engine"))
    /\ \A t \in {"engine", "admin"} :
          WF_vars(RefreshFailed(t) \/ TokenAccepted(t) \/ GrantRejected(t))

FairSpec == Spec /\ Fairness

-----------------------------------------------------------------------------
(***************************************************************************)
(* Properties.                                                             *)
(***************************************************************************)

\* A session's access token belongs to the grant its context names: what the
\* engine writes under a context is written with that account's token, as
\* engine_runtime.py:200 says.
SessionTruthful == session.ctx # 0 => session.grant = session.ctx

\* However saves fail, a session names another account only if it was bound to
\* a token that a save which replaced the file and then raised has left in the
\* cache (auth.py:459-464 leaves before the cache is replaced): re-authorization,
\* refreshing and restarts never do that.
SessionBinding == session.ctx # 0 /\ ~mixed => session.grant = session.ctx

\* A cached token is backed by the file: the refresh token that came with it
\* has been saved, so that a restart loses nothing but the token itself.  Only
\* such a save lets the two differ, and until the next token at the latest.
CacheDurable ==
    cached # NoToken /\ ~torn =>
        file = [status |-> "active", grant |-> cached.grant, gen |-> cached.gen]

\* A write never goes out for a grant that was replaced or rejected before the
\* engine took the configuration lock for it: at most the one write that is
\* past its last check can be stale.
GuardedWrite == pc.engine \in {"write", "writing"} => lockCtx = session.ctx

\* A refresh token known to be invalid stays in the file only when it could be
\* neither overwritten nor removed.
DeadCredentialDropped ==
    file.status = "active" /\ <<file.grant, file.gen>> \in rejected => retained

\* The administration page never says "connected" forever while the engine gets
\* no token: a connection either works or is shown to need authorization.
ConnectedWorks ==
    AuthorizationState = "connected" ~>
        (pc.engine = "run" \/ AuthorizationState # "connected")

\* Every cycle ends: the three locks are never waited for in a circle.
EveryCycleEnds == pc.engine # "idle" ~> pc.engine = "idle"

=============================================================================
