------------------------ MODULE Authorization_proofs ------------------------
(***************************************************************************)
(* For any number of grants, refresh tokens, requests and restarts.        *)
(*                                                                         *)
(* The authorization lock is what everything rests on: whoever asked       *)
(* Spotify for a token, or exchanges a code, holds it (Owners), so the     *)
(* file an answer is applied to is the file that was asked about           *)
(* (AnswersFit).  A new grant is newer than everything that names one      *)
(* (Dated): no context and no rejected token ever comes back.              *)
(***************************************************************************)
EXTENDS Authorization, Integers, TLAPS

Callers == {"engine", "admin"}

\* Inside the authorization lock.
Owners ==
    /\ \A t \in Callers : pc[t] \in {"refresh", "answer", "token"} => lock.auth = t
    /\ pc.web \in {"exchange", "answer"} => lock.auth = "web"

\* An answer is about the grant in the file, of its refresh token or the next.
AnswersFit ==
    /\ \A t \in Callers : pc[t] = "refresh" => file.status = "active"
    /\ \A t \in Callers : pc[t] = "answer" =>
          /\ file.status = "active" /\ answer.grant = file.grant
          /\ answer.gen = file.gen \/ (answer.result = "ok" /\ answer.gen = file.gen + 1)
    /\ pc.web = "answer" => answer.grant = bounds.grants /\ answer.gen = 1

\* The newest grant that anything but the callback in progress can name.
Known == IF pc.web = "answer" THEN bounds.grants - 1 ELSE bounds.grants

Dated ==
    /\ file.grant <= Known /\ session.ctx <= Known
    /\ \A r \in rejected : r[1] <= Known
    /\ pc.web = "answer" => bounds.grants # 0

\* The refresh tokens of the grant in the file that were rejected are not newer.
RejectedAreOld ==
    \A r \in rejected : file.status = "active" /\ r[1] = file.grant => r[2] <= file.gen

\* A session with a context writes; while it waits for the second comparison the
\* context may have gone, but it cannot have come.
Guarded ==
    /\ pc.engine \in {"run", "config", "recheck", "write", "writing"} => session.ctx # 0
    /\ pc.engine \in {"config", "recheck", "write", "writing"} => todo # 0
    /\ pc.engine = "recheck" /\ ContextOf(file) = session.ctx => lockCtx = session.ctx
    /\ GuardedWrite

IInv ==
    /\ TypeOK /\ Owners /\ AnswersFit /\ Dated
    /\ RejectedAreOld /\ DeadCredentialDropped /\ Guarded

-----------------------------------------------------------------------------
PcTypes == [engine : EnginePcs, admin : AdminPcs, web : WebPcs]
LockTypes == [auth : Threads \union {Nobody}, request : {"engine", "admin", Nobody},
              config : {"engine", "admin", Nobody}]

\* A thread moves alone.
LEMMA Moved ==
    ASSUME pc \in PcTypes, NEW t \in Threads, NEW label, Goto(t, label)
    PROVE  /\ pc'.engine = IF t = "engine" THEN label ELSE pc.engine
           /\ pc'.admin = IF t = "admin" THEN label ELSE pc.admin
           /\ pc'.web = IF t = "web" THEN label ELSE pc.web
<1>1. CASE t = "engine"
  BY <1>1 DEF PcTypes, Goto
<1>2. CASE t = "admin"
  BY <1>2 DEF PcTypes, Goto
<1>3. CASE t = "web"
  BY <1>3 DEF PcTypes, Goto
<1>4. QED
  BY <1>1, <1>2, <1>3 DEF Threads

LEMMA MovedTypes ==
    ASSUME pc \in PcTypes,
           NEW t \in Threads, NEW label, Goto(t, label),
           t = "engine" => label \in EnginePcs,
           t = "admin" => label \in AdminPcs,
           t = "web" => label \in WebPcs
    PROVE  pc' \in PcTypes
<1>1. CASE t = "engine"
  BY <1>1 DEF PcTypes, Goto
<1>2. CASE t = "admin"
  BY <1>2 DEF PcTypes, Goto
<1>3. CASE t = "web"
  BY <1>3 DEF PcTypes, Goto
<1>4. QED
  BY <1>1, <1>2, <1>3 DEF Threads

\* Leaving the locks of a thread.
LEMMA Released ==
    ASSUME lock \in LockTypes, NEW t \in Threads
    PROVE  /\ ReleaseAll(t) \in LockTypes
           /\ ReleaseAll(t).auth = IF lock.auth = t THEN Nobody ELSE lock.auth
BY DEF LockTypes, ReleaseAll, Threads, Nobody

LEMMA AbandonTypes ==
    ASSUME TypeOK, NEW t \in Threads, Abandon(t)
    PROVE  /\ pc' \in PcTypes /\ lock' \in LockTypes
           /\ answer' \in [result : Results, grant : 0..MaxGrants, gen : 0..MaxGen]
<1>1. pc' \in PcTypes
  <2>1. Goto(t, "idle")
    BY DEF Abandon
  <2>2. QED
    BY <2>1, MovedTypes DEF TypeOK, PcTypes, EnginePcs, AdminPcs, WebPcs
<1>2. lock' \in LockTypes
  BY Released DEF Abandon, TypeOK, LockTypes
<1>3. answer' \in [result : Results, grant : 0..MaxGrants, gen : 0..MaxGen]
  BY BoundsAssumption DEF Abandon, TypeOK, NoAnswer, Results
<1>4. QED
  BY <1>1, <1>2, <1>3

\* What a save or the marking of a rejected credential can leave.
LEMMA SaveLeaves ==
    ASSUME NEW record, NEW o \in SaveOutcomes(record)
    PROVE  /\ o.file \in {file, record} /\ o.raised \in BOOLEAN
           /\ ~o.raised => o.file = record
<1>1. \/ o = [file |-> record, raised |-> FALSE]
      \/ o = [file |-> file, raised |-> TRUE]
      \/ o = [file |-> record, raised |-> TRUE]
  BY DEF SaveOutcomes
<1>2. CASE o = [file |-> record, raised |-> FALSE]
  <2>1. o.raised = FALSE /\ o.file = record
    BY <1>2
  <2>2. QED
    BY <2>1, Zenon
<1>3. CASE o = [file |-> file, raised |-> TRUE]
  <2>1. o.raised = TRUE /\ o.file = file
    BY <1>3
  <2>2. QED
    BY <2>1, Zenon
<1>4. CASE o = [file |-> record, raised |-> TRUE]
  <2>1. o.raised = TRUE /\ o.file = record
    BY <1>4
  <2>2. QED
    BY <1>4, <2>1, Zenon
<1>5. QED
  BY <1>1, <1>2, <1>3, <1>4, Zenon

Marker == [status |-> "reauth_required", grant |-> file.grant, gen |-> 0]

LEMMA MarkLeaves ==
    ASSUME NEW o \in MarkOutcomes(file)
    PROVE  /\ o.file \in {file, Marker, NoFile} /\ o.stuck \in BOOLEAN
           /\ o.stuck \/ o.file \in {Marker, NoFile}
<1>1. PICK s \in SaveOutcomes(Marker) :
         o \in IF s.raised THEN {[file |-> NoFile, stuck |-> FALSE], [file |-> s.file, stuck |-> TRUE]}
                           ELSE {[file |-> s.file, stuck |-> FALSE]}
  BY DEF MarkOutcomes, Marker
<1>2. s.file \in {file, Marker} /\ (~s.raised => s.file = Marker)
  BY SaveLeaves
<1>3. \/ o = [file |-> NoFile, stuck |-> FALSE] \/ o = [file |-> s.file, stuck |-> TRUE]
      \/ ~s.raised /\ o = [file |-> s.file, stuck |-> FALSE]
  BY <1>1
<1>4. CASE o = [file |-> NoFile, stuck |-> FALSE]
  <2>1. o.stuck = FALSE /\ o.file = NoFile
    BY <1>4
  <2>2. QED
    BY <2>1, Zenon
<1>5. CASE o = [file |-> s.file, stuck |-> TRUE]
  <2>1. o.stuck = TRUE /\ o.file = s.file
    BY <1>5
  <2>2. QED
    BY <1>2, <2>1, Zenon
<1>6. CASE ~s.raised /\ o = [file |-> s.file, stuck |-> FALSE]
  <2>1. o.stuck = FALSE /\ o.file = s.file
    BY <1>6
  <2>2. QED
    BY <1>2, <1>6, <2>1, Zenon
<1>7. QED
  BY <1>3, <1>4, <1>5, <1>6, Zenon

-----------------------------------------------------------------------------
(***************************************************************************)
(* A step outside the region of the authorization lock, or out of it, that *)
(* leaves the credential alone.                                            *)
(***************************************************************************)
LEMMA CredentialAlone ==
    ASSUME IInv, NEW t \in Threads, NEW label, Goto(t, label),
           label \notin {"refresh", "answer", "token", "exchange"},
           \A u \in Threads : u # t /\ lock.auth = u => lock'.auth = u,
           answer' = answer \/ lock.auth = t,
           UNCHANGED <<file, rejected, retained>>, bounds'.grants = bounds.grants,
           session'.ctx \in {0, session.ctx, ContextOf(file)}
    PROVE  Owners' /\ AnswersFit' /\ Dated' /\ RejectedAreOld' /\ DeadCredentialDropped'
<1>1. /\ pc'.engine = IF t = "engine" THEN label ELSE pc.engine
      /\ pc'.admin = IF t = "admin" THEN label ELSE pc.admin
      /\ pc'.web = IF t = "web" THEN label ELSE pc.web
  BY Moved DEF IInv, TypeOK, PcTypes
<1>2. Owners'
  BY <1>1 DEF IInv, Owners, Threads, Callers
<1>3. AnswersFit'
  BY <1>1 DEF IInv, Owners, AnswersFit, Threads, Callers
<1>4. Dated'
  <2>1. file.grant \in Nat /\ bounds.grants \in Nat /\ session.ctx \in Nat
    BY BoundsAssumption DEF IInv, TypeOK, CredentialFiles, NoFile, Grants
  <2>2. \A r \in rejected : r[1] \in Nat
    BY BoundsAssumption DEF IInv, TypeOK, Grants
  <2>3. Known <= Known' /\ Known \in Int /\ Known' \in Int
    BY <1>1, <2>1 DEF Known
  <2>4. session'.ctx \in Nat /\ (session'.ctx <= session.ctx \/ session'.ctx <= file.grant)
    BY <2>1 DEF ContextOf
  <2>5. QED
    BY <1>1, <2>1, <2>2, <2>3, <2>4 DEF IInv, Dated
<1>5. RejectedAreOld' /\ DeadCredentialDropped'
  BY DEF IInv, RejectedAreOld, DeadCredentialDropped
<1>6. QED
  BY <1>2, <1>3, <1>4, <1>5

\* Nothing a write of the engine depends on changes.
LEMMA EngineAlone ==
    ASSUME IInv, UNCHANGED <<session, todo, lockCtx>>, pc'.engine = pc.engine,
           ContextOf(file)' \in {0, ContextOf(file)}
    PROVE  Guarded'
BY DEF IInv, Guarded, GuardedWrite

\* An operation is abandoned, or over, without a change of the credential.
LEMMA AbandonKeeps ==
    ASSUME IInv, TypeOK', NEW t \in Threads, Abandon(t),
           UNCHANGED <<file, rejected, retained, session, todo, lockCtx, bounds>>
    PROVE  IInv'
<1>1. Goto(t, "idle")
  BY DEF Abandon
<1>2. lock'.auth = IF lock.auth = t THEN Nobody ELSE lock.auth
  BY Released DEF Abandon, IInv, TypeOK, LockTypes
<1>3. Owners' /\ AnswersFit' /\ Dated' /\ RejectedAreOld' /\ DeadCredentialDropped'
  BY <1>1, <1>2, CredentialAlone DEF Abandon
<1>4. Guarded'
  <2>1. pc'.engine = IF t = "engine" THEN "idle" ELSE pc.engine
    BY <1>1, Moved DEF IInv, TypeOK, PcTypes
  <2>2. CASE t = "engine"
    BY <2>1, <2>2 DEF Guarded, GuardedWrite
  <2>3. CASE t # "engine"
    BY <2>1, <2>3, EngineAlone DEF ContextOf
  <2>4. QED
    BY <2>2, <2>3
<1>5. QED
  BY <1>3, <1>4 DEF IInv

-----------------------------------------------------------------------------
(* get_access_token *)

LEMMA TakeRequestLockKeeps ==
    ASSUME IInv, NEW t \in Callers, TakeRequestLock(t) PROVE IInv'
<1>1. Goto(t, "auth") /\ t \in Threads
  BY DEF TakeRequestLock, Callers, Threads
<1>2. pc' \in PcTypes
  BY <1>1, MovedTypes DEF IInv, TypeOK, PcTypes, EnginePcs, AdminPcs, Callers
<1>3. lock' \in LockTypes /\ lock'.auth = lock.auth
  BY DEF TakeRequestLock, IInv, TypeOK, LockTypes, Threads, Callers
<1>4. /\ pc'.engine = IF t = "engine" THEN "auth" ELSE pc.engine
      /\ pc'.admin = IF t = "admin" THEN "auth" ELSE pc.admin
      /\ pc'.web = pc.web
  BY <1>1, Moved DEF IInv, TypeOK, PcTypes, Callers
<1>5. TypeOK'
  BY <1>2, <1>3 DEF TakeRequestLock, IInv, TypeOK, PcTypes, LockTypes, service, cycle, ghosts
<1>6. Owners' /\ AnswersFit' /\ Dated' /\ RejectedAreOld' /\ DeadCredentialDropped'
  BY <1>1, <1>3, CredentialAlone DEF TakeRequestLock, service, cycle, ghosts
<1>7. Guarded'
  BY <1>4 DEF TakeRequestLock, IInv, Guarded, GuardedWrite, ContextOf, cycle, ghosts
<1>8. QED
  BY <1>5, <1>6, <1>7 DEF IInv

LEMMA CooldownRefusesKeeps ==
    ASSUME IInv, NEW t \in Callers, CooldownRefuses(t) PROVE IInv'
<1>1. t \in Threads /\ Abandon(t)
  BY DEF CooldownRefuses, Callers, Threads
<1>2. TypeOK'
  BY <1>1, AbandonTypes DEF CooldownRefuses, IInv, TypeOK, PcTypes, LockTypes, service, cycle, ghosts
<1>3. QED
  BY <1>1, <1>2, AbandonKeeps DEF CooldownRefuses, cycle, ghosts

LEMMA TokenRefusedKeeps ==
    ASSUME IInv, NEW t \in Callers, TokenRefused(t) PROVE IInv'
<1>1. t \in Threads /\ Abandon(t)
  BY DEF TokenRefused, Callers, Threads
<1>2. cached' \in [grant : 0..MaxGrants, gen : 0..MaxGen, fresh : BOOLEAN]
  BY BoundsAssumption DEF TokenRefused, IInv, TypeOK, NoToken
<1>3. TypeOK'
  BY <1>1, <1>2, AbandonTypes DEF TokenRefused, IInv, TypeOK, PcTypes, LockTypes, cycle, ghosts
<1>4. QED
  BY <1>1, <1>3, AbandonKeeps DEF TokenRefused, cycle, ghosts

LEMMA RefreshFailedKeeps ==
    ASSUME IInv, NEW t \in Callers, RefreshFailed(t) PROVE IInv'
<1>1. t \in Threads /\ Abandon(t)
  BY DEF RefreshFailed, Callers, Threads
<1>2. remote' \in [Grants -> 0..MaxGen]
  <2>1. file.gen \in Nat
    BY BoundsAssumption DEF IInv, TypeOK, CredentialFiles, NoFile
  <2>2. QED
    BY <2>1, BoundsAssumption DEF RefreshFailed, IInv, TypeOK
<1>3. TypeOK'
  BY <1>1, <1>2, AbandonTypes DEF RefreshFailed, IInv, TypeOK, PcTypes, LockTypes, service, cycle, ghosts
<1>4. QED
  BY <1>1, <1>3, AbandonKeeps DEF RefreshFailed, cycle, ghosts

\* A caller enters the region of the authorization lock or moves on inside it.
LEMMA InsideLock ==
    ASSUME IInv, NEW t \in Callers, NEW label \in {"refresh", "answer", "token"}, Goto(t, label),
           lock.auth \in {Nobody, t}, lock'.auth = t,
           UNCHANGED <<file, rejected, retained, bounds>>,
           session'.ctx \in {0, session.ctx}, t = "admin" => UNCHANGED session, UNCHANGED <<todo, lockCtx>>,
           label = "refresh" => file.status = "active",
           label = "answer" =>
              /\ file.status = "active" /\ answer'.grant = file.grant
              /\ answer'.gen = file.gen \/ (answer'.result = "ok" /\ answer'.gen = file.gen + 1)
    PROVE  /\ Owners' /\ AnswersFit' /\ Dated' /\ RejectedAreOld' /\ DeadCredentialDropped'
           /\ Guarded'
<1>1. /\ pc'.engine = IF t = "engine" THEN label ELSE pc.engine
      /\ pc'.admin = IF t = "admin" THEN label ELSE pc.admin
      /\ pc'.web = pc.web
  BY Moved DEF IInv, TypeOK, PcTypes, Callers, Threads
<1>2. Owners'
  BY <1>1 DEF IInv, Owners, Callers, Nobody
<1>3. AnswersFit'
  BY <1>1 DEF IInv, Owners, AnswersFit, Callers, Nobody
<1>4. Dated'
  BY <1>1 DEF IInv, Dated, Known, TypeOK, Owners, Callers, Nobody
<1>5. RejectedAreOld' /\ DeadCredentialDropped'
  BY DEF IInv, RejectedAreOld, DeadCredentialDropped
<1>6. Guarded'
  <2>1. CASE t = "engine"
    BY <1>1, <2>1 DEF Guarded, GuardedWrite
  <2>2. CASE t # "engine"
    BY <1>1, <2>2, EngineAlone DEF Callers, ContextOf
  <2>3. QED
    BY <2>1, <2>2
<1>7. QED
  BY <1>2, <1>3, <1>4, <1>5, <1>6

LEMMA TokenFromCacheKeeps ==
    ASSUME IInv, NEW t \in Callers, TokenFromCache(t) PROVE IInv'
<1>1. Goto(t, "token") /\ t \in Threads /\ t # Nobody
  BY DEF TokenFromCache, TokenReturned, Callers, Threads, Nobody
<1>2. pc' \in PcTypes
  BY <1>1, MovedTypes DEF IInv, TypeOK, PcTypes, EnginePcs, AdminPcs, Callers
<1>3. lock' \in LockTypes /\ lock'.auth = t
  BY <1>1 DEF TokenFromCache, IInv, TypeOK, LockTypes
<1>4. session' \in [grant : 0..MaxGrants, ctx : 0..MaxGrants] /\ session'.ctx \in {0, session.ctx}
      /\ (t = "admin" => session' = session)
  BY BoundsAssumption DEF TokenFromCache, TokenReturned, IInv, TypeOK
<1>5. TypeOK'
  BY <1>2, <1>3, <1>4
     DEF TokenFromCache, IInv, TypeOK, PcTypes, LockTypes, service, ghosts
<1>6. Owners' /\ AnswersFit' /\ Dated' /\ RejectedAreOld' /\ DeadCredentialDropped' /\ Guarded'
  BY <1>1, <1>3, <1>4, InsideLock DEF TokenFromCache, TakeAuthLock, ghosts
<1>7. QED
  BY <1>5, <1>6 DEF IInv

LEMMA RefreshRequestedKeeps ==
    ASSUME IInv, NEW t \in Callers, RefreshRequested(t) PROVE IInv'
<1>1. Goto(t, "refresh") /\ t \in Threads
  BY DEF RefreshRequested, Callers, Threads
<1>2. pc' \in PcTypes
  BY <1>1, MovedTypes DEF IInv, TypeOK, PcTypes, EnginePcs, AdminPcs, Callers
<1>3. lock' \in LockTypes /\ lock'.auth = t
  BY <1>1 DEF RefreshRequested, IInv, TypeOK, LockTypes
<1>4. TypeOK'
  BY <1>2, <1>3
     DEF RefreshRequested, IInv, TypeOK, PcTypes, LockTypes, service, cycle, ghosts
<1>5. Owners' /\ AnswersFit' /\ Dated' /\ RejectedAreOld' /\ DeadCredentialDropped' /\ Guarded'
  BY <1>1, <1>3, InsideLock DEF RefreshRequested, TakeAuthLock, cycle, ghosts
<1>6. QED
  BY <1>4, <1>5 DEF IInv

LEMMA RefreshAnsweredKeeps ==
    ASSUME IInv, NEW t \in Callers, RefreshAnswered(t) PROVE IInv'
<1>1. Goto(t, "answer") /\ t \in Threads
  BY DEF RefreshAnswered, Callers, Threads
<1>2. pc' \in PcTypes
  BY <1>1, MovedTypes DEF IInv, TypeOK, PcTypes, EnginePcs, AdminPcs, Callers
<1>3. file.status = "active" /\ lock.auth = t
  BY DEF RefreshAnswered, IInv, AnswersFit, Owners
<1>4. file.grant \in Grants /\ file.gen \in 1..MaxGen
  BY <1>3 DEF IInv, TypeOK, CredentialFiles, NoFile
<1>5. /\ remote' \in [Grants -> 0..MaxGen]
      /\ answer' \in [result : Results, grant : 0..MaxGrants, gen : 0..MaxGen]
      /\ answer'.grant = file.grant
      /\ answer'.gen = file.gen \/ (answer'.result = "ok" /\ answer'.gen = file.gen + 1)
  <2>1. CASE remote[file.grant] = file.gen
    <3>1. PICK gen \in {file.gen} \union ({file.gen + 1} \intersect (1..MaxGen)) :
             /\ remote' = [remote EXCEPT ![file.grant] = gen]
             /\ answer' = [result |-> "ok", grant |-> file.grant, gen |-> gen]
      BY <2>1 DEF RefreshAnswered
    <3>2. gen \in 0..MaxGen
      BY <1>4, BoundsAssumption
    <3>3. remote' \in [Grants -> 0..MaxGen]
      BY <3>1, <3>2 DEF IInv, TypeOK
    <3>4. QED
      BY <1>4, <3>1, <3>2, <3>3, BoundsAssumption DEF Results, Grants
  <2>2. CASE remote[file.grant] # file.gen
    <3>1. /\ answer' = [result |-> "invalid_grant", grant |-> file.grant, gen |-> file.gen]
          /\ UNCHANGED remote
      BY <2>2 DEF RefreshAnswered
    <3>2. answer' \in [result : Results, grant : 0..MaxGrants, gen : 0..MaxGen]
      BY <1>4, <3>1, BoundsAssumption DEF Results, Grants
    <3>3. QED
      BY <3>1, <3>2 DEF IInv, TypeOK
  <2>3. QED
    BY <2>1, <2>2
<1>6. TypeOK'
  BY <1>2, <1>5 DEF RefreshAnswered, IInv, TypeOK, PcTypes, service, cycle, ghosts
<1>7. Owners' /\ AnswersFit' /\ Dated' /\ RejectedAreOld' /\ DeadCredentialDropped' /\ Guarded'
  BY <1>1, <1>3, <1>5, InsideLock DEF RefreshAnswered, cycle, ghosts
<1>8. QED
  BY <1>6, <1>7 DEF IInv

\* An answer is applied to the credential it was asked about.
LEMMA AnswerApplied ==
    ASSUME IInv, NEW t \in Callers, pc[t] = "answer",
           NEW label \in {"idle", "token"}, Goto(t, label), label = "token" => lock'.auth = t,
           file'.grant \in {0, file.grant}, ContextOf(file)' \in {0, ContextOf(file)},
           rejected' \subseteq rejected \union {<<file.grant, file.gen>>},
           session'.ctx \in {0, session.ctx}, t = "admin" => UNCHANGED session,
           UNCHANGED <<bounds, todo, lockCtx>>
    PROVE  Owners' /\ AnswersFit' /\ Dated' /\ Guarded'
<1>1. /\ pc'.engine = IF t = "engine" THEN label ELSE pc.engine
      /\ pc'.admin = IF t = "admin" THEN label ELSE pc.admin
      /\ pc'.web = pc.web
  BY Moved DEF IInv, TypeOK, PcTypes, Callers, Threads
<1>2. lock.auth = t
  BY DEF IInv, Owners
<1>3. Owners' /\ AnswersFit'
  BY <1>1, <1>2 DEF IInv, Owners, AnswersFit, Callers
<1>4. Dated'
  <2>1. pc.web # "answer"
    BY <1>2 DEF IInv, Owners, Callers
  <2>2. file.grant \in Nat /\ bounds.grants \in Nat /\ session.ctx \in Nat
    BY BoundsAssumption DEF IInv, TypeOK, CredentialFiles, NoFile, Grants
  <2>3. \A r \in rejected' : r \in rejected \/ r[1] = file.grant
    OBVIOUS
  <2>4. QED
    BY <1>1, <2>1, <2>2, <2>3 DEF IInv, Dated, Known
<1>5. Guarded'
  <2>1. CASE t = "engine"
    BY <1>1, <2>1 DEF Guarded, GuardedWrite
  <2>2. CASE t # "engine"
    BY <1>1, <2>2, EngineAlone DEF Callers
  <2>3. QED
    BY <2>1, <2>2
<1>6. QED
  BY <1>3, <1>4, <1>5

\* The file keeps its grant and gets the refresh token of the answer, or none.
LEMMA TokenAcceptedLeaves ==
    ASSUME IInv, NEW t \in Callers, TokenAccepted(t)
    PROVE  \/ /\ Abandon(t) /\ UNCHANGED <<cached, session>>
              /\ file' \in {file, [status |-> "active", grant |-> file.grant, gen |-> answer.gen]}
              /\ torn' = (torn \/ (file' # file /\ cached # NoToken))
           \/ /\ TokenReturned(t, answer.grant) /\ UNCHANGED lock /\ answer' = NoAnswer
              /\ cached' = [grant |-> answer.grant, gen |-> answer.gen, fresh |-> TRUE]
              /\ torn' = FALSE
              /\ file' = [status |-> "active", grant |-> file.grant, gen |-> answer.gen]
<1> DEFINE record == [status |-> "active", grant |-> file.grant, gen |-> answer.gen]
           whole == [file |-> file, raised |-> FALSE]
<1>1. PICK o \in IF answer.gen = file.gen THEN {whole} ELSE SaveOutcomes(record) :
         /\ file' = o.file
         /\ IF o.raised
               THEN /\ Abandon(t) /\ UNCHANGED <<cached, session>>
                    /\ torn' = (torn \/ (o.file # file /\ cached # NoToken))
               ELSE /\ torn' = FALSE
                    /\ cached' = [grant |-> answer.grant, gen |-> answer.gen, fresh |-> TRUE]
                    /\ TokenReturned(t, answer.grant)
                    /\ answer' = NoAnswer
                    /\ UNCHANGED lock
  BY DEF TokenAccepted, Unrefreshed
<1>2. file.status = "active" /\ file \in CredentialFiles
  BY DEF TokenAccepted, IInv, AnswersFit, TypeOK
<1>3. CASE answer.gen = file.gen
  <2>1. o.raised = FALSE /\ o.file = file
    BY <1>1, <1>3
  <2>2. file = record
    BY <1>2, <1>3 DEF CredentialFiles, NoFile
  <2>3. QED
    BY <1>1, <2>1, <2>2, Zenon
<1>4. CASE answer.gen # file.gen
  <2>1. o \in SaveOutcomes(record)
    BY <1>1, <1>4
  <2>2. o.file \in {file, record} /\ (~o.raised => o.file = record)
    BY <2>1, SaveLeaves, Zenon
  <2>3. QED
    BY <1>1, <2>2, Zenon
<1>5. QED
  BY <1>3, <1>4

LEMMA TokenAcceptedKeeps ==
    ASSUME IInv, NEW t \in Callers, TokenAccepted(t) PROVE IInv'
<1> DEFINE record == [status |-> "active", grant |-> file.grant, gen |-> answer.gen]
<1>1. t \in Threads /\ t # Nobody /\ pc[t] = "answer" /\ lock.auth = t
  BY DEF TokenAccepted, Callers, Threads, Nobody, IInv, Owners
<1>2. /\ file.status = "active" /\ file.grant \in Grants /\ file.gen \in 1..MaxGen
      /\ answer.grant = file.grant /\ answer.gen \in 1..MaxGen /\ answer.gen >= file.gen
  BY <1>1, BoundsAssumption DEF IInv, AnswersFit, TypeOK, CredentialFiles, NoFile
<1>3. file' \in {file, record}
  BY TokenAcceptedLeaves
<1>4. /\ file' \in CredentialFiles /\ file'.status = "active" /\ file'.grant = file.grant
      /\ file'.gen >= file.gen /\ (file' # file => file'.gen = answer.gen)
  <2>1. CASE file' = file
    BY <1>2, <2>1, BoundsAssumption DEF IInv, TypeOK
  <2>2. CASE file' = record
    <3>1. record \in [status : {"active"}, grant : Grants, gen : 1..MaxGen]
      BY <1>2
    <3>2. QED
      BY <1>2, <2>2, <3>1 DEF CredentialFiles
  <2>3. QED
    BY <1>3, <2>1, <2>2
<1>5. /\ UNCHANGED <<pending, reauth, remote, todo, lockCtx, rejected, retained, mixed, bounds>>
      /\ torn' \in BOOLEAN
  BY TokenAcceptedLeaves DEF TokenAccepted, IInv, TypeOK
<1>6. PICK label \in {"idle", "token"} :
         /\ Goto(t, label) /\ (label = "token" => lock'.auth = t)
         /\ pc' \in PcTypes /\ lock' \in LockTypes
         /\ answer' \in [result : Results, grant : 0..MaxGrants, gen : 0..MaxGen]
         /\ session' \in [grant : 0..MaxGrants, ctx : 0..MaxGrants]
         /\ session'.ctx \in {0, session.ctx} /\ (t = "admin" => UNCHANGED session)
         /\ cached' \in [grant : 0..MaxGrants, gen : 0..MaxGen, fresh : BOOLEAN]
  <2>1. CASE Abandon(t) /\ UNCHANGED <<cached, session>>
    <3>1. pc' \in PcTypes /\ lock' \in LockTypes
          /\ answer' \in [result : Results, grant : 0..MaxGrants, gen : 0..MaxGen]
      BY <1>1, <2>1, AbandonTypes DEF IInv
    <3>2. Goto(t, "idle")
      BY <2>1 DEF Abandon
    <3>3. QED
      BY <2>1, <3>1, <3>2 DEF IInv, TypeOK
  <2>2. CASE /\ TokenReturned(t, answer.grant) /\ UNCHANGED lock /\ answer' = NoAnswer
             /\ cached' = [grant |-> answer.grant, gen |-> answer.gen, fresh |-> TRUE]
    <3>1. Goto(t, "token")
      BY <2>2 DEF TokenReturned
    <3>2. pc' \in PcTypes
      BY <1>1, <3>1, MovedTypes DEF IInv, TypeOK, PcTypes, EnginePcs, AdminPcs, Callers
    <3>3. session' \in [grant : 0..MaxGrants, ctx : 0..MaxGrants]
          /\ session'.ctx \in {0, session.ctx} /\ (t = "admin" => UNCHANGED session)
      BY <1>2, <2>2, BoundsAssumption DEF TokenReturned, IInv, TypeOK, Grants
    <3>4. cached' \in [grant : 0..MaxGrants, gen : 0..MaxGen, fresh : BOOLEAN]
      BY <1>2, <2>2, BoundsAssumption DEF Grants
    <3>5. answer' \in [result : Results, grant : 0..MaxGrants, gen : 0..MaxGen]
      BY <2>2, BoundsAssumption DEF NoAnswer, Results
    <3>6. lock' \in LockTypes /\ lock'.auth = t
      BY <1>1, <2>2 DEF IInv, TypeOK, LockTypes
    <3>7. QED
      BY <3>1, <3>2, <3>3, <3>4, <3>5, <3>6
  <2>3. QED
    BY <2>1, <2>2, TokenAcceptedLeaves
<1>7. TypeOK'
  BY <1>4, <1>5, <1>6 DEF IInv, TypeOK, PcTypes, LockTypes, ghosts
<1>8. ContextOf(file)' = ContextOf(file)
  BY <1>2, <1>4 DEF ContextOf
<1>9. Owners' /\ AnswersFit' /\ Dated' /\ Guarded'
  BY <1>1, <1>4, <1>5, <1>6, <1>8, AnswerApplied DEF ghosts
<1>10. RejectedAreOld'
  <2>1. rejected' = rejected /\ \A r \in rejected : r[2] \in Nat
    BY <1>5, BoundsAssumption DEF ghosts, IInv, TypeOK
  <2>2. file'.gen \in Nat /\ file.gen \in Nat
    BY <1>2, <1>4, BoundsAssumption
  <2>3. QED
    BY <1>2, <1>4, <2>1, <2>2 DEF IInv, RejectedAreOld
<1>11. DeadCredentialDropped'
  <2>1. CASE file' = file
    BY <1>5, <2>1 DEF IInv, DeadCredentialDropped, ghosts
  <2>2. CASE file' # file
    <3>1. answer.gen # file.gen
      BY <1>2, <1>3, <2>2 DEF IInv, TypeOK, CredentialFiles, NoFile
    <3>2. file'.gen > file.gen
      BY <1>2, <1>4, <2>2, <3>1
    <3>3. <<file'.grant, file'.gen>> \notin rejected
      <4>1. ASSUME <<file'.grant, file'.gen>> \in rejected PROVE FALSE
        <5>1. file'.gen <= file.gen
          BY <1>2, <1>4, <4>1 DEF IInv, RejectedAreOld
        <5>2. QED
          BY <1>2, <1>4, <3>2, <5>1, BoundsAssumption
      <4>2. QED
        BY <4>1
    <3>4. QED
      BY <1>5, <3>3 DEF DeadCredentialDropped, ghosts
  <2>3. QED
    BY <2>1, <2>2
<1>12. QED
  BY <1>7, <1>9, <1>10, <1>11 DEF IInv

LEMMA GrantRejectedKeeps ==
    ASSUME IInv, NEW t \in Callers, GrantRejected(t) PROVE IInv'
<1>1. t \in Threads /\ pc[t] = "answer" /\ Abandon(t) /\ Goto(t, "idle")
  BY DEF GrantRejected, Callers, Threads, Abandon
<1>2. /\ answer.result = "invalid_grant" /\ answer.grant = file.grant /\ answer.gen = file.gen
      /\ file.status = "active" /\ file.grant \in Grants /\ file.gen \in 1..MaxGen
  BY <1>1 DEF GrantRejected, IInv, AnswersFit, TypeOK, CredentialFiles, NoFile
<1>3. PICK o \in MarkOutcomes(file) : file' = o.file /\ retained' = (retained \/ o.stuck)
  BY DEF GrantRejected
<1>4. /\ o.file \in {file, Marker, NoFile} /\ o.stuck \in BOOLEAN
      /\ o.stuck \/ o.file \in {Marker, NoFile}
  BY MarkLeaves
<1>5. /\ file' \in CredentialFiles /\ file'.grant \in {0, file.grant}
      /\ file' = file \/ file'.status # "active"
  <2>1. CASE file' = file
    BY <2>1 DEF IInv, TypeOK
  <2>2. CASE file' = Marker
    <3>1. Marker \in [status : {"reauth_required"}, grant : Grants, gen : {0}]
      BY <1>2 DEF Marker
    <3>2. file'.grant = file.grant /\ file'.status = "reauth_required"
      BY <2>2 DEF Marker
    <3>3. QED
      BY <2>2, <3>1, <3>2 DEF CredentialFiles
  <2>3. CASE file' = NoFile
    BY <2>3 DEF NoFile, CredentialFiles
  <2>4. QED
    BY <1>3, <1>4, <2>1, <2>2, <2>3
<1>6. rejected' = rejected \union {<<file.grant, file.gen>>}
  BY <1>2 DEF GrantRejected
<1>7. retained' \in BOOLEAN
  BY <1>3, <1>4, Zenon DEF IInv, TypeOK
<1>8. TypeOK'
  <2>1. cached' \in [grant : 0..MaxGrants, gen : 0..MaxGen, fresh : BOOLEAN]
    BY BoundsAssumption DEF GrantRejected, NoToken
  <2>2. rejected' \subseteq (Grants \X (1..MaxGen))
    BY <1>2, <1>6 DEF IInv, TypeOK
  <2>3. /\ UNCHANGED <<pending, remote, session, todo, lockCtx, mixed, bounds>>
        /\ reauth' \in BOOLEAN /\ torn' \in BOOLEAN
    BY DEF GrantRejected, cycle
  <2>4. /\ pc' \in PcTypes /\ lock' \in LockTypes
        /\ answer' \in [result : Results, grant : 0..MaxGrants, gen : 0..MaxGen]
    BY <1>1, AbandonTypes DEF IInv
  <2>5. QED
    BY <1>5, <1>7, <2>1, <2>2, <2>3, <2>4 DEF IInv, TypeOK, PcTypes, LockTypes
<1>9. ContextOf(file)' \in {0, ContextOf(file)}
  BY <1>5 DEF ContextOf
<1>10. Owners' /\ AnswersFit' /\ Dated' /\ Guarded'
  BY <1>1, <1>5, <1>6, <1>9, AnswerApplied DEF GrantRejected, cycle
<1>11. RejectedAreOld'
  <2>1. CASE file' = file
    BY <1>2, <1>6, <2>1, BoundsAssumption DEF IInv, RejectedAreOld
  <2>2. CASE file'.status # "active"
    BY <2>2 DEF RejectedAreOld
  <2>3. QED
    BY <1>5, <2>1, <2>2
<1>12. DeadCredentialDropped'
  <2>1. CASE o.stuck
    <3>1. retained'
      BY <1>3, <2>1, Zenon
    <3>2. QED
      BY <3>1 DEF DeadCredentialDropped
  <2>2. CASE ~o.stuck
    <3>1. file'.status # "active"
      BY <1>3, <1>4, <2>2 DEF Marker, NoFile
    <3>2. QED
      BY <3>1 DEF DeadCredentialDropped
  <2>3. QED
    BY <2>1, <2>2
<1>13. QED
  BY <1>8, <1>10, <1>11, <1>12 DEF IInv

LEMMA GetAccessTokenKeeps ==
    ASSUME IInv, NEW t \in Callers, GetAccessToken(t) PROVE IInv'
BY TakeRequestLockKeeps, CooldownRefusesKeeps, TokenRefusedKeeps, TokenFromCacheKeeps,
   RefreshRequestedKeeps, RefreshAnsweredKeeps, RefreshFailedKeeps, TokenAcceptedKeeps,
   GrantRejectedKeeps
   DEF GetAccessToken

-----------------------------------------------------------------------------
(* The engine and the administrator, outside get_access_token.             *)

LEMMA OutsideLock ==
    ASSUME IInv, NEW t \in Callers, NEW label, Goto(t, label),
           label \in (IF t = "engine" THEN {"idle", "request", "run", "config", "recheck", "write", "writing"}
                                      ELSE {"idle", "request"}),
           lock' \in LockTypes,
           \A u \in Threads : u # t /\ lock.auth = u => lock'.auth = u,
           UNCHANGED <<file, service, remote, answer, rejected, retained, torn>>,
           mixed' \in {torn, mixed},
           session' \in [grant : 0..MaxGrants, ctx : 0..MaxGrants],
           session'.ctx \in {0, session.ctx, ContextOf(file)},
           todo' \in 0..Playlists, lockCtx' \in 0..MaxGrants,
           bounds' \in [grants : 0..MaxGrants, starts : 0..MaxStarts,
                        requests : 0..MaxRequests, crashes : 0..MaxCrashes],
           bounds'.grants = bounds.grants, Guarded'
    PROVE  IInv'
<1>1. t \in Threads
  BY DEF Callers, Threads
<1>2. pc' \in PcTypes
  BY <1>1, MovedTypes DEF IInv, TypeOK, PcTypes, EnginePcs, AdminPcs, Callers
<1>3. TypeOK'
  BY <1>2 DEF IInv, TypeOK, PcTypes, LockTypes, service
<1>4. Owners' /\ AnswersFit' /\ Dated' /\ RejectedAreOld' /\ DeadCredentialDropped'
  BY <1>1, CredentialAlone DEF Callers
<1>5. QED
  BY <1>3, <1>4 DEF IInv

LEMMA EngineStepKeeps ==
    ASSUME IInv, EngineStep PROVE IInv'
<1> USE DEF Callers
<1>0. /\ pc \in PcTypes /\ lock \in LockTypes /\ "engine" \in Threads
      /\ session \in [grant : 0..MaxGrants, ctx : 0..MaxGrants] /\ todo \in 0..Playlists
      /\ lockCtx \in 0..MaxGrants
      /\ bounds \in [grants : 0..MaxGrants, starts : 0..MaxStarts,
                     requests : 0..MaxRequests, crashes : 0..MaxCrashes]
      /\ ContextOf(file) \in 0..MaxGrants /\ 0 \in 0..MaxGrants /\ Playlists \in 0..Playlists
  BY BoundsAssumption DEF IInv, TypeOK, PcTypes, LockTypes, ContextOf, CredentialFiles,
     NoFile, Grants, Threads
<1>a. NoSession \in [grant : 0..MaxGrants, ctx : 0..MaxGrants] /\ NoSession.ctx = 0
  BY <1>0 DEF NoSession
<1>b. /\ ReleaseAll("engine") \in LockTypes
      /\ \A u \in Threads : u # "engine" /\ lock.auth = u => ReleaseAll("engine").auth = u
  BY <1>0, Released
<1>c. \A label : Goto("engine", label) => pc'.engine = label
  BY <1>0, Moved
<1>1. CASE CycleStarts
  <2>1. Guarded'
    BY <1>1, <1>c DEF CycleStarts, Guarded, GuardedWrite
  <2>2. QED
    BY <1>0, <1>1, <1>a, <2>1, OutsideLock DEF CycleStarts, ghosts
<1>2. CASE SessionBound
  <2>1. Guarded'
    BY <1>0, <1>2, <1>c DEF SessionBound, Guarded, GuardedWrite, IInv, TypeOK
  <2>2. session' \in [grant : 0..MaxGrants, ctx : 0..MaxGrants]
        /\ session'.ctx \in {0, session.ctx, ContextOf(file)}
    BY <1>0, <1>2 DEF SessionBound
  <2>3. PICK label \in {"idle", "run"} : Goto("engine", label)
    BY <1>2 DEF SessionBound
  <2>4. QED
    BY <1>0, <1>2, <1>b, <2>1, <2>2, <2>3, OutsideLock DEF SessionBound, ghosts
<1>3. CASE WriteRefused
  <2>1. Guarded'
    BY <1>3, <1>c DEF WriteRefused, IInv, Guarded, GuardedWrite
  <2>2. todo' \in 0..Playlists
    BY <1>0, <1>3, BoundsAssumption DEF WriteRefused
  <2>3. QED
    BY <1>0, <1>3, <1>b, <2>1, <2>2, OutsideLock DEF WriteRefused, ghosts
<1>4. CASE GuardEntered
  <2>1. Guarded'
    BY <1>4, <1>c DEF GuardEntered, cycle, IInv, Guarded, GuardedWrite
  <2>2. QED
    BY <1>0, <1>4, <2>1, OutsideLock DEF GuardEntered, cycle, ghosts
<1>5. CASE TakeConfigLock
  <2>1. Guarded'
    BY <1>5, <1>c DEF TakeConfigLock, cycle, IInv, Guarded, GuardedWrite, ContextOf
  <2>2. lock' \in LockTypes /\ lock'.auth = lock.auth
    BY <1>0, <1>5 DEF TakeConfigLock, LockTypes
  <2>3. QED
    BY <1>0, <1>5, <2>1, <2>2, OutsideLock DEF TakeConfigLock, cycle
<1>6. CASE GuardPassed
  <2>1. Guarded'
    BY <1>6, <1>c DEF GuardPassed, ContextMatches, cycle, ghosts, IInv, Guarded, GuardedWrite, ContextOf
  <2>2. QED
    BY <1>0, <1>6, <2>1, OutsideLock DEF GuardPassed, cycle, ghosts
<1>7. CASE WriteSent
  <2>1. Guarded'
    BY <1>7, <1>c DEF WriteSent, cycle, ghosts, IInv, Guarded, GuardedWrite
  <2>2. lock' \in LockTypes /\ lock'.auth = lock.auth
    BY <1>0, <1>7 DEF WriteSent, LockTypes
  <2>3. QED
    BY <1>0, <1>7, <2>1, <2>2, OutsideLock DEF WriteSent, cycle, ghosts
<1>8. CASE WriteDone
  <2>1. Guarded'
    BY <1>8, <1>c DEF WriteDone, IInv, Guarded, GuardedWrite
  <2>2. todo' \in 0..Playlists
    BY <1>0, <1>8, BoundsAssumption DEF WriteDone, IInv, Guarded
  <2>3. QED
    BY <1>0, <1>8, <1>b, <2>1, <2>2, OutsideLock DEF WriteDone, ghosts
<1>9. CASE CycleEnds
  <2>1. Guarded'
    BY <1>9, <1>c DEF CycleEnds, Guarded, GuardedWrite
  <2>2. QED
    BY <1>0, <1>9, <1>a, <2>1, OutsideLock DEF CycleEnds, ghosts
<1>10. QED
  BY <1>1, <1>2, <1>3, <1>4, <1>5, <1>6, <1>7, <1>8, <1>9 DEF EngineStep

LEMMA AdminStartsKeeps ==
    ASSUME IInv, AdminStarts PROVE IInv'
<1>1. Goto("admin", "request") /\ "admin" \in Callers /\ "admin" \in Threads
  BY DEF AdminStarts, Callers, Threads
<1>2. lock' \in LockTypes /\ lock'.auth = lock.auth
  BY DEF AdminStarts, IInv, TypeOK, LockTypes
<1>3. pc'.engine = pc.engine
  BY <1>1, Moved DEF IInv, TypeOK, PcTypes
<1>4. Guarded'
  BY <1>3, EngineAlone DEF AdminStarts, cycle, ghosts, ContextOf
<1>5. bounds' \in [grants : 0..MaxGrants, starts : 0..MaxStarts,
                   requests : 0..MaxRequests, crashes : 0..MaxCrashes]
      /\ bounds'.grants = bounds.grants
  BY BoundsAssumption DEF AdminStarts, IInv, TypeOK
<1>6. QED
  BY <1>1, <1>2, <1>4, <1>5, OutsideLock DEF AdminStarts, cycle, ghosts, IInv, TypeOK

LEMMA AdminDoneKeeps ==
    ASSUME IInv, AdminDone PROVE IInv'
<1>1. Abandon("admin") /\ "admin" \in Threads
  BY DEF AdminDone, Threads
<1>2. TypeOK'
  BY <1>1, AbandonTypes DEF AdminDone, IInv, TypeOK, PcTypes, LockTypes, service, cycle, ghosts
<1>3. QED
  BY <1>1, <1>2, AbandonKeeps DEF AdminDone, cycle, ghosts

-----------------------------------------------------------------------------
(* The callback.                                                           *)

\* Nothing that the rest of the invariant speaks of changes.
LEMMA Unconcerned ==
    ASSUME IInv, TypeOK', bounds'.grants = bounds.grants,
           UNCHANGED <<file, lock, pc, answer, cycle, ghosts>>
    PROVE  IInv'
<1>1. Owners' /\ AnswersFit' /\ Dated'
  BY DEF IInv, Owners, AnswersFit, Dated, Known, cycle, ghosts
<1>2. RejectedAreOld' /\ DeadCredentialDropped'
  BY DEF IInv, RejectedAreOld, DeadCredentialDropped, ghosts
<1>3. Guarded'
  BY EngineAlone DEF cycle, ghosts, ContextOf
<1>4. QED
  BY <1>1, <1>2, <1>3 DEF IInv

LEMMA AuthorizationStartsKeeps ==
    ASSUME IInv, AuthorizationStarts PROVE IInv'
<1>1. /\ pending' \in [state : 0..MaxStarts, expired : BOOLEAN]
      /\ bounds' \in [grants : 0..MaxGrants, starts : 0..MaxStarts,
                      requests : 0..MaxRequests, crashes : 0..MaxCrashes]
      /\ bounds'.grants = bounds.grants
  BY BoundsAssumption DEF AuthorizationStarts, IInv, TypeOK
<1>2. TypeOK'
  BY <1>1 DEF AuthorizationStarts, IInv, TypeOK, cycle, ghosts
<1>3. QED
  BY <1>1, <1>2, Unconcerned DEF AuthorizationStarts

LEMMA CallbackRefusedKeeps ==
    ASSUME IInv, CallbackRefused PROVE IInv'
<1>1. pending' \in {NoPending, pending}
  BY DEF CallbackRefused
<1>2. pending' \in [state : 0..MaxStarts, expired : BOOLEAN]
  <2>1. NoPending \in [state : 0..MaxStarts, expired : BOOLEAN]
    BY BoundsAssumption DEF NoPending
  <2>2. QED
    BY <1>1, <2>1 DEF IInv, TypeOK
<1>3. TypeOK'
  BY <1>2 DEF CallbackRefused, IInv, TypeOK, cycle, ghosts
<1>4. QED
  BY <1>3, Unconcerned DEF CallbackRefused

LEMMA CallbackAcceptedKeeps ==
    ASSUME IInv, CallbackAccepted PROVE IInv'
<1>1. Goto("web", "exchange") /\ "web" \in Threads
  BY DEF CallbackAccepted, Threads
<1>2. pc' \in PcTypes
  BY <1>1, MovedTypes DEF IInv, TypeOK, PcTypes, WebPcs
<1>3. pc'.engine = pc.engine /\ pc'.admin = pc.admin /\ pc'.web = "exchange"
  BY <1>1, Moved DEF IInv, TypeOK, PcTypes
<1>4. lock' \in LockTypes /\ lock'.auth = "web" /\ lock.auth = Nobody
  BY DEF CallbackAccepted, IInv, TypeOK, LockTypes, Threads
<1>5. pending' \in [state : 0..MaxStarts, expired : BOOLEAN]
  BY BoundsAssumption DEF CallbackAccepted, NoPending
<1>6. TypeOK'
  BY <1>2, <1>4, <1>5 DEF CallbackAccepted, IInv, TypeOK, PcTypes, LockTypes, cycle, ghosts
<1>7. Owners' /\ AnswersFit'
  BY <1>3, <1>4 DEF CallbackAccepted, IInv, Owners, AnswersFit, Callers, Nobody
<1>8. Dated' /\ RejectedAreOld' /\ DeadCredentialDropped'
  BY <1>3, <1>4 DEF CallbackAccepted, IInv, Owners, Dated, Known, RejectedAreOld,
     DeadCredentialDropped, cycle, ghosts, Nobody
<1>9. Guarded'
  BY <1>3, EngineAlone DEF CallbackAccepted, cycle, ghosts, ContextOf
<1>10. QED
  BY <1>6, <1>7, <1>8, <1>9 DEF IInv

LEMMA CodeExchangedKeeps ==
    ASSUME IInv, CodeExchanged PROVE IInv'
<1>1. Goto("web", "answer") /\ "web" \in Threads /\ pc.web = "exchange" /\ lock.auth = "web"
  BY DEF CodeExchanged, Threads, IInv, Owners
<1>2. pc' \in PcTypes
  BY <1>1, MovedTypes DEF IInv, TypeOK, PcTypes, WebPcs
<1>3. pc'.engine = pc.engine /\ pc'.admin = pc.admin /\ pc'.web = "answer"
  BY <1>1, Moved DEF IInv, TypeOK, PcTypes
<1>4. /\ bounds.grants \in Nat /\ bounds.grants < MaxGrants
      /\ bounds' = [bounds EXCEPT !.grants = bounds.grants + 1]
      /\ remote' = [remote EXCEPT ![bounds.grants + 1] = 1]
      /\ answer' = [result |-> "ok", grant |-> bounds.grants + 1, gen |-> 1]
  BY DEF CodeExchanged, IInv, TypeOK
<1>5. /\ bounds' \in [grants : 0..MaxGrants, starts : 0..MaxStarts,
                      requests : 0..MaxRequests, crashes : 0..MaxCrashes]
      /\ bounds'.grants = bounds.grants + 1
  BY <1>4, BoundsAssumption DEF IInv, TypeOK
<1>6. remote' \in [Grants -> 0..MaxGen]
  <2>1. 1 \in 0..MaxGen
    BY BoundsAssumption
  <2>2. remote \in [Grants -> 0..MaxGen]
    BY DEF IInv, TypeOK
  <2>3. QED
    BY <1>4, <2>1, <2>2
<1>7. answer' \in [result : Results, grant : 0..MaxGrants, gen : 0..MaxGen]
  BY <1>4, BoundsAssumption DEF Results
<1>8. TypeOK'
  BY <1>2, <1>5, <1>6, <1>7 DEF CodeExchanged, IInv, TypeOK, PcTypes, service, cycle, ghosts
<1>9. Owners' /\ AnswersFit'
  BY <1>1, <1>3, <1>4, <1>5 DEF CodeExchanged, IInv, Owners, AnswersFit, Callers
<1>10. Dated'
  <2>1. Known' = bounds.grants /\ Known = bounds.grants
    BY <1>1, <1>3, <1>4, <1>5 DEF Known
  <2>2. QED
    BY <1>4, <1>5, <2>1 DEF CodeExchanged, IInv, Dated, cycle, ghosts
<1>11. RejectedAreOld' /\ DeadCredentialDropped'
  BY DEF CodeExchanged, IInv, RejectedAreOld, DeadCredentialDropped, ghosts
<1>12. Guarded'
  BY <1>3, EngineAlone DEF CodeExchanged, cycle, ghosts, ContextOf
<1>13. QED
  BY <1>8, <1>9, <1>10, <1>11, <1>12 DEF IInv

LEMMA ExchangeFailedKeeps ==
    ASSUME IInv, ExchangeFailed PROVE IInv'
<1>1. Abandon("web") /\ "web" \in Threads
  BY DEF ExchangeFailed, Threads
<1>2. TypeOK'
  BY <1>1, AbandonTypes DEF ExchangeFailed, IInv, TypeOK, PcTypes, LockTypes, service, cycle, ghosts
<1>3. QED
  BY <1>1, <1>2, AbandonKeeps DEF ExchangeFailed, cycle, ghosts

LEMMA GrantsAreNumbers ==
    ASSUME TypeOK
    PROVE  file.grant \in Nat /\ session.ctx \in Nat /\ \A r \in rejected : r[1] \in Nat
<1>1. file.grant \in Nat
  BY BoundsAssumption DEF TypeOK, CredentialFiles, NoFile, Grants
<1>2. session.ctx \in Nat
  BY BoundsAssumption DEF TypeOK
<1>3. \A r \in rejected : r[1] \in Nat
  BY BoundsAssumption DEF TypeOK, Grants
<1>4. QED
  BY <1>1, <1>2, <1>3

\* The new grant is newer than every context and every rejected token.
LEMMA GrantSavedKeeps ==
    ASSUME IInv, GrantSaved PROVE IInv'
<1> DEFINE record == [status |-> "active", grant |-> answer.grant, gen |-> answer.gen]
<1>1. Abandon("web") /\ Goto("web", "idle") /\ "web" \in Threads /\ lock.auth = "web"
      /\ pc.web = "answer"
  BY DEF GrantSaved, Abandon, Threads, IInv, Owners
<1>2. /\ answer.grant = bounds.grants /\ answer.gen = 1 /\ bounds.grants \in Nat \ {0}
      /\ bounds.grants <= MaxGrants /\ Known = bounds.grants - 1
  BY <1>1, BoundsAssumption DEF IInv, AnswersFit, Dated, TypeOK, Known
<1>3. PICK o \in SaveOutcomes(record) :
         /\ file' = o.file
         /\ IF o.raised
               THEN UNCHANGED <<cached, reauth>> /\ torn' \in BOOLEAN
               ELSE /\ reauth' = FALSE /\ torn' = FALSE
                    /\ cached' = [grant |-> answer.grant, gen |-> answer.gen, fresh |-> TRUE]
  BY DEF GrantSaved, Unrefreshed, IInv, TypeOK
<1>4. file' \in {file, record}
  BY <1>3, SaveLeaves, Zenon
<1>5. pc'.engine = pc.engine /\ pc'.admin = pc.admin /\ pc'.web = "idle"
  BY <1>1, Moved DEF IInv, TypeOK, PcTypes
<1>6. record \in [status : {"active"}, grant : Grants, gen : 1..MaxGen]
  BY <1>2, BoundsAssumption DEF Grants
<1>7. UNCHANGED <<pending, remote, cycle, lockCtx, rejected, retained, mixed, bounds>>
  BY DEF GrantSaved
<1>8. TypeOK'
  <2>1. file' \in CredentialFiles
    BY <1>4, <1>6 DEF CredentialFiles, IInv, TypeOK
  <2>2. cached' \in [grant : 0..MaxGrants, gen : 0..MaxGen, fresh : BOOLEAN] /\ reauth' \in BOOLEAN
    <3>1. [grant |-> answer.grant, gen |-> answer.gen, fresh |-> TRUE]
             \in [grant : 0..MaxGrants, gen : 0..MaxGen, fresh : BOOLEAN]
      BY <1>2, BoundsAssumption
    <3>2. CASE o.raised
      BY <1>3, <3>2 DEF IInv, TypeOK
    <3>3. CASE ~o.raised
      BY <1>3, <3>1, <3>3
    <3>4. QED
      BY <3>2, <3>3
  <2>3. /\ pc' \in PcTypes /\ lock' \in LockTypes
        /\ answer' \in [result : Results, grant : 0..MaxGrants, gen : 0..MaxGen]
    BY <1>1, AbandonTypes DEF IInv
  <2>4. torn' \in BOOLEAN
    BY <1>3
  <2>5. QED
    BY <1>7, <2>1, <2>2, <2>3, <2>4 DEF IInv, TypeOK, PcTypes, LockTypes, cycle, ghosts
<1>9. Owners' /\ AnswersFit'
  BY <1>1, <1>5 DEF IInv, Owners, AnswersFit, Callers
<1>10. \A g \in Nat : g <= Known => g < bounds.grants
  BY <1>2
<1>11. file.grant \in Nat /\ session.ctx \in Nat /\ \A r \in rejected : r[1] \in Nat
  BY GrantsAreNumbers DEF IInv
<1>12. Dated'
  <2>1. Known' = bounds.grants /\ bounds'.grants = bounds.grants
    BY <1>5, <1>7 DEF Known
  <2>2. file'.grant <= bounds.grants
    BY <1>2, <1>4, <1>11 DEF IInv, Dated
  <2>3. QED
    BY <1>2, <1>5, <1>7, <1>11, <2>1, <2>2 DEF IInv, Dated, cycle, ghosts
<1>13. \A r \in rejected : r[1] # bounds.grants
  BY <1>2, <1>11 DEF IInv, Dated
<1>14. RejectedAreOld'
  BY <1>2, <1>4, <1>7, <1>13 DEF IInv, RejectedAreOld, ghosts
<1>15. DeadCredentialDropped'
  <2>1. CASE file' = file
    BY <1>7, <2>1 DEF IInv, DeadCredentialDropped, ghosts
  <2>2. CASE file' = record
    <3>1. \A n : <<bounds.grants, n>> \notin rejected
      BY <1>13
    <3>2. QED
      BY <1>2, <2>2, <3>1, <1>7 DEF DeadCredentialDropped, ghosts
  <2>3. QED
    BY <1>4, <2>1, <2>2
<1>16. Guarded'
  <2>1. CASE file' = file
    BY <1>5, <1>7, <2>1, EngineAlone DEF cycle, ghosts, ContextOf
  <2>2. CASE file' = record
    <3>1. ContextOf(file)' = bounds.grants
      BY <1>2, <2>2 DEF ContextOf
    <3>2. session.ctx # bounds.grants
      BY <1>2, <1>11 DEF IInv, Dated
    <3>3. QED
      BY <1>5, <1>7, <3>1, <3>2 DEF IInv, Guarded, GuardedWrite, cycle, ghosts
  <2>3. QED
    BY <1>4, <2>1, <2>2
<1>17. QED
  BY <1>8, <1>9, <1>12, <1>14, <1>15, <1>16 DEF IInv

LEMMA WebStepKeeps ==
    ASSUME IInv, WebStep PROVE IInv'
BY AuthorizationStartsKeeps, CallbackRefusedKeeps, CallbackAcceptedKeeps, CodeExchangedKeeps,
   ExchangeFailedKeeps, GrantSavedKeeps
   DEF WebStep

-----------------------------------------------------------------------------
(* Time, Spotify and the process.                                          *)

LEMMA EnvironmentKeeps ==
    ASSUME IInv, Environment PROVE IInv'
<1>1. CASE TokenExpires
  <2>1. TypeOK'
    BY <1>1 DEF TokenExpires, IInv, TypeOK, cycle, ghosts
  <2>2. QED
    BY <1>1, <2>1, Unconcerned DEF TokenExpires
<1>2. CASE PendingExpires
  <2>1. TypeOK'
    BY <1>2 DEF PendingExpires, IInv, TypeOK, cycle, ghosts
  <2>2. QED
    BY <1>2, <2>1, Unconcerned DEF PendingExpires
<1>3. CASE Revoked
  <2>1. remote' \in [Grants -> 0..MaxGen]
    BY <1>3, BoundsAssumption DEF Revoked, IInv, TypeOK
  <2>2. TypeOK'
    BY <1>3, <2>1 DEF Revoked, IInv, TypeOK, service, cycle, ghosts
  <2>3. QED
    BY <1>3, <2>2, Unconcerned DEF Revoked
<1>4. CASE Restart
  <2>1. /\ pc' = [engine |-> "idle", admin |-> "idle", web |-> "idle"]
        /\ lock' = [auth |-> Nobody, request |-> Nobody, config |-> Nobody]
        /\ answer' = NoAnswer /\ session' = NoSession /\ todo' = 0 /\ lockCtx' = 0
        /\ pending' = NoPending /\ cached' = NoToken /\ reauth' = FALSE
        /\ torn' = FALSE /\ mixed' = FALSE
        /\ UNCHANGED <<file, remote, rejected, retained>>
    BY <1>4 DEF Restart
  <2>2. bounds' \in [grants : 0..MaxGrants, starts : 0..MaxStarts,
                     requests : 0..MaxRequests, crashes : 0..MaxCrashes]
        /\ bounds'.grants = bounds.grants
    BY <1>4, BoundsAssumption DEF Restart, IInv, TypeOK
  <2>3. /\ pending' \in [state : 0..MaxStarts, expired : BOOLEAN]
        /\ cached' \in [grant : 0..MaxGrants, gen : 0..MaxGen, fresh : BOOLEAN]
        /\ answer' \in [result : Results, grant : 0..MaxGrants, gen : 0..MaxGen]
        /\ session' \in [grant : 0..MaxGrants, ctx : 0..MaxGrants]
    BY <2>1, BoundsAssumption DEF NoPending, NoToken, NoAnswer, NoSession, Results
  <2>4. pc' \in PcTypes /\ lock' \in LockTypes
    BY <2>1 DEF PcTypes, LockTypes, EnginePcs, AdminPcs, WebPcs
  <2>5. TypeOK'
    <3>1. todo' \in 0..Playlists /\ lockCtx' \in 0..MaxGrants
      BY <2>1, BoundsAssumption
    <3>2. reauth' \in BOOLEAN
      BY <2>1
    <3>3. /\ file' \in CredentialFiles /\ remote' \in [Grants -> 0..MaxGen]
          /\ rejected' \subseteq (Grants \X (1..MaxGen)) /\ retained' \in BOOLEAN
          /\ torn' \in BOOLEAN /\ mixed' \in BOOLEAN
      BY <2>1 DEF IInv, TypeOK
    <3>4. QED
      BY <2>2, <2>3, <2>4, <3>1, <3>2, <3>3 DEF TypeOK, PcTypes, LockTypes
  <2>6. Owners' /\ AnswersFit' /\ Guarded'
    BY <2>1 DEF Owners, AnswersFit, Guarded, GuardedWrite, Callers
  <2>7. Dated'
    <3>1. bounds.grants \in Nat /\ Known <= bounds.grants /\ Known' = bounds.grants
      BY <2>1, <2>2 DEF IInv, TypeOK, Known
    <3>2. file.grant \in Nat /\ \A r \in rejected : r[1] \in Nat
      BY GrantsAreNumbers DEF IInv
    <3>3. Known \in Int
      BY <3>1 DEF Known
    <3>4. QED
      BY <2>1, <3>1, <3>2, <3>3 DEF IInv, Dated, NoSession
  <2>8. RejectedAreOld' /\ DeadCredentialDropped'
    BY <2>1 DEF IInv, RejectedAreOld, DeadCredentialDropped
  <2>9. QED
    BY <2>5, <2>6, <2>7, <2>8 DEF IInv
<1>5. QED
  BY <1>1, <1>2, <1>3, <1>4 DEF Environment

-----------------------------------------------------------------------------
LEMMA InitKeeps == Init => IInv
<1> SUFFICES ASSUME Init PROVE IInv
  OBVIOUS
<1>1. TypeOK
  <2>1. /\ pending \in [state : 0..MaxStarts, expired : BOOLEAN]
        /\ cached \in [grant : 0..MaxGrants, gen : 0..MaxGen, fresh : BOOLEAN]
        /\ answer \in [result : Results, grant : 0..MaxGrants, gen : 0..MaxGen]
        /\ session \in [grant : 0..MaxGrants, ctx : 0..MaxGrants]
    BY BoundsAssumption DEF Init, NoPending, NoToken, NoAnswer, NoSession, Results
  <2>2. pc \in PcTypes /\ lock \in LockTypes
    BY DEF Init, PcTypes, LockTypes, EnginePcs, AdminPcs, WebPcs
  <2>3. /\ file \in CredentialFiles /\ reauth \in BOOLEAN /\ retained \in BOOLEAN
        /\ torn \in BOOLEAN /\ mixed \in BOOLEAN
        /\ rejected \subseteq (Grants \X (1..MaxGen))
    BY DEF Init, CredentialFiles
  <2>4. todo \in 0..Playlists /\ lockCtx \in 0..MaxGrants /\ remote \in [Grants -> 0..MaxGen]
    BY BoundsAssumption DEF Init
  <2>5. bounds \in [grants : 0..MaxGrants, starts : 0..MaxStarts,
                    requests : 0..MaxRequests, crashes : 0..MaxCrashes]
    BY BoundsAssumption DEF Init
  <2>6. QED
    BY <2>1, <2>2, <2>3, <2>4, <2>5 DEF TypeOK, PcTypes, LockTypes
<1>2. Owners /\ AnswersFit /\ Guarded
  BY DEF Init, Owners, AnswersFit, Guarded, GuardedWrite, Callers
<1>3. Dated /\ RejectedAreOld /\ DeadCredentialDropped
  BY DEF Init, Dated, Known, RejectedAreOld, DeadCredentialDropped, NoFile, NoSession
<1>4. QED
  BY <1>1, <1>2, <1>3 DEF IInv

LEMMA NextKeeps == IInv /\ [Next]_vars => IInv'
<1> SUFFICES ASSUME IInv, [Next]_vars PROVE IInv'
  OBVIOUS
<1>1. CASE \E t \in Callers : GetAccessToken(t)
  BY <1>1, GetAccessTokenKeeps
<1>2. CASE EngineStep
  BY <1>2, EngineStepKeeps
<1>3. CASE AdminStarts \/ AdminDone
  BY <1>3, AdminStartsKeeps, AdminDoneKeeps
<1>4. CASE WebStep \/ Environment
  BY <1>4, WebStepKeeps, EnvironmentKeeps
<1>5. CASE UNCHANGED vars
  <2>1. TypeOK'
    BY <1>5 DEF IInv, TypeOK, vars, service, cycle, ghosts
  <2>2. QED
    BY <1>5, <2>1, Unconcerned DEF vars, service, cycle, ghosts
<1>6. QED
  BY <1>1, <1>2, <1>3, <1>4, <1>5 DEF Next, Callers

LEMMA Invariant == Spec => []IInv
BY InitKeeps, NextKeeps, PTL DEF Spec

\* Types of the credential, the service, the locks and the three threads.
THEOREM TypeCorrect == Spec => []TypeOK
<1>1. IInv => TypeOK
  BY DEF IInv
<1>2. QED
  BY <1>1, Invariant, PTL

\* At most the one write past its last check is stale, for any number of grants.
THEOREM WritesGuarded == Spec => []GuardedWrite
<1>1. IInv => GuardedWrite
  BY DEF IInv, Guarded
<1>2. QED
  BY <1>1, Invariant, PTL

\* A rejected refresh token goes, however saving and marking fail.
THEOREM DeadCredentialGone == Spec => []DeadCredentialDropped
<1>1. IInv => DeadCredentialDropped
  BY DEF IInv
<1>2. QED
  BY <1>1, Invariant, PTL

-----------------------------------------------------------------------------
(***************************************************************************)
(* What a session may write with, however saves fail.  The token comes     *)
(* from the cache and the context from the file: CacheDurable is what      *)
(* makes them agree, until a save that raised has torn them apart.         *)
(***************************************************************************)

\* Cache and session name the grant in the file while it cannot change.
Bound ==
    /\ CacheDurable
    /\ pc.engine = "token" /\ ~torn => file.status = "active" /\ session.grant = file.grant
    /\ SessionBinding

\* A step that touches neither file nor cache and returns no token to the engine.
LEMMA BoundAlone ==
    ASSUME IInv, Bound, UNCHANGED file, cached' # NoToken => UNCHANGED <<cached, torn>>,
           pc'.engine = "token" => pc.engine = "token" /\ UNCHANGED <<session, torn>>,
           session' = NoSession \/ UNCHANGED <<session, mixed>>
    PROVE  Bound'
BY DEF Bound, CacheDurable, SessionBinding, NoSession

LEMMA CallerBound ==
    ASSUME IInv, Bound, NEW t \in Callers, GetAccessToken(t)
    PROVE  Bound'
<1>1. t \in Threads /\ t # "web"
  BY DEF Callers, Threads
<1>2. \A label : Goto(t, label) => pc'.engine = IF t = "engine" THEN label ELSE pc.engine
  BY <1>1, Moved DEF IInv, TypeOK, PcTypes
<1>3. lock.auth = t /\ t # "engine" => pc.engine # "token"
  BY DEF IInv, Owners, Callers
<1>4. ASSUME NEW label, Goto(t, label), label # "token", UNCHANGED <<file, session>>,
             UNCHANGED mixed, cached' # NoToken => UNCHANGED <<cached, torn>>,
             UNCHANGED torn \/ pc.engine # "token" \/ t = "engine"
      PROVE  Bound'
  BY <1>2, <1>4, BoundAlone
<1>5. CASE TakeRequestLock(t) \/ RefreshRequested(t) \/ RefreshAnswered(t)
  BY <1>4, <1>5 DEF TakeRequestLock, RefreshRequested, RefreshAnswered, service, cycle, ghosts
<1>6. CASE CooldownRefuses(t) \/ TokenRefused(t) \/ RefreshFailed(t)
  <2>1. CASE CooldownRefuses(t) \/ RefreshFailed(t)
    BY <1>4, <2>1 DEF CooldownRefuses, RefreshFailed, Abandon, service, cycle, ghosts
  <2>2. CASE TokenRefused(t)
    <3>1. pc.engine # "token"
      BY <2>2 DEF TokenRefused, TakeAuthLock, IInv, Owners, Callers, Nobody
    <3>2. cached' # NoToken => UNCHANGED <<cached, torn>>
      BY <2>2 DEF TokenRefused, IInv, TypeOK
    <3>3. Goto(t, "idle") /\ UNCHANGED <<file, session, mixed>>
      BY <2>2 DEF TokenRefused, Abandon, cycle
    <3>4. QED
      BY <1>4, <3>1, <3>2, <3>3
  <2>3. QED
    BY <1>6, <2>1, <2>2
<1>7. CASE TokenFromCache(t)
  <2>1. cached.fresh /\ UNCHANGED <<file, cached, torn, mixed>> /\ TokenReturned(t, cached.grant)
        /\ lock.auth = Nobody
    BY <1>7 DEF TokenFromCache, TakeAuthLock, service, ghosts
  <2>2. cached # NoToken
    <3>1. NoToken.fresh = FALSE
      BY DEF NoToken
    <3>2. QED
      BY <2>1, <3>1
  <2>3. ~torn => file.status = "active" /\ file.grant = cached.grant
    BY <2>2 DEF Bound, CacheDurable
  <2>4. pc'.engine = (IF t = "engine" THEN "token" ELSE pc.engine) /\ pc.engine # "token"
    BY <1>2, <2>1 DEF TokenReturned, IInv, Owners, Callers, Nobody
  <2>5. session' = IF t = "engine" THEN [grant |-> cached.grant, ctx |-> 0] ELSE session
    BY <2>1 DEF TokenReturned
  <2>6. QED
    BY <2>1, <2>3, <2>4, <2>5 DEF Bound, CacheDurable, SessionBinding
<1>8. CASE TokenAccepted(t)
  <2>1. pc[t] = "answer" /\ lock.auth = t
    BY <1>8 DEF TokenAccepted, IInv, Owners
  <2>2. answer.grant = file.grant
    BY <2>1 DEF IInv, AnswersFit
  <2>3. UNCHANGED mixed
    BY <1>8 DEF TokenAccepted
  <2>4. CASE /\ Abandon(t) /\ UNCHANGED <<cached, session>>
             /\ torn' = (torn \/ (file' # file /\ cached # NoToken))
    <3>1. pc'.engine # "token"
      BY <1>2, <1>3, <2>1, <2>4 DEF Abandon
    <3>2. CacheDurable'
      BY <2>4 DEF Bound, CacheDurable
    <3>3. QED
      BY <2>4, <2>3, <3>1, <3>2 DEF Bound, SessionBinding
  <2>5. CASE /\ TokenReturned(t, answer.grant)
             /\ cached' = [grant |-> answer.grant, gen |-> answer.gen, fresh |-> TRUE]
             /\ file' = [status |-> "active", grant |-> file.grant, gen |-> answer.gen]
    <3>1. pc'.engine = "token" => t = "engine"
      BY <1>2, <1>3, <2>1, <2>5 DEF TokenReturned
    <3>2. session' = IF t = "engine" THEN [grant |-> answer.grant, ctx |-> 0] ELSE session
      BY <2>5 DEF TokenReturned
    <3>3. CacheDurable'
      BY <2>2, <2>5 DEF CacheDurable
    <3>4. SessionBinding'
      BY <2>3, <3>2 DEF Bound, SessionBinding
    <3>5. QED
      BY <2>2, <2>5, <3>1, <3>2, <3>3, <3>4 DEF Bound
  <2>6. QED
    BY <1>8, <2>4, <2>5, TokenAcceptedLeaves
<1>9. CASE GrantRejected(t)
  <2>1. Goto(t, "idle") /\ lock.auth = t /\ cached' = NoToken /\ UNCHANGED <<session, mixed>>
    BY <1>9 DEF GrantRejected, Abandon, IInv, Owners, cycle
  <2>2. pc'.engine # "token"
    BY <1>2, <1>3, <2>1
  <2>3. QED
    BY <2>1, <2>2 DEF Bound, CacheDurable, SessionBinding
<1>10. QED
  BY <1>5, <1>6, <1>7, <1>8, <1>9 DEF GetAccessToken

LEMMA EngineBound ==
    ASSUME IInv, Bound, EngineStep PROVE Bound'
<1>1. \A label : Goto("engine", label) => pc'.engine = label
  BY Moved DEF IInv, TypeOK, PcTypes, Threads
<1>2. CASE SessionBound
  <2>1. CASE ContextOf(file) = 0
    BY <1>1, <1>2, <2>1, BoundAlone DEF SessionBound, service
  <2>2. CASE ContextOf(file) # 0
    <3>1. pc'.engine = "run" /\ session' = [session EXCEPT !.ctx = ContextOf(file)]
          /\ UNCHANGED <<file, cached, torn>> /\ mixed' = torn /\ pc.engine = "token"
      BY <1>1, <1>2, <2>2 DEF SessionBound, service
    <3>2. session'.grant = session.grant /\ session'.ctx = ContextOf(file)
      BY <3>1 DEF IInv, TypeOK
    <3>3. ~torn => session.grant = ContextOf(file)
      BY <3>1 DEF Bound, ContextOf
    <3>4. QED
      BY <3>1, <3>2, <3>3 DEF Bound, CacheDurable, SessionBinding
  <2>3. QED
    BY <2>1, <2>2
<1>3. CASE CycleStarts \/ CycleEnds
  BY <1>1, <1>3, BoundAlone DEF CycleStarts, CycleEnds, service, ghosts
<1>4. CASE WriteRefused \/ GuardEntered \/ TakeConfigLock \/ GuardPassed \/ WriteSent \/ WriteDone
  BY <1>1, <1>4, BoundAlone
     DEF WriteRefused, GuardEntered, TakeConfigLock, GuardPassed, WriteSent, WriteDone, service,
         cycle, ghosts
<1>5. QED
  BY <1>2, <1>3, <1>4 DEF EngineStep

LEMMA WebBound ==
    ASSUME IInv, Bound, WebStep PROVE Bound'
<1>1. \A label : Goto("web", label) => pc'.engine = pc.engine
  BY Moved DEF IInv, TypeOK, PcTypes, Threads
<1>2. CASE AuthorizationStarts \/ CallbackRefused
  BY <1>2, BoundAlone DEF AuthorizationStarts, CallbackRefused, cycle, ghosts
<1>3. CASE CallbackAccepted \/ CodeExchanged \/ ExchangeFailed
  BY <1>1, <1>3, BoundAlone
     DEF CallbackAccepted, CodeExchanged, ExchangeFailed, Abandon, service, cycle, ghosts
<1>4. CASE GrantSaved
  <2> DEFINE record == [status |-> "active", grant |-> answer.grant, gen |-> answer.gen]
  <2>1. PICK o \in SaveOutcomes(record) :
           /\ file' = o.file
           /\ IF o.raised
                 THEN /\ torn' = (torn \/ (o.file # file /\ cached # NoToken))
                      /\ UNCHANGED <<cached, reauth>>
                 ELSE /\ reauth' = FALSE /\ torn' = FALSE
                      /\ cached' = [grant |-> answer.grant, gen |-> answer.gen, fresh |-> TRUE]
    BY <1>4 DEF GrantSaved, Unrefreshed
  <2>2. ~o.raised => o.file = record
    BY <2>1, SaveLeaves, Zenon
  <2>3. pc'.engine = pc.engine /\ pc.engine # "token" /\ UNCHANGED <<session, mixed>>
    BY <1>1, <1>4 DEF GrantSaved, Abandon, IInv, Owners, Callers, cycle
  <2>4. CASE o.raised
    <3>1. cached' = cached /\ torn' = (torn \/ (file' # file /\ cached # NoToken))
      BY <2>1, <2>4
    <3>2. QED
      BY <2>3, <3>1 DEF Bound, CacheDurable, SessionBinding
  <2>5. CASE ~o.raised
    <3>1. file' = record /\ cached' = [grant |-> answer.grant, gen |-> answer.gen, fresh |-> TRUE]
      BY <2>1, <2>2, <2>5
    <3>2. QED
      BY <2>3, <3>1 DEF Bound, CacheDurable, SessionBinding
  <2>6. QED
    BY <2>4, <2>5
<1>5. QED
  BY <1>2, <1>3, <1>4 DEF WebStep

LEMMA BoundKeeps ==
    ASSUME IInv, Bound, [Next]_vars PROVE Bound'
<1>1. CASE \E t \in Callers : GetAccessToken(t)
  BY <1>1, CallerBound
<1>2. CASE EngineStep
  BY <1>2, EngineBound
<1>3. CASE AdminStarts
  <2>1. pc'.engine = pc.engine
    BY <1>3, Moved DEF AdminStarts, IInv, TypeOK, PcTypes, Threads
  <2>2. QED
    BY <1>3, <2>1, BoundAlone DEF AdminStarts, service, cycle, ghosts
<1>4. CASE AdminDone
  <2>1. pc'.engine = pc.engine
    BY <1>4, Moved DEF AdminDone, Abandon, IInv, TypeOK, PcTypes, Threads
  <2>2. QED
    BY <1>4, <2>1, BoundAlone DEF AdminDone, service, cycle, ghosts
<1>5. CASE WebStep
  BY <1>5, WebBound
<1>6. CASE TokenExpires
  <2>1. cached' = [cached EXCEPT !.fresh = FALSE] /\ UNCHANGED <<file, pc, session, torn, mixed>>
    BY <1>6 DEF TokenExpires, cycle, ghosts
  <2>2. cached # NoToken
    <3>1. cached.fresh /\ NoToken.fresh = FALSE
      BY <1>6 DEF TokenExpires, NoToken
    <3>2. QED
      BY <3>1
  <2>3. cached'.grant = cached.grant /\ cached'.gen = cached.gen
    BY <2>1 DEF IInv, TypeOK
  <2>4. QED
    BY <2>1, <2>2, <2>3 DEF Bound, CacheDurable, SessionBinding
<1>7. CASE PendingExpires \/ Revoked
  BY <1>7, BoundAlone DEF PendingExpires, Revoked, service, cycle, ghosts
<1>8. CASE Restart
  <2>1. pc'.engine = "idle" /\ session' = NoSession /\ cached' = NoToken /\ UNCHANGED file
    BY <1>8 DEF Restart
  <2>2. QED
    BY <2>1, BoundAlone
<1>9. CASE UNCHANGED vars
  BY <1>9, BoundAlone DEF vars, service, cycle, ghosts
<1>10. QED
  BY <1>1, <1>2, <1>3, <1>4, <1>5, <1>6, <1>7, <1>8, <1>9 DEF Next, Environment, Callers

LEMMA BoundInvariant == Spec => []Bound
<1>1. Init => Bound
  BY DEF Init, Bound, CacheDurable, SessionBinding, NoSession
<1>2. IInv /\ Bound /\ [Next]_vars => Bound'
  BY BoundKeeps
<1>3. QED
  BY <1>1, <1>2, Invariant, PTL DEF Spec

\* However saves fail: a session writes with its context's account unless it was
\* bound to a token that a save which raised after replacing the file had left.
THEOREM SessionsBound == Spec => []SessionBinding
<1>1. Bound => SessionBinding
  BY DEF Bound
<1>2. QED
  BY <1>1, BoundInvariant, PTL

\* The cache never holds what a restart would lose, with the same exception.
THEOREM CacheIsDurable == Spec => []CacheDurable
<1>1. Bound => CacheDurable
  BY DEF Bound
<1>2. QED
  BY <1>1, BoundInvariant, PTL

=============================================================================
