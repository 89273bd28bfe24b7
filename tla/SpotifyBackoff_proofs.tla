------------------------- MODULE SpotifyBackoff_proofs -------------------------
(***************************************************************************)
(* Proofs about the shared Spotify rate limit, for every set of clients,   *)
(* every Retry-After, every clock bound and every number of restarts.      *)
(*                                                                         *)
(* The inductive invariant has two parts beyond the types: the deadline    *)
(* imposed by the last 429 is covered by the row or by the memory fallback *)
(* until it has passed (Covered), and nothing is in flight before then     *)
(* (CooldownObeyed). The exclusive request lock, part of TypeOK, is what   *)
(* makes the second survive a 429 received by another client.              *)
(***************************************************************************)
EXTENDS SpotifyBackoff, TLAPS

Covered == imposed <= Deadline \/ imposed <= now

NoClientFromTheFuture == \A c \in Clients : since[c] <= now

IInv == TypeOK /\ NoClientFromTheFuture /\ Covered /\ CooldownObeyed

\* _retry_deadline always waits a natural number of ticks.
LEMMA RetryDelayIsNat ==
  ASSUME NEW h \in RetryAfters \union {NoHeader}
  PROVE  RetryDelay(h) \in Nat
BY ConstantsAssumption DEF RetryDelay

-------------------------------------------------------------------------------
\* Types and the lock discipline: the holder is the client inside the region.
THEOREM TypeCorrect == Spec => []TypeOK
<1>1. Init => TypeOK
  BY ConstantsAssumption DEF Init, TypeOK, Places, Holding
<1>2. TypeOK /\ [Next]_vars => TypeOK'
  <2> SUFFICES ASSUME TypeOK, [Next]_vars PROVE TypeOK'
    OBVIOUS
  <2> USE ConstantsAssumption DEF TypeOK, Places, Holding
  <2>1. CASE Tick
    BY <2>1 DEF Tick
  <2>2. CASE Restart
    BY <2>2 DEF Restart
  <2>3. ASSUME NEW c \in Clients, Step(c) PROVE TypeOK'
    <3>1. CASE Start(c)
      BY <3>1 DEF Start, StartWith
    <3>2. CASE Finish(c)
      BY <3>2 DEF Finish
    <3>3. CASE AskToken(c) \/ AskCall(c)
      BY <3>3 DEF AskToken, AskCall, Enter, GateFree
    <3>4. CASE SuppressToken(c)
      BY <3>4 DEF SuppressToken, Active, ActiveFromMemory, ActiveFromRow, Leave, Later
    <3>5. CASE TokenUnavailable(c)
      BY <3>5 DEF TokenUnavailable, Unavailable, Leave
    <3>6. CASE SendToken(c)
      BY <3>6 DEF SendToken, Inactive
    <3>7. CASE TokenAnswered(c)
      BY <3>7 DEF TokenAnswered, Leave
    <3>8. CASE SuppressedByLatch(c)
      BY <3>8 DEF SuppressedByLatch, Leave
    <3>9. CASE SuppressedByJournal(c)
      BY <3>9 DEF SuppressedByJournal, Active, ActiveFromMemory, ActiveFromRow, Leave, Later
    <3>10. CASE CallUnavailable(c)
      BY <3>10 DEF CallUnavailable, Unavailable, Leave
    <3>11. CASE Send(c)
      BY <3>11 DEF Send, Inactive
    <3>12. CASE Answered(c)
      BY <3>12 DEF Answered, Leave
    <3>13. CASE RateLimited(c)
      <4>1. PICK h \in RetryAfters \union {NoHeader} :
              /\ now + RetryDelay(h) <= MaxTime
              /\ fallback' = Remember(now + RetryDelay(h))
              /\ imposed' = Later(now + RetryDelay(h), imposed)
        BY <3>13 DEF RateLimited
      <4>2. RetryDelay(h) \in Nat
        BY RetryDelayIsNat
      <4>3. fallback' \in 0..MaxTime /\ imposed' \in 0..MaxTime
        BY <4>1, <4>2 DEF Remember, Later
      <4>4. QED
        BY <3>13, <4>3 DEF RateLimited
    <3>14. CASE Store(c)
      BY <3>14 DEF Store, Leave, Later
    <3>15. CASE StoreFails(c)
      BY <3>15 DEF StoreFails, Leave
    <3>16. QED
      BY <2>3, <3>1, <3>2, <3>3, <3>4, <3>5, <3>6, <3>7, <3>8, <3>9, <3>10,
         <3>11, <3>12, <3>13, <3>14, <3>15 DEF Step
  <2>4. CASE UNCHANGED vars
    BY <2>4 DEF vars
  <2>5. QED
    BY <2>1, <2>2, <2>3, <2>4 DEF Next
<1>3. QED
  BY <1>1, <1>2, PTL DEF Spec

-------------------------------------------------------------------------------
\* The outcomes of journal.active(): a live deadline is never lost, and a request
\* may go only when the imposed deadline has passed.
LEMMA ActiveKeepsCover ==
  ASSUME IInv, NEW observed \in Int, observed <= now, UNCHANGED <<now, imposed>>,
         \/ \E d \in {row, fallback} : Active(observed, d)
         \/ Inactive(observed)
         \/ Unavailable(observed)
  PROVE  Covered' /\ (Inactive(observed) => imposed <= now)
BY ConstantsAssumption
   DEF IInv, TypeOK, Covered, Deadline, Active, ActiveFromMemory, ActiveFromRow, Inactive,
       Unavailable, Expired, Later

\* The inductive invariant holds.
LEMMA Invariance == Spec => []IInv
<1>1. Init => IInv
  BY ConstantsAssumption
     DEF Init, IInv, TypeOK, Places, Holding, NoClientFromTheFuture, Covered, CooldownObeyed,
         InFlight
<1>2. IInv /\ TypeOK' /\ [Next]_vars => IInv'
  <2> SUFFICES ASSUME IInv, TypeOK', [Next]_vars
               PROVE  NoClientFromTheFuture' /\ Covered' /\ CooldownObeyed'
    BY DEF IInv
  <2> USE ConstantsAssumption
  <2>1. CASE Tick
    BY <2>1 DEF Tick, IInv, TypeOK, NoClientFromTheFuture, Covered, Deadline, CooldownObeyed
  <2>2. CASE Restart
    BY <2>2 DEF Restart, IInv, TypeOK, NoClientFromTheFuture, Covered, Deadline, Later,
                CooldownObeyed, InFlight
  <2>3. ASSUME NEW c \in Clients, Step(c)
        PROVE  NoClientFromTheFuture' /\ Covered' /\ CooldownObeyed'
    <3>1. CASE Start(c)
      BY <3>1 DEF Start, StartWith, IInv, TypeOK, NoClientFromTheFuture, Covered, Deadline,
                  CooldownObeyed, InFlight
    <3>2. CASE Finish(c)
      BY <3>2 DEF Finish, IInv, TypeOK, NoClientFromTheFuture, Covered, Deadline,
                  CooldownObeyed, InFlight
    <3>3. CASE AskToken(c) \/ AskCall(c)
      BY <3>3 DEF AskToken, AskCall, Enter, IInv, TypeOK, NoClientFromTheFuture, Covered,
                  Deadline, CooldownObeyed, InFlight
    <3>4. CASE SuppressToken(c) \/ TokenUnavailable(c) \/ SendToken(c)
      <4>1. PICK observed \in {since[c], now} :
              \/ SuppressToken(c) /\ \E d \in {row, fallback} : Active(observed, d)
              \/ TokenUnavailable(c) /\ Unavailable(observed)
              \/ SendToken(c) /\ Inactive(observed)
        BY <3>4 DEF SuppressToken, TokenUnavailable, SendToken, ObservedBy
      <4>2. observed \in Int /\ observed <= now
        BY DEF IInv, TypeOK, NoClientFromTheFuture
      <4>3. UNCHANGED <<now, imposed, since>>
        BY <3>4 DEF SuppressToken, TokenUnavailable, SendToken
      <4>4. Covered' /\ (Inactive(observed) => imposed <= now)
        BY <4>1, <4>2, <4>3, ActiveKeepsCover
      <4>5. CooldownObeyed'
        BY <3>4, <4>1, <4>3, <4>4
           DEF SuppressToken, TokenUnavailable, SendToken, Leave, IInv, TypeOK,
               CooldownObeyed, InFlight
      <4>6. QED
        BY <4>3, <4>4, <4>5 DEF IInv, NoClientFromTheFuture
    <3>5. CASE SuppressedByJournal(c) \/ CallUnavailable(c) \/ Send(c)
      <4>1. UNCHANGED <<now, imposed, since>>
        BY <3>5 DEF SuppressedByJournal, CallUnavailable, Send
      <4>2. now \in Int /\ now <= now
        BY DEF IInv, TypeOK
      <4>3. Covered' /\ (Inactive(now) => imposed <= now)
        BY <3>5, <4>1, <4>2, ActiveKeepsCover DEF SuppressedByJournal, CallUnavailable, Send
      <4>4. CooldownObeyed'
        BY <3>5, <4>1, <4>3
           DEF SuppressedByJournal, CallUnavailable, Send, Leave, IInv, TypeOK,
               CooldownObeyed, InFlight
      <4>5. QED
        BY <4>1, <4>3, <4>4 DEF IInv, NoClientFromTheFuture
    <3>6. CASE TokenAnswered(c) \/ Answered(c) \/ SuppressedByLatch(c) \/ StoreFails(c)
      BY <3>6 DEF TokenAnswered, Answered, SuppressedByLatch, StoreFails, Leave, IInv, TypeOK,
                  NoClientFromTheFuture, Covered, Deadline, CooldownObeyed, InFlight
    <3>7. CASE RateLimited(c)
      <4>1. PICK h \in RetryAfters \union {NoHeader} :
              /\ fallback' = Remember(now + RetryDelay(h))
              /\ imposed' = Later(now + RetryDelay(h), imposed)
        BY <3>7 DEF RateLimited
      <4>2. RetryDelay(h) \in Nat
        BY RetryDelayIsNat
      <4>3. imposed <= now
        BY <3>7 DEF RateLimited, IInv, CooldownObeyed, InFlight
      <4>4. Covered'
        BY <3>7, <4>1, <4>2, <4>3
           DEF RateLimited, Remember, Later, Covered, Deadline, IInv, TypeOK
      <4>5. \A e \in Clients : pc'[e] \notin InFlight
        BY <3>7 DEF RateLimited, IInv, TypeOK, Holding, InFlight
      <4>6. QED
        BY <3>7, <4>4, <4>5
           DEF RateLimited, IInv, NoClientFromTheFuture, CooldownObeyed
    <3>8. CASE Store(c)
      BY <3>8 DEF Store, Leave, Later, IInv, TypeOK, NoClientFromTheFuture, Covered, Deadline,
                  CooldownObeyed, InFlight
    <3>9. QED
      BY <2>3, <3>1, <3>2, <3>3, <3>4, <3>5, <3>6, <3>7, <3>8 DEF Step
  <2>4. CASE UNCHANGED vars
    BY <2>4 DEF vars, IInv, NoClientFromTheFuture, Covered, Deadline, CooldownObeyed
  <2>5. QED
    BY <2>1, <2>2, <2>3, <2>4 DEF Next
<1>3. QED
  BY <1>1, <1>2, TypeCorrect, PTL DEF Spec

\* No request of any client is in flight under a live cooldown, whatever SQLite did.
THEOREM CooldownHolds == Spec => []CooldownObeyed
<1>1. IInv => CooldownObeyed
  BY DEF IInv
<1>2. QED
  BY <1>1, Invariance, PTL

-------------------------------------------------------------------------------
\* Every step of the journal, the guards and the process is a step of Cooldown or
\* leaves the deadline, the stored deadline and the requests in flight alone.
LEMMA StepSimulation ==
  ASSUME TypeOK, TypeOK', NoClientFromTheFuture, [Next]_vars
  PROVE  [Shared!Next]_(Shared!vars)
<1> DEFINE busy == \E c \in Clients : pc[c] \in InFlight
<1> USE ConstantsAssumption
<1>1. CASE Tick
  BY <1>1 DEF Tick, Deadline, Shared!Next, Shared!Tick
<1>2. CASE Restart
  <2>1. Deadline' = row /\ ~busy'
    BY <1>2 DEF Restart, Deadline, Later, InFlight, TypeOK
  <2>2. QED
    BY <1>2, <2>1 DEF Restart, Shared!Next, Shared!Restart
<1>3. ASSUME NEW c \in Clients, Step(c) PROVE [Shared!Next]_(Shared!vars)
  <2> DEFINE Quiet == UNCHANGED <<now, Deadline, row, busy, restarts>>
             Lapses == /\ Deadline <= now
                       /\ row' \in {0, row} /\ Deadline' = row'
                       /\ now' = now /\ busy' = busy /\ restarts' = restarts
  <2> SUFFICES \/ Quiet \/ Lapses
               \/ Shared!Send \/ Shared!Reply \/ Shared!Limit \/ Shared!Persist
    BY DEF Shared!Next, Shared!vars, Shared!Lapse
  <2>0. restarts' = restarts
    BY <1>3 DEF Step, Start, StartWith, Finish, AskToken, AskCall, Enter, SuppressedByLatch,
                StoreFails, SuppressToken, SuppressedByJournal, TokenUnavailable,
                CallUnavailable, SendToken, Send, TokenAnswered, Answered, RateLimited, Store
  <2>1. CASE Start(c) \/ Finish(c) \/ AskToken(c) \/ AskCall(c) \/ SuppressedByLatch(c)
              \/ StoreFails(c)
    BY <2>0, <2>1 DEF Start, StartWith, Finish, AskToken, AskCall, Enter, SuppressedByLatch,
                StoreFails, Leave, Deadline, TypeOK, Holding, InFlight
  <2>2. CASE SuppressToken(c) \/ SuppressedByJournal(c)
    <3>1. PICK observed \in {since[c], now}, d \in {row, fallback} : Active(observed, d)
      BY <2>2 DEF SuppressToken, SuppressedByJournal, ObservedBy
    <3>2. observed \in Int /\ observed <= now
      BY DEF TypeOK, NoClientFromTheFuture
    <3>3. busy' = busy /\ now' = now
      BY <2>2 DEF SuppressToken, SuppressedByJournal, Leave, TypeOK, Holding, InFlight
    <3>4. CASE ActiveFromMemory(observed, d)
      BY <2>0, <3>3, <3>4 DEF ActiveFromMemory, Deadline, Later, TypeOK, Shared!Persist
    <3>5. CASE ActiveFromRow(observed, d)
      BY <2>0, <3>2, <3>3, <3>5 DEF ActiveFromRow, Expired, Deadline, Later, TypeOK
    <3>6. QED
      BY <3>1, <3>4, <3>5 DEF Active
  <2>3. CASE TokenUnavailable(c) \/ CallUnavailable(c)
    <3>1. PICK observed \in {since[c], now} : Unavailable(observed)
      BY <2>3 DEF TokenUnavailable, CallUnavailable, ObservedBy
    <3>2. observed \in Int /\ observed <= now
      BY DEF TypeOK, NoClientFromTheFuture
    <3>3. busy' = busy /\ now' = now
      BY <2>3 DEF TokenUnavailable, CallUnavailable, Leave, TypeOK, Holding, InFlight
    <3>4. QED
      BY <2>0, <3>1, <3>2, <3>3 DEF Unavailable, Expired, Deadline, Later, TypeOK
  <2>4. CASE SendToken(c) \/ Send(c)
    <3>1. PICK observed \in {since[c], now} : Inactive(observed)
      BY <2>4 DEF SendToken, Send, ObservedBy
    <3>2. observed \in Int /\ observed <= now
      BY DEF TypeOK, NoClientFromTheFuture
    <3>3. ~busy /\ busy' /\ now' = now
      BY <2>4 DEF SendToken, Send, TypeOK, Holding, InFlight
    <3>4. Deadline <= now /\ Deadline' = 0 /\ row' = 0
      BY <3>1, <3>2 DEF Inactive, Expired, Deadline, Later, TypeOK
    <3>5. QED
      BY <2>0, <3>3, <3>4 DEF Shared!Send
  <2>5. CASE TokenAnswered(c) \/ Answered(c)
    <3>1. busy /\ ~busy' /\ UNCHANGED <<now, Deadline, row>>
      BY <2>5 DEF TokenAnswered, Answered, Leave, Deadline, TypeOK, Holding, InFlight
    <3>2. QED
      BY <2>0, <3>1 DEF Shared!Reply
  <2>6. CASE RateLimited(c)
    <3>1. PICK h \in RetryAfters \union {NoHeader} :
            fallback' = Remember(now + RetryDelay(h))
      BY <2>6 DEF RateLimited
    <3>2. RetryDelay(h) \in Nat
      BY RetryDelayIsNat
    <3>3. busy /\ ~busy' /\ UNCHANGED <<now, row>>
      BY <2>6 DEF RateLimited, TypeOK, Holding, InFlight
    <3>4. Deadline' = IF now + RetryDelay(h) > Deadline THEN now + RetryDelay(h) ELSE Deadline
      BY <3>1, <3>2, <3>3 DEF Deadline, Remember, Later, TypeOK
    <3>5. QED
      BY <2>0, <3>3, <3>4 DEF Shared!Limit
  <2>7. CASE Store(c)
    <3>1. busy' = busy /\ UNCHANGED <<now, Deadline>> /\ row' = Deadline
      BY <2>7 DEF Store, Leave, Deadline, Later, TypeOK, Holding, InFlight
    <3>2. QED
      BY <2>0, <3>1 DEF Shared!Persist
  <2>8. QED
    BY <1>3, <2>1, <2>2, <2>3, <2>4, <2>5, <2>6, <2>7 DEF Step
<1>4. CASE UNCHANGED vars
  BY <1>4 DEF vars, Deadline, Shared!vars
<1>5. QED
  BY <1>1, <1>2, <1>3, <1>4 DEF Next

\* The row, the memory fallback, the lock and the latches implement one Cooldown.
THEOREM CooldownImplemented == Spec => ImplementsCooldown
<1>1. Init => Shared!Init
  BY DEF Init, Shared!Init, Deadline, Later, InFlight
<1>2. IInv /\ IInv' /\ [Next]_vars => [Shared!Next]_(Shared!vars)
  BY StepSimulation DEF IInv
<1>3. QED
  BY <1>1, <1>2, Invariance, PTL DEF Spec, Shared!Spec, ImplementsCooldown

\* A live deadline moves only later, except across a restart.
THEOREM DeadlineExtends == Spec => DeadlineOnlyExtends
<1> USE DEF IInv
<1>1. ASSUME IInv, [Next]_vars
      PROVE  [Deadline' >= Deadline \/ Deadline <= now \/ restarts' # restarts]_vars
  <2>1. CASE Restart
    BY <2>1 DEF Restart, TypeOK
  <2>2. CASE ~Restart /\ ~UNCHANGED vars
    <3>1. CASE Tick
      BY <1>1, <3>1 DEF Tick, Deadline, Later, TypeOK
    <3>2. ASSUME NEW c \in Clients, Step(c)
          PROVE  Deadline' >= Deadline \/ Deadline <= now
      <4>1. CASE RateLimited(c)
        <5>1. PICK h \in RetryAfters \union {NoHeader} :
                fallback' = Remember(now + RetryDelay(h))
          BY <4>1 DEF RateLimited
        <5>2. RetryDelay(h) \in Nat
          BY RetryDelayIsNat
        <5>3. QED
          BY <1>1, <4>1, <5>1, <5>2 DEF RateLimited, Remember, Deadline, Later, TypeOK
      <4>2. CASE SuppressToken(c) \/ TokenUnavailable(c) \/ SendToken(c)
        BY <4>2, <1>1
           DEF SuppressToken, TokenUnavailable, SendToken, ObservedBy, Active, ActiveFromMemory,
               ActiveFromRow, Inactive, Unavailable, Expired, Deadline, Later, TypeOK,
               NoClientFromTheFuture
      <4>3. CASE SuppressedByJournal(c) \/ CallUnavailable(c) \/ Send(c)
        BY <4>3, <1>1
           DEF SuppressedByJournal, CallUnavailable, Send, Active, ActiveFromMemory,
               ActiveFromRow, Inactive, Unavailable, Expired, Deadline, Later, TypeOK
      <4>4. CASE Store(c)
        BY <4>4, <1>1 DEF Store, Deadline, Later, TypeOK
      <4>5. CASE \/ Start(c) \/ Finish(c) \/ AskToken(c) \/ AskCall(c) \/ TokenAnswered(c)
                 \/ Answered(c) \/ SuppressedByLatch(c) \/ StoreFails(c)
        BY <4>5, <1>1
           DEF Start, StartWith, Finish, AskToken, AskCall, Enter, TokenAnswered, Answered,
               SuppressedByLatch, StoreFails, Deadline, Later, TypeOK
      <4>6. QED
        BY <3>2, <4>1, <4>2, <4>3, <4>4, <4>5 DEF Step
    <3>3. QED
      BY <1>1, <2>2, <3>1, <3>2 DEF Next
  <2>3. QED
    BY <2>1, <2>2
<1>2. QED
  BY <1>1, Invariance, PTL DEF Spec, DeadlineOnlyExtends

-------------------------------------------------------------------------------
\* Why a stored 429 silences its client: the deadline it stores is in memory when
\* it does, so the latch it sets is never the empty one, and nothing but the
\* client's end clears a latch.
Silenced ==
  /\ \A c \in Clients : pc[c] = "persist" => fallback # 0
  /\ \A c \in limited : latch[c] # 0 /\ pc[c] # "callInFlight"

LEMMA SilencedStep ==
  ASSUME TypeOK, Silenced, [Next]_vars PROVE Silenced'
<1> USE ConstantsAssumption DEF TypeOK, Places, Holding, Silenced
<1>1. CASE Tick
  BY <1>1 DEF Tick
<1>2. CASE Restart
  BY <1>2 DEF Restart
<1>3. ASSUME NEW c \in Clients, Step(c) PROVE Silenced'
  <2>1. CASE Start(c)
    BY <2>1 DEF Start, StartWith
  <2>2. CASE Finish(c) \/ AskToken(c) \/ AskCall(c)
    BY <2>2 DEF Finish, AskToken, AskCall, Enter, GateFree
  <2>3. CASE SuppressToken(c) \/ TokenUnavailable(c)
    BY <2>3 DEF SuppressToken, TokenUnavailable, Leave
  <2>4. CASE SendToken(c)
    BY <2>4 DEF SendToken
  <2>5. CASE TokenAnswered(c) \/ Answered(c) \/ SuppressedByLatch(c) \/ StoreFails(c)
    BY <2>5 DEF TokenAnswered, Answered, SuppressedByLatch, StoreFails, Leave
  <2>6. CASE SuppressedByJournal(c) \/ CallUnavailable(c) \/ Send(c)
    BY <2>6 DEF SuppressedByJournal, CallUnavailable, Send, Leave
  <2>7. CASE RateLimited(c)
    <3>1. PICK h \in RetryAfters \union {NoHeader} :
            fallback' = Remember(now + RetryDelay(h))
      BY <2>7 DEF RateLimited
    <3>2. RetryDelay(h) \in Nat
      BY RetryDelayIsNat
    <3>3. fallback' # 0
      BY <3>1, <3>2 DEF Remember, Later
    <3>4. QED
      BY <2>7, <3>3 DEF RateLimited
  <2>8. CASE Store(c)
    <3>1. row' # 0
      BY <2>8 DEF Store, Later
    <3>2. \A e \in Clients : pc[e] = "persist" => e = c
      BY <2>8 DEF Store
    <3>3. QED
      BY <2>8, <3>1, <3>2 DEF Store, Leave
  <2>9. QED
    BY <1>3, <2>1, <2>2, <2>3, <2>4, <2>5, <2>6, <2>7, <2>8 DEF Step
<1>4. CASE UNCHANGED vars
  BY <1>4 DEF vars
<1>5. QED
  BY <1>1, <1>2, <1>3, <1>4 DEF Next

\* A client whose 429 has been stored makes no call for as long as it lives, even
\* when Retry-After has passed.
THEOREM LimitedSilent == Spec => []LimitedStaysSilent
<1>1. Init => Silenced
  BY DEF Init, Silenced
<1>2. TypeOK /\ Silenced /\ [Next]_vars => Silenced'
  BY SilencedStep
<1>3. Silenced => LimitedStaysSilent
  BY DEF Silenced, LimitedStaysSilent
<1>4. QED
  BY <1>1, <1>2, <1>3, TypeCorrect, PTL DEF Spec
=============================================================================
