---------------------------- MODULE SpotifyBackoff ----------------------------
(***************************************************************************)
(* The Spotify Web API rate limit shared by the engine thread and the      *)
(* admin thread (spotify_backoff.py): one SQLite row, one deadline kept in *)
(* process memory when SQLite cannot be written, one lock per process that *)
(* is held over "check the deadline, send the request, record a 429", and  *)
(* in each guard client a latch that lasts as long as the client does.     *)
(*                                                                         *)
(* A client is one guarded unit of work: an engine cycle or one admin      *)
(* request. It first asks for a token (SpotifyRateLimitGuardAuth), then    *)
(* makes Web API calls (SpotifyRateLimitGuardClient).                      *)
(***************************************************************************)
EXTENDS Integers

CONSTANTS Clients,        \* guarded units of work
          None,           \* nobody holds the request lock
          RetryAfters,    \* Retry-After values a 429 may carry (ticks)
          NoHeader,       \* a 429 with no usable Retry-After
          FallbackDelay,  \* DEFAULT_SPOTIFY_RATE_LIMIT_FALLBACK_SECONDS
          StoreMayFail,   \* TRUE if a SQLite operation may fail
          MaxTime,        \* bound of the clock
          MaxRestarts     \* bound of the number of restarts

ASSUME ConstantsAssumption ==
  /\ None \notin Clients
  /\ RetryAfters \subseteq Nat
  /\ NoHeader \notin Nat
  /\ FallbackDelay \in Nat
  /\ StoreMayFail \in BOOLEAN
  /\ MaxTime \in Nat \ {0}
  /\ MaxRestarts \in Nat

VARIABLES
  now,       \* the wall clock, in ticks
  row,       \* retry_not_before of the durable row, 0 when there is no row
  fallback,  \* _fallback_by_path: a deadline kept in memory, 0 when there is none
  holder,    \* the client that holds _request_lock
  pc,        \* where each client is
  since,     \* the time each client took as its `now` when it started
  latch,     \* _cycle_limited of each client, 0 when it is None
  restarts,  \* number of restarts so far
  imposed,   \* history: the latest deadline a 429 set in this process lifetime
  limited    \* history: the clients whose 429 was stored since they started

vars == <<now, row, fallback, holder, pc, since, latch, restarts, imposed, limited>>

Places == {"idle", "started", "ready",       \* outside the lock
           "token", "call",                  \* holding the lock, before the check
           "tokenInFlight", "callInFlight",  \* the request is at Spotify
           "persist"}                        \* a 429 is remembered, not yet stored

Holding  == {"token", "call", "tokenInFlight", "callInFlight", "persist"}
InFlight == {"tokenInFlight", "callInFlight"}

Later(d, e) == IF d > e THEN d ELSE e

\* _retry_deadline: a missing, negative or unrepresentable Retry-After waits the fallback.
RetryDelay(h) == IF h = NoHeader THEN FallbackDelay ELSE h

Init ==
  /\ now = 1
  /\ row = 0
  /\ fallback = 0
  /\ holder = None
  /\ pc = [c \in Clients |-> "idle"]
  /\ since = [c \in Clients |-> 1]
  /\ latch = [c \in Clients |-> 0]
  /\ restarts = 0
  /\ imposed = 0
  /\ limited = {}

Tick ==
  /\ now < MaxTime
  /\ now' = now + 1
  /\ UNCHANGED <<row, fallback, holder, pc, since, latch, restarts, imposed, limited>>

-------------------------------------------------------------------------------
\* A cycle or an admin request starts: a fresh guard client, its own `now`.
StartWith(c, l) ==
  /\ pc[c] = "idle"
  /\ pc' = [pc EXCEPT ![c] = "started"]
  /\ since' = [since EXCEPT ![c] = now]
  /\ latch' = [latch EXCEPT ![c] = l]
  /\ limited' = limited \ {c}
  /\ UNCHANGED <<now, row, fallback, holder, restarts, imposed>>

StartKeepingLatch(c) == StartWith(c, latch[c])

Start(c) == StartWith(c, 0)

Finish(c) ==
  /\ pc[c] \in {"started", "ready"}
  /\ pc' = [pc EXCEPT ![c] = "idle"]
  /\ UNCHANGED <<now, row, fallback, holder, since, latch, restarts, imposed, limited>>

NoGate == TRUE

\* The request lock is one per database path, shared by every client of the process.
GateFree == holder = None

Enter(c, from, to) ==
  /\ pc[c] = from
  /\ GateFree
  /\ holder' = c
  /\ pc' = [pc EXCEPT ![c] = to]
  /\ UNCHANGED <<now, row, fallback, since, latch, restarts, imposed, limited>>

AskToken(c) == Enter(c, "started", "token")
AskCall(c)  == Enter(c, "ready", "call")

Leave(c, to) ==
  /\ pc' = [pc EXCEPT ![c] = to]
  /\ holder' = None

-------------------------------------------------------------------------------
(* SpotifyRateLimitJournal.active(now=observed), by outcome.               *)

NeverExpires(d, observed) == d = 0

\* No deadline, or one that is not after the observed time.
Expired(d, observed) == d <= observed

\* The memory fallback is live: store it, or report it unstored.
ActiveFromMemory(observed, d) ==
  /\ ~Expired(fallback, observed)
  /\ \/ /\ row' = Later(fallback, row)
        /\ fallback' = 0
        /\ d = row'
     \/ /\ StoreMayFail
        /\ d = fallback
        /\ UNCHANGED <<row, fallback>>

\* The fallback, if any, has passed and is forgotten; the row is live.
ActiveFromRow(observed, d) ==
  /\ Expired(fallback, observed)
  /\ ~Expired(row, observed)
  /\ fallback' = 0
  /\ d = row
  /\ UNCHANGED row

Active(observed, d) == ActiveFromMemory(observed, d) \/ ActiveFromRow(observed, d)

\* Neither is live: the expired row is deleted and the request may go.
Inactive(observed) ==
  /\ Expired(fallback, observed)
  /\ Expired(row, observed)
  /\ fallback' = 0
  /\ row' = 0

\* The row cannot be read or deleted; an expired fallback is already forgotten.
Unavailable(observed) ==
  /\ StoreMayFail
  /\ Expired(fallback, observed)
  /\ fallback' = 0
  /\ UNCHANGED row

-------------------------------------------------------------------------------
(* SpotifyRateLimitGuardAuth: the caller may pass the time its cycle began. *)

ObservedBy(c) == {since[c], now}

SuppressToken(c) ==
  /\ pc[c] = "token"
  /\ \E observed \in ObservedBy(c), d \in {row, fallback} : Active(observed, d)
  /\ Leave(c, "started")
  /\ UNCHANGED <<now, since, latch, restarts, imposed, limited>>

TokenUnavailable(c) ==
  /\ pc[c] = "token"
  /\ \E observed \in ObservedBy(c) : Unavailable(observed)
  /\ Leave(c, "started")
  /\ UNCHANGED <<now, since, latch, restarts, imposed, limited>>

SendToken(c) ==
  /\ pc[c] = "token"
  /\ \E observed \in ObservedBy(c) : Inactive(observed)
  /\ pc' = [pc EXCEPT ![c] = "tokenInFlight"]
  /\ UNCHANGED <<now, holder, since, latch, restarts, imposed, limited>>

TokenAnswered(c) ==
  /\ pc[c] = "tokenInFlight"
  /\ \E to \in {"started", "ready"} : Leave(c, to)
  /\ UNCHANGED <<now, row, fallback, since, latch, restarts, imposed, limited>>

-------------------------------------------------------------------------------
(* SpotifyRateLimitGuardClient._call                                       *)

\* The latch answers before the journal is asked.
SuppressedByLatch(c) ==
  /\ pc[c] = "call"
  /\ latch[c] # 0
  /\ Leave(c, "ready")
  /\ UNCHANGED <<now, row, fallback, since, latch, restarts, imposed, limited>>

SuppressedByJournal(c) ==
  /\ pc[c] = "call"
  /\ latch[c] = 0
  /\ \E d \in {row, fallback} :
       /\ Active(now, d)
       /\ latch' = [latch EXCEPT ![c] = d]
  /\ Leave(c, "ready")
  /\ UNCHANGED <<now, since, restarts, imposed, limited>>

CallUnavailable(c) ==
  /\ pc[c] = "call"
  /\ latch[c] = 0
  /\ Unavailable(now)
  /\ Leave(c, "ready")
  /\ UNCHANGED <<now, since, latch, restarts, imposed, limited>>

Send(c) ==
  /\ pc[c] = "call"
  /\ latch[c] = 0
  /\ Inactive(now)
  /\ pc' = [pc EXCEPT ![c] = "callInFlight"]
  /\ UNCHANGED <<now, holder, since, latch, restarts, imposed, limited>>

\* Any answer but a 429, a transport error included.
Answered(c) ==
  /\ pc[c] = "callInFlight"
  /\ Leave(c, "ready")
  /\ UNCHANGED <<now, row, fallback, since, latch, restarts, imposed, limited>>

NotRemembered(deadline) == fallback

\* _remember_fallback: the later of the two deadlines is kept in memory.
Remember(deadline) == Later(deadline, fallback)

\* A 429: its deadline is in memory before anything is written.
RateLimited(c) ==
  /\ pc[c] = "callInFlight"
  /\ \E h \in RetryAfters \union {NoHeader} :
       LET deadline == now + RetryDelay(h)
       IN  /\ deadline <= MaxTime
           /\ fallback' = Remember(deadline)
           /\ imposed' = Later(deadline, imposed)
  /\ pc' = [pc EXCEPT ![c] = "persist"]
  /\ UNCHANGED <<now, row, holder, since, latch, restarts, limited>>

StoreUnlatched(c) ==
  /\ pc[c] = "persist"
  /\ row' = Later(fallback, row)
  /\ fallback' = 0
  /\ limited' = limited \union {c}
  /\ Leave(c, "ready")
  /\ UNCHANGED <<now, since, latch, restarts, imposed>>

\* The rest of activate(): the row takes the later deadline, the client latches.
Store(c) ==
  /\ pc[c] = "persist"
  /\ row' = Later(fallback, row)
  /\ fallback' = 0
  /\ latch' = [latch EXCEPT ![c] = row']
  /\ limited' = limited \union {c}
  /\ Leave(c, "ready")
  /\ UNCHANGED <<now, since, restarts, imposed>>

StoreFailsAndForgets(c) ==
  /\ StoreMayFail
  /\ pc[c] = "persist"
  /\ fallback' = 0
  /\ Leave(c, "ready")
  /\ UNCHANGED <<now, row, since, latch, restarts, imposed, limited>>

\* The write fails: PersistenceError leaves _call before the latch is set.
StoreFails(c) ==
  /\ StoreMayFail
  /\ pc[c] = "persist"
  /\ Leave(c, "ready")
  /\ UNCHANGED <<now, row, fallback, since, latch, restarts, imposed, limited>>

\* The process dies anywhere; the next one knows the row and nothing else.
Restart ==
  /\ restarts < MaxRestarts
  /\ restarts' = restarts + 1
  /\ fallback' = 0
  /\ holder' = None
  /\ pc' = [c \in Clients |-> "idle"]
  /\ latch' = [c \in Clients |-> 0]
  /\ imposed' = row
  /\ limited' = {}
  /\ UNCHANGED <<now, row, since>>

Step(c) ==
  \/ Start(c) \/ Finish(c)
  \/ AskToken(c) \/ SuppressToken(c) \/ TokenUnavailable(c) \/ SendToken(c)
  \/ TokenAnswered(c)
  \/ AskCall(c) \/ SuppressedByLatch(c) \/ SuppressedByJournal(c)
  \/ CallUnavailable(c) \/ Send(c) \/ Answered(c)
  \/ RateLimited(c) \/ Store(c) \/ StoreFails(c)

Next == Tick \/ Restart \/ \E c \in Clients : Step(c)

Spec == Init /\ [][Next]_vars

-------------------------------------------------------------------------------
(* Scheduling. The threads keep running, a call ends, the lock is handed   *)
(* on, a cycle makes finitely many calls, and neither the token endpoint   *)
(* nor SQLite refuses for ever. Restart and 429 answers are never fair.    *)

GrantToken(c) == TokenAnswered(c) /\ pc'[c] = "ready"

Fairness ==
  /\ WF_vars(Tick)
  /\ \A c \in Clients :
       /\ WF_vars(Start(c))
       /\ SF_vars(Finish(c))
       /\ SF_vars(AskToken(c))
       /\ SF_vars(AskCall(c))
       /\ WF_vars(SuppressToken(c))
       /\ SF_vars(SendToken(c))
       /\ SF_vars(GrantToken(c))
       /\ WF_vars(SuppressedByLatch(c))
       /\ WF_vars(SuppressedByJournal(c))
       /\ SF_vars(Send(c))
       /\ WF_vars(Answered(c))
       /\ WF_vars(Store(c))

FairSpec == Spec /\ Fairness

-------------------------------------------------------------------------------
(* Properties                                                              *)

\* Types, and that the lock's holder is exactly the client inside the guarded
\* region of get_access_token / _call.
TypeOK ==
  /\ now \in 1..MaxTime
  /\ row \in 0..MaxTime
  /\ fallback \in 0..MaxTime
  /\ holder \in Clients \union {None}
  /\ pc \in [Clients -> Places]
  /\ since \in [Clients -> 1..MaxTime]
  /\ latch \in [Clients -> 0..MaxTime]
  /\ restarts \in 0..MaxRestarts
  /\ imposed \in 0..MaxTime
  /\ limited \subseteq Clients
  /\ \A c \in Clients : pc[c] \in Holding <=> holder = c

\* No request of any client, token requests included, is at Spotify while the
\* deadline of a 429 that this process received (or found in the database) has
\* not passed, whatever SQLite did in between (ARCHITECTURE.md invariant 10).
CooldownObeyed ==
  \A c \in Clients : pc[c] \in InFlight => imposed <= now

\* The deadline in force: the stored one or the remembered one.
Deadline == Later(row, fallback)

\* Until it has passed, the deadline in force only moves later: no failed write, no
\* stale `now` of a waiting cycle and no other client's expiry shortens it. Only
\* a restart may, back to what was stored.
DeadlineOnlyExtends ==
  [][ \/ Deadline' >= Deadline
      \/ Deadline <= now
      \/ restarts' # restarts ]_vars

\* A client whose 429 has been stored sends nothing more for as long as it lives
\* (docstring of SpotifyRateLimitGuardClient), even when Retry-After has passed. When
\* SQLite refuses the 429 the latch is not set, and this is not so.
LimitedStaysSilent ==
  \A c \in Clients : c \in limited => pc[c] # "callInFlight"

\* The cooldown is not for ever: calls to Spotify keep being made, because a passed
\* deadline is dropped from memory and from the database and the latch dies with
\* its client.
CallsResume ==
  []<>(\E c \in Clients : pc[c] = "callInFlight")

\* The row, the memory fallback, the latch and the lock together are one Cooldown.
Shared == INSTANCE Cooldown WITH
  Delays   <- {RetryDelay(h) : h \in RetryAfters \union {NoHeader}},
  deadline <- Deadline,
  durable  <- row,
  busy     <- \E c \in Clients : pc[c] \in InFlight

ImplementsCooldown == Shared!Spec
===============================================================================
