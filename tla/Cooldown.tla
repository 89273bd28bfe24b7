------------------------------- MODULE Cooldown -------------------------------
(***************************************************************************)
(* What the shared Spotify rate limit promises to the rest of the program, *)
(* with no clients, no lock, no SQLite row and no memory fallback: there   *)
(* is one deadline, a request starts only once it has passed and only when *)
(* no other request is in flight, a rate-limited answer may only move it   *)
(* later, and a restart returns to the deadline that was made durable.     *)
(***************************************************************************)
EXTENDS Integers

CONSTANTS MaxTime,  \* bound of the clock
          Delays    \* how many ticks a 429 may ask to wait

VARIABLES now, deadline, durable, busy,
          restarts  \* how often the process was restarted

vars == <<now, deadline, durable, busy, restarts>>

Init ==
  /\ now = 1
  /\ deadline = 0     \* 0 stands for "no deadline"
  /\ durable = 0
  /\ busy = FALSE
  /\ restarts = 0

Tick ==
  /\ now < MaxTime
  /\ now' = now + 1
  /\ UNCHANGED <<deadline, durable, busy, restarts>>

\* A request leaves for Spotify: no deadline is in force, nothing is in flight.
Send ==
  /\ ~busy
  /\ deadline <= now
  /\ deadline' = 0
  /\ durable' = 0
  /\ busy' = TRUE
  /\ UNCHANGED <<now, restarts>>

\* Any answer but a 429.
Reply ==
  /\ busy
  /\ busy' = FALSE
  /\ UNCHANGED <<now, deadline, durable, restarts>>

\* A 429: the deadline moves later, it is not durable yet.
Limit ==
  /\ busy
  /\ busy' = FALSE
  /\ \E d \in Delays :
       deadline' = IF now + d > deadline THEN now + d ELSE deadline
  /\ UNCHANGED <<now, durable, restarts>>

Persist ==
  /\ durable' = deadline
  /\ UNCHANGED <<now, deadline, busy, restarts>>

\* A deadline that has passed is dropped, from memory or for good.
Lapse ==
  /\ deadline <= now
  /\ durable' \in {0, durable}
  /\ deadline' = durable'
  /\ UNCHANGED <<now, busy, restarts>>

Restart ==
  /\ deadline' = durable
  /\ busy' = FALSE
  /\ restarts' = restarts + 1
  /\ UNCHANGED <<now, durable>>

Next == Tick \/ Send \/ Reply \/ Limit \/ Persist \/ Lapse \/ Restart

Spec == Init /\ [][Next]_vars
===============================================================================
