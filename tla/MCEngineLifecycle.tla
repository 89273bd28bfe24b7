------------------------- MODULE MCEngineLifecycle -------------------------
(* Two playlists, and two threads although one at a time is alive: the     *)
(* second one shows a scheduler started too early.                         *)
EXTENDS EngineLifecycle

CONSTANTS p, q, k1, k2

MCPlaylists == {p, q}
MCWorkers == {k1, k2}
=============================================================================
