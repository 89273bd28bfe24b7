-------------------------- MODULE MCPartialAdditions --------------------------
(* Values for TLC: a limit of three items, so that two of the candidate contents fit     *)
(* beside a short destination and none fits beside a long one.                           *)
EXTENDS PartialAdditions

CONSTANTS u, v, w, x   \* episodes, x somebody else's

MCFulls      == {<<u>>, <<v, u>>, <<w, v, u>>}
MCCandidates == {<<v>>, <<w, v>>}
MCForeign    == {<<u, x>>, <<>>}
===============================================================================
