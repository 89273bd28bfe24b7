---------------------------- MODULE MCReconciliation ----------------------------
(* Values for TLC. A read torn between the two foreign contents shows a desired one. *)
EXTENDS Reconciliation

CONSTANTS a, b, c, d

MCDesireds == {<<a, b>>, <<c, d>>}
MCForeign  == {<<a, d>>, <<c, b>>}

Environment(paged, opaque, lag, crashes, unsafe, edits, maxFaults) ==
  [paged |-> paged, opaque |-> opaque, lag |-> lag, crashes |-> crashes,
   unsafe |-> unsafe, edits |-> edits, faults |-> maxFaults]

\* Everything but paging; everything but crashes and failing SQLite; a current snapshot
\* endpoint; and no trouble but crashes, failing SQLite and failing calls.
AllEnvironments == {Environment(FALSE, TRUE,  TRUE,  TRUE,  TRUE,  1, 2),
                    Environment(TRUE,  TRUE,  TRUE,  FALSE, FALSE, 1, 2),
                    Environment(FALSE, TRUE,  FALSE, TRUE,  TRUE,  1, 2),
                    Environment(TRUE,  FALSE, FALSE, TRUE,  TRUE,  0, 3)}

Hostile  == {Environment(FALSE, TRUE, TRUE, TRUE, TRUE, 1, 2)}
CrashOnly == {Environment(FALSE, FALSE, FALSE, TRUE, FALSE, 0, 2)}
===============================================================================
