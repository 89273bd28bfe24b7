--------------------------- MODULE MCSourceCoverage ---------------------------
(* Instance of SourceCoverage for TLC: two playlists, one of them with the    *)
(* longer retention.                                                          *)
EXTENDS SourceCoverage

MCOrder == <<"short", "long">>
MCRetention == [p \in {"short", "long"} |-> IF p = "short" THEN 1 ELSE 2]
=============================================================================
