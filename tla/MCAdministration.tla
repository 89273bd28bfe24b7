------------------------- MODULE MCAdministration -------------------------
(* Two browsers with two pages; the optional actors in a few combinations.  *)
EXTENDS Administration, TLC

MCFeatures ==
    {{"tabs", "import"}, {"audit", "elsewhere"}, {"import", "review", "fault", "elsewhere"},
     {"import", "crash", "loss", "fault"}, {"import", "damage", "elsewhere"}}

Interchangeable == Permutations(Browsers) \cup Permutations(Slots)
=============================================================================
