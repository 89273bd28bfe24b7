--------------------------- MODULE MCProvisioning ---------------------------
(* Provisioning with two templates, two sources and two destinations: two  *)
(* activations can contend for a destination, and a pending one can lose   *)
(* one source and keep the other.                                          *)
EXTENDS Provisioning

CONSTANTS t1, t2, s1, s2, d1, d2

MCTemplates == {t1, t2}
MCSources == {s1, s2}
MCDestinations == {d1, d2}
MCEnvironments == {{}, {"crash"}, {"disk", "crash"}, {"damage"}}
=============================================================================
