--------------------------- MODULE MCSessionOverSiegel ---------------------------
(* Instances of SessionOverSiegel for TLC: the sizes and pages of MCSiegel.  *)
EXTENDS SessionOverSiegel

MCSizes == 0..(MaxSecretSize + 1)
================================================================================
