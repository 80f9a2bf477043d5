--------------------------- MODULE MCProtectedRegion ---------------------------
(* Instances of ProtectedRegion for TLC: 4-byte pages and a 2-byte canary,  *)
(* so that sizes 1 to 3 leave slack behind the canary, none, and a second   *)
(* page, and sizes 0 and 4 are refused.                                     *)
EXTENDS ProtectedRegion

MCSizes == 0..(MaxSecretSize + 1)
================================================================================
