-------------------------------- MODULE MCSiegel --------------------------------
(* Instances of Siegel for TLC: as in MCProtectedRegion, 4-byte pages and a *)
(* 2-byte canary, so that sizes 1 to 3 have slack, none, and a second page. *)
EXTENDS Siegel

MCSizes == 0..(MaxSecretSize + 1)
================================================================================
