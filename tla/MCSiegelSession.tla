---------------------------- MODULE MCSiegelSession ----------------------------
(* Instances of SiegelSession for TLC.  Threads, sessions and handles are   *)
(* interchangeable, so safety runs may identify states up to permutations.  *)
EXTENDS SiegelSession, TLC

Symmetry == Permutations(Threads) \cup Permutations(Sessions) \cup Permutations(Handles)
================================================================================
