----------------------------- MODULE MCSessionTable -----------------------------
(* Instances of SessionTable for TLC: sessions are interchangeable.          *)
EXTENDS SessionTable, TLC

Symmetry == Permutations(Sessions)
================================================================================
