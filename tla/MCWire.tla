------------------------------- MODULE MCWire -------------------------------
(* Small instances of Wire: sessions are alike.                             *)
EXTENDS Wire, TLC

SessionSymmetry == Permutations(Sessions)
=============================================================================
