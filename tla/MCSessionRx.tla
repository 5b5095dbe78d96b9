---------------------------- MODULE MCSessionRx ----------------------------
(* Small instances of SessionRx.                                            *)
EXTENDS SessionRx, TLC

\* The opening envelope names one backend, all later ones another.
MCHome == [n \in Seqs |-> IF n = 0 THEN "b0" ELSE "b1"]

\* The opening envelope is empty; one payload is longer than the others.
MCSize == [n \in Seqs |-> IF n = 0 THEN 0 ELSE IF n = 2 THEN 2 ELSE 1]

\* Used by the runs that state no liveness.
WorkerSymmetry == Permutations(Workers)
=============================================================================
