--------------------------- MODULE MCMultiBackend ---------------------------
(* Small instances of MultiBackend.                                         *)
EXTENDS MultiBackend, TLC

\* For instances of which no liveness is asked, like the one of the README's
\* known divergences.
CallerSymmetry == Permutations(Uploaders)
=============================================================================
