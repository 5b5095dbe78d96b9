----------------------------- MODULE MCDownload -----------------------------
(* Small instances of Download.                                             *)
EXTENDS Download, TLC

CONSTANTS f1, f2, s1, s2

\* The first file has envelopes for both sessions, the second for one of them.
MCContents == [f \in Files |-> IF f = f1 THEN {s1, s2} ELSE {s1}]

\* The second file may be put twice.
MCPuts == [f \in Files |-> IF f = f1 THEN 1 ELSE 2]

\* One session is closed once.
MCLives == [s \in Sessions |-> IF s = s2 THEN 1 ELSE 0]

\* The workers run the same code, and no run of Download states liveness.
WorkerSymmetry == Permutations(Workers)
=============================================================================
