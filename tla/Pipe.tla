-------------------------------- MODULE Pipe --------------------------------
(***************************************************************************)
(* What a connection promises in one direction, end to end: what was       *)
(* written comes out, and the end of the stream comes after all of it.     *)
(* Only a break may end it earlier.                                        *)
(***************************************************************************)
EXTENDS Naturals

CONSTANT Conns

VARIABLES
  written,    \* bytes the writer got rid of
  finished,   \* the writer writes no more
  delivered,  \* bytes the reader received
  ended,      \* the reader has seen the end
  broken      \* something gave the connection up

vars == <<written, finished, delivered, ended, broken>>

Init ==
  /\ written = [c \in Conns |-> 0]
  /\ finished = [c \in Conns |-> FALSE]
  /\ delivered = [c \in Conns |-> 0]
  /\ ended = [c \in Conns |-> FALSE]
  /\ broken = [c \in Conns |-> FALSE]

Write(c) ==
  /\ ~finished[c]
  /\ written' = [written EXCEPT ![c] = @ + 1]
  /\ UNCHANGED <<finished, delivered, ended, broken>>

Deliver(c) ==
  /\ ~ended[c]
  /\ delivered[c] < written[c]
  /\ delivered' = [delivered EXCEPT ![c] = @ + 1]
  /\ UNCHANGED <<written, finished, ended, broken>>

\* A connection may finish, break and end in one step, some at once.
Turn(f) ==
  /\ DOMAIN f' = Conns
  /\ \A c \in Conns : f'[c] \in BOOLEAN /\ (f[c] => f'[c])

Complete(c) == finished'[c] /\ delivered[c] = written[c]

Close ==
  /\ Turn(finished) /\ Turn(broken) /\ Turn(ended)
  /\ \A c \in Conns : ended'[c] /\ ~ended[c] => broken'[c] \/ Complete(c)
  /\ UNCHANGED <<written, delivered>>

Next == Close \/ \E c \in Conns : Write(c) \/ Deliver(c)

Spec == Init /\ [][Next]_vars
=============================================================================
