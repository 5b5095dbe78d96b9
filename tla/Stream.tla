------------------------------- MODULE Stream -------------------------------
(***************************************************************************)
(* What one direction of a session promises the application that reads it: *)
(* the bytes the peer wrote, in order, each once, and then the end of the  *)
(* stream.  Only closing this side may end the stream early.  A            *)
(* disturbance takes order and completeness away from what comes after it, *)
(* but no payload is ever delivered twice.                                 *)
(***************************************************************************)
EXTENDS Naturals, Sequences

CONSTANT data       \* the payloads the peer sends, each identified by its number

VARIABLES
  delivered,        \* what the reader has received
  disturbed,        \* order and completeness are lost
  aborted,          \* this side closed the session
  ended             \* the reader has seen the end of the stream

vars == <<delivered, disturbed, aborted, ended>>

Init ==
  /\ delivered = <<>>
  /\ disturbed = FALSE
  /\ aborted = FALSE
  /\ ended = FALSE

\* What the reader still has to get.
Missing == data \ {delivered[i] : i \in 1..Len(delivered)}

\* The next payload is the first one missing.
Deliver ==
  /\ ~ended
  /\ \E n \in Missing :
       /\ disturbed \/ \A m \in Missing : n <= m
       /\ delivered' = Append(delivered, n)
  /\ UNCHANGED <<disturbed, aborted, ended>>

Disturb ==
  /\ ~disturbed
  /\ disturbed' = TRUE
  /\ UNCHANGED <<delivered, aborted, ended>>

Abort ==
  /\ ~aborted
  /\ aborted' = TRUE
  /\ UNCHANGED <<delivered, disturbed, ended>>

End ==
  /\ ~ended
  /\ disturbed \/ aborted \/ Missing = {}
  /\ ended' = TRUE
  /\ UNCHANGED <<delivered, disturbed, aborted>>

Next == Deliver \/ Disturb \/ Abort \/ End

Spec == Init /\ [][Next]_vars
=============================================================================
