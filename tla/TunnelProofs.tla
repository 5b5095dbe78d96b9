---------------------------- MODULE TunnelProofs ----------------------------
(***************************************************************************)
(* Two things about a connection through the tunnel.                       *)
(*                                                                         *)
(* Buffers are still when Drain looks at them.  The goroutines of a        *)
(* connection outlive its handler, so "no handler is left" does not say    *)
(* enough: what holds is that a goroutine which outlives its handler's     *)
(* session.Close finds the session closed, and that nothing opens a closed *)
(* session again.                                                          *)
(*                                                                         *)
(* And each direction is a pipe.  That the bytes are where they should be  *)
(* is one half of the invariant; the other is who closed first and why,    *)
(* because whatever closes early drops bytes.                              *)
(***************************************************************************)
EXTENDS Tunnel, SequenceTheorems, TLAPS

Envelopes == [n : Nat, close : BOOLEAN]

LEMMA SideFacts ==
  /\ "client" \in Sides /\ "server" \in Sides
  /\ \A x \in Sides : Peer(x) \in Sides
  <1>1. Peer("client") \in Sides /\ Peer("server") \in Sides
    <2>1. \E y \in Sides : y # "client"
      BY DEF Sides
    <2>2. \E y \in Sides : y # "server"
      BY DEF Sides
    <2> QED BY <2>1, <2>2 DEF Peer
  <1> QED BY <1>1 DEF Sides

-----------------------------------------------------------------------------
(* What the operators on one session return.                                *)

LEMMA TakenBound ==
  ASSUME NEW s \in Session
  PROVE  Taken(s) \in 0..s.buf
  BY TunnelAssumption DEF TunnelAssumption, Session, Taken

LEMMA EnvelopeType ==
  ASSUME NEW s \in Session
  PROVE  Envelope(s) \in Envelopes
  BY TakenBound DEF Session, Envelope, Envelopes, IsFinal

\* A flush shortens the buffer and never opens a session.
LEMMA ExtractedType ==
  ASSUME NEW s \in Session
  PROVE  /\ Extracted(s) \in Session
         /\ Extracted(s).closed = s.closed
         /\ s.reg # "none" => Extracted(s).reg # "none"
         /\ Extracted(s).buf <= s.buf
  <1> DEFINE b == s.buf - Taken(s)
             r == IF Envelope(s).close THEN "tomb" ELSE s.reg
  <1>1. b \in Nat /\ b <= s.buf
    BY TakenBound DEF Session
  <1>2. r \in {"none", "live", "tomb"} /\ (s.reg # "none" => r # "none")
    BY DEF Session
  <1>3. Extracted(s) = [s EXCEPT !.buf = b, !.fresh = FALSE, !.reg = r]
    BY DEF Extracted
  <1> HIDE DEF b, r
  <1> QED BY <1>1, <1>2, <1>3 DEF Session

LEMMA ReceivedType ==
  ASSUME NEW s \in Session, NEW e \in Envelopes
  PROVE  /\ Received(s, e) \in Session
         /\ [Received(s, e) EXCEPT !.reg = "live"] \in Session
         /\ s.closed => Received(s, e).closed
         /\ Received(s, e).buf = s.buf
  <1> DEFINE a == s.rx + e.n
             z == e.close
             k == s.closed \/ e.close
  <1>1. a \in Nat /\ z \in BOOLEAN /\ k \in BOOLEAN /\ (s.closed => k)
    BY DEF Session, Envelopes
  <1>2. Received(s, e) = IF s.rxEnd THEN s ELSE [s EXCEPT !.rx = a, !.rxEnd = z, !.closed = k]
    BY DEF Received
  <1> HIDE DEF a, z, k
  <1> QED BY <1>1, <1>2 DEF Session

LEMMA ShutType ==
  ASSUME NEW s \in Session
  PROVE  Shut(s) \in Session /\ Shut(s).closed /\ Shut(s).buf = s.buf /\ Shut(s).reg = s.reg
  BY DEF Session, Shut

-----------------------------------------------------------------------------
(* Sessions and envelopes keep their types, a closed session stays closed   *)
(* and a known one known, and the buffer of a server's session grows only   *)
(* in Enqueue.                                                              *)

SessionsOK ==
  /\ sess \in [Sides -> [Conns -> Session]]
  /\ net \in [Sides -> [Conns -> Seq(Envelopes)]]

StaysClosed(c) ==
  /\ sess["server"][c].closed => sess["server"][c].closed'
  /\ sess["server"][c].reg # "none" => sess["server"][c].reg' # "none"

NoGrowth(c) == sess["server"][c].buf' <= sess["server"][c].buf

LEMMA SessionsInit == Init => SessionsOK
  <1> SUFFICES ASSUME Init PROVE SessionsOK
    OBVIOUS
  <1>1. NewSession \in Session
    BY DEF NewSession, Session
  <1>2. <<>> \in Seq(Envelopes)
    BY EmptySeq
  <1> QED BY <1>1, <1>2 DEF Init, SessionsOK

\* One session changes, into one of the same type.
LEMMA OneSession ==
  ASSUME SessionsOK, NEW x \in Sides, NEW c \in Conns, NEW t \in Session,
         sess' = [sess EXCEPT ![x][c] = t]
  PROVE  /\ sess' \in [Sides -> [Conns -> Session]]
         /\ sess'[x][c] = t
         /\ \A y \in Sides, d \in Conns : y # x \/ d # c => sess'[y][d] = sess[y][d]
  BY DEF SessionsOK

\* A session of the server changes and is not opened again.
LEMMA ServerSession ==
  ASSUME SessionsOK, NEW c \in Conns, NEW t \in Session, net' = net,
         sess' = [sess EXCEPT !["server"][c] = t],
         sess["server"][c].closed => t.closed,
         sess["server"][c].reg # "none" => t.reg # "none"
  PROVE  /\ SessionsOK'
         /\ \A d \in Conns : StaysClosed(d)
         /\ \A d \in Conns : d # c \/ t.buf <= sess["server"][c].buf => NoGrowth(d)
  <1> DEFINE row == [sess["server"] EXCEPT ![c] = t]
  <1>1. sess["server"] \in [Conns -> Session]
    BY SideFacts DEF SessionsOK
  <1>2. row \in [Conns -> Session] /\ row[c] = t /\ \A d \in Conns : d # c => row[d] = sess["server"][d]
    BY <1>1
  <1>3. sess' = [sess EXCEPT !["server"] = row]
    OBVIOUS
  <1> HIDE DEF row
  <1>4. sess' \in [Sides -> [Conns -> Session]] /\ sess'["server"] = row
    BY <1>2, <1>3, SideFacts DEF SessionsOK
  <1>5. \A d \in Conns : sess["server"][d].buf \in Nat
    BY <1>1 DEF Session
  <1>6. SessionsOK'
    BY <1>4 DEF SessionsOK
  <1>7. \A d \in Conns : /\ sess["server"][d].buf' = row[d].buf
                         /\ sess["server"][d].closed' = row[d].closed
                         /\ sess["server"][d].reg' = row[d].reg
    BY <1>4
  <1>8. \A d \in Conns : StaysClosed(d)
    BY <1>2, <1>7 DEF StaysClosed
  <1>9. \A d \in Conns : d # c \/ t.buf <= sess["server"][c].buf => NoGrowth(d)
    BY <1>2, <1>5, <1>7 DEF NoGrowth
  <1> QED BY <1>6, <1>8, <1>9

LEMMA SameSessions ==
  ASSUME SessionsOK, UNCHANGED session
  PROVE  SessionsOK' /\ \A c \in Conns : StaysClosed(c) /\ NoGrowth(c)
  <1>1. \A c \in Conns : sess["server"][c].buf \in Nat
    BY SideFacts DEF SessionsOK, Session
  <1> QED BY <1>1 DEF session, SessionsOK, StaysClosed, NoGrowth

\* A step of the client's application side changes one session of the client.
LEMMA ClientSessions ==
  ASSUME SessionsOK, NEW c \in Conns, Dial(c) \/ Write(c) \/ Return(c) \/ Close(c)
  PROVE  SessionsOK' /\ \A d \in Conns : StaysClosed(d) /\ NoGrowth(d)
  <1> DEFINE s == sess["client"][c]
  <1>1. s \in Session
    BY SideFacts DEF SessionsOK
  <1>2. net' = net
    BY DEF Dial, Write, Return, Close
  <1>3. CASE sess' = sess
    BY <1>2, <1>3, SameSessions DEF session
  <1>4. CASE \E t \in Session : sess' = [sess EXCEPT !["client"][c] = t]
    <2>1. PICK t \in Session : sess' = [sess EXCEPT !["client"][c] = t]
      BY <1>4
    <2>2. /\ sess' \in [Sides -> [Conns -> Session]]
          /\ \A d \in Conns : sess'["server"][d] = sess["server"][d]
      BY <2>1, OneSession, SideFacts
    <2>3. \A d \in Conns : sess["server"][d].buf \in Nat
      BY SideFacts DEF SessionsOK, Session
    <2> QED BY <2>2, <2>3, <1>2 DEF SessionsOK, StaysClosed, NoGrowth
  <1>5. sess' = sess \/ \E t \in Session : sess' = [sess EXCEPT !["client"][c] = t]
    <2>1. CASE Dial(c)
      <3>1. [s EXCEPT !.reg = "live"] \in Session
        BY <1>1 DEF Session
      <3> QED BY <2>1, <3>1 DEF Dial
    <2>2. CASE Write(c)
      <3>1. [s EXCEPT !.buf = @ + 1] \in Session
        BY <1>1 DEF Session
      <3> QED BY <2>2, <3>1 DEF Write
    <2>3. CASE Return(c)
      <3>1. s.rx > 0 => [s EXCEPT !.rx = @ - 1] \in Session
        BY <1>1 DEF Session
      <3> QED BY <2>3, <3>1 DEF Return
    <2>4. CASE Close(c)
      <3>1. [s EXCEPT !.closed = TRUE] \in Session
        BY <1>1 DEF Session
      <3> QED BY <2>4, <3>1 DEF Close
    <2> QED BY <2>1, <2>2, <2>3, <2>4
  <1> QED BY <1>3, <1>4, <1>5

LEMMA FlushSessions ==
  ASSUME SessionsOK, NEW x \in Sides, NEW Q \in SUBSET Conns, Flush(x, Q)
  PROVE  SessionsOK' /\ \A d \in Conns : StaysClosed(d) /\ NoGrowth(d)
  <1> DEFINE quiet(c) == [sess[x][c] EXCEPT !.closed = @ \/ c \in Q]
             sends    == {c \in Conns : HasBatch(x, quiet(c))}
             row      == [c \in Conns |-> IF c \in sends THEN Extracted(quiet(c)) ELSE quiet(c)]
             out      == [c \in Conns |-> IF c \in sends THEN Append(net[x][c], Envelope(quiet(c)))
                                                         ELSE net[x][c]]
  <1>1. sess' = [sess EXCEPT ![x] = row] /\ net' = [net EXCEPT ![x] = out]
    BY DEF Flush
  <1>2. ASSUME NEW c \in Conns
        PROVE  /\ quiet(c) \in Session
               /\ sess[x][c].closed => quiet(c).closed
               /\ quiet(c).reg = sess[x][c].reg
               /\ quiet(c).buf = sess[x][c].buf
               /\ quiet(c).buf \in Nat
    <2> DEFINE k == sess[x][c].closed \/ c \in Q
    <2>1. sess[x][c] \in Session
      BY DEF SessionsOK
    <2>2. k \in BOOLEAN /\ (sess[x][c].closed => k) /\ quiet(c) = [sess[x][c] EXCEPT !.closed = k]
      BY <2>1 DEF Session
    <2> HIDE DEF k, quiet
    <2> QED BY <2>1, <2>2 DEF Session
  <1> HIDE DEF quiet, sends
  <1>3. ASSUME NEW c \in Conns
        PROVE  /\ row[c] \in Session
               /\ sess[x][c].closed => row[c].closed
               /\ sess[x][c].reg # "none" => row[c].reg # "none"
               /\ row[c].buf <= sess[x][c].buf
    BY <1>2, ExtractedType
  <1>4. ASSUME NEW c \in Conns PROVE out[c] \in Seq(Envelopes)
    <2>1. net[x][c] \in Seq(Envelopes) /\ Envelope(quiet(c)) \in Envelopes
      BY <1>2, EnvelopeType DEF SessionsOK
    <2>2. Append(net[x][c], Envelope(quiet(c))) \in Seq(Envelopes)
      BY <2>1, AppendProperties
    <2> QED BY <2>1, <2>2
  <1>5. row \in [Conns -> Session] /\ out \in [Conns -> Seq(Envelopes)]
    BY <1>3, <1>4
  <1> HIDE DEF row, out
  <1>6. SessionsOK'
    BY <1>1, <1>5 DEF SessionsOK
  <1>7. ASSUME NEW d \in Conns PROVE StaysClosed(d) /\ NoGrowth(d)
    <2>1. CASE x = "server"
      <3>1. sess'["server"][d] = row[d]
        BY <2>1, <1>1 DEF SessionsOK
      <3> QED BY <3>1, <2>1, <1>3 DEF StaysClosed, NoGrowth
    <2>2. CASE x # "server"
      <3>1. sess'["server"][d] = sess["server"][d] /\ sess["server"][d].buf \in Nat
        BY <2>2, <1>1, SideFacts DEF SessionsOK, Session
      <3> QED BY <3>1 DEF StaysClosed, NoGrowth
    <2> QED BY <2>1, <2>2
  <1> QED BY <1>6, <1>7

LEMMA ArriveSessions ==
  ASSUME SessionsOK, NEW y \in Sides, NEW c \in Conns, Arrive(y, c)
  PROVE  SessionsOK' /\ \A d \in Conns : StaysClosed(d) /\ NoGrowth(d)
  <1> DEFINE s == sess[y][c]
             q == net[Peer(y)][c]
             t == IF s.reg = "tomb" THEN s
                  ELSE [Received(s, Head(q)) EXCEPT !.reg = "live"]
  <1>1. /\ q # <<>>
        /\ net' = [net EXCEPT ![Peer(y)][c] = Tail(q)]
        /\ sess' = [sess EXCEPT ![y][c] = t]
    BY DEF Arrive
  <1>2. s \in Session /\ q \in Seq(Envelopes)
    BY SideFacts DEF SessionsOK
  <1>3. Head(q) \in Envelopes /\ Tail(q) \in Seq(Envelopes)
    BY <1>1, <1>2, HeadTailProperties
  <1>4. /\ t \in Session
        /\ s.closed => t.closed
        /\ s.reg # "none" => t.reg # "none"
        /\ t.buf = s.buf /\ t.buf \in Nat
    <2> DEFINE r == Received(s, Head(q))
    <2>1. r \in Session /\ (s.closed => r.closed) /\ r.buf = s.buf
      BY <1>2, <1>3, ReceivedType
    <2> HIDE DEF r
    <2>2. /\ [r EXCEPT !.reg = "live"] \in Session
          /\ [r EXCEPT !.reg = "live"].closed = r.closed
          /\ [r EXCEPT !.reg = "live"].reg = "live"
          /\ [r EXCEPT !.reg = "live"].buf = r.buf
      BY <2>1 DEF Session
    <2>3. s.buf \in Nat
      BY <1>2 DEF Session
    <2> QED BY <1>2, <2>1, <2>2, <2>3 DEF r
  <1> HIDE DEF t
  <1>5. /\ sess' \in [Sides -> [Conns -> Session]]
        /\ sess'[y][c] = t
        /\ \A z \in Sides, d \in Conns : z # y \/ d # c => sess'[z][d] = sess[z][d]
    BY <1>1, <1>4, OneSession
  <1>6. net' \in [Sides -> [Conns -> Seq(Envelopes)]]
    BY <1>1, <1>3, SideFacts DEF SessionsOK
  <1>7. ASSUME NEW d \in Conns PROVE StaysClosed(d) /\ NoGrowth(d)
    <2>1. CASE y = "server" /\ d = c
      BY <2>1, <1>4, <1>5 DEF StaysClosed, NoGrowth
    <2>2. CASE ~(y = "server" /\ d = c)
      <3>1. sess'["server"][d] = sess["server"][d] /\ sess["server"][d].buf \in Nat
        BY <2>2, <1>5, SideFacts DEF SessionsOK, Session
      <3> QED BY <3>1 DEF StaysClosed, NoGrowth
    <2> QED BY <2>1, <2>2
  <1> QED BY <1>5, <1>6, <1>7 DEF SessionsOK

\* Enqueue adds to the buffer of a session that is not closed.
LEMMA EnqueueSessions ==
  ASSUME SessionsOK, NEW c \in Conns, Enqueue(c)
  PROVE  /\ SessionsOK'
         /\ \A d \in Conns : StaysClosed(d)
         /\ \A d \in Conns : d # c \/ sess["server"][c].closed => NoGrowth(d)
  <1> DEFINE s == sess["server"][c]
             t == [s EXCEPT !.buf = @ + 1]
  <1>1. net' = net /\ s \in Session
    BY SideFacts DEF Enqueue, SessionsOK
  <1>3. CASE s.closed
    <2>1. UNCHANGED session
      BY <1>1, <1>3 DEF Enqueue, session
    <2> QED BY <2>1, SameSessions
  <1>4. CASE ~s.closed
    <2>1. t \in Session
      BY <1>1 DEF Session
    <2>2. sess' = [sess EXCEPT !["server"][c] = t]
      BY <1>4 DEF Enqueue
    <2>3. t.closed = s.closed /\ t.reg = s.reg
      BY <1>1 DEF Session
    <2> HIDE DEF t
    <2> QED BY <1>1, <1>4, <2>1, <2>2, <2>3, ServerSession
  <1> QED BY <1>3, <1>4

LEMMA DeliverSessions ==
  ASSUME SessionsOK, NEW c \in Conns, Deliver(c) \/ CloseSession(c)
  PROVE  SessionsOK' /\ \A d \in Conns : StaysClosed(d) /\ NoGrowth(d)
  <1> DEFINE s == sess["server"][c]
  <1>1. net' = net /\ s \in Session
    BY SideFacts DEF Deliver, CloseSession, SessionsOK
  <1>2. \E t \in Session :
          /\ sess' = [sess EXCEPT !["server"][c] = t]
          /\ s.closed => t.closed
          /\ t.reg = s.reg
          /\ t.buf = s.buf
    <2>1. CASE Deliver(c)
      <3> DEFINE t == [s EXCEPT !.rx = @ - 1]
      <3>1. s.rx > 0 /\ sess' = [sess EXCEPT !["server"][c] = t]
        BY <2>1 DEF Deliver
      <3>2. t \in Session /\ t.closed = s.closed /\ t.reg = s.reg /\ t.buf = s.buf
        BY <1>1, <3>1 DEF Session
      <3> QED BY <3>1, <3>2
    <2>2. CASE CloseSession(c)
      <3>1. sess' = [sess EXCEPT !["server"][c] = Shut(s)]
        BY <2>2 DEF CloseSession
      <3> QED BY <3>1, <1>1, ShutType
    <2> QED BY <2>1, <2>2
  <1>3. PICK t \in Session :
          /\ sess' = [sess EXCEPT !["server"][c] = t]
          /\ s.closed => t.closed
          /\ t.reg = s.reg
          /\ t.buf = s.buf
    BY <1>2
  <1> HIDE DEF s
  <1>4. t.buf = s.buf /\ s.buf \in Nat
    BY <1>1, <1>3 DEF Session
  <1>5. t.buf <= s.buf
    BY <1>4
  <1>6. /\ sess["server"][c].closed => t.closed
        /\ sess["server"][c].reg # "none" => t.reg # "none"
        /\ t.buf <= sess["server"][c].buf
        /\ sess' = [sess EXCEPT !["server"][c] = t]
    BY <1>3, <1>5 DEF s
  <1> QED BY <1>1, <1>6, ServerSession

-----------------------------------------------------------------------------
(* The inductive invariant.                                                 *)

Active(c) == reader[c] \in {"run", "hold"}

ControlOK ==
  /\ handler \in [Conns -> {"none", "dial", "run", "ending", "closed", "done"}]
  /\ reader \in [Conns -> {"none", "run", "hold", "over"}]
  /\ phase \in {"run", "cancelled", "waited", "stopped"}

\* A reader whose handler has passed session.Close has a closed session.
Outlives ==
  \A c \in Conns :
    Active(c) => handler[c] \in {"run", "ending"} \/ sess["server"][c].closed

\* So has every reader, once serverWg.Wait has returned.
Quiet ==
  phase \in {"waited", "stopped"} =>
    \A c \in Conns : Active(c) => sess["server"][c].closed

\* A handler starts with its session and never starts again.
Known == \A c \in Conns : handler[c] # "none" => sess["server"][c].reg # "none"

IInv == SessionsOK /\ ControlOK /\ Outlives /\ Quiet /\ Known

LEMMA InitIInv == Init => IInv
  <1> SUFFICES ASSUME Init PROVE IInv
    OBVIOUS
  <1>1. ControlOK
    BY DEF Init, ControlOK
  <1>2. Outlives /\ Quiet /\ Known
    BY DEF Init, Outlives, Quiet, Known, Active
  <1> QED BY <1>1, <1>2, SessionsInit DEF IInv

\* Steps that move neither handler nor reader.
LEMMA SessionStep ==
  ASSUME IInv, UNCHANGED <<handler, reader, phase>>,
         SessionsOK', \A c \in Conns : StaysClosed(c)
  PROVE  IInv'
  <1>1. ControlOK'
    BY DEF IInv, ControlOK
  <1>2. Outlives'
    BY DEF IInv, Outlives, Active, StaysClosed
  <1>3. Quiet'
    BY DEF IInv, Quiet, Active, StaysClosed
  <1>4. Known'
    BY DEF IInv, Known, StaysClosed
  <1> QED BY <1>1, <1>2, <1>3, <1>4 DEF IInv

\* Steps of a handler or a reader that leave the sessions alone.
LEMMA ControlStep ==
  ASSUME IInv, UNCHANGED session, ControlOK',
         \A c \in Conns :
           Active(c)' => \/ Active(c) /\ handler'[c] = handler[c]
                         \/ handler'[c] \in {"run", "ending"} /\ phase' \in {"run", "cancelled"}
                         \/ Active(c) /\ handler[c] = "closed"
                         \/ Active(c) /\ handler'[c] = "ending",
         phase' = phase,
         \A c \in Conns : handler'[c] = handler[c] \/ handler[c] # "none"
  PROVE  IInv'
  <1>1. SessionsOK' /\ sess' = sess
    BY SameSessions DEF IInv, session
  <1>2. Outlives'
    BY <1>1 DEF IInv, Outlives
  <1>3. Quiet'
    BY <1>1 DEF IInv, Quiet
  <1>4. Known'
    BY <1>1 DEF IInv, Known
  <1> QED BY <1>1, <1>2, <1>3, <1>4 DEF IInv

LEMMA ServerSteps ==
  ASSUME IInv, NEW c \in Conns, HandlerStep(c) \/ ReaderStep(c) \/ WriterStep(c)
  PROVE  IInv'
  <1> USE DEF IInv
  <1>1. CASE DialTarget(c)
    <2>1. ControlOK'
      BY <1>1 DEF DialTarget, ControlOK
    <2>2. phase = "run" /\ phase' = phase
      BY <1>1 DEF DialTarget, Cancelled
    <2>3. \A d \in Conns : d # c => reader'[d] = reader[d] /\ handler'[d] = handler[d]
      BY <1>1 DEF DialTarget, ControlOK
    <2>4. handler[c] = "dial" /\ handler'[c] = "run"
      BY <1>1 DEF DialTarget, ControlOK
    <2>5. UNCHANGED session
      BY <1>1 DEF DialTarget
    <2> QED BY <2>1, <2>2, <2>3, <2>4, <2>5, ControlStep DEF Active
  <1>2. CASE DialFails(c) \/ HandlerWakes(c)
    <2>1. ControlOK' /\ UNCHANGED <<session, phase, reader>>
      BY <1>2 DEF DialFails, HandlerWakes, ControlOK
    <2>2. handler[c] # "none" /\ handler'[c] = "ending" /\ \A d \in Conns : d # c => handler'[d] = handler[d]
      BY <1>2 DEF DialFails, HandlerWakes, ControlOK
    <2> QED BY <2>1, <2>2, ControlStep DEF Active
  <1>3. CASE HandlerDone(c)
    <2>1. ControlOK' /\ UNCHANGED <<session, phase, reader>>
      BY <1>3 DEF HandlerDone, ControlOK
    <2>2. handler[c] = "closed" /\ \A d \in Conns : d # c => handler'[d] = handler[d]
      BY <1>3 DEF HandlerDone, ControlOK
    <2> QED BY <2>1, <2>2, ControlStep DEF Active
  <1>4. CASE CloseSession(c)
    <2>1. SessionsOK' /\ \A d \in Conns : StaysClosed(d)
      BY <1>4, DeliverSessions
    <2>2. ControlOK' /\ UNCHANGED <<phase, reader>>
      BY <1>4 DEF CloseSession, ControlOK
    <2>3. handler[c] = "ending" /\ \A d \in Conns : d # c => handler'[d] = handler[d]
      BY <1>4 DEF CloseSession, ControlOK
    <2>4. sess'["server"][c].closed
      <3>1. sess["server"][c] \in Session
        BY SideFacts DEF SessionsOK
      <3>2. sess' = [sess EXCEPT !["server"][c] = Shut(sess["server"][c])]
        BY <1>4 DEF CloseSession
      <3>3. sess'["server"][c] = Shut(sess["server"][c])
        BY <3>2, SideFacts DEF SessionsOK
      <3> QED BY <3>1, <3>3, ShutType
    <2>5. Outlives'
      BY <2>1, <2>2, <2>3, <2>4 DEF Outlives, Active, StaysClosed
    <2>6. Quiet'
      BY <2>1, <2>2 DEF Quiet, Active, StaysClosed
    <2>7. Known'
      BY <2>1, <2>3 DEF Known, StaysClosed
    <2> QED BY <2>1, <2>2, <2>5, <2>6, <2>7
  <1>5. CASE Read(c) \/ ReadEnd(c) \/ StopReader(c)
    <2>1. ControlOK' /\ UNCHANGED <<session, phase, handler>>
      BY <1>5 DEF Read, ReadEnd, StopReader, ControlOK
    <2>2. reader[c] = "run" /\ \A d \in Conns : d # c => reader'[d] = reader[d]
      BY <1>5 DEF Read, ReadEnd, StopReader, ControlOK
    <2> QED BY <2>1, <2>2, ControlStep DEF Active
  <1>6. CASE Enqueue(c)
    <2>1. SessionsOK' /\ \A d \in Conns : StaysClosed(d)
      BY <1>6, EnqueueSessions
    <2>2. ControlOK' /\ UNCHANGED <<phase, handler>>
      BY <1>6 DEF Enqueue, ControlOK
    <2>3. reader[c] = "hold" /\ \A d \in Conns : d # c => reader'[d] = reader[d]
      BY <1>6 DEF Enqueue, ControlOK
    <2>4. \A d \in Conns : Active(d)' => Active(d)
      BY <2>3 DEF Active
    <2>5. Outlives'
      BY <2>1, <2>2, <2>4 DEF Outlives, StaysClosed
    <2>6. Quiet'
      BY <2>1, <2>2, <2>4 DEF Quiet, StaysClosed
    <2>7. Known'
      BY <2>1, <2>2 DEF Known, StaysClosed
    <2> QED BY <2>1, <2>2, <2>5, <2>6, <2>7
  <1>7. CASE Deliver(c)
    <2>1. SessionsOK' /\ \A d \in Conns : StaysClosed(d)
      BY <1>7, DeliverSessions
    <2> QED BY <1>7, <2>1, SessionStep DEF Deliver
  <1>8. CASE DeliverEnd(c) \/ StopWriter(c)
    <2>1. UNCHANGED <<session, handler, reader, phase>>
      BY <1>8 DEF DeliverEnd, StopWriter
    <2>2. SessionsOK' /\ \A d \in Conns : StaysClosed(d)
      BY <2>1, SameSessions
    <2> QED BY <2>1, <2>2, SessionStep
  <1> QED BY <1>1, <1>2, <1>3, <1>4, <1>5, <1>6, <1>7, <1>8
          DEF HandlerStep, ReaderStep, WriterStep

LEMMA ArriveStep ==
  ASSUME IInv, NEW y \in Sides, NEW c \in Conns, Arrive(y, c)
  PROVE  IInv'
  <1>1. SessionsOK' /\ \A d \in Conns : StaysClosed(d)
    BY ArriveSessions DEF IInv
  <1>2. UNCHANGED <<reader, phase>>
    BY DEF Arrive
  <1>3. \/ handler' = handler
        \/ handler' = [handler EXCEPT ![c] = "dial"] /\ sess["server"][c].reg = "none" /\ y = "server"
    BY DEF Arrive
  <1>4. CASE handler' = handler
    BY <1>1, <1>2, <1>4, SessionStep
  <1>5. CASE /\ handler' = [handler EXCEPT ![c] = "dial"]
             /\ sess["server"][c].reg = "none"
             /\ y = "server"
    <2>1. handler[c] = "none"
      BY <1>5 DEF IInv, Known
    <2>2. /\ handler'[c] = "dial"
          /\ \A d \in Conns : d # c => handler'[d] = handler[d]
      BY <1>5 DEF IInv, ControlOK
    <2>3. ControlOK'
      BY <1>2, <1>5 DEF IInv, ControlOK
    <2>4. Outlives'
      BY <1>1, <1>2, <2>1, <2>2 DEF IInv, Outlives, Active, StaysClosed
    <2>5. Quiet'
      BY <1>1, <1>2 DEF IInv, Quiet, Active, StaysClosed
    <2>6. sess'["server"][c].reg # "none"
      <3> DEFINE s == sess["server"][c]
                 q == net[Peer("server")][c]
      <3>1. s \in Session /\ q \in Seq(Envelopes) /\ q # <<>>
        BY <1>5, SideFacts DEF IInv, SessionsOK, Arrive
      <3>2. Head(q) \in Envelopes
        BY <3>1, HeadTailProperties
      <3> DEFINE r == [Received(s, Head(q)) EXCEPT !.reg = "live"]
      <3>3. sess' = [sess EXCEPT !["server"][c] = r]
        BY <1>5 DEF Arrive
      <3>4. r \in Session
        BY <3>1, <3>2, ReceivedType
      <3>5. r.reg = "live"
        BY <3>1, <3>2, ReceivedType DEF Session
      <3> HIDE DEF r
      <3> QED BY <3>3, <3>4, <3>5, OneSession, SideFacts DEF IInv
    <2>7. Known'
      BY <1>1, <2>2, <2>6 DEF IInv, Known, StaysClosed
    <2> QED BY <1>1, <2>3, <2>4, <2>5, <2>7 DEF IInv
  <1> QED BY <1>3, <1>4, <1>5

\* The steps of the client's side, of the target and of runServer.
LEMMA OtherSteps ==
  ASSUME IInv, NEW c \in Conns,
         \/ Dial(c) \/ Write(c) \/ UserFin(c) \/ UserGone(c) \/ ClientStep(c)
         \/ TargetWrites(c) \/ TargetCloses(c)
  PROVE  IInv' /\ \A d \in Conns : NoGrowth(d)
  <1>1. CASE Dial(c) \/ Write(c) \/ Return(c) \/ Close(c)
    <2>1. UNCHANGED <<handler, reader, phase>>
      BY <1>1 DEF Dial, Write, Return, Close, server
    <2> QED BY <1>1, <2>1, ClientSessions, SessionStep DEF IInv
  <1>2. CASE UserFin(c) \/ UserGone(c) \/ ReturnEnd(c) \/ TargetWrites(c) \/ TargetCloses(c)
    <2>1. UNCHANGED <<handler, reader, phase>> /\ UNCHANGED session
      BY <1>2 DEF UserFin, UserGone, ReturnEnd, TargetWrites, TargetCloses, server
    <2> QED BY <2>1, SameSessions, SessionStep DEF IInv
  <1> QED BY <1>1, <1>2 DEF ClientStep

LEMMA PhaseSteps ==
  ASSUME IInv, Signal \/ Wait \/ Stop
  PROVE  IInv' /\ \A d \in Conns : NoGrowth(d)
  <1>1. UNCHANGED <<handler, reader>> /\ UNCHANGED session
    BY DEF Signal, Wait, Stop, server
  <1>2. SessionsOK' /\ \A d \in Conns : NoGrowth(d)
    BY <1>1, SameSessions DEF IInv
  <1>3. sess' = sess
    BY <1>1 DEF session
  <1>4. ControlOK' /\ Outlives' /\ Known'
    BY <1>1, <1>3 DEF IInv, ControlOK, Outlives, Known, Active, Signal, Wait, Stop
  <1>5. Quiet'
    <2>1. CASE Signal
      BY <2>1 DEF Signal, Quiet
    <2>2. CASE Wait
      <3>1. \A d \in Conns : Active(d) => sess["server"][d].closed
        BY <2>2 DEF IInv, Outlives, Wait
      <3> QED BY <3>1, <1>1, <1>3 DEF Quiet, Active
    <2>3. CASE Stop
      BY <2>3, <1>1, <1>3 DEF IInv, Quiet, Active, Stop
    <2> QED BY <2>1, <2>2, <2>3
  <1> QED BY <1>2, <1>4, <1>5 DEF IInv

\* Of the server's steps only Enqueue adds to a buffer.
LEMMA ServerGrowth ==
  ASSUME IInv, NEW c \in Conns, HandlerStep(c) \/ ReaderStep(c) \/ WriterStep(c)
  PROVE  BuffersStill
  <1>1. CASE Enqueue(c)
    <2>1. phase \in {"waited", "stopped"} => sess["server"][c].closed
      BY <1>1 DEF IInv, Quiet, Active, Enqueue
    <2> QED BY <1>1, <2>1, EnqueueSessions DEF IInv, BuffersStill, NoGrowth
  <1>2. CASE Deliver(c) \/ CloseSession(c)
    BY <1>2, DeliverSessions DEF IInv, BuffersStill, NoGrowth
  <1>3. CASE ~Enqueue(c) /\ ~Deliver(c) /\ ~CloseSession(c)
    <2>1. UNCHANGED session
      BY <1>3 DEF HandlerStep, ReaderStep, WriterStep, DialTarget, DialFails, HandlerWakes,
                  HandlerDone, Read, ReadEnd, StopReader, DeliverEnd, StopWriter
    <2> QED BY <2>1, SameSessions DEF IInv, BuffersStill, NoGrowth
  <1> QED BY <1>1, <1>2, <1>3

LEMMA NextIInv ==
  ASSUME IInv, [Next]_vars
  PROVE  IInv' /\ BuffersStill
  <1>1. ASSUME NEW c \in Conns, Dial(c) \/ Write(c) \/ UserFin(c) \/ UserGone(c)
        PROVE  IInv' /\ BuffersStill
    BY <1>1, OtherSteps DEF BuffersStill, NoGrowth
  <1>2. ASSUME NEW c \in Conns, ClientStep(c)
        PROVE  IInv' /\ BuffersStill
    BY <1>2, OtherSteps DEF BuffersStill, NoGrowth
  <1>3. ASSUME NEW x \in Sides, NEW Q \in SUBSET Conns, Flush(x, Q)
        PROVE  IInv' /\ BuffersStill
    <2>1. UNCHANGED <<handler, reader, phase>>
      BY <1>3 DEF Flush, server
    <2>2. SessionsOK' /\ \A d \in Conns : StaysClosed(d) /\ NoGrowth(d)
      BY <1>3, FlushSessions DEF IInv
    <2> QED BY <2>1, <2>2, SessionStep DEF BuffersStill, NoGrowth
  <1>4. ASSUME NEW y \in Sides, NEW c \in Conns, Arrive(y, c)
        PROVE  IInv' /\ BuffersStill
    BY <1>4, ArriveStep, ArriveSessions DEF IInv, BuffersStill, NoGrowth
  <1>5. ASSUME NEW c \in Conns, HandlerStep(c) \/ ReaderStep(c) \/ WriterStep(c)
        PROVE  IInv' /\ BuffersStill
    BY <1>5, ServerSteps, ServerGrowth
  <1>6. ASSUME NEW c \in Conns, TargetWrites(c) \/ TargetCloses(c)
        PROVE  IInv' /\ BuffersStill
    BY <1>6, OtherSteps DEF BuffersStill, NoGrowth
  <1>7. CASE Signal \/ Wait \/ Stop
    BY <1>7, PhaseSteps DEF BuffersStill, NoGrowth
  <1>8. CASE UNCHANGED vars
    <2>1. UNCHANGED <<handler, reader, phase>> /\ UNCHANGED session
      BY <1>8 DEF vars, server
    <2> QED BY <2>1, SameSessions, SessionStep DEF IInv, BuffersStill, NoGrowth
  <1> QED BY <1>1, <1>2, <1>3, <1>4, <1>5, <1>6, <1>7, <1>8 DEF Next

\* After serverWg.Wait no buffer of the server grows, for any number of
\* connections and any sizes.
THEOREM BuffersStillHold == Spec => BuffersStillAfterWait
  <1>1. Init => IInv
    BY InitIInv
  <1>2. IInv /\ [Next]_vars => IInv'
    BY NextIInv
  <1>3. IInv /\ [Next]_vars => [BuffersStill]_vars
    BY NextIInv
  <1> QED BY <1>1, <1>2, <1>3, PTL DEF Spec, BuffersStillAfterWait

-----------------------------------------------------------------------------
(* The rest of the types: the two ends of a connection.                     *)

Targets == [wrote : Nat, read : Nat, got : Nat, closed : BOOLEAN]

EndpointsOK ==
  /\ user \in [Conns -> {"none", "open", "fin", "gone"}]
  /\ vconn \in [Conns -> {"none", "open", "closed", "refused"}]
  /\ up \in [Conns -> {"run", "eof", "err"}]
  /\ down \in [Conns -> {"run", "eof", "err"}]
  /\ writer \in [Conns -> {"none", "run", "over"}]
  /\ done \in [Conns -> BOOLEAN]
  /\ target \in [Conns -> Targets]
  /\ sent \in [Conns -> Nat]
  /\ got \in [Conns -> Nat]
  /\ cut \in [Conns -> SUBSET Causes]

LEMMA TypeParts == SessionsOK /\ ControlOK /\ EndpointsOK <=> TypeOK
  BY DEF SessionsOK, ControlOK, EndpointsOK, TypeOK, Envelopes, Targets

LEMMA InitEndpoints == Init => EndpointsOK
  <1> SUFFICES ASSUME Init PROVE EndpointsOK
    OBVIOUS
  <1>1. target \in [Conns -> Targets]
    BY DEF Init, Targets
  <1>2. sent \in [Conns -> Nat] /\ got \in [Conns -> Nat] /\ cut \in [Conns -> SUBSET Causes]
    BY DEF Init
  <1>3. /\ user \in [Conns -> {"none", "open", "fin", "gone"}]
        /\ vconn \in [Conns -> {"none", "open", "closed", "refused"}]
        /\ up \in [Conns -> {"run", "eof", "err"}]
        /\ down \in [Conns -> {"run", "eof", "err"}]
    BY DEF Init
  <1>4. writer \in [Conns -> {"none", "run", "over"}] /\ done \in [Conns -> BOOLEAN]
    BY DEF Init
  <1> QED BY <1>1, <1>2, <1>3, <1>4 DEF EndpointsOK

LEMMA CutType ==
  ASSUME EndpointsOK, NEW c \in Conns, NEW cause \in Causes,
         Cut(c, cause) \/ cut' = cut
  PROVE  cut' \in [Conns -> SUBSET Causes]
  BY DEF EndpointsOK, Cut

LEMMA HangupType ==
  ASSUME EndpointsOK, NEW c \in Conns, Hangup(c) \/ done' = done
  PROVE  done' \in [Conns -> BOOLEAN]
  BY DEF EndpointsOK, Hangup

LEMMA ClientEndpoints ==
  ASSUME EndpointsOK, NEW c \in Conns,
         Dial(c) \/ Write(c) \/ UserFin(c) \/ UserGone(c) \/ ClientStep(c)
  PROVE  EndpointsOK'
  <1> USE DEF EndpointsOK
  <1>1. CASE Dial(c)
    BY <1>1 DEF Dial, server
  <1>2. CASE Write(c)
    <2>1. cut' \in [Conns -> SUBSET Causes]
      BY <1>2, CutType DEF Write, Causes
    <2>2. /\ up' \in [Conns -> {"run", "eof", "err"}]
          /\ sent' \in [Conns -> Nat]
      BY <1>2 DEF Write
    <2> QED BY <1>2, <2>1, <2>2 DEF Write, server
  <1>3. CASE UserFin(c)
    BY <1>3 DEF UserFin, server
  <1>4. CASE UserGone(c)
    <2>1. cut' \in [Conns -> SUBSET Causes]
      BY <1>4, CutType DEF UserGone, Causes
    <2> QED BY <1>4, <2>1 DEF UserGone, server
  <1>5. CASE ClientStep(c)
    BY <1>5 DEF ClientStep, Return, ReturnEnd, Close, server
  <1> QED BY <1>1, <1>2, <1>3, <1>4, <1>5

LEMMA TargetUpdates ==
  ASSUME NEW t \in Targets
  PROVE  /\ [t EXCEPT !.wrote = @ + 1] \in Targets
         /\ [t EXCEPT !.read = @ + 1] \in Targets
         /\ [t EXCEPT !.got = @ + 1] \in Targets
         /\ [t EXCEPT !.closed = TRUE] \in Targets
  <1>1. [t EXCEPT !.wrote = @ + 1] \in Targets
    BY DEF Targets
  <1>2. [t EXCEPT !.read = @ + 1] \in Targets
    BY DEF Targets
  <1>3. [t EXCEPT !.got = @ + 1] \in Targets
    BY DEF Targets
  <1>4. [t EXCEPT !.closed = TRUE] \in Targets
    BY DEF Targets
  <1> QED BY <1>1, <1>2, <1>3, <1>4

LEMMA ServerEndpoints ==
  ASSUME EndpointsOK, NEW c \in Conns,
         HandlerStep(c) \/ ReaderStep(c) \/ WriterStep(c)
  PROVE  EndpointsOK'
  <1>1. cut' \in [Conns -> SUBSET Causes]
    <2>1. \/ cut' = cut
          \/ Cut(c, "dial") \/ Cut(c, "late") \/ Cut(c, "target")
      BY DEF HandlerStep, ReaderStep, WriterStep, DialTarget, DialFails, HandlerWakes,
             CloseSession, HandlerDone, Read, Enqueue, ReadEnd, StopReader,
             Deliver, DeliverEnd, StopWriter
    <2> QED BY <2>1, CutType DEF Causes
  <1>2. done' \in [Conns -> BOOLEAN]
    <2>1. Hangup(c) \/ done' = done
      BY DEF HandlerStep, ReaderStep, WriterStep, DialTarget, DialFails, HandlerWakes,
             CloseSession, HandlerDone, Read, Enqueue, ReadEnd, StopReader,
             Deliver, DeliverEnd, StopWriter
    <2> QED BY <2>1, HangupType
  <1>3. /\ UNCHANGED <<user, vconn, up, down, sent, got>>
        /\ \/ writer' = writer
           \/ writer' = [writer EXCEPT ![c] = "run"]
           \/ writer' = [writer EXCEPT ![c] = "over"]
    BY DEF HandlerStep, ReaderStep, WriterStep, DialTarget, DialFails, HandlerWakes,
           CloseSession, HandlerDone, Read, Enqueue, ReadEnd, StopReader,
           Deliver, DeliverEnd, StopWriter, client
  <1>4. target' \in [Conns -> Targets]
    <2>1. \/ target' = target
          \/ target' = [target EXCEPT ![c].read = @ + 1]
          \/ target' = [target EXCEPT ![c].got = @ + 1]
      BY DEF HandlerStep, ReaderStep, WriterStep, DialTarget, DialFails, HandlerWakes,
             CloseSession, HandlerDone, Read, Enqueue, ReadEnd, StopReader,
             Deliver, DeliverEnd, StopWriter
    <2>2. target \in [Conns -> Targets] /\ target[c] \in Targets
      BY DEF EndpointsOK
    <2>3. /\ [target[c] EXCEPT !.read = @ + 1] \in Targets
          /\ [target[c] EXCEPT !.got = @ + 1] \in Targets
      BY <2>2, TargetUpdates
    <2> QED BY <2>1, <2>2, <2>3
  <1> QED BY <1>1, <1>2, <1>3, <1>4 DEF EndpointsOK

LEMMA OtherEndpoints ==
  ASSUME EndpointsOK,
         \/ \E x \in Sides, Q \in SUBSET Conns : Flush(x, Q)
         \/ \E y \in Sides, c \in Conns : Arrive(y, c)
         \/ \E c \in Conns : TargetWrites(c) \/ TargetCloses(c)
         \/ Signal \/ Wait \/ Stop
         \/ UNCHANGED vars
  PROVE  EndpointsOK'
  <1> USE DEF EndpointsOK
  <1>1. ASSUME NEW x \in Sides, NEW Q \in SUBSET Conns, Flush(x, Q)
        PROVE  EndpointsOK'
    <2>1. UNCHANGED <<user, vconn, up, down, writer, done, target, sent, got>>
      BY <1>1 DEF Flush, client, server
    <2>2. cut' = [c \in Conns |-> IF c \in Q THEN cut[c] \cup {"idle"} ELSE cut[c]]
      BY <1>1 DEF Flush
    <2>3. cut' \in [Conns -> SUBSET Causes]
      BY <2>2 DEF Causes
    <2> QED BY <2>1, <2>3
  <1>2. ASSUME NEW y \in Sides, NEW c \in Conns, Arrive(y, c)
        PROVE  EndpointsOK'
    BY <1>2 DEF Arrive, client
  <1>3. ASSUME NEW c \in Conns, TargetWrites(c) \/ TargetCloses(c)
        PROVE  EndpointsOK'
    <2>1. UNCHANGED <<user, vconn, up, down, writer, done, sent, got, cut>>
      BY <1>3 DEF TargetWrites, TargetCloses, client
    <2>2. target' \in [Conns -> Targets]
      <3>1. /\ [target[c] EXCEPT !.wrote = @ + 1] \in Targets
            /\ [target[c] EXCEPT !.closed = TRUE] \in Targets
        BY TargetUpdates
      <3>2. \/ target' = [target EXCEPT ![c] = [target[c] EXCEPT !.wrote = @ + 1]]
            \/ target' = [target EXCEPT ![c] = [target[c] EXCEPT !.closed = TRUE]]
        BY <1>3 DEF TargetWrites, TargetCloses
      <3> QED BY <3>1, <3>2
    <2> QED BY <2>1, <2>2
  <1>4. CASE Signal \/ Wait \/ Stop
    BY <1>4 DEF Signal, Wait, Stop, client, server
  <1>5. CASE UNCHANGED vars
    <2>1. UNCHANGED <<user, vconn, up, down, writer, done, target, sent, got, cut>>
      BY <1>5 DEF vars, client, server
    <2> QED BY <2>1
  <1> QED BY <1>1, <1>2, <1>3, <1>4, <1>5

LEMMA NextEndpoints ==
  ASSUME EndpointsOK, [Next]_vars
  PROVE  EndpointsOK'
  BY ClientEndpoints, ServerEndpoints, OtherEndpoints DEF Next

LEMMA InvariantsAlways == Spec => [](IInv /\ EndpointsOK)
  <1>1. Init => IInv /\ EndpointsOK
    BY InitIInv, InitEndpoints
  <1>2. IInv /\ EndpointsOK /\ [Next]_vars => (IInv /\ EndpointsOK)'
    BY NextIInv, NextEndpoints
  <1> QED BY <1>1, <1>2, PTL DEF Spec

\* No step takes a byte from a buffer or from RxChan that is not there, and a
\* cause of a connection's end is one of Causes, for any number of connections.
THEOREM TunnelTypeCorrect == Spec => []TypeOK
  <1>1. IInv /\ EndpointsOK => TypeOK
    BY TypeParts DEF IInv
  <1> QED BY <1>1, InvariantsAlways, PTL

-----------------------------------------------------------------------------
(* What envelopes on their way carry.  A sum over a sequence is recursive;  *)
(* what the proof needs is a witness: at[i] is how far the stream is after  *)
(* the first i of them.                                                     *)

Carries(q, a, b) ==
  \E at \in [0..Len(q) -> 0..b] :
    /\ at[0] = a /\ at[Len(q)] = b
    /\ \A i \in 1..Len(q) : at[i] = at[i - 1] + q[i].n

\* q stands between lo bytes that arrived and hi that left; nothing else was
\* lost if it is whole.
Between(q, lo, hi, whole) ==
  \E a, b \in Nat :
    /\ Carries(q, a, b)
    /\ lo <= a /\ b <= hi
    /\ whole => lo = a /\ b = hi

LEMMA CarriesAppend ==
  ASSUME NEW q \in Seq(Envelopes), NEW e \in Envelopes,
         NEW a \in Nat, NEW b \in Nat, Carries(q, a, b)
  PROVE  Carries(Append(q, e), a, b + e.n)
  <1>1. PICK at \in [0..Len(q) -> 0..b] :
          /\ at[0] = a /\ at[Len(q)] = b
          /\ \A i \in 1..Len(q) : at[i] = at[i - 1] + q[i].n
    BY DEF Carries
  <1> DEFINE more == [i \in 0..Len(q) + 1 |-> IF i <= Len(q) THEN at[i] ELSE b + e.n]
             p == Append(q, e)
  <1>2. e.n \in Nat /\ Len(q) \in Nat
    BY LenProperties DEF Envelopes
  <1>3. /\ Len(p) = Len(q) + 1
        /\ p[Len(q) + 1] = e
        /\ \A i \in 1..Len(q) : p[i] = q[i]
    BY AppendProperties
  <1>4. more \in [0..Len(q) + 1 -> 0..b + e.n]
    <2> SUFFICES ASSUME NEW i \in 0..Len(q) + 1
                 PROVE  (IF i <= Len(q) THEN at[i] ELSE b + e.n) \in 0..b + e.n
      OBVIOUS
    <2>1. CASE i <= Len(q)
      <3>1. i \in 0..Len(q)
        BY <2>1, <1>2
      <3>2. at[i] \in 0..b
        BY <3>1, <1>1
      <3> QED BY <2>1, <3>2, <1>2
    <2> QED BY <2>1, <1>2
  <1>5. more[0] = a /\ more[Len(q) + 1] = b + e.n
    BY <1>1, <1>2
  <1>6. ASSUME NEW i \in 1..Len(q) + 1 PROVE more[i] = more[i - 1] + p[i].n
    <2>1. CASE i <= Len(q)
      <3>1. i \in 1..Len(q) /\ i \in 0..Len(q) + 1 /\ i - 1 \in 0..Len(q) + 1 /\ i - 1 <= Len(q)
        BY <2>1, <1>2
      <3> QED BY <3>1, <2>1, <1>1, <1>3
    <2>2. CASE i = Len(q) + 1
      <3>1. i - 1 = Len(q) /\ ~(i <= Len(q)) /\ i \in 0..Len(q) + 1 /\ i - 1 \in 0..Len(q) + 1
        BY <2>2, <1>2
      <3>2. more[i] = b + e.n
        BY <3>1
      <3>3. more[i - 1] = b
        BY <3>1, <1>1
      <3> QED BY <3>2, <3>3, <2>2, <1>3
    <2> QED BY <2>1, <2>2, <1>2
  <1> HIDE DEF more, p
  <1>7. Carries(p, a, b + e.n)
    BY <1>3, <1>4, <1>5, <1>6 DEF Carries
  <1> QED BY <1>7 DEF p

LEMMA CarriesTail ==
  ASSUME NEW q \in Seq(Envelopes), q # <<>>,
         NEW a \in Nat, NEW b \in Nat, Carries(q, a, b)
  PROVE  a + Head(q).n \in 0..b /\ Carries(Tail(q), a + Head(q).n, b)
  <1>1. PICK at \in [0..Len(q) -> 0..b] :
          /\ at[0] = a /\ at[Len(q)] = b
          /\ \A i \in 1..Len(q) : at[i] = at[i - 1] + q[i].n
    BY DEF Carries
  <1> DEFINE rest == [i \in 0..Len(q) - 1 |-> at[i + 1]]
             p == Tail(q)
  <1>2. Len(q) \in Nat /\ Len(q) >= 1
    BY EmptySeq, LenProperties
  <1>3. /\ Len(p) = Len(q) - 1
        /\ Head(q) = q[1]
        /\ \A i \in 1..Len(q) - 1 : p[i] = q[i + 1]
    BY <1>2, HeadTailProperties
  <1>4. at[1] = a + Head(q).n /\ at[1] \in 0..b
    BY <1>1, <1>2, <1>3
  <1>5. rest \in [0..Len(q) - 1 -> 0..b]
    BY <1>1, <1>2
  <1>6. rest[0] = at[1] /\ rest[Len(q) - 1] = b
    BY <1>1, <1>2
  <1>7. ASSUME NEW i \in 1..Len(q) - 1 PROVE rest[i] = rest[i - 1] + p[i].n
    <2>1. i + 1 \in 1..Len(q) /\ i \in 0..Len(q) - 1 /\ i - 1 \in 0..Len(q) - 1 /\ (i - 1) + 1 = i /\ (i + 1) - 1 = i
      BY <1>2
    <2> QED BY <2>1, <1>1, <1>3
  <1> HIDE DEF rest, p
  <1>8. Carries(p, at[1], b)
    BY <1>3, <1>5, <1>6, <1>7 DEF Carries
  <1> QED BY <1>4, <1>8 DEF p

LEMMA CarriesNothing ==
  /\ Carries(<<>>, 0, 0)
  /\ \A a, b \in Nat : Carries(<<>>, a, b) => a = b
  <1>1. Len(<<>>) = 0
    BY EmptySeq
  <1>2. Carries(<<>>, 0, 0)
    <2> DEFINE at == [i \in 0..0 |-> 0]
    <2>1. at \in [0..0 -> 0..0] /\ at[0] = 0
      OBVIOUS
    <2>2. \A i \in 1..0 : at[i] = at[i - 1] + <<>>[i].n
      OBVIOUS
    <2> HIDE DEF at
    <2> QED BY <1>1, <2>1, <2>2 DEF Carries
  <1> QED BY <1>1, <1>2 DEF Carries

LEMMA BetweenKeeps ==
  ASSUME NEW q, NEW lo \in Int, NEW hi \in Int, NEW whole \in BOOLEAN,
         NEW lo2 \in Int, NEW hi2 \in Int, NEW whole2 \in BOOLEAN,
         Between(q, lo, hi, whole),
         lo2 <= lo, hi <= hi2,
         whole2 => whole /\ lo2 = lo /\ hi2 = hi
  PROVE  Between(q, lo2, hi2, whole2)
  <1>1. PICK a \in Nat, b \in Nat :
          Carries(q, a, b) /\ lo <= a /\ b <= hi /\ (whole => lo = a /\ b = hi)
    BY DEF Between
  <1>2. lo2 <= a /\ b <= hi2 /\ (whole2 => lo2 = a /\ b = hi2)
    BY <1>1
  <1> QED BY <1>1, <1>2 DEF Between

LEMMA BetweenAppend ==
  ASSUME NEW q \in Seq(Envelopes), NEW e \in Envelopes,
         NEW lo \in Int, NEW hi \in Int, NEW whole \in BOOLEAN,
         Between(q, lo, hi, whole)
  PROVE  Between(Append(q, e), lo, hi + e.n, whole)
  <1>1. PICK a \in Nat, b \in Nat :
          Carries(q, a, b) /\ lo <= a /\ b <= hi /\ (whole => lo = a /\ b = hi)
    BY DEF Between
  <1>2. e.n \in Nat
    BY DEF Envelopes
  <1>3. b + e.n \in Nat /\ b + e.n <= hi + e.n /\ (whole => b + e.n = hi + e.n)
    BY <1>1, <1>2
  <1> QED BY <1>1, <1>3, CarriesAppend DEF Between

\* The first envelope arrives, or is dropped.
LEMMA BetweenTail ==
  ASSUME NEW q \in Seq(Envelopes), q # <<>>,
         NEW lo \in Int, NEW hi \in Int, NEW whole \in BOOLEAN,
         Between(q, lo, hi, whole)
  PROVE  /\ Between(Tail(q), lo + Head(q).n, hi, whole)
         /\ Between(Tail(q), lo, hi, FALSE)
  <1>1. PICK a \in Nat, b \in Nat :
          Carries(q, a, b) /\ lo <= a /\ b <= hi /\ (whole => lo = a /\ b = hi)
    BY DEF Between
  <1>2. Head(q).n \in Nat
    <2>1. Head(q) \in Envelopes
      BY HeadTailProperties
    <2> QED BY <2>1 DEF Envelopes
  <1>3. a + Head(q).n \in Nat /\ lo + Head(q).n <= a + Head(q).n /\ lo <= a + Head(q).n
    BY <1>1, <1>2
  <1>4. Carries(Tail(q), a + Head(q).n, b)
    BY <1>1, CarriesTail
  <1> QED BY <1>1, <1>2, <1>3, <1>4 DEF Between

LEMMA BetweenBounds ==
  ASSUME NEW q \in Seq(Envelopes), NEW lo \in Int, NEW hi \in Int, NEW whole \in BOOLEAN,
         Between(q, lo, hi, whole)
  PROVE  /\ lo <= hi
         /\ q = <<>> /\ whole => lo = hi
  <1>1. PICK a \in Nat, b \in Nat :
          Carries(q, a, b) /\ lo <= a /\ b <= hi /\ (whole => lo = a /\ b = hi)
    BY DEF Between
  <1>2. a <= b
    <2>1. PICK at \in [0..Len(q) -> 0..b] : at[0] = a /\ at[Len(q)] = b
      BY <1>1 DEF Carries
    <2>2. 0 \in 0..Len(q)
      BY LenProperties
    <2> QED BY <2>1, <2>2
  <1> QED BY <1>1, <1>2, CarriesNothing

-----------------------------------------------------------------------------
(* The inductive invariant of the two pipes.  Whether a connection keeps    *)
(* its bytes depends on who closes what, in which order, on both sides; the *)
(* connections do not touch each other.                                     *)

Near(c)   == sess["client"][c]
Far(c)    == sess["server"][c]
ToFar(c)  == net["client"][c]
ToNear(c) == net["server"][c]

Typed == SessionsOK /\ ControlOK /\ EndpointsOK

\* The pipe of one direction is neither broken nor at its end.
DownWhole(c) == cut[c] = {} /\ ~Cancelled /\ down[c] # "eof" /\ vconn[c] # "closed"
UpWhole(c)   == cut[c] \ {"user"} = {} /\ ~Cancelled /\ ~target[c].closed /\ ~done[c]

\* Bytes that were put into the server's session.
Loaded(c) == target[c].read - IF reader[c] = "hold" THEN 1 ELSE 0

LowDown(c)  == got[c] + Near(c).rx
HighDown(c) == Loaded(c) - Far(c).buf
LowUp(c)    == target[c].got + Far(c).rx
HighUp(c)   == sent[c] - Near(c).buf

\* Every byte is where it should be; some may be lost when a pipe is broken.
FlowsOK(c) ==
  /\ target[c].read <= target[c].wrote
  /\ Between(ToNear(c), LowDown(c), HighDown(c), DownWhole(c))
  /\ Between(ToFar(c), LowUp(c), HighUp(c), UpWhole(c))

\* Nothing happens to a connection before its dial.
Unused(c) ==
  vconn[c] \in {"none", "refused"} =>
    /\ Near(c) = NewSession /\ Far(c) = NewSession
    /\ ToFar(c) = <<>> /\ ToNear(c) = <<>>
    /\ handler[c] = "none"

Started(c) ==
  /\ user[c] = "none" => vconn[c] = "none"
  /\ reader[c] # "none" => handler[c] \notin {"none", "dial"}

\* The Close of session s is the last of its envelopes q, behind its buffer.
Last(s, q) ==
  /\ s.reg = "tomb" => s.closed /\ s.buf = 0
  /\ s.rxEnd => s.closed
  /\ \A i \in 1..Len(q) : q[i].close => i = Len(q) /\ s.reg = "tomb"

\* RxChan is closed by the peer's Close, or by the handler.
RxEnds(c) ==
  /\ Near(c).rxEnd => Far(c).reg = "tomb" /\ ToNear(c) = <<>>
  /\ Far(c).rxEnd => \/ Near(c).reg = "tomb" /\ ToFar(c) = <<>>
                     \/ handler[c] \in {"closed", "done"}

Excused(c) ==
  up[c] = "err" \/ down[c] = "err" \/ (vconn[c] = "open" /\ user[c] = "gone") => cut[c] # {}

Ending(c) == handler[c] \in {"ending", "closed", "done"}

\* All that the target wrote has left the reader, and no more comes.
Finished(c) ==
  target[c].closed /\ target[c].read = target[c].wrote /\ reader[c] = "over"

\* As long as the pipe to the user is whole, whoever closes does so because
\* the target did.
DownEnds(c) ==
  DownWhole(c) =>
    /\ Near(c).closed => Near(c).rxEnd
    /\ done[c] \/ Ending(c) \/ Near(c).closed \/ Far(c).closed => Finished(c)

\* As long as the pipe to the target is whole, whoever closes does so because
\* the VirtualConn did.
UpEnds(c) ==
  UpWhole(c) =>
    /\ ~Ending(c)
    /\ Far(c).closed => Far(c).rxEnd
    /\ Near(c).closed \/ Far(c).closed => vconn[c] = "closed"

EndsOK(c) ==
  /\ Unused(c) /\ Started(c)
  /\ Last(Near(c), ToFar(c)) /\ Last(Far(c), ToNear(c))
  /\ RxEnds(c) /\ Excused(c)
  /\ DownEnds(c) /\ UpEnds(c)

PipesOK(c) == FlowsOK(c) /\ EndsOK(c)

\* All that belongs to one connection.
View(c) ==
  <<user[c], vconn[c], up[c], down[c], Near(c), Far(c), ToFar(c), ToNear(c),
    handler[c], reader[c], writer[c], done[c], target[c], sent[c], got[c],
    cut[c], Cancelled>>

OnlyIn(c) == \A d \in Conns \ {c} : View(d)' = View(d)

\* What never goes back.
Onward(c) ==
  /\ cut[c] \subseteq cut'[c]
  /\ Cancelled => Cancelled'
  /\ target[c].closed => target'[c].closed
  /\ down[c] = "eof" => down'[c] = "eof"
  /\ vconn[c] = "closed" => vconn'[c] = "closed"
  /\ done[c] => done'[c]

LEMMA StandStill ==
  ASSUME NEW c \in Conns, View(c)' = View(c)
  PROVE  (PipesOK(c) => PipesOK(c)') /\ Onward(c)
  <1>1. /\ FlowsOK(c) => FlowsOK(c)'
        /\ Onward(c)
    BY DEF View, FlowsOK, Onward, LowDown, HighDown, LowUp, HighUp, Loaded, DownWhole, UpWhole
  <1>2. Unused(c) => Unused(c)'
    BY DEF View, Unused
  <1>3. Started(c) => Started(c)'
    BY DEF View, Started
  <1>4. Last(Near(c), ToFar(c)) /\ Last(Far(c), ToNear(c)) =>
          Last(Near(c), ToFar(c))' /\ Last(Far(c), ToNear(c))'
    BY DEF View, Last
  <1>5. RxEnds(c) /\ Excused(c) => RxEnds(c)' /\ Excused(c)'
    BY DEF View, RxEnds, Excused
  <1>6. DownEnds(c) => DownEnds(c)'
    BY DEF View, DownEnds, DownWhole, Ending, Finished
  <1>7. UpEnds(c) => UpEnds(c)'
    BY DEF View, UpEnds, UpWhole, Ending
  <1> QED BY <1>1, <1>2, <1>3, <1>4, <1>5, <1>6, <1>7 DEF PipesOK, EndsOK

ValuesOK(c) ==
  /\ Near(c) \in Session /\ Far(c) \in Session
  /\ ToFar(c) \in Seq(Envelopes) /\ ToNear(c) \in Seq(Envelopes)
  /\ target[c] \in Targets /\ sent[c] \in Nat /\ got[c] \in Nat
  /\ LowDown(c) \in Int /\ HighDown(c) \in Int /\ LowUp(c) \in Int /\ HighUp(c) \in Int
  /\ DownWhole(c) \in BOOLEAN /\ UpWhole(c) \in BOOLEAN

LEMMA LocalTypes == Typed => \A c \in Conns : ValuesOK(c)
  <1> SUFFICES ASSUME Typed, NEW c \in Conns PROVE ValuesOK(c)
    OBVIOUS
  <1>1. /\ Near(c) \in Session /\ Far(c) \in Session
        /\ ToFar(c) \in Seq(Envelopes) /\ ToNear(c) \in Seq(Envelopes)
    BY SideFacts DEF Typed, SessionsOK, Near, Far, ToFar, ToNear
  <1>2. target[c] \in Targets /\ sent[c] \in Nat /\ got[c] \in Nat
    BY DEF Typed, EndpointsOK
  <1>3. /\ Near(c).rx \in Nat /\ Near(c).buf \in Nat /\ Far(c).rx \in Nat /\ Far(c).buf \in Nat
        /\ target[c].read \in Nat /\ target[c].got \in Nat
    BY <1>1, <1>2 DEF Session, Targets
  <1>4. /\ LowDown(c) \in Int /\ HighDown(c) \in Int
        /\ LowUp(c) \in Int /\ HighUp(c) \in Int
    BY <1>2, <1>3 DEF LowDown, HighDown, LowUp, HighUp, Loaded
  <1>5. DownWhole(c) \in BOOLEAN /\ UpWhole(c) \in BOOLEAN
    BY DEF DownWhole, UpWhole
  <1> QED BY <1>1, <1>2, <1>4, <1>5 DEF ValuesOK

LEMMA LocalTypesNext == Typed' => \A c \in Conns : ValuesOK(c)'
  <1>1. Typed' => (\A c \in Conns : ValuesOK(c))'
    BY LocalTypes, PTL
  <1> QED BY <1>1

LEMMA WholeBefore ==
  ASSUME NEW c \in Conns, Onward(c)
  PROVE  (DownWhole(c)' => DownWhole(c)) /\ (UpWhole(c)' => UpWhole(c))
  BY DEF Onward, DownWhole, UpWhole

\* Steps that leave the network alone.
LEMMA FlowsKeep ==
  ASSUME Typed, Typed', NEW c \in Conns, FlowsOK(c), Onward(c),
         ToNear(c)' = ToNear(c), ToFar(c)' = ToFar(c),
         LowDown(c)' <= LowDown(c), HighDown(c) <= HighDown(c)',
         DownWhole(c)' => LowDown(c)' = LowDown(c) /\ HighDown(c)' = HighDown(c),
         LowUp(c)' <= LowUp(c), HighUp(c) <= HighUp(c)',
         UpWhole(c)' => LowUp(c)' = LowUp(c) /\ HighUp(c)' = HighUp(c),
         target'[c].read <= target'[c].wrote
  PROVE  FlowsOK(c)'
  <1>1. ValuesOK(c) /\ ValuesOK(c)'
    BY LocalTypes, LocalTypesNext
  <1>2. /\ LowDown(c) \in Int /\ HighDown(c) \in Int /\ LowUp(c) \in Int /\ HighUp(c) \in Int
        /\ DownWhole(c) \in BOOLEAN /\ UpWhole(c) \in BOOLEAN
    BY <1>1 DEF ValuesOK
  <1>3. /\ LowDown(c)' \in Int /\ HighDown(c)' \in Int /\ LowUp(c)' \in Int /\ HighUp(c)' \in Int
        /\ DownWhole(c)' \in BOOLEAN /\ UpWhole(c)' \in BOOLEAN
    BY <1>1 DEF ValuesOK
  <1>4. Between(ToNear(c)', LowDown(c)', HighDown(c)', DownWhole(c)')
    <2>1. Between(ToNear(c), LowDown(c)', HighDown(c)', DownWhole(c)')
      BY <1>2, <1>3, WholeBefore, BetweenKeeps DEF FlowsOK
    <2> QED BY <2>1
  <1>5. Between(ToFar(c)', LowUp(c)', HighUp(c)', UpWhole(c)')
    <2>1. Between(ToFar(c), LowUp(c)', HighUp(c)', UpWhole(c)')
      BY <1>2, <1>3, WholeBefore, BetweenKeeps DEF FlowsOK
    <2> QED BY <2>1
  <1> QED BY <1>4, <1>5 DEF FlowsOK

LEMMA FlowsSame ==
  ASSUME Typed, Typed', NEW c \in Conns, FlowsOK(c), Onward(c),
         ToNear(c)' = ToNear(c), ToFar(c)' = ToFar(c),
         LowDown(c)' = LowDown(c), HighDown(c)' = HighDown(c),
         LowUp(c)' = LowUp(c), HighUp(c)' = HighUp(c),
         target'[c].read <= target'[c].wrote
  PROVE  FlowsOK(c)'
  <1>1. LowDown(c) \in Int /\ HighDown(c) \in Int /\ LowUp(c) \in Int /\ HighUp(c) \in Int
    BY LocalTypes DEF ValuesOK
  <1>2. /\ LowDown(c)' <= LowDown(c) /\ HighDown(c) <= HighDown(c)'
        /\ LowUp(c)' <= LowUp(c) /\ HighUp(c) <= HighUp(c)'
    BY <1>1
  <1> QED BY <1>2, FlowsKeep

\* One session changes, of one connection.
LEMMA NearChange ==
  ASSUME Typed, NEW c \in Conns, NEW t, sess' = [sess EXCEPT !["client"][c] = t]
  PROVE  /\ Near(c)' = t /\ Far(c)' = Far(c)
         /\ \A d \in Conns \ {c} : Near(d)' = Near(d) /\ Far(d)' = Far(d)
  BY SideFacts DEF Typed, SessionsOK, Near, Far

LEMMA FarChange ==
  ASSUME Typed, NEW c \in Conns, NEW t, sess' = [sess EXCEPT !["server"][c] = t]
  PROVE  /\ Far(c)' = t /\ Near(c)' = Near(c)
         /\ \A d \in Conns \ {c} : Near(d)' = Near(d) /\ Far(d)' = Far(d)
  BY SideFacts DEF Typed, SessionsOK, Near, Far

LEMMA NoChange ==
  /\ sess' = sess => \A d \in Conns : Near(d)' = Near(d) /\ Far(d)' = Far(d)
  /\ net' = net => \A d \in Conns : ToNear(d)' = ToNear(d) /\ ToFar(d)' = ToFar(d)
  BY DEF Near, Far, ToNear, ToFar


-----------------------------------------------------------------------------
(* The steps of the client's application side.                              *)

LEMMA DialPipes ==
  ASSUME Typed, Typed', NEW c \in Conns, PipesOK(c), Dial(c)
  PROVE  PipesOK(c)' /\ OnlyIn(c) /\ Onward(c)
  <1>1. /\ UNCHANGED <<up, down, sent, got, handler, reader, writer, done, target, net, phase, cut>>
        /\ \A d \in Conns : ToNear(d)' = ToNear(d) /\ ToFar(d)' = ToFar(d)
    BY NoChange DEF Dial, server
  <1>2. /\ user[c] = "none"
        /\ user'[c] \in {"open", "gone"}
        /\ vconn'[c] = IF user'[c] = "open" THEN "open" ELSE "refused"
        /\ \A d \in Conns \ {c} : user'[d] = user[d] /\ vconn'[d] = vconn[d]
    BY DEF Dial, Typed, EndpointsOK
  <1>3. /\ Far(c)' = Far(c)
        /\ user'[c] = "gone" => Near(c)' = Near(c)
        /\ Near(c)' \in {Near(c), [Near(c) EXCEPT !.reg = "live"]}
        /\ \A d \in Conns \ {c} : Near(d)' = Near(d) /\ Far(d)' = Far(d)
    <2>1. CASE sess' = sess
      BY <2>1, NoChange
    <2>2. CASE sess' = [sess EXCEPT !["client"][c].reg = "live"]
      <3>1. sess' = [sess EXCEPT !["client"][c] = [Near(c) EXCEPT !.reg = "live"]]
        BY <2>2 DEF Near
      <3>2. user'[c] # "gone"
        <4>1. CASE user' = [user EXCEPT ![c] = "open"]
          BY <4>1 DEF Typed, EndpointsOK
        <4>2. CASE user' # [user EXCEPT ![c] = "open"]
          <5>1. sess' = sess
            BY <4>2 DEF Dial
          <5>2. Near(c).reg = "none"
            BY <1>2 DEF PipesOK, EndsOK, Started, Unused, NewSession
          <5>3. Near(c)' = [Near(c) EXCEPT !.reg = "live"]
            BY <3>1, NearChange
          <5>4. Near(c) \in Session
            BY LocalTypes DEF ValuesOK
          <5>5. Near(c)' = Near(c)
            BY <5>1, NoChange
          <5>6. [Near(c) EXCEPT !.reg = "live"].reg = "live"
            BY <5>4 DEF Session
          <5> QED BY <5>2, <5>3, <5>5, <5>6
        <4> QED BY <4>1, <4>2
      <3> QED BY <3>1, <3>2, NearChange
    <2> QED BY <2>1, <2>2 DEF Dial
  <1>4. OnlyIn(c)
    BY <1>1, <1>2, <1>3 DEF OnlyIn, View, Cancelled
  <1>5. /\ vconn[c] = "none"
        /\ Near(c) = NewSession /\ Far(c) = NewSession
        /\ ToFar(c) = <<>> /\ ToNear(c) = <<>>
    BY <1>2 DEF PipesOK, EndsOK, Started, Unused
  <1>6. Onward(c)
    BY <1>1, <1>5 DEF Onward, Cancelled
  <1>7. /\ Near(c)'.rx = Near(c).rx /\ Near(c)'.buf = Near(c).buf
        /\ ~Near(c)'.closed /\ ~Near(c)'.rxEnd /\ Near(c)'.reg # "tomb"
    BY <1>3, <1>5 DEF NewSession
  <1>8. FlowsOK(c)'
    BY <1>1, <1>3, <1>6, <1>7, FlowsSame
       DEF PipesOK, FlowsOK, LowDown, HighDown, LowUp, HighUp, Loaded
  <1>9. EndsOK(c)'
    <2>1. Unused(c)' /\ Started(c)'
      BY <1>1, <1>2, <1>3, <1>5 DEF PipesOK, EndsOK, Unused, Started
    <2>2. Last(Near(c), ToFar(c))' /\ Last(Far(c), ToNear(c))'
      BY <1>1, <1>3, <1>5, <1>7 DEF PipesOK, EndsOK, Last, NewSession
    <2>3. RxEnds(c)' /\ Excused(c)'
      BY <1>1, <1>2, <1>3, <1>5, <1>7 DEF PipesOK, EndsOK, RxEnds, Excused, NewSession
    <2>4. DownEnds(c)' /\ UpEnds(c)'
      BY <1>1, <1>3, <1>5, <1>6, <1>7, WholeBefore
         DEF PipesOK, EndsOK, DownEnds, UpEnds, Ending, Finished, NewSession
    <2> QED BY <2>1, <2>2, <2>3, <2>4 DEF EndsOK
  <1> QED BY <1>4, <1>6, <1>8, <1>9 DEF PipesOK

LEMMA WritePipes ==
  ASSUME Typed, Typed', NEW c \in Conns, PipesOK(c), Write(c)
  PROVE  PipesOK(c)' /\ OnlyIn(c) /\ Onward(c)
  <1>1. /\ UNCHANGED <<user, vconn, down, got, handler, reader, writer, done, target, net, phase>>
        /\ \A d \in Conns : ToNear(d)' = ToNear(d) /\ ToFar(d)' = ToFar(d)
    BY NoChange DEF Write, server
  <1>2. CASE Near(c).closed
    <2>1. /\ UNCHANGED <<sess, sent>>
          /\ up'[c] = "err" /\ cut'[c] = cut[c] \cup {"late"}
          /\ \A d \in Conns \ {c} : up'[d] = up[d] /\ cut'[d] = cut[d]
      BY <1>2 DEF Write, Near, Cut, Typed, EndpointsOK
    <2>2. \A d \in Conns : Near(d)' = Near(d) /\ Far(d)' = Far(d)
      BY <2>1, NoChange
    <2>3. OnlyIn(c) /\ Onward(c)
      BY <1>1, <2>1, <2>2 DEF OnlyIn, View, Onward, Cancelled
    <2>4. ~DownWhole(c)' /\ ~UpWhole(c)'
      BY <2>1 DEF DownWhole, UpWhole
    <2>5. FlowsOK(c)'
      BY <1>1, <2>1, <2>2, <2>3, FlowsSame
         DEF PipesOK, FlowsOK, LowDown, HighDown, LowUp, HighUp, Loaded
    <2>6. EndsOK(c)'
      BY <1>1, <2>1, <2>2, <2>4
         DEF PipesOK, EndsOK, Unused, Started, Last, RxEnds, Excused, DownEnds, UpEnds
    <2> QED BY <2>3, <2>5, <2>6 DEF PipesOK
  <1>3. CASE ~Near(c).closed
    <2>1. /\ UNCHANGED <<up, cut>>
          /\ sess' = [sess EXCEPT !["client"][c] = [Near(c) EXCEPT !.buf = @ + 1]]
          /\ sent'[c] = sent[c] + 1
          /\ \A d \in Conns \ {c} : sent'[d] = sent[d]
      BY <1>3 DEF Write, Near, Typed, EndpointsOK
    <2>2. /\ Near(c)' = [Near(c) EXCEPT !.buf = @ + 1] /\ Far(c)' = Far(c)
          /\ \A d \in Conns \ {c} : Near(d)' = Near(d) /\ Far(d)' = Far(d)
      BY <2>1, NearChange
    <2>3. Near(c) \in Session
      BY LocalTypes DEF ValuesOK
    <2>4. /\ Near(c)'.buf = Near(c).buf + 1 /\ Near(c)'.rx = Near(c).rx
          /\ Near(c)'.closed = Near(c).closed /\ Near(c)'.rxEnd = Near(c).rxEnd
          /\ Near(c)'.reg = Near(c).reg
      BY <2>2, <2>3 DEF Session
    <2>5. OnlyIn(c) /\ Onward(c)
      BY <1>1, <2>1, <2>2 DEF OnlyIn, View, Onward, Cancelled
    <2>6. HighUp(c)' = HighUp(c)
      <3>1. sent[c] \in Nat /\ Near(c).buf \in Nat
        BY <2>3, LocalTypes DEF ValuesOK, Session
      <3> QED BY <3>1, <2>1, <2>4 DEF HighUp
    <2>7. FlowsOK(c)'
      <3>1. LowDown(c)' = LowDown(c) /\ HighDown(c)' = HighDown(c) /\ LowUp(c)' = LowUp(c)
        BY <1>1, <2>2, <2>4 DEF LowDown, HighDown, LowUp, Loaded
      <3>2. target'[c].read <= target'[c].wrote
        BY <1>1 DEF PipesOK, FlowsOK
      <3> QED BY <1>1, <2>5, <2>6, <3>1, <3>2, FlowsSame DEF PipesOK
    <2>8. EndsOK(c)'
      <3>1. Unused(c)' /\ Started(c)' /\ RxEnds(c)' /\ Excused(c)'
        BY <1>1, <2>1, <2>2, <2>4 DEF Write, PipesOK, EndsOK, Unused, Started, RxEnds, Excused
      <3>2. Last(Near(c), ToFar(c))' /\ Last(Far(c), ToNear(c))'
        BY <1>1, <1>3, <2>2, <2>4 DEF PipesOK, EndsOK, Last
      <3>3. DownEnds(c)' /\ UpEnds(c)'
        BY <1>1, <2>2, <2>4, <2>5, WholeBefore
           DEF PipesOK, EndsOK, DownEnds, UpEnds, Ending, Finished
      <3> QED BY <3>1, <3>2, <3>3 DEF EndsOK
    <2> QED BY <2>5, <2>7, <2>8 DEF PipesOK
  <1> QED BY <1>2, <1>3

\* Steps that change the state of a copy or of the user only.
LEMMA UserPipes ==
  ASSUME Typed, Typed', NEW c \in Conns, PipesOK(c),
         UserFin(c) \/ UserGone(c) \/ ReturnEnd(c)
  PROVE  PipesOK(c)' /\ OnlyIn(c) /\ Onward(c)
  <1>1. /\ UNCHANGED <<vconn, sent, got, handler, reader, writer, done, target, phase>>
        /\ \A d \in Conns : ToNear(d)' = ToNear(d) /\ ToFar(d)' = ToFar(d)
        /\ \A d \in Conns : Near(d)' = Near(d) /\ Far(d)' = Far(d)
    BY NoChange DEF UserFin, UserGone, ReturnEnd, server, session
  <1>2. /\ vconn[c] = "open"
        /\ \A d \in Conns \ {c} : user'[d] = user[d] /\ up'[d] = up[d]
        /\ \A d \in Conns \ {c} : down'[d] = down[d] /\ cut'[d] = cut[d]
        /\ cut'[c] \in {cut[c], cut[c] \cup {"user"}}
        /\ down'[c] \in {down[c], "eof"}
        /\ user'[c] # "none"
        /\ \/ cut'[c] # {}
           \/ /\ cut'[c] = cut[c]
              /\ user'[c] = "gone" => user[c] = "gone"
              /\ up'[c] = "err" => up[c] = "err"
    <2>1. CASE UserFin(c)
      <3>1. down' = down /\ cut' = cut /\ vconn[c] = "open"
        BY <2>1 DEF UserFin
      <3>2. user'[c] = "fin" /\ \A d \in Conns \ {c} : user'[d] = user[d] /\ up'[d] = up[d]
        BY <2>1 DEF UserFin, Typed, EndpointsOK
      <3>3. up'[c] = "err" => up[c] = "err"
        BY <2>1 DEF UserFin, Typed, EndpointsOK
      <3> QED BY <3>1, <3>2, <3>3
    <2>2. CASE UserGone(c)
      <3>1. down' = down /\ vconn[c] = "open"
        BY <2>2 DEF UserGone
      <3>2. /\ user'[c] = "gone"
            /\ \A d \in Conns \ {c} : user'[d] = user[d] /\ up'[d] = up[d]
        BY <2>2 DEF UserGone, Typed, EndpointsOK
      <3>3. cut'[c] = cut[c] \cup {"user"} /\ \A d \in Conns \ {c} : cut'[d] = cut[d]
        BY <2>2 DEF UserGone, Cut, Typed, EndpointsOK
      <3> QED BY <3>1, <3>2, <3>3
    <2>3. CASE ReturnEnd(c)
      BY <2>3 DEF ReturnEnd, Typed, EndpointsOK, PipesOK, EndsOK, Started
    <2> QED BY <2>1, <2>2, <2>3
  <1>3. OnlyIn(c) /\ Onward(c)
    BY <1>1, <1>2 DEF OnlyIn, View, Onward, Cancelled
  <1>4. FlowsOK(c)'
    BY <1>1, <1>3, FlowsSame
       DEF PipesOK, FlowsOK, LowDown, HighDown, LowUp, HighUp, Loaded
  <1>5. EndsOK(c)'
    <2>1. Unused(c)' /\ Started(c)' /\ RxEnds(c)'
      BY <1>1, <1>2 DEF PipesOK, EndsOK, Unused, Started, RxEnds
    <2>2. Excused(c)'
      BY <1>1, <1>2 DEF PipesOK, EndsOK, Excused
    <2>3. Last(Near(c), ToFar(c))' /\ Last(Far(c), ToNear(c))'
      BY <1>1 DEF PipesOK, EndsOK, Last
    <2>4. DownEnds(c)' /\ UpEnds(c)'
      BY <1>1, <1>3, WholeBefore DEF PipesOK, EndsOK, DownEnds, UpEnds, Ending, Finished
    <2> QED BY <2>1, <2>2, <2>3, <2>4 DEF EndsOK
  <1> QED BY <1>3, <1>4, <1>5 DEF PipesOK

LEMMA ReturnPipes ==
  ASSUME Typed, Typed', NEW c \in Conns, PipesOK(c), Return(c)
  PROVE  PipesOK(c)' /\ OnlyIn(c) /\ Onward(c)
  <1>1. /\ UNCHANGED <<user, vconn, up, sent, handler, reader, writer, done, target, phase, cut>>
        /\ \A d \in Conns : ToNear(d)' = ToNear(d) /\ ToFar(d)' = ToFar(d)
    BY NoChange DEF Return, server
  <1>2. /\ sess' = [sess EXCEPT !["client"][c] = [Near(c) EXCEPT !.rx = @ - 1]]
        /\ vconn[c] = "open" /\ down[c] = "run"
    BY DEF Return, Near
  <1>3. /\ Near(c)' = [Near(c) EXCEPT !.rx = @ - 1] /\ Far(c)' = Far(c)
        /\ \A d \in Conns \ {c} : Near(d)' = Near(d) /\ Far(d)' = Far(d)
    BY <1>2, NearChange
  <1>4. Near(c) \in Session /\ got[c] \in Nat
    BY LocalTypes DEF ValuesOK
  <1>5. /\ Near(c)'.buf = Near(c).buf /\ Near(c)'.rx = Near(c).rx - 1
        /\ Near(c)'.closed = Near(c).closed /\ Near(c)'.rxEnd = Near(c).rxEnd
        /\ Near(c)'.reg = Near(c).reg
    BY <1>3, <1>4 DEF Session
  <1>6. /\ \A d \in Conns \ {c} : down'[d] = down[d] /\ got'[d] = got[d]
        /\ \/ down'[c] = "err" /\ got'[c] = got[c] /\ cut[c] # {}
           \/ down'[c] = "run" /\ got'[c] = got[c] + 1
    <2>1. CASE user[c] = "gone"
      <3>1. cut[c] # {}
        BY <2>1, <1>2 DEF PipesOK, EndsOK, Excused
      <3> QED BY <2>1, <3>1 DEF Return, Typed, EndpointsOK
    <2>2. CASE user[c] # "gone"
      BY <2>2, <1>2 DEF Return, Typed, EndpointsOK
    <2> QED BY <2>1, <2>2
  <1>7. OnlyIn(c) /\ Onward(c)
    BY <1>1, <1>2, <1>3, <1>6 DEF OnlyIn, View, Onward, Cancelled
  <1>8. /\ LowDown(c)' <= LowDown(c)
        /\ DownWhole(c)' => LowDown(c)' = LowDown(c)
    <2>1. Near(c).rx \in Nat
      BY <1>4 DEF Session
    <2> QED BY <2>1, <1>1, <1>4, <1>5, <1>6 DEF LowDown, DownWhole
  <1>9. FlowsOK(c)'
    <2>1. HighDown(c)' = HighDown(c) /\ LowUp(c)' = LowUp(c) /\ HighUp(c)' = HighUp(c)
      BY <1>1, <1>3, <1>5 DEF HighDown, LowUp, HighUp, Loaded
    <2>2. target'[c].read <= target'[c].wrote
      BY <1>1 DEF PipesOK, FlowsOK
    <2>3. HighDown(c) \in Int /\ LowUp(c) \in Int /\ HighUp(c) \in Int
      BY LocalTypes DEF ValuesOK
    <2>4. HighDown(c) <= HighDown(c)' /\ LowUp(c)' <= LowUp(c) /\ HighUp(c) <= HighUp(c)'
      BY <2>1, <2>3
    <2> QED BY <1>1, <1>7, <1>8, <2>1, <2>2, <2>4, FlowsKeep DEF PipesOK
  <1>10. EndsOK(c)'
    <2>1. Unused(c)' /\ Started(c)' /\ RxEnds(c)' /\ Excused(c)'
      BY <1>1, <1>2, <1>3, <1>5, <1>6 DEF PipesOK, EndsOK, Unused, Started, RxEnds, Excused
    <2>2. Last(Near(c), ToFar(c))' /\ Last(Far(c), ToNear(c))'
      BY <1>1, <1>3, <1>5 DEF PipesOK, EndsOK, Last
    <2>3. DownEnds(c)' /\ UpEnds(c)'
      BY <1>1, <1>3, <1>5, <1>7, WholeBefore
         DEF PipesOK, EndsOK, DownEnds, UpEnds, Ending, Finished
    <2> QED BY <2>1, <2>2, <2>3 DEF EndsOK
  <1> QED BY <1>7, <1>9, <1>10 DEF PipesOK

\* VirtualConn.Close ends the pipe to the user; the pipe to the target has no
\* more to take and may still have to deliver.
LEMMA ClosePipes ==
  ASSUME Typed, Typed', NEW c \in Conns, PipesOK(c), Close(c)
  PROVE  PipesOK(c)' /\ OnlyIn(c) /\ Onward(c)
  <1>1. /\ UNCHANGED <<up, down, sent, got, handler, reader, writer, done, target, phase, cut>>
        /\ \A d \in Conns : ToNear(d)' = ToNear(d) /\ ToFar(d)' = ToFar(d)
    BY NoChange DEF Close, server
  <1>2. /\ sess' = [sess EXCEPT !["client"][c] = [Near(c) EXCEPT !.closed = TRUE]]
        /\ vconn'[c] = "closed" /\ user'[c] = "gone"
        /\ \A d \in Conns \ {c} : vconn'[d] = vconn[d] /\ user'[d] = user[d]
    BY DEF Close, Near, Typed, EndpointsOK
  <1>3. /\ Near(c)' = [Near(c) EXCEPT !.closed = TRUE] /\ Far(c)' = Far(c)
        /\ \A d \in Conns \ {c} : Near(d)' = Near(d) /\ Far(d)' = Far(d)
    BY <1>2, NearChange
  <1>4. Near(c) \in Session
    BY LocalTypes DEF ValuesOK
  <1>5. /\ Near(c)'.buf = Near(c).buf /\ Near(c)'.rx = Near(c).rx
        /\ Near(c)'.closed /\ Near(c)'.rxEnd = Near(c).rxEnd
        /\ Near(c)'.reg = Near(c).reg
    BY <1>3, <1>4 DEF Session
  <1>6. OnlyIn(c) /\ Onward(c)
    BY <1>1, <1>2, <1>3 DEF OnlyIn, View, Onward, Cancelled
  <1>7. FlowsOK(c)'
    <2>1. /\ LowDown(c)' = LowDown(c) /\ HighDown(c)' = HighDown(c)
          /\ LowUp(c)' = LowUp(c) /\ HighUp(c)' = HighUp(c)
      BY <1>1, <1>3, <1>5 DEF LowDown, HighDown, LowUp, HighUp, Loaded
    <2>2. target'[c].read <= target'[c].wrote
      BY <1>1 DEF PipesOK, FlowsOK
    <2> QED BY <1>1, <1>6, <2>1, <2>2, FlowsSame DEF PipesOK
  <1>8. EndsOK(c)'
    <2>1. Unused(c)' /\ Started(c)' /\ RxEnds(c)' /\ Excused(c)'
      BY <1>1, <1>2, <1>3, <1>5 DEF PipesOK, EndsOK, Unused, Started, RxEnds, Excused
    <2>2. Last(Near(c), ToFar(c))' /\ Last(Far(c), ToNear(c))'
      BY <1>1, <1>3, <1>5 DEF PipesOK, EndsOK, Last
    <2>3. DownEnds(c)'
      BY <1>2 DEF DownEnds, DownWhole
    <2>4. UpEnds(c)'
      BY <1>1, <1>2, <1>3, <1>5, <1>6, WholeBefore DEF PipesOK, EndsOK, UpEnds, Ending
    <2> QED BY <2>1, <2>2, <2>3, <2>4 DEF EndsOK
  <1> QED BY <1>6, <1>7, <1>8 DEF PipesOK


-----------------------------------------------------------------------------
(* The steps of the server's handler and of its goroutines.                 *)

LEMMA HandlerPipes ==
  ASSUME Typed, Typed', NEW c \in Conns, PipesOK(c), HandlerStep(c)
  PROVE  PipesOK(c)' /\ OnlyIn(c) /\ Onward(c)
  <1>1. /\ UNCHANGED <<user, vconn, up, down, sent, got, target, phase>>
        /\ \A d \in Conns : ToNear(d)' = ToNear(d) /\ ToFar(d)' = ToFar(d)
    BY NoChange DEF HandlerStep, DialTarget, DialFails, HandlerWakes, CloseSession, HandlerDone,
                    client, session
  <1>2. /\ \A d \in Conns \ {c} : handler'[d] = handler[d] /\ reader'[d] = reader[d]
        /\ \A d \in Conns \ {c} : writer'[d] = writer[d] /\ done'[d] = done[d]
        /\ \A d \in Conns \ {c} : cut'[d] = cut[d]
    <2>1. CASE DialTarget(c)
      BY <2>1 DEF DialTarget, Typed, ControlOK, EndpointsOK
    <2>2. CASE DialFails(c) \/ HandlerWakes(c)
      BY <2>2 DEF DialFails, HandlerWakes, Cut, Hangup, Typed, ControlOK, EndpointsOK
    <2>3. CASE CloseSession(c) \/ HandlerDone(c)
      BY <2>3 DEF CloseSession, HandlerDone, Typed, ControlOK, EndpointsOK
    <2> QED BY <2>1, <2>2, <2>3 DEF HandlerStep
  <1>3. /\ Far(c)' \in {Far(c), Shut(Far(c))} /\ Near(c)' = Near(c)
        /\ \A d \in Conns \ {c} : Near(d)' = Near(d) /\ Far(d)' = Far(d)
    <2>1. CASE sess' = sess
      BY <2>1, NoChange
    <2>2. CASE sess' = [sess EXCEPT !["server"][c] = Shut(Far(c))]
      BY <2>2, FarChange
    <2>3. sess' = sess \/ sess' = [sess EXCEPT !["server"][c] = Shut(Far(c))]
      BY DEF HandlerStep, DialTarget, DialFails, HandlerWakes, CloseSession, HandlerDone,
             session, Far
    <2> QED BY <2>1, <2>2, <2>3
  <1>4. Far(c) \in Session
    BY LocalTypes DEF ValuesOK
  <1>5. /\ Far(c)'.buf = Far(c).buf /\ Far(c)'.rx = Far(c).rx /\ Far(c)'.reg = Far(c).reg
        /\ Far(c)' # Far(c) => Far(c)'.closed /\ Far(c)'.rxEnd
    BY <1>3, <1>4 DEF Session, Shut
  <1>6. \/ /\ handler[c] = "dial" /\ handler'[c] = "run"
           /\ reader'[c] = "run" /\ Far(c)' = Far(c) /\ done'[c] = done[c] /\ cut'[c] = cut[c]
        \/ /\ handler[c] = "dial" /\ handler'[c] = "ending"
           /\ reader'[c] = reader[c] /\ Far(c)' = Far(c) /\ done'[c] = done[c]
           /\ cut'[c] = cut[c] \cup {"dial"}
        \/ /\ handler[c] = "run" /\ handler'[c] = "ending" /\ (done[c] \/ Cancelled)
           /\ reader'[c] = reader[c] /\ Far(c)' = Far(c) /\ done'[c] /\ cut'[c] = cut[c]
        \/ /\ Ending(c) /\ handler'[c] \in {"closed", "done"}
           /\ reader'[c] = reader[c] /\ done'[c] = done[c] /\ cut'[c] = cut[c]
    <2>1. CASE DialTarget(c)
      <3>1. handler[c] = "dial" /\ handler'[c] = "run" /\ reader'[c] = "run"
        BY <2>1 DEF DialTarget, Typed, ControlOK
      <3>2. UNCHANGED <<done, cut, sess>>
        BY <2>1 DEF DialTarget, session
      <3> QED BY <3>1, <3>2, NoChange
    <2>2. CASE DialFails(c)
      <3>1. handler[c] = "dial" /\ handler'[c] = "ending" /\ cut'[c] = cut[c] \cup {"dial"}
        BY <2>2 DEF DialFails, Cut, Typed, ControlOK, EndpointsOK
      <3>2. UNCHANGED <<done, reader, sess>>
        BY <2>2 DEF DialFails, session
      <3> QED BY <3>1, <3>2, NoChange
    <2>3. CASE HandlerWakes(c)
      <3>1. handler[c] = "run" /\ handler'[c] = "ending" /\ done'[c] /\ (done[c] \/ Cancelled)
        BY <2>3 DEF HandlerWakes, Hangup, Typed, ControlOK, EndpointsOK
      <3>2. UNCHANGED <<cut, reader, sess>>
        BY <2>3 DEF HandlerWakes, session
      <3> QED BY <3>1, <3>2, NoChange
    <2>4. CASE CloseSession(c) \/ HandlerDone(c)
      <3>1. Ending(c) /\ handler'[c] \in {"closed", "done"}
        BY <2>4 DEF CloseSession, HandlerDone, Ending, Typed, ControlOK
      <3>2. UNCHANGED <<cut, reader, done>>
        BY <2>4 DEF CloseSession, HandlerDone
      <3> QED BY <3>1, <3>2
    <2> QED BY <2>1, <2>2, <2>3, <2>4 DEF HandlerStep
  <1>7. reader'[c] = "hold" <=> reader[c] = "hold"
    BY <1>6 DEF PipesOK, EndsOK, Started
  <1>8. OnlyIn(c) /\ Onward(c)
    BY <1>1, <1>2, <1>3, <1>6 DEF OnlyIn, View, Onward, Cancelled
  <1>9. FlowsOK(c)'
    <2>1. /\ LowDown(c)' = LowDown(c) /\ HighDown(c)' = HighDown(c)
          /\ LowUp(c)' = LowUp(c) /\ HighUp(c)' = HighUp(c)
      BY <1>1, <1>3, <1>5, <1>7 DEF LowDown, HighDown, LowUp, HighUp, Loaded
    <2>2. target'[c].read <= target'[c].wrote
      BY <1>1 DEF PipesOK, FlowsOK
    <2> QED BY <1>1, <1>8, <2>1, <2>2, FlowsSame DEF PipesOK
  <1>10. EndsOK(c)'
    <2>1. handler[c] # "none"
      BY <1>6 DEF Ending
    <2>2. Unused(c)'
      BY <1>1, <2>1 DEF PipesOK, EndsOK, Unused
    <2>3. Started(c)' /\ Excused(c)'
      BY <1>1, <1>6 DEF PipesOK, EndsOK, Started, Excused, Ending
    <2>4. Last(Near(c), ToFar(c))' /\ Last(Far(c), ToNear(c))'
      BY <1>1, <1>3, <1>5 DEF PipesOK, EndsOK, Last
    <2>5. RxEnds(c)'
      BY <1>1, <1>3, <1>5, <1>6 DEF PipesOK, EndsOK, RxEnds, Ending
    <2>6. DownEnds(c)'
      BY <1>1, <1>3, <1>5, <1>6, <1>8, WholeBefore
         DEF PipesOK, EndsOK, DownEnds, DownWhole, Ending, Finished, Started
    <2>7. UpEnds(c)'
      BY <1>1, <1>3, <1>5, <1>6, <1>8, WholeBefore
         DEF PipesOK, EndsOK, UpEnds, UpWhole, Ending
    <2> QED BY <2>2, <2>3, <2>4, <2>5, <2>6, <2>7 DEF EndsOK
  <1> QED BY <1>8, <1>9, <1>10 DEF PipesOK
\* Steps of the reader and of the target that leave the session alone.
LEMMA ReaderPipes ==
  ASSUME Typed, Typed', NEW c \in Conns, PipesOK(c),
         \/ Read(c) \/ ReadEnd(c) \/ StopReader(c)
         \/ TargetWrites(c) \/ TargetCloses(c)
  PROVE  PipesOK(c)' /\ OnlyIn(c) /\ Onward(c)
  <1>1. /\ UNCHANGED <<user, vconn, up, down, sent, got, handler, writer, phase, cut>>
        /\ \A d \in Conns : ToNear(d)' = ToNear(d) /\ ToFar(d)' = ToFar(d)
        /\ \A d \in Conns : Near(d)' = Near(d) /\ Far(d)' = Far(d)
    BY NoChange DEF Read, ReadEnd, StopReader, TargetWrites, TargetCloses, client, session
  <1>2. /\ \A d \in Conns \ {c} : reader'[d] = reader[d] /\ target'[d] = target[d]
        /\ \A d \in Conns \ {c} : done'[d] = done[d]
    <2>1. CASE Read(c)
      BY <2>1 DEF Read, Typed, ControlOK, EndpointsOK
    <2>2. CASE ReadEnd(c) \/ StopReader(c)
      BY <2>2 DEF ReadEnd, StopReader, Hangup, Typed, ControlOK, EndpointsOK
    <2>3. CASE TargetWrites(c) \/ TargetCloses(c)
      BY <2>3 DEF TargetWrites, TargetCloses, Typed, EndpointsOK
    <2> QED BY <2>1, <2>2, <2>3
  <1>3. target[c] \in Targets
    BY LocalTypes DEF ValuesOK
  <1>4. target'[c].got = target[c].got
    <2>1. CASE target' = target
      BY <2>1
    <2>2. CASE Read(c) \/ TargetWrites(c) \/ TargetCloses(c)
      <3>1. target \in [Conns -> Targets]
        BY DEF Typed, EndpointsOK
      <3> QED BY <2>2, <3>1, <1>3 DEF Read, TargetWrites, TargetCloses, Targets
    <2> QED BY <2>1, <2>2 DEF ReadEnd, StopReader
  <1>5. \/ /\ reader[c] = "run" /\ reader'[c] = "hold" /\ done'[c] = done[c]
           /\ target[c].read < target[c].wrote
           /\ target'[c].read = target[c].read + 1 /\ target'[c].wrote = target[c].wrote
           /\ target'[c].closed = target[c].closed
        \/ /\ reader[c] = "run" /\ reader'[c] = "over" /\ done'[c] /\ target'[c] = target[c]
           /\ \/ target[c].closed /\ target[c].read = target[c].wrote
              \/ done[c] \/ Cancelled
        \/ /\ reader'[c] = reader[c] /\ done'[c] = done[c] /\ reader[c] # "none"
           /\ ~target[c].closed
           /\ target'[c].read = target[c].read /\ target'[c].wrote = target[c].wrote + 1
           /\ ~target'[c].closed
        \/ /\ reader'[c] = reader[c] /\ done'[c] = done[c] /\ reader[c] # "none"
           /\ ~target[c].closed
           /\ target'[c].read = target[c].read /\ target'[c].wrote = target[c].wrote
           /\ target'[c].closed
    <2>1. target \in [Conns -> Targets]
      BY DEF Typed, EndpointsOK
    <2>2. CASE Read(c)
      <3>1. target'[c] = [target[c] EXCEPT !.read = @ + 1]
        BY <2>1, <2>2 DEF Read
      <3>2. /\ target'[c].read = target[c].read + 1 /\ target'[c].wrote = target[c].wrote
            /\ target'[c].closed = target[c].closed
        BY <3>1, <1>3 DEF Targets
      <3>3. reader[c] = "run" /\ reader'[c] = "hold" /\ done'[c] = done[c]
        BY <2>2 DEF Read, Typed, ControlOK
      <3> QED BY <3>2, <3>3, <2>2 DEF Read
    <2>3. CASE ReadEnd(c)
      <3>1. reader[c] = "run" /\ reader'[c] = "over" /\ done'[c] /\ target'[c] = target[c]
        BY <2>3 DEF ReadEnd, Hangup, Typed, ControlOK, EndpointsOK
      <3> QED BY <3>1, <2>3 DEF ReadEnd
    <2>4. CASE StopReader(c)
      <3>1. reader[c] = "run" /\ reader'[c] = "over" /\ done'[c] /\ target'[c] = target[c]
        BY <2>4 DEF StopReader, Hangup, Typed, ControlOK, EndpointsOK
      <3> QED BY <3>1, <2>4 DEF StopReader
    <2>5. CASE TargetWrites(c)
      <3>1. target'[c] = [target[c] EXCEPT !.wrote = @ + 1]
        BY <2>1, <2>5 DEF TargetWrites
      <3>2. /\ target'[c].read = target[c].read /\ target'[c].wrote = target[c].wrote + 1
            /\ target'[c].closed = target[c].closed
        BY <3>1, <1>3 DEF Targets
      <3> QED BY <3>2, <2>5 DEF TargetWrites
    <2>6. CASE TargetCloses(c)
      <3>1. target'[c] = [target[c] EXCEPT !.closed = TRUE]
        BY <2>1, <2>6 DEF TargetCloses
      <3>2. /\ target'[c].read = target[c].read /\ target'[c].wrote = target[c].wrote
            /\ target'[c].closed
        BY <3>1, <1>3 DEF Targets
      <3> QED BY <3>2, <2>6 DEF TargetCloses
    <2> QED BY <2>2, <2>3, <2>4, <2>5, <2>6
  <1>6. OnlyIn(c) /\ Onward(c)
    BY <1>1, <1>2, <1>5 DEF OnlyIn, View, Onward, Cancelled
  <1>7. FlowsOK(c)'
    <2>1. target[c].read \in Nat /\ target[c].wrote \in Nat
      BY <1>3 DEF Targets
    <2>2. Loaded(c)' = Loaded(c)
      BY <1>5, <2>1 DEF Loaded
    <2>3. /\ LowDown(c)' = LowDown(c) /\ HighDown(c)' = HighDown(c)
          /\ LowUp(c)' = LowUp(c) /\ HighUp(c)' = HighUp(c)
      BY <1>1, <1>4, <2>2 DEF LowDown, HighDown, LowUp, HighUp
    <2>4. target'[c].read <= target'[c].wrote
      BY <1>5, <2>1 DEF PipesOK, FlowsOK
    <2> QED BY <1>1, <1>6, <2>3, <2>4, FlowsSame DEF PipesOK
  <1>8. EndsOK(c)'
    <2>1. reader[c] # "none"
      BY <1>5
    <2>2. Unused(c)' /\ Started(c)' /\ Excused(c)'
      BY <1>1, <1>5, <2>1 DEF PipesOK, EndsOK, Unused, Started, Excused
    <2>3. Last(Near(c), ToFar(c))' /\ Last(Far(c), ToNear(c))' /\ RxEnds(c)'
      BY <1>1 DEF PipesOK, EndsOK, Last, RxEnds
    <2>4. DownEnds(c)'
      BY <1>1, <1>5, <1>6, WholeBefore
         DEF PipesOK, EndsOK, DownEnds, DownWhole, Ending, Finished
    <2>5. UpEnds(c)'
      BY <1>1, <1>5, <1>6, WholeBefore DEF PipesOK, EndsOK, UpEnds, UpWhole, Ending
    <2> QED BY <2>2, <2>3, <2>4, <2>5 DEF EndsOK
  <1> QED BY <1>6, <1>7, <1>8 DEF PipesOK

LEMMA EnqueuePipes ==
  ASSUME Typed, Typed', NEW c \in Conns, PipesOK(c), Enqueue(c)
  PROVE  PipesOK(c)' /\ OnlyIn(c) /\ Onward(c)
  <1>1. /\ UNCHANGED <<user, vconn, up, down, sent, got, handler, writer, target, phase>>
        /\ \A d \in Conns : ToNear(d)' = ToNear(d) /\ ToFar(d)' = ToFar(d)
        /\ reader[c] = "hold"
    BY NoChange DEF Enqueue, client
  <1>2. Far(c) \in Session /\ target[c] \in Targets
    BY LocalTypes DEF ValuesOK
  <1>3. Far(c).buf \in Nat /\ target[c].read \in Nat
    BY <1>2 DEF Session, Targets
  <1>4. target'[c].read <= target'[c].wrote
    BY <1>1 DEF PipesOK, FlowsOK
  <1>5. CASE Far(c).closed
    <2>1. /\ \A d \in Conns : Near(d)' = Near(d) /\ Far(d)' = Far(d)
          /\ reader'[c] = "over" /\ done'[c] /\ cut'[c] = cut[c] \cup {"late"}
      BY <1>5, NoChange DEF Enqueue, Far, Hangup, Cut, Typed, ControlOK, EndpointsOK
    <2>2. \A d \in Conns \ {c} : reader'[d] = reader[d] /\ done'[d] = done[d] /\ cut'[d] = cut[d]
      BY <1>5 DEF Enqueue, Far, Hangup, Cut, Typed, ControlOK, EndpointsOK
    <2>3. OnlyIn(c) /\ Onward(c)
      BY <1>1, <2>1, <2>2 DEF OnlyIn, View, Onward, Cancelled
    <2>4. ~DownWhole(c)' /\ ~UpWhole(c)'
      BY <2>1 DEF DownWhole, UpWhole
    <2>5. FlowsOK(c)'
      <3>1. LowDown(c)' = LowDown(c) /\ LowUp(c)' = LowUp(c) /\ HighUp(c)' = HighUp(c)
        BY <1>1, <2>1 DEF LowDown, LowUp, HighUp
      <3>2. HighDown(c)' = HighDown(c) + 1
        BY <1>1, <1>3, <2>1 DEF HighDown, Loaded
      <3>3. LowDown(c) \in Int /\ HighDown(c) \in Int /\ LowUp(c) \in Int /\ HighUp(c) \in Int
        BY LocalTypes DEF ValuesOK
      <3>4. /\ LowDown(c)' <= LowDown(c) /\ HighDown(c) <= HighDown(c)'
            /\ LowUp(c)' <= LowUp(c) /\ HighUp(c) <= HighUp(c)'
        BY <3>1, <3>2, <3>3
      <3> QED BY <1>1, <1>4, <2>3, <2>4, <3>4, FlowsKeep DEF PipesOK
    <2>6. EndsOK(c)'
      <3>1. Unused(c)' /\ Started(c)' /\ RxEnds(c)' /\ Excused(c)'
        BY <1>1, <2>1 DEF PipesOK, EndsOK, Unused, Started, RxEnds, Excused
      <3>2. Last(Near(c), ToFar(c))' /\ Last(Far(c), ToNear(c))'
        BY <1>1, <2>1 DEF PipesOK, EndsOK, Last
      <3> QED BY <3>1, <3>2, <2>4 DEF EndsOK, DownEnds, UpEnds
    <2> QED BY <2>3, <2>5, <2>6 DEF PipesOK
  <1>6. CASE ~Far(c).closed
    <2>1. /\ sess' = [sess EXCEPT !["server"][c] = [Far(c) EXCEPT !.buf = @ + 1]]
          /\ UNCHANGED <<done, cut>>
          /\ reader'[c] = "run"
          /\ \A d \in Conns \ {c} : reader'[d] = reader[d]
      BY <1>6 DEF Enqueue, Far, Typed, ControlOK
    <2>2. /\ Far(c)' = [Far(c) EXCEPT !.buf = @ + 1] /\ Near(c)' = Near(c)
          /\ \A d \in Conns \ {c} : Near(d)' = Near(d) /\ Far(d)' = Far(d)
      BY <2>1, FarChange
    <2>3. /\ Far(c)'.buf = Far(c).buf + 1 /\ Far(c)'.rx = Far(c).rx
          /\ Far(c)'.closed = Far(c).closed /\ Far(c)'.rxEnd = Far(c).rxEnd
          /\ Far(c)'.reg = Far(c).reg
      BY <2>2, <1>2 DEF Session
    <2>4. OnlyIn(c) /\ Onward(c)
      BY <1>1, <2>1, <2>2 DEF OnlyIn, View, Onward, Cancelled
    <2>5. FlowsOK(c)'
      <3>1. LowDown(c)' = LowDown(c) /\ LowUp(c)' = LowUp(c) /\ HighUp(c)' = HighUp(c)
        BY <1>1, <2>2, <2>3 DEF LowDown, LowUp, HighUp
      <3>2. HighDown(c)' = HighDown(c)
        BY <1>1, <1>3, <2>1, <2>3 DEF HighDown, Loaded
      <3> QED BY <1>1, <1>4, <2>4, <3>1, <3>2, FlowsSame DEF PipesOK
    <2>6. EndsOK(c)'
      <3>1. handler[c] # "none"
        BY <1>1 DEF PipesOK, EndsOK, Started
      <3>2. Unused(c)' /\ Started(c)' /\ RxEnds(c)' /\ Excused(c)'
        BY <1>1, <2>1, <2>2, <2>3, <3>1 DEF PipesOK, EndsOK, Unused, Started, RxEnds, Excused
      <3>3. Last(Near(c), ToFar(c))' /\ Last(Far(c), ToNear(c))'
        BY <1>1, <1>6, <2>2, <2>3 DEF PipesOK, EndsOK, Last
      <3>4. DownEnds(c)'
        BY <1>1, <2>1, <2>2, <2>3, <2>4, WholeBefore
           DEF PipesOK, EndsOK, DownEnds, Ending, Finished
      <3>5. UpEnds(c)'
        BY <1>1, <2>2, <2>3, <2>4, WholeBefore DEF PipesOK, EndsOK, UpEnds, Ending
      <3> QED BY <3>2, <3>3, <3>4, <3>5 DEF EndsOK
    <2> QED BY <2>4, <2>5, <2>6 DEF PipesOK
  <1> QED BY <1>5, <1>6

LEMMA WriterPipes ==
  ASSUME Typed, Typed', NEW c \in Conns, PipesOK(c), WriterStep(c)
  PROVE  PipesOK(c)' /\ OnlyIn(c) /\ Onward(c)
  <1>1. /\ UNCHANGED <<user, vconn, up, down, sent, got, handler, reader, phase>>
        /\ \A d \in Conns : ToNear(d)' = ToNear(d) /\ ToFar(d)' = ToFar(d)
    BY NoChange DEF WriterStep, Deliver, DeliverEnd, StopWriter, client, session
  <1>2. /\ \A d \in Conns \ {c} : writer'[d] = writer[d] /\ target'[d] = target[d]
        /\ \A d \in Conns \ {c} : done'[d] = done[d] /\ cut'[d] = cut[d]
    <2>1. CASE Deliver(c)
      BY <2>1 DEF Deliver, Hangup, Cut, Typed, EndpointsOK
    <2>2. CASE DeliverEnd(c) \/ StopWriter(c)
      BY <2>2 DEF DeliverEnd, StopWriter, Hangup, Typed, EndpointsOK
    <2> QED BY <2>1, <2>2 DEF WriterStep
  <1>3. Far(c) \in Session /\ target[c] \in Targets
    BY LocalTypes DEF ValuesOK
  <1>4. Far(c).rx \in Nat /\ target[c].got \in Nat
    BY <1>3 DEF Session, Targets
  <1>5. CASE Deliver(c)
    <2>1. sess' = [sess EXCEPT !["server"][c] = [Far(c) EXCEPT !.rx = @ - 1]]
      BY <1>5 DEF Deliver, Far
    <2>2. /\ Far(c)' = [Far(c) EXCEPT !.rx = @ - 1] /\ Near(c)' = Near(c)
          /\ \A d \in Conns \ {c} : Near(d)' = Near(d) /\ Far(d)' = Far(d)
      BY <2>1, FarChange
    <2>3. /\ Far(c)'.buf = Far(c).buf /\ Far(c)'.rx = Far(c).rx - 1
          /\ Far(c)'.closed = Far(c).closed /\ Far(c)'.rxEnd = Far(c).rxEnd
          /\ Far(c)'.reg = Far(c).reg
      BY <2>2, <1>3 DEF Session
    <2>4. /\ target'[c].read = target[c].read /\ target'[c].wrote = target[c].wrote
          /\ target'[c].closed = target[c].closed
          /\ \/ target'[c].got = target[c].got + 1 /\ done'[c] = done[c] /\ cut'[c] = cut[c]
             \/ /\ target'[c].got = target[c].got /\ done'[c]
                /\ \/ done[c] /\ cut'[c] = cut[c]
                   \/ cut'[c] = cut[c] \cup {"target"}
      <3>1. target \in [Conns -> Targets] /\ done \in [Conns -> BOOLEAN] /\ cut \in [Conns -> SUBSET Causes]
        BY DEF Typed, EndpointsOK
      <3>2. CASE target' = [target EXCEPT ![c].got = @ + 1] /\ UNCHANGED <<done, cut>>
        <4>1. target'[c] = [target[c] EXCEPT !.got = @ + 1]
          BY <3>1, <3>2
        <4>2. /\ target'[c].read = target[c].read /\ target'[c].wrote = target[c].wrote
              /\ target'[c].closed = target[c].closed /\ target'[c].got = target[c].got + 1
          BY <4>1, <1>3 DEF Targets
        <4> QED BY <3>2, <4>2
      <3>3. CASE /\ UNCHANGED target /\ Hangup(c)
                 /\ IF done[c] THEN UNCHANGED cut ELSE Cut(c, "target")
        <4>1. done'[c]
          BY <3>1, <3>3 DEF Hangup
        <4>2. (done[c] /\ cut'[c] = cut[c]) \/ cut'[c] = cut[c] \cup {"target"}
          BY <3>1, <3>3 DEF Cut
        <4> QED BY <3>3, <4>1, <4>2
      <3> QED BY <1>5, <3>2, <3>3 DEF Deliver
    <2>5. OnlyIn(c) /\ Onward(c)
      BY <1>1, <1>2, <2>2, <2>4 DEF OnlyIn, View, Onward, Cancelled
    <2>6. FlowsOK(c)'
      <3>1. LowDown(c)' = LowDown(c) /\ HighDown(c)' = HighDown(c) /\ HighUp(c)' = HighUp(c)
        BY <1>1, <2>2, <2>3, <2>4 DEF LowDown, HighDown, HighUp, Loaded
      <3>2. LowUp(c)' <= LowUp(c) /\ (UpWhole(c)' => LowUp(c)' = LowUp(c))
        BY <1>4, <2>3, <2>4 DEF LowUp, UpWhole
      <3>3. LowDown(c) \in Int /\ HighDown(c) \in Int /\ HighUp(c) \in Int
        BY LocalTypes DEF ValuesOK
      <3>4. LowDown(c)' <= LowDown(c) /\ HighDown(c) <= HighDown(c)' /\ HighUp(c) <= HighUp(c)'
        BY <3>1, <3>3
      <3>5. target'[c].read <= target'[c].wrote
        BY <2>4 DEF PipesOK, FlowsOK
      <3> QED BY <1>1, <2>5, <3>1, <3>2, <3>4, <3>5, FlowsKeep DEF PipesOK
    <2>7. EndsOK(c)'
      <3>1. Far(c) # NewSession
        <4>1. Far(c).rx > 0
          BY <1>5 DEF Deliver, Far
        <4> QED BY <4>1 DEF NewSession
      <3>2. Unused(c)' /\ Started(c)' /\ RxEnds(c)'
        BY <1>1, <2>2, <2>3, <3>1 DEF PipesOK, EndsOK, Unused, Started, RxEnds
      <3>3. Excused(c)'
        BY <1>1, <2>4 DEF PipesOK, EndsOK, Excused
      <3>4. Last(Near(c), ToFar(c))' /\ Last(Far(c), ToNear(c))'
        BY <1>1, <2>2, <2>3 DEF PipesOK, EndsOK, Last
      <3>5. DownEnds(c)'
        BY <1>1, <2>2, <2>3, <2>4, <2>5, WholeBefore
           DEF PipesOK, EndsOK, DownEnds, DownWhole, Ending, Finished
      <3>6. UpEnds(c)'
        BY <1>1, <2>2, <2>3, <2>5, WholeBefore DEF PipesOK, EndsOK, UpEnds, Ending
      <3> QED BY <3>2, <3>3, <3>4, <3>5, <3>6 DEF EndsOK
    <2> QED BY <2>5, <2>6, <2>7 DEF PipesOK
  <1>6. CASE DeliverEnd(c) \/ StopWriter(c)
    <2>1. /\ UNCHANGED <<target, cut>>
          /\ \A d \in Conns : Near(d)' = Near(d) /\ Far(d)' = Far(d)
      BY <1>6, NoChange DEF DeliverEnd, StopWriter, session
    <2>2. done'[c]
      BY <1>6 DEF DeliverEnd, StopWriter, Hangup, Typed, EndpointsOK
    <2>3. Far(c).rxEnd \/ done[c] \/ Cancelled
      BY <1>6 DEF DeliverEnd, StopWriter, Far
    <2>4. OnlyIn(c) /\ Onward(c)
      BY <1>1, <1>2, <2>1, <2>2 DEF OnlyIn, View, Onward, Cancelled
    <2>5. FlowsOK(c)'
      <3>1. /\ LowDown(c)' = LowDown(c) /\ HighDown(c)' = HighDown(c)
            /\ LowUp(c)' = LowUp(c) /\ HighUp(c)' = HighUp(c)
        BY <1>1, <2>1 DEF LowDown, HighDown, LowUp, HighUp, Loaded
      <3>2. target'[c].read <= target'[c].wrote
        BY <2>1 DEF PipesOK, FlowsOK
      <3> QED BY <1>1, <2>4, <3>1, <3>2, FlowsSame DEF PipesOK
    <2>6. EndsOK(c)'
      <3>1. Unused(c)' /\ Started(c)' /\ RxEnds(c)' /\ Excused(c)'
        BY <1>1, <2>1 DEF PipesOK, EndsOK, Unused, Started, RxEnds, Excused
      <3>2. Last(Near(c), ToFar(c))' /\ Last(Far(c), ToNear(c))'
        BY <1>1, <2>1 DEF PipesOK, EndsOK, Last
      <3>3. DownEnds(c)'
        <4>1. Far(c).rxEnd => Far(c).closed
          BY DEF PipesOK, EndsOK, Last
        <4> QED BY <4>1, <1>1, <2>1, <2>3, <2>4, WholeBefore
                DEF PipesOK, EndsOK, DownEnds, DownWhole, Ending, Finished
      <3>4. UpEnds(c)'
        BY <2>2 DEF UpEnds, UpWhole
      <3> QED BY <3>1, <3>2, <3>3, <3>4 DEF EndsOK
    <2> QED BY <2>4, <2>5, <2>6 DEF PipesOK
  <1> QED BY <1>5, <1>6 DEF WriterStep

-----------------------------------------------------------------------------
(* The network: envelopes leave and arrive.                                 *)

LEMMA Peers == Peer("client") = "server" /\ Peer("server") = "client"
  <1>1. \E y \in Sides : y # "client"
    BY DEF Sides
  <1>2. \E y \in Sides : y # "server"
    BY DEF Sides
  <1>3. Peer("client") \in Sides /\ Peer("client") # "client"
    BY <1>1 DEF Peer
  <1>4. Peer("server") \in Sides /\ Peer("server") # "server"
    BY <1>2 DEF Peer
  <1> QED BY <1>3, <1>4 DEF Sides

LEMMA TailFacts ==
  ASSUME NEW q \in Seq(Envelopes), q # <<>>
  PROVE  /\ Head(q) \in Envelopes /\ Head(q).n \in Nat /\ Head(q).close \in BOOLEAN
         /\ Head(q) = q[1] /\ 1 \in 1..Len(q)
         /\ Len(q) = 1 => Tail(q) = <<>>
         /\ \A i \in 1..Len(Tail(q)) : Tail(q)[i] = q[i + 1] /\ i + 1 \in 1..Len(q)
         /\ Len(Tail(q)) = Len(q) - 1 /\ Len(q) \in Nat
  <1>1. Len(q) \in Nat /\ Len(q) >= 1
    BY EmptySeq, LenProperties
  <1>2. /\ Head(q) \in Envelopes /\ Tail(q) \in Seq(Envelopes)
        /\ Len(Tail(q)) = Len(q) - 1
        /\ \A i \in 1..Len(Tail(q)) : Tail(q)[i] = q[i + 1]
    BY HeadTailProperties
  <1>3. Head(q).n \in Nat /\ Head(q).close \in BOOLEAN
    BY <1>2 DEF Envelopes
  <1>4. Len(q) = 1 => Tail(q) = <<>>
    <2>1. Len(q) = 1 => Len(Tail(q)) = 0
      BY <1>2
    <2> QED BY <2>1, <1>2, EmptySeq
  <1>5. Head(q) = q[1]
    BY <1>1
  <1>6. \A i \in 1..Len(Tail(q)) : i + 1 \in 1..Len(q)
    BY <1>1, <1>2
  <1> QED BY <1>1, <1>2, <1>3, <1>4, <1>5, <1>6

\* What Last says of a queue without its first envelope.
LEMMA LastTail ==
  ASSUME NEW s, NEW q \in Seq(Envelopes), q # <<>>, Last(s, q)
  PROVE  /\ Last(s, Tail(q))
         /\ Head(q).close => Tail(q) = <<>> /\ s.reg = "tomb" /\ s.closed
  <1>1. \A i \in 1..Len(Tail(q)) : Tail(q)[i].close => i = Len(Tail(q)) /\ s.reg = "tomb"
    <2> SUFFICES ASSUME NEW i \in 1..Len(Tail(q)), Tail(q)[i].close
                 PROVE  i = Len(Tail(q)) /\ s.reg = "tomb"
      OBVIOUS
    <2>1. Tail(q)[i] = q[i + 1] /\ i + 1 \in 1..Len(q)
      BY TailFacts
    <2>2. i + 1 = Len(q) /\ s.reg = "tomb"
      BY <2>1 DEF Last
    <2> QED BY <2>2, TailFacts
  <1>2. Head(q).close => Len(q) = 1 /\ s.reg = "tomb"
    BY TailFacts DEF Last
  <1> QED BY <1>1, <1>2, TailFacts DEF Last

\* What arrival does to a session that is no tombstone.
Arrived(s, e) == IF s.reg = "tomb" THEN s ELSE [Received(s, e) EXCEPT !.reg = "live"]

LEMMA ArrivedFacts ==
  ASSUME NEW s \in Session, NEW e \in Envelopes
  PROVE  LET t == Arrived(s, e) IN
         /\ t.buf = s.buf
         /\ s.reg = "tomb" => t = s
         /\ s.reg # "tomb" => t.reg = "live"
         /\ s.reg # "tomb" /\ s.rxEnd => t.rx = s.rx /\ t.rxEnd /\ t.closed = s.closed
         /\ s.reg # "tomb" /\ ~s.rxEnd =>
              t.rx = s.rx + e.n /\ t.rxEnd = e.close /\ t.closed = (s.closed \/ e.close)
  <1>1. CASE s.reg = "tomb"
    BY <1>1 DEF Arrived
  <1>2. CASE s.reg # "tomb" /\ s.rxEnd
    BY <1>2 DEF Arrived, Received, Session
  <1>3. CASE s.reg # "tomb" /\ ~s.rxEnd
    <2> DEFINE a == s.rx + e.n
               z == e.close
               k == s.closed \/ e.close
    <2>1. Arrived(s, e) = [s EXCEPT !.rx = a, !.rxEnd = z, !.closed = k, !.reg = "live"]
      BY <1>3 DEF Arrived, Received, Session
    <2> HIDE DEF a, z, k
    <2>2. /\ Arrived(s, e).buf = s.buf /\ Arrived(s, e).reg = "live" /\ Arrived(s, e).rx = a
          /\ Arrived(s, e).rxEnd = z /\ Arrived(s, e).closed = k
      BY <2>1 DEF Session
    <2> QED BY <1>3, <2>2 DEF a, z, k
  <1> QED BY <1>1, <1>2, <1>3

LEMMA ArriveNearPipes ==
  ASSUME Typed, Typed', NEW c \in Conns, PipesOK(c), Arrive("client", c)
  PROVE  PipesOK(c)' /\ OnlyIn(c) /\ Onward(c)
  <1> DEFINE q == ToNear(c)
  <1>1. /\ UNCHANGED <<user, vconn, up, down, sent, got, handler, reader, writer, done, target, phase, cut>>
        /\ q # <<>>
        /\ net' = [net EXCEPT !["server"][c] = Tail(q)]
        /\ sess' = [sess EXCEPT !["client"][c] = Arrived(Near(c), Head(q))]
    BY Peers DEF Arrive, client, ToNear, Near, Arrived
  <1>2. /\ ToNear(c)' = Tail(q) /\ ToFar(c)' = ToFar(c)
        /\ \A d \in Conns \ {c} : ToNear(d)' = ToNear(d) /\ ToFar(d)' = ToFar(d)
    BY <1>1, SideFacts DEF Typed, SessionsOK, ToNear, ToFar
  <1>3. /\ Near(c)' = Arrived(Near(c), Head(q)) /\ Far(c)' = Far(c)
        /\ \A d \in Conns \ {c} : Near(d)' = Near(d) /\ Far(d)' = Far(d)
    BY <1>1, NearChange
  <1>4. Near(c) \in Session /\ q \in Seq(Envelopes)
    BY LocalTypes DEF ValuesOK
  <1> DEFINE e == Head(q)
  <1>5. e \in Envelopes /\ e.n \in Nat /\ e.close \in BOOLEAN
    BY <1>1, <1>4, TailFacts
  <1>6. /\ Last(Far(c), Tail(q))
        /\ e.close => Tail(q) = <<>> /\ Far(c).reg = "tomb" /\ Far(c).closed
    BY <1>1, <1>4, LastTail DEF PipesOK, EndsOK
  <1>7. ~Near(c).rxEnd
    BY <1>1 DEF PipesOK, EndsOK, RxEnds
  <1>8. /\ Near(c)'.buf = Near(c).buf
        /\ Near(c).reg = "tomb" => Near(c)' = Near(c)
        /\ Near(c).reg # "tomb" =>
             /\ Near(c)'.reg = "live" /\ Near(c)'.rx = Near(c).rx + e.n
             /\ Near(c)'.rxEnd = e.close
             /\ Near(c)'.closed = (Near(c).closed \/ e.close)
    BY <1>3, <1>4, <1>5, <1>7, ArrivedFacts
  <1>9. OnlyIn(c) /\ Onward(c)
    BY <1>1, <1>2, <1>3 DEF OnlyIn, View, Onward, Cancelled
  <1>10. /\ DownWhole(c)' = DownWhole(c) /\ UpWhole(c)' = UpWhole(c)
         /\ HighDown(c)' = HighDown(c) /\ LowUp(c)' = LowUp(c) /\ HighUp(c)' = HighUp(c)
    BY <1>1, <1>3, <1>8 DEF DownWhole, UpWhole, Cancelled, HighDown, LowUp, HighUp, Loaded
  <1>11. FlowsOK(c)'
    <2>1. Between(q, LowDown(c), HighDown(c), DownWhole(c))
      BY DEF PipesOK, FlowsOK
    <2>2. /\ LowDown(c) \in Int /\ HighDown(c) \in Int /\ DownWhole(c) \in BOOLEAN
          /\ got[c] \in Nat /\ Near(c).rx \in Nat
      BY LocalTypes DEF ValuesOK, Session
    <2>3. /\ Between(Tail(q), LowDown(c) + e.n, HighDown(c), DownWhole(c))
          /\ Between(Tail(q), LowDown(c), HighDown(c), FALSE)
      BY <1>1, <1>4, <2>1, <2>2, BetweenTail
    <2>4. Between(Tail(q), LowDown(c)', HighDown(c), DownWhole(c))
      <3>1. CASE Near(c).reg = "tomb"
        <4>1. DownWhole(c) = FALSE
          BY <3>1, <1>7 DEF PipesOK, EndsOK, Last, DownEnds, DownWhole
        <4>2. LowDown(c)' = LowDown(c)
          BY <3>1, <1>1, <1>8 DEF LowDown
        <4> QED BY <4>1, <4>2, <2>3
      <3>2. CASE Near(c).reg # "tomb"
        <4>1. LowDown(c)' = LowDown(c) + e.n
          BY <3>2, <1>1, <1>5, <1>8, <2>2 DEF LowDown
        <4> QED BY <4>1, <2>3
      <3> QED BY <3>1, <3>2
    <2>5. Between(ToNear(c)', LowDown(c)', HighDown(c)', DownWhole(c)')
      BY <2>4, <1>2, <1>10
    <2>6. Between(ToFar(c)', LowUp(c)', HighUp(c)', UpWhole(c)')
      BY <1>2, <1>10 DEF PipesOK, FlowsOK
    <2>7. target'[c].read <= target'[c].wrote
      BY <1>1 DEF PipesOK, FlowsOK
    <2> QED BY <2>5, <2>6, <2>7 DEF FlowsOK
  <1> HIDE DEF q, e
  <1>12. EndsOK(c)'
    <2>1. Unused(c)' /\ Started(c)' /\ Excused(c)'
      BY <1>1 DEF PipesOK, EndsOK, Unused, Started, Excused, q
    <2>2. Last(Near(c), ToFar(c))'
      <3>1. \A i \in 1..Len(ToFar(c)) : ToFar(c)[i].close => i = Len(ToFar(c)) /\ Near(c).reg = "tomb"
        BY DEF PipesOK, EndsOK, Last
      <3>2. CASE Near(c).reg = "tomb"
        BY <3>2, <1>2, <1>8 DEF PipesOK, EndsOK, Last
      <3>3. CASE Near(c).reg # "tomb"
        BY <3>1, <3>3, <1>2, <1>8 DEF Last
      <3> QED BY <3>2, <3>3
    <2>3. Last(Far(c), ToNear(c))'
      BY <1>2, <1>3, <1>6 DEF Last
    <2>4. RxEnds(c)'
      BY <1>1, <1>2, <1>3, <1>6, <1>7, <1>8 DEF PipesOK, EndsOK, RxEnds
    <2>5. DownEnds(c)'
      <3> SUFFICES ASSUME DownWhole(c)
                   PROVE  /\ Near(c)'.closed => Near(c)'.rxEnd
                          /\ done[c] \/ Ending(c) \/ Near(c)'.closed \/ Far(c).closed => Finished(c)
        BY <1>1, <1>3, <1>10 DEF DownEnds, Ending, Finished
      <3>1. /\ ~Near(c).closed
            /\ done[c] \/ Ending(c) \/ Far(c).closed => Finished(c)
        BY <1>7 DEF PipesOK, EndsOK, DownEnds
      <3>2. Near(c).reg # "tomb"
        BY <3>1 DEF PipesOK, EndsOK, Last
      <3>3. Near(c)'.closed => e.close /\ Near(c)'.rxEnd
        BY <3>1, <3>2, <1>5, <1>8
      <3> QED BY <3>1, <3>3, <1>6
    <2>6. UpEnds(c)'
      BY <1>1, <1>3, <1>6, <1>8, <1>10 DEF PipesOK, EndsOK, UpEnds, Ending
    <2> QED BY <2>1, <2>2, <2>3, <2>4, <2>5, <2>6 DEF EndsOK
  <1> QED BY <1>9, <1>11, <1>12 DEF PipesOK

LEMMA ArriveFarPipes ==
  ASSUME Typed, Typed', Known, NEW c \in Conns, PipesOK(c), Arrive("server", c)
  PROVE  PipesOK(c)' /\ OnlyIn(c) /\ Onward(c)
  <1> DEFINE q == ToFar(c)
  <1>1. /\ UNCHANGED <<user, vconn, up, down, sent, got, reader, writer, done, target, phase, cut>>
        /\ q # <<>>
        /\ net' = [net EXCEPT !["client"][c] = Tail(q)]
        /\ sess' = [sess EXCEPT !["server"][c] = Arrived(Far(c), Head(q))]
    BY Peers DEF Arrive, client, ToFar, Far, Arrived
  <1>2. /\ ToFar(c)' = Tail(q) /\ ToNear(c)' = ToNear(c)
        /\ \A d \in Conns \ {c} : ToNear(d)' = ToNear(d) /\ ToFar(d)' = ToFar(d)
    BY <1>1, SideFacts DEF Typed, SessionsOK, ToNear, ToFar
  <1>3. /\ Far(c)' = Arrived(Far(c), Head(q)) /\ Near(c)' = Near(c)
        /\ \A d \in Conns \ {c} : Near(d)' = Near(d) /\ Far(d)' = Far(d)
    BY <1>1, FarChange
  <1>4. Far(c) \in Session /\ q \in Seq(Envelopes)
    BY LocalTypes DEF ValuesOK
  <1> DEFINE e == Head(q)
  <1>5. e \in Envelopes /\ e.n \in Nat /\ e.close \in BOOLEAN
    BY <1>1, <1>4, TailFacts
  <1>6. /\ Last(Near(c), Tail(q))
        /\ e.close => Tail(q) = <<>> /\ Near(c).reg = "tomb" /\ Near(c).closed
    BY <1>1, <1>4, LastTail DEF PipesOK, EndsOK
  <1>7. Far(c).rxEnd => handler[c] \in {"closed", "done"}
    BY <1>1 DEF PipesOK, EndsOK, RxEnds
  <1>8. /\ Far(c)'.buf = Far(c).buf
        /\ Far(c).reg = "tomb" => Far(c)' = Far(c)
        /\ Far(c).reg # "tomb" /\ Far(c).rxEnd =>
             /\ Far(c)'.reg = "live" /\ Far(c)'.rx = Far(c).rx
             /\ Far(c)'.rxEnd /\ Far(c)'.closed = Far(c).closed
        /\ Far(c).reg # "tomb" /\ ~Far(c).rxEnd =>
             /\ Far(c)'.reg = "live" /\ Far(c)'.rx = Far(c).rx + e.n
             /\ Far(c)'.rxEnd = e.close
             /\ Far(c)'.closed = (Far(c).closed \/ e.close)
    BY <1>3, <1>4, <1>5, ArrivedFacts
  <1>9. /\ \A d \in Conns \ {c} : handler'[d] = handler[d]
        /\ \/ handler'[c] = handler[c]
           \/ handler[c] = "none" /\ handler'[c] = "dial"
    BY DEF Arrive, Known, Typed, ControlOK
  <1>10. OnlyIn(c) /\ Onward(c)
    BY <1>1, <1>2, <1>3, <1>9 DEF OnlyIn, View, Onward, Cancelled
  <1>11. /\ DownWhole(c)' = DownWhole(c) /\ UpWhole(c)' = UpWhole(c)
         /\ HighDown(c)' = HighDown(c) /\ LowDown(c)' = LowDown(c) /\ HighUp(c)' = HighUp(c)
    BY <1>1, <1>3, <1>8 DEF DownWhole, UpWhole, Cancelled, HighDown, LowDown, HighUp, Loaded
  <1>12. FlowsOK(c)'
    <2>1. Between(q, LowUp(c), HighUp(c), UpWhole(c))
      BY DEF PipesOK, FlowsOK
    <2>2. /\ LowUp(c) \in Int /\ HighUp(c) \in Int /\ UpWhole(c) \in BOOLEAN
          /\ target[c].got \in Nat /\ Far(c).rx \in Nat
      BY LocalTypes DEF ValuesOK, Session, Targets
    <2>3. /\ Between(Tail(q), LowUp(c) + e.n, HighUp(c), UpWhole(c))
          /\ Between(Tail(q), LowUp(c), HighUp(c), FALSE)
      BY <1>1, <1>4, <2>1, <2>2, BetweenTail
    <2>4. Between(Tail(q), LowUp(c)', HighUp(c), UpWhole(c))
      <3>1. CASE Far(c).reg = "tomb" \/ Far(c).rxEnd
        <4>1. UpWhole(c) = FALSE
          BY <3>1, <1>7 DEF PipesOK, EndsOK, Last, UpEnds, UpWhole, Ending
        <4>2. LowUp(c)' = LowUp(c)
          BY <3>1, <1>1, <1>8 DEF LowUp
        <4> QED BY <4>1, <4>2, <2>3
      <3>2. CASE Far(c).reg # "tomb" /\ ~Far(c).rxEnd
        <4>1. LowUp(c)' = LowUp(c) + e.n
          BY <3>2, <1>1, <1>5, <1>8, <2>2 DEF LowUp
        <4> QED BY <4>1, <2>3
      <3> QED BY <3>1, <3>2
    <2>5. Between(ToFar(c)', LowUp(c)', HighUp(c)', UpWhole(c)')
      BY <2>4, <1>2, <1>11
    <2>6. Between(ToNear(c)', LowDown(c)', HighDown(c)', DownWhole(c)')
      BY <1>2, <1>11 DEF PipesOK, FlowsOK
    <2>7. target'[c].read <= target'[c].wrote
      BY <1>1 DEF PipesOK, FlowsOK
    <2> QED BY <2>5, <2>6, <2>7 DEF FlowsOK
  <1> HIDE DEF q, e
  <1>13. EndsOK(c)'
    <2>1. Unused(c)' /\ Started(c)' /\ Excused(c)'
      BY <1>1, <1>9 DEF PipesOK, EndsOK, Unused, Started, Excused, q
    <2>2. Last(Far(c), ToNear(c))'
      <3>1. \A i \in 1..Len(ToNear(c)) : ToNear(c)[i].close => i = Len(ToNear(c)) /\ Far(c).reg = "tomb"
        BY DEF PipesOK, EndsOK, Last
      <3>2. Far(c).rxEnd => Far(c).closed
        BY DEF PipesOK, EndsOK, Last
      <3>3. CASE Far(c).reg = "tomb"
        BY <3>3, <1>2, <1>8 DEF PipesOK, EndsOK, Last
      <3>4. CASE Far(c).reg # "tomb"
        BY <3>1, <3>2, <3>4, <1>2, <1>8 DEF Last
      <3> QED BY <3>3, <3>4
    <2>3. Last(Near(c), ToFar(c))'
      BY <1>2, <1>3, <1>6 DEF Last
    <2>4. RxEnds(c)'
      BY <1>1, <1>2, <1>3, <1>6, <1>7, <1>8, <1>9 DEF PipesOK, EndsOK, RxEnds
    <2>5. DownEnds(c)'
      BY <1>1, <1>3, <1>6, <1>8, <1>9, <1>11 DEF PipesOK, EndsOK, DownEnds, Ending, Finished
    <2>6. UpEnds(c)'
      BY <1>1, <1>3, <1>6, <1>8, <1>9, <1>11 DEF PipesOK, EndsOK, UpEnds, Ending
    <2> QED BY <2>1, <2>2, <2>3, <2>4, <2>5, <2>6 DEF EndsOK
  <1> QED BY <1>10, <1>12, <1>13 DEF PipesOK
\* What a flush does to one session: nothing, silence closes it, or an
\* envelope leaves.
LEMMA FlushOne ==
  ASSUME Typed, NEW x \in Sides, NEW Q \in SUBSET Conns, Flush(x, Q), NEW c \in Conns
  PROVE  LET s == sess[x][c]
             t == sess'[x][c]
         IN /\ t.rx = s.rx /\ t.rxEnd = s.rxEnd
            /\ t.closed = (s.closed \/ c \in Q)
            /\ \/ net'[x][c] = net[x][c] /\ t.buf = s.buf /\ t.reg = s.reg
               \/ /\ s.reg = "live"
                  /\ \E e \in Envelopes :
                       /\ net'[x][c] = Append(net[x][c], e)
                       /\ t.buf = s.buf - e.n
                       /\ IF e.close THEN t.reg = "tomb" /\ t.closed /\ t.buf = 0
                                     ELSE t.reg = "live"
            /\ s.reg # "live" => t = s /\ net'[x][c] = net[x][c] /\ c \notin Q
            /\ cut'[c] = IF c \in Q THEN cut[c] \cup {"idle"} ELSE cut[c]
  <1> DEFINE quiet(d) == [sess[x][d] EXCEPT !.closed = @ \/ d \in Q]
             sends    == {d \in Conns : HasBatch(x, quiet(d))}
             row      == [d \in Conns |-> IF d \in sends THEN Extracted(quiet(d)) ELSE quiet(d)]
             out      == [d \in Conns |-> IF d \in sends THEN Append(net[x][d], Envelope(quiet(d)))
                                                         ELSE net[x][d]]
             s == sess[x][c]
             k == quiet(c)
             z == s.closed \/ c \in Q
  <1>1. sess' = [sess EXCEPT ![x] = row] /\ net' = [net EXCEPT ![x] = out]
    BY DEF Flush
  <1>2. sess'[x][c] = row[c] /\ net'[x][c] = out[c]
    BY <1>1 DEF Typed, SessionsOK
  <1>3. s \in Session
    BY DEF Typed, SessionsOK
  <1>4. z \in BOOLEAN /\ k = [s EXCEPT !.closed = z]
    BY <1>3 DEF Session
  <1> HIDE DEF z
  <1>5. /\ k \in Session /\ k.closed = z /\ k.buf = s.buf /\ k.rx = s.rx
        /\ k.rxEnd = s.rxEnd /\ k.reg = s.reg
    BY <1>3, <1>4 DEF Session
  <1>6. c \in Q => s.reg = "live"
    BY DEF Flush
  <1>7. cut'[c] = IF c \in Q THEN cut[c] \cup {"idle"} ELSE cut[c]
    BY DEF Flush
  <1>8. c \notin Q => k = s
    <2>1. c \notin Q => z = s.closed
      BY <1>3 DEF z, Session
    <2> QED BY <2>1, <1>3, <1>4 DEF Session
  <1>9. CASE c \notin sends
    <2>1. sess'[x][c] = k /\ net'[x][c] = net[x][c]
      BY <1>2, <1>9
    <2> QED BY <2>1, <1>5, <1>6, <1>7, <1>8 DEF z
  <1>10. CASE c \in sends
    <2> DEFINE e == Envelope(k)
               t == Extracted(k)
               b == k.buf - Taken(k)
               r == IF e.close THEN "tomb" ELSE k.reg
    <2>1. sess'[x][c] = t /\ net'[x][c] = Append(net[x][c], e)
      BY <1>2, <1>10
    <2>2. s.reg = "live"
      BY <1>10, <1>5 DEF HasBatch
    <2>3. e \in Envelopes /\ e.n = Taken(k) /\ e.close = (k.closed /\ b = 0)
      BY <1>5, EnvelopeType DEF Envelope, IsFinal
    <2>4. b \in Nat /\ b = k.buf - e.n
      BY <1>5, <2>3, TakenBound DEF Session
    <2>5. t = [k EXCEPT !.buf = b, !.fresh = FALSE, !.reg = r]
      BY DEF Extracted
    <2> HIDE DEF b, t, e, r
    <2>6. t.buf = b /\ t.reg = r /\ t.rx = k.rx /\ t.rxEnd = k.rxEnd /\ t.closed = k.closed
      BY <2>5, <1>5 DEF Session
    <2>7. IF e.close THEN r = "tomb" /\ k.closed /\ b = 0 ELSE r = "live"
      BY <2>2, <2>3, <1>5 DEF r
    <2> HIDE DEF quiet, sends
    <2>8. IF e.close THEN t.reg = "tomb" /\ t.closed /\ t.buf = 0 ELSE t.reg = "live"
      BY <2>6, <2>7
    <2>9. t.buf = s.buf - e.n
      BY <2>4, <2>6, <1>5
    <2>10. t.rx = s.rx /\ t.rxEnd = s.rxEnd /\ t.closed = (s.closed \/ c \in Q)
      BY <2>6, <1>5 DEF z
    <2> QED BY <2>1, <2>2, <2>3, <2>8, <2>9, <2>10, <1>7
  <1> QED BY <1>9, <1>10

\* The Close of a flushed session is its last envelope.
LEMMA LastAppend ==
  ASSUME NEW s, NEW t, NEW q \in Seq(Envelopes), NEW e \in Envelopes, Last(s, q),
         s.reg = "live", t.rxEnd = s.rxEnd, s.closed => t.closed,
         IF e.close THEN t.reg = "tomb" /\ t.closed /\ t.buf = 0 ELSE t.reg = "live"
  PROVE  Last(t, Append(q, e))
  <1>1. /\ Len(Append(q, e)) = Len(q) + 1 /\ Len(q) \in Nat
        /\ Append(q, e)[Len(q) + 1] = e
        /\ \A i \in 1..Len(q) : Append(q, e)[i] = q[i] /\ ~q[i].close
    BY AppendProperties, LenProperties DEF Last
  <1>2. ASSUME NEW i \in 1..Len(Append(q, e)), Append(q, e)[i].close
        PROVE  i = Len(Append(q, e)) /\ t.reg = "tomb"
    <2>1. i = Len(q) + 1
      <3>1. i \in 1..Len(q) \/ i = Len(q) + 1
        BY <1>1
      <3>2. i \notin 1..Len(q)
        <4> SUFFICES ASSUME i \in 1..Len(q) PROVE FALSE
          OBVIOUS
        <4>1. Append(q, e)[i] = q[i] /\ ~q[i].close
          BY <1>1
        <4> QED BY <4>1, <1>2
      <3> QED BY <3>1, <3>2
    <2>2. e.close
      BY <2>1, <1>1, <1>2
    <2> QED BY <2>1, <2>2, <1>1
  <1> QED BY <1>2 DEF Last

LEMMA FlushNearPipes ==
  ASSUME Typed, Typed', NEW Q \in SUBSET Conns, Flush("client", Q), NEW c \in Conns, PipesOK(c)
  PROVE  PipesOK(c)' /\ Onward(c)
  <1>1. /\ UNCHANGED <<user, vconn, up, down, sent, got, handler, reader, writer, done, target, phase>>
        /\ Far(c)' = Far(c) /\ ToNear(c)' = ToNear(c)
    BY SideFacts DEF Flush, client, server, Typed, SessionsOK, Far, ToNear
  <1>2. /\ Near(c)'.rx = Near(c).rx /\ Near(c)'.rxEnd = Near(c).rxEnd
        /\ Near(c)'.closed = (Near(c).closed \/ c \in Q)
        /\ \/ ToFar(c)' = ToFar(c) /\ Near(c)'.buf = Near(c).buf /\ Near(c)'.reg = Near(c).reg
           \/ /\ Near(c).reg = "live"
              /\ \E e \in Envelopes :
                   /\ ToFar(c)' = Append(ToFar(c), e)
                   /\ Near(c)'.buf = Near(c).buf - e.n
                   /\ IF e.close THEN Near(c)'.reg = "tomb" /\ Near(c)'.closed /\ Near(c)'.buf = 0
                                 ELSE Near(c)'.reg = "live"
        /\ Near(c).reg # "live" => Near(c)' = Near(c) /\ ToFar(c)' = ToFar(c) /\ c \notin Q
        /\ cut'[c] = IF c \in Q THEN cut[c] \cup {"idle"} ELSE cut[c]
    BY FlushOne, SideFacts DEF Near, ToFar
  <1>3. Onward(c)
    BY <1>1, <1>2 DEF Onward, Cancelled
  <1>4. c \in Q => ~DownWhole(c)' /\ ~UpWhole(c)'
    <2>1. c \in Q => "idle" \in cut'[c] \ {"user"}
      BY <1>2
    <2> QED BY <2>1 DEF DownWhole, UpWhole
  <1>5. /\ Near(c) \in Session /\ ToFar(c) \in Seq(Envelopes) /\ sent[c] \in Nat
        /\ LowUp(c) \in Int /\ HighUp(c) \in Int /\ UpWhole(c) \in BOOLEAN
        /\ LowDown(c) \in Int /\ HighDown(c) \in Int /\ DownWhole(c) \in BOOLEAN
    BY LocalTypes DEF ValuesOK
  <1>6. Near(c).buf \in Nat
    BY <1>5 DEF Session
  <1>7. LowDown(c)' = LowDown(c) /\ HighDown(c)' = HighDown(c) /\ LowUp(c)' = LowUp(c)
    BY <1>1, <1>2 DEF LowDown, HighDown, LowUp, Loaded
  <1>8. (DownWhole(c)' => DownWhole(c)) /\ (UpWhole(c)' => UpWhole(c))
        /\ DownWhole(c)' \in BOOLEAN /\ UpWhole(c)' \in BOOLEAN
    BY <1>3, WholeBefore DEF DownWhole, UpWhole
  <1>9. target'[c].read <= target'[c].wrote /\ Between(ToNear(c)', LowDown(c)', HighDown(c)', DownWhole(c)')
    <2>1. Between(ToNear(c), LowDown(c), HighDown(c), DownWhole(c)')
      BY <1>5, <1>8, BetweenKeeps DEF PipesOK, FlowsOK
    <2> QED BY <2>1, <1>1, <1>7 DEF PipesOK, FlowsOK
  <1>10. Started(c)' /\ Excused(c)'
    BY <1>1, <1>2 DEF PipesOK, EndsOK, Started, Excused
  <1>11. Unused(c)'
    BY <1>1, <1>2 DEF PipesOK, EndsOK, Unused, NewSession
  <1>12. RxEnds(c)' /\ Last(Far(c), ToNear(c))'
    BY <1>1, <1>2 DEF PipesOK, EndsOK, RxEnds, Last
  <1>13. DownEnds(c)' /\ UpEnds(c)'
    BY <1>1, <1>2, <1>4, <1>8 DEF PipesOK, EndsOK, DownEnds, UpEnds, Ending, Finished
  <1>14. /\ Last(Near(c), ToFar(c))'
         /\ Between(ToFar(c)', LowUp(c)', HighUp(c)', UpWhole(c)')
    <2>1. CASE ToFar(c)' = ToFar(c) /\ Near(c)'.buf = Near(c).buf /\ Near(c)'.reg = Near(c).reg
      <3>1. Last(Near(c), ToFar(c))'
        BY <2>1, <1>2 DEF PipesOK, EndsOK, Last
      <3>2. HighUp(c)' = HighUp(c)
        BY <2>1, <1>1 DEF HighUp
      <3>3. Between(ToFar(c), LowUp(c), HighUp(c), UpWhole(c)')
        BY <1>5, <1>8, BetweenKeeps DEF PipesOK, FlowsOK
      <3> QED BY <2>1, <3>1, <3>2, <3>3, <1>7
    <2>2. CASE /\ Near(c).reg = "live"
               /\ \E e \in Envelopes :
                    /\ ToFar(c)' = Append(ToFar(c), e)
                    /\ Near(c)'.buf = Near(c).buf - e.n
                    /\ IF e.close THEN Near(c)'.reg = "tomb" /\ Near(c)'.closed /\ Near(c)'.buf = 0
                                  ELSE Near(c)'.reg = "live"
      <3>1. PICK e \in Envelopes :
              /\ ToFar(c)' = Append(ToFar(c), e)
              /\ Near(c)'.buf = Near(c).buf - e.n
              /\ IF e.close THEN Near(c)'.reg = "tomb" /\ Near(c)'.closed /\ Near(c)'.buf = 0
                            ELSE Near(c)'.reg = "live"
        BY <2>2
      <3>2. Last(Near(c)', Append(ToFar(c), e))
        BY <2>2, <3>1, <1>2, <1>5, LastAppend DEF PipesOK, EndsOK
      <3>3. HighUp(c)' = HighUp(c) + e.n /\ HighUp(c) + e.n \in Int
        <4>1. e.n \in Nat
          BY DEF Envelopes
        <4> QED BY <4>1, <3>1, <1>1, <1>5, <1>6 DEF HighUp
      <3>4. Between(Append(ToFar(c), e), LowUp(c), HighUp(c) + e.n, UpWhole(c))
        BY <1>5, BetweenAppend DEF PipesOK, FlowsOK
      <3>5. Between(Append(ToFar(c), e), LowUp(c), HighUp(c) + e.n, UpWhole(c)')
        BY <3>3, <3>4, <1>5, <1>8, BetweenKeeps
      <3> QED BY <3>1, <3>2, <3>3, <3>5, <1>7
    <2> QED BY <2>1, <2>2, <1>2
  <1> QED BY <1>3, <1>9, <1>10, <1>11, <1>12, <1>13, <1>14 DEF PipesOK, FlowsOK, EndsOK

LEMMA FlushFarPipes ==
  ASSUME Typed, Typed', NEW Q \in SUBSET Conns, Flush("server", Q), NEW c \in Conns, PipesOK(c)
  PROVE  PipesOK(c)' /\ Onward(c)
  <1>1. /\ UNCHANGED <<user, vconn, up, down, sent, got, handler, reader, writer, done, target, phase>>
        /\ Near(c)' = Near(c) /\ ToFar(c)' = ToFar(c)
    BY SideFacts DEF Flush, client, server, Typed, SessionsOK, Near, ToFar
  <1>2. /\ Far(c)'.rx = Far(c).rx /\ Far(c)'.rxEnd = Far(c).rxEnd
        /\ Far(c)'.closed = (Far(c).closed \/ c \in Q)
        /\ \/ ToNear(c)' = ToNear(c) /\ Far(c)'.buf = Far(c).buf /\ Far(c)'.reg = Far(c).reg
           \/ /\ Far(c).reg = "live"
              /\ \E e \in Envelopes :
                   /\ ToNear(c)' = Append(ToNear(c), e)
                   /\ Far(c)'.buf = Far(c).buf - e.n
                   /\ IF e.close THEN Far(c)'.reg = "tomb" /\ Far(c)'.closed /\ Far(c)'.buf = 0
                                 ELSE Far(c)'.reg = "live"
        /\ Far(c).reg # "live" => Far(c)' = Far(c) /\ ToNear(c)' = ToNear(c) /\ c \notin Q
        /\ cut'[c] = IF c \in Q THEN cut[c] \cup {"idle"} ELSE cut[c]
    BY FlushOne, SideFacts DEF Far, ToNear
  <1>3. Onward(c)
    BY <1>1, <1>2 DEF Onward, Cancelled
  <1>4. c \in Q => ~DownWhole(c)' /\ ~UpWhole(c)'
    <2>1. c \in Q => "idle" \in cut'[c] \ {"user"}
      BY <1>2
    <2> QED BY <2>1 DEF DownWhole, UpWhole
  <1>5. /\ Far(c) \in Session /\ ToNear(c) \in Seq(Envelopes) /\ target[c] \in Targets
        /\ LowUp(c) \in Int /\ HighUp(c) \in Int /\ UpWhole(c) \in BOOLEAN
        /\ LowDown(c) \in Int /\ HighDown(c) \in Int /\ DownWhole(c) \in BOOLEAN
    BY LocalTypes DEF ValuesOK
  <1>6. Far(c).buf \in Nat /\ Loaded(c) \in Int
    BY <1>5 DEF Session, Targets, Loaded
  <1>7. /\ LowDown(c)' = LowDown(c) /\ HighUp(c)' = HighUp(c) /\ LowUp(c)' = LowUp(c)
        /\ Loaded(c)' = Loaded(c)
    BY <1>1, <1>2 DEF LowDown, HighUp, LowUp, Loaded
  <1>8. (DownWhole(c)' => DownWhole(c)) /\ (UpWhole(c)' => UpWhole(c))
        /\ DownWhole(c)' \in BOOLEAN /\ UpWhole(c)' \in BOOLEAN
    BY <1>3, WholeBefore DEF DownWhole, UpWhole
  <1>9. target'[c].read <= target'[c].wrote /\ Between(ToFar(c)', LowUp(c)', HighUp(c)', UpWhole(c)')
    <2>1. Between(ToFar(c), LowUp(c), HighUp(c), UpWhole(c)')
      BY <1>5, <1>8, BetweenKeeps DEF PipesOK, FlowsOK
    <2> QED BY <2>1, <1>1, <1>7 DEF PipesOK, FlowsOK
  <1>10. Started(c)' /\ Excused(c)'
    BY <1>1, <1>2 DEF PipesOK, EndsOK, Started, Excused
  <1>11. Unused(c)'
    BY <1>1, <1>2 DEF PipesOK, EndsOK, Unused, NewSession
  <1>12. RxEnds(c)' /\ Last(Near(c), ToFar(c))'
    BY <1>1, <1>2 DEF PipesOK, EndsOK, RxEnds, Last
  <1>13. DownEnds(c)' /\ UpEnds(c)'
    BY <1>1, <1>2, <1>4, <1>8 DEF PipesOK, EndsOK, DownEnds, UpEnds, Ending, Finished
  <1>14. /\ Last(Far(c), ToNear(c))'
         /\ Between(ToNear(c)', LowDown(c)', HighDown(c)', DownWhole(c)')
    <2>1. CASE ToNear(c)' = ToNear(c) /\ Far(c)'.buf = Far(c).buf /\ Far(c)'.reg = Far(c).reg
      <3>1. Last(Far(c), ToNear(c))'
        BY <2>1, <1>2 DEF PipesOK, EndsOK, Last
      <3>2. HighDown(c)' = HighDown(c)
        BY <2>1, <1>7 DEF HighDown
      <3>3. Between(ToNear(c), LowDown(c), HighDown(c), DownWhole(c)')
        BY <1>5, <1>8, BetweenKeeps DEF PipesOK, FlowsOK
      <3> QED BY <2>1, <3>1, <3>2, <3>3, <1>7
    <2>2. CASE /\ Far(c).reg = "live"
               /\ \E e \in Envelopes :
                    /\ ToNear(c)' = Append(ToNear(c), e)
                    /\ Far(c)'.buf = Far(c).buf - e.n
                    /\ IF e.close THEN Far(c)'.reg = "tomb" /\ Far(c)'.closed /\ Far(c)'.buf = 0
                                  ELSE Far(c)'.reg = "live"
      <3>1. PICK e \in Envelopes :
              /\ ToNear(c)' = Append(ToNear(c), e)
              /\ Far(c)'.buf = Far(c).buf - e.n
              /\ IF e.close THEN Far(c)'.reg = "tomb" /\ Far(c)'.closed /\ Far(c)'.buf = 0
                            ELSE Far(c)'.reg = "live"
        BY <2>2
      <3>2. Last(Far(c)', Append(ToNear(c), e))
        BY <2>2, <3>1, <1>2, <1>5, LastAppend DEF PipesOK, EndsOK
      <3>3. HighDown(c)' = HighDown(c) + e.n /\ HighDown(c) + e.n \in Int
        <4>1. e.n \in Nat
          BY DEF Envelopes
        <4> QED BY <4>1, <3>1, <1>6, <1>7 DEF HighDown
      <3>4. Between(Append(ToNear(c), e), LowDown(c), HighDown(c) + e.n, DownWhole(c))
        BY <1>5, BetweenAppend DEF PipesOK, FlowsOK
      <3>5. Between(Append(ToNear(c), e), LowDown(c), HighDown(c) + e.n, DownWhole(c)')
        BY <3>3, <3>4, <1>5, <1>8, BetweenKeeps
      <3> QED BY <3>1, <3>2, <3>3, <3>5, <1>7
    <2> QED BY <2>1, <2>2, <1>2
  <1> QED BY <1>3, <1>9, <1>10, <1>11, <1>12, <1>13, <1>14 DEF PipesOK, FlowsOK, EndsOK


-----------------------------------------------------------------------------
(* The invariant holds, and every step moves both pipes or none.            *)

PipesInv == Typed /\ Known /\ \A c \in Conns : PipesOK(c)

LEMMA PhasePipes ==
  ASSUME Typed, Typed', NEW c \in Conns, PipesOK(c), Signal \/ Wait \/ Stop
  PROVE  PipesOK(c)' /\ Onward(c)
  <1>1. /\ UNCHANGED <<user, vconn, up, down, sent, got, handler, reader, writer, done, target, cut>>
        /\ Near(c)' = Near(c) /\ Far(c)' = Far(c)
        /\ ToNear(c)' = ToNear(c) /\ ToFar(c)' = ToFar(c)
    BY NoChange DEF Signal, Wait, Stop, client, server, session
  <1>2. Cancelled => Cancelled'
    BY DEF Signal, Wait, Stop, Cancelled
  <1>3. Onward(c)
    BY <1>1, <1>2 DEF Onward
  <1>4. /\ LowDown(c)' = LowDown(c) /\ HighDown(c)' = HighDown(c)
        /\ LowUp(c)' = LowUp(c) /\ HighUp(c)' = HighUp(c)
    BY <1>1 DEF LowDown, HighDown, LowUp, HighUp, Loaded
  <1>5. target'[c].read <= target'[c].wrote
    BY <1>1 DEF PipesOK, FlowsOK
  <1>6. FlowsOK(c)'
    BY <1>1, <1>3, <1>4, <1>5, FlowsSame DEF PipesOK
  <1>7. Unused(c)' /\ Started(c)' /\ RxEnds(c)' /\ Excused(c)'
    BY <1>1 DEF PipesOK, EndsOK, Unused, Started, RxEnds, Excused
  <1>8. Last(Near(c), ToFar(c))' /\ Last(Far(c), ToNear(c))'
    BY <1>1 DEF PipesOK, EndsOK, Last
  <1>9. DownEnds(c)' /\ UpEnds(c)'
    BY <1>1, <1>3, WholeBefore DEF PipesOK, EndsOK, DownEnds, UpEnds, Ending, Finished
  <1> QED BY <1>3, <1>6, <1>7, <1>8, <1>9 DEF PipesOK, EndsOK

LEMMA FromOne ==
  ASSUME NEW c \in Conns, \A d \in Conns : PipesOK(d),
         PipesOK(c)' /\ OnlyIn(c) /\ Onward(c)
  PROVE  \A d \in Conns : PipesOK(d)' /\ Onward(d)
  BY StandStill DEF OnlyIn

LEMMA NextPipes ==
  ASSUME Typed, Typed', Known, \A c \in Conns : PipesOK(c), [Next]_vars
  PROVE  \A c \in Conns : PipesOK(c)' /\ Onward(c)
  <1>1. ASSUME NEW c \in Conns, Dial(c) \/ Write(c) \/ UserFin(c) \/ UserGone(c) \/ ClientStep(c)
        PROVE  \A d \in Conns : PipesOK(d)' /\ Onward(d)
    <2>1. PipesOK(c)' /\ OnlyIn(c) /\ Onward(c)
      BY <1>1, DialPipes, WritePipes, UserPipes, ReturnPipes, ClosePipes DEF ClientStep
    <2> QED BY <2>1, FromOne
  <1>2. ASSUME NEW c \in Conns,
               \/ HandlerStep(c) \/ ReaderStep(c) \/ WriterStep(c)
               \/ TargetWrites(c) \/ TargetCloses(c)
        PROVE  \A d \in Conns : PipesOK(d)' /\ Onward(d)
    <2>1. PipesOK(c)' /\ OnlyIn(c) /\ Onward(c)
      BY <1>2, HandlerPipes, ReaderPipes, EnqueuePipes, WriterPipes DEF ReaderStep
    <2> QED BY <2>1, FromOne
  <1>3. ASSUME NEW y \in Sides, NEW c \in Conns, Arrive(y, c)
        PROVE  \A d \in Conns : PipesOK(d)' /\ Onward(d)
    <2>1. PipesOK(c)' /\ OnlyIn(c) /\ Onward(c)
      BY <1>3, ArriveNearPipes, ArriveFarPipes DEF Sides
    <2> QED BY <2>1, FromOne
  <1>4. ASSUME NEW x \in Sides, NEW Q \in SUBSET Conns, Flush(x, Q)
        PROVE  \A d \in Conns : PipesOK(d)' /\ Onward(d)
    BY <1>4, FlushNearPipes, FlushFarPipes DEF Sides
  <1>5. CASE Signal \/ Wait \/ Stop
    BY <1>5, PhasePipes
  <1>6. CASE UNCHANGED vars
    <2>1. \A d \in Conns : View(d)' = View(d)
      BY <1>6 DEF vars, client, server, session, View, Near, Far, ToNear, ToFar, Cancelled
    <2> QED BY <2>1, StandStill
  <1> QED BY <1>1, <1>2, <1>3, <1>4, <1>5, <1>6 DEF Next

LEMMA InitPipes == Init => \A c \in Conns : PipesOK(c)
  <1> SUFFICES ASSUME Init, NEW c \in Conns PROVE PipesOK(c)
    OBVIOUS
  <1>1. /\ Near(c) = NewSession /\ Far(c) = NewSession
        /\ ToNear(c) = <<>> /\ ToFar(c) = <<>>
    BY SideFacts DEF Init, Near, Far, ToNear, ToFar
  <1>2. /\ NewSession.reg = "none" /\ NewSession.closed = FALSE /\ NewSession.buf = 0
        /\ NewSession.rx = 0 /\ NewSession.rxEnd = FALSE
    BY DEF NewSession
  <1>3. /\ target[c].wrote = 0 /\ target[c].read = 0 /\ target[c].got = 0
        /\ sent[c] = 0 /\ got[c] = 0 /\ reader[c] = "none" /\ handler[c] = "none"
        /\ vconn[c] = "none" /\ up[c] = "run" /\ down[c] = "run" /\ ~done[c] /\ cut[c] = {}
    BY DEF Init
  <1>4. LowDown(c) = 0 /\ HighDown(c) = 0 /\ LowUp(c) = 0 /\ HighUp(c) = 0
    BY <1>1, <1>2, <1>3 DEF LowDown, HighDown, LowUp, HighUp, Loaded
  <1>5. \A whole : Between(<<>>, 0, 0, whole)
    BY CarriesNothing DEF Between
  <1>6. FlowsOK(c)
    BY <1>1, <1>3, <1>4, <1>5 DEF FlowsOK
  <1>7. Len(<<>>) = 0
    BY EmptySeq
  <1>8. \A s : s = NewSession => Last(s, <<>>)
    BY <1>2, <1>7 DEF Last
  <1>9. Unused(c) /\ Started(c) /\ RxEnds(c) /\ Excused(c)
    BY <1>1, <1>2, <1>3 DEF Unused, Started, RxEnds, Excused
  <1>10. DownEnds(c) /\ UpEnds(c)
    BY <1>1, <1>2, <1>3 DEF DownEnds, UpEnds, Ending
  <1> QED BY <1>1, <1>6, <1>8, <1>9, <1>10 DEF PipesOK, EndsOK
-----------------------------------------------------------------------------
(* The refinement.  A step that moves no byte is a Close of the pipe, in    *)
(* which any number of connections may finish, break or end.                *)

DownOver(c) == down[c] = "eof" \/ vconn[c] = "closed"

LEMMA DownTurns ==
  ASSUME Typed, Typed', \A c \in Conns : Onward(c),
         \A c \in Conns : target'[c].wrote = target[c].wrote /\ got'[c] = got[c],
         \A c \in Conns :
           DownOver(c)' => \/ DownOver(c)
                           \/ cut'[c] # {} \/ Cancelled'
                           \/ target'[c].closed /\ got[c] = target[c].wrote
  PROVE  DownPipe!Next
  <1>1. got' = got
    BY DEF Typed, EndpointsOK
  <1>2. [c \in Conns |-> target'[c].wrote] = [c \in Conns |-> target[c].wrote]
    OBVIOUS
  <1>3. \A c \in Conns : target[c].closed \in BOOLEAN /\ target'[c].closed \in BOOLEAN
    BY DEF Typed, EndpointsOK, Targets
  <1>4. DownPipe!Turn([c \in Conns |-> target[c].closed])
    BY <1>3 DEF DownPipe!Turn, Onward
  <1>5. DownPipe!Turn([c \in Conns |-> down[c] = "eof" \/ vconn[c] = "closed"])
    BY DEF DownPipe!Turn, Onward
  <1>6. DownPipe!Turn([c \in Conns |-> cut[c] # {} \/ Cancelled])
    BY DEF DownPipe!Turn, Onward
  <1>7. DownPipe!Close
    BY <1>1, <1>2, <1>4, <1>5, <1>6 DEF DownPipe!Close, DownPipe!Complete, DownOver
  <1> QED BY <1>7 DEF DownPipe!Next

LEMMA UpTurns ==
  ASSUME Typed, Typed', \A c \in Conns : Onward(c),
         \A c \in Conns : target'[c].got = target[c].got /\ sent'[c] = sent[c],
         \A c \in Conns :
           done'[c] => \/ done[c]
                       \/ cut'[c] \ {"user"} # {} \/ Cancelled' \/ target'[c].closed
                       \/ vconn'[c] = "closed" /\ target[c].got = sent[c]
  PROVE  UpPipe!Next
  <1>1. sent' = sent
    BY DEF Typed, EndpointsOK
  <1>2. [c \in Conns |-> target'[c].got] = [c \in Conns |-> target[c].got]
    OBVIOUS
  <1>3. /\ done \in [Conns -> BOOLEAN] /\ done' \in [Conns -> BOOLEAN]
        /\ \A c \in Conns : target[c].closed \in BOOLEAN /\ target'[c].closed \in BOOLEAN
    BY DEF Typed, EndpointsOK, Targets
  <1>4. UpPipe!Turn([c \in Conns |-> vconn[c] = "closed"])
    BY DEF UpPipe!Turn, Onward
  <1>5. UpPipe!Turn(done)
    BY <1>3 DEF UpPipe!Turn, Onward
  <1>6. UpPipe!Turn([c \in Conns |-> cut[c] \ {"user"} # {} \/ Cancelled \/ target[c].closed])
    BY <1>3 DEF UpPipe!Turn, Onward
  <1>7. UpPipe!Close
    BY <1>1, <1>2, <1>4, <1>5, <1>6 DEF UpPipe!Close, UpPipe!Complete
  <1> QED BY <1>7 DEF UpPipe!Next

\* In a whole pipe to the user whose RxChan is closed and empty, the user has
\* all that the target wrote.
LEMMA DownComplete ==
  ASSUME Typed, NEW c \in Conns, PipesOK(c), DownWhole(c),
         Near(c).rx = 0, Near(c).rxEnd
  PROVE  target[c].closed /\ got[c] = target[c].wrote
  <1>1. /\ ToNear(c) \in Seq(Envelopes) /\ LowDown(c) \in Int /\ HighDown(c) \in Int
        /\ target[c] \in Targets /\ got[c] \in Nat
    BY LocalTypes DEF ValuesOK
  <1>2. Far(c).reg = "tomb" /\ ToNear(c) = <<>>
    BY DEF PipesOK, EndsOK, RxEnds
  <1>3. Far(c).closed /\ Far(c).buf = 0
    BY <1>2 DEF PipesOK, EndsOK, Last
  <1>4. Finished(c)
    BY <1>3 DEF PipesOK, EndsOK, DownEnds
  <1>5. LowDown(c) = HighDown(c)
    <2>1. Between(ToNear(c), LowDown(c), HighDown(c), DownWhole(c))
      BY DEF PipesOK, FlowsOK
    <2>2. DownWhole(c) \in BOOLEAN
      BY DEF DownWhole
    <2> QED BY <1>1, <1>2, <2>1, <2>2, BetweenBounds
  <1>6. target[c].read \in Nat /\ target[c].wrote \in Nat
    BY <1>1 DEF Targets
  <1> QED BY <1>1, <1>3, <1>4, <1>5, <1>6 DEF LowDown, HighDown, Loaded, Finished

LEMMA UpComplete ==
  ASSUME Typed, NEW c \in Conns, PipesOK(c), UpWhole(c),
         Far(c).rx = 0, Far(c).rxEnd
  PROVE  vconn[c] = "closed" /\ target[c].got = sent[c]
  <1>1. /\ ToFar(c) \in Seq(Envelopes) /\ LowUp(c) \in Int /\ HighUp(c) \in Int
        /\ target[c] \in Targets /\ sent[c] \in Nat
    BY LocalTypes DEF ValuesOK
  <1>2. Near(c).reg = "tomb" /\ ToFar(c) = <<>>
    BY DEF PipesOK, EndsOK, RxEnds, UpEnds, Ending
  <1>3. Near(c).closed /\ Near(c).buf = 0
    BY <1>2 DEF PipesOK, EndsOK, Last
  <1>4. vconn[c] = "closed"
    BY <1>3 DEF PipesOK, EndsOK, UpEnds
  <1>5. LowUp(c) = HighUp(c)
    <2>1. Between(ToFar(c), LowUp(c), HighUp(c), UpWhole(c))
      BY DEF PipesOK, FlowsOK
    <2>2. UpWhole(c) \in BOOLEAN
      BY DEF UpWhole
    <2> QED BY <1>1, <1>2, <2>1, <2>2, BetweenBounds
  <1>6. target[c].got \in Nat
    BY <1>1 DEF Targets
  <1> QED BY <1>1, <1>3, <1>4, <1>5, <1>6 DEF LowUp, HighUp

\* What is in RxChan was written.
LEMMA DownBound ==
  ASSUME Typed, NEW c \in Conns, PipesOK(c), Near(c).rx > 0
  PROVE  got[c] < target[c].wrote
  <1>1. /\ ToNear(c) \in Seq(Envelopes) /\ LowDown(c) \in Int /\ HighDown(c) \in Int
        /\ target[c] \in Targets /\ got[c] \in Nat /\ Near(c) \in Session /\ Far(c) \in Session
        /\ DownWhole(c) \in BOOLEAN
    BY LocalTypes DEF ValuesOK
  <1>2. /\ target[c].read \in Nat /\ target[c].wrote \in Nat
        /\ Near(c).rx \in Nat /\ Far(c).buf \in Nat /\ got[c] \in Nat
    BY <1>1 DEF Targets, Session
  <1>3. LowDown(c) <= HighDown(c) /\ target[c].read <= target[c].wrote
    BY <1>1, BetweenBounds DEF PipesOK, FlowsOK
  <1>4. Loaded(c) \in Int /\ Loaded(c) <= target[c].read
    BY <1>2 DEF Loaded
  <1>5. got[c] + Near(c).rx <= Loaded(c) - Far(c).buf
    BY <1>3 DEF LowDown, HighDown
  <1>6. got[c] + Near(c).rx <= target[c].read
    BY <1>2, <1>4, <1>5
  <1>7. got[c] + Near(c).rx <= target[c].wrote
    BY <1>2, <1>3, <1>6
  <1> QED BY <1>2, <1>7

LEMMA UpBound ==
  ASSUME Typed, NEW c \in Conns, PipesOK(c), Far(c).rx > 0
  PROVE  target[c].got < sent[c]
  <1>1. /\ ToFar(c) \in Seq(Envelopes) /\ LowUp(c) \in Int /\ HighUp(c) \in Int
        /\ target[c] \in Targets /\ sent[c] \in Nat /\ Near(c) \in Session /\ Far(c) \in Session
        /\ UpWhole(c) \in BOOLEAN
    BY LocalTypes DEF ValuesOK
  <1>2. target[c].got \in Nat /\ Far(c).rx \in Nat /\ Near(c).buf \in Nat
    BY <1>1 DEF Targets, Session
  <1>3. LowUp(c) <= HighUp(c)
    BY <1>1, BetweenBounds DEF PipesOK, FlowsOK
  <1> QED BY <1>1, <1>2, <1>3 DEF LowUp, HighUp

\* A step inside one connection.
LEMMA DownTurnsIn ==
  ASSUME Typed, Typed', \A d \in Conns : Onward(d), NEW c \in Conns, OnlyIn(c),
         target'[c].wrote = target[c].wrote, got'[c] = got[c],
         DownOver(c)' => \/ DownOver(c)
                         \/ cut'[c] # {} \/ Cancelled'
                         \/ target'[c].closed /\ got[c] = target[c].wrote
  PROVE  DownPipe!Next
  <1>1. ASSUME NEW d \in Conns
        PROVE  /\ target'[d].wrote = target[d].wrote /\ got'[d] = got[d]
               /\ DownOver(d)' => \/ DownOver(d)
                                  \/ cut'[d] # {} \/ Cancelled'
                                  \/ target'[d].closed /\ got[d] = target[d].wrote
    BY DEF OnlyIn, View, DownOver
  <1> QED BY <1>1, DownTurns

LEMMA UpTurnsIn ==
  ASSUME Typed, Typed', \A d \in Conns : Onward(d), NEW c \in Conns, OnlyIn(c),
         target'[c].got = target[c].got, sent'[c] = sent[c],
         done'[c] => \/ done[c]
                     \/ cut'[c] \ {"user"} # {} \/ Cancelled' \/ target'[c].closed
                     \/ vconn'[c] = "closed" /\ target[c].got = sent[c]
  PROVE  UpPipe!Next
  <1>1. ASSUME NEW d \in Conns
        PROVE  /\ target'[d].got = target[d].got /\ sent'[d] = sent[d]
               /\ done'[d] => \/ done[d]
                              \/ cut'[d] \ {"user"} # {} \/ Cancelled' \/ target'[d].closed
                              \/ vconn'[d] = "closed" /\ target[d].got = sent[d]
    BY DEF OnlyIn, View
  <1> QED BY <1>1, UpTurns

LEMMA ClientRefines ==
  ASSUME Typed, Typed', \A d \in Conns : Onward(d), NEW c \in Conns, OnlyIn(c), PipesOK(c),
         Dial(c) \/ Write(c) \/ UserFin(c) \/ UserGone(c) \/ ClientStep(c)
  PROVE  DownPipe!Next /\ UpPipe!Next
  <1>1. target' = target /\ done' = done
    BY DEF Dial, Write, UserFin, UserGone, ClientStep, Return, ReturnEnd, Close, server
  <1>2. UpPipe!Next
    <2>1. CASE sent' = sent
      BY <2>1, <1>1, UpTurnsIn
    <2>2. CASE sent' # sent
      <3>1. Write(c) /\ sent' = [sent EXCEPT ![c] = @ + 1] /\ UNCHANGED <<vconn, phase, cut>>
        BY <2>2 DEF Dial, Write, UserFin, UserGone, ClientStep, Return, ReturnEnd, Close
      <3>2. vconn[c] = "open"
        BY <3>1 DEF Write
      <3>3. UpPipe!Write(c)
        BY <3>1, <3>2, <1>1 DEF UpPipe!Write, Cancelled
      <3> QED BY <3>3 DEF UpPipe!Next
    <2> QED BY <2>1, <2>2
  <1>3. DownPipe!Next
    <2>1. CASE Dial(c)
      <3>1. got' = got /\ down' = down /\ vconn'[c] # "closed"
        BY <2>1 DEF Dial, Typed, EndpointsOK
      <3> QED BY <3>1, <1>1, DownTurnsIn DEF DownOver
    <2>2. CASE Write(c) \/ UserFin(c) \/ UserGone(c)
      <3>1. UNCHANGED <<got, down, vconn>>
        BY <2>2 DEF Write, UserFin, UserGone
      <3> QED BY <3>1, <1>1, DownTurnsIn DEF DownOver
    <2>3. CASE Return(c)
      <3>1. vconn[c] = "open" /\ down[c] = "run" /\ Near(c).rx > 0 /\ UNCHANGED <<vconn, phase, cut>>
        BY <2>3 DEF Return, Near
      <3>2. CASE user[c] = "gone"
        <4>1. got' = got /\ down'[c] = "err"
          BY <2>3, <3>2 DEF Return, Typed, EndpointsOK
        <4> QED BY <4>1, <3>1, <1>1, DownTurnsIn DEF DownOver
      <3>3. CASE user[c] # "gone"
        <4>1. got' = [got EXCEPT ![c] = @ + 1] /\ down' = down
          BY <2>3, <3>3 DEF Return
        <4>2. got[c] < target[c].wrote
          BY <3>1, DownBound
        <4>3. DownPipe!Deliver(c)
          BY <4>1, <4>2, <3>1, <1>1 DEF DownPipe!Deliver, Cancelled
        <4> QED BY <4>3 DEF DownPipe!Next
      <3> QED BY <3>2, <3>3
    <2>4. CASE ReturnEnd(c)
      <3>1. /\ vconn[c] = "open" /\ down[c] = "run" /\ Near(c).rx = 0 /\ Near(c).rxEnd
            /\ UNCHANGED <<got, phase, cut>>
        BY <2>4 DEF ReturnEnd, Near
      <3>2. CASE DownWhole(c)
        <4>1. target[c].closed /\ got[c] = target[c].wrote
          BY <3>1, <3>2, DownComplete
        <4> QED BY <4>1, <3>1, <1>1, DownTurnsIn
      <3>3. CASE ~DownWhole(c)
        <4>1. cut'[c] # {} \/ Cancelled'
          BY <3>1, <3>3 DEF DownWhole, Cancelled
        <4> QED BY <4>1, <3>1, <1>1, DownTurnsIn
      <3> QED BY <3>2, <3>3
    <2>5. CASE Close(c)
      <3>1. RelayOver(c) /\ UNCHANGED <<got, cut>>
        BY <2>5 DEF Close
      <3>2. up[c] = "err" \/ down[c] = "err" \/ down[c] = "eof"
        BY <3>1 DEF RelayOver
      <3>3. cut[c] # {} \/ DownOver(c)
        BY <3>2 DEF PipesOK, EndsOK, Excused, DownOver
      <3> QED BY <3>1, <3>3, <1>1, DownTurnsIn
    <2> QED BY <2>1, <2>2, <2>3, <2>4, <2>5 DEF ClientStep
  <1> QED BY <1>2, <1>3

LEMMA ServerRefines ==
  ASSUME Typed, Typed', \A d \in Conns : Onward(d), NEW c \in Conns, OnlyIn(c), PipesOK(c),
         HandlerStep(c) \/ ReaderStep(c) \/ WriterStep(c)
  PROVE  DownPipe!Next /\ UpPipe!Next
  <1>1. UNCHANGED <<vconn, down, sent, got, phase>>
    BY DEF HandlerStep, ReaderStep, WriterStep, DialTarget, DialFails, HandlerWakes,
           CloseSession, HandlerDone, Read, Enqueue, ReadEnd, StopReader,
           Deliver, DeliverEnd, StopWriter, client
  <1>2. target[c] \in Targets
    BY LocalTypes DEF ValuesOK
  <1>3. \/ target' = target
        \/ Read(c) /\ target' = [target EXCEPT ![c].read = @ + 1]
        \/ Deliver(c) /\ ~done[c] /\ target' = [target EXCEPT ![c].got = @ + 1] /\ UNCHANGED <<done, cut>>
    BY DEF HandlerStep, ReaderStep, WriterStep, DialTarget, DialFails, HandlerWakes,
           CloseSession, HandlerDone, Read, Enqueue, ReadEnd, StopReader,
           Deliver, DeliverEnd, StopWriter
  <1>4. target'[c].wrote = target[c].wrote
    <2>1. target \in [Conns -> Targets]
      BY DEF Typed, EndpointsOK
    <2> QED BY <1>2, <1>3, <2>1 DEF Targets
  <1>5. DownPipe!Next
    BY <1>1, <1>4, DownTurnsIn DEF DownOver
  <1>6. CASE /\ Deliver(c) /\ ~done[c]
             /\ target' = [target EXCEPT ![c].got = @ + 1]
             /\ UNCHANGED <<done, cut>>
    <2>1. target[c].got < sent[c]
      <3>1. Far(c).rx > 0
        BY <1>6 DEF Deliver, Far
      <3> QED BY <3>1, UpBound
    <2>2. target \in [Conns -> Targets]
      BY DEF Typed, EndpointsOK
    <2>3. ASSUME NEW d \in Conns
          PROVE  /\ target'[d].got = IF d = c THEN target[c].got + 1 ELSE target[d].got
                 /\ target'[d].closed = target[d].closed
      <3>1. target'[d] = IF d = c THEN [target[c] EXCEPT !.got = @ + 1] ELSE target[d]
        BY <1>6, <2>2
      <3>2. /\ [target[c] EXCEPT !.got = @ + 1].got = target[c].got + 1
            /\ [target[c] EXCEPT !.got = @ + 1].closed = target[c].closed
        BY <1>2 DEF Targets
      <3> QED BY <3>1, <3>2
    <2>4. [d \in Conns |-> target'[d].got]
            = [[d \in Conns |-> target[d].got] EXCEPT ![c] = @ + 1]
      BY <2>3
    <2>5. [d \in Conns |-> cut'[d] \ {"user"} # {} \/ Cancelled' \/ target'[d].closed]
            = [d \in Conns |-> cut[d] \ {"user"} # {} \/ Cancelled \/ target[d].closed]
      BY <1>1, <1>6, <2>3 DEF Cancelled
    <2>6. UpPipe!Deliver(c)
      BY <1>1, <1>6, <2>1, <2>4, <2>5 DEF UpPipe!Deliver
    <2> QED BY <1>5, <2>6 DEF UpPipe!Next
  <1>7. CASE target' = target \/ (Read(c) /\ target' = [target EXCEPT ![c].read = @ + 1])
    <2>1. target'[c].got = target[c].got
      <3>1. target \in [Conns -> Targets]
        BY DEF Typed, EndpointsOK
      <3> QED BY <1>2, <1>7, <3>1 DEF Targets
    <2>2. done'[c] => \/ done[c]
                      \/ cut'[c] \ {"user"} # {} \/ Cancelled' \/ target'[c].closed
                      \/ vconn'[c] = "closed" /\ target[c].got = sent[c]
      <3>1. CASE done' = done
        BY <3>1
      <3>2. CASE HandlerWakes(c) \/ StopReader(c) \/ StopWriter(c)
        BY <3>2 DEF HandlerWakes, StopReader, StopWriter, Cancelled
      <3>3. CASE Enqueue(c) /\ Cut(c, "late")
        <4>1. "late" \in cut'[c] \ {"user"}
          BY <3>3 DEF Cut, Typed, EndpointsOK
        <4> QED BY <4>1
      <3>4. CASE ReadEnd(c)
        BY <3>4 DEF ReadEnd
      <3>5. CASE Deliver(c) /\ ~done[c] /\ Cut(c, "target")
        <4>1. "target" \in cut'[c] \ {"user"}
          BY <3>5 DEF Cut, Typed, EndpointsOK
        <4> QED BY <4>1
      <3>6. CASE DeliverEnd(c)
        <4>1. Far(c).rx = 0 /\ Far(c).rxEnd /\ UNCHANGED <<cut, target>>
          BY <3>6 DEF DeliverEnd, Far
        <4>2. CASE UpWhole(c)
          BY <4>1, <4>2, <1>1, UpComplete
        <4>3. CASE ~UpWhole(c)
          BY <4>1, <4>3, <1>1 DEF UpWhole, Cancelled
        <4> QED BY <4>2, <4>3
      <3>7. CASE done[c]
        BY <3>7
      <3>8. \/ done' = done \/ done[c]
            \/ HandlerWakes(c) \/ StopReader(c) \/ StopWriter(c)
            \/ ReadEnd(c) \/ DeliverEnd(c)
            \/ Enqueue(c) /\ Cut(c, "late")
            \/ Deliver(c) /\ ~done[c] /\ Cut(c, "target")
        BY DEF HandlerStep, ReaderStep, WriterStep, DialTarget, DialFails,
               CloseSession, HandlerDone, Read, Enqueue, Deliver
      <3> QED BY <3>1, <3>2, <3>3, <3>4, <3>5, <3>6, <3>7, <3>8
    <2> QED BY <1>1, <1>5, <2>1, <2>2, UpTurnsIn
  <1> QED BY <1>3, <1>6, <1>7

LEMMA TargetRefines ==
  ASSUME Typed, Typed', \A d \in Conns : Onward(d), NEW c \in Conns, OnlyIn(c),
         TargetWrites(c) \/ TargetCloses(c)
  PROVE  DownPipe!Next /\ UpPipe!Next
  <1>1. UNCHANGED <<vconn, down, sent, got, phase, cut, done>> /\ ~target[c].closed
    BY DEF TargetWrites, TargetCloses, client
  <1>2. target[c] \in Targets /\ target \in [Conns -> Targets]
    BY DEF Typed, EndpointsOK
  <1>3. CASE TargetWrites(c)
    <2>1. ASSUME NEW d \in Conns
          PROVE  /\ target'[d].wrote = IF d = c THEN target[c].wrote + 1 ELSE target[d].wrote
                 /\ target'[d].got = target[d].got
                 /\ target'[d].closed = target[d].closed
      <3>1. target'[d] = IF d = c THEN [target[c] EXCEPT !.wrote = @ + 1] ELSE target[d]
        BY <1>2, <1>3 DEF TargetWrites
      <3>2. /\ [target[c] EXCEPT !.wrote = @ + 1].wrote = target[c].wrote + 1
            /\ [target[c] EXCEPT !.wrote = @ + 1].got = target[c].got
            /\ [target[c] EXCEPT !.wrote = @ + 1].closed = target[c].closed
        BY <1>2 DEF Targets
      <3> QED BY <3>1, <3>2
    <2>2. [d \in Conns |-> target'[d].wrote]
            = [[d \in Conns |-> target[d].wrote] EXCEPT ![c] = @ + 1]
      BY <2>1
    <2>3. [d \in Conns |-> target'[d].closed] = [d \in Conns |-> target[d].closed]
      BY <2>1
    <2>4. DownPipe!Write(c)
      BY <1>1, <2>2, <2>3 DEF DownPipe!Write, Cancelled
    <2>5. UpPipe!Next
      BY <1>1, <2>1, UpTurnsIn
    <2> QED BY <2>4, <2>5 DEF DownPipe!Next
  <1>4. CASE TargetCloses(c)
    <2>1. target'[c] = [target[c] EXCEPT !.closed = TRUE]
      BY <1>2, <1>4 DEF TargetCloses
    <2>2. target'[c].wrote = target[c].wrote /\ target'[c].got = target[c].got
      BY <2>1, <1>2 DEF Targets
    <2> QED BY <1>1, <2>2, DownTurnsIn, UpTurnsIn DEF DownOver
  <1> QED BY <1>3, <1>4
\* Steps that do not belong to one connection, and arrivals.
LEMMA OtherRefines ==
  ASSUME Typed, Typed', \A d \in Conns : Onward(d),
         \/ \E x \in Sides, Q \in SUBSET Conns : Flush(x, Q)
         \/ \E y \in Sides, c \in Conns : Arrive(y, c)
         \/ Signal \/ Wait \/ Stop
         \/ UNCHANGED vars
  PROVE  DownPipe!Next /\ UpPipe!Next
  <1>1. UNCHANGED <<target, got, sent, down, vconn, done>>
    BY DEF Flush, Arrive, Signal, Wait, Stop, vars, client, server
  <1>2. DownPipe!Next
    BY <1>1, DownTurns DEF DownOver
  <1>3. UpPipe!Next
    BY <1>1, UpTurns
  <1> QED BY <1>2, <1>3

LEMMA NextRefines ==
  ASSUME PipesInv, Typed', [Next]_vars
  PROVE  DownPipe!Next /\ UpPipe!Next
  <1>1. /\ Typed /\ Known
        /\ \A c \in Conns : PipesOK(c) /\ Onward(c)
    BY NextPipes DEF PipesInv
  <1>2. ASSUME NEW c \in Conns, Dial(c) \/ Write(c) \/ UserFin(c) \/ UserGone(c) \/ ClientStep(c)
        PROVE  DownPipe!Next /\ UpPipe!Next
    <2>1. OnlyIn(c)
      BY <1>1, <1>2, DialPipes, WritePipes, UserPipes, ReturnPipes, ClosePipes DEF ClientStep
    <2> QED BY <1>1, <1>2, <2>1, ClientRefines
  <1>3. ASSUME NEW c \in Conns, HandlerStep(c) \/ ReaderStep(c) \/ WriterStep(c)
        PROVE  DownPipe!Next /\ UpPipe!Next
    <2>1. OnlyIn(c)
      BY <1>1, <1>3, HandlerPipes, ReaderPipes, EnqueuePipes, WriterPipes DEF ReaderStep
    <2> QED BY <1>1, <1>3, <2>1, ServerRefines
  <1>4. ASSUME NEW c \in Conns, TargetWrites(c) \/ TargetCloses(c)
        PROVE  DownPipe!Next /\ UpPipe!Next
    <2>1. OnlyIn(c)
      BY <1>1, <1>4, ReaderPipes
    <2> QED BY <1>1, <1>4, <2>1, TargetRefines
  <1>5. ASSUME \/ \E x \in Sides, Q \in SUBSET Conns : Flush(x, Q)
               \/ \E y \in Sides, c \in Conns : Arrive(y, c)
               \/ Signal \/ Wait \/ Stop
               \/ UNCHANGED vars
        PROVE  DownPipe!Next /\ UpPipe!Next
    BY <1>1, <1>5, OtherRefines
  <1> QED BY <1>2, <1>3, <1>4, <1>5 DEF Next

LEMMA InitRefines == Init => DownPipe!Init /\ UpPipe!Init
  <1> SUFFICES ASSUME Init PROVE DownPipe!Init /\ UpPipe!Init
    OBVIOUS
  <1>1. ASSUME NEW c \in Conns
        PROVE  /\ target[c].wrote = 0 /\ target[c].got = 0 /\ target[c].closed = FALSE
               /\ (down[c] = "eof" \/ vconn[c] = "closed") = FALSE
               /\ (cut[c] # {} \/ Cancelled) = FALSE
               /\ (cut[c] \ {"user"} # {} \/ Cancelled \/ target[c].closed) = FALSE
               /\ (vconn[c] = "closed") = FALSE
    BY DEF Init, Cancelled
  <1>2. DownPipe!Init
    BY <1>1 DEF DownPipe!Init, Init
  <1>3. UpPipe!Init
    BY <1>1 DEF UpPipe!Init, Init
  <1> QED BY <1>2, <1>3

\* A connection is a pipe in either direction, for any number of connections,
\* of bytes and of troubles and any size of a chunk: the user and the target
\* receive only what was written, and the end of the stream behind all of it,
\* unless one of Causes or the server's shutdown broke the connection.
THEOREM ConnectionsArePipes == Spec => ImplementsPipes
  <1>1. Init => PipesInv
    BY InitIInv, InitEndpoints, InitPipes DEF PipesInv, Typed, IInv
  <1>2. Spec => [](IInv /\ EndpointsOK)
    BY InvariantsAlways
  <1>3. IInv /\ EndpointsOK => Typed /\ Known
    BY DEF IInv, Typed
  <1>4. (IInv /\ EndpointsOK)' => Typed' /\ Known'
    BY <1>3, PTL
  <1>5. PipesInv /\ (IInv /\ EndpointsOK)' /\ [Next]_vars => PipesInv'
    <2> SUFFICES ASSUME PipesInv, (IInv /\ EndpointsOK)', [Next]_vars PROVE PipesInv'
      OBVIOUS
    <2>1. Typed' /\ Known'
      BY <1>4
    <2>2. \A c \in Conns : PipesOK(c)'
      BY <2>1, NextPipes DEF PipesInv
    <2> QED BY <2>1, <2>2 DEF PipesInv
  <1>6. Init => DownPipe!Init /\ UpPipe!Init
    BY InitRefines
  <1>7. PipesInv /\ (IInv /\ EndpointsOK)' /\ [Next]_vars
          => [DownPipe!Next]_(DownPipe!vars) /\ [UpPipe!Next]_(UpPipe!vars)
    BY <1>4, NextRefines
  <1> QED BY <1>1, <1>2, <1>5, <1>6, <1>7, PTL DEF Spec, ImplementsPipes, DownPipe!Spec, UpPipe!Spec
=============================================================================
