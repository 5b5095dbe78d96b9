------------------------------- MODULE Tunnel -------------------------------
(***************************************************************************)
(* A TCP connection through the tunnel, from the SOCKS5 user to the target *)
(* and back (internal/transport/conn.go and socks5.go, cmd/flowdav/main.go *)
(* handleServerConn and runServer, with the session life cycle of          *)
(* session.go and engine.go): who closes what, in which order, and what    *)
(* still arrives.                                                          *)
(*                                                                         *)
(* Sessions are taken as SessionRx and SessionTx show them while no two    *)
(* calls of ProcessRx overlap: envelopes arrive in order, a write that     *)
(* waits for room is one that was not made yet, RxChan does not overflow.  *)
(* A flush pass and the upload of its files are one step.  The client runs *)
(* on; the server may be stopped.  Bytes are counted: Stream has their     *)
(* order.                                                                  *)
(***************************************************************************)
EXTENDS Integers, Sequences, FiniteSets

CONSTANTS
  Conns,
  MaxConns,     \* capacity of connLimit
  UserBytes,    \* bound: bytes the user writes
  TargetBytes,  \* bound: bytes the target writes
  Chunk,        \* bytes an envelope takes
  MaxTroubles   \* bound: connections that are silent for IdleTimeout, and the
                \* server's termination signal

ASSUME TunnelAssumption ==
  /\ MaxConns \in Nat
  /\ UserBytes \in Nat /\ TargetBytes \in Nat
  /\ Chunk \in Nat \ {0}
  /\ MaxTroubles \in Nat

Sides == {"client", "server"}
Peer(x) == CHOOSE y \in Sides : y # x

VARIABLES
  user,     \* the SOCKS5 user's end of its TCP connection
  vconn,    \* the VirtualConn; while it is open it holds a place in connLimit
  up,       \* go-socks5's copy from the user to the VirtualConn
  down,     \* and back
  sess,     \* sess[x][c]: the Session of c on side x
  net,      \* net[x][c]: envelopes from x that the other side has not seen
  handler,  \* where handleServerConn stands
  reader,   \* its goroutine that reads from the target
  writer,   \* its goroutine that writes to the target
  done,     \* closeConn was called: done is closed, the connection too, and
            \* errCh holds an error unless the context is cancelled
  target,   \* the target: what it wrote, what of it was read, what it
            \* received, and whether it closed
  phase,    \* runServer
  sent,     \* history: bytes the VirtualConn took from the user
  got,      \* history: bytes the user received
  cut       \* history: what went wrong with a connection

client  == <<user, vconn, up, down, sent, got>>
server  == <<handler, reader, writer, done, target>>
session == <<sess, net>>
vars    == <<client, server, session, phase, cut>>

\* The reasons that end a connection early.  "late": a write refused because
\* the peer's Close closed this side for writing too.
Causes == {"idle", "dial", "user", "target", "late"}

NewSession == [reg |-> "none", closed |-> FALSE, fresh |-> TRUE,
               buf |-> 0, rx |-> 0, rxEnd |-> FALSE]

Init ==
  /\ user = [c \in Conns |-> "none"]
  /\ vconn = [c \in Conns |-> "none"]
  /\ up = [c \in Conns |-> "run"]
  /\ down = [c \in Conns |-> "run"]
  /\ sess = [x \in Sides |-> [c \in Conns |-> NewSession]]
  /\ net = [x \in Sides |-> [c \in Conns |-> <<>>]]
  /\ handler = [c \in Conns |-> "none"]
  /\ reader = [c \in Conns |-> "none"]
  /\ writer = [c \in Conns |-> "none"]
  /\ done = [c \in Conns |-> FALSE]
  /\ target = [c \in Conns |-> [wrote |-> 0, read |-> 0, got |-> 0, closed |-> FALSE]]
  /\ phase = "run"
  /\ sent = [c \in Conns |-> 0]
  /\ got = [c \in Conns |-> 0]
  /\ cut = [c \in Conns |-> {}]

Cut(c, cause) == cut' = [cut EXCEPT ![c] = @ \cup {cause}]

\* closeConn.
Hangup(c) == done' = [done EXCEPT ![c] = TRUE]

Cancelled == phase # "run"

Troubles == Cardinality({c \in Conns : "idle" \in cut[c]}) + IF Cancelled THEN 1 ELSE 0

-----------------------------------------------------------------------------
(* The client: go-socks5 and VirtualConn.                                   *)

Open == {c \in Conns : vconn[c] = "open"}

\* WithDial: a place in connLimit or an error.  The ping of EnqueueTx(nil) is
\* the empty first envelope that a client's session sends in any case.
Dial(c) ==
  /\ user[c] = "none"
  /\ IF Cardinality(Open) < MaxConns
     THEN /\ user' = [user EXCEPT ![c] = "open"]
          /\ vconn' = [vconn EXCEPT ![c] = "open"]
          /\ sess' = [sess EXCEPT !["client"][c].reg = "live"]
     ELSE /\ user' = [user EXCEPT ![c] = "gone"]
          /\ vconn' = [vconn EXCEPT ![c] = "refused"]
          /\ UNCHANGED sess
  /\ UNCHANGED <<up, down, sent, got, server, net, phase, cut>>

\* VirtualConn.Write refuses when the session is closed.
Write(c) ==
  /\ vconn[c] = "open" /\ user[c] = "open" /\ up[c] = "run"
  /\ sent[c] < UserBytes
  /\ IF sess["client"][c].closed
     THEN /\ up' = [up EXCEPT ![c] = "err"]
          /\ Cut(c, "late")
          /\ UNCHANGED <<sess, sent>>
     ELSE /\ sess' = [sess EXCEPT !["client"][c].buf = @ + 1]
          /\ sent' = [sent EXCEPT ![c] = @ + 1]
          /\ UNCHANGED <<up, cut>>
  /\ UNCHANGED <<user, vconn, down, got, server, net, phase>>

\* The user closes its writing side: io.Copy ends, and VirtualConn has no
\* CloseWrite to pass it on.
UserFin(c) ==
  /\ vconn[c] = "open" /\ user[c] = "open"
  /\ user' = [user EXCEPT ![c] = "fin"]
  /\ up' = [up EXCEPT ![c] = IF @ = "run" THEN "eof" ELSE @]
  /\ UNCHANGED <<vconn, down, sent, got, server, session, phase, cut>>

\* The user resets its connection: io.Copy ends with an error, unless it ended
\* with the user's end of stream before.
UserGone(c) ==
  /\ vconn[c] = "open" /\ user[c] \in {"open", "fin"}
  /\ user' = [user EXCEPT ![c] = "gone"]
  /\ up' = [up EXCEPT ![c] = IF @ = "run" THEN "err" ELSE @]
  /\ Cut(c, "user")
  /\ UNCHANGED <<vconn, down, sent, got, server, session, phase>>

\* VirtualConn.Read and the write to the user.
Return(c) ==
  /\ vconn[c] = "open" /\ down[c] = "run"
  /\ sess["client"][c].rx > 0
  /\ sess' = [sess EXCEPT !["client"][c].rx = @ - 1]
  /\ IF user[c] = "gone"
     THEN down' = [down EXCEPT ![c] = "err"] /\ UNCHANGED got
     ELSE got' = [got EXCEPT ![c] = @ + 1] /\ UNCHANGED down
  /\ UNCHANGED <<user, vconn, up, sent, server, net, phase, cut>>

\* RxChan is closed and empty: the user's end of stream.
ReturnEnd(c) ==
  /\ vconn[c] = "open" /\ down[c] = "run"
  /\ sess["client"][c].rx = 0 /\ sess["client"][c].rxEnd
  /\ down' = [down EXCEPT ![c] = "eof"]
  /\ UNCHANGED <<user, vconn, up, sent, got, server, session, phase, cut>>

\* go-socks5 waits for both copies, or for an error of one.
RelayOver(c) == "err" \in {up[c], down[c]} \/ {up[c], down[c]} = {"eof"}

\* VirtualConn.Close, and the user's connection with it.
Close(c) ==
  /\ vconn[c] = "open"
  /\ RelayOver(c)
  /\ vconn' = [vconn EXCEPT ![c] = "closed"]
  /\ user' = [user EXCEPT ![c] = "gone"]
  /\ sess' = [sess EXCEPT !["client"][c].closed = TRUE]
  /\ UNCHANGED <<up, down, sent, got, server, net, phase, cut>>

-----------------------------------------------------------------------------
(* Sessions, on either side.                                                *)

\* A slip: every chunk of a closed session says Close.
CloseAtOnce(s, rest) == s.closed

\* ExtractTxBatch: Close only on the final chunk.
IsFinal(s, rest) == s.closed /\ rest = 0

HasBatch(x, s) ==
  /\ s.reg = "live"
  /\ s.buf > 0 \/ s.closed \/ (x = "client" /\ s.fresh)

\* A slip: every envelope takes a whole chunk.
WholeChunk(s) == Chunk

Taken(s) == IF s.buf > Chunk THEN Chunk ELSE s.buf

Envelope(s) == [n |-> Taken(s), close |-> IsFinal(s, s.buf - Taken(s))]

Extracted(s) ==
  [s EXCEPT !.buf = @ - Taken(s), !.fresh = FALSE,
            !.reg = IF Envelope(s).close THEN "tomb" ELSE @]

\* Drain flushes as long as a buffer is not empty.
Pending == \E c \in Conns : sess["server"][c].reg = "live" /\ sess["server"][c].buf > 0

\* flushLoop ends with the context, Drain flushes after serverWg.Wait.
Flushing(x) ==
  x = "server" /\ Cancelled => phase = "waited" /\ Pending

\* flushAll.  A session in Q has been silent for IdleTimeout: it is closed,
\* which nobody who waits for RxChan or readWake hears of.
Flush(x, Q) ==
  LET quiet(c) == [sess[x][c] EXCEPT !.closed = @ \/ c \in Q]
      sends    == {c \in Conns : HasBatch(x, quiet(c))}
  IN /\ Flushing(x)
     /\ \A c \in Q : sess[x][c].reg = "live" /\ ~sess[x][c].closed
     /\ Q # {} => Troubles + Cardinality(Q) <= MaxTroubles
     /\ sends # {}
     /\ sess' = [sess EXCEPT ![x] =
                   [c \in Conns |-> IF c \in sends THEN Extracted(quiet(c)) ELSE quiet(c)]]
     /\ net' = [net EXCEPT ![x] =
                   [c \in Conns |-> IF c \in sends THEN Append(net[x][c], Envelope(quiet(c)))
                                                   ELSE net[x][c]]]
     /\ cut' = [c \in Conns |-> IF c \in Q THEN cut[c] \cup {"idle"} ELSE cut[c]]
     /\ UNCHANGED <<client, server, phase>>

\* A slip: Close ends the writing side and nobody closes RxChan.
ReceivedWithoutEnd(s, e) ==
  IF s.rxEnd THEN s ELSE [s EXCEPT !.rx = @ + e.n, !.closed = @ \/ e.close]

\* ProcessRx of an envelope in turn.
Received(s, e) ==
  IF s.rxEnd THEN s
  ELSE [s EXCEPT !.rx = @ + e.n, !.rxEnd = e.close, !.closed = @ \/ e.close]

\* An envelope reaches its session; a tombstone drops it; a server creates the
\* session and starts a handler, also when it is being shut down.
Arrive(y, c) ==
  LET s == sess[y][c]
      q == net[Peer(y)][c]
  IN /\ q # <<>>
     /\ y = "server" => phase # "stopped"
     /\ net' = [net EXCEPT ![Peer(y)][c] = Tail(q)]
     /\ sess' = [sess EXCEPT ![y][c] =
                   IF s.reg = "tomb" THEN s
                   ELSE [Received(s, Head(q)) EXCEPT !.reg = "live"]]
     /\ handler' = IF y = "server" /\ s.reg = "none"
                   THEN [handler EXCEPT ![c] = "dial"] ELSE handler
     /\ UNCHANGED <<client, reader, writer, done, target, phase, cut>>

-----------------------------------------------------------------------------
(* The server's handler and its two goroutines.                             *)

\* DialContext fails on a cancelled context.
DialTarget(c) ==
  /\ handler[c] = "dial"
  /\ ~Cancelled
  /\ handler' = [handler EXCEPT ![c] = "run"]
  /\ reader' = [reader EXCEPT ![c] = "run"]
  /\ writer' = [writer EXCEPT ![c] = "run"]
  /\ UNCHANGED <<client, done, target, session, phase, cut>>

DialFails(c) ==
  /\ handler[c] = "dial"
  /\ handler' = [handler EXCEPT ![c] = "ending"]
  /\ Cut(c, "dial")
  /\ UNCHANGED <<client, reader, writer, done, target, session, phase>>

\* The target writes, or closes its connection.
TargetWrites(c) ==
  /\ reader[c] # "none" /\ ~target[c].closed
  /\ target[c].wrote < TargetBytes
  /\ target' = [target EXCEPT ![c].wrote = @ + 1]
  /\ UNCHANGED <<client, handler, reader, writer, done, session, phase, cut>>

TargetCloses(c) ==
  /\ reader[c] # "none" /\ ~target[c].closed
  /\ target' = [target EXCEPT ![c].closed = TRUE]
  /\ UNCHANGED <<client, handler, reader, writer, done, session, phase, cut>>

\* conn.Read.
Read(c) ==
  /\ reader[c] = "run" /\ ~done[c]
  /\ target[c].read < target[c].wrote
  /\ target' = [target EXCEPT ![c].read = @ + 1]
  /\ reader' = [reader EXCEPT ![c] = "hold"]
  /\ UNCHANGED <<client, handler, writer, done, session, phase, cut>>

\* EnqueueTxCtx looks at the context only while it waits for room.
Enqueue(c) ==
  /\ reader[c] = "hold"
  /\ IF sess["server"][c].closed
     THEN /\ reader' = [reader EXCEPT ![c] = "over"]
          /\ Hangup(c)
          /\ Cut(c, "late")
          /\ UNCHANGED sess
     ELSE /\ sess' = [sess EXCEPT !["server"][c].buf = @ + 1]
          /\ reader' = [reader EXCEPT ![c] = "run"]
          /\ UNCHANGED <<done, cut>>
  /\ UNCHANGED <<client, handler, writer, target, net, phase>>

\* The end of the target's stream, behind everything it wrote.
ReadEnd(c) ==
  /\ reader[c] = "run" /\ ~done[c]
  /\ target[c].closed /\ target[c].read = target[c].wrote
  /\ reader' = [reader EXCEPT ![c] = "over"]
  /\ Hangup(c)
  /\ UNCHANGED <<client, handler, writer, target, session, phase, cut>>

\* done is closed, or the context is cancelled.
StopReader(c) ==
  /\ reader[c] = "run"
  /\ done[c] \/ Cancelled
  /\ reader' = [reader EXCEPT ![c] = "over"]
  /\ Hangup(c)
  /\ UNCHANGED <<client, handler, writer, target, session, phase, cut>>

\* One payload of RxChan to the target.  The write fails if the reader hung up,
\* if a target that has closed answers with a reset, or if one that is open has
\* not read for the 30 s of the write deadline.  The connection ends with what
\* the target wrote and nobody read.
Deliver(c) ==
  /\ writer[c] = "run"
  /\ sess["server"][c].rx > 0
  /\ sess' = [sess EXCEPT !["server"][c].rx = @ - 1]
  /\ \/ /\ ~done[c]
        /\ target' = [target EXCEPT ![c].got = @ + 1]
        /\ UNCHANGED <<writer, done, cut>>
     \/ /\ writer' = [writer EXCEPT ![c] = "over"]
        /\ Hangup(c)
        /\ IF done[c] THEN UNCHANGED cut ELSE Cut(c, "target")
        /\ UNCHANGED target
  /\ UNCHANGED <<client, handler, reader, net, phase>>

\* RxChan is closed and empty: "session closed by remote".
DeliverEnd(c) ==
  /\ writer[c] = "run"
  /\ sess["server"][c].rx = 0 /\ sess["server"][c].rxEnd
  /\ writer' = [writer EXCEPT ![c] = "over"]
  /\ Hangup(c)
  /\ UNCHANGED <<client, handler, reader, target, session, phase, cut>>

StopWriter(c) ==
  /\ writer[c] = "run"
  /\ done[c] \/ Cancelled
  /\ writer' = [writer EXCEPT ![c] = "over"]
  /\ Hangup(c)
  /\ UNCHANGED <<client, handler, reader, target, session, phase, cut>>

HandlerWakes(c) ==
  /\ handler[c] = "run"
  /\ done[c] \/ Cancelled
  /\ handler' = [handler EXCEPT ![c] = "ending"]
  /\ Hangup(c)
  /\ UNCHANGED <<client, reader, writer, target, session, phase, cut>>

\* A slip: only the receive half is closed.
SessionLeftOpen(s) == [s EXCEPT !.rxEnd = TRUE]

\* Session.Close.
Shut(s) == [s EXCEPT !.closed = TRUE, !.rxEnd = TRUE]

\* The deferred calls: the session is closed before wg.Done.
CloseSession(c) ==
  /\ handler[c] = "ending"
  /\ handler' = [handler EXCEPT ![c] = "closed"]
  /\ sess' = [sess EXCEPT !["server"][c] = Shut(@)]
  /\ UNCHANGED <<client, reader, writer, done, target, net, phase, cut>>

HandlerDone(c) ==
  /\ handler[c] = "closed"
  /\ handler' = [handler EXCEPT ![c] = "done"]
  /\ UNCHANGED <<client, reader, writer, done, target, session, phase, cut>>

-----------------------------------------------------------------------------
(* runServer.                                                               *)

Signal ==
  /\ phase = "run"
  /\ Troubles < MaxTroubles
  /\ phase' = "cancelled"
  /\ UNCHANGED <<client, server, session, cut>>

\* serverWg.Wait.
Wait ==
  /\ phase = "cancelled"
  /\ \A c \in Conns : handler[c] \in {"none", "done"}
  /\ phase' = "waited"
  /\ UNCHANGED <<client, server, session, cut>>

\* Drain returns, and Stop.
Stop ==
  /\ phase = "waited"
  /\ ~Pending
  /\ phase' = "stopped"
  /\ UNCHANGED <<client, server, session, cut>>

ClientStep(c) == Return(c) \/ ReturnEnd(c) \/ Close(c)

HandlerStep(c) ==
  \/ DialTarget(c) \/ DialFails(c) \/ HandlerWakes(c)
  \/ CloseSession(c) \/ HandlerDone(c)

ReaderStep(c) == Read(c) \/ Enqueue(c) \/ ReadEnd(c) \/ StopReader(c)
WriterStep(c) == Deliver(c) \/ DeliverEnd(c) \/ StopWriter(c)

Next ==
  \/ \E c \in Conns : Dial(c) \/ Write(c) \/ UserFin(c) \/ UserGone(c)
  \/ \E c \in Conns : ClientStep(c)
  \/ \E x \in Sides, Q \in SUBSET Conns : Flush(x, Q)
  \/ \E y \in Sides, c \in Conns : Arrive(y, c)
  \/ \E c \in Conns : HandlerStep(c) \/ ReaderStep(c) \/ WriterStep(c)
  \/ \E c \in Conns : TargetWrites(c) \/ TargetCloses(c)
  \/ Signal \/ Wait \/ Stop

Spec == Init /\ [][Next]_vars

\* Goroutines run, the flush timer fires and files arrive.  The user, the
\* target, silence and the signal are free.
Fairness ==
  /\ \A c \in Conns :
       /\ WF_vars(ClientStep(c))
       /\ WF_vars(HandlerStep(c))
       /\ WF_vars(ReaderStep(c))
       /\ WF_vars(WriterStep(c))
       /\ \A y \in Sides : WF_vars(Arrive(y, c))
  /\ \A x \in Sides : WF_vars(Flush(x, {}))
  /\ WF_vars(Wait) /\ WF_vars(Stop)

LiveSpec == Spec /\ Fairness

-----------------------------------------------------------------------------
(* Properties.                                                              *)

Session == [reg : {"none", "live", "tomb"}, closed : BOOLEAN, fresh : BOOLEAN,
            buf : Nat, rx : Nat, rxEnd : BOOLEAN]

TypeOK ==
  /\ user \in [Conns -> {"none", "open", "fin", "gone"}]
  /\ vconn \in [Conns -> {"none", "open", "closed", "refused"}]
  /\ {up, down} \subseteq [Conns -> {"run", "eof", "err"}]
  /\ sess \in [Sides -> [Conns -> Session]]
  /\ net \in [Sides -> [Conns -> Seq([n : Nat, close : BOOLEAN])]]
  /\ handler \in [Conns -> {"none", "dial", "run", "ending", "closed", "done"}]
  /\ reader \in [Conns -> {"none", "run", "hold", "over"}]
  /\ writer \in [Conns -> {"none", "run", "over"}]
  /\ done \in [Conns -> BOOLEAN]
  /\ target \in [Conns -> [wrote : Nat, read : Nat, got : Nat, closed : BOOLEAN]]
  /\ phase \in {"run", "cancelled", "waited", "stopped"}
  /\ {sent, got} \subseteq [Conns -> Nat]
  /\ cut \in [Conns -> SUBSET Causes]

\* From the target to the user: the user's end of stream comes behind all the
\* target wrote before it closed, unless something of Causes happened or the
\* server was stopped.  A user that closed its own writing side is no excuse.
DownPipe == INSTANCE Pipe WITH
  written   <- [c \in Conns |-> target[c].wrote],
  finished  <- [c \in Conns |-> target[c].closed],
  delivered <- got,
  ended     <- [c \in Conns |-> down[c] = "eof" \/ vconn[c] = "closed"],
  broken    <- [c \in Conns |-> cut[c] # {} \/ Cancelled]

\* From the user to the target: whatever VirtualConn.Write took reaches the
\* target before its connection is closed, also when the user resets its own,
\* unless the target closed first, or a cause other than the user's reset.
UpPipe == INSTANCE Pipe WITH
  written   <- sent,
  finished  <- [c \in Conns |-> vconn[c] = "closed"],
  delivered <- [c \in Conns |-> target[c].got],
  ended     <- done,
  broken    <- [c \in Conns |-> cut[c] \ {"user"} # {} \/ Cancelled \/ target[c].closed]

ImplementsPipes == DownPipe!Spec /\ UpPipe!Spec

\* Once serverWg.Wait returned, no goroutine of a connection adds to a buffer:
\* Drain looks at the buffers of sessions that grow no more, so what it sees
\* empty stays empty until Stop.  The goroutines outlive their handler; only
\* that session.Close comes before wg.Done keeps them out.
BuffersStill ==
  phase \in {"waited", "stopped"} =>
    \A c \in Conns : sess["server"][c].buf' <= sess["server"][c].buf

BuffersStillAfterWait == [][BuffersStill]_vars

\* A connection that its user and its target have left gives its place in
\* connLimit back, and serverWg.Wait returns.  What makes exceptions of the
\* idle timeout and of the server's shutdown is shown by the run tunnel_idle.
PlacesComeBack ==
  \A c \in Conns :
    (vconn[c] = "open" /\ user[c] \in {"fin", "gone"} /\ target[c].closed)
      ~> (vconn[c] = "closed" \/ "idle" \in cut[c] \/ Cancelled)

WaitReturns == phase = "cancelled" ~> phase # "cancelled"

ConnsEnd == PlacesComeBack /\ WaitReturns

\* After the idle timeout closed the session the connection ends: its user
\* gets its place back when it closes its side.
IdleEndsConnection ==
  \A c \in Conns :
    ("idle" \in cut[c] /\ user[c] \in {"fin", "gone"}) ~> vconn[c] # "open"
=============================================================================
