------------------------------ MODULE SessionRx ------------------------------
(***************************************************************************)
(* The receive half of a transport Session (internal/transport/session.go):*)
(* download workers call ProcessRx with envelopes in whatever order their  *)
(* files arrive, payloads go to the buffered channel RxChan, and the       *)
(* channel is closed by a worker that meets a Close envelope or by a       *)
(* goroutine that calls Session.Close.                                     *)
(*                                                                         *)
(* An envelope is its sequence number: what it carries is fixed by the     *)
(* constants Size, Closing and Home.  A payload is identified with the     *)
(* sequence number of its envelope and is Size[n] bytes long.  RxChan is   *)
(* the immutable queue `log' with the read position `taken': what is in    *)
(* the channel is log[taken+1 .. Len(log)].                                *)
(***************************************************************************)
EXTENDS Integers, Sequences, FiniteSets

CONSTANTS
  Workers,          \* download workers (pool.go) that may hold this session
  Closers,          \* goroutines that call Session.Close
  Last,             \* sequence number of the peer's last envelope
  MaxPayload,       \* the longest payload an envelope carries, in bytes
  Size,             \* Size[n]: bytes of envelope n's payload
  Closing,          \* envelopes with the Close flag
  Backends,         \* backend indices
  Home,             \* Home[n]: BackendIdx carried by envelope n
  Copies,           \* bound: how often one envelope may be handed to ProcessRx
  MaxRxQueueSize,   \* bound on the items of rxQueue
  MaxRxQueueBytes,  \* bound on the bytes of rxQueue
  RxChanSize,       \* capacity of RxChan
  ReaderStalls      \* whether the reader may leave RxChan full for 30 seconds

Seqs  == 0..Last
Procs == Workers \cup Closers

\* Envelopes without payload (the opening ping, a bare Close).
Empty == {n \in Seqs : Size[n] = 0}

ASSUME RxAssumption ==
  /\ Workers \cap Closers = {}
  /\ Last \in Nat
  /\ Closing \subseteq Seqs
  /\ Home \in [Seqs -> Backends]
  /\ Copies \in Nat
  /\ MaxRxQueueSize \in Nat
  /\ MaxRxQueueBytes \in Nat \ {0}
  /\ RxChanSize \in Nat \ {0}
  /\ ReaderStalls \in BOOLEAN

ASSUME SizeAssumption ==
  /\ MaxPayload \in Nat
  /\ Size \in [Seqs -> 0..MaxPayload]

\* No payload travels behind a Close: SessionTx!CloseIsFinal of the peer.
ASSUME NothingBehindClose == \A c \in Closing : \A n \in Seqs \ Empty : n <= c

VARIABLES
  rxSeq,         \* next sequence number to deliver
  rxQueue,       \* envelopes that arrived ahead of rxSeq
  rxQueueBytes,  \* the code's running total of the payload bytes in rxQueue
  closed,        \* Session.closed: no more writes
  rxClosed,      \* Session.rxClosed: further envelopes are ignored
  rxDone,        \* the channel rxDone is closed
  rxChanClosed,  \* RxChan is closed
  log,           \* every payload that entered RxChan, in order
  taken,         \* how many of them the reader has received
  eof,           \* the reader has seen RxChan closed
  backendIdx,    \* Session.BackendIdx
  pc,            \* where each worker and closer stands
  sending,       \* sending[w]: payloads ProcessRx collected and has not sent
  closing,       \* closing[w]: the local variable closeChannel of ProcessRx
  arrivals,      \* arrivals[n]: how often envelope n has been handed over
  stalled,       \* payloads dropped by the 30 second timer
  raced          \* history: a worker took an envelope in turn while another
                 \* still held payloads it had not sent

state == <<rxSeq, rxQueue, rxQueueBytes, closed, rxClosed, backendIdx>>
chan  == <<rxDone, rxChanClosed, log>>
reader == <<taken, eof>>
history == <<arrivals, stalled, raced>>
vars  == <<state, chan, reader, pc, sending, closing, history>>

Init ==
  /\ rxSeq = 0
  /\ rxQueue = {}
  /\ rxQueueBytes = 0
  /\ closed = FALSE
  /\ rxClosed = FALSE
  /\ rxDone = FALSE
  /\ rxChanClosed = FALSE
  /\ log = <<>>
  /\ taken = 0
  /\ eof = FALSE
  /\ backendIdx \in Backends
  /\ pc = [p \in Procs |-> "idle"]
  /\ sending = [w \in Workers |-> {}]
  /\ closing = [w \in Workers |-> FALSE]
  /\ arrivals = [n \in Seqs |-> 0]
  /\ stalled = {}
  /\ raced = FALSE

-----------------------------------------------------------------------------
(* ProcessRx, the part under s.mu: one action per branch.                   *)

\* A download worker takes a copy of envelope n out of a file.
Arrive(w, n) ==
  /\ pc[w] = "idle"
  /\ arrivals[n] < Copies
  /\ arrivals' = [arrivals EXCEPT ![n] = @ + 1]

\* Early return on rxClosed; a sequence number already passed has no branch.
RxIgnored(w, n) ==
  /\ Arrive(w, n)
  /\ rxClosed \/ n < rxSeq
  /\ UNCHANGED <<state, chan, reader, pc, sending, closing, stalled, raced>>

\* A slip: a copy of an envelope already passed is taken again.
InTurnOrPassed(n) == n <= rxSeq

\* A slip: an envelope ahead of its turn is taken at once.
InTurnOrAhead(n) == n >= rxSeq

InTurn(n) == n = rxSeq

\* The drain loop started at `first' stops at `next': at a gap, or behind an
\* envelope with the Close flag.
DrainsTo(first, next) ==
  /\ first..(next - 1) \subseteq rxQueue
  /\ \A k \in first..(next - 2) : k \notin Closing
  /\ next \notin rxQueue \/ (next > first /\ next - 1 \in Closing)

\* The payload bytes of the envelopes in Q, each byte by its place.
Bytes(Q) == UNION {{n} \X (1..Size[n]) : n \in Q}

ByteCount(Q) == Cardinality(Bytes(Q))

\* The envelope in turn, and every queued one that follows it without a gap.
\* A Close on the envelope itself does not stop the drain.
RxNext(w, n) ==
  /\ Arrive(w, n)
  /\ ~rxClosed
  /\ InTurn(n)
  /\ \E next \in (n + 1)..(Last + 1) :
       LET run    == (n + 1)..(next - 1)
           closes == n \in Closing \/ (run # {} /\ next - 1 \in Closing)
       IN  /\ DrainsTo(n + 1, next)
           /\ rxSeq' = next
           /\ rxQueue' = rxQueue \ run
           /\ rxQueueBytes' = rxQueueBytes - ByteCount(run)
           /\ sending' = [sending EXCEPT ![w] = (n..(next - 1)) \ Empty]
           /\ closing' = [closing EXCEPT ![w] = closes]
           /\ rxClosed' = closes
           /\ closed' = (closed \/ closes)
  /\ backendIdx' = IF n = 0 THEN Home[n] ELSE backendIdx
  /\ pc' = [pc EXCEPT ![w] = "send"]
  /\ raced' = (raced \/ \E v \in Workers \ {w} : sending[v] # {})
  /\ UNCHANGED <<chan, reader, stalled>>

\* A slip: the limits are tested with > and let one envelope too many in.
QueueFullOffByOne == \/ Cardinality(rxQueue) > MaxRxQueueSize
                     \/ rxQueueBytes > MaxRxQueueBytes

QueueFull == \/ Cardinality(rxQueue) >= MaxRxQueueSize
             \/ rxQueueBytes >= MaxRxQueueBytes

\* An envelope ahead of its turn.  The limits are tested before its payload is
\* counted; a copy of one already queued replaces it and is counted again.
RxQueued(w, n) ==
  /\ Arrive(w, n)
  /\ ~rxClosed
  /\ n > rxSeq
  /\ ~QueueFull
  /\ rxQueue' = rxQueue \cup {n}
  /\ rxQueueBytes' = rxQueueBytes + Size[n]
  /\ UNCHANGED <<rxSeq, closed, rxClosed, backendIdx, chan, reader, pc,
                 sending, closing, stalled, raced>>

RxDropped(w, n) ==
  /\ Arrive(w, n)
  /\ ~rxClosed
  /\ n > rxSeq
  /\ QueueFull
  /\ UNCHANGED <<state, chan, reader, pc, sending, closing, stalled, raced>>

ProcessRx(w, n) ==
  \/ RxIgnored(w, n)
  \/ RxNext(w, n)
  \/ RxQueued(w, n)
  \/ RxDropped(w, n)

-----------------------------------------------------------------------------
(* ProcessRx, the send loop outside s.mu.  A worker in "select" holds the   *)
(* read lock rxSendMu; a process in "drain" is blocked in rxSendMu.Lock,    *)
(* which keeps new readers out.                                             *)

\* ProcessRx returns from the loop without reaching its last statement.
Return(w) ==
  /\ pc' = [pc EXCEPT ![w] = "idle"]
  /\ sending' = [sending EXCEPT ![w] = {}]
  /\ closing' = [closing EXCEPT ![w] = FALSE]

LockWanted == \E p \in Procs : pc[p] = "drain"

\* rxSendMu.RLock and the first, non-blocking look at rxDone.
BeginSend(w) ==
  /\ pc[w] = "send"
  /\ sending[w] # {}
  /\ ~LockWanted
  /\ IF rxDone THEN Return(w)
               ELSE /\ pc' = [pc EXCEPT ![w] = "select"]
                    /\ UNCHANGED <<sending, closing>>
  /\ UNCHANGED <<state, chan, reader, history>>

\* A slip: the collected payloads are sent from the last to the first.
IsLast(w, n) == n \in sending[w] /\ \A m \in sending[w] : n >= m

\* The payload the loop has come to: payloads are sent in sequence order.
IsCurrent(w, n) == n \in sending[w] /\ \A m \in sending[w] : n <= m

InChan == Len(log) - taken

\* select: RxChan has room.
SendPayload(w) ==
  /\ pc[w] = "select"
  /\ InChan < RxChanSize
  /\ \E n \in Seqs :
       /\ IsCurrent(w, n)
       /\ log' = Append(log, n)
       /\ sending' = [sending EXCEPT ![w] = @ \ {n}]
  /\ pc' = [pc EXCEPT ![w] = "send"]
  /\ UNCHANGED <<state, rxDone, rxChanClosed, reader, closing, history>>

\* select: rxDone was closed while the worker waited.
AbandonSend(w) ==
  /\ pc[w] = "select"
  /\ rxDone
  /\ Return(w)
  /\ UNCHANGED <<state, chan, reader, history>>

\* A slip: the loop is left instead of going on with the next payload.
StallBreak(w) ==
  /\ ReaderStalls
  /\ pc[w] = "select"
  /\ InChan >= RxChanSize
  /\ Return(w)
  /\ UNCHANGED <<state, chan, reader, history>>

\* select: the channel stayed full for 30 seconds; the loop goes on with the
\* next payload.
StallDrop(w) ==
  /\ ReaderStalls
  /\ pc[w] = "select"
  /\ InChan >= RxChanSize
  /\ \E n \in Seqs :
       /\ IsCurrent(w, n)
       /\ stalled' = stalled \cup {n}
       /\ sending' = [sending EXCEPT ![w] = @ \ {n}]
  /\ pc' = [pc EXCEPT ![w] = "send"]
  /\ UNCHANGED <<state, chan, reader, closing, arrivals, raced>>

\* A slip: a Close that comes with nothing left to send does not end RxChan.
EndSendIdle(w) ==
  /\ pc[w] = "send"
  /\ sending[w] = {}
  /\ Return(w)
  /\ UNCHANGED <<state, chan, reader, history>>

EndSend(w) ==
  /\ pc[w] = "send"
  /\ sending[w] = {}
  /\ pc' = [pc EXCEPT ![w] = IF closing[w] THEN "closeRx" ELSE "idle"]
  /\ UNCHANGED <<state, chan, reader, sending, closing, history>>

-----------------------------------------------------------------------------
(* Session.Close and closeRx.                                               *)

Close(c) ==
  /\ pc[c] = "idle"
  /\ closed' = TRUE
  /\ rxClosed' = TRUE
  /\ pc' = [pc EXCEPT ![c] = "closeRx"]
  /\ UNCHANGED <<rxSeq, rxQueue, rxQueueBytes, backendIdx, chan, reader,
                 sending, closing, history>>

\* A slip: the lock is taken without telling the blocked senders first.
SkipDone(p) ==
  /\ pc[p] = "closeRx"
  /\ pc' = [pc EXCEPT ![p] = "lock"]
  /\ UNCHANGED <<state, chan, reader, sending, closing, history>>

\* rxDoneOnce.Do(close(rxDone))
SignalDone(p) ==
  /\ pc[p] = "closeRx"
  /\ rxDone' = TRUE
  /\ pc' = [pc EXCEPT ![p] = "lock"]
  /\ UNCHANGED <<state, rxChanClosed, log, reader, sending, closing, history>>

\* rxSendMu.Lock is called: new readers are held back from here on.
RequestLock(p) ==
  /\ pc[p] = "lock"
  /\ pc' = [pc EXCEPT ![p] = "drain"]
  /\ UNCHANGED <<state, chan, reader, sending, closing, history>>

\* A slip: RxChan is closed without the lock.
WithoutLock == TRUE

NoSenderHoldsLock == \A w \in Workers : pc[w] # "select"

\* The lock is granted once no sender holds the read lock; RxChan is closed.
CloseChan(p) ==
  /\ pc[p] = "drain"
  /\ NoSenderHoldsLock
  /\ rxChanClosed' = TRUE
  /\ pc' = [pc EXCEPT ![p] = IF p \in Workers THEN "idle" ELSE "done"]
  /\ closing' = [w \in Workers |-> IF w = p THEN FALSE ELSE closing[w]]
  /\ UNCHANGED <<state, rxDone, log, reader, sending, history>>

-----------------------------------------------------------------------------
(* The reader of RxChan: the target writer goroutine of the server, or      *)
(* VirtualConn.Read on the client.                                          *)

\* A slip: an empty channel is read.
ReadEmpty ==
  /\ InChan >= 0
  /\ taken' = taken + 1
  /\ UNCHANGED <<state, chan, eof, pc, sending, closing, history>>

Read ==
  /\ InChan > 0
  /\ taken' = taken + 1
  /\ UNCHANGED <<state, chan, eof, pc, sending, closing, history>>

ReadEOF ==
  /\ InChan = 0
  /\ rxChanClosed
  /\ ~eof
  /\ eof' = TRUE
  /\ UNCHANGED <<state, chan, taken, pc, sending, closing, history>>

-----------------------------------------------------------------------------
CloseRxStep(p) == SignalDone(p) \/ RequestLock(p) \/ CloseChan(p)

SendStep(w) == \/ BeginSend(w)
               \/ SendPayload(w)
               \/ AbandonSend(w)
               \/ StallDrop(w)
               \/ EndSend(w)

Next ==
  \/ \E w \in Workers, n \in Seqs : ProcessRx(w, n)
  \/ \E w \in Workers : SendStep(w)
  \/ \E c \in Closers : Close(c)
  \/ \E p \in Procs : CloseRxStep(p)
  \/ Read
  \/ ReadEOF

Spec == Init /\ [][Next]_vars

\* Goroutines inside ProcessRx or closeRx are scheduled; nothing obliges a
\* file to arrive, an application to read or a handler to call Close, and no
\* property leans on the stall timer.
Fairness ==
  /\ \A w \in Workers :
       WF_vars(BeginSend(w) \/ SendPayload(w) \/ AbandonSend(w) \/ EndSend(w))
  /\ \A p \in Procs : WF_vars(CloseRxStep(p))

LiveSpec == Spec /\ Fairness

-----------------------------------------------------------------------------
PCs == {"idle", "send", "select", "closeRx", "lock", "drain", "done"}

TypeOK ==
  /\ rxSeq \in 0..(Last + 1)
  /\ rxQueue \subseteq Seqs
  /\ rxQueueBytes \in Int
  /\ closed \in BOOLEAN
  /\ rxClosed \in BOOLEAN
  /\ rxDone \in BOOLEAN
  /\ rxChanClosed \in BOOLEAN
  /\ log \in Seq(Seqs)
  /\ taken \in 0..Len(log)
  /\ eof \in BOOLEAN
  /\ backendIdx \in Backends
  /\ pc \in [Procs -> PCs]
  /\ sending \in [Workers -> SUBSET Seqs]
  /\ closing \in [Workers -> BOOLEAN]
  /\ arrivals \in [Seqs -> 0..Copies]
  /\ stalled \subseteq Seqs
  /\ raced \in BOOLEAN

Sent == {log[i] : i \in 1..Len(log)}

\* A worker inside the select never faces a closed RxChan (a Go panic that
\* takes the process down), however Close envelopes and Session.Close race.
NoSendOnClosedChannel ==
  \A w \in Workers : pc[w] = "select" => ~rxChanClosed

\* A payload reaches RxChan at most once, whatever copies of its file are
\* downloaded and however the workers interleave.
AtMostOnce ==
  /\ \A i, j \in 1..Len(log) : i # j => log[i] # log[j]
  /\ \A w \in Workers : sending[w] \cap Sent = {}
  /\ \A v, w \in Workers : v # w => sending[v] \cap sending[w] = {}

\* As long as the session is not being torn down, a payload whose sequence
\* number was passed is in the channel's history, in the hands of a worker, or
\* was dropped by the stall timer: the drain loop skips none.
NothingSkipped ==
  ~rxDone => \A n \in 0..(rxSeq - 1) \ Empty :
               n \in Sent \cup stalled \cup UNION {sending[w] : w \in Workers}

\* The envelope the session waits for is never one it already holds: a gap
\* that is filled releases everything behind it.
NeverWaitsForQueued == ~rxClosed => \A n \in rxQueue : n > rxSeq

\* The queue holds no more envelopes than its limit.  Its bytes are counted
\* after the test, so it may pass the byte limit, but by less than one payload:
\* the running total never falls behind the bytes the queue really holds,
\* although replaced copies and drained runs move it by different amounts.
QueueBounded ==
  /\ Cardinality(rxQueue) <= MaxRxQueueSize
  /\ ByteCount(rxQueue) <= rxQueueBytes
  /\ rxQueueBytes < MaxRxQueueBytes + MaxPayload

QueueSound == NeverWaitsForQueued /\ QueueBounded

\* "total payload bytes in rxQueue" (session.go:47): what the limit is tested
\* against is what the queue holds.
TotalIsExact == rxQueueBytes = ByteCount(rxQueue)

\* Payloads enter RxChan in sequence order.
InOrder == \A i, j \in 1..Len(log) : i < j => log[i] < log[j]

\* Only one thing reorders RxChan: a worker that takes envelopes while another
\* has not sent all of its own.  Copies, gaps, the drain of the queue, the
\* stall timer and the ways to close never do, however many workers serve the
\* session one after the other.
OnlyRacesReorder == raced \/ InOrder

\* Session.Close returns, also while senders are blocked on a full RxChan that
\* nobody reads.
CloseReturns == \A c \in Closers : pc[c] = "closeRx" ~> pc[c] = "done"

\* A session that stopped accepting envelopes closes RxChan, by whichever path
\* it was closed (Close envelope in turn, Close envelope out of the queue,
\* Session.Close), unless its reader has left RxChan full.
ClosedEndsStream == rxClosed ~> rxChanClosed \/ InChan = RxChanSize

-----------------------------------------------------------------------------
(* What the receive half promises its reader, as an abstract stream.        *)

Promise == INSTANCE Stream WITH
  data      <- Seqs \ Empty,
  delivered <- SubSeq(log, 1, taken),
  disturbed <- raced \/ stalled # {},
  aborted   <- \E c \in Closers : pc[c] # "idle",
  ended     <- eof

\* Until two workers overlap or the stall timer drops a payload, the reader
\* gets a prefix of what the peer sent, in order and without gaps, and the end
\* of the stream after all of it unless this side closed first.  Whatever
\* happens, it gets no payload twice and nothing behind the end.
ImplementsStream == Promise!Spec
=============================================================================
