------------------------------ MODULE SessionTx ------------------------------
(***************************************************************************)
(* The transmit half of a transport Session (internal/transport/session.go)*)
(* with its users: writers block in EnqueueTxCtx while the buffer is over  *)
(* its limit, flushAll (engine.go) extracts one batch per pass, wakes the  *)
(* writers, hands the batch to the upload queue and removes a session whose*)
(* Close went out.  flushAll runs on two goroutines at shutdown (flushLoop *)
(* and Drain), so there may be several flushers.                           *)
(*                                                                         *)
(* Bytes have no identity here: appends and extractions both happen under  *)
(* s.mu at the two ends of one buffer, so a length says which bytes it is. *)
(* A channel is a generation number: txWait is the current one and `fired' *)
(* the set of those that are closed.                                       *)
(***************************************************************************)
EXTENDS Integers, Sequences

CONSTANTS
  Writers,      \* goroutines that call EnqueueTxCtx
  Flushers,     \* goroutines that run flushAll
  Closers,      \* goroutines that call VirtualConn.Close or Session.Close
  Limit,        \* backpressure limit of txBuf (2 MB)
  Chunk,        \* maxPayloadChunk()
  Sizes,        \* sizes of the writes
  Writes,       \* bound: writes per writer
  IsClient,     \* the side that opens the session with a ping
  MayCancel     \* whether the context is cancelled (shutdown)

Wakers == Flushers \cup Closers
Procs  == Writers \cup Wakers

ASSUME TxAssumption ==
  /\ Writers \cap Wakers = {}
  /\ Flushers \cap Closers = {}
  /\ Limit \in Nat
  /\ Chunk \in Nat \ {0}
  /\ Sizes \subseteq 0..Limit
  /\ Writes \in Nat
  /\ IsClient \in BOOLEAN
  /\ MayCancel \in BOOLEAN

VARIABLES
  txLen,       \* len(txBuf)
  txSeq,       \* next sequence number to send
  closed,      \* Session.closed
  txWait,      \* generation of the channel txWait
  fired,       \* generations whose channel is closed
  registered,  \* the session is in Engine.sessions
  cancelled,   \* the context is cancelled
  batches,     \* batches[i]: what was extracted with sequence number i - 1
  handed,      \* sequence numbers handed to the upload queue
  pc,          \* where each goroutine stands
  want,        \* want[w]: size of the write in progress
  waitCh,      \* waitCh[w]: generation the writer waits for
  old,         \* old[p]: generation the waker swapped out and has to close
  batch,       \* batch[f]: sequence number the flusher holds
  todo         \* todo[w]: writes left

buffer == <<txLen, txSeq, closed, batches>>
waits  == <<txWait, fired, old>>
engine == <<registered, cancelled, handed>>
vars   == <<buffer, waits, engine, pc, want, waitCh, batch, todo>>

Init ==
  /\ txLen = 0
  /\ txSeq = 0
  /\ closed = FALSE
  /\ txWait = 0
  /\ fired = {}
  /\ registered = TRUE
  /\ cancelled = FALSE
  /\ batches = <<>>
  /\ handed = {}
  /\ pc = [p \in Procs |-> "idle"]
  /\ want = [w \in Writers |-> 0]
  /\ waitCh = [w \in Writers |-> 0]
  /\ old = [p \in Wakers |-> 0]
  /\ batch = [f \in Flushers |-> 0]
  /\ todo = [w \in Writers |-> Writes]

\* A local variable is back at 0 when it is dead.
Goto(p, label) == pc' = [pc EXCEPT ![p] = label]

-----------------------------------------------------------------------------
(* EnqueueTxCtx: every critical section of s.mu is one action.              *)

\* A slip: the limit is tested before the write is added.
OverBefore(d) == txLen > Limit

Over(d) == txLen > Limit \/ txLen + d > Limit

\* Append (and refresh lastActivity, notify the poller).
Accept(w, d) ==
  /\ ~closed
  /\ ~Over(d)
  /\ txLen' = txLen + d
  /\ Goto(w, "idle")
  /\ UNCHANGED <<txSeq, closed, batches, waitCh>>

\* io.ErrClosedPipe, or the context's error at the top of the loop.
Refuse(w, d) ==
  /\ closed \/ (Over(d) /\ cancelled)
  /\ Goto(w, "idle")
  /\ UNCHANGED <<buffer, waitCh>>

\* Take the current channel and leave the critical section.
Block(w, d) ==
  /\ ~closed
  /\ Over(d)
  /\ ~cancelled
  /\ waitCh' = [waitCh EXCEPT ![w] = txWait]
  /\ Goto(w, "wait")
  /\ UNCHANGED buffer

Attempt(w, d) == Accept(w, d) \/ Refuse(w, d) \/ Block(w, d)

Enqueue(w) ==
  /\ pc[w] = "idle"
  /\ todo[w] > 0
  /\ todo' = [todo EXCEPT ![w] = @ - 1]
  /\ \E d \in Sizes :
       /\ want' = [want EXCEPT ![w] = d]
       /\ Attempt(w, d)
  /\ UNCHANGED <<waits, engine, batch>>

\* select: the channel was closed.
Woken(w) ==
  /\ pc[w] = "wait"
  /\ waitCh[w] \in fired
  /\ waitCh' = [waitCh EXCEPT ![w] = 0]
  /\ Goto(w, "retry")
  /\ UNCHANGED <<buffer, waits, engine, want, batch, todo>>

\* select: ctx.Done.
GiveUp(w) ==
  /\ pc[w] = "wait"
  /\ cancelled
  /\ waitCh' = [waitCh EXCEPT ![w] = 0]
  /\ Goto(w, "idle")
  /\ UNCHANGED <<buffer, waits, engine, want, batch, todo>>

\* The mutex is held again: a cancelled context comes first, then the loop.
Retry(w) ==
  /\ pc[w] = "retry"
  /\ IF cancelled
       THEN /\ Goto(w, "idle")
            /\ UNCHANGED <<buffer, waitCh>>
       ELSE Attempt(w, want[w])
  /\ UNCHANGED <<waits, engine, want, batch, todo>>

-----------------------------------------------------------------------------
(* wakeupTx: swap the channel under s.mu, then close the old one.           *)

\* A slip: the new channel is closed instead of the old one.
SwapRetiresNew(p) ==
  /\ pc[p] = "swap"
  /\ old' = [old EXCEPT ![p] = txWait + 1]
  /\ txWait' = txWait + 1
  /\ Goto(p, "signal")
  /\ UNCHANGED <<buffer, fired, engine, want, waitCh, batch, todo>>

SwapWait(p) ==
  /\ pc[p] = "swap"
  /\ old' = [old EXCEPT ![p] = txWait]
  /\ txWait' = txWait + 1
  /\ Goto(p, "signal")
  /\ UNCHANGED <<buffer, fired, engine, want, waitCh, batch, todo>>

Signal(p) ==
  /\ pc[p] = "signal"
  /\ fired' = fired \cup {old[p]}
  /\ old' = [old EXCEPT ![p] = 0]
  /\ Goto(p, IF p \in Flushers THEN "upload" ELSE "done")
  /\ UNCHANGED <<buffer, txWait, engine, want, waitCh, batch, todo>>

-----------------------------------------------------------------------------
(* flushAll, as far as one session is concerned.                            *)

\* The session is in the snapshot of Engine.sessions.
Snapshot(f) ==
  /\ pc[f] = "idle"
  /\ registered
  /\ Goto(f, "extract")
  /\ UNCHANGED <<buffer, waits, engine, want, waitCh, batch, todo>>

\* A slip: the chunk is not cut to what the buffer holds.
WholeChunk == Chunk

BatchLen == IF txLen > Chunk THEN Chunk ELSE txLen

\* A slip: a closed session with an empty buffer has nothing to say.
DataOrPing(close) == txLen > 0 \/ (txSeq = 0 /\ IsClient)

HasBatch(close) == txLen > 0 \/ (txSeq = 0 /\ IsClient) \/ close

\* A slip: every chunk of a closed session carries Close.
AnyChunk(len) == TRUE

FinalChunk(len) == len = txLen

\* ExtractTxBatch: a session without activity for IdleTimeout is closed first;
\* one chunk leaves, and it carries Close when the session is closed and the
\* buffer is then empty.
Extract(f) ==
  /\ pc[f] = "extract"
  /\ \E idle \in BOOLEAN : closed' = (closed \/ idle)
  /\ IF HasBatch(closed')
       THEN /\ txLen' = txLen - BatchLen
            /\ txSeq' = txSeq + 1
            /\ batch' = [batch EXCEPT ![f] = txSeq]
            /\ batches' = Append(batches,
                 [len |-> BatchLen, close |-> closed' /\ FinalChunk(BatchLen)])
            /\ Goto(f, "swap")
       ELSE /\ Goto(f, "idle")
            /\ UNCHANGED <<txLen, txSeq, batch, batches>>
  /\ UNCHANGED <<waits, engine, want, waitCh, todo>>

\* A slip: the session counts as finished as soon as it is closed.
Closed(f) == closed

SentClose(f) == batches[batch[f] + 1].close

\* A slip: a full upload queue drops the batch.
DropBatch(f) ==
  /\ pc[f] = "upload"
  /\ batch' = [batch EXCEPT ![f] = 0]
  /\ Goto(f, "idle")
  /\ UNCHANGED <<buffer, waits, engine, want, waitCh, todo>>

\* select: the upload queue takes the job.
HandOver(f) ==
  /\ pc[f] = "upload"
  /\ handed' = handed \cup {batch[f]}
  /\ batch' = [batch EXCEPT ![f] = 0]
  /\ Goto(f, IF SentClose(f) THEN "remove" ELSE "idle")
  /\ UNCHANGED <<buffer, waits, registered, cancelled, want, waitCh, todo>>

\* select: ctx.Done, here or before the batch was encoded.  flushAll returns
\* with the batch in hand and without removing the session, and its caller,
\* who watches the same context, does not call it again.
FlushAbort(f) ==
  /\ pc[f] = "upload"
  /\ cancelled
  /\ batch' = [batch EXCEPT ![f] = 0]
  /\ Goto(f, "done")
  /\ UNCHANGED <<buffer, waits, engine, want, waitCh, todo>>

Remove(f) ==
  /\ pc[f] = "remove"
  /\ registered' = FALSE
  /\ Goto(f, "idle")
  /\ UNCHANGED <<buffer, waits, cancelled, handed, want, waitCh, batch, todo>>

-----------------------------------------------------------------------------
(* The other ways a session closes, and shutdown.                           *)

\* VirtualConn.Close, or Session.Close after its receive side: wakeupTx follows.
Close(c) ==
  /\ pc[c] = "idle"
  /\ closed' = TRUE
  /\ Goto(c, "swap")
  /\ UNCHANGED <<txLen, txSeq, batches, waits, engine, want,
                 waitCh, batch, todo>>

\* ProcessRx meets a Close envelope: it wakes nobody.
PeerClose ==
  /\ ~closed
  /\ closed' = TRUE
  /\ UNCHANGED <<txLen, txSeq, batches, waits, engine, pc, want,
                 waitCh, batch, todo>>

Cancel ==
  /\ MayCancel
  /\ ~cancelled
  /\ cancelled' = TRUE
  /\ UNCHANGED <<buffer, waits, registered, handed, pc, want, waitCh, batch, todo>>

-----------------------------------------------------------------------------
WriterStep(w) == Woken(w) \/ GiveUp(w) \/ Retry(w)

FlushStep(f) == \/ Snapshot(f)
                \/ Extract(f)
                \/ HandOver(f)
                \/ FlushAbort(f)
                \/ Remove(f)

WakeStep(p) == SwapWait(p) \/ Signal(p)

Next ==
  \/ \E w \in Writers : Enqueue(w)
  \/ \E w \in Writers : WriterStep(w)
  \/ \E f \in Flushers : FlushStep(f)
  \/ \E p \in Wakers : WakeStep(p)
  \/ \E c \in Closers : Close(c)
  \/ PeerClose
  \/ Cancel

Spec == Init /\ [][Next]_vars

\* flushLoop's ticker keeps flushing, goroutines in progress are scheduled;
\* nobody has to write, close or cancel.
Fairness == /\ \A w \in Writers : WF_vars(WriterStep(w))
            /\ \A f \in Flushers : WF_vars(FlushStep(f) \/ WakeStep(f))
            /\ \A c \in Closers : WF_vars(WakeStep(c))

LiveSpec == Spec /\ Fairness

-----------------------------------------------------------------------------
PCs == {"idle", "wait", "retry", "extract", "swap", "signal", "upload",
        "remove", "done"}

TypeOK ==
  /\ txLen \in Nat
  /\ txSeq \in Nat
  /\ closed \in BOOLEAN
  /\ txWait \in Nat
  /\ fired \subseteq Nat
  /\ registered \in BOOLEAN
  /\ cancelled \in BOOLEAN
  /\ batches \in Seq([len : Nat, close : BOOLEAN])
  /\ handed \subseteq Nat
  /\ pc \in [Procs -> PCs]
  /\ want \in [Writers -> Sizes \cup {0}]
  /\ waitCh \in [Writers -> Nat]
  /\ old \in [Wakers -> Nat]
  /\ batch \in [Flushers -> Nat]
  /\ todo \in [Writers -> 0..Writes]

\* The buffer stays within the backpressure limit.
BufferBounded == txLen <= Limit

\* Once a batch went out with the Close flag nothing can follow it: the buffer
\* is empty, it stays empty, and later batches are bare Closes.  The receiver
\* ignores everything behind a Close.
CloseIsFinal ==
  \A i \in 1..Len(batches) : batches[i].close =>
    /\ closed
    /\ txLen = 0
    /\ \A j \in i..Len(batches) : batches[j].close /\ (j > i => batches[j].len = 0)

\* Until shutdown every sequence number that was drawn is handed to the upload
\* queue or still held by a flusher: a number that vanished would leave a gap
\* the receiver waits behind for ever.
NoGapInSequence ==
  ~cancelled => \A n \in 0..(txSeq - 1) :
                  \/ n \in handed
                  \/ \E f \in Flushers : /\ batch[f] = n
                                         /\ pc[f] \in {"swap", "signal", "upload"}

\* The session leaves the engine only after its Close went to the upload queue.
RemovedAfterClose ==
  ~registered => \E n \in handed : batches[n + 1].close

\* Somebody is committed to closing the channel writer w waits for.
WakePending(w) ==
  \/ waitCh[w] \in fired
  \/ \E p \in Wakers : pc[p] = "signal" /\ old[p] = waitCh[w]
  \/ waitCh[w] = txWait /\ \E p \in Wakers : pc[p] = "swap"

\* No wakeup is lost between the check of the buffer and the wait: a writer
\* that waits although its data would fit has a waker on the way.
NoLostWakeup ==
  \A w \in Writers : pc[w] = "wait" /\ ~Over(want[w]) => WakePending(w)

\* A writer that waits on a closed session is woken by somebody on the way or
\* by the flush that the session is still registered for.
NoWriterLeftBehind ==
  \A w \in Writers : pc[w] = "wait" /\ closed => registered \/ WakePending(w)

\* How a session ends: Close is the last envelope, the session leaves after it
\* and leaves no writer waiting.
LeavesCleanly == CloseIsFinal /\ RemovedAfterClose /\ NoWriterLeftBehind

\* A blocked write returns: with its bytes queued, or with an error.
WritesReturn == \A w \in Writers : pc[w] = "wait" ~> pc[w] = "idle"

\* The peer of a closed session is told: unless shutdown intervenes, a Close is
\* handed to the upload queue.
CloseAnnounced ==
  closed ~> cancelled \/ \E n \in handed : batches[n + 1].close
=============================================================================
