------------------------------- MODULE Upload -------------------------------
(***************************************************************************)
(* The way of a session's bytes to the storage, and its shutdown           *)
(* (internal/transport/engine.go, cmd/flowdav/main.go): flushLoop and Drain*)
(* run flushAll, which extracts one envelope per session, groups them by   *)
(* backend into upload jobs and hands these to a bounded queue; a pool of  *)
(* upload workers puts them on the pinned backend or on any other one.     *)
(* Shutdown cancels the context, drains and stops, in this order.          *)
(*                                                                         *)
(* Bytes are counted in chunks of maxPayloadChunk().  A job is the set of  *)
(* its envelopes.  The waiting writers of a session are in SessionTx.      *)
(***************************************************************************)
EXTENDS Integers, Sequences, FiniteSets

CONSTANTS
  Sessions,
  Workers,     \* upload workers
  MayClose,    \* sessions that may be closed
  Writes,      \* bound: chunks written per session
  MaxSeq,      \* bound: how often a bare Close may be repeated, with the data
  QueueSize,   \* capacity of uploadJobs
  IsClient,    \* a client opens each session with a ping
  Quiet        \* no writer is left once the signal came (serverWg.Wait)

Flushers == {"loop", "drain"}

ASSUME UploadAssumption ==
  /\ IsFiniteSet(Sessions)
  /\ Workers # {}
  /\ MayClose \subseteq Sessions
  /\ Writes \in Nat
  /\ MaxSeq \in Nat /\ MaxSeq > Writes
  /\ QueueSize \in Nat \ {0}
  /\ {IsClient, Quiet} \subseteq BOOLEAN

Envelopes == Sessions \X (0..(MaxSeq - 1))

\* Why an envelope was given up: the storage refused it while the worker's
\* context lived, the worker's context was dead, or a flusher gave up its hands.
Causes == {"storage", "context", "loop", "drain"}

VARIABLES
  pending,     \* pending[s]: chunks in txBuf
  todo,        \* todo[s]: chunks still to be written
  closed,      \* closed[s]: Session.closed
  seq,         \* seq[s]: next sequence number
  registered,  \* Engine.sessions
  jobs,        \* the channel uploadJobs
  fpc,         \* where each flusher stands
  scan,        \* scan[f]: sessions flushAll has not come to
  hand,        \* hand[f]: envelopes extracted and not handed over
  ends,        \* ends[f]: sessions whose Close is among the extracted envelopes
  final,       \* flushLoop is in its last flush
  tail,        \* Drain's pendingBuf, a local variable of one tick
  wpc,         \* where each upload worker stands
  draining,    \* draining[w]: the worker is in drainUploadJobs
  job,         \* job[w]: what the worker uploads
  doomed,      \* doomed[w]: its request started with a cancelled context
  mpc,         \* where the main goroutine stands
  cancelled,   \* the engine context is cancelled
  expired,     \* Drain's own context timed out
  stopped,     \* stopCh is closed
  uploaded,    \* envelopes that reached the storage
  atStop,      \* history: envelopes queued when stopCh was closed
  lost         \* history: envelopes given up and not stored, with the cause

sess  == <<pending, todo, closed, seq>>
flush == <<fpc, scan, hand, ends, final, tail>>
work  == <<wpc, draining, job, doomed>>
main  == <<mpc, cancelled, expired, stopped, atStop>>
fate  == <<uploaded, lost>>
vars  == <<sess, registered, jobs, flush, work, main, fate>>

Init ==
  /\ pending = [s \in Sessions |-> 0]
  /\ todo = [s \in Sessions |-> Writes]
  /\ closed = [s \in Sessions |-> FALSE]
  /\ seq = [s \in Sessions |-> 0]
  /\ registered = Sessions
  /\ jobs = <<>>
  /\ fpc = [f \in Flushers |-> "idle"]
  /\ scan = [f \in Flushers |-> {}]
  /\ hand = [f \in Flushers |-> {}]
  /\ ends = [f \in Flushers |-> {}]
  /\ final = FALSE
  /\ tail = FALSE
  /\ wpc = [w \in Workers |-> "idle"]
  /\ draining = [w \in Workers |-> FALSE]
  /\ job = [w \in Workers |-> {}]
  /\ doomed = [w \in Workers |-> FALSE]
  /\ mpc = "run"
  /\ cancelled = FALSE
  /\ expired = FALSE
  /\ stopped = FALSE
  /\ uploaded = {}
  /\ atStop = {}
  /\ lost = {}

GiveUp(batch, cause) == lost' = lost \cup ((batch \ uploaded) \X {cause})

LostTo(causes) == {e \in Envelopes : \E c \in causes : <<e, c>> \in lost}

Queued == UNION {jobs[i] : i \in 1..Len(jobs)}

-----------------------------------------------------------------------------
(* The users of a session.                                                  *)

\* EnqueueTx appends a chunk.
Write(s) ==
  /\ todo[s] > 0
  /\ ~closed[s]
  /\ ~(Quiet /\ cancelled)
  /\ pending' = [pending EXCEPT ![s] = @ + 1]
  /\ todo' = [todo EXCEPT ![s] = @ - 1]
  /\ UNCHANGED <<closed, seq, registered, jobs, flush, work, main, fate>>

\* Any way a session closes; the idle check of ExtractTxBatch is one of them.
Close(s) ==
  /\ s \in MayClose
  /\ ~closed[s]
  /\ closed' = [closed EXCEPT ![s] = TRUE]
  /\ UNCHANGED <<pending, todo, seq, registered, jobs, flush, work, main,
                 fate>>

-----------------------------------------------------------------------------
(* flushAll(f).                                                             *)

\* A slip: Drain flushes with the engine's context.
EngineContext(f) == cancelled

ContextDone(f) == IF f = "loop" THEN cancelled ELSE expired

\* Copy Engine.sessions.
Snapshot(f) ==
  /\ scan' = [scan EXCEPT ![f] = registered]
  /\ fpc' = [fpc EXCEPT ![f] = "extract"]

FlushEnd(f) ==
  fpc' = [fpc EXCEPT ![f] = IF f = "loop" /\ final THEN "exited" ELSE "idle"]

\* The context is done during the server's hold delay, before any extraction.
HoldAbort(f) ==
  /\ fpc[f] = "extract"
  /\ ~IsClient
  /\ hand[f] = {}
  /\ ContextDone(f)
  /\ scan' = [scan EXCEPT ![f] = {}]
  /\ FlushEnd(f)
  /\ UNCHANGED <<sess, registered, jobs, hand, ends, final, tail, work, main,
                 fate>>

HasBatch(s) == pending[s] > 0 \/ (seq[s] = 0 /\ IsClient) \/ closed[s]

\* ExtractTxBatch for one session of the snapshot.
Extract(f, s) ==
  /\ fpc[f] = "extract"
  /\ s \in scan[f]
  /\ scan' = [scan EXCEPT ![f] = @ \ {s}]
  /\ IF HasBatch(s) /\ seq[s] < MaxSeq
       THEN /\ pending' = [pending EXCEPT ![s] = IF @ > 0 THEN @ - 1 ELSE 0]
            /\ seq' = [seq EXCEPT ![s] = @ + 1]
            /\ hand' = [hand EXCEPT ![f] = @ \cup {<<s, seq[s]>>}]
            /\ ends' = IF closed[s] /\ pending[s] <= 1
                         THEN [ends EXCEPT ![f] = @ \cup {s}] ELSE ends
       ELSE UNCHANGED <<pending, seq, hand, ends>>
  /\ UNCHANGED <<todo, closed, registered, jobs, fpc, final, tail, work,
                 main, fate>>

Encode(f) ==
  /\ fpc[f] = "extract"
  /\ scan[f] = {}
  /\ fpc' = [fpc EXCEPT ![f] = "send"]
  /\ UNCHANGED <<sess, registered, jobs, scan, hand, ends, final, tail, work,
                 main, fate>>

\* A slip: the queue has no limit.
AlwaysRoom == TRUE

Room == Len(jobs) < QueueSize

\* A slip: what does not fit into the first file is forgotten.
HandOverFirst(f) ==
  /\ fpc[f] = "send"
  /\ Room
  /\ \E file \in SUBSET hand[f] \ {{}} : jobs' = Append(jobs, file)
  /\ hand' = [hand EXCEPT ![f] = {}]
  /\ UNCHANGED <<sess, registered, fpc, scan, ends, final, tail, work, main,
                 fate>>

\* select: uploadJobs takes a file.  Which envelopes share one follows from
\* their backends and their sizes.
HandOver(f) ==
  /\ fpc[f] = "send"
  /\ Room
  /\ \E file \in SUBSET hand[f] \ {{}} :
       /\ jobs' = Append(jobs, file)
       /\ hand' = [hand EXCEPT ![f] = @ \ file]
  /\ UNCHANGED <<sess, registered, fpc, scan, ends, final, tail, work,
                 main, fate>>

\* select: ctx.Done or stopCh; what is in hand is gone.
FlushAbort(f) ==
  /\ fpc[f] = "send"
  /\ hand[f] # {}
  /\ ContextDone(f) \/ stopped
  /\ GiveUp(hand[f], f)
  /\ hand' = [hand EXCEPT ![f] = {}]
  /\ ends' = [ends EXCEPT ![f] = {}]
  /\ FlushEnd(f)
  /\ UNCHANGED <<sess, registered, jobs, scan, final, tail, work, main,
                 uploaded>>

\* RemoveSession for every session whose Close was handed over.
RemoveEnded(f) ==
  /\ fpc[f] = "send"
  /\ hand[f] = {}
  /\ registered' = registered \ ends[f]
  /\ ends' = [ends EXCEPT ![f] = {}]
  /\ FlushEnd(f)
  /\ UNCHANGED <<sess, jobs, scan, hand, final, tail, work, main, fate>>

FlushStep(f) == \/ HoldAbort(f)
                \/ \E s \in Sessions : Extract(f, s)
                \/ Encode(f)
                \/ HandOver(f)
                \/ FlushAbort(f)
                \/ RemoveEnded(f)

-----------------------------------------------------------------------------
(* flushLoop's select.                                                      *)

LoopTick ==
  /\ fpc["loop"] = "idle"
  /\ Snapshot("loop")
  /\ UNCHANGED <<sess, registered, jobs, hand, ends, final, tail, work,
                 main, fate>>

LoopStop ==
  /\ fpc["loop"] = "idle"
  /\ stopped
  /\ Snapshot("loop")
  /\ final' = TRUE
  /\ UNCHANGED <<sess, registered, jobs, hand, ends, tail, work, main,
                 fate>>

LoopExit ==
  /\ fpc["loop"] = "idle"
  /\ cancelled
  /\ fpc' = [fpc EXCEPT !["loop"] = "exited"]
  /\ UNCHANGED <<sess, registered, jobs, scan, hand, ends, final, tail,
                 work, main, fate>>

-----------------------------------------------------------------------------
(* The main goroutine: signal, cancel, Drain, Stop.                         *)

Signal ==
  /\ mpc = "run"
  /\ mpc' = "drain"
  /\ cancelled' = TRUE
  /\ UNCHANGED <<sess, registered, jobs, flush, work, expired, stopped,
                 atStop, fate>>

\* Drain's tick: look at the buffers under sessionMu ...
DrainLook ==
  /\ mpc = "drain"
  /\ fpc["drain"] = "idle"
  /\ tail' = \E s \in registered : pending[s] > 0
  /\ fpc' = [fpc EXCEPT !["drain"] = "decide"]
  /\ UNCHANGED <<sess, registered, jobs, scan, hand, ends, final, work,
                 main, fate>>

\* ... and then at the queue.
NothingToDrain == ~tail /\ jobs = <<>>

DrainFlush ==
  /\ fpc["drain"] = "decide"
  /\ ~NothingToDrain
  /\ Snapshot("drain")
  /\ tail' = FALSE
  /\ UNCHANGED <<sess, registered, jobs, hand, ends, final, work,
                 main, fate>>

Expire ==
  /\ mpc = "drain"
  /\ ~expired
  /\ expired' = TRUE
  /\ UNCHANGED <<sess, registered, jobs, flush, work, mpc, cancelled,
                 stopped, atStop, fate>>

\* Drain returns, with nil or with its context's error; Stop closes stopCh.
Stop ==
  /\ mpc = "drain"
  /\ \/ fpc["drain"] = "decide" /\ NothingToDrain
     \/ fpc["drain"] = "idle" /\ expired
  /\ mpc' = "stopping"
  /\ fpc' = [fpc EXCEPT !["drain"] = "exited"]
  /\ stopped' = TRUE
  /\ atStop' = Queued
  /\ UNCHANGED <<sess, registered, jobs, scan, hand, ends, final, tail,
                 work, cancelled, expired, fate>>

\* wg.Wait returns: flushLoop and the upload workers are gone.  It waits for
\* pollLoop and gcLoop too, and downloadPool.Stop follows; these end with the
\* context or stopCh and touch none of this state (Download has their work).
Stopped ==
  /\ mpc = "stopping"
  /\ fpc["loop"] = "exited"
  /\ \A w \in Workers : wpc[w] = "exited"
  /\ mpc' = "exited"
  /\ UNCHANGED <<sess, registered, jobs, flush, work, cancelled, expired,
                 stopped, atStop, fate>>

-----------------------------------------------------------------------------
(* uploadWorker and processUploadJob.                                       *)

\* A worker that drains has a context of its own, with a budget of 5 seconds.
ContextDead(w) == cancelled \/ draining[w]

StartsDoomed(w) == cancelled /\ ~draining[w]

\* Receive from uploadJobs, in the select or in drainUploadJobs.
Take(w) ==
  /\ wpc[w] = "idle"
  /\ jobs # <<>>
  /\ jobs' = Tail(jobs)
  /\ job' = [job EXCEPT ![w] = Head(jobs)]
  /\ wpc' = [wpc EXCEPT ![w] = "put"]
  /\ doomed' = [doomed EXCEPT ![w] = StartsDoomed(w)]
  /\ UNCHANGED <<sess, registered, flush, draining, main, fate>>

BeginDrain(w) ==
  /\ wpc[w] = "idle"
  /\ ~draining[w]
  /\ stopped
  /\ draining' = [draining EXCEPT ![w] = TRUE]
  /\ UNCHANGED <<sess, registered, jobs, flush, wpc, job, doomed, main,
                 fate>>

\* A slip: the worker leaves with the context.
LeavesEarly(w) == cancelled

\* A slip: the worker waits for uploadJobs to be closed, which nobody does.
LeavesOnClose(w) == FALSE

Leaves(w) == draining[w] /\ jobs = <<>>

ExitWorker(w) ==
  /\ wpc[w] = "idle"
  /\ Leaves(w)
  /\ wpc' = [wpc EXCEPT ![w] = "exited"]
  /\ UNCHANGED <<sess, registered, jobs, flush, draining, job, doomed,
                 main, fate>>

Done(w) ==
  /\ wpc' = [wpc EXCEPT ![w] = "idle"]
  /\ job' = [job EXCEPT ![w] = {}]
  /\ doomed' = [doomed EXCEPT ![w] = FALSE]
  /\ UNCHANGED <<sess, registered, jobs, flush, draining, main>>

\* UploadByIndex succeeds.
Put(w) ==
  /\ wpc[w] = "put"
  /\ ~doomed[w]
  /\ uploaded' = uploaded \cup job[w]
  /\ Done(w)
  /\ UNCHANGED lost

\* retryStorage gives up, after its attempts or with its context or stopCh; an
\* answer may have been lost after the file was stored.
PutFails(w) ==
  /\ wpc[w] = "put"
  /\ wpc' = [wpc EXCEPT ![w] = "fallback"]
  /\ doomed' = [doomed EXCEPT ![w] = StartsDoomed(w)]
  /\ uploaded' \in {uploaded} \cup (IF doomed[w] THEN {} ELSE {uploaded \cup job[w]})
  /\ UNCHANGED <<sess, registered, jobs, flush, draining, job, main, lost>>

\* A slip: a job that failed on its backend is given up.
NoFallback(w) ==
  /\ wpc[w] = "fallback"
  /\ Done(w)
  /\ UNCHANGED <<uploaded, lost>>

\* UploadAny succeeds; reassignSession may move the sessions of the job to
\* another backend, which changes how later envelopes are grouped.
Fallback(w) ==
  /\ wpc[w] = "fallback"
  /\ ~doomed[w]
  /\ uploaded' = uploaded \cup job[w]
  /\ Done(w)
  /\ UNCHANGED lost

\* UploadAny fails too, on the one backend it draws: the payload is dropped.
FallbackFails(w) ==
  /\ wpc[w] = "fallback"
  /\ GiveUp(job[w], IF ContextDead(w) THEN "context" ELSE "storage")
  /\ Done(w)
  /\ UNCHANGED uploaded

WorkerStep(w) == \/ Take(w)
                 \/ BeginDrain(w)
                 \/ ExitWorker(w)
                 \/ Put(w)
                 \/ PutFails(w)
                 \/ Fallback(w)
                 \/ FallbackFails(w)

-----------------------------------------------------------------------------
LoopStep == LoopTick \/ LoopStop \/ LoopExit
MainStep == DrainLook \/ DrainFlush \/ Stop \/ Stopped

Next ==
  \/ \E s \in Sessions : Write(s) \/ Close(s)
  \/ \E f \in Flushers : FlushStep(f)
  \/ LoopStep
  \/ Signal
  \/ Expire
  \/ MainStep
  \/ \E w \in Workers : WorkerStep(w)

Spec == Init /\ [][Next]_vars

\* Every goroutine runs and Drain's context times out; nobody has to write, to
\* close or to send the signal.  Strong fairness stands for Go's select: among
\* ready cases it draws at random, and a timer that is armed again after each
\* flush cannot win against stopCh or ctx.Done for ever.
Fairness ==
  /\ \A f \in Flushers : WF_vars(FlushStep(f))
  /\ WF_vars(LoopStep)
  /\ SF_vars(LoopStop \/ LoopExit)
  /\ WF_vars(MainStep)
  /\ SF_vars(Stop)
  /\ WF_vars(Expire)
  /\ \A w \in Workers : WF_vars(WorkerStep(w))

LiveSpec == Spec /\ Fairness

-----------------------------------------------------------------------------
TypeOK ==
  /\ pending \in [Sessions -> 0..Writes]
  /\ todo \in [Sessions -> 0..Writes]
  /\ closed \in [Sessions -> BOOLEAN]
  /\ seq \in [Sessions -> 0..MaxSeq]
  /\ registered \subseteq Sessions
  /\ jobs \in Seq(SUBSET Envelopes) /\ Len(jobs) <= QueueSize
  /\ fpc \in [Flushers -> {"idle", "decide", "extract", "send", "exited"}]
  /\ scan \in [Flushers -> SUBSET Sessions]
  /\ hand \in [Flushers -> SUBSET Envelopes]
  /\ ends \in [Flushers -> SUBSET Sessions]
  /\ {final, tail, cancelled, expired, stopped} \subseteq BOOLEAN
  /\ wpc \in [Workers -> {"idle", "put", "fallback", "exited"}]
  /\ draining \in [Workers -> BOOLEAN]
  /\ job \in [Workers -> SUBSET Envelopes]
  /\ doomed \in [Workers -> BOOLEAN]
  /\ mpc \in {"run", "drain", "stopping", "exited"}
  /\ uploaded \subseteq Envelopes
  /\ atStop \subseteq Envelopes
  /\ lost \subseteq Envelopes \X Causes

\* Envelopes that are stored or still on their way.
Alive == UNION ({uploaded, Queued} \cup {hand[f] : f \in Flushers}
                                   \cup {job[w] : w \in Workers})

Extracted == {e \in Envelopes : e[2] < seq[e[1]]}

\* Until the signal an envelope can get lost between ExtractTxBatch and the
\* storage in one way only: both UploadByIndex and UploadAny failed in a worker
\* with a live context.  The bytes are no longer in txBuf and nobody sends them
\* again.
NothingLostRunning ==
  ~cancelled => Extracted \subseteq Alive \cup LostTo({"storage"})

\* Upload workers outlive the cancelled context, so what Drain produces finds
\* somebody who takes it.
WorkersOutliveDrain == ~stopped => \A w \in Workers : wpc[w] # "exited"

\* A Drain that returned in time left no byte in a buffer; with Quiet.
DrainLeavesNoTail ==
  stopped /\ ~expired => \A s \in registered : pending[s] = 0

\* What was queued when stopCh was closed is taken before the workers exit.
QueueDrainedOnStop ==
  (\A w \in Workers : wpc[w] = "exited") => atStop \cap Queued = {}

\* When Stop has returned every envelope is stored, or a worker tried it and
\* failed, with three exceptions: Drain gives up its hands when its time is over;
\* flushLoop, whose hands Drain does not see, gives up what it held when its
\* select draws the cancelled context or stopCh; and what its last flush handed
\* over behind the last worker is still in the queue.
EnvelopesAccountedFor ==
  /\ mpc = "exited" => Extracted \subseteq uploaded \cup Queued \cup LostTo(Causes)
  /\ LostTo({"drain"}) # {} => expired
  /\ LostTo({"loop", "context"}) # {} => cancelled

\* What shutdown promises of the bytes that were written: a Drain that was given
\* the time leaves none in a buffer, what Stop finds in the queue meets a worker,
\* and what is lost is lost in the ways named above.
ShutdownFlushes ==
  /\ DrainLeavesNoTail
  /\ QueueDrainedOnStop
  /\ EnvelopesAccountedFor

\* Shutdown ends, whatever the queue, the flushes and the uploads are doing.
StopReturns == cancelled ~> mpc = "exited"

\* The pipeline does not jam: unless shutdown comes first, whatever left its
\* buffer reaches the storage or was refused twice by it, through a full queue,
\* failing puts and fallbacks.
ReachesStorage ==
  TRUE ~> cancelled \/ Extracted \subseteq uploaded \cup LostTo({"storage"})

\* Workers "must survive ctx cancellation [...] and keep uploading queued jobs"
\* (comment in engine_test.go): unless the storage refuses it while the context
\* lives, no job is given up.
JobsSurviveCancel ==
  [][\A w \in Workers : wpc[w] # "idle" /\ wpc'[w] = "idle"
       => job[w] \subseteq uploaded' \cup LostTo({"storage"})']_vars
=============================================================================
