----------------------------- MODULE UploadProofs -----------------------------
(***************************************************************************)
(* Proofs about Upload, for any finite set of sessions, any number of      *)
(* upload workers and writes, and any capacity of the queue.               *)
(***************************************************************************)
EXTENDS Upload, SequenceTheorems, TLAPS

\* The shutdown sequence: the context is cancelled before Drain begins, Drain's
\* own context times out and stopCh is closed only from there on, and upload
\* workers drain and leave only after that.
ShutdownOrder ==
  /\ mpc # "run" => cancelled
  /\ expired \/ stopped => cancelled
  /\ stopped => mpc \in {"stopping", "exited"}
  /\ \A w \in Workers : draining[w] => stopped
  /\ \A w \in Workers : wpc[w] = "exited" => draining[w]

\* A worker without a job holds nothing.
IdleHands == \A w \in Workers : wpc[w] \in {"idle", "exited"} => job[w] = {}

\* Writes are taken from a budget.
Budget == \A s \in Sessions : pending[s] + todo[s] <= Writes

\* An envelope is in one place between its extraction and the worker: what a
\* flusher holds is not queued and not held by the other, and was numbered.
OnePlace ==
  /\ \A f \in Flushers : hand[f] \subseteq Extracted
  /\ Queued \subseteq Extracted
  /\ \A f \in Flushers : hand[f] \cap Queued = {}
  /\ hand["loop"] \cap hand["drain"] = {}

\* What Drain found stays so until Stop: nobody writes once the context is
\* cancelled.
BuffersEmpty == \A s \in registered : pending[s] = 0

DrainFound ==
  /\ fpc["drain"] = "decide" => mpc = "drain" /\ (tail \/ BuffersEmpty)
  /\ stopped => expired \/ BuffersEmpty

\* What was queued at Stop is in nobody's hands, and gone from the queue once a
\* worker found it empty.
AtStopTaken ==
  /\ ~stopped => atStop = {}
  /\ \A f \in Flushers : hand[f] \cap atStop = {}
  /\ atStop \subseteq Extracted
  /\ (\E w \in Workers : wpc[w] = "exited") => atStop \cap Queued = {}

\* A flusher holds envelopes only while it is inside flushAll.
HandsIdle == \A f \in Flushers : fpc[f] \notin {"extract", "send"} => hand[f] = {}

\* Stop follows Drain, and returns when flushLoop and the workers are gone.
Endings ==
  /\ stopped => fpc["drain"] = "exited"
  /\ mpc \in {"stopping", "exited"} => stopped
  /\ mpc = "exited" => fpc["loop"] = "exited" /\ \A w \in Workers : wpc[w] = "exited"

\* Where a numbered envelope can be: alive, or lost with a cause.
Seen == Alive \cup LostTo(Causes)

Accounted == Extracted \subseteq Seen

\* flushLoop and a worker's dead context lose nothing before the signal, Drain
\* loses nothing before its own time is over.
CausesKnown ==
  \A e \in Envelopes, c \in Causes :
    <<e, c>> \in lost => /\ c = "loop" \/ c = "context" => cancelled
                         /\ c = "drain" => expired

USE DEF fate

-----------------------------------------------------------------------------
\* A job at the end of the queue, and the job at its head.
LEMMA QueueAppended ==
  ASSUME jobs \in Seq(SUBSET Envelopes), NEW file \in SUBSET Envelopes,
         jobs' = Append(jobs, file)
  PROVE  /\ jobs' \in Seq(SUBSET Envelopes)
         /\ Len(jobs') = Len(jobs) + 1
         /\ Queued' = Queued \cup file
<1> DEFINE Files == SUBSET Envelopes
<1>1. jobs \in Seq(Files) /\ file \in Files
  OBVIOUS
<1> HIDE DEF Files
<1>2. /\ jobs' \in Seq(Files)
      /\ Len(jobs') = Len(jobs) + 1
      /\ \A i \in 1..Len(jobs) : jobs'[i] = jobs[i]
      /\ jobs'[Len(jobs) + 1] = file
  BY <1>1, AppendProperties
<1>3. Len(jobs) \in Nat
  BY <1>1
<1>4. \A i : i \in 1..Len(jobs') <=> i \in 1..Len(jobs) \/ i = Len(jobs) + 1
  BY <1>2, <1>3
<1>5. Queued' = Queued \cup file
  BY <1>2, <1>4 DEF Queued
<1>6. QED
  BY <1>2, <1>5 DEF Files

LEMMA QueueTaken ==
  ASSUME jobs \in Seq(SUBSET Envelopes), jobs # <<>>, jobs' = Tail(jobs)
  PROVE  /\ jobs' \in Seq(SUBSET Envelopes)
         /\ Len(jobs') = Len(jobs) - 1
         /\ Head(jobs) \in SUBSET Envelopes
         /\ Queued = Queued' \cup Head(jobs)
<1> DEFINE Files == SUBSET Envelopes
<1>1. jobs \in Seq(Files)
  OBVIOUS
<1> HIDE DEF Files
<1>2. /\ Head(jobs) \in Files
      /\ jobs' \in Seq(Files)
      /\ Len(jobs') = Len(jobs) - 1
      /\ \A i \in 1..Len(jobs') : jobs'[i] = jobs[i + 1]
  BY <1>1, HeadTailProperties
<1>3. Len(jobs) \in Nat /\ Len(jobs) >= 1 /\ Head(jobs) = jobs[1]
  BY <1>1
<1>4. ASSUME NEW e PROVE e \in Queued <=> e \in Queued' \cup Head(jobs)
  <2>1. ASSUME e \in Queued PROVE e \in Queued' \cup Head(jobs)
    <3>1. PICK i \in 1..Len(jobs) : e \in jobs[i]
      BY <2>1 DEF Queued
    <3>2. CASE i = 1
      BY <1>3, <3>1, <3>2
    <3>3. CASE i # 1
      <4>1. i - 1 \in 1..Len(jobs') /\ jobs'[i - 1] = jobs[i]
        BY <1>2, <1>3, <3>3
      <4>2. QED
        BY <3>1, <4>1 DEF Queued
    <3>4. QED
      BY <3>2, <3>3
  <2>2. ASSUME e \in Head(jobs) PROVE e \in Queued
    <3>1. 1 \in 1..Len(jobs)
      BY <1>3
    <3>2. QED
      BY <1>3, <2>2, <3>1 DEF Queued
  <2>3. ASSUME e \in Queued' PROVE e \in Queued
    <3>1. PICK i \in 1..Len(jobs') : e \in jobs'[i]
      BY <2>3 DEF Queued
    <3>2. i + 1 \in 1..Len(jobs) /\ jobs'[i] = jobs[i + 1]
      BY <1>2, <1>3
    <3>3. QED
      BY <3>1, <3>2 DEF Queued
  <2>4. QED
    BY <2>1, <2>2, <2>3
<1>5. Queued = Queued' \cup Head(jobs)
  BY <1>4
<1>6. QED
  BY <1>2, <1>5 DEF Files

-----------------------------------------------------------------------------
\* What an extraction does to the buffer, the numbering and the hands.
LEMMA ExtractEffect ==
  ASSUME TypeOK, NEW f \in Flushers, NEW s \in Sessions, Extract(f, s)
  PROVE  /\ UNCHANGED <<todo, closed, registered, jobs, fpc, final, tail, work,
                        main, fate>>
         /\ scan' = [scan EXCEPT ![f] = @ \ {s}]
         /\ \/ UNCHANGED <<pending, seq, hand, ends>>
            \/ /\ seq[s] < MaxSeq
               /\ seq' = [seq EXCEPT ![s] = @ + 1]
               /\ hand' = [hand EXCEPT ![f] = @ \cup {<<s, seq[s]>>}]
               /\ \E n \in 0..Writes : n <= pending[s] /\ pending' = [pending EXCEPT ![s] = n]
               /\ ends' = ends \/ ends' = [ends EXCEPT ![f] = @ \cup {s}]
<1>1. CASE HasBatch(s) /\ seq[s] < MaxSeq
  <2>1. /\ seq' = [seq EXCEPT ![s] = @ + 1]
        /\ hand' = [hand EXCEPT ![f] = @ \cup {<<s, seq[s]>>}]
        /\ ends' = ends \/ ends' = [ends EXCEPT ![f] = @ \cup {s}]
        /\ pending' = [pending EXCEPT ![s] = IF @ > 0 THEN @ - 1 ELSE 0]
    BY <1>1 DEF Extract
  <2>2. pending[s] \in 0..Writes /\ Writes \in Nat
    BY UploadAssumption DEF TypeOK, UploadAssumption
  <2> DEFINE n == IF pending[s] > 0 THEN pending[s] - 1 ELSE 0
  <2>3. n \in 0..Writes /\ n <= pending[s]
    BY <2>2
  <2>4. pending' = [pending EXCEPT ![s] = n]
    BY <2>1
  <2> HIDE DEF n
  <2>5. \E m \in 0..Writes : m <= pending[s] /\ pending' = [pending EXCEPT ![s] = m]
    BY <2>3, <2>4
  <2>6. QED
    BY <1>1, <2>1, <2>5 DEF Extract
<1>2. CASE ~(HasBatch(s) /\ seq[s] < MaxSeq)
  BY <1>2 DEF Extract
<1>3. QED
  BY <1>1, <1>2

\* The flusher leaves flushAll.
LEMMA FlushEnds ==
  ASSUME TypeOK, NEW f \in Flushers, FlushEnd(f)
  PROVE  \E l \in {"idle", "exited"} : fpc' = [fpc EXCEPT ![f] = l]
BY DEF FlushEnd

\* Type correctness of the way up, with the budget of writes.
TInv == TypeOK /\ Budget

LEMMA TInvAlways == Spec => []TInv
<1> USE UploadAssumption DEF UploadAssumption
<1>0. /\ "loop" \in Flushers /\ "drain" \in Flushers
      /\ \A f \in Flushers : f \in {"loop", "drain"}
  BY DEF Flushers
<1> USE <1>0
<1>1. Init => TInv
  <2> SUFFICES ASSUME Init PROVE TInv
    OBVIOUS
  <2>1. /\ pending \in [Sessions -> 0..Writes]
        /\ todo \in [Sessions -> 0..Writes]
        /\ closed \in [Sessions -> BOOLEAN]
        /\ seq \in [Sessions -> 0..MaxSeq]
        /\ Budget
    BY DEF Init, Budget
  <2>2. jobs \in Seq(SUBSET Envelopes) /\ Len(jobs) <= QueueSize
    BY DEF Init
  <2>3. /\ fpc \in [Flushers -> {"idle", "decide", "extract", "send", "exited"}]
        /\ scan \in [Flushers -> SUBSET Sessions]
        /\ hand \in [Flushers -> SUBSET Envelopes]
        /\ ends \in [Flushers -> SUBSET Sessions]
    BY DEF Init
  <2>4. /\ wpc \in [Workers -> {"idle", "put", "fallback", "exited"}]
        /\ draining \in [Workers -> BOOLEAN]
        /\ job \in [Workers -> SUBSET Envelopes]
        /\ doomed \in [Workers -> BOOLEAN]
    BY DEF Init
  <2>5. /\ registered \subseteq Sessions
        /\ {final, tail, cancelled, expired, stopped} \subseteq BOOLEAN
        /\ mpc \in {"run", "drain", "stopping", "exited"}
        /\ uploaded \subseteq Envelopes
        /\ atStop \subseteq Envelopes
        /\ lost \subseteq Envelopes \X Causes
    BY DEF Init
  <2>6. QED
    BY <2>1, <2>2, <2>3, <2>4, <2>5, Zenon DEF TInv, TypeOK
<1>2. TInv /\ [Next]_vars => TInv'
  <2> SUFFICES ASSUME TInv, [Next]_vars PROVE TInv'
    OBVIOUS
  <2>0. TypeOK /\ Budget
    BY DEF TInv
  <2> USE <2>0
  <2>1. ASSUME NEW s \in Sessions, Write(s) PROVE TInv'
    <3>1. /\ todo[s] > 0
          /\ pending' = [pending EXCEPT ![s] = @ + 1]
          /\ todo' = [todo EXCEPT ![s] = @ - 1]
          /\ UNCHANGED <<closed, seq, registered, jobs, flush, work, main, fate>>
      BY <2>1 DEF Write
    <3>2. /\ pending[s] \in 0..Writes /\ todo[s] \in 0..Writes
          /\ pending[s] + todo[s] <= Writes
      BY DEF TypeOK, Budget
    <3>3. pending[s] + 1 \in 0..Writes /\ todo[s] - 1 \in 0..Writes
      BY <3>1, <3>2
    <3>4. pending' \in [Sessions -> 0..Writes] /\ todo' \in [Sessions -> 0..Writes]
      BY <3>1, <3>3 DEF TypeOK
    <3>5. Budget'
      BY <3>1, <3>2 DEF Budget, TypeOK
    <3>6. QED
      BY <3>1, <3>4, <3>5 DEF TInv, TypeOK, flush, work, main
  <2>2. ASSUME NEW s \in Sessions, Close(s) PROVE TInv'
    BY <2>2 DEF Close, TInv, TypeOK, Budget, flush, work, main
  <2>3. ASSUME NEW f \in Flushers, NEW s \in Sessions, Extract(f, s) PROVE TInv'
    <3>1. scan' \in [Flushers -> SUBSET Sessions]
      <4>1. scan' = [scan EXCEPT ![f] = @ \ {s}]
        BY <2>3, ExtractEffect
      <4>2. scan \in [Flushers -> SUBSET Sessions]
        BY DEF TypeOK
      <4>3. scan[f] \ {s} \in SUBSET Sessions
        BY <4>2
      <4>4. QED
        BY <4>1, <4>2, <4>3
    <3>2. UNCHANGED <<todo, closed, registered, jobs, fpc, final, tail, work,
                      main, fate>>
      BY <2>3, ExtractEffect
    <3>3. CASE UNCHANGED <<pending, seq, hand, ends>>
      BY <3>1, <3>2, <3>3 DEF TInv, TypeOK, Budget, work, main
    <3>4. ASSUME seq[s] < MaxSeq,
                 seq' = [seq EXCEPT ![s] = @ + 1],
                 hand' = [hand EXCEPT ![f] = @ \cup {<<s, seq[s]>>}],
                 NEW n \in 0..Writes, n <= pending[s],
                 pending' = [pending EXCEPT ![s] = n],
                 ends' = ends \/ ends' = [ends EXCEPT ![f] = @ \cup {s}]
          PROVE  TInv'
      <4>1. seq[s] \in 0..MaxSeq /\ pending[s] \in 0..Writes /\ todo[s] \in 0..Writes
        BY DEF TypeOK
      <4>2. seq' \in [Sessions -> 0..MaxSeq]
        <5>1. seq[s] + 1 \in 0..MaxSeq
          BY <3>4, <4>1
        <5>2. QED
          BY <3>4, <5>1 DEF TypeOK
      <4>3. hand' \in [Flushers -> SUBSET Envelopes]
        <5>1. seq[s] \in 0..(MaxSeq - 1)
          BY <3>4, <4>1
        <5>2. <<s, seq[s]>> \in Envelopes
          BY <5>1 DEF Envelopes
        <5>3. QED
          BY <3>4, <5>2 DEF TypeOK
      <4>4. pending' \in [Sessions -> 0..Writes] /\ ends' \in [Flushers -> SUBSET Sessions]
        <5>1. pending \in [Sessions -> 0..Writes] /\ ends \in [Flushers -> SUBSET Sessions]
          BY DEF TypeOK
        <5>2. pending' \in [Sessions -> 0..Writes]
          BY <3>4, <5>1
        <5>3. ends[f] \cup {s} \in SUBSET Sessions
          BY <5>1
        <5>4. ends' \in [Flushers -> SUBSET Sessions]
          BY <3>4, <5>1, <5>3
        <5>5. QED
          BY <5>2, <5>4
      <4>5. Budget'
        <5>1. \A t \in Sessions : pending'[t] \in Int /\ pending'[t] <= pending[t]
          BY <3>4, <4>1 DEF TypeOK
        <5>2. \A t \in Sessions : pending[t] \in Int /\ todo[t] \in Int
          BY DEF TypeOK
        <5>3. QED
          BY <3>2, <5>1, <5>2 DEF Budget
      <4>6. QED
        BY <3>1, <3>2, <4>2, <4>3, <4>4, <4>5 DEF TInv, TypeOK, work, main
    <3>5. QED
      BY <2>3, <3>3, <3>4, ExtractEffect
  <2>4. ASSUME NEW f \in Flushers, HandOver(f) PROVE TInv'
    <3>1. PICK file \in SUBSET hand[f] :
            /\ jobs' = Append(jobs, file)
            /\ hand' = [hand EXCEPT ![f] = @ \ file]
      BY <2>4 DEF HandOver
    <3>2. /\ Len(jobs) < QueueSize
          /\ UNCHANGED <<sess, registered, fpc, scan, ends, final, tail, work,
                         main, fate>>
      BY <2>4 DEF HandOver, Room
    <3>3. hand' \in [Flushers -> SUBSET Envelopes] /\ file \in SUBSET Envelopes
      BY <3>1 DEF TypeOK
    <3>4. jobs' \in Seq(SUBSET Envelopes) /\ Len(jobs') = Len(jobs) + 1
      BY <3>1, <3>3, QueueAppended DEF TypeOK
    <3>5. Len(jobs') <= QueueSize
      BY <3>2, <3>4 DEF TypeOK
    <3>6. QED
      BY <3>2, <3>3, <3>4, <3>5 DEF TInv, TypeOK, Budget, sess, work, main
  <2>5. ASSUME NEW f \in Flushers, HoldAbort(f) \/ FlushAbort(f) \/ RemoveEnded(f)
        PROVE  TInv'
    <3>1. PICK l \in {"idle", "exited"} : fpc' = [fpc EXCEPT ![f] = l]
      BY <2>5, FlushEnds DEF HoldAbort, FlushAbort, RemoveEnded
    <3>2. fpc' \in [Flushers -> {"idle", "decide", "extract", "send", "exited"}]
      BY <3>1 DEF TypeOK
    <3>3. /\ scan' \in [Flushers -> SUBSET Sessions]
          /\ hand' \in [Flushers -> SUBSET Envelopes]
          /\ ends' \in [Flushers -> SUBSET Sessions]
          /\ registered' \subseteq Sessions
      BY <2>5 DEF HoldAbort, FlushAbort, RemoveEnded, TypeOK
    <3>4. UNCHANGED <<sess, jobs, final, tail, work, main, uploaded>>
      BY <2>5 DEF HoldAbort, FlushAbort, RemoveEnded
    <3>5. lost' \subseteq Envelopes \X Causes
      <4>1. CASE HoldAbort(f) \/ RemoveEnded(f)
        BY <4>1 DEF HoldAbort, RemoveEnded, TypeOK
      <4>2. CASE FlushAbort(f)
        <5>1. lost' = lost \cup ((hand[f] \ uploaded) \X {f})
          BY <4>2 DEF FlushAbort, GiveUp
        <5>2. hand[f] \subseteq Envelopes /\ f \in Causes
          BY DEF TypeOK, Causes, Flushers
        <5>3. QED
          BY <5>1, <5>2 DEF TypeOK
      <4>3. QED
        BY <2>5, <4>1, <4>2
    <3>6. QED
      BY <3>2, <3>3, <3>4, <3>5 DEF TInv, TypeOK, Budget, sess, work, main
  <2>6. ASSUME NEW f \in Flushers, NEW l \in {"extract", "send", "exited", "decide"},
               fpc' = [fpc EXCEPT ![f] = l],
               scan' = scan \/ scan' = [scan EXCEPT ![f] = registered],
               {final', tail', cancelled', expired', stopped'} \subseteq BOOLEAN,
               mpc' \in {"run", "drain", "stopping", "exited"},
               atStop' \subseteq Envelopes,
               UNCHANGED <<sess, registered, jobs, hand, ends, work, fate>>
        PROVE  TInv'
    <3>1. fpc' \in [Flushers -> {"idle", "decide", "extract", "send", "exited"}]
      BY <2>6 DEF TypeOK
    <3>2. scan' \in [Flushers -> SUBSET Sessions]
      <4>1. scan \in [Flushers -> SUBSET Sessions] /\ registered \in SUBSET Sessions
        BY DEF TypeOK
      <4>2. CASE scan' = scan
        BY <4>1, <4>2
      <4>3. CASE scan' = [scan EXCEPT ![f] = registered]
        BY <4>1, <4>3
      <4>4. QED
        BY <2>6, <4>2, <4>3
    <3>3. QED
      BY <2>6, <3>1, <3>2 DEF TInv, TypeOK, Budget, sess, work
  <2>7. CASE LoopStep \/ DrainLook \/ DrainFlush \/ Stop \/ \E f \in Flushers : Encode(f)
    <3>1. \E f \in Flushers, l \in {"extract", "send", "exited", "decide"} :
            /\ fpc' = [fpc EXCEPT ![f] = l]
            /\ scan' = scan \/ scan' = [scan EXCEPT ![f] = registered]
      BY <2>7 DEF LoopStep, LoopTick, LoopStop, LoopExit, DrainLook, DrainFlush,
                  Stop, Encode, Snapshot
    <3>2. {final', tail', cancelled', expired', stopped'} \subseteq BOOLEAN
      BY <2>7 DEF LoopStep, LoopTick, LoopStop, LoopExit, DrainLook, DrainFlush,
                  Stop, Encode, main, TypeOK
    <3>3. mpc' \in {"run", "drain", "stopping", "exited"}
      BY <2>7 DEF LoopStep, LoopTick, LoopStop, LoopExit, DrainLook, DrainFlush,
                  Stop, Encode, main, TypeOK
    <3>4. atStop' \subseteq Envelopes
      <4>1. Queued \subseteq Envelopes
        BY DEF TypeOK, Queued
      <4>2. atStop' = atStop \/ atStop' = Queued
        BY <2>7 DEF LoopStep, LoopTick, LoopStop, LoopExit, DrainLook, DrainFlush,
                    Stop, Encode, main
      <4>3. QED
        BY <4>1, <4>2 DEF TypeOK
    <3>5. UNCHANGED <<sess, registered, jobs, hand, ends, work, fate>>
      BY <2>7 DEF LoopStep, LoopTick, LoopStop, LoopExit, DrainLook, DrainFlush,
                  Stop, Encode
    <3>6. QED
      BY <2>6, <3>1, <3>2, <3>3, <3>4, <3>5
  <2>8. CASE Signal \/ Expire \/ Stopped
    <3>1. /\ {cancelled', expired', stopped'} \subseteq BOOLEAN
          /\ mpc' \in {"run", "drain", "stopping", "exited"}
          /\ UNCHANGED <<sess, registered, jobs, flush, work, atStop, fate>>
      BY <2>8 DEF Signal, Expire, Stopped, TypeOK
    <3>2. QED
      BY <3>1 DEF TInv, TypeOK, Budget, sess, flush, work
  <2>9. ASSUME NEW w \in Workers, WorkerStep(w) PROVE TInv'
    <3>1. /\ jobs' \in Seq(SUBSET Envelopes) /\ Len(jobs') <= QueueSize
          /\ job' \in [Workers -> SUBSET Envelopes]
      <4>1. CASE Take(w)
        <5>1. /\ jobs # <<>> /\ jobs' = Tail(jobs)
              /\ job' = [job EXCEPT ![w] = Head(jobs)]
          BY <4>1 DEF Take
        <5>2. jobs \in Seq(SUBSET Envelopes) /\ Len(jobs) <= QueueSize /\ Len(jobs) \in Nat
          BY DEF TypeOK
        <5>3. /\ jobs' \in Seq(SUBSET Envelopes) /\ Len(jobs') = Len(jobs) - 1
              /\ Head(jobs) \in SUBSET Envelopes
          BY <5>1, <5>2, QueueTaken
        <5>4. job' \in [Workers -> SUBSET Envelopes]
          BY <5>1, <5>3 DEF TypeOK
        <5>5. QED
          BY <5>2, <5>3, <5>4
      <4>2. CASE ~Take(w)
        <5>1. UNCHANGED jobs /\ (job' = job \/ job' = [job EXCEPT ![w] = {}])
          BY <2>9, <4>2 DEF WorkerStep, BeginDrain, ExitWorker, Put, PutFails,
                            Fallback, FallbackFails, Done
        <5>2. QED
          BY <5>1 DEF TypeOK
      <4>3. QED
        BY <4>1, <4>2
    <3>2. wpc' \in [Workers -> {"idle", "put", "fallback", "exited"}]
      BY <2>9 DEF WorkerStep, Take, BeginDrain, ExitWorker, Put, PutFails,
                  Fallback, FallbackFails, Done, TypeOK
    <3>3. draining' \in [Workers -> BOOLEAN]
      BY <2>9 DEF WorkerStep, Take, BeginDrain, ExitWorker, Put, PutFails,
                  Fallback, FallbackFails, Done, TypeOK
    <3>4. doomed' \in [Workers -> BOOLEAN]
      BY <2>9 DEF WorkerStep, Take, BeginDrain, ExitWorker, Put, PutFails,
                  Fallback, FallbackFails, Done, StartsDoomed, TypeOK
    <3>5. uploaded' \subseteq Envelopes
      BY <2>9 DEF WorkerStep, Take, BeginDrain, ExitWorker, Put, PutFails,
                  Fallback, FallbackFails, Done, TypeOK
    <3>6. UNCHANGED <<sess, registered, flush, main>>
      BY <2>9 DEF WorkerStep, Take, BeginDrain, ExitWorker, Put, PutFails,
                  Fallback, FallbackFails, Done
    <3>7. lost' \subseteq Envelopes \X Causes
      <4>1. CASE FallbackFails(w)
        <5>1. PICK c \in Causes : lost' = lost \cup ((job[w] \ uploaded) \X {c})
          BY <4>1 DEF FallbackFails, GiveUp, Causes
        <5>2. job[w] \subseteq Envelopes
          BY DEF TypeOK
        <5>3. QED
          BY <5>1, <5>2 DEF TypeOK
      <4>2. CASE ~FallbackFails(w)
        <5>1. UNCHANGED lost
          BY <2>9, <4>2 DEF WorkerStep, Take, BeginDrain, ExitWorker, Put, PutFails,
                            Fallback
        <5>2. QED
          BY <5>1 DEF TypeOK
      <4>3. QED
        BY <4>1, <4>2
    <3>8. QED
      BY <3>1, <3>2, <3>3, <3>4, <3>5, <3>6, <3>7
         DEF TInv, TypeOK, Budget, sess, flush, main
  <2>10. CASE UNCHANGED vars
    BY <2>10 DEF vars, TInv, TypeOK, Budget, sess, flush, work, main
  <2>11. QED
    BY <2>1, <2>2, <2>3, <2>4, <2>5, <2>7, <2>8, <2>9, <2>10
       DEF Next, FlushStep, MainStep
<1>3. QED
  BY <1>1, <1>2, PTL DEF Spec

-----------------------------------------------------------------------------
\* Every variable of the way up keeps its type; in particular uploadJobs never
\* holds more than its capacity, which two flushers and all workers share.
THEOREM UploadTypeCorrect == Spec => []TypeOK
<1>1. TInv => TypeOK
  BY DEF TInv
<1>2. QED
  BY <1>1, TInvAlways, PTL

-----------------------------------------------------------------------------
\* Users and flushers touch neither the workers nor the main goroutine.
LEMMA SessionSteps ==
  ASSUME \/ \E s \in Sessions : Write(s) \/ Close(s)
         \/ \E f \in Flushers : FlushStep(f)
         \/ LoopStep \/ DrainLook \/ DrainFlush
         \/ UNCHANGED vars
  PROVE  UNCHANGED <<work, main, uploaded>>
BY DEF Write, Close, FlushStep, HoldAbort, Extract, Encode, HandOver, FlushAbort,
       RemoveEnded, LoopStep, LoopTick, LoopStop, LoopExit, DrainLook, DrainFlush, vars

WInv == ShutdownOrder /\ IdleHands

LEMMA WInvStep ==
  ASSUME TypeOK, WInv, [Next]_vars
  PROVE  WInv'
<1>0. /\ wpc \in [Workers -> {"idle", "put", "fallback", "exited"}]
      /\ draining \in [Workers -> BOOLEAN]
      /\ job \in [Workers -> SUBSET Envelopes]
  BY DEF TypeOK
<1>1. CASE UNCHANGED <<work, main, uploaded>>
  BY <1>1 DEF WInv, ShutdownOrder, IdleHands, work, main
<1>2. CASE Signal \/ Expire \/ Stop \/ Stopped
  <2>1. UNCHANGED work /\ (stopped => stopped')
    BY <1>2 DEF Signal, Expire, Stop, Stopped
  <2>2. IdleHands'
    BY <2>1 DEF WInv, IdleHands, work
  <2>3. /\ \A w \in Workers : draining'[w] => stopped'
        /\ \A w \in Workers : wpc'[w] = "exited" => draining'[w]
    BY <2>1 DEF WInv, ShutdownOrder, work
  <2>4. /\ mpc' # "run" => cancelled'
        /\ expired' \/ stopped' => cancelled'
        /\ stopped' => mpc' \in {"stopping", "exited"}
    BY <1>2 DEF WInv, ShutdownOrder, Signal, Expire, Stop, Stopped
  <2>5. QED
    BY <2>2, <2>3, <2>4 DEF WInv, ShutdownOrder
<1>3. ASSUME NEW w \in Workers, WorkerStep(w) PROVE WInv'
  <2>1. UNCHANGED main
    BY <1>3 DEF WorkerStep, Take, BeginDrain, ExitWorker, Put, PutFails, Fallback,
                FallbackFails, Done
  <2>2. \/ UNCHANGED wpc
        \/ wpc' = [wpc EXCEPT ![w] = "put"]
        \/ wpc' = [wpc EXCEPT ![w] = "fallback"]
        \/ wpc' = [wpc EXCEPT ![w] = "idle"] /\ job' = [job EXCEPT ![w] = {}]
        \/ wpc' = [wpc EXCEPT ![w] = "exited"] /\ draining[w] /\ wpc[w] = "idle"
    BY <1>3 DEF WorkerStep, Take, BeginDrain, ExitWorker, Leaves, Put, PutFails,
                Fallback, FallbackFails, Done
  <2>3. /\ UNCHANGED draining \/ (stopped /\ draining' = [draining EXCEPT ![w] = TRUE])
        /\ UNCHANGED job \/ job' = [job EXCEPT ![w] = {}]
           \/ (job' = [job EXCEPT ![w] = Head(jobs)] /\ wpc' = [wpc EXCEPT ![w] = "put"])
    BY <1>3 DEF WorkerStep, Take, BeginDrain, ExitWorker, Put, PutFails, Fallback,
                FallbackFails, Done
  <2>4. \A x \in Workers : (draining[x] => draining'[x]) /\ (draining'[x] => stopped)
    BY <1>0, <2>3 DEF WInv, ShutdownOrder
  <2>5. \A x \in Workers : wpc'[x] = "exited" => draining[x]
    BY <1>0, <2>2 DEF WInv, ShutdownOrder
  <2>6. IdleHands'
    BY <1>0, <2>2, <2>3 DEF WInv, IdleHands
  <2>7. ShutdownOrder'
    BY <2>1, <2>4, <2>5 DEF WInv, ShutdownOrder, main
  <2>8. QED
    BY <2>6, <2>7 DEF WInv
<1>4. QED
  BY <1>1, <1>2, <1>3, SessionSteps DEF Next, MainStep

LEMMA WInvAlways == Spec => []WInv
<1>1. Init => WInv
  BY DEF Init, WInv, ShutdownOrder, IdleHands
<1>2. TypeOK /\ WInv /\ [Next]_vars => WInv'
  BY WInvStep
<1>3. QED
  BY <1>1, <1>2, UploadTypeCorrect, PTL DEF Spec

\* No upload worker leaves before stopCh is closed: the context that Drain runs
\* under is cancelled already, and the jobs it hands over need takers.
THEOREM WorkersStay == Spec => []WorkersOutliveDrain
<1>1. WInv => WorkersOutliveDrain
  BY DEF WInv, ShutdownOrder, WorkersOutliveDrain
<1>2. QED
  BY <1>1, WInvAlways, PTL

-----------------------------------------------------------------------------
\* A flusher that stands outside flushAll holds nothing, and the shutdown ends in
\* its order.
EInv == HandsIdle /\ Endings

LEMMA EInvStep ==
  ASSUME TypeOK, WInv, EInv, [Next]_vars
  PROVE  EInv'
<1> USE DEF Flushers
<1>0. /\ fpc \in [Flushers -> {"idle", "decide", "extract", "send", "exited"}]
      /\ hand \in [Flushers -> SUBSET Envelopes]
      /\ wpc \in [Workers -> {"idle", "put", "fallback", "exited"}]
  BY DEF TypeOK
<1>1. ASSUME UNCHANGED <<fpc, hand, main>>,
             \A w \in Workers : wpc[w] = "exited" => wpc'[w] = "exited"
      PROVE  EInv'
  BY <1>1 DEF EInv, HandsIdle, Endings, main
<1>2. ASSUME NEW f \in Flushers, FlushStep(f) PROVE EInv'
  <2>1. UNCHANGED <<main, wpc>>
    BY <1>2, SessionSteps DEF work
  <2>2. fpc[f] \in {"extract", "send"}
    BY <1>2 DEF FlushStep, HoldAbort, Extract, Encode, HandOver, FlushAbort, RemoveEnded
  <2>3. \E l \in {"idle", "extract", "send", "exited"} :
          /\ fpc' = [fpc EXCEPT ![f] = l]
          /\ l \in {"idle", "exited"} => hand'[f] = {}
    <3>1. CASE Encode(f) \/ HandOver(f) \/ \E s \in Sessions : Extract(f, s)
      <4>1. fpc' = [fpc EXCEPT ![f] = "send"] \/ fpc' = [fpc EXCEPT ![f] = fpc[f]]
        BY <1>0, <3>1 DEF Encode, HandOver, Extract
      <4>2. QED
        BY <2>2, <4>1
    <3>2. CASE HoldAbort(f) \/ FlushAbort(f) \/ RemoveEnded(f)
      <4>1. hand'[f] = {}
        BY <1>0, <3>2 DEF HoldAbort, FlushAbort, RemoveEnded
      <4>2. FlushEnd(f)
        BY <3>2 DEF HoldAbort, FlushAbort, RemoveEnded
      <4>3. QED
        BY <4>1, <4>2, FlushEnds
    <3>3. QED
      BY <1>2, <3>1, <3>2 DEF FlushStep
  <2>4. \A g \in Flushers : g # f => hand'[g] = hand[g] /\ fpc'[g] = fpc[g]
    <3>1. \/ UNCHANGED hand
          \/ \E x \in SUBSET Envelopes : hand' = [hand EXCEPT ![f] = x]
      <4>1. ASSUME NEW s \in Sessions, Extract(f, s) PROVE <3>1!:
        <5>1. CASE UNCHANGED hand
          BY <5>1
        <5>2. CASE seq[s] < MaxSeq /\ hand' = [hand EXCEPT ![f] = @ \cup {<<s, seq[s]>>}]
          <6>1. <<s, seq[s]>> \in Envelopes
            BY <5>2, UploadAssumption DEF TypeOK, Envelopes, UploadAssumption
          <6>2. hand[f] \cup {<<s, seq[s]>>} \in SUBSET Envelopes
            BY <1>0, <6>1
          <6>3. QED
            BY <5>2, <6>2
        <5>3. QED
          BY <4>1, <5>1, <5>2, ExtractEffect
      <4>2. ASSUME HandOver(f) PROVE <3>1!:
        <5>1. PICK file \in SUBSET hand[f] : hand' = [hand EXCEPT ![f] = @ \ file]
          BY <4>2 DEF HandOver
        <5>2. hand[f] \ file \in SUBSET Envelopes
          BY <1>0
        <5>3. QED
          BY <5>1, <5>2
      <4>3. CASE HoldAbort(f) \/ Encode(f) \/ FlushAbort(f) \/ RemoveEnded(f)
        BY <4>3 DEF HoldAbort, Encode, FlushAbort, RemoveEnded
      <4>4. QED
        BY <1>2, <4>1, <4>2, <4>3 DEF FlushStep
    <3>2. QED
      BY <1>0, <2>3, <3>1
  <2>5. HandsIdle'
    BY <1>0, <2>2, <2>3, <2>4 DEF EInv, HandsIdle
  <2>6. \A g \in Flushers : fpc[g] = "exited" => fpc'[g] = "exited"
    BY <2>2, <2>4
  <2>7. Endings'
    BY <2>1, <2>6 DEF EInv, Endings, main
  <2>8. QED
    BY <2>5, <2>7 DEF EInv
<1>3. CASE LoopStep
  <2>1. /\ fpc["loop"] = "idle" /\ UNCHANGED <<hand, main, wpc>>
        /\ \E l \in {"extract", "exited"} : fpc' = [fpc EXCEPT !["loop"] = l]
    BY <1>3 DEF LoopStep, LoopTick, LoopStop, LoopExit, Snapshot, work
  <2>2. QED
    BY <1>0, <2>1 DEF EInv, HandsIdle, Endings, main
<1>4. CASE DrainLook \/ DrainFlush
  <2>1. /\ fpc["drain"] \in {"idle", "decide"} /\ UNCHANGED <<hand, main, wpc>>
        /\ \E l \in {"extract", "decide"} : fpc' = [fpc EXCEPT !["drain"] = l]
    BY <1>4 DEF DrainLook, DrainFlush, Snapshot, work
  <2>2. QED
    BY <1>0, <2>1 DEF EInv, HandsIdle, Endings, main
<1>5. CASE Stop
  <2>1. /\ fpc["drain"] \in {"idle", "decide"} /\ UNCHANGED <<hand, wpc>>
        /\ fpc' = [fpc EXCEPT !["drain"] = "exited"]
        /\ mpc' = "stopping" /\ stopped'
    BY <1>5 DEF Stop, work
  <2>2. QED
    BY <1>0, <2>1 DEF EInv, HandsIdle, Endings
<1>6. CASE Signal \/ Expire \/ Stopped
  <2>1. /\ UNCHANGED <<fpc, hand, wpc, stopped>>
        /\ mpc' \in {"stopping", "exited"} => mpc \in {"stopping", "exited"}
        /\ mpc' = "exited" =>
             \/ mpc = "exited"
             \/ fpc["loop"] = "exited" /\ \A w \in Workers : wpc[w] = "exited"
    BY <1>6 DEF Signal, Expire, Stopped, flush, work
  <2>2. QED
    BY <2>1 DEF EInv, HandsIdle, Endings
<1>7. ASSUME NEW w \in Workers, WorkerStep(w) PROVE EInv'
  <2>1. UNCHANGED <<fpc, hand, main>> /\ wpc[w] # "exited"
    BY <1>7 DEF WorkerStep, Take, BeginDrain, ExitWorker, Put, PutFails, Fallback,
                FallbackFails, Done, flush
  <2>2. \E l : wpc' = wpc \/ wpc' = [wpc EXCEPT ![w] = l]
    BY <1>7 DEF WorkerStep, Take, BeginDrain, ExitWorker, Put, PutFails, Fallback,
                FallbackFails, Done
  <2>3. \A x \in Workers : wpc[x] = "exited" => wpc'[x] = "exited"
    BY <1>0, <2>1, <2>2
  <2>4. QED
    BY <1>1, <2>1, <2>3
<1>8. ASSUME NEW s \in Sessions, Write(s) \/ Close(s) PROVE EInv'
  BY <1>1, <1>8 DEF Write, Close, flush, work
<1>9. CASE UNCHANGED vars
  BY <1>1, <1>9 DEF vars, flush, work
<1>10. QED
  BY <1>2, <1>3, <1>4, <1>5, <1>6, <1>7, <1>8, <1>9 DEF Next, MainStep

LEMMA EInvAlways == Spec => []EInv
<1>1. Init => EInv
  BY DEF Init, EInv, HandsIdle, Endings
<1>2. TypeOK /\ WInv /\ EInv /\ [Next]_vars => EInv'
  BY EInvStep
<1>3. QED
  BY <1>1, <1>2, UploadTypeCorrect, WInvAlways, PTL DEF Spec

-----------------------------------------------------------------------------
\* Where an envelope can be seen.
LEMMA WhereSeen ==
  \A e : e \in Seen <=> \/ e \in uploaded
                        \/ e \in Queued
                        \/ \E f \in Flushers : e \in hand[f]
                        \/ \E w \in Workers : e \in job[w]
                        \/ e \in LostTo(Causes)
BY DEF Seen, Alive

LEMMA WhereSeenNext ==
  \A e : e \in Seen' <=> \/ e \in uploaded'
                         \/ e \in Queued'
                         \/ \E f \in Flushers : e \in hand'[f]
                         \/ \E w \in Workers : e \in job'[w]
                         \/ e \in LostTo(Causes)'
BY DEF Seen, Alive

\* What is given up is stored or lost, and nothing that was lost is forgotten.
LEMMA GivenUp ==
  ASSUME NEW batch \in SUBSET Envelopes, NEW c \in Causes, GiveUp(batch, c)
  PROVE  /\ LostTo(Causes) \subseteq LostTo(Causes)'
         /\ \A e \in batch : e \in uploaded \/ e \in LostTo(Causes)'
BY DEF GiveUp, LostTo

\* No step loses sight of an envelope.
LEMMA StaysSeen ==
  ASSUME TypeOK, WInv, [Next]_vars
  PROVE  Seen \subseteq Seen'
<1>0. /\ hand \in [Flushers -> SUBSET Envelopes]
      /\ job \in [Workers -> SUBSET Envelopes]
      /\ jobs \in Seq(SUBSET Envelopes)
  BY DEF TypeOK
<1>1. ASSUME UNCHANGED lost PROVE LostTo(Causes)' = LostTo(Causes)
  BY <1>1 DEF LostTo
<1>2. CASE UNCHANGED <<jobs, hand, job, uploaded, lost>>
  BY <1>1, <1>2, WhereSeen, WhereSeenNext DEF Queued
<1>3. ASSUME NEW f \in Flushers, NEW s \in Sessions, Extract(f, s)
      PROVE  Seen \subseteq Seen'
  <2>1. UNCHANGED <<jobs, job, uploaded, lost>>
    BY <1>3 DEF Extract, work
  <2>2. \A g \in Flushers : hand[g] \subseteq hand'[g]
    BY <1>0, <1>3 DEF Extract
  <2>3. QED
    BY <1>1, <2>1, <2>2, WhereSeen, WhereSeenNext DEF Queued
<1>4. ASSUME NEW f \in Flushers, HandOver(f)
      PROVE  Seen \subseteq Seen'
  <2>1. PICK file \in SUBSET hand[f] :
          /\ jobs' = Append(jobs, file)
          /\ hand' = [hand EXCEPT ![f] = @ \ file]
    BY <1>4 DEF HandOver
  <2>2. UNCHANGED <<job, uploaded, lost>>
    BY <1>4 DEF HandOver, work
  <2>3. Queued' = Queued \cup file
    BY <1>0, <2>1, QueueAppended
  <2>4. \A g \in Flushers : \A e \in hand[g] : e \in hand'[g] \/ e \in file
    BY <1>0, <2>1
  <2>5. QED
    BY <1>1, <2>2, <2>3, <2>4, WhereSeen, WhereSeenNext
<1>5. ASSUME NEW f \in Flushers, ~FlushAbort(f), FlushStep(f),
             \A s \in Sessions : ~Extract(f, s), ~HandOver(f)
      PROVE  UNCHANGED <<jobs, hand, job, uploaded, lost>>
  BY <1>5 DEF FlushStep, HoldAbort, Encode, RemoveEnded, work
<1>6. ASSUME NEW f \in Flushers, FlushAbort(f)
      PROVE  Seen \subseteq Seen'
  <2>1. /\ GiveUp(hand[f], f) /\ hand' = [hand EXCEPT ![f] = {}]
        /\ UNCHANGED <<jobs, job, uploaded>>
    BY <1>6 DEF FlushAbort, work
  <2>2. hand[f] \in SUBSET Envelopes /\ f \in Causes
    BY <1>0 DEF Flushers, Causes
  <2>3. /\ LostTo(Causes) \subseteq LostTo(Causes)'
        /\ \A e \in hand[f] : e \in uploaded \/ e \in LostTo(Causes)'
    BY <2>1, <2>2, GivenUp
  <2>4. \A g \in Flushers : g # f => hand'[g] = hand[g]
    BY <1>0, <2>1
  <2>5. QED
    BY <2>1, <2>3, <2>4, WhereSeen, WhereSeenNext DEF Queued
<1>7. ASSUME NEW w \in Workers, WorkerStep(w)
      PROVE  Seen \subseteq Seen'
  <2>1. CASE Take(w)
    <3>1. /\ jobs # <<>> /\ jobs' = Tail(jobs)
          /\ job' = [job EXCEPT ![w] = Head(jobs)]
          /\ wpc[w] = "idle"
          /\ UNCHANGED <<hand, uploaded, lost>>
      BY <2>1 DEF Take, flush
    <3>2. Queued = Queued' \cup Head(jobs)
      BY <1>0, <3>1, QueueTaken
    <3>3. job[w] = {}
      BY <3>1 DEF WInv, IdleHands
    <3>4. /\ \A x \in Workers : job[x] \subseteq job'[x]
          /\ job'[w] = Head(jobs)
      BY <1>0, <3>1, <3>3
    <3>5. QED
      BY <1>1, <3>1, <3>2, <3>4, WhereSeen, WhereSeenNext
  <2>2. CASE Put(w) \/ Fallback(w)
    <3>1. /\ uploaded' = uploaded \cup job[w]
          /\ job' = [job EXCEPT ![w] = {}]
          /\ UNCHANGED <<hand, jobs, lost>>
      BY <2>2 DEF Put, Fallback, Done, flush
    <3>2. \A x \in Workers : \A e \in job[x] : e \in job'[x] \/ e \in uploaded'
      BY <1>0, <3>1
    <3>3. QED
      BY <1>1, <3>1, <3>2, WhereSeen, WhereSeenNext DEF Queued
  <2>3. CASE PutFails(w)
    <3>1. uploaded \subseteq uploaded' /\ UNCHANGED <<hand, jobs, job, lost>>
      BY <2>3 DEF PutFails, flush
    <3>2. QED
      BY <1>1, <3>1, WhereSeen, WhereSeenNext DEF Queued
  <2>4. CASE BeginDrain(w) \/ ExitWorker(w)
    BY <1>2, <2>4 DEF BeginDrain, ExitWorker, flush
  <2>5. CASE FallbackFails(w)
    <3>1. PICK c \in Causes : GiveUp(job[w], c)
      BY <2>5 DEF FallbackFails, Causes
    <3>2. job' = [job EXCEPT ![w] = {}] /\ UNCHANGED <<hand, jobs, uploaded>>
      BY <2>5 DEF FallbackFails, Done, flush
    <3>3. /\ LostTo(Causes) \subseteq LostTo(Causes)'
          /\ \A e \in job[w] : e \in uploaded \/ e \in LostTo(Causes)'
      BY <1>0, <3>1, GivenUp
    <3>4. \A x \in Workers : x # w => job'[x] = job[x]
      BY <1>0, <3>2
    <3>5. QED
      BY <3>2, <3>3, <3>4, WhereSeen, WhereSeenNext DEF Queued
  <2>6. QED
    BY <1>7, <2>1, <2>2, <2>3, <2>4, <2>5 DEF WorkerStep
<1>8. ASSUME NEW s \in Sessions, Write(s) \/ Close(s)
      PROVE  UNCHANGED <<jobs, hand, job, uploaded, lost>>
  BY <1>8 DEF Write, Close, flush, work
<1>9. CASE LoopStep \/ MainStep \/ Signal \/ Expire \/ UNCHANGED vars
  <2>1. UNCHANGED <<jobs, hand, job, uploaded, lost>>
    BY <1>9 DEF LoopStep, LoopTick, LoopStop, LoopExit, MainStep, DrainLook,
                DrainFlush, Stop, Stopped, Signal, Expire, vars, flush, work
  <2>2. QED
    BY <1>2, <2>1
<1>10. QED
  BY <1>2, <1>3, <1>4, <1>5, <1>6, <1>7, <1>8, <1>9 DEF Next

\* Every numbered envelope is alive or lost with a cause.
LEMMA AccountedStep ==
  ASSUME TypeOK, WInv, Accounted, [Next]_vars
  PROVE  Accounted'
<1>1. Extracted \subseteq Seen /\ Seen \subseteq Seen'
  BY StaysSeen DEF Accounted
<1>2. CASE UNCHANGED seq
  BY <1>1, <1>2 DEF Accounted, Extracted
<1>3. ASSUME NEW f \in Flushers, NEW s \in Sessions, Extract(f, s)
      PROVE  Accounted'
  <2>1. CASE UNCHANGED <<pending, seq, hand, ends>>
    BY <1>2, <2>1
  <2>2. CASE /\ seq' = [seq EXCEPT ![s] = @ + 1]
             /\ hand' = [hand EXCEPT ![f] = @ \cup {<<s, seq[s]>>}]
    <3>1. seq \in [Sessions -> 0..MaxSeq] /\ hand \in [Flushers -> SUBSET Envelopes]
      BY DEF TypeOK
    <3>2. ASSUME NEW e \in Extracted', e \notin Extracted
          PROVE  e = <<s, seq[s]>>
      <4>1. PICK t \in Sessions, n \in 0..(MaxSeq - 1) : e = <<t, n>>
        BY <3>2 DEF Extracted, Envelopes
      <4>2. n < seq'[t] /\ ~(n < seq[t])
        BY <3>2, <4>1 DEF Extracted
      <4>3. t = s /\ n = seq[s]
        BY <2>2, <3>1, <4>2, UploadAssumption DEF UploadAssumption
      <4>4. QED
        BY <4>1, <4>3
    <3>3. <<s, seq[s]>> \in Seen'
      <4>1. <<s, seq[s]>> \in hand'[f]
        BY <2>2, <3>1
      <4>2. QED
        BY <4>1, WhereSeenNext
    <3>4. QED
      BY <1>1, <3>2, <3>3 DEF Accounted
  <2>3. QED
    BY <1>3, <2>1, <2>2, ExtractEffect
<1>4. ASSUME \A f \in Flushers, s \in Sessions : ~Extract(f, s)
      PROVE  UNCHANGED seq
  <2>1. ASSUME NEW f \in Flushers, FlushStep(f) PROVE UNCHANGED seq
    BY <1>4, <2>1 DEF FlushStep, HoldAbort, Encode, HandOver, FlushAbort,
                      RemoveEnded, sess
  <2>2. ASSUME NEW w \in Workers, WorkerStep(w) PROVE UNCHANGED seq
    BY <2>2 DEF WorkerStep, Take, BeginDrain, ExitWorker, Put, PutFails,
                Fallback, FallbackFails, Done, sess
  <2>3. ASSUME NEW s \in Sessions, Write(s) \/ Close(s) PROVE UNCHANGED seq
    BY <2>3 DEF Write, Close
  <2>4. CASE LoopStep \/ MainStep \/ Signal \/ Expire \/ UNCHANGED vars
    BY <2>4 DEF LoopStep, LoopTick, LoopStop, LoopExit, MainStep, DrainLook,
                DrainFlush, Stop, Stopped, Signal, Expire, vars, sess
  <2>5. QED
    BY <2>1, <2>2, <2>3, <2>4 DEF Next
<1>5. QED
  BY <1>2, <1>3, <1>4

\* The context stays cancelled, and Drain's time stays over.
LEMMA NoWayBack ==
  ASSUME [Next]_vars
  PROVE  (cancelled => cancelled') /\ (expired => expired')
<1>1. CASE UNCHANGED <<work, main>>
  BY <1>1 DEF main
<1>2. CASE Signal \/ Expire \/ Stop \/ Stopped
  BY <1>2 DEF Signal, Expire, Stop, Stopped
<1>3. ASSUME NEW w \in Workers, WorkerStep(w) PROVE UNCHANGED main
  BY <1>3 DEF WorkerStep, Take, BeginDrain, ExitWorker, Put, PutFails,
              Fallback, FallbackFails, Done
<1>4. QED
  BY <1>1, <1>2, <1>3, SessionSteps DEF Next, MainStep, main

\* Every cause has its time.
LEMMA CausesKnownStep ==
  ASSUME TypeOK, WInv, EInv, CausesKnown, [Next]_vars
  PROVE  CausesKnown'
<1>1. CASE UNCHANGED lost
  BY <1>1, NoWayBack DEF CausesKnown
<1>2. ASSUME NEW f \in Flushers, FlushAbort(f) PROVE CausesKnown'
  <2>1. \A e, c : <<e, c>> \in lost' => <<e, c>> \in lost \/ c = f
    BY <1>2 DEF FlushAbort, GiveUp
  <2>2. f = "loop" \/ f = "drain"
    BY DEF Flushers
  <2>3. f = "loop" => cancelled
    BY <1>2 DEF FlushAbort, ContextDone, WInv, ShutdownOrder
  <2>4. f = "drain" => expired
    <3>1. fpc[f] = "send" /\ (ContextDone(f) \/ stopped)
      BY <1>2 DEF FlushAbort
    <3>2. f = "drain" => ~stopped
      BY <3>1 DEF EInv, Endings
    <3>3. QED
      BY <3>1, <3>2 DEF ContextDone
  <2>5. QED
    BY <2>1, <2>2, <2>3, <2>4, NoWayBack DEF CausesKnown
<1>3. ASSUME NEW w \in Workers, FallbackFails(w) PROVE CausesKnown'
  <2>1. ContextDead(w) => cancelled
    BY DEF ContextDead, WInv, ShutdownOrder
  <2>2. \A e, c : <<e, c>> \in lost' =>
          \/ <<e, c>> \in lost
          \/ c = "context" /\ cancelled
          \/ c = "storage"
    BY <1>3, <2>1 DEF FallbackFails, GiveUp
  <2>3. QED
    BY <2>2, NoWayBack DEF CausesKnown
<1>4. ASSUME NEW f \in Flushers, FlushStep(f), ~FlushAbort(f) PROVE UNCHANGED lost
  BY <1>4 DEF FlushStep, HoldAbort, Extract, Encode, HandOver, RemoveEnded
<1>5. ASSUME NEW w \in Workers, WorkerStep(w), ~FallbackFails(w) PROVE UNCHANGED lost
  BY <1>5 DEF WorkerStep, Take, BeginDrain, ExitWorker, Put, PutFails, Fallback
<1>6. CASE \/ \E s \in Sessions : Write(s) \/ Close(s)
           \/ LoopStep \/ MainStep \/ Signal \/ Expire \/ UNCHANGED vars
  BY <1>1, <1>6 DEF Write, Close, LoopStep, LoopTick, LoopStop, LoopExit, MainStep,
                    DrainLook, DrainFlush, Stop, Stopped, Signal, Expire, vars
<1>7. QED
  BY <1>1, <1>2, <1>3, <1>4, <1>5, <1>6 DEF Next

LInv == Accounted /\ CausesKnown

LEMMA LInvAlways == Spec => []LInv
<1>1. Init => LInv
  <2>1. ASSUME Init PROVE Extracted = {}
    BY <2>1 DEF Init, Extracted, Envelopes
  <2>2. QED
    BY <2>1 DEF Init, LInv, Accounted, CausesKnown
<1>2. TypeOK /\ WInv /\ EInv /\ LInv /\ [Next]_vars => LInv'
  BY AccountedStep, CausesKnownStep DEF LInv
<1>3. QED
  BY <1>1, <1>2, UploadTypeCorrect, WInvAlways, EInvAlways, PTL DEF Spec

\* Until the signal an envelope that left its buffer is in a flusher's hand, in
\* uploadJobs, with a worker or stored, or UploadByIndex and UploadAny both
\* failed with a live context: nobody would send its bytes again.
THEOREM NothingIsLost == Spec => []NothingLostRunning
<1>1. ASSUME TypeOK, WInv, LInv, ~cancelled
      PROVE  Extracted \subseteq Alive \cup LostTo({"storage"})
  <2>1. ~expired
    BY <1>1 DEF WInv, ShutdownOrder
  <2>2. ASSUME NEW e \in LostTo(Causes) PROVE e \in LostTo({"storage"})
    <3>1. e \in Envelopes /\ \E c \in Causes : <<e, c>> \in lost
      BY DEF LostTo
    <3>2. PICK c \in Causes : <<e, c>> \in lost
      BY <3>1
    <3>3. c # "loop" /\ c # "context" /\ c # "drain"
      BY <1>1, <2>1, <3>1, <3>2 DEF LInv, CausesKnown
    <3>4. c = "storage"
      BY <3>3 DEF Causes
    <3>5. QED
      BY <3>1, <3>2, <3>4 DEF LostTo
  <2>3. QED
    BY <1>1, <2>2 DEF LInv, Accounted, Seen
<1>2. TypeOK /\ WInv /\ LInv => NothingLostRunning
  BY <1>1 DEF NothingLostRunning
<1>3. QED
  BY <1>2, UploadTypeCorrect, WInvAlways, LInvAlways, PTL

-----------------------------------------------------------------------------
(* Shutdown.                                                                *)

\* Buffers only shrink, unless somebody writes.
LEMMA BuffersShrink ==
  ASSUME TypeOK, [Next]_vars, \A s \in Sessions : ~Write(s), BuffersEmpty
  PROVE  BuffersEmpty'
<1>0. pending \in [Sessions -> 0..Writes] /\ registered \subseteq Sessions
  BY DEF TypeOK
<1>1. CASE UNCHANGED pending /\ registered' \subseteq registered
  BY <1>1 DEF BuffersEmpty
<1>2. ASSUME NEW f \in Flushers, NEW s \in Sessions, Extract(f, s)
      PROVE  BuffersEmpty'
  <2>1. UNCHANGED registered
    BY <1>2 DEF Extract
  <2>2. UNCHANGED pending \/ \E n \in 0..Writes : n <= pending[s] /\ pending' = [pending EXCEPT ![s] = n]
    BY <1>2, ExtractEffect
  <2>3. ASSUME NEW n \in 0..Writes, n <= pending[s], pending' = [pending EXCEPT ![s] = n]
        PROVE  \A t \in Sessions : pending[t] = 0 => pending'[t] = 0
    BY <1>0, <2>3
  <2>4. \A t \in Sessions : pending[t] = 0 => pending'[t] = 0
    BY <2>2, <2>3
  <2>5. QED
    BY <1>0, <2>1, <2>4 DEF BuffersEmpty
<1>3. ASSUME NEW f \in Flushers, FlushStep(f), \A s \in Sessions : ~Extract(f, s)
      PROVE  UNCHANGED pending /\ registered' \subseteq registered
  BY <1>3 DEF FlushStep, HoldAbort, Encode, HandOver, FlushAbort, RemoveEnded, sess
<1>4. ASSUME NEW s \in Sessions, Close(s)
      PROVE  UNCHANGED <<pending, registered>>
  BY <1>4 DEF Close
<1>5. ASSUME NEW w \in Workers, WorkerStep(w)
      PROVE  UNCHANGED <<pending, registered>>
  BY <1>5 DEF WorkerStep, Take, BeginDrain, ExitWorker, Put, PutFails, Fallback,
              FallbackFails, Done, sess
<1>6. CASE LoopStep \/ MainStep \/ Signal \/ Expire \/ UNCHANGED vars
  <2>1. UNCHANGED <<pending, registered>>
    BY <1>6 DEF LoopStep, LoopTick, LoopStop, LoopExit, MainStep, DrainLook,
                DrainFlush, Stop, Stopped, Signal, Expire, vars, sess
  <2>2. QED
    BY <1>1, <2>1
<1>7. QED
  BY <1>1, <1>2, <1>3, <1>4, <1>5, <1>6 DEF Next

\* Drain's verdict on the buffers holds until Stop has acted on it.
LEMMA DrainFoundStep ==
  ASSUME Quiet, TypeOK, WInv, DrainFound, [Next]_vars
  PROVE  DrainFound'
<1> USE DEF Flushers
<1>0. fpc \in [Flushers -> {"idle", "decide", "extract", "send", "exited"}]
  BY DEF TypeOK
<1>1. ASSUME \A s \in Sessions : ~Write(s),
             UNCHANGED <<mpc, expired, stopped, tail>>,
             fpc'["drain"] = "decide" => fpc["drain"] = "decide"
      PROVE  DrainFound'
  BY <1>1, BuffersShrink DEF DrainFound
<1>2. ASSUME NEW s \in Sessions, Write(s) PROVE DrainFound'
  <2>1. ~cancelled /\ UNCHANGED <<fpc, mpc, stopped>>
    BY <1>2 DEF Write, flush, main
  <2>2. ~stopped /\ mpc = "run"
    BY <2>1 DEF WInv, ShutdownOrder
  <2>3. QED
    BY <2>1, <2>2 DEF DrainFound
<1>3. ASSUME NEW s \in Sessions, Close(s)
      PROVE  (\A x \in Sessions : ~Write(x)) /\ UNCHANGED <<fpc, mpc, expired, stopped, tail>>
  <2>1. UNCHANGED <<todo, fpc, mpc, expired, stopped, tail>>
    BY <1>3 DEF Close, flush, main
  <2>2. \A x \in Sessions : ~Write(x)
    BY <2>1 DEF Write, TypeOK
  <2>3. QED
    BY <2>1, <2>2
<1>4. ASSUME UNCHANGED todo PROVE \A x \in Sessions : ~Write(x)
  BY <1>4 DEF Write, TypeOK
<1>5. ASSUME NEW f \in Flushers, FlushStep(f) PROVE DrainFound'
  <2>1. UNCHANGED <<todo, mpc, expired, stopped, tail>>
    BY <1>5 DEF FlushStep, HoldAbort, Extract, Encode, HandOver, FlushAbort,
                RemoveEnded, sess, main
  <2>2. fpc'["drain"] = "decide" => fpc["drain"] = "decide"
    BY <1>0, <1>5 DEF FlushStep, HoldAbort, Extract, Encode, HandOver, FlushAbort,
                      RemoveEnded, FlushEnd
  <2>3. QED
    BY <1>1, <1>4, <2>1, <2>2
<1>6. CASE LoopStep
  <2>1. UNCHANGED <<todo, mpc, expired, stopped, tail>>
    BY <1>6 DEF LoopStep, LoopTick, LoopStop, LoopExit, sess, main
  <2>2. fpc'["drain"] = "decide" => fpc["drain"] = "decide"
    BY <1>0, <1>6 DEF LoopStep, LoopTick, LoopStop, LoopExit, Snapshot
  <2>3. QED
    BY <1>1, <1>4, <2>1, <2>2
<1>7. CASE DrainLook
  <2>1. /\ mpc' = "drain" /\ UNCHANGED <<pending, registered, expired, stopped>>
        /\ tail' = \E s \in registered : pending[s] > 0
        /\ mpc = "drain"
    BY <1>7 DEF DrainLook, sess, main
  <2>2. ~stopped
    BY <2>1 DEF WInv, ShutdownOrder
  <2>3. tail' \/ BuffersEmpty'
    BY <2>1, UploadAssumption DEF BuffersEmpty, TypeOK, UploadAssumption
  <2>4. QED
    BY <2>1, <2>2, <2>3 DEF DrainFound
<1>8. CASE DrainFlush
  <2>1. /\ UNCHANGED <<pending, registered, expired, stopped>>
        /\ fpc'["drain"] # "decide"
    BY <1>0, <1>8 DEF DrainFlush, Snapshot, sess, main
  <2>2. QED
    BY <2>1 DEF DrainFound, BuffersEmpty
<1>9. CASE Signal
  <2>1. mpc = "run" /\ UNCHANGED <<pending, registered, fpc, tail, expired, stopped>>
    BY <1>9 DEF Signal, sess, flush
  <2>2. QED
    BY <2>1 DEF DrainFound, BuffersEmpty
<1>10. CASE Expire
  <2>1. expired' /\ UNCHANGED <<pending, registered, fpc, tail, mpc, stopped>>
    BY <1>10 DEF Expire, sess, flush
  <2>2. QED
    BY <2>1 DEF DrainFound, BuffersEmpty
<1>11. CASE Stop
  <2>1. fpc'["drain"] # "decide" /\ UNCHANGED <<pending, registered, expired>>
    BY <1>0, <1>11 DEF Stop, sess
  <2>2. expired \/ BuffersEmpty
    BY <1>11 DEF Stop, NothingToDrain, DrainFound
  <2>3. QED
    BY <2>1, <2>2 DEF DrainFound, BuffersEmpty
<1>12. CASE Stopped
  <2>1. mpc = "stopping" /\ UNCHANGED <<pending, registered, fpc, tail, expired, stopped>>
    BY <1>12 DEF Stopped, sess, flush
  <2>2. QED
    BY <2>1 DEF DrainFound, BuffersEmpty
<1>13. ASSUME NEW w \in Workers, WorkerStep(w) PROVE DrainFound'
  <2>1. UNCHANGED <<pending, registered, fpc, tail, mpc, expired, stopped>>
    BY <1>13 DEF WorkerStep, Take, BeginDrain, ExitWorker, Put, PutFails, Fallback,
                 FallbackFails, Done, sess, flush, main
  <2>2. QED
    BY <2>1 DEF DrainFound, BuffersEmpty
<1>14. CASE UNCHANGED vars
  <2>1. UNCHANGED <<pending, registered, fpc, tail, mpc, expired, stopped>>
    BY <1>14 DEF vars, sess, flush, main
  <2>2. QED
    BY <2>1 DEF DrainFound, BuffersEmpty
<1>15. QED
  BY <1>1, <1>2, <1>3, <1>5, <1>6, <1>7, <1>8, <1>9, <1>10, <1>11, <1>12, <1>13,
     <1>14 DEF Next, MainStep

QInv == OnePlace /\ AtStopTaken

\* What a step may do without disturbing QInv: give hands and the queue no
\* envelope, and no worker its leave.
LEMMA QInvKept ==
  ASSUME QInv,
         UNCHANGED <<seq, stopped, atStop>>,
         \A f \in Flushers : hand'[f] \subseteq hand[f],
         Queued' \subseteq Queued,
         \A w \in Workers : wpc'[w] = "exited" => wpc[w] = "exited"
  PROVE  QInv'
<1>1. Extracted' = Extracted
  BY DEF Extracted
<1>2. OnePlace'
  BY <1>1 DEF QInv, OnePlace, Flushers
<1>3. AtStopTaken'
  BY <1>1 DEF QInv, AtStopTaken
<1>4. QED
  BY <1>2, <1>3 DEF QInv

\* An extraction hands over an envelope with a number nobody had.
LEMMA QInvExtract ==
  ASSUME TypeOK, QInv, NEW f \in Flushers, NEW s \in Sessions, Extract(f, s)
  PROVE  QInv'
<1>1. UNCHANGED <<jobs, wpc, stopped, atStop>>
  BY DEF Extract, work, main
<1>2. Queued' = Queued
  BY <1>1 DEF Queued
<1>3. CASE UNCHANGED <<pending, seq, hand, ends>>
  BY <1>1, <1>2, <1>3, QInvKept
<1>4. CASE /\ seq[s] < MaxSeq
           /\ seq' = [seq EXCEPT ![s] = @ + 1]
           /\ hand' = [hand EXCEPT ![f] = @ \cup {<<s, seq[s]>>}]
  <2>0. /\ seq \in [Sessions -> 0..MaxSeq]
        /\ hand \in [Flushers -> SUBSET Envelopes]
    BY DEF TypeOK
  <2>1. <<s, seq[s]>> \in Envelopes
    <3>1. seq[s] \in 0..(MaxSeq - 1)
      BY <1>4, <2>0, UploadAssumption DEF UploadAssumption
    <3>2. QED
      BY <3>1 DEF Envelopes
  <2>2. <<s, seq[s]>> \notin Extracted
    BY <2>0, UploadAssumption DEF Extracted, UploadAssumption
  <2>3. <<s, seq[s]>> \in Extracted'
    <3>1. seq'[s] = seq[s] + 1
      BY <1>4, <2>0
    <3>2. seq[s] < seq'[s]
      BY <3>1, <2>0, UploadAssumption DEF UploadAssumption
    <3>3. QED
      BY <2>1, <3>2 DEF Extracted
  <2>4. Extracted \subseteq Extracted'
    <3>1. \A t \in Sessions : \A n \in 0..(MaxSeq - 1) : n < seq[t] => n < seq'[t]
      BY <1>4, <2>0, UploadAssumption DEF UploadAssumption
    <3>2. ASSUME NEW e \in Extracted PROVE e \in Extracted'
      <4>1. PICK t \in Sessions, n \in 0..(MaxSeq - 1) : e = <<t, n>> /\ n < seq[t]
        BY <3>2 DEF Extracted, Envelopes
      <4>2. QED
        BY <3>1, <4>1 DEF Extracted, Envelopes
    <3>3. QED
      BY <3>2
  <2> DEFINE e == <<s, seq[s]>>
  <2>5. \A g \in Flushers : hand'[g] = IF g = f THEN hand[g] \cup {e} ELSE hand[g]
    BY <1>4, <2>0
  <2> HIDE DEF e
  <2>6. e \notin Extracted /\ e \in Extracted'
    BY <2>2, <2>3 DEF e
  <2>7. OnePlace'
    BY <1>2, <2>4, <2>5, <2>6 DEF QInv, OnePlace, Flushers
  <2>8. AtStopTaken'
    BY <1>1, <1>2, <2>4, <2>5, <2>6 DEF QInv, AtStopTaken
  <2>9. QED
    BY <2>7, <2>8 DEF QInv
<1>5. QED
  BY <1>3, <1>4, ExtractEffect

LEMMA QInvHandOver ==
  ASSUME TypeOK, QInv, NEW f \in Flushers, HandOver(f)
  PROVE  QInv'
<1>1. PICK file \in SUBSET hand[f] :
        /\ jobs' = Append(jobs, file)
        /\ hand' = [hand EXCEPT ![f] = @ \ file]
  BY DEF HandOver
<1>2. UNCHANGED <<seq, wpc, stopped, atStop>>
  BY DEF HandOver, sess, work, main
<1>3. hand \in [Flushers -> SUBSET Envelopes] /\ jobs \in Seq(SUBSET Envelopes)
  BY DEF TypeOK
<1>4. Queued' = Queued \cup file
  BY <1>1, <1>3, QueueAppended
<1>5. \A g \in Flushers : hand'[g] = IF g = f THEN hand[g] \ file ELSE hand[g]
  BY <1>1, <1>3
<1>6. Extracted' = Extracted
  BY <1>2 DEF Extracted
<1>7. file \subseteq hand[f]
  BY <1>1
<1>8. OnePlace'
  BY <1>4, <1>5, <1>6, <1>7 DEF QInv, OnePlace, Flushers
<1>9. AtStopTaken'
  BY <1>2, <1>4, <1>5, <1>6, <1>7 DEF QInv, AtStopTaken
<1>10. QED
  BY <1>8, <1>9 DEF QInv

LEMMA QInvStop ==
  ASSUME WInv, QInv, Stop
  PROVE  QInv'
<1>1. /\ mpc = "drain" /\ stopped' = TRUE /\ atStop' = Queued
      /\ UNCHANGED <<seq, hand, jobs, wpc>>
  BY DEF Stop, sess, work
<1>2. \A w \in Workers : wpc[w] # "exited"
  BY <1>1 DEF WInv, ShutdownOrder
<1>3. Queued' = Queued /\ Extracted' = Extracted
  BY <1>1 DEF Queued, Extracted
<1>4. OnePlace'
  BY <1>1, <1>3 DEF QInv, OnePlace
<1>5. AtStopTaken'
  BY <1>1, <1>2, <1>3 DEF QInv, OnePlace, AtStopTaken
<1>6. QED
  BY <1>4, <1>5 DEF QInv

LEMMA QInvWorker ==
  ASSUME TypeOK, QInv, NEW w \in Workers, WorkerStep(w)
  PROVE  QInv'
<1>0. wpc \in [Workers -> {"idle", "put", "fallback", "exited"}]
  BY DEF TypeOK
<1>1. UNCHANGED <<seq, hand, stopped, atStop>>
  BY DEF WorkerStep, Take, BeginDrain, ExitWorker, Put, PutFails, Fallback,
         FallbackFails, Done, sess, flush, main
<1>2. Queued' \subseteq Queued
  <2>1. CASE Take(w)
    BY <2>1, QueueTaken DEF Take, TypeOK
  <2>2. CASE ~Take(w)
    <3>1. UNCHANGED jobs
      BY <2>2 DEF WorkerStep, BeginDrain, ExitWorker, Put, PutFails, Fallback,
                  FallbackFails, Done
    <3>2. QED
      BY <3>1 DEF Queued
  <2>3. QED
    BY <2>1, <2>2
<1>3. CASE ExitWorker(w)
  <2>1. jobs = <<>> /\ UNCHANGED jobs
    BY <1>3 DEF ExitWorker, Leaves
  <2>2. Queued' = {}
    BY <2>1 DEF Queued
  <2>3. Extracted' = Extracted
    BY <1>1 DEF Extracted
  <2>4. OnePlace'
    BY <1>1, <1>2, <2>3 DEF QInv, OnePlace
  <2>5. AtStopTaken'
    BY <1>1, <2>2, <2>3 DEF QInv, AtStopTaken
  <2>6. QED
    BY <2>4, <2>5 DEF QInv
<1>4. CASE ~ExitWorker(w)
  <2>1. \E l \in {"idle", "put", "fallback"} : wpc' = wpc \/ wpc' = [wpc EXCEPT ![w] = l]
    BY <1>4 DEF WorkerStep, Take, BeginDrain, Put, PutFails, Fallback, FallbackFails,
                Done
  <2>2. \A x \in Workers : wpc'[x] = "exited" => wpc[x] = "exited"
    BY <1>0, <2>1
  <2>3. QED
    BY <1>1, <1>2, <2>2, QInvKept
<1>5. QED
  BY <1>3, <1>4

LEMMA QInvAlways == Spec => []QInv
<1>1. Init => QInv
  BY DEF Init, QInv, OnePlace, AtStopTaken, Queued, Flushers
<1>2. TypeOK /\ WInv /\ QInv /\ [Next]_vars => QInv'
  <2> SUFFICES ASSUME TypeOK, WInv, QInv, [Next]_vars PROVE QInv'
    OBVIOUS
  <2>1. ASSUME NEW f \in Flushers, FlushStep(f) PROVE QInv'
    <3>1. CASE \/ \E s \in Sessions : Extract(f, s)
               \/ HandOver(f)
      BY <3>1, QInvExtract, QInvHandOver
    <3>2. CASE HoldAbort(f) \/ Encode(f) \/ FlushAbort(f) \/ RemoveEnded(f)
      <4>1. /\ UNCHANGED <<seq, stopped, atStop, jobs, wpc>>
            /\ hand' = hand \/ hand' = [hand EXCEPT ![f] = {}]
        BY <3>2 DEF HoldAbort, Encode, FlushAbort, RemoveEnded, sess, work, main
      <4>2. hand \in [Flushers -> SUBSET Envelopes]
        BY DEF TypeOK
      <4>3. \A g \in Flushers : hand'[g] \subseteq hand[g]
        BY <4>1, <4>2
      <4>4. Queued' = Queued
        BY <4>1 DEF Queued
      <4>5. QED
        BY <4>1, <4>3, <4>4, QInvKept
    <3>3. QED
      BY <2>1, <3>1, <3>2 DEF FlushStep
  <2>2. ASSUME UNCHANGED <<seq, hand, jobs, wpc, stopped, atStop>> PROVE QInv'
    <3>1. Queued' = Queued
      BY <2>2 DEF Queued
    <3>2. QED
      BY <2>2, <3>1, QInvKept
  <2>3. ASSUME NEW s \in Sessions, Write(s) \/ Close(s) PROVE QInv'
    <3>1. UNCHANGED <<seq, hand, jobs, wpc, stopped, atStop>>
      BY <2>3 DEF Write, Close, flush, work, main
    <3>2. QED
      BY <2>2, <3>1
  <2>4. CASE LoopStep \/ DrainLook \/ DrainFlush \/ Stopped \/ Signal \/ Expire
             \/ UNCHANGED vars
    <3>1. UNCHANGED <<seq, hand, jobs, wpc, stopped, atStop>>
      BY <2>4 DEF LoopStep, LoopTick, LoopStop, LoopExit, DrainLook, DrainFlush,
                  Stopped, Signal, Expire, vars, sess, flush, work, main
    <3>2. QED
      BY <2>2, <3>1
  <2>5. QED
    BY <2>1, <2>3, <2>4, QInvStop, QInvWorker DEF Next, MainStep
<1>3. QED
  BY <1>1, <1>2, UploadTypeCorrect, WInvAlways, PTL DEF Spec

\* Once every writer is gone before the context is cancelled, a shutdown whose
\* Drain returned in time has left no byte in a buffer; no job that was queued
\* when stopCh was closed is left there by the workers; and every envelope is
\* stored or lost in one of the ways that are named, Drain's own hands only when
\* its time was over, those of flushLoop only behind the signal.
THEOREM ShutdownLeavesNothing ==
  ASSUME Quiet
  PROVE  Spec => []ShutdownFlushes
<1>1. Init => DrainFound
  BY DEF Init, DrainFound, Flushers
<1>2. TypeOK /\ WInv /\ DrainFound /\ [Next]_vars => DrainFound'
  BY Quiet, DrainFoundStep
<1>3. DrainFound => DrainLeavesNoTail
  BY DEF DrainFound, BuffersEmpty, DrainLeavesNoTail
<1>4. QInv => QueueDrainedOnStop
  BY UploadAssumption DEF QInv, AtStopTaken, QueueDrainedOnStop, UploadAssumption
<1>5. WInv /\ EInv /\ LInv => EnvelopesAccountedFor
  <2> SUFFICES ASSUME WInv, EInv, LInv PROVE EnvelopesAccountedFor
    OBVIOUS
  <2>1. ASSUME mpc = "exited"
        PROVE  Extracted \subseteq uploaded \cup Queued \cup LostTo(Causes)
    <3>1. \A f \in Flushers : hand[f] = {}
      BY <2>1 DEF EInv, HandsIdle, Endings, Flushers
    <3>2. \A w \in Workers : job[w] = {}
      BY <2>1 DEF EInv, Endings, WInv, IdleHands
    <3>3. QED
      BY <3>1, <3>2, WhereSeen DEF LInv, Accounted
  <2>2. ASSUME NEW e \in LostTo({"drain"}) PROVE expired
    <3>1. e \in Envelopes /\ <<e, "drain">> \in lost
      BY DEF LostTo
    <3>2. "drain" \in Causes
      BY DEF Causes
    <3>3. QED
      BY <3>1, <3>2 DEF LInv, CausesKnown
  <2>3. ASSUME NEW e \in LostTo({"loop", "context"}) PROVE cancelled
    <3>1. e \in Envelopes /\ \E c \in {"loop", "context"} : <<e, c>> \in lost
      BY DEF LostTo
    <3>2. PICK c \in {"loop", "context"} : <<e, c>> \in lost
      BY <3>1
    <3>3. c \in Causes
      BY DEF Causes
    <3>4. QED
      BY <3>1, <3>2, <3>3 DEF LInv, CausesKnown
  <2>4. QED
    BY <2>1, <2>2, <2>3 DEF EnvelopesAccountedFor
<1>6. DrainFound /\ WInv /\ QInv /\ EInv /\ LInv => ShutdownFlushes
  BY <1>3, <1>4, <1>5 DEF ShutdownFlushes
<1>7. QED
  BY <1>1, <1>2, <1>6, UploadTypeCorrect, WInvAlways, QInvAlways, EInvAlways,
     LInvAlways, PTL DEF Spec
=============================================================================
