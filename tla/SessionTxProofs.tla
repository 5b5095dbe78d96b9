--------------------------- MODULE SessionTxProofs ---------------------------
(***************************************************************************)
(* Proofs about SessionTx, for any number of writers, flushers and closers,*)
(* any limit, chunk size and sizes of writes.                              *)
(***************************************************************************)
EXTENDS SessionTx, TLAPS

\* The goroutines by kind.
LEMMA Kinds ==
  /\ Writers \subseteq Procs
  /\ Wakers \subseteq Procs
  /\ Flushers \subseteq Wakers
  /\ Closers \subseteq Wakers
  /\ \A w \in Writers : w \notin Wakers
BY TxAssumption DEF TxAssumption, Procs, Wakers

\* What an attempt to append may change, and how.
LEMMA AttemptType ==
  ASSUME TypeOK, NEW w \in Writers, NEW d \in Sizes \cup {0}, Attempt(w, d)
  PROVE  /\ txLen' \in Nat
         /\ waitCh' \in [Writers -> Nat]
         /\ pc' \in [Procs -> PCs]
         /\ UNCHANGED <<txSeq, closed, batches>>
<1>1. d \in Nat
  BY TxAssumption DEF TxAssumption
<1>2. /\ txLen \in Nat /\ txWait \in Nat
      /\ waitCh \in [Writers -> Nat]
      /\ pc \in [Procs -> PCs]
  BY DEF TypeOK
<1>3. CASE Accept(w, d)
  <2>1. txLen' \in Nat
    BY <1>1, <1>2, <1>3 DEF Accept
  <2>2. pc' \in [Procs -> PCs]
    BY <1>2, <1>3 DEF Accept, Goto, PCs
  <2>3. waitCh' \in [Writers -> Nat]
    BY <1>2, <1>3 DEF Accept
  <2>4. UNCHANGED <<txSeq, closed, batches>>
    BY <1>3 DEF Accept
  <2>5. QED
    BY <2>1, <2>2, <2>3, <2>4
<1>4. CASE Refuse(w, d)
  BY <1>2, <1>4 DEF Refuse, Goto, PCs, buffer
<1>5. CASE Block(w, d)
  BY <1>2, <1>5 DEF Block, Goto, PCs, buffer
<1>6. QED
  BY <1>3, <1>4, <1>5 DEF Attempt

\* Type correctness of the transmit half.
THEOREM TxTypeCorrect == Spec => []TypeOK
<1>1. Init => TypeOK
  <2> SUFFICES ASSUME Init PROVE TypeOK
    OBVIOUS
  <2>1. pc \in [Procs -> PCs] /\ todo \in [Writers -> 0..Writes]
    BY TxAssumption DEF Init, PCs, TxAssumption
  <2>2. batches \in Seq([len : Nat, close : BOOLEAN])
    BY DEF Init
  <2>3. /\ want \in [Writers -> Sizes \cup {0}] /\ waitCh \in [Writers -> Nat]
        /\ old \in [Wakers -> Nat] /\ batch \in [Flushers -> Nat]
    BY DEF Init
  <2>4. /\ txLen \in Nat /\ txSeq \in Nat /\ txWait \in Nat
        /\ fired \subseteq Nat /\ handed \subseteq Nat
    BY DEF Init
  <2>5. /\ closed \in BOOLEAN
        /\ registered \in BOOLEAN /\ cancelled \in BOOLEAN
    BY DEF Init
  <2>6. QED
    BY <2>1, <2>2, <2>3, <2>4, <2>5, Zenon DEF TypeOK
<1>2. TypeOK /\ [Next]_vars => TypeOK'
  <2> SUFFICES ASSUME TypeOK, [Next]_vars PROVE TypeOK'
    OBVIOUS
  <2>0. pc \in [Procs -> PCs]
    BY DEF TypeOK
  <2> USE <2>0, Kinds
  <2>1. ASSUME NEW w \in Writers, Enqueue(w) PROVE TypeOK'
    <3>1. PICK d \in Sizes : /\ want' = [want EXCEPT ![w] = d]
                             /\ Attempt(w, d)
      BY <2>1 DEF Enqueue
    <3>2. want' \in [Writers -> Sizes \cup {0}]
      BY <3>1 DEF TypeOK
    <3>3. todo' \in [Writers -> 0..Writes]
      BY <2>1, TxAssumption DEF Enqueue, TypeOK, TxAssumption
    <3>4. UNCHANGED <<waits, engine, batch>>
      BY <2>1 DEF Enqueue
    <3>5. QED
      BY <3>1, <3>2, <3>3, <3>4, AttemptType DEF TypeOK, waits, engine
  <2>2. ASSUME NEW w \in Writers, Woken(w) \/ GiveUp(w) PROVE TypeOK'
    <3>1. pc' \in [Procs -> PCs]
      BY <2>2 DEF Woken, GiveUp, Goto, PCs
    <3>2. waitCh' \in [Writers -> Nat]
      BY <2>2 DEF Woken, GiveUp, TypeOK
    <3>3. UNCHANGED <<buffer, waits, engine, want, batch, todo>>
      BY <2>2 DEF Woken, GiveUp
    <3>4. QED
      BY <3>1, <3>2, <3>3 DEF TypeOK, buffer, waits, engine
  <2>3. ASSUME NEW w \in Writers, Retry(w) PROVE TypeOK'
    <3>1. want[w] \in Sizes \cup {0}
      BY DEF TypeOK
    <3>2. UNCHANGED <<waits, engine, want, batch, todo>>
      BY <2>3 DEF Retry
    <3>3. CASE Attempt(w, want[w])
      BY <3>1, <3>2, <3>3, AttemptType DEF TypeOK, waits, engine
    <3>4. CASE Goto(w, "idle") /\ UNCHANGED <<buffer, waitCh>>
      <4>1. pc' \in [Procs -> PCs]
        BY <3>4 DEF Goto, PCs
      <4>2. QED
        BY <3>2, <3>4, <4>1 DEF TypeOK, buffer, waits, engine
    <3>5. QED
      BY <2>3, <3>3, <3>4 DEF Retry
  <2>4. ASSUME NEW p \in Wakers, SwapWait(p) PROVE TypeOK'
    <3>1. pc' \in [Procs -> PCs]
      BY <2>4 DEF SwapWait, Goto, PCs
    <3>2. old' \in [Wakers -> Nat] /\ txWait' \in Nat
      BY <2>4 DEF SwapWait, TypeOK
    <3>3. UNCHANGED <<buffer, fired, engine, want, waitCh, batch, todo>>
      BY <2>4 DEF SwapWait
    <3>4. QED
      BY <3>1, <3>2, <3>3 DEF TypeOK, buffer, engine
  <2>5. ASSUME NEW p \in Wakers, Signal(p) PROVE TypeOK'
    <3>1. pc' \in [Procs -> PCs]
      BY <2>5 DEF Signal, Goto, PCs
    <3>2. fired' \subseteq Nat /\ old' \in [Wakers -> Nat]
      BY <2>5 DEF Signal, TypeOK
    <3>3. UNCHANGED <<buffer, txWait, engine, want, waitCh, batch, todo>>
      BY <2>5 DEF Signal
    <3>4. QED
      BY <3>1, <3>2, <3>3 DEF TypeOK, buffer, engine
  <2>6. ASSUME NEW f \in Flushers, Extract(f) PROVE TypeOK'
    <3>1. closed' \in BOOLEAN /\ pc' \in [Procs -> PCs]
      BY <2>6 DEF Extract, HasBatch, BatchLen, FinalChunk, TypeOK, Goto, PCs
    <3>2. PICK len \in Nat, close \in BOOLEAN :
            /\ txLen' \in Nat /\ txSeq' \in Nat
            /\ \/ batches' = Append(batches, [len |-> len, close |-> close])
               \/ UNCHANGED batches
      <4> DEFINE len == IF txLen > Chunk THEN Chunk ELSE txLen
                 close == closed' /\ len = txLen
      <4>1. len \in Nat /\ close \in BOOLEAN
        BY TxAssumption DEF TypeOK, TxAssumption
      <4>2. /\ txLen' \in Nat /\ txSeq' \in Nat
            /\ \/ batches' = Append(batches, [len |-> len, close |-> close])
               \/ UNCHANGED batches
        BY <2>6, TxAssumption DEF Extract, HasBatch, BatchLen, FinalChunk, TypeOK, TxAssumption
      <4>3. QED
        BY <4>1, <4>2
    <3>3. batches' \in Seq([len : Nat, close : BOOLEAN])
      <4> DEFINE Batch == [len : Nat, close : BOOLEAN]
      <4>1. [len |-> len, close |-> close] \in Batch
        OBVIOUS
      <4>2. batches \in Seq(Batch)
        BY DEF TypeOK
      <4> HIDE DEF Batch
      <4>3. batches' \in Seq(Batch)
        BY <3>2, <4>1, <4>2
      <4>4. QED
        BY <4>3 DEF Batch
    <3>4. batch' \in [Flushers -> Nat]
      BY <2>6 DEF Extract, HasBatch, BatchLen, FinalChunk, TypeOK
    <3>5. UNCHANGED <<waits, engine, want, waitCh, todo>>
      BY <2>6 DEF Extract, HasBatch, BatchLen, FinalChunk
    <3>6. QED
      BY <3>1, <3>2, <3>3, <3>4, <3>5 DEF TypeOK, waits, engine
  <2>7. ASSUME NEW f \in Flushers, HandOver(f) PROVE TypeOK'
    <3>1. pc' \in [Procs -> PCs]
      BY <2>7 DEF HandOver, SentClose, Goto, PCs
    <3>2. handed' \subseteq Nat /\ batch' \in [Flushers -> Nat]
      BY <2>7 DEF HandOver, SentClose, TypeOK
    <3>3. UNCHANGED <<buffer, waits, registered, cancelled, want, waitCh, todo>>
      BY <2>7 DEF HandOver, SentClose
    <3>4. QED
      BY <3>1, <3>2, <3>3 DEF TypeOK, buffer, waits
  <2>8. ASSUME NEW f \in Flushers, Snapshot(f) \/ FlushAbort(f) \/ Remove(f)
        PROVE  TypeOK'
    <3>1. pc' \in [Procs -> PCs]
      BY <2>8 DEF Snapshot, FlushAbort, Remove, Goto, PCs
    <3>2. registered' \in BOOLEAN
      <4>1. registered' = registered \/ registered' = FALSE
        BY <2>8 DEF Snapshot, FlushAbort, Remove, engine
      <4>2. QED
        BY <4>1 DEF TypeOK
    <3>3. batch' \in [Flushers -> Nat]
      <4>1. batch' = batch \/ batch' = [batch EXCEPT ![f] = 0]
        BY <2>8 DEF Snapshot, FlushAbort, Remove
      <4>2. QED
        BY <4>1 DEF TypeOK
    <3>4. UNCHANGED <<buffer, waits, cancelled, handed, want, waitCh, todo>>
      BY <2>8 DEF Snapshot, FlushAbort, Remove, engine
    <3>5. QED
      BY <3>1, <3>2, <3>3, <3>4 DEF TypeOK, buffer, waits
  <2>9. ASSUME NEW c \in Closers, Close(c) PROVE TypeOK'
    <3>1. pc' \in [Procs -> PCs] /\ closed' \in BOOLEAN
      BY <2>9 DEF Close, Goto, PCs
    <3>2. UNCHANGED <<txLen, txSeq, batches, waits, engine,
                      want, waitCh, batch, todo>>
      BY <2>9 DEF Close
    <3>3. QED
      BY <3>1, <3>2 DEF TypeOK, waits, engine
  <2>10. CASE PeerClose \/ Cancel
    <3>1. closed' \in BOOLEAN /\ cancelled' \in BOOLEAN
      BY <2>10 DEF PeerClose, Cancel, TypeOK, buffer, engine
    <3>2. UNCHANGED <<txLen, txSeq, batches, waits, registered, handed,
                      pc, want, waitCh, batch, todo>>
      BY <2>10 DEF PeerClose, Cancel, buffer, engine
    <3>3. QED
      BY <3>1, <3>2 DEF TypeOK, waits
  <2>11. CASE UNCHANGED vars
    BY <2>11 DEF vars, TypeOK, buffer, waits, engine
  <2>12. QED
    BY <2>1, <2>2, <2>3, <2>4, <2>5, <2>6, <2>7, <2>8, <2>9, <2>10, <2>11
       DEF Next, WriterStep, FlushStep, WakeStep
<1>3. QED
  BY <1>1, <1>2, PTL DEF Spec

-----------------------------------------------------------------------------
\* The backpressure limit is never exceeded, whatever the writers do at once:
\* the check and the append are one critical section.
THEOREM WithinLimit == Spec => []BufferBounded
<1>1. Init => BufferBounded
  BY TxAssumption DEF Init, BufferBounded, TxAssumption
<1>2. TypeOK /\ BufferBounded /\ [Next]_vars => BufferBounded'
  <2> SUFFICES ASSUME TypeOK, BufferBounded, [Next]_vars PROVE BufferBounded'
    OBVIOUS
  <2> USE DEF BufferBounded
  <2>0. txLen \in Nat /\ Limit \in Nat /\ Chunk \in Nat
    BY TxAssumption DEF TypeOK, TxAssumption
  <2>1. ASSUME NEW w \in Writers, NEW d \in Sizes \cup {0}, Attempt(w, d)
        PROVE  BufferBounded'
    <3>1. d \in Nat
      BY TxAssumption DEF TxAssumption
    <3>2. QED
      BY <2>0, <2>1, <3>1 DEF Attempt, Accept, Refuse, Block, Over, buffer
  <2>2. ASSUME NEW w \in Writers, Enqueue(w) PROVE BufferBounded'
    BY <2>1, <2>2 DEF Enqueue
  <2>3. ASSUME NEW w \in Writers, Retry(w) PROVE BufferBounded'
    <3>1. want[w] \in Sizes \cup {0}
      BY DEF TypeOK
    <3>2. QED
      BY <2>1, <2>3, <3>1 DEF Retry, buffer
  <2>4. ASSUME NEW f \in Flushers, Extract(f) PROVE BufferBounded'
    BY <2>0, <2>4 DEF Extract, HasBatch, BatchLen, FinalChunk
  <2>5. ASSUME \/ \E w \in Writers : Woken(w) \/ GiveUp(w)
               \/ \E p \in Wakers : WakeStep(p)
               \/ \E f \in Flushers : Snapshot(f) \/ HandOver(f) \/ FlushAbort(f)
                                        \/ Remove(f)
               \/ \E c \in Closers : Close(c)
               \/ PeerClose \/ Cancel \/ UNCHANGED vars
        PROVE  BufferBounded'
    BY <2>5 DEF Woken, GiveUp, WakeStep, SwapWait, Signal, Snapshot, HandOver,
                FlushAbort, Remove, Close, PeerClose, Cancel, vars, buffer
  <2>6. QED
    BY <2>2, <2>3, <2>4, <2>5 DEF Next, WriterStep, FlushStep
<1>3. QED
  BY <1>1, <1>2, TxTypeCorrect, PTL DEF Spec

-----------------------------------------------------------------------------
\* Every generation of txWait that was swapped out is closed or about to be.
RetiredCovered ==
  \A g \in 0..(txWait - 1) :
    g \in fired \/ \E p \in Wakers : pc[p] = "signal" /\ old[p] = g

WInv ==
  /\ RetiredCovered
  /\ \A w \in Writers : pc[w] = "wait" => waitCh[w] <= txWait
  /\ NoLostWakeup

\* A step in which no waker advances, nobody starts to wait and the buffer does
\* not shrink preserves WInv.
LEMMA NoWakeKeepsWInv ==
  ASSUME TypeOK, WInv, UNCHANGED waits,
         \A p \in Wakers : pc[p] \in {"swap", "signal"} => pc'[p] = pc[p],
         \A w \in Writers : pc'[w] = "wait" =>
           pc[w] = "wait" /\ waitCh'[w] = waitCh[w] /\ want'[w] = want[w],
         txLen' \in Nat, txLen' >= txLen
  PROVE  WInv'
<1>1. /\ txLen \in Nat /\ Limit \in Nat
      /\ \A w \in Writers : want[w] \in Nat
  <2>1. \A w \in Writers : want[w] \in Sizes \cup {0}
    BY DEF TypeOK
  <2>2. \A d \in Sizes \cup {0} : d \in Nat
    BY TxAssumption DEF TxAssumption
  <2>3. QED
    BY <2>1, <2>2, TxAssumption DEF TypeOK, TxAssumption
<1>2. UNCHANGED <<txWait, fired, old>>
  BY DEF waits
<1>3. RetiredCovered'
  BY <1>2 DEF WInv, RetiredCovered
<1>4. \A w \in Writers : pc'[w] = "wait" => waitCh'[w] <= txWait'
  BY <1>2 DEF WInv
<1>5. ASSUME NEW w \in Writers, pc'[w] = "wait", ~Over(want[w])'
      PROVE  WakePending(w)'
  <2>1. ~Over(want[w])
    BY <1>1, <1>5 DEF Over
  <2>2. WakePending(w)
    BY <1>5, <2>1 DEF WInv, NoLostWakeup
  <2>3. QED
    BY <1>2, <1>5, <2>2 DEF WakePending
<1>6. QED
  BY <1>3, <1>4, <1>5 DEF WInv, NoLostWakeup

LEMMA WInvAlways == Spec => []WInv
<1>1. Init => WInv
  BY Kinds DEF Init, WInv, RetiredCovered, NoLostWakeup
<1>2. TypeOK /\ WInv /\ [Next]_vars => WInv'
  <2> SUFFICES ASSUME TypeOK, WInv, [Next]_vars PROVE WInv'
    OBVIOUS
  <2>0. /\ pc \in [Procs -> PCs]
        /\ waitCh \in [Writers -> Nat]
        /\ want \in [Writers -> Sizes \cup {0}]
        /\ old \in [Wakers -> Nat]
        /\ txWait \in Nat
        /\ txLen \in Nat
    BY DEF TypeOK
  <2> USE <2>0, Kinds
  <2>1. ASSUME NEW w \in Writers, NEW d \in Sizes \cup {0}, Attempt(w, d),
               want' = [want EXCEPT ![w] = d], UNCHANGED waits
        PROVE  WInv'
    <3>1. d \in Nat
      BY TxAssumption DEF TxAssumption
    <3>2. CASE Accept(w, d) \/ Refuse(w, d)
      <4>1. txLen' \in Nat /\ txLen' >= txLen
        BY <3>1, <3>2 DEF Accept, Refuse, buffer
      <4>2. pc' = [pc EXCEPT ![w] = "idle"] /\ UNCHANGED waitCh
        BY <3>2 DEF Accept, Refuse, Goto
      <4>3. QED
        BY <2>1, <4>1, <4>2, NoWakeKeepsWInv
    <3>3. CASE Block(w, d)
      <4>1. /\ pc' = [pc EXCEPT ![w] = "wait"]
            /\ waitCh' = [waitCh EXCEPT ![w] = txWait]
            /\ Over(d)
            /\ UNCHANGED <<txWait, fired, old, txLen>>
        BY <2>1, <3>3 DEF Block, Goto, waits, buffer
      <4>2. RetiredCovered'
        BY <4>1 DEF WInv, RetiredCovered
      <4>3. \A v \in Writers : pc'[v] = "wait" => waitCh'[v] <= txWait'
        BY <4>1 DEF WInv
      <4>4. Over(want[w])'
        BY <2>1, <4>1 DEF Over
      <4>5. \A v \in Writers : v # w /\ WakePending(v) => WakePending(v)'
        BY <4>1 DEF WakePending
      <4>6. \A v \in Writers : v # w /\ pc'[v] = "wait" /\ ~Over(want[v])'
                                 => WakePending(v)'
        BY <2>1, <4>1, <4>5 DEF WInv, NoLostWakeup, Over
      <4>7. QED
        BY <4>2, <4>3, <4>4, <4>6 DEF WInv, NoLostWakeup
    <3>4. QED
      BY <2>1, <3>2, <3>3 DEF Attempt
  <2>2. ASSUME NEW w \in Writers, Enqueue(w) PROVE WInv'
    BY <2>1, <2>2 DEF Enqueue
  <2>3. ASSUME NEW w \in Writers, Retry(w) PROVE WInv'
    <3>1. want' = [want EXCEPT ![w] = want[w]] /\ UNCHANGED waits
      BY <2>3 DEF Retry
    <3>2. want[w] \in Sizes \cup {0}
      OBVIOUS
    <3>3. CASE Attempt(w, want[w])
      BY <2>1, <3>1, <3>2, <3>3
    <3>4. CASE Goto(w, "idle") /\ UNCHANGED <<buffer, waitCh>>
      BY <3>1, <3>4, NoWakeKeepsWInv DEF Goto, buffer
    <3>5. QED
      BY <2>3, <3>3, <3>4 DEF Retry
  <2>4. ASSUME NEW w \in Writers, Woken(w) \/ GiveUp(w) PROVE WInv'
    <3>1. \E l \in {"retry", "idle"} : pc' = [pc EXCEPT ![w] = l]
      BY <2>4 DEF Woken, GiveUp, Goto
    <3>2. UNCHANGED <<waits, want, txLen>>
      BY <2>4 DEF Woken, GiveUp, buffer
    <3>3. \A v \in Writers : v # w => waitCh'[v] = waitCh[v]
      BY <2>4 DEF Woken, GiveUp
    <3>4. QED
      BY <3>1, <3>2, <3>3, NoWakeKeepsWInv
  <2>5. ASSUME NEW p \in Wakers, SwapWait(p) PROVE WInv'
    <3>1. /\ pc[p] = "swap"
          /\ pc' = [pc EXCEPT ![p] = "signal"]
          /\ old' = [old EXCEPT ![p] = txWait]
          /\ txWait' = txWait + 1
          /\ UNCHANGED <<fired, txLen, waitCh, want>>
      BY <2>5 DEF SwapWait, Goto, buffer
    <3>2. \A q \in Wakers : pc[q] = "signal" => pc'[q] = "signal" /\ old'[q] = old[q]
      BY <3>1
    <3>3. pc'[p] = "signal" /\ old'[p] = txWait
      BY <3>1
    <3>4. RetiredCovered'
      BY <3>1, <3>2, <3>3 DEF WInv, RetiredCovered
    <3>5. \A w \in Writers : pc'[w] = "wait" => pc[w] = "wait"
      BY <3>1
    <3>6. \A w \in Writers : pc'[w] = "wait" => waitCh'[w] <= txWait'
      BY <3>1, <3>5 DEF WInv
    <3>7. \A w \in Writers : WakePending(w) => WakePending(w)'
      BY <3>1, <3>2, <3>3 DEF WakePending
    <3>8. NoLostWakeup'
      BY <3>1, <3>5, <3>7 DEF WInv, NoLostWakeup, Over
    <3>9. QED
      BY <3>4, <3>6, <3>8 DEF WInv
  <2>6. ASSUME NEW p \in Wakers, Signal(p) PROVE WInv'
    <3>1. /\ pc[p] = "signal"
          /\ \E l \in {"upload", "done"} : pc' = [pc EXCEPT ![p] = l]
          /\ fired' = fired \cup {old[p]}
          /\ old' = [old EXCEPT ![p] = 0]
          /\ UNCHANGED <<txWait, txLen, waitCh, want>>
      BY <2>6 DEF Signal, Goto, buffer
    <3>2. RetiredCovered'
      BY <3>1 DEF WInv, RetiredCovered
    <3>3. \A w \in Writers : pc'[w] = "wait" => pc[w] = "wait"
      BY <3>1
    <3>4. \A w \in Writers : WakePending(w) => WakePending(w)'
      BY <3>1 DEF WakePending
    <3>5. QED
      BY <3>1, <3>2, <3>3, <3>4 DEF WInv, NoLostWakeup, Over
  <2>7. ASSUME NEW f \in Flushers, Extract(f) PROVE WInv'
    <3>1. UNCHANGED <<txWait, fired, old, waitCh, want>> /\ pc[f] = "extract"
      BY <2>7 DEF Extract, HasBatch, BatchLen, FinalChunk, waits
    <3>2. CASE pc' = [pc EXCEPT ![f] = "swap"]
      <4>1. pc'[f] = "swap" /\ f \in Wakers
        BY <3>2
      <4>2. \A w \in Writers : pc'[w] = "wait" => pc[w] = "wait"
        BY <3>2
      <4>3. RetiredCovered'
        BY <3>1, <3>2 DEF WInv, RetiredCovered
      <4>4. ASSUME NEW w \in Writers, pc'[w] = "wait" PROVE WakePending(w)'
        <5>1. waitCh[w] <= txWait
          BY <4>2, <4>4 DEF WInv
        <5>2. CASE waitCh[w] = txWait
          BY <3>1, <4>1, <5>2 DEF WakePending
        <5>3. CASE waitCh[w] < txWait
          <6>1. waitCh[w] \in 0..(txWait - 1)
            BY <5>3
          <6>2. waitCh[w] \in fired' \/
                \E q \in Wakers : pc'[q] = "signal" /\ old'[q] = waitCh[w]
            BY <3>1, <4>3, <6>1 DEF RetiredCovered
          <6>3. QED
            BY <3>1, <6>2 DEF WakePending
        <5>4. QED
          BY <5>1, <5>2, <5>3
      <4>5. QED
        BY <3>1, <4>2, <4>3, <4>4 DEF WInv, NoLostWakeup
    <3>3. CASE pc' = [pc EXCEPT ![f] = "idle"] /\ UNCHANGED txLen
      BY <3>1, <3>3, NoWakeKeepsWInv DEF waits
    <3>4. QED
      BY <2>7, <3>2, <3>3 DEF Extract, HasBatch, BatchLen, FinalChunk, Goto
  <2>8. ASSUME NEW f \in Flushers,
               Snapshot(f) \/ HandOver(f) \/ FlushAbort(f) \/ Remove(f)
        PROVE  WInv'
    <3>1. /\ pc[f] \notin {"swap", "signal"}
          /\ \E l \in {"extract", "remove", "idle", "done"} :
               pc' = [pc EXCEPT ![f] = l]
      BY <2>8 DEF Snapshot, HandOver, FlushAbort, Remove, Goto
    <3>2. UNCHANGED <<waits, waitCh, want, txLen>>
      BY <2>8 DEF Snapshot, HandOver, FlushAbort, Remove, buffer
    <3>3. QED
      BY <3>1, <3>2, NoWakeKeepsWInv
  <2>9. ASSUME NEW c \in Closers, Close(c) PROVE WInv'
    <3>1. /\ pc[c] = "idle"
          /\ pc' = [pc EXCEPT ![c] = "swap"]
          /\ UNCHANGED <<waits, waitCh, want, txLen>>
      BY <2>9 DEF Close, Goto
    <3>2. QED
      BY <3>1, NoWakeKeepsWInv
  <2>10. CASE PeerClose \/ Cancel \/ UNCHANGED vars
    <3>1. UNCHANGED <<waits, waitCh, want, txLen, pc>>
      BY <2>10 DEF PeerClose, Cancel, vars, buffer
    <3>2. QED
      BY <3>1, NoWakeKeepsWInv
  <2>11. QED
    BY <2>2, <2>3, <2>4, <2>5, <2>6, <2>7, <2>8, <2>9, <2>10
       DEF Next, WriterStep, FlushStep, WakeStep
<1>3. QED
  BY <1>1, <1>2, TxTypeCorrect, PTL DEF Spec

\* A writer blocked on a full buffer that has since been drained always has a
\* waker on the way: the channel is fetched in the same critical section as the
\* check, and the swap comes after the extraction.
THEOREM WakeupNotLost == Spec => []NoLostWakeup
<1>1. WInv => NoLostWakeup
  BY DEF WInv
<1>2. QED
  BY <1>1, WInvAlways, PTL

-----------------------------------------------------------------------------
\* Who touches the numbering: only an extraction draws a number or appends a
\* batch, only a hand over adds to handed, and no other step moves a flusher
\* away from the number it holds.
LEMMA OtherSteps ==
  ASSUME TypeOK, [Next]_vars,
         ~ \E f \in Flushers : Extract(f) \/ HandOver(f) \/ FlushAbort(f)
  PROVE  /\ UNCHANGED <<txSeq, batches, batch, handed>>
         /\ cancelled => cancelled'
         /\ closed => closed'
         /\ \A f \in Flushers :
              pc[f] \in {"swap", "signal", "upload"} =>
                pc'[f] \in {"swap", "signal", "upload"}
<1> USE Kinds
<1>0. pc \in [Procs -> PCs]
  BY DEF TypeOK
<1>1. CASE \E w \in Writers : Enqueue(w) \/ WriterStep(w)
  <2>1. PICK w \in Writers : Enqueue(w) \/ WriterStep(w)
    BY <1>1
  <2>2. UNCHANGED <<txSeq, batches, batch, handed, cancelled, closed>>
    BY <2>1 DEF Enqueue, WriterStep, Woken, GiveUp, Retry, Attempt, Accept,
                Refuse, Block, buffer, engine
  <2>3. \E l \in PCs : pc' = [pc EXCEPT ![w] = l]
    BY <2>1 DEF Enqueue, WriterStep, Woken, GiveUp, Retry, Attempt, Accept,
                Refuse, Block, Goto, PCs
  <2>4. \A f \in Flushers : pc'[f] = pc[f]
    BY <1>0, <2>3
  <2>5. QED
    BY <2>2, <2>4
<1>2. CASE \E f \in Flushers : Snapshot(f) \/ Remove(f)
  BY <1>0, <1>2 DEF Snapshot, Remove, Goto, buffer, engine
<1>3. CASE \E p \in Wakers : WakeStep(p)
  <2>1. PICK p \in Wakers : WakeStep(p)
    BY <1>3
  <2>2. UNCHANGED <<txSeq, batches, batch, handed, cancelled, closed>>
    BY <2>1 DEF WakeStep, SwapWait, Signal, buffer, engine
  <2>3. \E l \in PCs :
          /\ pc' = [pc EXCEPT ![p] = l]
          /\ p \in Flushers => l \in {"signal", "upload"}
    BY <2>1 DEF WakeStep, SwapWait, Signal, Goto, PCs
  <2>4. QED
    BY <1>0, <2>2, <2>3
<1>4. CASE \E c \in Closers : Close(c)
  <2>1. \A c \in Closers : c \notin Flushers
    BY TxAssumption DEF TxAssumption
  <2>2. QED
    BY <1>0, <1>4, <2>1 DEF Close, Goto, engine
<1>5. CASE PeerClose \/ Cancel \/ UNCHANGED vars
  BY <1>5 DEF PeerClose, Cancel, vars, buffer, engine
<1>6. QED
  BY <1>1, <1>2, <1>3, <1>4, <1>5 DEF Next, FlushStep

\* Until shutdown no sequence number is lost between the extraction and the
\* upload queue, however many flushers run: each number is in the hands of the
\* flusher that drew it until the queue has it.
THEOREM SequenceHasNoGap == Spec => []NoGapInSequence
<1>1. Init => NoGapInSequence
  BY DEF Init, NoGapInSequence
<1>2. TypeOK /\ NoGapInSequence /\ [Next]_vars => NoGapInSequence'
  <2> SUFFICES ASSUME TypeOK, NoGapInSequence, [Next]_vars, ~cancelled',
                      NEW n \in 0..(txSeq' - 1)
               PROVE  \/ n \in handed'
                      \/ \E f \in Flushers :
                           /\ batch'[f] = n
                           /\ pc'[f] \in {"swap", "signal", "upload"}
    BY DEF NoGapInSequence
  <2> USE Kinds
  <2>0. /\ pc \in [Procs -> PCs]
        /\ batch \in [Flushers -> Nat]
        /\ txSeq \in Nat
    BY DEF TypeOK
  <2> DEFINE Held(m) == \E f \in Flushers : /\ batch[f] = m
                                           /\ pc[f] \in {"swap", "signal", "upload"}
             HeldNext(m) == \E f \in Flushers : /\ batch'[f] = m
                                               /\ pc'[f] \in {"swap", "signal", "upload"}
  <2>1. ~cancelled /\ n \in 0..(txSeq - 1) => n \in handed \/ Held(n)
    BY DEF NoGapInSequence
  <2>2. CASE \E f \in Flushers : Extract(f)
    <3>1. PICK f \in Flushers : Extract(f)
      BY <2>2
    <3>2. /\ pc[f] = "extract"
          /\ UNCHANGED <<handed, cancelled>>
          /\ \/ /\ txSeq' = txSeq + 1
                /\ batch' = [batch EXCEPT ![f] = txSeq]
                /\ pc' = [pc EXCEPT ![f] = "swap"]
             \/ /\ UNCHANGED <<txSeq, batch>>
                /\ pc' = [pc EXCEPT ![f] = "idle"]
      BY <3>1 DEF Extract, Goto, engine
    <3>3. Held(n) => HeldNext(n)
      BY <2>0, <3>2
    <3>4. CASE n = txSeq
      BY <2>0, <3>2, <3>4
    <3>5. CASE n # txSeq
      <4>1. n \in 0..(txSeq - 1)
        BY <2>0, <3>2, <3>5
      <4>2. QED
        BY <2>1, <3>2, <3>3, <4>1
    <3>6. QED
      BY <3>4, <3>5
  <2>3. CASE \E f \in Flushers : HandOver(f)
    <3>1. PICK f \in Flushers : HandOver(f)
      BY <2>3
    <3>2. /\ handed' = handed \cup {batch[f]}
          /\ batch' = [batch EXCEPT ![f] = 0]
          /\ \A g \in Flushers \ {f} : pc'[g] = pc[g]
          /\ UNCHANGED <<txSeq, cancelled>>
      BY <2>0, <3>1 DEF HandOver, Goto, buffer
    <3>3. Held(n) => n \in handed' \/ HeldNext(n)
      BY <2>0, <3>2
    <3>4. QED
      BY <2>1, <3>2, <3>3
  <2>4. CASE \E f \in Flushers : FlushAbort(f)
    BY <2>4 DEF FlushAbort, engine
  <2>5. CASE ~ \E f \in Flushers : Extract(f) \/ HandOver(f) \/ FlushAbort(f)
    <3>1. /\ UNCHANGED <<txSeq, batch, handed>>
          /\ cancelled => cancelled'
          /\ \A f \in Flushers :
               pc[f] \in {"swap", "signal", "upload"} =>
                 pc'[f] \in {"swap", "signal", "upload"}
      BY <2>5, OtherSteps
    <3>2. QED
      BY <2>1, <3>1
  <2>6. QED
    BY <2>2, <2>3, <2>4, <2>5
<1>3. QED
  BY <1>1, <1>2, TxTypeCorrect, PTL DEF Spec

-----------------------------------------------------------------------------
\* The inductive invariant behind LeavesCleanly: the numbering is dense, what is
\* handed over or held was drawn before, a flusher about to remove the session
\* handed a Close over, and after the extraction of a Close a writer that still
\* waits has its waker on the way (nobody starts to wait any more).
Numbered ==
  /\ Len(batches) = txSeq
  /\ \A n \in handed : n < txSeq
  /\ \A f \in Flushers : pc[f] \in {"swap", "signal", "upload"} => batch[f] < txSeq

CloseHanded == \E n \in handed : batches[n + 1].close

RemovesAfterClose ==
  (\E f \in Flushers : pc[f] = "remove") \/ ~registered => CloseHanded

CloseExtracted == \E i \in 1..Len(batches) : batches[i].close

WokenAfterClose ==
  CloseExtracted => \A w \in Writers : pc[w] = "wait" => WakePending(w)

LInv == CloseIsFinal /\ Numbered /\ RemovesAfterClose /\ WokenAfterClose

\* Only an extraction appends a batch; on a closed session nothing else touches
\* the buffer.
LEMMA OnlyExtractSends ==
  ASSUME [Next]_vars, ~ \E f \in Flushers : Extract(f)
  PROVE  /\ UNCHANGED <<batches, txSeq>>
         /\ closed => closed' /\ txLen' = txLen
<1>1. CASE \E w \in Writers : Enqueue(w) \/ WriterStep(w)
  BY <1>1 DEF Enqueue, WriterStep, Woken, GiveUp, Retry, Attempt, Accept,
              Refuse, Block, buffer
<1>2. CASE \E f \in Flushers : Snapshot(f) \/ HandOver(f) \/ FlushAbort(f) \/ Remove(f)
  BY <1>2 DEF Snapshot, HandOver, FlushAbort, Remove, buffer
<1>3. CASE \E p \in Wakers : WakeStep(p)
  BY <1>3 DEF WakeStep, SwapWait, Signal, buffer
<1>4. CASE (\E c \in Closers : Close(c)) \/ PeerClose \/ Cancel \/ UNCHANGED vars
  BY <1>4 DEF Close, PeerClose, Cancel, vars, buffer
<1>5. QED
  BY <1>1, <1>2, <1>3, <1>4 DEF Next, FlushStep

\* What an extraction appends, and what it leaves of the buffer.
LEMMA ExtractEffect ==
  ASSUME TypeOK, NEW f \in Flushers, Extract(f)
  PROVE  /\ pc[f] = "extract"
         /\ closed => closed'
         /\ UNCHANGED <<waits, engine, want, waitCh>>
         /\ \/ /\ pc' = [pc EXCEPT ![f] = "idle"]
               /\ UNCHANGED <<txLen, txSeq, batch, batches>>
            \/ \E len \in Nat, close \in BOOLEAN :
                 /\ pc' = [pc EXCEPT ![f] = "swap"]
                 /\ batch' = [batch EXCEPT ![f] = txSeq]
                 /\ txSeq' = txSeq + 1
                 /\ batches' = Append(batches, [len |-> len, close |-> close])
                 /\ len <= txLen
                 /\ txLen' = txLen - len
                 /\ close <=> closed' /\ txLen' = 0
<1>1. BatchLen \in Nat /\ BatchLen <= txLen /\ txLen \in Nat
  BY TxAssumption DEF BatchLen, TypeOK, TxAssumption
<1>2. FinalChunk(BatchLen) <=> txLen - BatchLen = 0
  BY <1>1 DEF FinalChunk
<1>3. (closed' /\ FinalChunk(BatchLen)) \in BOOLEAN
  OBVIOUS
<1>4. pc[f] = "extract" /\ (closed => closed') /\ UNCHANGED <<waits, engine, want, waitCh>>
  BY DEF Extract
<1>5. CASE HasBatch(closed')
  <2>1. /\ pc' = [pc EXCEPT ![f] = "swap"]
        /\ batch' = [batch EXCEPT ![f] = txSeq]
        /\ txSeq' = txSeq + 1
        /\ batches' = Append(batches, [len |-> BatchLen,
                                       close |-> closed' /\ FinalChunk(BatchLen)])
        /\ txLen' = txLen - BatchLen
    BY <1>5 DEF Extract, Goto
  <2>2. QED
    BY <1>1, <1>2, <1>3, <1>4, <2>1
<1>6. CASE ~HasBatch(closed')
  BY <1>4, <1>6 DEF Extract, Goto
<1>7. QED
  BY <1>5, <1>6

\* A Close batch is final: what was appended before stays, and on a closed
\* session with an empty buffer only bare Closes can follow.
LEMMA KeepsCloseFinal ==
  ASSUME TypeOK, CloseIsFinal, [Next]_vars
  PROVE  CloseIsFinal'
<1>1. CASE ~ \E f \in Flushers : Extract(f)
  BY <1>1, OnlyExtractSends DEF CloseIsFinal
<1>2. CASE \E f \in Flushers : Extract(f)
  <2>1. PICK f \in Flushers : Extract(f)
    BY <1>2
  <2>2. CASE UNCHANGED <<txLen, batches>>
    BY <2>1, <2>2, ExtractEffect DEF CloseIsFinal
  <2>3. ASSUME NEW len \in Nat, NEW close \in BOOLEAN,
               batches' = Append(batches, [len |-> len, close |-> close]),
               len <= txLen, txLen' = txLen - len,
               close <=> closed' /\ txLen' = 0
        PROVE  CloseIsFinal'
    <3> DEFINE Batch == [len : Nat, close : BOOLEAN]
               b == [len |-> len, close |-> close]
               n == Len(batches)
    <3>1. batches \in Seq(Batch) /\ txLen \in Nat /\ n \in Nat
      BY DEF TypeOK
    <3>2. b \in Batch /\ b.len = len /\ b.close = close
      OBVIOUS
    <3>3. closed => closed'
      BY <2>1, ExtractEffect
    <3> HIDE DEF Batch, b
    <3>4. /\ Len(batches') = n + 1
          /\ \A i \in 1..n : batches'[i] = batches[i]
          /\ batches'[n + 1] = b
      BY <2>3, <3>1, <3>2 DEF b
    <3> SUFFICES ASSUME NEW i \in 1..(n + 1), batches'[i].close
                 PROVE  /\ closed'
                        /\ txLen' = 0
                        /\ \A j \in i..(n + 1) :
                             batches'[j].close /\ (j > i => batches'[j].len = 0)
      BY <3>4 DEF CloseIsFinal
    <3>5. CASE i = n + 1
      <4>1. close
        BY <3>2, <3>4, <3>5
      <4>2. \A j \in i..(n + 1) : j = n + 1
        BY <3>1, <3>5
      <4>3. QED
        BY <2>3, <3>2, <3>4, <3>5, <4>1, <4>2
    <3>6. CASE i # n + 1
      <4>1. i \in 1..n
        BY <3>1, <3>6
      <4>2. /\ closed /\ txLen = 0
            /\ \A j \in i..n : batches[j].close /\ (j > i => batches[j].len = 0)
        BY <3>4, <4>1 DEF CloseIsFinal
      <4>3. len = 0 /\ txLen' = 0 /\ closed' /\ close
        BY <2>3, <3>3, <4>2
      <4>4. \A j \in i..(n + 1) : j = n + 1 \/ (j \in i..n /\ j \in 1..n)
        BY <3>1, <4>1
      <4>5. QED
        BY <3>2, <3>4, <4>2, <4>3, <4>4
    <3>7. QED
      BY <3>5, <3>6
  <2>4. QED
    BY <2>1, <2>2, <2>3, ExtractEffect
<1>3. QED
  BY <1>1, <1>2

\* On a closed session nobody starts to wait, and a waker on the way stays so
\* until the writer is woken.
LEMMA ClosedKeepsWakers ==
  ASSUME TypeOK, [Next]_vars, closed, NEW w \in Writers, pc'[w] = "wait"
  PROVE  pc[w] = "wait" /\ (WakePending(w) => WakePending(w)')
<1> USE Kinds
<1>0. /\ pc \in [Procs -> PCs]
      /\ waitCh \in [Writers -> Nat]
      /\ old \in [Wakers -> Nat]
      /\ txWait \in Nat
  BY DEF TypeOK
<1>1. CASE \E v \in Writers : Enqueue(v) \/ WriterStep(v)
  <2>1. PICK v \in Writers : Enqueue(v) \/ WriterStep(v)
    BY <1>1
  <2>2. /\ UNCHANGED <<txWait, fired, old>>
        /\ \E l \in {"idle", "retry"} : pc' = [pc EXCEPT ![v] = l]
        /\ waitCh' = waitCh \/ waitCh' = [waitCh EXCEPT ![v] = 0]
    BY <2>1 DEF Enqueue, WriterStep, Woken, GiveUp, Retry, Attempt, Accept,
                Refuse, Block, Goto, waits
  <2>3. w # v /\ pc[w] = "wait" /\ waitCh'[w] = waitCh[w]
    BY <1>0, <2>2
  <2>4. \A p \in Wakers : pc'[p] = pc[p]
    BY <1>0, <2>2
  <2>5. QED
    BY <2>2, <2>3, <2>4 DEF WakePending
<1>2. CASE \E p \in Wakers : SwapWait(p)
  <2>1. PICK p \in Wakers : SwapWait(p)
    BY <1>2
  <2>2. /\ pc[p] = "swap"
        /\ pc' = [pc EXCEPT ![p] = "signal"]
        /\ old' = [old EXCEPT ![p] = txWait]
        /\ UNCHANGED <<fired, waitCh>>
    BY <2>1 DEF SwapWait, Goto
  <2>3. \A q \in Wakers : pc[q] = "signal" => pc'[q] = "signal" /\ old'[q] = old[q]
    BY <1>0, <2>2
  <2>4. pc'[p] = "signal" /\ old'[p] = txWait
    BY <1>0, <2>2
  <2>5. pc[w] = "wait"
    BY <1>0, <2>2
  <2>6. QED
    BY <2>2, <2>3, <2>4, <2>5 DEF WakePending
<1>3. CASE \E p \in Wakers : Signal(p)
  <2>1. PICK p \in Wakers : Signal(p)
    BY <1>3
  <2>2. /\ pc[p] = "signal"
        /\ \E l \in {"upload", "done"} : pc' = [pc EXCEPT ![p] = l]
        /\ fired' = fired \cup {old[p]}
        /\ old' = [old EXCEPT ![p] = 0]
        /\ UNCHANGED <<txWait, waitCh>>
    BY <2>1 DEF Signal, Goto
  <2>3. pc[w] = "wait"
    BY <1>0, <2>2
  <2>4. QED
    BY <1>0, <2>2, <2>3 DEF WakePending
<1>4. CASE \/ \E f \in Flushers : FlushStep(f)
           \/ \E c \in Closers : Close(c)
  <2>1. PICK q \in Wakers : (q \in Flushers /\ FlushStep(q)) \/ (q \in Closers /\ Close(q))
    BY <1>4
  <2>2. UNCHANGED <<txWait, fired, old, waitCh>>
    BY <2>1 DEF FlushStep, Snapshot, Extract, HandOver, FlushAbort, Remove,
                Close, waits
  <2>3. /\ pc[q] \notin {"swap", "signal"}
        /\ \E l \in PCs : pc' = [pc EXCEPT ![q] = l]
    BY <2>1 DEF FlushStep, Snapshot, Extract, HandOver, FlushAbort, Remove,
                Close, Goto, PCs
  <2>4. \A p \in Procs : pc[p] \in {"swap", "signal"} \/ p \in Writers => pc'[p] = pc[p]
    BY <1>0, <2>3
  <2>5. QED
    BY <2>2, <2>4 DEF WakePending
<1>5. CASE PeerClose \/ Cancel \/ UNCHANGED vars
  BY <1>5 DEF PeerClose, Cancel, vars, waits, WakePending
<1>6. QED
  BY <1>1, <1>2, <1>3, <1>4, <1>5 DEF Next, WakeStep

LEMMA KeepsWokenAfterClose ==
  ASSUME TypeOK, WInv, CloseIsFinal, WokenAfterClose, [Next]_vars
  PROVE  WokenAfterClose'
<1>1. CASE CloseExtracted
  <2>1. closed
    BY <1>1 DEF CloseExtracted, CloseIsFinal
  <2>2. QED
    BY <1>1, <2>1, ClosedKeepsWakers DEF WokenAfterClose
<1>2. CASE ~CloseExtracted /\ CloseExtracted'
  <2>1. PICK f \in Flushers : Extract(f)
    BY <1>2, OnlyExtractSends DEF CloseExtracted
  <2>2. /\ pc[f] = "extract"
        /\ pc' = [pc EXCEPT ![f] = "swap"]
        /\ UNCHANGED <<txWait, fired, old, waitCh>>
    BY <1>2, <2>1, ExtractEffect DEF CloseExtracted, waits
  <2>3. pc \in [Procs -> PCs] /\ txWait \in Nat /\ waitCh \in [Writers -> Nat]
    BY DEF TypeOK
  <2>4. f \in Wakers /\ pc'[f] = "swap"
    BY <2>2, <2>3, Kinds
  <2>5. ASSUME NEW w \in Writers, pc'[w] = "wait" PROVE WakePending(w)'
    <3>1. pc[w] = "wait"
      BY <2>2, <2>3, <2>5, Kinds
    <3>2. waitCh[w] <= txWait
      BY <3>1 DEF WInv
    <3>3. CASE waitCh[w] = txWait
      BY <2>2, <2>4, <3>3 DEF WakePending
    <3>4. CASE waitCh[w] < txWait
      <4>1. waitCh[w] \in 0..(txWait - 1)
        BY <2>3, <3>4
      <4>2. \/ waitCh[w] \in fired
            \/ \E p \in Wakers : pc[p] = "signal" /\ old[p] = waitCh[w]
        BY <4>1 DEF WInv, RetiredCovered
      <4>3. \A p \in Wakers : pc[p] = "signal" => pc'[p] = "signal"
        BY <2>2, <2>3, Kinds
      <4>4. QED
        BY <2>2, <4>2, <4>3 DEF WakePending
    <3>5. QED
      BY <2>3, <3>2, <3>3, <3>4
  <2>6. QED
    BY <2>5 DEF WokenAfterClose
<1>3. CASE ~CloseExtracted'
  BY <1>3 DEF WokenAfterClose
<1>4. QED
  BY <1>1, <1>2, <1>3

LEMMA KeepsNumbered ==
  ASSUME TypeOK, Numbered, [Next]_vars
  PROVE  Numbered'
<1> USE Kinds
<1>0. /\ pc \in [Procs -> PCs]
      /\ batch \in [Flushers -> Nat]
      /\ txSeq \in Nat
      /\ handed \subseteq Nat
  BY DEF TypeOK
<1>1. CASE \E f \in Flushers : Extract(f)
  <2>1. PICK f \in Flushers : Extract(f)
    BY <1>1
  <2>2. UNCHANGED handed
    BY <2>1, ExtractEffect DEF engine
  <2>3. CASE pc' = [pc EXCEPT ![f] = "idle"] /\ UNCHANGED <<txSeq, batch, batches>>
    BY <1>0, <2>2, <2>3 DEF Numbered
  <2>4. ASSUME NEW len \in Nat, NEW close \in BOOLEAN,
               pc' = [pc EXCEPT ![f] = "swap"],
               batch' = [batch EXCEPT ![f] = txSeq],
               txSeq' = txSeq + 1,
               batches' = Append(batches, [len |-> len, close |-> close])
        PROVE  Numbered'
    <3>1. Len(batches') = Len(batches) + 1
      <4> DEFINE Batch == [len : Nat, close : BOOLEAN]
                 b == [len |-> len, close |-> close]
      <4>1. batches \in Seq(Batch) /\ b \in Batch
        BY DEF TypeOK
      <4> HIDE DEF Batch, b
      <4>2. QED
        BY <2>4, <4>1 DEF b
    <3>2. \A n \in handed' : n < txSeq'
      BY <1>0, <2>2, <2>4 DEF Numbered
    <3>3. \A g \in Flushers : pc'[g] \in {"swap", "signal", "upload"} => batch'[g] < txSeq'
      BY <1>0, <2>4 DEF Numbered
    <3>4. QED
      BY <2>4, <3>1, <3>2, <3>3 DEF Numbered
  <2>5. QED
    BY <2>1, <2>3, <2>4, ExtractEffect
<1>2. CASE \E f \in Flushers : HandOver(f) \/ FlushAbort(f)
  <2>1. PICK f \in Flushers : HandOver(f) \/ FlushAbort(f)
    BY <1>2
  <2>2. /\ pc[f] = "upload"
        /\ UNCHANGED <<txSeq, batches>>
        /\ handed' \subseteq handed \cup {batch[f]}
        /\ batch' = [batch EXCEPT ![f] = 0]
        /\ \E l \in {"remove", "idle", "done"} : pc' = [pc EXCEPT ![f] = l]
    BY <2>1 DEF HandOver, FlushAbort, Goto, buffer, engine
  <2>3. batch[f] < txSeq
    BY <2>2 DEF Numbered
  <2>4. \A n \in handed' : n < txSeq'
    BY <2>2, <2>3 DEF Numbered
  <2>5. \A g \in Flushers : pc'[g] \in {"swap", "signal", "upload"} => batch'[g] < txSeq'
    BY <1>0, <2>2 DEF Numbered
  <2>6. QED
    BY <2>2, <2>4, <2>5 DEF Numbered
<1>3. CASE ~ \E f \in Flushers : Extract(f) \/ HandOver(f) \/ FlushAbort(f)
  <2>1. \A f \in Flushers :
          pc'[f] \in {"swap", "signal", "upload"} =>
            pc[f] \in {"swap", "signal", "upload"}
    <3>1. CASE \E w \in Writers : Enqueue(w) \/ WriterStep(w)
      <4>1. PICK w \in Writers : Enqueue(w) \/ WriterStep(w)
        BY <3>1
      <4>2. \E l \in PCs : pc' = [pc EXCEPT ![w] = l]
        BY <4>1 DEF Enqueue, WriterStep, Woken, GiveUp, Retry, Attempt, Accept,
                    Refuse, Block, Goto, PCs
      <4>3. QED
        BY <1>0, <4>2
    <3>2. CASE \E f \in Flushers : Snapshot(f) \/ Remove(f)
      BY <1>0, <3>2 DEF Snapshot, Remove, Goto
    <3>3. CASE \E p \in Wakers : WakeStep(p)
      <4>1. PICK p \in Wakers : WakeStep(p)
        BY <3>3
      <4>2. /\ pc[p] \in {"swap", "signal"}
            /\ \E l \in PCs : pc' = [pc EXCEPT ![p] = l]
        BY <4>1 DEF WakeStep, SwapWait, Signal, Goto, PCs
      <4>3. QED
        BY <1>0, <4>2
    <3>4. CASE \E c \in Closers : Close(c)
      <4>1. \A c \in Closers : c \notin Flushers
        BY TxAssumption DEF TxAssumption
      <4>2. QED
        BY <1>0, <3>4, <4>1 DEF Close, Goto
    <3>5. CASE PeerClose \/ Cancel \/ UNCHANGED vars
      BY <3>5 DEF PeerClose, Cancel, vars
    <3>6. QED
      BY <1>3, <3>1, <3>2, <3>3, <3>4, <3>5 DEF Next, FlushStep
  <2>2. QED
    BY <1>3, <2>1, OtherSteps DEF Numbered
<1>4. QED
  BY <1>1, <1>2, <1>3

LEMMA KeepsRemovesAfterClose ==
  ASSUME TypeOK, Numbered, RemovesAfterClose, [Next]_vars
  PROVE  RemovesAfterClose'
<1> USE Kinds
<1>0. pc \in [Procs -> PCs] /\ handed \subseteq Nat /\ txSeq \in Nat
  BY DEF TypeOK
<1>1. CloseHanded => CloseHanded'
  <2>1. \A n \in handed : n + 1 \in 1..Len(batches)
    BY <1>0 DEF Numbered
  <2>2. handed \subseteq handed'
    <3>1. CASE \E f \in Flushers : Extract(f) \/ HandOver(f) \/ FlushAbort(f)
      BY <3>1, ExtractEffect DEF HandOver, FlushAbort, engine
    <3>2. QED
      BY <3>1, OtherSteps
  <2>3. \A i \in 1..Len(batches) : batches'[i] = batches[i]
    <3>1. CASE \E f \in Flushers : Extract(f)
      <4>1. PICK f \in Flushers : Extract(f)
        BY <3>1
      <4>2. ASSUME NEW len \in Nat, NEW close \in BOOLEAN,
                   batches' = Append(batches, [len |-> len, close |-> close])
            PROVE  \A i \in 1..Len(batches) : batches'[i] = batches[i]
        <5> DEFINE Batch == [len : Nat, close : BOOLEAN]
                   b == [len |-> len, close |-> close]
        <5>1. batches \in Seq(Batch) /\ b \in Batch
          BY DEF TypeOK
        <5> HIDE DEF Batch, b
        <5>2. QED
          BY <4>2, <5>1 DEF b
      <4>3. QED
        BY <4>1, <4>2, ExtractEffect
    <3>2. CASE ~ \E f \in Flushers : Extract(f)
      BY <3>2, OnlyExtractSends
    <3>3. QED
      BY <3>1, <3>2
  <2>4. QED
    BY <2>1, <2>2, <2>3 DEF CloseHanded
<1>2. ASSUME NEW f \in Flushers, HandOver(f), pc'[f] = "remove"
      PROVE  CloseHanded'
  <2>1. /\ batches[batch[f] + 1].close
        /\ batch[f] \in handed'
        /\ UNCHANGED batches
    BY <1>0, <1>2 DEF HandOver, SentClose, Goto, buffer
  <2>2. QED
    BY <2>1 DEF CloseHanded
<1>3. CASE \E f \in Flushers : HandOver(f)
  <2>1. PICK f \in Flushers : HandOver(f)
    BY <1>3
  <2>2. UNCHANGED registered /\ \A g \in Flushers \ {f} : pc'[g] = pc[g]
    BY <1>0, <2>1 DEF HandOver, Goto
  <2>3. CASE pc'[f] = "remove"
    BY <1>2, <2>1, <2>3 DEF RemovesAfterClose
  <2>4. CASE pc'[f] # "remove"
    BY <1>1, <2>2, <2>4 DEF RemovesAfterClose
  <2>5. QED
    BY <2>3, <2>4
<1>4. CASE ~ \E f \in Flushers : HandOver(f)
  <2>1. (\E g \in Flushers : pc'[g] = "remove") \/ ~registered'
          => (\E g \in Flushers : pc[g] = "remove") \/ ~registered
    <3>1. CASE \E w \in Writers : Enqueue(w) \/ WriterStep(w)
      <4>1. PICK w \in Writers : Enqueue(w) \/ WriterStep(w)
        BY <3>1
      <4>2. UNCHANGED registered /\ \E l \in PCs : pc' = [pc EXCEPT ![w] = l]
        BY <4>1 DEF Enqueue, WriterStep, Woken, GiveUp, Retry, Attempt, Accept,
                    Refuse, Block, Goto, PCs, engine
      <4>3. QED
        BY <1>0, <4>2
    <3>2. CASE \E f \in Flushers : Snapshot(f) \/ Extract(f) \/ FlushAbort(f) \/ Remove(f)
      <4>1. PICK f \in Flushers : Snapshot(f) \/ Extract(f) \/ FlushAbort(f) \/ Remove(f)
        BY <3>2
      <4>2. /\ registered' = registered \/ pc[f] = "remove"
            /\ \E l \in {"extract", "swap", "idle", "done"} : pc' = [pc EXCEPT ![f] = l]
        BY <4>1 DEF Snapshot, Extract, FlushAbort, Remove, Goto, engine
      <4>3. QED
        BY <1>0, <4>2
    <3>3. CASE \E p \in Wakers : WakeStep(p)
      <4>1. PICK p \in Wakers : WakeStep(p)
        BY <3>3
      <4>2. /\ UNCHANGED registered
            /\ \E l \in {"signal", "upload", "done"} : pc' = [pc EXCEPT ![p] = l]
        BY <4>1 DEF WakeStep, SwapWait, Signal, Goto, engine
      <4>3. QED
        BY <1>0, <4>2
    <3>4. CASE (\E c \in Closers : Close(c)) \/ PeerClose \/ Cancel \/ UNCHANGED vars
      BY <1>0, <3>4 DEF Close, PeerClose, Cancel, vars, Goto, engine
    <3>5. QED
      BY <1>4, <3>1, <3>2, <3>3, <3>4 DEF Next, FlushStep
  <2>2. QED
    BY <1>1, <2>1 DEF RemovesAfterClose
<1>5. QED
  BY <1>3, <1>4

LEMMA LInvAlways == Spec => []LInv
<1>1. Init => LInv
  <2> SUFFICES ASSUME Init PROVE LInv
    OBVIOUS
  <2>1. /\ batches = <<>> /\ txSeq = 0 /\ handed = {} /\ registered = TRUE
        /\ \A f \in Flushers : pc[f] = "idle"
    BY Kinds DEF Init
  <2>2. CloseIsFinal /\ WokenAfterClose
    BY <2>1 DEF CloseIsFinal, WokenAfterClose, CloseExtracted
  <2>3. Numbered /\ RemovesAfterClose
    BY <2>1 DEF Numbered, RemovesAfterClose
  <2>4. QED
    BY <2>2, <2>3 DEF LInv
<1>2. TypeOK /\ WInv /\ LInv /\ [Next]_vars => LInv'
  BY KeepsCloseFinal, KeepsNumbered, KeepsRemovesAfterClose, KeepsWokenAfterClose
     DEF LInv
<1>3. QED
  BY <1>1, <1>2, TxTypeCorrect, WInvAlways, PTL DEF Spec

\* How a session ends, for any number of goroutines: what was extracted after a
\* Close is a bare Close, the session leaves the engine only after a Close went
\* to the upload queue, and no writer is left waiting on it.
THEOREM SessionLeavesCleanly == Spec => []LeavesCleanly
<1>1. TypeOK /\ LInv => LeavesCleanly
  <2> SUFFICES ASSUME TypeOK, LInv PROVE LeavesCleanly
    OBVIOUS
  <2>1. RemovedAfterClose
    BY DEF LInv, RemovesAfterClose, RemovedAfterClose, CloseHanded
  <2>2. ~registered => CloseExtracted
    <3>1. \A n \in handed : n + 1 \in 1..Len(batches)
      BY DEF LInv, Numbered, TypeOK
    <3>2. QED
      BY <2>1, <3>1 DEF RemovedAfterClose, CloseExtracted
  <2>3. NoWriterLeftBehind
    BY <2>2 DEF LInv, WokenAfterClose, NoWriterLeftBehind
  <2>4. QED
    BY <2>1, <2>3 DEF LInv, LeavesCleanly
<1>2. QED
  BY <1>1, TxTypeCorrect, LInvAlways, PTL
=============================================================================
