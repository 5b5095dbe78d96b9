--------------------------- MODULE SessionRxProofs ---------------------------
(***************************************************************************)
(* Proofs about SessionRx, for any number of workers, closers and          *)
(* envelopes and any capacity of the queue and the channel.                *)
(***************************************************************************)
EXTENDS SessionRx, FiniteSetTheorems, SequenceTheorems, TLAPS

\* A worker holds payloads only inside the send loop.
SendInv ==
  \A w \in Workers : pc[w] \notin {"send", "select"} => sending[w] = {}

\* rxDone is closed before anybody asks for the lock, and RxChan only under it.
ChanInv ==
  /\ rxChanClosed => rxDone
  /\ \A p \in Procs : pc[p] \in {"lock", "drain"} => rxDone

\* Whatever is in RxChan or in a worker's hands has been passed by rxSeq.
PassedInv ==
  /\ \A i \in 1..Len(log) : log[i] < rxSeq
  /\ \A w \in Workers : \A n \in sending[w] : n < rxSeq

IInv == ChanInv /\ NoSendOnClosedChannel

\* The bytes of a set of envelopes are finitely many.
LEMMA BytesFinite ==
  ASSUME NEW Q \in SUBSET Seqs
  PROVE  IsFiniteSet(Bytes(Q)) /\ ByteCount(Q) \in Nat
<1>1. IsFiniteSet(Seqs) /\ IsFiniteSet(1..MaxPayload)
  BY RxAssumption, SizeAssumption, FS_Interval DEF Seqs, RxAssumption, SizeAssumption
<1>2. IsFiniteSet(Seqs \X (1..MaxPayload))
  BY <1>1, FS_Product
<1>3. Bytes(Q) \in SUBSET (Seqs \X (1..MaxPayload))
  <2>1. ASSUME NEW n \in Q PROVE {n} \X (1..Size[n]) \subseteq Seqs \X (1..MaxPayload)
    <3>1. n \in Seqs /\ Size[n] \in 0..MaxPayload /\ MaxPayload \in Nat
      BY SizeAssumption DEF SizeAssumption
    <3>2. 1..Size[n] \subseteq 1..MaxPayload
      BY <3>1
    <3>3. QED
      BY <3>1, <3>2
  <2>2. QED
    BY <2>1 DEF Bytes
<1>4. IsFiniteSet(Bytes(Q))
  BY <1>2, <1>3, FS_Subset
<1>5. QED
  BY <1>4, FS_CardinalityType DEF ByteCount

\* Type correctness of the receive half.
THEOREM TypeCorrect == Spec => []TypeOK
<1> USE RxAssumption DEF RxAssumption
<1>1. Init => TypeOK
  <2> SUFFICES ASSUME Init PROVE TypeOK
    OBVIOUS
  <2>1. pc \in [Procs -> PCs]
    BY DEF Init, PCs
  <2>2. /\ sending \in [Workers -> SUBSET Seqs]
        /\ closing \in [Workers -> BOOLEAN]
        /\ arrivals \in [Seqs -> 0..Copies]
    BY DEF Init
  <2>3. log \in Seq(Seqs) /\ taken \in 0..Len(log)
    BY DEF Init
  <2>4. rxSeq \in 0..(Last + 1)
    BY DEF Init
  <2>5. /\ closed \in BOOLEAN /\ rxClosed \in BOOLEAN /\ eof \in BOOLEAN
        /\ rxDone \in BOOLEAN /\ rxChanClosed \in BOOLEAN
    BY DEF Init
  <2>6. /\ rxQueue \subseteq Seqs /\ rxQueueBytes \in Int
        /\ stalled \subseteq Seqs /\ backendIdx \in Backends
    BY DEF Init
  <2>7. raced \in BOOLEAN
    BY DEF Init
  <2>8. QED
    BY <2>1, <2>2, <2>3, <2>4, <2>5, <2>6, <2>7, Zenon DEF TypeOK
<1>2. TypeOK /\ [Next]_vars => TypeOK'
  <2> SUFFICES ASSUME TypeOK, [Next]_vars PROVE TypeOK'
    OBVIOUS
  <2> USE DEF TypeOK, PCs, Seqs, Procs, state, chan, reader, history
  <2>1. ASSUME NEW w \in Workers, NEW n \in Seqs, RxIgnored(w, n) PROVE TypeOK'
    BY <2>1 DEF RxIgnored, Arrive
  <2>2. ASSUME NEW w \in Workers, NEW n \in Seqs, RxNext(w, n) PROVE TypeOK'
    <3>1. PICK next \in (n + 1)..(Last + 1) :
            /\ rxSeq' = next
            /\ rxQueue' = rxQueue \ ((n + 1)..(next - 1))
            /\ rxQueueBytes' = rxQueueBytes
                               - ByteCount((n + 1)..(next - 1))
            /\ sending' = [sending EXCEPT ![w] = (n..(next - 1)) \ Empty]
            /\ rxClosed' \in BOOLEAN
            /\ closed' \in BOOLEAN
            /\ closing' \in [Workers -> BOOLEAN]
      BY <2>2 DEF RxNext, InTurn
    <3>2. rxQueueBytes' \in Int
      <4>1. (n + 1)..(next - 1) \in SUBSET Seqs
        OBVIOUS
      <4>2. ByteCount((n + 1)..(next - 1)) \in Nat
        BY <4>1, BytesFinite
      <4>3. QED
        BY <3>1, <4>2
    <3>3. /\ rxSeq' \in 0..(Last + 1)
          /\ rxQueue' \subseteq Seqs
          /\ sending' \in [Workers -> SUBSET Seqs]
      BY <3>1
    <3>4. backendIdx' \in Backends /\ pc' \in [Procs -> PCs]
      BY <2>2 DEF RxNext, InTurn
    <3>5. arrivals' \in [Seqs -> 0..Copies]
      <4>1. Arrive(w, n)
        BY <2>2 DEF RxNext, InTurn
      <4>2. QED
        BY <4>1 DEF Arrive
    <3>6. UNCHANGED <<chan, reader, stalled>> /\ raced' \in BOOLEAN
      BY <2>2 DEF RxNext, InTurn
    <3>7. QED
      BY <3>1, <3>2, <3>3, <3>4, <3>5, <3>6
  <2>3. ASSUME NEW w \in Workers, NEW n \in Seqs, RxQueued(w, n) PROVE TypeOK'
    <3>1. rxQueue' \subseteq Seqs /\ rxQueueBytes' \in Int
      BY <2>3 DEF RxQueued
    <3>2. arrivals' \in [Seqs -> 0..Copies]
      BY <2>3 DEF RxQueued, Arrive
    <3>3. QED
      BY <2>3, <3>1, <3>2 DEF RxQueued
  <2>4. ASSUME NEW w \in Workers, NEW n \in Seqs, RxDropped(w, n) PROVE TypeOK'
    BY <2>4 DEF RxDropped, Arrive
  <2>5. ASSUME NEW w \in Workers, BeginSend(w) PROVE TypeOK'
    BY <2>5 DEF BeginSend, Return
  <2>6. ASSUME NEW w \in Workers, SendPayload(w) PROVE TypeOK'
    <3>1. PICK n \in Seqs : /\ log' = Append(log, n)
                            /\ sending' = [sending EXCEPT ![w] = @ \ {n}]
      BY <2>6 DEF SendPayload
    <3>2. log' \in Seq(Seqs) /\ Len(log') = Len(log) + 1
      BY <3>1
    <3>3. taken' \in 0..Len(log')
      BY <2>6, <3>2 DEF SendPayload
    <3>4. sending' \in [Workers -> SUBSET Seqs] /\ pc' \in [Procs -> PCs]
      BY <2>6, <3>1 DEF SendPayload
    <3>5. QED
      BY <2>6, <3>2, <3>3, <3>4 DEF SendPayload
  <2>7. ASSUME NEW w \in Workers, AbandonSend(w) PROVE TypeOK'
    BY <2>7 DEF AbandonSend, Return
  <2>8. ASSUME NEW w \in Workers, StallDrop(w) PROVE TypeOK'
    BY <2>8 DEF StallDrop
  <2>9. ASSUME NEW w \in Workers, EndSend(w) PROVE TypeOK'
    BY <2>9 DEF EndSend
  <2>10. ASSUME NEW c \in Closers, Close(c) PROVE TypeOK'
    BY <2>10 DEF Close
  <2>11. ASSUME NEW p \in Procs, SignalDone(p) PROVE TypeOK'
    BY <2>11 DEF SignalDone
  <2>12. ASSUME NEW p \in Procs, RequestLock(p) PROVE TypeOK'
    BY <2>12 DEF RequestLock
  <2>13. ASSUME NEW p \in Procs, CloseChan(p) PROVE TypeOK'
    BY <2>13 DEF CloseChan
  <2>14. CASE Read
    BY <2>14 DEF Read, InChan
  <2>15. CASE ReadEOF
    BY <2>15 DEF ReadEOF
  <2>16. CASE UNCHANGED vars
    BY <2>16 DEF vars
  <2>17. QED
    BY <2>1, <2>2, <2>3, <2>4, <2>5, <2>6, <2>7, <2>8, <2>9, <2>10, <2>11,
       <2>12, <2>13, <2>14, <2>15, <2>16
       DEF Next, ProcessRx, SendStep, CloseRxStep
<1>3. QED
  BY <1>1, <1>2, PTL DEF Spec

-----------------------------------------------------------------------------
LEMMA IInvAlways == Spec => []IInv
<1> USE DEF Procs
<1>1. Init => IInv
  BY DEF Init, IInv, ChanInv, NoSendOnClosedChannel
<1>2. TypeOK /\ IInv /\ [Next]_vars => IInv'
  <2> SUFFICES ASSUME TypeOK, IInv, [Next]_vars PROVE IInv'
    OBVIOUS
  <2>0. pc \in [Procs -> PCs]
    BY DEF TypeOK
  <2> USE <2>0 DEF IInv, ChanInv, NoSendOnClosedChannel, chan
  <2>1. ASSUME NEW w \in Workers, NEW n \in Seqs, ProcessRx(w, n) PROVE IInv'
    BY <2>1 DEF ProcessRx, RxIgnored, RxNext, RxQueued, RxDropped
  <2>2. ASSUME NEW w \in Workers, BeginSend(w) PROVE IInv'
    BY <2>2 DEF BeginSend, Return
  <2>3. ASSUME NEW w \in Workers, SendPayload(w) PROVE IInv'
    BY <2>3 DEF SendPayload
  <2>4. ASSUME NEW w \in Workers, AbandonSend(w) PROVE IInv'
    BY <2>4 DEF AbandonSend, Return
  <2>5. ASSUME NEW w \in Workers, StallDrop(w) PROVE IInv'
    BY <2>5 DEF StallDrop
  <2>6. ASSUME NEW w \in Workers, EndSend(w) PROVE IInv'
    BY <2>6 DEF EndSend
  <2>7. ASSUME NEW c \in Closers, Close(c) PROVE IInv'
    BY <2>7 DEF Close
  <2>8. ASSUME NEW p \in Procs, SignalDone(p) PROVE IInv'
    BY <2>8 DEF SignalDone
  <2>9. ASSUME NEW p \in Procs, RequestLock(p) PROVE IInv'
    BY <2>9 DEF RequestLock
  <2>10. ASSUME NEW p \in Procs, CloseChan(p) PROVE IInv'
    BY <2>10 DEF CloseChan, NoSenderHoldsLock
  <2>11. CASE Read \/ ReadEOF \/ UNCHANGED vars
    BY <2>11 DEF Read, ReadEOF, vars
  <2>12. QED
    BY <2>1, <2>2, <2>3, <2>4, <2>5, <2>6, <2>7, <2>8, <2>9, <2>10, <2>11
       DEF Next, SendStep, CloseRxStep
<1>3. QED
  BY <1>1, <1>2, TypeCorrect, PTL DEF Spec

\* However many Close envelopes and calls of Session.Close race with the
\* senders, no worker sends on a closed RxChan: closeRx closes rxDone first and
\* RxChan only while no sender holds the read lock, and a worker that takes the
\* read lock afterwards finds rxDone closed.
THEOREM NoPanic == Spec => []NoSendOnClosedChannel
<1>1. IInv => NoSendOnClosedChannel
  BY DEF IInv
<1>2. QED
  BY <1>1, IInvAlways, PTL

-----------------------------------------------------------------------------
\* A worker that has met a Close and is still sending.
ClosesLater(w) == closing[w] /\ pc[w] \in {"send", "select"}

InCloseRx(p) == pc[p] \in {"closeRx", "lock", "drain"}

\* Who closed rxDone goes on to RxChan; who stopped the session goes on to
\* rxDone.
HandInv ==
  /\ rxDone => rxChanClosed \/ \E p \in Procs : pc[p] \in {"lock", "drain"}
  /\ rxClosed => \/ rxDone
                 \/ \E p \in Procs : pc[p] = "closeRx"
                 \/ \E w \in Workers : ClosesLater(w)

\* RxChan of a session that ignores envelopes is closed, or somebody is about
\* to close it.
EndInHand ==
  rxClosed => \/ rxChanClosed
              \/ \E p \in Procs : InCloseRx(p)
              \/ \E w \in Workers : ClosesLater(w)

\* A step of one goroutine after which the duty of closing is where it was,
\* with this goroutine, or with those that closed rxDone.
LEMMA HandsOn ==
  ASSUME TypeOK, HandInv, NEW p \in Procs,
         \A q \in Procs : q # p => pc'[q] = pc[q],
         \A w \in Workers : w # p => closing'[w] = closing[w],
         UNCHANGED <<rxClosed, rxDone, rxChanClosed>>,
         pc[p] \in {"lock", "drain"} => pc'[p] \in {"lock", "drain"},
         pc[p] = "closeRx" => pc'[p] = "closeRx",
         p \in Workers /\ ClosesLater(p) => \/ rxDone \/ pc'[p] = "closeRx"
                                            \/ ClosesLater(p)'
  PROVE  HandInv'
<1>1. rxDone' => rxChanClosed' \/ \E q \in Procs : pc'[q] \in {"lock", "drain"}
  BY DEF HandInv
<1>2. ASSUME NEW w \in Workers, w # p, ClosesLater(w) PROVE ClosesLater(w)'
  BY <1>2 DEF ClosesLater, Procs
<1>3. rxClosed' => \/ rxDone'
                   \/ \E q \in Procs : pc'[q] = "closeRx"
                   \/ \E w \in Workers : ClosesLater(w)'
  <2>1. CASE \E q \in Procs : pc[q] = "closeRx"
    BY <2>1
  <2>2. CASE \E w \in Workers : ClosesLater(w)
    <3>1. PICK w \in Workers : ClosesLater(w)
      BY <2>2
    <3>2. QED
      BY <3>1, <1>2 DEF Procs
  <2>3. QED
    BY <2>1, <2>2 DEF HandInv
<1>4. QED
  BY <1>1, <1>3 DEF HandInv

\* On every path on which a session stops accepting envelopes - a Close in
\* turn, a Close out of the queue, Session.Close - somebody closes RxChan: a
\* worker that leaves its send loop early, and forgets the Close it met, does
\* so only because another has closed rxDone and is on its way to the lock.
THEOREM SomebodyCloses == Spec => []EndInHand
<1>1. Init => HandInv
  BY DEF Init, HandInv
<1>2. TypeOK /\ HandInv /\ [Next]_vars => HandInv'
  <2> SUFFICES ASSUME TypeOK, HandInv, [Next]_vars PROVE HandInv'
    OBVIOUS
  <2>0. pc \in [Procs -> PCs] /\ closing \in [Workers -> BOOLEAN]
    BY DEF TypeOK
  <2> USE <2>0
  <2>1. ASSUME NEW w \in Workers, NEW n \in Seqs, RxNext(w, n) PROVE HandInv'
    <3>1. /\ w \in Procs /\ ~rxClosed /\ pc[w] = "idle"
          /\ pc' = [pc EXCEPT ![w] = "send"]
          /\ closing' = [closing EXCEPT ![w] = rxClosed']
          /\ UNCHANGED <<rxDone, rxChanClosed>>
      BY <2>1 DEF RxNext, Arrive, Procs, chan
    <3>2. rxDone' => rxChanClosed' \/ \E q \in Procs : pc'[q] \in {"lock", "drain"}
      BY <3>1 DEF HandInv
    <3>3. rxClosed' => ClosesLater(w)'
      BY <3>1 DEF ClosesLater
    <3>4. QED
      BY <3>2, <3>3 DEF HandInv
  <2>2. ASSUME NEW w \in Workers, BeginSend(w) \/ SendPayload(w) \/ AbandonSend(w)
                                  \/ StallDrop(w) \/ EndSend(w)
        PROVE  HandInv'
    <3>1. /\ w \in Procs /\ pc[w] \in {"send", "select"}
          /\ \A q \in Procs : q # w => pc'[q] = pc[q]
          /\ \A v \in Workers : v # w => closing'[v] = closing[v]
          /\ UNCHANGED <<rxClosed, rxDone, rxChanClosed>>
      BY <2>2 DEF BeginSend, SendPayload, AbandonSend, StallDrop, EndSend, Return, Procs,
                  state, chan
    <3>2. ClosesLater(w) => \/ rxDone \/ pc'[w] = "closeRx"
                            \/ ClosesLater(w)'
      BY <2>2, <3>1 DEF BeginSend, SendPayload, AbandonSend, StallDrop, EndSend, Return,
                        ClosesLater
    <3>3. QED
      BY <3>1, <3>2, HandsOn
  <2>3. ASSUME NEW c \in Closers, Close(c) PROVE HandInv'
    <3>1. /\ c \in Procs /\ pc[c] = "idle" /\ pc' = [pc EXCEPT ![c] = "closeRx"]
          /\ UNCHANGED <<rxDone, rxChanClosed>>
      BY <2>3 DEF Close, Procs, chan
    <3>2. rxDone' => rxChanClosed' \/ \E q \in Procs : pc'[q] \in {"lock", "drain"}
      BY <3>1 DEF HandInv
    <3>3. QED
      BY <3>1, <3>2 DEF HandInv
  <2>4. ASSUME NEW p \in Procs, SignalDone(p) PROVE HandInv'
    BY <2>4 DEF SignalDone, HandInv
  <2>5. ASSUME NEW p \in Procs, RequestLock(p) PROVE HandInv'
    <3>1. /\ pc[p] = "lock" /\ pc' = [pc EXCEPT ![p] = "drain"]
          /\ UNCHANGED <<rxClosed, rxDone, rxChanClosed, closing>>
      BY <2>5 DEF RequestLock, state, chan
    <3>2. QED
      BY <3>1, HandsOn DEF ClosesLater
  <2>6. ASSUME NEW p \in Procs, CloseChan(p) PROVE HandInv'
    <3>1. rxChanClosed' /\ rxClosed' = rxClosed /\ rxDone' = rxDone
          /\ pc[p] = "drain"
          /\ \A q \in Procs : q # p => pc'[q] = pc[q]
          /\ \A w \in Workers : w # p => closing'[w] = closing[w]
      BY <2>6 DEF CloseChan, state
    <3>2. ASSUME NEW w \in Workers, ClosesLater(w) PROVE ClosesLater(w)'
      BY <3>1, <3>2 DEF ClosesLater, Procs
    <3>3. ASSUME NEW q \in Procs, pc[q] = "closeRx" PROVE pc'[q] = "closeRx"
      BY <3>1, <3>3
    <3>4. QED
      BY <3>1, <3>2, <3>3 DEF HandInv
  <2>7. CASE \/ \E w \in Workers, n \in Seqs : \/ RxIgnored(w, n) \/ RxQueued(w, n)
                                               \/ RxDropped(w, n)
             \/ Read \/ ReadEOF \/ UNCHANGED vars
    <3>1. UNCHANGED <<rxClosed, rxDone, rxChanClosed, pc, closing>>
      BY <2>7 DEF RxIgnored, RxQueued, RxDropped, Read, ReadEOF, vars, state, chan
    <3>2. QED
      BY <3>1 DEF HandInv, ClosesLater
  <2>8. QED
    BY <2>1, <2>2, <2>3, <2>4, <2>5, <2>6, <2>7 DEF Next, ProcessRx, SendStep, CloseRxStep
<1>3. HandInv => EndInHand
  BY DEF HandInv, EndInHand, InCloseRx
<1>4. QED
  BY <1>1, <1>2, <1>3, TypeCorrect, PTL DEF Spec

-----------------------------------------------------------------------------
DInv == SendInv /\ PassedInv /\ AtMostOnce

\* A step that leaves the history of RxChan and rxSeq alone, and lets each
\* worker keep its payloads or lose some, preserves DInv if workers outside the
\* send loop end up with none.
LEMMA ShrinkKeepsDInv ==
  ASSUME TypeOK, DInv, UNCHANGED <<log, rxSeq>>,
         \A w \in Workers : sending'[w] \subseteq sending[w],
         SendInv'
  PROVE  DInv'
BY DEF DInv, PassedInv, AtMostOnce, Sent

LEMMA DInvAlways == Spec => []DInv
<1> USE DEF Procs
<1>1. Init => DInv
  BY DEF Init, DInv, SendInv, PassedInv, AtMostOnce, Sent
<1>2. TypeOK /\ DInv /\ [Next]_vars => DInv'
  <2> SUFFICES ASSUME TypeOK, DInv, [Next]_vars PROVE DInv'
    OBVIOUS
  <2>0. /\ pc \in [Procs -> PCs]
        /\ sending \in [Workers -> SUBSET Seqs]
        /\ log \in Seq(Seqs)
        /\ rxSeq \in Int
    BY RxAssumption DEF TypeOK, RxAssumption
  <2>s. SendInv
    BY DEF DInv
  <2> USE <2>0, <2>s DEF SendInv
  <2>1. ASSUME NEW w \in Workers, NEW n \in Seqs,
               RxIgnored(w, n) \/ RxQueued(w, n) \/ RxDropped(w, n)
        PROVE  DInv'
    <3>1. UNCHANGED <<pc, sending, log, rxSeq>>
      BY <2>1 DEF RxIgnored, RxQueued, RxDropped, state, chan
    <3>2. QED
      BY <3>1, ShrinkKeepsDInv
  <2>2. ASSUME NEW w \in Workers, NEW n \in Seqs, RxNext(w, n) PROVE DInv'
    <3>1. PICK next \in (n + 1)..(Last + 1) :
            /\ rxSeq' = next
            /\ sending' = [sending EXCEPT ![w] = (n..(next - 1)) \ Empty]
      BY <2>2 DEF RxNext, InTurn
    <3>2. /\ n = rxSeq
          /\ sending[w] = {}
          /\ pc' = [pc EXCEPT ![w] = "send"]
          /\ UNCHANGED log
      BY <2>2 DEF RxNext, InTurn, Arrive, chan
    <3>3. n \in Int /\ next \in Int /\ next > n
      BY RxAssumption DEF Seqs, RxAssumption
    <3>4. SendInv'
      BY <3>1, <3>2
    <3>5. PassedInv'
      <4>1. \A i \in 1..Len(log) : log[i] \in Int /\ log[i] < rxSeq
        BY RxAssumption DEF DInv, PassedInv, Seqs, RxAssumption
      <4>2. \A v \in Workers : \A m \in sending[v] : m \in Int /\ m < rxSeq
        BY RxAssumption DEF DInv, PassedInv, Seqs, RxAssumption
      <4>3. QED
        BY <3>1, <3>2, <3>3, <4>1, <4>2 DEF PassedInv
    <3>6. \A m \in sending'[w] : m >= n
      BY <3>1, <3>3
    <3>7. \A v \in Workers : v # w => sending'[v] = sending[v]
      BY <3>1
    <3>8. AtMostOnce'
      <4>1. \A m \in sending'[w] : m \notin Sent'
        BY <3>2, <3>3, <3>6, RxAssumption
           DEF DInv, PassedInv, Sent, Seqs, RxAssumption
      <4>2. \A v \in Workers : v # w => sending'[v] \cap sending'[w] = {}
        BY <3>2, <3>3, <3>6, <3>7, RxAssumption
           DEF DInv, PassedInv, Seqs, RxAssumption
      <4>3. QED
        BY <3>2, <3>7, <4>1, <4>2 DEF DInv, AtMostOnce, Sent
    <3>9. QED
      BY <3>4, <3>5, <3>8 DEF DInv
  <2>3. ASSUME NEW w \in Workers, BeginSend(w) \/ AbandonSend(w) PROVE DInv'
    <3>1. /\ UNCHANGED <<log, rxSeq>>
          /\ \A v \in Workers : sending'[v] \subseteq sending[v]
      BY <2>3 DEF BeginSend, AbandonSend, Return, chan, state
    <3>2. SendInv'
      BY <2>3 DEF BeginSend, AbandonSend, Return
    <3>3. QED
      BY <3>1, <3>2, ShrinkKeepsDInv
  <2>4. ASSUME NEW w \in Workers, StallDrop(w) PROVE DInv'
    <3>1. /\ UNCHANGED <<log, rxSeq>>
          /\ \A v \in Workers : sending'[v] \subseteq sending[v]
      BY <2>4 DEF StallDrop, chan, state
    <3>2. SendInv'
      BY <2>4 DEF StallDrop
    <3>3. QED
      BY <3>1, <3>2, ShrinkKeepsDInv
  <2>5. ASSUME NEW w \in Workers, SendPayload(w) PROVE DInv'
    <3>1. PICK n \in Seqs : /\ n \in sending[w]
                            /\ log' = Append(log, n)
                            /\ sending' = [sending EXCEPT ![w] = @ \ {n}]
      BY <2>5 DEF SendPayload, IsCurrent
    <3>2. rxSeq' = rxSeq /\ pc' = [pc EXCEPT ![w] = "send"]
      BY <2>5 DEF SendPayload, state
    <3>3. /\ Len(log') = Len(log) + 1
          /\ \A i \in 1..Len(log) : log'[i] = log[i]
          /\ log'[Len(log) + 1] = n
          /\ Len(log) \in Nat
      BY <3>1
    <3>4. SendInv'
      BY <3>1, <3>2
    <3>5. PassedInv'
      BY <3>1, <3>2, <3>3 DEF DInv, PassedInv
    <3>6. n \notin Sent
      BY <3>1 DEF DInv, AtMostOnce
    <3>7. Sent' = Sent \cup {n}
      BY <3>3 DEF Sent
    <3>8. \A i, j \in 1..Len(log') : i # j => log'[i] # log'[j]
      BY <3>3, <3>6 DEF DInv, AtMostOnce, Sent
    <3>9. \A v \in Workers : sending'[v] \cap Sent' = {}
      BY <3>1, <3>7 DEF DInv, AtMostOnce
    <3>10. \A u, v \in Workers : u # v => sending'[u] \cap sending'[v] = {}
      BY <3>1 DEF DInv, AtMostOnce
    <3>11. QED
      BY <3>4, <3>5, <3>8, <3>9, <3>10 DEF DInv, AtMostOnce
  <2>6. ASSUME NEW w \in Workers, EndSend(w) PROVE DInv'
    <3>1. UNCHANGED <<log, rxSeq, sending>>
      BY <2>6 DEF EndSend, chan, state
    <3>2. SendInv'
      BY <2>6 DEF EndSend
    <3>3. QED
      BY <3>1, <3>2, ShrinkKeepsDInv
  <2>7. ASSUME NEW c \in Closers, Close(c) PROVE DInv'
    <3>1. UNCHANGED <<log, rxSeq, sending>>
      BY <2>7 DEF Close, chan
    <3>2. SendInv'
      BY <2>7, RxAssumption DEF Close, RxAssumption
    <3>3. QED
      BY <3>1, <3>2, ShrinkKeepsDInv
  <2>8. ASSUME NEW p \in Procs, CloseRxStep(p) PROVE DInv'
    <3>1. UNCHANGED <<log, rxSeq, sending>>
      BY <2>8 DEF CloseRxStep, SignalDone, RequestLock, CloseChan, chan, state
    <3>2. SendInv'
      BY <2>8 DEF CloseRxStep, SignalDone, RequestLock, CloseChan
    <3>3. QED
      BY <3>1, <3>2, ShrinkKeepsDInv
  <2>9. CASE Read \/ ReadEOF \/ UNCHANGED vars
    <3>1. UNCHANGED <<log, rxSeq, sending, pc>>
      BY <2>9 DEF Read, ReadEOF, vars, chan, state
    <3>2. QED
      BY <3>1, ShrinkKeepsDInv
  <2>10. QED
    BY <2>1, <2>2, <2>3, <2>4, <2>5, <2>6, <2>7, <2>8, <2>9
       DEF Next, ProcessRx, SendStep
<1>3. QED
  BY <1>1, <1>2, TypeCorrect, PTL DEF Spec

\* A payload enters RxChan at most once, although its file may be downloaded
\* any number of times: rxSeq passes a sequence number once, under s.mu, and
\* one worker takes it.
THEOREM DeliveredOnce == Spec => []AtMostOnce
<1>1. DInv => AtMostOnce
  BY DEF DInv
<1>2. QED
  BY <1>1, DInvAlways, PTL

-----------------------------------------------------------------------------
\* Until two workers overlap at most one of them holds payloads, and these all
\* come after what is in the channel.
OInv ==
  ~raced =>
    /\ InOrder
    /\ \A v, w \in Workers : sending[v] # {} /\ sending[w] # {} => v = w
    /\ \A w \in Workers : \A n \in sending[w] : \A i \in 1..Len(log) : log[i] < n

LEMMA ShrinkKeepsOInv ==
  ASSUME OInv, UNCHANGED <<log, raced>>,
         \A w \in Workers : sending'[w] \subseteq sending[w]
  PROVE  OInv'
<1>1. \A w \in Workers : sending'[w] # {} => sending[w] # {}
  OBVIOUS
<1>2. QED
  BY <1>1 DEF OInv, InOrder

\* For any number of workers, envelopes, copies and closers, and whatever the
\* stall timer drops: RxChan is out of order only if one worker took envelopes
\* while another had not sent all of its own, which is the overlap that
\* releasing s.mu before the sends allows.
THEOREM OnlyOverlapReorders == Spec => []OnlyRacesReorder
<1>1. Init => OInv
  BY DEF Init, OInv, InOrder
<1>2. TypeOK /\ DInv /\ OInv /\ [Next]_vars => OInv'
  <2> SUFFICES ASSUME TypeOK, DInv, OInv, [Next]_vars PROVE OInv'
    OBVIOUS
  <2>0. /\ sending \in [Workers -> SUBSET Seqs]
        /\ log \in Seq(Seqs)
    BY DEF TypeOK
  <2> USE <2>0
  <2>1. ASSUME NEW w \in Workers, NEW n \in Seqs,
               RxIgnored(w, n) \/ RxQueued(w, n) \/ RxDropped(w, n)
        PROVE  OInv'
    <3>1. UNCHANGED <<sending, log, raced>>
      BY <2>1 DEF RxIgnored, RxQueued, RxDropped, chan
    <3>2. QED
      BY <3>1, ShrinkKeepsOInv
  <2>2. ASSUME NEW w \in Workers, NEW n \in Seqs, RxNext(w, n) PROVE OInv'
    <3>1. PICK next \in (n + 1)..(Last + 1) :
            sending' = [sending EXCEPT ![w] = (n..(next - 1)) \ Empty]
      BY <2>2 DEF RxNext, InTurn
    <3>2. /\ n = rxSeq /\ UNCHANGED log
          /\ raced' = (raced \/ \E v \in Workers \ {w} : sending[v] # {})
      BY <2>2 DEF RxNext, InTurn, chan
    <3>3. n \in Int /\ next \in Int /\ \A i \in 1..Len(log) : log[i] \in Int
      BY RxAssumption DEF Seqs, RxAssumption
    <3>4. \A i \in 1..Len(log) : log[i] < n
      BY <3>2 DEF DInv, PassedInv
    <3>5. \A m \in sending'[w] : m \in Int /\ m >= n
      BY <3>1, <3>3
    <3>6. SUFFICES ASSUME ~raced' PROVE OInv'
      BY DEF OInv
    <3>7. ~raced /\ \A v \in Workers : v # w => sending'[v] = {}
      BY <3>1, <3>2, <3>6
    <3>8. \A v \in Workers : \A m \in sending'[v] :
            \A i \in 1..Len(log') : log'[i] < m
      BY <3>2, <3>3, <3>4, <3>5, <3>7
    <3>9. QED
      BY <3>2, <3>7, <3>8 DEF OInv, InOrder
  <2>3. ASSUME NEW w \in Workers, BeginSend(w) \/ AbandonSend(w) \/
               StallDrop(w) \/ EndSend(w)
        PROVE  OInv'
    <3>1. /\ UNCHANGED <<log, raced>>
          /\ \A v \in Workers : sending'[v] \subseteq sending[v]
      BY <2>3 DEF BeginSend, AbandonSend, StallDrop, EndSend, Return, chan, history
    <3>2. QED
      BY <3>1, ShrinkKeepsOInv
  <2>4. ASSUME NEW w \in Workers, SendPayload(w) PROVE OInv'
    <3>1. PICK n \in Seqs : /\ n \in sending[w]
                            /\ \A m \in sending[w] : n <= m
                            /\ log' = Append(log, n)
                            /\ sending' = [sending EXCEPT ![w] = @ \ {n}]
      BY <2>4 DEF SendPayload, IsCurrent
    <3>2. /\ Len(log') = Len(log) + 1
          /\ \A i \in 1..Len(log) : log'[i] = log[i]
          /\ log'[Len(log) + 1] = n
          /\ Len(log) \in Nat
      BY <3>1
    <3>3. SUFFICES ASSUME ~raced' PROVE OInv'
      BY DEF OInv
    <3>4. ~raced
      BY <2>4, <3>3 DEF SendPayload, history
    <3>5. InOrder'
      <4>1. \A i \in 1..Len(log) : log[i] < n
        BY <3>1, <3>4 DEF OInv
      <4>2. \A i, j \in 1..Len(log) : i < j => log'[i] < log'[j]
        BY <3>2, <3>4 DEF OInv, InOrder
      <4>3. \A i \in 1..Len(log) : log'[i] < log'[Len(log) + 1]
        BY <3>2, <4>1
      <4>4. QED
        BY <3>2, <4>2, <4>3 DEF InOrder
    <3>6. \A v \in Workers : sending'[v] # {} => v = w
      BY <3>1, <3>4 DEF OInv
    <3>7. \A m \in sending'[w] : n < m
      BY <3>1, RxAssumption DEF Seqs, RxAssumption
    <3>8. \A m \in sending'[w] : \A i \in 1..Len(log') : log'[i] < m
      BY <3>1, <3>2, <3>4, <3>7 DEF OInv
    <3>9. \A v \in Workers : \A m \in sending'[v] :
            \A i \in 1..Len(log') : log'[i] < m
      BY <3>6, <3>8
    <3>10. QED
      BY <3>5, <3>6, <3>9 DEF OInv
  <2>5. ASSUME NEW p \in Procs, Close(p) \/ CloseRxStep(p) PROVE OInv'
    <3>1. UNCHANGED <<log, sending, raced>>
      BY <2>5 DEF Close, history, CloseRxStep, SignalDone, RequestLock, CloseChan, chan
    <3>2. QED
      BY <3>1, ShrinkKeepsOInv
  <2>6. CASE Read \/ ReadEOF \/ UNCHANGED vars
    <3>1. UNCHANGED <<log, sending, raced>>
      BY <2>6 DEF Read, ReadEOF, vars, chan, history
    <3>2. QED
      BY <3>1, ShrinkKeepsOInv
  <2>7. QED
    BY <2>1, <2>2, <2>3, <2>4, <2>5, <2>6
       DEF Next, ProcessRx, SendStep, Procs
<1>3. OInv => OnlyRacesReorder
  BY DEF OInv, OnlyRacesReorder
<1>4. QED
  BY <1>1, <1>2, <1>3, TypeCorrect, DInvAlways, PTL DEF Spec
-----------------------------------------------------------------------------

\* A step that passes no sequence number, loses nothing that was collected and
\* does not take rxDone back preserves NothingSkipped.
LEMMA KeepsNothingSkipped ==
  ASSUME NothingSkipped, rxSeq' = rxSeq, rxDone => rxDone',
         Sent \cup stalled \cup UNION {sending[w] : w \in Workers}
           \subseteq (Sent \cup stalled \cup UNION {sending[w] : w \in Workers})'
  PROVE  NothingSkipped'
BY DEF NothingSkipped

\* The drain loop releases everything it passes: until the session is torn down
\* each payload below rxSeq is in the history of RxChan, in the hands of a
\* worker or was given up by the stall timer.
THEOREM NoneSkipped == Spec => []NothingSkipped
<1>1. Init => NothingSkipped
  BY DEF Init, NothingSkipped
<1>2. TypeOK /\ DInv /\ NothingSkipped /\ [Next]_vars => NothingSkipped'
  <2> SUFFICES ASSUME TypeOK, DInv, NothingSkipped, [Next]_vars
               PROVE  NothingSkipped'
    OBVIOUS
  <2>0. /\ pc \in [Procs -> PCs]
        /\ sending \in [Workers -> SUBSET Seqs]
        /\ log \in Seq(Seqs)
        /\ rxSeq \in Int
        /\ SendInv
    BY RxAssumption DEF TypeOK, RxAssumption, DInv
  <2> USE <2>0 DEF SendInv
  <2>1. ASSUME NEW w \in Workers, NEW n \in Seqs,
               RxIgnored(w, n) \/ RxQueued(w, n) \/ RxDropped(w, n)
        PROVE  NothingSkipped'
    BY <2>1 DEF RxIgnored, RxQueued, RxDropped, state, chan, NothingSkipped, Sent
  <2>2. ASSUME NEW w \in Workers, NEW n \in Seqs, RxNext(w, n)
        PROVE  NothingSkipped'
    <3>1. PICK next \in (n + 1)..(Last + 1) :
            /\ rxSeq' = next
            /\ sending' = [sending EXCEPT ![w] = (n..(next - 1)) \ Empty]
      BY <2>2 DEF RxNext
    <3>2. n = rxSeq /\ sending[w] = {} /\ UNCHANGED <<log, rxDone, stalled>>
      BY <2>2 DEF RxNext, InTurn, Arrive, chan, Procs
    <3>3. n \in Int /\ next \in Int
      BY RxAssumption DEF Seqs, RxAssumption
    <3>4. ASSUME NEW m \in 0..(next - 1), m \notin Empty, ~rxDone
          PROVE  m \in (Sent \cup stalled \cup UNION {sending[v] : v \in Workers})'
      <4>1. CASE m >= n
        <5>1. m \in sending'[w]
          BY <3>1, <3>3, <3>4, <4>1
        <5>2. QED
          BY <5>1
      <4>2. CASE m < n
        <5>1. m \in Sent \cup stalled \cup UNION {sending[v] : v \in Workers}
          BY <3>2, <3>3, <3>4, <4>2 DEF NothingSkipped
        <5>2. \A v \in Workers : sending[v] \subseteq sending'[v]
          BY <3>1, <3>2
        <5>3. QED
          BY <3>2, <5>1, <5>2 DEF Sent
      <4>3. QED
        BY <3>3, <4>1, <4>2
    <3>5. QED
      BY <3>1, <3>2, <3>4 DEF NothingSkipped
  <2>3. ASSUME NEW w \in Workers, BeginSend(w) \/ AbandonSend(w)
        PROVE  NothingSkipped'
    <3>1. UNCHANGED <<log, rxSeq, stalled>> /\ (rxDone' \/ UNCHANGED sending)
      BY <2>3 DEF BeginSend, AbandonSend, Return, chan, state, history
    <3>2. rxDone' = rxDone
      BY <2>3 DEF BeginSend, AbandonSend, chan
    <3>3. QED
      BY <3>1, <3>2 DEF NothingSkipped, Sent
  <2>4. ASSUME NEW w \in Workers, NEW n \in sending[w],
               sending' = [sending EXCEPT ![w] = @ \ {n}],
               UNCHANGED <<rxSeq, rxDone>>,
               Sent \cup stalled \cup {n} \subseteq (Sent \cup stalled)'
        PROVE  NothingSkipped'
    <3>1. \A v \in Workers : sending[v] \subseteq sending'[v] \cup {n}
      BY <2>4
    <3>2. QED
      BY <2>4, <3>1, KeepsNothingSkipped
  <2>5. ASSUME NEW w \in Workers, SendPayload(w) PROVE NothingSkipped'
    <3>1. PICK n \in Seqs : /\ n \in sending[w]
                            /\ log' = Append(log, n)
                            /\ sending' = [sending EXCEPT ![w] = @ \ {n}]
      BY <2>5 DEF SendPayload, IsCurrent
    <3>2. UNCHANGED <<rxSeq, rxDone, stalled>>
      BY <2>5 DEF SendPayload, state, history
    <3>3. Sent' = Sent \cup {n}
      <4>1. /\ Len(log') = Len(log) + 1
            /\ \A i \in 1..Len(log) : log'[i] = log[i]
            /\ log'[Len(log) + 1] = n
            /\ Len(log) \in Nat
        BY <3>1
      <4>2. QED
        BY <4>1 DEF Sent
    <3>4. QED
      BY <2>4, <3>1, <3>2, <3>3
  <2>6. ASSUME NEW w \in Workers, StallDrop(w) PROVE NothingSkipped'
    <3>1. PICK n \in Seqs : /\ n \in sending[w]
                            /\ stalled' = stalled \cup {n}
                            /\ sending' = [sending EXCEPT ![w] = @ \ {n}]
      BY <2>6 DEF StallDrop, IsCurrent
    <3>2. UNCHANGED <<rxSeq, rxDone, log>>
      BY <2>6 DEF StallDrop, state, chan
    <3>3. QED
      BY <2>4, <3>1, <3>2 DEF Sent
  <2>7. ASSUME \/ \E w \in Workers : EndSend(w)
               \/ \E c \in Closers : Close(c)
               \/ \E p \in Procs : CloseRxStep(p)
               \/ Read \/ ReadEOF \/ UNCHANGED vars
        PROVE  NothingSkipped'
    <3>1. UNCHANGED <<log, rxSeq, stalled, sending>> /\ (rxDone => rxDone')
      <4>1. CASE \E w \in Workers : EndSend(w)
        BY <4>1 DEF EndSend, chan, state, history
      <4>2. CASE \E c \in Closers : Close(c)
        BY <4>2 DEF Close, chan, history
      <4>3. CASE \E p \in Procs : CloseRxStep(p)
        <5>1. PICK p \in Procs : CloseRxStep(p)
          BY <4>3
        <5>2. UNCHANGED <<state, log, stalled, sending>>
          BY <5>1 DEF CloseRxStep, SignalDone, RequestLock, CloseChan, chan, history
        <5>3. rxDone' = TRUE \/ rxDone' = rxDone
          BY <5>1 DEF CloseRxStep, SignalDone, RequestLock, CloseChan, chan
        <5>4. QED
          BY <5>2, <5>3 DEF state
      <4>4. CASE Read \/ ReadEOF \/ UNCHANGED vars
        BY <4>4 DEF Read, ReadEOF, vars, chan, state, history
      <4>5. QED
        BY <2>7, <4>1, <4>2, <4>3, <4>4
    <3>2. QED
      BY <3>1, KeepsNothingSkipped DEF Sent
  <2>8. QED
    BY <2>1, <2>2, <2>3, <2>5, <2>6, <2>7 DEF Next, ProcessRx, SendStep
<1>3. QED
  BY <1>1, <1>2, TypeCorrect, DInvAlways, PTL DEF Spec

-----------------------------------------------------------------------------
\* What the queue holds is finite.
LEMMA QueueFinite ==
  ASSUME NEW Q \in SUBSET Seqs
  PROVE  IsFiniteSet(Q) /\ Cardinality(Q) \in Nat
<1>1. IsFiniteSet(Seqs)
  BY RxAssumption, FS_Interval DEF Seqs, RxAssumption
<1>2. IsFiniteSet(Q)
  BY <1>1, FS_Subset
<1>3. QED
  BY <1>2, FS_CardinalityType

\* Taking a part out of a finite set takes its size out of the size.
LEMMA CardinalityOfRest ==
  ASSUME NEW S, NEW T \in SUBSET S, IsFiniteSet(S)
  PROVE  Cardinality(S \ T) = Cardinality(S) - Cardinality(T)
<1>1. IsFiniteSet(T) /\ IsFiniteSet(S \ T)
  BY FS_Subset, FS_Difference
<1>2. Cardinality(S \ T) = Cardinality(S) - Cardinality(S \cap T)
  BY FS_Difference
<1>3. S \cap T = T
  OBVIOUS
<1>4. QED
  BY <1>2, <1>3

LEMMA CardinalityOfOneMore ==
  ASSUME NEW S, NEW x, IsFiniteSet(S)
  PROVE  Cardinality(S \cup {x}) <= Cardinality(S) + 1
<1>1. Cardinality(S) \in Nat
  BY FS_CardinalityType
<1>2. Cardinality(S \cup {x}) = IF x \in S THEN Cardinality(S) ELSE Cardinality(S) + 1
  BY FS_AddElement
<1>3. QED
  BY <1>1, <1>2

\* A drained run takes its bytes out of the queue's bytes.
LEMMA BytesOfRest ==
  ASSUME NEW Q \in SUBSET Seqs, NEW run \in SUBSET Q
  PROVE  ByteCount(Q \ run) = ByteCount(Q) - ByteCount(run)
<1>1. Bytes(run) \in SUBSET Bytes(Q)
  BY DEF Bytes
<1>2. Bytes(Q \ run) = Bytes(Q) \ Bytes(run)
  <2>1. \A b : b \in Bytes(Q \ run) <=> \E n \in Q \ run : b \in {n} \X (1..Size[n])
    BY DEF Bytes
  <2>2. \A b : b \in Bytes(Q) <=> \E n \in Q : b \in {n} \X (1..Size[n])
    BY DEF Bytes
  <2>3. \A b : b \in Bytes(run) <=> \E n \in run : b \in {n} \X (1..Size[n])
    BY DEF Bytes
  <2>4. ASSUME NEW b, NEW m, NEW n, b \in {m} \X (1..Size[m]), b \in {n} \X (1..Size[n])
        PROVE  m = n
    <3>1. b[1] \in {m} /\ b[1] \in {n}
      BY <2>4
    <3>2. QED
      BY <3>1
  <2>5. ASSUME NEW b \in Bytes(Q \ run) PROVE b \in Bytes(Q) \ Bytes(run)
    <3>1. PICK n \in Q \ run : b \in {n} \X (1..Size[n])
      BY <2>1
    <3>2. b \notin Bytes(run)
      BY <2>3, <2>4, <3>1
    <3>3. QED
      BY <2>2, <3>1, <3>2
  <2>6. ASSUME NEW b \in Bytes(Q), b \notin Bytes(run) PROVE b \in Bytes(Q \ run)
    <3>1. PICK n \in Q : b \in {n} \X (1..Size[n])
      BY <2>2
    <3>2. n \notin run
      BY <2>3, <2>6, <3>1
    <3>3. QED
      BY <2>1, <3>1, <3>2
  <2>7. QED
    BY <2>5, <2>6
<1>3. IsFiniteSet(Bytes(Q))
  BY BytesFinite
<1>4. QED
  BY <1>1, <1>2, <1>3, CardinalityOfRest DEF ByteCount

\* One more envelope brings at most its own bytes.
LEMMA BytesOfOneMore ==
  ASSUME NEW Q \in SUBSET Seqs, NEW n \in Seqs
  PROVE  ByteCount(Q \cup {n}) <= ByteCount(Q) + Size[n]
<1> DEFINE own == {n} \X (1..Size[n])
<1>1. Size[n] \in Nat
  BY SizeAssumption DEF SizeAssumption
<1>2. IsFiniteSet(own) /\ Cardinality(own) = Size[n]
  <2>1. IsFiniteSet({n}) /\ Cardinality({n}) = 1
    BY FS_Singleton
  <2>2. IsFiniteSet(1..Size[n]) /\ Cardinality(1..Size[n]) = Size[n]
    BY <1>1, FS_Interval
  <2>3. IsFiniteSet(own) /\ Cardinality(own) = 1 * Size[n]
    BY <2>1, <2>2, FS_Product
  <2>4. QED
    BY <1>1, <2>3
<1>3. Bytes(Q \cup {n}) = Bytes(Q) \cup own
  BY DEF Bytes
<1>4. IsFiniteSet(Bytes(Q)) /\ ByteCount(Q) \in Nat
  BY BytesFinite
<1> HIDE DEF own
<1>5. /\ Cardinality(Bytes(Q) \cup own)
           = Cardinality(Bytes(Q)) + Cardinality(own) - Cardinality(Bytes(Q) \cap own)
      /\ IsFiniteSet(Bytes(Q) \cap own)
  <2>1. Bytes(Q) \cap own \in SUBSET own
    OBVIOUS
  <2>2. QED
    BY <1>2, <1>4, <2>1, FS_Union, FS_Subset
<1>6. Cardinality(Bytes(Q) \cap own) \in Nat
  BY <1>5, FS_CardinalityType
<1>7. ByteCount(Q \cup {n}) = ByteCount(Q) + Size[n] - Cardinality(Bytes(Q) \cap own)
  BY <1>2, <1>3, <1>5 DEF ByteCount
<1>8. QED
  BY <1>1, <1>4, <1>6, <1>7

\* The session never waits for an envelope it holds, and its queue keeps within
\* its limits as the code tests them, whatever arrives how often and in which
\* order and however long the payloads are: never more envelopes than
\* MaxRxQueueSize, never a byte uncounted, and less than one payload above
\* MaxRxQueueBytes.
THEOREM QueueStaysSound == Spec => []QueueSound
<1> USE RxAssumption DEF RxAssumption
<1>1. Init => QueueSound
  <2>1. Cardinality({}) = 0
    BY FS_EmptySet
  <2>2. Bytes({}) = {}
    BY DEF Bytes
  <2>3. 0 < MaxRxQueueBytes + MaxPayload /\ 0 <= MaxRxQueueSize
    BY SizeAssumption DEF SizeAssumption
  <2>4. SUFFICES ASSUME Init PROVE QueueSound
    OBVIOUS
  <2>5. rxQueue = {} /\ rxQueueBytes = 0
    BY <2>4 DEF Init
  <2>6. QueueBounded
    BY <2>1, <2>2, <2>3, <2>5 DEF QueueBounded, ByteCount
  <2>7. QED
    BY <2>5, <2>6 DEF QueueSound, NeverWaitsForQueued
<1>2. TypeOK /\ QueueSound /\ [Next]_vars => QueueSound'
  <2> SUFFICES ASSUME TypeOK, QueueSound, [Next]_vars PROVE QueueSound'
    OBVIOUS
  <2>0. /\ rxSeq \in Int
        /\ rxQueue \in SUBSET Seqs
        /\ rxQueueBytes \in Int
        /\ \A m \in Seqs : m \in Int
    BY DEF TypeOK, Seqs
  <2>q. /\ Cardinality(rxQueue) \in Nat /\ IsFiniteSet(rxQueue)
        /\ ByteCount(rxQueue) \in Nat
    BY <2>0, QueueFinite, BytesFinite
  <2>1. ASSUME NEW w \in Workers, NEW n \in Seqs, RxNext(w, n) PROVE QueueSound'
    <3>1. PICK next \in (n + 1)..(Last + 1) :
            /\ DrainsTo(n + 1, next)
            /\ rxSeq' = next
            /\ rxQueue' = rxQueue \ ((n + 1)..(next - 1))
            /\ rxQueueBytes' = rxQueueBytes - ByteCount((n + 1)..(next - 1))
            /\ rxClosed' = \/ n \in Closing
                           \/ (n + 1)..(next - 1) # {} /\ next - 1 \in Closing
      BY <2>1 DEF RxNext
    <3> DEFINE run == (n + 1)..(next - 1)
    <3>2. n = rxSeq /\ ~rxClosed /\ n \in Int /\ next \in Int
      BY <2>0, <2>1, <3>1 DEF RxNext, InTurn
    <3>3. NeverWaitsForQueued'
      <4> SUFFICES ASSUME ~rxClosed', NEW m \in rxQueue' PROVE m > next
        BY <3>1 DEF NeverWaitsForQueued
      <4>1. m \in rxQueue /\ m \in Int /\ m > n
        BY <2>0, <3>1, <3>2 DEF QueueSound, NeverWaitsForQueued
      <4>2. m \notin run
        BY <3>1
      <4>3. m >= next
        BY <3>2, <4>1, <4>2
      <4>4. next > n + 1 => run # {}
        <5>1. next > n + 1 => n + 1 \in run
          BY <3>2
        <5>2. QED
          BY <5>1
      <4>5. next \notin rxQueue
        BY <3>1, <4>4 DEF DrainsTo
      <4>6. QED
        BY <3>2, <4>1, <4>3, <4>5
    <3>4. run \subseteq rxQueue
      BY <3>1 DEF DrainsTo
    <3>5. rxQueue' = rxQueue \ run /\ rxQueueBytes' = rxQueueBytes - ByteCount(run)
      BY <3>1
    <3> HIDE DEF run
    <3>6. Cardinality(rxQueue') <= Cardinality(rxQueue) /\ Cardinality(rxQueue') \in Nat
      <4>1. rxQueue' \in SUBSET rxQueue
        BY <3>5
      <4>2. QED
        BY <2>0, <2>q, <4>1, FS_Subset, QueueFinite
    <3>7. ByteCount(rxQueue') = ByteCount(rxQueue) - ByteCount(run)
      BY <2>0, <3>4, <3>5, BytesOfRest
    <3>8. ByteCount(run) \in Nat
      <4>1. run \in SUBSET Seqs
        BY <2>0, <3>4
      <4>2. QED
        BY <4>1, BytesFinite
    <3>9. QueueBounded'
      <4>1. Cardinality(rxQueue') <= MaxRxQueueSize
        BY <2>q, <3>6 DEF QueueSound, QueueBounded
      <4>2. /\ ByteCount(rxQueue') <= rxQueueBytes'
            /\ rxQueueBytes' < MaxRxQueueBytes + MaxPayload
        BY <2>0, <2>q, <3>5, <3>7, <3>8, SizeAssumption
           DEF QueueSound, QueueBounded, SizeAssumption
      <4>3. QED
        BY <4>1, <4>2 DEF QueueBounded
    <3>10. QED
      BY <3>3, <3>9 DEF QueueSound
  <2>2. ASSUME NEW w \in Workers, NEW n \in Seqs, RxQueued(w, n) PROVE QueueSound'
    <3>1. /\ n > rxSeq
          /\ ~QueueFull
          /\ rxQueue' = rxQueue \cup {n}
          /\ rxQueueBytes' = rxQueueBytes + Size[n]
          /\ UNCHANGED <<rxSeq, rxClosed>>
      BY <2>2 DEF RxQueued
    <3>2. /\ Cardinality(rxQueue) < MaxRxQueueSize
          /\ rxQueueBytes < MaxRxQueueBytes
      BY <2>0, <2>q, <3>1 DEF QueueFull
    <3>3. Cardinality(rxQueue') <= Cardinality(rxQueue) + 1
      BY <2>q, <3>1, CardinalityOfOneMore
    <3>4. ByteCount(rxQueue') <= ByteCount(rxQueue) + Size[n]
      BY <2>0, <3>1, BytesOfOneMore
    <3>5. Cardinality(rxQueue') \in Nat /\ ByteCount(rxQueue') \in Nat
      <4>1. rxQueue' \in SUBSET Seqs
        BY <2>0, <3>1
      <4>2. QED
        BY <4>1, QueueFinite, BytesFinite
    <3>6. Size[n] \in Nat /\ Size[n] <= MaxPayload /\ MaxPayload \in Nat
      BY SizeAssumption DEF SizeAssumption
    <3>7. QueueBounded'
      BY <2>0, <2>q, <3>1, <3>2, <3>3, <3>4, <3>5, <3>6 DEF QueueSound, QueueBounded
    <3>8. NeverWaitsForQueued'
      BY <3>1 DEF QueueSound, NeverWaitsForQueued
    <3>9. QED
      BY <3>7, <3>8 DEF QueueSound
  <2>3. ASSUME UNCHANGED <<rxSeq, rxQueue, rxQueueBytes>>, rxClosed => rxClosed'
        PROVE  QueueSound'
    BY <2>3 DEF QueueSound, NeverWaitsForQueued, QueueBounded
  <2>4. ASSUME NEW w \in Workers, NEW n \in Seqs, RxIgnored(w, n) \/ RxDropped(w, n)
        PROVE  QueueSound'
    BY <2>3, <2>4 DEF RxIgnored, RxDropped, state
  <2>5. ASSUME NEW w \in Workers, SendStep(w) PROVE QueueSound'
    BY <2>3, <2>5 DEF SendStep, BeginSend, SendPayload, AbandonSend, StallDrop,
                      EndSend, state
  <2>6. ASSUME NEW p \in Procs, Close(p) \/ CloseRxStep(p) PROVE QueueSound'
    BY <2>3, <2>6 DEF Close, CloseRxStep, SignalDone, RequestLock, CloseChan, state
  <2>7. CASE Read \/ ReadEOF \/ UNCHANGED vars
    BY <2>3, <2>7 DEF Read, ReadEOF, vars, state
  <2>8. QED
    BY <2>1, <2>2, <2>4, <2>5, <2>6, <2>7 DEF Next, ProcessRx, Procs
<1>3. QED
  BY <1>1, <1>2, TypeCorrect, PTL DEF Spec

-----------------------------------------------------------------------------
(* The receive half implements Stream: until something disturbs it, what    *)
(* enters RxChan is a prefix of the peer's payloads.                        *)

Payload == Seqs \ Empty

Aborted == \E c \in Closers : pc[c] # "idle"

Disturbed == raced \/ stalled # {}

\* Nothing is missing in front of a payload of the channel's history.
Gapless == ~Disturbed =>
  \A i \in 1..Len(log) : \A n \in Payload : n < log[i] => n \in Sent

\* Inside the send loop a worker that holds payloads, or a Close, has with the
\* channel all that was passed, and all there is when the loop ends with
\* closeRx.
HandsFull == ~Disturbed =>
  \A w \in Workers :
    /\ pc[w] \in {"send", "select"} /\ (sending[w] # {} \/ closing[w]) =>
         \A n \in Payload : n < rxSeq => n \in Sent \cup sending[w]
    /\ closing[w] => \A n \in Payload : n < rxSeq
    /\ pc[w] \in {"closeRx", "lock", "drain"} => Payload \subseteq Sent

\* Whoever tears the receive side down has marked it closed, and does so
\* because this side was closed or because all payloads are in.
TornDown ==
  /\ \A w \in Workers : closing[w] => rxClosed
  /\ \A p \in Procs : pc[p] \in {"closeRx", "lock", "drain"} => rxClosed
  /\ rxDone => rxClosed
  /\ rxDone => Disturbed \/ Aborted \/ Payload \subseteq Sent

RInv ==
  /\ Sent \subseteq Payload
  /\ \A w \in Workers : sending[w] \subseteq Payload
  /\ Gapless
  /\ HandsFull
  /\ TornDown
  /\ eof => rxChanClosed /\ taken = Len(log)

\* A step that leaves the channel's history alone and adds to no worker's hands
\* preserves what RInv says of payloads.
LEMMA KeepsHistory ==
  ASSUME RInv, UNCHANGED log, Disturbed => Disturbed',
         \A w \in Workers : sending'[w] \subseteq sending[w]
  PROVE  /\ (Sent \subseteq Payload)'
         /\ \A w \in Workers : sending'[w] \subseteq Payload
         /\ Gapless'
BY DEF RInv, Gapless, Sent, Payload

\* A payload that enters RxChan enters its history.
LEMMA AppendedToHistory ==
  ASSUME log \in Seq(Seqs), NEW n \in Seqs, log' = Append(log, n)
  PROVE  /\ Len(log) \in Nat
         /\ Len(log') = Len(log) + 1
         /\ \A i \in 1..Len(log) : log'[i] = log[i]
         /\ log'[Len(log) + 1] = n
         /\ Sent' = Sent \cup {n}
<1>1. /\ Len(log) \in Nat
      /\ Len(log') = Len(log) + 1
      /\ \A i \in 1..Len(log) : log'[i] = log[i]
      /\ log'[Len(log) + 1] = n
  OBVIOUS
<1>2. QED
  BY <1>1 DEF Sent

\* A closer that has started never stands at its beginning again.
LEMMA StaysAborted ==
  ASSUME TypeOK, [Next]_vars, Aborted
  PROVE  Aborted'
<1> USE DEF Procs
<1>0. pc \in [Procs -> PCs] /\ \A c \in Closers : c \notin Workers
  BY RxAssumption DEF TypeOK, RxAssumption
<1>1. CASE \E w \in Workers, n \in Seqs : ProcessRx(w, n)
  BY <1>0, <1>1 DEF ProcessRx, RxIgnored, RxNext, RxQueued, RxDropped, Aborted
<1>2. CASE \E w \in Workers : SendStep(w)
  <2>1. PICK w \in Workers : SendStep(w)
    BY <1>2
  <2>2. \E l \in PCs : pc' = [pc EXCEPT ![w] = l]
    BY <2>1 DEF SendStep, BeginSend, SendPayload, AbandonSend, StallDrop,
                EndSend, Return, PCs
  <2>3. QED
    BY <1>0, <2>2 DEF Aborted
<1>3. CASE \E p \in Procs : Close(p) \/ CloseRxStep(p)
  <2>1. PICK p \in Procs : Close(p) \/ CloseRxStep(p)
    BY <1>3
  <2>2. \E l \in PCs : pc' = [pc EXCEPT ![p] = l] /\ (p \in Closers => l # "idle")
    BY <1>0, <2>1 DEF Close, CloseRxStep, SignalDone, RequestLock, CloseChan, PCs
  <2>3. QED
    BY <1>0, <2>2 DEF Aborted
<1>4. CASE Read \/ ReadEOF \/ UNCHANGED vars
  BY <1>4 DEF Read, ReadEOF, vars, Aborted
<1>5. QED
  BY <1>1, <1>2, <1>3, <1>4 DEF Next

LEMMA RInvStep ==
  ASSUME TypeOK, DInv, NothingSkipped, NoSendOnClosedChannel, RInv, [Next]_vars
  PROVE  RInv'
<1>0. /\ pc \in [Procs -> PCs]
      /\ sending \in [Workers -> SUBSET Seqs]
      /\ closing \in [Workers -> BOOLEAN]
      /\ log \in Seq(Seqs)
      /\ rxSeq \in Int
      /\ SendInv
      /\ \A m \in Seqs : m \in Int
      /\ \A c \in Closers : c \notin Workers
      /\ Workers \subseteq Procs /\ Closers \subseteq Procs
      /\ \A p \in Procs : p \in Workers \/ p \in Closers
  BY RxAssumption DEF TypeOK, RxAssumption, DInv, Seqs, Procs
<1> USE <1>0
<1>1. ASSUME NEW w \in Workers, NEW n \in Seqs,
             RxIgnored(w, n) \/ RxQueued(w, n) \/ RxDropped(w, n)
      PROVE  RInv'
  <2>1. UNCHANGED <<rxSeq, rxClosed, log, rxDone, rxChanClosed, taken, eof, pc,
                    sending, closing, stalled, raced>>
    BY <1>1 DEF RxIgnored, RxQueued, RxDropped, state, chan, reader
  <2>2. QED
    BY <2>1 DEF RInv, Gapless, HandsFull, TornDown, Aborted, Disturbed, Sent
<1>2. ASSUME NEW w \in Workers, NEW n \in Seqs, RxNext(w, n) PROVE RInv'
  <2>1. PICK next \in (n + 1)..(Last + 1) :
          /\ rxSeq' = next
          /\ sending' = [sending EXCEPT ![w] = (n..(next - 1)) \ Empty]
          /\ LET closes == \/ n \in Closing
                           \/ (n + 1)..(next - 1) # {} /\ next - 1 \in Closing
             IN  closing' = [closing EXCEPT ![w] = closes] /\ rxClosed' = closes
    BY <1>2 DEF RxNext
  <2>2. /\ n = rxSeq /\ pc[w] = "idle" /\ ~rxClosed
        /\ pc' = [pc EXCEPT ![w] = "send"]
        /\ UNCHANGED <<log, rxDone, rxChanClosed, taken, eof, stalled>>
        /\ raced' = (raced \/ \E v \in Workers \ {w} : sending[v] # {})
    BY <1>2 DEF RxNext, InTurn, Arrive, chan, reader
  <2>3. /\ n \in Int /\ next \in Int /\ next > n /\ next <= Last + 1 /\ Last \in Int
    BY RxAssumption DEF Seqs, RxAssumption
  <2>4. /\ ~rxDone /\ sending[w] = {}
        /\ \A v \in Workers : ~closing[v]
        /\ \A p \in Procs : pc[p] \notin {"closeRx", "lock", "drain"}
    BY <2>2 DEF RInv, TornDown, SendInv
  <2>d. ~Disturbed' => ~Disturbed /\ stalled = {} /\ \A v \in Workers : sending[v] = {}
    BY <2>2, <2>4 DEF Disturbed
  <2>5. \A m \in sending'[w] : m \in Payload
    BY <2>1, <2>3 DEF Seqs, Payload
  <2>6. ASSUME ~Disturbed', NEW m \in Payload, m < next
        PROVE  m \in Sent' \cup sending'[w]
    <3>0. m \in 0..Last /\ m \notin Empty
      BY DEF Payload, Seqs
    <3>1. CASE m >= n
      BY <2>1, <2>3, <2>6, <3>0, <3>1
    <3>2. CASE m < n
      <4>1. m \in Sent \cup stalled \cup UNION {sending[v] : v \in Workers}
        BY <2>2, <2>3, <2>4, <3>0, <3>2 DEF NothingSkipped
      <4>2. m \in Sent
        BY <2>6, <2>d, <4>1
      <4>3. QED
        BY <2>2, <4>2 DEF Sent
    <3>3. QED
      BY <2>3, <3>0, <3>1, <3>2
  <2>7. closing'[w] => \A m \in Payload : m < next
    <3> SUFFICES ASSUME closing'[w], NEW m \in Payload PROVE m < next
      OBVIOUS
    <3>1. n \in Closing \/ next - 1 \in Closing
      BY <2>1
    <3>2. m <= n \/ m <= next - 1
      BY <3>1, NothingBehindClose DEF Payload
    <3>3. m \in Int
      BY DEF Payload
    <3>4. QED
      BY <2>3, <3>2, <3>3
  <2>8. HandsFull'
    <3> SUFFICES ASSUME ~Disturbed' PROVE HandsFull'
      BY DEF HandsFull
    <3>1. \A v \in Workers : v # w => sending'[v] = {} /\ ~closing'[v]
      BY <2>1, <2>4, <2>d
    <3>2. \A v \in Workers : pc'[v] \notin {"closeRx", "lock", "drain"}
      BY <2>2, <2>4
    <3>3. \A m \in Payload : m < next => m \in Sent' \cup sending'[w]
      BY <2>6
    <3>4. QED
      BY <2>1, <2>7, <3>1, <3>2, <3>3 DEF HandsFull, Payload
  <2>9. TornDown'
    <3>1. \A v \in Workers : closing'[v] => rxClosed'
      BY <2>1, <2>4
    <3>2. \A p \in Procs : pc'[p] \in {"closeRx", "lock", "drain"} => rxClosed'
      BY <2>2 DEF RInv, TornDown
    <3>3. QED
      BY <2>2, <2>4, <3>1, <3>2 DEF TornDown
  <2>10. Gapless' /\ (Sent \subseteq Payload)'
    BY <2>2, <2>d DEF RInv, Gapless, Sent, Payload
  <2>11. \A v \in Workers : sending'[v] \subseteq Payload
    BY <2>1, <2>5 DEF RInv
  <2>12. (eof => rxChanClosed /\ taken = Len(log))'
    BY <2>2 DEF RInv
  <2>13. QED
    BY <2>8, <2>9, <2>10, <2>11, <2>12 DEF RInv, Payload
<1>3. ASSUME NEW w \in Workers, BeginSend(w) \/ AbandonSend(w) PROVE RInv'
  <2>1. /\ UNCHANGED <<rxSeq, rxClosed, log, rxDone, rxChanClosed, taken, eof,
                       stalled, raced>>
        /\ pc[w] \in {"send", "select"}
        /\ \/ /\ pc' = [pc EXCEPT ![w] = "select"]
              /\ UNCHANGED <<sending, closing>>
           \/ /\ pc' = [pc EXCEPT ![w] = "idle"]
              /\ sending' = [sending EXCEPT ![w] = {}]
              /\ closing' = [closing EXCEPT ![w] = FALSE]
    BY <1>3 DEF BeginSend, AbandonSend, Return, state, chan, reader, history
  <2>2. \A v \in Workers : sending'[v] \subseteq sending[v]
    BY <2>1
  <2>3. HandsFull'
    BY <2>1 DEF RInv, HandsFull, Disturbed, Sent, Payload
  <2>4. (Aborted => Aborted') /\ Disturbed' = Disturbed
    BY <2>1, StaysAborted DEF Disturbed
  <2>5. TornDown'
    BY <2>1, <2>4 DEF RInv, TornDown, Sent, Payload
  <2>6. QED
    BY <2>1, <2>2, <2>3, <2>4, <2>5, KeepsHistory DEF RInv, Payload
<1>4. ASSUME NEW w \in Workers, SendPayload(w) PROVE RInv'
  <2>1. PICK n \in Seqs : /\ n \in sending[w]
                          /\ \A m \in sending[w] : n <= m
                          /\ log' = Append(log, n)
                          /\ sending' = [sending EXCEPT ![w] = @ \ {n}]
    BY <1>4 DEF SendPayload, IsCurrent
  <2>2. /\ pc[w] = "select"
        /\ pc' = [pc EXCEPT ![w] = "send"]
        /\ UNCHANGED <<rxSeq, rxClosed, rxDone, rxChanClosed, taken, eof, closing,
                       stalled, raced>>
    BY <1>4 DEF SendPayload, state, reader, history
  <2>d. Disturbed' = Disturbed
    BY <2>2 DEF Disturbed
  <2>3. /\ Len(log') = Len(log) + 1
        /\ \A i \in 1..Len(log) : log'[i] = log[i]
        /\ log'[Len(log) + 1] = n
        /\ Len(log) \in Nat
    BY <2>1
  <2>4. Sent' = Sent \cup {n}
    BY <2>1, AppendedToHistory
  <2>5. n \in Payload /\ n < rxSeq
    BY <2>1 DEF RInv, DInv, PassedInv
  <2>6. ASSUME ~Disturbed, NEW m \in Payload, m < n PROVE m \in Sent
    <3>1. m \in Int /\ n \in Int /\ m < rxSeq
      BY <2>5, <2>6 DEF Payload
    <3>2. m \in Sent \cup sending[w]
      BY <2>1, <2>2, <2>6, <3>1 DEF RInv, HandsFull
    <3>3. m \notin sending[w]
      BY <2>1, <2>6, <3>1
    <3>4. QED
      BY <3>2, <3>3
  <2>7. Gapless'
    <3> SUFFICES ASSUME ~Disturbed, NEW i \in 1..(Len(log) + 1), NEW m \in Payload,
                        m < log'[i]
                 PROVE  m \in Sent'
      BY <2>3, <2>d DEF Gapless, Payload
    <3>1. CASE i = Len(log) + 1
      BY <2>3, <2>4, <2>6, <3>1
    <3>2. CASE i # Len(log) + 1
      <4>1. i \in 1..Len(log)
        BY <2>3, <3>2
      <4>2. QED
        BY <2>3, <2>4, <4>1 DEF RInv, Gapless
    <3>3. QED
      BY <3>1, <3>2
  <2>8. HandsFull'
    BY <2>1, <2>2, <2>4, <2>d DEF RInv, HandsFull, Payload
  <2>9. TornDown'
    <3>1. Aborted => Aborted'
      BY StaysAborted
    <3>2. QED
      BY <2>2, <2>4, <2>d, <3>1 DEF RInv, TornDown, Payload
  <2>10. ~rxChanClosed
    BY <2>2 DEF NoSendOnClosedChannel
  <2>11. \A v \in Workers : sending'[v] \subseteq Payload
    BY <2>1 DEF RInv
  <2>12. QED
    BY <2>2, <2>4, <2>5, <2>7, <2>8, <2>9, <2>10, <2>11 DEF RInv, Payload
<1>5. ASSUME NEW w \in Workers, StallDrop(w) PROVE RInv'
  <2>1. PICK n \in Seqs : /\ stalled' = stalled \cup {n}
                          /\ sending' = [sending EXCEPT ![w] = @ \ {n}]
    BY <1>5 DEF StallDrop
  <2>2. /\ pc[w] = "select"
        /\ pc' = [pc EXCEPT ![w] = "send"]
        /\ UNCHANGED <<rxSeq, rxClosed, log, rxDone, rxChanClosed, taken, eof, closing>>
    BY <1>5 DEF StallDrop, state, chan, reader
  <2>3. Disturbed'
    BY <2>1 DEF Disturbed
  <2>4. HandsFull'
    BY <2>3 DEF HandsFull
  <2>5. TornDown'
    BY <2>2, <2>3 DEF RInv, TornDown
  <2>6. \A v \in Workers : sending'[v] \subseteq sending[v]
    BY <2>1
  <2>7. QED
    BY <2>2, <2>3, <2>4, <2>5, <2>6, KeepsHistory DEF RInv, Payload
<1>6. ASSUME NEW w \in Workers, EndSend(w) PROVE RInv'
  <2>1. /\ UNCHANGED <<rxSeq, rxClosed, log, rxDone, rxChanClosed, taken, eof,
                       sending, closing, stalled, raced>>
        /\ pc[w] = "send" /\ sending[w] = {}
        /\ pc' = [pc EXCEPT ![w] = IF closing[w] THEN "closeRx" ELSE "idle"]
    BY <1>6 DEF EndSend, state, chan, reader, history
  <2>d. Disturbed' = Disturbed
    BY <2>1 DEF Disturbed
  <2>2. closing[w] => (Disturbed \/ Payload \subseteq Sent) /\ rxClosed
    BY <2>1 DEF RInv, HandsFull, TornDown
  <2>3. HandsFull'
    BY <2>1, <2>2, <2>d DEF RInv, HandsFull, Sent, Payload
  <2>4. TornDown'
    <3>1. Aborted => Aborted'
      BY StaysAborted
    <3>2. QED
      BY <2>1, <2>2, <2>d, <3>1 DEF RInv, TornDown, Sent, Payload
  <2>5. QED
    BY <2>1, <2>3, <2>4, <2>d, KeepsHistory DEF RInv, Payload
<1>7. ASSUME NEW c \in Closers, Close(c) PROVE RInv'
  <2>1. /\ UNCHANGED <<rxSeq, log, rxDone, rxChanClosed, taken, eof, sending,
                       closing, stalled, raced>>
        /\ rxClosed' = TRUE
        /\ pc' = [pc EXCEPT ![c] = "closeRx"]
    BY <1>7 DEF Close, chan, reader, history
  <2>d. Disturbed' = Disturbed
    BY <2>1 DEF Disturbed
  <2>2. HandsFull'
    BY <2>1, <2>d DEF RInv, HandsFull, Sent, Payload
  <2>3. Aborted'
    BY <2>1 DEF Aborted
  <2>4. TornDown'
    BY <2>1, <2>3 DEF TornDown
  <2>5. QED
    BY <2>1, <2>2, <2>4, <2>d, KeepsHistory DEF RInv, Payload
<1>8. ASSUME NEW p \in Procs, CloseRxStep(p) PROVE RInv'
  <2>1. /\ UNCHANGED <<rxSeq, rxClosed, log, taken, eof, sending, stalled, raced>>
        /\ pc[p] \in {"closeRx", "lock", "drain"}
        /\ \E l \in {"lock", "drain", "idle", "done"} : pc' = [pc EXCEPT ![p] = l]
        /\ \A w \in Workers : closing'[w] => closing[w]
    BY <1>8 DEF CloseRxStep, SignalDone, RequestLock, CloseChan, state, chan, reader,
                history
  <2>2. /\ rxChanClosed => rxChanClosed'
        /\ rxDone => rxDone'
        /\ rxDone' => rxDone \/ pc[p] = "closeRx"
    <3>1. /\ rxChanClosed' = TRUE \/ rxChanClosed' = rxChanClosed
          /\ rxDone' = rxDone \/ (rxDone' = TRUE /\ pc[p] = "closeRx")
      BY <1>8 DEF CloseRxStep, SignalDone, RequestLock, CloseChan, chan
    <3>2. QED
      BY <3>1
  <2>d. Disturbed' = Disturbed
    BY <2>1 DEF Disturbed
  <2>3. HandsFull'
    BY <2>1, <2>d DEF RInv, HandsFull, Sent, Payload
  <2>4. Aborted => Aborted'
    BY StaysAborted
  <2>5. pc[p] = "closeRx" => Disturbed \/ Aborted \/ Payload \subseteq Sent
    BY DEF RInv, HandsFull, Aborted
  <2>6. TornDown'
    BY <2>1, <2>2, <2>4, <2>5, <2>d DEF RInv, TornDown, Sent, Payload
  <2>7. QED
    BY <2>1, <2>2, <2>3, <2>6, <2>d, KeepsHistory DEF RInv, Payload
<1>9. CASE Read \/ ReadEOF \/ UNCHANGED vars
  <2>1. /\ UNCHANGED <<rxSeq, rxClosed, log, rxDone, rxChanClosed, pc, sending,
                       closing, stalled, raced>>
        /\ eof' => rxChanClosed /\ taken' = Len(log)
    <3>1. UNCHANGED <<rxSeq, rxClosed, log, rxDone, rxChanClosed, pc, sending,
                      closing, stalled, raced>>
      BY <1>9 DEF Read, ReadEOF, vars, state, chan, history
    <3>2. taken \in Int /\ Len(log) \in Int /\ (eof => rxChanClosed /\ taken = Len(log))
      BY DEF TypeOK, RInv
    <3>3. CASE Read
      <4>1. Len(log) - taken > 0 /\ eof' = eof
        BY <3>3 DEF Read, InChan
      <4>2. ~eof
        BY <3>2, <4>1
      <4>3. QED
        BY <3>1, <4>1, <4>2
    <3>4. CASE ReadEOF
      <4>1. rxChanClosed /\ Len(log) - taken = 0 /\ taken' = taken
        BY <3>4 DEF ReadEOF, InChan
      <4>2. QED
        BY <3>2, <3>1, <4>1
    <3>5. CASE UNCHANGED vars
      BY <3>2, <3>1, <3>5 DEF vars, reader
    <3>6. QED
      BY <1>9, <3>1, <3>3, <3>4, <3>5
  <2>2. QED
    BY <2>1 DEF RInv, Gapless, HandsFull, TornDown, Aborted, Disturbed, Sent
<1>10. QED
  BY <1>1, <1>2, <1>3, <1>4, <1>5, <1>6, <1>7, <1>8, <1>9
     DEF Next, ProcessRx, SendStep

\* What the reader has received: a prefix of the channel's history.
LEMMA ReceivedPrefix ==
  ASSUME log \in Seq(Seqs), NEW k \in 0..Len(log)
  PROVE  /\ SubSeq(log, 1, k) \in Seq(Seqs)
         /\ Len(SubSeq(log, 1, k)) = k
         /\ \A i \in 1..k : SubSeq(log, 1, k)[i] = log[i]
<1>1. k \in Int /\ Len(log) \in Nat /\ \A i \in 1..k : log[i] \in Seqs
  OBVIOUS
<1>2. /\ SubSeq(log, 1, k) \in Seq(Seqs)
      /\ Len(SubSeq(log, 1, k)) = IF 1 <= k THEN k - 1 + 1 ELSE 0
      /\ \A i \in 1..(k - 1 + 1) : SubSeq(log, 1, k)[i] = log[1 + i - 1]
  BY <1>1, SubSeqProperties
<1>3. \A i \in 1..k : i \in 1..(k - 1 + 1) /\ 1 + i - 1 = i
  BY <1>1
<1>4. Len(SubSeq(log, 1, k)) = k
  BY <1>1, <1>2
<1>5. QED
  BY <1>2, <1>3, <1>4

\* One more payload received is one more in the prefix.
LEMMA ReceivedOneMore ==
  ASSUME log \in Seq(Seqs), NEW k \in 0..(Len(log) - 1)
  PROVE  SubSeq(log, 1, k + 1) = Append(SubSeq(log, 1, k), log[k + 1])
<1>1. /\ k \in 0..Len(log) /\ k + 1 \in 0..Len(log) /\ k + 1 \in 1..Len(log)
      /\ Len(log) \in Nat /\ log[k + 1] \in Seqs
  OBVIOUS
<1> DEFINE s == SubSeq(log, 1, k)
           t == SubSeq(log, 1, k + 1)
<1>2. s \in Seq(Seqs) /\ Len(s) = k /\ \A i \in 1..k : s[i] = log[i]
  BY <1>1, ReceivedPrefix
<1>3. t \in Seq(Seqs) /\ Len(t) = k + 1 /\ \A i \in 1..(k + 1) : t[i] = log[i]
  BY <1>1, ReceivedPrefix
<1> HIDE DEF s, t
<1>4. /\ Append(s, log[k + 1]) \in Seq(Seqs)
      /\ Len(Append(s, log[k + 1])) = k + 1
      /\ \A i \in 1..k : Append(s, log[k + 1])[i] = log[i]
      /\ Append(s, log[k + 1])[k + 1] = log[k + 1]
  BY <1>1, <1>2
<1>5. \A i \in 1..(k + 1) : t[i] = Append(s, log[k + 1])[i]
  BY <1>1, <1>3, <1>4
<1>6. t = Append(s, log[k + 1])
  BY <1>1, <1>3, <1>4, <1>5, SeqEqual
<1>7. QED
  BY <1>6 DEF s, t

\* A payload sent behind it does not change what was received.
LEMMA ReceivedKept ==
  ASSUME log \in Seq(Seqs), NEW k \in 0..Len(log), NEW n \in Seqs,
         log' = Append(log, n)
  PROVE  SubSeq(log, 1, k)' = SubSeq(log, 1, k)
OBVIOUS

\* A step of the receive half is a step of the stream or leaves it alone.
LEMMA StreamStep ==
  ASSUME TypeOK, IInv, RInv, AtMostOnce, OnlyRacesReorder, [Next]_vars
  PROVE  [Promise!Next]_(Promise!vars)
<1> DEFINE received == SubSeq(log, 1, taken)
<1>0. /\ pc \in [Procs -> PCs]
      /\ log \in Seq(Seqs)
      /\ taken \in 0..Len(log) /\ Len(log) \in Nat /\ taken \in Int
      /\ \A m \in Seqs : m \in Int
      /\ \A c \in Closers : c \notin Workers
      /\ Workers \subseteq Procs /\ Closers \subseteq Procs
  BY RxAssumption DEF TypeOK, RxAssumption, Seqs, Procs
<1>r. /\ Len(received) = taken
      /\ \A i \in 1..taken : received[i] = log[i]
  BY <1>0, ReceivedPrefix
<1>m. Promise!Missing = Payload \ {log[i] : i \in 1..taken}
  BY <1>r DEF Promise!Missing, Payload
<1>1. ASSUME UNCHANGED <<received, eof>>, Aborted' = Aborted, Disturbed => Disturbed'
      PROVE  [Promise!Next]_(Promise!vars)
  <2>1. CASE Disturbed' <=> Disturbed
    <3>1. UNCHANGED (\E c \in Closers : pc[c] # "idle")
      BY <1>1 DEF Aborted
    <3>2. UNCHANGED (raced \/ stalled # {})
      BY <2>1 DEF Disturbed
    <3>3. QED
      BY <1>1, <3>1, <3>2 DEF Promise!vars
  <2>2. CASE ~Disturbed /\ Disturbed'
    BY <1>1, <2>2 DEF Promise!Next, Promise!Disturb, Aborted, Disturbed
  <2>3. QED
    BY <1>1, <2>1, <2>2
<1>2. CASE Read
  <2>1. /\ taken < Len(log) /\ taken' = taken + 1
        /\ UNCHANGED <<log, eof, pc, stalled, raced>>
    BY <1>0, <1>2 DEF Read, InChan, chan, history
  <2>2. ~eof /\ ~eof'
    BY <1>0, <2>1 DEF RInv
  <2>3. received' = Append(received, log[taken + 1])
    <3>1. taken \in 0..(Len(log) - 1)
      BY <1>0, <2>1
    <3>2. received' = SubSeq(log, 1, taken + 1)
      BY <2>1
    <3>3. QED
      BY <1>0, <3>1, <3>2, ReceivedOneMore
  <2>4. log[taken + 1] \in Promise!Missing
    <3>1. taken + 1 \in 1..Len(log)
      BY <1>0, <2>1
    <3>2. log[taken + 1] \in Payload
      BY <3>1 DEF RInv, Sent
    <3>3. \A i \in 1..taken : i \in 1..Len(log) /\ i # taken + 1
      BY <1>0, <2>1
    <3>5. \A i \in 1..taken : log[i] # log[taken + 1]
      BY <3>1, <3>3 DEF AtMostOnce
    <3>6. QED
      BY <1>m, <3>2, <3>5
  <2>5. Disturbed \/ \A m \in Promise!Missing : log[taken + 1] <= m
    <3> SUFFICES ASSUME ~Disturbed, NEW m \in Payload, m \notin {log[i] : i \in 1..taken}
                 PROVE  log[taken + 1] <= m
      BY <1>m
    <3>1. taken + 1 \in 1..Len(log)
      BY <1>0, <2>1
    <3>2. m \in Int /\ log[taken + 1] \in Int
      BY <1>0, <3>1 DEF Payload
    <3>3. CASE m < log[taken + 1]
      <4>1. m \in Sent
        BY <3>1, <3>3 DEF RInv, Gapless
      <4>2. PICK j \in 1..Len(log) : m = log[j]
        BY <4>1 DEF Sent
      <4>3. j > taken
        BY <1>0, <4>2
      <4>4. j = taken + 1 \/ taken + 1 < j
        BY <1>0, <4>3
      <4>5. log[taken + 1] <= m
        BY <3>1, <3>2, <4>2, <4>4 DEF InOrder, OnlyRacesReorder, Disturbed
      <4>6. QED
        BY <4>5
    <3>4. QED
      BY <3>2, <3>3
  <2>6. Promise!Deliver
    BY <2>1, <2>2, <2>3, <2>4, <2>5 DEF Promise!Deliver, Disturbed
  <2>7. QED
    BY <2>6 DEF Promise!Next
<1>3. CASE ReadEOF
  <2>1. /\ taken = Len(log) /\ rxChanClosed /\ ~eof
        /\ eof' = TRUE
        /\ UNCHANGED <<log, taken, pc, stalled, raced>>
    BY <1>0, <1>3 DEF ReadEOF, InChan, chan, history
  <2>2. Disturbed \/ Aborted \/ Payload \subseteq Sent
    BY <2>1 DEF IInv, ChanInv, RInv, TornDown
  <2>3. Payload \subseteq Sent => Promise!Missing = {}
    BY <1>m, <2>1 DEF Sent
  <2>4. Promise!End
    BY <2>1, <2>2, <2>3 DEF Promise!End, Aborted, Disturbed
  <2>5. QED
    BY <2>4 DEF Promise!Next
<1>4. CASE \E c \in Closers : Close(c)
  <2>1. PICK c \in Closers : Close(c)
    BY <1>4
  <2>2. /\ UNCHANGED <<log, taken, eof, stalled, raced>>
        /\ pc' = [pc EXCEPT ![c] = "closeRx"]
    BY <2>1 DEF Close, chan, reader, history
  <2>3. Aborted'
    BY <1>0, <2>2 DEF Aborted
  <2>4. CASE Aborted
    BY <1>1, <2>2, <2>3, <2>4 DEF Aborted, Disturbed
  <2>5. CASE ~Aborted
    BY <2>2, <2>3, <2>5 DEF Promise!Next, Promise!Abort, Aborted, Disturbed
  <2>6. QED
    BY <2>4, <2>5
<1>5. ASSUME UNCHANGED <<taken, eof>>,
             log' = log \/ \E n \in Seqs : log' = Append(log, n),
             \A c \in Closers : pc'[c] = "idle" <=> pc[c] = "idle",
             Disturbed => Disturbed'
      PROVE  [Promise!Next]_(Promise!vars)
  <2>1. UNCHANGED received
    BY <1>0, <1>5, ReceivedKept
  <2>2. Aborted' = Aborted
    BY <1>5 DEF Aborted
  <2>3. QED
    BY <1>1, <1>5, <2>1, <2>2
<1>6. CASE \E w \in Workers, n \in Seqs : ProcessRx(w, n)
  <2>1. PICK w \in Workers, n \in Seqs : ProcessRx(w, n)
    BY <1>6
  <2>2. UNCHANGED <<taken, eof, log>>
    BY <2>1 DEF ProcessRx, RxIgnored, RxNext, RxQueued, RxDropped, chan, reader
  <2>3. pc' = pc \/ pc' = [pc EXCEPT ![w] = "send"]
    BY <2>1 DEF ProcessRx, RxIgnored, RxNext, RxQueued, RxDropped
  <2>4. Disturbed => Disturbed'
    BY <2>1 DEF ProcessRx, RxIgnored, RxNext, RxQueued, RxDropped, Disturbed
  <2>5. QED
    BY <1>0, <1>5, <2>2, <2>3, <2>4
<1>7. CASE \E w \in Workers : SendStep(w)
  <2>1. PICK w \in Workers : SendStep(w)
    BY <1>7
  <2>2. UNCHANGED <<taken, eof>>
    BY <2>1 DEF SendStep, BeginSend, SendPayload, AbandonSend, StallDrop,
                EndSend, reader
  <2>3. log' = log \/ \E n \in Seqs : log' = Append(log, n)
    BY <2>1 DEF SendStep, BeginSend, SendPayload, AbandonSend, StallDrop,
                EndSend, chan
  <2>4. \E l \in PCs : pc' = [pc EXCEPT ![w] = l]
    BY <2>1 DEF SendStep, BeginSend, SendPayload, AbandonSend, StallDrop,
                EndSend, Return, PCs
  <2>5. \A c \in Closers : pc'[c] = pc[c]
    BY <1>0, <2>4
  <2>6. Disturbed => Disturbed'
    BY <2>1 DEF SendStep, BeginSend, SendPayload, AbandonSend, StallDrop,
                EndSend, history, Disturbed
  <2>7. QED
    BY <1>5, <2>2, <2>3, <2>5, <2>6
<1>8. CASE \E p \in Procs : CloseRxStep(p)
  <2>1. PICK p \in Procs : CloseRxStep(p)
    BY <1>8
  <2>2. UNCHANGED <<taken, eof, log, stalled, raced>>
    BY <2>1 DEF CloseRxStep, SignalDone, RequestLock, CloseChan, chan, reader, history
  <2>3. /\ pc[p] # "idle"
        /\ \E l \in PCs : pc' = [pc EXCEPT ![p] = l] /\ (p \in Closers => l # "idle")
    BY <1>0, <2>1 DEF CloseRxStep, SignalDone, RequestLock, CloseChan, PCs
  <2>4. \A c \in Closers : pc'[c] = "idle" <=> pc[c] = "idle"
    BY <1>0, <2>3
  <2>5. QED
    BY <1>5, <2>2, <2>4 DEF Disturbed
<1>9. CASE UNCHANGED vars
  BY <1>5, <1>9 DEF vars, chan, reader, history, Disturbed
<1>10. QED
  BY <1>2, <1>3, <1>4, <1>6, <1>7, <1>8, <1>9 DEF Next

\* The receive half implements the abstract stream for any number of workers,
\* envelopes, copies and closing goroutines and any reader: until two workers
\* overlap in their sends or the stall timer drops a payload, the reader gets
\* the payloads in order, none left out, and the end of the stream only after
\* the last unless this side closed; whatever happens it gets none twice.
THEOREM ReceiverImplementsStream == Spec => ImplementsStream
<1>1. Init => Promise!Init
  <2> SUFFICES ASSUME Init PROVE Promise!Init
    OBVIOUS
  <2>1. SubSeq(log, 1, taken) = <<>>
    BY SubSeqEmpty DEF Init
  <2>2. \A c \in Closers : pc[c] = "idle"
    BY DEF Init, Procs
  <2>3. QED
    BY <2>1, <2>2 DEF Init, Promise!Init
<1>2. Init => RInv
  BY DEF Init, RInv, Gapless, HandsFull, TornDown, Disturbed, Sent, Procs
<1>3. TypeOK /\ DInv /\ NothingSkipped /\ NoSendOnClosedChannel /\ RInv /\ [Next]_vars
        => RInv'
  BY RInvStep
<1>4. TypeOK /\ IInv /\ RInv /\ AtMostOnce /\ OnlyRacesReorder /\ [Next]_vars
        => [Promise!Next]_(Promise!vars)
  BY StreamStep
<1>5. Spec => []TypeOK /\ []DInv /\ []NothingSkipped /\ []NoSendOnClosedChannel
  BY TypeCorrect, DInvAlways, NoneSkipped, NoPanic, PTL
<1>6. Spec => []IInv /\ []AtMostOnce /\ []OnlyRacesReorder
  BY IInvAlways, DeliveredOnce, OnlyOverlapReorders, PTL
<1>7. QED
  BY <1>1, <1>2, <1>3, <1>4, <1>5, <1>6, PTL DEF Spec, ImplementsStream, Promise!Spec
=============================================================================
