----------------------------- MODULE WireProofs -----------------------------
(***************************************************************************)
(* That every file fits, for every limit an int holds: also for those whose*)
(* product with 7 wraps, which a 32-bit build computes from 292 MB on.  And*)
(* what it takes for an envelope to be deleted unread, and that every byte *)
(* a session sent is in one envelope, at one place.                        *)
(***************************************************************************)
EXTENDS Wire, SequenceTheorems, TLAPS

\* A wrapped int is an int, and a number that needs no wrapping is itself.
LEMMA WrapRange ==
  ASSUME NEW n \in Nat, Half \in Nat, Half > 0
  PROVE  /\ Wrapped(n) \in -Half..(Half - 1)
         /\ n < Half => Wrapped(n) = n
  BY SMT DEF Wrapped

\* safeUploadSize (engine.go:504) is never above the limit it is made from:
\* what wraps is at most Half / 8, and it wraps only from Half / 7 on.
LEMMA SafeBounds ==
  ASSUME limit \in Limits
  PROVE  /\ safeUploadSize \in Nat
         /\ 65536 <= safeUploadSize
         /\ safeUploadSize <= limit
         /\ limit \in Nat
  <1> DEFINE w == Wrapped(limit * 7)
  <1>1. limit \in Nat /\ Half \in Nat /\ Half > 0 /\ 65536 <= limit /\ limit < Half
    BY WireAssumption DEF WireAssumption
  <1>2. w \in -Half..(Half - 1) /\ (limit * 7 < Half => w = limit * 7)
    BY <1>1, WrapRange
  <1> HIDE DEF w
  <1>3. w \div 8 <= limit /\ w \div 8 \in Int
    BY <1>1, <1>2
  <1> QED BY <1>1, <1>3 DEF safeUploadSize, w

\* A chunk of the largest size makes a frame that fits (session.go:198).
LEMMA ChunkFits ==
  ASSUME limit \in Limits
  PROVE  /\ maxPayloadChunk \in Nat
         /\ 20 + IdLen + AddrLen + maxPayloadChunk + 65 <= safeUploadSize
  BY SafeBounds, WireAssumption DEF WireAssumption, maxPayloadChunk

Frame  == [envelope : Envelopes, plain : Nat]
Chunks == [session : Sessions, at : Nat, payload : 0..maxPayloadChunk]

\* The frame of an envelope is longer than the decoder's minimum and no longer
\* than the uncompressed envelope makes it.
LEMMA FrameFits ==
  ASSUME limit \in Limits, NEW e \in Chunks, NEW f \in Frames(e)
  PROVE  /\ f \in Frame
         /\ f.envelope = e
         /\ 32 <= DataLen(f)
         /\ FrameLen(f) \in Nat
         /\ FrameLen(f) <= safeUploadSize
         /\ Marshalled(f.envelope.payload) <= safeUploadSize
  <1> DEFINE n == e.payload
             P == Plain(n)
  <1>1. /\ n \in Nat /\ n \in 0..maxPayloadChunk
        /\ e \in Envelopes
        /\ IdLen \in Nat /\ AddrLen \in Nat
    BY ChunkFits, WireAssumption DEF WireAssumption, Chunks, Envelopes
  <1>2. f \in [envelope : {e}, plain : P]
    BY DEF Frames
  <1> HIDE DEF P
  <1>3. /\ f.envelope = e /\ f.plain \in P
        /\ f = [envelope |-> f.envelope, plain |-> f.plain]
    BY <1>2
  <1>4. \A k \in Squeezed : k \in Nat /\ 3 <= k
    BY WireAssumption DEF WireAssumption
  <1> HIDE DEF n
  <1>5. Marshalled(n) \in Nat /\ 3 <= Marshalled(n)
    BY <1>1 DEF Marshalled
  <1>6. f.plain \in Nat /\ 3 <= f.plain /\ f.plain <= Marshalled(n)
    <2>1. \/ f.plain = Marshalled(n)
          \/ f.plain \in Squeezed /\ f.plain < Marshalled(n)
      BY <1>3, Zenon DEF Plain, P
    <2>2. CASE f.plain = Marshalled(n)
      BY <2>2, <1>5
    <2>3. CASE f.plain \in Squeezed /\ f.plain < Marshalled(n)
      BY <2>3, <1>4, <1>5
    <2> QED BY <2>1, <2>2, <2>3
  <1>7. f \in Frame
    BY <1>1, <1>3, <1>6 DEF Frame
  <1>8. Marshalled(f.envelope.payload) <= safeUploadSize
    BY <1>1, <1>3, ChunkFits, SafeBounds DEF Marshalled, n
  <1>9. /\ 32 <= DataLen(f)
        /\ FrameLen(f) \in Nat
        /\ FrameLen(f) <= safeUploadSize
    BY <1>1, <1>6, ChunkFits, SafeBounds DEF DataLen, FrameLen, Marshalled
  <1> QED BY <1>3, <1>7, <1>8, <1>9

FrameOK(f) ==
  /\ 32 <= DataLen(f)
  /\ FrameLen(f) <= safeUploadSize
  /\ Marshalled(f.envelope.payload) <= safeUploadSize

\* What is in a buffer was written.
Buffers ==
  /\ written \in [Sessions -> Nat]
  /\ txBuf \in [Sessions -> Nat]
  /\ \A s \in Sessions : txBuf[s] <= written[s]

\* What the limits are good for, in every state: no payload above a chunk, no
\* frame and no file above the upload limit.
Sized ==
  /\ limit \in Limits /\ peerLimit \in Limits
  /\ Buffers
  /\ remaining \in Seq(Chunks)
  /\ frames \in Seq(Frame)
  /\ \A i \in 1..Len(frames) : FrameOK(frames[i])
  /\ size \in 0..safeUploadSize
  /\ frames = <<>> => size = 0
  /\ OwnFilesFit

LEMMA InitSized == Init => Sized
  <1> SUFFICES ASSUME Init PROVE Sized
    OBVIOUS
  <1>1. limit \in Limits /\ peerLimit \in Limits
    BY DEF Init
  <1>2. safeUploadSize \in Nat
    BY <1>1, SafeBounds
  <1>3. Buffers
    BY DEF Init, Buffers
  <1> QED BY <1>1, <1>2, <1>3 DEF Init, Sized, OwnFilesFit

\* The lengths depend on the settings alone.
LEMMA SameLimits ==
  ASSUME UNCHANGED settings
  PROVE  safeUploadSize' = safeUploadSize /\ maxPayloadChunk' = maxPayloadChunk
  BY DEF settings, safeUploadSize, maxPayloadChunk, Wrapped

\* A peer whose limit is not smaller accepts every such frame.
LEMMA Accepted ==
  ASSUME Sized, limit <= peerLimit, NEW i \in 1..Len(frames)
  PROVE  Accepts(frames[i])
  <1>1. frames[i] \in Frame
    <2>1. frames \in Seq(Frame)
      BY DEF Sized
    <2> QED BY <2>1, ElementOfSeq
  <1>2. peerLimit \in Nat /\ IdLen \in Nat /\ AddrLen \in Nat
    BY WireAssumption DEF WireAssumption, Sized
  <1>3. safeUploadSize \in Nat /\ safeUploadSize <= peerLimit
    BY <1>2, SafeBounds DEF Sized
  <1>4. /\ 32 <= DataLen(frames[i])
        /\ FrameLen(frames[i]) <= safeUploadSize
        /\ Marshalled(frames[i].envelope.payload) <= safeUploadSize
    BY DEF Sized, FrameOK
  <1> DEFINE f == frames[i]
  <1>5. f.envelope.payload \in Nat /\ f.plain \in Nat
    BY <1>1 DEF Frame, Envelopes
  <1> HIDE DEF f
  <1>6. DataLen(f) \in Nat /\ DataLen(f) <= peerLimit
    <2>1. DataLen(f) \in Nat /\ FrameLen(f) = DataLen(f) + 36
      BY <1>5 DEF DataLen, FrameLen
    <2>2. FrameLen(f) <= safeUploadSize
      BY <1>4 DEF f
    <2> QED BY <1>2, <1>3, <2>1, <2>2
  <1>7. Marshalled(f.envelope.payload) <= peerLimit /\ f.envelope.payload <= peerLimit
    BY <1>2, <1>3, <1>4, <1>5 DEF Marshalled, f
  <1>8. DataLen(f) \in 32..peerLimit
    BY <1>2, <1>4, <1>6 DEF f
  <1> QED BY <1>7, <1>8 DEF Accepts, f

\* padFile stops at the upload limit.
LEMMA PadFits ==
  ASSUME limit \in Limits, size \in 0..safeUploadSize, NEW r \in Slack
  PROVE  size + PadLen(r) \in 0..safeUploadSize
  <1>1. /\ safeUploadSize \in Nat /\ size \in Nat /\ size <= safeUploadSize
        /\ r \in Nat /\ PaddingSize \in Nat
    BY SafeBounds, WireAssumption DEF WireAssumption
  <1>2. CASE PaddingSize = 0 \/ size >= safeUploadSize
    BY <1>1, <1>2 DEF PadLen
  <1>3. CASE ~(PaddingSize = 0 \/ size >= safeUploadSize)
    <2>1. size % PaddingSize \in 0..(PaddingSize - 1)
      BY <1>1, <1>3
    <2> QED BY <1>1, <1>3, <2>1 DEF PadLen
  <1> QED BY <1>2, <1>3

-----------------------------------------------------------------------------
(* One step.                                                                *)

\* A step that leaves the settings and puts no new frame into the file: what
\* is left to show is its sizes and where it ends.
LEMMA SameFrames ==
  ASSUME Sized, UNCHANGED settings,
         Buffers',
         remaining' \in Seq(Chunks),
         frames' = frames \/ frames' = <<>>,
         size' \in 0..safeUploadSize,
         frames' = <<>> => size' = 0,
         OwnFilesFit'
  PROVE  Sized'
  <1>1. /\ safeUploadSize' = safeUploadSize /\ maxPayloadChunk' = maxPayloadChunk
        /\ limit' = limit /\ peerLimit' = peerLimit
    BY SameLimits DEF settings
  <1>2. frames' \in Seq(Frame)
    <2>1. <<>> \in Seq(Frame)
      BY EmptySeq
    <2> QED BY <2>1 DEF Sized
  <1>3. \A i \in 1..Len(frames') : FrameOK(frames'[i])
    BY DEF Sized
  <1>4. \A i \in 1..Len(frames') : FrameOK(frames[i])'
    BY <1>1, <1>3 DEF FrameOK, DataLen, FrameLen, Marshalled
  <1>5. Chunks' = Chunks
    BY <1>1 DEF Chunks
  <1> QED BY <1>1, <1>2, <1>4, <1>5 DEF Sized

\* Nothing is read from or written to a buffer.
LEMMA SameBuffers ==
  ASSUME Sized, UNCHANGED <<written, txBuf>>
  PROVE  Buffers'
  BY DEF Sized, Buffers

\* Encode appends a frame that fits, and MarshalBinary does not refuse it.
LEMMA EncodeSized ==
  ASSUME Sized, Encode
  PROVE  Sized'
  <1>1. /\ safeUploadSize' = safeUploadSize /\ maxPayloadChunk' = maxPayloadChunk
        /\ limit' = limit /\ peerLimit' = peerLimit
    BY SameLimits DEF Encode, settings
  <1> DEFINE e == Head(remaining)
  <1>2. /\ e \in Chunks
        /\ Tail(remaining) \in Seq(Chunks)
    <2>1. remaining \in Seq(Chunks) /\ remaining # <<>>
      BY DEF Encode, Sized
    <2> QED BY <2>1, HeadTailProperties
  <1>3. ~(e.payload > limit)
    <2>1. maxPayloadChunk \in Nat /\ maxPayloadChunk <= limit /\ limit \in Nat
      <3>1. limit \in Limits
        BY DEF Sized
      <3>2. IdLen \in Nat /\ AddrLen \in Nat
        BY WireAssumption DEF WireAssumption
      <3> QED BY <3>1, <3>2, ChunkFits, SafeBounds
    <2>2. e.payload \in 0..maxPayloadChunk
      BY <1>2 DEF Chunks
    <2> HIDE DEF e
    <2> QED BY <2>1, <2>2
  <1>4. PICK f \in Frames(e) :
          /\ Room(f)
          /\ frames' = Append(frames, f)
          /\ size' = size + FrameLen(f)
    BY <1>3 DEF Encode
  <1>5. /\ remaining' = Tail(remaining)
        /\ pc' = pc
        /\ UNCHANGED <<written, txBuf>>
    BY <1>3 DEF Encode, source, input
  <1>6. /\ f \in Frame
        /\ FrameOK(f)
        /\ FrameLen(f) \in Nat
    BY <1>2, FrameFits DEF Sized, FrameOK
  <1>7. size' \in 0..safeUploadSize
    <2>1. size \in Nat /\ safeUploadSize \in Nat /\ FrameLen(f) <= safeUploadSize
      BY <1>6, SafeBounds DEF Sized, FrameOK
    <2>2. CASE frames = <<>>
      <3>1. size = 0
        BY <2>2 DEF Sized
      <3> QED BY <3>1, <2>1, <1>4, <1>6
    <2>3. CASE frames # <<>>
      BY <2>3, <2>1, <1>4, <1>6 DEF Room
    <2> QED BY <2>2, <2>3
  <1>8. /\ frames \in Seq(Frame)
        /\ \A i \in 1..Len(frames) : FrameOK(frames[i])
    BY DEF Sized
  <1>9. /\ frames' \in Seq(Frame)
        /\ Len(frames') = Len(frames) + 1
        /\ \A i \in 1..Len(frames) : frames'[i] = frames[i]
        /\ frames'[Len(frames) + 1] = f
    BY <1>8, <1>4, <1>6, AppendProperties
  <1>10. \A i \in 1..Len(frames') : FrameOK(frames'[i])
    <2> SUFFICES ASSUME NEW i \in 1..Len(frames') PROVE FrameOK(frames'[i])
      OBVIOUS
    <2>1. Len(frames) \in Nat
      BY <1>8
    <2>2. CASE i \in 1..Len(frames)
      BY <2>2, <1>8, <1>9
    <2>3. CASE i = Len(frames) + 1
      BY <2>3, <1>6, <1>9
    <2> QED BY <2>1, <2>2, <2>3, <1>9
  <1>11. \A i \in 1..Len(frames') : FrameOK(frames[i])'
    BY <1>1, <1>10 DEF FrameOK, DataLen, FrameLen, Marshalled
  <1>12. frames' # <<>>
    BY <1>9, <1>8
  <1>13. Chunks' = Chunks
    BY <1>1 DEF Chunks
  <1>14. Buffers'
    BY <1>5, SameBuffers
  <1> QED BY <1>1, <1>2, <1>5, <1>7, <1>9, <1>11, <1>12, <1>13, <1>14 DEF Sized, OwnFilesFit

\* ExtractTxBatch never takes more than a chunk.
LEMMA ExtractSized ==
  ASSUME Sized, NEW s \in Sessions, Extract(s)
  PROVE  Sized'
  <1> DEFINE n == IF txBuf[s] > maxPayloadChunk THEN maxPayloadChunk ELSE txBuf[s]
  <1>1. maxPayloadChunk \in Nat
    BY ChunkFits DEF Sized
  <1>2. /\ txBuf[s] \in Nat /\ written[s] \in Nat /\ txBuf[s] <= written[s]
        /\ n \in 0..maxPayloadChunk /\ txBuf[s] - n \in Nat
    BY <1>1 DEF Sized, Buffers
  <1>3. txBuf' = [txBuf EXCEPT ![s] = @ - n] /\ written' = written
    BY DEF Extract, input
  <1> DEFINE e == [session |-> s, at |-> Sent(s), payload |-> n]
  <1>4. remaining' = Append(remaining, e) \/ remaining' = remaining
    BY DEF Extract
  <1> HIDE DEF n
  <1>5. Buffers'
    BY <1>2, <1>3 DEF Sized, Buffers
  <1>6. e \in Chunks
    BY <1>2 DEF Chunks, Sent
  <1> HIDE DEF e
  <1>7. remaining' \in Seq(Chunks)
    <2>1. remaining \in Seq(Chunks)
      BY DEF Sized
    <2>2. Append(remaining, e) \in Seq(Chunks)
      BY <2>1, <1>6, AppendProperties
    <2> QED BY <2>1, <2>2, <1>4
  <1> QED BY <1>5, <1>7, SameFrames DEF Extract, content, Sized, OwnFilesFit, settings

\* padFile stops at the limit.
LEMMA PadSized ==
  ASSUME Sized, Pad
  PROVE  Sized'
  <1>1. PICK r \in Slack : size' = size + PadLen(r)
    BY DEF Pad
  <1>2. size' \in 0..safeUploadSize
    BY <1>1, PadFits DEF Sized
  <1> QED BY <1>2, SameFrames, SameBuffers DEF Pad, Sized, OwnFilesFit, settings, source, input, Consumed

\* WebDAVBackend.Upload takes the file: its limit is the one the size is under.
LEMMA PutSized ==
  ASSUME Sized, Put
  PROVE  Sized'
  <1>1. ~(size > limit)
    BY SafeBounds DEF Sized
  <1>2. pc' = "stored"
    BY <1>1 DEF Put
  <1> QED BY <1>2, SameFrames, SameBuffers DEF Put, Sized, OwnFilesFit, settings, source, input, content

\* A reader with no smaller limit does not refuse the file, nor a frame of it.
LEMMA ReadSized ==
  ASSUME Sized, Refuse \/ ReadAll \/ ReadForeign \/ ReadPart
  PROVE  Sized'
  <1>1. /\ UNCHANGED <<settings, input, source, remaining, content>>
        /\ pc' # "dropped"
        /\ pc' \in {"refused", "rejected"} => Refuse \/ ReadForeign
    BY DEF Refuse, ReadAll, ReadForeign, ReadPart, ReadTo
  <1>2. ASSUME limit <= peerLimit PROVE ~Refuse /\ ~ReadForeign
    <2>1. limit \in Nat /\ peerLimit \in Nat
      BY WireAssumption DEF WireAssumption, Sized
    <2>2. size \in Nat /\ size <= peerLimit
      BY <2>1, <1>2, SafeBounds DEF Sized
    <2>3. ~Refuse
      BY <2>1, <2>2 DEF Refuse
    <2>4. ~ReadForeign
      BY <1>2, Accepted DEF ReadForeign
    <2> QED BY <2>3, <2>4
  <1>3. OwnFilesFit'
    BY <1>1, <1>2 DEF OwnFilesFit, settings
  <1> QED BY <1>1, <1>3, SameFrames, SameBuffers DEF Sized, settings, source, input, content

LEMMA OtherSized ==
  ASSUME Sized,
         \/ \E s \in Sessions, n \in Fills : Write(s, n)
         \/ Flush \/ Pack \/ Keep \/ Delete
         \/ UNCHANGED vars
  PROVE  Sized'
  <1>1. CASE \E s \in Sessions, n \in Fills : Write(s, n)
    <2>1. PICK s \in Sessions, n \in Fills : Write(s, n)
      BY <1>1
    <2>2. n \in Nat
      BY WireAssumption DEF WireAssumption
    <2>3. Buffers'
      BY <2>1, <2>2 DEF Sized, Write, Buffers
    <2> QED BY <2>1, <2>3, SameFrames DEF Write, Sized, OwnFilesFit, settings, content
  <1>2. CASE Flush
    BY <1>2, SameFrames, SameBuffers DEF Flush, Sized, OwnFilesFit, settings, content, input
  <1>3. CASE Pack
    BY <1>3, SameFrames, SameBuffers DEF Pack, Sized, OwnFilesFit, settings, content, source, input
  <1>4. CASE Keep
    BY <1>4, SameFrames, SameBuffers DEF Keep, Sized, OwnFilesFit, settings, content, source, input
  <1>5. CASE Delete
    <2>1. safeUploadSize \in Nat
      BY SafeBounds DEF Sized
    <2>2. frames' = <<>> /\ size' = 0 /\ size' \in 0..safeUploadSize
      BY <1>5, <2>1 DEF Delete
    <2> QED BY <1>5, <2>2, SameFrames, SameBuffers DEF Delete, Sized, OwnFilesFit, settings, source, input
  <1>6. CASE UNCHANGED vars
    BY <1>6, SameFrames, SameBuffers DEF vars, Sized, OwnFilesFit, settings, content, source, input
  <1> QED BY <1>1, <1>2, <1>3, <1>4, <1>5, <1>6

-----------------------------------------------------------------------------

LEMMA SizedAlways == Spec => []Sized
  <1>1. Init => Sized
    BY InitSized
  <1>2. Sized /\ [Next]_vars => Sized'
    <2> SUFFICES ASSUME Sized, [Next]_vars PROVE Sized'
      OBVIOUS
    <2>1. CASE Encode
      BY <2>1, EncodeSized
    <2>2. CASE \E s \in Sessions : Extract(s)
      BY <2>2, ExtractSized
    <2>3. CASE Pad
      BY <2>3, PadSized
    <2>4. CASE Put
      BY <2>4, PutSized
    <2>5. CASE Refuse \/ ReadAll \/ ReadForeign \/ ReadPart
      BY <2>5, ReadSized
    <2> QED BY <2>1, <2>2, <2>3, <2>4, <2>5, OtherSized DEF Next
  <1> QED BY <1>1, <1>2, PTL DEF Spec

\* For every limit of either side, every header, every gzip result and every
\* padding: the upload limit keeps what flushAll writes within what Upload
\* takes and within what a peer with no smaller limit reads.
THEOREM FilesFit == Spec => []OwnFilesFit
  <1>1. Sized => OwnFilesFit
    BY DEF Sized
  <1> QED BY <1>1, SizedAlways, PTL

-----------------------------------------------------------------------------
(* What is deleted unread.                                                  *)

\* What a reader that stopped knows: a reading without an error came to the
\* end of the file, a broken connection looks like a truncation, and a frame is
\* refused only by a smaller limit.
Stopped ==
  /\ read \in 0..Len(frames)
  /\ pc = "read" => read = Len(frames)
  /\ pc = "broken" => Keeps
  /\ pc = "rejected" => limit > peerLimit

LossInv ==
  /\ Stopped
  /\ lost \subseteq [envelope : Envelopes, cause : Ended]
  /\ LostOnlyByFault

\* A step that leaves the losses alone.
LEMMA SameLosses ==
  ASSUME LossInv, Stopped', UNCHANGED <<settings, lost>>
  PROVE  LossInv'
  BY DEF LossInv, LostOnlyByFault, settings, Ended

\* Delete, the only step that loses: what is behind the last frame that was
\* read has the cause the reader stopped for.
LEMMA DeleteBlamed ==
  ASSUME Sized, LossInv, Delete
  PROVE  LossInv'
  <1>1. /\ frames \in Seq(Frame)
        /\ Len(frames) \in Nat
        /\ read \in Nat /\ read <= Len(frames)
    BY DEF Sized, LossInv, Stopped
  <1>2. /\ pc \in Ended /\ pc # "broken" /\ UNCHANGED settings
        /\ read' = 0 /\ frames' = <<>> /\ pc' \in {"idle", "pack"}
    BY DEF Delete, LossInv, Stopped
  <1>3. ASSUME NEW l \in lost', l \notin lost
        PROVE  /\ l \in [envelope : Envelopes, cause : Ended]
               /\ l.cause \in {"reset", "truncated"} \/ limit > peerLimit
    <2>1. PICK i \in (read + 1)..Len(frames) :
            l = [envelope |-> frames[i].envelope, cause |-> pc]
      BY <1>3 DEF Delete
    <2>2. i \in 1..Len(frames) /\ pc # "read"
      BY <1>1, <2>1 DEF LossInv, Stopped
    <2>3. frames[i] \in Frame
      BY <1>1, <2>2, ElementOfSeq
    <2>4. pc \in {"reset", "truncated"} \/ limit > peerLimit
      BY <1>2, <2>2 DEF LossInv, Stopped, Ended
    <2> QED BY <1>2, <2>1, <2>3, <2>4 DEF Frame
  <1>4. lost' \subseteq [envelope : Envelopes, cause : Ended]
    BY <1>3 DEF LossInv
  <1>5. LostOnlyByFault'
    BY <1>2, <1>3 DEF LossInv, LostOnlyByFault, settings
  <1>6. Stopped'
    BY <1>2 DEF Stopped
  <1> QED BY <1>4, <1>5, <1>6 DEF LossInv, Ended

\* The reader's steps.
LEMMA ReadStops ==
  ASSUME Sized, LossInv, OwnFilesFit', ReadAll \/ ReadForeign \/ ReadPart
  PROVE  Stopped'
  <1>1. PICK n \in 0..Len(frames), err \in {"eof", "unexpected", "other", tail} :
          /\ ReadTo(n, err)
          /\ pc' \in Ended
          /\ pc' = "read" => n = Len(frames)
          /\ pc' = "broken" => err = "unexpected"
    <2>0. Len(frames) \in Nat
      BY DEF Sized
    <2>1. CASE ReadAll
      BY <2>0, <2>1 DEF ReadAll, Ended
    <2>2. CASE ReadForeign
      <3>1. PICK i \in 1..Len(frames) : ReadTo(i - 1, "other") /\ pc' = "rejected"
        BY <2>2 DEF ReadForeign
      <3>2. i - 1 \in 0..Len(frames)
        BY <2>0
      <3> QED BY <3>1, <3>2 DEF Ended
    <2>3. CASE ReadPart
      BY <2>3 DEF ReadPart, Ended
    <2> QED BY <2>1, <2>2, <2>3
  <1>2. /\ frames' = frames /\ UNCHANGED settings
        /\ read' = IF n > read THEN n ELSE read
        /\ decodeErr' = err
    BY <1>1 DEF ReadTo, content
  <1>3. read' \in 0..Len(frames') /\ (n = Len(frames) => read' = Len(frames'))
    <2>1. Len(frames) \in Nat /\ read \in 0..Len(frames)
      BY DEF Sized, LossInv, Stopped
    <2> QED BY <1>2, <2>1
  <1>4. pc' = "rejected" => (limit > peerLimit)'
    <2>1. limit \in Nat /\ peerLimit \in Nat
      BY WireAssumption DEF WireAssumption, Sized
    <2> QED BY <1>2, <2>1 DEF OwnFilesFit, settings
  <1> QED BY <1>1, <1>2, <1>3, <1>4 DEF Stopped, Keeps

\* The other steps.
LEMMA OtherStops ==
  ASSUME Sized, LossInv,
         \/ \E s \in Sessions, n \in Fills : Write(s, n)
         \/ \E s \in Sessions : Extract(s)
         \/ Flush \/ Pack \/ Encode \/ Pad \/ Put \/ Refuse \/ Keep
         \/ UNCHANGED vars
  PROVE  Stopped' /\ UNCHANGED <<settings, lost>>
  <1>1. UNCHANGED <<settings, reader, lost>>
    BY DEF Write, Extract, Flush, Pack, Encode, Pad, Put, Refuse, Keep, vars, history
  <1>2. /\ frames' = frames \/ Len(frames') = Len(frames) + 1
        /\ frames' = frames \/ pc' \notin {"read", "broken", "rejected"}
    <2>1. CASE Encode
      <3>1. frames \in Seq(Frame)
        BY DEF Sized
      <3>2. CASE \E f \in Frames(Head(remaining)) : frames' = Append(frames, f)
        <4>1. PICK f \in Frames(Head(remaining)) : frames' = Append(frames, f)
          BY <3>2
        <4>2. Len(frames') = Len(frames) + 1
          BY <3>1, <4>1
        <4>3. pc' \in {"pack", "dropped"}
          BY <2>1 DEF Encode
        <4> QED BY <4>2, <4>3
      <3>3. CASE frames' = frames
        BY <3>3
      <3> QED BY <2>1, <3>2, <3>3 DEF Encode
    <2>2. CASE ~Encode
      BY <2>2 DEF Write, Extract, Flush, Pack, Pad, Put, Refuse, Keep, vars, content
    <2> QED BY <2>1, <2>2
  <1>3. pc' \in {"read", "broken", "rejected"} => pc' = pc
    BY DEF Write, Extract, Flush, Pack, Encode, Pad, Put, Refuse, Keep, vars
  <1>4. Len(frames) \in Nat
    BY DEF Sized
  <1> QED BY <1>1, <1>2, <1>3, <1>4 DEF LossInv, Stopped, Keeps, reader, settings

LEMMA LossAlways == Spec => []LossInv
  <1>1. Init => LossInv
    <2> SUFFICES ASSUME Init PROVE LossInv
      OBVIOUS
    <2>1. lost = {} /\ read = 0 /\ frames = <<>> /\ pc = "idle"
      BY DEF Init
    <2> QED BY <2>1, EmptySeq DEF LossInv, Stopped, LostOnlyByFault
  <1>2. Sized /\ Sized' /\ LossInv /\ [Next]_vars => LossInv'
    <2> SUFFICES ASSUME Sized, Sized', LossInv, [Next]_vars PROVE LossInv'
      OBVIOUS
    <2>1. CASE Delete
      BY <2>1, DeleteBlamed
    <2>2. CASE ReadAll \/ ReadForeign \/ ReadPart
      <3>1. UNCHANGED <<settings, lost>>
        BY <2>2 DEF ReadAll, ReadForeign, ReadPart, ReadTo, history
      <3>2. OwnFilesFit'
        BY DEF Sized
      <3> QED BY <2>2, <3>1, <3>2, ReadStops, SameLosses
    <2>3. CASE ~(Delete \/ ReadAll \/ ReadForeign \/ ReadPart)
      BY <2>3, OtherStops, SameLosses DEF Next
    <2> QED BY <2>1, <2>2, <2>3
  <1> QED BY <1>1, <1>2, SizedAlways, PTL DEF Spec

\* However files are cut, connections broken and reset, and whatever the limits
\* of the two sides: processDownload deletes an envelope unread only after a
\* reset, from a file that the storage cut, or if the peer's limit is smaller.
THEOREM LossHasCause == Spec => []LostOnlyByFault
  <1>1. LossInv => LostOnlyByFault
    BY DEF LossInv
  <1> QED BY <1>1, LossAlways, PTL

-----------------------------------------------------------------------------
(* Where every byte is.  The chain of a session grows at its end, when       *)
(* ExtractTxBatch takes a chunk; everything else moves envelopes.            *)

\* Envelope e has byte b of what session s wrote.
Holds(e, s, b) == e.session = s /\ e.at <= b /\ b < End(e)

\* Every byte that left its session is in an envelope.
Covered(s) == \A b \in 0..(Sent(s) - 1) : \E e \in Carried : Holds(e, s, b)

\* A session whose first envelope is still to come has sent nothing.
Unsent ==
  /\ fresh \subseteq Sessions
  /\ \A s \in fresh : Sent(s) = 0 /\ \A e \in Carried : e.session # s

Ledger ==
  /\ delivered \subseteq Envelopes
  /\ OnePlace /\ Unsent
  /\ \A s \in Sessions : Chained(s) /\ Covered(s)

LEMMA CarriedType ==
  ASSUME Sized, LossInv, Ledger
  PROVE  Carried \subseteq Envelopes
  <1>1. ASSUME NEW e \in Waiting PROVE e \in Envelopes
    <2>1. PICK i \in 1..Len(remaining) : e = remaining[i]
      BY <1>1 DEF Waiting
    <2>2. remaining \in Seq(Chunks)
      BY DEF Sized
    <2>3. e \in Chunks
      BY <2>1, <2>2, ElementOfSeq
    <2>4. maxPayloadChunk \in Nat
      BY ChunkFits DEF Sized
    <2> QED BY <2>3, <2>4 DEF Chunks, Envelopes
  <1>2. ASSUME NEW e \in InFile PROVE e \in Envelopes
    <2>1. PICK i \in 1..Len(frames) : e = frames[i].envelope
      BY <1>2 DEF InFile
    <2>2. frames \in Seq(Frame)
      BY DEF Sized
    <2>3. frames[i] \in Frame
      BY <2>1, <2>2, ElementOfSeq
    <2> QED BY <2>1, <2>3 DEF Frame
  <1>3. Gone \subseteq Envelopes
    BY DEF LossInv, Gone
  <1> QED BY <1>1, <1>2, <1>3 DEF Carried, Ledger

LEMMA SentType ==
  ASSUME Sized, NEW s \in Sessions
  PROVE  Sent(s) \in Nat
  BY DEF Sized, Buffers, Sent

\* Chains depend on the envelopes and not on where they are.
LEMMA SameChains ==
  ASSUME Ledger, Carried' = Carried, \A s \in Sessions : Sent(s)' = Sent(s)
  PROVE  \A s \in Sessions : Chained(s)' /\ Covered(s)'
  <1> SUFFICES ASSUME NEW s \in Sessions PROVE Chained(s)' /\ Covered(s)'
    OBVIOUS
  <1>1. Chained(s) /\ Covered(s) /\ Sent(s)' = Sent(s)
    BY DEF Ledger
  <1>2. Chained(s)'
    BY <1>1 DEF Chained
  <1>3. Covered(s)'
    BY <1>1 DEF Covered
  <1> QED BY <1>2, <1>3

\* The head of a sequence without repetitions leaves it.
LEMMA HeadLeaves ==
  ASSUME NEW S, NEW q \in Seq(S), q # <<>>,
         \A i, j \in 1..Len(q) : q[i] = q[j] => i = j
  PROVE  LET r == Tail(q)
         IN  /\ \A i, j \in 1..Len(r) : r[i] = r[j] => i = j
             /\ {r[i] : i \in 1..Len(r)} = {q[i] : i \in 1..Len(q)} \ {Head(q)}
             /\ Head(q) \in {q[i] : i \in 1..Len(q)}
  <1> DEFINE r == Tail(q)
  <1>1. /\ Len(q) \in Nat /\ Len(q) >= 1
        /\ Len(r) = Len(q) - 1
        /\ \A i \in 1..Len(r) : r[i] = q[i + 1]
        /\ Head(q) = q[1]
    BY EmptySeq
  <1> HIDE DEF r
  <1>2. \A i, j \in 1..Len(r) : r[i] = r[j] => i = j
    <2> SUFFICES ASSUME NEW i \in 1..Len(r), NEW j \in 1..Len(r), r[i] = r[j]
                 PROVE  i = j
      OBVIOUS
    <2>1. i + 1 \in 1..Len(q) /\ j + 1 \in 1..Len(q)
      BY <1>1
    <2>2. i + 1 = j + 1
      BY <1>1, <2>1
    <2> QED BY <1>1, <2>2
  <1>3. ASSUME NEW i \in 1..Len(r)
        PROVE  r[i] \in {q[k] : k \in 1..Len(q)} \ {Head(q)}
    <2>1. i + 1 \in 1..Len(q) /\ i + 1 # 1 /\ 1 \in 1..Len(q)
      BY <1>1
    <2> QED BY <1>1, <2>1
  <1>4. ASSUME NEW i \in 1..Len(q), q[i] # Head(q)
        PROVE  q[i] \in {r[k] : k \in 1..Len(r)}
    <2>1. i - 1 \in 1..Len(r) /\ (i - 1) + 1 = i
      BY <1>1, <1>4
    <2>2. r[i - 1] = q[i]
      BY <1>1, <2>1
    <2> QED BY <2>1, <2>2
  <1>5. Head(q) \in {q[i] : i \in 1..Len(q)}
    BY <1>1
  <1>6. {r[i] : i \in 1..Len(r)} = {q[i] : i \in 1..Len(q)} \ {Head(q)}
    BY <1>3, <1>4
  <1> QED BY <1>2, <1>5, <1>6 DEF r

\* What is appended joins it.
LEMMA LastJoins ==
  ASSUME NEW S, NEW q \in Seq(S), NEW x \in S
  PROVE  LET r == Append(q, x)
         IN  /\ Len(r) = Len(q) + 1 /\ Len(q) \in Nat
             /\ \A i \in 1..Len(q) : r[i] = q[i]
             /\ r[Len(q) + 1] = x
             /\ 1..Len(r) = (1..Len(q)) \cup {Len(q) + 1}
  <1> DEFINE r == Append(q, x)
  <1>1. Len(q) \in Nat
    BY LenProperties
  <1>2. /\ Len(r) = Len(q) + 1
        /\ \A i \in 1..Len(q) : r[i] = q[i]
        /\ r[Len(q) + 1] = x
    BY AppendProperties
  <1>3. 1..(Len(q) + 1) = (1..Len(q)) \cup {Len(q) + 1}
    BY <1>1
  <1> HIDE DEF r
  <1>4. 1..Len(r) = (1..Len(q)) \cup {Len(q) + 1}
    BY <1>2, <1>3
  <1> QED BY <1>1, <1>2, <1>4 DEF r

-----------------------------------------------------------------------------

\* Encode moves the first envelope that waits into the file.
LEMMA EncodeLedger ==
  ASSUME Sized, LossInv, Ledger, Encode
  PROVE  Ledger'
  <1>1. /\ UNCHANGED <<written, txBuf, fresh, delivered, lost>>
        /\ remaining # <<>>
    BY DEF Encode, input, source, history
  <1>2. CASE UNCHANGED <<remaining, frames>>
    <2>1. /\ Waiting' = Waiting /\ InFile' = InFile /\ Gone' = Gone
          /\ Carried' = Carried
          /\ \A s \in Sessions : Sent(s)' = Sent(s)
      BY <1>1, <1>2 DEF Waiting, InFile, Gone, Carried, Sent
    <2>2. OnePlace' /\ Unsent'
      BY <1>1, <1>2, <2>1 DEF Ledger, OnePlace, Unsent, Sent
    <2> QED BY <1>1, <2>1, <2>2, SameChains DEF Ledger
  <1>3. CASE ~ UNCHANGED <<remaining, frames>>
    <2> DEFINE e == Head(remaining)
    <2>1. /\ remaining' = Tail(remaining)
          /\ \E f \in Frames(e) : frames' = Append(frames, f)
      BY <1>3 DEF Encode
    <2>2. PICK f \in Frames(e) : frames' = Append(frames, f)
      BY <2>1
    <2>3. /\ remaining \in Seq(Chunks) /\ frames \in Seq(Frame)
          /\ e \in Chunks
      <3>1. remaining \in Seq(Chunks) /\ frames \in Seq(Frame)
        BY DEF Sized
      <3> QED BY <3>1, <1>1, HeadTailProperties
    <2>4. f \in Frame /\ f.envelope = e
      BY <2>3, FrameFits DEF Sized
    <2>5. /\ \A i, j \in 1..Len(remaining') : remaining'[i] = remaining'[j] => i = j
          /\ Waiting' = Waiting \ {e}
          /\ e \in Waiting
      <3>1. \A i, j \in 1..Len(remaining) : remaining[i] = remaining[j] => i = j
        BY DEF Ledger, OnePlace
      <3>2. remaining \in Seq(Chunks)
        BY <2>3
      <3> DEFINE q == Tail(remaining)
      <3>3. /\ \A i, j \in 1..Len(q) : q[i] = q[j] => i = j
            /\ {q[i] : i \in 1..Len(q)} = {remaining[i] : i \in 1..Len(remaining)} \ {e}
            /\ e \in {remaining[i] : i \in 1..Len(remaining)}
        BY <1>1, <3>1, <3>2, HeadLeaves
      <3>4. remaining' = q
        BY <2>1
      <3> HIDE DEF e, q
      <3> QED BY <3>3, <3>4 DEF Waiting
    <2>6. e \notin InFile /\ e \notin delivered \cup Gone
      BY <2>5 DEF Ledger, OnePlace
    <2>7. /\ Len(frames') = Len(frames) + 1 /\ Len(frames) \in Nat
          /\ \A i \in 1..Len(frames) : frames'[i] = frames[i]
          /\ frames'[Len(frames) + 1].envelope = e
          /\ 1..Len(frames') = (1..Len(frames)) \cup {Len(frames) + 1}
      BY <2>2, <2>3, <2>4, LastJoins
    <2> HIDE DEF e
    <2>8. InFile' = InFile \cup {e}
      <3>1. InFile' \subseteq InFile \cup {e}
        BY <2>7 DEF InFile
      <3>2. InFile \subseteq InFile'
        <4> SUFFICES ASSUME NEW i \in 1..Len(frames) PROVE frames[i].envelope \in InFile'
          BY DEF InFile
        <4>1. i \in 1..Len(frames') /\ frames'[i] = frames[i]
          BY <2>7
        <4> QED BY <4>1 DEF InFile
      <3>3. e \in InFile'
        <4>1. Len(frames) + 1 \in 1..Len(frames')
          BY <2>7
        <4> QED BY <4>1, <2>7 DEF InFile
      <3> QED BY <3>1, <3>2, <3>3
    <2>9. \A i, j \in 1..Len(frames') : frames'[i].envelope = frames'[j].envelope => i = j
      <3> SUFFICES ASSUME NEW i \in 1..Len(frames'), NEW j \in 1..Len(frames'),
                          frames'[i].envelope = frames'[j].envelope
                   PROVE  i = j
        OBVIOUS
      <3>1. \A k \in 1..Len(frames) : frames'[k].envelope # e
        BY <2>6, <2>7 DEF InFile
      <3>2. CASE i \in 1..Len(frames) /\ j \in 1..Len(frames)
        BY <3>2, <2>7 DEF Ledger, OnePlace
      <3>3. CASE ~(i \in 1..Len(frames) /\ j \in 1..Len(frames))
        BY <3>1, <3>3, <2>7
      <3> QED BY <3>2, <3>3
    <2>10. /\ Gone' = Gone /\ delivered' = delivered
           /\ Carried' = Carried
           /\ \A s \in Sessions : Sent(s)' = Sent(s)
      BY <1>1, <2>5, <2>8 DEF Gone, Carried, Sent
    <2>11. OnePlace'
      BY <2>5, <2>6, <2>8, <2>9, <2>10 DEF Ledger, OnePlace
    <2>12. Unsent'
      BY <1>1, <2>10 DEF Ledger, Unsent, Sent
    <2> QED BY <2>10, <2>11, <2>12, SameChains DEF Ledger
  <1> QED BY <1>2, <1>3

\* Delete parts the file: what was read was handed over, the rest is gone.
LEMMA DeleteLedger ==
  ASSUME Sized, LossInv, Ledger, Delete
  PROVE  Ledger'
  <1> DEFINE A == {frames[i].envelope : i \in 1..read}
             B == {frames[i].envelope : i \in (read + 1)..Len(frames)}
  <1>1. /\ Len(frames) \in Nat /\ read \in 0..Len(frames)
        /\ 1..Len(frames) = (1..read) \cup ((read + 1)..Len(frames))
        /\ \A i \in 1..read, j \in (read + 1)..Len(frames) : i # j
    <2>1. Len(frames) \in Nat /\ read \in 0..Len(frames)
      BY DEF Sized, LossInv, Stopped
    <2> QED BY <2>1
  <1>2. InFile = A \cup B
    BY <1>1 DEF InFile
  <1>3. A \cap B = {}
    <2> SUFFICES ASSUME NEW i \in 1..read, NEW j \in (read + 1)..Len(frames)
                 PROVE  frames[i].envelope # frames[j].envelope
      OBVIOUS
    <2>1. i \in 1..Len(frames) /\ j \in 1..Len(frames) /\ i # j
      BY <1>1
    <2> QED BY <2>1 DEF Ledger, OnePlace
  <1>4. delivered' = delivered \cup A /\ Gone' = Gone \cup B
    <2> DEFINE new == {[envelope |-> frames[i].envelope, cause |-> pc] :
                         i \in (read + 1)..Len(frames)}
    <2>1. delivered' = delivered \cup A /\ lost' = lost \cup new
      BY DEF Delete
    <2>2. {l.envelope : l \in new} = B
      <3>1. ASSUME NEW l \in new  PROVE  l.envelope \in B
        BY <3>1
      <3>2. ASSUME NEW i \in (read + 1)..Len(frames)
            PROVE  \E l \in new : l.envelope = frames[i].envelope
        <4>1. [envelope |-> frames[i].envelope, cause |-> pc] \in new
          OBVIOUS
        <4> QED BY <4>1
      <3> QED BY <3>1, <3>2
    <2> HIDE DEF new, A, B
    <2>3. {l.envelope : l \in lost \cup new} =
            {l.envelope : l \in lost} \cup {l.envelope : l \in new}
      OBVIOUS
    <2> QED BY <2>1, <2>2, <2>3 DEF Gone
  <1>5. /\ UNCHANGED <<written, txBuf, fresh, remaining>>
        /\ frames' = <<>>
    BY DEF Delete, input, source
  <1>6. Waiting' = Waiting /\ InFile' = {}
    BY <1>5 DEF Waiting, InFile
  <1> HIDE DEF A, B
  <1>7. Carried' = Carried /\ \A s \in Sessions : Sent(s)' = Sent(s)
    BY <1>2, <1>4, <1>5, <1>6 DEF Carried, Sent
  <1>8. OnePlace'
    <2>1. /\ Waiting \cap InFile = {} /\ delivered \cap Gone = {}
          /\ (Waiting \cup InFile) \cap (delivered \cup Gone) = {}
          /\ \A i, j \in 1..Len(remaining') : remaining'[i] = remaining'[j] => i = j
      BY <1>5 DEF Ledger, OnePlace
    <2>2. \A i, j \in 1..Len(frames') : frames'[i].envelope = frames'[j].envelope => i = j
      BY <1>5
    <2>3. /\ Waiting' \cap InFile' = {} /\ delivered' \cap Gone' = {}
          /\ (Waiting' \cup InFile') \cap (delivered' \cup Gone') = {}
      BY <2>1, <1>2, <1>3, <1>4, <1>6
    <2> QED BY <2>1, <2>2, <2>3 DEF OnePlace
  <1>9. Unsent'
    BY <1>5, <1>7 DEF Ledger, Unsent, Sent
  <1>10. delivered' \subseteq Envelopes
    <2>1. InFile \subseteq Envelopes
      BY CarriedType DEF Carried
    <2> QED BY <2>1, <1>2, <1>4 DEF Ledger
  <1> QED BY <1>7, <1>8, <1>9, <1>10, SameChains DEF Ledger

\* ExtractTxBatch adds the next link of a session's chain.
LEMMA ExtractLedger ==
  ASSUME Sized, LossInv, Ledger, NEW s \in Sessions, Extract(s)
  PROVE  Ledger'
  <1> DEFINE n == IF txBuf[s] > maxPayloadChunk THEN maxPayloadChunk ELSE txBuf[s]
             e == [session |-> s, at |-> Sent(s), payload |-> n]
  <1>1. /\ UNCHANGED <<written, frames, delivered, lost>>
        /\ fresh' = fresh \ {s}
        /\ txBuf' = [txBuf EXCEPT ![s] = @ - n]
        /\ remaining' = IF n > 0 \/ s \in fresh THEN Append(remaining, e) ELSE remaining
    BY DEF Extract, input, content, history
  <1>2. /\ maxPayloadChunk \in Nat
        /\ txBuf[s] \in Nat /\ written[s] \in Nat
        /\ n \in Nat /\ n <= maxPayloadChunk
    BY ChunkFits DEF Sized, Buffers
  <1>3. /\ Sent(s) \in Nat
        /\ Sent(s)' = Sent(s) + n
        /\ \A r \in Sessions \ {s} : Sent(r)' = Sent(r)
    BY <1>1, <1>2, SentType DEF Sized, Buffers, Sent
  <1>4. e \in Chunks /\ e \in Envelopes
    BY <1>2, <1>3 DEF Chunks, Envelopes
  <1>5. End(e) = Sent(s)' /\ e.at = Sent(s) /\ e.session = s
    BY <1>3 DEF End
  <1> HIDE DEF n
  <1>6. /\ InFile' = InFile /\ Gone' = Gone
        /\ Carried \subseteq Envelopes
    BY <1>1, CarriedType DEF InFile, Gone
  <1>7. CASE ~(n > 0 \/ s \in fresh)
    <2>1. n = 0
      BY <1>2, <1>7
    <2>2. Waiting' = Waiting /\ remaining' = remaining
      BY <1>1, <1>7 DEF Waiting
    <2>3. Carried' = Carried /\ \A r \in Sessions : Sent(r)' = Sent(r)
      BY <1>1, <1>3, <1>6, <2>1, <2>2 DEF Carried
    <2>4. OnePlace'
      BY <1>1, <1>6, <2>2 DEF Ledger, OnePlace
    <2>5. Unsent'
      <3>1. \A r \in fresh' : Sent(r)' = Sent(r)
        BY <1>1, <2>1, <1>3 DEF Sent
      <3> QED BY <1>1, <2>3, <3>1 DEF Ledger, Unsent
    <2> QED BY <1>1, <2>3, <2>4, <2>5, SameChains DEF Ledger
  <1>8. CASE n > 0 \/ s \in fresh
    <2>1. remaining' = Append(remaining, e) /\ remaining \in Seq(Chunks)
      BY <1>1, <1>8 DEF Sized
    <2>2. \A d \in Carried : d.session = s => d.at \in Nat /\ End(d) \in Nat /\ End(d) <= Sent(s)
      BY <1>6 DEF Ledger, Chained, Envelopes, End
    <2>3. e \notin Carried
      <3>1. CASE n > 0
        BY <1>2, <1>3, <1>5, <2>2, <3>1
      <3>2. CASE s \in fresh
        BY <1>5, <3>2 DEF Ledger, Unsent
      <3> QED BY <1>8, <3>1, <3>2
    <2> HIDE DEF e
    <2>4. /\ Len(remaining') = Len(remaining) + 1 /\ Len(remaining) \in Nat
          /\ \A i \in 1..Len(remaining) : remaining'[i] = remaining[i]
          /\ remaining'[Len(remaining) + 1] = e
          /\ 1..Len(remaining') = (1..Len(remaining)) \cup {Len(remaining) + 1}
      BY <1>4, <2>1, LastJoins
    <2>5. Waiting' = Waiting \cup {e}
      <3>1. Waiting' \subseteq Waiting \cup {e}
        BY <2>4 DEF Waiting
      <3>2. Waiting \subseteq Waiting'
        <4> SUFFICES ASSUME NEW i \in 1..Len(remaining) PROVE remaining[i] \in Waiting'
          BY DEF Waiting
        <4>1. i \in 1..Len(remaining') /\ remaining'[i] = remaining[i]
          BY <2>4
        <4> QED BY <4>1 DEF Waiting
      <3>3. e \in Waiting'
        <4>1. Len(remaining) + 1 \in 1..Len(remaining')
          BY <2>4
        <4> QED BY <4>1, <2>4 DEF Waiting
      <3> QED BY <3>1, <3>2, <3>3
    <2>6. Carried' = Carried \cup {e}
      BY <1>1, <1>6, <2>5 DEF Carried
    <2>7. OnePlace'
      <3>1. \A i, j \in 1..Len(remaining') : remaining'[i] = remaining'[j] => i = j
        <4> SUFFICES ASSUME NEW i \in 1..Len(remaining'), NEW j \in 1..Len(remaining'),
                            remaining'[i] = remaining'[j]
                     PROVE  i = j
          OBVIOUS
        <4>1. \A k \in 1..Len(remaining) : remaining'[k] # e
          BY <2>3, <2>4 DEF Carried, Waiting
        <4>2. CASE i \in 1..Len(remaining) /\ j \in 1..Len(remaining)
          BY <4>2, <2>4 DEF Ledger, OnePlace
        <4>3. CASE ~(i \in 1..Len(remaining) /\ j \in 1..Len(remaining))
          BY <4>1, <4>3, <2>4
        <4> QED BY <4>2, <4>3
      <3> QED BY <3>1, <1>1, <1>6, <2>3, <2>5 DEF Ledger, OnePlace, Carried
    <2>8. Unsent'
      <3>1. \A r \in fresh' : r # s /\ r \in fresh /\ Sent(r)' = Sent(r)
        BY <1>1, <1>3 DEF Sent
      <3> QED BY <3>1, <1>5, <2>6 DEF Ledger, Unsent
    <2>9. Chained(s)'
      <3> DEFINE E == {d \in Carried : d.session = s}
      <3>1. /\ \A d \in E : /\ End(d) <= Sent(s)
                            /\ d.at = 0 \/ \E c \in E : End(c) = d.at
                            /\ \A c \in E : c # d => End(c) <= d.at \/ End(d) <= c.at
            /\ Sent(s) = 0 \/ \E d \in E : End(d) = Sent(s)
        BY DEF Ledger, Chained
      <3>2. {d \in Carried' : d.session = s} = E \cup {e}
        BY <1>5, <2>6
      <3>3. \A d \in E : d.at \in Nat /\ End(d) \in Nat /\ End(d) <= Sent(s)
        BY <2>2
      <3> HIDE DEF E
      <3>4. \A d \in E \cup {e} : End(d) <= Sent(s)'
        BY <1>2, <1>3, <1>5, <3>3
      <3>5. \A d \in E \cup {e} : d.at = 0 \/ \E c \in E \cup {e} : End(c) = d.at
        BY <1>5, <3>1
      <3>6. \A c, d \in E \cup {e} : c # d => End(c) <= d.at \/ End(d) <= c.at
        BY <1>5, <3>1, <3>3
      <3>7. \E d \in E \cup {e} : End(d) = Sent(s)'
        BY <1>5
      <3> QED BY <3>2, <3>4, <3>5, <3>6, <3>7 DEF Chained
    <2>10. Covered(s)'
      <3> SUFFICES ASSUME NEW b \in 0..(Sent(s)' - 1)
                   PROVE  \E d \in Carried' : Holds(d, s, b)
        BY DEF Covered
      <3>1. CASE b < Sent(s)
        <4>1. b \in 0..(Sent(s) - 1)
          BY <1>2, <1>3, <3>1
        <4> QED BY <4>1, <2>6 DEF Ledger, Covered
      <3>2. CASE ~(b < Sent(s))
        <4>1. Holds(e, s, b)
          BY <1>2, <1>3, <1>5, <3>2 DEF Holds
        <4> QED BY <4>1, <2>6
      <3> QED BY <3>1, <3>2
    <2>11. ASSUME NEW r \in Sessions, r # s PROVE Chained(r)' /\ Covered(r)'
      <3>1. {d \in Carried' : d.session = r} = {d \in Carried : d.session = r}
        BY <1>5, <2>6, <2>11
      <3>2. Sent(r)' = Sent(r) /\ Chained(r) /\ Covered(r)
        BY <1>3, <2>11 DEF Ledger
      <3>3. Chained(r)'
        BY <3>1, <3>2 DEF Chained
      <3>4. Covered(r)'
        BY <2>6, <3>2 DEF Covered
      <3> QED BY <3>3, <3>4
    <2> QED BY <1>1, <2>7, <2>8, <2>9, <2>10, <2>11 DEF Ledger
  <1> QED BY <1>7, <1>8

\* The other steps move no envelope.
LEMMA OtherLedger ==
  ASSUME Sized, LossInv, Ledger,
         \/ \E s \in Sessions, n \in Fills : Write(s, n)
         \/ Flush \/ Pack \/ Pad \/ Put \/ Refuse \/ ReadAll \/ ReadForeign \/ ReadPart
         \/ Keep
         \/ UNCHANGED vars
  PROVE  Ledger'
  <1>1. UNCHANGED <<fresh, remaining, frames, delivered, lost>>
    BY DEF Write, Flush, Pack, Pad, Put, Refuse, ReadAll, ReadForeign, ReadPart, ReadTo,
           Keep, vars, content, source, history, Consumed
  <1>2. \A s \in Sessions \cup fresh : Sent(s)' = Sent(s)
    <2>1. CASE \E s \in Sessions, n \in Fills : Write(s, n)
      <3>1. PICK s \in Sessions, n \in Fills : Write(s, n)
        BY <2>1
      <3>2. n \in Nat
        BY WireAssumption DEF WireAssumption
      <3>3. /\ written' = [written EXCEPT ![s] = @ + n]
            /\ txBuf' = [txBuf EXCEPT ![s] = @ + n]
            /\ written[s] \in Nat /\ txBuf[s] \in Nat
            /\ written \in [Sessions -> Nat] /\ txBuf \in [Sessions -> Nat]
        BY <3>1 DEF Write, Sized, Buffers
      <3>4. Sent(s)' = Sent(s)
        BY <3>2, <3>3 DEF Sent
      <3>5. \A r \in Sessions : r # s => Sent(r)' = Sent(r)
        BY <3>3 DEF Sent
      <3> QED BY <3>4, <3>5 DEF Ledger, Unsent
    <2>2. CASE UNCHANGED <<written, txBuf>>
      BY <2>2 DEF Sent
    <2> QED BY <2>1, <2>2 DEF Flush, Pack, Pad, Put, Refuse, ReadAll, ReadForeign, ReadPart,
                             ReadTo, Keep, vars, source, input
  <1>3. /\ Waiting' = Waiting /\ InFile' = InFile /\ Gone' = Gone
        /\ Carried' = Carried
    BY <1>1 DEF Waiting, InFile, Gone, Carried
  <1>4. OnePlace' /\ Unsent'
    BY <1>1, <1>2, <1>3 DEF Ledger, OnePlace, Unsent
  <1> QED BY <1>1, <1>2, <1>3, <1>4, SameChains DEF Ledger

LEMMA LedgerAlways == Spec => [](Sized /\ LossInv /\ Ledger)
  <1>1. Init => Ledger
    <2> SUFFICES ASSUME Init PROVE Ledger
      OBVIOUS
    <2>1. /\ remaining = <<>> /\ frames = <<>> /\ delivered = {} /\ lost = {}
          /\ fresh = Sessions
          /\ \A s \in Sessions : Sent(s) = 0
      BY DEF Init, Sent
    <2>2. Waiting = {} /\ InFile = {} /\ Gone = {} /\ Carried = {}
      BY <2>1 DEF Waiting, InFile, Gone, Carried
    <2>3. OnePlace /\ Unsent
      BY <2>1, <2>2 DEF OnePlace, Unsent
    <2>4. ASSUME NEW s \in Sessions PROVE Chained(s) /\ Covered(s)
      <3>1. Sent(s) = 0 /\ 0..(0 - 1) = {}
        BY <2>1
      <3>2. {e \in Carried : e.session = s} = {}
        BY <2>2
      <3> QED BY <3>1, <3>2 DEF Chained, Covered
    <2> QED BY <2>1, <2>3, <2>4 DEF Ledger
  <1>2. Sized /\ LossInv /\ Ledger /\ [Next]_vars => Ledger'
    <2> SUFFICES ASSUME Sized, LossInv, Ledger, [Next]_vars PROVE Ledger'
      OBVIOUS
    <2>1. CASE Encode
      BY <2>1, EncodeLedger
    <2>2. CASE Delete
      BY <2>2, DeleteLedger
    <2>3. CASE \E s \in Sessions : Extract(s)
      BY <2>3, ExtractLedger
    <2> QED BY <2>1, <2>2, <2>3, OtherLedger DEF Next
  <1> QED BY <1>1, <1>2, SizedAlways, LossAlways, PTL DEF Spec

\* For any number of sessions, writes of any size, limits, compression and
\* padding, and whatever the reader does: what was extracted is in one envelope
\* at one place, in the flush, in the file or behind it; envelopes that the
\* flush truncates off a file come in the next; lost bytes have a cause.
THEOREM BytesAccounted == Spec => []EveryByteOnce
  <1>1. LossInv /\ Ledger => EveryByteOnce
    BY DEF LossInv, Ledger, EveryByteOnce
  <1> QED BY <1>1, LedgerAlways, PTL

\* The same of each byte by itself: it is in the buffer of its session, or in
\* one envelope and no other.
OneEnvelopeEach ==
  \A s \in Sessions : \A b \in 0..(Sent(s) - 1) :
    \E e \in Carried :
      Holds(e, s, b) /\ \A d \in Carried : Holds(d, s, b) => d = e

\* ExtractTxBatch cuts the stream of a session into envelopes without a gap and
\* without an overlap.
THEOREM EachByteInOneEnvelope == Spec => []OneEnvelopeEach
  <1>1. Sized /\ LossInv /\ Ledger => OneEnvelopeEach
    <2> SUFFICES ASSUME Sized, LossInv, Ledger,
                        NEW s \in Sessions, NEW b \in 0..(Sent(s) - 1)
                 PROVE  \E e \in Carried :
                          Holds(e, s, b) /\ \A d \in Carried : Holds(d, s, b) => d = e
      BY DEF OneEnvelopeEach
    <2>1. PICK e \in Carried : Holds(e, s, b)
      BY DEF Ledger, Covered
    <2>2. ASSUME NEW d \in Carried, Holds(d, s, b), d # e PROVE FALSE
      <3>1. End(d) <= e.at \/ End(e) <= d.at
        BY <2>1, <2>2 DEF Ledger, Chained, Holds
      <3>2. /\ d.at \in Nat /\ e.at \in Nat /\ End(d) \in Nat /\ End(e) \in Nat
            /\ b \in Int
        BY CarriedType, SentType DEF Envelopes, End
      <3> QED BY <2>1, <2>2, <3>1, <3>2 DEF Holds
    <2> QED BY <2>1, <2>2
  <1> QED BY <1>1, LedgerAlways, PTL

-----------------------------------------------------------------------------
(* Types.                                                                    *)

Errors == {"none", "eof", "unexpected", "other"}

PCs == {"idle", "extract", "pack", "padded", "stored", "dropped", "refused"} \cup Ended

\* What no invariant above speaks of.
Rest ==
  /\ fills \in 0..MaxFills
  /\ todo \subseteq Sessions
  /\ tail \in Errors /\ decodeErr \in Errors
  /\ pc \in PCs

LEMMA RestStep ==
  ASSUME Rest, [Next]_vars
  PROVE  Rest'
  <1>1. fills' \in 0..MaxFills
    <2>1. CASE \E s \in Sessions, n \in Fills : Write(s, n)
      <3>1. MaxFills \in Nat
        BY WireAssumption DEF WireAssumption
      <3> QED BY <2>1, <3>1 DEF Rest, Write
    <2>2. CASE fills' = fills
      BY <2>2 DEF Rest
    <2> QED BY <2>1, <2>2 DEF Next, Flush, Extract, Pack, Encode, Pad, Put, Refuse, ReadAll,
                             ReadForeign, ReadPart, ReadTo, Keep, Delete, vars, input
  <1>2. todo' \subseteq Sessions
    BY DEF Rest, Next, Write, Flush, Extract, Pack, Encode, Pad, Put, Refuse, ReadAll,
           ReadForeign, ReadPart, ReadTo, Keep, Delete, vars, source
  <1>3. tail' \in Errors
    <2>1. CASE Pad
      <3>1. PICK r \in Slack : tail' \in TailErrors(PadLen(r))
        BY <2>1 DEF Pad
      <3>2. \A n : TailErrors(n) \subseteq Errors
        BY DEF TailErrors, Errors
      <3> QED BY <3>1, <3>2
    <2>2. CASE tail' = tail \/ tail' = "eof"
      BY <2>2 DEF Rest, Errors
    <2> QED BY <2>1, <2>2 DEF Next, Write, Flush, Extract, Pack, Encode, Put, Refuse, ReadAll,
                             ReadForeign, ReadPart, ReadTo, Keep, Delete, vars, content
  <1>4. decodeErr' \in Errors
    BY DEF Rest, Errors, Next, Write, Flush, Extract, Pack, Encode, Pad, Put, Refuse, ReadAll,
           ReadForeign, ReadPart, ReadTo, Keep, Delete, vars, reader
  <1>5. pc' \in PCs
    BY DEF Rest, PCs, Ended, Next, Write, Flush, Extract, Pack, Encode, Pad, Put, Refuse,
           ReadAll, ReadForeign, ReadPart, Keep, Delete, vars
  <1> QED BY <1>1, <1>2, <1>3, <1>4, <1>5 DEF Rest

\* Every variable of the file format has its type, for every value of the
\* constants.
THEOREM WireTypeCorrect == Spec => []TypeOK
  <1>1. Init => Rest
    BY WireAssumption DEF WireAssumption, Init, Rest, Errors, PCs
  <1>2. Rest /\ [Next]_vars => Rest'
    BY RestStep
  <1>3. Sized /\ LossInv /\ Ledger /\ Rest => TypeOK
    <2> SUFFICES ASSUME Sized, LossInv, Ledger, Rest PROVE TypeOK
      OBVIOUS
    <2>1. remaining \in Seq(Envelopes)
      <3>1. remaining \in Seq(Chunks) /\ Len(remaining) \in Nat
        BY DEF Sized
      <3>2. \A i \in 1..Len(remaining) : remaining[i] \in Envelopes
        BY CarriedType DEF Carried, Waiting
      <3>3. remaining = [i \in 1..Len(remaining) |-> remaining[i]]
        BY <3>1
      <3> QED BY <3>1, <3>2, <3>3, SeqDef
    <2>2. frames \in Seq([envelope : Envelopes, plain : Nat])
      BY DEF Sized, Frame
    <2>3. size \in Nat
      BY SafeBounds DEF Sized
    <2> QED BY <2>1, <2>2, <2>3
            DEF TypeOK, Sized, Buffers, LossInv, Stopped, Ledger, Unsent, Rest, Errors, PCs
  <1> QED BY <1>1, <1>2, <1>3, LedgerAlways, PTL DEF Spec
=============================================================================
