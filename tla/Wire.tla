-------------------------------- MODULE Wire --------------------------------
(***************************************************************************)
(* What a file holds, and whether the peer can read it                     *)
(* (internal/transport/envelope.go, crypto.go, engine.go flushAll and      *)
(* padFile, session.go ExtractTxBatch, pool.go processDownload,            *)
(* internal/storage/webdav.go Upload and Download).                        *)
(*                                                                         *)
(* Everything here is a size.  A flush takes one chunk of every session,   *)
(* marshals, perhaps compresses and encrypts it, packs frames into a file  *)
(* up to the upload limit and pads the file; the reader decodes frames     *)
(* until it meets an error, whose kind decides what happens to the file.   *)
(* The same limit, max_message_size, is used for one frame, for a file and *)
(* (times 7/8) for the packing, and each side has its own.  One file is on *)
(* its way at a time: Upload and Download have the pipelines.              *)
(***************************************************************************)
EXTENDS Integers, Sequences

CONSTANTS
  Sessions,
  IdLen,        \* length of a session id
  AddrLen,      \* length of a target address
  Limits,       \* values of max_message_size
  Half,         \* an int lies in -Half .. Half - 1
  PaddingSize,  \* Engine.PaddingSize; 0: no padding
  Fills,        \* how much an application writes between two flushes
  MaxFills,     \* bound: number of such writes
  Squeezed,     \* what gzip may make of an envelope
  Slack         \* the random byte of padFile

\* ValidateAppConfig admits 65536 to MaxMaxMessageSize, which an int holds.  A
\* header that leaves no room for a chunk of 1024 bytes is not met: ids have 32
\* characters, SOCKS5 addresses at most 261.  gzip adds 18 bytes to any data.
ASSUME WireAssumption ==
  /\ IdLen \in Nat /\ AddrLen \in Nat /\ IdLen + AddrLen <= 64427
  /\ Half \in Nat
  /\ Limits \subseteq 65536..(Half - 1)
  /\ PaddingSize \in Nat
  /\ Fills \subseteq Nat
  /\ MaxFills \in Nat
  /\ Squeezed \subseteq Nat \ 0..17
  /\ Slack \subseteq 0..255

VARIABLES
  limit,      \* MaxMessageSize and MaxFileSize of the writing side
  peerLimit,  \* those of the reading side
  fills,      \* writes of applications so far
  written,    \* history: written[s]: bytes the application of s wrote
  txBuf,      \* txBuf[s]: length of Session.txBuf
  fresh,      \* sessions with txSeq = 0
  todo,       \* sessions this flush has still to look at
  remaining,  \* the envelopes flushAll holds for later files
  frames,     \* the envelopes of the file, in order, and what gzip left of them
  size,       \* its length
  tail,       \* the error a reader meets behind its last frame
  pc,         \* how far flush and reader are
  decodeErr,  \* what ended the reading
  read,       \* how many of its frames were handed to sessions
  delivered,  \* history: envelopes handed over
  lost        \* history: envelopes deleted unread, with the cause

settings == <<limit, peerLimit>>
input    == <<fills, written>>
source   == <<txBuf, fresh, todo>>
content  == <<frames, size, tail>>
reader   == <<decodeErr, read>>
history  == <<delivered, lost>>
vars     == <<settings, input, source, remaining, content, pc, reader, history>>

-----------------------------------------------------------------------------
(* Sizes.                                                                   *)

\* int arithmetic wraps.
Wrapped(n) == ((n + Half) % (2 * Half)) - Half

\* Go rounds a negative quotient up, \div down: either is below 65536.
safeUploadSize ==
  LET s == Wrapped(limit * 7) \div 8 IN IF s < 65536 THEN 65536 ELSE s

\* A slip: a margin for the crypto wrapper only.
ChunkOfLimit == safeUploadSize

maxPayloadChunk ==
  LET m == safeUploadSize - (1024 + IdLen + AddrLen)
  IN IF m < 1024 THEN 1024 ELSE m

Marshalled(payload) == 20 + IdLen + AddrLen + payload

\* What gzip may leave of an envelope: used only when it is smaller.
Plain(payload) ==
  {Marshalled(payload)} \cup
  {k \in Squeezed : Marshalled(payload) >= 256 /\ k < Marshalled(payload)}

\* Nonce, compression flag, plain text and GCM tag.
DataLen(f) == 12 + 1 + f.plain + 16

\* Length prefix, data and HMAC.
FrameLen(f) == 4 + DataLen(f) + 32

Frames(e) == [envelope : {e}, plain : Plain(e.payload)]

\* The decoder's checks: the length prefix, the size after decompression and
\* the payload length.
Accepts(f) ==
  /\ DataLen(f) \in 32..peerLimit
  /\ LET n == f.envelope.payload
     IN /\ f.plain # Marshalled(n) => Marshalled(n) <= peerLimit
        /\ n <= peerLimit

\* padFile.
PadLen(r) ==
  IF PaddingSize = 0 \/ size >= safeUploadSize THEN 0
  ELSE LET padLen == PaddingSize - (size % PaddingSize) + r
       IN IF size + padLen > safeUploadSize THEN safeUploadSize - size ELSE padLen

\* How random bytes end the reading.  The first four are a length: refused, or
\* a frame that ends too late (a truncated file, as it seems) or whose HMAC is
\* wrong.
TailErrors(padLen) ==
  CASE padLen = 0      -> {"eof"}
    [] padLen \in 1..3 -> {"unexpected"}
    [] padLen = 4      -> {"eof", "other"}
    [] OTHER -> {"other"} \cup (IF padLen - 36 < peerLimit THEN {"unexpected"} ELSE {})

-----------------------------------------------------------------------------
(* The writing side.                                                        *)

Init ==
  /\ limit \in Limits
  /\ peerLimit \in Limits
  /\ fills = 0
  /\ written = [s \in Sessions |-> 0]
  /\ txBuf = [s \in Sessions |-> 0]
  /\ fresh = Sessions
  /\ todo = {}
  /\ remaining = <<>>
  /\ frames = <<>>
  /\ size = 0
  /\ tail = "eof"
  /\ pc = "idle"
  /\ decodeErr = "none"
  /\ read = 0
  /\ delivered = {}
  /\ lost = {}

Write(s, n) ==
  /\ pc = "idle"
  /\ fills < MaxFills
  /\ fills' = fills + 1
  /\ written' = [written EXCEPT ![s] = @ + n]
  /\ txBuf' = [txBuf EXCEPT ![s] = @ + n]
  /\ UNCHANGED <<settings, fresh, todo, remaining, content, pc, reader, history>>

Flush ==
  /\ pc = "idle"
  /\ \E s \in Sessions : txBuf[s] > 0 \/ s \in fresh
  /\ todo' = Sessions
  /\ pc' = "extract"
  /\ UNCHANGED <<settings, input, txBuf, fresh, remaining, content, reader, history>>

\* How much of what s wrote has left its buffer: where its next envelope begins.
Sent(s) == written[s] - txBuf[s]

\* ExtractTxBatch: at most one chunk, or an empty first envelope of a client.
Extract(s) ==
  /\ pc = "extract"
  /\ s \in todo
  /\ todo' = todo \ {s}
  /\ fresh' = fresh \ {s}
  /\ LET n == IF txBuf[s] > maxPayloadChunk THEN maxPayloadChunk ELSE txBuf[s]
     IN /\ txBuf' = [txBuf EXCEPT ![s] = @ - n]
        /\ remaining' =
             IF n > 0 \/ s \in fresh
             THEN Append(remaining, [session |-> s, at |-> Sent(s), payload |-> n])
             ELSE remaining
  /\ UNCHANGED <<settings, input, content, pc, reader, history>>

Pack ==
  /\ pc = "extract"
  /\ todo = {}
  /\ pc' = "pack"
  /\ UNCHANGED <<settings, input, source, remaining, content, reader, history>>

\* The first envelope of a file is never given back.
Room(f) == frames = <<>> \/ size + FrameLen(f) <= safeUploadSize

\* encodeWithCrypto into the file's buffer.  If MarshalBinary refuses the
\* envelope, flushAll returns and everything it extracted is gone.
Encode ==
  /\ pc = "pack"
  /\ remaining # <<>>
  /\ IF Head(remaining).payload > limit
     THEN /\ pc' = "dropped"
          /\ UNCHANGED <<remaining, frames, size>>
     ELSE /\ \E f \in Frames(Head(remaining)) :
               /\ Room(f)
               /\ frames' = Append(frames, f)
               /\ size' = size + FrameLen(f)
          /\ remaining' = Tail(remaining)
          /\ UNCHANGED pc
  /\ UNCHANGED <<settings, input, source, tail, reader, history>>

\* A slip: the envelope that was truncated from the buffer counts as consumed.
ConsumeTruncated == IF remaining = <<>> THEN remaining ELSE Tail(remaining)

Consumed == remaining

\* The file is complete: no envelope is left, or the next was truncated off.
Pad ==
  /\ pc = "pack"
  /\ frames # <<>>
  /\ remaining # <<>> => \E f \in Frames(Head(remaining)) : ~Room(f)
  /\ remaining' = Consumed
  /\ \E r \in Slack :
       /\ size' = size + PadLen(r)
       /\ tail' \in TailErrors(PadLen(r))
  /\ pc' = "padded"
  /\ UNCHANGED <<settings, input, source, frames, reader, history>>

\* WebDAVBackend.Upload refuses a file above MaxFileSize.
Put ==
  /\ pc = "padded"
  /\ pc' = IF size > limit THEN "dropped" ELSE "stored"
  /\ UNCHANGED <<settings, input, source, remaining, content, reader, history>>

-----------------------------------------------------------------------------
(* The reading side.                                                        *)

\* WebDAVBackend.Download refuses a file above its own MaxFileSize.
Refuse ==
  /\ pc = "stored"
  /\ size > peerLimit
  /\ pc' = "refused"
  /\ UNCHANGED <<settings, input, source, remaining, content, reader, history>>

\* n frames come in whole and are accepted; then the reading ends with err.
ReadTo(n, err) ==
  /\ pc = "stored"
  /\ size <= peerLimit
  /\ \A i \in 1..n : Accepts(frames[i])
  /\ read' = IF n > read THEN n ELSE read
  /\ decodeErr' = err
  /\ UNCHANGED <<settings, input, source, remaining, content, history>>

ReadAll == ReadTo(Len(frames), tail) /\ pc' = "read"

\* The next frame is above the limit of this side: an error like any other.
ReadForeign ==
  \E i \in 1..Len(frames) :
    /\ ~Accepts(frames[i])
    /\ ReadTo(i - 1, "other")
    /\ pc' = "rejected"

\* The connection breaks (net/http reports an unexpected EOF), is reset, or the
\* storage kept only a part of the file.  A part that ends with a frame, or
\* right behind a length prefix, is a plain EOF.
ReadPart ==
  \E n \in 0..Len(frames), cause \in {"broken", "reset", "truncated"} :
    /\ \E err \in CASE cause = "broken" -> {"unexpected"}
                    [] cause = "reset"  -> {"other"}
                    [] OTHER            -> {"eof", "unexpected"} :
         ReadTo(n, err)
    /\ pc' = cause

Ended == {"read", "rejected", "broken", "reset", "truncated"}

\* errors.Is(decodeErr, io.ErrUnexpectedEOF).
Keeps == decodeErr = "unexpected"

\* The file stays for the next poll; what it brought again is old to the
\* sessions.
Keep ==
  /\ pc \in Ended
  /\ Keeps
  /\ pc' = "stored"
  /\ UNCHANGED <<settings, input, source, remaining, content, reader, history>>

Delete ==
  /\ pc \in Ended
  /\ ~Keeps
  /\ delivered' = delivered \cup {frames[i].envelope : i \in 1..read}
  /\ lost' = lost \cup {[envelope |-> frames[i].envelope, cause |-> pc] :
                          i \in (read + 1)..Len(frames)}
  /\ frames' = <<>>
  /\ size' = 0
  /\ tail' = "eof"
  /\ read' = 0
  /\ decodeErr' = "none"
  /\ pc' = IF remaining = <<>> THEN "idle" ELSE "pack"
  /\ UNCHANGED <<settings, input, source, remaining>>

Next ==
  \/ \E s \in Sessions, n \in Fills : Write(s, n)
  \/ Flush
  \/ \E s \in Sessions : Extract(s)
  \/ Pack
  \/ Encode
  \/ Pad
  \/ Put
  \/ Refuse
  \/ ReadAll
  \/ ReadForeign
  \/ ReadPart
  \/ Keep
  \/ Delete

Spec == Init /\ [][Next]_vars

-----------------------------------------------------------------------------
(* Properties.                                                              *)

Envelopes == [session : Sessions, at : Nat, payload : Nat]

TypeOK ==
  /\ limit \in Limits /\ peerLimit \in Limits
  /\ fills \in 0..MaxFills
  /\ written \in [Sessions -> Nat]
  /\ txBuf \in [Sessions -> Nat]
  /\ fresh \subseteq Sessions /\ todo \subseteq Sessions
  /\ remaining \in Seq(Envelopes)
  /\ frames \in Seq([envelope : Envelopes, plain : Nat])
  /\ size \in Nat
  /\ {tail, decodeErr} \subseteq {"none", "eof", "unexpected", "other"}
  /\ pc \in {"idle", "extract", "pack", "padded", "stored", "dropped", "refused"} \cup Ended
  /\ read \in 0..Len(frames)
  /\ delivered \subseteq Envelopes
  /\ lost \subseteq [envelope : Envelopes, cause : Ended]

\* A peer whose limit is not smaller reads every file this side writes:
\* MarshalBinary and Upload refuse nothing, so nothing that was extracted is
\* dropped, Download does not refuse the file and the decoder no frame of it.
\* The margins that make it so are in four files and rest on one number, whose
\* product with 7 does not fit a 32-bit int.
OwnFilesFit ==
  /\ pc # "dropped"
  /\ limit <= peerLimit => pc \notin {"refused", "rejected"}

\* A file is deleted with envelopes nobody read only if its connection was
\* reset, if the storage cut it, or if the limit of the side that reads is smaller
\* than that of the side that wrote.
LostOnlyByFault ==
  \A l \in lost : l.cause \in {"reset", "truncated"} \/ limit > peerLimit

\* Where the envelopes are that left a session.
Waiting == {remaining[i] : i \in 1..Len(remaining)}
InFile  == {frames[i].envelope : i \in 1..Len(frames)}
Gone    == {l.envelope : l \in lost}
Carried == Waiting \cup InFile \cup delivered \cup Gone

\* No envelope is at two places, or twice at one.
OnePlace ==
  /\ \A i, j \in 1..Len(remaining) : remaining[i] = remaining[j] => i = j
  /\ \A i, j \in 1..Len(frames) : frames[i].envelope = frames[j].envelope => i = j
  /\ Waiting \cap InFile = {}
  /\ (Waiting \cup InFile) \cap (delivered \cup Gone) = {}
  /\ delivered \cap Gone = {}

End(e) == e.at + e.payload

\* The envelopes of a session are a chain from its first byte to the last it
\* sent, and do not overlap.
Chained(s) ==
  LET E == {e \in Carried : e.session = s}
  IN  /\ \A e \in E : /\ End(e) <= Sent(s)
                      /\ e.at = 0 \/ \E d \in E : End(d) = e.at
                      /\ \A d \in E : d # e => End(d) <= e.at \/ End(e) <= d.at
      /\ Sent(s) = 0 \/ \E e \in E : End(e) = Sent(s)

\* flushAll slices remaining[consumed:], truncates the buffer and starts the
\* next file: every byte an application wrote is at one place, in the session,
\* in the flush, in the file or behind it, and lost bytes have a cause.
EveryByteOnce == OnePlace /\ (\A s \in Sessions : Chained(s)) /\ LostOnlyByFault
=============================================================================
