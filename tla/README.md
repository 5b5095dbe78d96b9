# flowdav in TLA+

flowdav tunnels TCP connections through files on WebDAV servers. A client takes
connections on a SOCKS5 port and writes what they send as *envelopes* into files;
a server polls for these files, opens the target connections and answers with
files of its own. This directory models the transport that makes an ordered byte
stream out of files that arrive late, twice, in any order or not at all.

Every definition is translated from the Go source (paths below are relative to
the repository). `PROJECT.json` lists the runs, the mutants that show each
property can fail, and the source lines behind every definition.

## Inventory

| Component | State | Operations | Interacts with |
|---|---|---|---|
| Session, receive half (`internal/transport/session.go`) | `rxSeq`, `rxQueue`, `rxQueueBytes`, `rxClosed`, `RxChan`, `rxDone`, `rxSendMu` | `ProcessRx`, `Close`, `closeRx` | called by up to 8 download workers at a time; read by `VirtualConn.Read` or the target writer |
| Session, transmit half (`session.go`) | `txBuf`, `txSeq`, `closed`, `txWait` | `EnqueueTxCtx`, `ExtractTxBatch`, `wakeupTx` | written by the application or the target reader; emptied by `flushAll` |
| Engine, sending (`engine.go`) | `sessions`, `uploadJobs`, `stopCh` | `flushLoop`, `flushAll`, `uploadWorker`, `Drain`, `Stop` | storage backends, sessions, the main goroutine |
| Engine, receiving (`engine.go`, `pool.go`) | `processed`, `closedSessions`, `sessions`, job channel, `sem` | `pollLoop`, `processDownload`, `RemoveSession`, `gcLoop` | storage backends, sessions |
| MultiBackend (`internal/storage/multi.go`) | `failures`, `lastFail`, `rateLimitedUntil`, `rrCounter` | `UploadByIndex`, `UploadAny`, `DownloadByIndex`, `Download`, `ListQuery`, `Delete` | shared by all workers and the poll loop |
| VirtualConn, SOCKS5 dial (`conn.go`, `socks5.go`) | `connLimit`, `readWake`, deadlines, `readBuf` | `Read`, `Write`, `Close`, dial | go-socks5, one session each |
| Server handler (`cmd/flowdav/main.go`) | two goroutines per session, `done`, `errCh`, `serverWg` | `handleServerConn`, `runServer` | a session and a target connection |
| Envelope codec, crypto (`envelope.go`, `crypto.go`) | `MaxMessageSize`, a global | encode, decode | `flushAll`, `processDownload` |
| Android bridge (`cmd/android/bridge.go`) | globals under `mu`: `eng`, `socksLnr`, `cancel`, `lastCfg`, `socksErrCh`, pending credentials | `SetSocks5Auth`, `startProxy`, `StopProxy`, `StopAndError`, the Serve goroutine | engine, Kotlin service |
| Kotlin app (`android/app`) | start and stop requests, watchdog | `ProxyManager`, `ProxyService` | bridge |
| Config, logger, CLI, health endpoint | read once, or counters | load, validate, serve | - |

What is hard, by component (the complete list, with lines, is under `hazards` in
`PROJECT.json`):

* *Receive half.* Envelopes of one session are in the hands of several workers;
  payloads are sent after the mutex is released; the channel is closed by
  whoever meets a Close, while others may be sending. Correct means: each
  payload once, none skipped, bounded queue, no send on a closed channel, and an
  end of stream on every way to close.
* *Transmit half.* Writers block when the buffer is full, a flush wakes them
  through a channel that is swapped; Close must be the last thing sent and must
  be sent. Correct means: the buffer is bounded, no wakeup is lost, sequence
  numbers have no gaps, nobody is left behind when the session leaves the engine.
* *Sending engine.* Bytes move from buffer to flusher to queue to worker to
  storage without a lock that covers two of these, and shutdown cuts in between.
  Correct means: nothing disappears while the program runs, and shutdown ends.
* *Receiving engine.* Listings are stale, a job is submitted before it is
  marked, files are deleted after they were read, sessions are created by
  several workers and removed by others. Correct means: one worker per file, one
  object per session, no deletion before reading, no return of removed sessions.
* *MultiBackend.* Health is looked at and changed under a lock, the request in
  between runs without it. Correct means: failures are bounded, a good backend is
  never shut out, a bad one gets another chance, every call ends.
* *A connection, end to end.* Two sessions, three goroutines per side, TCP
  half-closes that the protocol cannot express, resets, idle timeouts and a
  server that shuts down with handlers still running. Correct means: an end of
  stream comes behind all the data, nothing is added to a buffer that nobody
  flushes any more, and connections, handlers and limits are given back.
* *Codec, crypto, padding.* One number limits a frame, a file and the packing;
  each side has its own, and its arithmetic may overflow. Correct means: a peer
  with the same number reads every file, and packing loses no byte.
* *Android bridge.* Starts of several callers, each of several calls, stops and
  late errors interleave on globals. Correct means: one engine at most, whole,
  with its own limits, and credentials that serve one start.

## Modules

| Module | Models | Runs |
|---|---|---|
| `SessionRx` | receive half | `rx_session`, `rx_order`, `rx_total` |
| `Stream` | what one direction promises its reader; implemented by `SessionRx` | `rx_session` |
| `SessionTx` | transmit half, with writers, flushers and closers | `tx_session` |
| `Upload` | sending engine and shutdown | `upload`, `upload_loss` |
| `Download` | receiving engine | `download` |
| `MultiBackend` | backend health under the retry loops | `multi_backend` |
| `Tunnel` | a connection from user to target and back: VirtualConn, both sessions, handler, server shutdown | `tunnel`, `tunnel_idle` |
| `Pipe` | what a connection promises in one direction; implemented by `Tunnel`, twice | `tunnel` |
| `Wire` | sizes: chunks, envelopes, frames, files, padding, and how reading ends | `wire` |
| `Bridge` | the Android bridge's globals under concurrent starts and stops | `bridge` |
| `SessionRxProofs`, `SessionTxProofs`, `UploadProofs`, `DownloadProofs`, `MultiBackendProofs`, `TunnelProofs`, `WireProofs`, `BridgeProofs` | theorems about the module of that name | - |
| `MCSessionRx`, `MCDownload`, `MCMultiBackend`, `MCWire` | instances for TLC: constants that are functions, symmetry | |

The modules look at the same code at different grains. `SessionRx` and
`SessionTx` have the locks and channels of one session; `Upload` and `Download`
the pipelines between sessions and storage; `Tunnel` takes sessions as these
four show them - in order, once, with wakeups - and composes two of them with
what is at their ends. What one module assumes of another is said in its head.

The unit of atomicity is a critical section, a channel operation or a storage
request. A definition whose comment begins with "A slip" is not part of the
model: it is the changed form of the definition after it that a mutant uses.

### SessionRx

An envelope is its sequence number; the constants `Size`, `Closing` and `Home`
say what it carries, so a copy of an envelope is the same envelope again. Lengths
matter in one place: the queue's byte limit is tested before a payload is added,
and `rxQueueBytes` is kept as the code keeps it, apart from what the queue holds
(`ByteCount`). Each
branch of `ProcessRx` under `s.mu` is an action (`RxIgnored`, `RxNext`,
`RxQueued`, `RxDropped`); the drain loop is the predicate `DrainsTo`. The send
loop is `BeginSend` (read lock and look at `rxDone`), `SendPayload`,
`AbandonSend`, `StallDrop` (the 30 second timer) and `EndSend`. `RxChan` is the
immutable history `log` with a read position. `Stream` knows payloads by their
numbers: the reader gets the least it does not have yet, until a disturbance. There
are two: `raced`, a worker that takes envelopes while another has not sent all of
its own, and the stall timer. After one `Stream` promises neither order nor
completeness, but still that nothing comes twice or behind the end. Go's `RWMutex`
prefers a waiting writer: `BeginSend` is held back while a process is in `drain`.

### SessionTx

Appends and extractions happen at the two ends of one buffer under `s.mu`, so
the buffer is a length. A channel is a generation number, and `fired` holds the
closed ones. `wakeupTx` is two steps (swap under the lock, close after it), a
blocked write three (`Block`, `Woken`, `Retry`). The idle timeout of
`ExtractTxBatch` is a nondeterministic choice. `flushAll` may run on two
goroutines at a time (`flushLoop` and `Drain`).

### Upload

`flushAll(f)` for `f` in `{"loop", "drain"}` is `Snapshot`, `Extract` per
session, `Encode`, `HandOver` per file, `RemoveEnded`, with `HoldAbort` and
`FlushAbort` as its early returns. A file is any non-empty subset of the
extracted envelopes. The main goroutine is `Signal` (cancel), `DrainLook`,
`DrainFlush`, `Stop`, `Stopped`. A worker's request is *doomed* when it was
started with a cancelled context. `PutFails` may have stored the file all the
same (a lost answer). `FallbackFails` drops the payload whenever the one call of
`UploadAny` fails, also with a live context: the backend it draws may be the failing
one, or the only one. `lost` records each envelope that is given up with the cause:
`"storage"` (refused twice while the context lived), `"context"` (the worker's
context was dead), `"loop"` and `"drain"` (what a flusher held when it returned
early). `Stopped` waits for the flush loop and the upload workers; `pollLoop`,
`gcLoop` and the download pool, for which `Stop` waits too, touch none of this.

### Download

The poll loop is `List`, then for each file `Skip`, `Collect` (the 5 minute GC)
or `Submit` followed by `Mark`. A worker goes through `Take`, `Get`, then per
envelope `Decode` (tombstone), `Find` (read lock) and `Create` (write lock), and
ends with `ReadEnd` and `Delete`, `Truncated`, `ReadError` or `GetFails`. The
clocks are sets: old files, files that are old by the listing (`stale`), collected
tombstones; `Expire` makes an entry count for nothing, and what gcLoop does to it
later changes nothing. `SlowJobs` lets an entry expire while its job is
queued or running. `Arrive` puts a file up to `MaxPuts` times: the peer's retry or
fallback stores the same name again when an answer was lost, before or after the
first copy was read and deleted. An entry is `"behind"` when the file was put again
after it was made; such an entry may expire before the file is old, and `slipped`
records that.

### MultiBackend

Time is what it does: a failure is recent or not, a rate limit holds or not.
Uploaders and downloaders go through `retryStorage` (`Request`, `Unavailable`,
`Succeed`, `Fail`, `Throttle`), uploaders then through `UploadAny`
(`ChooseAny`, `ChooseNone`), downloaders and pollers visit all backends.

### Tunnel

Per side and connection there is a session (registered, closed, bytes buffered,
bytes received, end received) and the envelopes on their way. The client is
go-socks5's two copies over `VirtualConn` (`Write`, `Return`, `ReturnEnd`,
`Close`; `RelayOver` is when go-socks5 gives up), the server `handleServerConn`
(`DialTarget`, `DialFails`, `HandlerWakes`, and the deferred `CloseSession` and
`HandlerDone`) with its reader (`Read`, `Enqueue`, `ReadEnd`, `StopReader`) and
writer (`Deliver`, `DeliverEnd`, `StopWriter`), and `runServer` (`Signal`,
`Wait`, `Stop`). `Flush(x, Q)` is a pass of `flushAll` in which the sessions of
`Q` turn out idle. `cut` records why a connection ended early. Properties name
the causes that excuse them; a half-close of the user is none.

`go-socks5`, the user and the target are external: the two copies and the rule
that an error of one ends both are taken from how `socks5.go` uses the library.

### Wire

Nothing but lengths: an envelope is its session, its length and the position of
its first byte in what the session wrote (`at`, a history that no guard looks at).
`Extract`, `Encode` (or its early return), `Consumed` and
`Pad` are one flush; `Put` and `Refuse` the size checks of the WebDAV client;
`ReadAll`, `ReadForeign` and `ReadPart` the ways `processDownload`'s loop ends,
`Keep` and `Delete` what it makes of them. `TailErrors` says how the random bytes
of padding end the decoding: their first four are taken for a length. `Wrapped`
is int arithmetic; the run uses 21-bit ints, so that a limit of 385,308 overflows as
400 MB does on a 32-bit phone.

### Bridge

Everything under `mu` is one step; an engine is named by the start that made
it. A start is `SetSocks5Auth`, `ReadConfig` and then one of `AlreadyRunning`,
`NoBackend`, `ListenFails`, `Succeeds`. `StopLocked` is called by `StopProxy`,
`StopAndError` and `Report`, the goroutine of a server that died. Callers of one
start and others are not ordered, as in the app.

## What the runs check

| Run | Instance | Shows |
|---|---|---|
| `rx_session` | 2 workers, 1 closer, envelopes 0..3 (0 empty, 2 of two bytes, 3 closes), each delivered up to twice, queue of 2 items and 2 bytes, channel of 1, the reader may stall | `NoSendOnClosedChannel`, `AtMostOnce`, `NothingSkipped`, `QueueSound` (bounded, and never waiting for something it holds), `OnlyRacesReorder`; `SessionRx` implements `Stream`; `CloseReturns` and `ClosedEndsStream` under fairness. 205,178 states |
| `tx_session` | 2 writers, 2 flushers, 1 closer, limit 2, chunk 1, cancellation | `BufferBounded`, `LeavesCleanly` (Close is last, the session is removed only after it, and no writer is left behind), `NoGapInSequence`, `NoLostWakeup`; `WritesReturn`, `CloseAnnounced`. 219,041 states |
| `upload` | 2 sessions, 1 worker, queue of 1, failing puts | `NothingLostRunning` (but what the storage refused twice), `WorkersOutliveDrain`, `ShutdownFlushes` (Drain leaves no tail, Stop no job, every envelope is accounted for); `StopReturns`, `ReachesStorage`. 291,009 states |
| `download` | 2 files, of which one is malformed, has slow jobs and connections that break and the other may be put twice, 2 sessions, 2 workers, session limit 1, queue of 1 | `ProcessedOnce` (one worker per file, read to its end once per put), `OneObjectPerSession`, `SessionsLimited`, `DeletedAfterReading`, `NoResurrection`. 1,900,836 states up to the symmetry of the workers |
| `multi_backend` | 2 backends, of which one may fail, the other answer 429, or both, or none; 1 uploader, 1 downloader, 1 poller; threshold 2, attempts 2 | `BreakerSound` (failures are bounded, a good backend is never shut out); `BackendReturns`, `CallsEnd`. 82,260 states |
| `tunnel` | 1 connection, 1 byte up, 2 down, chunk 1, an idle timeout or a signal to the server | `ImplementsPipes`, `BuffersStillAfterWait`; `ConnsEnd` under fairness. 303,856 states |
| `wire` | 2 sessions, limits 65,536, 80,000 and 385,308 on either side, ints of 21 bits, padding of 4096, writes of 300 and 70,000 bytes, gzip to 200 or 60,000 | `OwnFilesFit`; `EveryByteOnce` (an envelope is at one place, those of a session are a chain without gap or overlap, lost ones have a cause). 1,590,192 states up to the symmetry of the sessions |
| `bridge` | 3 starts, 2 stops | `OneEngine`, `CredentialsSpent`. 902,455 states |

Four runs expect a violation; each states what a comment or a document of the
repository says and shows a behaviour of the code that contradicts it. The
quotations are under `findings`.

| Run | Violated | What happens |
|---|---|---|
| `rx_order` | `InOrder` | two workers take envelopes in order and send them out of order |
| `rx_total` | `TotalIsExact` | a copy of an envelope that is queued replaces it and is counted again: `rxQueueBytes` stays above what the queue holds |
| `upload_loss` | `JobsSurviveCancel` | a job taken between the cancellation and `Stop` is uploaded with a dead context and dropped |
| `tunnel_idle` | `IdleEndsConnection` | the idle timeout closes the session and leaves its reader waiting: the connection and its place in `connLimit` stay |

### Known divergences without a run

The models also show the following; the instance says how to see it.

* *A stream may end early* (`session.go:315-344`). "Close is only set on the final
  chunk so the receiver does not tear down the session while payload chunks are
  still pending" (`session.go:212-214`), but the worker that meets the Close closes
  `rxDone` while another still holds earlier payloads, which abandons them: the
  reader sees the end without them. `SessionRx` with the constants of `rx_order.cfg`
  and `Closers = {}`: `eof => Seqs \ Empty \subseteq Sent` fails. It takes two
  workers that overlap: `ReceiverImplementsStream` excludes it until they do.
* *The queue of early envelopes may pass its byte limit* (`session.go:292`). The test
  is `rxQueueBytes >= MaxRxQueueBytes` before the payload is added, so "256MB per
  session" (`session.go:34`) and the same line of `protocol.md` (330) are exceeded by
  up to one payload. `QueueSound` states the bound that holds; with
  `rxQueueBytes <= MaxRxQueueBytes` in its place `rx_session` fails.
* *What flushLoop holds at the signal is lost* (`engine.go:451`, `480-491`). Its select
  may draw the cancelled context, or `stopCh`, instead of the queue; the
  envelopes in its hands have left their buffers, and `Drain` looks only at buffers
  and the queue. `EnvelopesAccountedFor`, a part of `ShutdownFlushes`, names this loss
  (`"loop"`), and fails without it.
* *A payload is dropped while the context lives* (`engine.go:812-826`). One call of
  `UploadAny` is the last resort; it draws one backend, perhaps the failing one.
  `NothingLostRunning` and `ReachesStorage` except this loss (`"storage"`), and fail
  without it. The session on the other side waits for the gap until it is idle.
* *A file is read once per put, not once per name* (`engine.go:789-812`). A retry
  after a lost answer stores the file again; when the first copy was read and
  deleted, the second is read like a new file. Sequence numbers make this
  harmless: `AtMostOnce` of `SessionRx`. Worse is a file put again whose entry is
  older than the new copy: the entry expires first, and a second worker may read the
  file while the first still does, or once more after its delete failed.
  `ProcessedOnce` excepts these files (`slipped`) if they were put more than once;
  without the exception the second happens in `download` and the first with
  `SlowJobs = {f2}`.
* *A reset loses a file* (`pool.go:275`). Only `io.ErrUnexpectedEOF` keeps a file
  for a retry; after another error it is deleted with the envelopes that were not
  decoded. `DeletedAfterReading` makes an exception of these files (`givenUp`) and
  fails without it; `Wire` has the event as the cause `"reset"`.
* *A file is collected unread* (`engine.go:589`). After a failed download its
  processed entry hides the file until both are 5 minutes old, and the poll loop
  deletes it. It also deletes by the age in its listing, so a copy that was put since
  is deleted with the old one (`stale` in `Download`). These files are in `givenUp` too.
* *The fallback drops a payload while another backend works* (`multi.go:97`).
  `MCMultiBackend` with `N = 2`, `Uploaders = {u1, u2}`, no downloaders and
  pollers, `Failing = {0}`, `Throttled = {}`, `TimePasses = FALSE`,
  `cbThreshold = 3`, `retryAttempts = 3`, `SPECIFICATION Spec`, `SYMMETRY
  CallerSymmetry`: `PayloadKept` fails.
* *A stop hits the wrong engine* (`bridge.go:445-453`). In `Bridge`, `Report(s)`
  stops the engine of a later start, and so may a stop that was meant for an
  earlier one; it also takes the credentials set for a start between its calls.
  A start that fails before `startProxy` leaves its credentials to the next one,
  against "stale credentials must not leak into unrelated starts"
  (`bridge_test.go:173-174`). `OneEngine` and `CredentialsSpent` are what holds.
* *In the Android app*, by reading: a start in flight while the service stops
  brings the engine up again after `stopProxy` (`ProxyService.kt:83-85`, `137`);
  the watchdog's branch for deterministic failures (`ProxyService.kt:124-128`)
  is never taken, because `startProxy`'s failures do not set `lastErrCode`; and
  `bridge.go:394-397` sets `OnSessionEnd` after `engine.Start`, which is a data
  race with `RemoveSession`.
* *Comments that are not exact.* Files are padded to a bucket plus a random byte,
  not to a multiple of the bucket (`config.go:167-170`; `Wire!PadLen`). The cap
  of 1 GB does not prevent the overflow of `MaxMessageSize * 7` on 32-bit
  platforms (`config.go:178-181`); `OwnFilesFit` shows that it does no harm.

### Bounds and why they are enough

* Two workers are the least that race; a third takes no step that one of the two
  cannot take. `Copies = 2` gives every envelope one duplicate. Four envelopes
  hold an opening ping, a gap, a queued run and a Close; limits of 2 let the
  queue be full, in items or bytes, with one of them missing, and a payload of 2
  bytes behind one of 1 passes the byte limit by one.
* A buffer of twice the chunk makes a write need two extractions and lets a
  second writer block. Two flushers are `flushLoop` and `Drain`, the only
  callers of `flushAll`.
* `Upload` needs two sessions, so that one may be removed while the other has
  data; a queue of one, so that flushers block; one worker, so that jobs stay
  queued. `MaxSeq` bounds how often a closed session that is still registered
  repeats its bare Close.
* `Download` needs a file with one session and one with two, a limit the two
  sessions exceed, one removal of the session that both do not share (`MaxLives`),
  and a file put twice (`MaxPuts`): the second put may find the first copy listed,
  queued, being read, read or deleted. The other file, put once, has the slow jobs
  and the resets.
* `MultiBackend` runs with threshold 2 instead of 3.
* `Tunnel` has one connection: connections share the storage, whose interleaving
  is in `Upload` and `Download`, and `connLimit`, where a refused dial ends at
  once and touches nothing else. Two bytes of which an envelope takes one make a
  closed session send data before its Close. `MaxTroubles` is one idle timeout or
  one signal: the causes that excuse a pipe.
* `Wire`'s limits are the least, one at which 7/8 of it is above the least, and
  one that overflows to a small number; a write fits one envelope or needs two
  chunks at the least limit; two writes fill one file, or two.
* `Bridge`: one start runs, one is between its calls, and one comes later.

### Fairness and why the code justifies it

Weak fairness of goroutines that can run; nobody has to write, close, read or
send the signal. `SessionRx` asks nothing of the stall timer or the reader.
`SessionTx` asks that flushes go on, which `flushLoop`'s timer does, and nothing of
the context. `Upload` asks for Drain's timeout (30 seconds) and for strong
fairness of two choices in a `select`: Go draws among ready cases at random, so
a timer that is armed again cannot win against `stopCh` or `ctx.Done` for ever.
`MultiBackend` asks that requests are answered (the HTTP client has a timeout)
and that time passes. `Tunnel` asks it of goroutines, the flush timer and the
arrival of files, and nothing of the user, the target, idle timeouts or the
signal. `Download`, `Wire` and `Bridge` state no liveness.

Deadlock is not checked: every one of these systems may stop, at shutdown or when
the bounded environment has nothing left to send.

## What is proved

Checked by TLAPS for every value of the constants that satisfies the named
assumptions of the module (`RxAssumption` with `SizeAssumption` and
`NothingBehindClose`, `TxAssumption`, `UploadAssumption`,
`DownloadAssumption`, `MultiAssumption`, `TunnelAssumption`, `WireAssumption`,
`BridgeAssumption`). They ask for types and for what the code fixes: there is an
upload worker (`engine.go` starts 8), a limit is a number, a queue has room for a
job, a file has a name. One theorem, `ShutdownLeavesNothing`, assumes more; it stands
in its statement.

| Theorem | Property | Argument |
|---|---|---|
| `TypeCorrect` | `TypeOK` | inductive as it stands |
| `NoPanic` | `NoSendOnClosedChannel` | once `RxChan` is closed `rxDone` is closed too, so a worker that takes the read lock afterwards leaves at its first look at `rxDone`; and the channel is closed only while no sender holds the lock. The invariant adds that a process in `lock` or `drain`, and a closed channel, imply `rxDone` |
| `SomebodyCloses` | the safety half of `ClosedEndsStream` | the duty to close is handed on (`HandInv`): who stops the session holds its Close in the send loop or is in `closeRx`; a worker leaves the loop without it only when `rxDone` is closed, and who closed that is on its way to the lock |
| `DeliveredOnce` | `AtMostOnce` | everything sent or in a worker's hands is below `rxSeq`, everything newly taken is at or above it; so payloads taken in one step are new |
| `NoneSkipped` | `NothingSkipped` | `rxSeq` passes a number only in `RxNext`, which takes every payload of the run that it passes; hands are emptied into `log`, by the stall timer, or after `rxDone`. Rests on `DInv` of `DeliveredOnce` |
| `QueueStaysSound` | `QueueSound` | `rxQueueBytes` is never below the bytes the queue really holds, also when a copy replaces a payload and when the drain loop subtracts a run, so its test bounds the queue, up to the payload that passes the test last; the drain loop stops only at a number that is not queued |
| `OnlyOverlapReorders` | `OnlyRacesReorder` | until two workers overlap one of them at most holds payloads, and these lie above everything in `log` (`OInv`); what is taken next lies above both |
| `ReceiverImplementsStream` | `ImplementsStream` | until two workers overlap or the timer drops a payload nothing is left out (`NoneSkipped`) and the order is kept, so the next payload read is the least the reader does not have; the end is read behind a closed `RxChan`, which without a local `Close` is closed by a worker that passed the Close and emptied its hands (`RInv`). Afterwards `AtMostOnce` gives what `Stream` still asks |
| `TxTypeCorrect` | `TypeOK` | the assumption bounds write sizes by `Limit` |
| `WithinLimit` | `BufferBounded` | an append happens in the critical section of its test |
| `WakeupNotLost` | `NoLostWakeup` | a channel that is no longer current is closed or will be by the process that swapped it; a batch leaves the buffer only in a step that puts its flusher before the swap |
| `SequenceHasNoGap` | `NoGapInSequence` | a number is drawn into a flusher's hands and leaves them only for the queue, except on the early return that a cancelled context allows |
| `SessionLeavesCleanly` | `LeavesCleanly` | on a closed session only an extraction touches the buffer (`OnlyExtractSends`), so behind the first Close there are only bare ones; `LInv` adds that batches are numbered by position, that a flusher that is about to remove has handed its Close over, and that once a Close was extracted every waiting writer has a waker |
| `UploadTypeCorrect` | `TypeOK` | writes come from a budget (`Budget`), which bounds sequence numbers |
| `WorkersStay` | `WorkersOutliveDrain` | `WInv`: workers leave by way of `draining`, which needs `stopCh`; that is closed by `Stop`, after `Drain` |
| `NothingIsLost` | `NothingLostRunning` | every step that takes an envelope from one place puts it into the next; only `FlushAbort` and `FallbackFails` drop it, and record it with the cause: all but `"storage"` come after the cancellation. Idle workers hold nothing (`IdleHands`) |
| `ShutdownLeavesNothing` | `ShutdownFlushes`, if nobody writes after the signal (`Quiet`) | what `Drain` saw empty stays empty (`DrainFound`); an envelope is in one place at a time (`OnePlace`), so nothing that was queued at `Stop` is queued again, and a worker exits only when it finds the queue empty (`AtStopTaken`); with the invariant of `NothingIsLost` every envelope is alive or in `lost`, and once `Stop` returned only the queue and the storage are left to be alive in |
| `DownloadTypeCorrect` | `TypeOK` | a worker has a file unless it is idle (`WithFile`) |
| `FilesProcessedOnce` | `ProcessedOnce` | a file that is queued or in a worker's hands is barred from being submitted again, by its entry, because the poll loop is between `Submit` and `Mark`, or because it is old or gone (`Guarded`); so it is with one worker or queued once (`Single`), unless the bar fell too early; readings are counted against puts (`Counted`): a file that was read as often as it was put is gone or still barred; files that never arrived are nowhere (`Known`) |
| `NoUnreadDeletes` | `DeletedAfterReading` | the envelopes a worker has decoded, all but the one in its hands, were handled (`Covered`), and it comes to `delete` with none left or by the error that `givenUp` records |
| `OneSessionMade` | `OneObjectPerSession` | only `Create` and `RemoveSession` touch the table (`TableSteps`); `Create` adds a session that is not in it, because the look and the addition are one critical section |
| `LimitKept` | `SessionsLimited` | the same cases; the size of a finite table grows by one only below the limit, so the invariant adds that the table is finite |
| `RemovedStaysAway` | `NoResurrection` | `Create` tests the tombstone again in the critical section that adds the session |
| `MultiTypeCorrect` | `TypeOK` | an attempt is left for whoever tries, and only uploaders come to the fallback (`Roles`) |
| `BreakerWorks` | `BreakerSound` | a request enters only below the threshold, and a failure turns one request under way into one count (`Bounded`), so the sum stays below the threshold plus the callers; a backend that answers has no failure on record (`Spotless`) |
| `TunnelTypeCorrect` | `TypeOK` | with the types of the endpoints and where the goroutines of a connection can be (`EndpointsOK`, `IInv`) |
| `ConnectionsArePipes` | `ImplementsPipes` | see below |
| `BuffersStillHold` | `BuffersStillAfterWait` | a reader whose handler has passed `session.Close` has a closed session (`Outlives`), so once all handlers are done every reader has (`Quiet`), and a closed session takes no byte. A session that arrives after `Wait` brings a handler that fails to dial, because the context is cancelled; `Known` says that no handler starts twice |
| `FilesFit` | `OwnFilesFit` | every case of the overflow leaves `safeUploadSize` at most `limit` (`SafeBounds`); a chunk leaves a margin above what header, nonce, tag and HMAC add, so the first frame of a file fits by itself and the others because they are tested; padding stops at the upload size. The invariant `Sized` bounds `remaining`, each frame and `size` by these |
| `LossHasCause` | `LostOnlyByFault`, a part of `EveryByteOnce` | a broken connection looks like a truncation and keeps the file, a reading without an error came to the last frame, and a frame is refused only by a smaller limit (`Stopped`, and `Sized` for the last) |
| `BytesAccounted` | `EveryByteOnce` | in place of a sum over sequences, each envelope has its position, and a chain of positions is a fact about a set (`Ledger`). `Extract` adds an envelope that begins where the last one ended, and what was in the chain lies below it; `Encode` and `Delete` move envelopes between places that are disjoint before and after; the other steps touch none. `Unsent`, that a session has no envelope before its first, keeps the empty one of a client from coming twice |
| `EachByteInOneEnvelope` | the same of every byte | `Covered`, with the chain: two envelopes with a byte in common overlap |
| `WireTypeCorrect` | `TypeOK` | from `Sized`, `Stopped` and `Ledger`; `Rest` has the variables that these do not need |
| `BridgeTypeCorrect` | `TypeOK` | a part of the invariant below |
| `OneEngineHolds` | `OneEngine` | the globals that name an engine are set together, in `Succeeds`, and cleared together, in `StopLocked`; `Released` of the one engine they name leaves it stopped. The invariant adds that globals without an engine are empty and that unmade engines do not run |
| `CredentialsSpentHold` | `CredentialsSpent` | `pending` belongs to a start that was asked since the last stop and that no SOCKS5 server uses; every stop and every start clears it |

`ConnectionsArePipes` is the refinement of `Pipe` by `Tunnel`, in both directions
and for any number of connections and bytes. Its invariant has two halves.
`FlowsOK` says where the bytes are: what the reader got, what its session holds,
what the envelopes on their way carry and what the sender still buffers add up to
what was written, or to less once a close has dropped some. A sum over a sequence
would be recursive, so `Between` asks for the existence of a function of partial
sums, which each flush extends and each arrival shortens. `EndsOK` says who closes
first: a session that has sent its Close sends nothing more (`Last`), the end is
received only behind a Close (`RxEnds`), a copy that failed, or a user who left before
his connection was closed, stands in `cut` (`Excused`), and an end that the reader sees has either such a cause
or all the bytes behind it (`DownEnds`, `UpEnds`).

What the added assumptions are worth. `Quiet` of `Upload` is what
`BuffersStillHold` proves of the server: the handlers are gone when `Drain` looks.
`NothingBehindClose` of `SessionRx`, that the peer sends no payload behind a Close, is
`CloseIsFinal` of `SessionTx`, a part of `SessionLeavesCleanly`. How many workers serve
a session and whether its reader stalls is not assumed: what these take from the
reader is in the statements (`raced`, `stalled`). A stalled reader loses the payload
after 30 seconds by design.

Only model-checked: the liveness properties (`CloseReturns`, `ClosedEndsStream`,
`WritesReturn`, `CloseAnnounced`, `StopReturns`, `ReachesStorage`, `BackendReturns`,
`CallsEnd`, `ConnsEnd`), because fairness and ENABLED are out of the prover's reach. Every
invariant and action property of the passing runs has its theorem.

## What is not modelled

The contents of envelopes, cryptographic strength and gzip itself; HTTP, TLS
fingerprints, path and URL checks of the WebDAV client (pure I/O); parsing and
encryption of configurations, logging, statistics and the CLI's flags. The pace
of polling is abstracted: `Download` polls whenever it likes, so nothing is said
of the backoff or of a sender that keeps resetting the poll timer. The order of
the envelopes inside a file is left open in `Download`. Sequence numbers are
unbounded (`uint64` in the code). Deadlines of `VirtualConn` are left out:
go-socks5 sets none. In `Tunnel` the client is not stopped and a session that comes
back under a collected tombstone is left out. Of the Android app there is only the
order in which its parts call the bridge, which is any order; its user
interface, preferences and reconciliation are not modelled.

## Plan

Done: every module of the table above and the proofs listed. Left:

1. The poll timer with explicit ticks: starvation, backoff, burst.
2. The composition of `Download`'s stale submits with `MultiBackend`'s counting.
