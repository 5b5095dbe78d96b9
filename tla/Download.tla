------------------------------ MODULE Download ------------------------------
(***************************************************************************)
(* The way of a file from the storage to its sessions                      *)
(* (internal/transport/engine.go pollLoop, RemoveSession and gcLoop,       *)
(* internal/transport/pool.go): the poll loop lists the peer's files and   *)
(* submits jobs, a pool of workers downloads a file, hands each envelope to*)
(* its session, which a server creates when it has to, and deletes the     *)
(* file.                                                                   *)
(*                                                                         *)
(* A file holds at most one envelope per session (flushAll extracts one    *)
(* batch per session), so an envelope is a pair of a file and a session.   *)
(* Time is what it does: a file gets older than 5 minutes, an entry of     *)
(* `processed' gets older than 5 minutes, a tombstone older than 30        *)
(* seconds.  A file is older than an entry made for it since it was put:   *)
(* the clocks of storage and poller are taken to agree.  Copies of a file  *)
(* on two backends are one: the listings are merged and Delete goes to all.*)
(* Shutdown is left out.                                                   *)
(***************************************************************************)
EXTENDS Integers, Sequences, FiniteSets

CONSTANTS
  Files,
  Sessions,
  Workers,      \* download workers
  Contents,     \* Contents[f]: the sessions that file f has envelopes for
  Malformed,    \* files that do not decode behind their last envelope
  QueueSize,    \* capacity of the job channel
  Slots,        \* capacity of the semaphore Engine.sem
  MaxSessions,  \* Engine.MaxSessions; 0: no limit
  MaxPuts,      \* bound: MaxPuts[f]: how often the peer stores file f
  MaxLives,     \* bound: MaxLives[s]: how often session s is removed
  IsServer,     \* this side creates sessions (OnNewSession is set)
  SlowJobs,     \* files whose job may wait and run for more than 5 minutes
  Resets        \* files whose connection may break in the middle of the body

None == "none"

ASSUME DownloadAssumption ==
  /\ None \notin Files  \* a file has a name
  /\ Contents \in [Files -> SUBSET Sessions]
  /\ {Malformed, SlowJobs, Resets} \subseteq SUBSET Files
  /\ QueueSize \in Nat \ {0}
  /\ Slots \in Nat \ {0}
  /\ MaxSessions \in Nat
  /\ MaxPuts \in [Files -> Nat]
  /\ MaxLives \in [Sessions -> Nat]
  /\ IsServer \in BOOLEAN

VARIABLES
  puts,        \* puts[f]: how often the peer has stored f
  stored,      \* files in the storage
  old,         \* files with a ModTime more than 5 minutes ago
  listing,     \* files of the current poll pass still to be looked at
  stale,       \* files whose ModTime in the listing is more than 5 minutes ago
  marking,     \* files submitted and not yet entered in `processed'
  processed,   \* processed[f]: no entry, a live one, or one that is live and behind
               \* a later put of f; one past 5 minutes is as good as none
  jobs,        \* the job channel
  wpc,         \* where each worker stands
  file,        \* file[w]: the file it works on
  left,        \* left[w]: envelopes of the file still to be decoded
  session,     \* session[w]: session of the envelope it has decoded
  registered,  \* Engine.sessions
  tombs,       \* Engine.closedSessions
  objects,     \* objects[s]: Session objects made for s so far
  removals,    \* removals[s]: how often s was removed
  handled,     \* history: envelopes handed to a session or dropped on purpose
  reads,       \* reads[f]: how often f was read to its end
  givenUp,     \* history: files deleted by the poll loop, or that a worker gave up
               \* in the middle
  slipped      \* history: files whose entry expired too early (see Expire)

storage == <<puts, stored, old>>
poll    == <<listing, stale, marking>>
worker  == <<wpc, file, left, session>>
engine  == <<registered, tombs, objects, removals>>
history == <<handled, reads, givenUp, slipped>>
vars    == <<storage, poll, processed, jobs, worker, engine, history>>

Init ==
  /\ puts = [f \in Files |-> 0]
  /\ stored = {}
  /\ old = {}
  /\ listing = {}
  /\ stale = {}
  /\ marking = {}
  /\ processed = [f \in Files |-> None]
  /\ jobs = <<>>
  /\ wpc = [w \in Workers |-> "idle"]
  /\ file = [w \in Workers |-> None]
  /\ left = [w \in Workers |-> {}]
  /\ session = [w \in Workers |-> None]
  /\ registered = {}
  /\ tombs = {}
  /\ objects = [s \in Sessions |-> 0]
  /\ removals = [s \in Sessions |-> 0]
  /\ handled = {}
  /\ reads = [f \in Files |-> 0]
  /\ givenUp = {}
  /\ slipped = {}

-----------------------------------------------------------------------------
(* The peer and the clocks.                                                 *)

\* A put of f is carried out.  A retry or the fallback of the peer's upload
\* worker puts the same name again when an answer was lost, also after the file
\* was read and deleted on this side.
Arrive(f) ==
  /\ puts[f] < MaxPuts[f]
  /\ puts' = [puts EXCEPT ![f] = @ + 1]
  /\ stored' = stored \cup {f}
  /\ old' = old \ {f}
  /\ processed' = [processed EXCEPT ![f] = IF @ = "live" THEN "behind" ELSE @]
  /\ UNCHANGED <<poll, jobs, worker, engine, history>>

\* Five minutes since the last put; what the listing says of f ages with it.
Age(f) ==
  /\ f \in stored \ old
  /\ old' = old \cup {f}
  /\ stale' = stale \cup ({f} \cap listing)
  /\ UNCHANGED <<puts, stored, listing, marking, processed, jobs, worker,
                 engine, history>>

InWork(f) == \/ \E i \in 1..Len(jobs) : jobs[i] = f
             \/ \E w \in Workers : file[w] = f

\* A slip: entries are never looked at.
NeverLive(f) == FALSE

Live(f) == processed[f] \in {"live", "behind"}

\* An entry expires; pollLoop tests its age again, so that it makes no difference
\* when gcLoop collects it.  It expires too early when a job for the file is still
\* under way, or when the file was put again since and is not old itself.
Expire(f) ==
  /\ Live(f)
  /\ processed[f] = "behind" \/ f \in old \/ f \notin stored
  /\ f \in SlowJobs \/ ~InWork(f)
  /\ processed' = [processed EXCEPT ![f] = None]
  /\ slipped' = IF InWork(f) \/ f \in stored \ old THEN slipped \cup {f} ELSE slipped
  /\ UNCHANGED <<storage, poll, jobs, worker, engine, handled, reads, givenUp>>

\* gcLoop collects a tombstone, which stands until then.
CollectTomb(s) ==
  /\ s \in tombs
  /\ tombs' = tombs \ {s}
  /\ UNCHANGED <<storage, poll, processed, jobs, worker, registered, objects,
                 removals, history>>

-----------------------------------------------------------------------------
(* pollLoop: one pass over a listing.                                       *)

PassOver == listing = {} /\ marking = {}

\* A client without sessions does not list.
List ==
  /\ PassOver
  /\ IsServer \/ registered # {}
  /\ stored # {}
  /\ listing' = stored
  /\ stale' = stored \cap old
  /\ UNCHANGED <<storage, marking, processed, jobs, worker, engine, history>>

\* The loop goes on to the next file of the listing.
Looked(f) ==
  /\ listing' = listing \ {f}
  /\ stale' = stale \ {f}

Skip(f) ==
  /\ f \in listing /\ marking = {}
  /\ Live(f)
  /\ Looked(f)
  /\ UNCHANGED <<storage, marking, processed, jobs, worker, engine, history>>

\* A file that is stale by the listing is deleted, also when it was put again
\* since; an error is only logged.
Collect(f) ==
  /\ f \in listing /\ marking = {}
  /\ ~Live(f)
  /\ f \in stale
  /\ Looked(f)
  /\ \/ stored' = stored \ {f} /\ givenUp' = givenUp \cup ({f} \cap stored)
     \/ UNCHANGED <<stored, givenUp>>
  /\ UNCHANGED <<puts, old, marking, processed, jobs, worker, engine, handled,
                 reads, slipped>>

\* A slip: the channel has no limit.
AlwaysRoom == TRUE

Room == Len(jobs) < QueueSize

\* Submit does not wait: with a full channel the file is left for a later pass.
Submit(f) ==
  /\ f \in listing /\ marking = {}
  /\ ~Live(f)
  /\ f \notin stale
  /\ Looked(f)
  /\ IF Room
       THEN jobs' = Append(jobs, f) /\ marking' = {f}
       ELSE UNCHANGED <<jobs, marking>>
  /\ UNCHANGED <<storage, processed, worker, engine, history>>

\* The entry is made after the job was submitted.
Mark(f) ==
  /\ f \in marking
  /\ processed' = [processed EXCEPT ![f] = "live"]
  /\ marking' = {}
  /\ UNCHANGED <<puts, stored, old, listing, stale, jobs, worker, engine, history>>

PollStep == List \/ \E f \in Files : Skip(f) \/ Collect(f) \/ Submit(f) \/ Mark(f)

-----------------------------------------------------------------------------
(* processDownload.                                                         *)

Goto(w, label) == wpc' = [wpc EXCEPT ![w] = label]

SlotFree ==
  Cardinality({w \in Workers : wpc[w] \notin {"idle", "get"}}) < Slots

Take(w) ==
  /\ wpc[w] = "idle"
  /\ jobs # <<>>
  /\ jobs' = Tail(jobs)
  /\ file' = [file EXCEPT ![w] = Head(jobs)]
  /\ Goto(w, "get")
  /\ UNCHANGED <<storage, poll, processed, left, session, engine, history>>

\* DownloadByIndex, or the search in all backends after a 429 (which moves the
\* sessions of the file to another backend).  A slot of Engine.sem is held from
\* here to the end.
Get(w) ==
  /\ wpc[w] = "get"
  /\ SlotFree
  /\ file[w] \in stored
  /\ left' = [left EXCEPT ![w] = Contents[file[w]]]
  /\ Goto(w, "decode")
  /\ UNCHANGED <<storage, poll, processed, jobs, file, session, engine, history>>

Return(w) ==
  /\ wpc' = [wpc EXCEPT ![w] = "idle"]
  /\ file' = [file EXCEPT ![w] = None]
  /\ left' = [left EXCEPT ![w] = {}]
  /\ UNCHANGED <<jobs, session, engine, poll>>

\* All attempts failed, or the file is gone: the entry stays.
GetFails(w) ==
  /\ wpc[w] = "get"
  /\ SlotFree
  /\ Return(w)
  /\ UNCHANGED <<storage, processed, history>>

\* The next envelope; one for a session with a tombstone is dropped.
Decode(w, s) ==
  /\ wpc[w] = "decode"
  /\ s \in left[w]
  /\ left' = [left EXCEPT ![w] = @ \ {s}]
  /\ IF s \in tombs
       THEN /\ handled' = handled \cup {<<file[w], s>>}
            /\ UNCHANGED <<wpc, session>>
       ELSE /\ session' = [session EXCEPT ![w] = s]
            /\ Goto(w, "find")
            /\ UNCHANGED handled
  /\ UNCHANGED <<storage, poll, processed, jobs, file, engine, reads, givenUp,
                 slipped>>

\* ProcessRx, or the envelope is dropped.
Handle(w) ==
  /\ handled' = handled \cup {<<file[w], session[w]>>}
  /\ session' = [session EXCEPT ![w] = None]
  /\ Goto(w, "decode")

\* Look up the session under the read lock.
Find(w) ==
  /\ wpc[w] = "find"
  /\ IF session[w] \notin registered /\ IsServer
       THEN Goto(w, "create") /\ UNCHANGED <<handled, session>>
       ELSE Handle(w)
  /\ UNCHANGED <<storage, poll, processed, jobs, file, left, engine, reads,
                 givenUp, slipped>>

\* A slip: the tombstone is not looked at again.
IgnoreTomb(s) == FALSE

Tombstoned(s) == s \in tombs

\* A slip: the limit is tested with >.
LimitOffByOne == MaxSessions > 0 /\ Cardinality(registered) > MaxSessions

LimitReached == MaxSessions > 0 /\ Cardinality(registered) >= MaxSessions

\* A slip: what was found under the read lock is trusted.
CreateUnchecked(w) ==
  /\ wpc[w] = "create"
  /\ registered' = registered \cup {session[w]}
  /\ objects' = [objects EXCEPT ![session[w]] = @ + 1]
  /\ Handle(w)
  /\ UNCHANGED <<storage, poll, processed, jobs, file, left, tombs, removals,
                 reads, givenUp, slipped>>

\* Look again under the write lock, and create the session.
Create(w) ==
  /\ wpc[w] = "create"
  /\ LET s == session[w]
     IN  IF s \notin registered /\ ~Tombstoned(s) /\ ~LimitReached
           THEN /\ registered' = registered \cup {s}
                /\ objects' = [objects EXCEPT ![s] = @ + 1]
           ELSE UNCHANGED <<registered, objects>>
  /\ Handle(w)
  /\ UNCHANGED <<storage, poll, processed, jobs, file, left, tombs, removals,
                 reads, givenUp, slipped>>

\* io.EOF behind the last envelope.
ReadEnd(w) ==
  /\ wpc[w] = "decode"
  /\ left[w] = {}
  /\ file[w] \notin Malformed
  /\ reads' = [reads EXCEPT ![file[w]] = @ + 1]
  /\ Goto(w, "delete")
  /\ UNCHANGED <<storage, poll, processed, jobs, file, left, session, engine,
                 handled, givenUp, slipped>>

\* A slip: a truncated file is deleted like any other.
TruncatedDelete(w) ==
  /\ wpc[w] = "decode"
  /\ Goto(w, "delete")
  /\ UNCHANGED <<storage, poll, processed, jobs, file, left, session, engine,
                 history>>

\* io.ErrUnexpectedEOF: the file is kept and its entry removed.
Truncated(w) ==
  /\ wpc[w] = "decode"
  /\ processed' = [processed EXCEPT ![file[w]] = None]
  /\ Return(w)
  /\ UNCHANGED <<storage, history>>

\* Any other error of the reader: the file is taken for a malformed one.
ReadError(w) ==
  /\ wpc[w] = "decode"
  /\ \/ file[w] \in Resets
     \/ file[w] \in Malformed /\ left[w] = {}
  /\ givenUp' = IF left[w] = {} THEN givenUp ELSE givenUp \cup {file[w]}
  /\ Goto(w, "delete")
  /\ UNCHANGED <<storage, poll, processed, jobs, file, left, session, engine,
                 handled, reads, slipped>>

Delete(w) ==
  /\ wpc[w] = "delete"
  /\ stored' = stored \ {file[w]}
  /\ processed' = [processed EXCEPT ![file[w]] = None]
  /\ Return(w)
  /\ UNCHANGED <<puts, old, history>>

DeleteFails(w) ==
  /\ wpc[w] = "delete"
  /\ Return(w)
  /\ UNCHANGED <<storage, processed, history>>

WorkerStep(w) == \/ Take(w)
                 \/ Get(w)
                 \/ GetFails(w)
                 \/ \E s \in Sessions : Decode(w, s)
                 \/ Find(w)
                 \/ Create(w)
                 \/ ReadEnd(w)
                 \/ Truncated(w)
                 \/ ReadError(w)
                 \/ Delete(w)
                 \/ DeleteFails(w)

-----------------------------------------------------------------------------
\* RemoveSession: the tombstone and the removal are one step for everybody who
\* takes sessionMu.
RemoveSession(s) ==
  /\ s \in registered
  /\ removals[s] < MaxLives[s]
  /\ tombs' = tombs \cup {s}
  /\ registered' = registered \ {s}
  /\ removals' = [removals EXCEPT ![s] = @ + 1]
  /\ UNCHANGED <<storage, poll, processed, jobs, worker, objects, history>>

Next ==
  \/ \E f \in Files : Arrive(f) \/ Age(f) \/ Expire(f)
  \/ PollStep
  \/ \E w \in Workers : WorkerStep(w)
  \/ \E s \in Sessions : RemoveSession(s) \/ CollectTomb(s)

Spec == Init /\ [][Next]_vars

-----------------------------------------------------------------------------
WorkerPCs == {"idle", "get", "decode", "find", "create", "delete"}

TypeOK ==
  /\ puts \in [Files -> Nat]
  /\ {stored, old, listing, stale, marking} \subseteq SUBSET Files
  /\ {givenUp, slipped} \subseteq SUBSET Files
  /\ processed \in [Files -> {None, "live", "behind"}]
  /\ jobs \in Seq(Files) /\ Len(jobs) <= QueueSize
  /\ wpc \in [Workers -> WorkerPCs]
  /\ file \in [Workers -> Files \cup {None}]
  /\ left \in [Workers -> SUBSET Sessions]
  /\ session \in [Workers -> Sessions \cup {None}]
  /\ registered \subseteq Sessions
  /\ tombs \subseteq Sessions
  /\ objects \in [Sessions -> Nat]
  /\ removals \in [Sessions -> Nat]
  /\ handled \subseteq Files \X Sessions
  /\ reads \in [Files -> Nat]

\* A file is in the hands of one worker at most, queued once at most, and not
\* queued while a worker has it, although it is submitted before its entry is
\* made.
Alone(f) ==
  /\ \A v, w \in Workers : file[v] = f /\ file[w] = f => v = w
  /\ \A i, j \in 1..Len(jobs) : jobs[i] = f /\ jobs[j] = f => i = j
  /\ \A w \in Workers, i \in 1..Len(jobs) : file[w] = f => jobs[i] # f

\* However often the listing shows a file, it is processed by one worker at a
\* time and read to its end at most once for each time it was put, also when its
\* delete failed and the entry got old, when it was put again while a worker
\* reads it or after it was deleted, and when the listing is older than that.
\* The exception is a file that was put again and whose entry expired too early:
\* nothing in the code rules this out (README, known divergences).  The session is
\* not harmed by a second reading: SessionRx!AtMostOnce.
ProcessedOnce ==
  \A f \in Files :
    puts[f] <= 1 \/ f \notin slipped => Alone(f) /\ reads[f] <= puts[f]

\* Two workers with the first envelopes of one session make one Session object,
\* and a session is made anew only after it was removed.
OneObjectPerSession ==
  \A s \in Sessions :
    objects[s] = removals[s] + (IF s \in registered THEN 1 ELSE 0)

\* The number of sessions stays within the limit, however many workers create.
SessionsLimited == MaxSessions > 0 => Cardinality(registered) <= MaxSessions

\* A removed session does not come back while its tombstone stands, although
\* workers look at tombstones and sessions at different moments.
NoResurrection ==
  [][\A s \in tombs : s \in tombs' => s \notin registered' \ registered]_vars

\* A worker deletes a file only after every envelope in it was handed over or
\* dropped on purpose, or after an error that it does not take for a truncation.
\* Without this exception it does not hold (README, known divergences).
DeletedAfterReading ==
  \A f \in Files \ (stored \cup givenUp) :
    puts[f] > 0 => {f} \X Contents[f] \subseteq handled
=============================================================================
