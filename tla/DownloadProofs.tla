---------------------------- MODULE DownloadProofs ----------------------------
(***************************************************************************)
(* Proofs about Download, for any number of files, sessions and workers    *)
(* and any limits: sessions are made once, within the limit, and not while *)
(* their tombstone stands; a file is processed once for each time it was   *)
(* put, and none is deleted unread.                                        *)
(***************************************************************************)
EXTENDS Download, FiniteSetTheorems, SequenceTheorems, TLAPS

\* A worker that looks a session up, or is about to create it, has one.
AtWork ==
  /\ wpc \in [Workers -> WorkerPCs]
  /\ session \in [Workers -> Sessions \cup {None}]
  /\ \A w \in Workers : wpc[w] \in {"find", "create"} => session[w] \in Sessions

\* The session table.
TableOK ==
  /\ registered \subseteq Sessions
  /\ IsFiniteSet(registered)
  /\ objects \in [Sessions -> Nat]
  /\ removals \in [Sessions -> Nat]

SessionInv == AtWork /\ TableOK /\ OneObjectPerSession /\ SessionsLimited

\* The steps that leave the session table alone.
Untouched == UNCHANGED <<registered, objects, removals>>

\* How the table, the tombstones and a worker's session can change in a step.
LEMMA TableSteps ==
  ASSUME [Next]_vars
  PROVE  \/ Untouched
         \/ \E w \in Workers : Create(w)
         \/ \E s \in Sessions : RemoveSession(s)
<1> USE DEF Untouched, engine
<1>1. ASSUME NEW f \in Files, Arrive(f) \/ Age(f) \/ Expire(f)
      PROVE Untouched
  BY <1>1 DEF Arrive, Age, Expire
<1>2. CASE PollStep
  BY <1>2 DEF PollStep, List, Skip, Collect, Submit, Mark
<1>3. ASSUME NEW w \in Workers, WorkerStep(w), ~Create(w)
      PROVE Untouched
  BY <1>3 DEF WorkerStep, Take, Get, GetFails, Decode, Find, ReadEnd, Truncated,
              ReadError, Delete, DeleteFails, Return
<1>4. ASSUME NEW s \in Sessions, CollectTomb(s)
      PROVE Untouched
  BY <1>4 DEF CollectTomb
<1>5. CASE UNCHANGED vars
  BY <1>5 DEF vars
<1>6. QED
  BY <1>1, <1>2, <1>3, <1>4, <1>5 DEF Next

LEMMA AtWorkInit == Init => AtWork
BY DEF Init, AtWork, WorkerPCs

\* A worker's steps keep its session in step with its place.
LEMMA AtWorkStep ==
  ASSUME AtWork, [Next]_vars
  PROVE  AtWork'
<1> USE DEF worker
<1>1. ASSUME UNCHANGED <<wpc, session>>
      PROVE AtWork'
  BY <1>1 DEF AtWork
<1>2. ASSUME NEW f \in Files, Arrive(f) \/ Age(f) \/ Expire(f)
      PROVE UNCHANGED <<wpc, session>>
  BY <1>2 DEF Arrive, Age, Expire
<1>3. CASE PollStep
  <2>1. UNCHANGED <<wpc, session>>
    BY <1>3 DEF PollStep, List, Skip, Collect, Submit, Mark
  <2>2. QED BY <2>1, <1>1
<1>4. ASSUME NEW s \in Sessions, RemoveSession(s) \/ CollectTomb(s)
      PROVE UNCHANGED <<wpc, session>>
  BY <1>4 DEF RemoveSession, CollectTomb
<1>5. ASSUME NEW w \in Workers, WorkerStep(w)
      PROVE AtWork'
  <2> USE DEF AtWork, WorkerPCs, Goto
  <2>1. CASE Take(w)
    BY <2>1 DEF Take
  <2>2. CASE Get(w)
    BY <2>2 DEF Get
  <2>3. CASE GetFails(w) \/ Truncated(w) \/ Delete(w) \/ DeleteFails(w)
    BY <2>3 DEF GetFails, Truncated, Delete, DeleteFails, Return
  <2>4. ASSUME NEW s \in Sessions, Decode(w, s)
        PROVE AtWork'
    <3>1. CASE s \in tombs
      BY <2>4, <3>1 DEF Decode
    <3>2. CASE s \notin tombs
      BY <2>4, <3>2 DEF Decode
    <3>3. QED BY <3>1, <3>2
  <2>5. CASE Find(w)
    <3>1. CASE session[w] \notin registered /\ IsServer
      BY <2>5, <3>1 DEF Find
    <3>2. CASE ~(session[w] \notin registered /\ IsServer)
      BY <2>5, <3>2 DEF Find, Handle
    <3>3. QED BY <3>1, <3>2
  <2>6. CASE Create(w)
    BY <2>6 DEF Create, Handle
  <2>7. CASE ReadEnd(w) \/ ReadError(w)
    BY <2>7 DEF ReadEnd, ReadError
  <2>8. QED BY <1>5, <2>1, <2>2, <2>3, <2>4, <2>5, <2>6, <2>7 DEF WorkerStep
<1>6. CASE UNCHANGED vars
  BY <1>6, <1>1 DEF vars
<1>7. QED
  BY <1>1, <1>2, <1>3, <1>4, <1>5, <1>6 DEF Next

\* A worker that creates a session adds one that was not there, has no
\* tombstone, and found room for it; or it leaves the table alone.
LEMMA CreateCases ==
  ASSUME NEW w \in Workers, Create(w)
  PROVE  \/ Untouched
         \/ /\ session[w] \notin registered \cup tombs
            /\ ~LimitReached
            /\ registered' = registered \cup {session[w]}
            /\ objects' = [objects EXCEPT ![session[w]] = @ + 1]
            /\ UNCHANGED removals
BY DEF Create, Untouched, Tombstoned

LEMMA SessionInvInit == Init => SessionInv
<1> SUFFICES ASSUME Init PROVE SessionInv
  OBVIOUS
<1>1. registered = {} /\ IsFiniteSet(registered) /\ Cardinality(registered) = 0
  BY FS_EmptySet DEF Init
<1>2. TableOK /\ OneObjectPerSession
  BY <1>1 DEF Init, TableOK, OneObjectPerSession
<1>3. SessionsLimited
  BY <1>1, DownloadAssumption DEF SessionsLimited, DownloadAssumption
<1>4. QED
  BY <1>2, <1>3, AtWorkInit DEF SessionInv

\* Every step keeps the invariant: only Create and RemoveSession touch the table.
LEMMA SessionInvStep ==
  ASSUME SessionInv, [Next]_vars
  PROVE  SessionInv'
<1> USE DEF SessionInv
<1>1. AtWork'
  BY AtWorkStep
<1>2. CASE Untouched
  BY <1>1, <1>2 DEF Untouched, TableOK, OneObjectPerSession, SessionsLimited
<1>3. ASSUME NEW w \in Workers, Create(w), ~Untouched
      PROVE  SessionInv'
  <2> DEFINE s == session[w]
  <2>1. /\ s \notin registered
        /\ ~LimitReached
        /\ registered' = registered \cup {s}
        /\ objects' = [objects EXCEPT ![s] = @ + 1]
        /\ removals' = removals
    BY <1>3, CreateCases
  <2>2. s \in Sessions
    BY <1>3 DEF Create, AtWork
  <2>3. /\ IsFiniteSet(registered')
        /\ Cardinality(registered') = Cardinality(registered) + 1
    BY <2>1, FS_AddElement DEF TableOK
  <2>4. TableOK'
    BY <2>1, <2>2, <2>3 DEF TableOK
  <2>5. OneObjectPerSession'
    BY <2>1, <2>2 DEF OneObjectPerSession, TableOK
  <2>6. Cardinality(registered) \in Nat
    BY FS_CardinalityType DEF TableOK
  <2>7. SessionsLimited'
    BY <2>1, <2>3, <2>6, DownloadAssumption
       DEF SessionsLimited, LimitReached, DownloadAssumption
  <2>8. QED
    BY <1>1, <2>4, <2>5, <2>7
<1>4. ASSUME NEW s \in Sessions, RemoveSession(s)
      PROVE  SessionInv'
  <2>1. /\ s \in registered
        /\ registered' = registered \ {s}
        /\ removals' = [removals EXCEPT ![s] = @ + 1]
        /\ objects' = objects
    BY <1>4 DEF RemoveSession
  <2>2. /\ IsFiniteSet(registered')
        /\ Cardinality(registered') = Cardinality(registered) - 1
    BY <2>1, FS_RemoveElement DEF TableOK
  <2>3. TableOK'
    BY <2>1, <2>2 DEF TableOK
  <2>4. OneObjectPerSession'
    BY <2>1 DEF OneObjectPerSession, TableOK
  <2>5. Cardinality(registered) \in Nat
    BY FS_CardinalityType DEF TableOK
  <2>6. SessionsLimited'
    BY <2>2, <2>5, DownloadAssumption DEF SessionsLimited, DownloadAssumption
  <2>7. QED
    BY <1>1, <2>3, <2>4, <2>6
<1>5. QED
  BY <1>2, <1>3, <1>4, TableSteps

LEMMA SessionInvAlways == Spec => []SessionInv
<1>1. SessionInv /\ [Next]_vars => SessionInv'
  BY SessionInvStep
<1>2. QED
  BY <1>1, SessionInvInit, PTL DEF Spec

-----------------------------------------------------------------------------
\* However many workers decode the first envelopes of a session at the same
\* time, one of them makes its Session object: the second look at the map in
\* processDownload, under the write lock, is enough.
THEOREM OneSessionMade == Spec => []OneObjectPerSession
<1>1. SessionInv => OneObjectPerSession
  BY DEF SessionInv
<1>2. QED
  BY <1>1, SessionInvAlways, PTL

\* The sessions of Engine.sessions never exceed MaxSessions: the limit is tested
\* in the critical section that adds the session.
THEOREM LimitKept == Spec => []SessionsLimited
<1>1. SessionInv => SessionsLimited
  BY DEF SessionInv
<1>2. QED
  BY <1>1, SessionInvAlways, PTL

\* A session whose tombstone stands is not made again, also by a worker that
\* looked at the tombstones before it was removed.
THEOREM RemovedStaysAway == Spec => NoResurrection
<1>1. ASSUME [Next]_vars
      PROVE  [\A s \in tombs : s \in tombs' => s \notin registered' \ registered]_vars
  <2>1. CASE Untouched
    BY <2>1 DEF Untouched
  <2>2. ASSUME NEW w \in Workers, Create(w)
        PROVE  \A s \in tombs : s \notin registered' \ registered
    BY <2>2, CreateCases DEF Untouched
  <2>3. ASSUME NEW s \in Sessions, RemoveSession(s)
        PROVE  registered' \ registered = {}
    BY <2>3 DEF RemoveSession
  <2>4. QED
    BY <1>1, <2>1, <2>2, <2>3, TableSteps
<1>2. QED
  BY <1>1, PTL DEF Spec, NoResurrection

-----------------------------------------------------------------------------
(* The job channel.                                                         *)

JobFiles == {jobs[i] : i \in 1..Len(jobs)}

JobsOnce(f) == \A i, j \in 1..Len(jobs) : jobs[i] = f /\ jobs[j] = f => i = j

LEMMA JobAppended ==
  ASSUME jobs \in Seq(Files), NEW f \in Files, jobs' = Append(jobs, f)
  PROVE  /\ jobs' \in Seq(Files)
         /\ Len(jobs') = Len(jobs) + 1
         /\ JobFiles' = JobFiles \cup {f}
         /\ \A g \in Files : JobsOnce(g) /\ (g = f => f \notin JobFiles) => JobsOnce(g)'
<1>1. /\ jobs' \in Seq(Files)
      /\ Len(jobs') = Len(jobs) + 1
      /\ \A i \in 1..Len(jobs) : jobs'[i] = jobs[i]
      /\ jobs'[Len(jobs) + 1] = f
  BY AppendProperties
<1>2. Len(jobs) \in Nat
  OBVIOUS
<1>3. \A i : i \in 1..Len(jobs') <=> i \in 1..Len(jobs) \/ i = Len(jobs) + 1
  BY <1>1, <1>2
<1>4. JobFiles' = JobFiles \cup {f}
  BY <1>1, <1>3 DEF JobFiles
<1>5. ASSUME NEW g \in Files, JobsOnce(g), g = f => f \notin JobFiles PROVE JobsOnce(g)'
  <2>1. g = f => \A i \in 1..Len(jobs) : jobs[i] # f
    BY <1>5 DEF JobFiles
  <2>2. QED
    BY <1>1, <1>3, <1>5, <2>1 DEF JobsOnce
<1>6. QED
  BY <1>1, <1>4, <1>5

LEMMA JobTaken ==
  ASSUME jobs \in Seq(Files), jobs # <<>>, jobs' = Tail(jobs)
  PROVE  /\ jobs' \in Seq(Files)
         /\ Len(jobs') = Len(jobs) - 1
         /\ Head(jobs) \in Files \cap JobFiles
         /\ JobFiles' \subseteq JobFiles
         /\ JobFiles \subseteq JobFiles' \cup {Head(jobs)}
         /\ \A g \in Files : JobsOnce(g) => JobsOnce(g)'
         /\ JobsOnce(Head(jobs)) => Head(jobs) \notin JobFiles'
<1>1. /\ Head(jobs) \in Files
      /\ jobs' \in Seq(Files)
      /\ Len(jobs') = Len(jobs) - 1
      /\ \A i \in 1..Len(jobs') : jobs'[i] = jobs[i + 1]
  BY HeadTailProperties
<1>2. Len(jobs) \in Nat /\ Len(jobs) >= 1 /\ Head(jobs) = jobs[1]
  OBVIOUS
<1>3. \A i \in 1..Len(jobs') : i + 1 \in 1..Len(jobs) /\ i + 1 # 1
  BY <1>1, <1>2
<1>4. 1 \in 1..Len(jobs)
  BY <1>2
<1>5. Head(jobs) \in JobFiles
  BY <1>2, <1>4 DEF JobFiles
<1>6. JobFiles' \subseteq JobFiles
  BY <1>1, <1>3 DEF JobFiles
<1>7. JobFiles \subseteq JobFiles' \cup {Head(jobs)}
  <2>1. ASSUME NEW i \in 1..Len(jobs), i # 1 PROVE jobs[i] \in JobFiles'
    <3>1. i - 1 \in 1..Len(jobs') /\ jobs'[i - 1] = jobs[i]
      BY <1>1, <1>2, <2>1
    <3>2. QED
      BY <3>1 DEF JobFiles
  <2>2. QED
    BY <1>2, <2>1 DEF JobFiles
<1>8. ASSUME NEW g \in Files, JobsOnce(g) PROVE JobsOnce(g)'
  <2>1. ASSUME NEW i \in 1..Len(jobs'), NEW j \in 1..Len(jobs'),
               jobs'[i] = g, jobs'[j] = g
        PROVE  i = j
    <3>1. i + 1 = j + 1
      BY <1>1, <1>3, <1>8, <2>1 DEF JobsOnce
    <3>2. QED
      BY <3>1
  <2>2. QED
    BY <2>1 DEF JobsOnce
<1>9. ASSUME JobsOnce(Head(jobs)) PROVE Head(jobs) \notin JobFiles'
  <2>1. \A i \in 1..Len(jobs') : jobs'[i] # Head(jobs)
    BY <1>1, <1>2, <1>3, <1>4, <1>9 DEF JobsOnce
  <2>2. QED
    BY <2>1 DEF JobFiles
<1>10. QED
  BY <1>1, <1>5, <1>6, <1>7, <1>8, <1>9

\* Only Submit puts a file into the channel, only Take takes one out.
LEMMA JobSteps ==
  ASSUME [Next]_vars
  PROVE  \/ UNCHANGED jobs
         \/ \E f \in Files : Submit(f)
         \/ \E w \in Workers : Take(w)
<1>1. ASSUME NEW f \in Files,
             Arrive(f) \/ Age(f) \/ Expire(f) \/ Skip(f)
               \/ Collect(f) \/ Mark(f)
      PROVE UNCHANGED jobs
  BY <1>1 DEF Arrive, Age, Expire, Skip, Collect, Mark
<1>2. ASSUME NEW w \in Workers, WorkerStep(w), ~Take(w)
      PROVE UNCHANGED jobs
  BY <1>2 DEF WorkerStep, Get, GetFails, Decode, Find, Create, ReadEnd, Truncated,
              ReadError, Delete, DeleteFails, Return
<1>3. ASSUME NEW s \in Sessions, RemoveSession(s) \/ CollectTomb(s)
      PROVE UNCHANGED jobs
  BY <1>3 DEF RemoveSession, CollectTomb
<1>4. CASE List \/ UNCHANGED vars
  BY <1>4 DEF List, vars
<1>5. QED
  BY <1>1, <1>2, <1>3, <1>4 DEF Next, PollStep

-----------------------------------------------------------------------------
\* A worker that is not idle has a file.
WithFile == \A w \in Workers : wpc[w] = "idle" <=> file[w] = None

LEMMA TypeInit == Init => TypeOK /\ WithFile
BY DownloadAssumption DEF Init, TypeOK, WithFile, WorkerPCs, DownloadAssumption

LEMMA WorkerTyped ==
  ASSUME TypeOK, WithFile, AtWork, NEW w \in Workers, WorkerStep(w)
  PROVE  /\ file' \in [Workers -> Files \cup {None}]
         /\ left' \in [Workers -> SUBSET Sessions]
         /\ WithFile'
         /\ givenUp' \in SUBSET Files
         /\ reads' \in [Files -> Nat]
         /\ handled' \subseteq Files \X Sessions
         /\ registered' \subseteq Sessions
         /\ objects' \in [Sessions -> Nat]
<1>0. /\ wpc \in [Workers -> WorkerPCs]
      /\ file \in [Workers -> Files \cup {None}]
      /\ left \in [Workers -> SUBSET Sessions]
      /\ givenUp \in SUBSET Files
      /\ reads \in [Files -> Nat]
      /\ handled \subseteq Files \X Sessions
      /\ registered \subseteq Sessions
      /\ objects \in [Sessions -> Nat]
      /\ None \notin Files
      /\ Contents \in [Files -> SUBSET Sessions]
  BY DownloadAssumption DEF TypeOK, DownloadAssumption
<1>1. CASE Take(w)
  <2>1. Head(jobs) \in Files
    BY <1>1, JobTaken DEF Take, TypeOK
  <2>2. QED
    BY <1>0, <1>1, <2>1 DEF Take, Goto, engine, history, WithFile
<1>2. CASE ~Take(w) /\ wpc[w] # "idle"
  <2>1. file[w] \in Files
    BY <1>0, <1>2 DEF WithFile
  <2>2. CASE Get(w)
    BY <1>0, <2>1, <2>2 DEF Get, Goto, engine, history, WithFile
  <2>3. CASE GetFails(w) \/ Truncated(w) \/ Delete(w) \/ DeleteFails(w)
    BY <1>0, <2>3 DEF GetFails, Truncated, Delete, DeleteFails, Return, engine,
                      history, WithFile
  <2>4. ASSUME NEW s \in Sessions, Decode(w, s)
        PROVE  /\ UNCHANGED <<file, registered, objects, reads, givenUp>>
               /\ left' = [left EXCEPT ![w] = @ \ {s}]
               /\ handled' \subseteq handled \cup {<<file[w], s>>}
               /\ UNCHANGED wpc \/ wpc' = [wpc EXCEPT ![w] = "find"]
    BY <2>4 DEF Decode, Goto, engine
  <2>5. CASE Find(w)
    <3>1. session[w] \in Sessions
      BY <2>5 DEF Find, AtWork
    <3>2. /\ UNCHANGED <<file, left, registered, objects, reads, givenUp>>
          /\ handled' \subseteq handled \cup {<<file[w], session[w]>>}
          /\ wpc' = [wpc EXCEPT ![w] = "create"] \/ wpc' = [wpc EXCEPT ![w] = "decode"]
      BY <2>5 DEF Find, Handle, Goto, engine
    <3>3. QED
      BY <1>0, <1>2, <2>1, <3>1, <3>2 DEF WithFile
  <2>6. CASE Create(w)
    <3>1. session[w] \in Sessions
      BY <2>6 DEF Create, AtWork
    <3>2. /\ UNCHANGED <<file, left, reads, givenUp>>
          /\ handled' = handled \cup {<<file[w], session[w]>>}
          /\ wpc' = [wpc EXCEPT ![w] = "decode"]
          /\ registered' \subseteq registered \cup {session[w]}
          /\ objects' = objects \/ objects' = [objects EXCEPT ![session[w]] = @ + 1]
      BY <2>6 DEF Create, Handle, Goto
    <3>3. QED
      BY <1>0, <1>2, <2>1, <3>1, <3>2 DEF WithFile
  <2>7. CASE ReadEnd(w)
    BY <1>0, <1>2, <2>1, <2>7 DEF ReadEnd, Goto, engine, WithFile
  <2>8. CASE ReadError(w)
    BY <1>0, <1>2, <2>1, <2>8 DEF ReadError, Goto, engine, WithFile
  <2>9. ASSUME NEW s \in Sessions, Decode(w, s)
        PROVE  /\ file' \in [Workers -> Files \cup {None}]
               /\ left' \in [Workers -> SUBSET Sessions]
               /\ WithFile'
               /\ handled' \subseteq Files \X Sessions
    <3>1. /\ UNCHANGED file
          /\ left' = [left EXCEPT ![w] = @ \ {s}]
          /\ handled' \subseteq handled \cup {<<file[w], s>>}
          /\ UNCHANGED wpc \/ wpc' = [wpc EXCEPT ![w] = "find"]
      BY <2>4, <2>9
    <3>2. QED
      BY <1>0, <1>2, <2>1, <3>1 DEF WithFile
  <2>10. QED
    BY <1>0, <1>2, <2>2, <2>3, <2>4, <2>5, <2>6, <2>7, <2>8, <2>9 DEF WorkerStep
<1>3. CASE wpc[w] = "idle"
  BY <1>1, <1>3 DEF WorkerStep, Get, GetFails, Decode, Find, Create, ReadEnd, Truncated,
              ReadError, Delete, DeleteFails
<1>4. QED
  BY <1>1, <1>2, <1>3

LEMMA TypeStep ==
  ASSUME TypeOK, WithFile, AtWork, AtWork', [Next]_vars
  PROVE  TypeOK' /\ WithFile'
<1>0. /\ {stored, old, listing, stale, marking, givenUp, slipped} \subseteq SUBSET Files
      /\ puts \in [Files -> Nat]
      /\ processed \in [Files -> {None, "live", "behind"}]
  BY DEF TypeOK
<1>1. /\ wpc' \in [Workers -> WorkerPCs]
      /\ session' \in [Workers -> Sessions \cup {None}]
  BY DEF AtWork
<1>2. jobs' \in Seq(Files) /\ Len(jobs') <= QueueSize
  <2>0. jobs \in Seq(Files) /\ Len(jobs) \in Nat /\ Len(jobs) <= QueueSize
    BY DEF TypeOK
  <2>1. QueueSize \in Nat
    BY DownloadAssumption DEF DownloadAssumption
  <2>2. ASSUME NEW f \in Files, Submit(f)
        PROVE  UNCHANGED jobs \/ (Len(jobs) < QueueSize /\ jobs' = Append(jobs, f))
    BY <2>2 DEF Submit, Room
  <2>3. ASSUME NEW w \in Workers, Take(w)
        PROVE  jobs # <<>> /\ jobs' = Tail(jobs)
    BY <2>3 DEF Take
  <2>4. ASSUME NEW f \in Files, Len(jobs) < QueueSize, jobs' = Append(jobs, f)
        PROVE  jobs' \in Seq(Files) /\ Len(jobs') <= QueueSize
    <3>1. jobs' \in Seq(Files) /\ Len(jobs') = Len(jobs) + 1
      BY <2>0, <2>4, JobAppended
    <3>2. QED
      BY <2>0, <2>1, <2>4, <3>1
  <2>5. ASSUME jobs # <<>>, jobs' = Tail(jobs)
        PROVE  jobs' \in Seq(Files) /\ Len(jobs') <= QueueSize
    <3>1. jobs' \in Seq(Files) /\ Len(jobs') = Len(jobs) - 1
      BY <2>0, <2>5, JobTaken
    <3>2. QED
      BY <2>0, <2>1, <3>1
  <2>6. QED
    BY <2>0, <2>2, <2>3, <2>4, <2>5, JobSteps
<1>3. ASSUME NEW f \in Files, Arrive(f) \/ Age(f) \/ Expire(f)
      PROVE  TypeOK' /\ WithFile'
  <2>1. UNCHANGED <<listing, marking, wpc, file, left, session, registered, tombs,
                    objects, removals, handled, reads, givenUp>>
    BY <1>3 DEF Arrive, Age, Expire, poll, worker, engine, history
  <2>2. {stored', old', stale', slipped'} \subseteq SUBSET Files
    BY <1>0, <1>3 DEF Arrive, Age, Expire, storage, poll, history
  <2>3. puts' \in [Files -> Nat]
    BY <1>0, <1>3 DEF Arrive, Age, Expire, storage
  <2>4. processed' \in [Files -> {None, "live", "behind"}]
    BY <1>0, <1>3 DEF Arrive, Age, Expire
  <2>5. QED
    BY <1>2, <2>1, <2>2, <2>3, <2>4 DEF TypeOK, WithFile
<1>4. CASE PollStep
  <2>1. UNCHANGED <<puts, old, wpc, file, left, session, registered, tombs, objects,
                    removals, handled, reads, slipped>>
    BY <1>4 DEF PollStep, List, Skip, Collect, Submit, Mark, storage, worker, engine,
                history
  <2>2. {stored', listing', stale', marking', givenUp'} \subseteq SUBSET Files
    BY <1>0, <1>4 DEF PollStep, List, Skip, Collect, Submit, Mark, Looked, storage,
                      history
  <2>3. processed' \in [Files -> {None, "live", "behind"}]
    BY <1>0, <1>4 DEF PollStep, List, Skip, Collect, Submit, Mark
  <2>4. QED
    BY <1>2, <2>1, <2>2, <2>3 DEF TypeOK, WithFile
<1>5. ASSUME NEW w \in Workers, WorkerStep(w)
      PROVE  TypeOK' /\ WithFile'
  <2>1. UNCHANGED <<puts, old, listing, stale, marking, tombs, removals, slipped>>
    BY <1>5 DEF WorkerStep, Take, Get, GetFails, Decode, Find, Create, ReadEnd,
                Truncated, ReadError, Delete, DeleteFails, Return, storage, poll,
                engine, history
  <2>2. stored' \in SUBSET Files
    BY <1>0, <1>5 DEF WorkerStep, Take, Get, GetFails, Decode, Find, Create, ReadEnd,
                Truncated, ReadError, Delete, DeleteFails, storage
  <2>3. processed' = processed \/ processed' = [processed EXCEPT ![file[w]] = None]
    BY <1>5 DEF WorkerStep, Take, Get, GetFails, Decode, Find, Create, ReadEnd,
                Truncated, ReadError, Delete, DeleteFails
  <2>4. processed' \in [Files -> {None, "live", "behind"}]
    BY <1>0, <2>3
  <2>5. QED
    BY <1>1, <1>2, <1>5, <2>1, <2>2, <2>4, WorkerTyped DEF TypeOK
<1>6. ASSUME NEW s \in Sessions, RemoveSession(s) \/ CollectTomb(s)
      PROVE  TypeOK' /\ WithFile'
  <2>1. UNCHANGED <<storage, poll, processed, worker, objects, history>>
    BY <1>6 DEF RemoveSession, CollectTomb
  <2>2. removals' \in [Sessions -> Nat]
    <3>1. removals \in [Sessions -> Nat] /\ removals[s] + 1 \in Nat
      BY DEF TypeOK
    <3>2. QED
      BY <1>6, <3>1 DEF RemoveSession, CollectTomb
  <2>3. registered' \subseteq Sessions /\ tombs' \subseteq Sessions
    BY <1>6 DEF RemoveSession, CollectTomb, TypeOK
  <2>4. QED
    BY <1>2, <2>1, <2>2, <2>3 DEF TypeOK, WithFile, storage, poll, worker, history
<1>7. CASE UNCHANGED vars
  BY <1>7 DEF vars, storage, poll, worker, engine, history, TypeOK, WithFile
<1>8. QED
  BY <1>3, <1>4, <1>5, <1>6, <1>7 DEF Next

LEMMA TypeAlways == Spec => [](TypeOK /\ WithFile)
<1>1. TypeOK /\ WithFile /\ SessionInv /\ SessionInv' /\ [Next]_vars
        => (TypeOK /\ WithFile)'
  BY TypeStep DEF SessionInv
<1>2. QED
  BY <1>1, TypeInit, SessionInvAlways, PTL DEF Spec

\* Every variable of the way down keeps its type; in particular the job channel
\* never holds more than its capacity.
THEOREM DownloadTypeCorrect == Spec => []TypeOK
BY TypeAlways, PTL

-----------------------------------------------------------------------------
(* What a worker has read when it deletes a file.                           *)

\* The envelopes of its file that a worker has decoded, all but the one in its
\* hands, are handled; a file about to be deleted is, unless it was given up.
CoveredBy(w) ==
  /\ wpc[w] = "decode" =>
       \A s \in Contents[file[w]] \ left[w] : <<file[w], s>> \in handled
  /\ wpc[w] \in {"find", "create"} =>
       \A s \in Contents[file[w]] \ (left[w] \cup {session[w]}) :
         <<file[w], s>> \in handled
  /\ wpc[w] = "delete" =>
       file[w] \in givenUp \/ \A s \in Contents[file[w]] : <<file[w], s>> \in handled

Covered == \A w \in Workers : CoveredBy(w)

\* Files that only a worker can have deleted.
Gone == {f \in Files \ (stored \cup givenUp) : puts[f] > 0}

LEMMA GoneSteps ==
  ASSUME TypeOK, [Next]_vars
  PROVE  \/ Gone' \subseteq Gone
         \/ \E w \in Workers : Delete(w) /\ Gone' \subseteq Gone \cup {file[w]}
<1> USE DEF Gone
<1>0. ASSUME NEW f \in Files, Arrive(f)
      PROVE  Gone' \subseteq Gone
  <2>1. /\ f \in stored' /\ UNCHANGED givenUp /\ stored \subseteq stored'
        /\ \A g \in Files \ {f} : puts'[g] = puts[g]
    BY <1>0 DEF Arrive, history, TypeOK
  <2>2. QED
    BY <2>1
<1>1. ASSUME NEW f \in Files,
             Age(f) \/ Expire(f) \/ Skip(f) \/ Collect(f)
               \/ Submit(f) \/ Mark(f)
      PROVE  Gone' \subseteq Gone
  BY <1>1 DEF Age, Expire, Skip, Collect, Submit, Mark, storage, history
<1>2. ASSUME NEW w \in Workers, WorkerStep(w), ~Delete(w)
      PROVE  Gone' \subseteq Gone
  BY <1>2 DEF WorkerStep, Take, Get, GetFails, Decode, Find, Create, ReadEnd,
              Truncated, ReadError, DeleteFails, storage, history
<1>3. ASSUME NEW w \in Workers, Delete(w)
      PROVE  Gone' \subseteq Gone \cup {file[w]}
  BY <1>3 DEF Delete, history
<1>4. ASSUME NEW s \in Sessions, RemoveSession(s) \/ CollectTomb(s)
      PROVE  Gone' \subseteq Gone
  BY <1>4 DEF RemoveSession, CollectTomb, storage, history
<1>5. CASE List \/ UNCHANGED vars
  BY <1>5 DEF List, vars, storage, history
<1>6. QED
  BY <1>0, <1>1, <1>2, <1>3, <1>4, <1>5 DEF Next, PollStep

LEMMA WorkerSteps ==
  ASSUME [Next]_vars
  PROVE  \/ UNCHANGED <<worker, handled>> /\ givenUp \subseteq givenUp'
         \/ \E w \in Workers : WorkerStep(w)
<1>1. ASSUME NEW f \in Files,
             Arrive(f) \/ Age(f) \/ Expire(f) \/ Skip(f)
               \/ Collect(f) \/ Submit(f) \/ Mark(f)
      PROVE  UNCHANGED <<worker, handled>> /\ givenUp \subseteq givenUp'
  BY <1>1 DEF Arrive, Age, Expire, Skip, Collect, Submit, Mark, history
<1>2. ASSUME NEW s \in Sessions, RemoveSession(s) \/ CollectTomb(s)
      PROVE  UNCHANGED <<worker, handled>> /\ givenUp \subseteq givenUp'
  BY <1>2 DEF RemoveSession, CollectTomb, history
<1>3. CASE List \/ UNCHANGED vars
  BY <1>3 DEF List, vars, history
<1>4. QED
  BY <1>1, <1>2, <1>3 DEF Next, PollStep

LEMMA CoveredStep ==
  ASSUME TypeOK, WithFile, Covered, NEW w \in Workers, WorkerStep(w)
  PROVE  Covered'
<1>0. /\ wpc \in [Workers -> WorkerPCs]
      /\ file \in [Workers -> Files \cup {None}]
      /\ left \in [Workers -> SUBSET Sessions]
      /\ session \in [Workers -> Sessions \cup {None}]
  BY DEF TypeOK
<1>1. handled \subseteq handled' /\ givenUp \subseteq givenUp'
  BY DEF WorkerStep, Take, Get, GetFails, Decode, Find, Create, Handle, ReadEnd,
         Truncated, ReadError, Delete, DeleteFails, history
<1>2. \A x \in Workers \ {w} : /\ wpc'[x] = wpc[x] /\ file'[x] = file[x]
                             /\ left'[x] = left[x] /\ session'[x] = session[x]
  BY <1>0 DEF WorkerStep, Take, Get, GetFails, Decode, Find, Create, Handle, ReadEnd,
         Truncated, ReadError, Delete, DeleteFails, Return, Goto
<1>3. \A x \in Workers \ {w} : CoveredBy(x)'
  BY <1>1, <1>2 DEF Covered, CoveredBy
<1>4. CoveredBy(w)'
  <2>1. CASE Take(w)
    BY <1>0, <2>1 DEF Take, Goto, CoveredBy
  <2>2. CASE Get(w)
    BY <1>0, <2>2 DEF Get, Goto, CoveredBy
  <2>3. CASE GetFails(w) \/ Truncated(w) \/ Delete(w) \/ DeleteFails(w)
    BY <1>0, <2>3 DEF GetFails, Truncated, Delete, DeleteFails, Return, CoveredBy
  <2>4. ASSUME NEW s \in Sessions, Decode(w, s)
        PROVE  CoveredBy(w)'
    <3>1. /\ wpc[w] = "decode" /\ UNCHANGED <<file, givenUp>>
          /\ left'[w] = left[w] \ {s}
      BY <1>0, <2>4 DEF Decode
    <3>2. \A t \in Contents[file[w]] \ left[w] : <<file[w], t>> \in handled
      BY <3>1 DEF Covered, CoveredBy
    <3>3. CASE s \in tombs
      <4>1. handled' = handled \cup {<<file[w], s>>} /\ UNCHANGED wpc
        BY <2>4, <3>3 DEF Decode
      <4>2. QED
        BY <3>1, <3>2, <4>1 DEF CoveredBy
    <3>4. CASE s \notin tombs
      <4>1. /\ UNCHANGED handled /\ session'[w] = s /\ wpc'[w] = "find"
        BY <1>0, <2>4, <3>4 DEF Decode, Goto
      <4>2. QED
        BY <3>1, <3>2, <4>1 DEF CoveredBy
    <3>5. QED
      BY <3>3, <3>4
  <2>5. CASE Find(w) \/ Create(w)
    <3>1. /\ wpc[w] \in {"find", "create"} /\ UNCHANGED <<file, left, givenUp>>
          /\ \/ wpc' = [wpc EXCEPT ![w] = "create"] /\ UNCHANGED <<handled, session>>
             \/ /\ handled' = handled \cup {<<file[w], session[w]>>}
                /\ wpc' = [wpc EXCEPT ![w] = "decode"]
      BY <2>5 DEF Find, Create, Handle, Goto
    <3>2. \A t \in Contents[file[w]] \ (left[w] \cup {session[w]}) :
            <<file[w], t>> \in handled
      BY <3>1 DEF Covered, CoveredBy
    <3>3. CASE wpc' = [wpc EXCEPT ![w] = "create"] /\ UNCHANGED <<handled, session>>
      BY <1>0, <3>1, <3>2, <3>3 DEF CoveredBy
    <3>4. CASE /\ handled' = handled \cup {<<file[w], session[w]>>}
               /\ wpc' = [wpc EXCEPT ![w] = "decode"]
      BY <1>0, <3>1, <3>2, <3>4 DEF CoveredBy
    <3>5. QED
      BY <3>1, <3>3, <3>4
  <2>6. CASE ReadEnd(w) \/ ReadError(w)
    <3>1. /\ wpc[w] = "decode" /\ wpc'[w] = "delete" /\ UNCHANGED <<file, handled>>
          /\ left[w] = {} \/ file[w] \in givenUp'
      BY <1>0, <2>6 DEF ReadEnd, ReadError, Goto
    <3>2. QED
      BY <3>1 DEF Covered, CoveredBy
  <2>7. QED
    BY <2>1, <2>2, <2>3, <2>4, <2>5, <2>6 DEF WorkerStep
<1>5. QED
  BY <1>3, <1>4 DEF Covered

\* A worker deletes a file only when each of its envelopes was given to a session
\* or dropped on purpose, or after an error that is not taken for a truncation:
\* what the storage forgets was read.
THEOREM NoUnreadDeletes == Spec => []DeletedAfterReading
<1> DEFINE Read == \A f \in Gone : \A s \in Contents[f] : <<f, s>> \in handled
<1>1. Init => Covered /\ Read
  BY DEF Init, Covered, CoveredBy, Gone
<1>2. TypeOK /\ WithFile /\ Covered /\ Read /\ [Next]_vars => Covered' /\ Read'
  <2> SUFFICES ASSUME TypeOK, WithFile, Covered, Read, [Next]_vars
               PROVE  Covered' /\ Read'
    OBVIOUS
  <2>1. Covered'
    <3>1. CASE UNCHANGED <<worker, handled>> /\ givenUp \subseteq givenUp'
      BY <3>1 DEF worker, Covered, CoveredBy
    <3>2. QED
      BY <3>1, WorkerSteps, CoveredStep
  <2>2. handled \subseteq handled'
    <3>1. ASSUME NEW w \in Workers, WorkerStep(w) PROVE handled \subseteq handled'
      BY <3>1 DEF WorkerStep, Take, Get, GetFails, Decode, Find, Create, Handle,
                  ReadEnd, Truncated, ReadError, Delete, DeleteFails, history
    <3>2. QED
      BY <3>1, WorkerSteps
  <2>3. CASE Gone' \subseteq Gone
    BY <2>1, <2>2, <2>3
  <2>4. ASSUME NEW w \in Workers, Delete(w), Gone' \subseteq Gone \cup {file[w]}
        PROVE  Read'
    <3>1. wpc[w] = "delete" /\ UNCHANGED givenUp
      BY <2>4 DEF Delete, history
    <3>2. file[w] \in givenUp \/ \A s \in Contents[file[w]] : <<file[w], s>> \in handled
      BY <3>1 DEF Covered, CoveredBy
    <3>3. file[w] \in givenUp => file[w] \notin Gone'
      BY <3>1 DEF Gone
    <3>4. QED
      BY <2>2, <2>4, <3>2, <3>3
  <2>5. QED
    BY <2>1, <2>3, <2>4, GoneSteps
<1>3. Read => DeletedAfterReading
  BY DEF Gone, DeletedAfterReading
<1>4. QED
  BY <1>1, <1>2, <1>3, TypeAlways, PTL DEF Spec

-----------------------------------------------------------------------------
(* One worker per file, and a reading for each time it was put.             *)

\* What one pass of the poll loop knows: it submits one file at a time, that file
\* is no longer in the listing, and a listed file that is old is stale.
PassOK ==
  /\ marking \cap listing = {}
  /\ \A f, g \in marking : f = g
  /\ listing \cap old \subseteq stale
  /\ stale \subseteq listing

Queued(f) == f \in JobFiles

With(w, f) == file[w] = f

Busy(f) == Queued(f) \/ \E w \in Workers : With(w, f)

\* A file nobody has put is nowhere; one that was put once is as old as the
\* listing says, and its entry is not behind it.
Known(f) ==
  /\ puts[f] = 0 => /\ f \notin stored \cup old \cup listing \cup marking
                    /\ ~Busy(f)
                    /\ processed[f] = None
                    /\ reads[f] = 0
  /\ puts[f] <= 1 => /\ f \in stale => f \in old
                     /\ processed[f] # "behind"

Entered(f) == Live(f) \/ f \in marking

\* The poll loop cannot submit a file a second time: it is too old, or gone, or
\* it has an entry, or the entry is about to be made.
Barred(f) == \/ f \in old
             \/ f \notin stored \cup listing
             \/ f \in stored /\ Entered(f)

Guarded(f) == Busy(f) => /\ f \notin slipped => Entered(f)
                         /\ puts[f] <= 1 => Barred(f)

Single(f) == /\ JobsOnce(f)
             /\ \A v, w \in Workers : With(v, f) /\ With(w, f) => v = w
             /\ \A w \in Workers : With(w, f) => ~Queued(f)

\* The file is being read, or it may come to be read as it is now.
Pending(f) ==
  \/ \E w \in Workers : With(w, f) /\ wpc[w] \in {"decode", "find", "create"}
  \/ /\ f \in stored
     /\ \/ Queued(f)
        \/ \E w \in Workers : With(w, f) /\ wpc[w] = "get"
        \/ ~(f \in old \/ Entered(f))

\* The files the promise is about.
Steady(f) == puts[f] <= 1 \/ f \notin slipped

\* A file is read at most once for each put, and a reading to come has a put
\* left.
Counted(f) == /\ reads[f] <= puts[f]
              /\ Pending(f) => reads[f] < puts[f]

FileInv(f) == /\ Known(f)
              /\ Guarded(f)
              /\ Steady(f) => Single(f) /\ Counted(f)

OnceInv == PassOK /\ \A f \in Files : FileInv(f)

\* What a step leaves of f in the channel and the workers' hands stays as it was
\* when it leaves both alone.
LEMMA HandsSame ==
  ASSUME UNCHANGED <<jobs, file, wpc>>, NEW f
  PROVE  /\ Queued(f)' <=> Queued(f)
         /\ Busy(f)' <=> Busy(f)
         /\ Single(f)' <=> Single(f)
         /\ JobsOnce(f)' <=> JobsOnce(f)
BY DEF Queued, Busy, Single, With, JobFiles, JobsOnce

\* A step that does not concern f.
LEMMA FileKept ==
  ASSUME NEW f \in Files, FileInv(f),
         puts'[f] = puts[f], reads'[f] = reads[f], processed'[f] = processed[f],
         f \in stored' <=> f \in stored,
         f \in old' <=> f \in old,
         f \in marking' <=> f \in marking,
         f \in slipped' <=> f \in slipped,
         f \in listing' => f \in listing,
         f \in stale' => f \in stale,
         Queued(f)' <=> Queued(f),
         JobsOnce(f) => JobsOnce(f)',
         \A w \in Workers : file'[w] = f <=> file[w] = f,
         \A w \in Workers : file[w] = f => wpc'[w] = wpc[w]
  PROVE  FileInv(f)'
<1>1. /\ Busy(f)' <=> Busy(f)
      /\ Entered(f)' <=> Entered(f)
      /\ Steady(f)' <=> Steady(f)
      /\ Pending(f)' <=> Pending(f)
  BY DEF Busy, With, Entered, Live, Steady, Pending
<1>2. Known(f)'
  BY <1>1 DEF FileInv, Known
<1>3. Guarded(f)'
  BY <1>1 DEF FileInv, Guarded, Barred
<1>4. Single(f) => Single(f)'
  BY DEF Single, With
<1>5. Counted(f)' <=> Counted(f)
  BY <1>1 DEF Counted
<1>6. QED
  BY <1>1, <1>2, <1>3, <1>4, <1>5 DEF FileInv

\* A step of another file's clock or of the poll loop for another file.
LEMMA OtherFile ==
  ASSUME TypeOK, PassOK, NEW f \in Files, FileInv(f), NEW g \in Files, g # f,
         \/ Arrive(g) \/ Age(g) \/ Expire(g) \/ Skip(g)
         \/ Collect(g) \/ Mark(g)
  PROVE  FileInv(f)'
<1>1. /\ puts \in [Files -> Nat] /\ processed \in [Files -> {None, "live", "behind"}]
  BY DEF TypeOK
<1>2. UNCHANGED <<jobs, file, wpc, reads>>
  BY DEF Arrive, Age, Expire, Skip, Collect, Mark, worker, history
<1>3. puts'[f] = puts[f] /\ processed'[f] = processed[f]
  BY <1>1 DEF Arrive, Age, Expire, Skip, Collect, Mark, storage
<1>4. /\ f \in stored' <=> f \in stored
      /\ f \in old' <=> f \in old
      /\ f \in slipped' <=> f \in slipped
      /\ f \in listing' => f \in listing
      /\ f \in stale' => f \in stale
  BY DEF Arrive, Age, Expire, Skip, Collect, Mark, Looked, storage, poll,
         history
<1>5. f \in marking' <=> f \in marking
  BY DEF Arrive, Age, Expire, Skip, Collect, Mark, poll, PassOK
<1>6. QED
  BY <1>2, <1>3, <1>4, <1>5, HandsSame, FileKept

LEMMA PassStep ==
  ASSUME TypeOK, PassOK, [Next]_vars
  PROVE  PassOK'
<1>1. ASSUME NEW f \in Files, Arrive(f) \/ Age(f) \/ Expire(f)
      PROVE  PassOK'
  BY <1>1 DEF Arrive, Age, Expire, storage, poll, PassOK
<1>2. CASE List
  BY <1>2 DEF List, PassOver, storage, PassOK
<1>3. ASSUME NEW f \in Files, Skip(f) \/ Collect(f) \/ Submit(f) \/ Mark(f)
      PROVE  PassOK'
  BY <1>3 DEF Skip, Collect, Submit, Mark, Looked, storage, PassOK
<1>4. ASSUME NEW w \in Workers, WorkerStep(w)
      PROVE  UNCHANGED <<old, listing, stale, marking>>
  BY <1>4 DEF WorkerStep, Take, Get, GetFails, Decode, Find, Create, ReadEnd,
              Truncated, ReadError, Delete, DeleteFails, Return, storage, poll
<1>5. ASSUME NEW s \in Sessions, RemoveSession(s) \/ CollectTomb(s)
      PROVE  UNCHANGED <<old, listing, stale, marking>>
  BY <1>5 DEF RemoveSession, CollectTomb, storage, poll
<1>6. ASSUME UNCHANGED <<old, listing, stale, marking>>
      PROVE  PassOK'
  BY <1>6 DEF PassOK
<1>7. CASE UNCHANGED vars
  BY <1>6, <1>7 DEF vars, storage, poll
<1>8. QED
  BY <1>1, <1>2, <1>3, <1>4, <1>5, <1>6, <1>7 DEF Next, PollStep

\* A put: the entry, if there is one, stays and is behind.
LEMMA FileArrives ==
  ASSUME TypeOK, PassOK, NEW f \in Files, FileInv(f), Arrive(f)
  PROVE  FileInv(f)'
<1>1. /\ puts[f] \in Nat /\ puts'[f] = puts[f] + 1
      /\ processed'[f] = IF processed[f] = "live" THEN "behind" ELSE processed[f]
      /\ UNCHANGED <<listing, stale, marking, jobs, file, wpc, reads, slipped>>
  BY DEF TypeOK, Arrive, poll, worker, history
<1>2. /\ Busy(f)' <=> Busy(f)
      /\ Single(f)' <=> Single(f)
  BY <1>1, HandsSame
<1>3. Entered(f)' <=> Entered(f)
  BY <1>1 DEF Entered, Live
<1>4. Known(f)'
  BY <1>1 DEF FileInv, Known, PassOK, None
<1>5. Guarded(f)'
  <2>1. Busy(f) => puts[f] # 0
    BY DEF FileInv, Known
  <2>2. QED
    BY <1>1, <1>2, <1>3, <2>1 DEF FileInv, Guarded
<1>6. Steady(f)' => Steady(f)
  BY <1>1 DEF Steady
<1>7. Counted(f) => Counted(f)'
  <2>1. reads[f] \in Nat
    BY DEF TypeOK
  <2>2. QED
    BY <1>1, <2>1 DEF Counted
<1>8. QED
  BY <1>2, <1>4, <1>5, <1>6, <1>7 DEF FileInv

LEMMA FileAges ==
  ASSUME TypeOK, PassOK, NEW f \in Files, FileInv(f), Age(f)
  PROVE  FileInv(f)'
<1>1. /\ UNCHANGED <<puts, stored, listing, marking, processed, jobs, file, wpc, reads,
                    slipped>>
      /\ f \in stored /\ f \in old'
  BY DEF Age, worker, history
<1>2. /\ Busy(f)' <=> Busy(f)
      /\ Single(f)' <=> Single(f)
      /\ Queued(f)' <=> Queued(f)
  BY <1>1, HandsSame
<1>3. /\ Entered(f)' <=> Entered(f)
      /\ Steady(f)' <=> Steady(f)
  BY <1>1 DEF Entered, Live, Steady
<1>4. Known(f)'
  BY <1>1, <1>2 DEF FileInv, Known
<1>5. Guarded(f)'
  BY <1>1, <1>2, <1>3 DEF FileInv, Guarded, Barred
<1>6. Pending(f)' => Pending(f)
  BY <1>1, <1>2, <1>3 DEF Pending, With
<1>7. Counted(f) => Counted(f)'
  BY <1>1, <1>6 DEF Counted
<1>8. QED
  BY <1>2, <1>3, <1>4, <1>5, <1>7 DEF FileInv

\* An entry expires or is collected: for a file that stays steady the entry is no
\* longer needed.
LEMMA FileForgotten ==
  ASSUME TypeOK, PassOK, NEW f \in Files, FileInv(f), Expire(f)
  PROVE  FileInv(f)'
<1>1. /\ UNCHANGED <<puts, stored, old, listing, stale, marking, jobs, file, wpc, reads>>
      /\ slipped \subseteq slipped'
  BY DEF Expire, storage, poll, worker, history
<1>2. /\ Busy(f)' <=> Busy(f)
      /\ Single(f)' <=> Single(f)
      /\ Queued(f)' <=> Queued(f)
  BY <1>1, HandsSame
<1>3. processed'[f] \notin {"live", "behind"} /\ (processed[f] = None => processed'[f] = None)
  BY DEF Expire, Live, None, TypeOK
<1>4. Busy(f) <=> InWork(f)
  BY DEF Busy, Queued, With, JobFiles, InWork
<1>5. f \in slipped' \/ (~Busy(f) /\ f \notin stored \ old) \/ ~Live(f)
  BY <1>4 DEF Expire, Live
<1>6. puts[f] <= 1 => f \in old \/ f \notin stored \/ ~Live(f)
  BY DEF FileInv, Known, Expire, Live
<1>7. Known(f)'
  BY <1>1, <1>2, <1>3 DEF FileInv, Known
<1>8. Guarded(f)'
  <2>1. Busy(f) /\ f \notin slipped' => Entered(f)'
    BY <1>1, <1>5 DEF FileInv, Guarded, Entered, Live
  <2>2. Busy(f) /\ puts[f] <= 1 => Barred(f)'
    BY <1>1, <1>6 DEF FileInv, Guarded, Barred, Entered, Live
  <2>3. QED
    BY <1>1, <1>2, <2>1, <2>2 DEF Guarded
<1>9. Steady(f)' => Steady(f)
  BY <1>1 DEF Steady
<1>10. Steady(f)' /\ Pending(f)' => Pending(f)
  <2>1. Steady(f)' => f \in old \/ f \notin stored \/ ~Live(f)
    BY <1>1, <1>5, <1>6 DEF Steady
  <2>2. QED
    BY <1>1, <1>2, <2>1 DEF Pending, With, Entered, Live
<1>11. Steady(f)' => Single(f)' /\ Counted(f)'
  BY <1>1, <1>2, <1>9, <1>10 DEF FileInv, Counted
<1>12. QED
  BY <1>7, <1>8, <1>11 DEF FileInv

\* A new listing.
LEMMA FileListed ==
  ASSUME TypeOK, PassOK, NEW f \in Files, FileInv(f), List
  PROVE  FileInv(f)'
<1>1. /\ listing' = stored /\ stale' = stored \cap old
      /\ UNCHANGED <<puts, stored, old, marking, processed, jobs, file, wpc, reads, slipped>>
  BY DEF List, storage, worker, history
<1>2. /\ Busy(f)' <=> Busy(f)
      /\ Single(f)' <=> Single(f)
      /\ Queued(f)' <=> Queued(f)
  BY <1>1, HandsSame
<1>3. /\ Entered(f)' <=> Entered(f)
      /\ Steady(f)' <=> Steady(f)
  BY <1>1 DEF Entered, Live, Steady
<1>4. Known(f)'
  BY <1>1, <1>2 DEF FileInv, Known
<1>5. Guarded(f)'
  BY <1>1, <1>2, <1>3 DEF FileInv, Guarded, Barred
<1>6. Pending(f)' <=> Pending(f)
  BY <1>1, <1>2, <1>3 DEF Pending, With
<1>7. Counted(f) => Counted(f)'
  BY <1>1, <1>6 DEF Counted
<1>8. QED
  BY <1>2, <1>3, <1>4, <1>5, <1>7 DEF FileInv

\* The loop skips the file or collects it.
LEMMA FilePassed ==
  ASSUME TypeOK, PassOK, NEW f \in Files, FileInv(f), Skip(f) \/ Collect(f)
  PROVE  FileInv(f)'
<1>1. /\ listing' = listing \ {f} /\ stale' = stale \ {f}
      /\ stored' \subseteq stored
      /\ UNCHANGED <<puts, old, marking, processed, jobs, file, wpc, reads, slipped>>
  BY DEF Skip, Collect, Looked, storage, worker, history
<1>2. /\ Busy(f)' <=> Busy(f)
      /\ Single(f)' <=> Single(f)
      /\ Queued(f)' <=> Queued(f)
  BY <1>1, HandsSame
<1>3. /\ Entered(f)' <=> Entered(f)
      /\ Steady(f)' <=> Steady(f)
  BY <1>1 DEF Entered, Live, Steady
<1>4. Known(f)'
  BY <1>1, <1>2 DEF FileInv, Known
<1>5. Guarded(f)'
  BY <1>1, <1>2, <1>3 DEF FileInv, Guarded, Barred
<1>6. Pending(f)' => Pending(f)
  BY <1>1, <1>2, <1>3 DEF Pending, With
<1>7. Counted(f) => Counted(f)'
  BY <1>1, <1>6 DEF Counted
<1>8. QED
  BY <1>2, <1>3, <1>4, <1>5, <1>7 DEF FileInv

\* Its entry is made.
LEMMA FileMarked ==
  ASSUME TypeOK, PassOK, NEW f \in Files, FileInv(f), Mark(f)
  PROVE  FileInv(f)'
<1>1. /\ f \in marking /\ processed'[f] = "live"
      /\ UNCHANGED <<puts, stored, old, listing, stale, jobs, file, wpc, reads, slipped>>
  BY DEF Mark, TypeOK, worker, history
<1>2. /\ Busy(f)' <=> Busy(f)
      /\ Single(f)' <=> Single(f)
      /\ Queued(f)' <=> Queued(f)
  BY <1>1, HandsSame
<1>3. /\ Entered(f) /\ Entered(f)'
      /\ Steady(f)' <=> Steady(f)
  BY <1>1 DEF Entered, Live, Steady
<1>4. Known(f)'
  BY <1>1, <1>2 DEF FileInv, Known
<1>5. Guarded(f)'
  BY <1>1, <1>2, <1>3 DEF FileInv, Guarded, Barred
<1>6. Pending(f)' <=> Pending(f)
  BY <1>1, <1>2, <1>3 DEF Pending, With
<1>7. Counted(f) => Counted(f)'
  BY <1>1, <1>6 DEF Counted
<1>8. QED
  BY <1>2, <1>3, <1>4, <1>5, <1>7 DEF FileInv

\* A file is submitted: it was not under way, so it is now once.
LEMMA FileSubmitted ==
  ASSUME TypeOK, PassOK, NEW f \in Files, FileInv(f),
         Submit(f), jobs' = Append(jobs, f), marking' = {f}
  PROVE  FileInv(f)'
<1>1. /\ f \in listing /\ f \notin stale /\ marking = {} /\ ~Live(f)
      /\ listing' = listing \ {f} /\ stale' = stale \ {f}
      /\ UNCHANGED <<puts, stored, old, processed, file, wpc, reads, slipped>>
  BY DEF Submit, Looked, storage, worker, history
<1>2. ~Entered(f) /\ f \notin old
  BY <1>1 DEF Entered, PassOK
<1>3. ~Barred(f)
  BY <1>1, <1>2 DEF Barred
<1>4. Steady(f) => ~Busy(f)
  BY <1>2, <1>3 DEF FileInv, Guarded, Steady
<1>5. puts[f] # 0
  BY <1>1 DEF FileInv, Known
<1>6. /\ Queued(f)'
      /\ JobsOnce(f) /\ ~Queued(f) => JobsOnce(f)'
  BY JobAppended DEF Queued, TypeOK
<1>7. /\ Entered(f)'
      /\ Steady(f)' <=> Steady(f)
  BY <1>1 DEF Entered, Steady
<1>8. Known(f)'
  BY <1>1, <1>5 DEF FileInv, Known
<1>9. Guarded(f)'
  BY <1>1, <1>7 DEF Guarded, Barred
<1>10. Steady(f) => Single(f)'
  BY <1>1, <1>4, <1>6 DEF FileInv, Single, Busy, With
<1>11. Pending(f)' => Pending(f)
  BY <1>1, <1>2 DEF Pending, With
<1>12. Counted(f) => Counted(f)'
  BY <1>1, <1>11 DEF Counted
<1>13. QED
  BY <1>7, <1>8, <1>9, <1>10, <1>12 DEF FileInv

LEMMA FilePoll ==
  ASSUME TypeOK, PassOK, NEW f \in Files, FileInv(f), PollStep
  PROVE  FileInv(f)'
<1>1. CASE List
  BY <1>1, FileListed
<1>2. ASSUME NEW g \in Files, Skip(g) \/ Collect(g) \/ Mark(g)
      PROVE  FileInv(f)'
  BY <1>2, OtherFile, FilePassed, FileMarked
<1>3. ASSUME NEW g \in Files, Submit(g)
      PROVE  FileInv(f)'
  <2>1. /\ marking = {} /\ listing' = listing \ {g} /\ stale' = stale \ {g}
        /\ UNCHANGED <<puts, stored, old, processed, file, wpc, reads, slipped>>
    BY <1>3 DEF Submit, Looked, storage, worker, history
  <2>2. CASE UNCHANGED <<jobs, marking>>
    BY <2>1, <2>2, HandsSame, FileKept
  <2>3. CASE jobs' = Append(jobs, g) /\ marking' = {g} /\ g # f
    <3>1. /\ Queued(f)' <=> Queued(f)
          /\ JobsOnce(f) => JobsOnce(f)'
      BY <2>3, JobAppended DEF Queued, TypeOK
    <3>2. QED
      BY <2>1, <2>3, <3>1, FileKept
  <2>4. CASE jobs' = Append(jobs, g) /\ marking' = {g} /\ g = f
    BY <1>3, <2>4, FileSubmitted
  <2>5. QED
    BY <1>3, <2>2, <2>3, <2>4 DEF Submit
<1>4. QED
  BY <1>1, <1>2, <1>3 DEF PollStep

\* A worker takes the file from the channel.
LEMMA FileTaken ==
  ASSUME TypeOK, NEW f \in Files, FileInv(f),
         NEW w \in Workers, file[w] = None, Take(w), Head(jobs) = f
  PROVE  FileInv(f)'
<1>1. /\ jobs # <<>> /\ jobs' = Tail(jobs)
      /\ file' = [file EXCEPT ![w] = f] /\ wpc' = [wpc EXCEPT ![w] = "get"]
      /\ UNCHANGED <<puts, stored, old, listing, stale, marking, processed, reads, slipped>>
  BY DEF Take, Goto, storage, poll, history
<1>2. jobs \in Seq(Files)
  BY DEF TypeOK
<1>3. /\ Queued(f)
      /\ JobsOnce(f) => JobsOnce(f)' /\ ~Queued(f)'
  BY <1>1, <1>2, JobTaken DEF Queued
<1>4. /\ file'[w] = f /\ wpc'[w] = "get"
      /\ \A x \in Workers \ {w} : file'[x] = file[x] /\ wpc'[x] = wpc[x]
  BY <1>1 DEF TypeOK
<1>5. Busy(f) /\ Busy(f)'
  BY <1>3, <1>4 DEF Busy, With
<1>6. /\ Entered(f)' <=> Entered(f)
      /\ Steady(f)' <=> Steady(f)
  BY <1>1 DEF Entered, Live, Steady
<1>7. Known(f)'
  BY <1>1, <1>5 DEF FileInv, Known
<1>8. Guarded(f)'
  BY <1>1, <1>5, <1>6 DEF FileInv, Guarded, Barred
<1>9. Single(f) => Single(f)'
  BY <1>3, <1>4 DEF Single, With
<1>10. Single(f) /\ Pending(f)' => Pending(f)
  BY <1>1, <1>3, <1>4, <1>6 DEF Single, Pending, With
<1>11. Single(f) /\ Counted(f) => Counted(f)'
  BY <1>1, <1>10 DEF Counted
<1>12. QED
  BY <1>6, <1>7, <1>8, <1>9, <1>11 DEF FileInv

\* A worker goes on with its file: what it is about to do with it was pending,
\* and at the end of the file one put is used up.
LEMMA FileGoesOn ==
  ASSUME TypeOK, NEW f \in Files, FileInv(f),
         NEW w \in Workers, file[w] = f, NEW l \in {"decode", "find", "create", "delete"},
         wpc' = [wpc EXCEPT ![w] = l],
         UNCHANGED <<puts, stored, old, listing, stale, marking, processed, jobs, file,
                     slipped>>,
         wpc[w] \in {"decode", "find", "create"} \/ (wpc[w] = "get" /\ f \in stored),
         \/ reads' = reads
         \/ l = "delete" /\ reads' = [reads EXCEPT ![f] = @ + 1]
  PROVE  FileInv(f)'
<1>1. /\ wpc'[w] = l
      /\ \A x \in Workers \ {w} : wpc'[x] = wpc[x]
  BY DEF TypeOK
<1>2. /\ Queued(f)' <=> Queued(f)
      /\ Busy(f)' <=> Busy(f)
      /\ Single(f)' <=> Single(f)
  BY DEF Queued, Busy, Single, With, JobFiles, JobsOnce
<1>3. /\ Entered(f)' <=> Entered(f)
      /\ Steady(f)' <=> Steady(f)
  BY DEF Entered, Live, Steady
<1>4. Busy(f)
  BY DEF Busy, With
<1>5. Known(f)'
  BY <1>2, <1>4 DEF FileInv, Known
<1>6. Guarded(f)'
  BY <1>2, <1>3 DEF FileInv, Guarded, Barred
<1>7. Pending(f)
  BY DEF Pending, With
<1>8. Steady(f) => f \notin stored \/ f \in old \/ Entered(f)
  BY <1>4 DEF FileInv, Guarded, Steady, Barred
<1>9. Single(f) => ~Queued(f) /\ \A x \in Workers : file[x] = f => x = w
  BY DEF Single, With
<1>10. Steady(f) /\ Single(f) /\ l = "delete" => ~Pending(f)'
  BY <1>1, <1>2, <1>3, <1>8, <1>9 DEF Pending, With
<1>11. reads[f] \in Nat /\ puts[f] \in Nat
  BY DEF TypeOK
<1>12. Steady(f) /\ Single(f) /\ Counted(f) => Counted(f)'
  <2>1. CASE reads' = reads
    BY <1>7, <2>1 DEF Counted
  <2>2. CASE l = "delete" /\ reads' = [reads EXCEPT ![f] = @ + 1]
    <3>1. reads'[f] = reads[f] + 1
      BY <2>2 DEF TypeOK
    <3>2. QED
      BY <1>7, <1>10, <1>11, <2>2, <3>1 DEF Counted
  <2>3. QED
    BY <2>1, <2>2
<1>13. QED
  BY <1>2, <1>3, <1>5, <1>6, <1>12 DEF FileInv

\* A worker lets go of its file: it keeps the entry, or removes it together with
\* the file or because the file was not read to its end.
LEMMA FileLetGo ==
  ASSUME TypeOK, NEW f \in Files, FileInv(f),
         NEW w \in Workers, file[w] = f,
         wpc' = [wpc EXCEPT ![w] = "idle"], file' = [file EXCEPT ![w] = None],
         UNCHANGED <<puts, old, listing, stale, marking, jobs, reads, slipped>>,
         \/ UNCHANGED <<stored, processed>>
         \/ /\ processed' = [processed EXCEPT ![f] = None]
            /\ \/ stored' = stored \ {f}
               \/ UNCHANGED stored /\ wpc[w] = "decode"
  PROVE  FileInv(f)'
<1>0. None \notin Files
  BY DownloadAssumption DEF DownloadAssumption
<1>1. /\ file'[w] = None /\ wpc'[w] = "idle"
      /\ \A x \in Workers \ {w} : file'[x] = file[x] /\ wpc'[x] = wpc[x]
  BY DEF TypeOK
<1>2. /\ Queued(f)' <=> Queued(f)
      /\ JobsOnce(f)' <=> JobsOnce(f)
  BY DEF Queued, JobFiles, JobsOnce
<1>3. /\ \A x \in Workers : With(x, f)' => With(x, f) /\ wpc'[x] = wpc[x]
      /\ Busy(f)' => Busy(f)
  BY <1>0, <1>1, <1>2 DEF With, Busy
<1>4. Single(f) => Single(f)' /\ ~Busy(f)'
  BY <1>0, <1>1, <1>2, <1>3 DEF Single, With, Busy
<1>5. Steady(f)' <=> Steady(f)
  BY DEF Steady
<1>6. f \in stored' => f \in stored
  OBVIOUS
<1>7. puts[f] # 0
  BY DEF FileInv, Known, Busy, With
<1>8. Known(f)'
  <2>1. processed'[f] \in {processed[f], None}
    BY DEF TypeOK
  <2>2. QED
    BY <1>7, <2>1 DEF FileInv, Known, None
<1>9. Guarded(f)'
  BY <1>4, <1>5 DEF FileInv, Guarded, Steady
<1>10. Pending(f)' => Pending(f)
  <2>1. CASE UNCHANGED <<stored, processed>>
    BY <1>2, <1>3, <2>1 DEF Pending, Entered, Live
  <2>2. CASE stored' = stored \ {f}
    BY <1>3, <2>2 DEF Pending
  <2>3. CASE wpc[w] = "decode"
    BY <2>3 DEF Pending, With
  <2>4. QED
    BY <2>1, <2>2, <2>3
<1>11. Counted(f) => Counted(f)'
  BY <1>10 DEF Counted
<1>12. QED
  BY <1>4, <1>5, <1>8, <1>9, <1>11 DEF FileInv

\* A worker's step is one for its own file.
LEMMA FileWorker ==
  ASSUME TypeOK, WithFile, NEW f \in Files, FileInv(f), NEW w \in Workers, WorkerStep(w)
  PROVE  FileInv(f)'
<1>0. /\ file \in [Workers -> Files \cup {None}]
      /\ wpc \in [Workers -> WorkerPCs]
      /\ processed \in [Files -> {None, "live", "behind"}]
      /\ reads \in [Files -> Nat]
      /\ jobs \in Seq(Files)
      /\ None \notin Files
  BY DownloadAssumption DEF TypeOK, DownloadAssumption
<1>1. UNCHANGED <<puts, old, listing, stale, marking, slipped>>
  BY DEF WorkerStep, Take, Get, GetFails, Decode, Find, Create, ReadEnd, Truncated,
         ReadError, Delete, DeleteFails, Return, storage, poll, history
<1>2. CASE Take(w)
  <2>1. wpc[w] = "idle" /\ file[w] = None /\ jobs # <<>> /\ jobs' = Tail(jobs)
    BY <1>2 DEF Take, WithFile
  <2>2. CASE Head(jobs) = f
    BY <1>2, <2>1, <2>2, FileTaken
  <2>3. CASE Head(jobs) # f
    <3>1. /\ Queued(f)' <=> Queued(f)
          /\ JobsOnce(f) => JobsOnce(f)'
      BY <1>0, <2>1, <2>3, JobTaken DEF Queued
    <3>2. /\ UNCHANGED <<stored, processed, reads>>
          /\ file' = [file EXCEPT ![w] = Head(jobs)]
          /\ wpc' = [wpc EXCEPT ![w] = "get"]
      BY <1>2 DEF Take, Goto, storage, history
    <3>3. /\ \A x \in Workers : file'[x] = f <=> file[x] = f
          /\ \A x \in Workers : file[x] = f => wpc'[x] = wpc[x]
      BY <1>0, <2>1, <2>3, <3>2
    <3>4. /\ puts'[f] = puts[f] /\ processed'[f] = processed[f] /\ reads'[f] = reads[f]
          /\ f \in stored' <=> f \in stored
      BY <1>1, <3>2
    <3>5. QED
      BY <1>1, <3>1, <3>3, <3>4, FileKept
  <2>4. QED
    BY <2>2, <2>3
<1>3. CASE ~Take(w)
  <2>1. wpc[w] # "idle" /\ file[w] \in Files
    BY <1>0, <1>3 DEF WorkerStep, Get, GetFails, Decode, Find, Create, ReadEnd,
                      Truncated, ReadError, Delete, DeleteFails, WithFile
  <2>2. UNCHANGED jobs
    BY <1>3 DEF WorkerStep, Get, GetFails, Decode, Find, Create, ReadEnd, Truncated,
                ReadError, Delete, DeleteFails, Return
  <2>3. CASE file[w] # f
    <3>1. /\ f \in stored' <=> f \in stored
          /\ processed'[f] = processed[f]
          /\ reads'[f] = reads[f]
      BY <1>0, <1>3, <2>3 DEF WorkerStep, Get, GetFails, Decode, Find, Create, ReadEnd,
                Truncated, ReadError, Delete, DeleteFails, storage, history
    <3>2. /\ file' = file \/ file' = [file EXCEPT ![w] = None]
          /\ \A x \in Workers \ {w} : wpc'[x] = wpc[x]
      BY <1>0, <1>3 DEF WorkerStep, Get, GetFails, Decode, Find, Create, Handle, ReadEnd,
                Truncated, ReadError, Delete, DeleteFails, Return, Goto
    <3>3. /\ Queued(f)' <=> Queued(f)
          /\ JobsOnce(f) => JobsOnce(f)'
      BY <2>2 DEF Queued, JobFiles, JobsOnce
    <3>4. /\ \A x \in Workers : file'[x] = f <=> file[x] = f
          /\ \A x \in Workers : file[x] = f => wpc'[x] = wpc[x]
      BY <1>0, <2>3, <3>2
    <3>5. puts'[f] = puts[f]
      BY <1>1
    <3>6. QED
      BY <1>1, <3>1, <3>3, <3>4, <3>5, FileKept
  <2>4. ASSUME file[w] = f,
               Get(w) \/ Find(w) \/ Create(w) \/ ReadEnd(w) \/ ReadError(w)
        PROVE  FileInv(f)'
    <3>1. /\ UNCHANGED <<stored, processed, file>>
          /\ wpc[w] \in {"decode", "find", "create"} \/ (wpc[w] = "get" /\ f \in stored)
      BY <2>4 DEF Get, Find, Create, ReadEnd, ReadError, storage
    <3>2. CASE ReadEnd(w)
      <4>1. wpc' = [wpc EXCEPT ![w] = "delete"] /\ reads' = [reads EXCEPT ![f] = @ + 1]
        BY <2>4, <3>2 DEF ReadEnd, Goto
      <4>2. QED
        BY <1>1, <2>2, <2>4, <3>1, <4>1, FileGoesOn
    <3>3. CASE Get(w) \/ Find(w) \/ Create(w) \/ ReadError(w)
      <4>1. /\ UNCHANGED reads
            /\ \E l \in {"decode", "find", "create", "delete"} :
                 wpc' = [wpc EXCEPT ![w] = l]
        BY <3>3 DEF Get, Find, Create, Handle, ReadError, Goto, history
      <4>2. QED
        BY <1>1, <2>2, <2>4, <3>1, <4>1, FileGoesOn
    <3>4. QED
      BY <2>4, <3>2, <3>3
  <2>5. ASSUME file[w] = f, NEW s \in Sessions, Decode(w, s)
        PROVE  FileInv(f)'
    <3>1. /\ wpc[w] = "decode" /\ UNCHANGED <<stored, processed, file, reads>>
          /\ wpc' = wpc \/ wpc' = [wpc EXCEPT ![w] = "find"]
      BY <2>5 DEF Decode, Goto, storage
    <3>2. wpc = [wpc EXCEPT ![w] = "decode"]
      BY <1>0, <3>1
    <3>3. \E l \in {"decode", "find", "create", "delete"} : wpc' = [wpc EXCEPT ![w] = l]
      BY <3>1, <3>2
    <3>4. QED
      BY <1>1, <2>2, <2>5, <3>1, <3>3, FileGoesOn
  <2>6. ASSUME file[w] = f, GetFails(w) \/ DeleteFails(w) \/ Truncated(w) \/ Delete(w)
        PROVE  FileInv(f)'
    <3>1. /\ wpc' = [wpc EXCEPT ![w] = "idle"] /\ file' = [file EXCEPT ![w] = None]
          /\ UNCHANGED reads
      BY <2>6 DEF GetFails, DeleteFails, Truncated, Delete, Return, history
    <3>2. \/ UNCHANGED <<stored, processed>>
          \/ /\ processed' = [processed EXCEPT ![f] = None]
             /\ stored' = stored \ {f} \/ (UNCHANGED stored /\ wpc[w] = "decode")
      BY <2>6 DEF GetFails, DeleteFails, Truncated, Delete, storage
    <3>3. QED
      BY <1>1, <2>2, <2>6, <3>1, <3>2, FileLetGo
  <2>7. QED
    BY <1>3, <2>3, <2>4, <2>5, <2>6 DEF WorkerStep
<1>4. QED
  BY <1>2, <1>3

LEMMA OnceInit == Init => OnceInv
<1> SUFFICES ASSUME Init PROVE OnceInv
  OBVIOUS
<1>1. PassOK
  BY DEF Init, PassOK
<1>2. ASSUME NEW f \in Files PROVE FileInv(f)
  <2>1. /\ ~Queued(f) /\ JobsOnce(f)
        /\ \A w \in Workers : file[w] # f
    BY DownloadAssumption DEF Init, Queued, JobFiles, JobsOnce, DownloadAssumption
  <2>2. ~Busy(f) /\ ~Pending(f)
    BY <2>1 DEF Busy, Pending, With, Init
  <2>3. Known(f)
    BY <2>2 DEF Init, Known, None
  <2>4. Guarded(f) /\ Single(f) /\ Counted(f)
    BY <2>1, <2>2 DEF Init, Guarded, Single, Counted, With
  <2>5. QED
    BY <2>3, <2>4 DEF FileInv
<1>3. QED
  BY <1>1, <1>2 DEF OnceInv

LEMMA OnceStep ==
  ASSUME TypeOK, WithFile, OnceInv, [Next]_vars
  PROVE  OnceInv'
<1>1. PassOK'
  BY PassStep DEF OnceInv
<1>2. ASSUME NEW f \in Files PROVE FileInv(f)'
  <2>1. PassOK /\ FileInv(f)
    BY DEF OnceInv
  <2>2. ASSUME NEW g \in Files, Arrive(g) \/ Age(g) \/ Expire(g)
        PROVE  FileInv(f)'
    BY <2>1, <2>2, OtherFile, FileArrives, FileAges, FileForgotten
  <2>3. ASSUME UNCHANGED <<storage, poll, processed, jobs, worker, reads, slipped>>
        PROVE  FileInv(f)'
    <3>1. UNCHANGED <<puts, stored, old, listing, stale, marking, processed, jobs, wpc,
                      file, reads, slipped>>
      BY <2>3 DEF storage, poll, worker
    <3>2. QED
      BY <2>1, <3>1, HandsSame, FileKept
  <2>4. ASSUME NEW s \in Sessions, RemoveSession(s) \/ CollectTomb(s)
        PROVE  UNCHANGED <<storage, poll, processed, jobs, worker, reads, slipped>>
    BY <2>4 DEF RemoveSession, CollectTomb, history
  <2>5. CASE UNCHANGED vars
    BY <2>3, <2>5 DEF vars, history
  <2>6. QED
    BY <2>1, <2>2, <2>3, <2>4, <2>5, FilePoll, FileWorker DEF Next
<1>3. QED
  BY <1>1, <1>2 DEF OnceInv

\* A file is in the hands of one worker at most, never queued while one works on
\* it, and read to its end at most once for each time it was put, although it is
\* submitted before its entry in `processed' is made, entries expire, deletes
\* fail, a listing is older than the deletes since, and a retry of the upload puts
\* the name again while it is read or after it was deleted.  For every number of
\* puts; what is excepted is a file put again whose entry expired too early.
THEOREM FilesProcessedOnce == Spec => []ProcessedOnce
<1>1. TypeOK /\ WithFile /\ OnceInv /\ [Next]_vars => OnceInv'
  BY OnceStep
<1>2. OnceInv => ProcessedOnce
  <2> SUFFICES ASSUME OnceInv, NEW f \in Files, Steady(f)
               PROVE  Alone(f) /\ reads[f] <= puts[f]
    BY DEF ProcessedOnce, Steady
  <2>1. Single(f) /\ Counted(f)
    BY DEF OnceInv, FileInv
  <2>2. Alone(f)
    BY <2>1 DEF Single, JobsOnce, With, Queued, JobFiles, Alone
  <2>3. QED
    BY <2>1, <2>2 DEF Counted
<1>3. QED
  BY <1>1, <1>2, OnceInit, TypeAlways, PTL DEF Spec
=============================================================================
