---------------------------- MODULE MultiBackend ----------------------------
(***************************************************************************)
(* Several storage backends with health tracking                           *)
(* (internal/storage/multi.go) under the callers that share them:          *)
(* upload workers (processUploadJob: three tries on the pinned backend,    *)
(* then any other), download workers (three tries, then a search in all)   *)
(* and the poll loop (ListQuery).  Health is looked at and changed under   *)
(* m.mu, the request in between runs without it.  Delete neither looks at  *)
(* the health nor changes it.                                              *)
(*                                                                         *)
(* Time is what it does: a failure is less than 30 seconds ago or more, a  *)
(* rate limit holds or is over.                                            *)
(***************************************************************************)
EXTENDS Integers, FiniteSets

CONSTANTS
  N,             \* number of backends
  Uploaders,
  Downloaders,
  Pollers,
  Failing,       \* backends whose requests may fail
  Throttled,     \* backends that may answer 429
  TimePasses,    \* whether 30 seconds may pass during the run
  cbThreshold,
  retryAttempts

Backends == 0..(N - 1)
Indexed  == Uploaders \cup Downloaders
Callers  == Indexed \cup Pollers

ASSUME MultiAssumption ==
  /\ N \in Nat \ {0}
  /\ IsFiniteSet(Callers)
  /\ Uploaders \cap Downloaders = {}
  /\ Indexed \cap Pollers = {}
  /\ Failing \subseteq Backends
  /\ Throttled \subseteq Backends
  /\ TimePasses \in BOOLEAN
  /\ cbThreshold \in Nat \ {0}
  /\ retryAttempts \in Nat \ {0}

VARIABLES
  bad,        \* the backends that do not answer every request
  failures,   \* failures[b]
  recent,     \* recent[b]: lastFail is within cbCooldown
  limited,    \* limited[b]: rateLimitedUntil is in the future
  rrCounter,  \* modulo N
  pc,         \* where each caller stands
  pin,        \* pin[c]: the backend index the caller asked for
  target,     \* target[c]: the backend of its request, or the next to visit
  tries,      \* tries[c]: attempts made by retryStorage
  dropped     \* history: uploaders that gave up a payload

health == <<failures, recent, limited>>
caller == <<pc, pin, target, tries>>
vars   == <<bad, health, rrCounter, caller, dropped>>

Init ==
  /\ bad \in SUBSET (Failing \cup Throttled)
  /\ failures = [b \in Backends |-> 0]
  /\ recent = [b \in Backends |-> FALSE]
  /\ limited = [b \in Backends |-> FALSE]
  /\ rrCounter = 0
  /\ pc = [c \in Callers |-> "idle"]
  /\ pin = [c \in Callers |-> 0]
  /\ target = [c \in Callers |-> 0]
  /\ tries = [c \in Callers |-> 0]
  /\ dropped = {}

-----------------------------------------------------------------------------
(* Health.                                                                  *)

Open(b) == failures[b] >= cbThreshold

\* A slip: the breaker is left out of the check.
LimitOnly(b) == ~limited[b]

\* A slip: an open breaker is never tried again.
NeverRetried(b) == ~limited[b] /\ ~Open(b)

Expired(b) == Open(b) /\ ~recent[b]

Available(b) == ~limited[b] /\ (~Open(b) \/ Expired(b))

\* What the check leaves behind: an expired breaker starts from zero.
Admit(b) == failures' = [failures EXCEPT ![b] = IF Expired(b) THEN 0 ELSE @]

RecordSuccess(b) ==
  /\ failures' = [failures EXCEPT ![b] = 0]
  /\ UNCHANGED <<recent, limited>>

RecordFailure(b) ==
  /\ failures' = [failures EXCEPT ![b] = @ + 1]
  /\ recent' = [recent EXCEPT ![b] = TRUE]
  /\ UNCHANGED limited

\* A 429 starts the cooldown and does not count as a failure.
RecordLimit(b) ==
  /\ limited' = [limited EXCEPT ![b] = TRUE]
  /\ UNCHANGED <<failures, recent>>

CooldownEnds(b) ==
  /\ TimePasses
  /\ recent[b]
  /\ recent' = [recent EXCEPT ![b] = FALSE]
  /\ UNCHANGED <<bad, failures, limited, rrCounter, caller, dropped>>

LimitEnds(b) ==
  /\ TimePasses
  /\ limited[b]
  /\ limited' = [limited EXCEPT ![b] = FALSE]
  /\ UNCHANGED <<bad, failures, recent, rrCounter, caller, dropped>>

Goto(c, label) == pc' = [pc EXCEPT ![c] = label]

\* The call is over; its local variables are dead.
Finish(c) ==
  /\ Goto(c, "idle")
  /\ pin' = [pin EXCEPT ![c] = 0]
  /\ target' = [target EXCEPT ![c] = 0]
  /\ tries' = [tries EXCEPT ![c] = 0]

-----------------------------------------------------------------------------
(* retryStorage around UploadByIndex or DownloadByIndex.                    *)

Begin(c) ==
  /\ pc[c] = "idle"
  /\ \E b \in Backends : pin' = [pin EXCEPT ![c] = b]
  /\ Goto(c, "try")
  /\ UNCHANGED <<bad, health, rrCounter, target, tries, dropped>>

\* A slip: a failed attempt is not counted.
NotCounted(c) == tries[c]

Attempts(c) == tries[c] + 1

\* A slip: one attempt too many.
ExhaustedLate(c) == Attempts(c) > retryAttempts

Exhausted(c) == Attempts(c) >= retryAttempts

\* An attempt failed.  After the last one an uploader always falls back, a
\* downloader only when that one ended with 429 or ErrBackendUnavailable.
Retry(c, label) ==
  /\ Goto(c, label)
  /\ tries' = [tries EXCEPT ![c] = Attempts(c)]
  /\ UNCHANGED <<pin, target>>

\* backendByIndexLocked admits the request ...
Request(c) ==
  /\ pc[c] = "try"
  /\ Available(pin[c])
  /\ Admit(pin[c])
  /\ Goto(c, "wait")
  /\ UNCHANGED <<bad, recent, limited, rrCounter, pin, target, tries, dropped>>

\* ... or answers ErrBackendUnavailable, which is retried like any error.
Unavailable(c) ==
  /\ pc[c] = "try"
  /\ ~Available(pin[c])
  /\ Retry(c, IF Exhausted(c) THEN "fallback" ELSE "try")
  /\ UNCHANGED <<bad, health, rrCounter, dropped>>

Succeed(c) ==
  /\ pc[c] = "wait"
  /\ RecordSuccess(pin[c])
  /\ Finish(c)
  /\ UNCHANGED <<bad, rrCounter, dropped>>

Fail(c) ==
  /\ pc[c] = "wait"
  /\ pin[c] \in bad \cap Failing
  /\ RecordFailure(pin[c])
  /\ IF Exhausted(c) /\ c \in Downloaders
       THEN Finish(c)
       ELSE Retry(c, IF Exhausted(c) THEN "fallback" ELSE "try")
  /\ UNCHANGED <<bad, rrCounter, dropped>>

\* A 429 is not retried.
Throttle(c) ==
  /\ pc[c] = "wait"
  /\ pin[c] \in bad \cap Throttled
  /\ RecordLimit(pin[c])
  /\ Retry(c, "fallback")
  /\ UNCHANGED <<bad, rrCounter, dropped>>

-----------------------------------------------------------------------------
(* UploadAny: round robin over the backends that are available.             *)

NextAvailable(b) ==
  \E k \in 0..(N - 1) :
    /\ b = (rrCounter + k) % N
    /\ Available(b)
    /\ \A j \in 0..(k - 1) : ~Available((rrCounter + j) % N)

ChooseAny(c) ==
  /\ c \in Uploaders
  /\ pc[c] = "fallback"
  /\ \E b \in Backends :
       /\ NextAvailable(b)
       /\ Admit(b)
       /\ rrCounter' = (b + 1) % N
       /\ target' = [target EXCEPT ![c] = b]
  /\ Goto(c, "any")
  /\ UNCHANGED <<bad, recent, limited, pin, tries, dropped>>

ChooseNone(c) ==
  /\ c \in Uploaders
  /\ pc[c] = "fallback"
  /\ \A b \in Backends : ~Available(b)
  /\ dropped' = dropped \cup {c}
  /\ Finish(c)
  /\ UNCHANGED <<bad, health, rrCounter>>

\* A slip: the counter is read again when the answer is booked.
CounterNow(c) == rrCounter

Chosen(c) == target[c]

AnySucceeds(c) ==
  /\ pc[c] = "any"
  /\ RecordSuccess(Chosen(c))
  /\ Finish(c)
  /\ UNCHANGED <<bad, rrCounter, dropped>>

AnyFails(c) ==
  /\ pc[c] = "any"
  /\ \/ target[c] \in bad \cap Failing /\ RecordFailure(Chosen(c))
     \/ target[c] \in bad \cap Throttled /\ RecordLimit(Chosen(c))
  /\ dropped' = dropped \cup {c}
  /\ Finish(c)
  /\ UNCHANGED <<bad, rrCounter>>

-----------------------------------------------------------------------------
(* Download and ListQuery visit the backends one after the other.  Neither  *)
(* records what the backends answer.                                        *)

BeginList(c) ==
  /\ c \in Pollers
  /\ pc[c] = "idle"
  /\ Goto(c, "visit")
  /\ UNCHANGED <<bad, health, rrCounter, pin, target, tries, dropped>>

BeginSearch(c) ==
  /\ c \in Downloaders
  /\ pc[c] = "fallback"
  /\ Goto(c, "visit")
  /\ UNCHANGED <<bad, health, rrCounter, pin, target, tries, dropped>>

Visit(c) ==
  /\ pc[c] = "visit"
  /\ target[c] \in Backends
  /\ IF Available(target[c]) THEN Admit(target[c]) ELSE UNCHANGED failures
  /\ target' = [target EXCEPT ![c] = @ + 1]
  /\ UNCHANGED <<bad, recent, limited, rrCounter, pc, pin, tries, dropped>>

\* The last backend was visited, or a download found its file.
EndVisit(c) ==
  /\ pc[c] = "visit"
  /\ target[c] = N \/ (c \in Downloaders /\ target[c] > 0)
  /\ Finish(c)
  /\ UNCHANGED <<bad, health, rrCounter, dropped>>

-----------------------------------------------------------------------------
CallStep(c) == \/ Request(c)
               \/ Unavailable(c)
               \/ Succeed(c)
               \/ Fail(c)
               \/ Throttle(c)
               \/ ChooseAny(c)
               \/ ChooseNone(c)
               \/ AnySucceeds(c)
               \/ AnyFails(c)
               \/ BeginSearch(c)
               \/ Visit(c)
               \/ EndVisit(c)

Next ==
  \/ \E c \in Indexed : Begin(c)
  \/ \E c \in Pollers : BeginList(c)
  \/ \E c \in Callers : CallStep(c)
  \/ \E b \in Backends : CooldownEnds(b) \/ LimitEnds(b)

Spec == Init /\ [][Next]_vars

\* Requests are answered (the HTTP client has a timeout) and time passes; no
\* caller has to begin anything, and no request has to succeed.
Fairness ==
  /\ \A c \in Callers : WF_vars(CallStep(c))
  /\ \A b \in Backends : WF_vars(CooldownEnds(b)) /\ WF_vars(LimitEnds(b))

LiveSpec == Spec /\ Fairness

-----------------------------------------------------------------------------
TypeOK ==
  /\ bad \subseteq Failing \cup Throttled
  /\ failures \in [Backends -> Nat]
  /\ recent \in [Backends -> BOOLEAN]
  /\ limited \in [Backends -> BOOLEAN]
  /\ rrCounter \in Backends
  /\ pc \in [Callers -> {"idle", "try", "wait", "fallback", "any", "visit"}]
  /\ pin \in [Callers -> Backends]
  /\ target \in [Callers -> 0..N]
  /\ tries \in [Callers -> 0..retryAttempts]
  /\ dropped \subseteq Uploaders

Asking(c, b) == \/ pc[c] = "wait" /\ pin[c] = b
                \/ pc[c] = "any" /\ target[c] = b

\* The breaker lets no more requests fail on a backend than its threshold and
\* what was already under way when it opened.
FailuresBounded ==
  \A b \in Backends :
    failures[b] + Cardinality({c \in Callers : Asking(c, b)})
      < cbThreshold + Cardinality(Indexed)

\* A backend that answers every request is never shut out, however badly the
\* others behave: no caller books an answer on the wrong backend.
WorkingStaysAvailable ==
  \A b \in Backends \ bad : Available(b)

\* The breaker opens in time, and only for those who fail.
BreakerSound == FailuresBounded /\ WorkingStaysAvailable

\* An unavailable backend is tried again: requests under way cannot keep the
\* breaker open for ever.
BackendReturns == \A b \in Backends : ~Available(b) ~> Available(b)

\* Every call ends, whatever the backends answer.
CallsEnd == \A c \in Callers : pc[c] # "idle" ~> pc[c] = "idle"

\* The payload goes to "any other backend instead of dropping it" (comment in
\* processUploadJob): it is kept while one backend answers every request.
\* It does not hold (README, known divergences).
PayloadKept == bad # Backends => dropped = {}
=============================================================================
