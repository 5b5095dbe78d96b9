-------------------------- MODULE MultiBackendProofs --------------------------
(***************************************************************************)
(* Proofs about MultiBackend, for any number of backends and callers, any  *)
(* threshold and any number of attempts: the circuit breaker opens in time *)
(* and only for a backend that fails.                                      *)
(***************************************************************************)
EXTENDS MultiBackend, FiniteSetTheorems, TLAPS

\* Who can be where: pollers make no request of their own, the fallback chooses
\* for uploaders, and a caller that may try has an attempt left.
Roles ==
  \A c \in Callers :
    /\ pc[c] \in {"try", "wait"} => c \in Indexed /\ tries[c] < retryAttempts
    /\ pc[c] = "any" => c \in Uploaders
    /\ pc[c] = "idle" => tries[c] = 0

\* A backend that answers has a clean record.
Spotless == \A b \in Backends \ bad : failures[b] = 0 /\ ~limited[b]

Askers(b) == {c \in Callers : Asking(c, b)}

-----------------------------------------------------------------------------
LEMMA Constants ==
  /\ N \in Nat /\ N > 0
  /\ cbThreshold \in Nat /\ cbThreshold > 0
  /\ retryAttempts \in Nat /\ retryAttempts > 0
  /\ Indexed \subseteq Callers /\ Pollers \subseteq Callers
  /\ Uploaders \subseteq Callers /\ Downloaders \subseteq Callers
  /\ Backends = 0..(N - 1)
  /\ IsFiniteSet(Indexed)
<1>1. Indexed \subseteq Callers
  BY DEF Callers
<1>2. IsFiniteSet(Indexed)
  BY <1>1, MultiAssumption, FS_Subset DEF MultiAssumption
<1>3. QED
  BY <1>1, <1>2, MultiAssumption DEF MultiAssumption, Callers, Indexed, Backends

LEMMA TypeInit == Init => TypeOK /\ Roles
<1> SUFFICES ASSUME Init PROVE TypeOK /\ Roles
  OBVIOUS
<1>1. 0 \in Backends /\ 0 \in 0..N /\ 0 \in 0..retryAttempts
  BY Constants
<1>2. /\ bad \subseteq Failing \cup Throttled
      /\ failures \in [Backends -> Nat]
      /\ recent \in [Backends -> BOOLEAN]
      /\ limited \in [Backends -> BOOLEAN]
      /\ rrCounter \in Backends
      /\ dropped \subseteq Uploaders
  BY <1>1 DEF Init
<1>3. /\ pc \in [Callers -> {"idle", "try", "wait", "fallback", "any", "visit"}]
      /\ pin \in [Callers -> Backends]
      /\ target \in [Callers -> 0..N]
      /\ tries \in [Callers -> 0..retryAttempts]
  BY <1>1 DEF Init
<1>4. TypeOK
  BY <1>2, <1>3, Zenon DEF TypeOK
<1>5. Roles
  BY DEF Init, Roles
<1>6. QED
  BY <1>4, <1>5

\* The health of the backends keeps its type.
LEMMA HealthTyped ==
  ASSUME TypeOK, [Next]_vars
  PROVE  /\ bad' = bad
         /\ failures' \in [Backends -> Nat]
         /\ recent' \in [Backends -> BOOLEAN]
         /\ limited' \in [Backends -> BOOLEAN]
<1>0. /\ failures \in [Backends -> Nat]
      /\ recent \in [Backends -> BOOLEAN]
      /\ limited \in [Backends -> BOOLEAN]
      /\ pin \in [Callers -> Backends]
  BY DEF TypeOK
<1>1. ASSUME NEW b, Admit(b) PROVE failures' \in [Backends -> Nat]
  BY <1>0, <1>1 DEF Admit
<1>2. ASSUME NEW b, RecordSuccess(b) \/ RecordFailure(b) \/ RecordLimit(b)
      PROVE  /\ failures' \in [Backends -> Nat]
             /\ recent' \in [Backends -> BOOLEAN]
             /\ limited' \in [Backends -> BOOLEAN]
  <2>0. CASE RecordSuccess(b)
    <3>1. failures' = [failures EXCEPT ![b] = 0] /\ UNCHANGED <<recent, limited>>
      BY <2>0 DEF RecordSuccess
    <3>2. failures' \in [Backends -> Nat]
      BY <1>0, <3>1
    <3>3. QED
      BY <1>0, <3>1, <3>2
  <2>1. CASE RecordLimit(b)
    <3>1. limited' = [limited EXCEPT ![b] = TRUE] /\ UNCHANGED <<failures, recent>>
      BY <2>1 DEF RecordLimit
    <3>2. limited' \in [Backends -> BOOLEAN]
      BY <1>0, <3>1
    <3>3. QED
      BY <1>0, <3>1, <3>2
  <2>2. CASE RecordFailure(b)
    <3>1. \A x \in Backends : failures[x] + 1 \in Nat
      BY <1>0
    <3>2. /\ failures' = [failures EXCEPT ![b] = failures[b] + 1]
          /\ recent' = [recent EXCEPT ![b] = TRUE] /\ UNCHANGED limited
      BY <2>2 DEF RecordFailure
    <3>3. failures' \in [Backends -> Nat]
      BY <1>0, <3>1, <3>2
    <3>4. recent' \in [Backends -> BOOLEAN]
      BY <1>0, <3>2
    <3>5. QED
      BY <1>0, <3>2, <3>3, <3>4
  <2>3. QED
    BY <1>2, <2>0, <2>1, <2>2
<1>3. ASSUME NEW c \in Callers, CallStep(c)
      PROVE  /\ bad' = bad
             /\ \/ UNCHANGED health
                \/ UNCHANGED <<recent, limited>> /\ \E b : Admit(b)
                \/ \E b : RecordSuccess(b) \/ RecordFailure(b) \/ RecordLimit(b)
  <2>1. CASE Request(c) \/ Unavailable(c) \/ BeginSearch(c) \/ EndVisit(c) \/ ChooseNone(c)
    BY <2>1 DEF Request, Unavailable, BeginSearch, EndVisit, ChooseNone
  <2>2. CASE Succeed(c) \/ Fail(c) \/ Throttle(c)
    BY <2>2 DEF Succeed, Fail, Throttle
  <2>3. CASE AnySucceeds(c) \/ AnyFails(c)
    BY <2>3 DEF AnySucceeds, AnyFails
  <2>4. CASE ChooseAny(c)
    BY <2>4 DEF ChooseAny
  <2>5. CASE Visit(c)
    BY <2>5 DEF Visit, health
  <2>6. QED
    BY <1>3, <2>1, <2>2, <2>3, <2>4, <2>5 DEF CallStep
<1>4. ASSUME NEW b \in Backends, CooldownEnds(b) \/ LimitEnds(b)
      PROVE  /\ bad' = bad
             /\ failures' \in [Backends -> Nat]
             /\ recent' \in [Backends -> BOOLEAN]
             /\ limited' \in [Backends -> BOOLEAN]
  BY <1>0, <1>4 DEF CooldownEnds, LimitEnds
<1>5. ASSUME NEW c, Begin(c) \/ BeginList(c) PROVE bad' = bad /\ UNCHANGED health
  BY <1>5 DEF Begin, BeginList
<1>6. CASE UNCHANGED vars
  BY <1>0, <1>6 DEF vars, health
<1>7. QED
  BY <1>0, <1>1, <1>2, <1>3, <1>4, <1>5, <1>6 DEF Next, health

\* The end of a call and a failed attempt, for the caller's own variables.
LEMMA FinishTyped ==
  ASSUME TypeOK, Roles, NEW c \in Callers, Finish(c)
  PROVE  /\ pc' \in [Callers -> {"idle", "try", "wait", "fallback", "any", "visit"}]
         /\ pin' \in [Callers -> Backends]
         /\ target' \in [Callers -> 0..N]
         /\ tries' \in [Callers -> 0..retryAttempts]
         /\ Roles'
<1>0. /\ pc \in [Callers -> {"idle", "try", "wait", "fallback", "any", "visit"}]
      /\ pin \in [Callers -> Backends]
      /\ target \in [Callers -> 0..N]
      /\ tries \in [Callers -> 0..retryAttempts]
  BY DEF TypeOK
<1>1. 0 \in Backends /\ 0 \in 0..N /\ 0 \in 0..retryAttempts
  BY Constants
<1>2. QED
  BY <1>0, <1>1 DEF Finish, Goto, Roles

LEMMA RetryTyped ==
  ASSUME TypeOK, Roles, NEW c \in Callers, pc[c] \in {"try", "wait"},
         NEW l \in {"try", "fallback"}, Retry(c, l),
         l = "try" => ~Exhausted(c)
  PROVE  /\ pc' \in [Callers -> {"idle", "try", "wait", "fallback", "any", "visit"}]
         /\ pin' \in [Callers -> Backends]
         /\ target' \in [Callers -> 0..N]
         /\ tries' \in [Callers -> 0..retryAttempts]
         /\ Roles'
<1>0. /\ pc \in [Callers -> {"idle", "try", "wait", "fallback", "any", "visit"}]
      /\ pin \in [Callers -> Backends]
      /\ target \in [Callers -> 0..N]
      /\ tries \in [Callers -> 0..retryAttempts]
  BY DEF TypeOK
<1>1. /\ pc' = [pc EXCEPT ![c] = l] /\ tries' = [tries EXCEPT ![c] = tries[c] + 1]
      /\ UNCHANGED <<pin, target>>
  BY DEF Retry, Goto, Attempts
<1>2. c \in Indexed /\ tries[c] < retryAttempts /\ tries[c] \in 0..retryAttempts
  BY <1>0 DEF Roles
<1>3. tries[c] + 1 \in 0..retryAttempts
  BY <1>2, Constants
<1>4. l = "try" => tries[c] + 1 < retryAttempts
  BY <1>2, Constants DEF Exhausted, Attempts
<1>5. Roles'
  BY <1>0, <1>1, <1>2, <1>4 DEF Roles
<1>6. QED
  BY <1>0, <1>1, <1>3, <1>5

LEMMA CallTyped ==
  ASSUME TypeOK, Roles, NEW c \in Callers, CallStep(c)
  PROVE  /\ pc' \in [Callers -> {"idle", "try", "wait", "fallback", "any", "visit"}]
         /\ pin' \in [Callers -> Backends]
         /\ target' \in [Callers -> 0..N]
         /\ tries' \in [Callers -> 0..retryAttempts]
         /\ rrCounter' \in Backends
         /\ dropped' \subseteq Uploaders
         /\ Roles'
<1>0. /\ pc \in [Callers -> {"idle", "try", "wait", "fallback", "any", "visit"}]
      /\ pin \in [Callers -> Backends]
      /\ target \in [Callers -> 0..N]
      /\ tries \in [Callers -> 0..retryAttempts]
      /\ rrCounter \in Backends
      /\ dropped \subseteq Uploaders
  BY DEF TypeOK
<1>1. CASE Succeed(c) \/ AnySucceeds(c) \/ EndVisit(c)
  <2>1. Finish(c) /\ UNCHANGED <<rrCounter, dropped>>
    BY <1>1 DEF Succeed, AnySucceeds, EndVisit
  <2>2. QED
    BY <1>0, <2>1, FinishTyped
<1>2. CASE Request(c)
  <2>1. /\ pc[c] = "try" /\ pc' = [pc EXCEPT ![c] = "wait"]
        /\ UNCHANGED <<pin, target, tries, rrCounter, dropped>>
    BY <1>2 DEF Request, Goto
  <2>2. QED
    BY <1>0, <2>1 DEF Roles
<1>3. CASE Unavailable(c) \/ Fail(c) \/ Throttle(c)
  <2>1. /\ pc[c] \in {"try", "wait"} /\ UNCHANGED <<rrCounter, dropped>>
        /\ \/ Finish(c)
           \/ Retry(c, "fallback")
           \/ Retry(c, "try") /\ ~Exhausted(c)
    BY <1>3 DEF Unavailable, Fail, Throttle
  <2>2. QED
    BY <1>0, <2>1, FinishTyped, RetryTyped
<1>4. CASE ChooseAny(c)
  <2>1. PICK b \in Backends : rrCounter' = (b + 1) % N /\ target' = [target EXCEPT ![c] = b]
    BY <1>4 DEF ChooseAny
  <2>2. /\ c \in Uploaders /\ pc' = [pc EXCEPT ![c] = "any"]
        /\ UNCHANGED <<pin, tries, dropped>>
    BY <1>4 DEF ChooseAny, Goto
  <2>3. (b + 1) % N \in Backends /\ b \in 0..N
    <3>1. b + 1 \in Int /\ N \in Nat /\ N > 0
      BY Constants
    <3>2. (b + 1) % N \in 0..(N - 1)
      BY <3>1
    <3>3. QED
      BY <3>2, Constants
  <2>4. QED
    BY <1>0, <2>1, <2>2, <2>3 DEF Roles
<1>5. CASE ChooseNone(c) \/ AnyFails(c)
  <2>1. Finish(c) /\ UNCHANGED rrCounter /\ dropped' = dropped \cup {c}
    BY <1>5 DEF ChooseNone, AnyFails
  <2>2. c \in Uploaders
    BY <1>5, <1>0 DEF ChooseNone, AnyFails, Roles
  <2>3. QED
    BY <1>0, <2>1, <2>2, FinishTyped
<1>6. CASE BeginSearch(c)
  BY <1>0, <1>6 DEF BeginSearch, Goto, Roles
<1>7. CASE Visit(c)
  <2>1. /\ target[c] \in Backends /\ target' = [target EXCEPT ![c] = @ + 1]
        /\ UNCHANGED <<pc, pin, tries, rrCounter, dropped>>
    BY <1>7 DEF Visit
  <2>2. target[c] + 1 \in 0..N
    BY <2>1, Constants
  <2>3. QED
    BY <1>0, <2>1, <2>2 DEF Roles
<1>8. QED
  BY <1>1, <1>2, <1>3, <1>4, <1>5, <1>6, <1>7 DEF CallStep

LEMMA TypeStep ==
  ASSUME TypeOK, Roles, [Next]_vars
  PROVE  TypeOK' /\ Roles'
<1>1. ASSUME NEW c \in Callers, CallStep(c)
      PROVE  TypeOK' /\ Roles'
  BY <1>1, CallTyped, HealthTyped DEF TypeOK
<1>2. ASSUME NEW c \in Indexed, Begin(c)
      PROVE  TypeOK' /\ Roles'
  <2>1. PICK b \in Backends : pin' = [pin EXCEPT ![c] = b]
    BY <1>2 DEF Begin
  <2>2. /\ pc[c] = "idle" /\ pc' = [pc EXCEPT ![c] = "try"]
        /\ UNCHANGED <<rrCounter, target, tries, dropped>>
    BY <1>2 DEF Begin, Goto
  <2>3. c \in Callers
    BY Constants
  <2>4. tries[c] < retryAttempts
    BY <2>2, <2>3, Constants DEF Roles
  <2>5. Roles'
    BY <2>2, <2>3, <2>4 DEF Roles, TypeOK
  <2>6. QED
    BY <2>1, <2>2, <2>5, HealthTyped DEF TypeOK
<1>3. ASSUME NEW c \in Pollers, BeginList(c)
      PROVE  TypeOK' /\ Roles'
  <2>1. /\ pc' = [pc EXCEPT ![c] = "visit"]
        /\ UNCHANGED <<rrCounter, pin, target, tries, dropped>>
    BY <1>3 DEF BeginList, Goto
  <2>2. QED
    BY <2>1, HealthTyped DEF TypeOK, Roles
<1>4. CASE UNCHANGED vars \/ \E b \in Backends : CooldownEnds(b) \/ LimitEnds(b)
  <2>1. UNCHANGED <<rrCounter, pc, pin, target, tries, dropped>>
    BY <1>4 DEF vars, caller, CooldownEnds, LimitEnds
  <2>2. QED
    BY <2>1, HealthTyped DEF TypeOK, Roles
<1>5. QED
  BY <1>1, <1>2, <1>3, <1>4 DEF Next

LEMMA TypeAlways == Spec => [](TypeOK /\ Roles)
<1>1. TypeOK /\ Roles /\ [Next]_vars => (TypeOK /\ Roles)'
  BY TypeStep
<1>2. QED
  BY <1>1, TypeInit, PTL DEF Spec

\* Every variable keeps its type; in particular a call makes no more than
\* retryAttempts attempts, and the round robin never points past the backends.
THEOREM MultiTypeCorrect == Spec => []TypeOK
BY TypeAlways, PTL

-----------------------------------------------------------------------------
(* The circuit breaker.                                                     *)

\* Requests under way are those of indexed callers.
LEMMA AskersBounded ==
  TypeOK /\ Roles =>
    \A b \in Backends : /\ IsFiniteSet(Askers(b))
                       /\ Cardinality(Askers(b)) \in Nat
                       /\ Cardinality(Askers(b)) <= Cardinality(Indexed)
                       /\ Cardinality(Indexed) \in Nat
<1> SUFFICES ASSUME TypeOK, Roles, NEW b \in Backends
             PROVE  /\ IsFiniteSet(Askers(b))
                    /\ Cardinality(Askers(b)) \in Nat
                    /\ Cardinality(Askers(b)) <= Cardinality(Indexed)
                    /\ Cardinality(Indexed) \in Nat
  OBVIOUS
<1>1. Askers(b) \subseteq Indexed
  BY DEF Askers, Asking, Roles, Indexed
<1>2. IsFiniteSet(Indexed)
  BY Constants
<1>3. IsFiniteSet(Askers(b)) /\ Cardinality(Askers(b)) <= Cardinality(Indexed)
  BY <1>1, <1>2, FS_Subset
<1>4. QED
  BY <1>2, <1>3, FS_CardinalityType

LEMMA AskersBoundedNext ==
  (TypeOK /\ Roles)' =>
    (\A b \in Backends : /\ IsFiniteSet(Askers(b))
                        /\ Cardinality(Askers(b)) \in Nat
                        /\ Cardinality(Askers(b)) <= Cardinality(Indexed)
                        /\ Cardinality(Indexed) \in Nat)'
BY AskersBounded, PTL

\* Fewer requests under way.
LEMMA FewerAskers ==
  ASSUME TypeOK, Roles, NEW b \in Backends, Askers(b)' \subseteq Askers(b)
  PROVE  /\ Cardinality(Askers(b)') \in Nat
         /\ Cardinality(Askers(b)') <= Cardinality(Askers(b))
<1>1. IsFiniteSet(Askers(b))
  BY AskersBounded
<1>2. IsFiniteSet(Askers(b)') /\ Cardinality(Askers(b)') <= Cardinality(Askers(b))
  BY <1>1, FS_Subset
<1>3. QED
  BY <1>2, FS_CardinalityType

\* The bound of one backend.
Bounded(b) == failures[b] + Cardinality(Askers(b)) < cbThreshold + Cardinality(Indexed)

\* A success, and an admission, leave the count below the threshold.
LEMMA BelowThreshold ==
  ASSUME TypeOK', Roles', NEW b \in Backends, failures'[b] < cbThreshold
  PROVE  Bounded(b)'
<1>1. /\ Cardinality(Askers(b)') \in Nat
      /\ Cardinality(Askers(b)') <= Cardinality(Indexed)
      /\ Cardinality(Indexed) \in Nat
  BY AskersBoundedNext
<1>2. failures'[b] \in Nat
  BY DEF TypeOK
<1>3. QED
  BY <1>1, <1>2, Constants DEF Bounded

\* Where nothing fails and nobody begins to ask, the bound stays.
LEMMA NoWorse ==
  ASSUME TypeOK, Roles, TypeOK', NEW b \in Backends, Bounded(b),
         failures'[b] <= failures[b], Askers(b)' \subseteq Askers(b)
  PROVE  Bounded(b)'
<1>1. /\ Cardinality(Askers(b)') \in Nat
      /\ Cardinality(Askers(b)') <= Cardinality(Askers(b))
  BY FewerAskers
<1>2. Cardinality(Askers(b)) \in Nat /\ Cardinality(Indexed) \in Nat
  BY AskersBounded
<1>3. failures[b] \in Nat /\ failures'[b] \in Nat
  BY DEF TypeOK
<1>4. QED
  BY <1>1, <1>2, <1>3, Constants DEF Bounded

\* A failure counts one more and has one request less under way.
LEMMA OneFails ==
  ASSUME TypeOK, Roles, NEW b \in Backends, Bounded(b),
         NEW c \in Askers(b), Askers(b)' \subseteq Askers(b) \ {c},
         failures'[b] = failures[b] + 1
  PROVE  Bounded(b)'
<1>1. /\ IsFiniteSet(Askers(b)) /\ Cardinality(Askers(b)) \in Nat
      /\ Cardinality(Indexed) \in Nat
  BY AskersBounded
<1>2. /\ IsFiniteSet(Askers(b) \ {c})
      /\ Cardinality(Askers(b) \ {c}) = Cardinality(Askers(b)) - 1
  BY <1>1, FS_RemoveElement
<1>3. /\ IsFiniteSet(Askers(b)')
      /\ Cardinality(Askers(b)') <= Cardinality(Askers(b)) - 1
  BY <1>2, FS_Subset
<1>4. Cardinality(Askers(b)') \in Nat
  BY <1>3, FS_CardinalityType
<1>5. failures[b] \in Nat
  BY DEF TypeOK
<1>6. QED
  BY <1>1, <1>3, <1>4, <1>5, Constants DEF Bounded

\* Admission: a request begins only on a backend whose breaker is closed, or
\* has expired and starts from zero.
LEMMA Admitted ==
  ASSUME TypeOK, NEW b \in Backends, Available(b), Admit(b)
  PROVE  /\ failures'[b] < cbThreshold
         /\ failures'[b] = 0 \/ failures'[b] = failures[b]
         /\ \A d \in Backends \ {b} : failures'[d] = failures[d]
<1>1. failures \in [Backends -> Nat]
  BY DEF TypeOK
<1>2. failures'[b] = IF Expired(b) THEN 0 ELSE failures[b]
  BY <1>1 DEF Admit
<1>3. \A d \in Backends \ {b} : failures'[d] = failures[d]
  BY <1>1 DEF Admit
<1>4. CASE Expired(b)
  BY <1>2, <1>3, <1>4, Constants
<1>5. CASE ~Expired(b)
  <2>1. failures[b] < cbThreshold
    BY <1>1, <1>5, Constants DEF Available, Open
  <2>2. QED
    BY <1>2, <1>3, <1>5, <2>1
<1>6. QED
  BY <1>4, <1>5

LEMMA NobodyAsks ==
  ASSUME TypeOK, NEW c \in Callers, NEW b \in Backends,
         \A d \in Callers \ {c} : pc'[d] = pc[d] /\ pin'[d] = pin[d] /\ target'[d] = target[d],
         pc'[c] \notin {"wait", "any"}
  PROVE  Askers(b)' \subseteq Askers(b) \ {c}
BY DEF Askers, Asking

\* What a step does to the record of a backend and to the requests under way.
Harmless(b) == failures'[b] <= failures[b] /\ Askers(b)' \subseteq Askers(b)

Admits(b) == failures'[b] < cbThreshold

Counts(b) == \E c \in Askers(b) : /\ Askers(b)' \subseteq Askers(b) \ {c}
                                /\ failures'[b] = failures[b] + 1

LEMMA CallEffect ==
  ASSUME TypeOK, NEW c \in Callers, CallStep(c), NEW b \in Backends
  PROVE  Harmless(b) \/ Admits(b) \/ Counts(b)
<1>0. /\ failures \in [Backends -> Nat]
      /\ pc \in [Callers -> {"idle", "try", "wait", "fallback", "any", "visit"}]
      /\ pin \in [Callers -> Backends]
      /\ target \in [Callers -> 0..N]
      /\ failures[b] \in Nat
  BY DEF TypeOK
<1>1. ASSUME Finish(c) \/ Retry(c, "try") \/ Retry(c, "fallback")
      PROVE  Askers(b)' \subseteq Askers(b) \ {c}
  <2>1. /\ pc'[c] \in {"idle", "try", "fallback"}
        /\ \A d \in Callers \ {c} : pc'[d] = pc[d] /\ pin'[d] = pin[d] /\ target'[d] = target[d]
    BY <1>0, <1>1 DEF Finish, Retry, Goto
  <2>2. QED
    BY <2>1, NobodyAsks
<1>2. CASE Request(c)
  <2>1. /\ pc[c] = "try" /\ pc' = [pc EXCEPT ![c] = "wait"] /\ UNCHANGED <<pin, target>>
        /\ Available(pin[c]) /\ Admit(pin[c])
    BY <1>2 DEF Request, Goto
  <2>2. pin[c] \in Backends
    BY <1>0
  <2>3. CASE b = pin[c]
    BY <2>1, <2>2, <2>3, Admitted DEF Admits
  <2>4. CASE b # pin[c]
    <3>1. Askers(b)' \subseteq Askers(b)
      BY <1>0, <2>1, <2>4 DEF Askers, Asking
    <3>2. failures'[b] = failures[b]
      BY <2>1, <2>2, <2>4, Admitted
    <3>3. QED
      BY <1>0, <3>1, <3>2 DEF Harmless
  <2>5. QED
    BY <2>3, <2>4
<1>3. CASE Unavailable(c) \/ Throttle(c) \/ ChooseNone(c) \/ EndVisit(c)
  <2>1. /\ UNCHANGED failures
        /\ Finish(c) \/ Retry(c, "try") \/ Retry(c, "fallback")
    BY <1>3 DEF Unavailable, Throttle, RecordLimit, ChooseNone, EndVisit, health
  <2>2. QED
    BY <1>0, <1>1, <2>1 DEF Harmless
<1>4. CASE Succeed(c) \/ AnySucceeds(c)
  <2>1. Finish(c) /\ \E d : failures' = [failures EXCEPT ![d] = 0]
    BY <1>4 DEF Succeed, AnySucceeds, RecordSuccess
  <2>2. failures'[b] <= failures[b]
    BY <1>0, <2>1
  <2>3. QED
    BY <1>1, <2>1, <2>2 DEF Harmless
<1>5. CASE Fail(c) \/ AnyFails(c)
  <2>1. Askers(b)' \subseteq Askers(b) \ {c}
    BY <1>1, <1>5 DEF Fail, AnyFails
  <2>2. UNCHANGED failures
        \/ \E d : Asking(c, d) /\ failures' = [failures EXCEPT ![d] = failures[d] + 1]
    BY <1>5 DEF Fail, AnyFails, RecordFailure, RecordLimit, Asking, Chosen
  <2>3. CASE UNCHANGED failures
    BY <1>0, <2>1, <2>3 DEF Harmless
  <2>4. ASSUME NEW d, Asking(c, d), failures' = [failures EXCEPT ![d] = failures[d] + 1]
        PROVE  Harmless(b) \/ Counts(b)
    <3>1. CASE b = d
      <4>1. c \in Askers(b) /\ failures'[b] = failures[b] + 1
        BY <1>0, <2>4, <3>1 DEF Askers
      <4>2. QED
        BY <2>1, <4>1 DEF Counts
    <3>2. CASE b # d
      BY <1>0, <2>1, <2>4, <3>2 DEF Harmless
    <3>3. QED
      BY <3>1, <3>2
  <2>5. QED
    BY <2>2, <2>3, <2>4
<1>6. CASE ChooseAny(c)
  <2>1. PICK d \in Backends :
          Available(d) /\ Admit(d) /\ target' = [target EXCEPT ![c] = d]
    BY <1>6 DEF ChooseAny, NextAvailable
  <2>2. pc' = [pc EXCEPT ![c] = "any"] /\ UNCHANGED pin
    BY <1>6 DEF ChooseAny, Goto
  <2>3. CASE b = d
    BY <2>1, <2>3, Admitted DEF Admits
  <2>4. CASE b # d
    <3>1. Askers(b)' \subseteq Askers(b)
      BY <1>0, <2>1, <2>2, <2>4 DEF Askers, Asking
    <3>2. failures'[b] = failures[b]
      BY <2>1, <2>4, Admitted
    <3>3. QED
      BY <1>0, <3>1, <3>2 DEF Harmless
  <2>5. QED
    BY <2>3, <2>4
<1>7. CASE BeginSearch(c)
  <2>1. UNCHANGED <<failures, pin, target>> /\ pc' = [pc EXCEPT ![c] = "visit"]
    BY <1>7 DEF BeginSearch, Goto, health
  <2>2. QED
    BY <1>0, <2>1 DEF Harmless, Askers, Asking
<1>8. CASE Visit(c)
  <2>1. /\ pc[c] = "visit" /\ UNCHANGED <<pc, pin>>
        /\ target' = [target EXCEPT ![c] = @ + 1]
        /\ UNCHANGED failures \/ \E d : Admit(d)
    BY <1>8 DEF Visit
  <2>2. Askers(b)' \subseteq Askers(b)
    BY <1>0, <2>1 DEF Askers, Asking
  <2>3. failures'[b] <= failures[b]
    BY <1>0, <2>1 DEF Admit
  <2>4. QED
    BY <2>2, <2>3 DEF Harmless
<1>9. QED
  BY <1>2, <1>3, <1>4, <1>5, <1>6, <1>7, <1>8 DEF CallStep

LEMMA StepEffect ==
  ASSUME TypeOK, [Next]_vars, NEW b \in Backends
  PROVE  Harmless(b) \/ Admits(b) \/ Counts(b)
<1>0. /\ failures[b] \in Nat
      /\ pc \in [Callers -> {"idle", "try", "wait", "fallback", "any", "visit"}]
  BY DEF TypeOK
<1>1. ASSUME NEW c, Begin(c) \/ BeginList(c)
      PROVE  Harmless(b)
  <2>1. UNCHANGED <<failures, target>> /\ pc' \in {[pc EXCEPT ![c] = "try"], [pc EXCEPT ![c] = "visit"]}
    BY <1>1 DEF Begin, BeginList, Goto, health
  <2>2. UNCHANGED pin \/ \E x : pin' = [pin EXCEPT ![c] = x]
    BY <1>1 DEF Begin, BeginList
  <2>3. \A d \in Callers : pc'[d] \in {"wait", "any"} => d # c /\ pc'[d] = pc[d]
    BY <1>0, <2>1
  <2>4. \A d \in Callers : d # c => pin'[d] = pin[d]
    BY <2>2 DEF TypeOK
  <2>5. Askers(b)' \subseteq Askers(b)
    BY <2>1, <2>3, <2>4 DEF Askers, Asking
  <2>6. QED
    BY <1>0, <2>1, <2>5 DEF Harmless
<1>2. CASE UNCHANGED vars \/ \E d \in Backends : CooldownEnds(d) \/ LimitEnds(d)
  <2>1. UNCHANGED <<failures, pc, pin, target>>
    BY <1>2 DEF vars, health, caller, CooldownEnds, LimitEnds
  <2>2. QED
    BY <1>0, <2>1 DEF Harmless, Askers, Asking
<1>3. QED
  BY <1>1, <1>2, CallEffect DEF Next

\* Only a failure or a 429 of a backend spoils its record.
LEMMA StaysSpotless ==
  ASSUME TypeOK, Spotless, [Next]_vars
  PROVE  Spotless'
<1>0. /\ failures \in [Backends -> Nat]
      /\ limited \in [Backends -> BOOLEAN]
  BY DEF TypeOK
<1>1. bad' = bad
  BY HealthTyped
<1>2. ASSUME \/ UNCHANGED <<failures, limited>>
             \/ \E d : Admit(d) /\ UNCHANGED limited
             \/ \E d : RecordSuccess(d)
             \/ \E d \in bad : RecordFailure(d) \/ RecordLimit(d)
      PROVE  Spotless'
  <2>1. CASE UNCHANGED <<failures, limited>>
    BY <1>1, <2>1 DEF Spotless
  <2>2. ASSUME NEW d, Admit(d), UNCHANGED limited PROVE Spotless'
    BY <1>0, <1>1, <2>2 DEF Admit, Spotless
  <2>3. ASSUME NEW d, RecordSuccess(d) PROVE Spotless'
    BY <1>0, <1>1, <2>3 DEF RecordSuccess, Spotless
  <2>4. ASSUME NEW d \in bad, RecordFailure(d) PROVE Spotless'
    BY <1>0, <1>1, <2>4 DEF RecordFailure, Spotless
  <2>5. ASSUME NEW d \in bad, RecordLimit(d) PROVE Spotless'
    BY <1>0, <1>1, <2>5 DEF RecordLimit, Spotless
  <2>6. QED
    BY <1>2, <2>1, <2>2, <2>3, <2>4, <2>5
<1>3. ASSUME NEW c \in Callers, CallStep(c) PROVE Spotless'
  <2>1. CASE Unavailable(c) \/ ChooseNone(c) \/ BeginSearch(c) \/ EndVisit(c)
    BY <1>2, <2>1 DEF Unavailable, ChooseNone, BeginSearch, EndVisit, health
  <2>2. CASE Request(c) \/ ChooseAny(c) \/ Visit(c)
    BY <1>2, <2>2 DEF Request, ChooseAny, Visit
  <2>3. CASE Succeed(c) \/ AnySucceeds(c)
    BY <1>2, <2>3 DEF Succeed, AnySucceeds
  <2>4. CASE Fail(c) \/ Throttle(c) \/ AnyFails(c)
    BY <1>2, <2>4 DEF Fail, Throttle, AnyFails, Chosen
  <2>5. QED
    BY <1>3, <2>1, <2>2, <2>3, <2>4 DEF CallStep
<1>4. ASSUME NEW c, Begin(c) \/ BeginList(c) PROVE Spotless'
  BY <1>2, <1>4 DEF Begin, BeginList, health
<1>5. ASSUME NEW d \in Backends, CooldownEnds(d) \/ LimitEnds(d) PROVE Spotless'
  BY <1>0, <1>1, <1>5 DEF CooldownEnds, LimitEnds, Spotless
<1>6. CASE UNCHANGED vars
  BY <1>2, <1>6 DEF vars, health
<1>7. QED
  BY <1>3, <1>4, <1>5, <1>6 DEF Next

\* The breaker of a backend opens after cbThreshold failures: no more than the
\* requests that were under way then can fail behind it, and a backend that
\* answers every request is available at any time, however badly the others
\* behave and whatever is retried or falls back.
THEOREM BreakerWorks == Spec => []BreakerSound
<1> DEFINE Inv == (\A b \in Backends : Bounded(b)) /\ Spotless
<1>1. Init => Inv
  <2> SUFFICES ASSUME Init PROVE Inv
    OBVIOUS
  <2>1. \A b \in Backends : Askers(b) = {}
    BY DEF Init, Askers, Asking
  <2>2. Cardinality({}) = 0 /\ Cardinality(Indexed) \in Nat
    BY Constants, FS_EmptySet, FS_CardinalityType
  <2>3. ASSUME NEW b \in Backends PROVE Bounded(b)
    <3>1. failures[b] = 0 /\ Cardinality(Askers(b)) = 0
      BY <2>1, <2>2 DEF Init
    <3>2. cbThreshold \in Nat /\ cbThreshold > 0
      BY Constants
    <3>3. QED
      BY <2>2, <3>1, <3>2 DEF Bounded
  <2>4. Spotless
    BY DEF Init, Spotless
  <2>5. QED
    BY <2>3, <2>4
<1>2. /\ TypeOK /\ Roles /\ Inv /\ [Next]_vars
      /\ (TypeOK /\ Roles)'
      => Inv'
  <2> SUFFICES ASSUME TypeOK, Roles, Inv, [Next]_vars, TypeOK', Roles'
               PROVE  Inv'
    OBVIOUS
  <2>1. ASSUME NEW b \in Backends PROVE Bounded(b)'
    <3>1. CASE Harmless(b)
      BY <3>1, NoWorse DEF Harmless
    <3>2. CASE Admits(b)
      BY <3>2, BelowThreshold DEF Admits
    <3>3. CASE Counts(b)
      BY <3>3, OneFails DEF Counts
    <3>4. QED
      BY <3>1, <3>2, <3>3, StepEffect
  <2>2. QED
    BY <2>1, StaysSpotless
<1>3. Inv => BreakerSound
  <2> SUFFICES ASSUME Inv PROVE BreakerSound
    OBVIOUS
  <2>1. FailuresBounded
    BY DEF Bounded, Askers, FailuresBounded
  <2>2. ASSUME NEW b \in Backends \ bad PROVE Available(b)
    <3>1. failures[b] = 0 /\ ~limited[b]
      BY <2>2 DEF Spotless
    <3>2. ~Open(b)
      BY <3>1, Constants DEF Open
    <3>3. QED
      BY <3>1, <3>2 DEF Available
  <2>3. QED
    BY <2>1, <2>2 DEF WorkingStaysAvailable, BreakerSound
<1>4. QED
  BY <1>1, <1>2, <1>3, TypeAlways, PTL DEF Spec
=============================================================================
