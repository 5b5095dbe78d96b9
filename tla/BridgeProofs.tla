---------------------------- MODULE BridgeProofs ----------------------------
(***************************************************************************)
(* That the globals name everything that runs, and that credentials are    *)
(* spent once, for any number of starts and stops.  The invariant adds to  *)
(* the properties what each start leaves behind: nothing before startProxy *)
(* begins, and nothing in the globals once there is no engine.             *)
(***************************************************************************)
EXTENDS Bridge, TLAPS

\* Before startProxy begins there is no engine; the one that runs began.
Fresh ==
  /\ \A s \in Starts : pc[s] \in {"new", "auth", "ready"} =>
       made[s] = Unmade /\ auth[s] = NoStart
  /\ eng # NoStart => pc[eng] = "done"

\* No engine, no globals.
Empty == eng = NoStart => socksLnr = NoStart /\ cancel = NoStart /\ lastCfg = NoStart

\* Credentials are pending, spent or revoked, and only once asked for.
Pending ==
  /\ pending # NoStart =>
       /\ pending \notin revoked
       /\ pc[pending] # "new"
       /\ \A t \in Starts : auth[t] # pending
  /\ \A t \in Starts : auth[t] # NoStart => pc[auth[t]] # "new"
  /\ \A t \in revoked : pc[t] # "new"

IInv == TypeOK /\ OneEngine /\ Fresh /\ Empty /\ Pending

LEMMA InitIInv == Init => IInv
  <1> SUFFICES ASSUME Init PROVE IInv
    OBVIOUS
  <1>1. TypeOK
    <2>1. Unmade \in Engine
      BY DEF Unmade, Engine
    <2>2. stops \in 0..MaxStops
      <3>1. MaxStops \in Nat
        BY BridgeAssumption DEF BridgeAssumption
      <3>2. stops = 0
        BY DEF Init
      <3> QED BY <3>1, <3>2
    <2>3. NoStart \in Owner
      BY DEF Owner
    <2> QED BY <2>1, <2>2, <2>3 DEF Init, TypeOK
  <1>2. OneEngine
    BY DEF Init, OneEngine, Whole, NoOrphan, Unmade
  <1>3. Fresh /\ Empty /\ Pending
    BY DEF Init, Fresh, Empty, Pending
  <1> QED BY <1>1, <1>2, <1>3 DEF IInv

-----------------------------------------------------------------------------
(* The way to startProxy.                                                   *)

LEMMA AuthStep ==
  ASSUME IInv, NEW s \in Starts, SetSocks5Auth(s)
  PROVE  IInv'
  <1> USE DEF SetSocks5Auth, globals, errors, life
  <1>1. pc' \in [Starts -> {"new", "auth", "ready", "failed", "done"}]
    BY DEF IInv, TypeOK
  <1>2. pending' \in Owner
    BY DEF IInv, TypeOK, Owner
  <1>3. TypeOK'
    BY <1>1, <1>2 DEF IInv, TypeOK
  <1>4. OneEngine' /\ Empty'
    BY DEF IInv, OneEngine, Whole, NoOrphan, Empty
  <1>5. pc'[s] = "auth" /\ \A t \in Starts : t # s => pc'[t] = pc[t]
    BY DEF IInv, TypeOK
  <1>6. eng \in Owner
    BY DEF IInv, TypeOK
  <1>7. Fresh'
    BY <1>5, <1>6 DEF IInv, Fresh, Owner
  <1>8. Pending'
    <2>1. \A t \in revoked : t # s
      BY DEF IInv, Pending
    <2>2. \A t \in Starts : auth[t] # s
      BY BridgeAssumption DEF BridgeAssumption, IInv, Pending
    <2>3. revoked \subseteq Starts /\ \A t \in Starts : auth[t] \in Owner
      BY DEF IInv, TypeOK
    <2>4. CASE pending' = s
      BY <2>4, <2>1, <2>2, <2>3, <1>5 DEF IInv, Pending, Owner
    <2>5. CASE pending' = NoStart
      BY <2>5, <2>3, <1>5 DEF IInv, Pending, Owner
    <2>6. CASE pending' = pending
      BY <2>6, <2>3, <1>5, <1>2 DEF IInv, Pending, Owner
    <2> QED BY <2>4, <2>5, <2>6
  <1> QED BY <1>3, <1>4, <1>7, <1>8 DEF IInv

\* Every step that moves the caller of one start past SetSocks5Auth and
\* leaves what runs alone.
LEMMA CallerStep ==
  ASSUME IInv, NEW s \in Starts, NEW k \in {"ready", "failed"},
         pc[s] \in {"auth", "ready"}, pc' = [pc EXCEPT ![s] = k],
         pending' \in {pending, NoStart},
         conf' \in [Starts -> {"none", "plain", "limit"}],
         \A t \in Starts : t # s => conf'[t] = conf[t],
         lastErrCode' \in {"", "runtime"},
         UNCHANGED <<globals, errFull, life, stops, revoked>>
  PROVE  IInv'
  <1> USE DEF globals, life
  <1>1. pc' \in [Starts -> {"new", "auth", "ready", "failed", "done"}]
    BY DEF IInv, TypeOK
  <1>2. pending' \in Owner
    BY DEF IInv, TypeOK, Owner
  <1>3. TypeOK'
    BY <1>1, <1>2 DEF IInv, TypeOK
  <1>4. eng \in Owner /\ eng # s
    BY BridgeAssumption DEF BridgeAssumption, IInv, TypeOK, Fresh
  <1>5. OneEngine' /\ Empty'
    BY <1>4 DEF IInv, OneEngine, Whole, NoOrphan, Empty, Owner
  <1>6. pc'[s] = k /\ \A t \in Starts : t # s => pc'[t] = pc[t]
    BY DEF IInv, TypeOK
  <1>7. Fresh'
    BY <1>4, <1>6 DEF IInv, Fresh, Owner
  <1>8. Pending'
    <2>1. revoked \subseteq Starts /\ \A t \in Starts : auth[t] \in Owner
      BY DEF IInv, TypeOK
    <2>2. \A t \in Starts : pc[t] # "new" => pc'[t] # "new"
      BY <1>6
    <2> QED BY <1>2, <2>1, <2>2 DEF IInv, Pending, Owner
  <1> QED BY <1>3, <1>5, <1>7, <1>8 DEF IInv

LEMMA EarlySteps ==
  ASSUME IInv, NEW s \in Starts,
         ReadConfig(s) \/ AlreadyRunning(s) \/ NoBackend(s)
  PROVE  IInv'
  <1>0. TypeOK
    BY DEF IInv
  <1>1. CASE ReadConfig(s)
    <2>1. /\ conf' \in [Starts -> {"none", "plain", "limit"}]
          /\ \A t \in Starts : t # s => conf'[t] = conf[t]
      BY <1>0, <1>1 DEF ReadConfig, TypeOK
    <2>2. lastErrCode' \in {"", "runtime"}
      BY <1>0, <1>1 DEF ReadConfig, TypeOK, errors
    <2>3. UNCHANGED <<globals, errFull, life, stops, revoked>> /\ pending' = pending
      BY <1>1 DEF ReadConfig, errors
    <2>4. pc[s] = "auth" /\ \E k \in {"ready", "failed"} : pc' = [pc EXCEPT ![s] = k]
      BY <1>1 DEF ReadConfig
    <2> QED BY <2>1, <2>2, <2>3, <2>4, CallerStep
  <1>2. CASE AlreadyRunning(s)
    <2>1. conf' = conf /\ lastErrCode' = "" /\ pending' = pending
      BY <1>2 DEF AlreadyRunning
    <2>2. UNCHANGED <<globals, errFull, life, stops, revoked>>
      BY <1>2 DEF AlreadyRunning
    <2>3. pc[s] = "ready" /\ pc' = [pc EXCEPT ![s] = "failed"]
      BY <1>2 DEF AlreadyRunning
    <2> QED BY <1>0, <2>1, <2>2, <2>3, CallerStep DEF TypeOK
  <1>3. CASE NoBackend(s)
    <2>1. conf' = conf /\ lastErrCode' = "" /\ pending' = NoStart
      BY <1>3 DEF NoBackend, Begins
    <2>2. UNCHANGED <<globals, errFull, life, stops, revoked>>
      BY <1>3 DEF NoBackend
    <2>3. pc[s] = "ready" /\ pc' = [pc EXCEPT ![s] = "failed"]
      BY <1>3 DEF NoBackend, Begins
    <2> QED BY <1>0, <2>1, <2>2, <2>3, CallerStep DEF TypeOK
  <1> QED BY <1>1, <1>2, <1>3

-----------------------------------------------------------------------------
(* An engine is made.                                                       *)

LEMMA BeginStep ==
  ASSUME IInv, NEW s \in Starts, ListenFails(s) \/ Succeeds(s)
  PROVE  IInv'
  <1> DEFINE k == IF Succeeds(s) THEN "done" ELSE "failed"
             m == IF Succeeds(s) THEN Running ELSE Abandoned
  <1>1. /\ pc[s] = "ready" /\ eng = NoStart
        /\ lastErrCode' = "" /\ pending' = NoStart
        /\ pc' = [pc EXCEPT ![s] = k] /\ made' = [made EXCEPT ![s] = m]
        /\ auth' = [auth EXCEPT ![s] = pending]
        /\ limits' = LimitsOf(s)
        /\ UNCHANGED <<conf, stops, revoked>>
    BY DEF ListenFails, Succeeds, Begins
  <1>2. \/ Succeeds(s)
        \/ ~Succeeds(s) /\ UNCHANGED <<globals, errFull, serve>>
    BY DEF ListenFails
  <1> HIDE DEF k, m
  <1>3. k \in {"failed", "done"} /\ (Succeeds(s) => k = "done")
    BY DEF k
  <1>4. /\ m.engine \in {"running", "stopped"} /\ m.ctx \in {"live", "cancelled"}
        /\ m.lnr \in {"none", "open"} /\ m.keys = "held"
        /\ m = [engine |-> m.engine, ctx |-> m.ctx, lnr |-> m.lnr, keys |-> m.keys]
        /\ Succeeds(s) => m = Running
        /\ ~Succeeds(s) => m.engine = "stopped" /\ m.ctx = "cancelled" /\ m.lnr = "none"
    BY DEF m, Running, Abandoned
  <1>5. /\ pc'[s] = k /\ made'[s] = m /\ auth'[s] = pending
        /\ \A t \in Starts : t # s =>
             pc'[t] = pc[t] /\ made'[t] = made[t] /\ auth'[t] = auth[t]
    BY <1>1 DEF IInv, TypeOK
  <1>6. TypeOK'
    <2>1. /\ pc' \in [Starts -> {"new", "auth", "ready", "failed", "done"}]
          /\ auth' \in [Starts -> Owner]
      BY <1>1, <1>3 DEF IInv, TypeOK
    <2>2. made' \in [Starts -> Engine]
      <3>1. m \in Engine
        BY <1>4 DEF Engine
      <3> QED BY <3>1, <1>1 DEF IInv, TypeOK
    <2>3. pending' \in Owner /\ limits' \in Owner
      BY <1>1 DEF LimitsOf, Owner
    <2>4. /\ eng' \in Owner /\ socksLnr' \in Owner /\ cancel' \in Owner
          /\ lastCfg' \in Owner /\ socksErrCh' \in Owner
          /\ errFull' \in BOOLEAN
          /\ serve' \in [Starts -> {"none", "run", "error", "panic", "over"}]
      BY <1>2 DEF Succeeds, globals, IInv, TypeOK, Owner
    <2> QED BY <1>1, <2>1, <2>2, <2>3, <2>4 DEF IInv, TypeOK
  <1>7. OneEngine' /\ Empty'
    <2>1. CASE Succeeds(s)
      <3>1. eng' = s /\ socksLnr' = s /\ cancel' = s /\ lastCfg' = s /\ socksErrCh' = s
        BY <2>1 DEF Succeeds
      <3>2. Whole'
        BY <3>1, <2>1, <1>1, <1>4, <1>5 DEF Whole, LimitsOf, Running
      <3>3. NoOrphan'
        BY <3>1, <1>1, <1>5, BridgeAssumption DEF BridgeAssumption, IInv, OneEngine, NoOrphan
      <3>4. Empty'
        BY <3>1, BridgeAssumption DEF BridgeAssumption, Empty
      <3> QED BY <3>2, <3>3, <3>4 DEF OneEngine
    <2>2. CASE ~Succeeds(s) /\ UNCHANGED <<globals, errFull, serve>>
      <3>1. eng' = NoStart /\ UNCHANGED <<socksLnr, cancel, lastCfg>>
        BY <2>2, <1>1 DEF globals
      <3> QED BY <3>1, <2>2, <1>1, <1>4, <1>5
              DEF IInv, OneEngine, Whole, NoOrphan, Empty
    <2> QED BY <1>2, <2>1, <2>2
  <1>8. Fresh'
    <2>1. CASE Succeeds(s)
      BY <2>1, <1>3, <1>5 DEF Succeeds, IInv, Fresh
    <2>2. CASE ~Succeeds(s) /\ UNCHANGED <<globals, errFull, serve>>
      BY <2>2, <1>1, <1>3, <1>5 DEF globals, IInv, Fresh
    <2> QED BY <1>2, <2>1, <2>2
  <1>9. Pending'
    <2>1. revoked \subseteq Starts /\ pending \in Owner /\ \A t \in Starts : auth[t] \in Owner
      BY DEF IInv, TypeOK
    <2>2. \A t \in Starts : pc[t] # "new" => pc'[t] # "new"
      BY <1>3, <1>5
    <2>3. ASSUME NEW t \in Starts, auth'[t] # NoStart
          PROVE  pc'[auth'[t]] # "new"
      <3>1. auth'[t] = auth[t] \/ auth'[t] = pending
        BY <1>5
      <3>2. auth'[t] \in Starts /\ pc[auth'[t]] # "new"
        BY <3>1, <2>1, <2>3 DEF IInv, Pending, Owner
      <3> QED BY <3>2, <2>2
    <2>4. \A t \in revoked : pc'[t] # "new"
      BY <2>1, <2>2 DEF IInv, Pending
    <2> QED BY <1>1, <2>3, <2>4 DEF Pending
  <1> QED BY <1>6, <1>7, <1>8, <1>9 DEF IInv

-----------------------------------------------------------------------------
(* Stops.                                                                   *)

\* The engine the globals name is released, any other stays what it is.
LEMMA ReleasedFacts ==
  ASSUME NEW s \in Starts, made[s] \in Engine,
         socksLnr = eng, cancel = eng, lastCfg = eng,
         s # eng => /\ made[s].engine # "running" /\ made[s].ctx # "live"
                    /\ made[s].lnr # "open"
  PROVE  /\ Released(s) \in Engine
         /\ Released(s).engine # "running"
         /\ Released(s).ctx # "live" /\ Released(s).lnr # "open"
         /\ s # eng => Released(s) = made[s]
  <1>1. made[s] = [engine |-> made[s].engine, ctx |-> made[s].ctx,
                   lnr |-> made[s].lnr, keys |-> made[s].keys]
    BY DEF Engine
  <1>2. CASE s = eng
    <2>1. Released(s) = [engine |-> "stopped", ctx |-> "cancelled",
                         lnr |-> "closed", keys |-> "wiped"]
      <3>1. Released(s) = [made[s] EXCEPT !.lnr = "closed", !.ctx = "cancelled",
                                          !.engine = "stopped", !.keys = "wiped"]
        BY <1>2 DEF Released
      <3> QED BY <1>1, <3>1
    <2> QED BY <1>2, <2>1 DEF Engine
  <1>3. CASE s # eng
    <2>1. Released(s) = made[s]
      BY <1>1, <1>3 DEF Released
    <2> QED BY <1>3, <2>1
  <1> QED BY <1>2, <1>3

\* stopLocked, from whoever calls it.
LEMMA StopStep ==
  ASSUME IInv, StopLocked,
         errFull' \in BOOLEAN, lastErrCode' \in {"", "runtime"}, stops' \in 0..MaxStops,
         serve' \in [Starts -> {"none", "run", "error", "panic", "over"}]
  PROVE  IInv'
  <1>1. /\ pending' = NoStart /\ revoked' = Asked
        /\ UNCHANGED <<pc, conf, socksErrCh, limits, auth>>
    BY DEF StopLocked, Cleared
  <1>2. CASE eng = NoStart
    <2>1. UNCHANGED <<eng, socksLnr, cancel, lastCfg, made>>
      BY <1>2 DEF StopLocked
    <2>2. TypeOK'
      BY <1>1, <2>1 DEF IInv, TypeOK, Owner, Asked
    <2>3. OneEngine' /\ Fresh' /\ Empty'
      BY <1>1, <1>2, <2>1 DEF IInv, OneEngine, Whole, NoOrphan, Fresh, Empty
    <2>4. Pending'
      BY <1>1 DEF IInv, Pending, Asked
    <2> QED BY <2>2, <2>3, <2>4 DEF IInv
  <1>3. CASE eng # NoStart
    <2>1. /\ made' = [s \in Starts |-> Released(s)]
          /\ eng' = NoStart /\ socksLnr' = NoStart /\ cancel' = NoStart /\ lastCfg' = NoStart
      BY <1>3 DEF StopLocked
    <2>2. socksLnr = eng /\ cancel = eng /\ lastCfg = eng /\ eng \in Starts
      BY <1>3 DEF IInv, OneEngine, Whole, TypeOK, Owner
    <2>3. ASSUME NEW s \in Starts
          PROVE  /\ Released(s) \in Engine
                 /\ Released(s).engine # "running"
                 /\ Released(s).ctx # "live" /\ Released(s).lnr # "open"
                 /\ s # eng => Released(s) = made[s]
      <3>1. made[s] \in Engine
        BY DEF IInv, TypeOK
      <3>2. s # eng =>
              /\ made[s].engine # "running" /\ made[s].ctx # "live"
              /\ made[s].lnr # "open"
        BY DEF IInv, OneEngine, NoOrphan
      <3> QED BY <2>2, <3>1, <3>2, ReleasedFacts
    <2>4. TypeOK'
      <3>1. made' \in [Starts -> Engine]
        BY <2>1, <2>3
      <3> QED BY <1>1, <2>1, <3>1 DEF IInv, TypeOK, Owner, Asked
    <2>5. OneEngine' /\ Empty'
      BY <2>1, <2>3 DEF OneEngine, Whole, NoOrphan, Empty
    <2>6. Fresh'
      <3>1. pc[eng] = "done"
        BY <1>3 DEF IInv, Fresh
      <3> QED BY <1>1, <2>1, <2>3, <3>1 DEF IInv, Fresh
    <2>7. Pending'
      BY <1>1 DEF IInv, Pending, Asked
    <2> QED BY <2>4, <2>5, <2>6, <2>7 DEF IInv
  <1> QED BY <1>2, <1>3

\* Steps of the serving goroutine that leave the mutex alone.
LEMMA ServeSteps ==
  ASSUME IInv, NEW s \in Starts, ServeDies(s) \/ ServeEnds(s)
  PROVE  IInv'
  <1>1. serve' \in [Starts -> {"none", "run", "error", "panic", "over"}]
    BY DEF IInv, TypeOK, ServeDies, ServeEnds
  <1>2. UNCHANGED <<pc, conf, pending, globals, errors, limits, made, auth, stops, revoked>>
    BY DEF ServeDies, ServeEnds
  <1>3. TypeOK'
    BY <1>1, <1>2 DEF IInv, TypeOK, globals, errors
  <1>4. OneEngine' /\ Fresh' /\ Empty' /\ Pending'
    BY <1>2 DEF IInv, OneEngine, Whole, NoOrphan, Fresh, Empty, Pending, globals
  <1> QED BY <1>3, <1>4 DEF IInv

LEMMA StopSteps ==
  ASSUME IInv, StopProxy \/ StopAndError \/ \E s \in Starts : Report(s)
  PROVE  IInv'
  <1>0. TypeOK /\ MaxStops \in Nat
    BY BridgeAssumption DEF BridgeAssumption, IInv
  <1>4. StopProxy \/ StopAndError => stops' \in 0..MaxStops
    <2>1. stops \in 0..MaxStops
      BY <1>0 DEF TypeOK
    <2>2. StopProxy \/ StopAndError => stops < MaxStops /\ stops' = stops + 1
      BY DEF StopProxy, StopAndError
    <2>3. stops < MaxStops /\ stops' = stops + 1 => stops' \in 0..MaxStops
      BY <1>0, <2>1
    <2> QED BY <2>2, <2>3
  <1>1. CASE StopProxy
    <2>1. StopLocked /\ UNCHANGED <<errFull, lastErrCode, serve>>
      BY <1>1 DEF StopProxy, errors
    <2> QED BY <1>0, <1>1, <1>4, <2>1, StopStep DEF TypeOK
  <1>2. CASE StopAndError
    <2>1. StopLocked /\ errFull' = FALSE /\ UNCHANGED <<lastErrCode, serve>>
      BY <1>2 DEF StopAndError
    <2> QED BY <1>0, <1>2, <1>4, <2>1, StopStep DEF TypeOK
  <1>3. CASE \E s \in Starts : Report(s)
    <2>1. PICK s \in Starts : Report(s)
      BY <1>3
    <2>2. serve' \in [Starts -> {"none", "run", "error", "panic", "over"}]
      BY <1>0, <2>1 DEF Report, TypeOK
    <2>3. errFull' \in BOOLEAN
      BY <1>0, <2>1 DEF Report, TypeOK
    <2> QED BY <1>0, <2>1, <2>2, <2>3, StopStep DEF Report, TypeOK
  <1> QED BY <1>1, <1>2, <1>3

LEMMA NextIInv ==
  ASSUME IInv, [Next]_vars
  PROVE  IInv'
  <1>1. CASE UNCHANGED vars
    BY <1>1 DEF vars, globals, errors, life, IInv, TypeOK, OneEngine, Whole, NoOrphan,
                Fresh, Empty, Pending
  <1>2. CASE Next
    BY <1>2, AuthStep, EarlySteps, BeginStep, ServeSteps, StopSteps
       DEF Next, StartStep, ServeStep
  <1> QED BY <1>1, <1>2

\* Credentials reach an engine only from those pending.
LEMMA NextSpent ==
  ASSUME IInv, [Next]_vars
  PROVE  Spent
  <1>1. CASE \E s \in Starts : ListenFails(s) \/ Succeeds(s)
    <2>1. PICK s \in Starts : ListenFails(s) \/ Succeeds(s)
      BY <1>1
    <2>2. auth' = [auth EXCEPT ![s] = pending] /\ pc[s] = "ready"
      BY <2>1 DEF ListenFails, Succeeds, Begins
    <2>3. auth[s] = NoStart /\ auth \in [Starts -> Owner]
      BY <2>2 DEF IInv, Fresh, TypeOK
    <2> QED BY <2>2, <2>3 DEF IInv, Pending, Spent
  <1>2. CASE ~\E s \in Starts : ListenFails(s) \/ Succeeds(s)
    <2>1. auth' = auth
      BY <1>2 DEF Next, vars, life, StartStep, ServeStep, SetSocks5Auth, ReadConfig,
                  AlreadyRunning, NoBackend, ServeDies, ServeEnds, Report, StopProxy,
                  StopAndError, StopLocked
    <2> QED BY <2>1 DEF Spent
  <1> QED BY <1>1, <1>2

-----------------------------------------------------------------------------

\* Every global of the bridge names a start or nothing, and every start stands
\* at one of its calls.
THEOREM BridgeTypeCorrect == Spec => []TypeOK
  <1>1. Init => IInv
    BY InitIInv
  <1>2. IInv /\ [Next]_vars => IInv'
    BY NextIInv
  <1>3. IInv => TypeOK
    BY DEF IInv
  <1> QED BY <1>1, <1>2, <1>3, PTL DEF Spec

\* At most one engine runs, the one the globals name, with everything that is
\* its own (startProxy and stopLocked, in any order of calls).
THEOREM OneEngineHolds == Spec => []OneEngine
  <1>1. Init => IInv
    BY InitIInv
  <1>2. IInv /\ [Next]_vars => IInv'
    BY NextIInv
  <1>3. IInv => OneEngine
    BY DEF IInv
  <1> QED BY <1>1, <1>2, <1>3, PTL DEF Spec

\* SetSocks5Auth's credentials serve one start, and none after a stop.
THEOREM CredentialsSpentHold == Spec => CredentialsSpent
  <1>1. Init => IInv
    BY InitIInv
  <1>2. IInv /\ [Next]_vars => IInv'
    BY NextIInv
  <1>3. IInv /\ [Next]_vars => [Spent]_vars
    BY NextSpent
  <1> QED BY <1>1, <1>2, <1>3, PTL DEF Spec, CredentialsSpent
=============================================================================
