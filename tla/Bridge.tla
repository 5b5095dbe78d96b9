------------------------------- MODULE Bridge -------------------------------
(***************************************************************************)
(* The engine's switch on Android (cmd/android/bridge.go): globals under   *)
(* one mutex hold at most one engine.  The app starts it from its screen,  *)
(* its service's watchdog, the tile and the boot receiver, and none of     *)
(* them waits for another (ProxyManager.kt, ProxyService.kt, LastRun.kt):  *)
(* a start is three calls - the SOCKS5 credentials, the configuration,     *)
(* startProxy - and the calls of other starts, stops and the report of a   *)
(* server that died come in between.                                       *)
(*                                                                         *)
(* What runs under the mutex is one step.  An engine is named by the start *)
(* that made it.                                                           *)
(***************************************************************************)
EXTENDS Integers

CONSTANTS
  Starts,    \* the starts of the app's life
  NoStart,   \* none of them: nil
  MaxStops   \* bound: calls of StopProxy and StopAndError

ASSUME BridgeAssumption == NoStart \notin Starts /\ MaxStops \in Nat

VARIABLES
  pc,       \* pc[s]: where the caller of start s stands
  conf,     \* conf[s]: whether its configuration sets max_message_size
  pending,  \* whose credentials pendingSocks5User and -Pass are
  eng, socksLnr, cancel, lastCfg, socksErrCh,   \* whose they are
  errFull,  \* socksErrCh holds an error
  lastErrCode,
  limits,   \* whose MaxMessageSize and MaxFileSize are; NoStart: the defaults
  made,     \* made[s]: the engine of s, its context, listener and keys
  serve,    \* serve[s]: the goroutine that serves its listener
  auth,     \* auth[s]: whose credentials its SOCKS5 server asks for
  stops,    \* stops so far
  revoked   \* history: the starts whose credentials were set before a stop

globals == <<eng, socksLnr, cancel, lastCfg, socksErrCh>>
errors  == <<errFull, lastErrCode>>
life    == <<limits, made, serve, auth>>
vars    == <<pc, conf, pending, globals, errors, life, stops, revoked>>

Unmade == [engine |-> "none", ctx |-> "none", lnr |-> "none", keys |-> "none"]

Init ==
  /\ pc = [s \in Starts |-> "new"]
  /\ conf = [s \in Starts |-> "none"]
  /\ pending = NoStart
  /\ eng = NoStart /\ socksLnr = NoStart /\ cancel = NoStart
  /\ lastCfg = NoStart /\ socksErrCh = NoStart
  /\ errFull = FALSE /\ lastErrCode = ""
  /\ limits = NoStart
  /\ made = [s \in Starts |-> Unmade]
  /\ serve = [s \in Starts |-> "none"]
  /\ auth = [s \in Starts |-> NoStart]
  /\ stops = 0
  /\ revoked = {}

-----------------------------------------------------------------------------
(* A start, up to startProxy.                                               *)

\* A pair, a pair of which one half is missing, or no call at all.
SetSocks5Auth(s) ==
  /\ pc[s] = "new"
  /\ pc' = [pc EXCEPT ![s] = "auth"]
  /\ pending' \in {s, NoStart, pending}
  /\ UNCHANGED <<conf, globals, errors, life, stops, revoked>>

\* StartProxyFromData and StartProxyManual: parse, decrypt, validate.
ReadConfig(s) ==
  /\ pc[s] = "auth"
  /\ \/ pc' = [pc EXCEPT ![s] = "failed"] /\ UNCHANGED conf
     \/ /\ pc' = [pc EXCEPT ![s] = "ready"]
        /\ \E k \in {"plain", "limit"} : conf' = [conf EXCEPT ![s] = k]
  /\ UNCHANGED <<pending, globals, errors, life, stops, revoked>>

-----------------------------------------------------------------------------
(* startProxy.                                                              *)

AlreadyRunning(s) ==
  /\ pc[s] = "ready"
  /\ eng # NoStart
  /\ pc' = [pc EXCEPT ![s] = "failed"]
  /\ lastErrCode' = ""
  /\ UNCHANGED <<conf, pending, globals, errFull, life, stops, revoked>>

\* From here on the pending credentials are spent.
Begins(s) ==
  /\ pc[s] = "ready"
  /\ eng = NoStart
  /\ lastErrCode' = ""
  /\ pending' = NoStart

\* The overlaid configuration is invalid, or no backend answers.
NoBackend(s) ==
  /\ Begins(s)
  /\ pc' = [pc EXCEPT ![s] = "failed"]
  /\ UNCHANGED <<conf, globals, errFull, life, stops, revoked>>

\* A slip: a configuration without the field keeps the last one's.
LimitsKept(s) == IF conf[s] = "limit" THEN s ELSE limits

\* ApplyConfigToEngine.
LimitsOf(s) == IF conf[s] = "limit" THEN s ELSE NoStart

\* A slip: the engine is left to its context.
OnlyCancelled == [engine |-> "running", ctx |-> "cancelled", lnr |-> "none", keys |-> "held"]

\* What a start leaves that gets no listener: its keys are not wiped.
Abandoned == [engine |-> "stopped", ctx |-> "cancelled", lnr |-> "none", keys |-> "held"]

ListenFails(s) ==
  /\ Begins(s)
  /\ pc' = [pc EXCEPT ![s] = "failed"]
  /\ limits' = LimitsOf(s)
  /\ made' = [made EXCEPT ![s] = Abandoned]
  /\ auth' = [auth EXCEPT ![s] = pending]
  /\ UNCHANGED <<conf, globals, errFull, serve, stops, revoked>>

Running == [engine |-> "running", ctx |-> "live", lnr |-> "open", keys |-> "held"]

Succeeds(s) ==
  /\ Begins(s)
  /\ pc' = [pc EXCEPT ![s] = "done"]
  /\ limits' = LimitsOf(s)
  /\ made' = [made EXCEPT ![s] = Running]
  /\ auth' = [auth EXCEPT ![s] = pending]
  /\ serve' = [serve EXCEPT ![s] = "run"]
  /\ eng' = s /\ socksLnr' = s /\ cancel' = s /\ lastCfg' = s /\ socksErrCh' = s
  /\ errFull' = FALSE
  /\ UNCHANGED <<conf, stops, revoked>>

-----------------------------------------------------------------------------
(* stopLocked and its callers.                                              *)

\* A slip: nothing runs, nothing to clear.
ClearedWithEngine == IF eng = NoStart THEN pending ELSE NoStart

\* The credentials go before the early return.
Cleared == NoStart

\* What is left of an engine when the globals that name it let go.
Released(s) ==
  [made[s] EXCEPT !.lnr    = IF s = socksLnr THEN "closed" ELSE @,
                  !.ctx    = IF s = cancel THEN "cancelled" ELSE @,
                  !.engine = IF s = eng THEN "stopped" ELSE @,
                  !.keys   = IF s = lastCfg THEN "wiped" ELSE @]

\* Whose credentials were set at all.
Asked == {s \in Starts : pc[s] # "new"}

StopLocked ==
  /\ pending' = Cleared
  /\ revoked' = Asked
  /\ IF eng = NoStart
     THEN UNCHANGED <<eng, socksLnr, cancel, lastCfg, made>>
     ELSE /\ made' = [s \in Starts |-> Released(s)]
          /\ eng' = NoStart /\ socksLnr' = NoStart /\ cancel' = NoStart /\ lastCfg' = NoStart
  /\ UNCHANGED <<pc, conf, socksErrCh, limits, auth>>

StopProxy ==
  /\ stops < MaxStops
  /\ stops' = stops + 1
  /\ StopLocked
  /\ UNCHANGED <<errors, serve>>

\* The error waiting in the channel is the answer.
StopAndError ==
  /\ stops < MaxStops
  /\ stops' = stops + 1
  /\ errFull' = FALSE
  /\ StopLocked
  /\ UNCHANGED <<lastErrCode, serve>>

\* Accept fails, or Serve panics, and the goroutine waits for the mutex.
ServeDies(s) ==
  /\ serve[s] = "run" /\ made[s].lnr = "open"
  /\ \E k \in {"error", "panic"} : serve' = [serve EXCEPT ![s] = k]
  /\ UNCHANGED <<pc, conf, pending, globals, errors, limits, made, auth, stops, revoked>>

\* net.ErrClosed is no error.
ServeEnds(s) ==
  /\ serve[s] = "run" /\ made[s].lnr = "closed"
  /\ serve' = [serve EXCEPT ![s] = "over"]
  /\ UNCHANGED <<pc, conf, pending, globals, errors, limits, made, auth, stops, revoked>>

\* It reports to the channel, and stops the engine, that are there by then.
Report(s) ==
  /\ serve[s] \in {"error", "panic"}
  /\ serve' = [serve EXCEPT ![s] = "over"]
  /\ errFull' = (errFull \/ (serve[s] = "error" /\ socksErrCh # NoStart))
  /\ lastErrCode' = "runtime"
  /\ StopLocked
  /\ UNCHANGED stops

StartStep(s) ==
  \/ SetSocks5Auth(s) \/ ReadConfig(s)
  \/ AlreadyRunning(s) \/ NoBackend(s) \/ ListenFails(s) \/ Succeeds(s)

ServeStep(s) == ServeDies(s) \/ ServeEnds(s) \/ Report(s)

Next ==
  \/ \E s \in Starts : StartStep(s) \/ ServeStep(s)
  \/ StopProxy \/ StopAndError

Spec == Init /\ [][Next]_vars

-----------------------------------------------------------------------------
(* Properties.                                                              *)

Owner == Starts \cup {NoStart}

Engine == [engine : {"none", "running", "stopped"},
           ctx    : {"none", "live", "cancelled"},
           lnr    : {"none", "open", "closed"},
           keys   : {"none", "held", "wiped"}]

TypeOK ==
  /\ pc \in [Starts -> {"new", "auth", "ready", "failed", "done"}]
  /\ conf \in [Starts -> {"none", "plain", "limit"}]
  /\ pending \in Owner /\ limits \in Owner
  /\ eng \in Owner /\ socksLnr \in Owner /\ cancel \in Owner
  /\ lastCfg \in Owner /\ socksErrCh \in Owner
  /\ errFull \in BOOLEAN /\ lastErrCode \in {"", "runtime"}
  /\ made \in [Starts -> Engine]
  /\ serve \in [Starts -> {"none", "run", "error", "panic", "over"}]
  /\ auth \in [Starts -> Owner]
  /\ stops \in 0..MaxStops
  /\ revoked \subseteq Starts

\* The engine that runs is whole: listener, context, keys and error channel
\* are its own, and so are the limits of the process, which no earlier start
\* leaves behind.
Whole ==
  eng # NoStart =>
    /\ socksLnr = eng /\ cancel = eng /\ lastCfg = eng /\ socksErrCh = eng
    /\ made[eng] = Running
    /\ limits = IF conf[eng] = "limit" THEN eng ELSE NoStart

\* Whatever starts, stops and late errors came in which order: an engine the
\* globals have let go of neither runs nor listens.
NoOrphan ==
  \A s \in Starts : s # eng =>
    /\ made[s].engine # "running" /\ made[s].ctx # "live" /\ made[s].lnr # "open"

OneEngine == Whole /\ NoOrphan

\* Credentials serve one start, and none after a stop (bridge.go:275-278).
Spent ==
  \A s \in Starts : auth'[s] # auth[s] =>
    /\ auth'[s] \notin revoked
    /\ \A t \in Starts : auth[t] # auth'[s]

CredentialsSpent == [][Spent]_vars
=============================================================================
