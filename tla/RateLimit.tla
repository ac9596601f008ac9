----------------------------- MODULE RateLimit -----------------------------
(***************************************************************************)
(* One endpoint of the thscore client: `get` first waits for the limiter   *)
(* of its path (golang.org/x/time/rate, burst 1), which every loop that    *)
(* calls the endpoint shares.  A run makes its calls one after the other.  *)
(* schedule/basic.aspx has three callers: schedule (three dates),          *)
(* schedule-ahead (six) and schedule-modify (batches of fifty matches).    *)
(* The limiters live in the memory of the process: one that starts has     *)
(* fresh ones.                                                             *)
(***************************************************************************)
EXTENDS Integers, FiniteSets

CONSTANTS
  Caller,       \* the loops that share the endpoint
  CallsOf,      \* how many calls a run of each makes
  Every,        \* the limiter's interval
  Latency,      \* the longest a call takes: http.Client's Timeout
  MaxRuns,      \* bound: runs started
  MaxRestarts,  \* bound: restarts of the process
  Horizon       \* bound: when a run may start

ASSUME CallerAssumption == IsFiniteSet(Caller) /\ CallsOf \in [Caller -> Nat \ {0}]
ASSUME EveryAssumption  == Every \in Nat \ {0} /\ Latency \in Nat
ASSUME RestartAssumption == MaxRestarts \in Nat

VARIABLES
  time,
  slot,       \* the limiter: when the next token is there
  lpc,        \* each loop: "off", "ask", "wait", "call"
  until,      \* when its wait or its call ends
  left,       \* the calls its run has still to make
  askedAt, startedAt,   \* history: when it asked, when its run began
  lastCall,   \* history: when the endpoint was last called, by whichever process
  fresh,      \* history: this process has not called it yet
  runs, restarts

sent      == <<lastCall, fresh>>
limitVars == <<time, slot, lpc, until, left, askedAt, startedAt, sent, runs, restarts>>

ForCallers(x) == [c \in Caller |-> x]
Latest(a, b)  == IF a < b THEN b ELSE a

LimitInit ==
  /\ time = 0 /\ slot = 0
  /\ lpc = ForCallers("off") /\ until = ForCallers(0) /\ left = ForCallers(0)
  /\ askedAt = ForCallers(0) /\ startedAt = ForCallers(0)
  /\ lastCall = -Every /\ fresh = TRUE
  /\ runs = 0 /\ restarts = 0

\* Nobody is late: a goroutine whose wait or call is over goes on at once.
Passes ==
  /\ \A c \in Caller : lpc[c] # "ask" /\ (lpc[c] \in {"wait", "call"} => time < until[c])
  /\ time < Horizon \/ \E c \in Caller : lpc[c] # "off"
  /\ time' = time + 1
  /\ UNCHANGED <<slot, lpc, until, left, askedAt, startedAt, sent, runs, restarts>>

StartRun(c) ==
  /\ lpc[c] = "off" /\ time < Horizon /\ runs < MaxRuns
  /\ runs' = runs + 1
  /\ lpc' = [lpc EXCEPT ![c] = "ask"]
  /\ left' = [left EXCEPT ![c] = CallsOf[c]]
  /\ startedAt' = [startedAt EXCEPT ![c] = time]
  /\ UNCHANGED <<time, slot, until, askedAt, sent, restarts>>

\* Two tokens reserved for a call: WaitBounded.  A burst of two: CallsSpaced.
Token_Bug == Latest(time, slot) + Every
Token_BurstBug == Latest(time, slot - Every)
Token == Latest(time, slot)

\* limiter.Wait: reserve the next token and sleep until it is there.
Reserved(c) ==
  /\ lpc[c] = "ask"
  /\ slot' = Token + Every
  /\ until' = [until EXCEPT ![c] = Token]
  /\ askedAt' = [askedAt EXCEPT ![c] = time]
  /\ lpc' = [lpc EXCEPT ![c] = "wait"]
  /\ UNCHANGED <<time, left, startedAt, sent, runs, restarts>>

Call(c) ==
  /\ lpc[c] = "wait" /\ until[c] = time
  /\ lpc' = [lpc EXCEPT ![c] = "call"]
  /\ \E d \in {0, Latency} : until' = [until EXCEPT ![c] = time + d]
  /\ askedAt' = [askedAt EXCEPT ![c] = 0]
  /\ lastCall' = time /\ fresh' = FALSE
  /\ UNCHANGED <<time, slot, left, startedAt, runs, restarts>>

\* An error is tried again at once: RunBounded.
Respond_Bug(c) ==
  /\ lpc[c] = "call" /\ until[c] = time
  /\ \E n \in {left[c] - 1, left[c]} :
       /\ left' = [left EXCEPT ![c] = n]
       /\ lpc' = [lpc EXCEPT ![c] = IF n = 0 THEN "off" ELSE "ask"]
       /\ startedAt' = [startedAt EXCEPT ![c] = IF n = 0 THEN 0 ELSE @]
  /\ until' = [until EXCEPT ![c] = 0]
  /\ UNCHANGED <<time, slot, askedAt, sent, runs, restarts>>

\* The answer, or an error, which ends the run.
Respond(c) ==
  /\ lpc[c] = "call" /\ until[c] = time
  /\ \E n \in {left[c] - 1, 0} :
       /\ left' = [left EXCEPT ![c] = n]
       /\ lpc' = [lpc EXCEPT ![c] = IF n = 0 THEN "off" ELSE "ask"]
       /\ startedAt' = [startedAt EXCEPT ![c] = IF n = 0 THEN 0 ELSE @]
  /\ until' = [until EXCEPT ![c] = 0]
  /\ UNCHANGED <<time, slot, askedAt, sent, runs, restarts>>

\* The process ends in the middle of anything and another starts: New makes its limiters,
\* and its loops run at once.
Restart ==
  /\ restarts < MaxRestarts /\ restarts' = restarts + 1
  /\ slot' = 0 /\ fresh' = TRUE
  /\ lpc' = ForCallers("off") /\ until' = ForCallers(0) /\ left' = ForCallers(0)
  /\ askedAt' = ForCallers(0) /\ startedAt' = ForCallers(0)
  /\ UNCHANGED <<time, lastCall, runs>>

LimitNext == Passes \/ Restart \/ \E c \in Caller : StartRun(c) \/ Reserved(c) \/ Call(c) \/ Respond(c)

LimitSpec == LimitInit /\ [][LimitNext]_limitVars

(***************************************************************************)
(* Properties                                                              *)
(***************************************************************************)
\* Whoever calls, no call waits longer for the shared limiter than one interval per loop,
\* since a loop has one call on its way.
LongestWait == Cardinality(Caller) * Every
WaitBounded == \A c \in Caller : lpc[c] = "wait" => until[c] - askedAt[c] <= LongestWait

\* A run ends within its calls' waits and timeouts, so the hourly run is over long before
\* its next tick, and a first run delays its ticker by no more.
LongestRun(c) == CallsOf[c] * (LongestWait + Latency)
RunBounded == \A c \in Caller : lpc[c] # "off" => time - startedAt[c] <= LongestRun(c)

Calls(c) == lpc[c] = "wait" /\ lpc'[c] = "call"
Spaced   == lastCall + Every <= time

\* thscore-api.md, "the heart of the design": the endpoint is never called again within its
\* interval, whichever loops of the process call it and however their runs end.
CallsSpaced == [][\A c \in Caller : Calls(c) => fresh \/ Spaced]_limitVars

\* architecture.md: a single instance has no way of calling thscore beyond its limit.  So it
\* is of a process that never restarts (MaxRestarts = 0).
WithinUpstreamLimit == [][\A c \in Caller : Calls(c) => Spaced]_limitVars
=============================================================================
