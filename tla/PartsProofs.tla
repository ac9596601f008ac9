---------------------------- MODULE PartsProofs ----------------------------
(***************************************************************************)
(* Theorems about four of the parts that MCParts checks: the limiter that  *)
(* the loops share (RateLimit), ensureTTLIndex (TtlIndex), the standings   *)
(* loop (StandingsSync) and the repair of payloads (RepairEscapes), for    *)
(* every value of their constants.                                         *)
(***************************************************************************)
EXTENDS RateLimit, TtlIndex, StandingsSync, RepairEscapes, FiniteSetTheorems, TLAPS

(***************************************************************************)
(* RateLimit: how long a call waits, and a run lasts.                      *)
(***************************************************************************)
Waiting   == {c \in Caller : lpc[c] = "wait"}
Behind(c) == {w \in Waiting : until[w] >= until[c]}

LimiterTypeOK ==
  /\ time \in Nat /\ slot \in Nat
  /\ lpc \in [Caller -> {"off", "ask", "wait", "call"}]
  /\ until \in [Caller -> Nat] /\ left \in [Caller -> Nat]
  /\ askedAt \in [Caller -> Nat] /\ startedAt \in [Caller -> Nat]
  /\ \A c \in Caller : lpc[c] # "off" => left[c] \in 1..CallsOf[c]

Punctual == \A c \in Caller : lpc[c] \in {"wait", "call"} => time <= until[c]

\* Each of those that wait has a token of its own, and one interval each is all that the
\* limiter has given away after any of them.
Queued ==
  \A c \in Waiting : /\ until[c] < slot
                     /\ slot <= until[c] + Every * Cardinality(Behind(c))
                     /\ \A d \in Waiting : until[d] = until[c] => d = c

LimiterInv ==
  /\ LimiterTypeOK /\ Punctual /\ Queued
  /\ slot <= time + Every * (Cardinality(Waiting) + 1)
  /\ WaitBounded

\* Arithmetic of a product of two natural numbers.
LEMMA Product ==
  ASSUME NEW k \in Nat, NEW a \in Nat, NEW b \in Nat
  PROVE  /\ k * a \in Nat /\ k * (a + 1) = k * a + k
         /\ a <= b => k * a <= k * b
<1>1. k * a \in Nat /\ k * (a + 1) = k * a + k
  OBVIOUS
<1>2. ASSUME a <= b PROVE k * a <= k * b
  <2>1. b - a \in Nat /\ b = a + (b - a)
    BY <1>2
  <2>2. k * (b - a) \in Nat
    BY <2>1
  <2>3. k * b = k * a + k * (b - a)
    BY <2>1
  <2>4. QED
    BY <2>2, <2>3
<1>3. QED
  BY <1>1, <1>2

LEMMA WaitersCounted ==
  /\ IsFiniteSet(Waiting) /\ Cardinality(Waiting) \in Nat
  /\ Cardinality(Waiting) <= Cardinality(Caller) /\ Cardinality(Caller) \in Nat
  /\ \A c : IsFiniteSet(Behind(c)) /\ Cardinality(Behind(c)) \in Nat
  /\ \A c \in Caller : lpc[c] # "wait" => Cardinality(Waiting) + 1 <= Cardinality(Caller)
<1>1. Waiting \in SUBSET Caller /\ IsFiniteSet(Caller) /\ Cardinality(Caller) \in Nat
  BY CallerAssumption, FS_CardinalityType DEF Waiting
<1>2. /\ IsFiniteSet(Waiting) /\ Cardinality(Waiting) \in Nat
      /\ Cardinality(Waiting) <= Cardinality(Caller)
  BY <1>1, FS_Subset, FS_CardinalityType
<1>3. ASSUME NEW c PROVE IsFiniteSet(Behind(c)) /\ Cardinality(Behind(c)) \in Nat
  <2>1. Behind(c) \in SUBSET Waiting
    BY DEF Behind
  <2>2. QED
    BY <1>2, <2>1, FS_Subset, FS_CardinalityType
<1>4. ASSUME NEW c \in Caller, lpc[c] # "wait"
      PROVE  Cardinality(Waiting) + 1 <= Cardinality(Caller)
  <2>1. c \notin Waiting /\ Waiting \cup {c} \in SUBSET Caller
    BY <1>1, <1>4 DEF Waiting
  <2>2. Cardinality(Waiting \cup {c}) = Cardinality(Waiting) + 1
    BY <1>2, <2>1, FS_AddElement
  <2>3. QED
    BY <1>1, <2>1, <2>2, FS_Subset
<1>5. QED
  BY <1>1, <1>2, <1>3, <1>4

LEMMA LimiterInit == LimitInit => LimiterInv
<1> SUFFICES ASSUME LimitInit PROVE LimiterInv
  OBVIOUS
<1>1. LimiterTypeOK /\ Punctual /\ Queued /\ WaitBounded
  BY DEF LimitInit, LimiterTypeOK, Punctual, Queued, WaitBounded, ForCallers, Waiting
<1>2. slot = 0 /\ time = 0 /\ Every * (Cardinality(Waiting) + 1) \in Nat
  BY WaitersCounted, EveryAssumption DEF LimitInit
<1>3. QED
  BY <1>1, <1>2 DEF LimiterInv

\* A loop reserves the next token.
LEMMA LimiterReserved ==
  ASSUME LimiterInv, NEW c \in Caller, Reserved(c)
  PROVE  LimiterInv'
<1>1. /\ lpc[c] = "ask" /\ time' = time /\ slot' = Token + Every
      /\ until' = [until EXCEPT ![c] = Token] /\ askedAt' = [askedAt EXCEPT ![c] = time]
      /\ lpc' = [lpc EXCEPT ![c] = "wait"] /\ left' = left /\ startedAt' = startedAt
  BY DEF Reserved
<1>2. /\ time \in Nat /\ slot \in Nat /\ Every \in Nat /\ Every > 0
      /\ Token \in Nat /\ time <= Token /\ slot <= Token
      /\ Token = time \/ Token = slot
  BY EveryAssumption DEF LimiterInv, LimiterTypeOK, Token, Latest
<1> HIDE DEF Token
<1>3. LimiterTypeOK'
  BY <1>1, <1>2 DEF LimiterInv, LimiterTypeOK
<1>4. /\ \A d \in Caller : until'[d] = IF d = c THEN Token ELSE until[d]
      /\ \A d \in Caller : lpc'[d] = IF d = c THEN "wait" ELSE lpc[d]
      /\ \A d \in Caller : askedAt'[d] = IF d = c THEN time ELSE askedAt[d]
  BY <1>1 DEF LimiterInv, LimiterTypeOK
<1>5. Waiting' = Waiting \cup {c} /\ c \notin Waiting
  BY <1>1, <1>4 DEF Waiting
<1>6. Cardinality(Waiting') = Cardinality(Waiting) + 1 /\ Cardinality(Waiting) \in Nat
  BY <1>5, WaitersCounted, FS_AddElement
<1>7. Punctual'
  BY <1>1, <1>2, <1>4 DEF LimiterInv, Punctual
<1>8. \A d \in Waiting : until[d] \in Nat /\ until[d] < slot /\ time <= until[d]
  BY DEF LimiterInv, LimiterTypeOK, Queued, Punctual, Waiting
<1>9. Waiting # {} => Token = slot
  BY <1>2, <1>8
<1>10. Queued'
  <2>1. ASSUME NEW d \in Waiting
        PROVE  /\ until'[d] < slot'
               /\ slot' <= until'[d] + Every * Cardinality(Behind(d)')
               /\ until'[d] # until'[c]
    <3>1. d \in Caller /\ d # c /\ until'[d] = until[d] /\ Token = slot
      BY <1>4, <1>5, <1>9 DEF Waiting
    <3>2. Behind(d)' = Behind(d) \cup {c} /\ c \notin Behind(d)
      BY <1>2, <1>4, <1>5, <1>8, <3>1 DEF Behind, Waiting
    <3>3. Cardinality(Behind(d)') = Cardinality(Behind(d)) + 1 /\ Cardinality(Behind(d)) \in Nat
      BY <3>2, WaitersCounted, FS_AddElement
    <3>4. Every * (Cardinality(Behind(d)) + 1) = Every * Cardinality(Behind(d)) + Every
          /\ Every * Cardinality(Behind(d)) \in Nat
      BY <1>2, <3>3, Product
    <3>5. slot <= until[d] + Every * Cardinality(Behind(d))
      BY DEF LimiterInv, Queued
    <3>6. slot' = slot + Every /\ until'[c] = slot
      BY <1>1, <1>4, <3>1
    <3>7. Every * Cardinality(Behind(d)') = Every * Cardinality(Behind(d)) + Every
      BY <3>3, <3>4
    <3>8. QED
      BY <1>2, <1>8, <3>1, <3>4, <3>5, <3>6, <3>7
  <2>2. /\ until'[c] < slot'
        /\ slot' <= until'[c] + Every * Cardinality(Behind(c)')
    <3>1. until'[c] = Token /\ slot' = Token + Every
      BY <1>1, <1>4
    <3>2. Behind(c)' = {c}
      BY <1>2, <1>4, <1>5, <1>8 DEF Behind, Waiting
    <3>3. Cardinality(Behind(c)') = 1
      BY <3>2, FS_Singleton
    <3>4. QED
      BY <1>2, <3>1, <3>3
  <2>3. \A d, e \in Waiting : until'[e] = until'[d] => e = d
    BY <1>4, <1>5 DEF LimiterInv, Queued, Waiting
  <2>4. QED
    BY <1>5, <2>1, <2>2, <2>3 DEF Queued
<1>11. slot' <= time' + Every * (Cardinality(Waiting)' + 1)
  <2> DEFINE n == Cardinality(Waiting)
  <2>1. Cardinality(Waiting') = n + 1 /\ n \in Nat /\ slot <= time + Every * (n + 1)
    BY <1>6 DEF LimiterInv
  <2> HIDE DEF n
  <2>2. Every * (n + 1 + 1) = Every * (n + 1) + Every /\ Every * (n + 1) \in Nat
    BY <1>2, <2>1, Product
  <2>3. QED
    BY <1>1, <1>2, <2>1, <2>2
<1>12. WaitBounded'
  <2> DEFINE n == Cardinality(Waiting)
  <2>1. n \in Nat /\ n + 1 <= Cardinality(Caller) /\ Cardinality(Caller) \in Nat
        /\ slot <= time + Every * (n + 1)
    BY <1>1, WaitersCounted DEF LimiterInv
  <2> HIDE DEF n
  <2>2. Every * (n + 1) <= Every * Cardinality(Caller) /\ Every * (n + 1) \in Nat
    BY <1>2, <2>1, Product
  <2>3. LongestWait = Every * Cardinality(Caller)
    BY <1>2, <2>1 DEF LongestWait
  <2>4. Token - time <= LongestWait
    BY <1>2, <2>1, <2>2, <2>3
  <2>5. QED
    BY <1>4, <2>4 DEF LimiterInv, WaitBounded, LongestWait
<1>13. QED
  BY <1>3, <1>7, <1>10, <1>11, <1>12 DEF LimiterInv

\* A loop has its token: it was the first of those that waited.
LEMMA LimiterCall ==
  ASSUME LimiterInv, NEW c \in Caller, Call(c)
  PROVE  LimiterInv'
<1>1. /\ lpc[c] = "wait" /\ until[c] = time /\ time' = time /\ slot' = slot
      /\ lpc' = [lpc EXCEPT ![c] = "call"] /\ left' = left /\ startedAt' = startedAt
      /\ askedAt' = [askedAt EXCEPT ![c] = 0]
  BY DEF Call
<1>2. PICK t \in Nat : time <= t /\ until' = [until EXCEPT ![c] = t]
  <2>1. PICK d \in {0, Latency} : until' = [until EXCEPT ![c] = time + d]
    BY DEF Call
  <2>2. time + d \in Nat /\ time <= time + d
    BY EveryAssumption DEF LimiterInv, LimiterTypeOK
  <2>3. QED
    BY <2>1, <2>2
<1>3. LimiterTypeOK'
  BY <1>1, <1>2 DEF LimiterInv, LimiterTypeOK
<1>4. /\ \A d \in Caller : until'[d] = IF d = c THEN t ELSE until[d]
      /\ \A d \in Caller : lpc'[d] = IF d = c THEN "call" ELSE lpc[d]
      /\ \A d \in Caller : d # c => askedAt'[d] = askedAt[d]
  BY <1>1, <1>2 DEF LimiterInv, LimiterTypeOK
<1>5. Waiting' = Waiting \ {c} /\ c \in Waiting
  BY <1>1, <1>4 DEF Waiting
<1>6. Cardinality(Waiting') = Cardinality(Waiting) - 1 /\ Cardinality(Waiting) \in Nat
  BY <1>5, WaitersCounted, FS_RemoveElement
<1>7. Punctual'
  BY <1>1, <1>2, <1>4 DEF LimiterInv, Punctual
<1>8. \A d \in Waiting : until[d] \in Nat /\ time <= until[d]
                         /\ (until[d] = until[c] => d = c)
  BY <1>5 DEF LimiterInv, LimiterTypeOK, Queued, Punctual, Waiting
<1>9. time \in Nat
  BY DEF LimiterInv, LimiterTypeOK
<1>10. Queued'
  <2>1. ASSUME NEW d \in Waiting, d # c
        PROVE  Behind(d)' = Behind(d)
    BY <1>1, <1>4, <1>5, <1>8, <1>9, <2>1 DEF Behind, Waiting
  <2>2. \A d \in Waiting' : d \in Waiting /\ d # c /\ until'[d] = until[d]
    BY <1>4, <1>5 DEF Waiting
  <2>3. QED
    BY <1>1, <2>1, <2>2 DEF LimiterInv, Queued
<1>11. slot' <= time' + Every * (Cardinality(Waiting)' + 1)
  <2>1. Behind(c) = Waiting
    BY <1>1, <1>8, <1>9 DEF Behind
  <2>2. slot <= time + Every * Cardinality(Waiting)
    BY <1>1, <1>5, <2>1 DEF LimiterInv, Queued
  <2>3. QED
    BY <1>1, <1>6, <2>2
<1>12. WaitBounded'
  BY <1>4 DEF LimiterInv, WaitBounded, LongestWait
<1>13. QED
  BY <1>3, <1>7, <1>10, <1>11, <1>12 DEF LimiterInv

\* Nothing else moves a token or one who waits.
LEMMA LimiterRest ==
  ASSUME LimiterInv, LimiterTypeOK', slot' = slot, time <= time',
         Waiting' = Waiting, \A c \in Waiting : until'[c] = until[c] /\ askedAt'[c] = askedAt[c],
         Punctual'
  PROVE  LimiterInv'
<1>1. \A c \in Waiting : Behind(c)' = Behind(c)
  BY DEF Behind
<1>2. Queued'
  BY <1>1 DEF LimiterInv, Queued
<1>3. WaitBounded'
  BY DEF LimiterInv, WaitBounded, LongestWait, Waiting
<1>4. slot' <= time' + Every * (Cardinality(Waiting)' + 1)
  <2>1. Every * (Cardinality(Waiting) + 1) \in Nat
    BY WaitersCounted, EveryAssumption
  <2>2. QED
    BY <2>1 DEF LimiterInv, LimiterTypeOK
<1>5. QED
  BY <1>2, <1>3, <1>4 DEF LimiterInv

LEMMA LimiterStep == LimiterInv /\ [LimitNext]_limitVars => LimiterInv'
<1> SUFFICES ASSUME LimiterInv, [LimitNext]_limitVars PROVE LimiterInv'
  OBVIOUS
<1>1. CASE Passes
  BY <1>1, LimiterRest DEF Passes, LimiterInv, LimiterTypeOK, Waiting, Punctual
<1>2. ASSUME NEW c \in Caller, StartRun(c) PROVE LimiterInv'
  <2>1. LimiterTypeOK'
    <3>1. CallsOf[c] \in Nat /\ CallsOf[c] \in 1..CallsOf[c] /\ CallsOf \in [Caller -> Nat]
      BY CallerAssumption
    <3>2. \A d \in Caller : left'[d] = IF d = c THEN CallsOf[c] ELSE left[d]
      BY <1>2 DEF StartRun, LimiterInv, LimiterTypeOK
    <3>3. \A d \in Caller : d # c => lpc'[d] = lpc[d]
      BY <1>2 DEF StartRun, LimiterInv, LimiterTypeOK
    <3>4. \A d \in Caller : lpc'[d] # "off" => left'[d] \in 1..CallsOf[d]
      BY <3>1, <3>2, <3>3 DEF LimiterInv, LimiterTypeOK
    <3>5. QED
      BY <1>2, <3>1, <3>4 DEF StartRun, LimiterInv, LimiterTypeOK
  <2>2. Waiting' = Waiting /\ Punctual'
    BY <1>2 DEF StartRun, LimiterInv, LimiterTypeOK, Waiting, Punctual
  <2>3. QED
    BY <1>2, <2>1, <2>2, LimiterRest DEF StartRun, LimiterInv, LimiterTypeOK
<1>3. ASSUME NEW c \in Caller, Respond(c) PROVE LimiterInv'
  <2>1. PICK n \in {left[c] - 1, 0} :
          /\ left' = [left EXCEPT ![c] = n]
          /\ lpc' = [lpc EXCEPT ![c] = IF n = 0 THEN "off" ELSE "ask"]
          /\ startedAt' = [startedAt EXCEPT ![c] = IF n = 0 THEN 0 ELSE @]
    BY <1>3 DEF Respond
  <2>2. lpc[c] = "call" /\ until' = [until EXCEPT ![c] = 0]
        /\ UNCHANGED <<time, slot, askedAt>>
    BY <1>3 DEF Respond
  <2>3. Waiting' = Waiting /\ Punctual'
    BY <2>1, <2>2 DEF LimiterInv, LimiterTypeOK, Waiting, Punctual
  <2>4. n \in Nat /\ (n # 0 => n \in 1..CallsOf[c])
    <3>1. left[c] \in 1..CallsOf[c] /\ CallsOf[c] \in Nat
      BY <2>2, CallerAssumption DEF LimiterInv, LimiterTypeOK
    <3>2. QED
      BY <3>1
  <2>5. LimiterTypeOK'
    <3>1. /\ left' \in [Caller -> Nat] /\ until' \in [Caller -> Nat]
          /\ startedAt' \in [Caller -> Nat]
          /\ lpc' \in [Caller -> {"off", "ask", "wait", "call"}]
      BY <2>1, <2>2, <2>4 DEF LimiterInv, LimiterTypeOK
    <3>2. ASSUME NEW d \in Caller, lpc'[d] # "off" PROVE left'[d] \in 1..CallsOf[d]
      <4>1. CASE d = c
        BY <2>1, <2>4, <3>2, <4>1 DEF LimiterInv, LimiterTypeOK
      <4>2. CASE d # c
        BY <2>1, <3>2, <4>2 DEF LimiterInv, LimiterTypeOK
      <4>3. QED
        BY <4>1, <4>2
    <3>3. QED
      BY <2>2, <3>1, <3>2 DEF LimiterInv, LimiterTypeOK
  <2>6. \A d \in Waiting : until'[d] = until[d]
    BY <2>2 DEF LimiterInv, LimiterTypeOK, Waiting
  <2>7. time <= time'
    BY <2>2 DEF LimiterInv, LimiterTypeOK
  <2>8. QED
    BY <2>2, <2>3, <2>5, <2>6, <2>7, LimiterRest
<1>4. CASE UNCHANGED limitVars
  BY <1>4, LimiterRest DEF limitVars, LimiterInv, LimiterTypeOK, Waiting, Punctual
<1>5. CASE Restart
  <2>1. Waiting' = {} /\ slot' = 0 /\ time' \in Nat
    BY <1>5 DEF Restart, ForCallers, Waiting, LimiterInv, LimiterTypeOK
  <2>2. LimiterTypeOK'
    BY <1>5, <2>1 DEF Restart, ForCallers, LimiterTypeOK
  <2>3. Punctual' /\ Queued' /\ WaitBounded'
    BY <1>5, <2>1 DEF Restart, ForCallers, Punctual, Queued, WaitBounded
  <2>4. Every * (Cardinality(Waiting)' + 1) \in Nat
    BY <2>1, FS_EmptySet, EveryAssumption
  <2>5. QED
    BY <2>1, <2>2, <2>3, <2>4 DEF LimiterInv
<1>6. QED
  BY <1>1, <1>2, <1>3, <1>4, <1>5, LimiterReserved, LimiterCall DEF LimitNext

\* WaitBounded holds for every set of loops and every interval: each loop has at most one
\* call on its way, and the tokens given away lie one interval apart (get, rate.Limiter).
THEOREM WaitBoundedHolds == LimitSpec => []WaitBounded
<1>1. LimiterInv => WaitBounded
  BY DEF LimiterInv
<1>2. QED
  BY LimiterInit, LimiterStep, <1>1, PTL DEF LimitSpec

\* What a run has used when n of its calls are behind it.
PerCall       == LongestWait + Latency
Budget(c, n)  == startedAt[c] + n * PerCall
Made(c)       == CallsOf[c] - left[c]

\* A run that asks has used no more than its calls so far may; one that waits no more than
\* a wait besides, one in a call no more than that call.
RunInv ==
  \A c \in Caller :
    /\ lpc[c] = "ask"  => time <= Budget(c, Made(c))
    /\ lpc[c] = "wait" => until[c] <= Budget(c, Made(c)) + LongestWait
    /\ lpc[c] = "call" => until[c] <= Budget(c, Made(c) + 1)

LEMMA PerCallTyped ==
  PerCall \in Nat /\ LongestWait \in Nat /\ Latency \in Nat /\ PerCall = LongestWait + Latency
<1>1. LongestWait \in Nat
  BY WaitersCounted, EveryAssumption DEF LongestWait
<1>2. QED
  BY <1>1, EveryAssumption DEF PerCall

LEMMA BudgetStep ==
  ASSUME LimiterTypeOK, NEW c \in Caller, NEW n \in Nat
  PROVE  Budget(c, n) \in Nat /\ Budget(c, n + 1) = Budget(c, n) + PerCall
<1>1. PerCall \in Nat /\ startedAt[c] \in Nat
  BY PerCallTyped DEF LimiterTypeOK
<1>2. PerCall * n \in Nat /\ PerCall * (n + 1) = PerCall * n + PerCall
  BY <1>1, Product
<1>3. n * PerCall = PerCall * n /\ (n + 1) * PerCall = PerCall * (n + 1)
  BY <1>1
<1>4. QED
  BY <1>1, <1>2, <1>3 DEF Budget

LEMMA RunStep == LimiterInv /\ LimiterInv' /\ RunInv /\ [LimitNext]_limitVars => RunInv'
<1> SUFFICES ASSUME LimiterInv, LimiterInv', RunInv, [LimitNext]_limitVars PROVE RunInv'
  OBVIOUS
<1> USE DEF LimiterInv
<1>0. \A c \in Caller :
        /\ lpc[c] # "off" => Made(c) \in Nat
        /\ time \in Nat /\ until[c] \in Nat /\ startedAt[c] \in Nat /\ left[c] \in Nat
        /\ CallsOf[c] \in Nat
  BY CallerAssumption DEF LimiterTypeOK, Made
<1>1. ASSUME NEW c \in Caller, Made(c)' = Made(c), startedAt'[c] = startedAt[c],
             until'[c] = until[c], lpc'[c] = lpc[c], time' = time \/ lpc[c] # "ask"
      PROVE  /\ lpc'[c] = "ask"  => time' <= Budget(c, Made(c))'
             /\ lpc'[c] = "wait" => until'[c] <= Budget(c, Made(c))' + LongestWait
             /\ lpc'[c] = "call" => until'[c] <= Budget(c, Made(c) + 1)'
  BY <1>1 DEF RunInv, Budget, PerCall, LongestWait
<1>2. CASE Passes
  BY <1>1, <1>2 DEF Passes, RunInv, Made
<1>3. CASE UNCHANGED limitVars
  BY <1>1, <1>3 DEF limitVars, RunInv, Made
<1>4. ASSUME NEW c \in Caller, StartRun(c) PROVE RunInv'
  <2>1. \A d \in Caller \ {c} : /\ Made(d)' = Made(d) /\ startedAt'[d] = startedAt[d]
                                /\ until'[d] = until[d] /\ lpc'[d] = lpc[d]
    BY <1>4 DEF StartRun, Made, LimiterTypeOK
  <2>2. lpc'[c] = "ask" /\ startedAt'[c] = time /\ left'[c] = CallsOf[c] /\ time' = time
    BY <1>4 DEF StartRun, LimiterTypeOK
  <2>3. Made(c)' = 0 /\ Budget(c, Made(c))' = time
    BY <1>0, <2>2, PerCallTyped DEF Made, Budget, PerCall, LongestWait
  <2>4. QED
    BY <1>0, <1>1, <2>1, <2>2, <2>3 DEF RunInv
<1>5. ASSUME NEW c \in Caller, Reserved(c) PROVE RunInv'
  <2>1. \A d \in Caller \ {c} : /\ Made(d)' = Made(d) /\ startedAt'[d] = startedAt[d]
                                /\ until'[d] = until[d] /\ lpc'[d] = lpc[d]
    BY <1>5 DEF Reserved, Made, LimiterTypeOK
  <2>2. /\ lpc[c] = "ask" /\ lpc'[c] = "wait" /\ startedAt' = startedAt /\ Made(c)' = Made(c)
        /\ askedAt'[c] = time /\ time' = time
    BY <1>5 DEF Reserved, LimiterTypeOK, Made
  <2>3. until'[c] - time <= LongestWait
    BY <2>2 DEF WaitBounded, LongestWait
  <2>4. /\ Budget(c, Made(c))' = Budget(c, Made(c)) /\ time <= Budget(c, Made(c))
        /\ Budget(c, Made(c)) \in Nat
    BY <1>0, <2>2, BudgetStep DEF RunInv, Budget, PerCall, LongestWait
  <2>5. until'[c] \in Nat
    BY DEF LimiterTypeOK
  <2>6. until'[c] <= Budget(c, Made(c))' + LongestWait
    BY <1>0, <2>3, <2>4, <2>5, PerCallTyped
  <2>7. QED
    BY <1>1, <1>5, <2>1, <2>2, <2>6 DEF RunInv
<1>6. ASSUME NEW c \in Caller, Call(c) PROVE RunInv'
  <2>1. \A d \in Caller \ {c} : /\ Made(d)' = Made(d) /\ startedAt'[d] = startedAt[d]
                                /\ until'[d] = until[d] /\ lpc'[d] = lpc[d]
    BY <1>6 DEF Call, Made, LimiterTypeOK
  <2>2. /\ lpc[c] = "wait" /\ lpc'[c] = "call" /\ startedAt' = startedAt /\ Made(c)' = Made(c)
        /\ until[c] = time /\ time' = time
    BY <1>6 DEF Call, LimiterTypeOK, Made
  <2>3. until'[c] <= time + Latency
    <3>1. PICK d \in {0, Latency} : until' = [until EXCEPT ![c] = time + d]
      BY <1>6 DEF Call
    <3>2. QED
      BY <1>0, <3>1, PerCallTyped DEF LimiterTypeOK
  <2>4. /\ Budget(c, Made(c) + 1)' = Budget(c, Made(c) + 1)
        /\ Budget(c, Made(c) + 1) = Budget(c, Made(c)) + PerCall
        /\ Budget(c, Made(c)) \in Nat
    BY <1>0, <2>2, BudgetStep DEF Budget, PerCall, LongestWait
  <2>5. until[c] <= Budget(c, Made(c)) + LongestWait /\ until'[c] \in Nat
    BY <2>2 DEF RunInv, LimiterTypeOK
  <2>6. until'[c] <= Budget(c, Made(c) + 1)'
    BY <1>0, <2>2, <2>3, <2>4, <2>5, PerCallTyped
  <2>7. QED
    BY <1>1, <2>1, <2>2, <2>6 DEF RunInv
<1>7. ASSUME NEW c \in Caller, Respond(c) PROVE RunInv'
  <2>1. \A d \in Caller \ {c} : /\ Made(d)' = Made(d) /\ startedAt'[d] = startedAt[d]
                                /\ until'[d] = until[d] /\ lpc'[d] = lpc[d]
    BY <1>7 DEF Respond, Made, LimiterTypeOK
  <2>2. lpc[c] = "call" /\ until[c] = time /\ time' = time
    BY <1>7 DEF Respond
  <2>3. PICK n \in {left[c] - 1, 0} :
          /\ left' = [left EXCEPT ![c] = n]
          /\ lpc' = [lpc EXCEPT ![c] = IF n = 0 THEN "off" ELSE "ask"]
          /\ startedAt' = [startedAt EXCEPT ![c] = IF n = 0 THEN 0 ELSE @]
    BY <1>7 DEF Respond
  <2>4. CASE n = 0
    <3>1. lpc'[c] = "off"
      BY <2>3, <2>4 DEF LimiterTypeOK
    <3>2. QED
      BY <1>1, <2>1, <2>2, <3>1 DEF RunInv
  <2>5. CASE n # 0
    <3>1. lpc'[c] = "ask" /\ startedAt'[c] = startedAt[c] /\ left'[c] = left[c] - 1
      BY <2>3, <2>5 DEF LimiterTypeOK
    <3>2. Made(c)' = Made(c) + 1
      BY <1>0, <3>1 DEF Made
    <3>3. Budget(c, Made(c))' = Budget(c, Made(c) + 1)
      BY <3>1, <3>2 DEF Budget, PerCall, LongestWait
    <3>4. time' <= Budget(c, Made(c))'
      BY <2>2, <3>3 DEF RunInv
    <3>5. QED
      BY <1>1, <2>1, <2>2, <3>1, <3>4 DEF RunInv
  <2>6. QED
    BY <2>4, <2>5
<1>8. CASE Restart
  BY <1>8 DEF Restart, ForCallers, RunInv
<1>9. QED
  BY <1>2, <1>3, <1>4, <1>5, <1>6, <1>7, <1>8 DEF LimitNext

LEMMA RunInvBounded == LimiterInv /\ RunInv => RunBounded
<1> SUFFICES ASSUME LimiterInv, RunInv, NEW c \in Caller, lpc[c] # "off"
             PROVE  time - startedAt[c] <= LongestRun(c)
  BY DEF RunBounded
<1> DEFINE n == Made(c)
<1>1. /\ n \in Nat /\ n + 1 <= CallsOf[c] /\ n + 1 \in Nat /\ CallsOf[c] \in Nat
      /\ time \in Nat /\ until[c] \in Nat /\ startedAt[c] \in Nat
  BY CallerAssumption DEF LimiterInv, LimiterTypeOK, Made
<1>2. /\ Budget(c, n) \in Nat /\ Budget(c, n + 1) = Budget(c, n) + PerCall
  BY <1>1, BudgetStep DEF LimiterInv
<1>3. Budget(c, n + 1) <= startedAt[c] + LongestRun(c) /\ LongestRun(c) \in Nat
  <2>1. PerCall * (n + 1) <= PerCall * CallsOf[c] /\ PerCall * CallsOf[c] \in Nat
    BY <1>1, PerCallTyped, Product
  <2>2. (n + 1) * PerCall = PerCall * (n + 1) /\ LongestRun(c) = PerCall * CallsOf[c]
        /\ (n + 1) * PerCall \in Nat
    BY <1>1, PerCallTyped DEF LongestRun
  <2> HIDE DEF n
  <2>3. QED
    BY <1>1, <2>1, <2>2 DEF Budget
<1>4. time <= Budget(c, n + 1)
  <2>1. lpc[c] \in {"ask", "wait", "call"} /\ (lpc[c] # "ask" => time <= until[c])
    BY DEF LimiterInv, LimiterTypeOK, Punctual
  <2>2. QED
    BY <1>1, <1>2, <2>1, PerCallTyped DEF RunInv
<1> HIDE DEF n
<1>5. QED
  BY <1>1, <1>2, <1>3, <1>4, PerCallTyped

\* RunBounded holds for every set of loops and every number of calls: a run is over within
\* the waits and the timeouts of its calls (the loops of sync.go over one endpoint).
THEOREM RunBoundedHolds == LimitSpec => []RunBounded
<1>1. LimitInit => RunInv
  BY DEF LimitInit, RunInv, ForCallers
<1>2. QED
  BY LimiterInit, LimiterStep, <1>1, RunStep, RunInvBounded, PTL DEF LimitSpec

\* The tokens given away lie an interval apart, the next one an interval behind them, and
\* all of them an interval behind the last call of this process.
SpacedInv ==
  /\ lastCall \in Int
  /\ \A c \in Waiting : until[c] + Every <= slot
  /\ \A c, d \in Waiting : until[c] < until[d] => until[c] + Every <= until[d]
  /\ fresh \/ /\ lastCall + Every <= slot
              /\ \A c \in Waiting : lastCall + Every <= until[c]

LEMMA SpacedKept ==
  ASSUME SpacedInv, UNCHANGED <<slot, lastCall, fresh>>, Waiting' = Waiting,
         \A c \in Waiting : until'[c] = until[c]
  PROVE  SpacedInv'
BY DEF SpacedInv

LEMMA SpacedStep == LimiterInv /\ SpacedInv /\ [LimitNext]_limitVars => SpacedInv'
<1> SUFFICES ASSUME LimiterInv, SpacedInv, [LimitNext]_limitVars PROVE SpacedInv'
  OBVIOUS
<1>0. /\ time \in Nat /\ slot \in Nat /\ Every \in Nat /\ lastCall \in Int
      /\ \A c \in Waiting : c \in Caller /\ lpc[c] = "wait" /\ until[c] \in Nat /\ time <= until[c]
  BY EveryAssumption DEF LimiterInv, LimiterTypeOK, Punctual, Waiting, SpacedInv
<1>1. CASE Passes \/ UNCHANGED limitVars
  BY <1>1, SpacedKept DEF Passes, limitVars, sent, Waiting
<1>2. ASSUME NEW c \in Caller, StartRun(c) PROVE SpacedInv'
  BY <1>2, SpacedKept DEF StartRun, sent, Waiting, LimiterInv, LimiterTypeOK
<1>3. ASSUME NEW c \in Caller, Respond(c) PROVE SpacedInv'
  <2>1. /\ \A d \in Caller \ {c} : lpc'[d] = lpc[d] /\ until'[d] = until[d]
        /\ lpc[c] = "call" /\ lpc'[c] # "wait"
    BY <1>3 DEF Respond, LimiterInv, LimiterTypeOK
  <2>2. Waiting' = Waiting /\ \A d \in Waiting : until'[d] = until[d]
    BY <2>1 DEF Waiting
  <2>3. QED
    BY <1>3, <2>2, SpacedKept DEF Respond, sent
<1>4. ASSUME NEW c \in Caller, Reserved(c) PROVE SpacedInv'
  <2>1. /\ slot' = Token + Every /\ UNCHANGED <<lastCall, fresh>>
        /\ \A d \in Caller : until'[d] = IF d = c THEN Token ELSE until[d]
        /\ Waiting' = Waiting \cup {c} /\ c \notin Waiting
    BY <1>4 DEF Reserved, sent, Waiting, LimiterInv, LimiterTypeOK
  <2>2. slot <= Token /\ Token \in Nat
    BY <1>0 DEF Token, Latest
  <2>3. \A d \in Waiting : d # c /\ until'[d] = until[d] /\ until[d] + Every <= slot
    BY <1>0, <2>1 DEF SpacedInv
  <2>4. until'[c] = Token
    BY <2>1
  <2> HIDE DEF Token
  <2>5. \A d \in Waiting' : until'[d] + Every <= slot'
    BY <1>0, <2>1, <2>2, <2>3, <2>4
  <2>6. \A d, e \in Waiting' : until'[d] < until'[e] => until'[d] + Every <= until'[e]
    BY <1>0, <2>1, <2>2, <2>3, <2>4 DEF SpacedInv
  <2>7. fresh' \/ /\ lastCall' + Every <= slot'
                  /\ \A d \in Waiting' : lastCall' + Every <= until'[d]
    BY <1>0, <2>1, <2>2, <2>3, <2>4 DEF SpacedInv
  <2>8. QED
    BY <1>0, <2>1, <2>5, <2>6, <2>7 DEF SpacedInv
<1>5. ASSUME NEW c \in Caller, Call(c) PROVE SpacedInv'
  <2>1. /\ lpc[c] = "wait" /\ until[c] = time /\ lastCall' = time /\ fresh' = FALSE /\ slot' = slot
        /\ c \in Waiting /\ Waiting' = Waiting \ {c}
    BY <1>5 DEF Call, Waiting, LimiterInv, LimiterTypeOK
  <2>2. ASSUME NEW d \in Waiting' PROVE d \in Waiting /\ d # c /\ until'[d] = until[d]
    BY <1>5, <2>1 DEF Call, LimiterInv, LimiterTypeOK, Waiting
  <2>3. \A d \in Waiting' : until[c] < until[d]
    BY <1>0, <2>1, <2>2 DEF LimiterInv, Queued
  <2>4. QED
    BY <1>0, <2>1, <2>2, <2>3 DEF SpacedInv
<1>6. CASE Restart
  <2>1. Waiting' = {} /\ fresh' = TRUE /\ lastCall' = lastCall
    BY <1>6 DEF Restart, ForCallers, Waiting
  <2>2. QED
    BY <1>0, <2>1 DEF SpacedInv
<1>7. QED
  BY <1>1, <1>2, <1>3, <1>4, <1>5, <1>6 DEF LimitNext

\* CallsSpaced holds for every set of loops, interval and number of restarts: between two
\* calls of one process to an endpoint lies the endpoint's interval (get, rate.Limiter).
THEOREM CallsSpacedHolds == LimitSpec => CallsSpaced
<1> DEFINE Kept == \A c \in Caller : Calls(c) => fresh \/ Spaced
<1>1. LimitInit => SpacedInv
  BY EveryAssumption DEF LimitInit, SpacedInv, ForCallers, Waiting
<1>2. LimiterInv /\ SpacedInv /\ [LimitNext]_limitVars => [Kept]_limitVars
  <2> SUFFICES ASSUME LimiterInv, SpacedInv, LimitNext, NEW c \in Caller, Calls(c)
               PROVE  fresh \/ Spaced
    OBVIOUS
  <2>1. c \in Waiting /\ lpc'[c] = "call"
    BY DEF Calls, Waiting
  <2>2. lpc \in [Caller -> {"off", "ask", "wait", "call"}]
    BY DEF LimiterInv, LimiterTypeOK
  <2>3. Call(c)
    <3>1. ~Passes /\ ~Restart
      BY <2>1 DEF Passes, Restart, ForCallers, Waiting
    <3>2. ASSUME NEW d \in Caller, StartRun(d) \/ Reserved(d) \/ Respond(d) PROVE FALSE
      BY <2>1, <2>2, <3>2 DEF StartRun, Reserved, Respond, Waiting
    <3>3. ASSUME NEW d \in Caller, Call(d) PROVE d = c
      BY <2>1, <2>2, <3>3 DEF Call, Waiting
    <3>4. QED
      BY <3>1, <3>2, <3>3 DEF LimitNext
  <2>4. until[c] = time
    BY <2>3 DEF Call
  <2>5. QED
    BY <2>1, <2>4 DEF SpacedInv, Spaced
<1>3. QED
  BY <1>1, <1>2, LimiterInit, LimiterStep, SpacedStep, PTL DEF LimitSpec, CallsSpaced

\* What a process that has not called the endpoint finds, if it is the first one.
FirstCall == restarts = 0 /\ (fresh => lastCall = -Every)

\* The limit of architecture.md, "one process, no way of calling thscore beyond it", holds of
\* a process that is never started again, for every set of loops and interval: what breaks it
\* is the restart alone.
THEOREM WithinLimitOfOneProcess ==
  ASSUME MaxRestarts = 0
  PROVE  LimitSpec => WithinUpstreamLimit
<1> DEFINE Kept == \A c \in Caller : Calls(c) => fresh \/ Spaced
<1> DEFINE All  == \A c \in Caller : Calls(c) => Spaced
<1>1. LimitInit => FirstCall
  BY DEF LimitInit, FirstCall
<1>2. FirstCall /\ [LimitNext]_limitVars => FirstCall'
  <2> SUFFICES ASSUME FirstCall, [LimitNext]_limitVars PROVE FirstCall'
    OBVIOUS
  <2>1. ~Restart
    BY MaxRestarts = 0 DEF Restart, FirstCall
  <2>2. ASSUME NEW c \in Caller, Call(c) PROVE FirstCall'
    <3>1. restarts' = restarts /\ fresh' = FALSE
      BY <2>2 DEF Call
    <3> QED
      BY <3>1 DEF FirstCall
  <2>3. ASSUME UNCHANGED <<sent, restarts>> PROVE FirstCall'
    BY <2>3 DEF FirstCall, sent
  <2> QED
    BY <2>1, <2>2, <2>3 DEF LimitNext, limitVars, Passes, StartRun, Reserved, Respond
<1>3. FirstCall /\ LimiterInv /\ [Kept]_limitVars => [All]_limitVars
  BY EveryAssumption DEF FirstCall, LimiterInv, LimiterTypeOK, Spaced
<1>4. LimitSpec => CallsSpaced
  BY CallsSpacedHolds
<1> QED
  BY <1>1, <1>2, <1>3, <1>4, LimiterInit, LimiterStep, PTL DEF LimitSpec, CallsSpaced, WithinUpstreamLimit

-----------------------------------------------------------------------------
(***************************************************************************)
(* TtlIndex: what ensureTTLIndex leaves behind.                            *)
(***************************************************************************)
\* r has yet to make the index what it wants: not so a process that is about to drop, under
\* a name it no longer has, an index that another made meanwhile, and to leave it at that.
Owes(r) ==
  /\ tpc[r] # "up"
  /\ ~(tpc[r] = "drop" /\ Off(r) /\ index # NoIndex /\ index.name # found[r])

TtlInv ==
  /\ TtlTypeOK
  /\ \A p \in Process : /\ tpc[p] \in {"create", "collMod", "recreate"} => ~Off(p)
                        /\ tpc[p] = "collMod" => Creatable(p)
  /\ \/ \E r \in Process : Owes(r)
     \/ \E r \in Process : tpc[r] = "up" /\ (Fits(setting[r]) => AsConfigured(r))

LEMMA WrappedTyped == ASSUME NEW n \in Int PROVE Wrapped(n) \in Int
BY RangeAssumption DEF Wrapped

\* Nothing wraps that fits.
LEMMA WrappedFits ==
  ASSUME NEW n \in Nat, 2 * n < IntRange
  PROVE  Wrapped(n) = n
<1>1. n % IntRange = n
  BY RangeAssumption
<1>2. QED
  BY <1>1 DEF Wrapped

\* A retention that fits is multiplied without loss.
LEMMA SecondsFit ==
  ASSUME TtlTypeOK, NEW p \in Process, ~Off(p), Fits(setting[p])
  PROVE  Seconds(p) = setting[p] * DaySeconds
<1> DEFINE d == setting[p]
<1>1. d \in Nat /\ DaySeconds \in Nat /\ DaySeconds >= 1
  <2>1. setting[p] \in Days
    BY DEF TtlTypeOK
  <2>2. setting[p] \in Int
    BY <2>1, DaysAssumption
  <2>3. QED
    BY <2>2, DaysAssumption DEF Off
<1>2. d * DaySeconds \in Nat /\ d <= d * DaySeconds
  <2>1. d * 1 <= d * DaySeconds /\ d * DaySeconds \in Nat
    BY <1>1, Product
  <2>2. QED
    BY <1>1, <2>1
<1>3. 2 * (d * DaySeconds) < IntRange
  BY DEF Fits
<1> HIDE DEF d
<1>4. Wrapped(d) = d
  BY <1>1, <1>2, <1>3, RangeAssumption, WrappedFits
<1>5. Wrapped(d * DaySeconds) = d * DaySeconds
  BY <1>2, <1>3, WrappedFits
<1>6. QED
  BY <1>4, <1>5 DEF Seconds, expireAfterSeconds, d

LEMMA SecondsTyped == ASSUME TtlTypeOK, NEW p \in Process PROVE Seconds(p) \in Int
<1>1. setting[p] \in Int
  <2>1. setting[p] \in Days
    BY DEF TtlTypeOK
  <2>2. QED
    BY <2>1, DaysAssumption
<1>2. Wrapped(setting[p]) \in Int
  BY <1>1, WrappedTyped
<1>3. Wrapped(setting[p]) * DaySeconds \in Int
  BY <1>2, DaysAssumption
<1>4. QED
  BY <1>3, WrappedTyped DEF Seconds, expireAfterSeconds

LEMMA TtlInitial == TtlInit => TtlInv
<1> SUFFICES ASSUME TtlInit PROVE TtlInv
  OBVIOUS
<1>1. index \in Index
  <2>1. Plain \in {Plain} \cup Nat /\ DaySeconds \in Nat
    BY DaysAssumption
  <2>2. \A n \in {Ours, "by hand"}, e \in {Plain, DaySeconds} :
          [name |-> n, seconds |-> e] \in Index
    BY <2>1 DEF Index
  <2>3. NoIndex \in Index
    BY DEF Index
  <2>4. QED
    BY <2>2, <2>3 DEF TtlInit, Leftovers
<1>2. TtlTypeOK
  BY <1>1 DEF TtlInit, TtlTypeOK
<1>3. PICK r \in Process : TRUE
  BY ProcessAssumption
<1>4. Owes(r)
  BY <1>3 DEF TtlInit, Owes
<1>5. QED
  BY <1>2, <1>4 DEF TtlInit, TtlInv

\* An index of a type stays so, however its expiry is changed.
LEMMA IndexTyped ==
  ASSUME TtlInv, NEW p \in Process, Creatable(p)
  PROVE  /\ Wanted(p) \in Index /\ Wanted(p).seconds = Seconds(p) /\ NoIndex \in Index
         /\ index # NoIndex => InPlace(p) \in Index /\ InPlace(p).seconds = Seconds(p)
<1>1. Seconds(p) \in Nat
  BY SecondsTyped DEF TtlInv, Creatable
<1>2. Wanted(p) \in Index /\ Wanted(p).seconds = Seconds(p) /\ NoIndex \in Index
  BY <1>1 DEF Wanted, Index
<1>3. ASSUME index # NoIndex PROVE InPlace(p) \in Index /\ InPlace(p).seconds = Seconds(p)
  <2>1. index \in [name : {Ours, "by hand"}, seconds : {Plain} \cup Nat]
    BY <1>3 DEF TtlInv, TtlTypeOK, Index
  <2>2. QED
    BY <1>1, <2>1 DEF InPlace, Index
<1>4. QED
  BY <1>2, <1>3

\* What a step of p leaves true of the others' states and of its own place.
Moves(p, step) ==
  /\ step \in {"down", "create", "collMod", "lookup", "drop", "recreate", "up"}
  /\ tpc' = [tpc EXCEPT ![p] = step]

\* A step that keeps the types re-establishes the invariant if p then owes the index, or has
\* just made it, or has left it as it was without having owed anything.
LEMMA TtlAdvance ==
  ASSUME TtlInv, NEW p \in Process, NEW step, Moves(p, step),
         index' \in Index, setting' \in [Process -> Days],
         \A q \in Process : q # p => setting'[q] = setting[q],
         found' \in [Process -> {"none", Ours, "by hand"}], faults' \in Nat,
         step \in {"create", "collMod", "recreate"} => ~Off(p)',
         step = "collMod" => Creatable(p)',
         \/ step # "up" /\ step # "drop"
         \/ step = "drop" /\ found'[p] = index'.name
         \/ step = "up" /\ (Fits(setting'[p]) => AsConfigured(p)')
  PROVE  TtlInv'
<1>1. TtlTypeOK'
  BY DEF TtlInv, TtlTypeOK, Moves
<1>2. \A q \in Process : tpc'[q] = IF q = p THEN step ELSE tpc[q]
  BY DEF TtlInv, TtlTypeOK, Moves
<1>3. ASSUME NEW q \in Process
      PROVE  /\ tpc'[q] \in {"create", "collMod", "recreate"} => ~Off(q)'
             /\ tpc'[q] = "collMod" => Creatable(q)'
  BY <1>2 DEF TtlInv, Off, Creatable, Seconds
<1>4. CASE step # "up"
  BY <1>1, <1>2, <1>3, <1>4 DEF TtlInv, Owes
<1>5. CASE step = "up"
  BY <1>1, <1>2, <1>3, <1>5 DEF TtlInv
<1>6. QED
  BY <1>4, <1>5

\* An index made by a command of p is the one p wants, when that fits.
LEMMA MadeAsConfigured ==
  ASSUME TtlInv, NEW p \in Process, ~Off(p), setting' = setting,
         index'.seconds = Seconds(p)
  PROVE  Fits(setting'[p]) => AsConfigured(p)'
BY SecondsFit DEF TtlInv, AsConfigured, Off

LEMMA TtlStepInv == TtlInv /\ [TtlNext]_ttlVars => TtlInv'
<1> SUFFICES ASSUME TtlInv, [TtlNext]_ttlVars PROVE TtlInv'
  OBVIOUS
<1>0. TtlTypeOK /\ NoIndex \in Index /\ (Fault => faults' \in Nat)
  <2>1. TtlTypeOK /\ NoIndex \in Index
    BY DEF TtlInv, Index
  <2>2. faults \in Nat
    BY <2>1 DEF TtlTypeOK
  <2>3. QED
    BY <2>1, <2>2 DEF Fault
<1>1. ASSUME NEW p \in Process, Launch(p) PROVE TtlInv'
  <2>1. Moves(p, IF Off(p) THEN "lookup" ELSE "create")
    BY <1>1 DEF Launch, Goto, Moves
  <2>2. QED
    BY <1>0, <1>1, <2>1, TtlAdvance DEF Launch, TtlTypeOK, Off
<1>2. ASSUME NEW p \in Process, CreateOne(p) PROVE TtlInv'
  <2>1. ~Off(p)
    BY <1>2 DEF CreateOne, TtlInv
  <2>2. CASE Creatable(p) /\ ~Conflict(p)
    <3>1. index' = Wanted(p) /\ Moves(p, "up") /\ UNCHANGED <<setting, found, faults>>
      BY <1>2, <2>2 DEF CreateOne, Goto, Moves
    <3>2. index' \in Index /\ (Fits(setting'[p]) => AsConfigured(p)')
      BY <2>1, <2>2, <3>1, IndexTyped, MadeAsConfigured
    <3>3. QED
      BY <1>0, <3>1, <3>2, TtlAdvance DEF TtlTypeOK
  <2>3. CASE ~(Creatable(p) /\ ~Conflict(p))
    <3>1. /\ index' = index /\ UNCHANGED <<setting, found, faults>>
          /\ Moves(p, IF Creatable(p) /\ tpc[p] = "create" THEN "collMod" ELSE "down")
      BY <1>2, <2>3 DEF CreateOne, Goto, Moves, AfterConflict
    <3>2. QED
      BY <1>0, <2>1, <3>1, TtlAdvance DEF TtlTypeOK, Off, Creatable, Seconds
  <2>4. QED
    BY <2>2, <2>3
<1>3. ASSUME NEW p \in Process, CollMod(p) PROVE TtlInv'
  <2>1. ~Off(p) /\ Creatable(p) /\ setting' = setting /\ found' = found
    BY <1>3 DEF CollMod, TtlInv
  <2>2. CASE index # NoIndex /\ index' = InPlace(p) /\ Goto(p, AfterCollMod(TRUE)) /\ faults' = faults
    <3>1. Moves(p, "up")
      BY <2>2 DEF Goto, Moves, AfterCollMod
    <3>2. index' \in Index /\ (Fits(setting'[p]) => AsConfigured(p)')
      BY <2>1, <2>2, IndexTyped, MadeAsConfigured
    <3>3. QED
      BY <1>0, <2>1, <2>2, <3>1, <3>2, TtlAdvance DEF TtlTypeOK
  <2>3. CASE Goto(p, AfterCollMod(FALSE)) /\ index' \in {index, InPlace(p)}
             /\ (index = NoIndex => index' = index) /\ faults' \in Nat
    <3>1. Moves(p, "lookup") /\ index' \in Index
      BY <1>0, <2>1, <2>3, IndexTyped DEF Goto, Moves, AfterCollMod, TtlTypeOK
    <3>2. QED
      BY <1>0, <2>1, <2>3, <3>1, TtlAdvance DEF TtlTypeOK
  <2>4. QED
    <3>1. faults \in Nat
      BY <1>0 DEF TtlTypeOK
    <3>2. QED
      BY <1>0, <1>3, <2>2, <2>3, <3>1 DEF CollMod
<1>4. ASSUME NEW p \in Process, Lookup(p) PROVE TtlInv'
  <2>1. /\ UNCHANGED <<index, setting, faults>> /\ found' = [found EXCEPT ![p] = index.name]
        /\ Moves(p, IF index = NoIndex THEN AfterDrop(p) ELSE "drop")
    BY <1>4 DEF Lookup, Goto, Moves, AfterDrop
  <2>2. index.name \in {"none", Ours, "by hand"}
    <3>1. index = NoIndex \/ index \in [name : {Ours, "by hand"}, seconds : {Plain} \cup Nat]
      BY <1>0 DEF TtlTypeOK, Index
    <3>2. index \in [name : {Ours, "by hand"}, seconds : {Plain} \cup Nat]
            => index.name \in {Ours, "by hand"}
      OBVIOUS
    <3>3. NoIndex.name = "none"
      BY DEF NoIndex
    <3>4. QED
      BY <3>1, <3>2, <3>3
  <2>3. found' \in [Process -> {"none", Ours, "by hand"}] /\ found'[p] = index.name
    BY <1>0, <2>1, <2>2 DEF TtlTypeOK
  <2>4. CASE index # NoIndex
    BY <1>0, <2>1, <2>3, <2>4, TtlAdvance DEF TtlTypeOK
  <2>5. CASE index = NoIndex /\ Off(p)
    <3>1. Moves(p, "up") /\ AsConfigured(p)'
      BY <2>1, <2>5 DEF AfterDrop, AsConfigured, Off
    <3>2. QED
      BY <1>0, <2>1, <2>3, <3>1, TtlAdvance DEF TtlTypeOK
  <2>6. CASE index = NoIndex /\ ~Off(p)
    <3>1. Moves(p, "recreate") /\ ~Off(p)'
      BY <2>1, <2>6 DEF AfterDrop, Off
    <3>2. QED
      BY <1>0, <2>1, <2>3, <3>1, TtlAdvance DEF TtlTypeOK
  <2>7. QED
    BY <2>4, <2>5, <2>6
<1>5. ASSUME NEW p \in Process, DropOne(p) PROVE TtlInv'
  <2>1. /\ tpc[p] = "drop" /\ UNCHANGED <<setting, found, faults>>
        /\ index' = IF index.name = found[p] THEN NoIndex ELSE index
        /\ Moves(p, AfterDrop(p))
    BY <1>5 DEF DropOne, Goto, Moves, AfterDrop
  <2>2. index' \in Index
    BY <1>0, <2>1 DEF TtlTypeOK
  <2>3. CASE ~Off(p)
    <3>1. Moves(p, "recreate") /\ ~Off(p)'
      BY <2>1, <2>3 DEF AfterDrop, Off
    <3>2. QED
      BY <1>0, <2>1, <2>2, <3>1, TtlAdvance DEF TtlTypeOK
  <2>4. CASE Off(p) /\ index' = NoIndex
    <3>1. Moves(p, "up") /\ AsConfigured(p)'
      BY <2>1, <2>4 DEF AfterDrop, AsConfigured, Off
    <3>2. QED
      BY <1>0, <2>1, <2>2, <3>1, TtlAdvance DEF TtlTypeOK
  <2>5. CASE Off(p) /\ index' # NoIndex
    <3>1. index' = index /\ index # NoIndex /\ index.name # found[p] /\ ~Owes(p)
      BY <2>1, <2>5 DEF Owes
    <3>2. \A q \in Process : q # p => tpc'[q] = tpc[q]
      BY <1>0, <2>1 DEF TtlTypeOK, Moves
    <3>3. tpc'[p] = "up" /\ tpc' \in [Process -> {"down", "create", "collMod", "lookup",
                                                  "drop", "recreate", "up"}]
      BY <1>0, <2>1, <2>5 DEF TtlTypeOK, Moves, AfterDrop
    <3>4. TtlTypeOK'
      BY <1>0, <2>1, <2>2, <3>3 DEF TtlTypeOK
    <3>5. \A q \in Process : /\ tpc'[q] \in {"create", "collMod", "recreate"} => ~Off(q)'
                             /\ tpc'[q] = "collMod" => Creatable(q)'
      BY <2>1, <3>2, <3>3 DEF TtlInv, Off, Creatable, Seconds
    <3>6. CASE \E r \in Process : Owes(r)
      <4>1. PICK r \in Process : Owes(r)
        BY <3>6
      <4>2. Owes(r)'
        BY <2>1, <3>1, <3>2, <4>1 DEF Owes, Off
      <4>3. QED
        BY <3>4, <3>5, <4>2 DEF TtlInv
    <3>7. CASE \E r \in Process : tpc[r] = "up" /\ (Fits(setting[r]) => AsConfigured(r))
      <4>1. PICK r \in Process : tpc[r] = "up" /\ (Fits(setting[r]) => AsConfigured(r))
        BY <3>7
      <4>2. tpc'[r] = "up" /\ (Fits(setting'[r]) => AsConfigured(r)')
        BY <2>1, <3>1, <3>2, <4>1 DEF AsConfigured, Off
      <4>3. QED
        BY <3>4, <3>5, <4>2 DEF TtlInv
    <3>8. QED
      BY <3>6, <3>7 DEF TtlInv
  <2>6. QED
    BY <2>3, <2>4, <2>5
<1>6. ASSUME NEW p \in Process, Dies(p) PROVE TtlInv'
  <2>1. Moves(p, "down") /\ UNCHANGED <<setting, found>> /\ faults' \in Nat
    BY <1>0, <1>6 DEF Dies, Goto, Moves
  <2>2. index' \in Index
    <3>1. CASE index' = index \/ index' = NoIndex
      BY <1>0, <3>1 DEF TtlTypeOK
    <3>2. CASE Creatable(p) /\ index' = Wanted(p)
      BY <3>2, IndexTyped
    <3>3. CASE tpc[p] = "collMod" /\ index # NoIndex /\ index' = InPlace(p)
      BY <3>3, IndexTyped DEF TtlInv
    <3>4. QED
      BY <1>6, <3>1, <3>2, <3>3 DEF Dies
  <2>3. QED
    BY <1>0, <2>1, <2>2, TtlAdvance DEF TtlTypeOK
<1>7. ASSUME NEW p \in Process, Reconfigure(p) PROVE TtlInv'
  <2>1. tpc[p] = "down" /\ UNCHANGED <<index, tpc, found>> /\ faults' \in Nat
    BY <1>0, <1>7 DEF Reconfigure
  <2>2. PICK d \in Days : setting' = [setting EXCEPT ![p] = d]
    BY <1>7 DEF Reconfigure
  <2>3. /\ setting' \in [Process -> Days]
        /\ \A q \in Process : q # p => setting'[q] = setting[q]
    BY <1>0, <2>2 DEF TtlTypeOK
  <2>4. Moves(p, "down")
    BY <1>0, <2>1 DEF TtlTypeOK, Moves
  <2>5. QED
    BY <1>0, <2>1, <2>3, <2>4, TtlAdvance DEF TtlTypeOK
<1>8. CASE UNCHANGED ttlVars
  BY <1>8 DEF ttlVars, TtlInv, TtlTypeOK, Owes, Off, Creatable, Seconds, AsConfigured
<1>9. QED
  BY <1>1, <1>2, <1>3, <1>4, <1>5, <1>6, <1>7, <1>8 DEF TtlNext, TtlStep

\* IndexAsConfigured holds for any number of processes, retentions and widths, whatever
\* index is left at first and however the attempts interleave, fail and are repeated
\* (ensureTTLIndex).
THEOREM IndexAsConfiguredHolds == TtlSpec => []IndexAsConfigured
<1>1. TtlInv => IndexAsConfigured
  <2> SUFFICES ASSUME TtlInv, \A p \in Process : tpc[p] = "up" /\ Fits(setting[p])
               PROVE  \E p \in Process : AsConfigured(p)
    BY DEF IndexAsConfigured
  <2>1. ~(\E r \in Process : Owes(r))
    BY DEF Owes
  <2>2. QED
    BY <2>1 DEF TtlInv
<1>2. QED
  BY TtlInitial, TtlStepInv, <1>1, PTL DEF TtlSpec

-----------------------------------------------------------------------------
(***************************************************************************)
(* StandingsSync: what the last sweep has stored.                          *)
(***************************************************************************)
\* The sweep at r failed, or it stored the table that upstream had, unless the league was
\* out of the window, the table came after it or the marker kept it from looking.
SweptAt(r) ==
  since < r /\ table # "none" /\ InWindow(r) /\ noTable <= r
    => lastSlip >= r \/ (standing.format = table /\ standing.at >= r)

LastSweep(r) ==
  r <= clock /\ nextSweep <= r + standingsEvery + FirstSweep /\ SweptAt(r)

SweepInv ==
  /\ clock \in Nat /\ since \in Nat /\ since <= clock
  /\ nextSweep \in Int /\ noTable \in Int /\ lastSlip \in Int /\ standing.at \in Int
  /\ table \in {"none", "league", "cup"}
  /\ noTable <= clock + standingsNoDataTTL
  /\ table # "none" => noTable <= since + standingsNoDataTTL
  /\ nextSweep # Unset => \E r \in Int : LastSweep(r)

LEMMA SweepInit == StandingsInit => SweepInv
BY SweepAssumption DEF StandingsInit, SweepInv, Unset, standingsNoDataTTL, Hour

LEMMA SweepSwept ==
  ASSUME SweepInv, Sweep
  PROVE  SweepInv'
<1>0. clock \in Nat /\ FirstSweep \in Nat /\ standingsEvery = 360 /\ standingsNoDataTTL = 1440
  BY SweepAssumption DEF SweepInv, standingsEvery, standingsNoDataTTL, Hour
<1>1. clock' = clock /\ table' = table /\ since' = since
  BY DEF Sweep
<1>2. PICK delay \in {0, FirstSweep} : nextSweep' = clock + standingsEvery + delay
  BY DEF Sweep
<1>3. nextSweep' \in Int /\ nextSweep' <= clock + standingsEvery + FirstSweep
  BY <1>0, <1>2
<1>4. /\ noTable' \in Int /\ lastSlip' \in Int
      /\ noTable' <= clock + standingsNoDataTTL
      /\ table # "none" => noTable' <= since + standingsNoDataTTL
      /\ SweptAt(clock)'
  <2>1. CASE ~Looks /\ UNCHANGED <<standing, noTable, slips, lastSlip>>
    BY <1>0, <1>1, <2>1 DEF SweepInv, SweptAt, Looks, InWindow
  <2>2. CASE /\ UNCHANGED <<noTable, slips, lastSlip>>
             /\ \/ LeagueHasTable /\ standing' = Standing("league")
                \/ CupHasTable /\ standing' = Standing("cup")
    BY <1>0, <1>1, <2>2 DEF SweepInv, SweptAt, Standing, LeagueHasTable, CupHasTable
  <2>3. CASE /\ ~LeagueHasTable /\ ~CupHasTable /\ noTable' = NoTableUntil
             /\ UNCHANGED <<standing, slips, lastSlip>>
    BY <1>0, <1>1, <2>3 DEF SweepInv, SweptAt, LeagueHasTable, CupHasTable, NoTableUntil
  <2>4. CASE Slip /\ noTable' = AfterError
    <3>1. noTable' = noTable /\ lastSlip' = clock
      BY <2>4 DEF Slip, AfterError
    <3>2. lastSlip' >= clock'
      BY <1>0, <1>1, <3>1
    <3>3. QED
      BY <1>0, <3>1, <3>2 DEF SweepInv, SweptAt
  <2>5. QED
    BY <2>1, <2>2, <2>3, <2>4 DEF Sweep
<1>5. standing'.at \in Int
  <2>1. CASE UNCHANGED standing
    BY <2>1 DEF SweepInv
  <2>2. CASE \E f \in {"league", "cup"} : standing' = Standing(f)
    BY <1>0, <2>2 DEF Standing
  <2>3. table \in {"none", "league", "cup"}
    BY DEF SweepInv
  <2>4. QED
    BY <2>1, <2>2, <2>3 DEF Sweep
<1>6. LastSweep(clock)'
  BY <1>0, <1>1, <1>3, <1>4 DEF LastSweep, standingsEvery
<1>7. QED
  BY <1>0, <1>1, <1>3, <1>4, <1>5, <1>6 DEF SweepInv

LEMMA SweepStep == SweepInv /\ [StandingsNext]_standingsVars => SweepInv'
<1> SUFFICES ASSUME SweepInv, [StandingsNext]_standingsVars PROVE SweepInv'
  OBVIOUS
<1>0. /\ HourStep \in Nat /\ FirstSweep \in Nat /\ standingsEvery = 360
      /\ standingsNoDataTTL = 1440 /\ clock \in Nat /\ since \in Nat
  BY SweepAssumption DEF SweepInv, standingsEvery, standingsNoDataTTL, Hour
<1>1. CASE Elapse
  <2>1. /\ clock' = clock + HourStep
        /\ UNCHANGED <<nextSweep, table, since, standing, noTable, lastSlip>>
    BY <1>1 DEF Elapse
  <2>2. ASSUME NEW r \in Int, LastSweep(r) PROVE LastSweep(r)'
    BY <1>0, <2>1, <2>2 DEF LastSweep, SweptAt, InWindow, standingsEvery
  <2>3. QED
    BY <1>0, <2>1, <2>2 DEF SweepInv
<1>2. CASE Turn
  <2>1. /\ since' = clock /\ table' \in {"none", "league", "cup"}
        /\ UNCHANGED <<clock, nextSweep, standing, noTable, lastSlip>>
    BY <1>2 DEF Turn
  <2>2. ASSUME NEW r \in Int, LastSweep(r) PROVE LastSweep(r)'
    BY <1>0, <2>1, <2>2 DEF LastSweep, SweptAt, standingsEvery
  <2>3. QED
    BY <1>0, <2>1, <2>2 DEF SweepInv
<1>3. CASE Reboot
  BY <1>0, <1>3 DEF Reboot, Slip, SweepInv, Unset
<1>4. CASE Sweep
  BY <1>4, SweepSwept
<1>5. CASE UNCHANGED standingsVars
  <2>1. ASSUME NEW r \in Int, LastSweep(r) PROVE LastSweep(r)'
    BY <1>5, <2>1 DEF standingsVars, LastSweep, SweptAt, InWindow, standingsEvery
  <2>2. QED
    BY <1>5, <2>1 DEF standingsVars, SweepInv
<1>6. QED
  BY <1>1, <1>2, <1>3, <1>4, <1>5 DEF StandingsNext

\* The window of a fixture is an interval.
LEMMA WindowConvex ==
  ASSUME NEW a \in Int, NEW b \in Int, NEW r \in Int, a <= r, r <= b, InWindow(a), InWindow(b)
  PROVE  InWindow(r)
<1> DEFINE D(t) == CurrentMatchDate(t)
<1>1. /\ \A t \in Int : D(t) \in Int
      /\ D(a) <= D(r) /\ D(r) <= D(b) /\ MatchDateFor(Fixture) \in Int
  BY SweepAssumption DEF CurrentMatchDate, MatchDateFor, BangkokOffset, matchDayCutoff, Day, Hour
<1>2. MatchDateFor(Fixture) <= D(a) + 1 /\ MatchDateFor(Fixture) >= D(b) - 1
  BY <1>1 DEF InWindow, standingsSyncDates
<1> HIDE DEF D
<1>3. MatchDateFor(Fixture) \in {D(r) - 1, D(r), D(r) + 1}
  BY <1>1, <1>2
<1>4. QED
  BY <1>3 DEF InWindow, standingsSyncDates, D

LEMMA SweepInTime == SweepInv => StandingsInTime
<1> DEFINE lately == clock - (standingsEvery + FirstSweep)
<1> SUFFICES ASSUME SweepInv, ~SweepDue, InWindow(clock), InWindow(lately), table # "none",
                    since + standingsNoDataTTL <= lately, lastSlip = Unset \/ lastSlip < lately
             PROVE  standing.format = table /\ standing.at >= lately
  BY DEF StandingsInTime
<1>1. /\ clock \in Nat /\ since \in Nat /\ FirstSweep \in Nat /\ standingsEvery = 360
      /\ standingsNoDataTTL = 1440 /\ Unset = -1 /\ lastSlip \in Int /\ nextSweep \in Int
  BY SweepAssumption DEF SweepInv, standingsEvery, standingsNoDataTTL, Hour, Unset
<1>2. PICK r \in Int : LastSweep(r)
  BY <1>1 DEF SweepInv, SweepDue
<1>3. lately < r /\ r <= clock /\ lately \in Int
  BY <1>1, <1>2 DEF LastSweep, SweepDue
<1>4. InWindow(r)
  BY <1>1, <1>3, WindowConvex
<1>5. since < r /\ noTable <= r /\ ~(lastSlip >= r)
  BY <1>1, <1>3 DEF SweepInv
<1>6. standing.format = table /\ standing.at >= r
  BY <1>2, <1>4, <1>5 DEF LastSweep, SweptAt
<1>7. QED
  BY <1>1, <1>3, <1>6 DEF SweepInv

\* StandingsInTime holds whatever calls fail, whenever the process restarts and however
\* often the table moves (syncStandings).
THEOREM StandingsInTimeHolds == StandingsSpec => []StandingsInTime
BY SweepInit, SweepStep, SweepInTime, PTL DEF StandingsSpec

(***************************************************************************)
(* RepairEscapes: what the scanner puts out.                               *)
(***************************************************************************)
InHex == {"u1", "u2", "u3", "u4"}

\* The scanner is inside a string when the lexer of its output is.
Agrees == /\ result # "badEscape"
          /\ result # "badHex" => (inStr <=> result # "text")

\* Until its first illegal escape the input is lexed like the output, which ends a step
\* in the middle of no escape.
RepairInv ==
  /\ RepairTypeOK /\ Agrees /\ RoundTrip
  /\ result # "escape"
  /\ source = "escape" => ended
  /\ (source \notin {"badEscape", "badHex"} /\ ~ended) => source = result

\* The same with = between Boolean values, as the property has it.
LEMMA ScannerAgrees ==
  ASSUME RepairTypeOK
  PROVE  Agrees <=> EscapesRepaired
<1>1. inStr \in {TRUE, FALSE}
  BY DEF RepairTypeOK
<1>2. QED
  BY <1>1 DEF Agrees, EscapesRepaired

\* The lexer after one byte.
LEMMA LexFrom ==
  ASSUME NEW c \in Byte
  PROVE  /\ Lex("text", c) = IF c = "quote" THEN "string" ELSE "text"
         /\ Lex("string", c) = IF c = "quote" THEN "text"
                               ELSE IF c = "backslash" THEN "escape" ELSE "string"
         /\ Lex("escape", c) = IF c \in Escapable THEN "string"
                               ELSE IF c = "u" THEN "u1" ELSE "badEscape"
         /\ \A s \in InHex : Lex(s, c) \in IF c \in Hex THEN {"u2", "u3", "u4", "string"}
                                                     ELSE {"badHex"}
         /\ \A s \in {"badEscape", "badHex"} : Lex(s, c) = s
BY DEF Lex, AfterHex, Byte, Escapable, Hex, InHex

\* The scanner outside a string, inside one, and where the lexers can be then.
LEMMA RepairCases ==
  ASSUME RepairInv, ~ended
  PROVE  /\ ~inStr => result \in {"text", "badHex"}
         /\ inStr => result \in InHex \cup {"string", "badHex"}
         /\ \/ source = result
            \/ source \in {"badEscape", "badHex"}
BY DEF RepairInv, RepairTypeOK, LexState, Agrees, InHex

\* One lemma per action: what it consumes and puts out keeps RepairInv.
LEMMA RepairOutside ==
  ASSUME RepairInv, NEW c \in Byte, Outside(c)
  PROVE  RepairInv'
<1>1. /\ ~ended /\ ended' = ended /\ ~inStr /\ inStr' \in BOOLEAN /\ same' = same
      /\ source' = Lex(source, c) /\ result' = Lex(result, c)
  BY DEF RepairInv, RepairTypeOK, Outside, Copy
<1>2. inStr' <=> c = "quote"
  BY DEF Outside
<1>3. QED
  BY <1>1, <1>2, LexFrom, RepairCases DEF RepairInv, RepairTypeOK, LexState, Agrees, RoundTrip

LEMMA RepairInside ==
  ASSUME RepairInv, NEW c \in Byte, Inside(c)
  PROVE  RepairInv'
<1>1. /\ ~ended /\ ended' = ended /\ inStr /\ inStr' \in BOOLEAN /\ same' = same
      /\ source' = Lex(source, c) /\ result' = Lex(result, c) /\ c # "backslash"
  BY DEF RepairInv, RepairTypeOK, Inside, Copy
<1>2. inStr' <=> c # "quote"
  BY DEF Inside
<1>3. /\ result = "string" => result' = IF c = "quote" THEN "text" ELSE "string"
      /\ result \in InHex => result' \in {"u2", "u3", "u4", "string", "badHex"}
      /\ result \in InHex /\ c = "quote" => result' = "badHex"
      /\ result = "badHex" => result' = "badHex"
  BY <1>1, LexFrom DEF InHex, Hex
<1>4. /\ source = result => source' = result'
      /\ source # result => source \in {"badEscape", "badHex"}
      /\ source \in {"badEscape", "badHex"} => source' = source
  <2>1. CASE source = result
    BY <1>1, <2>1, LexFrom
  <2>2. CASE source # result
    BY <1>1, <2>2, LexFrom, RepairCases
  <2>3. QED
    BY <2>1, <2>2
<1>5. Agrees' /\ result' \in LexState \ {"escape", "badEscape"}
  BY <1>1, <1>2, <1>3, RepairCases DEF Agrees, LexState, InHex
<1>6. QED
  <2>1. CASE source = result
    BY <1>1, <1>4, <1>5, <2>1 DEF RepairInv, RepairTypeOK, LexState, RoundTrip
  <2>2. CASE source # result
    BY <1>1, <1>4, <1>5, <2>2 DEF RepairInv, RepairTypeOK, LexState, RoundTrip
  <2>3. QED
    BY <2>1, <2>2

LEMMA RepairLegal ==
  ASSUME RepairInv, NEW c \in Byte, LegalEscape(c)
  PROVE  RepairInv'
<1>1. /\ ~ended /\ ended' = ended /\ inStr /\ inStr' = inStr /\ same' = same
      /\ source' = Lex(Lex(source, "backslash"), c) /\ result' = Lex(Lex(result, "backslash"), c)
      /\ c \in Escapable \cup {"u"} /\ "backslash" \in Byte
  BY DEF LegalEscape, LegalEscapes, Lex2, Byte
<1>2. QED
  BY <1>1, LexFrom, RepairCases
  DEF RepairInv, RepairTypeOK, LexState, Agrees, RoundTrip, InHex, Hex

LEMMA RepairIllegal ==
  ASSUME RepairInv, NEW c \in Byte, IllegalEscape(c)
  PROVE  RepairInv'
<1>1. /\ ~ended /\ ended' = ended /\ inStr /\ inStr' = inStr /\ same' = FALSE
      /\ source' = Lex(Lex(source, "backslash"), c) /\ result' = Lex(result, c)
      /\ c \notin Escapable \cup {"u"} /\ "backslash" \in Byte
  BY DEF IllegalEscape, LegalEscapes, Lex2, Byte
<1>2. result' \in InHex \cup {"string", "badHex"}
  BY <1>1, LexFrom, RepairCases DEF InHex, Escapable
<1>3. source' \in {"badEscape", "badHex"}
  BY <1>1, LexFrom, RepairCases DEF InHex, Hex
<1>4. QED
  BY <1>1, <1>2, <1>3 DEF RepairInv, RepairTypeOK, LexState, Agrees, RoundTrip, InHex

LEMMA RepairTrailing ==
  ASSUME RepairInv, TrailingBackslash
  PROVE  RepairInv'
<1>1. /\ ~ended /\ ended' = TRUE /\ inStr /\ inStr' = inStr /\ same' = FALSE
      /\ source' = Lex(source, "backslash") /\ result' = result /\ "backslash" \in Byte
  BY DEF TrailingBackslash, Byte
<1>2. source' \in {"escape", "badEscape", "badHex"}
  BY <1>1, LexFrom, RepairCases DEF InHex, Hex
<1>3. QED
  BY <1>1, <1>2 DEF RepairInv, RepairTypeOK, LexState, Agrees, RoundTrip

LEMMA RepairInvariant == RepairSpec => []RepairInv
<1>1. RepairInit => RepairInv
  BY DEF RepairInit, RepairInv, RepairTypeOK, LexState, Agrees, RoundTrip
<1>2. ASSUME RepairInv, EndOfInput PROVE RepairInv'
  BY <1>2 DEF RepairInv, RepairTypeOK, LexState, RoundTrip, Agrees, EndOfInput
<1>3. ASSUME RepairInv, UNCHANGED repairVars PROVE RepairInv'
  BY <1>3 DEF RepairInv, RepairTypeOK, LexState, RoundTrip, Agrees, repairVars
<1>4. RepairInv /\ [RepairNext]_repairVars => RepairInv'
  BY <1>2, <1>3, RepairOutside, RepairInside, RepairLegal, RepairIllegal, RepairTrailing
  DEF RepairNext
<1>5. QED
  BY <1>1, <1>4, PTL DEF RepairSpec

\* Whatever is put in, of whatever length: no escape that JSON does not know comes out, and
\* the scanner and a lexer of its output agree on what is inside a string.
THEOREM EscapesRepairedHolds == RepairSpec => []EscapesRepaired
<1>1. RepairInv => EscapesRepaired
  BY ScannerAgrees DEF RepairInv
<1>2. QED
  BY <1>1, RepairInvariant, PTL

\* A payload that is changed was no JSON, so a well-formed one comes out as it went in.
THEOREM RoundTripHolds == RepairSpec => []RoundTrip
<1>1. RepairInv => RoundTrip
  BY DEF RepairInv
<1>2. QED
  BY <1>1, RepairInvariant, PTL
=============================================================================
