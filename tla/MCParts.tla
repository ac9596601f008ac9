------------------------------ MODULE MCParts ------------------------------
(***************************************************************************)
(* Model-checking instance of five parts beside the live path.  They share *)
(* no state, so a behaviour follows one of them, and the others stay where *)
(* they are: interleaving them would add states and no behaviour.          *)
(***************************************************************************)
EXTENDS EventsSync, StandingsSync, TtlIndex, RateLimit, RepairEscapes

CONSTANTS m1, m2, schedule, ahead, modify

VARIABLE part

vars == <<part, eventsVars, standingsVars, ttlVars, limitVars, repairVars>>

\* Both matches have a list; m1 is on one date or moves on, m2 on two.
MCListings == {[m \in Match |-> IF m = m1 THEN dates ELSE {1, 2}] : dates \in {{1}, {2, 3}}}
MCChanging == {<<"events", m1>>, <<"events", m2>>, <<"stats", m2>>}
MCWatched  == {<<"events", m1>>, <<"stats", m2>>}
MCCallsOf  == [c \in Caller |-> CASE c = schedule -> 3 [] c = ahead -> 6 [] c = modify -> 2]

\* One initial state of each part that is not followed.
Init ==
  /\ part \in {"events", "standings", "ttl", "limiter", "repair"}
  /\ EventsInit /\ (part # "events" => listed = CHOOSE l \in Listings : TRUE)
  /\ StandingsInit /\ (part # "standings" => table = "none")
  /\ TtlInit
  /\ part # "ttl" => index = NoIndex /\ setting = [p \in Process |-> CHOOSE d \in Days : ~Fits(d)]
  /\ LimitInit /\ RepairInit

OnlyEvents    == part = "events" /\ UNCHANGED <<part, standingsVars, ttlVars, limitVars, repairVars>>
OnlyStandings == part = "standings" /\ UNCHANGED <<part, eventsVars, ttlVars, limitVars, repairVars>>
OnlyTtl       == part = "ttl" /\ UNCHANGED <<part, eventsVars, standingsVars, limitVars, repairVars>>
OnlyLimiter   == part = "limiter" /\ UNCHANGED <<part, eventsVars, standingsVars, ttlVars, repairVars>>
OnlyRepair    == part = "repair" /\ UNCHANGED <<part, eventsVars, standingsVars, ttlVars, limitVars>>

\* Where a part has nothing left to do within its bounds.
Rest ==
  /\ \/ part = "standings" /\ clock >= ClockEnd /\ ~SweepDue
     \/ part = "ttl" /\ \A p \in Process : tpc[p] = "up"
     \/ part = "limiter" /\ time >= Horizon /\ \A c \in Caller : lpc[c] = "off"
     \/ part = "repair" /\ ended
  /\ UNCHANGED vars

Next ==
  \/ OnlyEvents /\ EventsNext
  \/ OnlyStandings /\ StandingsNext
  \/ OnlyTtl /\ TtlNext
  \/ OnlyLimiter /\ LimitNext
  \/ OnlyRepair /\ RepairNext
  \/ Rest

\* The events loop's goroutine runs, a copy expires, and systemd and the scheduler let
\* each process come up; the other parts have safety properties alone.
Fairness ==
  /\ WF_vars(OnlyEvents /\ EventsStep)
  /\ \A d \in Doc, m \in Match : WF_vars(OnlyEvents /\ ExpireCopy(d, m))
  /\ \A p \in Process : WF_vars(OnlyTtl /\ TtlStep(p))

Spec == Init /\ [][Next]_vars /\ Fairness
=============================================================================
