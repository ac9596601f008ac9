--------------------------- MODULE StandingsSync ---------------------------
(***************************************************************************)
(* The standings loop, over time: every six hours, for each league with a  *)
(* fixture in the window, ask standing/league.aspx, then standing/cup.aspx *)
(* when it has no data, and remember for a day that neither has.  Leagues  *)
(* do not interact, so the model follows one, whose only fixture is fixed; *)
(* thscore may give it a table, take it away, or move it to the other      *)
(* endpoint.  MongoDB and the marker in Redis survive a restart.           *)
(***************************************************************************)
EXTENDS MatchDay

CONSTANTS
  HourStep,      \* bound: the resolution of the clock
  ClockStart, ClockEnd,   \* bound: the clock
  Fixture,       \* the kick-off of the league's fixture
  FirstSweep,    \* the longest first run of the loop
  MaxTurns,      \* bound: changes of the table's format upstream
  MaxSlips       \* bound: failed calls and restarts

ASSUME SweepAssumption ==
  HourStep \in Nat \ {0} /\ FirstSweep \in Nat /\ ClockStart \in Nat /\ Fixture \in Nat

standingsEvery     == 6 * Hour
standingsNoDataTTL == 24 * Hour
Unset == -1

VARIABLES
  clock, nextSweep,    \* nextSweep is Unset before the first run of a process
  table, since,        \* upstream: "none", "league" or "cup", and since when
  standing,            \* MongoDB: the format stored, and when
  noTable,             \* expiry of the standings:nodata marker
  lastSlip, turns, slips

standingsVars == <<clock, nextSweep, table, since, standing, noTable, lastSlip, turns, slips>>

StandingsInit ==
  /\ clock = ClockStart /\ nextSweep = Unset
  /\ table \in {"none", "league", "cup"} /\ since = clock
  /\ standing = [format |-> "none", at |-> clock]
  /\ noTable = Unset /\ lastSlip = Unset
  /\ turns = 0 /\ slips = 0

SweepDue == nextSweep <= clock

Elapse ==
  /\ ~SweepDue /\ clock < ClockEnd
  /\ clock' = clock + HourStep
  /\ UNCHANGED <<nextSweep, table, since, standing, noTable, lastSlip, turns, slips>>

Turn ==
  /\ turns < MaxTurns /\ turns' = turns + 1
  /\ \E f \in {"none", "league", "cup"} \ {table} : table' = f
  /\ since' = clock
  /\ UNCHANGED <<clock, nextSweep, standing, noTable, lastSlip, slips>>

Slip == slips < MaxSlips /\ slips' = slips + 1 /\ lastSlip' = clock

\* The process stops and starts again, its loop runs at once.
Reboot ==
  /\ Slip /\ nextSweep' = Unset
  /\ UNCHANGED <<clock, table, since, standing, noTable, turns>>

\* DistinctLeagueIDsForMatchDates: the league has a fixture in the window.
InWindow(t) == MatchDateFor(Fixture) \in standingsSyncDates(t)
Looks == InWindow(clock) /\ ~(clock < noTable)

NoTableUntil == clock + standingsNoDataTTL

\* Any error of the call taken for no data: StandingsInTime.
AfterError_Bug == NoTableUntil
AfterError == noTable

\* What each endpoint answers; the cup endpoint is asked after the league endpoint's "no data".
LeagueHasTable == table = "league"
CupHasTable    == table = "cup"
Standing(f)    == [format |-> f, at |-> clock]

\* A table is stored, and none on either endpoint is remembered.  Any call may fail, the
\* upsert perhaps after it was carried out, which leaves everything for the next run.
Sweep ==
  /\ SweepDue
  /\ \E delay \in {0, FirstSweep} :
       /\ nextSweep # Unset => delay = 0
       /\ nextSweep' = clock + standingsEvery + delay
  /\ \/ /\ ~Looks
        /\ UNCHANGED <<standing, noTable, slips, lastSlip>>
     \/ /\ Looks
        /\ \/ LeagueHasTable /\ standing' = Standing("league")
           \/ CupHasTable /\ standing' = Standing("cup")
        /\ UNCHANGED <<noTable, slips, lastSlip>>
     \/ /\ Looks /\ ~LeagueHasTable /\ ~CupHasTable
        /\ noTable' = NoTableUntil
        /\ UNCHANGED <<standing, slips, lastSlip>>
     \/ /\ Looks /\ Slip
        /\ noTable' = AfterError
        /\ standing' \in {standing} \cup {Standing(f) : f \in {table} \ {"none"}}
  /\ UNCHANGED <<clock, table, since, turns>>

StandingsNext == Elapse \/ Turn \/ Reboot \/ Sweep

StandingsSpec == StandingsInit /\ [][StandingsNext]_standingsVars

\* A table that upstream has had for a marker and an interval is stored, in its format,
\* and no older than an interval, while the league has a fixture in the window: a failed
\* call costs one interval, and a table that moves to the other endpoint is found there.
StandingsInTime ==
  LET lately == clock - (standingsEvery + FirstSweep) IN
  /\ ~SweepDue /\ InWindow(clock) /\ InWindow(lately)
  /\ table # "none" /\ since + standingsNoDataTTL <= lately
  /\ lastSlip = Unset \/ lastSlip < lately
  => standing.format = table /\ standing.at >= lately
=============================================================================
