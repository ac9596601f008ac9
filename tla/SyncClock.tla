----------------------------- MODULE SyncClock -----------------------------
(***************************************************************************)
(* Three of the loops Syncer.Run starts, over time: schedule (hourly),     *)
(* schedule-ahead (daily) and analysis (every 30 minutes).  Each runs when *)
(* the process starts and then on its ticker; a run takes no time, any     *)
(* upstream call of it may fail, and the process may stop and start again. *)
(* MongoDB and the no-data marker in Redis survive.  A loop's ticker is    *)
(* created after its first run, which delays its ticks by up to FirstRun.  *)
(* (Redis always answers here: without it the marker is not seen or not    *)
(* set, and thscore is asked once more than needed.)                       *)
(*                                                                         *)
(* Matches are synced independently of each other, so the model follows    *)
(* one of them: it may be postponed or called off, and thscore has an      *)
(* analysis for it from the instant offered on.                            *)
(***************************************************************************)
EXTENDS MatchDay

CONSTANTS
  Step,         \* bound: the resolution of the clock
  Start,        \* bound: the instants at which the clock may start
  Length,       \* bound: how long it runs
  Kickoffs,     \* instants the match may be scheduled at
  FirstRun,     \* the longest first run of a loop
  Offers,       \* instants from which its analysis may be available
  MaxTroubles   \* bound: process stops, failed upstream calls, postponements and
                \* matches called off

ASSUME ClockAssumption ==
  /\ Step \in Nat \ {0} /\ Length \in Nat /\ FirstRun \in 0..Hour
  /\ Start \subseteq {t \in Nat : t >= 2 * Day}
  /\ Kickoffs \subseteq Nat /\ Offers \subseteq Nat

VARIABLES
  now, began,
  up,           \* the process runs
  due,          \* next tick of each loop, Never before its first run
  fetched,      \* instant at which each thscore date was last fetched and upserted
  kickoff,      \* the kick-off as thscore has it
  status,       \* ... and the status, "scheduled" or "off": postponed with its kick-off as
                \* it was, canceled, or under way
  stored,       \* the kick-off as MongoDB has it, Never before the first fetch
  storedStatus, \* ... and the status
  offered,
  analysis,     \* fetched_at of the stored analysis, or Never
  marker,       \* expiry of the analysis:nodata marker, Never standing for none
  ready,        \* history: when the last obstacle to the analysis went away
  failure,      \* history: instant of the last failed call, or Never
  troubles

fixture == <<kickoff, status>>
known   == <<stored, storedStatus>>
match   == <<fixture, known, offered, analysis, marker>>
vars    == <<now, began, up, due, fetched, match, ready, failure, troubles>>

Never == -1
Loop  == {"schedule", "schedule-ahead", "analysis"}
scheduleAheadDays == 7
analysisNoDataTTL == 6 * Hour
Dates == 0 .. BangkokDate(began + Length + Step) + scheduleAheadDays

Since(t, d) == t # Never /\ now - t <= d       \* t lies at most d ago
Later(a, b) == IF a < b THEN b ELSE a

Init ==
  /\ began \in Start /\ now = began
  /\ up = TRUE
  /\ due = [l \in Loop |-> Never]
  /\ fetched = [d \in Dates |-> Never]
  /\ kickoff \in Kickoffs /\ offered \in Offers
  /\ status = "scheduled" /\ storedStatus = "scheduled"
  /\ stored = Never /\ analysis = Never /\ marker = Never
  /\ ready = began /\ failure = Never
  /\ troubles = 0

Trouble == troubles < MaxTroubles /\ troubles' = troubles + 1

\* Run: every loop runs at once.
Boot ==
  /\ ~up /\ up' = TRUE
  /\ due' = [l \in Loop |-> Never]
  /\ ready' = now
  /\ UNCHANGED <<now, began, fetched, match, failure, troubles>>

Crash ==
  /\ up /\ up' = FALSE
  /\ Trouble
  /\ UNCHANGED <<now, began, due, fetched, match, ready, failure>>

\* No ticker has fired that has not been served.
Served == up => \A l \in Loop : due[l] > now

Tick ==
  /\ Served /\ now < began + Length
  /\ now' = now + Step
  /\ UNCHANGED <<began, up, due, fetched, match, ready, failure, troubles>>

Postpone ==
  /\ \E k \in Kickoffs : k > kickoff /\ kickoff' = k
  /\ status' = status
  /\ Trouble
  /\ UNCHANGED <<now, began, up, due, fetched, known, offered, analysis, marker, ready,
                 failure>>

\* MapStatus: an undetermined match (TBD) still is a scheduled one.
CallOff ==
  /\ status = "scheduled" /\ status' = "off"
  /\ Trouble
  /\ UNCHANGED <<now, began, up, due, fetched, kickoff, known, offered, analysis, marker,
                 ready, failure>>

\* On again, at the old time or a later one.
Reinstate ==
  /\ status = "off" /\ status' = "scheduled"
  /\ \E k \in Kickoffs : k >= kickoff /\ kickoff' = k
  /\ UNCHANGED <<now, began, up, due, fetched, known, offered, analysis, marker, ready,
                 failure, troubles>>

Fires(l, every) ==
  /\ up /\ due[l] <= now
  /\ \E delay \in {0, FirstRun} :
       /\ due[l] # Never => delay = 0
       /\ due' = [due EXCEPT ![l] = now + every + delay]

\* A call fails: what it was for is left as it is.
Fails == Trouble /\ failure' = now
Works == UNCHANGED <<failure, troubles>>

\* MongoDB learns something: an obstacle to the analysis may have gone.
Stores(k, s) ==
  /\ stored' = k /\ storedStatus' = s
  /\ ready' = IF known' = known THEN ready ELSE Later(ready, now)

\* syncScheduleDays: date after date, giving up at the first call that fails.
syncScheduleDays(fromDay, toDay) ==
  \E n \in 0 .. toDay - fromDay + 1 :
    LET done == ScheduleDates(now, fromDay, fromDay + n - 1) IN
    /\ IF n = toDay - fromDay + 1 THEN Works ELSE Fails
    /\ fetched' = [d \in Dates |-> IF d \in done THEN now ELSE fetched[d]]
    /\ IF UtcDate(kickoff) \in done THEN Stores(kickoff, status)
                                     ELSE Stores(stored, storedStatus)

\* Yesterday left out of the window: HourlyFresh.
syncSchedule_Bug == syncScheduleDays(0, 1)
syncSchedule == syncScheduleDays(-1, 1)
\* A day between the two windows: FixtureFresh.
syncScheduleAhead_Bug == syncScheduleDays(3, scheduleAheadDays)
syncScheduleAhead == syncScheduleDays(2, scheduleAheadDays)

Schedule ==
  /\ Fires("schedule", Hour) /\ syncSchedule
  /\ UNCHANGED <<now, began, up, fixture, offered, analysis, marker>>

ScheduleAhead ==
  /\ Fires("schedule-ahead", Day) /\ syncScheduleAhead
  /\ UNCHANGED <<now, began, up, fixture, offered, analysis, marker>>

\* The other loops may store either sooner: the modifications and the live snapshot both,
\* the live changes the status of a match that is stored.
StoredSooner ==
  /\ up
  /\ \E k \in {stored, kickoff} \ {Never} : Stores(k, status)
  /\ UNCHANGED <<now, began, up, due, fetched, fixture, offered, analysis, marker, failure,
                 troubles>>

\* ListMatchesForAnalysis: by match date first, then by status and kick-off.
Candidate ==
  /\ stored # Never
  /\ MatchDateFor(stored) \in analysisSyncDates(now)
  /\ storedStatus = "scheduled"
  /\ now <= stored /\ stored < now + analysisLookahead

analysisSkip == analysis # Never /\ now - analysis < analysisRefetchWindow
noDataMarked == now < marker

Asks == Candidate /\ ~analysisSkip /\ ~noDataMarked

Analysis ==
  /\ Fires("analysis", 30)
  /\ \/ ~Asks /\ Works /\ UNCHANGED <<analysis, marker>>
     \/ Asks /\ Fails /\ UNCHANGED <<analysis, marker>>
     \/ /\ Asks /\ now >= offered /\ Works
        /\ analysis' = now /\ marker' = marker
     \/ /\ Asks /\ now < offered /\ Works
        /\ marker' = now + analysisNoDataTTL /\ analysis' = analysis
  /\ UNCHANGED <<now, began, up, fetched, fixture, known, offered, ready>>

Done == Served /\ now >= began + Length /\ UNCHANGED vars

Next == \/ Boot \/ Crash \/ Tick
        \/ Postpone \/ CallOff \/ Reinstate
        \/ Schedule \/ ScheduleAhead \/ StoredSooner \/ Analysis
        \/ Done

Spec == Init /\ [][Next]_vars

(***************************************************************************)
(* Properties, of a process whose tickers have been served                 *)
(***************************************************************************)
Steady(d) == up /\ Served /\ ~Since(failure, d)      \* ... and no call failed for d

\* syncScheduleAhead: "fixture data is never older than 24h", but for the hour until the
\* hourly window takes a date over from the daily one.  That happens at midnight in
\* Bangkok, and the tickers know no midnight.
FixtureFresh ==
  Steady(2 * Day) =>
    \A d \in BangkokDate(now) - 1 .. BangkokDate(now) + scheduleAheadDays - 2 :
      Since(fetched[d], Day + Hour + FirstRun)

\* Whatever the time of day, a fixture is refreshed hourly from 29 hours before its
\* kick-off to 17 hours after it, late corrections included.
HourlyFresh ==
  Steady(Hour + FirstRun) =>
    \A d \in UtcDate(now - 17 * Hour) .. UtcDate(now + 29 * Hour) :
      Since(fetched[d], Hour + FirstRun)

\* A match gets its analysis at most 6 hours and a half (a no-data marker, a tick and
\* FirstRun) after the last obstacle went: the process is up, MongoDB has the kick-off, and
\* the match as a scheduled one, thscore has the analysis and the kick-off is less than 24
\* hours away.  A match called off with its kick-off ahead is never asked about.
AnalysisInTime ==
  LET from == Later(Later(ready, offered), stored - analysisLookahead + 1) IN
  /\ stored # Never /\ now <= stored /\ storedStatus = "scheduled"
  /\ now >= from + analysisNoDataTTL + 30 + FirstRun
  /\ Steady(now - from)
  => analysis # Never

\* syncSchedule: the display day "spans thscore dates yesterday through tomorrow", so
\* the hourly window keeps all of it fresh.
DisplayDayFresh ==
  LET d == CurrentMatchDate(now) IN
  Steady(Day) =>
    \A u \in UtcDate(MatchDayStart(d)) .. UtcDate(MatchDayStart(d + 1) - 1) :
      Since(fetched[u], Hour + FirstRun)
=============================================================================
