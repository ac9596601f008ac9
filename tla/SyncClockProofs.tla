-------------------------- MODULE SyncClockProofs --------------------------
(***************************************************************************)
(* Theorems about the calendar rules of MatchDay, for every instant, and   *)
(* about the hourly loop of SyncClock, for every value of its constants.   *)
(***************************************************************************)
EXTENDS SyncClock, TLAPS

\* A match day is the 24 hours from one 04:00 in Bangkok to the next: the bucket
\* CurrentMatchDate computes (catalog.go, matchDayCutoff).
THEOREM MatchDayIsInterval ==
  ASSUME NEW t \in Int, NEW d \in Int
  PROVE  CurrentMatchDate(t) = d <=> (MatchDayStart(d) <= t /\ t < MatchDayStart(d + 1))
BY DEF CurrentMatchDate, MatchDayStart, BangkokOffset, matchDayCutoff, Hour, Day

\* analysisSyncDates spans two consecutive match days, never one, and the match day of
\* every kick-off within the lookahead is one of them: the query by match date loses none.
THEOREM AnalysisDatesCover ==
  ASSUME NEW t \in Int, NEW k \in Int, t <= k, k < t + analysisLookahead
  PROVE  /\ analysisSyncDates(t) = {CurrentMatchDate(t), CurrentMatchDate(t) + 1}
         /\ MatchDateFor(k) \in analysisSyncDates(t)
<1>1. CurrentMatchDate(t + analysisLookahead) = CurrentMatchDate(t) + 1
  BY DEF CurrentMatchDate, analysisLookahead, BangkokOffset, matchDayCutoff, Hour, Day
<1>2. CurrentMatchDate(k) \in {CurrentMatchDate(t), CurrentMatchDate(t) + 1}
  BY DEF CurrentMatchDate, analysisLookahead, BangkokOffset, matchDayCutoff, Hour, Day
<1>3. QED
  BY <1>1, <1>2 DEF analysisSyncDates, MatchDateFor

\* standingsSyncDates holds the match day of every kick-off less than a day away, before
\* or after: no league with a fixture around now is left out.
THEOREM StandingsDatesCover ==
  ASSUME NEW t \in Int, NEW k \in Int, t - Day <= k, k <= t + Day
  PROVE  MatchDateFor(k) \in standingsSyncDates(t)
BY DEF standingsSyncDates, MatchDateFor, CurrentMatchDate, BangkokOffset, matchDayCutoff,
       Hour, Day

\* The three dates syncSchedule asks for, as UTC days, hold every kick-off from 17 hours
\* before the run to 31 hours after it.
THEOREM HourlyWindow ==
  ASSUME NEW r \in Int, NEW k \in Int, r - 17 * Hour <= k, k < r + 31 * Hour
  PROVE  UtcDate(k) \in ScheduleDates(r, -1, 1)
<1>1. UtcDate(k) - BangkokDate(r) \in -1..1
  BY DEF UtcDate, BangkokDate, BangkokOffset, Hour, Day
<1>2. UtcDate(k) = BangkokDate(r) + (UtcDate(k) - BangkokDate(r))
  BY DEF UtcDate, BangkokDate, BangkokOffset, Hour, Day
<1>3. QED
  BY <1>1, <1>2 DEF ScheduleDates

-----------------------------------------------------------------------------
\* The last hourly run, at r, is recent and either failed or fetched its three dates.
LastRun(r) ==
  /\ r \in Int /\ began <= r /\ r <= now
  /\ due["schedule"] <= r + Hour + FirstRun
  /\ failure >= r \/ \A d \in ScheduleDates(r, -1, 1) : d \in Dates /\ fetched[d] >= r

ClockInv ==
  /\ now \in Int /\ began \in Int /\ 2 * Day <= began
  /\ began <= now /\ now <= began + Length + Step
  /\ due \in [Loop -> Int]
  /\ fetched \in [Dates -> Int] /\ \A d \in Dates : fetched[d] <= now
  /\ failure \in Int /\ failure <= now
  /\ up /\ due["schedule"] > now => \E r \in Int : LastRun(r)

LEMMA ClockInit == Init => ClockInv
<1> SUFFICES ASSUME Init PROVE ClockInv
  OBVIOUS
<1>1. now \in Int /\ began \in Int /\ 2 * Day <= began /\ now = began /\ began \in Nat
  BY ClockAssumption DEF Init, Day, Hour
<1>2. due["schedule"] = Never
  BY DEF Init, Loop
<1>3. QED
  BY <1>1, <1>2, ClockAssumption DEF Init, ClockInv, Never, Day, Hour

\* Every run fetches dates the model keeps.
LEMMA WindowKept ==
  ASSUME ClockInv
  PROVE  ScheduleDates(now, -1, 1) \subseteq Dates
<1>1. /\ BangkokDate(now) \in Int /\ BangkokDate(began + Length + Step) \in Int
      /\ 1 <= BangkokDate(now) /\ BangkokDate(now) <= BangkokDate(began + Length + Step)
  BY ClockAssumption DEF ClockInv, BangkokDate, BangkokOffset, Day, Hour
<1>2. QED
  BY <1>1 DEF ScheduleDates, Dates, scheduleAheadDays

\* A run of a schedule loop leaves each date as it was or fetches it now, and records a
\* failure now or none.
LEMMA RunEffect ==
  ASSUME ClockInv, NEW a \in Int, NEW b \in Int, syncScheduleDays(a, b),
         now' = now, began' = began
  PROVE  /\ fetched' \in [Dates -> Int]
         /\ \A d \in Dates : fetched'[d] = fetched[d] \/ fetched'[d] = now
         /\ failure' = failure \/ failure' = now
         /\ \/ failure' = now
            \/ \A d \in ScheduleDates(now, a, b) \cap Dates : fetched'[d] = now
<1>1. PICK n \in 0 .. b - a + 1 :
        /\ IF n = b - a + 1 THEN Works ELSE Fails
        /\ fetched' = [d \in Dates |-> IF d \in ScheduleDates(now, a, a + n - 1)
                                       THEN now ELSE fetched[d]]
  BY DEF syncScheduleDays
<1>2. failure' = failure \/ failure' = now
  BY <1>1 DEF Works, Fails
<1>3. CASE n = b - a + 1
  <2>1. a + n - 1 = b
    BY <1>3
  <2>2. QED
    BY <1>1, <1>2, <2>1 DEF ClockInv
<1>4. CASE n # b - a + 1
  BY <1>1, <1>4 DEF Fails, ClockInv
<1>5. QED
  BY <1>3, <1>4

\* What happens to the match, upstream or in MongoDB, touches neither clock nor loops.
MatchStep == Postpone \/ CallOff \/ Reinstate \/ StoredSooner

LEMMA MatchApart == MatchStep => UNCHANGED <<now, began, up, due, fetched, failure>>
BY DEF MatchStep, Postpone, CallOff, Reinstate, StoredSooner

LEMMA ClockNext == ClockInv /\ [Next]_vars => ClockInv'
<1> SUFFICES ASSUME ClockInv, [Next]_vars PROVE ClockInv'
  OBVIOUS
<1>0. Step \in Nat /\ Length \in Nat /\ FirstRun \in Nat /\ "schedule" \in Loop
  BY ClockAssumption DEF Loop, Hour
<1>1. CASE Boot
  <2>1. due' \in [Loop -> Int] /\ ~(due'["schedule"] > now')
    BY <1>0, <1>1 DEF Boot, ClockInv, Never, Day, Hour
  <2>2. QED
    BY <1>1, <2>1 DEF Boot, ClockInv, Dates
<1>2. CASE Crash
  BY <1>2 DEF Crash, ClockInv, Dates
<1>3. CASE Tick
  <2>1. now' \in Int /\ now <= now' /\ now' <= began + Length + Step
    BY <1>0, <1>3 DEF Tick, ClockInv
  <2>2. ASSUME NEW r \in Int, LastRun(r) PROVE LastRun(r)'
    BY <1>3, <2>1, <2>2 DEF Tick, LastRun, Dates, ClockInv
  <2>3. QED
    BY <1>0, <1>3, <2>1, <2>2 DEF Tick, ClockInv, Dates
<1>4. CASE MatchStep
  BY <1>4, MatchApart DEF ClockInv, LastRun, Dates
<1>5. CASE Schedule
  <2>1. /\ now' = now /\ began' = began /\ up' = up
        /\ due["schedule"] <= now
        /\ syncScheduleDays(-1, 1)
    BY <1>5 DEF Schedule, Fires, syncSchedule
  <2>2. PICK delay \in {0, FirstRun} : due' = [due EXCEPT !["schedule"] = now + Hour + delay]
    BY <1>5 DEF Schedule, Fires
  <2>3. due' \in [Loop -> Int] /\ due'["schedule"] <= now + Hour + FirstRun
    BY <1>0, <2>2 DEF ClockInv, Hour
  <2>4. /\ fetched' \in [Dates -> Int]
        /\ \A d \in Dates : fetched'[d] <= now
        /\ failure' \in Int /\ failure' <= now
        /\ failure' >= now \/ \A d \in ScheduleDates(now, -1, 1) :
                                d \in Dates /\ fetched'[d] >= now
    BY <2>1, RunEffect, WindowKept DEF ClockInv
  <2>5. LastRun(now)'
    BY <2>1, <2>3, <2>4 DEF LastRun, Dates, ClockInv
  <2>6. QED
    BY <2>1, <2>3, <2>4, <2>5 DEF ClockInv, Dates
<1>6. CASE ScheduleAhead
  <2>1. /\ now' = now /\ began' = began /\ up' = up
        /\ syncScheduleDays(2, scheduleAheadDays) /\ scheduleAheadDays \in Int
    BY <1>6 DEF ScheduleAhead, syncScheduleAhead, scheduleAheadDays
  <2>2. PICK delay \in {0, FirstRun} :
          due' = [due EXCEPT !["schedule-ahead"] = now + Day + delay]
    BY <1>6 DEF ScheduleAhead, Fires
  <2>3. due' \in [Loop -> Int] /\ due'["schedule"] = due["schedule"]
    BY <1>0, <2>2 DEF ClockInv, Loop, Day, Hour
  <2>4. /\ fetched' \in [Dates -> Int]
        /\ \A d \in Dates : fetched'[d] <= now /\ fetched'[d] >= fetched[d]
        /\ failure' \in Int /\ failure' <= now /\ failure' >= failure
    BY <2>1, RunEffect DEF ClockInv
  <2>5. ASSUME NEW r \in Int, LastRun(r) PROVE LastRun(r)'
    <3>1. failure' >= r \/ \A d \in ScheduleDates(r, -1, 1) : d \in Dates /\ fetched'[d] >= r
      BY <2>4, <2>5 DEF LastRun, ClockInv
    <3>2. QED
      BY <2>1, <2>3, <2>5, <3>1 DEF LastRun, Dates
  <2>6. QED
    BY <2>1, <2>3, <2>4, <2>5 DEF ClockInv, Dates
<1>7. CASE Analysis
  <2>1. /\ now' = now /\ began' = began /\ up' = up /\ fetched' = fetched
        /\ failure' = failure \/ failure' = now
    BY <1>7 DEF Analysis, Works, Fails
  <2>2. PICK delay \in {0, FirstRun} : due' = [due EXCEPT !["analysis"] = now + 30 + delay]
    BY <1>7 DEF Analysis, Fires
  <2>3. due' \in [Loop -> Int] /\ due'["schedule"] = due["schedule"]
    BY <1>0, <2>2 DEF ClockInv, Loop
  <2>4. failure' \in Int /\ failure' <= now /\ failure' >= failure
    BY <2>1 DEF ClockInv
  <2>5. ASSUME NEW r \in Int, LastRun(r) PROVE LastRun(r)'
    BY <2>1, <2>3, <2>4, <2>5 DEF LastRun, Dates, ClockInv
  <2>6. QED
    BY <2>1, <2>3, <2>4, <2>5 DEF ClockInv, Dates
<1>8. CASE UNCHANGED vars
  BY <1>8 DEF vars, ClockInv, LastRun, Dates
<1>9. QED
  BY <1>1, <1>2, <1>3, <1>4, <1>5, <1>6, <1>7, <1>8 DEF Next, Done, MatchStep

LEMMA ClockInvFresh == ClockInv => HourlyFresh
<1> SUFFICES ASSUME ClockInv, Steady(Hour + FirstRun),
                    NEW d \in UtcDate(now - 17 * Hour) .. UtcDate(now + 29 * Hour)
             PROVE  Since(fetched[d], Hour + FirstRun)
  BY DEF HourlyFresh
<1>1. now \in Int /\ FirstRun \in 0..Hour /\ Hour = 60 /\ failure \in Int /\ due["schedule"] \in Int
  BY ClockAssumption DEF ClockInv, Hour, Loop
<1>2. up /\ due["schedule"] > now
  BY DEF Steady, Served, Loop
<1>3. PICK r \in Int : LastRun(r)
  BY <1>2 DEF ClockInv
<1>4. r <= now /\ now < r + Hour + FirstRun /\ r >= 0
  BY <1>1, <1>2, <1>3 DEF LastRun, ClockInv, Day, Hour
<1>5. ~(failure >= r)
  BY <1>1, <1>4 DEF Steady, Since, Never
<1>6. d \in ScheduleDates(r, -1, 1)
  <2>1. d - BangkokDate(r) \in -1..1
    BY <1>1, <1>4 DEF UtcDate, BangkokDate, BangkokOffset, Hour, Day
  <2>2. d = BangkokDate(r) + (d - BangkokDate(r))
    BY <1>4 DEF UtcDate, BangkokDate, BangkokOffset, Hour, Day
  <2>3. QED
    BY <2>1, <2>2 DEF ScheduleDates
<1>7. d \in Dates /\ fetched[d] >= r /\ fetched[d] \in Int
  BY <1>3, <1>5, <1>6 DEF LastRun, ClockInv
<1>8. QED
  BY <1>1, <1>4, <1>7 DEF Since, Never

\* HourlyFresh holds whenever the process starts and stops, whatever calls fail and
\* however long a first run takes (syncSchedule, loop).
THEOREM HourlyFreshHolds == Spec => []HourlyFresh
<1>1. ClockInv => HourlyFresh
  BY ClockInvFresh
<1>2. QED
  BY ClockInit, ClockNext, <1>1, PTL DEF Spec

\* The display day is two thscore dates, and the hourly window keeps both fresh but for the
\* first of them between midnight and 04:00 in Bangkok.
DisplayDayKept ==
  LET d == CurrentMatchDate(now) IN
  Steady(Day) =>
    \A u \in UtcDate(MatchDayStart(d)) .. UtcDate(MatchDayStart(d + 1) - 1) :
      u = d \/ BangkokDate(now) = d => Since(fetched[u], Hour + FirstRun)

\* What is true of syncSchedule's "display day spans thscore dates yesterday through
\* tomorrow", at every instant: the day that begins at 04:00 is fresh from then to midnight,
\* and what is left of it after midnight, all but its first three hours, stays so until 04:00.
THEOREM DisplayDayKeptHolds == Spec => []DisplayDayKept
<1>1. ASSUME ClockInv PROVE DisplayDayKept
  <2> DEFINE d == CurrentMatchDate(now)
  <2> SUFFICES ASSUME Steady(Day),
                      NEW u \in UtcDate(MatchDayStart(d)) .. UtcDate(MatchDayStart(d + 1) - 1),
                      u = d \/ BangkokDate(now) = d
               PROVE  Since(fetched[u], Hour + FirstRun)
    BY DEF DisplayDayKept
  <2>1. now \in Int /\ FirstRun \in 0..Hour
    BY <1>1, ClockAssumption DEF ClockInv
  <2>2. u \in {d - 1, d}
    BY <2>1 DEF MatchDayStart, UtcDate, CurrentMatchDate, BangkokOffset, matchDayCutoff, Hour, Day
  <2>3. u \in UtcDate(now - 17 * Hour) .. UtcDate(now + 29 * Hour)
    BY <2>1, <2>2 DEF UtcDate, BangkokDate, CurrentMatchDate, BangkokOffset, matchDayCutoff, Hour, Day
  <2>4. Steady(Hour + FirstRun)
    BY <1>1, <2>1 DEF Steady, Since, ClockInv, Hour, Day
  <2> QED
    BY <1>1, <2>3, <2>4, ClockInvFresh DEF HourlyFresh
<1>2. QED
  BY ClockInit, ClockNext, <1>1, PTL DEF Spec

-----------------------------------------------------------------------------
(***************************************************************************)
(* The daily loop, which hands dates over to the hourly one.               *)
(***************************************************************************)
\* A run of the daily loop at r failed or fetched its six dates.
AheadFetched(r) ==
  failure >= r \/ \A d \in ScheduleDates(r, 2, scheduleAheadDays) : d \in Dates /\ fetched[d] >= r

\* The last daily run, at r.
LastAhead(r) ==
  /\ r \in Int /\ began <= r /\ r <= now
  /\ r + Day <= due["schedule-ahead"] /\ due["schedule-ahead"] <= r + Day + FirstRun
  /\ AheadFetched(r)

\* The hourly run at h was not the first of its process, whose next tick FirstRun delays,
\* or came no later than t.
NotFirst(h, t) == h <= t \/ due["schedule"] <= h + Hour

\* The hourly loop, last run at h, has seen the dates that the daily run at r handed over,
\* or a daily run before that one, not a day and FirstRun before h, fetched them.
HandedOver(h, r) ==
  \/ r <= h
  \/ \E p \in Int : /\ began <= p /\ p + Day <= r /\ h < p + Day + FirstRun
                    /\ NotFirst(h, p) /\ AheadFetched(p)

\* Neither loop runs for the first time later than the other, and the hourly loop is not
\* ahead of a tick of the daily one.
AheadInv ==
  up =>
    /\ due["schedule"] # Never /\ due["schedule-ahead"] = Never => LastRun(now)
    /\ due["schedule"] = Never /\ due["schedule-ahead"] # Never => LastAhead(now)
    /\ due["schedule"] # Never /\ due["schedule-ahead"] # Never =>
         \E h, r \in Int : /\ LastRun(h) /\ LastAhead(r) /\ HandedOver(h, r) /\ NotFirst(h, r)
                           /\ h < now => h < due["schedule-ahead"]

LEMMA Moments ==
  ClockInv => /\ now \in Int /\ began \in Int /\ 2 * Day <= began /\ began <= now
              /\ due["schedule"] \in Int /\ due["schedule-ahead"] \in Int
              /\ due["analysis"] \in Int /\ Day = 1440 /\ Hour = 60 /\ Never = -1
              /\ FirstRun \in Nat /\ FirstRun <= 60 /\ Step \in Nat /\ failure \in Int
BY ClockAssumption DEF ClockInv, Loop, Day, Hour, Never

\* What every step but a stop of the process preserves of the runs that were.
Grows ==
  /\ began' = began /\ now' \in Int /\ now <= now'
  /\ failure' \in Int /\ failure' >= failure
  /\ fetched' \in [Dates -> Int] /\ \A d \in Dates : fetched'[d] >= fetched[d]

LEMMA StepGrows == ClockInv /\ [Next]_vars => Grows
<1> SUFFICES ASSUME ClockInv, [Next]_vars PROVE Grows
  OBVIOUS
<1>0. /\ now \in Int /\ failure \in Int /\ failure <= now /\ fetched \in [Dates -> Int]
      /\ \A d \in Dates : fetched[d] <= now /\ fetched[d] \in Int
  BY DEF ClockInv
<1>1. CASE Schedule
  <2>1. now' = now /\ began' = began /\ syncScheduleDays(-1, 1)
    BY <1>1 DEF Schedule, syncSchedule
  <2>2. QED
    BY <1>0, <2>1, RunEffect DEF Grows
<1>2. CASE ScheduleAhead
  <2>1. /\ now' = now /\ began' = began
        /\ syncScheduleDays(2, scheduleAheadDays) /\ scheduleAheadDays \in Int
    BY <1>2 DEF ScheduleAhead, syncScheduleAhead, scheduleAheadDays
  <2>2. QED
    BY <1>0, <2>1, RunEffect DEF Grows
<1>3. CASE Analysis
  BY <1>0, <1>3 DEF Analysis, Works, Fails, Grows
<1>4. CASE Tick
  BY <1>0, <1>4, ClockAssumption DEF Tick, Grows
<1>5. CASE Boot \/ Crash \/ MatchStep \/ Done \/ UNCHANGED vars
  BY <1>0, <1>5, MatchApart DEF Boot, Crash, Done, vars, Grows
<1>6. QED
  BY <1>1, <1>2, <1>3, <1>4, <1>5 DEF Next, MatchStep

LEMMA AheadKept ==
  ASSUME ClockInv, Grows, NEW r \in Int
  PROVE  /\ AheadFetched(r) => AheadFetched(r)'
         /\ LastAhead(r) /\ due'["schedule-ahead"] = due["schedule-ahead"] => LastAhead(r)'
         /\ LastRun(r) /\ due'["schedule"] = due["schedule"] => LastRun(r)'
<1>1. AheadFetched(r) => AheadFetched(r)'
  BY DEF AheadFetched, Dates, Grows, ClockInv
<1>2. LastAhead(r) /\ due'["schedule-ahead"] = due["schedule-ahead"] => LastAhead(r)'
  BY <1>1 DEF LastAhead, Grows, ClockInv
<1>3. LastRun(r) /\ due'["schedule"] = due["schedule"] => LastRun(r)'
  BY DEF LastRun, Dates, Grows, ClockInv
<1>4. QED
  BY <1>1, <1>2, <1>3

LEMMA HandOverKept ==
  ASSUME ClockInv, Grows, due'["schedule"] = due["schedule"],
         NEW h \in Int, NEW r \in Int, HandedOver(h, r)
  PROVE  HandedOver(h, r)'
<1>1. CASE r <= h
  BY <1>1 DEF HandedOver
<1>2. CASE ~(r <= h)
  <2>1. PICK p \in Int : /\ began <= p /\ p + Day <= r /\ h < p + Day + FirstRun
                         /\ NotFirst(h, p) /\ AheadFetched(p)
    BY <1>2 DEF HandedOver
  <2>2. AheadFetched(p)' /\ NotFirst(h, p)' /\ began' = began
    BY <2>1, AheadKept DEF Grows, NotFirst
  <2>3. QED
    BY <2>1, <2>2 DEF HandedOver
<1>3. QED
  BY <1>1, <1>2

\* Every loop has run once before time passes.
LEMMA AheadNext == ClockInv /\ AheadInv /\ [Next]_vars => AheadInv'
<1> SUFFICES ASSUME ClockInv, AheadInv, [Next]_vars, up' PROVE AheadInv'
  BY DEF AheadInv
<1>0. Grows /\ ClockInv'
  BY StepGrows, ClockNext
<1>1. CASE Boot
  BY <1>1 DEF Boot, AheadInv, Loop
<1>2. CASE Crash
  BY <1>2 DEF Crash
<1>3. CASE Tick
  <2>1. due["schedule"] > now /\ due["schedule-ahead"] > now /\ up /\ due' = due
    BY <1>3 DEF Tick, Served, Loop
  <2>2. due["schedule"] # Never /\ due["schedule-ahead"] # Never
    BY <2>1, Moments
  <2>3. PICK h \in Int : \E r \in Int :
           /\ LastRun(h) /\ LastAhead(r) /\ HandedOver(h, r) /\ NotFirst(h, r)
           /\ h < now => h < due["schedule-ahead"]
    BY <2>1, <2>2 DEF AheadInv
  <2>4. PICK r \in Int : /\ LastRun(h) /\ LastAhead(r) /\ HandedOver(h, r) /\ NotFirst(h, r)
                         /\ h < now => h < due["schedule-ahead"]
    BY <2>3
  <2>5. LastRun(h)' /\ LastAhead(r)' /\ HandedOver(h, r)' /\ NotFirst(h, r)'
    BY <1>0, <2>1, <2>4, AheadKept, HandOverKept DEF NotFirst
  <2>6. h < due'["schedule-ahead"]
    BY <2>1, <2>4, Moments DEF LastRun
  <2>7. QED
    BY <2>1, <2>2, <2>5, <2>6 DEF AheadInv
<1>4. CASE Schedule
  <2>1. /\ now' = now /\ began' = began /\ up /\ due["schedule"] <= now
        /\ syncScheduleDays(-1, 1)
    BY <1>4 DEF Schedule, Fires, syncSchedule
  <2>2. PICK delay \in {0, FirstRun} :
          /\ due["schedule"] # Never => delay = 0
          /\ due' = [due EXCEPT !["schedule"] = now + Hour + delay]
    BY <1>4 DEF Schedule, Fires
  <2>3. /\ due["schedule"] # Never => due'["schedule"] = now + Hour
        /\ due'["schedule"] <= now + Hour + FirstRun /\ due'["schedule"] # Never
        /\ due'["schedule-ahead"] = due["schedule-ahead"]
    BY <2>2, Moments DEF ClockInv, Loop
  <2>4. failure' >= now \/ \A d \in ScheduleDates(now, -1, 1) : d \in Dates /\ fetched'[d] >= now
    BY <2>1, RunEffect, WindowKept DEF ClockInv
  <2>5. LastRun(now)'
    BY <2>1, <2>3, <2>4, Moments DEF LastRun, Dates
  <2>6. CASE due["schedule-ahead"] = Never
    BY <2>3, <2>1, <2>5, <2>6 DEF AheadInv
  <2>7. CASE due["schedule-ahead"] # Never
    <3>1. PICK r \in Int : LastAhead(r) /\ (due["schedule"] = Never => r = now)
      BY <2>1, <2>7, Moments DEF AheadInv
    <3>2. LastAhead(r)' /\ r <= now
      BY <1>0, <2>3, <3>1, AheadKept DEF LastAhead
    <3>3. HandedOver(now, r)' /\ NotFirst(now, r)'
      BY <2>1, <2>3, <3>1, <3>2, Moments DEF HandedOver, NotFirst
    <3>4. QED
      BY <2>1, <2>3, <2>5, <2>7, <3>2, <3>3, Moments DEF AheadInv
  <2>8. QED
    BY <2>6, <2>7
<1>5. CASE ScheduleAhead
  <2>1. /\ now' = now /\ began' = began /\ up /\ due["schedule-ahead"] <= now
        /\ syncScheduleDays(2, scheduleAheadDays) /\ scheduleAheadDays = 7
    BY <1>5 DEF ScheduleAhead, Fires, syncScheduleAhead, scheduleAheadDays
  <2>2. PICK delay \in {0, FirstRun} :
          due' = [due EXCEPT !["schedule-ahead"] = now + Day + delay]
    BY <1>5 DEF ScheduleAhead, Fires
  <2>3. /\ now + Day <= due'["schedule-ahead"] /\ due'["schedule-ahead"] <= now + Day + FirstRun
        /\ due'["schedule-ahead"] # Never /\ due'["schedule-ahead"] \in Int
        /\ due'["schedule"] = due["schedule"]
    BY <2>2, Moments DEF ClockInv, Loop
  <2>4. ScheduleDates(now, 2, scheduleAheadDays) \subseteq Dates
    <3>1. /\ BangkokDate(now) \in Int /\ BangkokDate(began + Length + Step) \in Int
          /\ 1 <= BangkokDate(now) /\ BangkokDate(now) <= BangkokDate(began + Length + Step)
      BY ClockAssumption DEF ClockInv, BangkokDate, BangkokOffset, Day, Hour
    <3>2. QED
      BY <3>1 DEF ScheduleDates, Dates, scheduleAheadDays
  <2>5. AheadFetched(now)'
    <3>1. failure' = now \/ \A d \in ScheduleDates(now, 2, scheduleAheadDays) : fetched'[d] = now
      BY <2>1, <2>4, RunEffect
    <3>2. QED
      BY <2>1, <2>4, <3>1, Moments DEF AheadFetched, Dates
  <2>6. LastAhead(now)'
    BY <2>1, <2>3, <2>5, Moments DEF LastAhead
  <2>7. CASE due["schedule"] = Never
    BY <2>1, <2>3, <2>6, <2>7 DEF AheadInv
  <2>8. CASE due["schedule"] # Never /\ due["schedule-ahead"] = Never
    <3>1. LastRun(now)
      BY <2>1, <2>8 DEF AheadInv
    <3>2. LastRun(now)' /\ HandedOver(now, now)' /\ NotFirst(now, now)'
      BY <1>0, <2>1, <2>3, <3>1, AheadKept, Moments DEF HandedOver, NotFirst
    <3>3. QED
      BY <2>1, <2>3, <2>6, <2>8, <3>2, Moments DEF AheadInv
  <2>9. CASE due["schedule"] # Never /\ due["schedule-ahead"] # Never
    <3>1. PICK h \in Int : \E p \in Int :
             /\ LastRun(h) /\ LastAhead(p) /\ NotFirst(h, p)
             /\ h < now => h < due["schedule-ahead"]
      BY <2>1, <2>9 DEF AheadInv
    <3>2. PICK p \in Int : /\ LastRun(h) /\ LastAhead(p) /\ NotFirst(h, p)
                           /\ h < now => h < due["schedule-ahead"]
      BY <3>1
    <3>3. /\ LastRun(h)' /\ AheadFetched(p)' /\ h <= now /\ began <= p
          /\ NotFirst(h, p)' /\ NotFirst(h, now)'
      BY <1>0, <2>1, <2>3, <3>2, AheadKept DEF LastAhead, LastRun, NotFirst
    <3>4. CASE h = now
      <4>1. HandedOver(h, now)'
        BY <2>1, <3>4, Moments DEF HandedOver
      <4>2. QED
        BY <2>1, <2>3, <2>6, <2>9, <3>3, <3>4, <4>1, Moments DEF AheadInv
    <3>5. CASE h < now
      <4>1. p + Day <= now /\ h < p + Day + FirstRun /\ h < now + Day
        BY <2>1, <3>2, <3>5, Moments DEF LastAhead
      <4>2. HandedOver(h, now)'
        BY <2>1, <3>3, <4>1 DEF HandedOver
      <4>3. h < due'["schedule-ahead"]
        BY <2>3, <3>5, <4>1, Moments
      <4>4. QED
        BY <2>1, <2>3, <2>6, <2>9, <3>3, <4>2, <4>3, Moments DEF AheadInv
    <3>6. QED
      BY <3>3, <3>4, <3>5, Moments
  <2>10. QED
    BY <2>7, <2>8, <2>9
<1>6. CASE Analysis \/ MatchStep \/ UNCHANGED vars \/ Done
  <2>1. /\ now' = now /\ up' = up /\ due'["schedule"] = due["schedule"]
        /\ due'["schedule-ahead"] = due["schedule-ahead"]
    <3>1. CASE Analysis
      <4>1. PICK delay \in {0, FirstRun} : due' = [due EXCEPT !["analysis"] = now + 30 + delay]
        BY <3>1 DEF Analysis, Fires
      <4>2. QED
        BY <3>1, <4>1 DEF Analysis, ClockInv, Loop
    <3>2. QED
      BY <1>6, <3>1, MatchApart DEF Done, vars
  <2>2. ASSUME LastRun(now) PROVE LastRun(now)'
    BY <1>0, <2>1, <2>2, AheadKept, Moments
  <2>3. ASSUME LastAhead(now) PROVE LastAhead(now)'
    BY <1>0, <2>1, <2>3, AheadKept, Moments
  <2>4. ASSUME NEW h \in Int, NEW r \in Int, LastRun(h), LastAhead(r), HandedOver(h, r),
               NotFirst(h, r), h < now => h < due["schedule-ahead"]
        PROVE  /\ LastRun(h)' /\ LastAhead(r)' /\ HandedOver(h, r)' /\ NotFirst(h, r)'
               /\ h < now' => h < due'["schedule-ahead"]
    BY <1>0, <2>1, <2>4, AheadKept, HandOverKept DEF NotFirst
  <2>5. QED
    BY <2>1, <2>2, <2>3, <2>4 DEF AheadInv
<1>7. QED
  BY <1>1, <1>2, <1>3, <1>4, <1>5, <1>6 DEF Next, MatchStep

\* The date is in the window of the last hourly run, or of the last daily one, or it is
\* the one that the daily window lost at the midnight between the two.
LEMMA DateFetched ==
  ASSUME ClockInv, NEW h \in Int, NEW r \in Int,
         LastRun(h), LastAhead(r), HandedOver(h, r), Steady(2 * Day),
         NEW d \in BangkokDate(now) - 1 .. BangkokDate(now) + scheduleAheadDays - 2
  PROVE  d \in Dates /\ fetched[d] >= now - (Day + Hour + FirstRun)
<1>1. /\ h <= now /\ now < h + Hour + FirstRun /\ began <= h
      /\ r <= now /\ now < r + Day + FirstRun /\ began <= r
  BY Moments DEF Steady, Served, Loop, LastRun, LastAhead
<1>2. ASSUME NEW t \in Int, t >= began, t >= now - 2 * Day PROVE ~(failure >= t)
  BY <1>2, Moments DEF Steady, Since
<1>3. \A e \in Dates : fetched[e] \in Int
  BY DEF ClockInv
<1>4. \A e \in ScheduleDates(h, -1, 1) : e \in Dates /\ fetched[e] >= h
  BY <1>1, <1>2, Moments DEF LastRun
<1>5. \A e \in ScheduleDates(r, 2, scheduleAheadDays) : e \in Dates /\ fetched[e] >= r
  BY <1>1, <1>2, Moments DEF LastAhead, AheadFetched
<1>6. d \in Int /\ \A t \in Int : BangkokDate(t) \in Int
  BY Moments DEF BangkokDate, BangkokOffset, scheduleAheadDays
<1>7. CASE d <= BangkokDate(h) + 1
  <2>1. d - BangkokDate(h) \in -1..1 /\ d = BangkokDate(h) + (d - BangkokDate(h))
    BY <1>1, <1>6, <1>7, Moments DEF BangkokDate, BangkokOffset
  <2>2. d \in ScheduleDates(h, -1, 1)
    BY <2>1 DEF ScheduleDates
  <2>3. QED
    BY <1>1, <1>3, <1>4, <2>2, Moments
<1>8. CASE d >= BangkokDate(r) + 2
  <2>1. d - BangkokDate(r) \in 2..scheduleAheadDays /\ d = BangkokDate(r) + (d - BangkokDate(r))
    BY <1>1, <1>6, <1>8, Moments DEF BangkokDate, BangkokOffset, scheduleAheadDays
  <2>2. d \in ScheduleDates(r, 2, scheduleAheadDays)
    BY <2>1 DEF ScheduleDates
  <2>3. QED
    BY <1>1, <1>3, <1>5, <2>2, Moments
<1>9. CASE d > BangkokDate(h) + 1 /\ d < BangkokDate(r) + 2
  <2>1. h < r
    BY <1>1, <1>9, Moments DEF BangkokDate, BangkokOffset
  <2>2. PICK p \in Int : /\ began <= p /\ p + Day <= r /\ h < p + Day + FirstRun
                         /\ NotFirst(h, p) /\ AheadFetched(p)
    BY <2>1 DEF HandedOver
  <2>3. ~(h <= p)
    BY <1>1, <2>2, Moments
  <2>4. now < h + Hour
    <3>1. due["schedule"] > now
      BY DEF Steady, Served, Loop
    <3>2. QED
      BY <2>2, <2>3, <3>1, Moments DEF NotFirst
  <2>5. now - (Day + Hour + FirstRun) < p
    BY <2>2, <2>4, Moments
  <2>6. \A e \in ScheduleDates(p, 2, scheduleAheadDays) : e \in Dates /\ fetched[e] >= p
    BY <1>2, <2>2, <2>5, Moments DEF AheadFetched
  <2>7. d - BangkokDate(p) \in 2..scheduleAheadDays /\ d = BangkokDate(p) + (d - BangkokDate(p))
    BY <1>1, <1>6, <1>9, <2>2, <2>3, <2>5, Moments
       DEF BangkokDate, BangkokOffset, scheduleAheadDays
  <2>8. d \in ScheduleDates(p, 2, scheduleAheadDays)
    BY <2>7 DEF ScheduleDates
  <2>9. QED
    BY <1>3, <2>5, <2>6, <2>8, Moments
<1>10. QED
  BY <1>6, <1>7, <1>8, <1>9

LEMMA AheadInvFresh == ClockInv /\ AheadInv => FixtureFresh
<1> SUFFICES ASSUME ClockInv, AheadInv, Steady(2 * Day),
                    NEW d \in BangkokDate(now) - 1 .. BangkokDate(now) + scheduleAheadDays - 2
             PROVE  Since(fetched[d], Day + Hour + FirstRun)
  BY DEF FixtureFresh
<1>1. up /\ due["schedule"] # Never /\ due["schedule-ahead"] # Never
  BY Moments DEF Steady, Served, Loop
<1>2. \E h, r \in Int : LastRun(h) /\ LastAhead(r) /\ HandedOver(h, r)
  BY <1>1 DEF AheadInv
<1>3. d \in Dates /\ fetched[d] >= now - (Day + Hour + FirstRun)
  BY <1>2, DateFetched
<1>4. QED
  BY <1>3, Moments DEF Since, ClockInv

\* FixtureFresh holds whenever the process starts and stops, whatever calls fail and however
\* long the first runs of the two loops take: what the daily run of the day before fetched
\* covers the date that its window loses at midnight until the hourly loop's next tick
\* (syncScheduleAhead, syncSchedule).
THEOREM FixtureFreshHolds == Spec => []FixtureFresh
<1>1. Init => AheadInv
  BY DEF Init, AheadInv, Loop
<1>2. QED
  BY ClockInit, ClockNext, <1>1, AheadNext, AheadInvFresh, PTL DEF Spec

-----------------------------------------------------------------------------
(***************************************************************************)
(* The analysis loop, with its no-data marker.                             *)
(***************************************************************************)
\* The last analysis run, at r, is recent, and if the match has none yet there was a reason:
\* a failed call, an obstacle that went away since, thscore with nothing to give, the
\* marker, or a match that is called off, not ahead or not within the lookahead.
LastAnalysis(r) ==
  /\ r \in Int /\ r <= now /\ due["analysis"] <= r + 30 + FirstRun
  /\ \/ analysis # Never \/ failure >= r \/ ready >= r
     \/ r < offered \/ r < marker
     \/ storedStatus # "scheduled"
     \/ stored = Never \/ stored < r \/ r + analysisLookahead <= stored

AnalysisInv ==
  /\ kickoff \in Int /\ stored \in Int /\ offered \in Nat /\ analysis \in Int
  /\ marker \in Int /\ ready \in Int
  /\ marker < offered + analysisNoDataTTL
  /\ up /\ due["analysis"] # Never => \E r \in Int : LastAnalysis(r)

LEMMA AnalysisInit == Init => AnalysisInv
<1> SUFFICES ASSUME Init PROVE AnalysisInv
  OBVIOUS
<1>1. kickoff \in Nat /\ offered \in Nat /\ ready \in Nat /\ due["analysis"] = Never
  BY ClockAssumption DEF Init, Loop
<1>2. QED
  BY <1>1 DEF Init, AnalysisInv, Never, analysisNoDataTTL, Hour

\* A run that leaves the match without an analysis and fails no call had a reason to.
LEMMA AnalysisRun ==
  ASSUME ClockInv, AnalysisInv, Analysis
  PROVE  AnalysisInv'
<1>1. /\ now' = now /\ began' = began /\ up /\ up' = up /\ offered' = offered
      /\ kickoff' = kickoff /\ stored' = stored /\ storedStatus' = storedStatus
      /\ ready' = ready
  BY DEF Analysis, Fires, fixture, known
<1>2. PICK delay \in {0, FirstRun} : due' = [due EXCEPT !["analysis"] = now + 30 + delay]
  BY DEF Analysis, Fires
<1>3. due'["analysis"] <= now + 30 + FirstRun
  BY <1>2, Moments DEF ClockInv, Loop
<1>4. /\ analysis' \in Int /\ marker' \in Int
      /\ marker' < offered + analysisNoDataTTL
      /\ \/ analysis' # Never \/ failure' >= now
         \/ now < offered \/ now < marker'
         \/ storedStatus # "scheduled"
         \/ stored = Never \/ stored < now \/ now + analysisLookahead <= stored
  <2>1. CASE ~Asks /\ Works /\ UNCHANGED <<analysis, marker>>
    <3>1. CASE ~Candidate
      <4>1. CASE /\ stored # Never /\ now <= stored /\ stored < now + analysisLookahead
                 /\ storedStatus = "scheduled"
        BY <3>1, <4>1, Moments, AnalysisDatesCover DEF Candidate, AnalysisInv
      <4>2. QED
        BY <2>1, <4>1, Moments DEF AnalysisInv, analysisLookahead
    <3>2. CASE analysisSkip
      BY <2>1, <3>2 DEF analysisSkip, AnalysisInv
    <3>3. CASE noDataMarked
      BY <2>1, <3>3 DEF noDataMarked, AnalysisInv
    <3>4. QED
      BY <2>1, <3>1, <3>2, <3>3 DEF Asks
  <2>2. CASE Fails /\ UNCHANGED <<analysis, marker>>
    BY <2>2, Moments DEF Fails, AnalysisInv
  <2>3. CASE analysis' = now /\ marker' = marker
    BY <2>3, Moments DEF AnalysisInv
  <2>4. CASE /\ now < offered /\ marker' = now + analysisNoDataTTL /\ analysis' = analysis
    BY <2>4, Moments DEF AnalysisInv, analysisNoDataTTL
  <2>5. QED
    BY <2>1, <2>2, <2>3, <2>4 DEF Analysis
<1>5. LastAnalysis(now)'
  BY <1>1, <1>3, <1>4, Moments DEF LastAnalysis
<1>6. QED
  BY <1>1, <1>4, <1>5, Moments DEF AnalysisInv

\* Nothing else ends the reason a run had, but a kick-off or a status that MongoDB learns,
\* which may be an obstacle going away.
LEMMA ReasonKept ==
  ASSUME ClockInv, AnalysisInv, Grows,
         marker' = marker, offered' = offered, analysis' = analysis, ready' \in Int,
         kickoff' \in Int, stored' \in Int, up' => up \/ due'["analysis"] = Never,
         due'["analysis"] \in {due["analysis"], Never},
         up' /\ up => /\ ready' >= ready
                      /\ known' = known \/ ready' >= now
  PROVE  AnalysisInv'
<1>1. ASSUME NEW r \in Int, LastAnalysis(r), up, up', due'["analysis"] # Never
      PROVE  LastAnalysis(r)'
  <2>1. /\ r <= now /\ r <= now' /\ due'["analysis"] <= r + 30 + FirstRun
        /\ ready' >= ready /\ failure' >= failure
    BY <1>1, Moments DEF LastAnalysis, Grows
  <2>2. CASE known' = known
    <3>1. stored' = stored /\ storedStatus' = storedStatus
      BY <2>2 DEF known
    <3>2. QED
      BY <1>1, <2>1, <3>1, Moments DEF LastAnalysis, AnalysisInv, Grows
  <2>3. CASE ready' >= now
    BY <1>1, <2>1, <2>3, Moments DEF LastAnalysis, AnalysisInv, Grows
  <2>4. QED
    BY <1>1, <2>2, <2>3
<1>2. QED
  BY <1>1 DEF AnalysisInv

\* What is stored is a kick-off, and an obstacle goes away now.
LEMMA StoresMore ==
  ASSUME now \in Int, ready \in Int, NEW k \in Int, NEW s, Stores(k, s)
  PROVE  stored' = k /\ (known' = known \/ ready' >= now) /\ ready' \in Int /\ ready' >= ready
BY DEF Stores, Later

LEMMA AnalysisNext == ClockInv /\ AnalysisInv /\ [Next]_vars => AnalysisInv'
<1> SUFFICES ASSUME ClockInv, AnalysisInv, [Next]_vars PROVE AnalysisInv'
  OBVIOUS
<1>0. /\ Grows /\ ready \in Int /\ stored \in Int /\ kickoff \in Int /\ now \in Int
      /\ "analysis" \in Loop
  BY StepGrows, Moments DEF AnalysisInv, Loop
<1>1. ASSUME NEW a \in Int, NEW b \in Int, NEW l \in Loop, NEW every \in Int, l # "analysis",
             syncScheduleDays(a, b), Fires(l, every),
             UNCHANGED <<now, began, up, kickoff, offered, analysis, marker>>
      PROVE  AnalysisInv'
  <2>1. stored' \in {stored, kickoff} /\ (known' = known \/ ready' >= now)
        /\ ready' \in Int /\ ready' >= ready
    BY <1>0, <1>1, StoresMore DEF syncScheduleDays
  <2>2. due'["analysis"] = due["analysis"]
    BY <1>0, <1>1 DEF Fires, ClockInv
  <2>3. QED
    BY <1>0, <1>1, <2>1, <2>2, ReasonKept
<1>2. CASE Schedule
  BY <1>1, <1>2 DEF Schedule, syncSchedule, fixture, Loop, Hour
<1>3. CASE ScheduleAhead
  BY <1>1, <1>3 DEF ScheduleAhead, syncScheduleAhead, scheduleAheadDays, fixture, Loop, Day, Hour
<1>4. CASE Analysis
  BY <1>4, AnalysisRun
<1>5. CASE Boot
  <2>1. stored' = stored /\ known' = known /\ UNCHANGED <<kickoff, marker, offered, analysis>>
    BY <1>5 DEF Boot, match, fixture, known
  <2>2. QED
    BY <1>0, <1>5, <2>1, ReasonKept DEF Boot, Loop
<1>6. CASE Postpone \/ CallOff \/ Reinstate
  <2>1. kickoff' \in Int
    BY <1>0, <1>6, ClockAssumption DEF Postpone, CallOff, Reinstate
  <2>2. /\ UNCHANGED <<known, ready, up, due, marker, offered, analysis>> /\ stored' = stored
    BY <1>6 DEF Postpone, CallOff, Reinstate, known
  <2>3. QED
    BY <1>0, <2>1, <2>2, ReasonKept
<1>9. CASE StoredSooner
  <2>1. PICK k \in {stored, kickoff} : Stores(k, status)
    BY <1>9 DEF StoredSooner
  <2>2. /\ stored' \in Int /\ (known' = known \/ ready' >= now)
        /\ ready' \in Int /\ ready' >= ready
    BY <1>0, <2>1, StoresMore
  <2>3. kickoff' = kickoff /\ UNCHANGED <<up, due, marker, offered, analysis>>
    BY <1>9 DEF StoredSooner, fixture
  <2>4. QED
    BY <1>0, <2>2, <2>3, ReasonKept
<1>7. CASE Crash \/ Tick \/ Done \/ UNCHANGED vars
  <2>1. /\ stored' = stored /\ known' = known
        /\ UNCHANGED <<kickoff, marker, offered, analysis, ready, due>> /\ (up' => up)
    BY <1>7 DEF Crash, Tick, Done, vars, match, fixture, known
  <2>2. QED
    BY <1>0, <2>1, ReasonKept
<1>8. QED
  BY <1>2, <1>3, <1>4, <1>5, <1>6, <1>7, <1>9 DEF Next

LEMMA AnalysisInvInTime == ClockInv /\ AnalysisInv => AnalysisInTime
<1> DEFINE from == Later(Later(ready, offered), stored - analysisLookahead + 1)
<1> SUFFICES ASSUME ClockInv, AnalysisInv, stored # Never, now <= stored, storedStatus = "scheduled",
                    now >= from + analysisNoDataTTL + 30 + FirstRun,
                    Steady(now - from)
             PROVE  analysis # Never
  BY DEF AnalysisInTime
<1>1. /\ from \in Int /\ ready <= from /\ offered <= from
      /\ stored - analysisLookahead < from
  BY DEF Later, AnalysisInv, analysisLookahead, Day, Hour
<1> HIDE DEF from
<1>2. up /\ due["analysis"] > now
  BY DEF Steady, Served, Loop
<1>3. PICK r \in Int : LastAnalysis(r)
  BY <1>2, Moments DEF AnalysisInv
<1>4. from + analysisNoDataTTL < r /\ r <= now
  BY <1>1, <1>2, <1>3, Moments DEF LastAnalysis, analysisNoDataTTL
<1>5. ~(failure >= r)
  <2>1. CASE failure >= r
    BY <1>1, <1>4, <2>1, Moments DEF Steady, Since, analysisNoDataTTL, LastAnalysis, AnalysisInv
  <2>2. QED
    BY <2>1
<1>6. QED
  BY <1>1, <1>3, <1>4, <1>5, Moments DEF LastAnalysis, AnalysisInv, analysisNoDataTTL, analysisLookahead

\* AnalysisInTime holds whenever the process starts and stops, whatever calls fail, however
\* often the match is postponed, called off and put on again, and however long a first run
\* takes (syncAnalysis).
THEOREM AnalysisInTimeHolds == Spec => []AnalysisInTime
BY ClockInit, ClockNext, AnalysisInit, AnalysisNext, AnalysisInvInTime, PTL DEF Spec
=============================================================================
