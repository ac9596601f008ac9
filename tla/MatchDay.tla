------------------------------ MODULE MatchDay ------------------------------
(***************************************************************************)
(* The calendar rules of internal/service: three notions of a day and the  *)
(* date windows the sync loops derive from them.  An instant is a number   *)
(* of minutes since a UTC midnight, a date is the number of a day.         *)
(***************************************************************************)
EXTENDS Integers

Hour == 60
Day  == 24 * Hour

BangkokOffset  == 7 * Hour      \* Bangkok, a fixed zone
matchDayCutoff == 4 * Hour

UtcDate(t)     == t \div Day                      \* thscore's date= parameter
BangkokDate(t) == (t + BangkokOffset) \div Day

\* A match day runs from 04:00 to 04:00 Bangkok time.
CurrentMatchDate(t) == (t + BangkokOffset - matchDayCutoff) \div Day
MatchDateFor(kickoff) == CurrentMatchDate(kickoff)
MatchDayStart(d) == d * Day - BangkokOffset + matchDayCutoff

\* syncScheduleDays: offsets from the Bangkok date, each fetched as a UTC date.
ScheduleDates(now, fromDay, toDay) ==
  {BangkokDate(now) + day : day \in fromDay..toDay}

standingsSyncDates(now) ==
  {CurrentMatchDate(now) - 1, CurrentMatchDate(now), CurrentMatchDate(now) + 1}

analysisLookahead     == Day
analysisRefetchWindow == Day

\* Only the first of the two match days the next 24 hours span: AnalysisInTime.
analysisSyncDates_Bug(now) == {CurrentMatchDate(now)}
analysisSyncDates(now) ==
  {CurrentMatchDate(now), CurrentMatchDate(now + analysisLookahead)}
=============================================================================
