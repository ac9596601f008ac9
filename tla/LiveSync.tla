------------------------------ MODULE LiveSync ------------------------------
(***************************************************************************)
(* The four loops of internal/service/sync.go that write a match, over     *)
(* time: live-snapshot, live-changes, schedule-modify and schedule, with   *)
(* the Redis state live:match:<id> and the MongoDB document they share,    *)
(* and no lock between them.                                               *)
(*                                                                         *)
(* Matches do not interact, so the model follows one.  Upstream tells its  *)
(* story: the states thscore has for it, one after the other, each taken   *)
(* at an instant of its own; a state not there is a deleted match, one not *)
(* listed is out of the livescores feed.  A row fetched from a feed is the *)
(* number of the state it shows.                                           *)
(*                                                                         *)
(* One unit of time is 2.5 seconds.  A run takes at most Latency, unless   *)
(* it stalls, which is a trouble like a failed call or a restart.          *)
(***************************************************************************)
EXTENDS MatchMerge, Sequences

CONSTANTS
  Stories,        \* bound: what may become of the match upstream
  Latency,        \* the longest a run takes (but for its wait for a limiter)
  LimiterWait,    \* the longest schedule-modify waits for the schedule limiter
  ModifyEvery,    \* scaled: interval of schedule-modify, 720 in the code
  ScheduleEvery,  \* scaled: interval of schedule, 1440
  liveStateTTL,   \* scaled: 360
  Eventful,       \* bound: the instants at which upstream changes or trouble strikes
  Length,         \* bound: how long the clock runs
  MaxTroubles     \* bound: failures, stalls and restarts

SnapshotEvery == 24      \* live-snapshot: a minute
ChangesEvery  == 6       \* live-changes: 15 seconds
FeedWindow    == 8       \* the delta feed covers the last 20 seconds

ASSUME LiveAssumption ==
  /\ Latency \in Nat \ {0} /\ ChangesEvery + 2 * Latency <= FeedWindow
  /\ liveStateTTL \in Nat /\ SnapshotEvery + 2 * Latency < liveStateTTL
  /\ LimiterWait \in Nat /\ Latency <= LimiterWait
  /\ ModifyEvery \in Nat \ {0} /\ ScheduleEvery \in Nat \ {0}
  /\ Eventful \subseteq Nat /\ Length \in Nat /\ MaxTroubles \in Nat

\* A state upstream; only matches that are there are listed.
Shown == {r \in [there : BOOLEAN, listed : BOOLEAN, fixture : Nat \ {0}, status : Int, half : Nat,
                 score : Score, explain : Explain] : r.listed => r.there}

ASSUME StoryAssumption == Stories \subseteq Seq(Shown) \ {<< >>}

VARIABLES
  now,
  story, at,      \* upstream: its story, and where it is in it
  changed, half,  \* when the match, and the start of its half, last changed there
  known,          \* history: the match was Known at the last change
  redis, expires, \* live:match:<id> and its expiry
  mongo,          \* the document in matches
  pc, since,      \* what each loop does, and since when
  due,            \* its next tick, Never before its ticker is created
  row,            \* the state upstream the run's row shows
  delta,          \* the row of live-changes
  merged,         \* what it made of it
  published,      \* the state announced last by a delta, and the half announced
  failure,        \* history: instant of the last trouble
  troubles

upstream == <<story, at, changed, half, known>>
state    == <<redis, expires, mongo>>
loops    == <<pc, since, due, row, delta, merged>>
trouble  == <<failure, troubles>>
vars     == <<now, upstream, state, loops, published, trouble>>

Loop  == {"live-snapshot", "live-changes", "schedule-modify", "schedule"}
Every == [l \in Loop |-> CASE l = "live-snapshot"   -> SnapshotEvery
                           [] l = "live-changes"    -> ChangesEvery
                           [] l = "schedule-modify" -> ModifyEvery
                           [] l = "schedule"        -> ScheduleEvery]
Never  == -1
NoDelta == [status |-> 0, start |-> 0, score |-> <<0, 0>>, explain |-> NoExplain]
NoDoc  == [fixture |-> 0, status |-> 0, half |-> 0, score |-> <<0, 0>>, extra |-> NoExtra]
Truth  == story[at]
Doc(n) == matchFromLivescore(story[n])

Init ==
  /\ now = 0
  /\ story \in Stories /\ at = 1
  /\ changed = Never /\ half = Never /\ known = FALSE
  /\ redis = NoDoc /\ expires = Never
  /\ mongo \in {NoDoc, Doc(1)}
  /\ pc = [l \in Loop |-> "idle"]
  /\ since = [l \in Loop |-> Never]
  /\ due = [l \in Loop |-> Never]
  /\ row = [l \in Loop |-> 0]
  /\ delta = NoDelta /\ merged = NoDoc
  /\ published = [n |-> 0, half |-> 0]
  /\ failure = Never /\ troubles = 0

Trouble == now \in Eventful /\ troubles < MaxTroubles /\ troubles' = troubles + 1 /\ failure' = now
Works   == UNCHANGED trouble

(***************************************************************************)
(* Upstream                                                                *)
(***************************************************************************)
\* Two polls of live-changes, the second of which began after anything that happened now.
TwoPolls == ChangesEvery + 2 * Latency

\* The store will have the match for as long: no deletion is on its way, and it is in MongoDB,
\* or in Redis and not about to expire.
Known ==
  /\ pc["schedule-modify"] # "delete"
  /\ mongo # NoDoc \/ (redis # NoDoc /\ expires > now + TwoPolls)

\* The next state of the story, or the same once more: the row re-appears in the feed.
Upstream ==
  /\ at < Len(story) /\ now \in Eventful
  /\ at' = at + 1
  /\ changed' = now
  /\ half' = IF story[at + 1].half # Truth.half THEN now ELSE half
  /\ known' = Known
  /\ UNCHANGED <<now, story, state, loops, published, trouble>>

(***************************************************************************)
(* Runs and their ticker: one that is late fires when the run before ends, *)
(* and further ticks are dropped.                                          *)
(***************************************************************************)
NextTick(l) ==
  IF due[l] = Never THEN Never
  ELSE due[l] + Every[l] * ((now - due[l]) \div Every[l] + 1)

Fire(l) ==
  /\ pc[l] = "idle" /\ due[l] <= now
  /\ pc' = [pc EXCEPT ![l] = "fetch"]
  /\ since' = [since EXCEPT ![l] = now]
  /\ due' = [due EXCEPT ![l] = NextTick(l)]
  /\ UNCHANGED <<now, upstream, state, row, delta, merged, published, trouble>>

Goto(l, p) == /\ pc' = [pc EXCEPT ![l] = p]
              /\ UNCHANGED <<since, due>>

\* The run returns; after the first one the ticker is created.
Return(l) ==
  /\ pc' = [pc EXCEPT ![l] = "idle"]
  /\ since' = [since EXCEPT ![l] = Never]
  /\ due' = [due EXCEPT ![l] = IF @ = Never THEN now + Every[l] ELSE @]
  /\ row' = [row EXCEPT ![l] = 0]

Forget(l) == IF l = "live-changes" THEN delta' = NoDelta /\ merged' = NoDoc
                                    ELSE UNCHANGED <<delta, merged>>

SetLive(m) == redis' = m /\ expires' = now + liveStateTTL

\* The snapshot only fills in what is missing: Healed.
SnapshotSet_Bug(m) == IF redis = NoDoc THEN SetLive(m) ELSE UNCHANGED <<redis, expires>>
SnapshotSet(m) == SetLive(m)


(***************************************************************************)
(* live-snapshot: fetch every listed match, write Redis, then MongoDB      *)
(***************************************************************************)
SnapshotFetch ==
  LET l == "live-snapshot" IN
  /\ pc[l] = "fetch"
  /\ IF Truth.listed
     THEN Goto(l, "write") /\ row' = [row EXCEPT ![l] = at]
     ELSE Return(l)
  /\ UNCHANGED <<now, upstream, state, delta, merged, published, trouble>>

SnapshotWrite ==
  LET l == "live-snapshot" IN
  /\ pc[l] = "write"
  /\ \/ SnapshotSet(Doc(row[l])) /\ Works
     \/ UNCHANGED <<redis, expires>> /\ Trouble    \* logged, and the run goes on
  /\ Goto(l, "upsert")
  /\ UNCHANGED <<now, upstream, mongo, row, delta, merged, published>>

(***************************************************************************)
(* live-changes: fetch the delta, read the previous state, merge, write    *)
(* and publish, and upsert at the end                                      *)
(***************************************************************************)
InWindow(t) == t # Never /\ now - t <= FeedWindow

\* A row carries the knockout detail, a skeleton of it, or none ...
Explains(e) == {e, NoExplain, [NoExplain EXCEPT !.status = e.status, !.winner = e.winner]}

\* ... and the start of the half when that has just changed.
FeedRows == {[status |-> Truth.status, score |-> Truth.score, explain |-> e,
              start |-> IF InWindow(half) THEN Truth.half ELSE 0] : e \in Explains(Truth.explain)}

ChangesFetch ==
  LET l == "live-changes" IN
  /\ pc[l] = "fetch"
  /\ IF InWindow(changed) /\ Truth.there
     THEN /\ Goto(l, "read") /\ row' = [row EXCEPT ![l] = at]
          /\ delta' \in FeedRows
     ELSE /\ Return(l) /\ delta' = delta
  /\ UNCHANGED <<now, upstream, state, merged, published, trouble>>

\* Without the fallback to MongoDB: GapFree.
Previous_Bug == redis
\* Redis or, when that misses, MongoDB.
Previous == IF redis # NoDoc THEN redis ELSE mongo

ReadFrom(m) ==
  LET l == "live-changes" IN
  IF m = NoDoc
  THEN Return(l) /\ delta' = NoDelta /\ merged' = merged    \* unknown: skipped
  ELSE Goto(l, "write") /\ merged' = applyChange(m, delta) /\ UNCHANGED <<row, delta>>

ChangesRead ==
  /\ pc["live-changes"] = "read"
  /\ \/ Works /\ ReadFrom(Previous)
     \/ Trouble /\ redis # NoDoc /\ ReadFrom(mongo)     \* Redis does not answer
  /\ UNCHANGED <<now, upstream, state, published>>

ChangesWrite ==
  LET l == "live-changes" IN
  /\ pc[l] = "write"
  /\ \/ Works /\ SetLive(merged)
     \/ Trouble /\ UNCHANGED <<redis, expires>>    \* logged, and the run goes on
  /\ published' = [n |-> row[l], half |-> merged.half]
  /\ Goto(l, "upsert")
  /\ UNCHANGED <<now, upstream, mongo, row, delta, merged>>

(***************************************************************************)
(* schedule-modify: deletes and re-fetches what the feed of the past 12    *)
(* hours names; schedule: re-fetches the date of the match                 *)
(***************************************************************************)
Modified == \E i \in 1..at : story[i].fixture # Truth.fixture

ModifyFetch ==
  LET l == "schedule-modify" IN
  /\ pc[l] = "fetch"
  /\ IF ~Truth.there THEN Goto(l, "delete") /\ row' = row
     ELSE IF Modified THEN Goto(l, "refetch") /\ row' = row
     ELSE Return(l)
  /\ UNCHANGED <<now, upstream, state, delta, merged, published, trouble>>

\* Only the live state is dropped: Settled.
ModifyDelete_Bug ==
  /\ pc["schedule-modify"] = "delete"
  /\ redis' = NoDoc /\ expires' = Never
  /\ Return("schedule-modify")
  /\ UNCHANGED <<now, upstream, mongo, delta, merged, published, trouble>>

ModifyDelete ==
  /\ pc["schedule-modify"] = "delete"
  /\ mongo' = NoDoc
  /\ Return("schedule-modify")
  /\ UNCHANGED <<now, upstream, redis, expires, delta, merged, published, trouble>>

\* FetchScheduleByMatchIDs and FetchScheduleByDate, once the limiter allows.
ScheduleFetch(l) ==
  /\ pc[l] = IF l = "schedule" THEN "fetch" ELSE "refetch"
  /\ l \in {"schedule", "schedule-modify"}
  /\ IF Truth.there
     THEN /\ row' = [row EXCEPT ![l] = at]
          /\ pc' = [pc EXCEPT ![l] = "upsert"]
          /\ since' = [since EXCEPT ![l] = now]
          /\ due' = due
     ELSE Return(l)
  /\ UNCHANGED <<now, upstream, state, delta, merged, published, trouble>>

\* UpsertMatches, which ends every run that has something to write.
Upserted(l) == IF l = "live-changes" THEN merged ELSE Doc(row[l])

Upsert(l) ==
  /\ pc[l] = "upsert"
  /\ mongo' = Upserted(l)
  /\ Return(l) /\ Forget(l)
  /\ UNCHANGED <<now, upstream, redis, expires, published, trouble>>

\* A call that fails ends the run; an upsert that fails may have been carried out.
CallFails(l) ==
  /\ pc[l] \in {"fetch", "read", "delete", "refetch", "upsert"}
  /\ Trouble
  /\ \/ mongo' = mongo
     \/ pc[l] = "upsert" /\ mongo' = Upserted(l)
  /\ Return(l) /\ Forget(l)
  /\ UNCHANGED <<now, upstream, redis, expires, published>>

Restart ==
  /\ Trouble
  /\ pc' = [l \in Loop |-> "idle"] /\ since' = [l \in Loop |-> Never]
  /\ due' = [l \in Loop |-> Never] /\ row' = [l \in Loop |-> 0]
  /\ delta' = NoDelta /\ merged' = NoDoc
  /\ UNCHANGED <<now, upstream, state, published>>

(***************************************************************************)
(* Time                                                                    *)
(***************************************************************************)
\* The stages that wait for the limiter of the schedule endpoint.
Waits(l)    == pc[l] = "refetch" \/ (l = "schedule" /\ pc[l] = "fetch")
Deadline(l) == since[l] + IF Waits(l) THEN LimiterWait ELSE Latency

OnTime == \A l \in Loop : IF pc[l] = "idle" THEN due[l] > now ELSE now < Deadline(l)

\* Redis drops the live state at its expiry.
Tick ==
  /\ now < Length
  /\ IF OnTime THEN Works ELSE Trouble
  /\ now' = now + 1
  /\ IF redis # NoDoc /\ expires <= now'
     THEN redis' = NoDoc /\ expires' = Never
     ELSE UNCHANGED <<redis, expires>>
  /\ UNCHANGED <<upstream, mongo, loops, published>>

Done == now >= Length /\ UNCHANGED vars

Next == \/ Upstream
        \/ \E l \in Loop : Fire(l) \/ Upsert(l) \/ CallFails(l) \/ ScheduleFetch(l)
        \/ SnapshotFetch \/ SnapshotWrite
        \/ ChangesFetch \/ ChangesRead \/ ChangesWrite
        \/ ModifyFetch \/ ModifyDelete
        \/ Restart \/ Tick \/ Done

Spec == Init /\ [][Next]_vars

(***************************************************************************)
(* Properties                                                              *)
(***************************************************************************)
Quiet(d) == now - changed > d /\ now - failure > d

\* sync.go: "any interval under 20s is gap-free": a change of a match the system knows
\* is announced within two polls, whatever the other loops do to its state meanwhile.
GapFree ==
  known /\ Truth.there /\ changed > failure /\ now - changed > TwoPolls => published.n = at

\* live-snapshot "heals anything the delta poll missed", lost updates between the two
\* live loops included: soon after the last change or trouble, Redis and MongoDB both
\* have the match as upstream has it.
Healed ==
  Truth.listed /\ Quiet(FeedWindow + SnapshotEvery + 2 * Latency) =>
    redis = Doc(at) /\ mongo = Doc(at)

\* A match that left the live feed, or was rescheduled or deleted, is so in MongoDB too in
\* the end, though a live loop may have put its old state back, and no older state is
\* served from Redis.
Settled ==
  LET slow == IF ModifyEvery > ScheduleEvery THEN ModifyEvery ELSE ScheduleEvery
      wait == FeedWindow + slow + LimiterWait + 3 * Latency
      live == FeedWindow + Latency + liveStateTTL
  IN /\ Quiet(wait) => mongo = IF Truth.there THEN Doc(at) ELSE NoDoc
     /\ Quiet(live) /\ ~Truth.listed => redis = NoDoc

\* The states since the half began.
ThisHalf == {i \in 1..at : \A j \in i..at : story[j].half = Truth.half}

\* The feed carries the start of a half only when it changes, and another loop may put an
\* older one back; still, with no trouble and no deletion since the half began, every match
\* announced of it has that start, which is what its minute is computed from.
HalfAnnounced ==
  /\ published.n \in ThisHalf /\ \A i \in ThisHalf : story[i].there
  /\ half = Never \/ (half > failure /\ Truth.half # 0)
  => published.half = Truth.half
=============================================================================
