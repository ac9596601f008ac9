--------------------------- MODULE LiveSyncProofs ---------------------------
(***************************************************************************)
(* Theorems about what becomes of a match: what merging a delta row keeps  *)
(* and gives, for every match and every row (MatchMerge), and what the     *)
(* four loops that write it promise together, for every story, interval,   *)
(* limiter and trouble (LiveSync).                                         *)
(***************************************************************************)
EXTENDS LiveSync, TLAPS

Row == [fixture : Nat, status : Int, half : Nat, score : Score, explain : Explain]

\* The delta row that carries everything the full row does, but for the fixture.
DeltaOf(r) == [status |-> r.status, start |-> r.half, score |-> r.score,
                 explain |-> r.explain]

\* Knockout detail that applyExtra stores is never the zero value: m.Extra is set.
LEMMA ExtraIsSet ==
  ASSUME NEW m \in Match, NEW e \in Explain, HasDetail(e)
  PROVE  applyExtra(m, e).extra # NoExtra
  BY DEF applyExtra, HasDetail, NoExtra, Match, Explain, Extra, Score

LEMMA ExtraType ==
  ASSUME NEW m \in Match, NEW e \in Explain
  PROVE  applyExtra(m, e) \in Match
<1>1. CASE ~HasDetail(e)
  BY <1>1 DEF applyExtra
<1>2. CASE HasDetail(e)
  <2>1. Promoted(e, m.score) \in Score
    BY DEF Promoted, Score, Match, Explain
  <2>2. [status |-> e.status, pen |-> e.pen, winner |-> e.winner] \in Extra
    BY DEF Explain, Extra, Score
  <2> QED
    BY <1>2, <2>1, <2>2 DEF applyExtra, Match
<1> QED
  BY <1>1, <1>2

\* applyChange yields a match whatever the row carries.
THEOREM MergeIsMatch ==
  ASSUME NEW prev \in Match, NEW ch \in Delta
  PROVE  applyChange(prev, ch) \in Match
<1> DEFINE m == [fixture |-> prev.fixture, status |-> ch.status, half |-> NewHalf(prev, ch),
                 score |-> ch.score, extra |-> NoExtra]
<1>1. m \in Match
  <2>1. ch.status \in Int /\ ch.score \in Score
    BY DEF Delta
  <2>2. NewHalf(prev, ch) \in Nat
    BY DEF NewHalf, Match, Delta
  <2>3. NoExtra \in Extra
    BY DEF NoExtra, Extra
  <2> QED
    BY <2>1, <2>2, <2>3 DEF Match
<1>2. CASE keepsDetail(prev, ch.explain)
  <2>1. applyChange(prev, ch) = [m EXCEPT !.extra = prev.extra,
                                 !.score = IF AtLeast(prev.score, m.score) THEN prev.score ELSE m.score]
    BY <1>2 DEF applyChange
  <2> QED
    BY <1>1, <2>1 DEF Match
<1>3. CASE ~keepsDetail(prev, ch.explain)
  <2>1. applyChange(prev, ch) = applyExtra(m, ch.explain)
    BY <1>3 DEF applyChange
  <2>2. ch.explain \in Explain
    BY DEF Delta
  <2> QED
    BY <1>1, <2>1, <2>2, ExtraType
<1> QED
  BY <1>2, <1>3

\* A row that carries no scores of extra time or of a shootout (a skeletal extraExplain, or
\* none) does not wipe the knockout detail of the previous state, nor does the score fall
\* back to the frozen 90-minute score.
THEOREM DetailKept ==
  ASSUME NEW prev \in Match, NEW ch \in Delta,
         prev.extra # NoExtra, ~hasScores(ch.explain)
  PROVE  /\ applyChange(prev, ch).extra = prev.extra
         /\ AtLeast(prev.score, ch.score) => applyChange(prev, ch).score = prev.score
         /\ AtLeast(applyChange(prev, ch).score, ch.score)
<1>1. keepsDetail(prev, ch.explain)
  BY DEF keepsDetail
<1>2. /\ applyChange(prev, ch).extra = prev.extra
      /\ applyChange(prev, ch).score =
           IF AtLeast(prev.score, ch.score) THEN prev.score ELSE ch.score
  BY <1>1 DEF applyChange, Match, Delta
<1>3. AtLeast(ch.score, ch.score)
  BY DEF AtLeast, Delta, Score
<1> QED
  BY <1>2, <1>3

\* Merging a row that carries everything gives the match a snapshot of that row gives: the
\* two live loops agree, whatever state the delta is merged onto, as long as its fixture
\* is right and the row brings the detail of a tie if the state has one.
THEOREM FullDeltaIsSnapshot ==
  ASSUME NEW prev \in Match, NEW r \in Row,
         r.half # 0, prev.fixture = r.fixture,
         prev.extra = NoExtra \/ (HasDetail(r.explain) /\ hasScores(r.explain))
  PROVE  applyChange(prev, DeltaOf(r)) = matchFromLivescore(r)
<1> DEFINE m == [fixture |-> r.fixture, status |-> r.status, half |-> r.half,
                 score |-> r.score, extra |-> NoExtra]
<1>1. ~keepsDetail(prev, r.explain)
  BY DEF keepsDetail
<1>2. NewHalf(prev, DeltaOf(r)) = r.half
  BY DEF NewHalf, DeltaOf
<1>3. applyChange(prev, DeltaOf(r)) = applyExtra(m, r.explain)
  BY <1>1, <1>2 DEF applyChange, DeltaOf
<1> QED
  BY <1>3 DEF matchFromLivescore

(***************************************************************************)
(* LiveSync: types, and the time of each loop.                             *)
(***************************************************************************)
Stage     == {"idle", "fetch", "read", "write", "refetch", "delete", "upsert"}
Stages(l) == CASE l = "live-snapshot"   -> {"idle", "fetch", "write", "upsert"}
               [] l = "live-changes"    -> {"idle", "fetch", "read", "write", "upsert"}
               [] l = "schedule-modify" -> {"idle", "fetch", "refetch", "delete", "upsert"}
               [] l = "schedule"        -> {"idle", "fetch", "upsert"}

LiveTypeOK ==
  /\ now \in Nat
  /\ story \in Seq(Shown) /\ at \in 1..Len(story)
  /\ changed \in Int /\ half \in Int /\ failure \in Int /\ expires \in Int
  /\ redis \in Match /\ mongo \in Match /\ merged \in Match /\ delta \in Delta
  /\ pc \in [Loop -> Stage] /\ \A l \in Loop : pc[l] \in Stages(l)
  /\ since \in [Loop -> Int] /\ due \in [Loop -> Int] /\ row \in [Loop -> Int]

\* A run that holds a row.
InHand(l) == pc[l] \in {"read", "write", "upsert"}

HandTyped == \A l \in Loop : InHand(l) => row[l] \in 1..at

LEMMA Constants ==
  /\ Latency = 1 /\ liveStateTTL \in Nat /\ liveStateTTL > 26
  /\ LimiterWait \in Nat /\ 1 <= LimiterWait
  /\ SnapshotEvery = 24 /\ ChangesEvery = 6 /\ FeedWindow = 8 /\ Never = -1 /\ TwoPolls = 8
  /\ Every["live-snapshot"] = 24 /\ Every["live-changes"] = 6
  /\ Every["schedule-modify"] = ModifyEvery /\ Every["schedule"] = ScheduleEvery
  /\ \A l \in Loop : Every[l] \in Nat \ {0}
<1>1. Latency = 1 /\ TwoPolls = 8
  BY LiveAssumption DEF ChangesEvery, FeedWindow, TwoPolls
<1>2. /\ Every["live-snapshot"] = 24 /\ Every["live-changes"] = 6
      /\ Every["schedule-modify"] = ModifyEvery /\ Every["schedule"] = ScheduleEvery
  BY DEF Every, Loop, SnapshotEvery, ChangesEvery
<1>3. \A l \in Loop : Every[l] \in Nat \ {0}
  BY <1>2, LiveAssumption DEF Loop
<1> QED
  BY <1>1, <1>2, <1>3, LiveAssumption DEF SnapshotEvery, ChangesEvery, FeedWindow, Never

\* The next tick is ahead, by an interval at most.
LEMMA TickAhead ==
  ASSUME NEW d \in Int, NEW n \in Int, NEW e \in Nat \ {0}, d <= n
  PROVE  /\ d + e * ((n - d) \div e + 1) \in Int
         /\ n < d + e * ((n - d) \div e + 1)
         /\ d + e * ((n - d) \div e + 1) <= n + e
<1>1. PICK q \in Int : q = (n - d) \div e
  OBVIOUS
<1>2. e * q <= n - d /\ n - d < e * q + e
  BY <1>1
<1>3. e * (q + 1) = e * q + e /\ e * q \in Int
  BY <1>1
<1> QED
  BY <1>1, <1>2, <1>3

LEMMA DocTyped ==
  ASSUME LiveTypeOK, NEW n \in 1..at
  PROVE  /\ Doc(n) \in Match /\ Doc(n).fixture # 0 /\ Doc(n).half = story[n].half
         /\ story[n] \in Shown /\ n \in 1..Len(story)
<1>1. story[n] \in Shown /\ n \in 1..Len(story)
  BY DEF LiveTypeOK
<1> DEFINE m == [fixture |-> story[n].fixture, status |-> story[n].status, half |-> story[n].half,
                 score |-> story[n].score, extra |-> NoExtra]
<1>2. m \in Match /\ story[n].explain \in Explain
  BY <1>1 DEF Shown, Match, Extra, NoExtra
<1>3. Doc(n) = applyExtra(m, story[n].explain)
  BY DEF Doc, matchFromLivescore
<1>4. applyExtra(m, story[n].explain) \in Match
  BY <1>2, ExtraType
<1>5. /\ applyExtra(m, story[n].explain).fixture = m.fixture
      /\ applyExtra(m, story[n].explain).half = m.half
  BY DEF applyExtra
<1>6. story[n].fixture # 0
  BY <1>1 DEF Shown
<1> QED
  BY <1>1, <1>3, <1>4, <1>5, <1>6

LEMMA NoDocTyped == NoDoc \in Match /\ NoDoc.fixture = 0
  BY DEF NoDoc, Match, Extra, NoExtra, Score

LEMMA NoDeltaTyped == NoDelta \in Delta
  BY DEF NoDelta, Delta, Score, NoExplain, Explain

\* A merge keeps the fixture, and the half unless the row carries one.
LEMMA Merged ==
  ASSUME NEW m \in Match, NEW ch \in Delta
  PROVE  /\ applyChange(m, ch) \in Match /\ applyChange(m, ch).fixture = m.fixture
         /\ applyChange(m, ch).half = NewHalf(m, ch)
<1> DEFINE n == [fixture |-> m.fixture, status |-> ch.status, half |-> NewHalf(m, ch),
                 score |-> ch.score, extra |-> NoExtra]
<1>1. CASE keepsDetail(m, ch.explain)
  <2>1. applyChange(m, ch) = [n EXCEPT !.extra = m.extra,
                              !.score = IF AtLeast(m.score, n.score) THEN m.score ELSE n.score]
    BY <1>1 DEF applyChange
  <2> QED
    BY <2>1, MergeIsMatch
<1>2. CASE ~keepsDetail(m, ch.explain)
  <2>1. applyChange(m, ch) = applyExtra(n, ch.explain)
    BY <1>2 DEF applyChange
  <2>2. /\ applyExtra(n, ch.explain).fixture = n.fixture
        /\ applyExtra(n, ch.explain).half = n.half
    BY DEF applyExtra
  <2> QED
    BY <2>1, <2>2, MergeIsMatch
<1> QED
  BY <1>1, <1>2

LEMMA FeedTyped == ASSUME LiveTypeOK PROVE FeedRows \subseteq Delta
<1>1. Truth \in Shown
  BY DEF LiveTypeOK, Truth
<1>2. Explains(Truth.explain) \subseteq Explain
  <2>1. Truth.explain \in Explain /\ NoExplain \in Explain
    BY <1>1 DEF Shown, NoExplain, Explain
  <2>2. [NoExplain EXCEPT !.status = Truth.explain.status, !.winner = Truth.explain.winner] \in Explain
    BY <2>1 DEF NoExplain, Explain
  <2> QED
    BY <2>1, <2>2 DEF Explains
<1>3. Truth.status \in Int /\ Truth.score \in Score /\ Truth.half \in Nat
  BY <1>1 DEF Shown
<1> QED
  <2> SUFFICES ASSUME NEW e \in Explains(Truth.explain)
               PROVE  [status |-> Truth.status, score |-> Truth.score, explain |-> e,
                       start |-> IF InWindow(half) THEN Truth.half ELSE 0] \in Delta
    BY DEF FeedRows
  <2>1. e \in Explain /\ (IF InWindow(half) THEN Truth.half ELSE 0) \in Nat
    BY <1>2, <1>3
  <2> QED
    BY <1>3, <2>1 DEF Delta

(***************************************************************************)
(* What each action does to its loop.                                      *)
(***************************************************************************)
LoopsTyped ==
  /\ pc \in [Loop -> Stage]
  /\ since \in [Loop -> Int] /\ due \in [Loop -> Int] /\ row \in [Loop -> Int]

Same(k) == pc'[k] = pc[k] /\ since'[k] = since[k] /\ due'[k] = due[k] /\ row'[k] = row[k]

\* The loop l goes on to p; the others stay.
Moved(l, p, s, d, r) ==
  /\ pc'[l] = p /\ since'[l] = s /\ due'[l] = d /\ row'[l] = r
  /\ \A k \in Loop \ {l} : Same(k)

Returned(l) == Moved(l, "idle", Never, IF due[l] = Never THEN now + Every[l] ELSE due[l], 0)

World == <<now, story, at, changed, half, known>>

LEMMA ReturnMoves ==
  ASSUME LoopsTyped, now \in Nat, NEW l \in Loop, Return(l)
  PROVE  LoopsTyped' /\ Returned(l)
<1>1. Every[l] \in Nat /\ Never \in Int
  BY Constants
<1>2. /\ pc' = [pc EXCEPT ![l] = "idle"] /\ since' = [since EXCEPT ![l] = Never]
      /\ due' = [due EXCEPT ![l] = IF due[l] = Never THEN now + Every[l] ELSE due[l]]
      /\ row' = [row EXCEPT ![l] = 0]
  BY DEF Return
<1>3. PICK d \in Int : d = IF due[l] = Never THEN now + Every[l] ELSE due[l]
  BY <1>1 DEF LoopsTyped
<1>4. due' = [due EXCEPT ![l] = d]
  BY <1>2, <1>3
<1>5. LoopsTyped'
  BY <1>1, <1>2, <1>4 DEF LoopsTyped, Stage
<1>6. Moved(l, "idle", Never, d, 0)
  BY <1>1, <1>2, <1>4 DEF LoopsTyped, Moved, Same
<1> QED
  BY <1>3, <1>5, <1>6 DEF Returned

LEMMA GotoMoves ==
  ASSUME LoopsTyped, NEW l \in Loop, NEW p \in Stage, Goto(l, p), NEW r \in Int,
         row' = [row EXCEPT ![l] = r] \/ (row' = row /\ r = row[l])
  PROVE  LoopsTyped' /\ Moved(l, p, since[l], due[l], r)
<1>1. row' = [row EXCEPT ![l] = r]
  BY DEF LoopsTyped
<1> QED
  BY <1>1 DEF Goto, LoopsTyped, Moved, Same

LEMMA FireMoves ==
  ASSUME LiveTypeOK, NEW l \in Loop, Fire(l)
  PROVE  /\ pc[l] = "idle" /\ due[l] <= now
         /\ LoopsTyped' /\ Moved(l, "fetch", now, NextTick(l), row[l])
         /\ NextTick(l) \in Int
         /\ due[l] = Never => NextTick(l) = Never
         /\ due[l] # Never => now < NextTick(l) /\ NextTick(l) <= now + Every[l]
         /\ UNCHANGED World
         /\ UNCHANGED <<redis, expires, mongo, delta, merged, published, failure>>
<1>1. /\ pc[l] = "idle" /\ due[l] <= now
      /\ pc' = [pc EXCEPT ![l] = "fetch"] /\ since' = [since EXCEPT ![l] = now]
      /\ due' = [due EXCEPT ![l] = NextTick(l)] /\ row' = row
  BY DEF Fire
<1>2. /\ NextTick(l) \in Int
      /\ due[l] = Never => NextTick(l) = Never
      /\ due[l] # Never => now < NextTick(l) /\ NextTick(l) <= now + Every[l]
  <2>1. due[l] \in Int /\ now \in Int /\ Every[l] \in Nat \ {0} /\ Never \in Int
    BY Constants DEF LiveTypeOK
  <2>2. CASE due[l] = Never
    BY <2>1, <2>2 DEF NextTick
  <2>3. CASE due[l] # Never
    BY <1>1, <2>1, <2>3, TickAhead DEF NextTick
  <2> QED
    BY <2>2, <2>3
<1>3. UNCHANGED World /\ UNCHANGED <<redis, expires, mongo, delta, merged, published, failure>>
  BY DEF Fire, World, upstream, state, trouble
<1>4. PICK d \in Int : d = NextTick(l)
  BY <1>2
<1>5. due' = [due EXCEPT ![l] = d]
  BY <1>1, <1>4
<1>6. LoopsTyped
  BY DEF LiveTypeOK, LoopsTyped
<1>7. LoopsTyped'
  BY <1>1, <1>5, <1>6 DEF LoopsTyped, LiveTypeOK, Stage
<1>8. Moved(l, "fetch", now, d, row[l])
  BY <1>1, <1>5, <1>6 DEF LoopsTyped, Moved, Same
<1> QED
  BY <1>1, <1>2, <1>3, <1>4, <1>7, <1>8

LEMMA LoopNames ==
  /\ "live-snapshot" \in Loop /\ "live-changes" \in Loop
  /\ "schedule-modify" \in Loop /\ "schedule" \in Loop
  /\ LiveTypeOK => LoopsTyped /\ now \in Nat /\ at \in Int
BY DEF Loop, LiveTypeOK, LoopsTyped

LEMMA SnapshotFetchMoves ==
  ASSUME LiveTypeOK, SnapshotFetch, NEW l, l = "live-snapshot"
  PROVE  /\ pc[l] = "fetch" /\ LoopsTyped'
         /\ \/ Truth.listed /\ Moved(l, "write", since[l], due[l], at)
            \/ ~Truth.listed /\ Returned(l)
         /\ UNCHANGED World
         /\ UNCHANGED <<redis, expires, mongo, delta, merged, published, failure>>
<1>1. /\ pc[l] = "fetch" /\ UNCHANGED World
      /\ UNCHANGED <<redis, expires, mongo, delta, merged, published, failure>>
  BY DEF SnapshotFetch, World, upstream, state, trouble
<1>2. CASE Truth.listed
  <2>1. Goto(l, "write") /\ row' = [row EXCEPT ![l] = at]
    BY <1>2 DEF SnapshotFetch
  <2> QED
    BY <1>1, <1>2, <2>1, LoopNames, GotoMoves DEF Stage
<1>3. CASE ~Truth.listed
  BY <1>1, <1>3, LoopNames, ReturnMoves DEF SnapshotFetch
<1> QED
  BY <1>2, <1>3

LEMMA SnapshotWriteMoves ==
  ASSUME LiveTypeOK, SnapshotWrite, NEW l, l = "live-snapshot"
  PROVE  /\ pc[l] = "write" /\ LoopsTyped' /\ Moved(l, "upsert", since[l], due[l], row[l])
         /\ \/ /\ redis' = Doc(row[l]) /\ expires' = now + liveStateTTL
               /\ failure' = failure
            \/ UNCHANGED <<redis, expires>> /\ failure' = now
         /\ UNCHANGED World /\ UNCHANGED <<mongo, delta, merged, published>>
<1>1. /\ pc[l] = "write" /\ UNCHANGED World /\ UNCHANGED <<mongo, delta, merged, published>>
      /\ Goto(l, "upsert") /\ row' = row
  BY DEF SnapshotWrite, World, upstream
<1>2. \/ /\ redis' = Doc(row[l]) /\ expires' = now + liveStateTTL
         /\ failure' = failure
      \/ UNCHANGED <<redis, expires>> /\ failure' = now
  BY DEF SnapshotWrite, SnapshotSet, SetLive, Works, Trouble, trouble
<1>3. row[l] \in Int
  BY LoopNames DEF LoopsTyped
<1> QED
  BY <1>1, <1>2, <1>3, LoopNames, GotoMoves DEF Stage

LEMMA ChangesFetchMoves ==
  ASSUME LiveTypeOK, ChangesFetch, NEW l, l = "live-changes"
  PROVE  /\ pc[l] = "fetch" /\ LoopsTyped'
         /\ \/ /\ InWindow(changed) /\ Truth.there
               /\ Moved(l, "read", since[l], due[l], at) /\ delta' \in FeedRows
            \/ ~(InWindow(changed) /\ Truth.there) /\ Returned(l) /\ delta' = delta
         /\ UNCHANGED World /\ UNCHANGED <<redis, expires, mongo, merged, published, failure>>
<1>1. /\ pc[l] = "fetch" /\ UNCHANGED World
      /\ UNCHANGED <<redis, expires, mongo, merged, published, failure>>
  BY DEF ChangesFetch, World, upstream, state, trouble
<1>2. CASE InWindow(changed) /\ Truth.there
  <2>1. Goto(l, "read") /\ row' = [row EXCEPT ![l] = at] /\ delta' \in FeedRows
    BY <1>2 DEF ChangesFetch
  <2> QED
    BY <1>1, <1>2, <2>1, LoopNames, GotoMoves DEF Stage
<1>3. CASE ~(InWindow(changed) /\ Truth.there)
  BY <1>1, <1>3, LoopNames, ReturnMoves DEF ChangesFetch
<1> QED
  BY <1>2, <1>3

\* The state that live-changes merges onto is Redis's, MongoDB's when Redis has none, and
\* MongoDB's when Redis fails.
LEMMA ChangesReadMoves ==
  ASSUME LiveTypeOK, ChangesRead, NEW l, l = "live-changes"
  PROVE  /\ pc[l] = "read" /\ LoopsTyped'
         /\ \E m \in {redis, mongo} :
              /\ \/ failure' = failure /\ (m = NoDoc => redis = NoDoc /\ mongo = NoDoc)
                 \/ failure' = now
              /\ \/ m = NoDoc /\ Returned(l) /\ delta' = NoDelta /\ merged' = merged
                 \/ /\ m # NoDoc /\ Moved(l, "write", since[l], due[l], row[l])
                    /\ merged' = applyChange(m, delta) /\ delta' = delta
         /\ UNCHANGED World /\ UNCHANGED <<redis, expires, mongo, published>>
<1>1. /\ pc[l] = "read" /\ UNCHANGED World /\ UNCHANGED <<redis, expires, mongo, published>>
  BY DEF ChangesRead, World, upstream, state
<1>2. PICK m \in {redis, mongo} :
        /\ \/ failure' = failure /\ (m = NoDoc => redis = NoDoc /\ mongo = NoDoc)
           \/ failure' = now
        /\ ReadFrom(m)
  BY DEF ChangesRead, Works, Trouble, trouble, Previous
<1>3. CASE m = NoDoc
  <2>1. Return(l) /\ delta' = NoDelta /\ merged' = merged
    BY <1>2, <1>3 DEF ReadFrom
  <2> QED
    BY <1>1, <1>2, <1>3, <2>1, LoopNames, ReturnMoves
<1>4. CASE m # NoDoc
  <2>1. Goto(l, "write") /\ merged' = applyChange(m, delta) /\ UNCHANGED <<row, delta>>
    BY <1>2, <1>4 DEF ReadFrom
  <2>2. row[l] \in Int
    BY LoopNames DEF LoopsTyped
  <2>3. LoopsTyped' /\ Moved(l, "write", since[l], due[l], row[l])
    BY <2>1, <2>2, LoopNames, GotoMoves DEF Stage
  <2> QED
    BY <1>1, <1>2, <1>4, <2>1, <2>3
<1> QED
  BY <1>3, <1>4

LEMMA ChangesWriteMoves ==
  ASSUME LiveTypeOK, ChangesWrite, NEW l, l = "live-changes"
  PROVE  /\ pc[l] = "write" /\ LoopsTyped' /\ Moved(l, "upsert", since[l], due[l], row[l])
         /\ \/ redis' = merged /\ expires' = now + liveStateTTL /\ failure' = failure
            \/ UNCHANGED <<redis, expires>> /\ failure' = now
         /\ published' = [n |-> row[l], half |-> merged.half]
         /\ UNCHANGED World /\ UNCHANGED <<mongo, delta, merged>>
<1>1. /\ pc[l] = "write" /\ UNCHANGED World /\ UNCHANGED <<mongo, delta, merged>>
      /\ Goto(l, "upsert") /\ row' = row
      /\ published' = [n |-> row[l], half |-> merged.half]
  BY DEF ChangesWrite, World, upstream
<1>2. \/ redis' = merged /\ expires' = now + liveStateTTL /\ failure' = failure
      \/ UNCHANGED <<redis, expires>> /\ failure' = now
  BY DEF ChangesWrite, SetLive, Works, Trouble, trouble
<1>3. row[l] \in Int
  BY LoopNames DEF LoopsTyped
<1> QED
  BY <1>1, <1>2, <1>3, LoopNames, GotoMoves DEF Stage

LEMMA ModifyFetchMoves ==
  ASSUME LiveTypeOK, ModifyFetch, NEW l, l = "schedule-modify"
  PROVE  /\ pc[l] = "fetch" /\ LoopsTyped'
         /\ \/ ~Truth.there /\ Moved(l, "delete", since[l], due[l], row[l])
            \/ Truth.there /\ Moved(l, "refetch", since[l], due[l], row[l])
            \/ Truth.there /\ Returned(l)
         /\ UNCHANGED World
         /\ UNCHANGED <<redis, expires, mongo, delta, merged, published, failure>>
<1>1. /\ pc[l] = "fetch" /\ UNCHANGED World
      /\ UNCHANGED <<redis, expires, mongo, delta, merged, published, failure>>
  BY DEF ModifyFetch, World, upstream, state, trouble
<1>2. row[l] \in Int
  BY LoopNames DEF LoopsTyped
<1>3. \/ ~Truth.there /\ Goto(l, "delete") /\ row' = row
      \/ Truth.there /\ Goto(l, "refetch") /\ row' = row
      \/ Truth.there /\ Return(l)
  BY DEF ModifyFetch
<1>4. ASSUME NEW p \in Stage, Goto(l, p), row' = row
      PROVE  LoopsTyped' /\ Moved(l, p, since[l], due[l], row[l])
  BY <1>2, <1>4, LoopNames, GotoMoves
<1> QED
  BY <1>1, <1>3, <1>4, LoopNames, ReturnMoves DEF Stage

LEMMA ModifyDeleteMoves ==
  ASSUME LiveTypeOK, ModifyDelete, NEW l, l = "schedule-modify"
  PROVE  /\ pc[l] = "delete" /\ LoopsTyped' /\ Returned(l) /\ mongo' = NoDoc
         /\ UNCHANGED World
         /\ UNCHANGED <<redis, expires, delta, merged, published, failure>>
<1>1. /\ pc[l] = "delete" /\ mongo' = NoDoc /\ Return(l) /\ UNCHANGED World
      /\ UNCHANGED <<redis, expires, delta, merged, published, failure>>
  BY DEF ModifyDelete, World, upstream, trouble
<1> QED
  BY <1>1, LoopNames, ReturnMoves

LEMMA ScheduleFetchMoves ==
  ASSUME LiveTypeOK, NEW l \in Loop, ScheduleFetch(l)
  PROVE  /\ \/ l = "schedule" /\ pc[l] = "fetch"
            \/ l = "schedule-modify" /\ pc[l] = "refetch"
         /\ LoopsTyped'
         /\ \/ Truth.there /\ Moved(l, "upsert", now, due[l], at)
            \/ ~Truth.there /\ Returned(l)
         /\ UNCHANGED World
         /\ UNCHANGED <<redis, expires, mongo, delta, merged, published, failure>>
<1>1. /\ \/ l = "schedule" /\ pc[l] = "fetch"
         \/ l = "schedule-modify" /\ pc[l] = "refetch"
      /\ UNCHANGED World
      /\ UNCHANGED <<redis, expires, mongo, delta, merged, published, failure>>
  BY DEF ScheduleFetch, World, upstream, state, trouble
<1>2. CASE Truth.there
  <2>1. /\ pc' = [pc EXCEPT ![l] = "upsert"] /\ since' = [since EXCEPT ![l] = now]
        /\ due' = due /\ row' = [row EXCEPT ![l] = at]
    BY <1>2 DEF ScheduleFetch
  <2>2. LoopsTyped'
    BY <2>1, LoopNames DEF LoopsTyped, Stage
  <2>3. Moved(l, "upsert", now, due[l], at)
    BY <2>1, LoopNames DEF LoopsTyped, Moved, Same
  <2> QED
    BY <1>1, <1>2, <2>2, <2>3
<1>3. CASE ~Truth.there
  BY <1>1, <1>3, LoopNames, ReturnMoves DEF ScheduleFetch
<1> QED
  BY <1>2, <1>3

LEMMA UpsertMoves ==
  ASSUME LiveTypeOK, NEW l \in Loop, Upsert(l)
  PROVE  /\ pc[l] = "upsert" /\ LoopsTyped' /\ Returned(l) /\ mongo' = Upserted(l)
         /\ \/ delta' = delta /\ merged' = merged
            \/ l = "live-changes" /\ delta' = NoDelta /\ merged' = NoDoc
         /\ UNCHANGED World /\ UNCHANGED <<redis, expires, published, failure>>
<1>1. /\ pc[l] = "upsert" /\ mongo' = Upserted(l) /\ Return(l)
      /\ \/ delta' = delta /\ merged' = merged
         \/ l = "live-changes" /\ delta' = NoDelta /\ merged' = NoDoc
      /\ UNCHANGED World /\ UNCHANGED <<redis, expires, published, failure>>
  BY DEF Upsert, Forget, World, upstream, trouble
<1> QED
  BY <1>1, LoopNames, ReturnMoves

LEMMA CallFailsMoves ==
  ASSUME LiveTypeOK, NEW l \in Loop, CallFails(l)
  PROVE  /\ LoopsTyped' /\ Returned(l) /\ failure' = now
         /\ mongo' = mongo \/ (pc[l] = "upsert" /\ mongo' = Upserted(l))
         /\ \/ delta' = delta /\ merged' = merged
            \/ l = "live-changes" /\ delta' = NoDelta /\ merged' = NoDoc
         /\ UNCHANGED World /\ UNCHANGED <<redis, expires, published>>
<1>1. /\ failure' = now /\ Return(l)
      /\ mongo' = mongo \/ (pc[l] = "upsert" /\ mongo' = Upserted(l))
      /\ \/ delta' = delta /\ merged' = merged
         \/ l = "live-changes" /\ delta' = NoDelta /\ merged' = NoDoc
      /\ UNCHANGED World /\ UNCHANGED <<redis, expires, published>>
  BY DEF CallFails, Trouble, Forget, World, upstream
<1> QED
  BY <1>1, LoopNames, ReturnMoves

LEMMA RestartMoves ==
  ASSUME LiveTypeOK, Restart
  PROVE  /\ LoopsTyped' /\ failure' = now /\ delta' = NoDelta /\ merged' = NoDoc
         /\ \A l \in Loop : /\ pc'[l] = "idle" /\ since'[l] = Never /\ due'[l] = Never
                            /\ row'[l] = 0
         /\ UNCHANGED World /\ UNCHANGED <<redis, expires, mongo, published>>
BY DEF Restart, Trouble, World, upstream, state, LoopsTyped, Stage, Never

\* What a tick and a change upstream leave alone.
LEMMA TickMoves ==
  ASSUME LiveTypeOK, Tick
  PROVE  /\ LoopsTyped' /\ now' = now + 1
         /\ (OnTime /\ failure' = failure) \/ failure' = now
         /\ \/ redis # NoDoc /\ expires <= now + 1 /\ redis' = NoDoc /\ expires' = Never
            \/ (redis # NoDoc => now + 1 < expires) /\ redis' = redis /\ expires' = expires
         /\ \A l \in Loop : Same(l)
         /\ UNCHANGED <<story, at, changed, half, known, mongo, delta, merged, published>>
<1>1. UNCHANGED <<story, at, changed, half, known, mongo, published>> /\ UNCHANGED loops
  BY DEF Tick, upstream
<1>2. now' = now + 1 /\ ((OnTime /\ failure' = failure) \/ failure' = now)
  BY DEF Tick, Works, Trouble, trouble
<1>3. \/ redis # NoDoc /\ expires <= now + 1 /\ redis' = NoDoc /\ expires' = Never
      \/ (redis # NoDoc => now + 1 < expires) /\ redis' = redis /\ expires' = expires
  BY <1>2 DEF Tick, LiveTypeOK
<1> QED
  BY <1>1, <1>2, <1>3, LoopNames DEF loops, LoopsTyped, Same

LEMMA UpstreamMoves ==
  ASSUME LiveTypeOK, Upstream
  PROVE  /\ LoopsTyped' /\ at + 1 <= Len(story) /\ at' = at + 1 /\ story' = story
         /\ changed' = now /\ known' = Known
         /\ half' = IF story[at + 1].half # Truth.half THEN now ELSE half
         /\ \A l \in Loop : Same(l)
         /\ UNCHANGED <<now, redis, expires, mongo, delta, merged, published, failure>>
<1>1. /\ UNCHANGED <<now, redis, expires, mongo, delta, merged, published, failure>>
      /\ UNCHANGED loops
  BY DEF Upstream, state, loops, trouble
<1>2. /\ at < Len(story) /\ at' = at + 1 /\ story' = story /\ changed' = now /\ known' = Known
      /\ half' = IF story[at + 1].half # Truth.half THEN now ELSE half
  BY DEF Upstream
<1> QED
  BY <1>1, <1>2, LoopNames DEF loops, LoopsTyped, Same, LiveTypeOK

(***************************************************************************)
(* The types.                                                              *)
(***************************************************************************)
Typed == LiveTypeOK /\ HandTyped

\* What a step leaves in the loops, in Redis and in MongoDB.
LoopTypes == LoopsTyped /\ (\A k \in Loop : pc[k] \in Stages(k)) /\ HandTyped
DocTypes  == redis \in Match /\ mongo \in Match /\ merged \in Match /\ delta \in Delta
Scalars   == changed \in Int /\ half \in Int /\ failure \in Int /\ expires \in Int /\ now \in Nat

LEMMA TypesTogether ==
  /\ Typed => LoopTypes /\ DocTypes /\ Scalars /\ story \in Seq(Shown) /\ at \in 1..Len(story)
  /\ LoopTypes' /\ DocTypes' /\ Scalars' /\ (story \in Seq(Shown))' /\ (at \in 1..Len(story))'
       => Typed'
BY DEF Typed, LiveTypeOK, LoopTypes, LoopsTyped, DocTypes, Scalars

LEMMA MovedTypes ==
  ASSUME Typed, NEW l \in Loop, NEW p, NEW s, NEW d, NEW r, Moved(l, p, s, d, r), LoopsTyped',
         p \in Stages(l), p \in {"read", "write", "upsert"} => r \in 1..at, at' = at
  PROVE  LoopTypes'
<1>1. ASSUME NEW k \in Loop
      PROVE  /\ pc'[k] \in Stages(k)
             /\ pc'[k] \in {"read", "write", "upsert"} => row'[k] \in 1..at'
  <2>1. CASE k = l
    BY <2>1 DEF Moved
  <2>2. CASE k # l
    <3>1. pc'[k] = pc[k] /\ row'[k] = row[k]
      BY <2>2 DEF Moved, Same
    <3> QED
      BY <3>1 DEF Typed, LiveTypeOK, HandTyped, InHand
  <2> QED
    BY <2>1, <2>2
<1> QED
  BY <1>1 DEF LoopTypes, HandTyped, InHand

LEMMA SameTypes ==
  ASSUME Typed, \A l \in Loop : Same(l), LoopsTyped', at' \in Int, at <= at'
  PROVE  LoopTypes'
BY DEF Typed, LiveTypeOK, LoopTypes, HandTyped, InHand, Same

LEMMA ReturnedTypes ==
  ASSUME Typed, NEW l \in Loop, Returned(l), LoopsTyped', at' = at
  PROVE  LoopTypes'
<1>1. "idle" \in Stages(l)
  BY DEF Stages, Loop
<1> QED
  BY <1>1, MovedTypes DEF Returned

LEMMA StageNames ==
  /\ "write" \in Stages("live-snapshot") /\ "upsert" \in Stages("live-snapshot")
  /\ "read" \in Stages("live-changes") /\ "write" \in Stages("live-changes")
  /\ "upsert" \in Stages("live-changes")
  /\ "delete" \in Stages("schedule-modify") /\ "refetch" \in Stages("schedule-modify")
  /\ "upsert" \in Stages("schedule-modify") /\ "upsert" \in Stages("schedule")
  /\ \A l \in Loop : "fetch" \in Stages(l) /\ "idle" \in Stages(l)
BY DEF Stages, Loop

LEMMA UpsertedTyped ==
  ASSUME Typed, NEW l \in Loop, pc[l] = "upsert" PROVE Upserted(l) \in Match
<1>1. row[l] \in 1..at
  BY DEF Typed, HandTyped, InHand
<1> QED
  BY <1>1, DocTyped DEF Upserted, Typed, LiveTypeOK

LEMMA TypeStep == Typed /\ [Next]_vars => Typed'
<1> SUFFICES ASSUME Typed, [Next]_vars PROVE Typed'
  OBVIOUS
<1>t. /\ LiveTypeOK /\ LoopTypes /\ DocTypes /\ Scalars
      /\ story \in Seq(Shown) /\ at \in 1..Len(story)
  BY TypesTogether DEF Typed
<1>w. ASSUME UNCHANGED World, LoopTypes', DocTypes', failure' \in Int, expires' \in Int
      PROVE  Typed'
  BY <1>t, <1>w, TypesTogether DEF World, Scalars
<1>n. NoDoc \in Match /\ NoDelta \in Delta /\ now + liveStateTTL \in Int /\ Never \in Int
  BY <1>t, NoDocTyped, NoDeltaTyped, Constants DEF Scalars
<1>1. ASSUME NEW l \in Loop, Fire(l) PROVE Typed'
  <2>1. LoopTypes'
    BY <1>1, <1>t, FireMoves, MovedTypes, StageNames DEF World
  <2> QED
    BY <1>1, <1>t, <1>w, <2>1, FireMoves DEF DocTypes, Scalars
<1>2. CASE SnapshotFetch
  <2> DEFINE l == "live-snapshot"
  <2>1. LoopTypes'
    BY <1>2, <1>t, LoopNames, SnapshotFetchMoves, MovedTypes, ReturnedTypes, StageNames DEF World
  <2> QED
    BY <1>2, <1>t, <1>w, <2>1, SnapshotFetchMoves DEF DocTypes, Scalars
<1>3. CASE SnapshotWrite
  <2>1. row["live-snapshot"] \in 1..at
    BY <1>3, LoopNames, SnapshotWriteMoves DEF Typed, HandTyped, InHand
  <2>2. LoopTypes'
    BY <1>3, <1>t, <2>1, LoopNames, SnapshotWriteMoves, MovedTypes, StageNames DEF World
  <2>3. Doc(row["live-snapshot"]) \in Match
    BY <1>t, <2>1, DocTyped
  <2> QED
    BY <1>3, <1>t, <1>n, <1>w, <2>2, <2>3, SnapshotWriteMoves DEF DocTypes, Scalars
<1>4. CASE ChangesFetch
  <2>1. LoopTypes'
    BY <1>4, <1>t, LoopNames, ChangesFetchMoves, MovedTypes, ReturnedTypes, StageNames DEF World
  <2> QED
    BY <1>4, <1>t, <1>w, <2>1, ChangesFetchMoves, FeedTyped DEF DocTypes, Scalars
<1>5. CASE ChangesRead
  <2>1. row["live-changes"] \in 1..at
    BY <1>5, LoopNames, <1>t, ChangesReadMoves DEF LoopTypes, HandTyped, InHand
  <2>2. LoopTypes'
    BY <1>5, <1>t, <2>1, LoopNames, ChangesReadMoves, MovedTypes, ReturnedTypes, StageNames DEF World
  <2>3. DocTypes' /\ failure' \in Int /\ expires' \in Int
    BY <1>5, <1>t, <1>n, ChangesReadMoves, Merged DEF DocTypes, Scalars
  <2> QED
    BY <1>5, <1>t, <1>w, <2>2, <2>3, ChangesReadMoves
<1>6. CASE ChangesWrite
  <2>1. row["live-changes"] \in 1..at
    BY <1>6, LoopNames, <1>t, ChangesWriteMoves DEF LoopTypes, HandTyped, InHand
  <2>2. LoopTypes'
    BY <1>6, <1>t, <2>1, LoopNames, ChangesWriteMoves, MovedTypes, StageNames DEF World
  <2> QED
    BY <1>6, <1>t, <1>n, <1>w, <2>2, ChangesWriteMoves DEF DocTypes, Scalars
<1>7. CASE ModifyFetch
  <2>1. LoopTypes'
    BY <1>7, <1>t, LoopNames, ModifyFetchMoves, MovedTypes, ReturnedTypes, StageNames DEF World
  <2> QED
    BY <1>7, <1>t, <1>w, <2>1, ModifyFetchMoves DEF DocTypes, Scalars
<1>8. CASE ModifyDelete
  <2>1. LoopTypes'
    BY <1>8, <1>t, LoopNames, ModifyDeleteMoves, ReturnedTypes DEF World
  <2> QED
    BY <1>8, <1>t, <1>n, <1>w, <2>1, ModifyDeleteMoves DEF DocTypes, Scalars
<1>9. ASSUME NEW l \in Loop, ScheduleFetch(l) PROVE Typed'
  <2>1. LoopTypes'
    BY <1>9, <1>t, ScheduleFetchMoves, MovedTypes, ReturnedTypes, StageNames DEF World
  <2> QED
    BY <1>9, <1>t, <1>w, <2>1, ScheduleFetchMoves DEF DocTypes, Scalars
<1>10. ASSUME NEW l \in Loop, Upsert(l) PROVE Typed'
  <2>1. LoopTypes'
    BY <1>10, <1>t, UpsertMoves, ReturnedTypes DEF World
  <2>2. Upserted(l) \in Match
    BY <1>10, <1>t, UpsertMoves, UpsertedTyped
  <2> QED
    BY <1>10, <1>t, <1>n, <1>w, <2>1, <2>2, UpsertMoves DEF DocTypes, Scalars
<1>11. ASSUME NEW l \in Loop, CallFails(l) PROVE Typed'
  <2>1. LoopTypes'
    BY <1>11, <1>t, CallFailsMoves, ReturnedTypes DEF World
  <2>2. pc[l] = "upsert" => Upserted(l) \in Match
    BY UpsertedTyped
  <2> QED
    BY <1>11, <1>t, <1>n, <1>w, <2>1, <2>2, CallFailsMoves DEF DocTypes, Scalars
<1>12. CASE Restart
  <2>1. LoopTypes'
    BY <1>12, <1>t, RestartMoves, StageNames DEF LoopTypes, HandTyped, InHand
  <2> QED
    BY <1>12, <1>t, <1>n, <1>w, <2>1, RestartMoves DEF DocTypes, Scalars
<1>13. CASE Tick
  <2>1. LoopTypes'
    BY <1>13, <1>t, TickMoves, SameTypes
  <2> QED
    BY <1>13, <1>t, <1>n, <2>1, TickMoves, TypesTogether DEF DocTypes, Scalars
<1>14. CASE Upstream
  <2>1. LoopTypes'
    BY <1>14, <1>t, UpstreamMoves, SameTypes
  <2>2. Scalars'
    BY <1>14, <1>t, UpstreamMoves DEF Scalars
  <2> QED
    BY <1>14, <1>t, <2>1, <2>2, UpstreamMoves, TypesTogether DEF DocTypes
<1>15. CASE UNCHANGED vars
  BY <1>15, <1>t, TypesTogether DEF vars, upstream, state, loops, trouble, LoopTypes, LoopsTyped,
     HandTyped, InHand, DocTypes, Scalars
<1> QED
  BY <1>1, <1>2, <1>3, <1>4, <1>5, <1>6, <1>7, <1>8, <1>9, <1>10, <1>11, <1>12, <1>13, <1>14,
     <1>15 DEF Next, Done

(***************************************************************************)
(* The time of each loop, and what its rows show.                          *)
(***************************************************************************)
Live == {"live-snapshot", "live-changes"}

Marks ==
  /\ Never <= changed /\ changed <= now
  /\ Never <= failure /\ failure <= now
  /\ Never <= half /\ half <= changed

\* A run is within its deadline, and a live loop before its next tick, but for a trouble; a
\* live loop whose ticker is not there yet has just begun, or been restarted.
OnClock(l) ==
  /\ since[l] <= now /\ Never <= due[l] /\ due[l] <= now + Every[l]
  /\ pc[l] = "idle" /\ l \in Live => now <= due[l] \/ now <= failure + 1
  /\ pc[l] # "idle" => now <= Deadline(l) \/ now <= failure + 1
  /\ pc[l] # "idle" /\ due[l] # Never => /\ due[l] <= since[l] + Every[l]
                                         /\ l \in Live => since[l] < due[l]
  /\ pc[l] # "idle" /\ due[l] = Never /\ l \in Live => since[l] <= failure + 1

\* A run that began after the last change has seen the match as it is.
Fresh(l) ==
  /\ InHand(l) => \/ since[l] <= changed
                  \/ /\ row[l] = at /\ Truth.there
                     /\ l = "live-snapshot" => Truth.listed
  /\ InHand(l) /\ l = "live-changes" => since[l] <= changed + FeedWindow
  /\ pc[l] = "delete"  => since[l] <= changed \/ ~Truth.there
  /\ pc[l] = "refetch" => since[l] <= changed \/ Truth.there

TimeInv == Typed /\ Marks /\ \A l \in Loop : OnClock(l) /\ Fresh(l)

\* The arguments of the loops' arithmetic.
LEMMA Instants ==
  ASSUME Typed
  PROVE  /\ now \in Int /\ changed \in Int /\ failure \in Int /\ half \in Int /\ expires \in Int
         /\ now >= 0 /\ at \in 1..Len(story)
         /\ \A l \in Loop : /\ since[l] \in Int /\ due[l] \in Int /\ pc[l] \in Stages(l)
                            /\ Every[l] \in Int /\ Every[l] >= 1
BY Constants DEF Typed, LiveTypeOK

LEMMA Deadlines ==
  ASSUME Typed, NEW l \in Loop
  PROVE  /\ Deadline(l) \in Int /\ since[l] + 1 <= Deadline(l)
         /\ pc[l] # "refetch" /\ ~(l = "schedule" /\ pc[l] = "fetch") => Deadline(l) = since[l] + 1
         /\ pc[l] = "refetch" \/ (l = "schedule" /\ pc[l] = "fetch")
              => Deadline(l) = since[l] + LimiterWait
BY Instants, Constants DEF Deadline, Waits

\* A step that leaves k alone.
LEMMA ClockSame ==
  ASSUME TimeInv, NEW k \in Loop, Same(k), now' = now, changed' = changed, failure' \in Int,
         failure <= failure', story' = story, at' = at
  PROVE  OnClock(k)' /\ Fresh(k)'
<1>1. OnClock(k) /\ Fresh(k)
  BY DEF TimeInv
<1>2. OnClock(k)'
  <2>1. Deadline(k)' = Deadline(k)
    BY DEF Same, Deadline, Waits
  <2> QED
    BY <1>1, <2>1, Instants, Constants DEF OnClock, Same, TimeInv
<1>3. Fresh(k)'
  BY <1>1 DEF Fresh, Same, InHand, Truth
<1> QED
  BY <1>2, <1>3

LEMMA MarksKept ==
  ASSUME TimeInv, UNCHANGED World, failure' \in {failure, now} PROVE Marks'
BY Instants DEF TimeInv, Marks, World, Never

\* A loop that moves, and its new place.
LEMMA ClockMoved ==
  ASSUME TimeInv, Typed', UNCHANGED World, failure' \in {failure, now},
         NEW l \in Loop, NEW p, NEW s, NEW d, NEW r, Moved(l, p, s, d, r),
         OnClock(l)', Fresh(l)'
  PROVE  TimeInv'
<1>1. failure <= failure' /\ failure' \in Int
  BY Instants DEF TimeInv, Marks
<1>2. \A k \in Loop \ {l} : OnClock(k)' /\ Fresh(k)'
  BY <1>1, ClockSame DEF Moved, World
<1> QED
  BY <1>2, MarksKept DEF TimeInv

\* A run that is on time returns before its next tick.
LEMMA ClockReturned ==
  ASSUME TimeInv, Typed', UNCHANGED World, failure' \in {failure, now},
         NEW l \in Loop, pc[l] # "idle", Returned(l)
  PROVE  TimeInv'
<1>1. OnClock(l)
  BY DEF TimeInv
<1>2. /\ pc'[l] = "idle" /\ since'[l] = Never
      /\ due'[l] = IF due[l] = Never THEN now + Every[l] ELSE due[l]
      /\ Never = -1
  BY Constants DEF Returned, Moved
<1>3. /\ l \in Live => pc[l] # "refetch" /\ l # "schedule"
      /\ l \in Live => Deadline(l) = since[l] + 1
  BY Instants, Deadlines DEF TimeInv, Live, Stages
<1>4. OnClock(l)'
  BY <1>1, <1>2, <1>3, Instants DEF OnClock, World, TimeInv, Marks
<1>5. Fresh(l)'
  BY <1>2 DEF Fresh, InHand
<1> QED
  BY <1>4, <1>5, ClockMoved DEF Returned

\* A run that goes on to a stage with the deadline of the one before, or a later one.
LEMMA ClockWent ==
  ASSUME TimeInv, Typed', UNCHANGED World, failure' \in {failure, now},
         NEW l \in Loop, pc[l] # "idle", NEW p, p # "idle", NEW r,
         Moved(l, p, since[l], due[l], r), ~(l = "schedule" /\ pc[l] = "fetch"),
         pc[l] # "refetch", Fresh(l)'
  PROVE  TimeInv'
<1>1. OnClock(l) /\ Deadline(l) = since[l] + 1
  BY Deadlines DEF TimeInv
<1>2. pc'[l] = p /\ since'[l] = since[l] /\ due'[l] = due[l]
  BY DEF Moved
<1>3. since'[l] + 1 <= Deadline(l)' /\ Deadline(l)' \in Int
  BY <1>2, Instants, Constants DEF Deadline, Waits, TimeInv
<1>4. OnClock(l)'
  BY <1>1, <1>2, <1>3, Instants DEF OnClock, World, TimeInv, Marks
<1> QED
  BY <1>4, ClockMoved

LEMMA TimeStep == TimeInv /\ [Next]_vars => TimeInv'
<1> SUFFICES ASSUME TimeInv, [Next]_vars PROVE TimeInv'
  OBVIOUS
<1>t. Typed /\ LiveTypeOK /\ Typed' /\ Marks
  BY TypeStep DEF TimeInv, Typed
<1>i. /\ now \in Int /\ changed \in Int /\ failure \in Int /\ half \in Int /\ now >= 0
      /\ \A l \in Loop : /\ since[l] \in Int /\ due[l] \in Int /\ pc[l] \in Stages(l)
                         /\ Every[l] \in Int /\ Every[l] >= 1
  BY <1>t, Instants
<1>o. \A l \in Loop : OnClock(l) /\ Fresh(l)
  BY DEF TimeInv
<1>1. ASSUME NEW l \in Loop, Fire(l) PROVE TimeInv'
  <2>1. PICK d \in Int : d = NextTick(l)
    BY <1>1, <1>t, FireMoves
  <2>2. /\ pc[l] = "idle" /\ due[l] <= now /\ Moved(l, "fetch", now, d, row[l])
        /\ due[l] = Never => d = Never
        /\ due[l] # Never => now < d /\ d <= now + Every[l]
        /\ UNCHANGED World /\ failure' = failure
    BY <1>1, <1>t, <2>1, FireMoves
  <2>3. /\ pc'[l] = "fetch" /\ since'[l] = now /\ due'[l] = d
    BY <2>2 DEF Moved
  <2>4. now + 1 <= Deadline(l)'
    BY <2>3, <1>i, Constants DEF Deadline, Waits
  <2>5. Never = -1
    BY Constants
  <2>6. Deadline(l)' \in Int
    BY <2>3, <1>i, Constants DEF Deadline, Waits
  <2>7. OnClock(l)'
    BY <2>1, <2>2, <2>3, <2>4, <2>5, <2>6, <1>i, <1>o DEF OnClock, World
  <2>8. Fresh(l)'
    BY <2>3 DEF Fresh, InHand
  <2> QED
    BY <1>t, <2>2, <2>7, <2>8, ClockMoved
<1>2. CASE SnapshotFetch
  <2> DEFINE l == "live-snapshot"
  <2>1. ASSUME Truth.listed, Moved(l, "write", since[l], due[l], at), UNCHANGED World
        PROVE  Fresh(l)'
    <3>1. Truth.there /\ Truth' = Truth
      BY <2>1, <1>t DEF Truth, World, LiveTypeOK, Shown
    <3> QED
      BY <2>1, <3>1 DEF Fresh, Moved, World, InHand
  <2>2. failure' \in {failure, now} /\ UNCHANGED World
    BY <1>2, <1>t, SnapshotFetchMoves
  <2> QED
    BY <1>2, <1>t, <2>1, <2>2, LoopNames, SnapshotFetchMoves, ClockWent, ClockReturned
<1>3. CASE SnapshotWrite
  <2> DEFINE l == "live-snapshot"
  <2>1. /\ pc[l] = "write" /\ Moved(l, "upsert", since[l], due[l], row[l])
        /\ failure' \in {failure, now} /\ UNCHANGED World
    BY <1>3, <1>t, SnapshotWriteMoves
  <2>2. Fresh(l)'
    BY <2>1, <1>o, LoopNames DEF Fresh, Moved, World, InHand, Truth
  <2> QED
    BY <1>t, <2>1, <2>2, LoopNames, ClockWent
<1>4. CASE ChangesFetch
  <2> DEFINE l == "live-changes"
  <2>1. ASSUME InWindow(changed), Truth.there, Moved(l, "read", since[l], due[l], at),
               UNCHANGED World
        PROVE  Fresh(l)'
    <3>1. Truth' = Truth
      BY <2>1 DEF Truth, World
    <3>2. since[l] <= changed + FeedWindow
      BY <2>1, <1>i, <1>o, Constants, LoopNames DEF InWindow, OnClock
    <3> QED
      BY <2>1, <3>1, <3>2 DEF Fresh, Moved, World, InHand
  <2>2. failure' \in {failure, now} /\ UNCHANGED World /\ pc[l] = "fetch"
    BY <1>4, <1>t, ChangesFetchMoves
  <2> QED
    BY <1>4, <1>t, <2>1, <2>2, LoopNames, ChangesFetchMoves, ClockWent, ClockReturned
<1>5. CASE ChangesRead
  <2> DEFINE l == "live-changes"
  <2>1. ASSUME Moved(l, "write", since[l], due[l], row[l]), UNCHANGED World, pc[l] = "read"
        PROVE  Fresh(l)'
    BY <2>1, <1>o, LoopNames DEF Fresh, Moved, World, InHand, Truth
  <2>2. failure' \in {failure, now} /\ UNCHANGED World /\ pc[l] = "read"
    BY <1>5, <1>t, ChangesReadMoves
  <2> QED
    BY <1>5, <1>t, <2>1, <2>2, LoopNames, ChangesReadMoves, ClockWent, ClockReturned
<1>6. CASE ChangesWrite
  <2> DEFINE l == "live-changes"
  <2>1. /\ pc[l] = "write" /\ Moved(l, "upsert", since[l], due[l], row[l])
        /\ failure' \in {failure, now} /\ UNCHANGED World
    BY <1>6, <1>t, ChangesWriteMoves
  <2>2. Fresh(l)'
    BY <2>1, <1>o, LoopNames DEF Fresh, Moved, World, InHand, Truth
  <2> QED
    BY <1>t, <2>1, <2>2, LoopNames, ClockWent
<1>7. CASE ModifyFetch
  <2> DEFINE l == "schedule-modify"
  <2>1. failure' \in {failure, now} /\ UNCHANGED World /\ pc[l] = "fetch"
    BY <1>7, <1>t, ModifyFetchMoves
  <2>2. ASSUME NEW p \in {"delete", "refetch"}, Moved(l, p, since[l], due[l], row[l]),
               p = "delete" => ~Truth.there, p = "refetch" => Truth.there
        PROVE  Fresh(l)'
    BY <2>1, <2>2 DEF Fresh, Moved, World, InHand, Truth
  <2> QED
    BY <1>7, <1>t, <2>1, <2>2, LoopNames, ModifyFetchMoves, ClockWent, ClockReturned
<1>8. CASE ModifyDelete
  BY <1>8, <1>t, LoopNames, ModifyDeleteMoves, ClockReturned
<1>9. ASSUME NEW l \in Loop, ScheduleFetch(l) PROVE TimeInv'
  <2>1. /\ l \in {"schedule", "schedule-modify"} /\ pc[l] # "idle"
        /\ failure' \in {failure, now} /\ UNCHANGED World
    BY <1>9, <1>t, ScheduleFetchMoves
  <2>2. ASSUME Truth.there, Moved(l, "upsert", now, due[l], at) PROVE TimeInv'
    <3>1. pc'[l] = "upsert" /\ since'[l] = now /\ due'[l] = due[l] /\ row'[l] = at
      BY <2>2 DEF Moved
    <3>2. Deadline(l)' = now + 1
      BY <2>1, <3>1, Constants DEF Deadline, Waits
    <3>3. OnClock(l)'
      <4>1. now' = now /\ l \notin Live
        BY <2>1 DEF World, Live
      <4>2. Never <= due[l] /\ due[l] <= now + Every[l]
        BY <1>o DEF OnClock
      <4> QED
        BY <3>1, <3>2, <4>1, <4>2, <1>i DEF OnClock
    <3>4. Fresh(l)'
      BY <2>1, <2>2, <3>1 DEF Fresh, World, Truth
    <3> QED
      BY <1>t, <2>1, <2>2, <3>3, <3>4, ClockMoved
  <2> QED
    BY <1>9, <1>t, <2>1, <2>2, ScheduleFetchMoves, ClockReturned
<1>10. ASSUME NEW l \in Loop, Upsert(l) PROVE TimeInv'
  BY <1>10, <1>t, UpsertMoves, ClockReturned
<1>11. ASSUME NEW l \in Loop, CallFails(l) PROVE TimeInv'
  <2>1. pc[l] # "idle"
    BY <1>11 DEF CallFails
  <2> QED
    BY <1>11, <1>t, <2>1, CallFailsMoves, ClockReturned
<1>12. CASE Restart
  <2>1. /\ failure' = now /\ UNCHANGED World /\ Never = -1
        /\ \A l \in Loop : pc'[l] = "idle" /\ since'[l] = Never /\ due'[l] = Never
    BY <1>12, <1>t, RestartMoves, Constants
  <2>2. \A l \in Loop : OnClock(l)' /\ Fresh(l)'
    BY <2>1, <1>i DEF OnClock, Fresh, InHand, World
  <2> QED
    BY <1>t, <2>1, <2>2, MarksKept DEF TimeInv
<1>13. CASE Tick
  <2>1. /\ now' = now + 1 /\ ((OnTime /\ failure' = failure) \/ failure' = now)
        /\ \A l \in Loop : Same(l)
        /\ UNCHANGED <<story, at, changed, half>>
    BY <1>13, <1>t, TickMoves
  <2>2. Marks'
    BY <2>1, <1>t, <1>i DEF Marks, Never
  <2>3. ASSUME NEW l \in Loop PROVE OnClock(l)' /\ Fresh(l)'
    <3>1. Deadline(l)' = Deadline(l) /\ Same(l) /\ Deadline(l) \in Int
      BY <2>1, <1>t, Deadlines DEF Deadline, Waits, Same
    <3>2. OnTime => IF pc[l] = "idle" THEN due[l] > now ELSE now < Deadline(l)
      BY DEF OnTime
    <3>3. OnClock(l)'
      BY <2>1, <3>1, <3>2, <1>i, <1>o, <1>t DEF OnClock, Same, Marks
    <3>4. Fresh(l)'
      BY <2>1, <3>1, <1>o DEF Fresh, Same, InHand, Truth
    <3> QED
      BY <3>3, <3>4
  <2> QED
    BY <1>t, <2>2, <2>3 DEF TimeInv
<1>14. CASE Upstream
  <2>1. /\ changed' = now /\ at' = at + 1 /\ half' \in {now, half} /\ \A l \in Loop : Same(l)
        /\ now' = now /\ failure' = failure
    BY <1>14, <1>t, UpstreamMoves
  <2>2. Marks'
    BY <2>1, <1>t, <1>i DEF Marks, Never
  <2>3. ASSUME NEW l \in Loop PROVE OnClock(l)' /\ Fresh(l)'
    <3>1. Deadline(l)' = Deadline(l) /\ Same(l)
      BY <2>1 DEF Deadline, Waits, Same
    <3>2. OnClock(l)'
      BY <2>1, <3>1, <1>o DEF OnClock, Same
    <3>3. Fresh(l)'
      BY <2>1, <3>1, <1>i, <1>o, Constants DEF Fresh, Same, OnClock, InHand
    <3> QED
      BY <3>2, <3>3
  <2> QED
    BY <1>t, <2>2, <2>3 DEF TimeInv
<1>15. CASE UNCHANGED vars
  <2>1. /\ UNCHANGED World /\ failure' = failure /\ \A l \in Loop : Same(l)
    BY <1>15 DEF vars, upstream, loops, trouble, World, Same
  <2>2. \A l \in Loop : OnClock(l)' /\ Fresh(l)'
    BY <2>1, <1>i, ClockSame DEF World
  <2> QED
    BY <1>t, <2>1, <2>2, MarksKept DEF TimeInv
<1> QED
  BY <1>1, <1>2, <1>3, <1>4, <1>5, <1>6, <1>7, <1>8, <1>9, <1>10, <1>11, <1>12, <1>13, <1>14,
     <1>15 DEF Next, Done

LEMMA TimeInit == Init => TimeInv
<1> SUFFICES ASSUME Init PROVE TimeInv
  OBVIOUS
<1>1. story \in Seq(Shown) /\ at = 1 /\ 1 \in 1..Len(story)
  BY StoryAssumption DEF Init
<1>2. matchFromLivescore(story[1]) \in Match
  <2>1. story[1] \in Shown
    BY <1>1
  <2> DEFINE m == [fixture |-> story[1].fixture, status |-> story[1].status,
                   half |-> story[1].half, score |-> story[1].score, extra |-> NoExtra]
  <2>2. m \in Match /\ story[1].explain \in Explain
    BY <2>1 DEF Shown, Match, Extra, NoExtra
  <2>3. applyExtra(m, story[1].explain) \in Match
    BY <2>2, ExtraType
  <2> QED
    BY <2>3 DEF matchFromLivescore
<1>3. LiveTypeOK
  <2>1. redis \in Match /\ mongo \in Match /\ merged \in Match /\ delta \in Delta
    BY <1>2, NoDocTyped, NoDeltaTyped DEF Init, Doc
  <2>2. /\ pc \in [Loop -> Stage] /\ since \in [Loop -> Int] /\ due \in [Loop -> Int]
        /\ row \in [Loop -> Int] /\ \A l \in Loop : pc[l] \in Stages(l)
    BY StageNames DEF Init, Stage, Never
  <2> QED
    BY <1>1, <2>1, <2>2 DEF Init, LiveTypeOK, Never
<1>4. Typed /\ Marks
  BY <1>3 DEF Typed, HandTyped, InHand, Marks, Init, Never
<1>5. ASSUME NEW l \in Loop PROVE OnClock(l) /\ Fresh(l)
  <2>1. /\ pc[l] = "idle" /\ since[l] = -1 /\ due[l] = -1 /\ now = 0 /\ failure = -1
        /\ Never = -1 /\ Every[l] >= 1 /\ Every[l] \in Int
    BY Constants DEF Init, Never
  <2> QED
    BY <2>1 DEF OnClock, Fresh, InHand
<1> QED
  BY <1>4, <1>5 DEF TimeInv

(***************************************************************************)
(* Healed and Settled: MongoDB.                                            *)
(***************************************************************************)
Later(a, b) == IF a < b THEN b ELSE a

\* From here on nothing reads, merges or deletes what the last change or trouble overtook.
Calm == Later(changed, failure) + FeedWindow + Latency

\* What the limiter adds to the runs of l.
Allowance(l) == IF l = "schedule-modify" \/ (l = "schedule" /\ pc[l] = "upsert")
                THEN LimiterWait ELSE 0

\* The run of l that sees the match as it is has begun in time, or is due.
Soon(l) ==
  IF pc[l] = "idle"
  THEN /\ due[l] <= Calm + Every[l] + Allowance(l)
       /\ now <= Calm + Allowance(l) \/ now <= due[l]
  ELSE since[l] <= Calm + Every[l] + Allowance(l)

MongoInv ==
  /\ Truth.listed => mongo = Doc(at) \/ Soon("live-snapshot")
  /\ Truth.there  => mongo = Doc(at) \/ Soon("schedule")
  /\ ~Truth.there => mongo = NoDoc   \/ Soon("schedule-modify")

LEMMA CalmTyped ==
  ASSUME TimeInv
  PROVE  /\ Calm \in Int /\ changed + 9 <= Calm /\ failure + 9 <= Calm
         /\ Calm = Later(changed, failure) + 9
         /\ \A l \in Loop : Allowance(l) \in Int /\ 0 <= Allowance(l)
BY Instants, Constants DEF Calm, Later, Allowance, TimeInv

\* Nothing that began before the last change is still on its way.
LEMMA CalmRuns ==
  ASSUME TimeInv, Calm < now, NEW l \in Loop
  PROVE  /\ InHand(l) => /\ l # "live-changes" /\ row[l] = at /\ Truth.there
                         /\ l = "live-snapshot" => Truth.listed
         /\ pc[l] = "delete" => ~Truth.there
         /\ pc[l] # "idle" => now <= Deadline(l)
<1>1. OnClock(l) /\ Fresh(l) /\ Typed
  BY DEF TimeInv
<1>2. changed + 9 < now /\ failure + 9 < now
  BY <1>1, CalmTyped, Instants
<1>3. pc[l] # "idle" => now <= Deadline(l)
  BY <1>1, <1>2, Instants DEF OnClock
<1>4. InHand(l) \/ pc[l] = "delete" => now <= since[l] + 1
  BY <1>1, <1>3, Deadlines DEF InHand
<1> QED
  BY <1>1, <1>2, <1>3, <1>4, Instants, Constants DEF Fresh

\* At first the runs that are due are due in time.
LEMMA SoonFirst ==
  ASSUME TimeInv', now' <= Calm', NEW l \in Loop
  PROVE  Soon(l)'
<1>1. OnClock(l)' /\ Typed'
  BY DEF TimeInv
<1>2. /\ now' \in Int /\ changed' \in Int /\ failure' \in Int /\ due'[l] \in Int /\ since'[l] \in Int
      /\ Every[l] \in Int /\ Every[l] >= 1 /\ Latency = 1 /\ FeedWindow = 8 /\ LimiterWait \in Nat
  BY <1>1, Constants DEF Typed, LiveTypeOK
<1>3. Calm' \in Int
  BY <1>2 DEF Calm, Later
<1>4. Allowance(l)' \in Int /\ 0 <= Allowance(l)'
  BY <1>2 DEF Allowance
<1>5. since'[l] <= now' /\ due'[l] <= now' + Every[l]
  BY <1>1 DEF OnClock
<1> QED
  BY <1>2, <1>3, <1>4, <1>5 DEF Soon

\* Later ones stay so, while l does nothing ...
LEMMA SoonSame ==
  ASSUME TimeInv, NEW l \in Loop, Same(l), changed' = changed, failure' = failure, now' = now
  PROVE  Soon(l)' <=> Soon(l)
BY DEF Soon, Same, Calm, Allowance

\* ... and when it fires, or time passes.
LEMMA SoonFired ==
  ASSUME TimeInv, NEW l \in Loop, Fire(l), Soon(l)
  PROVE  Soon(l)'
<1>1. /\ pc[l] = "idle" /\ pc'[l] = "fetch" /\ since'[l] = now
      /\ changed' = changed /\ failure' = failure
  BY FireMoves DEF TimeInv, Typed, Moved, World
<1>2. Calm' = Calm /\ Allowance(l)' = Allowance(l)
  BY <1>1 DEF Calm, Allowance
<1> QED
  BY <1>1, <1>2, Instants, CalmTyped DEF Soon, TimeInv

LEMMA SoonTick ==
  ASSUME TimeInv, NEW l \in Loop, Tick, failure' = failure, Calm < now + 1, Soon(l)
  PROVE  Soon(l)'
<1>1. /\ Same(l) /\ now' = now + 1 /\ changed' = changed /\ (OnTime \/ failure' = now)
  BY TickMoves DEF TimeInv, Typed
<1>2. OnTime
  BY <1>1, CalmTyped, Instants DEF TimeInv
<1>3. pc[l] = "idle" => now < due[l]
  BY <1>2, Instants DEF OnTime, TimeInv
<1>4. Calm' = Calm /\ Allowance(l)' = Allowance(l)
  BY <1>1 DEF Calm, Allowance, Same
<1> QED
  BY <1>1, <1>3, <1>4, Instants, CalmTyped DEF Soon, TimeInv, Same

\* A step is a change upstream, a tick, or a step of a loop, which may be a trouble.
LEMMA NextMoves ==
  ASSUME Typed, [Next]_vars
  PROVE  /\ failure' = failure \/ failure' = now
         /\ Upstream \/ UNCHANGED <<story, at, changed, half, known>>
         /\ Tick \/ now' = now
<1>0. LiveTypeOK
  BY DEF Typed
<1>1. ASSUME NEW l \in Loop, Fire(l) \/ Upsert(l) \/ CallFails(l) \/ ScheduleFetch(l)
      PROVE  UNCHANGED World /\ (failure' = failure \/ failure' = now)
  BY <1>0, <1>1, FireMoves, UpsertMoves, CallFailsMoves, ScheduleFetchMoves
<1>2. ASSUME SnapshotFetch \/ SnapshotWrite \/ ChangesFetch \/ ChangesRead \/ ChangesWrite
             \/ ModifyFetch \/ ModifyDelete \/ Restart
      PROVE  UNCHANGED World /\ (failure' = failure \/ failure' = now)
  BY <1>0, <1>2, SnapshotFetchMoves, SnapshotWriteMoves, ChangesFetchMoves, ChangesReadMoves,
     ChangesWriteMoves, ModifyFetchMoves, ModifyDeleteMoves, RestartMoves
<1>3. CASE Tick
  BY <1>0, <1>3, TickMoves
<1>4. CASE Upstream
  BY <1>0, <1>4, UpstreamMoves
<1>5. CASE UNCHANGED vars
  BY <1>5 DEF vars, upstream, trouble
<1> QED
  BY <1>1, <1>2, <1>3, <1>4, <1>5 DEF Next, Done, World

\* What lies nine instants before a later one than m or the next is not m.
LEMMA Longer ==
  ASSUME NEW f \in Int, NEW c \in Int, NEW n \in Int, NEW m \in Int,
         f + 9 <= c, c < n, n = m \/ n = m + 1
  PROVE  f # m
OBVIOUS

\* Once it is calm, nothing has changed and there was no trouble.
LEMMA CalmStep ==
  ASSUME TimeInv, TimeInv', [Next]_vars, Calm' < now'
  PROVE  /\ failure' = failure /\ UNCHANGED <<story, at, changed, half, known>>
         /\ Calm' = Calm /\ Truth' = Truth
         /\ \/ Tick
            \/ now' = now /\ Calm < now
<1>1. Typed /\ LiveTypeOK
  BY DEF TimeInv, Typed
<1>2. /\ now' \in Int /\ changed' \in Int /\ failure' \in Int
  BY DEF TimeInv, Typed, LiveTypeOK
<1>3. changed' + 9 <= Calm' /\ failure' + 9 <= Calm' /\ Calm' \in Int
  <2>1. Latency = 1 /\ FeedWindow = 8
    BY Constants
  <2>2. /\ Later(changed, failure)' \in Int /\ changed' <= Later(changed, failure)'
        /\ failure' <= Later(changed, failure)'
    BY <1>2 DEF Later
  <2> QED
    BY <1>2, <2>1, <2>2 DEF Calm
<1>4. now' = now \/ now' = now + 1
  BY <1>1, NextMoves, TickMoves
<1>5. PICK c \in Int, n \in Int : c = Calm' /\ n = now'
  BY <1>2, <1>3
<1>6. /\ now \in Int /\ c < n
      /\ n = now \/ n = now + 1
      /\ failure' \in Int /\ failure' + 9 <= c /\ changed' \in Int /\ changed' + 9 <= c
  BY <1>1, <1>2, <1>3, <1>4, <1>5, Instants
<1>7. failure' = failure
  <2>1. failure' = failure \/ failure' = now
    BY <1>1, NextMoves
  <2>2. failure' # now
    BY <1>6, Longer
  <2> QED
    BY <2>1, <2>2
<1>8. ~Upstream
  <2>1. changed' # now
    BY <1>6, Longer
  <2> QED
    BY <1>1, <2>1, UpstreamMoves
<1>9. UNCHANGED <<story, at, changed, half, known>>
  BY <1>1, <1>8, NextMoves
<1>10. Calm' = Calm /\ Truth' = Truth
  BY <1>7, <1>9 DEF Calm, Truth
<1> QED
  BY <1>1, <1>7, <1>9, <1>10, NextMoves

\* A step of a loop, when it is calm.
LEMMA CalmWrites ==
  ASSUME TimeInv, [Next]_vars, Calm < now, now' = now, failure' = failure
  PROVE  \/ mongo' = mongo
         \/ Truth.there /\ mongo' = Doc(at)
         \/ ~Truth.there /\ mongo' = NoDoc
<1>1. Typed /\ LiveTypeOK
  BY DEF TimeInv, Typed
<1>2. failure # now
  BY CalmTyped, Instants DEF TimeInv
<1>3. ASSUME NEW l \in Loop, Upsert(l) PROVE Truth.there /\ mongo' = Doc(at)
  <2>1. pc[l] = "upsert" /\ mongo' = Upserted(l)
    BY <1>1, <1>3, UpsertMoves
  <2> QED
    BY <2>1, CalmRuns DEF InHand, Upserted
<1>4. CASE ModifyDelete
  BY <1>1, <1>4, ModifyDeleteMoves, CalmRuns, LoopNames
<1>5. ASSUME NEW l \in Loop, Fire(l) \/ ScheduleFetch(l) PROVE mongo' = mongo
  BY <1>1, <1>5, FireMoves, ScheduleFetchMoves
<1>6. ASSUME NEW l \in Loop, CallFails(l) PROVE FALSE
  BY <1>1, <1>2, <1>6, CallFailsMoves
<1>7. ASSUME SnapshotFetch \/ SnapshotWrite \/ ChangesFetch \/ ChangesRead \/ ChangesWrite
             \/ ModifyFetch \/ Restart
      PROVE  mongo' = mongo
  BY <1>1, <1>7, SnapshotFetchMoves, SnapshotWriteMoves, ChangesFetchMoves, ChangesReadMoves,
     ChangesWriteMoves, ModifyFetchMoves, RestartMoves
<1>8. CASE Tick \/ Upstream
  BY <1>1, <1>8, TickMoves, UpstreamMoves
<1>9. CASE UNCHANGED vars
  BY <1>9 DEF vars, state
<1> QED
  BY <1>3, <1>4, <1>5, <1>6, <1>7, <1>8, <1>9 DEF Next, Done

\* The run of a loop that heals goes on, or has healed.
LEMMA CalmHeals ==
  ASSUME TimeInv, TimeInv', [Next]_vars, Calm < now, now' = now, failure' = failure,
         UNCHANGED <<story, at, changed>>, NEW l \in Loop, Soon(l),
         \/ l = "live-snapshot" /\ Truth.listed
         \/ l = "schedule" /\ Truth.there
         \/ l = "schedule-modify" /\ ~Truth.there
  PROVE  \/ Soon(l)'
         \/ Truth.there /\ mongo' = Doc(at)
         \/ ~Truth.there /\ mongo' = NoDoc
<1>1. Typed /\ LiveTypeOK
  BY DEF TimeInv, Typed
<1>2. failure # now
  BY CalmTyped, Instants DEF TimeInv
<1>3. ASSUME Same(l) PROVE Soon(l)'
  BY <1>3, SoonSame
<1>4. ASSUME NEW k \in Loop, k # l, NEW p, NEW s, NEW d, NEW r, Moved(k, p, s, d, r)
      PROVE  Soon(l)'
  BY <1>3, <1>4 DEF Moved
<1>5. ASSUME NEW k \in Loop, k # l, Returned(k) PROVE Soon(l)'
  BY <1>4, <1>5 DEF Returned
\* The run goes on.
<1>6. ASSUME NEW p, p # "idle", NEW r, Moved(l, p, since[l], due[l], r), pc[l] # "idle",
             l # "schedule"
      PROVE  Soon(l)'
  <2>1. pc'[l] = p /\ since'[l] = since[l] /\ Calm' = Calm /\ Allowance(l)' = Allowance(l)
    BY <1>6 DEF Moved, Calm, Allowance
  <2> QED
    BY <1>6, <2>1 DEF Soon
<1>7. ASSUME NEW k \in Loop, Fire(k) PROVE Soon(l)'
  <2>1. CASE k = l
    BY <1>7, <2>1, SoonFired
  <2>2. CASE k # l
    BY <1>1, <1>4, <1>7, <2>2, FireMoves
  <2> QED
    BY <2>1, <2>2
<1>8. CASE SnapshotFetch
  <2>1. CASE l = "live-snapshot"
    BY <1>1, <1>6, <1>8, <2>1, SnapshotFetchMoves, LoopNames
  <2>2. CASE l # "live-snapshot"
    BY <1>1, <1>4, <1>5, <1>8, <2>2, SnapshotFetchMoves, LoopNames
  <2> QED
    BY <2>1, <2>2
<1>9. CASE SnapshotWrite
  <2>1. CASE l = "live-snapshot"
    BY <1>1, <1>6, <1>9, <2>1, SnapshotWriteMoves, LoopNames
  <2>2. CASE l # "live-snapshot"
    BY <1>1, <1>4, <1>9, <2>2, SnapshotWriteMoves, LoopNames
  <2> QED
    BY <2>1, <2>2
<1>10. ASSUME ChangesFetch \/ ChangesRead \/ ChangesWrite PROVE Soon(l)'
  <2>1. l # "live-changes"
    OBVIOUS
  <2>2. CASE ChangesFetch
    BY <1>1, <1>4, <1>5, <2>1, <2>2, ChangesFetchMoves, LoopNames
  <2>3. CASE ChangesRead
    BY <1>1, <1>4, <1>5, <2>1, <2>3, ChangesReadMoves, LoopNames
  <2>4. CASE ChangesWrite
    BY <1>1, <1>4, <2>1, <2>4, ChangesWriteMoves, LoopNames
  <2> QED
    BY <1>10, <2>2, <2>3, <2>4
<1>11. CASE ModifyFetch
  <2>1. CASE l = "schedule-modify"
    BY <1>1, <1>6, <1>11, <2>1, ModifyFetchMoves
  <2>2. CASE l # "schedule-modify"
    BY <1>1, <1>4, <1>5, <1>11, <2>2, ModifyFetchMoves, LoopNames
  <2> QED
    BY <2>1, <2>2
<1>12. CASE ModifyDelete
  <2>1. ~Truth.there /\ mongo' = NoDoc
    BY <1>1, <1>12, ModifyDeleteMoves, CalmRuns, LoopNames
  <2> QED
    BY <2>1
<1>13. ASSUME NEW k \in Loop, Upsert(k) PROVE Truth.there /\ mongo' = Doc(at)
  <2>1. pc[k] = "upsert" /\ mongo' = Upserted(k)
    BY <1>1, <1>13, UpsertMoves
  <2> QED
    BY <2>1, CalmRuns DEF InHand, Upserted
<1>14. ASSUME NEW k \in Loop, ScheduleFetch(k) PROVE Soon(l)'
  <2>1. CASE k # l
    BY <1>1, <1>4, <1>5, <1>14, <2>1, ScheduleFetchMoves
  <2>2. CASE k = l /\ l = "schedule"
    <3>1. pc[l] = "fetch" /\ Moved(l, "upsert", now, due[l], at)
      BY <1>1, <1>14, <2>2, ScheduleFetchMoves
    <3>2. pc'[l] = "upsert" /\ since'[l] = now /\ Calm' = Calm
      BY <3>1 DEF Moved, Calm
    <3>3. now <= since[l] + LimiterWait
      BY <1>1, <2>2, <3>1, CalmRuns, Deadlines
    <3>4. since[l] <= Calm + Every[l]
      BY <2>2, <3>1, CalmTyped, Instants, <1>1 DEF Soon, Allowance
    <3>5. Allowance(l)' = LimiterWait
      BY <2>2, <3>2 DEF Allowance
    <3>6. /\ now \in Int /\ since[l] \in Int /\ Calm \in Int /\ Every[l] \in Int
          /\ LimiterWait \in Int
      BY <1>1, Instants, CalmTyped, Constants
    <3> QED
      BY <3>2, <3>3, <3>4, <3>5, <3>6 DEF Soon
  <2>3. CASE k = l /\ l = "schedule-modify"
    <3>1. pc[l] = "refetch" /\ Returned(l)
      BY <1>1, <1>14, <2>3, ScheduleFetchMoves
    <3>2. /\ pc'[l] = "idle" /\ Calm' = Calm
          /\ due'[l] = IF due[l] = Never THEN now + Every[l] ELSE due[l]
      BY <3>1 DEF Returned, Moved, Calm
    <3>3. now <= since[l] + LimiterWait
      BY <1>1, <3>1, CalmRuns, Deadlines
    <3>4. since[l] <= changed
      BY <2>3, <3>1 DEF TimeInv, Fresh
    <3>5. due[l] # Never => due[l] <= since[l] + Every[l]
      BY <3>1 DEF TimeInv, OnClock
    <3>6. Allowance(l)' = LimiterWait
      BY <2>3 DEF Allowance
    <3>7. due'[l] <= Calm + Every[l] + LimiterWait /\ now <= Calm + LimiterWait
      <4>1. /\ now \in Int /\ since[l] \in Int /\ Calm \in Int /\ Every[l] \in Int
            /\ due[l] \in Int /\ LimiterWait \in Nat /\ changed \in Int /\ changed <= Calm
            /\ 1 <= Every[l]
        BY <1>1, Instants, CalmTyped, Constants
      <4> QED
        BY <3>2, <3>3, <3>4, <3>5, <4>1
    <3> QED
      BY <3>2, <3>6, <3>7 DEF Soon
  <2> QED
    BY <1>1, <1>14, <2>1, <2>2, <2>3, ScheduleFetchMoves
<1>15. ASSUME NEW k \in Loop, CallFails(k) PROVE FALSE
  BY <1>1, <1>2, <1>15, CallFailsMoves
<1>16. CASE Restart
  BY <1>1, <1>2, <1>16, RestartMoves
<1>17. CASE Tick \/ Upstream
  BY <1>1, <1>3, <1>17, TickMoves, UpstreamMoves
<1>18. CASE UNCHANGED vars
  BY <1>3, <1>18 DEF vars, loops, Same
<1> QED
  BY <1>7, <1>8, <1>9, <1>10, <1>11, <1>12, <1>13, <1>14, <1>15, <1>16, <1>17, <1>18 DEF Next, Done

LEMMA MongoStep == TimeInv /\ TimeInv' /\ MongoInv /\ [Next]_vars => MongoInv'
<1> SUFFICES ASSUME TimeInv, TimeInv', MongoInv, [Next]_vars PROVE MongoInv'
  OBVIOUS
<1>1. CASE now' <= Calm'
  BY <1>1, SoonFirst, LoopNames DEF MongoInv
<1>2. CASE Calm' < now'
  <2>1. /\ failure' = failure /\ UNCHANGED <<story, at, changed>> /\ Calm' = Calm /\ Truth' = Truth
        /\ \/ Tick
           \/ now' = now /\ Calm < now
    BY <1>2, CalmStep
  <2>2. Doc(at)' = Doc(at)
    BY <2>1 DEF Doc
  <2>3. CASE Tick
    <3>1. mongo' = mongo /\ now' = now + 1
      BY <2>3, TickMoves DEF TimeInv, Typed
    <3>2. \A l \in Loop : Soon(l) => Soon(l)'
      BY <1>2, <2>1, <2>3, <3>1, SoonTick
    <3> QED
      BY <2>1, <2>2, <3>1, <3>2, LoopNames DEF MongoInv
  <2>4. CASE now' = now /\ Calm < now
    <3>1. \/ mongo' = mongo
          \/ Truth.there /\ mongo' = Doc(at)
          \/ ~Truth.there /\ mongo' = NoDoc
      BY <2>1, <2>4, CalmWrites
    <3>2. Truth.listed => Truth.there
      BY DEF TimeInv, Typed, LiveTypeOK, Truth, Shown
    <3>3. ASSUME Truth.listed PROVE mongo' = Doc(at) \/ Soon("live-snapshot")'
      BY <2>1, <2>4, <3>1, <3>2, <3>3, CalmHeals, LoopNames DEF MongoInv
    <3>4. ASSUME Truth.there PROVE mongo' = Doc(at) \/ Soon("schedule")'
      BY <2>1, <2>4, <3>1, <3>4, CalmHeals, LoopNames DEF MongoInv
    <3>5. ASSUME ~Truth.there PROVE mongo' = NoDoc \/ Soon("schedule-modify")'
      BY <2>1, <2>4, <3>1, <3>5, CalmHeals, LoopNames DEF MongoInv
    <3> QED
      BY <2>1, <2>2, <3>3, <3>4, <3>5 DEF MongoInv
  <2> QED
    BY <2>1, <2>3, <2>4
<1>3. now' \in Int /\ Calm' \in Int
  BY Constants DEF TimeInv, Typed, LiveTypeOK, Calm, Later
<1> QED
  BY <1>1, <1>2, <1>3

(***************************************************************************)
(* Healed and Settled: Redis.                                              *)
(***************************************************************************)
\* The live state does not expire before the snapshot loop writes it again.
Lasting ==
  LET l == "live-snapshot" IN
  IF pc[l] = "idle" THEN due[l] + 1 < expires
  ELSE IF pc[l] # "upsert" THEN since[l] + 1 < expires
  ELSE IF due[l] = Never THEN since[l] + 26 < expires ELSE due[l] + 1 < expires

\* The run that writes it has begun in time, or is due.
SnapshotSoon ==
  LET l == "live-snapshot" IN
  IF pc[l] = "idle" THEN due[l] <= Calm + 24
  ELSE IF pc[l] = "upsert" THEN since[l] <= Calm ELSE since[l] <= Calm + 24

RedisInv == Truth.listed => (redis = Doc(at) /\ Lasting) \/ SnapshotSoon

ExpiryInv ==
  /\ expires <= now + liveStateTTL
  /\ redis # NoDoc => now < expires
  /\ ~Truth.listed => redis = NoDoc \/ expires <= Calm + liveStateTTL

\* A step of a loop leaves Redis alone or writes it, for liveStateTTL.
LEMMA RedisWrites ==
  ASSUME Typed, [Next]_vars, ~Tick
  PROVE  \/ UNCHANGED <<redis, expires>>
         \/ /\ SnapshotWrite \/ ChangesWrite
            /\ expires' = now + liveStateTTL
<1>0. LiveTypeOK
  BY DEF Typed
<1>1. ASSUME NEW l \in Loop, Fire(l) \/ Upsert(l) \/ CallFails(l) \/ ScheduleFetch(l)
      PROVE  UNCHANGED <<redis, expires>>
  BY <1>0, <1>1, FireMoves, UpsertMoves, CallFailsMoves, ScheduleFetchMoves
<1>2. ASSUME SnapshotFetch \/ ChangesFetch \/ ChangesRead \/ ModifyFetch \/ ModifyDelete \/ Restart
      PROVE  UNCHANGED <<redis, expires>>
  BY <1>0, <1>2, SnapshotFetchMoves, ChangesFetchMoves, ChangesReadMoves, ModifyFetchMoves,
     ModifyDeleteMoves, RestartMoves
<1>3. CASE SnapshotWrite \/ ChangesWrite
  BY <1>0, <1>3, SnapshotWriteMoves, ChangesWriteMoves
<1>4. CASE Upstream
  BY <1>0, <1>4, UpstreamMoves
<1>5. CASE UNCHANGED vars
  BY <1>5 DEF vars, state
<1> QED
  BY <1>1, <1>2, <1>3, <1>4, <1>5 DEF Next, Done

LEMMA SumLater ==
  ASSUME NEW e \in Int, NEW n \in Int, NEW c \in Int, NEW t \in Nat, e <= n + t, n <= c
  PROVE  e <= c + t
OBVIOUS

LEMMA ExpiryStep == TimeInv /\ TimeInv' /\ ExpiryInv /\ [Next]_vars => ExpiryInv'
<1> SUFFICES ASSUME TimeInv, TimeInv', ExpiryInv, [Next]_vars PROVE ExpiryInv'
  OBVIOUS
<1>t. Typed /\ LiveTypeOK /\ now \in Int /\ expires \in Int /\ Calm \in Int
  BY CalmTyped, Instants DEF TimeInv, Typed
<1>n. now' \in Int /\ expires' \in Int /\ Calm' \in Int
  BY Constants DEF TimeInv, Typed, LiveTypeOK, Calm, Later
<1>c. liveStateTTL \in Nat /\ liveStateTTL > 26 /\ Never = -1
  BY Constants
<1>1. CASE Tick
  <2>1. /\ now' = now + 1
        /\ \/ redis' = NoDoc /\ expires' = Never
           \/ (redis # NoDoc => now + 1 < expires) /\ redis' = redis /\ expires' = expires
    BY <1>1, <1>t, TickMoves
  <2>2. now >= 0
    BY <1>t, Instants
  <2>3. expires' <= now' + liveStateTTL /\ (redis' # NoDoc => now' < expires')
    BY <1>t, <1>c, <2>1, <2>2 DEF ExpiryInv
  <2>4. CASE Calm' < now'
    <3>1. Calm' = Calm /\ Truth' = Truth
      BY <2>4, CalmStep
    <3> QED
      BY <2>1, <2>3, <3>1 DEF ExpiryInv
  <2>5. CASE now' <= Calm'
    <3>1. expires' <= Calm' + liveStateTTL
      BY <1>n, <1>c, <2>3, <2>5, SumLater
    <3> QED
      BY <2>3, <3>1 DEF ExpiryInv
  <2> QED
    BY <1>n, <2>4, <2>5
<1>2. CASE ~Tick
  <2>1. now' = now
    BY <1>2, <1>t, NextMoves
  <2>2. \/ UNCHANGED <<redis, expires>>
        \/ (SnapshotWrite \/ ChangesWrite) /\ expires' = now + liveStateTTL
    BY <1>2, <1>t, RedisWrites
  <2>3. expires' <= now' + liveStateTTL /\ (redis' # NoDoc => now' < expires')
    BY <1>t, <1>c, <2>1, <2>2 DEF ExpiryInv
  <2>4. CASE Calm' < now'
    <3>1. Calm' = Calm /\ Truth' = Truth /\ Calm < now
      BY <1>2, <2>4, CalmStep
    <3>2. ~Truth.listed => ~SnapshotWrite /\ ~ChangesWrite
      BY <1>t, <3>1, CalmRuns, LoopNames, SnapshotWriteMoves, ChangesWriteMoves DEF InHand
    <3> QED
      BY <2>2, <2>3, <3>1, <3>2 DEF ExpiryInv
  <2>5. CASE now' <= Calm'
    <3>1. expires' <= Calm' + liveStateTTL
      BY <1>n, <1>c, <2>3, <2>5, SumLater
    <3> QED
      BY <2>3, <3>1 DEF ExpiryInv
  <2> QED
    BY <1>n, <2>4, <2>5
<1> QED
  BY <1>1, <1>2

LEMMA RedisStep == TimeInv /\ TimeInv' /\ RedisInv /\ [Next]_vars => RedisInv'
<1> SUFFICES ASSUME TimeInv, TimeInv', RedisInv, [Next]_vars PROVE RedisInv'
  OBVIOUS
<1> DEFINE l == "live-snapshot"
<1>t. /\ Typed /\ LiveTypeOK /\ now \in Int /\ expires \in Int /\ Calm \in Int /\ failure \in Int
      /\ l \in Loop /\ l \in Live /\ since[l] \in Int /\ due[l] \in Int
      /\ OnClock(l) /\ Every[l] = 24
  BY CalmTyped, Instants, LoopNames, Constants DEF TimeInv, Typed, Live
<1>n. /\ now' \in Int /\ Calm' \in Int /\ since'[l] \in Int /\ due'[l] \in Int
      /\ OnClock(l)'
  <2>1. now' \in Int /\ Calm' \in Int
    BY Constants DEF TimeInv, Typed, LiveTypeOK, Calm, Later
  <2> QED
    BY <2>1, LoopNames DEF TimeInv, Typed, LiveTypeOK
<1>c. liveStateTTL \in Nat /\ liveStateTTL > 26 /\ Never = -1
  BY Constants
<1>d. pc[l] # "idle" => Deadline(l) = since[l] + 1
  BY <1>t, Deadlines, Instants DEF Stages
<1>1. CASE now' <= Calm'
  BY <1>n, <1>t, <1>1 DEF OnClock, RedisInv, SnapshotSoon
<1>2. CASE Calm' < now'
  <2>1. /\ failure' = failure /\ UNCHANGED <<story, at>> /\ Calm' = Calm /\ Truth' = Truth
        /\ \/ Tick
           \/ now' = now /\ Calm < now
    BY <1>2, CalmStep
  <2>2. Doc(at)' = Doc(at)
    BY <2>1 DEF Doc
  <2>3. SUFFICES ASSUME Truth.listed PROVE (redis' = Doc(at) /\ Lasting') \/ SnapshotSoon'
    BY <2>1, <2>2 DEF RedisInv
  <2>4. (redis = Doc(at) /\ Lasting) \/ SnapshotSoon
    BY <2>3 DEF RedisInv
  <2>5. ASSUME Same(l), UNCHANGED <<redis, expires>> PROVE (redis' = Doc(at) /\ Lasting') \/ SnapshotSoon'
    BY <2>1, <2>4, <2>5 DEF Lasting, SnapshotSoon, Same
  <2>6. CASE Tick
    <3>1. /\ now' = now + 1 /\ Same(l) /\ (OnTime \/ failure' = now)
          /\ \/ expires <= now + 1
             \/ UNCHANGED <<redis, expires>>
      BY <1>t, <2>6, TickMoves
    <3>2. failure + 9 <= Calm
      BY CalmTyped
    <3>3. IF pc[l] = "idle" THEN now < due[l] ELSE now < Deadline(l)
      BY <1>2, <1>t, <2>1, <3>1, <3>2 DEF OnTime
    <3>4. Lasting => now + 1 < expires
      BY <1>t, <1>d, <3>3 DEF Lasting, OnClock
    <3>5. CASE SnapshotSoon
      BY <2>1, <3>1, <3>5 DEF SnapshotSoon, Same
    <3> QED
      BY <1>t, <2>4, <2>5, <3>1, <3>4, <3>5
  <2>7. CASE now' = now /\ Calm < now
    <3>1. failure # now /\ failure + 1 < now
      BY <1>t, <2>7, CalmTyped
    <3>2. ASSUME NEW k \in Loop, k # l, NEW p, NEW s, NEW d, NEW r, Moved(k, p, s, d, r),
                 UNCHANGED <<redis, expires>>
          PROVE  (redis' = Doc(at) /\ Lasting') \/ SnapshotSoon'
      BY <1>t, <2>5, <3>2 DEF Moved
    <3>3. ASSUME NEW k \in Loop, k # l, Returned(k), UNCHANGED <<redis, expires>>
          PROVE  (redis' = Doc(at) /\ Lasting') \/ SnapshotSoon'
      BY <3>2, <3>3 DEF Returned
    <3>4. CASE Fire(l)
      <4>1. /\ pc[l] = "idle" /\ pc'[l] = "fetch" /\ since'[l] = now
            /\ UNCHANGED <<redis, expires>>
        BY <1>t, <3>4, FireMoves DEF Moved
      <4>2. now <= due[l]
        BY <1>t, <3>1, <4>1 DEF OnClock
      <4> QED
        BY <1>t, <2>1, <2>4, <4>1, <4>2 DEF Lasting, SnapshotSoon
    <3>5. ASSUME NEW k \in Loop, Fire(k) PROVE (redis' = Doc(at) /\ Lasting') \/ SnapshotSoon'
      BY <1>t, <3>2, <3>4, <3>5, FireMoves
    <3>6. CASE SnapshotFetch
      <4>1. /\ pc[l] = "fetch" /\ Moved(l, "write", since[l], due[l], at)
            /\ UNCHANGED <<redis, expires>>
        BY <1>t, <2>3, <3>6, SnapshotFetchMoves
      <4>2. pc'[l] = "write" /\ since'[l] = since[l]
        BY <4>1 DEF Moved
      <4> QED
        BY <1>t, <2>1, <2>4, <4>1, <4>2 DEF Lasting, SnapshotSoon
    <3>7. CASE SnapshotWrite
      <4>1. /\ pc[l] = "write" /\ Moved(l, "upsert", since[l], due[l], row[l])
            /\ redis' = Doc(row[l]) /\ expires' = now + liveStateTTL
        BY <1>t, <2>1, <3>1, <3>7, SnapshotWriteMoves
      <4>2. row[l] = at
        BY <1>t, <2>7, <4>1, CalmRuns DEF InHand
      <4>3. pc'[l] = "upsert" /\ since'[l] = since[l] /\ due'[l] = due[l]
        BY <4>1 DEF Moved
      <4>4. since[l] <= now /\ (due[l] # Never => due[l] <= since[l] + 24)
        BY <1>t, <4>1 DEF OnClock
      <4> QED
        BY <1>t, <1>c, <4>1, <4>2, <4>3, <4>4 DEF Lasting
    <3>8. ASSUME ChangesFetch \/ ChangesRead \/ ChangesWrite
          PROVE  (redis' = Doc(at) /\ Lasting') \/ SnapshotSoon'
      <4>1. "live-changes" # l /\ "live-changes" \in Loop
        BY LoopNames
      <4>2. CASE ChangesFetch
        BY <1>t, <3>2, <3>3, <4>1, <4>2, ChangesFetchMoves
      <4>3. CASE ChangesRead
        BY <1>t, <3>2, <3>3, <4>1, <4>3, ChangesReadMoves
      <4>4. CASE ChangesWrite
        BY <1>t, <2>7, <4>1, <4>4, CalmRuns, ChangesWriteMoves DEF InHand
      <4> QED
        BY <3>8, <4>2, <4>3, <4>4
    <3>9. ASSUME ModifyFetch \/ ModifyDelete
          PROVE  (redis' = Doc(at) /\ Lasting') \/ SnapshotSoon'
      <4>1. "schedule-modify" # l /\ "schedule-modify" \in Loop
        BY LoopNames
      <4>2. CASE ModifyFetch
        BY <1>t, <3>2, <3>3, <4>1, <4>2, ModifyFetchMoves
      <4>3. CASE ModifyDelete
        BY <1>t, <3>3, <4>1, <4>3, ModifyDeleteMoves
      <4> QED
        BY <3>9, <4>2, <4>3
    <3>10. ASSUME NEW k \in Loop, ScheduleFetch(k)
           PROVE  (redis' = Doc(at) /\ Lasting') \/ SnapshotSoon'
      <4>1. k # l
        BY <1>t, <3>10, ScheduleFetchMoves
      <4> QED
        BY <1>t, <3>2, <3>3, <3>10, <4>1, ScheduleFetchMoves
    <3>11. CASE Upsert(l)
      <4>1. /\ pc[l] = "upsert" /\ Returned(l) /\ UNCHANGED <<redis, expires>>
        BY <1>t, <3>11, UpsertMoves
      <4>2. /\ pc'[l] = "idle"
            /\ due'[l] = IF due[l] = Never THEN now + 24 ELSE due[l]
        BY <1>t, <4>1 DEF Returned, Moved
      <4>3. /\ now <= since[l] + 1
            /\ due[l] # Never => due[l] <= since[l] + 24
            /\ due[l] = Never => since[l] <= failure + 1
        BY <1>t, <1>d, <3>1, <4>1 DEF OnClock
      <4>4. failure + 9 <= Calm
        BY CalmTyped
      <4>5. CASE due[l] = Never
        BY <1>t, <2>1, <2>4, <2>7, <4>1, <4>2, <4>3, <4>4, <4>5 DEF Lasting, SnapshotSoon
      <4>6. CASE due[l] # Never
        BY <1>t, <2>1, <2>4, <4>1, <4>2, <4>3, <4>6 DEF Lasting, SnapshotSoon
      <4> QED
        BY <4>5, <4>6
    <3>12. ASSUME NEW k \in Loop, Upsert(k) PROVE (redis' = Doc(at) /\ Lasting') \/ SnapshotSoon'
      BY <1>t, <3>3, <3>11, <3>12, UpsertMoves
    <3>13. ASSUME NEW k \in Loop, CallFails(k) PROVE FALSE
      BY <1>t, <2>1, <3>1, <3>13, CallFailsMoves
    <3>14. ~Restart
      BY <1>t, <2>1, <3>1, RestartMoves
    <3>15. ~Tick /\ ~Upstream
      BY <1>t, <2>1, <2>7, TickMoves, UpstreamMoves, Instants
    <3>16. CASE UNCHANGED vars
      BY <2>5, <3>16 DEF vars, state, loops, Same
    <3> QED
      BY <3>5, <3>6, <3>7, <3>8, <3>9, <3>10, <3>12, <3>13, <3>14, <3>15, <3>16 DEF Next, Done
  <2> QED
    BY <2>1, <2>6, <2>7
<1> QED
  BY <1>n, <1>1, <1>2

HealInv == TimeInv /\ MongoInv /\ RedisInv /\ ExpiryInv

LEMMA HealInit == Init => HealInv
<1> SUFFICES ASSUME Init PROVE HealInv
  OBVIOUS
<1>1. TimeInv
  BY TimeInit
<1>2. /\ now = 0 /\ failure = -1 /\ changed = -1 /\ expires = -1 /\ redis = NoDoc
      /\ \A l \in Loop : pc[l] = "idle" /\ due[l] = -1
  BY DEF Init, Never
<1>3. Calm \in Int /\ 8 <= Calm
  BY <1>1, <1>2, CalmTyped
<1>4. \A l \in Loop : Soon(l)
  BY <1>1, <1>2, <1>3, CalmTyped, Constants DEF Soon
<1>5. MongoInv /\ RedisInv
  BY <1>2, <1>3, <1>4, LoopNames DEF MongoInv, RedisInv, SnapshotSoon
<1>6. ExpiryInv
  BY <1>2, Constants DEF ExpiryInv
<1> QED
  BY <1>1, <1>5, <1>6 DEF HealInv

LEMMA HealStep == HealInv /\ [Next]_vars => HealInv'
  BY TimeStep, MongoStep, RedisStep, ExpiryStep DEF HealInv

\* A loop that was to heal MongoDB soon has done so, or time has not come.
LEMMA SoonOver ==
  ASSUME TimeInv, NEW l \in Loop, Soon(l)
  PROVE  \/ now <= Calm + Every[l] + Allowance(l) + 1
         \/ /\ pc[l] = "refetch" \/ (l = "schedule" /\ pc[l] = "fetch")
            /\ now <= Calm + Every[l] + Allowance(l) + LimiterWait
<1>1. /\ OnClock(l) /\ Typed /\ now \in Int /\ Calm \in Int /\ Every[l] \in Int /\ since[l] \in Int
      /\ due[l] \in Int /\ Allowance(l) \in Int /\ failure \in Int /\ LimiterWait \in Int
      /\ 0 <= Allowance(l) /\ 1 <= Every[l] /\ failure + 9 <= Calm
  BY CalmTyped, Instants, Constants DEF TimeInv
<1>2. CASE pc[l] = "idle"
  BY <1>1, <1>2 DEF Soon
<1>3. CASE pc[l] # "idle"
  <2>1. since[l] <= Calm + Every[l] + Allowance(l)
    BY <1>3 DEF Soon
  <2>2. now <= Deadline(l) \/ now <= failure + 1
    BY <1>1, <1>3 DEF OnClock
  <2> QED
    BY <1>1, <2>1, <2>2, Deadlines
<1> QED
  BY <1>2, <1>3

LEMMA HealInvHealed == HealInv => Healed
<1> SUFFICES ASSUME HealInv, Truth.listed, Quiet(FeedWindow + SnapshotEvery + 2 * Latency)
             PROVE  redis = Doc(at) /\ mongo = Doc(at)
  BY DEF Healed
<1> DEFINE l == "live-snapshot"
<1>1. /\ TimeInv /\ Typed /\ OnClock(l) /\ l \in Loop /\ l \in Live /\ pc[l] \in Stages(l)
      /\ now \in Int /\ changed \in Int /\ failure \in Int /\ since[l] \in Int /\ due[l] \in Int
  BY Instants, LoopNames DEF HealInv, TimeInv, Live
<1>2. Every[l] = 24 /\ Calm \in Int /\ Calm = Later(changed, failure) + 9 /\ Allowance(l) = 0
  BY <1>1, CalmTyped, Constants DEF Allowance
<1>3. Calm + 25 < now
  BY <1>1, <1>2, Constants DEF Quiet, Later
<1>4. failure + 9 <= Calm
  BY <1>1, CalmTyped
<1>5. pc[l] # "idle" => now <= since[l] + 1
  BY <1>1, <1>2, <1>3, <1>4, Deadlines DEF OnClock, Stages
<1>6. pc[l] = "idle" => now <= due[l]
  BY <1>1, <1>2, <1>3, <1>4 DEF OnClock
<1>7. mongo = Doc(at)
  BY <1>1, <1>2, <1>3, <1>5, <1>6 DEF HealInv, MongoInv, Soon
<1>8. redis = Doc(at)
  BY <1>1, <1>2, <1>3, <1>5, <1>6 DEF HealInv, RedisInv, SnapshotSoon
<1> QED
  BY <1>7, <1>8

LEMMA HealInvSettled == HealInv => Settled
<1> SUFFICES ASSUME HealInv PROVE Settled
  OBVIOUS
<1> DEFINE slow == IF ModifyEvery > ScheduleEvery THEN ModifyEvery ELSE ScheduleEvery
           wait == FeedWindow + slow + LimiterWait + 3 * Latency
           live == FeedWindow + Latency + liveStateTTL
<1>1. /\ TimeInv /\ Typed /\ now \in Int /\ changed \in Int /\ failure \in Int
      /\ Calm \in Int /\ Calm = Later(changed, failure) + 9
      /\ FeedWindow = 8 /\ Latency = 1 /\ LimiterWait \in Int /\ liveStateTTL \in Int
  BY CalmTyped, Instants, Constants DEF HealInv, TimeInv
<1>2. PICK s \in Int : /\ s = slow /\ 1 <= s /\ ModifyEvery <= s /\ ScheduleEvery <= s
                        /\ ModifyEvery \in Int /\ ScheduleEvery \in Int
  BY LiveAssumption
<1>3. ASSUME Quiet(wait) PROVE mongo = IF Truth.there THEN Doc(at) ELSE NoDoc
  <2>1. Calm + s + LimiterWait + 2 < now
    <3>1. now - changed > s + LimiterWait + 11 /\ now - failure > s + LimiterWait + 11
      BY <1>1, <1>2, <1>3 DEF Quiet
    <3>2. PICK m \in {changed, failure} : Later(changed, failure) = m
      BY DEF Later
    <3> QED
      BY <1>1, <1>2, <3>1, <3>2
  <2>2. ~Soon("schedule")
    <3> DEFINE l == "schedule"
    <3>1. /\ l \in Loop /\ Every[l] = ScheduleEvery
          /\ pc[l] # "upsert" => Allowance(l) = 0
          /\ pc[l] = "upsert" => Allowance(l) = LimiterWait
          /\ pc[l] # "refetch" /\ 1 <= LimiterWait
      BY <1>1, LoopNames, Constants, Instants DEF Allowance, Stages
    <3> QED
      BY <1>1, <1>2, <2>1, <3>1, SoonOver
  <2>3. ~Truth.there => ~Soon("schedule-modify")
    <3> DEFINE l == "schedule-modify"
    <3>1. l \in Loop /\ Every[l] = ModifyEvery /\ Allowance(l) = LimiterWait
      BY LoopNames, Constants DEF Allowance
    <3>2. SUFFICES ASSUME ~Truth.there, Soon(l) PROVE FALSE
      OBVIOUS
    <3>3. CASE pc[l] # "refetch"
      BY <1>1, <1>2, <2>1, <3>1, <3>2, <3>3, SoonOver
    <3>4. CASE pc[l] = "refetch"
      <4>1. since[l] <= changed /\ OnClock(l) /\ since[l] \in Int
        BY <1>1, <3>1, <3>2, <3>4, Instants DEF TimeInv, Fresh
      <4>2. now <= since[l] + LimiterWait \/ now <= failure + 1
        BY <1>1, <3>1, <3>4, <4>1, Deadlines DEF OnClock
      <4>3. changed + 9 <= Calm /\ failure + 9 <= Calm
        BY <1>1, CalmTyped
      <4>4. 1 <= LimiterWait
        BY Constants
      <4> QED
        BY <1>1, <1>2, <2>1, <4>1, <4>2, <4>3, <4>4
    <3> QED
      BY <3>3, <3>4
  <2> QED
    BY <2>2, <2>3 DEF HealInv, MongoInv
<1>4. ASSUME Quiet(live), ~Truth.listed PROVE redis = NoDoc
  <2>1. Calm + liveStateTTL < now
    BY <1>1, <1>4 DEF Quiet, Later
  <2>2. expires \in Int
    BY <1>1, Instants
  <2> QED
    BY <1>1, <1>4, <2>1, <2>2 DEF HealInv, ExpiryInv
<1> QED
  BY <1>3, <1>4 DEF Settled

\* Healed holds for every story, TTL, interval of the slow loops, failure and restart: what
\* the four loops wrote in any order is overtaken by the next run of the snapshot loop, and
\* nothing older is still on its way by then (syncLiveSnapshot, syncLiveChanges).
THEOREM HealedHolds == Spec => []Healed
<1>1. HealInv => Healed
  BY HealInvHealed
<1> QED
  BY HealInit, HealStep, <1>1, PTL DEF Spec

\* Settled holds in the same way for a match that is no longer listed, or deleted: the slow
\* loop that sees it heals MongoDB, and Redis forgets it (syncSchedule, syncScheduleModify).
THEOREM SettledHolds == Spec => []Settled
<1>1. HealInv => Settled
  BY HealInvSettled
<1> QED
  BY HealInit, HealStep, <1>1, PTL DEF Spec

(***************************************************************************)
(* GapFree.                                                                *)
(***************************************************************************)
\* What GapFree promises is about a match the store knew at its last change, with no trouble
\* since.
Promised == known /\ Truth.there /\ changed > failure

\* Whatever is written is a match.
Written ==
  /\ redis # NoDoc => redis.fixture # 0
  /\ mongo # NoDoc => mongo.fixture # 0
  /\ pc["live-changes"] \in {"write", "upsert"} => merged.fixture # 0

\* The store keeps the match for two polls.
StoreInv ==
  Promised => /\ pc["schedule-modify"] # "delete"
              /\ \/ mongo # NoDoc
                 \/ now > changed + TwoPolls
                 \/ redis # NoDoc /\ expires > changed + TwoPolls

\* The change is announced, or the poll that will announce it begins soon enough; a run that
\* missed the change ends in time for the next one.
Announced(t) == published.n = at \/ t <= changed + ChangesEvery + Latency

PollInv ==
  LET l == "live-changes" IN
  Promised =>
    /\ pc[l] = "idle" => Announced(due[l])
    /\ pc[l] = "fetch" => Announced(since[l])
    /\ pc[l] \in {"read", "write"} /\ row[l] = at => Announced(since[l])
    /\ pc[l] = "upsert" /\ row[l] = at => published.n = at
    /\ InHand(l) /\ row[l] # at => since[l] <= changed /\ due[l] <= changed + ChangesEvery

\* The promise is new when the match changes, and is kept by a step that is no trouble.
LEMMA PromisedStep ==
  ASSUME TimeInv, [Next]_vars, ~Upstream, Promised', TimeInv'
  PROVE  Promised /\ failure' = failure /\ UNCHANGED <<story, at, changed>>
<1>1. Typed /\ LiveTypeOK
  BY DEF TimeInv, Typed
<1>2. /\ failure' = failure \/ failure' = now
      /\ UNCHANGED <<story, at, changed, half, known>>
  BY <1>1, NextMoves
<1>3. changed <= now /\ changed \in Int /\ now \in Int
  BY <1>1, Instants DEF TimeInv, Marks
<1>4. failure' = failure
  BY <1>2, <1>3 DEF Promised
<1> QED
  BY <1>2, <1>4 DEF Promised, Truth

LEMMA WrittenStep == Typed /\ Written /\ [Next]_vars => Written'
<1> SUFFICES ASSUME Typed, Written, [Next]_vars PROVE Written'
  OBVIOUS
<1> DEFINE l == "live-changes"
<1>0. LiveTypeOK /\ l \in Loop /\ NoDoc.fixture = 0
  BY LoopNames, NoDocTyped DEF Typed
<1>1. \A k \in Loop : InHand(k) => row[k] \in 1..at
  BY DEF Typed, HandTyped
<1>2. ASSUME NEW k \in Loop, pc[k] = "upsert" PROVE Upserted(k).fixture # 0
  <2>1. row[k] \in 1..at
    BY <1>1, <1>2 DEF InHand
  <2> QED
    BY <1>0, <1>2, <2>1, DocTyped DEF Written, Upserted
\* A step that leaves live-changes and the documents alone.
<1>3. ASSUME pc'[l] = pc[l] \/ pc'[l] \notin {"write", "upsert"}, merged' = merged,
             UNCHANGED <<redis, mongo>>
      PROVE  Written'
  BY <1>3 DEF Written
<1>4. ASSUME NEW k \in Loop, NEW p, NEW s, NEW d, NEW r, Moved(k, p, s, d, r),
             k # l \/ p \notin {"write", "upsert"}
      PROVE  pc'[l] = pc[l] \/ pc'[l] \notin {"write", "upsert"}
  BY <1>0, <1>4 DEF Moved, Same
<1>5. ASSUME NEW k \in Loop, Returned(k)
      PROVE  pc'[l] = pc[l] \/ pc'[l] \notin {"write", "upsert"}
  BY <1>4, <1>5 DEF Returned
<1>6. ASSUME NEW k \in Loop, Fire(k) PROVE Written'
  BY <1>0, <1>3, <1>4, <1>6, FireMoves
<1>7. CASE SnapshotFetch
  BY <1>0, <1>3, <1>4, <1>5, <1>7, LoopNames, SnapshotFetchMoves
<1>8. CASE SnapshotWrite
  <2>1. row["live-snapshot"] \in 1..at
    BY <1>0, <1>1, <1>8, LoopNames, SnapshotWriteMoves DEF InHand
  <2>2. Doc(row["live-snapshot"]).fixture # 0
    BY <1>0, <2>1, DocTyped
  <2>3. pc'[l] = pc[l] \/ pc'[l] \notin {"write", "upsert"}
    BY <1>0, <1>4, <1>8, LoopNames, SnapshotWriteMoves
  <2> QED
    BY <1>0, <1>8, <2>2, <2>3, SnapshotWriteMoves DEF Written
<1>9. CASE ChangesFetch
  BY <1>0, <1>3, <1>4, <1>5, <1>9, ChangesFetchMoves
<1>10. CASE ChangesRead
  <2>1. delta \in Delta /\ redis \in Match /\ mongo \in Match
    BY <1>0 DEF LiveTypeOK
  <2>2. ASSUME NEW m \in {redis, mongo}, m # NoDoc PROVE applyChange(m, delta).fixture # 0
    BY <2>1, <2>2, Merged DEF Written
  <2> QED
    BY <1>0, <1>3, <1>5, <1>10, <2>2, ChangesReadMoves DEF Written
<1>11. CASE ChangesWrite
  BY <1>0, <1>11, ChangesWriteMoves DEF Written
<1>12. CASE ModifyFetch
  BY <1>0, <1>3, <1>4, <1>5, <1>12, LoopNames, ModifyFetchMoves
<1>13. CASE ModifyDelete
  <2>1. pc'[l] = pc[l] \/ pc'[l] \notin {"write", "upsert"}
    BY <1>0, <1>5, <1>13, LoopNames, ModifyDeleteMoves
  <2> QED
    BY <1>0, <1>13, <2>1, ModifyDeleteMoves DEF Written
<1>14. ASSUME NEW k \in Loop, ScheduleFetch(k) PROVE Written'
  <2>1. k # l
    BY <1>0, <1>14, ScheduleFetchMoves
  <2> QED
    BY <1>0, <1>3, <1>4, <1>5, <1>14, <2>1, ScheduleFetchMoves
<1>15. ASSUME NEW k \in Loop, Upsert(k) \/ CallFails(k) PROVE Written'
  <2>1. /\ Returned(k) /\ redis' = redis
        /\ mongo' = mongo \/ (pc[k] = "upsert" /\ mongo' = Upserted(k))
        /\ merged' = merged \/ k = l
    BY <1>0, <1>15, UpsertMoves, CallFailsMoves
  <2>2. pc'[k] = "idle" /\ (pc'[l] = pc[l] \/ pc'[l] \notin {"write", "upsert"})
    BY <1>5, <2>1 DEF Returned, Moved
  <2>3. mongo' # NoDoc => mongo'.fixture # 0
    BY <1>2, <2>1 DEF Written
  <2> QED
    BY <2>1, <2>2, <2>3 DEF Written
<1>16. CASE Restart
  BY <1>0, <1>16, RestartMoves DEF Written
<1>17. CASE Tick
  BY <1>0, <1>17, TickMoves DEF Written, Same
<1>18. CASE Upstream
  BY <1>0, <1>3, <1>18, UpstreamMoves DEF Same
<1>19. CASE UNCHANGED vars
  BY <1>3, <1>19 DEF vars, loops, state
<1> QED
  BY <1>6, <1>7, <1>8, <1>9, <1>10, <1>11, <1>12, <1>13, <1>14, <1>15, <1>16, <1>17, <1>18,
     <1>19 DEF Next, Done

LEMMA StoreStep ==
  TimeInv /\ TimeInv' /\ Written /\ Written' /\ StoreInv /\ [Next]_vars => StoreInv'
<1> SUFFICES ASSUME TimeInv, TimeInv', Written, Written', StoreInv, [Next]_vars, Promised'
             PROVE  /\ pc'["schedule-modify"] # "delete"
                    /\ \/ mongo' # NoDoc
                       \/ now' > changed' + 8
                       \/ redis' # NoDoc /\ expires' > changed' + 8
  BY Constants DEF StoreInv
<1> DEFINE l == "schedule-modify"
<1>0. /\ Typed /\ LiveTypeOK /\ l \in Loop /\ now \in Int /\ changed \in Int /\ expires \in Int
      /\ changed <= now /\ TwoPolls = 8 /\ NoDoc.fixture = 0
  BY LoopNames, Instants, Constants, NoDocTyped DEF TimeInv, Typed, Marks
<1>1. CASE Upstream
  <2>1. /\ known' = Known /\ changed' = now /\ Same(l) /\ UNCHANGED <<now, redis, expires, mongo>>
    BY <1>0, <1>1, UpstreamMoves
  <2> QED
    BY <1>0, <2>1 DEF Promised, Known, Same
<1>2. CASE ~Upstream
  <2>1. /\ Promised /\ failure' = failure /\ changed' = changed /\ Truth.there /\ failure # now
        /\ now' = now \/ now' = now + 1
    <3>1. Promised /\ failure' = failure /\ changed' = changed
      BY <1>2, PromisedStep
    <3>2. changed > failure /\ failure \in Int
      BY <1>0, <3>1, Instants DEF Promised
    <3> QED
      BY <1>0, <3>1, <3>2, NextMoves, TickMoves DEF Promised
  <2>2. /\ pc[l] # "delete"
        /\ \/ mongo # NoDoc
           \/ now > changed + 8
           \/ redis # NoDoc /\ expires > changed + 8
    BY <1>0, <2>1 DEF StoreInv
  \* A step that leaves the documents and schedule-modify alone.
  <2>3. ASSUME UNCHANGED <<redis, expires, mongo, now>> \/ mongo' # NoDoc
        PROVE  \/ mongo' # NoDoc
               \/ now' > changed' + 8
               \/ redis' # NoDoc /\ expires' > changed' + 8
    BY <2>1, <2>2, <2>3
  <2>4. ASSUME NEW k \in Loop, NEW p, NEW s, NEW d, NEW r, Moved(k, p, s, d, r), p # "delete"
        PROVE  pc'[l] # "delete"
    BY <1>0, <2>2, <2>4 DEF Moved, Same
  <2>5. ASSUME NEW k \in Loop, Returned(k) PROVE pc'[l] # "delete"
    BY <2>4, <2>5 DEF Returned
  <2>6. ASSUME NEW k \in Loop, Fire(k) \/ ScheduleFetch(k)
        PROVE  pc'[l] # "delete" /\ UNCHANGED <<redis, expires, mongo, now>>
    BY <1>0, <2>4, <2>5, <2>6, FireMoves, ScheduleFetchMoves DEF World
  <2>7. ASSUME SnapshotFetch \/ ChangesFetch \/ ChangesRead
        PROVE  pc'[l] # "delete" /\ UNCHANGED <<redis, expires, mongo, now>>
    <3>1. CASE SnapshotFetch
      BY <1>0, <2>4, <2>5, <3>1, LoopNames, SnapshotFetchMoves DEF World
    <3>2. CASE ChangesFetch
      BY <1>0, <2>4, <2>5, <3>2, LoopNames, ChangesFetchMoves DEF World
    <3>3. CASE ChangesRead
      BY <1>0, <2>4, <2>5, <3>3, LoopNames, ChangesReadMoves DEF World
    <3> QED
      BY <2>7, <3>1, <3>2, <3>3
  <2>8. ASSUME SnapshotWrite \/ ChangesWrite
        PROVE  /\ pc'[l] # "delete" /\ mongo' = mongo /\ now' = now
               /\ redis' # NoDoc /\ expires' = now + liveStateTTL
    <3>1. CASE SnapshotWrite
      <4>1. row["live-snapshot"] \in 1..at
        BY <1>0, <3>1, LoopNames, SnapshotWriteMoves DEF Typed, HandTyped, InHand
      <4>2. Doc(row["live-snapshot"]).fixture # 0
        BY <1>0, <4>1, DocTyped
      <4> QED
        BY <1>0, <2>1, <2>4, <3>1, <4>2, LoopNames, SnapshotWriteMoves DEF World
    <3>2. CASE ChangesWrite
      <4>1. merged.fixture # 0
        BY <1>0, <3>2, LoopNames, ChangesWriteMoves DEF Written
      <4> QED
        BY <1>0, <2>1, <2>4, <3>2, <4>1, LoopNames, ChangesWriteMoves DEF World
    <3> QED
      BY <2>8, <3>1, <3>2
  <2>9. CASE ModifyFetch
    BY <1>0, <2>1, <2>3, <2>4, <2>5, <2>9, ModifyFetchMoves DEF World
  <2>10. ~ModifyDelete
    BY <1>0, <2>2, ModifyDeleteMoves
  <2>11. ASSUME NEW k \in Loop, Upsert(k) PROVE pc'[l] # "delete" /\ mongo' # NoDoc
    <3>1. pc[k] = "upsert" /\ Returned(k) /\ mongo' = Upserted(k)
      BY <1>0, <2>11, UpsertMoves
    <3>2. row[k] \in 1..at
      BY <1>0, <3>1 DEF Typed, HandTyped, InHand
    <3>3. Upserted(k).fixture # 0
      BY <1>0, <3>1, <3>2, DocTyped DEF Written, Upserted
    <3> QED
      BY <1>0, <2>5, <3>1, <3>3
  <2>12. ASSUME NEW k \in Loop, CallFails(k) PROVE FALSE
    BY <1>0, <2>1, <2>12, CallFailsMoves
  <2>13. ~Restart
    BY <1>0, <2>1, RestartMoves
  <2>14. CASE Tick
    <3>1. /\ now' = now + 1 /\ Same(l) /\ mongo' = mongo
          /\ \/ redis # NoDoc /\ expires <= now + 1
             \/ redis' = redis /\ expires' = expires
      BY <1>0, <2>14, TickMoves
    <3> QED
      BY <1>0, <2>1, <2>2, <3>1 DEF Same
  <2>15. CASE UNCHANGED vars
    BY <2>2, <2>3, <2>15 DEF vars, loops, state
  <2>16. SnapshotWrite \/ ChangesWrite => expires' > changed' + 8
    BY <1>0, <2>1, <2>8, Constants
  <2> QED
    BY <1>2, <2>3, <2>6, <2>7, <2>8, <2>9, <2>10, <2>11, <2>12, <2>13, <2>14, <2>15, <2>16 DEF Next, Done
<1> QED
  BY <1>1, <1>2

LEMMA PollStep == TimeInv /\ TimeInv' /\ StoreInv /\ PollInv /\ [Next]_vars => PollInv'
<1> SUFFICES ASSUME TimeInv, TimeInv', StoreInv, PollInv, [Next]_vars, Promised'
             PROVE  PollInv'
  BY DEF PollInv
<1> DEFINE l == "live-changes"
           Class(p, s, d, r, n) ==
             /\ p = "idle"  => n = at' \/ d <= changed' + 7
             /\ p = "fetch" => n = at' \/ s <= changed' + 7
             /\ p \in {"read", "write"} /\ r = at' => n = at' \/ s <= changed' + 7
             /\ p = "upsert" /\ r = at' => n = at'
             /\ p \in {"read", "write", "upsert"} /\ r # at' => s <= changed' /\ d <= changed' + 6
<1>0. /\ Typed /\ LiveTypeOK /\ l \in Loop /\ now \in Int /\ changed \in Int /\ since[l] \in Int
      /\ due[l] \in Int /\ at \in Int /\ failure \in Int /\ OnClock(l) /\ Fresh(l) /\ Every[l] = 6
      /\ changed <= now /\ TwoPolls = 8 /\ Never = -1 /\ l \in Live
      /\ pc[l] # "refetch"
  BY LoopNames, Instants, Constants DEF TimeInv, Typed, Marks, Stages, Live
<1>1. SUFFICES Class(pc'[l], since'[l], due'[l], row'[l], published'.n)
  <2>1. changed' \in Int /\ since'[l] \in Int /\ due'[l] \in Int
    BY <1>0 DEF TimeInv, Typed, LiveTypeOK
  <2>2. ChangesEvery = 6 /\ Latency = 1
    BY Constants
  <2>3. \A t \in Int : Announced(t)' <=> published'.n = at' \/ t <= changed' + 7
    BY <2>1, <2>2 DEF Announced
  <2> QED
    BY <1>1, <2>1, <2>2, <2>3 DEF PollInv, InHand
<1>2. CASE Upstream
  <2>1. changed' = now /\ at' = at + 1 /\ Same(l)
    BY <1>0, <1>2, UpstreamMoves
  <2>2. InHand(l) => row[l] # at'
    BY <1>0, <2>1 DEF Typed, HandTyped
  <2>3. since[l] <= now /\ due[l] <= now + 6
    BY <1>0 DEF OnClock
  <2> QED
    BY <1>0, <2>1, <2>2, <2>3 DEF Same, InHand
<1>3. CASE ~Upstream
  <2>1. Promised /\ failure' = failure /\ changed' = changed /\ at' = at
    BY <1>3, PromisedStep
  <2>2. Truth.there /\ failure < changed
    BY <2>1 DEF Promised
  <2>3. /\ pc[l] = "idle"  => published.n = at \/ due[l] <= changed + 7
        /\ pc[l] = "fetch" => published.n = at \/ since[l] <= changed + 7
        /\ pc[l] \in {"read", "write"} /\ row[l] = at => published.n = at \/ since[l] <= changed + 7
        /\ pc[l] = "upsert" /\ row[l] = at => published.n = at
        /\ InHand(l) /\ row[l] # at => since[l] <= changed /\ due[l] <= changed + 6
    <3>1. ChangesEvery = 6 /\ Latency = 1
      BY Constants
    <3> QED
      BY <1>0, <2>1, <3>1 DEF PollInv, Announced
  <2>4. pc[l] # "idle" => now <= since[l] + 1 \/ now <= changed
    BY <1>0, <2>2, Deadlines DEF OnClock
  \* live-changes and its announcement are left alone, ...
  <2>5. ASSUME Same(l), published' = published
        PROVE  Class(pc'[l], since'[l], due'[l], row'[l], published'.n)
    BY <2>1, <2>3, <2>5 DEF Same, InHand
  \* ... or live-changes returns, having announced or missed the change.
  <2>6. ASSUME Returned(l), published' = published, InHand(l), row[l] = at => published.n = at
        PROVE  Class(pc'[l], since'[l], due'[l], row'[l], published'.n)
    <3>1. pc'[l] = "idle" /\ due'[l] = IF due[l] = -1 THEN now + 6 ELSE due[l]
      BY <1>0, <2>6 DEF Returned, Moved
    <3> QED
      BY <1>0, <2>1, <2>3, <2>4, <2>6, <3>1 DEF InHand
  <2>7. ASSUME NEW k \in Loop, k # l, NEW p, NEW s, NEW d, NEW r, Moved(k, p, s, d, r)
        PROVE  Same(l)
    BY <1>0, <2>7 DEF Moved
  <2>8. ASSUME NEW k \in Loop, k # l, Returned(k) PROVE Same(l)
    BY <2>7, <2>8 DEF Returned
  <2>9. ASSUME NEW k \in Loop, Fire(k)
        PROVE  Class(pc'[l], since'[l], due'[l], row'[l], published'.n)
    <3>1. CASE k # l
      BY <1>0, <2>5, <2>7, <2>9, <3>1, FireMoves
    <3>2. CASE k = l
      <4>1. pc[l] = "idle" /\ pc'[l] = "fetch" /\ since'[l] = now /\ published' = published
        BY <1>0, <2>9, <3>2, FireMoves DEF Moved
      <4>2. now <= due[l] \/ now <= failure + 1
        BY <1>0, <4>1 DEF OnClock
      <4> QED
        BY <1>0, <2>1, <2>2, <2>3, <4>1, <4>2
    <3> QED
      BY <3>1, <3>2
  <2>10. CASE SnapshotFetch \/ SnapshotWrite
    BY <1>0, <2>5, <2>7, <2>8, <2>10, LoopNames, SnapshotFetchMoves, SnapshotWriteMoves
  <2>11. CASE ChangesFetch
    <3>1. pc[l] = "fetch" /\ published' = published
      BY <1>0, <2>11, ChangesFetchMoves
    <3>2. CASE InWindow(changed) /\ Moved(l, "read", since[l], due[l], at)
      <4>1. pc'[l] = "read" /\ since'[l] = since[l] /\ row'[l] = at
        BY <3>2 DEF Moved
      <4> QED
        BY <2>1, <2>3, <3>1, <4>1
    <3>3. CASE ~InWindow(changed) /\ Returned(l)
      <4>1. now > changed + 8
        <5>1. Never <= failure
          BY DEF TimeInv, Marks
        <5> QED
          BY <1>0, <2>2, <3>3, <5>1, Constants DEF InWindow
      <4>2. published.n = at
        BY <1>0, <2>3, <2>4, <3>1, <4>1
      <4>3. pc'[l] = "idle"
        BY <3>3 DEF Returned, Moved
      <4> QED
        BY <2>1, <3>1, <4>2, <4>3
    <3> QED
      BY <1>0, <2>2, <2>11, <3>2, <3>3, ChangesFetchMoves
  <2>12. CASE ChangesRead
    <3>1. pc[l] = "read" /\ published' = published
      BY <1>0, <2>12, ChangesReadMoves
    <3>2. CASE Moved(l, "write", since[l], due[l], row[l])
      <4>1. pc'[l] = "write" /\ since'[l] = since[l] /\ due'[l] = due[l] /\ row'[l] = row[l]
        BY <3>2 DEF Moved
      <4> QED
        BY <2>1, <2>3, <3>1, <4>1 DEF InHand
    <3>3. CASE Returned(l) /\ redis = NoDoc /\ mongo = NoDoc
      <4>1. now > changed + 8
        BY <1>0, <2>1, <3>3 DEF StoreInv
      <4>2. row[l] = at => published.n = at
        BY <1>0, <2>3, <2>4, <3>1, <4>1
      <4> QED
        BY <2>6, <3>1, <3>3, <4>2 DEF InHand
    <3>4. failure # now
      BY <1>0, <2>2
    <3> QED
      BY <1>0, <2>1, <2>12, <3>2, <3>3, <3>4, ChangesReadMoves
  <2>13. CASE ChangesWrite
    <3>1. /\ pc[l] = "write" /\ Moved(l, "upsert", since[l], due[l], row[l])
          /\ published'.n = row[l]
      BY <1>0, <2>13, ChangesWriteMoves
    <3>2. pc'[l] = "upsert" /\ since'[l] = since[l] /\ due'[l] = due[l] /\ row'[l] = row[l]
      BY <3>1 DEF Moved
    <3> QED
      BY <2>1, <2>3, <3>1, <3>2 DEF InHand
  <2>14. CASE ModifyFetch
    BY <1>0, <2>5, <2>7, <2>8, <2>14, LoopNames, ModifyFetchMoves
  <2>15. CASE ModifyDelete
    BY <1>0, <2>5, <2>8, <2>15, LoopNames, ModifyDeleteMoves
  <2>16. ASSUME NEW k \in Loop, ScheduleFetch(k)
         PROVE  Class(pc'[l], since'[l], due'[l], row'[l], published'.n)
    <3>1. k # l
      BY <1>0, <2>16, ScheduleFetchMoves
    <3> QED
      BY <1>0, <2>5, <2>7, <2>8, <2>16, <3>1, ScheduleFetchMoves
  <2>17. ASSUME NEW k \in Loop, Upsert(k)
         PROVE  Class(pc'[l], since'[l], due'[l], row'[l], published'.n)
    <3>1. pc[k] = "upsert" /\ Returned(k) /\ published' = published
      BY <1>0, <2>17, UpsertMoves
    <3>2. CASE k = l
      BY <2>3, <2>6, <3>1, <3>2 DEF InHand
    <3> QED
      BY <2>5, <2>8, <3>1, <3>2
  <2>18. ASSUME NEW k \in Loop, CallFails(k) PROVE FALSE
    BY <1>0, <2>1, <2>2, <2>18, CallFailsMoves
  <2>19. ~Restart
    BY <1>0, <2>1, <2>2, RestartMoves
  <2>20. CASE Tick
    BY <1>0, <2>5, <2>20, TickMoves
  <2>21. CASE UNCHANGED vars
    BY <2>5, <2>21 DEF vars, loops, Same
  <2> QED
    BY <1>3, <2>9, <2>10, <2>11, <2>12, <2>13, <2>14, <2>15, <2>16, <2>17, <2>18, <2>19, <2>20,
       <2>21 DEF Next, Done
<1> QED
  BY <1>2, <1>3

GapInv == TimeInv /\ Written /\ StoreInv /\ PollInv

LEMMA GapInit == Init => GapInv
<1> SUFFICES ASSUME Init PROVE GapInv
  OBVIOUS
<1>1. TimeInv
  BY TimeInit
<1>2. ~Promised
  BY DEF Init, Promised
<1>3. mongo # NoDoc => mongo.fixture # 0
  BY <1>1, DocTyped DEF Init, TimeInv, Typed
<1>4. Written
  BY <1>3, LoopNames DEF Init, Written
<1> QED
  BY <1>1, <1>2, <1>4 DEF GapInv, StoreInv, PollInv

\* GapFree holds for every story, intervals of the slow loops and trouble: whatever the other
\* loops do to the stored match meanwhile, a change is announced within two polls of the
\* delta feed (syncLiveChanges, loop).
THEOREM GapFreeHolds == Spec => []GapFree
<1>1. GapInv /\ [Next]_vars => GapInv'
  BY TimeStep, WrittenStep, StoreStep, PollStep DEF GapInv, TimeInv
<1>2. GapInv => GapFree
  <2> SUFFICES ASSUME GapInv, Promised, now - changed > TwoPolls PROVE published.n = at
    BY DEF GapFree, Promised
  <2> DEFINE l == "live-changes"
  <2>1. /\ Typed /\ l \in Loop /\ OnClock(l) /\ l \in Live /\ pc[l] \in Stages(l)
        /\ now \in Int /\ changed \in Int /\ failure \in Int /\ since[l] \in Int /\ due[l] \in Int
        /\ TwoPolls = 8 /\ failure < changed
    BY LoopNames, Instants, Constants DEF GapInv, TimeInv, Live, Promised
  <2>2. pc[l] # "idle" => changed + 7 < since[l]
    BY <2>1, Deadlines DEF OnClock, Stages
  <2>3. pc[l] = "idle" => changed + 7 < due[l]
    BY <2>1 DEF OnClock
  <2> QED
    BY <2>1, <2>2, <2>3, Constants DEF GapInv, PollInv, Announced, InHand, Stages
<1> QED
  BY GapInit, <1>1, <1>2, PTL DEF Spec

(***************************************************************************)
(* HalfAnnounced.                                                          *)
(***************************************************************************)
\* A row in hand was there before, or has just been fetched.
LEMMA HandStep ==
  ASSUME Typed, [Next]_vars, NEW l \in Loop, InHand(l)'
  PROVE  \/ InHand(l) /\ row'[l] = row[l] /\ since'[l] = since[l]
         \/ row'[l] = at /\ at' = at
<1>0. LiveTypeOK
  BY DEF Typed
<1>1. ASSUME NEW k \in Loop, NEW p, NEW s, NEW d, NEW r, Moved(k, p, s, d, r),
             \/ p \notin {"read", "write", "upsert"}
             \/ InHand(k) /\ r = row[k] /\ s = since[k]
             \/ r = at /\ at' = at
      PROVE  \/ InHand(l) /\ row'[l] = row[l] /\ since'[l] = since[l]
             \/ row'[l] = at /\ at' = at
  BY <1>1 DEF Moved, Same, InHand
<1>2. ASSUME NEW k \in Loop, Returned(k)
      PROVE  InHand(l) /\ row'[l] = row[l] /\ since'[l] = since[l]
  <2>1. k # l /\ Same(l)
    BY <1>2 DEF Returned, Moved, InHand
  <2> QED
    BY <2>1 DEF Same, InHand
<1>3. ASSUME NEW k \in Loop, Fire(k) \/ Upsert(k) \/ CallFails(k) \/ ScheduleFetch(k)
      PROVE  \/ InHand(l) /\ row'[l] = row[l] /\ since'[l] = since[l]
             \/ row'[l] = at /\ at' = at
  <2>1. CASE Fire(k)
    BY <1>0, <1>1, <2>1, FireMoves
  <2>2. CASE Upsert(k) \/ CallFails(k)
    BY <1>0, <1>2, <2>2, UpsertMoves, CallFailsMoves
  <2>3. CASE ScheduleFetch(k)
    BY <1>0, <1>1, <1>2, <2>3, ScheduleFetchMoves DEF World
  <2> QED
    BY <1>3, <2>1, <2>2, <2>3
<1>4. CASE SnapshotFetch
  BY <1>0, <1>1, <1>2, <1>4, LoopNames, SnapshotFetchMoves DEF World
<1>5. CASE SnapshotWrite
  BY <1>0, <1>1, <1>5, LoopNames, SnapshotWriteMoves DEF InHand
<1>6. CASE ChangesFetch
  BY <1>0, <1>1, <1>2, <1>6, LoopNames, ChangesFetchMoves DEF World
<1>7. CASE ChangesRead
  BY <1>0, <1>1, <1>2, <1>7, LoopNames, ChangesReadMoves DEF InHand
<1>8. CASE ChangesWrite
  BY <1>0, <1>1, <1>8, LoopNames, ChangesWriteMoves DEF InHand
<1>9. CASE ModifyFetch
  BY <1>0, <1>1, <1>2, <1>9, LoopNames, ModifyFetchMoves
<1>10. CASE ModifyDelete
  BY <1>0, <1>2, <1>10, LoopNames, ModifyDeleteMoves
<1>11. ~Restart
  BY <1>0, RestartMoves DEF InHand
<1>12. CASE Tick \/ Upstream
  BY <1>0, <1>12, TickMoves, UpstreamMoves DEF Same, InHand
<1>13. CASE UNCHANGED vars
  BY <1>13 DEF vars, loops, InHand
<1> QED
  BY <1>3, <1>4, <1>5, <1>6, <1>7, <1>8, <1>9, <1>10, <1>11, <1>12, <1>13 DEF Next, Done

\* live-changes has read nothing yet, or has just fetched.
LEMMA DeltaStep ==
  ASSUME Typed, [Next]_vars, pc'["live-changes"] = "read"
  PROVE  \/ /\ pc["live-changes"] = "read" /\ delta' = delta
            /\ row'["live-changes"] = row["live-changes"]
         \/ ChangesFetch /\ delta' \in FeedRows
<1> DEFINE l == "live-changes"
<1>0. LiveTypeOK /\ l \in Loop
  BY LoopNames DEF Typed
<1>1. ASSUME NEW k \in Loop, NEW p, NEW s, NEW d, NEW r, Moved(k, p, s, d, r), k # l \/ p # "read"
      PROVE  pc[l] = "read" /\ row'[l] = row[l] /\ k # l
  BY <1>0, <1>1 DEF Moved, Same
<1>2. ASSUME NEW k \in Loop, Returned(k)
      PROVE  pc[l] = "read" /\ row'[l] = row[l] /\ k # l
  BY <1>1, <1>2 DEF Returned
<1>3. ASSUME NEW k \in Loop, Fire(k) \/ Upsert(k) \/ CallFails(k) \/ ScheduleFetch(k)
      PROVE  pc[l] = "read" /\ row'[l] = row[l] /\ delta' = delta
  BY <1>0, <1>1, <1>2, <1>3, FireMoves, UpsertMoves, CallFailsMoves, ScheduleFetchMoves
<1>4. CASE SnapshotFetch \/ SnapshotWrite
  BY <1>0, <1>1, <1>2, <1>4, LoopNames, SnapshotFetchMoves, SnapshotWriteMoves
<1>5. CASE ChangesFetch
  BY <1>0, <1>2, <1>5, ChangesFetchMoves
<1>6. ~ChangesRead /\ ~ChangesWrite
  BY <1>0, <1>1, <1>2, ChangesReadMoves, ChangesWriteMoves
<1>7. CASE ModifyFetch \/ ModifyDelete
  BY <1>0, <1>1, <1>2, <1>7, LoopNames, ModifyFetchMoves, ModifyDeleteMoves
<1>8. ~Restart
  BY <1>0, RestartMoves
<1>9. CASE Tick \/ Upstream
  BY <1>0, <1>9, TickMoves, UpstreamMoves DEF Same
<1>10. CASE UNCHANGED vars
  BY <1>10 DEF vars, loops
<1> QED
  BY <1>3, <1>4, <1>5, <1>6, <1>7, <1>8, <1>9, <1>10 DEF Next, Done

\* A change upstream opens a new half, or adds to this one.
LEMMA HalfGoesOn ==
  ASSUME Typed, Upstream
  PROVE  \/ /\ half' = now
            /\ \A i \in 1..at : i \notin ThisHalf'
         \/ /\ half' = half /\ Truth'.half = Truth.half
            /\ \A i \in 1..at : i \in ThisHalf' <=> i \in ThisHalf
<1>0. at \in 1..Len(story) /\ at \in Int /\ at' = at + 1 /\ story' = story
  BY UpstreamMoves DEF Typed, LiveTypeOK
<1>1. half' = IF story[at + 1].half # Truth.half THEN now ELSE half
  BY UpstreamMoves DEF Typed
<1>2. CASE story[at + 1].half # Truth.half
  <2>1. ASSUME NEW i \in 1..at, i \in ThisHalf' PROVE FALSE
    <3>1. at \in i..at' /\ at' \in i..at'
      BY <1>0
    <3>2. story[at].half = story[at + 1].half
      BY <1>0, <2>1, <3>1 DEF ThisHalf, Truth
    <3> QED
      BY <1>2, <3>2 DEF Truth
  <2> QED
    BY <1>1, <1>2, <2>1
<1>3. CASE story[at + 1].half = Truth.half
  <2>1. Truth'.half = Truth.half
    BY <1>0, <1>3 DEF Truth
  <2>2. ASSUME NEW i \in 1..at PROVE i \in ThisHalf' <=> i \in ThisHalf
    <3>1. i..at' = (i..at) \cup {at + 1} /\ i \in 1..at'
      BY <1>0
    <3> QED
      BY <1>0, <1>3, <2>1, <3>1 DEF ThisHalf
  <2> QED
    BY <1>1, <1>3, <2>1, <2>2
<1> QED
  BY <1>2, <1>3

\* A row in hand is of this half, or was fetched before it began; the delta carries the start
\* of the half while it is in the window of the feed.
RowInv ==
  LET l == "live-changes" IN
  /\ published.n \in 0..at
  /\ half = Never => \A i \in 1..at : story[i].half = Truth.half
  /\ \A k \in Loop : InHand(k) => row[k] \in ThisHalf \/ since[k] <= half
  /\ pc[l] = "read" /\ row[l] \in ThisHalf =>
       \/ delta.start = Truth.half
       \/ delta.start = 0 /\ (half = Never \/ now > half + FeedWindow)

LEMMA PublishedStep ==
  ASSUME Typed, [Next]_vars
  PROVE  published' = published \/ ChangesWrite
<1>0. LiveTypeOK
  BY DEF Typed
<1>1. ASSUME NEW l \in Loop, Fire(l) \/ Upsert(l) \/ CallFails(l) \/ ScheduleFetch(l)
      PROVE  published' = published
  BY <1>0, <1>1, FireMoves, UpsertMoves, CallFailsMoves, ScheduleFetchMoves
<1>2. ASSUME SnapshotFetch \/ SnapshotWrite \/ ChangesFetch \/ ChangesRead
             \/ ModifyFetch \/ ModifyDelete \/ Restart
      PROVE  published' = published
  BY <1>0, <1>2, SnapshotFetchMoves, SnapshotWriteMoves, ChangesFetchMoves, ChangesReadMoves,
     ModifyFetchMoves, ModifyDeleteMoves, RestartMoves
<1>3. CASE Tick \/ Upstream
  BY <1>0, <1>3, TickMoves, UpstreamMoves
<1>4. CASE UNCHANGED vars
  BY <1>4 DEF vars
<1> QED
  BY <1>1, <1>2, <1>3, <1>4 DEF Next, Done

LEMMA RowStep == TimeInv /\ TimeInv' /\ RowInv /\ [Next]_vars => RowInv'
<1> SUFFICES ASSUME TimeInv, TimeInv', RowInv, [Next]_vars PROVE RowInv'
  OBVIOUS
<1> DEFINE l == "live-changes"
<1>0. /\ Typed /\ LiveTypeOK /\ l \in Loop /\ now \in Int /\ half \in Int /\ at \in Int
      /\ at \in 1..Len(story) /\ FeedWindow = 8 /\ Never = -1 /\ now >= 0
      /\ \A k \in Loop : since[k] \in Int /\ since[k] <= now
  BY LoopNames, Instants, Constants DEF TimeInv, Typed, OnClock
<1>1. now' = now \/ now' = now + 1
  BY <1>0, NextMoves, TickMoves
<1>2. at \in ThisHalf
  BY <1>0 DEF ThisHalf, Truth
<1>3. published'.n \in 0..at
  <2>1. CASE ChangesWrite
    BY <1>0, <2>1, ChangesWriteMoves DEF Typed, HandTyped, InHand
  <2> QED
    BY <1>0, <2>1, PublishedStep DEF RowInv
<1>4. CASE Upstream
  <2>1. /\ at' = at + 1 /\ story' = story /\ now' = now
        /\ half' = IF story[at + 1].half # Truth.half THEN now ELSE half
        /\ Same(l) /\ delta' = delta
    BY <1>0, <1>4, UpstreamMoves
  <2>2. \/ half' = now /\ \A i \in 1..at : i \notin ThisHalf'
        \/ /\ half' = half /\ Truth'.half = Truth.half
           /\ \A i \in 1..at : i \in ThisHalf' <=> i \in ThisHalf
    BY <1>0, <1>4, HalfGoesOn
  <2>3. half' = Never => \A i \in 1..at' : story'[i].half = Truth'.half
    BY <1>0, <2>1, <2>2 DEF RowInv, Truth
  <2>4. ASSUME NEW k \in Loop, InHand(k)' PROVE row'[k] \in ThisHalf' \/ since'[k] <= half'
    <3>1. InHand(k) /\ row'[k] = row[k] /\ since'[k] = since[k]
      BY <1>0, <2>1, <2>4, HandStep
    <3>2. row[k] \in 1..at
      BY <1>0, <3>1 DEF Typed, HandTyped
    <3> QED
      BY <1>0, <2>2, <3>1, <3>2 DEF RowInv
  <2>5. pc'[l] = "read" /\ row'[l] \in ThisHalf' =>
          \/ delta'.start = Truth'.half
          \/ delta'.start = 0 /\ (half' = Never \/ now' > half' + FeedWindow)
    <3>1. pc[l] = "read" => row[l] \in 1..at
      BY <1>0 DEF Typed, HandTyped, InHand
    <3> QED
      BY <2>1, <2>2, <3>1 DEF RowInv, Same
  <2> QED
    BY <1>0, <1>3, <2>1, <2>3, <2>4, <2>5 DEF RowInv
<1>5. CASE ~Upstream
  <2>1. UNCHANGED <<story, at, half, changed>>
    BY <1>0, <1>5, NextMoves
  <2>2. ThisHalf' = ThisHalf /\ Truth' = Truth
    BY <2>1 DEF ThisHalf, Truth
  <2>3. ASSUME NEW k \in Loop, InHand(k)' PROVE row'[k] \in ThisHalf' \/ since'[k] <= half'
    BY <1>0, <1>2, <2>1, <2>2, <2>3, HandStep DEF RowInv
  <2>4. ASSUME pc'[l] = "read", row'[l] \in ThisHalf'
        PROVE  \/ delta'.start = Truth'.half
               \/ delta'.start = 0 /\ (half' = Never \/ now' > half' + FeedWindow)
    <3>1. CASE ChangesFetch /\ delta' \in FeedRows
      <4>1. delta'.start = IF InWindow(half) THEN Truth.half ELSE 0
        BY <3>1 DEF FeedRows
      <4>2. now' = now
        BY <1>0, <3>1, ChangesFetchMoves DEF World
      <4> QED
        BY <1>0, <2>1, <2>2, <4>1, <4>2 DEF InWindow
    <3>2. CASE pc[l] = "read" /\ delta' = delta /\ row'[l] = row[l]
      <4>1. row[l] \in ThisHalf
        BY <2>2, <2>4, <3>2
      <4> QED
        BY <1>0, <1>1, <2>1, <2>2, <3>2, <4>1 DEF RowInv
    <3> QED
      BY <1>0, <2>4, <3>1, <3>2, DeltaStep
  <2> QED
    BY <1>3, <2>1, <2>2, <2>3, <2>4 DEF RowInv
<1> QED
  BY <1>4, <1>5

\* Every match of this half is there, and no trouble struck since the half began.
HalfClear ==
  (\A i \in ThisHalf : story[i].there) /\ (half = Never \/ (half > failure /\ Truth.half # 0))

Right(m) == m = NoDoc \/ m.half = Truth.half

\* The run of live-changes that puts the start of the half right has begun in time, or is due.
HalfSoon ==
  LET l == "live-changes"
      begins(t) == t <= half + ChangesEvery + Latency
  IN /\ half # Never
     /\ \/ now <= half + Latency
        \/ pc[l] = "idle" /\ begins(due[l])
        \/ pc[l] \in {"fetch", "read", "write"} /\ begins(since[l])
        \/ /\ pc[l] = "upsert" /\ begins(since[l])
           /\ Right(redis) \/ (since[l] <= half + Latency /\ begins(due[l]))

HalfInv ==
  LET l == "live-changes" IN
  HalfClear => /\ published.n \in ThisHalf => published.half = Truth.half
               /\ pc[l] \in {"write", "upsert"} /\ row[l] \in ThisHalf => merged.half = Truth.half
               /\ (Right(redis) /\ Right(mongo)) \/ HalfSoon

\* A step that is no change upstream keeps the half clear only if it was, and strikes no
\* trouble once a half began.
LEMMA ClearStep ==
  ASSUME TimeInv, [Next]_vars, ~Upstream, HalfClear', TimeInv'
  PROVE  /\ HalfClear /\ UNCHANGED <<story, at, changed, half>>
         /\ ThisHalf' = ThisHalf /\ Truth' = Truth
         /\ half # Never => failure' = failure /\ failure # now /\ failure < half
<1>1. Typed /\ LiveTypeOK
  BY DEF TimeInv, Typed
<1>2. /\ failure' = failure \/ failure' = now
      /\ UNCHANGED <<story, at, changed, half>>
  BY <1>1, NextMoves
<1>3. ThisHalf' = ThisHalf /\ Truth' = Truth
  BY <1>2 DEF ThisHalf, Truth
<1>4. half <= now /\ half \in Int /\ now \in Int /\ failure \in Int /\ failure <= now
  BY <1>1, Instants DEF TimeInv, Marks
<1>5. half # Never => failure' = failure /\ failure < half
  BY <1>2, <1>4 DEF HalfClear
<1> QED
  BY <1>2, <1>3, <1>4, <1>5 DEF HalfClear

\* What the upsert and the live state of a run become is right, if it is of this half or the
\* half has not changed; otherwise the half has just begun.
LEMMA HandRight ==
  ASSUME TimeInv, RowInv, HalfInv, HalfClear, NEW l \in Loop, InHand(l),
         l = "live-changes" => pc[l] \in {"write", "upsert"},
         half # Never => failure < half
  PROVE  /\ row[l] \in ThisHalf => Upserted(l).half = Truth.half
         /\ row[l] \notin ThisHalf => half # Never /\ now <= half + 1 /\ since[l] <= half
<1>1. /\ Typed /\ LiveTypeOK /\ row[l] \in 1..at /\ OnClock(l) /\ now \in Int /\ since[l] \in Int
      /\ half \in Int /\ failure \in Int
  BY Instants DEF TimeInv, Typed, HandTyped
<1>2. row[l] \in ThisHalf => Doc(row[l]).half = Truth.half
  <2>1. ASSUME row[l] \in ThisHalf PROVE story[row[l]].half = Truth.half
    <3>1. row[l] \in row[l]..at
      BY <1>1, LoopNames
    <3> QED
      BY <2>1, <3>1 DEF ThisHalf
  <2> QED
    BY <1>1, <2>1, DocTyped
<1>3. row[l] \in ThisHalf => Upserted(l).half = Truth.half
  BY <1>2 DEF Upserted, HalfInv
<1>4. ASSUME row[l] \notin ThisHalf PROVE half # Never /\ now <= half + 1 /\ since[l] <= half
  <2>1. half # Never
    <3>1. SUFFICES ASSUME half = Never PROVE row[l] \in ThisHalf
      BY <1>4
    <3>2. \A i \in 1..at : story[i].half = Truth.half
      BY <3>1 DEF RowInv
    <3> QED
      BY <1>1, <3>2, LoopNames DEF ThisHalf
  <2>2. since[l] <= half
    BY <1>4 DEF RowInv
  <2>3. now <= since[l] + 1 \/ now <= failure + 1
    BY <1>1, Deadlines DEF OnClock, InHand
  <2> QED
    BY <1>1, <2>1, <2>2, <2>3
<1> QED
  BY <1>3, <1>4

\* The state a run of live-changes merges onto has the start of the half right, when its row
\* does not.
LEMMA ReadRight ==
  ASSUME TimeInv, RowInv, HalfInv, HalfClear, pc["live-changes"] = "read",
         row["live-changes"] \in ThisHalf, NEW m \in {redis, mongo}, m # NoDoc,
         half # Never => failure < half
  PROVE  applyChange(m, delta).half = Truth.half
<1> DEFINE l == "live-changes"
<1>1. /\ Typed /\ LiveTypeOK /\ l \in Loop /\ OnClock(l) /\ now \in Int /\ since[l] \in Int
      /\ half \in Int /\ failure \in Int
  BY Instants, LoopNames DEF TimeInv, Typed
<1>2. applyChange(m, delta).half = IF delta.start # 0 THEN delta.start ELSE m.half
  BY <1>1, Merged DEF LiveTypeOK, NewHalf
<1>3. CASE delta.start = Truth.half /\ Truth.half # 0
  BY <1>2, <1>3
<1>4. CASE delta.start = 0 /\ (half = Never \/ now > half + 8)
  <2>1. now <= since[l] + 1 \/ now <= failure + 1
    BY <1>1, Deadlines DEF OnClock
  <2>2. ~HalfSoon
    BY <1>1, <1>4, <2>1, Constants DEF HalfSoon
  <2>3. Right(m)
    BY <2>2 DEF HalfInv
  <2> QED
    BY <1>2, <1>4, <2>3 DEF Right
<1> QED
  BY <1>3, <1>4, Constants DEF RowInv, HalfClear

\* What live-changes is about to announce was there, or has just been merged.
LEMMA MergeStep ==
  ASSUME Typed, [Next]_vars, NEW l, l = "live-changes", pc'[l] \in {"write", "upsert"}
  PROVE  /\ row'[l] = row[l]
         /\ \/ pc[l] \in {"write", "upsert"} /\ merged' = merged
            \/ /\ pc[l] = "read" /\ ~Tick
               /\ \E m \in {redis, mongo} : m # NoDoc /\ merged' = applyChange(m, delta)
<1>0. LiveTypeOK /\ l \in Loop
  BY LoopNames DEF Typed
<1>1. ASSUME NEW k \in Loop, NEW p, NEW s, NEW d, NEW r, Moved(k, p, s, d, r),
             k # l \/ p \notin {"write", "upsert"}
      PROVE  pc[l] \in {"write", "upsert"} /\ row'[l] = row[l] /\ k # l
  BY <1>0, <1>1 DEF Moved, Same
<1>2. ASSUME NEW k \in Loop, Returned(k)
      PROVE  pc[l] \in {"write", "upsert"} /\ row'[l] = row[l] /\ k # l
  BY <1>1, <1>2 DEF Returned
<1>3. ASSUME NEW k \in Loop, Fire(k) \/ Upsert(k) \/ CallFails(k) \/ ScheduleFetch(k)
      PROVE  pc[l] \in {"write", "upsert"} /\ row'[l] = row[l] /\ merged' = merged
  BY <1>0, <1>1, <1>2, <1>3, FireMoves, UpsertMoves, CallFailsMoves, ScheduleFetchMoves
<1>4. CASE SnapshotFetch \/ SnapshotWrite
  BY <1>0, <1>1, <1>2, <1>4, LoopNames, SnapshotFetchMoves, SnapshotWriteMoves
<1>5. ~ChangesFetch
  BY <1>0, <1>1, <1>2, ChangesFetchMoves
<1>6. CASE ChangesRead
  <2>1. pc[l] = "read" /\ now' = now
    BY <1>0, <1>6, ChangesReadMoves DEF World
  <2>2. ~Tick
    <3>1. now' = now + 1 => FALSE
      BY <1>0, <2>1 DEF LiveTypeOK
    <3> QED
      BY <1>0, <3>1, TickMoves
  <2>3. PICK m \in {redis, mongo} :
          \/ m = NoDoc /\ Returned(l)
          \/ /\ m # NoDoc /\ Moved(l, "write", since[l], due[l], row[l])
             /\ merged' = applyChange(m, delta)
    BY <1>0, <1>6, ChangesReadMoves
  <2>4. ~Returned(l)
    BY <1>0, <1>2
  <2>5. m # NoDoc /\ row'[l] = row[l] /\ merged' = applyChange(m, delta)
    BY <2>3, <2>4 DEF Moved
  <2> QED
    BY <2>1, <2>2, <2>5
<1>7. CASE ChangesWrite
  <2>1. pc[l] = "write" /\ row'[l] = row[l] /\ merged' = merged
    BY <1>0, <1>7, ChangesWriteMoves DEF Moved
  <2> QED
    BY <2>1
<1>8. CASE ModifyFetch \/ ModifyDelete
  BY <1>0, <1>1, <1>2, <1>8, LoopNames, ModifyFetchMoves, ModifyDeleteMoves
<1>9. ~Restart
  BY <1>0, RestartMoves
<1>10. CASE Tick \/ Upstream
  BY <1>0, <1>10, TickMoves, UpstreamMoves DEF Same
<1>11. CASE UNCHANGED vars
  BY <1>11 DEF vars, loops
<1> QED
  BY <1>3, <1>4, <1>5, <1>6, <1>7, <1>8, <1>9, <1>10, <1>11 DEF Next, Done

\* What a step writes to MongoDB.
LEMMA MongoWrites ==
  ASSUME Typed, [Next]_vars
  PROVE  \/ mongo' = mongo
         \/ mongo' = NoDoc
         \/ now' = now /\ \E l \in Loop : pc[l] = "upsert" /\ mongo' = Upserted(l)
<1>0. LiveTypeOK
  BY DEF Typed
<1>1. ASSUME NEW l \in Loop, Fire(l) \/ ScheduleFetch(l) PROVE mongo' = mongo
  BY <1>0, <1>1, FireMoves, ScheduleFetchMoves
<1>2. ASSUME NEW l \in Loop, Upsert(l) \/ CallFails(l)
      PROVE  /\ now' = now
             /\ mongo' = mongo \/ (pc[l] = "upsert" /\ mongo' = Upserted(l))
  BY <1>0, <1>2, UpsertMoves, CallFailsMoves DEF World
<1>3. ASSUME SnapshotFetch \/ SnapshotWrite \/ ChangesFetch \/ ChangesRead \/ ChangesWrite
             \/ ModifyFetch \/ ModifyDelete \/ Restart \/ Tick \/ Upstream
      PROVE  mongo' = mongo \/ mongo' = NoDoc
  BY <1>0, <1>3, SnapshotFetchMoves, SnapshotWriteMoves, ChangesFetchMoves, ChangesReadMoves,
     ChangesWriteMoves, ModifyFetchMoves, ModifyDeleteMoves, RestartMoves, TickMoves, UpstreamMoves
<1>4. CASE UNCHANGED vars
  BY <1>4 DEF vars, state
<1> QED
  BY <1>1, <1>2, <1>3, <1>4 DEF Next, Done

\* A write is right, unless the half has just begun.
LEMMA RightWrites ==
  ASSUME TimeInv, RowInv, HalfInv, HalfClear, [Next]_vars, half # Never => failure < half,
         ~(half # Never /\ now' <= half + 1)
  PROVE  (redis' = redis \/ Right(redis')) /\ (mongo' = mongo \/ Right(mongo'))
<1>0. Typed /\ LiveTypeOK
  BY DEF TimeInv, Typed
<1>1. mongo' = mongo \/ Right(mongo')
  <2>1. ASSUME NEW l \in Loop, pc[l] = "upsert", mongo' = Upserted(l), now' = now
        PROVE  Right(mongo')
    BY <2>1, HandRight DEF InHand, Right
  <2> QED
    BY <1>0, <2>1, MongoWrites DEF Right
<1>2. CASE SnapshotWrite
  <2> DEFINE l == "live-snapshot"
  <2>1. /\ l \in Loop /\ l # "live-changes" /\ pc[l] = "write" /\ now' = now
        /\ redis' = Doc(row[l]) \/ redis' = redis
    BY <1>0, <1>2, LoopNames, SnapshotWriteMoves DEF World
  <2>2. Upserted(l).half = Truth.half
    BY <2>1, HandRight DEF InHand
  <2> QED
    BY <1>1, <2>1, <2>2 DEF Upserted, Right
<1>3. CASE ChangesWrite
  <2> DEFINE l == "live-changes"
  <2>1. /\ l \in Loop /\ pc[l] = "write" /\ now' = now
        /\ redis' = merged \/ redis' = redis
    BY <1>0, <1>3, LoopNames, ChangesWriteMoves DEF World
  <2>2. Upserted(l).half = Truth.half
    BY <2>1, HandRight DEF InHand
  <2> QED
    BY <1>1, <2>1, <2>2 DEF Upserted, Right
<1>4. CASE Tick
  BY <1>0, <1>1, <1>4, TickMoves DEF Right
<1> QED
  BY <1>0, <1>1, <1>2, <1>3, <1>4, RedisWrites

\* The run that puts the start of the half right goes on, or has done so.
LEMMA HalfSoonStep ==
  ASSUME TimeInv, TimeInv', RowInv, HalfInv, HalfClear, [Next]_vars, ~Upstream, HalfSoon,
         failure' = failure, failure # now, failure < half, UNCHANGED half, Truth' = Truth,
         ~(now' <= half + 1)
  PROVE  (Right(redis') /\ Right(mongo')) \/ HalfSoon'
<1> DEFINE l == "live-changes"
           Goes(p, s, d) ==
             \/ p = "idle" /\ d <= half + 7
             \/ p \in {"fetch", "read", "write"} /\ s <= half + 7
             \/ /\ p = "upsert" /\ s <= half + 7
                /\ Right(redis') \/ (s <= half + 1 /\ d <= half + 7)
<1>0. /\ Typed /\ LiveTypeOK /\ l \in Loop /\ now \in Int /\ half \in Int /\ at \in Int
      /\ since[l] \in Int /\ due[l] \in Int /\ failure \in Int /\ changed \in Int
      /\ OnClock(l) /\ Every[l] = 6 /\ l \in Live /\ pc[l] \in Stages(l)
      /\ FeedWindow = 8 /\ ChangesEvery = 6 /\ Latency = 1 /\ Never = -1
      /\ -1 <= half /\ half <= changed /\ changed <= now /\ half # -1
  BY LoopNames, Instants, Constants DEF TimeInv, Typed, Marks, Live, HalfSoon
<1>1. SUFFICES ASSUME ~(Right(redis') /\ Right(mongo')) PROVE Goes(pc'[l], since'[l], due'[l])
  <2>1. Right(redis)' = Right(redis')
    BY DEF Right
  <2> QED
    BY <1>0, <1>1, <2>1 DEF HalfSoon
<1>2. (redis' = redis \/ Right(redis')) /\ (mongo' = mongo \/ Right(mongo'))
  BY <1>0, RightWrites
<1>3. pc[l] # "idle" => /\ now <= since[l] + 1 \/ now <= half
                        /\ due[l] # -1 => due[l] <= since[l] + 6
                        /\ due[l] = -1 => since[l] <= half
  BY <1>0, Deadlines DEF OnClock, Stages
<1>4. since[l] <= now /\ due[l] <= now + 6
  BY <1>0 DEF OnClock
<1>5. now <= half + 1 => Goes(pc[l], since[l], due[l])
  BY <1>0, <1>4 DEF Stages
<1>6. Goes(pc[l], since[l], due[l])
  BY <1>0, <1>2, <1>5 DEF HalfSoon
<1>7. ASSUME Same(l) PROVE Goes(pc'[l], since'[l], due'[l])
  BY <1>6, <1>7 DEF Same
<1>8. ASSUME NEW k \in Loop, k # l, NEW p, NEW s, NEW d, NEW r, Moved(k, p, s, d, r)
      PROVE  Same(l)
  BY <1>0, <1>8 DEF Moved
<1>9. ASSUME NEW k \in Loop, k # l, Returned(k) PROVE Same(l)
  BY <1>8, <1>9 DEF Returned
<1>t. ~Tick => half + 1 < now
  BY <1>0, NextMoves
<1>10. ASSUME NEW k \in Loop, Fire(k) PROVE Goes(pc'[l], since'[l], due'[l])
  <2>1. CASE k # l
    BY <1>0, <1>7, <1>8, <1>10, <2>1, FireMoves
  <2>2. CASE k = l
    <3>1. pc[l] = "idle" /\ pc'[l] = "fetch" /\ since'[l] = now
      BY <1>0, <1>10, <2>2, FireMoves DEF Moved
    <3>2. now <= due[l] \/ now <= failure + 1
      BY <1>0, <3>1 DEF OnClock
    <3> QED
      BY <1>0, <1>6, <3>1, <3>2
  <2> QED
    BY <2>1, <2>2
<1>11. CASE SnapshotFetch \/ SnapshotWrite
  BY <1>0, <1>7, <1>8, <1>9, <1>11, LoopNames, SnapshotFetchMoves, SnapshotWriteMoves
<1>12. CASE ChangesFetch
  <2>1. pc[l] = "fetch" /\ Truth.there
    <3>1. at \in ThisHalf
      BY <1>0 DEF LiveTypeOK, ThisHalf, Truth
    <3> QED
      BY <1>0, <1>12, <3>1, ChangesFetchMoves DEF HalfClear, Truth
  <2>2. InWindow(changed)
    <3>1. now <= half + 8
      BY <1>0, <1>3, <1>6, <2>1
    <3>2. changed # Never
      BY <1>0, Instants DEF TimeInv, Marks
    <3> QED
      BY <1>0, <3>1, <3>2 DEF InWindow
  <2>3. pc'[l] = "read" /\ since'[l] = since[l]
    BY <1>0, <1>12, <2>1, <2>2, ChangesFetchMoves DEF Moved
  <2> QED
    BY <1>6, <2>1, <2>3
<1>13. CASE ChangesRead
  <2>1. pc[l] = "read" /\ redis' = redis /\ mongo' = mongo
    BY <1>0, <1>13, ChangesReadMoves
  <2>2. ~(redis = NoDoc /\ mongo = NoDoc)
    BY <1>1, <2>1 DEF Right
  <2>3. pc'[l] = "write" /\ since'[l] = since[l]
    BY <1>0, <1>13, <2>2, ChangesReadMoves DEF Moved
  <2> QED
    BY <1>6, <2>1, <2>3
<1>14. CASE ChangesWrite
  <2>1. /\ pc[l] = "write" /\ Moved(l, "upsert", since[l], due[l], row[l]) /\ redis' = merged
    BY <1>0, <1>14, ChangesWriteMoves
  <2>2. pc'[l] = "upsert" /\ since'[l] = since[l] /\ due'[l] = due[l]
    BY <2>1 DEF Moved
  <2>3. CASE row[l] \in ThisHalf
    <3>1. Right(redis')
      BY <2>1, <2>3 DEF HalfInv, Right
    <3> QED
      BY <1>6, <2>1, <2>2, <3>1
  <2>4. CASE row[l] \notin ThisHalf
    <3>1. since[l] <= half
      BY <1>0, <2>1, <2>4 DEF RowInv, InHand
    <3> QED
      BY <1>0, <1>3, <1>6, <2>1, <2>2, <3>1
  <2> QED
    BY <2>3, <2>4
<1>15. CASE ModifyFetch \/ ModifyDelete
  BY <1>0, <1>7, <1>8, <1>9, <1>15, LoopNames, ModifyFetchMoves, ModifyDeleteMoves
<1>16. ASSUME NEW k \in Loop, ScheduleFetch(k) PROVE Goes(pc'[l], since'[l], due'[l])
  <2>1. k # l
    BY <1>0, <1>16, ScheduleFetchMoves
  <2> QED
    BY <1>0, <1>7, <1>8, <1>9, <1>16, <2>1, ScheduleFetchMoves
<1>17. ASSUME NEW k \in Loop, Upsert(k) PROVE Goes(pc'[l], since'[l], due'[l])
  <2>1. pc[k] = "upsert" /\ Returned(k) /\ mongo' = Upserted(k) /\ redis' = redis /\ ~Tick
    <3>1. now' = now + 1 => now' # now
      BY <1>0
    <3> QED
      BY <1>0, <1>17, <3>1, UpsertMoves, TickMoves DEF World
  <2>2. CASE k # l
    BY <1>7, <1>9, <2>1, <2>2
  <2>3. CASE k = l
    <3>1. pc'[l] = "idle" /\ due'[l] = IF due[l] = -1 THEN now + 6 ELSE due[l]
      BY <1>0, <2>1, <2>3 DEF Returned, Moved
    <3>2. row[l] \in ThisHalf
      BY <1>0, <1>t, <2>1, <2>3, HandRight DEF InHand
    <3>3. Right(mongo')
      BY <1>0, <2>1, <2>3, <3>2, HandRight DEF InHand, Right
    <3> QED
      BY <1>0, <1>1, <1>3, <1>6, <2>1, <2>3, <3>1, <3>3
  <2> QED
    BY <2>2, <2>3
<1>18. ASSUME NEW k \in Loop, CallFails(k) PROVE FALSE
  BY <1>0, <1>18, CallFailsMoves
<1>19. ~Restart
  BY <1>0, RestartMoves
<1>20. CASE Tick
  BY <1>0, <1>7, <1>20, TickMoves
<1>21. CASE UNCHANGED vars
  BY <1>7, <1>21 DEF vars, loops, Same
<1> QED
  BY <1>10, <1>11, <1>12, <1>13, <1>14, <1>15, <1>16, <1>17, <1>18, <1>19, <1>20, <1>21 DEF Next, Done

LEMMA HalfStep ==
  TimeInv /\ TimeInv' /\ RowInv /\ HalfInv /\ [Next]_vars => HalfInv'
<1> SUFFICES ASSUME TimeInv, TimeInv', RowInv, HalfInv, [Next]_vars, HalfClear'
             PROVE  HalfInv'
  BY DEF HalfInv
<1> DEFINE l == "live-changes"
<1>0. /\ Typed /\ LiveTypeOK /\ l \in Loop /\ now \in Int /\ half \in Int /\ at \in Int
      /\ since[l] \in Int /\ due[l] \in Int /\ failure \in Int /\ changed \in Int
      /\ OnClock(l) /\ Every[l] = 6 /\ l \in Live /\ pc[l] \in Stages(l)
      /\ FeedWindow = 8 /\ ChangesEvery = 6 /\ Latency = 1 /\ Never = -1
      /\ half <= changed /\ changed <= now
  BY LoopNames, Instants, Constants DEF TimeInv, Typed, Marks, Live
<1>1. CASE Upstream
  <2>1. /\ at' = at + 1 /\ story' = story /\ now' = now /\ published' = published
        /\ redis' = redis /\ mongo' = mongo /\ merged' = merged /\ failure' = failure /\ Same(l)
    BY <1>0, <1>1, UpstreamMoves
  <2>2. published.n \in 0..at /\ (pc[l] \in {"write", "upsert"} => row[l] \in 1..at)
    BY <1>0 DEF RowInv, Typed, HandTyped, InHand
  <2>3. 0 \notin ThisHalf'
    BY DEF ThisHalf
  <2>4. CASE half' = now /\ \A i \in 1..at : i \notin ThisHalf'
    <3>1. published'.n \notin ThisHalf'
      BY <1>0, <2>1, <2>2, <2>3, <2>4
    <3>2. pc'[l] \in {"write", "upsert"} => row'[l] \notin ThisHalf'
      BY <2>1, <2>2, <2>4 DEF Same
    <3>3. HalfSoon'
      <4>1. now >= 0
        BY <1>0, Instants
      <4> QED
        BY <1>0, <2>1, <2>4, <4>1 DEF HalfSoon
    <3> QED
      BY <3>1, <3>2, <3>3 DEF HalfInv
  <2>5. CASE /\ half' = half /\ Truth'.half = Truth.half
             /\ \A i \in 1..at : i \in ThisHalf' <=> i \in ThisHalf
    <3>1. HalfClear
      <4>1. ASSUME NEW i \in ThisHalf PROVE story[i].there
        <5>1. i \in 1..at
          BY DEF ThisHalf
        <5> QED
          BY <2>1, <2>5, <5>1 DEF HalfClear
      <4> QED
        BY <2>1, <2>5, <4>1 DEF HalfClear
    <3>2. /\ published'.n \in ThisHalf' => published'.half = Truth'.half
          /\ pc'[l] \in {"write", "upsert"} /\ row'[l] \in ThisHalf' => merged'.half = Truth'.half
      BY <1>0, <2>1, <2>2, <2>3, <2>5, <3>1 DEF HalfInv, Same
    <3>3. (Right(redis) => Right(redis)') /\ (Right(mongo) => Right(mongo)')
      BY <2>1, <2>5 DEF Right
    <3>4. HalfSoon => HalfSoon'
      BY <2>1, <2>5, <3>3 DEF HalfSoon, Same
    <3> QED
      BY <3>1, <3>2, <3>3, <3>4 DEF HalfInv
  <2> QED
    BY <1>0, <1>1, <2>4, <2>5, HalfGoesOn
<1>2. CASE ~Upstream
  <2>1. /\ HalfClear /\ UNCHANGED <<story, at, changed, half>>
        /\ ThisHalf' = ThisHalf /\ Truth' = Truth
        /\ half # Never => failure' = failure /\ failure # now /\ failure < half
    BY <1>2, ClearStep
  <2>2. /\ published.n \in ThisHalf => published.half = Truth.half
        /\ pc[l] \in {"write", "upsert"} /\ row[l] \in ThisHalf => merged.half = Truth.half
        /\ (Right(redis) /\ Right(mongo)) \/ HalfSoon
    BY <2>1 DEF HalfInv
  <2>3. Right(redis)' = Right(redis') /\ Right(mongo)' = Right(mongo')
    BY <2>1 DEF Right
  <2>4. pc'[l] \in {"write", "upsert"} /\ row'[l] \in ThisHalf' => merged'.half = Truth'.half
    BY <1>0, <2>1, <2>2, MergeStep, ReadRight
  <2>5. published'.n \in ThisHalf' => published'.half = Truth'.half
    <3>1. CASE ChangesWrite
      BY <1>0, <2>1, <2>2, <3>1, ChangesWriteMoves
    <3> QED
      BY <1>0, <2>1, <2>2, <3>1, PublishedStep
  <2>6. (Right(redis') /\ Right(mongo')) \/ HalfSoon'
    <3>1. CASE half # Never /\ now' <= half + 1
      BY <1>0, <2>1, <3>1 DEF HalfSoon
    <3>2. CASE ~(half # Never /\ now' <= half + 1)
      <4>1. CASE Right(redis) /\ Right(mongo)
        BY <2>1, <3>2, <4>1, RightWrites DEF Right
      <4>2. CASE HalfSoon
        <5>1. half # Never
          BY <4>2 DEF HalfSoon
        <5> QED
          BY <1>2, <2>1, <3>2, <4>2, <5>1, HalfSoonStep
      <4> QED
        BY <2>2, <4>1, <4>2
    <3> QED
      BY <3>1, <3>2
  <2> QED
    BY <2>3, <2>4, <2>5, <2>6 DEF HalfInv
<1> QED
  BY <1>1, <1>2

HalvesInv == TimeInv /\ RowInv /\ HalfInv

LEMMA HalvesInit == Init => HalvesInv
<1> SUFFICES ASSUME Init PROVE HalvesInv
  OBVIOUS
<1>1. TimeInv
  BY TimeInit
<1>2. RowInv
  <2>1. \A i \in 1..at : i = at
    BY DEF Init
  <2> QED
    BY <2>1, LoopNames DEF Init, RowInv, InHand, Truth
<1>3. Right(redis) /\ Right(mongo)
  <2>1. Doc(1).half = story[1].half
    BY <1>1, DocTyped DEF Init, TimeInv, Typed, LiveTypeOK
  <2> QED
    BY <2>1 DEF Init, Right, Truth
<1>4. HalfInv
  <2>1. published.n \notin ThisHalf
    BY DEF Init, ThisHalf
  <2> QED
    BY <1>3, <2>1, LoopNames DEF Init, HalfInv
<1> QED
  BY <1>1, <1>2, <1>4 DEF HalvesInv

\* HalfAnnounced holds for every story, interval of the slow loops and trouble: the feed
\* carries the start of a half for as long as another loop may put the old one back, so that
\* what live-changes merges from, and announces, has it right (matchFromChange, FeedWindow).
THEOREM HalfAnnouncedHolds == Spec => []HalfAnnounced
<1>1. HalvesInv /\ [Next]_vars => HalvesInv'
  BY TimeStep, RowStep, HalfStep DEF HalvesInv
<1>2. HalvesInv => HalfAnnounced
  BY DEF HalvesInv, HalfInv, HalfClear, HalfAnnounced
<1> QED
  BY HalvesInit, <1>1, <1>2, PTL DEF Spec
=============================================================================
