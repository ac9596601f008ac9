----------------------------- MODULE MatchMerge -----------------------------
(***************************************************************************)
(* What internal/service/mapper.go makes of a match: from a full row of    *)
(* thscore (livescores or schedule), and from a row of the delta feed      *)
(* merged onto the previous state.  A match is its fixture (league, teams, *)
(* kick-off, match date), the status, the start of the current half (0     *)
(* standing for none), the score and the knockout detail; cards, corners   *)
(* and the half-time score go where the score goes.  The live minute is a  *)
(* function of status and half and of the time, so it is left out.         *)
(***************************************************************************)
EXTENDS Integers

\* extraExplain: the tie's status, the aggregate after extra time, the shootout, the winner.
NoExplain == [status |-> 0, et |-> <<0, 0>>, pen |-> <<0, 0>>, winner |-> 0]
NoExtra   == [status |-> 0, pen |-> <<0, 0>>, winner |-> 0]

Explain == [status : Nat, et : Nat \X Nat, pen : Nat \X Nat, winner : 0..2]
Extra   == [status : Nat, pen : Nat \X Nat, winner : 0..2]
Score   == Nat \X Nat

Match == [fixture : Nat, status : Int, half : Nat, score : Score, extra : Extra]

\* start : the startTime of the row, 0 when it carries none.
Delta == [status : Int, start : Nat, score : Score, explain : Explain]

HasDetail(e) == e.status # 0 \/ e.pen # <<0, 0>> \/ e.winner # 0
hasScores(e) == e.et # <<0, 0>> \/ e.pen # <<0, 0>>
Promoted(e, score) == IF e.et # <<0, 0>> THEN e.et ELSE score

applyExtra(m, e) ==
  IF ~HasDetail(e) THEN m
  ELSE [m EXCEPT !.extra = [status |-> e.status, pen |-> e.pen, winner |-> e.winner],
                 !.score = Promoted(e, @)]

matchFromLivescore(row) ==
  applyExtra([fixture |-> row.fixture, status |-> row.status, half |-> row.half,
              score |-> row.score, extra |-> NoExtra],
             row.explain)

AtLeast(s, t) == s[1] >= t[1] /\ s[2] >= t[2]

\* The knockout detail of prev is kept unless the row carries scores of its own.
keepsDetail(prev, e) == prev.extra # NoExtra /\ ~(HasDetail(e) /\ hasScores(e))

\* The start of the half is forgotten when the row carries none: HalfAnnounced.
NewHalf_Bug(prev, ch) == ch.start
NewHalf(prev, ch) == IF ch.start # 0 THEN ch.start ELSE prev.half

applyChange(prev, ch) ==
  LET m == [fixture |-> prev.fixture, status |-> ch.status, half |-> NewHalf(prev, ch),
            score |-> ch.score, extra |-> NoExtra]
  IN IF keepsDetail(prev, ch.explain)
     THEN [m EXCEPT !.extra = prev.extra,
                    !.score = IF AtLeast(prev.score, @) THEN prev.score ELSE @]
     ELSE applyExtra(m, ch.explain)
=============================================================================
