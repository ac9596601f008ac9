----------------------------- MODULE MCLiveSync -----------------------------
(* Model-checking instances of LiveSync. *)
EXTENDS LiveSync

Upcoming == [there |-> TRUE, listed |-> TRUE, fixture |-> 1, status |-> 1, half |-> 1,
             score |-> <<0, 0>>, explain |-> NoExplain]

\* A goal is scored, the second half begins, and another goal is scored.
MCSecondHalf == << [Upcoming EXCEPT !.status = 2],
                   [Upcoming EXCEPT !.status = 2, !.score = <<1, 0>>],
                   [Upcoming EXCEPT !.status = 3, !.half = 2, !.score = <<1, 0>>],
                   [Upcoming EXCEPT !.status = 3, !.half = 2, !.score = <<2, 0>>] >>

\* A tie goes to extra time, is decided there, and leaves the live feed.
InET       == [Upcoming EXCEPT !.status = 4, !.half = 3, !.score = <<1, 1>>,
                               !.explain = [status |-> 3, et |-> <<2, 1>>, pen |-> <<0, 0>>, winner |-> 0]]
MCKnockout == << [Upcoming EXCEPT !.status = 3, !.half = 2, !.score = <<1, 1>>],
                 InET,
                 [InET EXCEPT !.status = -1, !.listed = FALSE, !.explain.status = 1,
                              !.explain.winner = 1] >>

\* Midnight GMT takes a match in play out of the live feed; then a goal is scored.
MCMidnight == << [Upcoming EXCEPT !.status = 3, !.half = 2],
                 [Upcoming EXCEPT !.status = 3, !.half = 2, !.listed = FALSE],
                 [Upcoming EXCEPT !.status = 3, !.half = 2, !.listed = FALSE, !.score = <<1, 0>>] >>

\* A match of today is put off, or deleted.
MCPutOff  == << [Upcoming EXCEPT !.status = 0, !.half = 0],
                [Upcoming EXCEPT !.status = 0, !.half = 0, !.fixture = 2, !.listed = FALSE] >>
MCDeleted == << [Upcoming EXCEPT !.status = 0, !.half = 0],
                [Upcoming EXCEPT !.status = -11, !.half = 0],
                [Upcoming EXCEPT !.status = -11, !.half = 0, !.there = FALSE, !.listed = FALSE] >>

\* Around the runs of minute one, and two polls later.
MCEventful == {24, 25, 34}

MCStories == {MCSecondHalf, MCKnockout, MCMidnight, MCPutOff, MCDeleted}
=============================================================================
