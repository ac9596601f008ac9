---------------------------- MODULE MCSyncClock ----------------------------
(* Model-checking instances of SyncClock. *)
EXTENDS SyncClock

\* The process starts in the evening of day 3, Bangkok time, or whenever it is restarted.
MCStart    == {3 * Day + 13 * Hour}
MCKickoffs == {4 * Day + 22 * Hour, 5 * Day + 2 * Hour}
MCOffers   == {0, 4 * Day + 12 * Hour}
=============================================================================
