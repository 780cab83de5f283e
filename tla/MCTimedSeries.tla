---------------------------- MODULE MCTimedSeries ----------------------------
(* A series of timed segments; a sample comes after one second, or late. *)
EXTENDS TimedSeries

MCIntervals == {1, 2}
=============================================================================
