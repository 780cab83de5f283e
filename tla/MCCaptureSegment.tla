-------------------------- MODULE MCCaptureSegment --------------------------
(* One segment on its own.  A sample comes after one second, or late. *)
EXTENDS CaptureSegment

MCIntervals == {1, 2}
=============================================================================
