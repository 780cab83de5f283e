------------------------- MODULE MCSegmentedCapture -------------------------
(* A series of segments; a sample comes after one second, or late. *)
EXTENDS SegmentedCapture

MCIntervals == {1, 2}
=============================================================================
