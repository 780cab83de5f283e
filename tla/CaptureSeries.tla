--------------------------- MODULE CaptureSeries ---------------------------
(***************************************************************************)
(* What a series of segments promises: "rotating only after a post-target  *)
(* quiet period" (segmented.py:68).  PCAPs are written one at a time, each *)
(* is sealed with a boundary that was idle or not, and only an idle        *)
(* boundary is followed by another PCAP.                                   *)
(***************************************************************************)
EXTENDS Naturals

CONSTANT SegmentCount

VARIABLES sealed,     \* how many PCAPs have a record
          writing,    \* a PCAP is being written
          idle,       \* every sealed PCAP but the last, and the last, ended idle
          over        \* the series has ended

vars == <<sealed, writing, idle, over>>

Init == sealed = 0 /\ writing = FALSE /\ idle = TRUE /\ over = FALSE

Begin == /\ ~over /\ ~writing /\ idle /\ sealed < SegmentCount
         /\ writing' = TRUE
         /\ UNCHANGED <<sealed, idle, over>>

\* A boundary that was not idle, and the last one, end the series.
Seal == /\ writing
        /\ sealed' = sealed + 1 /\ writing' = FALSE
        /\ idle' \in BOOLEAN
        /\ over' = (~idle' \/ sealed' = SegmentCount)

\* The PCAP being written, if any, is left without a record.
Abort == /\ ~over
         /\ over' = TRUE /\ writing' = FALSE
         /\ UNCHANGED <<sealed, idle>>

Next == Begin \/ Seal \/ Abort

Spec == Init /\ [][Next]_vars
=============================================================================
