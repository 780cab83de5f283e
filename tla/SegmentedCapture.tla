-------------------------- MODULE SegmentedCapture --------------------------
(***************************************************************************)
(* run_segmented_capture: one segment after the other, each with a PCAP,   *)
(* a tcpdump and a tracker of its own (CaptureSegment), for as long as the *)
(* segments end idle and sudo lets the next tcpdump start.                 *)
(***************************************************************************)
EXTENDS CaptureSegment, Sequences

CONSTANT SegmentCount     \* how many profiles the series has

ASSUME SegmentCountAssumption == SegmentCount \in Nat \ {0}

VARIABLES
    segmentIndex,     \* segment_index; 0 before the first
    sessions,         \* the stop reasons of the sessions so far
    series,           \* "running", "finished", "stopped" or "aborted"
    sudo              \* sudo -n would be granted

seriesVars == <<segmentIndex, sessions, series, sudo>>
vars == <<segmentVars, seriesVars>>

-----------------------------------------------------------------------------
\* The timestamp of the sudo session runs out or is dropped.
SudoExpires ==
    /\ sudo
    /\ sudo' = FALSE
    /\ UNCHANGED <<segmentVars, segmentIndex, sessions, series>>

\* The operator authorizes again, as the warning of segment.py:97-101 asks.
SudoAuthorized ==
    /\ ~sudo
    /\ sudo' = TRUE
    /\ UNCHANGED <<segmentVars, segmentIndex, sessions, series>>

BetweenSegments == series = "running" /\ pc = "ready" /\ segmentIndex < SegmentCount

\* Lines 105-130.
BeginSegment ==
    /\ BetweenSegments /\ sudo
    /\ StartSegment \/ StartFails
    /\ segmentIndex' = segmentIndex + 1
    /\ UNCHANGED <<sessions, series, sudo>>

\* Line 106: the error leaves the series, and the sessions it had collected
\* are not returned.
SudoRefused ==
    /\ BetweenSegments /\ ~sudo
    /\ series' = "aborted"
    /\ UNCHANGED <<segmentVars, segmentIndex, sessions, sudo>>

\* Mutant of Continues: every segment is followed by the next.
ContinuesAlways(reason) == TRUE

\* segmented.py:139-144 and its two siblings: the reasons of an idle boundary.
Continues(reason) == reason \in IdleReasons

\* Lines 131-144.
SegmentReturns ==
    /\ series = "running" /\ pc = "returned"
    /\ sessions' = Append(sessions, record.stop_reason)
    /\ series' = IF segmentIndex = SegmentCount THEN "finished"
                 ELSE IF Continues(record.stop_reason) THEN "running" ELSE "stopped"
    /\ pc' = IF series' = "running" THEN "ready" ELSE pc
    /\ UNCHANGED <<tcpdump, fileVars, sampleVars, timerVars, stopReason, halfRead, record, calm, limit,
                   segmentIndex, sudo>>

SegmentRaises ==
    /\ series = "running" /\ pc = "raised"
    /\ series' = "aborted"
    /\ UNCHANGED <<segmentVars, segmentIndex, sessions, sudo>>

\* Ctrl+C: inside a segment it is the segment's to handle, between segments
\* it leaves the series.
InterruptSegment ==
    /\ series = "running"
    /\ Interrupt
    /\ UNCHANGED <<segmentIndex, sessions, series, sudo>>

InterruptSeries ==
    /\ series = "running" /\ pc \in {"ready", "returned"}
    /\ series' = "aborted"
    /\ UNCHANGED <<segmentVars, segmentIndex, sessions, sudo>>

RunSeries ==
    \/ BeginSegment \/ SudoRefused \/ SegmentReturns \/ SegmentRaises
    \/ RunSegment /\ UNCHANGED seriesVars

-----------------------------------------------------------------------------
Init ==
    /\ SegmentInit
    /\ segmentIndex = 0 /\ sessions = <<>> /\ series = "running"
    /\ sudo = TRUE

Next ==
    \/ RunSeries
    \/ InterruptSegment \/ InterruptSeries
    \/ SudoExpires \/ SudoAuthorized
    \/ Environment /\ UNCHANGED seriesVars

Spec == Init /\ [][Next]_vars

\* The process runs; traffic, the operator and sudo are free.
FairSpec == Spec /\ WF_vars(RunSeries)

-----------------------------------------------------------------------------
(* Properties *)

SeriesTypeOK ==
    /\ TypeOK
    /\ segmentIndex \in 0..SegmentCount
    /\ sessions \in Seq(StopReasons)
    /\ series \in {"running", "finished", "stopped", "aborted"}
    /\ sudo \in BOOLEAN

\* A segment that could not stop its tcpdump ends the series with it: a new
\* capture never starts beside one that still runs, on the same interface and
\* with the same filter.
OneCaptureAtATime == [][segmentIndex' # segmentIndex => tcpdump # "running"]_vars

\* The series keeps the promise of CaptureSeries.
Promise == INSTANCE CaptureSeries WITH
    sealed <- Len(sessions),
    writing <- series = "running" /\ pc # "ready",
    idle <- \A i \in 1..Len(sessions) : sessions[i] \in IdleReasons,
    over <- series # "running"
KeepsPromise == Promise!Spec

\* A size-limited series ends if its traffic keeps reaching the target,
\* whatever the traffic does then: each segment falls idle or runs out of its
\* finish timeout, and no other step waits for ever.
LargeSeriesEnds ==
    (limit = "bytes" /\ []<>(pc \in {"ready", "returned", "raised"} \/ size >= TargetBytes))
    => <>(series # "running")

\* A flow-limited segment has no such deadline; it ends, and the series with
\* it or with a later one, when its flows do and the traffic stops.
DrainedSeriesEnds ==
    (/\ <>[](opened >= TargetFlows /\ (limit = "tcp_flows" => opened = closed))
     /\ <>[][~Traffic]_segmentVars)
    => <>(series # "running")

\* A series ends under each of its limits.
SeriesEnds == LargeSeriesEnds /\ DrainedSeriesEnds
=============================================================================
