----------------------------- MODULE TimedSeries -----------------------------
(***************************************************************************)
(* timed-series.sh: the flow-limited capture of CaptureSegment, once per   *)
(* segment, closed from outside by timeout(1).  The idle time it passes is *)
(* longer than the timer, so no segment ends by itself; the script takes   *)
(* the interrupted record and writes its own reason into it.               *)
(*                                                                         *)
(* timeout --foreground signals lab alone, so tcpdump is only ever stopped *)
(* by lab; a lab that is killed leaves it behind.                          *)
(***************************************************************************)
EXTENDS CaptureSegment

CONSTANTS
    Count,           \* --count
    Duration,        \* --duration-seconds
    Slack            \* the five seconds of line 165

\* The script passes an idle time of a day (line 158) and does not check that the
\* duration is shorter (lines 109-115): a longer one is not modelled.
ASSUME TimedAssumption ==
    /\ Count \in Nat \ {0} /\ Duration \in Nat \ {0} /\ Slack \in Nat
    /\ Duration < IdleSeconds
    /\ "bytes" \notin Limits

VARIABLES
    index,           \* index; 0 before the first segment
    elapsed,         \* segment_elapsed_seconds, as far as lab has slept
    timer,           \* "idle", "running" or "fired"
    script           \* "between", "capturing", "rewriting", "finished" or "failed"

scriptVars == <<index, elapsed, timer, script>>
timedVars == <<segmentVars, scriptVars>>

LongestInterval == CHOOSE m \in Intervals : \A n \in Intervals : n <= m

-----------------------------------------------------------------------------
\* The loop of line 135.
MoreSegments == index < Count

FinishSeries ==
    /\ script = "between" /\ ~MoreSegments
    /\ script' = "finished"
    /\ UNCHANGED <<segmentVars, index, elapsed, timer>>

\* Lines 135-160.  A lab that is refused by sudo, whose authorization line 124
\* asked for once, or cannot start tcpdump fails at once.
BeginTimedSegment ==
    /\ script = "between" /\ MoreSegments
    /\ StartSegment \/ StartFails
    /\ index' = index + 1 /\ elapsed' = 0
    /\ timer' = "running" /\ script' = "capturing"

\* The timer is due before lab has slept longer than it.
RunLab ==
    /\ script = "capturing"
    /\ RunSegment
    /\ elapsed' = IF pc = "asleep" THEN elapsed + interval' ELSE elapsed
    /\ elapsed' <= Duration
    /\ UNCHANGED <<index, timer, script>>

\* Mutant of TimerDue: a duration of 0 switches timeout off.
NeverDue == FALSE

\* Lines 144-149.
TimerDue == timer = "running" /\ elapsed + LongestInterval >= Duration

\* SIGINT, to lab alone.
TimerFires ==
    /\ TimerDue
    /\ Interrupt
    /\ timer' = "fired" /\ elapsed' = Duration
    /\ UNCHANGED <<index, script>>

\* --kill-after: whatever lab does 60 seconds later is cut short; the line
\* "PCAP:" may be missing although the record is there.
LabKilled ==
    /\ timer = "fired" /\ pc \notin {"ready", "raised"}
    /\ record' \in IF pc = "recording" THEN {None, Torn} ELSE {record}
    /\ pc' = "raised"
    /\ UNCHANGED <<tcpdump, fileVars, sampleVars, timerVars, stopReason, halfRead, calm, limit,
                   scriptVars>>

\* Lines 163-169.
RanItsTime == elapsed + Slack >= Duration

\* Lines 171-183: lab prints the path (segment.py:254) after it wrote the record.
PcapReported == pc = "returned"

\* Mutant of AfterLab: a segment without a PCAP is skipped.
AfterLabSkips == IF RanItsTime /\ PcapReported THEN "rewriting" ELSE "between"

\* The status of lab is only printed.
AfterLab == IF RanItsTime /\ PcapReported THEN "rewriting" ELSE "failed"

LabExits ==
    /\ script = "capturing" /\ pc \in Done
    /\ script' = AfterLab
    /\ pc' = "ready" /\ timer' = "idle"
    /\ UNCHANGED <<tcpdump, fileVars, sampleVars, timerVars, stopReason, halfRead, record, calm, limit,
                   index, elapsed>>

\* Lines 185-195: jq writes another file, mv puts it in place.
RewriteRecord ==
    /\ script = "rewriting"
    /\ record' = [record EXCEPT !.stop_reason = "duration_elapsed"]
    /\ script' = "between"
    /\ UNCHANGED <<tcpdump, fileVars, pc, sampleVars, timerVars, stopReason, halfRead, calm, limit,
                   index, elapsed, timer>>

\* jq or mv fails, or the script is killed before mv: set -e, and the record
\* keeps the reason lab gave it.
RewriteFails ==
    /\ script = "rewriting"
    /\ script' = "failed"
    /\ UNCHANGED <<segmentVars, index, elapsed, timer>>

\* Ctrl+C ends tee and with it the script; lab gets it too and goes on to its
\* own end, or to the kill that timeout now has pending.
OperatorInterrupts ==
    /\ script \in {"between", "capturing"}
    /\ IF script = "capturing" /\ pc \notin Done THEN Interrupt ELSE UNCHANGED segmentVars
    /\ script' = "failed"
    /\ timer' = IF script = "capturing" THEN "fired" ELSE timer
    /\ UNCHANGED <<index, elapsed>>

\* lab without the script.
LabGoesOn ==
    /\ script = "failed"
    /\ RunSegment
    /\ UNCHANGED scriptVars

-----------------------------------------------------------------------------
TimedInit ==
    /\ SegmentInit
    /\ index = 0 /\ elapsed = 0 /\ timer = "idle" /\ script = "between"

RunScript ==
    \/ BeginTimedSegment \/ FinishSeries \/ RunLab \/ TimerFires \/ LabExits
    \/ RewriteRecord \/ RewriteFails \/ LabGoesOn

TimedNext ==
    \/ RunScript
    \/ LabKilled \/ OperatorInterrupts
    \/ Environment /\ UNCHANGED scriptVars

TimedSpec == TimedInit /\ [][TimedNext]_timedVars

\* The script, its timer and lab run; traffic, tcpdump and the operator are
\* free.
FairTimedSpec == TimedSpec /\ WF_timedVars(RunScript)

-----------------------------------------------------------------------------
(* Properties *)

\* A tcpdump that a killed or failed lab left behind is the last one: the next
\* segment never starts beside it, although the script ignores the status of
\* lab and looks at its output only.
OneTimedCaptureAtATime == [][index' # index => tcpdump # "running"]_timedVars

\* A record that says duration_elapsed describes a whole file, although the
\* timer's signal and the kill after it may come at any step of lab: tcpdump is
\* gone, and the counts are those of the file, but for the one flow the signal
\* may have cut a poll at.
ElapsedMeansSealed ==
    record \notin {None, Torn} /\ record.stop_reason = "duration_elapsed" =>
        /\ tcpdump = "exited"
        /\ record.flows.total - PolledStats.total \in {0, 1}
        /\ record.flows.active - PolledStats.active \in {0, 1}

\* Whatever the traffic does, unlike a flow-limited series without a timer.
TimedSeriesEnds == <>(script \in {"finished", "failed"})
=============================================================================
