--------------------------- MODULE CaptureSegment ---------------------------
(***************************************************************************)
(* capture_segment: one PCAP of a formal capture, from the start of        *)
(* tcpdump to the record that describes the sealed file.                   *)
(*                                                                         *)
(* The capture process samples the growing file: it sleeps, takes the      *)
(* size, polls the flow tracker, looks whether tcpdump is alive and only   *)
(* then decides.  tcpdump, the traffic it captures and the operator's      *)
(* Ctrl+C interleave with every one of these steps.                        *)
(*                                                                         *)
(* Time is measured where the code reads the clock: a sample knows the     *)
(* seconds since the one before, and the two timestamps target_reached_at  *)
(* and quiet_started_at are kept as ages.  Ages, the size and the bytes    *)
(* since the last sample saturate just above the threshold they are        *)
(* compared with, so traffic need never end.                               *)
(***************************************************************************)
EXTENDS DatasetAudit

CONSTANTS
    Limits,          \* what a capture may be limited by
    TargetBytes,     \* target_bytes, when it is limited by "bytes"
    TargetFlows,     \* target_flows otherwise
    IdleSeconds,     \* idle_seconds
    IdleRate,        \* idle_bytes_per_second
    FinishTimeout,   \* finish_timeout_seconds
    Intervals,       \* bound: the seconds that may lie between two samples
    MaxFlows         \* bound: flows that reach one file

ASSUME LimitsAssumption == Limits \subseteq {"bytes", "tcp_flows", "udp_conversations"}
ASSUME ThresholdAssumption ==
    /\ TargetBytes \in Nat \ {0} /\ TargetFlows \in Nat \ {0}
    /\ IdleSeconds \in Nat /\ IdleRate \in Nat /\ FinishTimeout \in Nat \ {0}
ASSUME IntervalsAssumption ==
    /\ Intervals \subseteq Nat \ {0}
    /\ \E longest \in Intervals : \A n \in Intervals : n <= longest
ASSUME MaxFlowsAssumption == MaxFlows \in Nat

VARIABLES
    limit,        \* what this capture is limited by, from its arguments
    tcpdump,      \* "none", "running" or "exited"
    opened,       \* flows whose start is in the file
    closed,       \* of these, the flows whose end is in the file
    size,         \* bytes in the file, saturating
    fresh,        \* bytes written since the last size was taken, saturating
    pc,           \* what capture_segment does next
    interval,     \* now - previous_time
    quiet,        \* rate <= idle_bytes_per_second
    large,        \* size >= target_bytes, as sampled
    polled,       \* flow_stats
    targetAge,    \* now - target_reached_at
    quietAge,     \* now - quiet_started_at
    stopReason,   \* stop_reason
    halfRead,     \* what a poll cut short by Ctrl+C left: "nothing", "twice" or "unowned"
    record,       \* capture.json
    calm          \* history: seconds up to the last sample without noise

fileVars == <<opened, closed, size, fresh>>
sampleVars == <<interval, quiet, large, polled>>
timerVars == <<targetAge, quietAge>>
segmentVars == <<tcpdump, fileVars, pc, sampleVars, timerVars, stopReason, halfRead, record, calm, limit>>

AllFlowsClosed == "target_flows_reached_and_all_flows_closed"
UdpIdle == "target_udp_conversations_reached_and_traffic_idle"
TrafficIdle == "target_reached_and_traffic_idle"
FinishTimedOut == "target_reached_finish_timeout"
IdleReasons == {AllFlowsClosed, UdpIdle, TrafficIdle}
StopReasons == IdleReasons \cup {FinishTimedOut, "interrupted"}

FlowMode == limit # "bytes"
Done == {"returned", "raised"}

Saturate(n, top) == IF n > top THEN top ELSE n
Older(age, seconds, top) == IF age = None THEN None ELSE Saturate(age + seconds, top)

\* More bytes than this are noise in the longest interval.
FreshLimit == 1 + IdleRate * (CHOOSE m \in Intervals : \A n \in Intervals : n <= m)

NoFlowStats == [total |-> 0, active |-> 0, completed |-> 0]

\* Mutant of FlowStats: each of the two FINs of a flow completes it.
FlowStatsPerFin ==
    LET active == IF limit = "tcp_flows" THEN opened - 2 * closed ELSE 0
    IN [total |-> opened, active |-> active, completed |-> opened - active]

\* What a tracker reports; a UDP conversation is never active.
FlowStats ==
    LET active == IF limit = "tcp_flows" THEN opened - closed ELSE 0
    IN [total |-> opened, active |-> active, completed |-> opened - active]
PolledStats == IF FlowMode THEN FlowStats ELSE NoFlowStats

-----------------------------------------------------------------------------
(* Traffic and tcpdump *)

\* Flows are told apart, and the size matters, only where they are the limit.
Grow(bytes) ==
    /\ size' = IF FlowMode THEN size ELSE Saturate(size + bytes, TargetBytes)
    /\ fresh' = Saturate(fresh + bytes, FreshLimit)

Unsampled == UNCHANGED <<tcpdump, pc, sampleVars, timerVars, stopReason, halfRead, record, calm, limit>>

FlowStarts ==
    /\ tcpdump = "running" /\ FlowMode /\ opened < MaxFlows
    /\ opened' = opened + 1
    /\ Grow(1)
    /\ UNCHANGED closed /\ Unsampled

FlowEnds ==
    /\ tcpdump = "running" /\ limit = "tcp_flows" /\ closed < opened
    /\ closed' = closed + 1
    /\ Grow(1)
    /\ UNCHANGED opened /\ Unsampled

Data ==
    /\ tcpdump = "running"
    /\ \E bytes \in 1..FreshLimit : Grow(bytes)
    /\ UNCHANGED <<opened, closed>> /\ Unsampled

\* tcpdump dies, is killed, or gets the terminal's Ctrl+C itself.
TcpdumpExits ==
    /\ tcpdump = "running"
    /\ tcpdump' = "exited"
    /\ UNCHANGED <<fileVars, pc, sampleVars, timerVars, stopReason, halfRead, record, calm, limit>>

Traffic == FlowStarts \/ FlowEnds \/ Data

-----------------------------------------------------------------------------
(* capture_segment *)

\* Lines 39-83: a new directory, so a new empty file, and a new tracker.
StartSegment ==
    /\ pc = "ready"
    /\ tcpdump' = "running" /\ pc' = "launched"
    /\ opened' = 0 /\ closed' = 0 /\ size' = 0 /\ fresh' = 0
    /\ interval' = 0 /\ quiet' = FALSE /\ large' = FALSE /\ polled' = NoFlowStats
    /\ targetAge' = None /\ quietAge' = None
    /\ stopReason' = "interrupted" /\ halfRead' = "nothing" /\ record' = None /\ calm' = 0
    /\ UNCHANGED limit

\* tcpdump.py:40-41: tcpdump cannot be started at all.
StartFails ==
    /\ pc = "ready"
    /\ pc' = "raised"
    /\ UNCHANGED <<tcpdump, fileVars, sampleVars, timerVars, stopReason, halfRead, record, calm, limit>>

\* Lines 59-85: tcpdump runs, but the try block is yet to come.
EnterTry ==
    /\ pc = "launched"
    /\ pc' = "starting"
    /\ UNCHANGED <<tcpdump, fileVars, sampleVars, timerVars, stopReason, halfRead, record, calm, limit>>

\* Lines 85-88, and lines 140-142 below: the error is raised through the
\* finally clause.
CheckStarted ==
    /\ pc = "starting"
    /\ pc' = IF tcpdump = "exited" THEN "failing" ELSE "asleep"
    /\ UNCHANGED <<tcpdump, fileVars, sampleVars, timerVars, stopReason, halfRead, record, calm, limit>>

\* Lines 91-92.
Wake ==
    /\ pc = "asleep"
    /\ \E seconds \in Intervals :
          /\ interval' = seconds
          /\ targetAge' = Older(targetAge, seconds, FinishTimeout)
          /\ quietAge' = Older(quietAge, seconds, IdleSeconds)
    /\ pc' = "sizing"
    /\ UNCHANGED <<tcpdump, fileVars, quiet, large, polled, stopReason, halfRead, record, calm, limit>>

\* Lines 103-105.  What is written from here on counts for the next sample,
\* although the poll of this one may see it.
TakeSize ==
    /\ pc = "sizing"
    /\ large' = (size >= TargetBytes)
    /\ quiet' = (fresh <= IdleRate * interval)
    /\ fresh' = 0
    /\ pc' = "polling"
    /\ UNCHANGED <<tcpdump, opened, closed, size, interval, polled, timerVars, stopReason, halfRead, record, calm, limit>>

PollTracker ==
    /\ pc = "polling"
    /\ polled' = PolledStats
    /\ calm' = IF quiet /\ PolledStats.active = 0
               THEN Saturate(calm + interval, IdleSeconds) ELSE 0
    /\ pc' = "deciding"
    /\ UNCHANGED <<tcpdump, fileVars, interval, quiet, large, timerVars, stopReason, halfRead, record, limit>>

\* flow_tracker.py:76 and :81: the first poll that reads a header finds no classic
\* PCAP of Ethernet frames.
PollRaises ==
    /\ pc = "polling" /\ FlowMode /\ polled = NoFlowStats
    /\ pc' = "failing"
    /\ UNCHANGED <<tcpdump, fileVars, sampleVars, timerVars, stopReason, halfRead, record, calm, limit>>

TcpdumpDied ==
    /\ pc = "deciding" /\ tcpdump = "exited"
    /\ pc' = "failing"
    /\ UNCHANGED <<tcpdump, fileVars, sampleVars, timerVars, stopReason, halfRead, record, calm, limit>>

TargetReached == IF FlowMode THEN polled.total >= TargetFlows ELSE large

\* Mutant of TargetAgeNow: every sample at the target dates it anew.
TargetRedated == 0

\* Lines 145-162 and 188-195: the first sample at the target dates it.
TargetAgeNow == IF targetAge = None THEN 0 ELSE targetAge

\* Mutant of QuietAgeNow: noise does not restart the timer.
QuietTimerKept ==
    IF quietAge = None /\ quiet /\ (FlowMode => polled.active = 0) THEN 0 ELSE quietAge

\* Lines 163-166 and 196-199.
QuietAgeNow ==
    IF quiet /\ (FlowMode => polled.active = 0)
    THEN IF quietAge = None THEN 0 ELSE quietAge
    ELSE None

IdleLongEnough == QuietAgeNow # None /\ QuietAgeNow >= IdleSeconds
IdleReason == CASE limit = "tcp_flows" -> AllFlowsClosed
                [] limit = "udp_conversations" -> UdpIdle
                [] limit = "bytes" -> TrafficIdle

Decide(nextPc) ==
    /\ pc = "deciding" /\ tcpdump = "running"
    /\ pc' = nextPc
    /\ UNCHANGED <<tcpdump, fileVars, sampleVars, halfRead, record, calm, limit>>

BelowTarget ==
    /\ ~TargetReached
    /\ Decide("asleep")
    /\ UNCHANGED <<timerVars, stopReason>>

StopIdle ==
    /\ TargetReached /\ IdleLongEnough
    /\ Decide("stopping")
    /\ stopReason' = IdleReason
    /\ targetAge' = TargetAgeNow /\ quietAge' = QuietAgeNow

\* Lines 203-205, and 177-187 for flows, where the timeout only warns.
StopTimedOut ==
    /\ TargetReached /\ ~IdleLongEnough
    /\ ~FlowMode /\ TargetAgeNow >= FinishTimeout
    /\ Decide("stopping")
    /\ stopReason' = FinishTimedOut
    /\ targetAge' = TargetAgeNow /\ quietAge' = QuietAgeNow

KeepDraining ==
    /\ TargetReached /\ ~IdleLongEnough
    /\ FlowMode \/ TargetAgeNow < FinishTimeout
    /\ Decide("asleep")
    /\ targetAge' = TargetAgeNow /\ quietAge' = QuietAgeNow
    /\ UNCHANGED stopReason

\* Lines 209-210: inside the try block Ctrl+C only ends the loop, and the
\* reason stays what it was.  Nothing between the last call of the loop body
\* (process.poll, line 140, or a print) and the break lets CPython deliver the
\* signal, so a reason that was set is never caught here: a Ctrl+C of that
\* moment is raised in stop_tcpdump.
InTryBlock == pc \in {"starting", "asleep", "sizing", "polling", "deciding"}

\* flow_tracker.py:155-161: a poll that meets a new flow may be cut short before
\* _seen_syns knows it ("twice": the poll of line 216 opens it again) or before
\* _tuple_to_flow does ("unowned": its end will not be seen).
CutPoll ==
    IF pc = "polling" /\ limit = "tcp_flows" /\ opened > polled.total
    THEN {"nothing", "twice", "unowned"} ELSE {"nothing"}

InterruptLoop ==
    /\ InTryBlock
    /\ halfRead' \in CutPoll
    /\ pc' = "stopping"
    /\ UNCHANGED <<tcpdump, fileVars, sampleVars, timerVars, stopReason, record, calm, limit>>

\* Before the try block, in the finally clause and after it Ctrl+C is an
\* exception like any other; it may cut the record short.
InterruptStop ==
    /\ pc \in {"launched", "stopping", "failing", "recording"}
    /\ record' \in IF pc = "recording" THEN {None, Torn} ELSE {record}
    /\ pc' = "raised"
    /\ UNCHANGED <<tcpdump, fileVars, sampleVars, timerVars, stopReason, halfRead, calm, limit>>

\* stop_tcpdump: SIGINT, then SIGTERM, then SIGKILL.
StopTcpdump ==
    /\ pc \in {"stopping", "failing"}
    /\ tcpdump' = "exited"
    /\ pc' = IF pc = "failing" THEN "raised" ELSE "recording"
    /\ UNCHANGED <<fileVars, sampleVars, timerVars, stopReason, halfRead, record, calm, limit>>

\* Mutant of StopFails: the error of stop_tcpdump is swallowed.
StopFailsSilently ==
    /\ pc \in {"stopping", "failing"} /\ tcpdump = "running"
    /\ pc' = IF pc = "failing" THEN "raised" ELSE "recording"
    /\ UNCHANGED <<tcpdump, fileVars, sampleVars, timerVars, stopReason, halfRead, record, calm, limit>>

\* tcpdump.py:71 and :80: it may not be signalled, or outlives the kill by two
\* seconds.
StopFails ==
    /\ pc \in {"stopping", "failing"} /\ tcpdump = "running"
    /\ pc' = "raised"
    /\ UNCHANGED <<tcpdump, fileVars, sampleVars, timerVars, stopReason, halfRead, record, calm, limit>>

\* Mutant of FinalStats: the counts the loop decided on are recorded.
LastLoopStats == {polled}

StillOpen(stats) ==
    [stats EXCEPT !.active = opened - closed + 1, !.completed = stats.total - opened + closed - 1]

\* Lines 214-226: the last size and the last poll describe the sealed file,
\* except for the flow a poll was cut short at.
FinalStats ==
    CASE halfRead = "nothing" -> {PolledStats}
      [] halfRead = "twice"   -> {StillOpen([PolledStats EXCEPT !.total = opened + 1])}
      [] halfRead = "unowned" -> {PolledStats} \cup
                                    (IF closed > 0 THEN {StillOpen(PolledStats)} ELSE {})

\* write_segment_record; target_met is taken from the last size and poll too.
SegmentRecord(flows) ==
    [target_flows |-> IF FlowMode THEN TargetFlows ELSE None,
     target_met   |-> IF FlowMode THEN flows.total >= TargetFlows ELSE size >= TargetBytes,
     flows        |-> flows,
     stop_reason  |-> stopReason]

\* Lines 214-257.
WriteRecord ==
    /\ pc = "recording"
    /\ \E flows \in FinalStats : record' = SegmentRecord(flows)
    /\ pc' = "returned"
    /\ UNCHANGED <<tcpdump, fileVars, sampleVars, timerVars, stopReason, halfRead, calm, limit>>

-----------------------------------------------------------------------------
SegmentInit ==
    /\ limit \in Limits
    /\ tcpdump = "none" /\ pc = "ready"
    /\ opened = 0 /\ closed = 0 /\ size = 0 /\ fresh = 0
    /\ interval = 0 /\ quiet = FALSE /\ large = FALSE /\ polled = NoFlowStats
    /\ targetAge = None /\ quietAge = None
    /\ stopReason = "interrupted" /\ halfRead = "nothing" /\ record = None /\ calm = 0

Environment == Traffic \/ TcpdumpExits
Interrupt == InterruptLoop \/ InterruptStop
Sample == EnterTry \/ CheckStarted \/ Wake \/ TakeSize \/ PollTracker \/ PollRaises
Decision == TcpdumpDied \/ BelowTarget \/ StopIdle \/ StopTimedOut \/ KeepDraining
Finish == StopTcpdump \/ StopFails \/ WriteRecord
RunSegment == Sample \/ Decision \/ Finish
SegmentStep == RunSegment \/ Interrupt \/ Environment

SegmentNext == StartSegment \/ StartFails \/ SegmentStep

SegmentSpec == SegmentInit /\ [][SegmentNext]_segmentVars

-----------------------------------------------------------------------------
(* Properties *)

PcStates == {"ready", "launched", "starting", "asleep", "sizing", "polling", "deciding",
             "stopping", "failing", "recording"} \cup Done

Stats == [total: 0..MaxFlows + 1, active: 0..MaxFlows + 1, completed: 0..MaxFlows]
Records == [target_flows: {TargetFlows, None}, target_met: BOOLEAN, flows: Stats,
            stop_reason: StopReasons]

TypeOK ==
    /\ limit \in Limits
    /\ tcpdump \in {"none", "running", "exited"}
    /\ opened \in 0..MaxFlows /\ closed \in 0..opened
    /\ size \in 0..TargetBytes /\ fresh \in 0..FreshLimit
    /\ pc \in PcStates
    /\ interval \in Intervals \cup {0}
    /\ quiet \in BOOLEAN /\ large \in BOOLEAN
    /\ polled \in Stats
    /\ targetAge \in 0..FinishTimeout \cup {None}
    /\ quietAge \in 0..IdleSeconds \cup {None}
    /\ stopReason \in StopReasons
    /\ halfRead \in {"nothing", "twice", "unowned"}
    /\ record \in Records \cup {None, Torn}
    /\ calm \in 0..IdleSeconds

\* capture.json describes the finished file: tcpdump is gone when it is
\* written, and its counts are those of every record in the file, although the
\* decision to stop was taken on an older poll.  Only a record that says it was
\* interrupted may err, by one flow, and then calls it open.  A segment that
\* stopped by itself met its target: the final poll never counts less than that
\* one.
RecordDescribesSealedFile ==
    pc = "returned" =>
        /\ tcpdump = "exited"
        /\ IF record.stop_reason = "interrupted"
           THEN /\ record.flows.total - PolledStats.total \in {0, 1}
                /\ record.flows.active - PolledStats.active \in {0, 1}
           ELSE record.flows = PolledStats /\ record.target_met
        /\ ~FlowMode => record.target_met = (size >= TargetBytes)

\* A segment that ends for an idle reason was calm, without a sample above the
\* idle rate or with an open flow, for the whole idle_seconds before its last
\* sample (proxy-capture.md:58).  The timer restarts at every noisy sample and
\* the target may be reached in the middle of a quiet stretch.
IdleMeansCalm ==
    pc = "returned" /\ record.stop_reason \in IdleReasons => calm >= IdleSeconds

Transport == IF limit = "udp_conversations" THEN "udp" ELSE "tcp"
Accepted == record \notin {None, Torn} /\ CompletionPasses(record, Transport)

\* What `lab dataset audit` makes of the record is right about the file: an
\* accepted segment is sealed, has its target, and cuts no TCP flow, although
\* the decision to stop may be older than its last flows, a Ctrl+C may have cut
\* any step short and a Ctrl+C in a poll leaves counts that are wrong.
AcceptedSegmentIsWhole ==
    Accepted =>
        /\ tcpdump = "exited"
        /\ IF FlowMode THEN opened >= TargetFlows ELSE size >= TargetBytes
        /\ limit = "tcp_flows" => opened = closed

\* What the reason is taken to say, and proxy-capture.md:56 promises: the PCAP
\* is never closed while a flow is active.  It does not hold: the file grows
\* between the last poll and the exit of tcpdump.
NeverCutsAFlow ==
    pc = "returned" /\ record.stop_reason = AllFlowsClosed => record.flows.active = 0
=============================================================================
