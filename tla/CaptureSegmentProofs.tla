------------------------ MODULE CaptureSegmentProofs ------------------------
(***************************************************************************)
(* The invariants of one segment, for any limits, thresholds, sample       *)
(* intervals and number of flows.  They are stated of the steps of the     *)
(* segment, so that a series of segments and a timed series, which add     *)
(* steps of their own, have them too.                                      *)
(***************************************************************************)
EXTENDS CaptureSegment, TLAPS

-----------------------------------------------------------------------------
(* The inductive invariant *)

Recorded == record \notin {None, Torn} \/ pc = "returned"
Idling == quietAge # None
TargetInFile == IF FlowMode THEN opened >= TargetFlows ELSE size >= TargetBytes

\* A flow ends after it starts, and only a poll of the TCP tracker is ever cut.
CountsHold ==
    /\ opened \in 0..MaxFlows /\ closed \in 0..opened
    /\ halfRead \in {"nothing", "twice", "unowned"}
    /\ halfRead # "nothing" => limit = "tcp_flows"

\* What was sampled is still true of the file, which only grows.
SamplesHold ==
    /\ polled.total <= opened
    /\ ~FlowMode => polled = NoFlowStats
    /\ large => size >= TargetBytes

\* What is recorded is the file that tcpdump left, but for a flow that a poll
\* was cut short at.
RecordOfFile ==
    /\ tcpdump = "exited"
    /\ DOMAIN record = {"target_flows", "target_met", "flows", "stop_reason"}
    /\ record.flows \in FinalStats
    /\ record.target_flows = (IF FlowMode THEN TargetFlows ELSE None)
    /\ record.target_met = (IF FlowMode THEN record.flows.total >= TargetFlows
                                        ELSE size >= TargetBytes)

\* tcpdump is gone before a record is begun, and a record is the last step.
RecordMatches ==
    /\ pc \in {"recording", "returned"} => tcpdump = "exited"
    /\ Recorded => pc \in {"ready"} \cup Done /\ RecordOfFile

\* Until the loop is left nothing is decided.  A reason other than Ctrl+C is
\* only given at the target, and only a Ctrl+C cuts a poll.
ReasonHolds ==
    /\ pc \in {"launched", "starting", "asleep", "sizing", "polling", "deciding", "failing"} =>
          stopReason = "interrupted" /\ halfRead = "nothing"
    /\ stopReason # "interrupted" => TargetInFile /\ halfRead = "nothing"

\* The quiet timer runs from the target on, and never shows more seconds than
\* were calm: up to the last sample while the loop sleeps, with the present
\* sample after it.
TimerHolds ==
    /\ pc \in {"launched", "starting"} => ~Idling
    /\ Idling => IF FlowMode THEN polled.total >= TargetFlows ELSE large
    /\ pc = "asleep" /\ Idling => calm >= quietAge
    /\ pc \in {"sizing", "polling"} /\ Idling =>
          Saturate(calm + interval, IdleSeconds) >= quietAge
    /\ pc = "deciding" /\ Idling /\ quiet /\ polled.active = 0 => calm >= quietAge
    /\ stopReason \in IdleReasons => calm >= IdleSeconds

\* A record carries the reason the loop ended for.
RecordNamesReason == Recorded => record.stop_reason = stopReason

SegmentInv == TypeOK /\ CountsHold /\ SamplesHold /\ RecordMatches /\ ReasonHolds /\ TimerHolds

\* The steps of a segment and of its surroundings, and those of nobody.
SegmentMoves == StartSegment \/ StartFails \/ SegmentStep \/ UNCHANGED segmentVars

-----------------------------------------------------------------------------
(* Operators *)

LEMMA SaturateIsNat ==
    ASSUME NEW n \in Nat, NEW top \in Nat
    PROVE  Saturate(n, top) \in 0..top /\ Saturate(n, top) <= n
  BY DEF Saturate

LEMMA FreshLimitIsNat == FreshLimit \in Nat
<1> DEFINE Longest(m) == \A n \in Intervals : n <= m
           longest == CHOOSE m \in Intervals : Longest(m)
<1>1. \E m \in Intervals : Longest(m)
  BY IntervalsAssumption
<1>2. longest \in Intervals
  BY <1>1
<1>3. longest \in Nat
  BY <1>2, IntervalsAssumption
<1>4. IdleRate * longest \in Nat
  BY <1>3, ThresholdAssumption
<1> QED
  BY <1>4 DEF FreshLimit

LEMMA FlowStatsTyped ==
    ASSUME CountsHold
    PROVE  PolledStats \in Stats /\ PolledStats.total <= opened
  BY MaxFlowsAssumption DEF CountsHold, PolledStats, FlowStats, NoFlowStats, Stats

\* A poll that was cut short counts one flow too many at most, and calls it open.
LEMMA FinalStatsTyped ==
    ASSUME CountsHold, NEW flows \in FinalStats
    PROVE  /\ flows \in Stats
           /\ flows.total - PolledStats.total \in {0, 1}
           /\ flows.active - PolledStats.active \in {0, 1}
           /\ flows = PolledStats \/ (limit = "tcp_flows" /\ flows.active > 0)
<1>1. CASE halfRead = "nothing"
  BY <1>1, FlowStatsTyped DEF FinalStats, Stats
<1>2. CASE halfRead # "nothing"
  <2>1. /\ PolledStats = [total |-> opened, active |-> opened - closed,
                          completed |-> opened - (opened - closed)]
        /\ limit = "tcp_flows"
        /\ opened \in 0..MaxFlows /\ closed \in 0..opened
    BY <1>2 DEF CountsHold, PolledStats, FlowStats, FlowMode
  <2>2. PolledStats \in Stats
    BY FlowStatsTyped
  <2>3. CASE halfRead = "twice"
    <3>1. flows = [total |-> opened + 1, active |-> opened - closed + 1,
                   completed |-> (opened + 1) - opened + closed - 1]
      BY <2>1, <2>3 DEF FinalStats, StillOpen
    <3> QED
      BY <2>1, <3>1, MaxFlowsAssumption DEF Stats
  <2>4. CASE halfRead = "unowned"
    <3>1. CASE flows = PolledStats
      BY <2>1, <2>2, <3>1 DEF Stats
    <3>2. CASE closed > 0 /\ flows = StillOpen(PolledStats)
      <4>1. flows = [total |-> opened, active |-> opened - closed + 1,
                     completed |-> opened - opened + closed - 1]
        BY <2>1, <3>2 DEF StillOpen
      <4> QED
        BY <2>1, <3>2, <4>1, MaxFlowsAssumption DEF Stats
    <3> QED
      BY <2>4, <3>1, <3>2 DEF FinalStats
  <2> QED
    BY <1>2, <2>3, <2>4 DEF CountsHold
<1> QED
  BY <1>1, <1>2

-----------------------------------------------------------------------------
(* Types and counts *)

LEMMA CountsHoldStep ==
    ASSUME CountsHold, SegmentMoves
    PROVE  CountsHold'
<1>1. CASE StartSegment
  BY <1>1, MaxFlowsAssumption DEF StartSegment, CountsHold
<1>2. CASE FlowStarts \/ FlowEnds
  BY <1>2, MaxFlowsAssumption DEF FlowStarts, FlowEnds, Unsampled, CountsHold
<1>3. CASE InterruptLoop
  <2>1. UNCHANGED <<opened, closed, limit>> /\ halfRead' \in CutPoll
    BY <1>3 DEF InterruptLoop, fileVars
  <2> QED
    BY <2>1 DEF CutPoll, CountsHold
<1>4. CASE \/ UNCHANGED segmentVars \/ StartFails \/ Data \/ TcpdumpExits \/ Sample \/ Decision
           \/ Finish \/ InterruptStop
  <2>1. UNCHANGED <<opened, closed, limit, halfRead>>
    BY <1>4 DEF StartFails, Data, TcpdumpExits, Sample, EnterTry, CheckStarted, Wake, TakeSize,
                PollTracker, PollRaises, Decision, TcpdumpDied, BelowTarget, StopIdle, StopTimedOut,
                KeepDraining, Decide, Finish, StopTcpdump, StopFails, WriteRecord, InterruptStop,
                Unsampled, fileVars, segmentVars
  <2> QED
    BY <2>1 DEF CountsHold
<1> QED
  BY <1>1, <1>2, <1>3, <1>4 DEF SegmentMoves, SegmentStep, RunSegment, Interrupt, Environment, Traffic

\* The ages that a sample moves on, and the ones a decision keeps or starts.
LEMMA AgesTyped ==
    ASSUME TypeOK, NEW seconds \in Intervals
    PROVE  /\ Older(targetAge, seconds, FinishTimeout) \in 0..FinishTimeout \cup {None}
           /\ Older(quietAge, seconds, IdleSeconds) \in 0..IdleSeconds \cup {None}
           /\ TargetAgeNow \in 0..FinishTimeout \cup {None}
           /\ QuietAgeNow \in 0..IdleSeconds \cup {None}
<1>1. seconds \in Nat /\ FinishTimeout \in Nat /\ IdleSeconds \in Nat
  BY IntervalsAssumption, ThresholdAssumption
<1>2. ASSUME NEW top \in Nat, NEW age \in 0..top \cup {None}
      PROVE  Older(age, seconds, top) \in 0..top \cup {None}
  <2>1. CASE age = None
    BY <2>1 DEF Older
  <2>2. CASE age \in 0..top /\ age # None
    <3>1. age + seconds \in Nat
      BY <1>1, <2>2
    <3> QED
      BY <2>2, <3>1, SaturateIsNat DEF Older
  <2> QED
    BY <2>1, <2>2
<1>3. targetAge \in 0..FinishTimeout \cup {None} /\ quietAge \in 0..IdleSeconds \cup {None}
  BY DEF TypeOK
<1>4. TargetAgeNow \in 0..FinishTimeout \cup {None} /\ QuietAgeNow \in 0..IdleSeconds \cup {None}
  BY <1>1, <1>3 DEF TargetAgeNow, QuietAgeNow
<1> QED
  BY <1>1, <1>2, <1>3, <1>4

LEMMA TrafficTyped ==
    ASSUME TypeOK, Traffic
    PROVE  TypeOK'
<1>1. PICK bytes \in Nat : Grow(bytes)
  BY FreshLimitIsNat DEF Traffic, FlowStarts, FlowEnds, Data
<1>2. size' \in 0..TargetBytes /\ fresh' \in 0..FreshLimit
  <2>1. /\ size \in 0..TargetBytes /\ fresh \in 0..FreshLimit
        /\ TargetBytes \in Nat /\ FreshLimit \in Nat
    BY FreshLimitIsNat, ThresholdAssumption DEF TypeOK
  <2>2. size + bytes \in Nat /\ fresh + bytes \in Nat
    BY <2>1
  <2> QED
    BY <1>1, <2>1, <2>2, SaturateIsNat DEF Grow
<1>3. opened' \in 0..MaxFlows /\ closed' \in 0..opened'
  BY MaxFlowsAssumption DEF Traffic, FlowStarts, FlowEnds, Data, TypeOK
<1>4. UNCHANGED <<tcpdump, pc, sampleVars, timerVars, stopReason, halfRead, record, calm, limit>>
  BY DEF Traffic, FlowStarts, FlowEnds, Data, Unsampled
<1> QED
  BY <1>2, <1>3, <1>4 DEF TypeOK, sampleVars, timerVars

LEMMA StartTyped ==
    ASSUME TypeOK, StartSegment
    PROVE  TypeOK'
<1>1. NoFlowStats \in Stats
  BY MaxFlowsAssumption DEF NoFlowStats, Stats
<1>2. /\ 0 \in 0..MaxFlows /\ 0 \in 0..0 /\ 0 \in 0..TargetBytes /\ 0 \in 0..FreshLimit
      /\ 0 \in 0..IdleSeconds
  BY MaxFlowsAssumption, ThresholdAssumption, FreshLimitIsNat
<1> QED
  BY <1>1, <1>2 DEF StartSegment, TypeOK, PcStates, StopReasons

LEMMA SampleTyped ==
    ASSUME TypeOK, CountsHold, Sample
    PROVE  TypeOK'
<1>1. CASE EnterTry \/ CheckStarted
  BY <1>1 DEF EnterTry, CheckStarted, TypeOK, PcStates, fileVars, sampleVars, timerVars
<1>2. CASE Wake
  <2>1. PICK seconds \in Intervals :
           /\ interval' = seconds
           /\ targetAge' = Older(targetAge, seconds, FinishTimeout)
           /\ quietAge' = Older(quietAge, seconds, IdleSeconds)
    BY <1>2 DEF Wake
  <2>2. /\ targetAge' \in 0..FinishTimeout \cup {None}
        /\ quietAge' \in 0..IdleSeconds \cup {None}
    BY <2>1, AgesTyped
  <2> QED
    BY <1>2, <2>1, <2>2 DEF Wake, TypeOK, PcStates, fileVars
<1>3. CASE TakeSize
  <2>1. large' \in BOOLEAN /\ quiet' \in BOOLEAN
    BY <1>3 DEF TakeSize
  <2> QED
    BY <1>3, <2>1, FreshLimitIsNat DEF TakeSize, TypeOK, PcStates, timerVars
<1>4. CASE PollTracker
  <2>1. polled' \in Stats
    BY <1>4, FlowStatsTyped DEF PollTracker
  <2>2. calm' \in 0..IdleSeconds
    <3>1. calm + interval \in Nat /\ IdleSeconds \in Nat
      BY IntervalsAssumption, ThresholdAssumption DEF TypeOK
    <3> QED
      BY <1>4, <3>1, SaturateIsNat DEF PollTracker
  <2> QED
    BY <1>4, <2>1, <2>2 DEF PollTracker, TypeOK, PcStates, fileVars, timerVars
<1>5. CASE PollRaises
  BY <1>5 DEF PollRaises, TypeOK, PcStates, fileVars, sampleVars, timerVars
<1> QED
  BY <1>1, <1>2, <1>3, <1>4, <1>5 DEF Sample

LEMMA DecisionTyped ==
    ASSUME TypeOK, Decision
    PROVE  TypeOK'
<1>1. IdleReason \in StopReasons /\ FinishTimedOut \in StopReasons
  BY LimitsAssumption DEF TypeOK, IdleReason, StopReasons, IdleReasons
<1>2. /\ targetAge' \in 0..FinishTimeout \cup {None} /\ quietAge' \in 0..IdleSeconds \cup {None}
      /\ stopReason' \in StopReasons
  <2>1. PICK seconds \in Intervals : TRUE
    BY IntervalsAssumption
  <2> QED
    BY <1>1, <2>1, AgesTyped
       DEF Decision, TcpdumpDied, BelowTarget, StopIdle, StopTimedOut, KeepDraining, timerVars, TypeOK
<1>3. pc' \in PcStates
  BY DEF Decision, TcpdumpDied, BelowTarget, StopIdle, StopTimedOut, KeepDraining, Decide, PcStates
<1>4. UNCHANGED <<tcpdump, fileVars, sampleVars, halfRead, record, calm, limit>>
  BY DEF Decision, TcpdumpDied, BelowTarget, StopIdle, StopTimedOut, KeepDraining, Decide
<1> QED
  BY <1>2, <1>3, <1>4 DEF TypeOK, fileVars, sampleVars

LEMMA RecordTyped ==
    ASSUME TypeOK, CountsHold, WriteRecord
    PROVE  TypeOK'
<1>1. PICK flows \in FinalStats : record' = SegmentRecord(flows)
  BY DEF WriteRecord
<1>2. flows \in Stats
  BY FinalStatsTyped
<1>3. record' \in Records
  <2>1. /\ (IF FlowMode THEN TargetFlows ELSE None) \in {TargetFlows, None}
        /\ stopReason \in StopReasons
    BY DEF TypeOK
  <2>2. (flows.total >= TargetFlows) \in BOOLEAN /\ (size >= TargetBytes) \in BOOLEAN
    OBVIOUS
  <2>3. (IF FlowMode THEN flows.total >= TargetFlows ELSE size >= TargetBytes) \in BOOLEAN
    <3>1. CASE FlowMode
      BY <2>2, <3>1
    <3>2. CASE ~FlowMode
      BY <2>2, <3>2
    <3> QED
      BY <3>1, <3>2
  <2> QED
    BY <1>1, <1>2, <2>1, <2>3 DEF SegmentRecord, Records
<1> QED
  BY <1>3 DEF WriteRecord, TypeOK, PcStates, Done, fileVars, sampleVars, timerVars

LEMMA TypeStep ==
    ASSUME TypeOK, CountsHold, SegmentMoves
    PROVE  TypeOK'
<1>1. CASE StopTcpdump \/ StopFails \/ StartFails \/ TcpdumpExits
  BY <1>1 DEF StopTcpdump, StopFails, StartFails, TcpdumpExits, TypeOK, PcStates, Done, fileVars,
              sampleVars, timerVars
<1>2. CASE Interrupt
  <2>1. halfRead' \in {"nothing", "twice", "unowned"}
    BY <1>2 DEF Interrupt, InterruptLoop, InterruptStop, CutPoll, TypeOK
  <2> QED
    BY <1>2, <2>1 DEF Interrupt, InterruptLoop, InterruptStop, TypeOK, PcStates, Done, fileVars,
                      sampleVars, timerVars
<1>3. CASE UNCHANGED segmentVars
  BY <1>3 DEF segmentVars, TypeOK, fileVars, sampleVars, timerVars
<1> QED
  BY <1>1, <1>2, <1>3, TrafficTyped, StartTyped, SampleTyped, DecisionTyped, RecordTyped
     DEF SegmentMoves, SegmentStep, RunSegment, Finish, Environment

-----------------------------------------------------------------------------
(* Samples and the record *)

LEMMA SamplesHoldStep ==
    ASSUME TypeOK, CountsHold, SamplesHold, SegmentMoves
    PROVE  SamplesHold'
<1>1. CASE StartSegment
  BY <1>1 DEF StartSegment, SamplesHold, NoFlowStats
<1>2. CASE Traffic
  <2>1. /\ opened' >= opened
        /\ UNCHANGED <<polled, large, limit>>
    BY <1>2 DEF Traffic, FlowStarts, FlowEnds, Data, Unsampled, sampleVars, TypeOK
  <2>2. size >= TargetBytes => size' >= TargetBytes
    <3>1. PICK bytes \in Nat : size' = IF FlowMode THEN size ELSE Saturate(size + bytes, TargetBytes)
      BY <1>2, FreshLimitIsNat DEF Traffic, FlowStarts, FlowEnds, Data, Grow
    <3>2. size \in Nat /\ TargetBytes \in Nat
      BY ThresholdAssumption DEF TypeOK
    <3> QED
      BY <3>1, <3>2 DEF Saturate
  <2>3. opened \in Nat /\ opened' \in Nat /\ polled.total \in Nat
    BY <1>2, MaxFlowsAssumption DEF TypeOK, Stats, Traffic, FlowStarts, FlowEnds, Data
  <2> QED
    BY <2>1, <2>2, <2>3 DEF SamplesHold, FlowMode
<1>3. CASE TakeSize
  BY <1>3 DEF TakeSize, SamplesHold, FlowMode
<1>4. CASE PollTracker
  <2>1. PolledStats.total <= opened
    BY FlowStatsTyped
  <2> QED
    BY <1>4, <2>1 DEF PollTracker, SamplesHold, PolledStats, FlowMode, fileVars
<1>5. CASE \/ UNCHANGED segmentVars \/ StartFails \/ TcpdumpExits \/ EnterTry \/ CheckStarted \/ Wake
           \/ PollRaises \/ Decision \/ Finish \/ Interrupt
  <2>1. UNCHANGED <<opened, size, polled, large, limit>>
    BY <1>5 DEF StartFails, TcpdumpExits, EnterTry, CheckStarted, Wake, PollRaises, Decision, TcpdumpDied,
                BelowTarget, StopIdle, StopTimedOut, KeepDraining, Decide, Finish, StopTcpdump,
                StopFails, WriteRecord, Interrupt, InterruptLoop, InterruptStop, fileVars,
                sampleVars, segmentVars
  <2> QED
    BY <2>1 DEF SamplesHold, FlowMode
<1> QED
  BY <1>1, <1>2, <1>3, <1>4, <1>5
     DEF SegmentMoves, SegmentStep, RunSegment, Sample, Environment

\* Between the exit of tcpdump and the next segment the file stays as it is.
LEMMA FileKept ==
    ASSUME RecordOfFile, UNCHANGED <<opened, closed, size, limit, halfRead, record>>,
           tcpdump' = "exited"
    PROVE  RecordOfFile'
<1>1. FinalStats' = FinalStats /\ FlowMode' = FlowMode
  BY DEF FinalStats, StillOpen, PolledStats, FlowStats, FlowMode
<1> QED
  BY <1>1 DEF RecordOfFile

LEMMA WriteMatches ==
    ASSUME RecordMatches, WriteRecord
    PROVE  RecordOfFile'
<1>1. PICK flows \in FinalStats : record' = SegmentRecord(flows)
  BY DEF WriteRecord
<1>2. /\ record'.flows = flows
      /\ record'.target_flows = (IF FlowMode THEN TargetFlows ELSE None)
      /\ record'.target_met = (IF FlowMode THEN flows.total >= TargetFlows
                                           ELSE size >= TargetBytes)
      /\ DOMAIN record' = {"target_flows", "target_met", "flows", "stop_reason"}
  BY <1>1 DEF SegmentRecord
<1>3. /\ UNCHANGED <<opened, closed, size, limit, halfRead, tcpdump>>
      /\ tcpdump = "exited"
  BY DEF WriteRecord, fileVars, RecordMatches
<1>4. FinalStats' = FinalStats /\ FlowMode' = FlowMode
  BY <1>3 DEF FinalStats, StillOpen, PolledStats, FlowStats, FlowMode
<1> QED
  BY <1>1, <1>2, <1>3, <1>4 DEF RecordOfFile

LEMMA RecordMatchesStep ==
    ASSUME RecordMatches, SegmentMoves
    PROVE  RecordMatches'
<1>1. CASE StartSegment
  BY <1>1 DEF StartSegment, RecordMatches, Recorded
<1>2. CASE Traffic
  <2>1. tcpdump = "running" /\ UNCHANGED <<pc, tcpdump, record>>
    BY <1>2 DEF Traffic, FlowStarts, FlowEnds, Data, Unsampled
  <2> QED
    BY <2>1 DEF RecordMatches, Recorded, RecordOfFile
<1>3. CASE WriteRecord
  <2>1. pc' = "returned" /\ tcpdump' = "exited"
    BY <1>3 DEF WriteRecord, RecordMatches
  <2> QED
    BY <1>3, <2>1, WriteMatches DEF RecordMatches, Done
<1>4. CASE TcpdumpExits \/ UNCHANGED segmentVars \/ StartFails
  <2>1. /\ UNCHANGED <<opened, closed, size, limit, halfRead, record>>
        /\ tcpdump = "exited" => tcpdump' = "exited"
        /\ pc' = pc \/ (pc = "ready" /\ pc' = "raised")
    BY <1>4 DEF TcpdumpExits, StartFails, segmentVars, fileVars
  <2>2. Recorded' => Recorded
    BY <2>1 DEF Recorded
  <2>3. Recorded => RecordOfFile'
    BY <2>1, FileKept DEF RecordMatches, RecordOfFile
  <2> QED
    BY <2>1, <2>2, <2>3 DEF RecordMatches, Done
<1>5. CASE Sample \/ Decision \/ StopTcpdump \/ StopFails \/ InterruptLoop \/ InterruptStop
  <2>1. /\ pc \notin {"ready"} \cup Done
        /\ record' = record \/ record' \in {None, Torn}
        /\ pc' # "returned"
    BY <1>5 DEF Sample, EnterTry, CheckStarted, Wake, TakeSize, PollTracker, PollRaises, Decision, TcpdumpDied,
                BelowTarget, StopIdle, StopTimedOut, KeepDraining, Decide, StopTcpdump, StopFails,
                InterruptLoop, InterruptStop, InTryBlock, Done
  <2>2. ~Recorded'
    BY <2>1 DEF RecordMatches, Recorded
  <2>3. pc' \in {"recording", "returned"} => tcpdump' = "exited"
    BY <1>5 DEF Sample, EnterTry, CheckStarted, Wake, TakeSize, PollTracker, PollRaises, Decision, TcpdumpDied,
                BelowTarget, StopIdle, StopTimedOut, KeepDraining, Decide, StopTcpdump, StopFails,
                InterruptLoop, InterruptStop
  <2> QED
    BY <2>2, <2>3 DEF RecordMatches
<1> QED
  BY <1>1, <1>2, <1>3, <1>4, <1>5
     DEF SegmentMoves, SegmentStep, RunSegment, Finish, Interrupt, Environment

\* Only a new record names a new reason.
LEMMA RecordNamesReasonStep ==
    ASSUME RecordMatches, RecordNamesReason, SegmentMoves
    PROVE  RecordNamesReason'
<1>1. CASE StartSegment
  BY <1>1 DEF StartSegment, RecordNamesReason, Recorded
<1>2. CASE WriteRecord
  <2>1. PICK flows \in FinalStats : record' = SegmentRecord(flows)
    BY <1>2 DEF WriteRecord
  <2>2. record'.stop_reason = stopReason
    BY <2>1 DEF SegmentRecord
  <2> QED
    BY <1>2, <2>2 DEF WriteRecord, RecordNamesReason
<1>3. CASE UNCHANGED segmentVars \/ StartFails \/ Environment
  <2>1. UNCHANGED <<record, stopReason>> /\ (pc' = "returned" => pc = "returned")
    BY <1>3 DEF StartFails, Environment, Traffic, FlowStarts, FlowEnds, Data, TcpdumpExits, Unsampled,
                segmentVars
  <2> QED
    BY <2>1 DEF RecordNamesReason, Recorded
<1>4. CASE Sample \/ Decision \/ StopTcpdump \/ StopFails \/ Interrupt
  <2>1. /\ pc \notin {"ready"} \cup Done
        /\ record' = record \/ record' \in {None, Torn}
        /\ pc' # "returned"
    BY <1>4 DEF Sample, EnterTry, CheckStarted, Wake, TakeSize, PollTracker, PollRaises, Decision, TcpdumpDied,
                BelowTarget, StopIdle, StopTimedOut, KeepDraining, Decide, StopTcpdump, StopFails,
                Interrupt, InterruptLoop, InterruptStop, InTryBlock, Done
  <2> QED
    BY <2>1 DEF RecordMatches, RecordNamesReason, Recorded
<1> QED
  BY <1>1, <1>2, <1>3, <1>4
     DEF SegmentMoves, SegmentStep, RunSegment, Finish

-----------------------------------------------------------------------------
(* The reason and the timer *)

LEMMA TargetInFileLasts ==
    ASSUME TypeOK, Traffic, TargetInFile
    PROVE  TargetInFile'
<1>1. UNCHANGED limit /\ opened' >= opened /\ opened \in Nat /\ opened' \in Nat
  BY MaxFlowsAssumption DEF Traffic, FlowStarts, FlowEnds, Data, Unsampled, TypeOK
<1>2. PICK bytes \in Nat : size' = IF FlowMode THEN size ELSE Saturate(size + bytes, TargetBytes)
  BY FreshLimitIsNat DEF Traffic, FlowStarts, FlowEnds, Data, Grow
<1>3. size \in Nat /\ TargetBytes \in Nat /\ TargetFlows \in Nat
  BY ThresholdAssumption DEF TypeOK
<1>4. size >= TargetBytes => size' >= TargetBytes
  BY <1>2, <1>3 DEF Saturate
<1> QED
  BY <1>1, <1>3, <1>4 DEF TargetInFile, FlowMode

LEMMA SampledTargetInFile ==
    ASSUME TypeOK, SamplesHold, TargetReached
    PROVE  TargetInFile
  BY ThresholdAssumption, MaxFlowsAssumption DEF TypeOK, Stats, SamplesHold, TargetReached, TargetInFile

LEMMA ReasonHoldsStep ==
    ASSUME TypeOK, SamplesHold, ReasonHolds, SegmentMoves
    PROVE  ReasonHolds'
<1>1. CASE StartSegment
  BY <1>1 DEF StartSegment, ReasonHolds
<1>2. CASE Traffic
  <2>1. UNCHANGED <<pc, stopReason, halfRead>>
    BY <1>2 DEF Traffic, FlowStarts, FlowEnds, Data, Unsampled
  <2> QED
    BY <1>2, <2>1, TargetInFileLasts DEF ReasonHolds
<1>3. CASE StopIdle \/ StopTimedOut
  <2>1. TargetInFile /\ halfRead = "nothing"
    BY <1>3, SampledTargetInFile DEF StopIdle, StopTimedOut, Decide, ReasonHolds
  <2>2. pc' = "stopping" /\ UNCHANGED <<opened, size, limit, halfRead>>
    BY <1>3 DEF StopIdle, StopTimedOut, Decide, fileVars
  <2> QED
    BY <2>1, <2>2 DEF ReasonHolds, TargetInFile, FlowMode
<1>4. CASE InterruptLoop
  BY <1>4 DEF InterruptLoop, InTryBlock, fileVars, ReasonHolds, TargetInFile, FlowMode
<1>5. CASE \/ UNCHANGED segmentVars \/ StartFails \/ TcpdumpExits \/ Sample \/ TcpdumpDied
           \/ BelowTarget \/ KeepDraining \/ Finish \/ InterruptStop
  <2>1. UNCHANGED <<opened, size, limit, stopReason, halfRead>>
    BY <1>5 DEF StartFails, TcpdumpExits, Sample, EnterTry, CheckStarted, Wake, TakeSize, PollTracker, PollRaises,
                TcpdumpDied, BelowTarget, KeepDraining, Decide, Finish, StopTcpdump, StopFails,
                WriteRecord, InterruptStop, fileVars, segmentVars
  <2>2. \/ pc' = pc
        \/ pc \in {"launched", "starting", "asleep", "sizing", "polling", "deciding", "failing"}
        \/ pc' \in {"raised", "recording", "returned"}
    BY <1>5 DEF StartFails, TcpdumpExits, Sample, EnterTry, CheckStarted, Wake, TakeSize, PollTracker, PollRaises,
                TcpdumpDied, BelowTarget, KeepDraining, Decide, Finish, StopTcpdump, StopFails,
                WriteRecord, InterruptStop, segmentVars
  <2> QED
    BY <2>1, <2>2 DEF ReasonHolds, TargetInFile, FlowMode
<1> QED
  BY <1>1, <1>2, <1>3, <1>4, <1>5
     DEF SegmentMoves, SegmentStep, RunSegment, Decision, Interrupt, Environment

\* Later is not less, below the threshold and at it.
LEMMA SaturateOrder ==
    ASSUME NEW m \in Nat, NEW n \in Nat, NEW top \in Nat, m <= n
    PROVE  Saturate(m, top) <= Saturate(n, top)
  BY DEF Saturate

\* A poll never counts less than the one before.
LEMMA PollsGrow ==
    ASSUME TypeOK, SamplesHold, FlowMode, polled.total >= TargetFlows
    PROVE  PolledStats.total >= TargetFlows
<1>1. PolledStats.total = opened
  BY DEF PolledStats, FlowStats
<1>2. polled.total \in Nat /\ opened \in Nat /\ TargetFlows \in Nat /\ polled.total <= opened
  BY ThresholdAssumption, MaxFlowsAssumption DEF TypeOK, Stats, SamplesHold
<1> QED
  BY <1>1, <1>2

\* The timer that runs after a sample at the target is backed by calm seconds.
LEMMA CalmBacksTimer ==
    ASSUME TypeOK, SamplesHold, TimerHolds, pc = "deciding", QuietAgeNow # None
    PROVE  calm >= QuietAgeNow
<1>1. calm \in Nat
  BY ThresholdAssumption DEF TypeOK
<1>2. quiet /\ polled.active = 0
  BY DEF QuietAgeNow, SamplesHold, NoFlowStats
<1>3. CASE quietAge = None
  BY <1>1, <1>2, <1>3 DEF QuietAgeNow
<1>4. CASE quietAge # None
  BY <1>2, <1>4 DEF QuietAgeNow, TimerHolds, Idling
<1> QED
  BY <1>3, <1>4

LEMMA SampleKeepsTimer ==
    ASSUME TypeOK, CountsHold, SamplesHold, ReasonHolds, TimerHolds, Sample
    PROVE  TimerHolds'
<1>1. CASE EnterTry \/ CheckStarted
  <2>1. /\ UNCHANGED <<interval, quiet, large, polled, quietAge, stopReason, calm, limit>>
        /\ pc \in {"launched", "starting"} /\ pc' \in {"starting", "failing", "asleep"}
        /\ pc' = "asleep" => pc = "starting"
    BY <1>1 DEF EnterTry, CheckStarted, sampleVars, timerVars
  <2> QED
    BY <2>1 DEF TimerHolds, Idling, FlowMode
<1>2. CASE Wake
  <2>1. PICK seconds \in Intervals :
           interval' = seconds /\ quietAge' = Older(quietAge, seconds, IdleSeconds)
    BY <1>2 DEF Wake
  <2>2. /\ pc = "asleep" /\ pc' = "sizing"
        /\ UNCHANGED <<polled, large, limit, calm, stopReason>>
    BY <1>2 DEF Wake
  <2>3. Idling' => Idling
    BY <2>1 DEF Older, Idling
  <2>4. Idling' => Saturate(calm' + interval', IdleSeconds) >= quietAge'
    <3>1. SUFFICES ASSUME Idling'
                   PROVE  Saturate(calm + seconds, IdleSeconds) >= quietAge'
      BY <2>1, <2>2
    <3>2. /\ seconds \in Nat /\ IdleSeconds \in Nat /\ calm \in Nat
          /\ quietAge \in Nat /\ calm >= quietAge
          /\ quietAge' = Saturate(quietAge + seconds, IdleSeconds)
      BY <2>1, <2>2, <2>3, <3>1, IntervalsAssumption, ThresholdAssumption
         DEF TypeOK, TimerHolds, Idling, Older
    <3>3. calm + seconds \in Nat /\ quietAge + seconds \in Nat /\ quietAge + seconds <= calm + seconds
      BY <3>2
    <3> DEFINE before == quietAge + seconds
               now == calm + seconds
    <3>4. before \in Nat /\ now \in Nat /\ before <= now
      BY <3>3
    <3> HIDE DEF before, now
    <3>5. Saturate(before, IdleSeconds) <= Saturate(now, IdleSeconds)
      BY <3>2, <3>4, SaturateOrder
    <3>6. Saturate(before, IdleSeconds) \in 0..IdleSeconds /\ Saturate(now, IdleSeconds) \in 0..IdleSeconds
      BY <3>2, <3>4, SaturateIsNat
    <3>7. Saturate(now, IdleSeconds) >= Saturate(before, IdleSeconds)
      BY <3>2, <3>5, <3>6
    <3> QED
      BY <3>2, <3>7 DEF before, now
  <2> QED
    BY <2>2, <2>3, <2>4 DEF TimerHolds, FlowMode
<1>3. CASE TakeSize
  <2>1. /\ pc = "sizing" /\ pc' = "polling"
        /\ UNCHANGED <<polled, limit, calm, stopReason, interval, quietAge>>
        /\ large => large'
    BY <1>3 DEF TakeSize, timerVars, SamplesHold
  <2> QED
    BY <2>1 DEF TimerHolds, FlowMode, Idling
<1>4. CASE PollTracker
  <2>1. /\ pc = "polling" /\ pc' = "deciding"
        /\ polled' = PolledStats
        /\ calm' = (IF quiet /\ PolledStats.active = 0
                    THEN Saturate(calm + interval, IdleSeconds) ELSE 0)
        /\ UNCHANGED <<large, quiet, limit, quietAge, stopReason>>
    BY <1>4 DEF PollTracker, timerVars
  <2>2. FlowMode /\ polled.total >= TargetFlows => polled'.total >= TargetFlows
    BY <2>1, PollsGrow
  <2>3. stopReason' \notin IdleReasons
    BY <2>1 DEF ReasonHolds, IdleReasons, AllFlowsClosed, UdpIdle, TrafficIdle
  <2>4. Idling' /\ quiet' /\ polled'.active = 0 => calm' >= quietAge'
    BY <2>1 DEF TimerHolds, Idling
  <2> QED
    BY <2>1, <2>2, <2>3, <2>4 DEF TimerHolds, FlowMode, Idling
<1>5. CASE PollRaises
  BY <1>5 DEF PollRaises, sampleVars, timerVars, ReasonHolds, TimerHolds, FlowMode, Idling
<1> QED
  BY <1>1, <1>2, <1>3, <1>4, <1>5 DEF Sample

LEMMA DecisionKeepsTimer ==
    ASSUME TypeOK, SamplesHold, ReasonHolds, TimerHolds, Decision
    PROVE  TimerHolds'
<1>1. pc = "deciding" /\ stopReason = "interrupted"
  BY DEF Decision, TcpdumpDied, BelowTarget, StopIdle, StopTimedOut, KeepDraining, Decide, ReasonHolds
<1>2. UNCHANGED <<polled, large, limit, calm>>
  BY DEF Decision, TcpdumpDied, BelowTarget, StopIdle, StopTimedOut, KeepDraining, Decide, sampleVars
<1>3. CASE TcpdumpDied
  BY <1>1, <1>2, <1>3 DEF TcpdumpDied, timerVars, TimerHolds, FlowMode, Idling
<1>4. CASE BelowTarget
  <2>1. ~Idling /\ quietAge' = quietAge /\ stopReason' = stopReason
    BY <1>4 DEF BelowTarget, timerVars, TimerHolds, TargetReached
  <2> QED
    BY <1>1, <1>2, <2>1 DEF TimerHolds, Idling
<1>5. CASE StopIdle \/ StopTimedOut \/ KeepDraining
  <2>1. TargetReached /\ quietAge' = QuietAgeNow /\ pc' \in {"stopping", "asleep"}
    BY <1>5 DEF StopIdle, StopTimedOut, KeepDraining, Decide
  <2>2. Idling' => calm' >= quietAge'
    BY <1>1, <1>2, <2>1, CalmBacksTimer DEF Idling
  <2>3. stopReason' \in IdleReasons => calm' >= IdleSeconds
    <3>1. CASE StopIdle
      <4>1. QuietAgeNow # None /\ QuietAgeNow >= IdleSeconds /\ calm >= QuietAgeNow
        BY <1>1, <3>1, CalmBacksTimer DEF StopIdle, IdleLongEnough
      <4>2. QuietAgeNow \in Nat /\ IdleSeconds \in Nat /\ calm \in Nat
        <5>1. PICK seconds \in Intervals : TRUE
          BY IntervalsAssumption
        <5> QED
          BY <4>1, <5>1, AgesTyped, ThresholdAssumption DEF TypeOK
      <4> QED
        BY <1>2, <4>1, <4>2
    <3>2. CASE StopTimedOut \/ KeepDraining
      <4>1. stopReason' \in {FinishTimedOut, "interrupted"}
        BY <1>1, <3>2 DEF StopTimedOut, KeepDraining
      <4> QED
        BY <4>1 DEF FinishTimedOut, IdleReasons, AllFlowsClosed, UdpIdle, TrafficIdle
    <3> QED
      BY <1>5, <3>1, <3>2
  <2>4. IF FlowMode' THEN polled'.total >= TargetFlows ELSE large'
    BY <1>2, <2>1 DEF TargetReached, FlowMode
  <2> QED
    BY <2>1, <2>2, <2>3, <2>4 DEF TimerHolds
<1> QED
  BY <1>3, <1>4, <1>5 DEF Decision

LEMMA TimerHoldsStep ==
    ASSUME TypeOK, CountsHold, SamplesHold, ReasonHolds, TimerHolds, SegmentMoves
    PROVE  TimerHolds'
<1>1. CASE StartSegment
  BY <1>1 DEF StartSegment, TimerHolds, Idling, IdleReasons, AllFlowsClosed, UdpIdle, TrafficIdle
<1>2. CASE UNCHANGED segmentVars \/ StartFails \/ Environment \/ Finish \/ Interrupt
  <2>1. UNCHANGED <<interval, quiet, large, polled, quietAge, stopReason, calm, limit>>
    BY <1>2 DEF StartFails, Environment, Traffic, FlowStarts, FlowEnds, Data, TcpdumpExits, Unsampled,
                Finish, StopTcpdump, StopFails, WriteRecord, Interrupt, InterruptLoop, InterruptStop,
                sampleVars, timerVars, segmentVars
  <2>2. pc' = pc \/ pc' \in {"stopping", "recording"} \cup Done
    BY <1>2 DEF StartFails, Environment, Traffic, FlowStarts, FlowEnds, Data, TcpdumpExits, Unsampled,
                Finish, StopTcpdump, StopFails, WriteRecord, Interrupt, InterruptLoop, InterruptStop,
                Done, segmentVars
  <2> QED
    BY <2>1, <2>2 DEF TimerHolds, Idling, FlowMode, Done
<1> QED
  BY <1>1, <1>2, SampleKeepsTimer, DecisionKeepsTimer DEF SegmentMoves, SegmentStep, RunSegment

-----------------------------------------------------------------------------
(* The whole invariant *)

LEMMA SegmentInvInitially == SegmentInit => SegmentInv /\ RecordNamesReason
<1> SUFFICES ASSUME SegmentInit PROVE SegmentInv /\ RecordNamesReason
  OBVIOUS
<1>1. NoFlowStats \in Stats
  BY MaxFlowsAssumption DEF NoFlowStats, Stats
<1>2. /\ 0 \in 0..MaxFlows /\ 0 \in 0..0 /\ 0 \in 0..TargetBytes /\ 0 \in 0..FreshLimit
      /\ 0 \in 0..IdleSeconds
  BY MaxFlowsAssumption, ThresholdAssumption, FreshLimitIsNat
<1>3. TypeOK
  BY <1>1, <1>2 DEF SegmentInit, TypeOK, PcStates, StopReasons
<1>4. CountsHold /\ SamplesHold
  BY <1>2 DEF SegmentInit, CountsHold, SamplesHold, NoFlowStats
<1>5. RecordMatches /\ RecordNamesReason
  BY DEF SegmentInit, RecordMatches, RecordNamesReason, Recorded
<1>6. ReasonHolds /\ TimerHolds
  BY DEF SegmentInit, ReasonHolds, TimerHolds, Idling, IdleReasons, AllFlowsClosed, UdpIdle,
         TrafficIdle
<1> QED
  BY <1>3, <1>4, <1>5, <1>6 DEF SegmentInv

LEMMA SegmentInvStep ==
    ASSUME SegmentInv, RecordNamesReason, SegmentMoves
    PROVE  SegmentInv' /\ RecordNamesReason'
  BY CountsHoldStep, TypeStep, SamplesHoldStep, RecordMatchesStep, RecordNamesReasonStep,
     ReasonHoldsStep, TimerHoldsStep DEF SegmentInv

\* A series that gets ready for the next segment changes nothing else.
LEMMA SegmentInvReady ==
    ASSUME SegmentInv, RecordNamesReason, pc = "returned", pc' = "ready",
           UNCHANGED <<tcpdump, fileVars, sampleVars, timerVars, stopReason, halfRead, record, calm,
                       limit>>
    PROVE  SegmentInv' /\ RecordNamesReason'
<1>1. UNCHANGED <<opened, closed, size, fresh, interval, quiet, large, polled, targetAge, quietAge>>
  BY DEF fileVars, sampleVars, timerVars
<1>2. TypeOK'
  BY <1>1 DEF SegmentInv, TypeOK, PcStates
<1>3. CountsHold' /\ SamplesHold'
  BY <1>1 DEF SegmentInv, CountsHold, SamplesHold, FlowMode
<1>4. Recorded /\ RecordOfFile /\ tcpdump' = "exited"
  BY DEF SegmentInv, RecordMatches, Recorded
<1>5. RecordOfFile'
  BY <1>1, <1>4, FileKept
<1>6. RecordMatches' /\ RecordNamesReason'
  BY <1>4, <1>5 DEF RecordMatches, RecordNamesReason
<1>7. ReasonHolds' /\ TimerHolds'
  BY <1>1 DEF SegmentInv, ReasonHolds, TimerHolds, TargetInFile, FlowMode, Idling
<1> QED
  BY <1>2, <1>3, <1>6, <1>7 DEF SegmentInv

-----------------------------------------------------------------------------
(* What it gives *)

LEMMA InvDescribesSealedFile ==
    ASSUME SegmentInv, RecordNamesReason
    PROVE  RecordDescribesSealedFile
<1> SUFFICES ASSUME pc = "returned"
             PROVE  /\ tcpdump = "exited"
                    /\ IF record.stop_reason = "interrupted"
                       THEN /\ record.flows.total - PolledStats.total \in {0, 1}
                            /\ record.flows.active - PolledStats.active \in {0, 1}
                       ELSE record.flows = PolledStats /\ record.target_met
                    /\ ~FlowMode => record.target_met = (size >= TargetBytes)
  BY DEF RecordDescribesSealedFile
<1>1. RecordOfFile /\ record.stop_reason = stopReason
  BY DEF SegmentInv, RecordMatches, RecordNamesReason, Recorded
<1>2. record.flows \in FinalStats /\ CountsHold
  BY <1>1 DEF RecordOfFile, SegmentInv
<1>3. /\ record.flows.total - PolledStats.total \in {0, 1}
      /\ record.flows.active - PolledStats.active \in {0, 1}
  BY <1>2, FinalStatsTyped
<1>4. ASSUME stopReason # "interrupted"
      PROVE  record.flows = PolledStats /\ record.target_met
  <2>1. TargetInFile /\ halfRead = "nothing"
    BY <1>4 DEF SegmentInv, ReasonHolds
  <2>2. record.flows = PolledStats
    BY <1>2, <2>1 DEF FinalStats
  <2>3. FlowMode => PolledStats.total = opened
    BY DEF PolledStats, FlowStats
  <2> QED
    BY <1>1, <2>1, <2>2, <2>3 DEF RecordOfFile, TargetInFile
<1> QED
  BY <1>1, <1>3, <1>4 DEF RecordOfFile

LEMMA InvMeansCalm ==
    ASSUME SegmentInv, RecordNamesReason
    PROVE  IdleMeansCalm
  BY DEF SegmentInv, TimerHolds, RecordNamesReason, Recorded, IdleMeansCalm

LEMMA InvAcceptsWhole ==
    ASSUME SegmentInv, RecordNamesReason
    PROVE  AcceptedSegmentIsWhole
<1> SUFFICES ASSUME Accepted
             PROVE  /\ tcpdump = "exited"
                    /\ IF FlowMode THEN opened >= TargetFlows ELSE size >= TargetBytes
                    /\ limit = "tcp_flows" => opened = closed
  BY DEF AcceptedSegmentIsWhole
<1>1. RecordOfFile /\ CountsHold /\ CompletionPasses(record, Transport)
  BY DEF Accepted, SegmentInv, RecordMatches, Recorded
<1>2. CASE FlowMode
  <2>1. record.target_flows = TargetFlows /\ record.target_flows # None
    BY <1>1, <1>2, ThresholdAssumption, AbsentAssumption DEF RecordOfFile
  <2>2. record.flows.total >= TargetFlows
    BY <1>1, <2>1 DEF CompletionPasses
  <2>3. limit = "tcp_flows" => record.flows.active = 0
    BY <1>1, <2>1 DEF CompletionPasses, Transport
  <2>4. record.flows \in FinalStats
    BY <1>1 DEF RecordOfFile
  <2>5. record.flows = PolledStats
    BY <1>1, <2>3, <2>4, FinalStatsTyped
  <2>6. PolledStats.total = opened
    BY <1>2 DEF PolledStats, FlowStats
  <2>7. limit = "tcp_flows" => opened = closed
    BY <1>1, <1>2, <2>3, <2>5, MaxFlowsAssumption DEF PolledStats, FlowStats, CountsHold
  <2> QED
    BY <1>1, <1>2, <2>2, <2>5, <2>6, <2>7 DEF RecordOfFile
<1>3. CASE ~FlowMode
  <2>1. record.target_flows = None /\ record.target_met = (size >= TargetBytes)
    BY <1>1, <1>3 DEF RecordOfFile
  <2>2. record.target_met # FALSE
    BY <1>1, <2>1 DEF CompletionPasses
  <2>3. size \in Nat /\ TargetBytes \in Nat
    BY ThresholdAssumption DEF SegmentInv, TypeOK
  <2>4. ~(size >= TargetBytes) => (size >= TargetBytes) = FALSE
    BY <2>3
  <2>5. size >= TargetBytes
    BY <2>1, <2>2, <2>4
  <2> QED
    BY <1>1, <1>3, <2>5 DEF RecordOfFile, FlowMode
<1> QED
  BY <1>2, <1>3

=============================================================================
