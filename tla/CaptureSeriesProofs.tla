------------------------- MODULE CaptureSeriesProofs -------------------------
(***************************************************************************)
(* What the two series built of capture segments keep.                     *)
(*                                                                         *)
(* run_segmented_capture: no two captures run at once, the series          *)
(* implements CaptureSeries, and its records are right about their files,  *)
(* for any limits, thresholds, sample intervals and number of segments.    *)
(* timed-series.sh: the same of its captures and records, whatever the     *)
(* timer, its kill and the operator do to lab.                             *)
(***************************************************************************)
EXTENDS SegmentedCapture, TimedSeries, CaptureSegmentProofs

-----------------------------------------------------------------------------
(* One capture at a time *)

\* A tcpdump that still runs belongs to a segment that is not yet stopped, or
\* that raised: nothing that returns, and nothing that is yet to start, has one.
StoppedWithSegment == pc \in {"ready", "recording", "returned"} => tcpdump # "running"

LEMMA StoppedInitially == Init => StoppedWithSegment
  BY DEF Init, SegmentInit, StoppedWithSegment

\* The steps of the segment itself: only stop_tcpdump leads to the record.
LEMMA SegmentKeepsStopped ==
    ASSUME StoppedWithSegment, RunSegment \/ Interrupt \/ StartSegment \/ StartFails
    PROVE  StoppedWithSegment'
<1>1. CASE Sample
  BY <1>1 DEF Sample, EnterTry, CheckStarted, Wake, TakeSize, PollTracker, PollRaises, StoppedWithSegment
<1>2. CASE Decision
  BY <1>2 DEF Decision, TcpdumpDied, BelowTarget, StopIdle, StopTimedOut, KeepDraining, Decide,
              StoppedWithSegment
<1>3. CASE Finish
  BY <1>3 DEF Finish, StopTcpdump, StopFails, WriteRecord, StoppedWithSegment
<1>4. CASE Interrupt
  BY <1>4 DEF Interrupt, InterruptLoop, InterruptStop, StoppedWithSegment
<1>5. CASE StartSegment \/ StartFails
  BY <1>5 DEF StartSegment, StartFails, StoppedWithSegment
<1> QED
  BY <1>1, <1>2, <1>3, <1>4, <1>5 DEF RunSegment

\* Traffic moves no pc and starts no tcpdump.
LEMMA EnvironmentKeepsStopped ==
    ASSUME StoppedWithSegment, Environment
    PROVE  StoppedWithSegment'
  BY DEF Environment, Traffic, FlowStarts, FlowEnds, Data, TcpdumpExits, Unsampled,
         StoppedWithSegment

\* The series only goes on from a segment that returned.
LEMMA SeriesKeepsStopped ==
    ASSUME StoppedWithSegment, [Next]_vars
    PROVE  StoppedWithSegment'
<1>1. CASE BeginSegment \/ RunSegment \/ InterruptSegment
  BY <1>1, SegmentKeepsStopped DEF BeginSegment, InterruptSegment
<1>2. CASE SegmentReturns
  BY <1>2 DEF SegmentReturns, StoppedWithSegment
<1>3. CASE SudoRefused \/ SegmentRaises \/ InterruptSeries \/ SudoExpires \/ SudoAuthorized
  BY <1>3 DEF SudoRefused, SegmentRaises, InterruptSeries, SudoExpires, SudoAuthorized,
              segmentVars, StoppedWithSegment
<1>4. CASE Environment
  BY <1>4, EnvironmentKeepsStopped
<1>5. CASE UNCHANGED vars
  BY <1>5 DEF vars, segmentVars, StoppedWithSegment
<1> QED
  BY <1>1, <1>2, <1>3, <1>4, <1>5 DEF Next, RunSeries

\* A new segment starts where the last one left no tcpdump.
LEMMA BeginsAlone ==
    ASSUME StoppedWithSegment, [Next]_vars, segmentIndex' # segmentIndex
    PROVE  tcpdump # "running"
<1>1. BeginSegment
  BY DEF Next, RunSeries, SudoRefused, SegmentReturns, SegmentRaises, InterruptSegment,
         InterruptSeries, SudoExpires, SudoAuthorized, seriesVars, vars
<1> QED
  BY <1>1 DEF BeginSegment, BetweenSegments, StoppedWithSegment

\* A capture that could not be stopped is the last of its series
\* (segmented.py:105-144): never do two tcpdumps write at once.
THEOREM OneAtATime == Spec => OneCaptureAtATime
<1>1. Init => StoppedWithSegment
  BY StoppedInitially
<1>2. StoppedWithSegment /\ [Next]_vars => StoppedWithSegment'
  BY SeriesKeepsStopped
<1>3. StoppedWithSegment /\ [Next]_vars =>
          [segmentIndex' # segmentIndex => tcpdump # "running"]_vars
  BY BeginsAlone
<1> QED
  BY <1>1, <1>2, <1>3, PTL DEF Spec, OneCaptureAtATime

-----------------------------------------------------------------------------
(* The promise of CaptureSeries *)

\* A segment's reason, in the variable and in the record it returns with.
ReasonNamed ==
    /\ limit \in Limits /\ stopReason \in StopReasons
    /\ pc = "returned" => record.stop_reason \in StopReasons

\* A running series has a session for every segment before the present one, and
\* each of them ended idle.
SessionsIdle ==
    /\ sessions \in Seq(StopReasons)
    /\ series = "running" =>
          /\ segmentIndex \in Nat
          /\ Len(sessions) = (IF pc = "ready" THEN segmentIndex ELSE segmentIndex - 1)
          /\ segmentIndex <= SegmentCount
          /\ \A i \in 1..Len(sessions) : sessions[i] \in IdleReasons

PromiseInv == ReasonNamed /\ SessionsIdle

LEMMA PromiseInvInitially == Init => PromiseInv
  BY SegmentCountAssumption
     DEF Init, SegmentInit, PromiseInv, ReasonNamed, SessionsIdle, StopReasons

\* The steps of a segment begin and end inside it, and name their reason.
LEMMA SegmentStaysOpen ==
    ASSUME ReasonNamed, RunSegment \/ Interrupt
    PROVE  ReasonNamed' /\ pc # "ready" /\ pc' # "ready"
<1>1. CASE Sample
  BY <1>1 DEF Sample, EnterTry, CheckStarted, Wake, TakeSize, PollTracker, PollRaises, ReasonNamed
<1>2. CASE StopIdle
  <2>1. IdleReason \in StopReasons
    BY LimitsAssumption DEF ReasonNamed, IdleReason, StopReasons, IdleReasons
  <2> QED
    BY <1>2, <2>1 DEF StopIdle, Decide, ReasonNamed
<1>3. CASE TcpdumpDied \/ BelowTarget \/ StopTimedOut \/ KeepDraining
  BY <1>3 DEF TcpdumpDied, BelowTarget, StopTimedOut, KeepDraining, Decide, ReasonNamed,
              StopReasons
<1>4. CASE StopTcpdump \/ StopFails
  BY <1>4 DEF StopTcpdump, StopFails, ReasonNamed
<1>5. CASE WriteRecord
  <2>1. PICK flows \in FinalStats : record' = SegmentRecord(flows)
    BY <1>5 DEF WriteRecord
  <2>2. record'.stop_reason = stopReason
    BY <2>1 DEF SegmentRecord
  <2> QED
    BY <1>5, <2>2 DEF WriteRecord, ReasonNamed
<1>6. CASE Interrupt
  BY <1>6 DEF Interrupt, InterruptLoop, InterruptStop, InTryBlock, ReasonNamed
<1> QED
  BY <1>1, <1>2, <1>3, <1>4, <1>5, <1>6 DEF RunSegment, Decision, Finish

\* Of two segments the first is sealed, as idle or not, before the second.
LEMMA ReturnSeals ==
    ASSUME PromiseInv, SegmentReturns
    PROVE  PromiseInv' /\ Promise!Seal
<1>1. sessions \in Seq(StopReasons) /\ record.stop_reason \in StopReasons
  BY DEF PromiseInv, ReasonNamed, SessionsIdle, SegmentReturns
<1>2. /\ sessions' \in Seq(StopReasons) /\ Len(sessions') = Len(sessions) + 1
      /\ \A i \in 1..Len(sessions) : sessions'[i] = sessions[i]
      /\ sessions'[Len(sessions')] = record.stop_reason
  BY <1>1 DEF SegmentReturns
<1>3. /\ segmentIndex \in Nat /\ Len(sessions') = segmentIndex /\ segmentIndex <= SegmentCount
      /\ \A i \in 1..Len(sessions) : sessions[i] \in IdleReasons
  BY <1>1, <1>2 DEF PromiseInv, SessionsIdle, SegmentReturns
<1>4. (\A i \in 1..Len(sessions') : sessions'[i] \in IdleReasons)
         <=> record.stop_reason \in IdleReasons
  BY <1>1, <1>2, <1>3
<1>5. ReasonNamed'
  BY DEF PromiseInv, ReasonNamed, SegmentReturns
<1>6. SessionsIdle'
  BY <1>2, <1>3, <1>4 DEF SessionsIdle, SegmentReturns, Continues
<1>7. Promise!Seal
  <2>1. series = "running" /\ pc # "ready"
    BY DEF SegmentReturns
  <2>2. ~(series' = "running" /\ pc' # "ready")
    BY DEF SegmentReturns
  <2>3. (series' # "running") <=>
           (record.stop_reason \notin IdleReasons \/ Len(sessions') = SegmentCount)
    BY <1>3 DEF SegmentReturns, Continues
  <2> QED
    BY <1>2, <1>4, <2>1, <2>2, <2>3 DEF Promise!Seal
<1> QED
  BY <1>5, <1>6, <1>7 DEF PromiseInv

LEMMA BeginBegins ==
    ASSUME PromiseInv, BeginSegment
    PROVE  PromiseInv' /\ Promise!Begin
<1>1. /\ series = "running" /\ pc = "ready" /\ segmentIndex < SegmentCount
      /\ UNCHANGED <<sessions, series>> /\ segmentIndex' = segmentIndex + 1
  BY DEF BeginSegment, BetweenSegments
<1>2. pc' # "ready" /\ ReasonNamed'
  BY DEF BeginSegment, StartSegment, StartFails, PromiseInv, ReasonNamed, StopReasons
<1>3. /\ sessions \in Seq(StopReasons) /\ segmentIndex \in Nat /\ Len(sessions) = segmentIndex
      /\ \A i \in 1..Len(sessions) : sessions[i] \in IdleReasons
  BY <1>1 DEF PromiseInv, SessionsIdle
<1>4. SessionsIdle'
  BY <1>1, <1>2, <1>3, SegmentCountAssumption DEF SessionsIdle
<1>5. Promise!Begin
  BY <1>1, <1>2, <1>3 DEF Promise!Begin
<1> QED
  BY <1>2, <1>4, <1>5 DEF PromiseInv

\* An error or a Ctrl+C between two segments, or the error of one.
LEMMA AbortAborts ==
    ASSUME PromiseInv, SudoRefused \/ SegmentRaises \/ InterruptSeries
    PROVE  PromiseInv' /\ Promise!Abort
<1>1. /\ series = "running" /\ series' = "aborted"
      /\ UNCHANGED <<pc, limit, stopReason, record, sessions>>
  BY DEF SudoRefused, SegmentRaises, InterruptSeries, BetweenSegments, segmentVars
<1>2. PromiseInv'
  BY <1>1 DEF PromiseInv, ReasonNamed, SessionsIdle
<1>3. Promise!Abort
  BY <1>1 DEF Promise!Abort
<1> QED
  BY <1>2, <1>3

\* What the promise does not see: the inside of a segment, and sudo.
LEMMA RestStutters ==
    ASSUME PromiseInv,
           \/ (RunSegment \/ Interrupt) /\ UNCHANGED <<segmentIndex, sessions, series>>
           \/ SudoExpires \/ SudoAuthorized
           \/ Environment /\ UNCHANGED seriesVars
           \/ UNCHANGED vars
    PROVE  PromiseInv' /\ UNCHANGED Promise!vars
<1>1. /\ UNCHANGED <<segmentIndex, sessions, series>> /\ ReasonNamed'
      /\ pc = "ready" <=> pc' = "ready"
  <2>1. CASE (RunSegment \/ Interrupt) /\ UNCHANGED <<segmentIndex, sessions, series>>
    BY <2>1, SegmentStaysOpen DEF PromiseInv
  <2>2. CASE SudoExpires \/ SudoAuthorized \/ UNCHANGED vars
    BY <2>2 DEF SudoExpires, SudoAuthorized, vars, seriesVars, segmentVars, PromiseInv, ReasonNamed
  <2>3. CASE Environment /\ UNCHANGED seriesVars
    BY <2>3 DEF Environment, Traffic, FlowStarts, FlowEnds, Data, TcpdumpExits, Unsampled,
                seriesVars, PromiseInv, ReasonNamed
  <2> QED
    BY <2>1, <2>2, <2>3
<1>2. PromiseInv'
  BY <1>1 DEF PromiseInv, SessionsIdle
<1> QED
  BY <1>1, <1>2 DEF Promise!vars

LEMMA StepKeepsPromise ==
    ASSUME PromiseInv, [Next]_vars
    PROVE  PromiseInv' /\ [Promise!Next]_(Promise!vars)
<1>1. CASE BeginSegment
  BY <1>1, BeginBegins DEF Promise!Next
<1>2. CASE SegmentReturns
  BY <1>2, ReturnSeals DEF Promise!Next
<1>3. CASE SudoRefused \/ SegmentRaises \/ InterruptSeries
  BY <1>3, AbortAborts DEF Promise!Next
<1>4. CASE \/ RunSegment /\ UNCHANGED seriesVars
           \/ InterruptSegment \/ SudoExpires \/ SudoAuthorized
           \/ Environment /\ UNCHANGED seriesVars
           \/ UNCHANGED vars
  BY <1>4, RestStutters DEF InterruptSegment, seriesVars
<1> QED
  BY <1>1, <1>2, <1>3, <1>4 DEF Next, RunSeries

\* A series of any length rotates only after segments that ended idle and writes
\* one PCAP at a time (segmented.py:68 and 131-144).
THEOREM SeriesKeepsPromise == Spec => KeepsPromise
<1>1. Init => PromiseInv
  BY PromiseInvInitially
<1>2. PromiseInv /\ [Next]_vars => PromiseInv' /\ [Promise!Next]_(Promise!vars)
  BY StepKeepsPromise
<1>3. Init => Promise!Init
  BY DEF Init, SegmentInit, Promise!Init
<1> QED
  BY <1>1, <1>2, <1>3, PTL DEF Spec, KeepsPromise, Promise!Spec

-----------------------------------------------------------------------------
(* The records of a series *)

\* The invariants of a segment, which the series only makes ready for the next.
LEMMA SeriesKeepsSegmentInv ==
    ASSUME SegmentInv, RecordNamesReason, [Next]_vars
    PROVE  SegmentInv' /\ RecordNamesReason'
<1>1. CASE \/ RunSegment \/ BeginSegment \/ InterruptSegment \/ Environment
  <2>1. SegmentMoves
    BY <1>1 DEF BeginSegment, InterruptSegment, SegmentMoves, SegmentStep
  <2> QED
    BY <2>1, SegmentInvStep
<1>2. CASE \/ SudoRefused \/ SegmentRaises \/ InterruptSeries \/ SudoExpires \/ SudoAuthorized
           \/ UNCHANGED vars
  <2>1. SegmentMoves
    BY <1>2 DEF SudoRefused, SegmentRaises, InterruptSeries, SudoExpires, SudoAuthorized, vars,
                SegmentMoves
  <2> QED
    BY <2>1, SegmentInvStep
<1>3. CASE SegmentReturns
  <2>1. /\ pc = "returned" /\ pc' \in {"ready", pc}
        /\ UNCHANGED <<tcpdump, fileVars, sampleVars, timerVars, stopReason, halfRead, record, calm,
                       limit>>
    BY <1>3 DEF SegmentReturns
  <2>2. CASE pc' = "ready"
    BY <2>1, <2>2, SegmentInvReady
  <2>3. CASE pc' = pc
    <3>1. SegmentMoves
      BY <2>1, <2>3 DEF SegmentMoves, segmentVars
    <3> QED
      BY <3>1, SegmentInvStep
  <2> QED
    BY <2>1, <2>2, <2>3
<1> QED
  BY <1>1, <1>2, <1>3 DEF Next, RunSeries

\* The inductive invariant of a segment holds through the whole series.
THEOREM SegmentsInvariant == Spec => [](SegmentInv /\ RecordNamesReason)
<1>1. Init => SegmentInv /\ RecordNamesReason
  BY SegmentInvInitially DEF Init
<1>2. SegmentInv /\ RecordNamesReason /\ [Next]_vars => (SegmentInv /\ RecordNamesReason)'
  BY SeriesKeepsSegmentInv
<1> QED
  BY <1>1, <1>2, PTL DEF Spec

\* The capture.json of every segment describes the file that its tcpdump left
\* (segment.py:214-257): its counts are older than no record of the file, and
\* wrong by one open flow at most, after a Ctrl+C in a poll.
THEOREM SeriesDescribesFiles == Spec => []RecordDescribesSealedFile
<1>1. SegmentInv /\ RecordNamesReason => RecordDescribesSealedFile
  BY InvDescribesSealedFile
<1> QED
  BY <1>1, SegmentsInvariant, PTL

\* An idle reason is only given after idle_seconds without noise or an open flow
\* (segment.py:163-176 and 196-202).
THEOREM SeriesEndsCalm == Spec => []IdleMeansCalm
<1>1. SegmentInv /\ RecordNamesReason => IdleMeansCalm
  BY InvMeansCalm
<1> QED
  BY <1>1, SegmentsInvariant, PTL

\* A segment that `lab dataset audit` accepts (audit.py) is sealed, has reached
\* its target and cuts no TCP flow, wherever a Ctrl+C has hit the capture.
THEOREM SeriesAcceptsWhole == Spec => []AcceptedSegmentIsWhole
<1>1. SegmentInv /\ RecordNamesReason => AcceptedSegmentIsWhole
  BY InvAcceptsWhole
<1> QED
  BY <1>1, SegmentsInvariant, PTL

\* The types of the series itself.
SeriesTyped ==
    /\ segmentIndex \in 0..SegmentCount
    /\ sessions \in Seq(StopReasons)
    /\ series \in {"running", "finished", "stopped", "aborted"}
    /\ sudo \in BOOLEAN

LEMMA SeriesTypedStep ==
    ASSUME TypeOK, RecordMatches, RecordNamesReason, SeriesTyped, [Next]_vars
    PROVE  SeriesTyped'
<1>1. CASE BeginSegment
  BY <1>1, SegmentCountAssumption DEF BeginSegment, BetweenSegments, SeriesTyped
<1>2. CASE SegmentReturns
  <2>1. record.stop_reason \in StopReasons
    BY <1>2 DEF SegmentReturns, RecordNamesReason, Recorded, TypeOK
  <2> QED
    BY <1>2, <2>1 DEF SegmentReturns, SeriesTyped
<1>3. CASE SudoRefused \/ SegmentRaises \/ InterruptSeries \/ SudoExpires \/ SudoAuthorized
  BY <1>3 DEF SudoRefused, SegmentRaises, InterruptSeries, SudoExpires, SudoAuthorized, SeriesTyped
<1>4. CASE InterruptSegment \/ UNCHANGED seriesVars \/ UNCHANGED vars
  BY <1>4 DEF InterruptSegment, seriesVars, vars, SeriesTyped
<1> QED
  BY <1>1, <1>2, <1>3, <1>4 DEF Next, RunSeries

\* Every variable of a series keeps its type; ages, the size and the counts keep
\* their bounds.
THEOREM SeriesTypes == Spec => []SeriesTypeOK
<1>1. Init => SeriesTyped
  BY SegmentCountAssumption DEF Init, SeriesTyped
<1>2. SegmentInv /\ RecordNamesReason => TypeOK /\ RecordMatches
  BY DEF SegmentInv
<1>3. TypeOK /\ RecordMatches /\ RecordNamesReason /\ SeriesTyped /\ [Next]_vars => SeriesTyped'
  BY SeriesTypedStep
<1>4. TypeOK /\ SeriesTyped => SeriesTypeOK
  BY DEF SeriesTyped, SeriesTypeOK
<1> QED
  BY <1>1, <1>2, <1>3, <1>4, SegmentsInvariant, PTL DEF Spec

-----------------------------------------------------------------------------
(* One capture at a time, in a timed series *)

\* A lab that reports its PCAP has stopped tcpdump; the script that goes on, or
\* is about to, has seen such a report.
StoppedWithLab ==
    /\ pc \in {"recording", "returned"} => tcpdump # "running"
    /\ pc = "ready" /\ script # "failed" => tcpdump # "running"

LEMMA TimedStoppedInitially == TimedInit => StoppedWithLab
  BY DEF TimedInit, SegmentInit, StoppedWithLab

\* lab itself: it records only after stop_tcpdump, and never gets ready again.
LEMMA LabKeepsStopped ==
    ASSUME StoppedWithLab, RunSegment \/ Interrupt \/ StartSegment \/ StartFails
    PROVE  StoppedWithLab'
<1>1. CASE Sample
  BY <1>1 DEF Sample, EnterTry, CheckStarted, Wake, TakeSize, PollTracker, PollRaises, StoppedWithLab
<1>2. CASE Decision
  BY <1>2 DEF Decision, TcpdumpDied, BelowTarget, StopIdle, StopTimedOut, KeepDraining, Decide,
              StoppedWithLab
<1>3. CASE Finish
  BY <1>3 DEF Finish, StopTcpdump, StopFails, WriteRecord, StoppedWithLab
<1>4. CASE Interrupt
  BY <1>4 DEF Interrupt, InterruptLoop, InterruptStop, InTryBlock, StoppedWithLab
<1>5. CASE StartSegment \/ StartFails
  BY <1>5 DEF StartSegment, StartFails, StoppedWithLab
<1> QED
  BY <1>1, <1>2, <1>3, <1>4, <1>5 DEF RunSegment

\* The steps of the script that run no code of lab.
LEMMA ScriptKeepsStopped ==
    ASSUME StoppedWithLab,
           FinishSeries \/ LabKilled \/ LabExits \/ RewriteRecord \/ RewriteFails
    PROVE  StoppedWithLab'
<1>1. CASE FinishSeries \/ RewriteFails
  BY <1>1 DEF FinishSeries, RewriteFails, segmentVars, StoppedWithLab
<1>2. CASE LabKilled
  BY <1>2 DEF LabKilled, StoppedWithLab
<1>3. CASE LabExits
  BY <1>3 DEF LabExits, AfterLab, PcapReported, StoppedWithLab
<1>4. CASE RewriteRecord
  BY <1>4 DEF RewriteRecord, StoppedWithLab
<1> QED
  BY <1>1, <1>2, <1>3, <1>4

LEMMA TimedKeepsStopped ==
    ASSUME StoppedWithLab, [TimedNext]_timedVars
    PROVE  StoppedWithLab'
<1>1. CASE BeginTimedSegment \/ RunLab \/ TimerFires \/ LabGoesOn
  BY <1>1, LabKeepsStopped DEF BeginTimedSegment, RunLab, TimerFires, LabGoesOn
<1>2. CASE FinishSeries \/ LabKilled \/ LabExits \/ RewriteRecord \/ RewriteFails
  BY <1>2, ScriptKeepsStopped
<1>3. CASE OperatorInterrupts
  <2>1. CASE Interrupt
    BY <2>1, LabKeepsStopped
  <2>2. CASE UNCHANGED segmentVars
    BY <1>3, <2>2 DEF OperatorInterrupts, segmentVars, StoppedWithLab
  <2> QED
    BY <1>3, <2>1, <2>2 DEF OperatorInterrupts
<1>4. CASE Environment /\ UNCHANGED scriptVars
  BY <1>4 DEF Environment, Traffic, FlowStarts, FlowEnds, Data, TcpdumpExits, Unsampled,
              scriptVars, StoppedWithLab
<1>5. CASE UNCHANGED timedVars
  BY <1>5 DEF timedVars, segmentVars, scriptVars, StoppedWithLab
<1> QED
  BY <1>1, <1>2, <1>3, <1>4, <1>5 DEF TimedNext, RunScript

\* The script begins a segment only between two of them.
LEMMA TimedBeginsAlone ==
    ASSUME StoppedWithLab, [TimedNext]_timedVars, index' # index
    PROVE  tcpdump # "running"
<1>1. BeginTimedSegment
  BY DEF TimedNext, RunScript, FinishSeries, RunLab, TimerFires, LabKilled, LabExits, RewriteRecord,
         RewriteFails, OperatorInterrupts, LabGoesOn, scriptVars, timedVars
<1> QED
  BY <1>1 DEF BeginTimedSegment, StartSegment, StartFails, StoppedWithLab

\* A tcpdump that timeout's kill or a failed stop left behind is the last one of
\* the series (timed-series.sh:135-183), although the status of lab is ignored.
THEOREM OneTimedAtATime == TimedSpec => OneTimedCaptureAtATime
<1>1. TimedInit => StoppedWithLab
  BY TimedStoppedInitially
<1>2. StoppedWithLab /\ [TimedNext]_timedVars => StoppedWithLab'
  BY TimedKeepsStopped
<1>3. StoppedWithLab /\ [TimedNext]_timedVars => [index' # index => tcpdump # "running"]_timedVars
  BY TimedBeginsAlone
<1> QED
  BY <1>1, <1>2, <1>3, PTL DEF TimedSpec, OneTimedCaptureAtATime

-----------------------------------------------------------------------------
(* The records of a timed series *)

\* The record the script is about to rewrite is one that lab has finished.
RewritesRecord == script = "rewriting" => pc = "ready" /\ RecordOfFile

TimedInv == CountsHold /\ RecordMatches /\ RewritesRecord

LEMMA TimedInvInitially == TimedInit => TimedInv
  BY SegmentInvInitially DEF TimedInit, SegmentInv, TimedInv, RewritesRecord

\* The code of lab, under its timer or without it.
LEMMA LabKeepsTimedInv ==
    ASSUME TimedInv, SegmentMoves, script' # "rewriting"
    PROVE  TimedInv'
  BY CountsHoldStep, RecordMatchesStep DEF TimedInv, RewritesRecord

\* Nothing writes to the file behind the script.
LEMMA EnvironmentKeepsTimedInv ==
    ASSUME TimedInv, Environment \/ UNCHANGED segmentVars, UNCHANGED script
    PROVE  TimedInv'
<1>1. SegmentMoves
  BY DEF SegmentMoves, SegmentStep
<1>2. CountsHold' /\ RecordMatches'
  BY <1>1, CountsHoldStep, RecordMatchesStep DEF TimedInv
<1>3. ASSUME script = "rewriting"
      PROVE  pc' = "ready" /\ RecordOfFile'
  <2>1. pc = "ready" /\ RecordOfFile /\ tcpdump = "exited"
    BY <1>3 DEF TimedInv, RewritesRecord, RecordOfFile
  <2>2. UNCHANGED <<opened, closed, size, limit, halfRead, record, pc, tcpdump>>
    BY <2>1 DEF Environment, Traffic, FlowStarts, FlowEnds, Data, TcpdumpExits, segmentVars,
              fileVars
  <2> QED
    BY <2>1, <2>2, FileKept
<1> QED
  BY <1>2, <1>3 DEF TimedInv, RewritesRecord

\* A kill finds no record, leaves a torn one, or comes after lab was done.
LEMMA KillKeepsTimedInv ==
    ASSUME TimedInv, LabKilled
    PROVE  TimedInv'
<1>1. CountsHold'
  BY DEF TimedInv, CountsHold, LabKilled, fileVars
<1>2. /\ pc' = "raised" /\ UNCHANGED <<opened, closed, size, limit, halfRead, tcpdump, script>>
      /\ pc # "ready"
      /\ record' = record \/ record' \in {None, Torn}
  BY DEF LabKilled, fileVars, scriptVars
<1>3. ASSUME Recorded'
      PROVE  RecordOfFile'
  <2>1. record' = record /\ Recorded
    BY <1>2, <1>3 DEF Recorded
  <2>2. RecordOfFile /\ tcpdump' = "exited"
    BY <1>2, <2>1 DEF TimedInv, RecordMatches, RecordOfFile
  <2> QED
    BY <1>2, <2>1, <2>2, FileKept
<1>4. RecordMatches'
  BY <1>2, <1>3 DEF RecordMatches, Done
<1>5. RewritesRecord'
  BY <1>2 DEF TimedInv, RewritesRecord
<1> QED
  BY <1>1, <1>4, <1>5 DEF TimedInv

\* The script goes on from a lab that has returned.
LEMMA ExitKeepsTimedInv ==
    ASSUME TimedInv, LabExits
    PROVE  TimedInv'
<1>1. /\ pc' = "ready" /\ UNCHANGED <<opened, closed, size, limit, halfRead, tcpdump, record>>
      /\ script' = "rewriting" => pc = "returned"
  BY DEF LabExits, AfterLab, PcapReported, fileVars
<1>2. CountsHold'
  BY <1>1 DEF TimedInv, CountsHold
<1>3. Recorded => RecordOfFile'
  <2>1. ASSUME Recorded PROVE RecordOfFile /\ tcpdump' = "exited"
    BY <1>1, <2>1 DEF TimedInv, RecordMatches, RecordOfFile
  <2> QED
    BY <1>1, <2>1, FileKept
<1>4. RecordMatches' /\ RewritesRecord'
  BY <1>1, <1>3 DEF RecordMatches, RewritesRecord, Recorded
<1> QED
  BY <1>2, <1>4 DEF TimedInv

\* jq changes one key.
LEMMA RewriteKeepsTimedInv ==
    ASSUME TimedInv, RewriteRecord
    PROVE  TimedInv'
<1>1. pc = "ready" /\ RecordOfFile
  BY DEF TimedInv, RewritesRecord, RewriteRecord
<1>2. /\ UNCHANGED <<opened, closed, size, limit, halfRead, tcpdump, pc>>
      /\ record' = [record EXCEPT !.stop_reason = "duration_elapsed"]
      /\ script' = "between"
  BY DEF RewriteRecord, fileVars
<1>3. /\ DOMAIN record' = DOMAIN record
      /\ record'.flows = record.flows
      /\ record'.target_flows = record.target_flows
      /\ record'.target_met = record.target_met
  BY <1>1, <1>2 DEF RecordOfFile
<1>4. FinalStats' = FinalStats /\ FlowMode' = FlowMode
  BY <1>2 DEF FinalStats, StillOpen, PolledStats, FlowStats, FlowMode
<1>5. RecordOfFile'
  BY <1>1, <1>2, <1>3, <1>4 DEF RecordOfFile
<1>6. CountsHold'
  BY <1>2 DEF TimedInv, CountsHold
<1> QED
  BY <1>1, <1>2, <1>5, <1>6 DEF TimedInv, RecordMatches, RewritesRecord

LEMMA StepKeepsTimedInv ==
    ASSUME TimedInv, [TimedNext]_timedVars
    PROVE  TimedInv'
<1>1. CASE BeginTimedSegment \/ RunLab \/ TimerFires \/ LabGoesOn \/ OperatorInterrupts
  <2>1. script' # "rewriting"
    BY <1>1 DEF BeginTimedSegment, RunLab, TimerFires, LabGoesOn, OperatorInterrupts, TimedInv,
                RewritesRecord, Interrupt, InterruptLoop, InterruptStop, InTryBlock, scriptVars
  <2>2. SegmentMoves
    BY <1>1 DEF BeginTimedSegment, RunLab, TimerFires, LabGoesOn, OperatorInterrupts, SegmentMoves,
                SegmentStep
  <2> QED
    BY <2>1, <2>2, LabKeepsTimedInv
<1>2. CASE FinishSeries \/ RewriteFails
  <2>1. script' # "rewriting" /\ SegmentMoves
    BY <1>2 DEF FinishSeries, RewriteFails, SegmentMoves
  <2> QED
    BY <2>1, LabKeepsTimedInv
<1>3. CASE (Environment /\ UNCHANGED scriptVars) \/ UNCHANGED timedVars
  BY <1>3, EnvironmentKeepsTimedInv DEF timedVars, scriptVars
<1> QED
  BY <1>1, <1>2, <1>3, KillKeepsTimedInv, ExitKeepsTimedInv, RewriteKeepsTimedInv
     DEF TimedNext, RunScript

\* A record that says duration_elapsed is one of a sealed file, with its counts,
\* whichever step of lab the timer of timed-series.sh:144-149 has cut short.
THEOREM ElapsedIsSealed == TimedSpec => []ElapsedMeansSealed
<1>1. TimedInit => TimedInv
  BY TimedInvInitially
<1>2. TimedInv /\ [TimedNext]_timedVars => TimedInv'
  BY StepKeepsTimedInv
<1>3. TimedInv => ElapsedMeansSealed
  BY FinalStatsTyped DEF TimedInv, RecordMatches, RecordOfFile, Recorded, ElapsedMeansSealed
<1> QED
  BY <1>1, <1>2, <1>3, PTL DEF TimedSpec
=============================================================================
