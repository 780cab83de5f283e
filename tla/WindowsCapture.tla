--------------------------- MODULE WindowsCapture ---------------------------
(***************************************************************************)
(* _run_windows_ipv6_flow_capture and its segments: a series of PCAPs      *)
(* written by dumpcap, optionally while the network of everything but the  *)
(* browser is blocked.                                                     *)
(*                                                                         *)
(* A segment samples the file: it sleeps, takes the size, polls the two    *)
(* trackers (WindowsTrackers), looks whether dumpcap is alive and decides. *)
(* Unlike a Linux segment it is cut when the rate is low, open flows or    *)
(* not.  Ctrl+C may fall between any two steps, and inside the loop it has *)
(* a handler that polls once more.                                         *)
(*                                                                         *)
(* The loop only reads total_flows.  The conversation tracker stands for   *)
(* either tracker it may use; the other one is FlowTracker.  The scripts   *)
(* behind the isolation are NetworkIsolation: here a helper runs until it  *)
(* succeeds, fails, or is cut off by Ctrl+C with the call that waits for   *)
(* it.                                                                     *)
(***************************************************************************)
EXTENDS WindowsTrackers

CONSTANTS
    SegmentCount,    \* len(profiles)
    TargetFlows,     \* target_flows
    IdleSeconds,     \* idle_seconds
    IdleRate,        \* idle_bytes_per_second
    Intervals,       \* the seconds that may lie between two samples
    PacketSizes,     \* the bytes a record may have
    MaxRecords,      \* bound: records in one file
    None             \* Python's None

ASSUME SegmentCountAssumption == SegmentCount \in Nat \ {0}
ASSUME ThresholdAssumption ==
    TargetFlows \in Nat \ {0} /\ IdleSeconds \in Nat /\ IdleRate \in Nat
ASSUME SamplingAssumption ==
    /\ Intervals \subseteq Nat \ {0} /\ PacketSizes \subseteq Nat \ {0}
    /\ \E m \in Intervals : \A n \in Intervals : n <= m
ASSUME MaxRecordsAssumption == MaxRecords \in Nat

\* The runs of isolate.ps1.
Helpers == [action: {"enable", "disable"}, outcome: {"running", "ok", "failed", "cut"}]

ASSUME NoneAssumption == None \notin Helpers

VARIABLES
    isolate,        \* isolate_chrome_network
    helper,         \* the last run of isolate.ps1: [action, outcome], or None
    isolated,       \* outbound traffic is blocked
    enabled,        \* isolation_enabled
    struck,         \* history: Ctrl+C fell in the call that enables ("enable"), or in
                    \* the finally clause that releases ("release")
    pc,             \* what the capture process does next
    segmentIndex,   \* segment_index; 0 before the first
    sessions,       \* the stop reasons of the sessions so far
    dumpcap,        \* "none", "running" or "exited"
    exposed,        \* history: dumpcap ran on this file without the isolation asked for
    fresh,          \* bytes written since the last size was taken, saturating
    interval,       \* now - previous_time
    quiet,          \* rate <= idle_bytes_per_second
    quietAge,       \* now - quiet_started_at
    calm,           \* history: seconds up to the last sample without noise
    total,          \* stats.total_flows, as the loop saw it
    stopReason,     \* stop_reason
    record          \* capture.json of the last finished segment, or None

isolationVars == <<isolate, helper, isolated, enabled, struck>>
seriesVars == <<segmentIndex, sessions>>
fileVars == <<records, exposed, fresh>>
sampleVars == <<interval, quiet, quietAge, calm, total>>
segmentVars == <<trackerVars, dumpcap, fileVars, sampleVars, stopReason, record>>
vars == <<isolationVars, pc, seriesVars, segmentVars>>

TrafficIdle == "target_flows_reached_and_traffic_idle"
StopReasons == {TrafficIdle, "interrupted"}

Saturate(n, top) == IF n > top THEN top ELSE n
FreshLimit == 1 + IdleRate * (CHOOSE m \in Intervals : \A n \in Intervals : n <= m)

At(step) == pc = step
Goto(step) == pc' = step

-----------------------------------------------------------------------------
(* dumpcap and the traffic it captures *)

Traffic ==
    /\ dumpcap = "running" /\ Len(records) < MaxRecords
    /\ \E p \in Packets : records' = Append(records, p)
    /\ \E bytes \in PacketSizes : fresh' = Saturate(fresh + bytes, FreshLimit)
    /\ UNCHANGED <<trackerVars, isolationVars, pc, seriesVars, dumpcap, exposed, sampleVars,
                   stopReason, record>>

\* dumpcap dies, or gets the terminal's Ctrl+C itself.
DumpcapExits ==
    /\ dumpcap = "running"
    /\ dumpcap' = "exited"
    /\ UNCHANGED <<trackerVars, isolationVars, pc, seriesVars, fileVars, sampleVars,
                   stopReason, record>>

-----------------------------------------------------------------------------
(* The series, lines 198-248 *)

Run(action) == [action |-> action, outcome |-> "running"]
HelperRuns(action) == helper = Run(action)
HelperLeaves(outcome, blocked) ==
    /\ helper' = [helper EXCEPT !.outcome = outcome]
    /\ isolated' = blocked

EnableIsolation ==
    /\ At("begin") /\ isolate
    /\ Goto("enabling")
    /\ helper' = Run("enable")
    /\ UNCHANGED <<isolate, isolated, enabled, struck, seriesVars, segmentVars>>

\* A helper script that fails to enable has undone what it did, or could not.
HelperEnables ==
    /\ At("enabling") /\ HelperRuns("enable")
    /\ HelperLeaves("ok", TRUE) \/ \E blocked \in BOOLEAN : HelperLeaves("failed", blocked)
    /\ UNCHANGED <<isolate, enabled, struck, pc, seriesVars, segmentVars>>

\* Lines 200-201: the flag is set after the call has returned.
EnableReturns ==
    /\ At("enabling") /\ helper.outcome \in {"ok", "failed"}
    /\ enabled' = (helper.outcome = "ok")
    /\ Goto(IF helper.outcome = "ok" THEN "browser" ELSE "unwinding")
    /\ UNCHANGED <<isolate, helper, isolated, struck, seriesVars, segmentVars>>

SkipIsolation ==
    /\ At("begin") /\ ~isolate
    /\ Goto("browser")
    /\ UNCHANGED <<isolationVars, seriesVars, segmentVars>>

\* Lines 202-205: the browser starts, is not wanted, or fails to start.
StartBrowser ==
    /\ At("browser")
    /\ Goto("between") \/ Goto("unwinding")
    /\ UNCHANGED <<isolationVars, seriesVars, segmentVars>>

\* Lines 351-397: a new directory, dumpcap, two new trackers.
StartSegment ==
    /\ At("between")
    /\ Goto("launched")
    /\ segmentIndex' = segmentIndex + 1
    /\ dumpcap' = "running"
    /\ records' = <<>> /\ fresh' = 0 /\ exposed' = (isolate /\ ~isolated)
    /\ ResetTrackers
    /\ interval' = 0 /\ quiet' = FALSE /\ quietAge' = None /\ calm' = 0 /\ total' = 0
    /\ stopReason' = "interrupted" /\ record' = None
    /\ UNCHANGED <<isolationVars, sessions>>

\* dumpcap.exe cannot be started.
StartFails ==
    /\ At("between")
    /\ segmentIndex' = segmentIndex + 1
    /\ Goto("unwinding")
    /\ UNCHANGED <<isolationVars, sessions, segmentVars>>

Continues(reason) == reason = TrafficIdle

\* Lines 236-244.
SegmentReturns ==
    /\ At("returned")
    /\ sessions' = Append(sessions, record.stop_reason)
    /\ Goto(IF segmentIndex < SegmentCount /\ Continues(record.stop_reason)
            THEN "between" ELSE "unwinding")
    /\ UNCHANGED <<isolationVars, segmentIndex, segmentVars>>

\* Mutant of MustRelease: only a series that returned releases the isolation.
ReleasedOnReturn == enabled /\ segmentIndex = Len(sessions)

MustRelease == enabled

\* Lines 245-247, whether the series returns or raises.
KeepIsolation ==
    /\ At("unwinding") /\ ~MustRelease
    /\ Goto("over")
    /\ UNCHANGED <<isolationVars, seriesVars, segmentVars>>

ReleaseIsolation ==
    /\ At("unwinding") /\ MustRelease
    /\ Goto("releasing")
    /\ helper' = Run("disable")
    /\ UNCHANGED <<isolate, isolated, enabled, struck, seriesVars, segmentVars>>

\* A dumpcap that was left running sees the isolation go.
Exposes ==
    /\ exposed' = (exposed \/ (isolate /\ dumpcap = "running" /\ ~isolated'))
    /\ UNCHANGED <<trackerVars, dumpcap, records, fresh, sampleVars, stopReason, record>>

HelperDisables ==
    /\ At("releasing") /\ HelperRuns("disable")
    /\ HelperLeaves("ok", FALSE) \/ \E blocked \in BOOLEAN : HelperLeaves("failed", blocked)
    /\ Exposes
    /\ UNCHANGED <<isolate, enabled, struck, pc, seriesVars>>

DisableReturns ==
    /\ At("releasing") /\ helper.outcome \in {"ok", "failed"}
    /\ Goto("over")
    /\ UNCHANGED <<isolationVars, seriesVars, segmentVars>>

-----------------------------------------------------------------------------
(* One segment, lines 406-583 *)

InSegment(nextPc) ==
    /\ Goto(nextPc)
    /\ UNCHANGED <<isolationVars, seriesVars, records, exposed>>

\* Lines 406-417: dumpcap runs, the outer try block and the dashboard follow.
EnterTry ==
    /\ At("launched")
    /\ InSegment("entering")
    /\ UNCHANGED <<trackerVars, dumpcap, fresh, sampleVars, stopReason, record>>

EnterDashboard ==
    /\ At("entering")
    /\ InSegment("starting")
    /\ UNCHANGED <<trackerVars, dumpcap, fresh, sampleVars, stopReason, record>>

\* Lines 419-425: the error is raised through the finally clause.
CheckStarted ==
    /\ At("starting")
    /\ InSegment(IF dumpcap = "exited" THEN "failing" ELSE "asleep")
    /\ UNCHANGED <<trackerVars, dumpcap, fresh, sampleVars, stopReason, record>>

Wake ==
    /\ At("asleep")
    /\ InSegment("sizing")
    /\ \E seconds \in Intervals :
          /\ interval' = seconds
          /\ quietAge' = IF quietAge = None THEN None ELSE Saturate(quietAge + seconds, IdleSeconds)
    /\ UNCHANGED <<trackerVars, dumpcap, fresh, quiet, calm, total, stopReason, record>>

\* Lines 429-431.
TakeSize ==
    /\ At("sizing")
    /\ InSegment("polling")
    /\ quiet' = (fresh <= IdleRate * interval)
    /\ calm' = IF quiet' THEN Saturate(calm + interval, IdleSeconds) ELSE 0
    /\ fresh' = 0
    /\ UNCHANGED <<trackerVars, dumpcap, interval, quietAge, total, stopReason, record>>

\* Polls of the loop, of the handler and of the record; each reads to the end
\* of the file, the conversations first.
PollL4 == pc \in {"polling", "handling", "recording"}
PollIp == pc \in {"polling ip", "handling ip", "recording ip"}

ReadL4Record ==
    /\ PollL4 /\ ReadL4
    /\ UNCHANGED <<isolationVars, pc, seriesVars, ipVars, dumpcap, fileVars, sampleVars,
                   stopReason, record>>

ReadIpRecord ==
    /\ PollIp /\ ReadIp
    /\ UNCHANGED <<isolationVars, pc, seriesVars, l4Vars, dumpcap, fileVars, sampleVars,
                   stopReason, record>>

L4Polled ==
    /\ PollL4 /\ l4Offset = Len(records)
    /\ InSegment(CASE pc = "polling"   -> "polling ip"
                   [] pc = "handling"  -> "handling ip"
                   [] pc = "recording" -> "recording ip")
    /\ total' = IF pc = "recording" THEN total ELSE L4Stats.total
    /\ UNCHANGED <<trackerVars, dumpcap, fresh, interval, quiet, quietAge, calm,
                   stopReason, record>>

IpPolled ==
    /\ pc \in {"polling ip", "handling ip"} /\ ipOffset = Len(records)
    /\ InSegment(IF pc = "polling ip" THEN "deciding" ELSE "leaving")
    /\ UNCHANGED <<trackerVars, dumpcap, fresh, sampleVars, stopReason, record>>

\* flow_tracker.py:251, 258, 410 and 415: a poll that reads the header, before
\* any record, finds no classic PCAP of Ethernet frames.
PollRaises ==
    /\ \/ PollL4 /\ l4Offset = 0
       \/ PollIp /\ ipOffset = 0
    /\ InSegment(IF pc \in {"recording", "recording ip"} THEN "unwinding" ELSE "failing")
    /\ UNCHANGED <<trackerVars, dumpcap, fresh, sampleVars, stopReason, record>>

DumpcapDied ==
    /\ At("deciding") /\ dumpcap = "exited"
    /\ InSegment("failing")
    /\ UNCHANGED <<trackerVars, dumpcap, fresh, sampleVars, stopReason, record>>

TargetReached == total >= TargetFlows

\* Mutant of QuietAgeNow: noise does not restart the timer.
QuietTimerKept == IF quietAge = None /\ quiet THEN 0 ELSE quietAge

\* Mutant of QuietAgeNow: every quiet sample restarts it.
QuietRedated == IF quiet THEN 0 ELSE None

\* Lines 465-468.
QuietAgeNow == IF quiet THEN IF quietAge = None THEN 0 ELSE quietAge ELSE None

IdleLongEnough == QuietAgeNow # None /\ QuietAgeNow >= IdleSeconds

BelowTarget ==
    /\ At("deciding") /\ dumpcap = "running" /\ ~TargetReached
    /\ InSegment("asleep")
    /\ UNCHANGED <<trackerVars, dumpcap, fresh, sampleVars, stopReason, record>>

\* Lines 475-483: the finish timeout only changes the status line.
KeepDraining ==
    /\ At("deciding") /\ dumpcap = "running" /\ TargetReached /\ ~IdleLongEnough
    /\ InSegment("asleep")
    /\ quietAge' = QuietAgeNow
    /\ UNCHANGED <<trackerVars, dumpcap, fresh, interval, quiet, calm, total, stopReason, record>>

StopIdle ==
    /\ At("deciding") /\ dumpcap = "running" /\ TargetReached /\ IdleLongEnough
    /\ InSegment("leaving")
    /\ quietAge' = QuietAgeNow
    /\ stopReason' = TrafficIdle
    /\ UNCHANGED <<trackerVars, dumpcap, fresh, interval, quiet, calm, total, record>>

\* The dashboard's __exit__, between the loop and the finally clause.
LeaveDashboard ==
    /\ At("leaving")
    /\ InSegment("stopping")
    /\ UNCHANGED <<trackerVars, dumpcap, fresh, sampleVars, stopReason, record>>

Stopping == pc \in {"stopping", "failing"}
AfterStop == IF pc = "failing" THEN "unwinding" ELSE "recording"

\* Lines 512-521.
StopDumpcap ==
    /\ Stopping
    /\ InSegment(AfterStop)
    /\ dumpcap' = "exited"
    /\ UNCHANGED <<trackerVars, fresh, sampleVars, stopReason, record>>

\* Mutant of StopFails: the error of process.wait is swallowed.
StopFailsSilently ==
    /\ Stopping /\ dumpcap = "running"
    /\ InSegment(AfterStop)
    /\ UNCHANGED <<trackerVars, dumpcap, fresh, sampleVars, stopReason, record>>

\* Line 518: dumpcap outlives the kill by five seconds.
StopFails ==
    /\ Stopping /\ dumpcap = "running"
    /\ InSegment("unwinding")
    /\ UNCHANGED <<trackerVars, dumpcap, fresh, sampleVars, stopReason, record>>

\* Lines 524-575.
WriteRecord ==
    /\ At("recording ip") /\ ipOffset = Len(records)
    /\ InSegment("returned")
    /\ record' = [flows |-> L4Stats, ip |-> IpStats,
                  target_met |-> L4Stats.total >= TargetFlows,
                  stop_reason |-> stopReason]
    /\ UNCHANGED <<trackerVars, dumpcap, fresh, sampleVars, stopReason>>

-----------------------------------------------------------------------------
(* Ctrl+C *)

InLoop == pc \in {"starting", "asleep", "sizing", "polling", "polling ip", "deciding"}

\* Lines 486-490: the loop ends, and a tracker may have been in the middle of a
\* record.
InterruptLoop ==
    /\ InLoop
    /\ InSegment("handling")
    /\ stopReason' = "interrupted"
    /\ \/ pc = "polling" /\ CutL4 /\ UNCHANGED ipVars
       \/ pc = "polling ip" /\ CutIp /\ UNCHANGED l4Vars
       \/ pc \notin {"polling", "polling ip"} /\ UNCHANGED trackerVars
    /\ UNCHANGED <<dumpcap, fresh, sampleVars, record>>

\* Mutant of InterruptHandler: the handler polls again after every Ctrl+C.
HandlerRetries ==
    /\ At("handling ip") /\ CutIp
    /\ InSegment("handling")
    /\ UNCHANGED <<l4Vars, dumpcap, fresh, sampleVars, stopReason, record>>

\* In the handler and around the loop the finally clause still stops dumpcap;
\* a record that a tracker was reading is of no use any more.
InterruptHandler ==
    /\ pc \in {"entering", "handling", "handling ip", "leaving"}
    /\ InSegment("failing")
    /\ UNCHANGED <<trackerVars, dumpcap, fresh, sampleVars, stopReason, record>>

\* Before the try block, in the finally clause and after it nothing does.
InterruptSegment ==
    /\ pc \in {"launched", "stopping", "failing", "recording", "recording ip", "returned"}
    /\ InSegment("unwinding")
    /\ UNCHANGED <<trackerVars, dumpcap, fresh, sampleVars, stopReason, record>>

InterruptSeries ==
    /\ pc \in {"begin", "browser", "between"}
    /\ Goto("unwinding")
    /\ UNCHANGED <<isolationVars, seriesVars, segmentVars>>

\* subprocess.run kills the helper it waits for.
HelperIsCut == \E blocked \in BOOLEAN : HelperLeaves("cut", blocked)

\* Line 200: the helper is cut off, or it has ended and the flag is not set yet.
InterruptEnable ==
    /\ At("enabling")
    /\ Goto("unwinding")
    /\ struck' = struck \cup {"enable"}
    /\ \/ HelperRuns("enable") /\ HelperIsCut
       \/ ~HelperRuns("enable") /\ UNCHANGED <<helper, isolated>>
    /\ UNCHANGED <<isolate, enabled, seriesVars, segmentVars>>

\* Lines 245-247: the helper has not been started, is cut off, or has ended.
InterruptRelease ==
    /\ pc \in {"unwinding", "releasing"}
    /\ Goto("over")
    /\ struck' = struck \cup {"release"}
    /\ \/ At("releasing") /\ HelperRuns("disable") /\ HelperIsCut
       \/ ~(At("releasing") /\ HelperRuns("disable")) /\ UNCHANGED <<helper, isolated>>
    /\ Exposes
    /\ UNCHANGED <<isolate, enabled, seriesVars>>

-----------------------------------------------------------------------------
Init ==
    /\ isolate \in BOOLEAN /\ helper = None /\ isolated = FALSE /\ enabled = FALSE /\ struck = {}
    /\ pc = "begin" /\ segmentIndex = 0 /\ sessions = <<>>
    /\ dumpcap = "none" /\ records = <<>> /\ exposed = FALSE /\ fresh = 0
    /\ NewTrackers
    /\ interval = 0 /\ quiet = FALSE /\ quietAge = None /\ calm = 0 /\ total = 0
    /\ stopReason = "interrupted" /\ record = None

Series ==
    \/ EnableIsolation \/ HelperEnables \/ EnableReturns \/ SkipIsolation
    \/ StartBrowser \/ StartSegment \/ StartFails \/ SegmentReturns
    \/ KeepIsolation \/ ReleaseIsolation \/ HelperDisables \/ DisableReturns

Sample ==
    \/ EnterTry \/ EnterDashboard \/ CheckStarted \/ Wake \/ TakeSize
    \/ ReadL4Record \/ L4Polled \/ ReadIpRecord \/ IpPolled \/ PollRaises

Decide == DumpcapDied \/ BelowTarget \/ KeepDraining \/ StopIdle

Finish == LeaveDashboard \/ StopDumpcap \/ StopFails \/ WriteRecord

Interrupt ==
    \/ InterruptLoop \/ InterruptHandler \/ InterruptSegment \/ InterruptSeries
    \/ InterruptEnable \/ InterruptRelease

Next == Series \/ Sample \/ Decide \/ Finish \/ Interrupt \/ Traffic \/ DumpcapExits

Spec == Init /\ [][Next]_vars

\* The process and its helper run on; traffic, dumpcap and the operator are free.
FairSpec == Spec /\ WF_vars(Series \/ Sample \/ Decide \/ Finish)

-----------------------------------------------------------------------------
(* Properties *)

PcStates ==
    {"begin", "enabling", "browser", "between", "launched", "entering", "starting", "asleep", "sizing",
     "polling", "polling ip", "deciding", "handling", "handling ip", "leaving", "stopping",
     "failing", "recording", "recording ip", "returned", "unwinding", "releasing",
     "over"}

TypeOK ==
    /\ TrackersTypeOK
    /\ isolate \in BOOLEAN /\ isolated \in BOOLEAN /\ enabled \in BOOLEAN
    /\ struck \subseteq {"enable", "release"}
    /\ helper \in Helpers \cup {None}
    /\ pc \in PcStates
    /\ segmentIndex \in 0..SegmentCount
    /\ sessions \in Seq(StopReasons)
    /\ dumpcap \in {"none", "running", "exited"} /\ exposed \in BOOLEAN
    /\ fresh \in 0..FreshLimit /\ interval \in Intervals \cup {0}
    /\ quiet \in BOOLEAN /\ quietAge \in 0..IdleSeconds \cup {None}
    /\ calm \in 0..IdleSeconds /\ total \in Nat
    /\ stopReason \in StopReasons

\* capture.json counts the conversations of the sealed file as one pass over it
\* would, whatever records Ctrl+C made a tracker consume twice: its sets do not
\* mind.  The packet counters do: a record that Ctrl+C interrupted may count one
\* packet too many, and no more, since a second Ctrl+C leaves no record.  The
\* counters of a segment that stopped by itself are exact.
RecordDescribesSealedFile ==
    pc = "returned" =>
        /\ dumpcap = "exited"
        /\ record.flows = TrueL4Stats
        /\ record.ip.udp443 = Cardinality(TrueUdp \cap Udp443)
        /\ \A k \in Counters :
              record.ip.packets[k] - TruePackets[k] \in
                  IF record.stop_reason = "interrupted" THEN {0, 1} ELSE {0}

\* A segment that stopped by itself was below the idle rate for the whole
\* idle_seconds before its last sample, and had met its target by then.
IdleMeansQuiet ==
    pc = "returned" /\ record.stop_reason = TrafficIdle =>
        calm >= IdleSeconds /\ record.target_met

\* A capture.json never describes a file that dumpcap wrote in part without the
\* isolation asked for.  A dumpcap that was left running by an error or a
\* Ctrl+C writes on after the isolation is released, but gets no record.
NoExposedRecord == exposed => record = None

\* However the series ends, by itself, by an error or by Ctrl+C in the browser, a
\* segment or between them, once or again, the isolation is released (the first
\* layer of plain-capture.md:150).  The network stays blocked only if a helper
\* failed, or if Ctrl+C fell in the call that enables or in the finally clause.
IsolationReleased ==
    pc = "over" /\ isolated => helper.outcome = "failed" \/ struck # {}

\* One Ctrl+C is undone by the finally clause (plain-capture.md:150).  It does not
\* hold: when it falls after isolate.ps1 has enabled the isolation and before the
\* flag says so, nothing cuts or fails, and the network stays blocked.  (struck is
\* {"enable"} only after a single Ctrl+C: the series is over with the next step.)
OneInterruptIsUndone ==
    pc = "over" /\ struck = {"enable"} /\ helper.outcome = "ok" => ~isolated

\* A series whose segments keep meeting their target ends once the traffic does
\* (the bound on records sees to that): the quiet timer runs out, although the
\* finish timeout only changes the status line.
DrainedSeriesEnds ==
    <>[](dumpcap = "running" => total >= TargetFlows) => <>(pc = "over")
=============================================================================
