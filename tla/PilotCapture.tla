---------------------------- MODULE PilotCapture ----------------------------
(***************************************************************************)
(* _run_workload_capture: one workload under one tcpdump, and the three    *)
(* files that a finally clause writes about it, against what audit_session *)
(* makes of the directory at any later moment (DatasetAudit).              *)
(*                                                                         *)
(* Inside the try block Ctrl+C still reaches the finally clause; the       *)
(* process may also be killed, which leaves tcpdump behind.  Both can cut  *)
(* a file short.                                                           *)
(***************************************************************************)
EXTENDS TrafficWorkloads, DatasetAudit

CONSTANT MaxPackets     \* bound: packets that reach the file

ASSUME MaxPacketsAssumption == MaxPackets \in Nat \ {0}

Pcaps == [packets: 0..MaxPackets, torn: BOOLEAN]
PilotRecords == [packet_count: 0..MaxPackets, file_bytes: Nat, pcap_sha256: Pcaps \cup {None},
                 target_flows: {None}, target_met: {None},
                 successful: 0..Attempts, status: {"passed", "failed"},
                 capture_log: {None, 0, 1}]
Results == [attempted: 0..Attempts, successful: 0..Attempts, events: Seq({"ok", "error"})]

\* A record that is not there, or not whole, is told from one, and no result
\* from a result.
ASSUME RecordsAssumption ==
    /\ None \notin PilotRecords /\ Torn \notin PilotRecords
    /\ None \notin Results

VARIABLES
    pc,           \* what _run_workload_capture does next
    tcpdump,      \* "none", "running" or "exited"
    captureLog,   \* packets dropped, in tcpdump's last words; None without them
    raising,      \* an exception is on its way out
    result,       \* result
    pcap,         \* capture.pcap
    trafficLog,   \* traffic.jsonl, as the number of its events
    metadata,     \* metadata.json
    manifest      \* manifest.sha256

captureVars == <<tcpdump, captureLog, pcap>>
pilotVars == <<pc, raising, result>>
fileVars == <<trafficLog, metadata, manifest>>
vars == <<workloadVars, captureVars, pilotVars, fileVars>>

Ended == {"returned", "raised", "killed"}

-----------------------------------------------------------------------------
(* The tunnel and tcpdump *)

Tunnel ==
    /\ tcpdump = "running" /\ pcap # None /\ pcap.packets < MaxPackets
    /\ pcap' = [pcap EXCEPT !.packets = @ + 1]
    /\ UNCHANGED <<workloadVars, tcpdump, captureLog, pilotVars, fileVars>>

\* Stopped by a signal it flushes and counts; killed, or on a full disk, it
\* does neither.
Exits ==
    /\ tcpdump' = "exited"
    /\ \/ captureLog' \in {0, 1} /\ UNCHANGED pcap
       \/ /\ captureLog' = None
          /\ pcap' \in {pcap} \cup (IF pcap = None THEN {} ELSE {[pcap EXCEPT !.torn = TRUE]})

TcpdumpExits ==
    /\ tcpdump = "running"
    /\ Exits
    /\ UNCHANGED <<workloadVars, pilotVars, fileVars>>

-----------------------------------------------------------------------------
(* _run_workload_capture *)

\* Lines 122-135: no listener, no route, the directory exists, no tcpdump; and
\* in the wrappers a case that is disabled or lacks the inner network.
PilotRefused ==
    /\ pc = "preparing"
    /\ pc' = "raised"
    /\ UNCHANGED <<workloadVars, captureVars, raising, result, fileVars>>

\* start_tcpdump: the file is there, unless sudo will refuse or there is no
\* such interface.
StartTcpdump ==
    /\ pc = "preparing"
    /\ tcpdump' = "running" /\ pcap' \in {None, [packets |-> 0, torn |-> FALSE]}
    /\ pc' = "launched"
    /\ UNCHANGED <<workloadVars, captureLog, raising, result, fileVars>>

\* Lines 136-138.
EnterTry ==
    /\ pc = "launched"
    /\ pc' = "starting"
    /\ UNCHANGED <<workloadVars, captureVars, raising, result, fileVars>>

\* Lines 146-149: an exception inside the try block.  traffic_error, which the
\* audit does not look at, is left out.
Raise == raising' = TRUE /\ pc' = "stopping"

\* Lines 139-142.
CheckStarted ==
    /\ pc = "starting"
    /\ IF tcpdump = "exited" THEN Raise
       ELSE pc' = "working" /\ UNCHANGED raising
    /\ UNCHANGED <<workloadVars, captureVars, result, fileVars>>

Work ==
    /\ pc = "working"
    /\ RunWorkload
    /\ UNCHANGED <<captureVars, pilotVars, fileVars>>

\* Line 143.
WorkReturns ==
    /\ pc = "working" /\ step = "returned"
    /\ result' = WorkloadResult
    /\ pc' = "judging"
    /\ UNCHANGED <<workloadVars, captureVars, raising, fileVars>>

WorkRaises ==
    /\ pc = "working" /\ step = "failed"
    /\ Raise
    /\ UNCHANGED <<workloadVars, captureVars, result, fileVars>>

\* Lines 144-145.
Judge ==
    /\ pc = "judging"
    /\ IF result.successful = 0 THEN Raise
       ELSE pc' = "stopping" /\ UNCHANGED raising
    /\ UNCHANGED <<workloadVars, captureVars, result, fileVars>>

-----------------------------------------------------------------------------
(* The finally clause: lines 150-172 *)

AfterStop == IF result = None THEN "recording" ELSE "logging"

\* Mutant of StopTcpdump: it is signalled and not waited for.
StopUnwaited ==
    /\ pc = "stopping"
    /\ pc' = AfterStop
    /\ UNCHANGED <<workloadVars, captureVars, raising, result, fileVars>>

\* stop_tcpdump returns when the pipe of tcpdump is at its end.
StopTcpdump ==
    /\ pc = "stopping"
    /\ IF tcpdump = "running" THEN Exits ELSE UNCHANGED captureVars
    /\ pc' = AfterStop
    /\ UNCHANGED <<workloadVars, raising, result, fileVars>>

\* tcpdump.py:71 and :80.
StopFails ==
    /\ pc = "stopping" /\ tcpdump = "running"
    /\ pc' = "raised"
    /\ UNCHANGED <<workloadVars, captureVars, raising, result, fileVars>>

WriteTrafficEvents ==
    /\ pc = "logging"
    /\ trafficLog' = Len(result.events)
    /\ pc' = "recording"
    /\ UNCHANGED <<workloadVars, captureVars, raising, result, metadata, manifest>>

SuccessfulEvents == IF result = None THEN 0 ELSE result.successful

\* records.py:114-120 and 182-187; capinfos answers within its 30 seconds.
PacketCount == IF pcap = None THEN 0 ELSE ReadablePackets(pcap)
PcapSize == IF pcap = None THEN 0 ELSE Bytes(pcap)
ValidationStatus == IF PacketCount > 0 /\ SuccessfulEvents > 0 THEN "passed" ELSE "failed"

WritePilotRecord ==
    /\ pc = "recording"
    /\ metadata' = [packet_count |-> PacketCount,
                    file_bytes   |-> PcapSize,
                    pcap_sha256  |-> pcap,
                    target_flows |-> None,
                    target_met   |-> None,
                    successful   |-> SuccessfulEvents,
                    status       |-> ValidationStatus,
                    capture_log  |-> captureLog]
    /\ pc' = "sealing"
    /\ UNCHANGED <<workloadVars, captureVars, raising, result, trafficLog, manifest>>

Files == [pcap |-> pcap, trafficLog |-> trafficLog, metadata |-> metadata]

\* Mutant of Digests: they are taken before the record is complete.
DigestsBeforeRecord == [Files EXCEPT !.metadata = Torn]

\* records.py:171-172: of the files there are.
Digests == [name \in {f \in DOMAIN Files : Files[f] # None} |-> Files[name]]

WriteManifest ==
    /\ pc = "sealing"
    /\ manifest' = Digests
    /\ pc' = IF raising THEN "raised" ELSE "returned"
    /\ UNCHANGED <<workloadVars, captureVars, raising, result, trafficLog, metadata>>

-----------------------------------------------------------------------------
(* Ctrl+C, a full disk, a kill *)

\* A result that run() has returned is kept.
InterruptTry ==
    /\ pc \in {"starting", "working", "judging"}
    /\ Raise
    /\ UNCHANGED <<workloadVars, captureVars, result, fileVars>>

\* Of a file that is being written something may be on the disk: the first
\* events, an empty record or an empty manifest.
CutShort ==
    /\ trafficLog' \in IF pc = "logging" THEN {None} \cup 0..Len(result.events) ELSE {trafficLog}
    /\ metadata' \in IF pc = "recording" THEN {None, Torn} ELSE {metadata}
    /\ manifest' \in IF pc = "sealing" THEN {None, Torn} ELSE {manifest}
    /\ UNCHANGED <<workloadVars, captureVars, raising, result>>

\* Outside the try block Ctrl+C leaves at once, as a write that fails does.
InterruptOutside ==
    /\ pc \in {"preparing", "launched", "stopping", "logging", "recording", "sealing"}
    /\ CutShort
    /\ pc' = "raised"

Killed ==
    /\ pc \notin Ended
    /\ CutShort
    /\ pc' = "killed"

-----------------------------------------------------------------------------
Init ==
    /\ workload \in {"udp", "web"} /\ WorkloadInit
    /\ pc = "preparing" /\ tcpdump = "none" /\ captureLog = None
    /\ raising = FALSE /\ result = None
    /\ pcap = None /\ trafficLog = None /\ metadata = None /\ manifest = None

RunPilot ==
    \/ PilotRefused \/ StartTcpdump \/ EnterTry \/ CheckStarted
    \/ Work \/ WorkReturns \/ WorkRaises \/ Judge
    \/ StopTcpdump \/ StopFails \/ WriteTrafficEvents \/ WritePilotRecord \/ WriteManifest

Interrupt == InterruptTry \/ InterruptOutside \/ Killed

Environment ==
    \/ Tunnel \/ TcpdumpExits
    \/ Network /\ UNCHANGED <<captureVars, pilotVars, fileVars>>

Next == RunPilot \/ Interrupt \/ Environment

Spec == Init /\ [][Next]_vars

\* The process runs; the network, tcpdump and the operator are free.
FairSpec == Spec /\ WF_vars(RunPilot)

-----------------------------------------------------------------------------
(* Properties *)

PilotTypeOK ==
    /\ WorkloadTypeOK
    /\ pc \in {"preparing", "launched", "starting", "working", "judging", "stopping", "logging",
               "recording", "sealing"} \cup Ended
    /\ tcpdump \in {"none", "running", "exited"}
    /\ captureLog \in {None, 0, 1}
    /\ raising \in BOOLEAN
    /\ pcap \in Pcaps \cup {None}
    /\ trafficLog \in 0..Attempts \cup {None}
    /\ metadata \in PilotRecords \cup {None, Torn}
    /\ manifest \notin {None, Torn} => DOMAIN manifest \subseteq DOMAIN Files

\* audit_session on the directory as it is now; without a whole metadata.json
\* it raises.
Accepted ==
    /\ metadata \notin {None, Torn}
    /\ PcapPasses(metadata, pcap)
    /\ ManifestPasses(manifest, Files)
    /\ CompletionPasses(metadata, "tcp")
    /\ DropsPass(metadata.capture_log)
    /\ WorkloadPasses(metadata.status, metadata.successful)

\* What the audit accepts is finished and whole, at whatever step the command
\* was cut short and although a missing manifest only warns: no tcpdump writes
\* to the PCAP any more, the record counts its packets, the traffic log has
\* every event, and the record counts its successes.
AcceptedIsWhole ==
    Accepted =>
        /\ tcpdump = "exited" /\ ~pcap.torn
        /\ metadata.packet_count = pcap.packets
        /\ trafficLog = Len(events)
        /\ metadata.successful = Successful

\* The other direction: a command that returned normally leaves a directory
\* the audit accepts, unless tcpdump saw nothing, lost packets or tore one.
\* The digests are those of the files as they stay.
ReturnedIsAccepted ==
    /\ pc = "returned"
    /\ captureLog # 1 /\ PacketCount > 0
    => Accepted

\* The command ends by itself: every exchange has its timeout, every page its
\* deadline, and stop_tcpdump its three.
PilotEnds == <>(pc \in Ended)
=============================================================================
