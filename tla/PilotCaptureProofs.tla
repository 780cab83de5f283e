------------------------- MODULE PilotCaptureProofs -------------------------
(***************************************************************************)
(* No reply to an earlier datagram is counted as the echo of a later one,  *)
(* and what the audit accepts is finished and whole, for any number of     *)
(* exchanges and packets, any queue and any behaviour of the network,      *)
(* tcpdump and the operator.                                               *)
(***************************************************************************)
EXTENDS PilotCapture, FiniteSetTheorems, TLAPS

-----------------------------------------------------------------------------
(* Datagrams *)

\* Each workload keeps to its own steps; the UDP one starts with no reply on
\* its way.
OwnSteps ==
    /\ step \in {"paging", "closing"} => workload = "web"
    /\ step = "idle" => echoes = {} /\ inbox = <<>>

\* What the network may deliver was sent: its index is at most that of the
\* datagram last sent, and what already waited then is older than that.
OnlySent ==
    /\ events \in Seq({"ok", "error"})
    /\ echoes \subseteq Nat /\ inbox \in Seq(Nat)
    /\ step = "sending" =>
          /\ \A index \in echoes : index <= Len(events)
          /\ \A i \in 1..Len(inbox) : inbox[i] <= Len(events)
    /\ step = "receiving" =>
          /\ backlog \in 0..Len(inbox)
          /\ \A index \in echoes : index <= Index
          /\ \A i \in 1..Len(inbox) : inbox[i] <= Index /\ (i <= backlog => inbox[i] < Index)

NetInv == OwnSteps /\ OnlySent

LEMMA NetInvInitially == Init => NetInv
  BY DEF Init, WorkloadInit, NetInv, OwnSteps, OnlySent

\* What arrives joins the end of the queue.
LEMMA ArrivalKeepsNetInv ==
    ASSUME NetInv, Network
    PROVE  NetInv' /\ events' = events
<1>1. PICK d \in Nat :
         /\ inbox' = Append(inbox, d)
         /\ d \in echoes \/ d = 0
         /\ echoes' \subseteq echoes
  BY DEF Network, EchoArrives, StrayArrives, NetInv, OnlySent
<1>2. UNCHANGED <<workload, step, events, backlog>> /\ SocketOpen
  BY DEF Network, EchoArrives, StrayArrives
<1>3. /\ inbox' \in Seq(Nat) /\ Len(inbox') = Len(inbox) + 1
      /\ \A i \in 1..Len(inbox) : inbox'[i] = inbox[i]
      /\ inbox'[Len(inbox')] = d
  BY <1>1 DEF NetInv, OnlySent
<1>4. Len(events) \in Nat
  BY DEF NetInv, OnlySent
<1>5. OnlySent'
  BY <1>1, <1>2, <1>3, <1>4 DEF NetInv, OnlySent, SocketOpen, Index
<1>6. OwnSteps'
  BY <1>2 DEF NetInv, OwnSteps, SocketOpen
<1> QED
  BY <1>2, <1>5, <1>6 DEF NetInv

\* A datagram is younger than all that waits when it is sent.
LEMMA SendKeepsNetInv ==
    ASSUME NetInv, SendDatagram
    PROVE  NetInv' /\ events' = events
<1>1. /\ Len(events) \in Nat /\ Len(inbox) \in Nat
      /\ \A index \in echoes : index \in Nat /\ index <= Len(events)
      /\ \A i \in 1..Len(inbox) : inbox[i] \in Nat /\ inbox[i] <= Len(events)
  BY DEF SendDatagram, NetInv, OnlySent
<1>2. /\ UNCHANGED <<workload, events, inbox>>
      /\ backlog' = Len(inbox) /\ echoes' = echoes \cup {Len(events) + 1} /\ step' = "receiving"
  BY DEF SendDatagram, Index
<1>3. /\ events' \in Seq({"ok", "error"}) /\ inbox' \in Seq(Nat) /\ echoes' \subseteq Nat
  <2>1. events \in Seq({"ok", "error"}) /\ inbox \in Seq(Nat) /\ echoes \subseteq Nat
    BY DEF NetInv, OnlySent
  <2>2. Len(events) + 1 \in Nat
    BY <1>1
  <2>3. echoes' \subseteq Nat
    BY <1>2, <2>1, <2>2, Zenon
  <2> QED
    BY <1>2, <2>1, <2>3, Zenon
<1>4. OnlySent'
  BY <1>1, <1>2, <1>3 DEF OnlySent, Index
<1> QED
  BY <1>2, <1>4 DEF NetInv, OwnSteps

\* An exchange that ends, whatever is left in the queue, raises the index.
LEMMA ReceiveKeepsNetInv ==
    ASSUME NetInv, ReceiveDatagram
    PROVE  NetInv' /\ (Last(events') = "ok" => backlog = 0)
<1>1. /\ inbox \in Seq(Nat) /\ inbox # <<>> /\ Len(inbox) >= 1 /\ events \in Seq({"ok", "error"})
      /\ step = "receiving"
  BY DEF ReceiveDatagram, NetInv, OnlySent
<1>2. /\ inbox' \in Seq(Nat) /\ Len(inbox') = Len(inbox) - 1
      /\ \A i \in 1..Len(inbox') : inbox'[i] = inbox[i + 1]
      /\ UNCHANGED <<workload, echoes, backlog>>
  BY <1>1 DEF ReceiveDatagram
<1>3. PICK status \in {"ok", "error"} :
         /\ EndsExchange(status)
         /\ status = "ok" => Head(inbox) = Index
  BY DEF ReceiveDatagram, IsOwnEcho
<1>4. /\ events' \in Seq({"ok", "error"}) /\ Len(events') = Len(events) + 1
      /\ events'[Len(events')] = status
      /\ step' \in {"returned", "sending"}
  BY <1>1, <1>3 DEF EndsExchange
<1>5. OnlySent'
  <2>1. /\ Len(events) \in Nat /\ echoes \subseteq Nat
        /\ \A index \in echoes : index <= Len(events) + 1
        /\ \A i \in 1..Len(inbox) : inbox[i] <= Len(events) + 1
    BY <1>1 DEF NetInv, OnlySent, Index
  <2>2. \A i \in 1..Len(inbox') : inbox'[i] <= Len(events')
    <3> SUFFICES ASSUME NEW i \in 1..Len(inbox') PROVE inbox'[i] <= Len(events')
      OBVIOUS
    <3>1. i + 1 \in 1..Len(inbox)
      BY <1>1, <1>2
    <3> QED
      BY <1>2, <1>4, <2>1, <3>1
  <2>3. \A index \in echoes' : index <= Len(events')
    BY <1>2, <1>4, <2>1
  <2> QED
    BY <1>2, <1>4, <2>1, <2>2, <2>3 DEF OnlySent
<1>6. OwnSteps'
  BY <1>4 DEF OwnSteps
<1>7. Last(events') = "ok" => backlog = 0
  BY <1>1, <1>3, <1>4 DEF Last, NetInv, OnlySent, Index
<1> QED
  BY <1>5, <1>6, <1>7 DEF NetInv

\* A timeout and a datagram that could not be sent leave the queue as it is.
LEMMA ErrorKeepsNetInv ==
    ASSUME NetInv, SendFails \/ ReceiveTimesOut
    PROVE  NetInv' /\ Last(events') # "ok"
<1>1. EndsExchange("error") /\ UNCHANGED <<workload, netVars>> /\ SocketOpen
  BY DEF SendFails, ReceiveTimesOut, TimesOut, SocketOpen
<1>2. /\ events' \in Seq({"ok", "error"}) /\ Len(events') = Len(events) + 1
      /\ events'[Len(events')] = "error"
      /\ step' \in {"returned", "sending"} /\ Len(events) \in Nat
  BY <1>1 DEF EndsExchange, NetInv, OnlySent
<1>3. OnlySent'
  BY <1>1, <1>2 DEF netVars, SocketOpen, NetInv, OnlySent, Index
<1> QED
  BY <1>2, <1>3 DEF NetInv, OwnSteps, Last

\* The browser and the ends of the workload leave the socket alone.
LEMMA RestKeepsNetInv ==
    ASSUME NetInv,
           \/ Associate \/ LaunchBrowser \/ VisitPage \/ StopPaging \/ CloseBrowser
           \/ WorkloadFails \/ UNCHANGED workloadVars
    PROVE  NetInv' /\ (events' # events => workload = "web")
<1>1. CASE Associate
  BY <1>1 DEF Associate, netVars, NetInv, OwnSteps, OnlySent
<1>2. CASE VisitPage
  <2>1. events' \in Seq({"ok", "error"})
    BY <1>2 DEF VisitPage, NetInv, OnlySent
  <2> QED
    BY <1>2, <2>1 DEF VisitPage, netVars, NetInv, OwnSteps, OnlySent
<1>3. CASE LaunchBrowser \/ StopPaging \/ CloseBrowser \/ WorkloadFails
  BY <1>3 DEF LaunchBrowser, StopPaging, CloseBrowser, WorkloadFails, netVars, NetInv, OwnSteps,
              OnlySent
<1>4. CASE UNCHANGED workloadVars
  BY <1>4 DEF workloadVars, netVars, NetInv, OwnSteps, OnlySent, Index
<1> QED
  BY <1>1, <1>2, <1>3, <1>4

LEMMA StepKeepsNetInv ==
    ASSUME NetInv, [Next]_vars
    PROVE  NetInv' /\ (workload = "udp" /\ events' # events /\ Last(events') = "ok" => backlog = 0)
<1>1. CASE Network
  BY <1>1, ArrivalKeepsNetInv
<1>2. CASE RunWorkload
  <2>1. CASE SendDatagram
    BY <2>1, SendKeepsNetInv
  <2>2. CASE ReceiveDatagram
    BY <2>2, ReceiveKeepsNetInv
  <2>3. CASE SendFails \/ ReceiveTimesOut
    BY <2>3, ErrorKeepsNetInv
  <2>4. CASE \/ Associate \/ LaunchBrowser \/ VisitPage \/ StopPaging \/ CloseBrowser
             \/ WorkloadFails
    <3>1. NetInv' /\ (events' # events => workload = "web")
      BY <2>4, RestKeepsNetInv
    <3> QED
      BY <3>1
  <2> QED
    BY <1>2, <2>1, <2>2, <2>3, <2>4 DEF RunWorkload
<1>3. CASE UNCHANGED workloadVars
  BY <1>3, RestKeepsNetInv DEF workloadVars
<1>4. Network \/ RunWorkload \/ UNCHANGED workloadVars
  BY DEF Next, RunPilot, PilotRefused, StartTcpdump, EnterTry, CheckStarted, Work, WorkReturns,
         WorkRaises, Judge, StopTcpdump, StopFails, WriteTrafficEvents, WritePilotRecord,
         WriteManifest, Interrupt, InterruptTry, InterruptOutside, Killed, CutShort, Environment,
         Tunnel, TcpdumpExits, vars
<1> QED
  BY <1>1, <1>2, <1>3, <1>4

\* generate_socks5_udp_traffic never counts a late reply as the echo of the
\* datagram it waits for, although it reads whatever comes first
\* (socks5_udp.py:64-79).
THEOREM NoStaleEcho == Spec => OkMeansFreshEcho
<1>1. Init => NetInv
  BY NetInvInitially
<1>2. NetInv /\ [Next]_vars => NetInv'
  BY StepKeepsNetInv
<1>3. NetInv /\ [Next]_vars =>
        [workload = "udp" /\ events' # events /\ Last(events') = "ok" => backlog = 0]_workloadVars
  BY StepKeepsNetInv
<1> QED
  BY <1>1, <1>2, <1>3, PTL DEF Spec, OkMeansFreshEcho

-----------------------------------------------------------------------------
(* What the audit accepts *)

Recorded == metadata \notin {None, Torn}

\* The result is that of the workload, which is over.
ResultIsFinal == result # None => step = "returned" /\ result = WorkloadResult

\* From the stop of tcpdump on it is gone; before, it was started.
Stopped ==
    /\ tcpdump \in {"none", "running", "exited"}
    /\ pc \in {"launched", "starting", "working", "judging", "stopping"} => tcpdump # "none"
    /\ pc \in {"logging", "recording", "sealing"} => tcpdump = "exited"

\* The log is complete before the record is begun.
LogBeforeRecord ==
    /\ pc \in {"recording", "sealing"} \/ Recorded => (result # None => trafficLog = Len(events))
    /\ Recorded => pc \in {"sealing"} \cup Ended

\* A record describes files that no longer change.
RecordIsFinal ==
    Recorded => /\ tcpdump = "exited"
                /\ metadata.packet_count = PacketCount
                /\ metadata.successful = SuccessfulEvents

WholeInv == ResultIsFinal /\ Stopped /\ LogBeforeRecord /\ RecordIsFinal

LEMMA WholeInvInitially == Init => WholeInv
  BY DEF Init, WorkloadInit, WholeInv, ResultIsFinal, Stopped, LogBeforeRecord, RecordIsFinal,
         Recorded

LEMMA SameEventsSameResult ==
    ASSUME events' = events
    PROVE  WorkloadResult' = WorkloadResult /\ Successful' = Successful
  BY DEF WorkloadResult, Successful

LEMMA SamePcapSameCount ==
    ASSUME pcap' = pcap, result' = result
    PROVE  PacketCount' = PacketCount /\ SuccessfulEvents' = SuccessfulEvents
  BY DEF PacketCount, SuccessfulEvents

\* A workload that has returned takes no more steps.
LEMMA ReturnedStays ==
    ASSUME RunWorkload \/ Network, step = "returned"
    PROVE  FALSE
  BY DEF RunWorkload, Network, EchoArrives, StrayArrives, SocketOpen, Associate, SendDatagram,
         SendFails, ReceiveDatagram, ReceiveTimesOut, TimesOut, LaunchBrowser, VisitPage,
         StopPaging, CloseBrowser, WorkloadFails

\* The network, and the workload inside its try block.
LEMMA WorkKeepsWholeInv ==
    ASSUME WholeInv,
           \/ Work
           \/ Network /\ UNCHANGED <<captureVars, pilotVars, fileVars>>
    PROVE  WholeInv'
<1>1. step # "returned" /\ UNCHANGED <<captureVars, pilotVars, fileVars>>
  BY ReturnedStays DEF Work
<1>2. result = None
  BY <1>1 DEF WholeInv, ResultIsFinal
<1>3. PacketCount' = PacketCount /\ SuccessfulEvents' = SuccessfulEvents
  BY <1>1, SamePcapSameCount DEF captureVars, pilotVars
<1> QED
  BY <1>1, <1>2, <1>3 DEF captureVars, pilotVars, fileVars, WholeInv, ResultIsFinal, Stopped,
                          LogBeforeRecord, RecordIsFinal, Recorded

\* Whatever the command does before it has a record to write.
LEMMA EarlyStepKeepsWholeInv ==
    ASSUME WholeInv,
           \/ PilotRefused \/ StartTcpdump \/ EnterTry \/ CheckStarted
           \/ WorkReturns \/ WorkRaises \/ Judge \/ InterruptTry
           \/ Tunnel \/ TcpdumpExits \/ StopTcpdump \/ StopFails \/ WriteTrafficEvents
    PROVE  WholeInv'
<1>1. WorkloadResult' = WorkloadResult /\ UNCHANGED <<step, events, metadata>>
  BY SameEventsSameResult
     DEF PilotRefused, StartTcpdump, EnterTry, CheckStarted, WorkReturns, WorkRaises, Judge,
         InterruptTry, Tunnel, TcpdumpExits, StopTcpdump, StopFails, WriteTrafficEvents,
         workloadVars, fileVars
<1>2. CASE PilotRefused \/ StartTcpdump \/ EnterTry \/ CheckStarted \/ WorkRaises \/ Judge \/ InterruptTry
  BY <1>1, <1>2
     DEF PilotRefused, StartTcpdump, EnterTry, CheckStarted, WorkRaises, Judge, InterruptTry, Raise,
         captureVars, fileVars, Ended,
         WholeInv, ResultIsFinal, Stopped, LogBeforeRecord, RecordIsFinal, Recorded
<1>3. CASE WorkReturns
  BY <1>1, <1>3
     DEF WorkReturns, captureVars, fileVars, Ended,
         WholeInv, ResultIsFinal, Stopped, LogBeforeRecord, RecordIsFinal, Recorded
<1>4. CASE Tunnel \/ TcpdumpExits
  <2>1. ~Recorded /\ tcpdump = "running" /\ tcpdump' \in {"running", "exited"}
    BY <1>4 DEF Tunnel, TcpdumpExits, Exits, WholeInv, RecordIsFinal
  <2>2. UNCHANGED <<pc, result, trafficLog>>
    BY <1>4 DEF Tunnel, TcpdumpExits, pilotVars, fileVars
  <2> QED
    BY <1>1, <2>1, <2>2
       DEF WholeInv, ResultIsFinal, Stopped, LogBeforeRecord, RecordIsFinal, Recorded
<1>5. CASE StopTcpdump
  <2>1. tcpdump' = "exited"
    BY <1>5 DEF StopTcpdump, Exits, captureVars, WholeInv, Stopped
  <2> QED
    BY <1>1, <1>5, <2>1
       DEF StopTcpdump, AfterStop, fileVars, Ended,
           WholeInv, ResultIsFinal, Stopped, LogBeforeRecord, RecordIsFinal, Recorded
<1>6. CASE StopFails
  BY <1>1, <1>6
     DEF StopFails, captureVars, fileVars, Ended,
         WholeInv, ResultIsFinal, Stopped, LogBeforeRecord, RecordIsFinal, Recorded
<1>7. CASE WriteTrafficEvents
  <2>1. result # None => Len(result.events) = Len(events)
    BY DEF WholeInv, ResultIsFinal, WorkloadResult
  <2> QED
    BY <1>1, <1>7, <2>1
       DEF WriteTrafficEvents, captureVars, Ended,
           WholeInv, ResultIsFinal, Stopped, LogBeforeRecord, RecordIsFinal, Recorded
<1> QED
  BY <1>2, <1>3, <1>4, <1>5, <1>6, <1>7

\* The record describes the file that tcpdump has left.
LEMMA RecordKeepsWholeInv ==
    ASSUME WholeInv, WritePilotRecord
    PROVE  WholeInv'
<1>1. /\ WorkloadResult' = WorkloadResult
      /\ PacketCount' = PacketCount /\ SuccessfulEvents' = SuccessfulEvents
  BY SameEventsSameResult, SamePcapSameCount DEF WritePilotRecord, workloadVars, captureVars
<1>2. metadata'.packet_count = PacketCount /\ metadata'.successful = SuccessfulEvents
  BY DEF WritePilotRecord
<1> QED
  BY <1>1, <1>2
     DEF WritePilotRecord, workloadVars, captureVars, Ended,
         WholeInv, ResultIsFinal, Stopped, LogBeforeRecord, RecordIsFinal, Recorded

\* The manifest, and the ends of a command that was cut short: what is cut is no
\* record.
LEMMA EndKeepsWholeInv ==
    ASSUME WholeInv,
           WriteManifest \/ InterruptOutside \/ Killed \/ UNCHANGED vars
    PROVE  WholeInv'
<1>1. UNCHANGED <<step, events, result, pcap, tcpdump>>
  BY DEF WriteManifest, InterruptOutside, Killed, CutShort, vars, workloadVars, captureVars, pilotVars
<1>2. /\ WorkloadResult' = WorkloadResult
      /\ PacketCount' = PacketCount /\ SuccessfulEvents' = SuccessfulEvents
  BY <1>1, SameEventsSameResult, SamePcapSameCount
<1>3. Recorded' => /\ metadata' = metadata /\ Recorded
                   /\ pc' \in {"sealing"} \cup Ended
                   /\ trafficLog' = trafficLog
  BY DEF WriteManifest, InterruptOutside, Killed, CutShort, vars, pilotVars, fileVars, Ended, WholeInv,
         LogBeforeRecord, Recorded
<1>4. \/ UNCHANGED <<pc, trafficLog, metadata>>
      \/ pc' \in Ended
  BY DEF WriteManifest, InterruptOutside, Killed, CutShort, vars, pilotVars, fileVars, Ended
<1> QED
  BY <1>1, <1>2, <1>3, <1>4
     DEF Ended, WholeInv, ResultIsFinal, Stopped, LogBeforeRecord, RecordIsFinal, Recorded

LEMMA StepKeepsWholeInv ==
    ASSUME WholeInv, [Next]_vars
    PROVE  WholeInv'
  BY WorkKeepsWholeInv, EarlyStepKeepsWholeInv, RecordKeepsWholeInv, EndKeepsWholeInv
     DEF Next, RunPilot, Interrupt, Environment

\* An accepted record has a readable PCAP, and successes, hence a result.
LEMMA WholeInvSuffices == ASSUME WholeInv PROVE AcceptedIsWhole
<1> SUFFICES ASSUME Accepted
             PROVE  /\ tcpdump = "exited" /\ ~pcap.torn
                    /\ metadata.packet_count = pcap.packets
                    /\ trafficLog = Len(events)
                    /\ metadata.successful = Successful
  BY DEF AcceptedIsWhole
<1>1. /\ Recorded /\ pcap # None /\ ReadablePackets(pcap) > 0 /\ metadata.successful # 0
  BY DEF Accepted, Recorded, PcapPasses, WorkloadPasses
<1>2. ~pcap.torn /\ PacketCount = pcap.packets
  BY <1>1 DEF ReadablePackets, PacketCount
<1>3. result # None /\ SuccessfulEvents = Successful
  BY <1>1 DEF WholeInv, RecordIsFinal, ResultIsFinal, SuccessfulEvents, WorkloadResult
<1> QED
  BY <1>1, <1>2, <1>3 DEF WholeInv, RecordIsFinal, LogBeforeRecord

\* Whatever cuts a pilot short and wherever (pilot.py:136-172), the audit accepts
\* its directory only with the PCAP sealed and counted and every event logged.
THEOREM AuditAcceptsWholePilots == Spec => []AcceptedIsWhole
<1>1. Init => WholeInv
  BY WholeInvInitially
<1>2. WholeInv /\ [Next]_vars => WholeInv'
  BY StepKeepsWholeInv
<1>3. WholeInv => AcceptedIsWhole
  BY WholeInvSuffices
<1> QED
  BY <1>1, <1>2, <1>3, PTL DEF Spec

-----------------------------------------------------------------------------
(* Types *)

LEMMA SuccessfulIsCount ==
    ASSUME events \in Seq({"ok", "error"})
    PROVE  Successful \in 0..Len(events)
<1> DEFINE ok == {i \in DOMAIN events : events[i] = "ok"}
<1>1. Len(events) \in Nat /\ DOMAIN events = 1..Len(events)
  OBVIOUS
<1>2. IsFiniteSet(1..Len(events)) /\ Cardinality(1..Len(events)) = Len(events)
  BY <1>1, FS_Interval
<1>3. ok \in SUBSET (1..Len(events))
  BY <1>1
<1>4. Cardinality(ok) \in Nat /\ Cardinality(ok) <= Len(events)
  BY <1>2, <1>3, FS_Subset, FS_CardinalityType
<1> QED
  BY <1>1, <1>4 DEF Successful

\* An exchange is only begun while some are left.
ExchangesLeft == step \in {"idle", "sending", "receiving"} => Len(events) < Attempts

WorkTyped == WorkloadTypeOK /\ ExchangesLeft

LEMMA WorkTypedStep ==
    ASSUME WorkTyped, RunWorkload \/ Network \/ UNCHANGED workloadVars
    PROVE  WorkTyped'
<1> USE AttemptsAssumption, MaxInboxAssumption
<1>1. /\ events \in Seq({"ok", "error"}) /\ Len(events) \in Nat /\ Len(events) <= Attempts
      /\ inbox \in Seq(0..Attempts) /\ Len(inbox) \in Nat /\ Len(inbox) <= MaxInbox
      /\ echoes \subseteq 1..Attempts /\ backlog \in 0..MaxInbox
      /\ workload \in {"udp", "web"}
  BY DEF WorkTyped, WorkloadTypeOK
<1>2. ASSUME NEW status \in {"ok", "error"}, EndsExchange(status), Len(events) < Attempts
      PROVE  /\ events' \in Seq({"ok", "error"}) /\ Len(events') <= Attempts
             /\ step' \in {"returned", "sending"}
             /\ step' = "sending" => Len(events') < Attempts
  BY <1>1, <1>2 DEF EndsExchange, Index
<1>3. CASE Network
  <2>1. PICK d \in 0..Attempts : inbox' = Append(inbox, d) /\ echoes' \subseteq echoes
    BY <1>1, <1>3 DEF Network, EchoArrives, StrayArrives
  <2>2. /\ Len(inbox) < MaxInbox
        /\ UNCHANGED <<workload, step, events, backlog>>
    BY <1>3 DEF Network, EchoArrives, StrayArrives
  <2>3. inbox' \in Seq(0..Attempts) /\ Len(inbox') <= MaxInbox
    BY <1>1, <2>1, <2>2
  <2> QED
    BY <1>1, <2>1, <2>2, <2>3 DEF WorkTyped, WorkloadTypeOK, ExchangesLeft, SocketOpen
<1>4. CASE SendDatagram
  <2>1. Len(events) < Attempts /\ Index \in 1..Attempts
    BY <1>1, <1>4 DEF SendDatagram, WorkTyped, ExchangesLeft, SocketOpen, Index
  <2> QED
    BY <1>1, <1>4, <2>1 DEF SendDatagram, WorkTyped, WorkloadTypeOK, ExchangesLeft, SocketOpen
<1>5. CASE SendFails \/ ReceiveTimesOut
  <2>1. Len(events) < Attempts /\ EndsExchange("error") /\ UNCHANGED <<workload, netVars>>
    BY <1>5 DEF SendFails, ReceiveTimesOut, TimesOut, WorkTyped, ExchangesLeft, SocketOpen
  <2> QED
    BY <1>1, <1>2, <2>1 DEF netVars, WorkTyped, WorkloadTypeOK, ExchangesLeft, SocketOpen
<1>6. CASE ReceiveDatagram
  <2>1. PICK status \in {"ok", "error"} : EndsExchange(status)
    BY <1>6 DEF ReceiveDatagram
  <2>2. Len(events) < Attempts /\ inbox # <<>> /\ inbox' = Tail(inbox)
        /\ UNCHANGED <<workload, echoes, backlog>>
    BY <1>6 DEF ReceiveDatagram, WorkTyped, ExchangesLeft, SocketOpen
  <2>3. inbox' \in Seq(0..Attempts) /\ Len(inbox') <= MaxInbox
    BY <1>1, <2>2
  <2> QED
    BY <1>1, <1>2, <2>1, <2>2, <2>3 DEF WorkTyped, WorkloadTypeOK, ExchangesLeft, SocketOpen
<1>7. CASE VisitPage
  <2>1. PICK status \in {"ok", "error"} : events' = Append(events, status)
    BY <1>7 DEF VisitPage
  <2>2. /\ Len(events) < Attempts /\ step = "paging" /\ UNCHANGED <<workload, step, netVars>>
    BY <1>7 DEF VisitPage, MorePages
  <2>3. events' \in Seq({"ok", "error"}) /\ Len(events') <= Attempts
    BY <1>1, <2>1, <2>2
  <2> QED
    BY <1>1, <2>2, <2>3 DEF netVars, WorkTyped, WorkloadTypeOK, ExchangesLeft, SocketOpen
<1>8. CASE Associate
  <2>1. Len(events) < Attempts
    BY <1>8 DEF Associate, WorkTyped, ExchangesLeft
  <2> QED
    BY <1>1, <1>8, <2>1 DEF Associate, netVars, WorkTyped, WorkloadTypeOK, ExchangesLeft, SocketOpen
<1>9. CASE LaunchBrowser \/ StopPaging \/ CloseBrowser \/ WorkloadFails \/ UNCHANGED workloadVars
  BY <1>1, <1>9 DEF LaunchBrowser, StopPaging, CloseBrowser, WorkloadFails, workloadVars, netVars,
                    WorkTyped, WorkloadTypeOK, ExchangesLeft, SocketOpen
<1> QED
  BY <1>3, <1>4, <1>5, <1>6, <1>7, <1>8, <1>9 DEF RunWorkload

PilotTyped ==
    /\ pc \in {"preparing", "launched", "starting", "working", "judging", "stopping", "logging",
               "recording", "sealing"} \cup Ended
    /\ tcpdump \in {"none", "running", "exited"}
    /\ captureLog \in {None, 0, 1}
    /\ raising \in BOOLEAN
    /\ pcap \in Pcaps \cup {None}
    /\ trafficLog \in 0..Attempts \cup {None}
    /\ metadata \in PilotRecords \cup {None, Torn}
    /\ manifest \notin {None, Torn} => DOMAIN manifest \subseteq DOMAIN Files
    /\ pc = "logging" => result # None

\* What the workload returned is within the number of its exchanges.
LEMMA ResultTyped ==
    ASSUME WorkTyped, ResultIsFinal, result # None
    PROVE  result.successful \in 0..Attempts /\ Len(result.events) \in 0..Attempts
<1>1. events \in Seq({"ok", "error"}) /\ Len(events) \in Nat /\ Len(events) <= Attempts
  BY DEF WorkTyped, WorkloadTypeOK
<1>2. result.successful = Successful /\ result.events = events
  BY DEF ResultIsFinal, WorkloadResult
<1> QED
  BY <1>1, <1>2, SuccessfulIsCount, AttemptsAssumption

LEMMA RecordTyped ==
    ASSUME WorkTyped, ResultIsFinal, PilotTyped, WritePilotRecord
    PROVE  metadata' \in PilotRecords
<1>1. PacketCount \in 0..MaxPackets /\ PcapSize \in Nat
  BY MaxPacketsAssumption DEF PilotTyped, PacketCount, PcapSize, ReadablePackets, Bytes, Pcaps
<1>2. SuccessfulEvents \in 0..Attempts
  BY ResultTyped, AttemptsAssumption DEF SuccessfulEvents
<1>3. ValidationStatus \in {"passed", "failed"}
  BY DEF ValidationStatus
<1>4. pcap \in Pcaps \cup {None} /\ captureLog \in {None, 0, 1}
  BY DEF PilotTyped
<1>5. metadata' = [packet_count |-> PacketCount, file_bytes |-> PcapSize, pcap_sha256 |-> pcap,
                   target_flows |-> None, target_met |-> None,
                   successful |-> SuccessfulEvents, status |-> ValidationStatus,
                   capture_log |-> captureLog]
  BY DEF WritePilotRecord
<1> HIDE DEF PacketCount, PcapSize, SuccessfulEvents, ValidationStatus
<1> QED
  BY <1>1, <1>2, <1>3, <1>4, <1>5 DEF PilotRecords

LEMMA PcapTyped ==
    ASSUME PilotTyped, Exits \/ Tunnel \/ StartTcpdump \/ UNCHANGED captureVars
    PROVE  pcap' \in Pcaps \cup {None}
<1>1. pcap \in Pcaps \cup {None}
  BY DEF PilotTyped
<1>2. CASE Tunnel
  BY <1>1, <1>2, MaxPacketsAssumption DEF Tunnel, Pcaps
<1>3. CASE Exits
  BY <1>1, <1>3 DEF Exits, Pcaps
<1>4. CASE StartTcpdump
  <2>1. [packets |-> 0, torn |-> FALSE] \in Pcaps
    BY MaxPacketsAssumption DEF Pcaps
  <2> QED
    BY <1>4, <2>1 DEF StartTcpdump
<1> QED
  BY <1>1, <1>2, <1>3, <1>4 DEF captureVars

LEMMA PilotTypedStep ==
    ASSUME WorkTyped, WholeInv, PilotTyped, [Next]_vars
    PROVE  PilotTyped'
<1>1. DOMAIN Files = {"pcap", "trafficLog", "metadata"} /\ DOMAIN Files' = DOMAIN Files
  BY DEF Files
<1>2. CASE PilotRefused \/ EnterTry \/ CheckStarted \/ WorkRaises \/ Judge \/ InterruptTry \/ StopFails
  BY <1>1, <1>2
     DEF PilotRefused, EnterTry, CheckStarted, WorkRaises, Judge, InterruptTry, Raise, StopFails,
         captureVars, fileVars, PilotTyped, Ended
<1>3. CASE StartTcpdump
  BY <1>1, <1>3, PcapTyped DEF StartTcpdump, fileVars, PilotTyped
<1>4. CASE WorkReturns
  BY <1>1, <1>4 DEF WorkReturns, captureVars, fileVars, PilotTyped
<1>5. CASE Tunnel \/ TcpdumpExits
  <2>1. pcap' \in Pcaps \cup {None}
    BY <1>5, PcapTyped DEF TcpdumpExits
  <2>2. tcpdump' \in {"running", "exited"} /\ captureLog' \in {None, 0, 1}
        /\ UNCHANGED <<pilotVars, fileVars>>
    BY <1>5 DEF Tunnel, TcpdumpExits, Exits, PilotTyped
  <2> QED
    BY <1>1, <2>1, <2>2 DEF pilotVars, fileVars, PilotTyped
<1>6. CASE StopTcpdump
  <2>1. pcap' \in Pcaps \cup {None} /\ captureLog' \in {None, 0, 1}
        /\ tcpdump' \in {"none", "running", "exited"}
    BY <1>6, PcapTyped DEF StopTcpdump, Exits, captureVars, PilotTyped
  <2>2. pc' = AfterStop /\ UNCHANGED <<raising, result, fileVars>>
    BY <1>6 DEF StopTcpdump
  <2> QED
    BY <1>1, <2>1, <2>2 DEF AfterStop, fileVars, PilotTyped
<1>7. CASE WriteTrafficEvents
  <2>1. trafficLog' \in 0..Attempts
    BY <1>7, ResultTyped DEF WriteTrafficEvents, PilotTyped, WholeInv
  <2> QED
    BY <1>1, <1>7, <2>1 DEF WriteTrafficEvents, captureVars, PilotTyped
<1>8. CASE WritePilotRecord
  <2>1. metadata' \in PilotRecords
    BY <1>8, RecordTyped DEF WholeInv
  <2> QED
    BY <1>1, <1>8, <2>1 DEF WritePilotRecord, captureVars, PilotTyped
<1>9. CASE WriteManifest
  <2>1. DOMAIN manifest' \subseteq DOMAIN Files
    BY <1>9 DEF WriteManifest, Digests
  <2> QED
    BY <1>1, <1>9, <2>1 DEF WriteManifest, captureVars, PilotTyped, Ended
<1>10. CASE InterruptOutside \/ Killed
  <2>1. pc' \in Ended /\ CutShort
    BY <1>10 DEF InterruptOutside, Killed, Ended
  <2>2. trafficLog' \in 0..Attempts \cup {None}
    <3>1. CASE pc = "logging"
      BY <2>1, <3>1, ResultTyped, AttemptsAssumption DEF CutShort, PilotTyped, WholeInv
    <3>2. CASE pc # "logging"
      BY <2>1, <3>2 DEF CutShort, PilotTyped
    <3> QED
      BY <3>1, <3>2
  <2>3. /\ metadata' \in PilotRecords \cup {None, Torn}
        /\ manifest' \notin {None, Torn} => DOMAIN manifest' \subseteq DOMAIN Files
        /\ UNCHANGED <<captureVars, raising, result>>
    BY <2>1 DEF CutShort, PilotTyped
  <2> QED
    BY <1>1, <2>1, <2>2, <2>3 DEF captureVars, PilotTyped, Ended
<1>11. CASE UNCHANGED <<captureVars, pilotVars, fileVars>>
  BY <1>1, <1>11 DEF captureVars, pilotVars, fileVars, PilotTyped
<1> QED
  BY <1>2, <1>3, <1>4, <1>5, <1>6, <1>7, <1>8, <1>9, <1>10, <1>11
     DEF Next, RunPilot, Work, Interrupt, Environment, vars

LEMMA StepKeepsTypes ==
    ASSUME WorkTyped, WholeInv, PilotTyped, [Next]_vars
    PROVE  WorkTyped' /\ PilotTyped'
<1>1. Network \/ RunWorkload \/ UNCHANGED workloadVars
  BY DEF Next, RunPilot, PilotRefused, StartTcpdump, EnterTry, CheckStarted, Work, WorkReturns,
         WorkRaises, Judge, StopTcpdump, StopFails, WriteTrafficEvents, WritePilotRecord,
         WriteManifest, Interrupt, InterruptTry, InterruptOutside, Killed, CutShort, Environment,
         Tunnel, TcpdumpExits, vars
<1> QED
  BY <1>1, WorkTypedStep, PilotTypedStep

LEMMA TypedInitially == Init => WorkTyped /\ PilotTyped
<1> SUFFICES ASSUME Init PROVE WorkTyped /\ PilotTyped
  OBVIOUS
<1>1. events = <<>> /\ inbox = <<>> /\ echoes = {} /\ backlog = 0 /\ step = "idle"
  BY DEF Init, WorkloadInit
<1>2. events \in Seq({"ok", "error"}) /\ Len(events) = 0 /\ inbox \in Seq(0..Attempts) /\ Len(inbox) = 0
  BY <1>1
<1>3. WorkTyped
  BY <1>1, <1>2, AttemptsAssumption, MaxInboxAssumption
     DEF Init, WorkTyped, WorkloadTypeOK, ExchangesLeft
<1>4. PilotTyped
  BY DEF Init, PilotTyped
<1> QED
  BY <1>3, <1>4

\* The inductive invariant: types, exchanges that are left, and what is whole.
THEOREM PilotInvariant == Spec => [](WorkTyped /\ WholeInv /\ PilotTyped)
<1>1. Init => WorkTyped /\ WholeInv /\ PilotTyped
  BY TypedInitially, WholeInvInitially
<1>2. WorkTyped /\ WholeInv /\ PilotTyped /\ [Next]_vars => (WorkTyped /\ WholeInv /\ PilotTyped)'
  BY StepKeepsTypes, StepKeepsWholeInv
<1> QED
  BY <1>1, <1>2, PTL DEF Spec

\* Every variable keeps its type and bounds; metadata.json is absent, empty or a
\* record of records.py:150-170.
THEOREM PilotTypes == Spec => []PilotTypeOK
<1>1. WorkTyped /\ WholeInv /\ PilotTyped => PilotTypeOK
  BY DEF WorkTyped, PilotTyped, PilotTypeOK
<1> QED
  BY <1>1, PilotInvariant, PTL

-----------------------------------------------------------------------------
(* What a normal return leaves *)

\* A run that raises nothing has a workload with successes.
SuccessUnlessRaising ==
    /\ pc = "judging" => result # None
    /\ pc \in {"stopping", "logging", "recording", "sealing", "returned"} /\ ~raising =>
          result # None /\ result.successful # 0

\* The record and the digests are those of the files as they stay.
RecordStays ==
    /\ pc = "returned" => ~raising /\ tcpdump = "exited"
    /\ pc \in {"sealing", "returned"} =>
          /\ metadata \in PilotRecords
          /\ metadata.file_bytes = PcapSize
          /\ metadata.pcap_sha256 = pcap
          /\ metadata.target_flows = None /\ metadata.target_met = None
          /\ metadata.successful = SuccessfulEvents
          /\ metadata.status = ValidationStatus
          /\ metadata.capture_log = captureLog
    /\ pc = "returned" => manifest = Digests

ReturnInv == SuccessUnlessRaising /\ RecordStays

LEMMA SameFilesSameRecord ==
    ASSUME UNCHANGED <<pcap, captureLog, result, trafficLog, metadata>>
    PROVE  /\ UNCHANGED <<PcapSize, PacketCount, SuccessfulEvents, ValidationStatus>>
           /\ Digests' = Digests
<1>1. Files' = Files
  BY DEF Files
<1>2. UNCHANGED <<PcapSize, PacketCount, SuccessfulEvents>>
  BY DEF PcapSize, PacketCount, SuccessfulEvents
<1> QED
  BY <1>1, <1>2 DEF Digests, ValidationStatus

LEMMA ResultIsResult ==
    ASSUME WorkTyped
    PROVE  WorkloadResult \in Results /\ WorkloadResult # None
<1>1. events \in Seq({"ok", "error"}) /\ Len(events) \in Nat /\ Len(events) <= Attempts
  BY DEF WorkTyped, WorkloadTypeOK
<1>2. Len(events) \in 0..Attempts /\ Successful \in 0..Attempts
  BY <1>1, SuccessfulIsCount, AttemptsAssumption
<1> QED
  BY <1>1, <1>2, RecordsAssumption DEF WorkloadResult, Results

LEMMA SuccessStep ==
    ASSUME WorkTyped, SuccessUnlessRaising, [Next]_vars
    PROVE  SuccessUnlessRaising'
<1>1. CASE PilotRefused \/ StartTcpdump \/ EnterTry \/ CheckStarted \/ WorkRaises \/ InterruptTry
  BY <1>1 DEF PilotRefused, StartTcpdump, EnterTry, CheckStarted, WorkRaises, InterruptTry, Raise,
              SuccessUnlessRaising
<1>2. CASE WorkReturns
  BY <1>2, ResultIsResult DEF WorkReturns, SuccessUnlessRaising
<1>3. CASE Judge
  BY <1>3 DEF Judge, Raise, SuccessUnlessRaising
<1>4. CASE StopTcpdump \/ StopFails \/ WriteTrafficEvents \/ WritePilotRecord \/ WriteManifest
  BY <1>4 DEF StopTcpdump, StopFails, WriteTrafficEvents, WritePilotRecord, WriteManifest, AfterStop,
              SuccessUnlessRaising
<1>5. CASE InterruptOutside \/ Killed
  BY <1>5 DEF InterruptOutside, Killed, SuccessUnlessRaising
<1>6. CASE UNCHANGED pilotVars
  BY <1>6 DEF pilotVars, SuccessUnlessRaising
<1> QED
  BY <1>1, <1>2, <1>3, <1>4, <1>5, <1>6
     DEF Next, RunPilot, Work, Interrupt, Environment, Tunnel, TcpdumpExits, vars

\* tcpdump is gone when the record is written, and the record when the digests
\* are taken.
LEMMA RecordStaysStep ==
    ASSUME WorkTyped, WholeInv, PilotTyped, RecordStays, [Next]_vars
    PROVE  RecordStays'
<1> DEFINE Late == pc \in {"sealing", "returned"}
<1>1. ASSUME ~Late' PROVE RecordStays'
  BY <1>1 DEF RecordStays
<1>2. CASE WritePilotRecord
  <2>1. UNCHANGED <<pcap, captureLog, result>> /\ pc' = "sealing"
    BY <1>2 DEF WritePilotRecord, captureVars
  <2>2. UNCHANGED <<PcapSize, PacketCount, SuccessfulEvents, ValidationStatus>>
    BY <2>1 DEF PcapSize, PacketCount, SuccessfulEvents, ValidationStatus
  <2>3. metadata' \in PilotRecords
    BY <1>2, RecordTyped DEF WholeInv
  <2>4. /\ metadata'.file_bytes = PcapSize /\ metadata'.pcap_sha256 = pcap
        /\ metadata'.target_flows = None /\ metadata'.target_met = None
        /\ metadata'.successful = SuccessfulEvents /\ metadata'.status = ValidationStatus
        /\ metadata'.capture_log = captureLog
    BY <1>2 DEF WritePilotRecord
  <2> QED
    BY <2>1, <2>2, <2>3, <2>4 DEF RecordStays
<1>3. CASE WriteManifest /\ pc' = "returned"
  <2>1. /\ UNCHANGED <<pcap, captureLog, result, trafficLog, metadata, tcpdump, raising>>
        /\ manifest' = Digests /\ pc = "sealing" /\ ~raising
    BY <1>3 DEF WriteManifest, captureVars
  <2>2. tcpdump = "exited"
    BY <2>1 DEF WholeInv, Stopped
  <2>3. /\ UNCHANGED <<PcapSize, PacketCount, SuccessfulEvents, ValidationStatus>>
        /\ Digests' = Digests
    BY <2>1, SameFilesSameRecord
  <2> QED
    BY <1>3, <2>1, <2>2, <2>3 DEF RecordStays
<1>4. ASSUME Late, pc' = pc,
             UNCHANGED <<tcpdump, captureLog, pcap, raising, result, trafficLog, metadata, manifest>>
      PROVE  RecordStays'
  <2>1. /\ UNCHANGED <<PcapSize, PacketCount, SuccessfulEvents, ValidationStatus>>
        /\ Digests' = Digests
    BY <1>4, SameFilesSameRecord
  <2> QED
    BY <1>4, <2>1 DEF RecordStays
<1>5. ASSUME Late', ~WritePilotRecord, ~(WriteManifest /\ pc' = "returned")
      PROVE  /\ Late /\ pc' = pc
             /\ UNCHANGED <<tcpdump, captureLog, pcap, raising, result, trafficLog, metadata, manifest>>
  <2>1. tcpdump # "running" \/ pc \notin {"sealing", "returned"}
    BY DEF WholeInv, Stopped, RecordStays
  <2>2. CASE RunPilot
    BY <1>5, <2>2
       DEF RunPilot, PilotRefused, StartTcpdump, EnterTry, CheckStarted, Work, WorkReturns, WorkRaises,
           Judge, Raise, StopTcpdump, AfterStop, StopFails, WriteTrafficEvents, WriteManifest,
           captureVars, pilotVars, fileVars
  <2>3. CASE Interrupt
    BY <1>5, <2>3 DEF Interrupt, InterruptTry, InterruptOutside, Killed, Raise, Ended
  <2>4. CASE Environment \/ UNCHANGED vars
    BY <1>5, <2>1, <2>4
       DEF Environment, Tunnel, TcpdumpExits, captureVars, pilotVars, fileVars, vars
  <2> QED
    BY <2>2, <2>3, <2>4 DEF Next
<1> QED
  BY <1>1, <1>2, <1>3, <1>4, <1>5

\* Every check of the audit, on what is there after a normal return.
LEMMA ReturnInvSuffices ==
    ASSUME PilotTyped, WholeInv, ReturnInv
    PROVE  ReturnedIsAccepted
<1> SUFFICES ASSUME pc = "returned", captureLog # 1, PacketCount > 0
             PROVE  Accepted
  BY DEF ReturnedIsAccepted
<1>1. /\ metadata \in PilotRecords
      /\ metadata.file_bytes = PcapSize /\ metadata.pcap_sha256 = pcap
      /\ metadata.target_flows = None /\ metadata.target_met = None
      /\ metadata.successful = SuccessfulEvents /\ metadata.status = ValidationStatus
      /\ metadata.capture_log = captureLog
      /\ manifest = Digests
  BY DEF ReturnInv, RecordStays
<1>2. metadata \notin {None, Torn}
  BY <1>1, RecordsAssumption
<1>3. pcap # None /\ ReadablePackets(pcap) > 0 /\ PcapSize = Bytes(pcap)
  BY DEF PacketCount, PcapSize
<1>4. PcapPasses(metadata, pcap)
  BY <1>1, <1>3 DEF PcapPasses
<1>5. ManifestPasses(manifest, Files)
  <2>1. \A name \in DOMAIN manifest : manifest[name] = Files[name]
    BY <1>1 DEF Digests
  <2> QED
    BY <2>1 DEF ManifestPasses
<1>6. CompletionPasses(metadata, "tcp")
  <2>1. None # FALSE
    BY AbsentAssumption
  <2> QED
    BY <1>1, <2>1 DEF CompletionPasses
<1>7. DropsPass(metadata.capture_log)
  BY <1>1 DEF DropsPass, PilotTyped
<1>8. WorkloadPasses(metadata.status, metadata.successful)
  <2>1. SuccessfulEvents \in Nat /\ SuccessfulEvents # 0
    BY <1>1 DEF ReturnInv, RecordStays, SuccessUnlessRaising, SuccessfulEvents, PilotRecords
  <2>2. ValidationStatus = "passed"
    BY <2>1 DEF ValidationStatus
  <2> QED
    BY <1>1, <2>1, <2>2 DEF WorkloadPasses
<1> QED
  BY <1>2, <1>4, <1>5, <1>6, <1>7, <1>8 DEF Accepted

LEMMA ReturnInvInitially == Init => ReturnInv
  BY DEF Init, ReturnInv, SuccessUnlessRaising, RecordStays

\* A pilot that returns normally (pilot.py:150-172) leaves what the audit accepts,
\* unless tcpdump saw nothing, tore its file or dropped packets.
THEOREM ReturnedPilotsAccepted == Spec => []ReturnedIsAccepted
<1>1. Init => ReturnInv
  BY ReturnInvInitially
<1>2. WorkTyped /\ WholeInv /\ PilotTyped /\ ReturnInv /\ [Next]_vars => ReturnInv'
  BY SuccessStep, RecordStaysStep DEF ReturnInv
<1>3. WorkTyped /\ WholeInv /\ PilotTyped /\ ReturnInv => ReturnedIsAccepted
  BY ReturnInvSuffices
<1> QED
  BY <1>1, <1>2, <1>3, PilotInvariant, PTL DEF Spec

=============================================================================
