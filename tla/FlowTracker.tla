---------------------------- MODULE FlowTracker ----------------------------
(***************************************************************************)
(* PcapTcpFlowTracker: counts TCP connections in a PCAP that tcpdump is    *)
(* still appending to.                                                     *)
(*                                                                         *)
(* Two processes share the file.  The writer (tcpdump -U) creates it,      *)
(* writes the 24 byte header and appends records; a record is visible in   *)
(* part before it is complete, and a killed writer leaves its last record  *)
(* torn for ever.  The reader polls: it checks the header once, then reads *)
(* whole records from where the last poll stopped and folds each of them   *)
(* into three tables.                                                      *)
(*                                                                         *)
(* A byte position is modelled by the number of whole records before it,   *)
(* and a packet by its directional four-tuple, sequence number and TCP     *)
(* flags; what _parse_ipv4_tcp and _parse_ipv6_tcp reject is NotTcp.       *)
(***************************************************************************)
EXTENDS Naturals, Sequences, FiniteSets

CONSTANTS
    Conversations,    \* unordered pairs of (address, port) endpoints
    IPv6,             \* the conversations whose addresses are IPv6
    SequenceNumbers,  \* TCP sequence numbers
    NotTcp,           \* any frame the parsers return None for
    Packets,          \* the packets the filter lets through
    CountMode,        \* "syn" (segment.py) or "established" (windows.py)
    MaxRecords        \* bound: records the writer appends

Sides == {0, 1}
Tuples == Conversations \X Sides
Reverse(t) == <<t[1], 1 - t[2]>>

\* Mutant: the reverse direction of a new flow is not registered.
ForwardOnly(t) == {t}

BothDirections(t) == {t, Reverse(t)}

TcpFlags == {"SYN", "ACK", "FIN", "RST"}
TcpPackets == [tuple: Tuples, seq: SequenceNumbers, flags: SUBSET TcpFlags]

ASSUME ConversationsAssumption == IPv6 \subseteq Conversations
ASSUME NotTcpAssumption == NotTcp \notin TcpPackets
ASSUME PacketsAssumption == Packets \subseteq TcpPackets \cup {NotTcp}
ASSUME CountModeAssumption == CountMode \in {"syn", "established"}
ASSUME MaxRecordsAssumption == MaxRecords \in Nat

VARIABLES
    header,       \* the file: "missing", "partial", "ethernet" or "unsupported"
    records,      \* the complete records in the file
    torn,         \* the file ends in an incomplete record
    sealed,       \* the writer has exited
    reader,       \* "idle", "reading" or "failed" (ConfigurationError)
    headerRead,   \* _byte_order is not None
    consumed,     \* _offset, in records
    flows,        \* _flows
    tupleToFlow,  \* _tuple_to_flow
    seenSyns,     \* _seen_syns
    reported,     \* the TcpFlowStats the last poll returned
    due           \* history: the records complete when the current poll opened the file

fileVars == <<header, records, torn, sealed>>
tableVars == <<flows, tupleToFlow, seenSyns>>
readerVars == <<reader, headerRead, consumed, reported, due>>
vars == <<fileVars, tableVars, readerVars>>

-----------------------------------------------------------------------------
(* Flows and the packets they observe *)

Flow == [synForward: Tuples, established: BOOLEAN, active: BOOLEAN,
         finSides: SUBSET Sides]

NewFlow(t) == [synForward |-> t, established |-> FALSE, active |-> TRUE,
               finSides |-> {}]

IsStart(p) == "SYN" \in p.flags /\ "ACK" \notin p.flags

SynKey(p) == <<p.tuple, p.seq>>

\* Lines 166-174: a flow after one more packet of its own.
FinSides(flow, p) ==
    IF "FIN" \in p.flags
    THEN flow.finSides \cup {IF p.tuple = flow.synForward THEN 0 ELSE 1}
    ELSE flow.finSides

\* Mutant: a SYN-ACK in either direction accepts the flow.
AcceptsEitherWay(flow, p) == {"SYN", "ACK"} \subseteq p.flags

Accepts(flow, p) == {"SYN", "ACK"} \subseteq p.flags /\ p.tuple # flow.synForward

\* Mutant: the first FIN closes the flow.
ClosesHalf(flow, p) == "RST" \in p.flags \/ "FIN" \in p.flags

Closes(flow, p) == \/ "RST" \in p.flags
                   \/ "FIN" \in p.flags /\ FinSides(flow, p) = Sides

\* Mutant: a packet after the close makes the flow active again.
ObservedReopens(flow, p) ==
    [flow EXCEPT !.established = @ \/ Accepts(flow, p),
                 !.active = ~Closes(flow, p),
                 !.finSides = FinSides(flow, p)]

Observed(flow, p) ==
    [flow EXCEPT !.established = @ \/ Accepts(flow, p),
                 !.active = @ /\ ~Closes(flow, p),
                 !.finSides = FinSides(flow, p)]

\* Mutant: a new flow is registered under the index of the one before it.
LastIndex == Len(flows)

NewIndex == Len(flows) + 1

\* A start whose (tuple, sequence number) is new opens a flow and takes over
\* both directions of the tuple, whatever flow they belonged to.
OpenFlow(p) ==
    /\ flows' = Append(flows, Observed(NewFlow(p.tuple), p))
    /\ seenSyns' = [k \in DOMAIN seenSyns \cup {SynKey(p)} |->
                      IF k = SynKey(p) THEN NewIndex ELSE seenSyns[k]]
    /\ tupleToFlow' = [t \in DOMAIN tupleToFlow \cup BothDirections(p.tuple) |->
                         IF t \in BothDirections(p.tuple) THEN NewIndex ELSE tupleToFlow[t]]

Owner(t) == tupleToFlow[t]

\* Any other packet of a known flow: a retransmitted start finds its own flow
\* by its key, the rest find the present owner of their tuple.
UpdateFlow(p, index) ==
    /\ flows' = [flows EXCEPT ![index] = Observed(@, p)]
    /\ UNCHANGED <<tupleToFlow, seenSyns>>

ConsumeTcp(p) ==
    \/ IsStart(p) /\ SynKey(p) \notin DOMAIN seenSyns /\ OpenFlow(p)
    \/ IsStart(p) /\ SynKey(p) \in DOMAIN seenSyns /\ UpdateFlow(p, seenSyns[SynKey(p)])
    \/ ~IsStart(p) /\ p.tuple \in DOMAIN tupleToFlow /\ UpdateFlow(p, Owner(p.tuple))
    \/ ~IsStart(p) /\ p.tuple \notin DOMAIN tupleToFlow /\ UNCHANGED tableVars

Consume(p) == IF p = NotTcp THEN UNCHANGED tableVars ELSE ConsumeTcp(p)

-----------------------------------------------------------------------------
(* stats() *)

\* Mutant: only open flows count towards the target.
CountedWhileOpen == {i \in 1..Len(flows) : flows[i].active}

Counted == {i \in 1..Len(flows) : CountMode = "syn" \/ flows[i].established}
Active == {i \in Counted : flows[i].active}
OverIPv6(S) == {i \in S : flows[i].synForward[1] \in IPv6}

Stats == [total           |-> Cardinality(Counted),
          active          |-> Cardinality(Active),
          completed       |-> Cardinality(Counted \ Active),
          ipv6            |-> Cardinality(OverIPv6(Counted)),
          active_ipv6     |-> Cardinality(OverIPv6(Active)),
          completed_ipv6  |-> Cardinality(OverIPv6(Counted \ Active))]

NoFlows == [total |-> 0, active |-> 0, completed |-> 0,
            ipv6 |-> 0, active_ipv6 |-> 0, completed_ipv6 |-> 0]

-----------------------------------------------------------------------------
(* The writer *)

CreateFile ==
    /\ ~sealed /\ header = "missing"
    /\ header' = "partial"
    /\ UNCHANGED <<records, torn, sealed, tableVars, readerVars>>

WriteHeader ==
    /\ ~sealed /\ header = "partial"
    /\ header' \in {"ethernet", "unsupported"}
    /\ UNCHANGED <<records, torn, sealed, tableVars, readerVars>>

BeginRecord ==
    /\ ~sealed /\ header \in {"ethernet", "unsupported"} /\ ~torn
    /\ Len(records) < MaxRecords
    /\ torn' = TRUE
    /\ UNCHANGED <<header, records, sealed, tableVars, readerVars>>

FinishRecord ==
    /\ ~sealed /\ torn
    /\ \E p \in Packets : records' = Append(records, p)
    /\ torn' = FALSE
    /\ UNCHANGED <<header, sealed, tableVars, readerVars>>

\* tcpdump exits, or is killed with a record half written.
StopWriter ==
    /\ ~sealed
    /\ sealed' = TRUE
    /\ UNCHANGED <<header, records, torn, tableVars, readerVars>>

-----------------------------------------------------------------------------
(* The reader: poll() *)

\* Lines 63-69: no file, or a header that is not complete yet.
PollBeforeHeader ==
    /\ reader = "idle" /\ ~headerRead /\ header \in {"missing", "partial"}
    /\ reported' = Stats
    /\ UNCHANGED <<fileVars, tableVars, reader, headerRead, consumed, due>>

\* Lines 70-83: not a classic PCAP, or not Ethernet.
PollUnsupported ==
    /\ reader = "idle" /\ ~headerRead /\ header = "unsupported"
    /\ reader' = "failed"
    /\ UNCHANGED <<fileVars, tableVars, headerRead, consumed, reported, due>>

\* Mutant: a poll waits for a file without a torn record.
OpenWholePcap ==
    /\ reader = "idle" /\ header = "ethernet" /\ ~torn
    /\ reader' = "reading"
    /\ headerRead' = TRUE
    /\ due' = Len(records)
    /\ UNCHANGED <<fileVars, tableVars, consumed, reported>>

OpenPcap ==
    /\ reader = "idle" /\ header = "ethernet"
    /\ reader' = "reading"
    /\ headerRead' = TRUE
    /\ due' = Len(records)
    /\ UNCHANGED <<fileVars, tableVars, consumed, reported>>

ReadRecord ==
    /\ reader = "reading" /\ consumed < Len(records)
    /\ Consume(records[consumed + 1])
    /\ consumed' = consumed + 1
    /\ UNCHANGED <<fileVars, reader, headerRead, reported, due>>

\* Mutant: a poll may return with complete records left to read.
PollReturnsEarly ==
    /\ reader = "reading"
    /\ reader' = "idle"
    /\ reported' = Stats
    /\ UNCHANGED <<fileVars, tableVars, headerRead, consumed, due>>

\* Lines 89-90 and 95-97: the end of the file, or a record not complete yet.
PollReturns ==
    /\ reader = "reading" /\ consumed = Len(records)
    /\ reader' = "idle"
    /\ reported' = Stats
    /\ UNCHANGED <<fileVars, tableVars, headerRead, consumed, due>>

-----------------------------------------------------------------------------
EmptyTable == [k \in {} |-> 0]

Init ==
    /\ header = "missing" /\ records = <<>> /\ torn = FALSE /\ sealed = FALSE
    /\ flows = <<>> /\ tupleToFlow = EmptyTable /\ seenSyns = EmptyTable
    /\ reader = "idle" /\ headerRead = FALSE /\ consumed = 0
    /\ reported = NoFlows /\ due = 0

Writer == CreateFile \/ WriteHeader \/ BeginRecord \/ FinishRecord \/ StopWriter
Poll == PollBeforeHeader \/ PollUnsupported \/ OpenPcap \/ ReadRecord \/ PollReturns

Next == Writer \/ Poll

Spec == Init /\ [][Next]_vars

\* The capture loop polls on every progress interval for as long as it runs.
FairSpec == Spec /\ WF_vars(Poll)

-----------------------------------------------------------------------------
(* Properties *)

FileOK ==
    /\ header \in {"missing", "partial", "ethernet", "unsupported"}
    /\ records \in Seq(Packets)
    /\ torn \in BOOLEAN /\ sealed \in BOOLEAN

ReaderOK ==
    /\ reader \in {"idle", "reading", "failed"}
    /\ headerRead \in BOOLEAN
    /\ consumed \in 0..Len(records)
    /\ due \in 0..Len(records)

TablesOK ==
    /\ flows \in Seq(Flow)
    /\ DOMAIN tupleToFlow \subseteq Tuples
    /\ DOMAIN seenSyns \subseteq Tuples \X SequenceNumbers
    /\ \A t \in DOMAIN tupleToFlow : tupleToFlow[t] \in 1..Len(flows)
    /\ \A k \in DOMAIN seenSyns : seenSyns[k] \in 1..Len(flows)

TypeOK == FileOK /\ ReaderOK /\ TablesOK

TuplesConsistent ==
    \A t \in DOMAIN tupleToFlow :
        /\ Reverse(t) \in DOMAIN tupleToFlow
        /\ tupleToFlow[Reverse(t)] = tupleToFlow[t]
        /\ flows[tupleToFlow[t]].synForward \in {t, Reverse(t)}

SynsConsistent ==
    /\ \A k \in DOMAIN seenSyns :
          /\ flows[seenSyns[k]].synForward = k[1]
          /\ k[1] \in DOMAIN tupleToFlow
    /\ \A j, k \in DOMAIN seenSyns : seenSyns[j] = seenSyns[k] => j = k
    /\ \A i \in 1..Len(flows) : \E k \in DOMAIN seenSyns : seenSyns[k] = i

\* The two lookup tables agree with the flow list: a tuple and its reverse
\* lead to one flow, which one of the two opened, and the syn keys number the
\* flows without gap or repetition.  _consume_ethernet keeps them by hand.
IndexConsistent == TuplesConsistent /\ SynsConsistent

(* What the tables should say, read off the capture as a whole. *)

Read == 1..consumed
IsTcp(n) == records[n] # NotTcp
StartsAt(n) == IsTcp(n) /\ IsStart(records[n])
KeyAt(n) == <<records[n].tuple, records[n].seq>>

\* The records that opened a flow: the first occurrence of each start.
Births == {n \in Read : /\ StartsAt(n)
                        /\ \A m \in 1..n - 1 : StartsAt(m) =>
                              KeyAt(m) # KeyAt(n)}

Rank(b) == Cardinality({a \in Births : a <= b})

\* Record n belongs to the flow born at record b.
BelongsTo(n, b) ==
    /\ IsTcp(n)
    /\ IF IsStart(records[n])
       THEN KeyAt(n) = KeyAt(b)
       ELSE /\ b < n
            /\ records[n].tuple[1] = records[b].tuple[1]
            /\ \A a \in Births : records[a].tuple[1] = records[b].tuple[1] => a <= b \/ a > n

FlowBornAt(b) ==
    LET own == {n \in Read : BelongsTo(n, b)}
        fin == {n \in own : "FIN" \in records[n].flags}
        forward(n) == records[n].tuple = records[b].tuple
    IN [synForward  |-> records[b].tuple,
        established |-> \E n \in own : {"SYN", "ACK"} \subseteq records[n].flags /\ ~forward(n),
        active      |-> ~ \/ \E n \in own : "RST" \in records[n].flags
                          \/ \E m, n \in fin : forward(m) /\ ~forward(n),
        finSides    |-> {IF forward(n) THEN 0 ELSE 1 : n \in fin}]

\* Incremental tracking over any schedule of polls and torn records computes
\* what one pass over the finished capture would: each start is one flow, however
\* often its SYN was retransmitted (flow_tracker.py:46-47), and each flow is
\* established or closed exactly by the packets that belong to it.
MatchesTrace ==
    /\ Len(flows) = Cardinality(Births)
    /\ \A b \in Births : flows[Rank(b)] = FlowBornAt(b)

\* What a poll returned is what one pass over the records read would count, in
\* either count mode and for either IP version: windows.py stops an IPv6
\* capture on the established and the IPv6 numbers.
ReportMatchesTrace ==
    reader = "idle" /\ headerRead =>
        LET counted == {b \in Births : CountMode = "syn" \/ FlowBornAt(b).established}
            active == {b \in counted : FlowBornAt(b).active}
            ipv6(S) == {b \in S : records[b].tuple[1] \in IPv6}
        IN reported = [total          |-> Cardinality(counted),
                       active         |-> Cardinality(active),
                       completed      |-> Cardinality(counted \ active),
                       ipv6           |-> Cardinality(ipv6(counted)),
                       active_ipv6    |-> Cardinality(ipv6(active)),
                       completed_ipv6 |-> Cardinality(ipv6(counted \ active))]

\* A poll counts at least every record that was complete when it opened the
\* file, so a poll made after tcpdump exited reports the whole capture
\* (segment.py:216 takes the numbers of the record from such a poll).
PollIsCurrent == [][reader = "reading" /\ reader' = "idle" => consumed' >= due]_vars

Progress ==
    /\ Len(flows') >= Len(flows)
    /\ \A i \in 1..Len(flows) :
          /\ flows'[i].synForward = flows[i].synForward
          /\ flows[i].established => flows'[i].established
          /\ flows'[i].active => flows[i].active

\* A closed flow is never reopened, an accepted one never forgotten, and no
\* flow leaves the list: DRAINING is decided on numbers that cannot go back.
FlowsOnlyProgress == [][Progress]_vars

\* The reports implement what the capture loops rely on.
Reports == INSTANCE FlowCount WITH total <- reported.total, completed <- reported.completed
ReportsImplementFlowCount == Reports!Spec

\* A record that is complete in a supported file is counted in the end,
\* although every poll may find the tail of the file torn: the reader catches
\* up with the at most MaxRecords records of the writer.
EveryRecordIsRead == []<>(consumed = Len(records) \/ reader = "failed")
=============================================================================
