-------------------------- MODULE WindowsTrackers --------------------------
(***************************************************************************)
(* The two trackers a Windows capture polls one after the other while      *)
(* dumpcap appends to the PCAP: PcapL4ConversationTracker, which keeps     *)
(* sets of conversations, and PcapIpPacketTracker, which counts packets.   *)
(*                                                                         *)
(* Each has an offset of its own and moves it after a record is consumed,  *)
(* so a Ctrl+C in between (windows.py catches it and polls again) makes    *)
(* the tracker consume that record twice.                                  *)
(*                                                                         *)
(* The loop over the records is that of FlowTracker, where torn records    *)
(* and headers are modelled: here records holds the complete ones.  The    *)
(* capture filter lets only TCP and UDP through.                           *)
(***************************************************************************)
EXTENDS Naturals, Sequences, FiniteSets

CONSTANTS
    Conversations,    \* unordered pairs of (address, port) endpoints
    IPv6,             \* the conversations whose addresses are IPv6
    Udp443,           \* the conversations with port 443 on one side
    SequenceNumbers,  \* TCP sequence numbers
    Packets           \* the packets the filter lets through

Sides == {0, 1}
Packet == [conversation: Conversations, side: Sides, seq: SequenceNumbers,
           kind: {"syn", "tcp", "udp"}]
Counters == {"ipv4", "ipv6", "tcp", "udp"}

ASSUME ConversationsAssumption ==
    IPv6 \subseteq Conversations /\ Udp443 \subseteq Conversations
ASSUME PacketsAssumption == Packets \subseteq Packet

VARIABLES
    records,        \* the complete records in the file
    l4Offset,       \* _offset of the conversation tracker, in records
    synStreams,     \* _tcp_syn_streams
    synBases,       \* _tcp_bases_with_syn
    midstream,      \* _tcp_midstream_bases
    udpBases,       \* _udp_conversations
    ipOffset,       \* _offset of the packet tracker, in records
    packets,        \* _ipv4_packets, _ipv6_packets, _tcp_packets, _udp_packets
    udp443Bases     \* _udp_443_conversations

l4Vars == <<l4Offset, synStreams, synBases, midstream, udpBases>>
ipVars == <<ipOffset, packets, udp443Bases>>
trackerVars == <<l4Vars, ipVars>>

-----------------------------------------------------------------------------
(* PcapL4ConversationTracker *)

\* A start is told apart by direction and sequence number.
Stream(p) == <<p.conversation, p.side, p.seq>>

\* Mutant of ConsumeSegment: a base that was seen with a SYN is not left out.
ConsumeEverySegment(p) ==
    /\ midstream' = midstream \cup {p.conversation}
    /\ UNCHANGED <<synStreams, synBases, udpBases>>

ConsumeSegment(p) ==
    /\ midstream' = midstream \cup ({p.conversation} \ synBases)
    /\ UNCHANGED <<synStreams, synBases, udpBases>>

ConsumeStart(p) ==
    /\ synStreams' = synStreams \cup {Stream(p)}
    /\ synBases' = synBases \cup {p.conversation}
    /\ UNCHANGED <<midstream, udpBases>>

ConsumeDatagram(p) ==
    /\ udpBases' = udpBases \cup {p.conversation}
    /\ UNCHANGED <<synStreams, synBases, midstream>>

ConsumeL4(p) ==
    \/ p.kind = "udp" /\ ConsumeDatagram(p)
    \/ p.kind = "syn" /\ ConsumeStart(p)
    \/ p.kind = "tcp" /\ ConsumeSegment(p)

NextL4 == records[l4Offset + 1]

ReadL4 ==
    /\ l4Offset < Len(records)
    /\ ConsumeL4(NextL4)
    /\ l4Offset' = l4Offset + 1

\* Ctrl+C: nothing of the next record has been taken, or all of it, or of a
\* start only the first of its two sets.
CutL4 ==
    /\ UNCHANGED l4Offset
    /\ \/ UNCHANGED <<synStreams, synBases, midstream, udpBases>>
       \/ l4Offset < Len(records) /\ ConsumeL4(NextL4)
       \/ /\ l4Offset < Len(records) /\ NextL4.kind = "syn"
          /\ synStreams' = synStreams \cup {Stream(NextL4)}
          /\ UNCHANGED <<synBases, midstream, udpBases>>

OverIPv6(S) == S \cap IPv6

\* stats(): every conversation counts as completed.
ConversationStats(streams, bases, udp) ==
    LET tcp == Cardinality(streams) + Cardinality(bases)
    IN [tcp   |-> tcp,
        udp   |-> Cardinality(udp),
        total |-> tcp + Cardinality(udp),
        ipv6  |-> Cardinality({s \in streams : s[1] \in IPv6})
                  + Cardinality(OverIPv6(bases)) + Cardinality(OverIPv6(udp))]

L4Stats == ConversationStats(synStreams, midstream, udpBases)

-----------------------------------------------------------------------------
(* PcapIpPacketTracker *)

Version(p) == IF p.conversation \in IPv6 THEN "ipv6" ELSE "ipv4"
Transport(p) == IF p.kind = "udp" THEN "udp" ELSE "tcp"

Bump(counted) == packets' = [k \in Counters |-> packets[k] + IF k \in counted THEN 1 ELSE 0]

ConsumeIp(p) ==
    /\ Bump({Version(p), Transport(p)})
    /\ udp443Bases' = udp443Bases \cup
          (IF p.kind = "udp" /\ p.conversation \in Udp443 THEN {p.conversation} ELSE {})

NextIp == records[ipOffset + 1]

ReadIp ==
    /\ ipOffset < Len(records)
    /\ ConsumeIp(NextIp)
    /\ ipOffset' = ipOffset + 1

\* Ctrl+C: the version, then the transport, then the conversation is taken.
CutIp ==
    /\ UNCHANGED ipOffset
    /\ \/ UNCHANGED <<packets, udp443Bases>>
       \/ /\ ipOffset < Len(records)
          /\ \E counted \in {{Version(NextIp)}, {Version(NextIp), Transport(NextIp)}} :
                Bump(counted)
          /\ UNCHANGED udp443Bases
       \/ ipOffset < Len(records) /\ ConsumeIp(NextIp)

IpStats == [packets |-> packets, udp443 |-> Cardinality(udp443Bases)]

-----------------------------------------------------------------------------
NewTrackers ==
    /\ l4Offset = 0 /\ synStreams = {} /\ synBases = {} /\ midstream = {} /\ udpBases = {}
    /\ ipOffset = 0 /\ packets = [k \in Counters |-> 0] /\ udp443Bases = {}

\* Mutant of ResetTrackers: one packet tracker serves all segments.
KeepIpTracker ==
    /\ l4Offset' = 0 /\ synStreams' = {} /\ synBases' = {} /\ midstream' = {} /\ udpBases' = {}
    /\ UNCHANGED ipVars

\* A new segment has new trackers.
ResetTrackers ==
    /\ l4Offset' = 0 /\ synStreams' = {} /\ synBases' = {} /\ midstream' = {} /\ udpBases' = {}
    /\ ipOffset' = 0 /\ packets' = [k \in Counters |-> 0] /\ udp443Bases' = {}

TrackersTypeOK ==
    /\ records \in Seq(Packets)
    /\ l4Offset \in 0..Len(records) /\ ipOffset \in 0..Len(records)
    /\ synStreams \subseteq Conversations \X Sides \X SequenceNumbers
    /\ synBases \subseteq Conversations /\ midstream \subseteq Conversations
    /\ udpBases \subseteq Conversations
    /\ packets \in [Counters -> Nat] /\ udp443Bases \subseteq Udp443

-----------------------------------------------------------------------------
(* What the trackers should say of the whole file *)

Indices == 1..Len(records)
OfKind(kind) == {n \in Indices : records[n].kind = kind}

\* A TCP stream begins at each new start, and at the first packet of a
\* conversation whose start was not captured.
TrueStreams == {Stream(records[n]) : n \in OfKind("syn")}
TrueMidstream ==
    {records[n].conversation : n \in {m \in OfKind("tcp") :
        \A k \in OfKind("syn") : records[k].conversation = records[m].conversation => k > m}}
TrueUdp == {records[n].conversation : n \in OfKind("udp")}
TruePackets ==
    [k \in Counters |-> Cardinality({n \in Indices : k \in {Version(records[n]), Transport(records[n])}})]

TrueL4Stats == ConversationStats(TrueStreams, TrueMidstream, TrueUdp)
=============================================================================
