------------------------ MODULE WindowsCaptureProofs ------------------------
(***************************************************************************)
(* The safety properties of a Windows capture series: its records describe *)
(* the files dumpcap left, whatever Ctrl+C made a tracker read twice, and  *)
(* the isolation is in place while it captures and released at its end.    *)
(* For any conversations, packets, thresholds and numbers of segments.     *)
(***************************************************************************)
EXTENDS WindowsCapture, FiniteSetTheorems, TLAPS

-----------------------------------------------------------------------------
(* What a tracker has read when it is through with the first n records *)

Seen(n, kind) == {i \in Indices : i <= n /\ records[i].kind = kind}

StreamsTo(n) == {Stream(records[i]) : i \in Seen(n, "syn")}
BasesTo(n) == {records[i].conversation : i \in Seen(n, "syn")}
UdpTo(n) == {records[i].conversation : i \in Seen(n, "udp")}
FirstSegment(m) ==
    \A k \in OfKind("syn") : records[k].conversation = records[m].conversation => k > m
MidstreamTo(n) == {records[i].conversation : i \in {m \in Seen(n, "tcp") : FirstSegment(m)}}

Marks(p) == {Version(p), Transport(p)}
Marked(n, k) == {i \in Indices : i <= n /\ k \in Marks(records[i])}

Between(S, low, high) == low \subseteq S /\ S \subseteq high

\* What the next record adds.
StartOf(p, x) == IF p.kind = "syn" THEN {x} ELSE {}
DatagramOf(p) == IF p.kind = "udp" THEN {p.conversation} ELSE {}
SegmentOf(p, bases) == IF p.kind = "tcp" THEN {p.conversation} \ bases ELSE {}

LEMMA PacketFields ==
    ASSUME NEW p \in Packets
    PROVE  /\ p.conversation \in Conversations /\ p.side \in Sides /\ p.seq \in SequenceNumbers
           /\ p.kind \in {"syn", "tcp", "udp"}
           /\ Stream(p) \in Conversations \X Sides \X SequenceNumbers
           /\ Version(p) \in Counters /\ Transport(p) \in Counters
  BY PacketsAssumption DEF Packet, Stream, Version, Transport, Counters

LEMMA ReadOneMore ==
    ASSUME TrackersTypeOK, NEW n \in Nat, n < Len(records)
    PROVE  LET p == records[n + 1] IN
           /\ p \in Packets
           /\ StreamsTo(n + 1) = StreamsTo(n) \cup StartOf(p, Stream(p))
           /\ BasesTo(n + 1) = BasesTo(n) \cup StartOf(p, p.conversation)
           /\ UdpTo(n + 1) = UdpTo(n) \cup DatagramOf(p)
           /\ MidstreamTo(n + 1) = MidstreamTo(n) \cup SegmentOf(p, BasesTo(n))
<1> DEFINE p == records[n + 1]
<1>1. n + 1 \in Indices /\ Indices \subseteq Nat /\ p \in Packets
  BY DEF TrackersTypeOK, Indices
<1>2. \A i \in Indices : i <= n + 1 <=> i <= n \/ i = n + 1
  BY <1>1
<1>3. \A kind : Seen(n + 1, kind) = Seen(n, kind) \cup (IF p.kind = kind THEN {n + 1} ELSE {})
  BY <1>1, <1>2 DEF Seen
<1>4. StreamsTo(n + 1) = StreamsTo(n) \cup StartOf(p, Stream(p))
  BY <1>3 DEF StreamsTo, StartOf
<1>5. BasesTo(n + 1) = BasesTo(n) \cup StartOf(p, p.conversation)
  BY <1>3 DEF BasesTo, StartOf
<1>6. UdpTo(n + 1) = UdpTo(n) \cup DatagramOf(p)
  BY <1>3 DEF UdpTo, DatagramOf
<1>7. MidstreamTo(n + 1) = MidstreamTo(n) \cup SegmentOf(p, BasesTo(n))
  <2>1. CASE p.kind # "tcp"
    BY <1>3, <2>1 DEF MidstreamTo, SegmentOf
  <2>2. CASE p.kind = "tcp"
    <3>1. FirstSegment(n + 1) <=> p.conversation \notin BasesTo(n)
      <4>1. \A k \in OfKind("syn") : k \in Nat /\ k # n + 1 /\ (k > n + 1 <=> ~(k <= n))
        BY <1>1, <2>2 DEF OfKind
      <4>2. Seen(n, "syn") = {k \in OfKind("syn") : k <= n}
        BY DEF Seen, OfKind
      <4> QED
        BY <4>1, <4>2 DEF FirstSegment, BasesTo
    <3>2. Seen(n + 1, "tcp") = Seen(n, "tcp") \cup {n + 1}
      BY <1>3, <2>2
    <3>3. {m \in Seen(n + 1, "tcp") : FirstSegment(m)} =
             {m \in Seen(n, "tcp") : FirstSegment(m)} \cup (IF FirstSegment(n + 1) THEN {n + 1} ELSE {})
      BY <3>2
    <3> QED
      BY <2>2, <3>1, <3>3 DEF MidstreamTo, SegmentOf
  <2> QED
    BY <2>1, <2>2
<1> QED
  BY <1>1, <1>4, <1>5, <1>6, <1>7

LEMMA MarksAreFinite ==
    ASSUME TrackersTypeOK, NEW n, NEW k
    PROVE  IsFiniteSet(Marked(n, k)) /\ Cardinality(Marked(n, k)) \in Nat
<1>1. IsFiniteSet(Indices)
  BY FS_Interval DEF Indices, TrackersTypeOK
<1>2. IsFiniteSet(Marked(n, k))
  BY <1>1, FS_Subset DEF Marked
<1> QED
  BY <1>2, FS_CardinalityType

LEMMA MarkOneMore ==
    ASSUME TrackersTypeOK, NEW n \in Nat, n < Len(records), NEW k
    PROVE  /\ Cardinality(Marked(n, k)) \in Nat
           /\ Cardinality(Marked(n + 1, k)) =
                 Cardinality(Marked(n, k)) + IF k \in Marks(records[n + 1]) THEN 1 ELSE 0
<1>1. n + 1 \in Indices /\ Indices \subseteq Nat
  BY DEF TrackersTypeOK, Indices
<1>2. IsFiniteSet(Marked(n, k))
  BY MarksAreFinite
<1>3. Marked(n + 1, k) = Marked(n, k) \cup (IF k \in Marks(records[n + 1]) THEN {n + 1} ELSE {})
  <2>1. \A i \in Indices : i <= n + 1 <=> i <= n \/ i = n + 1
    BY <1>1
  <2> QED
    BY <1>1, <2>1, Zenon DEF Marked
<1>4. n + 1 \notin Marked(n, k)
  BY DEF Marked
<1>5. Cardinality(Marked(n, k)) \in Nat
  BY <1>2, FS_CardinalityType
<1>6. Cardinality(Marked(n, k) \cup {n + 1}) = Cardinality(Marked(n, k)) + 1
  BY <1>2, <1>4, FS_AddElement
<1>7. CASE k \in Marks(records[n + 1])
  BY <1>3, <1>5, <1>6, <1>7
<1>8. CASE k \notin Marks(records[n + 1])
  <2>1. Marked(n + 1, k) = Marked(n, k)
    BY <1>3, <1>8
  <2> QED
    BY <1>5, <1>8, <2>1
<1> QED
  BY <1>7, <1>8

\* The whole file read is what the trackers should say of it.
LEMMA ReadToTheEnd ==
    ASSUME TrackersTypeOK, NEW n \in Nat, n >= Len(records)
    PROVE  /\ StreamsTo(n) = TrueStreams /\ MidstreamTo(n) = TrueMidstream /\ UdpTo(n) = TrueUdp
           /\ \A k \in Counters : Cardinality(Marked(n, k)) = TruePackets[k]
<1>1. \A kind : Seen(n, kind) = OfKind(kind)
  BY DEF TrackersTypeOK, Seen, OfKind, Indices
<1>2. \A k : Marked(n, k) = {i \in Indices : k \in {Version(records[i]), Transport(records[i])}}
  BY DEF TrackersTypeOK, Marked, Marks, Indices
<1>3. StreamsTo(n) = TrueStreams /\ UdpTo(n) = TrueUdp
  BY <1>1 DEF StreamsTo, UdpTo, TrueStreams, TrueUdp
<1>4. MidstreamTo(n) = TrueMidstream
  BY <1>1 DEF MidstreamTo, TrueMidstream, FirstSegment
<1> QED
  BY <1>2, <1>3, <1>4 DEF TruePackets

\* Records that are appended are none of the first n.
LEMMA AppendKeepsRead ==
    ASSUME TrackersTypeOK, NEW p \in Packets, records' = Append(records, p),
           NEW n \in 0..Len(records)
    PROVE  /\ StreamsTo(n)' = StreamsTo(n) /\ StreamsTo(n + 1) \subseteq StreamsTo(n + 1)'
           /\ BasesTo(n)' = BasesTo(n) /\ BasesTo(n + 1) \subseteq BasesTo(n + 1)'
           /\ UdpTo(n)' = UdpTo(n) /\ UdpTo(n + 1) \subseteq UdpTo(n + 1)'
           /\ MidstreamTo(n)' = MidstreamTo(n) /\ MidstreamTo(n + 1) \subseteq MidstreamTo(n + 1)'
           /\ \A k : Marked(n, k)' = Marked(n, k)
<1>1. /\ Len(records)' = Len(records) + 1 /\ Len(records) \in Nat
      /\ \A i \in Indices : i \in Nat /\ records'[i] = records[i]
      /\ Indices' = Indices \cup {Len(records) + 1}
  BY DEF TrackersTypeOK, Indices
<1>2. \A i \in Indices' : i <= n => i \in Indices
  BY <1>1
<1>3. \A kind : Seen(n, kind)' = Seen(n, kind) /\ Seen(n + 1, kind) \subseteq Seen(n + 1, kind)'
  <2>1. SUFFICES ASSUME NEW kind
                 PROVE  Seen(n, kind)' = Seen(n, kind) /\ Seen(n + 1, kind) \subseteq Seen(n + 1, kind)'
    OBVIOUS
  <2>2. Seen(n, kind)' = {i \in Indices' : i <= n /\ records'[i].kind = kind}
    BY DEF Seen
  <2>3. Seen(n + 1, kind)' = {i \in Indices' : i <= n + 1 /\ records'[i].kind = kind}
    BY DEF Seen
  <2>4. Seen(n, kind)' = Seen(n, kind)
    BY <1>1, <1>2, <2>2 DEF Seen
  <2>5. Seen(n + 1, kind) \subseteq Seen(n + 1, kind)'
    BY <1>1, <2>3 DEF Seen
  <2> QED
    BY <2>4, <2>5
<1>4. \A kind : Seen(n, kind) \subseteq Indices /\ Seen(n + 1, kind) \subseteq Indices
  BY DEF Seen
<1>5. StreamsTo(n)' = StreamsTo(n) /\ StreamsTo(n + 1) \subseteq StreamsTo(n + 1)'
  BY <1>1, <1>3, <1>4 DEF StreamsTo, Stream
<1>6. BasesTo(n)' = BasesTo(n) /\ BasesTo(n + 1) \subseteq BasesTo(n + 1)'
  BY <1>1, <1>3, <1>4 DEF BasesTo
<1>7. UdpTo(n)' = UdpTo(n) /\ UdpTo(n + 1) \subseteq UdpTo(n + 1)'
  BY <1>1, <1>3, <1>4 DEF UdpTo
<1>8. \A m \in Indices : FirstSegment(m)' <=> FirstSegment(m)
  <2>1. \A k \in Indices : k \in OfKind("syn")' <=> k \in OfKind("syn")
    BY <1>1 DEF OfKind
  <2>2. /\ OfKind("syn") \subseteq OfKind("syn")' /\ OfKind("syn") \subseteq Indices
        /\ OfKind("syn")' \subseteq OfKind("syn") \cup {Len(records) + 1}
    BY <1>1, <2>1 DEF OfKind
  <2>3. \A m \in Indices : Len(records) + 1 > m
    BY <1>1 DEF Indices
  <2> QED
    BY <1>1, <2>2, <2>3 DEF FirstSegment
<1>9. MidstreamTo(n)' = MidstreamTo(n) /\ MidstreamTo(n + 1) \subseteq MidstreamTo(n + 1)'
  <2>1. \A m : MidstreamTo(m) = {records[i].conversation : i \in {k \in Seen(m, "tcp") : FirstSegment(k)}}
    BY DEF MidstreamTo
  <2>2. \A m : MidstreamTo(m)' =
           {records'[i].conversation : i \in {k \in Seen(m, "tcp")' : FirstSegment(k)'}}
    BY DEF MidstreamTo
  <2>3. {k \in Seen(n, "tcp")' : FirstSegment(k)'} = {k \in Seen(n, "tcp") : FirstSegment(k)}
    BY <1>3, <1>4, <1>8
  <2>4. \A k \in Seen(n + 1, "tcp") : FirstSegment(k) =>
           k \in Seen(n + 1, "tcp")' /\ FirstSegment(k)' /\ records'[k] = records[k]
    BY <1>1, <1>3, <1>4, <1>8
  <2>5. \A k \in Seen(n, "tcp") : records'[k] = records[k]
    BY <1>1, <1>4
  <2>6. MidstreamTo(n)' = MidstreamTo(n)
    BY <2>1, <2>2, <2>3, <2>5
  <2>7. MidstreamTo(n + 1) \subseteq MidstreamTo(n + 1)'
    BY <2>1, <2>2, <2>4
  <2> QED
    BY <2>6, <2>7
<1>10. \A k : Marked(n, k)' = Marked(n, k)
  <2>1. SUFFICES ASSUME NEW k
                 PROVE  Marked(n, k)' = Marked(n, k)
    OBVIOUS
  <2>2. Marked(n, k)' = {i \in Indices' : i <= n /\ k \in Marks(records'[i])}
    BY DEF Marked, Marks, Version, Transport
  <2> QED
    BY <1>1, <1>2, <2>2, Zenon DEF Marked
<1> QED
  BY <1>5, <1>6, <1>7, <1>9, <1>10

-----------------------------------------------------------------------------
(* The invariants of the trackers *)

\* A tracker has read the records up to its offset and, where Ctrl+C cut a poll,
\* perhaps some of the next one.
L4Read ==
    /\ Between(synStreams, StreamsTo(l4Offset), StreamsTo(l4Offset + 1))
    /\ Between(synBases, BasesTo(l4Offset), BasesTo(l4Offset + 1))
    /\ Between(midstream, MidstreamTo(l4Offset), MidstreamTo(l4Offset + 1))
    /\ Between(udpBases, UdpTo(l4Offset), UdpTo(l4Offset + 1))

Datagrams443Read ==
    Between(udp443Bases, UdpTo(ipOffset) \cap Udp443, UdpTo(ipOffset + 1) \cap Udp443)

\* The packet counters, with what may have been counted twice.
PacketsRead(twice) ==
    \A k \in Counters : \E extra \in twice :
        packets[k] = Cardinality(Marked(ipOffset, k)) + extra

FiniteReads == IsFiniteSet(synStreams) /\ IsFiniteSet(midstream) /\ IsFiniteSet(udpBases)

TrackersInv == TrackersTypeOK /\ FiniteReads /\ L4Read /\ Datagrams443Read

\* What has been seen is not forgotten.
L4Grows ==
    synStreams \subseteq synStreams' /\ midstream \subseteq midstream' /\ udpBases \subseteq udpBases'

LEMMA SetsAreReadInOrder ==
    ASSUME TrackersTypeOK, NEW n \in Nat
    PROVE  /\ StreamsTo(n) \subseteq StreamsTo(n + 1) /\ BasesTo(n) \subseteq BasesTo(n + 1)
           /\ MidstreamTo(n) \subseteq MidstreamTo(n + 1) /\ UdpTo(n) \subseteq UdpTo(n + 1)
<1>1. \A kind : Seen(n, kind) \subseteq Seen(n + 1, kind)
  BY DEF Seen, Indices, TrackersTypeOK
<1> QED
  BY <1>1 DEF StreamsTo, BasesTo, MidstreamTo, UdpTo

\* To consume a record again changes nothing: it leaves what reading it once does.
LEMMA ConsumeReads ==
    ASSUME TrackersInv, l4Offset < Len(records), ConsumeL4(NextL4)
    PROVE  /\ synStreams' = StreamsTo(l4Offset + 1) /\ synBases' = BasesTo(l4Offset + 1)
           /\ midstream' = MidstreamTo(l4Offset + 1) /\ udpBases' = UdpTo(l4Offset + 1)
           /\ L4Grows /\ FiniteReads'
           /\ synStreams' \subseteq Conversations \X Sides \X SequenceNumbers
           /\ synBases' \subseteq Conversations /\ midstream' \subseteq Conversations
           /\ udpBases' \subseteq Conversations
<1> DEFINE n == l4Offset
           p == records[n + 1]
<1>1. n \in Nat /\ n < Len(records) /\ p = NextL4
  BY DEF TrackersInv, TrackersTypeOK, NextL4
<1>2. /\ p \in Packets
      /\ StreamsTo(n + 1) = StreamsTo(n) \cup StartOf(p, Stream(p))
      /\ BasesTo(n + 1) = BasesTo(n) \cup StartOf(p, p.conversation)
      /\ UdpTo(n + 1) = UdpTo(n) \cup DatagramOf(p)
      /\ MidstreamTo(n + 1) = MidstreamTo(n) \cup SegmentOf(p, BasesTo(n))
  BY <1>1, ReadOneMore DEF TrackersInv
<1>3. /\ p.conversation \in Conversations /\ p.kind \in {"syn", "tcp", "udp"}
      /\ Stream(p) \in Conversations \X Sides \X SequenceNumbers
  BY <1>2, PacketFields
<1>4. /\ Between(synStreams, StreamsTo(n), StreamsTo(n + 1))
      /\ Between(synBases, BasesTo(n), BasesTo(n + 1))
      /\ Between(midstream, MidstreamTo(n), MidstreamTo(n + 1))
      /\ Between(udpBases, UdpTo(n), UdpTo(n + 1))
  BY DEF TrackersInv, L4Read
<1> HIDE DEF n, p
<1>5. CASE p.kind = "syn"
  <2>1. synStreams' = synStreams \cup {Stream(p)} /\ synBases' = synBases \cup {p.conversation}
        /\ midstream' = midstream /\ udpBases' = udpBases
    BY <1>1, <1>5 DEF ConsumeL4, ConsumeStart
  <2>2. IsFiniteSet(synStreams')
    BY <2>1, FS_AddElement DEF TrackersInv, FiniteReads
  <2> QED
    BY <1>2, <1>3, <1>4, <1>5, <2>1, <2>2
       DEF Between, StartOf, DatagramOf, SegmentOf, L4Grows, TrackersInv, FiniteReads, TrackersTypeOK, n, p
<1>6. CASE p.kind = "tcp"
  <2>1. synStreams' = synStreams /\ synBases' = synBases /\ udpBases' = udpBases
        /\ midstream' = midstream \cup ({p.conversation} \ synBases)
    BY <1>1, <1>6 DEF ConsumeL4, ConsumeSegment
  <2>2. IsFiniteSet(midstream \cup {p.conversation}) /\ IsFiniteSet(midstream)
    BY FS_AddElement DEF TrackersInv, FiniteReads
  <2>3. midstream' = midstream \/ midstream' = midstream \cup {p.conversation}
    BY <2>1
  <2>4. BasesTo(n) = synBases
    BY <1>2, <1>4, <1>6 DEF Between, StartOf
  <2> QED
    BY <1>2, <1>3, <1>4, <1>6, <2>1, <2>2, <2>3, <2>4
       DEF Between, StartOf, DatagramOf, SegmentOf, L4Grows, TrackersInv, FiniteReads, TrackersTypeOK, n, p
<1>7. CASE p.kind = "udp"
  <2>1. synStreams' = synStreams /\ synBases' = synBases /\ midstream' = midstream
        /\ udpBases' = udpBases \cup {p.conversation}
    BY <1>1, <1>7 DEF ConsumeL4, ConsumeDatagram
  <2>2. IsFiniteSet(udpBases')
    BY <2>1, FS_AddElement DEF TrackersInv, FiniteReads
  <2> QED
    BY <1>2, <1>3, <1>4, <1>7, <2>1, <2>2
       DEF Between, StartOf, DatagramOf, SegmentOf, L4Grows, TrackersInv, FiniteReads, TrackersTypeOK, n, p
<1> QED
  BY <1>3, <1>5, <1>6, <1>7

LEMMA ReadL4Keeps ==
    ASSUME TrackersInv, UNCHANGED <<records, ipVars>>, ReadL4 \/ CutL4 \/ UNCHANGED l4Vars
    PROVE  TrackersInv' /\ L4Grows
<1>1. /\ UNCHANGED <<records, ipOffset, packets, udp443Bases>> /\ Datagrams443Read'
      /\ l4Offset \in Nat /\ l4Offset <= Len(records) /\ Len(records) \in Nat
  BY DEF ipVars, TrackersInv, TrackersTypeOK, Datagrams443Read, UdpTo, Seen, Indices
<1>2. \A n : /\ StreamsTo(n)' = StreamsTo(n) /\ BasesTo(n)' = BasesTo(n)
             /\ MidstreamTo(n)' = MidstreamTo(n) /\ UdpTo(n)' = UdpTo(n)
  BY <1>1 DEF StreamsTo, BasesTo, MidstreamTo, FirstSegment, OfKind, UdpTo, Seen, Indices, Stream
<1>3. /\ StreamsTo(l4Offset) \subseteq StreamsTo(l4Offset + 1)
      /\ BasesTo(l4Offset) \subseteq BasesTo(l4Offset + 1)
      /\ MidstreamTo(l4Offset) \subseteq MidstreamTo(l4Offset + 1)
      /\ UdpTo(l4Offset) \subseteq UdpTo(l4Offset + 1)
  BY <1>1, SetsAreReadInOrder DEF TrackersInv
<1>4. CASE ReadL4
  <2>1. l4Offset < Len(records) /\ ConsumeL4(NextL4) /\ l4Offset' = l4Offset + 1
    BY <1>4 DEF ReadL4
  <2>2. /\ synStreams' = StreamsTo(l4Offset') /\ synBases' = BasesTo(l4Offset')
        /\ midstream' = MidstreamTo(l4Offset') /\ udpBases' = UdpTo(l4Offset')
        /\ L4Grows /\ FiniteReads' /\ l4Offset' \in 0..Len(records)
    BY <1>1, <2>1, ConsumeReads
  <2>3. TrackersTypeOK'
    BY <1>1, <2>1, <2>2, ConsumeReads DEF TrackersInv, TrackersTypeOK
  <2>4. /\ StreamsTo(l4Offset') \subseteq StreamsTo(l4Offset' + 1)
        /\ BasesTo(l4Offset') \subseteq BasesTo(l4Offset' + 1)
        /\ MidstreamTo(l4Offset') \subseteq MidstreamTo(l4Offset' + 1)
        /\ UdpTo(l4Offset') \subseteq UdpTo(l4Offset' + 1)
    BY <2>2, SetsAreReadInOrder DEF TrackersInv
  <2>5. L4Read'
    BY <1>2, <2>2, <2>4 DEF L4Read, Between
  <2> QED
    BY <1>1, <2>2, <2>3, <2>5 DEF TrackersInv
<1>5. CASE CutL4 \/ UNCHANGED l4Vars
  <2>1. UNCHANGED l4Offset
    BY <1>5 DEF CutL4, l4Vars
  <2>2. CASE UNCHANGED <<synStreams, synBases, midstream, udpBases>>
    BY <1>1, <1>2, <2>1, <2>2 DEF TrackersInv, TrackersTypeOK, FiniteReads, L4Read, L4Grows
  <2>3. CASE l4Offset < Len(records) /\ ConsumeL4(NextL4)
    <3>1. TrackersTypeOK' /\ FiniteReads' /\ L4Grows
      BY <1>1, <2>1, <2>3, ConsumeReads DEF TrackersInv, TrackersTypeOK
    <3>2. L4Read'
      BY <1>2, <1>3, <2>1, <2>3, ConsumeReads DEF L4Read, Between
    <3> QED
      BY <1>1, <3>1, <3>2 DEF TrackersInv
  <2>4. CASE /\ l4Offset < Len(records) /\ NextL4.kind = "syn"
             /\ synStreams' = synStreams \cup {Stream(NextL4)}
             /\ UNCHANGED <<synBases, midstream, udpBases>>
    <3>1. /\ NextL4 \in Packets
          /\ StreamsTo(l4Offset + 1) = StreamsTo(l4Offset) \cup {Stream(NextL4)}
      BY <1>1, <2>4, ReadOneMore DEF TrackersInv, NextL4, StartOf
    <3>2. IsFiniteSet(synStreams') /\ Stream(NextL4) \in Conversations \X Sides \X SequenceNumbers
      BY <2>4, <3>1, FS_AddElement, PacketFields DEF TrackersInv, FiniteReads
    <3>3. TrackersTypeOK' /\ FiniteReads' /\ L4Grows
      BY <1>1, <2>1, <2>4, <3>2 DEF TrackersInv, TrackersTypeOK, FiniteReads, L4Grows
    <3>4. L4Read'
      BY <1>2, <2>1, <2>4, <3>1 DEF TrackersInv, L4Read, Between
    <3> QED
      BY <1>1, <3>3, <3>4 DEF TrackersInv
  <2> QED
    BY <1>5, <2>2, <2>3, <2>4 DEF CutL4, l4Vars
<1> QED
  BY <1>4, <1>5

LEMMA ConsumeIpReads ==
    ASSUME TrackersInv, ipOffset < Len(records), ConsumeIp(NextIp)
    PROVE  /\ udp443Bases' = UdpTo(ipOffset + 1) \cap Udp443
           /\ packets' = [k \in Counters |-> packets[k] + IF k \in Marks(records[ipOffset + 1]) THEN 1 ELSE 0]
<1> DEFINE n == ipOffset
           p == records[n + 1]
<1>1. n \in Nat /\ n < Len(records) /\ p = NextIp
  BY DEF TrackersInv, TrackersTypeOK, NextIp
<1>2. UdpTo(n + 1) = UdpTo(n) \cup DatagramOf(p)
  BY <1>1, ReadOneMore DEF TrackersInv
<1>3. udp443Bases' = udp443Bases \cup (DatagramOf(p) \cap Udp443)
  BY <1>1 DEF ConsumeIp, DatagramOf
<1>4. Between(udp443Bases, UdpTo(n) \cap Udp443, UdpTo(n + 1) \cap Udp443)
  BY DEF TrackersInv, Datagrams443Read
<1> HIDE DEF p, n
<1>5. udp443Bases' = UdpTo(n + 1) \cap Udp443
  BY <1>2, <1>3, <1>4 DEF Between
<1>6. packets' = [k \in Counters |-> packets[k] + IF k \in Marks(p) THEN 1 ELSE 0]
  BY <1>1 DEF ConsumeIp, Bump, Marks
<1> QED
  BY <1>5, <1>6 DEF p, n

\* What the offset says is read of a file that stays as it is.
LEMMA SameFileRead ==
    ASSUME UNCHANGED records
    PROVE  \A n : /\ StreamsTo(n)' = StreamsTo(n) /\ BasesTo(n)' = BasesTo(n)
                  /\ MidstreamTo(n)' = MidstreamTo(n) /\ UdpTo(n)' = UdpTo(n)
                  /\ \A k : Marked(n, k)' = Marked(n, k)
  BY DEF StreamsTo, BasesTo, MidstreamTo, FirstSegment, OfKind, UdpTo, Seen, Indices, Stream,
         Marked, Marks, Version, Transport

LEMMA SameL4Read ==
    ASSUME TrackersInv, UNCHANGED <<records, l4Vars>>
    PROVE  L4Read' /\ FiniteReads' /\ L4Grows
  BY SameFileRead DEF l4Vars, TrackersInv, L4Read, FiniteReads, L4Grows

LEMMA ReadIpKeeps ==
    ASSUME TrackersInv, UNCHANGED <<records, l4Vars>>, ReadIp,
           NEW twice \in SUBSET Nat, PacketsRead(twice)
    PROVE  TrackersInv' /\ PacketsRead(twice)' /\ L4Grows
<1>1. /\ ipOffset \in Nat /\ ipOffset < Len(records) /\ Len(records) \in Nat
      /\ ipOffset' = ipOffset + 1 /\ packets \in [Counters -> Nat]
      /\ udp443Bases' = UdpTo(ipOffset + 1) \cap Udp443
      /\ packets' = [k \in Counters |-> packets[k] + IF k \in Marks(records[ipOffset + 1]) THEN 1 ELSE 0]
  BY ConsumeIpReads DEF ReadIp, TrackersInv, TrackersTypeOK
<1>2. UdpTo(ipOffset') \subseteq UdpTo(ipOffset' + 1)
  BY <1>1, SetsAreReadInOrder DEF TrackersInv
<1>3. Datagrams443Read'
  BY <1>1, <1>2, SameFileRead DEF Datagrams443Read, Between
<1>4. TrackersTypeOK'
  BY <1>1, SameFileRead DEF l4Vars, TrackersInv, TrackersTypeOK
<1>5. ASSUME NEW k \in Counters
      PROVE  \E extra \in twice : packets'[k] = Cardinality(Marked(ipOffset, k)') + extra
  <2>1. PICK extra \in twice : packets[k] = Cardinality(Marked(ipOffset, k)) + extra
    BY DEF PacketsRead
  <2>2. /\ Cardinality(Marked(ipOffset, k)) \in Nat
        /\ Cardinality(Marked(ipOffset + 1, k)) =
              Cardinality(Marked(ipOffset, k)) + IF k \in Marks(records[ipOffset + 1]) THEN 1 ELSE 0
    BY <1>1, MarkOneMore DEF TrackersInv
  <2>3. Marked(ipOffset, k)' = Marked(ipOffset + 1, k)
    BY <1>1, SameFileRead
  <2>4. packets'[k] = Cardinality(Marked(ipOffset + 1, k)) + extra
    BY <1>1, <2>1, <2>2
  <2> QED
    BY <2>3, <2>4
<1> QED
  BY <1>3, <1>4, <1>5, SameL4Read DEF TrackersInv, PacketsRead

\* A cut may count the packet it interrupts, once.
LEMMA CutIpKeeps ==
    ASSUME TrackersInv, UNCHANGED <<records, l4Vars>>, CutIp, PacketsRead({0})
    PROVE  TrackersInv' /\ PacketsRead({0, 1})' /\ L4Grows
<1>1. /\ ipOffset \in Nat /\ ipOffset <= Len(records) /\ Len(records) \in Nat
      /\ ipOffset' = ipOffset /\ packets \in [Counters -> Nat]
  BY DEF CutIp, TrackersInv, TrackersTypeOK
<1>2. UdpTo(ipOffset) \subseteq UdpTo(ipOffset + 1)
  BY <1>1, SetsAreReadInOrder DEF TrackersInv
<1>3. /\ udp443Bases' = udp443Bases \/ udp443Bases' = UdpTo(ipOffset + 1) \cap Udp443
      /\ packets' = packets \/ \E counted : packets' = [k \in Counters |-> packets[k] + IF k \in counted THEN 1 ELSE 0]
  BY <1>1, ConsumeIpReads, Zenon DEF CutIp, Bump
<1>4. Datagrams443Read'
  BY <1>1, <1>2, <1>3, SameFileRead DEF TrackersInv, Datagrams443Read, Between
<1>5. packets' \in [Counters -> Nat] /\ \A k \in Counters : packets'[k] \in {packets[k], packets[k] + 1}
  BY <1>1, <1>3
<1>6. TrackersTypeOK'
  BY <1>1, <1>3, <1>5 DEF l4Vars, TrackersInv, TrackersTypeOK
<1>7. ASSUME NEW k \in Counters
      PROVE  \E extra \in {0, 1} : packets'[k] = Cardinality(Marked(ipOffset, k)') + extra
  <2>1. packets[k] = Cardinality(Marked(ipOffset, k)) + 0 /\ packets[k] \in Nat
    BY <1>1 DEF PacketsRead
  <2>2. Marked(ipOffset, k)' = Marked(ipOffset, k)
    BY <1>1, SameFileRead
  <2>3. Cardinality(Marked(ipOffset, k)) \in Nat
    BY MarksAreFinite DEF TrackersInv
  <2> QED
    BY <1>5, <2>1, <2>2, <2>3
<1> QED
  BY <1>4, <1>6, <1>7, SameL4Read DEF TrackersInv, PacketsRead

LEMMA SameTrackersKeep ==
    ASSUME TrackersInv, UNCHANGED <<records, trackerVars>>
    PROVE  TrackersInv' /\ L4Grows /\ \A twice : PacketsRead(twice) => PacketsRead(twice)'
<1>1. UNCHANGED <<records, l4Vars, ipVars>>
  BY DEF trackerVars
<1>2. TrackersTypeOK'
  BY <1>1 DEF TrackersInv, TrackersTypeOK, l4Vars, ipVars
<1>4. Datagrams443Read'
  BY <1>1, SameFileRead DEF TrackersInv, Datagrams443Read, ipVars
<1>3. \A twice : PacketsRead(twice) => PacketsRead(twice)'
  BY <1>1, SameFileRead DEF PacketsRead, ipVars
<1> QED
  BY <1>1, <1>2, <1>3, <1>4, SameL4Read DEF TrackersInv

LEMMA AppendKeeps ==
    ASSUME TrackersInv, UNCHANGED trackerVars, NEW p \in Packets, records' = Append(records, p)
    PROVE  TrackersInv' /\ L4Grows /\ \A twice : PacketsRead(twice) => PacketsRead(twice)'
<1>1. /\ UNCHANGED <<l4Offset, synStreams, synBases, midstream, udpBases, ipOffset, packets, udp443Bases>>
      /\ l4Offset \in 0..Len(records) /\ ipOffset \in 0..Len(records)
      /\ records' \in Seq(Packets) /\ Len(records') = Len(records) + 1 /\ Len(records) \in Nat
  BY DEF trackerVars, l4Vars, ipVars, TrackersInv, TrackersTypeOK
<1>2. TrackersTypeOK' /\ FiniteReads' /\ L4Grows
  BY <1>1 DEF TrackersInv, TrackersTypeOK, FiniteReads, L4Grows
<1>3. L4Read'
  BY <1>1, AppendKeepsRead DEF TrackersInv, L4Read, Between
<1>4. Datagrams443Read'
  BY <1>1, AppendKeepsRead DEF TrackersInv, Datagrams443Read, Between
<1>5. \A twice : PacketsRead(twice) => PacketsRead(twice)'
  <2>1. \A k : Marked(ipOffset, k)' = Marked(ipOffset, k)
    BY <1>1, AppendKeepsRead DEF TrackersInv
  <2> QED
    BY <1>1, <2>1 DEF PacketsRead
<1> QED
  BY <1>2, <1>3, <1>4, <1>5 DEF TrackersInv

\* The trackers of a new file.
LEMMA NewTrackersRead == records = <<>> /\ NewTrackers => TrackersInv /\ PacketsRead({0})
<1> SUFFICES ASSUME records = <<>>, NewTrackers
             PROVE  TrackersInv /\ PacketsRead({0})
  OBVIOUS
<1>1. Indices = {} /\ Len(records) = 0
  BY DEF Indices
<1>2. TrackersTypeOK
  BY DEF NewTrackers, TrackersTypeOK
<1>3. \A n : StreamsTo(n) = {} /\ BasesTo(n) = {} /\ MidstreamTo(n) = {} /\ UdpTo(n) = {}
  BY <1>1 DEF StreamsTo, BasesTo, MidstreamTo, UdpTo, Seen
<1>4. \A n, k : Marked(n, k) = {}
  BY <1>1 DEF Marked
<1>5. L4Read /\ Datagrams443Read
  BY <1>3 DEF NewTrackers, L4Read, Datagrams443Read, Between
<1>6. FiniteReads
  BY FS_EmptySet DEF NewTrackers, FiniteReads
<1>7. \A k \in Counters : packets[k] = Cardinality(Marked(ipOffset, k)) + 0
  <2>1. ASSUME NEW k \in Counters
        PROVE  packets[k] = 0 /\ Cardinality(Marked(ipOffset, k)) = 0
    <3>1. Marked(ipOffset, k) = {}
      BY <1>4
    <3> QED
      BY <3>1, FS_EmptySet DEF NewTrackers
  <2> QED
    BY <2>1
<1> QED
  BY <1>2, <1>5, <1>6, <1>7 DEF TrackersInv, PacketsRead

LEMMA L4StatsGrow ==
    ASSUME TrackersInv, TrackersInv', L4Grows
    PROVE  L4Stats.total \in Nat /\ L4Stats'.total \in Nat /\ L4Stats.total <= L4Stats'.total
<1>1. /\ IsFiniteSet(synStreams) /\ IsFiniteSet(midstream) /\ IsFiniteSet(udpBases)
      /\ IsFiniteSet(synStreams') /\ IsFiniteSet(midstream') /\ IsFiniteSet(udpBases')
  BY DEF TrackersInv, FiniteReads
<1>2. /\ Cardinality(synStreams) <= Cardinality(synStreams')
      /\ Cardinality(midstream) <= Cardinality(midstream')
      /\ Cardinality(udpBases) <= Cardinality(udpBases')
  BY <1>1, FS_Subset DEF L4Grows
<1>3. /\ Cardinality(synStreams) \in Nat /\ Cardinality(midstream) \in Nat /\ Cardinality(udpBases) \in Nat
      /\ Cardinality(synStreams') \in Nat /\ Cardinality(midstream') \in Nat /\ Cardinality(udpBases') \in Nat
  BY <1>1, FS_CardinalityType
<1>4. /\ L4Stats.total = Cardinality(synStreams) + Cardinality(midstream) + Cardinality(udpBases)
      /\ L4Stats'.total = Cardinality(synStreams') + Cardinality(midstream') + Cardinality(udpBases')
  BY DEF L4Stats, ConversationStats
<1> QED
  BY <1>2, <1>3, <1>4

LEMMA L4StatsTyped ==
    ASSUME TrackersInv
    PROVE  L4Stats.total \in Nat
<1>1. IsFiniteSet(synStreams) /\ IsFiniteSet(midstream) /\ IsFiniteSet(udpBases)
  BY DEF TrackersInv, FiniteReads
<1>2. L4Stats.total = Cardinality(synStreams) + Cardinality(midstream) + Cardinality(udpBases)
  BY DEF L4Stats, ConversationStats
<1> QED
  BY <1>1, <1>2, FS_CardinalityType

-----------------------------------------------------------------------------
(* The inductive invariant *)

LoopSteps ==
    {"launched", "entering", "starting", "asleep", "sizing", "polling", "polling ip", "deciding"}

\* A poll that Ctrl+C cut is never resumed by the loop.
Uncut == pc \in LoopSteps \/ stopReason = TrafficIdle
Twice == IF Uncut THEN {0} ELSE {0, 1}

ReadsHold == TrackersInv /\ PacketsRead(Twice)

Ran(action, outcomes) ==
    \E outcome \in outcomes : helper = [action |-> action, outcome |-> outcome]

\* What the helper has done before the process knows of it, and what is blocked
\* when the flag does not say so.  A dumpcap that is running, or ran without the
\* isolation it should have had, has no record.
ReleaseHolds ==
    /\ pc = "begin" => helper = None /\ ~isolated /\ ~enabled
    /\ pc = "enabling" =>
          /\ isolate /\ ~enabled
          /\ Ran("enable", {"running", "failed"}) \/ (Ran("enable", {"ok"}) /\ isolated)
    /\ pc \notin {"begin", "enabling", "unwinding", "releasing", "over"} =>
          (isolated <=> isolate) /\ (enabled <=> isolate)
    /\ pc = "unwinding" /\ isolated /\ ~enabled => helper.outcome = "failed" \/ struck # {}
    /\ pc = "releasing" =>
          \/ Ran("disable", {"running", "failed"})
          \/ Ran("disable", {"ok"}) /\ ~isolated
    /\ IsolationReleased
    /\ exposed => pc \in {"releasing", "over"}
    /\ dumpcap = "running" \/ exposed => record = None

\* dumpcap is gone before the trackers are read for the record.
RecordHolds ==
    /\ pc \in {"recording", "recording ip", "returned"} => dumpcap = "exited"
    /\ pc \in {"recording ip", "returned"} => l4Offset = Len(records)
    /\ pc = "returned" =>
          /\ ipOffset = Len(records)
          /\ record = [flows |-> L4Stats, ip |-> IpStats, target_met |-> L4Stats.total >= TargetFlows,
                       stop_reason |-> stopReason]

SeriesHolds ==
    /\ pc \in {"begin", "enabling", "browser"} => segmentIndex = 0
    /\ pc = "between" => segmentIndex < SegmentCount

\* The quiet timer runs only from the target on, which stays met.
TargetHolds ==
    /\ total <= L4Stats.total
    /\ quietAge # None \/ stopReason = TrafficIdle => total >= TargetFlows

\* The quiet timer never shows more seconds than were calm: up to the last sample
\* while the loop sleeps, with the present sample after it.
TimerHolds ==
    /\ pc \in LoopSteps => stopReason = "interrupted"
    /\ stopReason = TrafficIdle => calm >= IdleSeconds
    /\ pc \in {"launched", "entering", "starting", "asleep"} /\ quietAge # None => calm >= quietAge
    /\ pc = "sizing" /\ quietAge # None => Saturate(calm + interval, IdleSeconds) >= quietAge
    /\ pc \in {"polling", "polling ip", "deciding"} /\ quiet /\ quietAge # None => calm >= quietAge

SeriesInv ==
    TypeOK /\ ReadsHold /\ ReleaseHolds /\ RecordHolds /\ SeriesHolds /\ TargetHolds /\ TimerHolds

-----------------------------------------------------------------------------
(* The trackers in the steps of the series *)

\* The steps that do not leave the file and the trackers alone.
ReaderSteps == Traffic \/ StartSegment \/ ReadL4Record \/ ReadIpRecord \/ InterruptLoop

\* The steps that start, end or cut off isolate.ps1, or skip it, and what they
\* leave alone.
HelperSteps ==
    \/ EnableIsolation \/ HelperEnables \/ EnableReturns
    \/ KeepIsolation \/ ReleaseIsolation \/ HelperDisables \/ DisableReturns
    \/ InterruptEnable \/ InterruptRelease

LEMMA HelperMoves ==
    ASSUME HelperSteps
    PROVE  /\ UNCHANGED <<isolate, segmentIndex, sessions, trackerVars, dumpcap, records, fresh, sampleVars,
                         stopReason, record>>
           /\ \/ pc = "begin" /\ pc' = "enabling"
              \/ pc = "enabling" /\ pc' \in {"enabling", "browser", "unwinding"}
              \/ pc = "unwinding" /\ pc' \in {"releasing", "over"}
              \/ pc = "releasing" /\ pc' \in {"releasing", "over"}
<1>1. CASE EnableIsolation \/ HelperEnables \/ EnableReturns \/ InterruptEnable
  BY <1>1 DEF EnableIsolation, HelperEnables, EnableReturns, InterruptEnable, At, Goto, seriesVars, segmentVars,
              fileVars
<1>2. CASE KeepIsolation \/ ReleaseIsolation \/ DisableReturns
  BY <1>2 DEF KeepIsolation, ReleaseIsolation, DisableReturns, At, Goto, isolationVars, seriesVars, segmentVars,
              fileVars
<1>3. CASE HelperDisables \/ InterruptRelease
  <2>1. Exposes /\ UNCHANGED <<isolate, seriesVars>>
    BY <1>3 DEF HelperDisables, InterruptRelease
  <2>2. \/ pc = "releasing" /\ pc' = "releasing"
        \/ pc \in {"unwinding", "releasing"} /\ pc' = "over"
    BY <1>3 DEF HelperDisables, InterruptRelease, At, Goto
  <2>3. UNCHANGED <<trackerVars, dumpcap, records, fresh, sampleVars, stopReason, record>>
    BY <2>1 DEF Exposes
  <2> QED
    BY <2>1, <2>2, <2>3 DEF seriesVars
<1> QED
  BY <1>1, <1>2, <1>3 DEF HelperSteps

LEMMA OtherStepsReadNothing ==
    ASSUME [Next]_vars, ~ReaderSteps
    PROVE  UNCHANGED <<records, trackerVars>>
<1>1. CASE UNCHANGED vars
  BY <1>1 DEF vars, segmentVars, fileVars
<1>2. CASE SkipIsolation \/ StartBrowser \/ StartFails \/ SegmentReturns
  BY <1>2 DEF SkipIsolation, StartBrowser, StartFails, SegmentReturns, segmentVars,
              fileVars
<1>3. CASE EnterTry \/ EnterDashboard \/ CheckStarted \/ Wake \/ TakeSize \/ L4Polled \/ IpPolled
  BY <1>3 DEF EnterTry, EnterDashboard, CheckStarted, Wake, TakeSize, L4Polled, IpPolled, InSegment
<1>4. CASE Decide \/ Finish
  BY <1>4 DEF Decide, DumpcapDied, BelowTarget, KeepDraining, StopIdle, Finish, LeaveDashboard, StopDumpcap,
              StopFails, WriteRecord, InSegment
<1>5. CASE InterruptHandler \/ InterruptSegment \/ InterruptSeries
  BY <1>5 DEF InterruptHandler, InterruptSegment, InterruptSeries,
              InSegment, segmentVars, fileVars
<1>6. CASE DumpcapExits
  BY <1>6 DEF DumpcapExits, fileVars
<1>7. CASE HelperSteps
  BY <1>7, HelperMoves
<1>8. CASE PollRaises
  BY <1>8 DEF PollRaises, InSegment
<1> QED
  BY <1>1, <1>2, <1>3, <1>4, <1>5, <1>6, <1>7, <1>8
     DEF Next, Series, Sample, Interrupt, ReaderSteps, HelperSteps


LEMMA OtherStepsCutNothing ==
    ASSUME [Next]_vars, ~ReaderSteps, Uncut'
    PROVE  Uncut
<1>1. CASE UNCHANGED vars
  BY <1>1 DEF vars, segmentVars, Uncut
<1>2. CASE SkipIsolation \/ StartBrowser \/ StartFails \/ SegmentReturns
  BY <1>2 DEF SkipIsolation, StartBrowser, StartFails, SegmentReturns, segmentVars,
              Goto, Uncut, LoopSteps
<1>3. CASE EnterTry \/ EnterDashboard \/ CheckStarted \/ Wake \/ TakeSize
  BY <1>3 DEF EnterTry, EnterDashboard, CheckStarted, Wake, TakeSize, InSegment, At, Goto, Uncut, LoopSteps
<1>4. CASE L4Polled \/ IpPolled
  BY <1>4 DEF L4Polled, PollL4, IpPolled, InSegment, Goto, Uncut, LoopSteps
<1>5. CASE Decide
  BY <1>5 DEF Decide, DumpcapDied, BelowTarget, KeepDraining, StopIdle, InSegment, At, Goto, Uncut, LoopSteps
<1>6. CASE Finish
  BY <1>6 DEF Finish, LeaveDashboard, StopDumpcap, StopFails, WriteRecord, AfterStop, InSegment, At, Goto,
              Uncut, LoopSteps
<1>7. CASE InterruptHandler \/ InterruptSegment \/ InterruptSeries
  BY <1>7 DEF InterruptHandler, InterruptSegment, InterruptSeries,
              InSegment, segmentVars, Goto, Uncut, LoopSteps
<1>8. CASE DumpcapExits
  BY <1>8 DEF DumpcapExits, Uncut
<1>9. CASE HelperSteps
  BY <1>9, HelperMoves DEF Uncut, LoopSteps
<1>10. CASE PollRaises
  BY <1>10 DEF PollRaises, InSegment, Goto, Uncut, LoopSteps
<1> QED
  BY <1>1, <1>2, <1>3, <1>4, <1>5, <1>6, <1>7, <1>8, <1>9, <1>10
     DEF Next, Series, Sample, Interrupt, ReaderSteps, HelperSteps

LEMMA ReadsHoldStep ==
    ASSUME ReadsHold, [Next]_vars
    PROVE  ReadsHold' /\ (StartSegment \/ L4Grows)
<1> USE DEF ReadsHold
<1>1. CASE Traffic
  <2>1. PICK p \in Packets : records' = Append(records, p)
    BY <1>1 DEF Traffic
  <2>2. UNCHANGED <<trackerVars, pc, stopReason>>
    BY <1>1 DEF Traffic
  <2>3. TrackersInv' /\ L4Grows /\ PacketsRead(Twice)' 
    <3>1. Twice' = Twice
      BY <2>2 DEF Twice, Uncut
    <3>2. TrackersInv' /\ L4Grows /\ \A twice : PacketsRead(twice) => PacketsRead(twice)'
      BY <2>1, <2>2, AppendKeeps
    <3> QED
      BY <3>1, <3>2 DEF PacketsRead
  <2> QED
    BY <2>3
<1>2. CASE StartSegment
  <2>1. (records = <<>> /\ NewTrackers)' /\ pc' = "launched"
    BY <1>2 DEF StartSegment, ResetTrackers, NewTrackers, Goto
  <2>2. TrackersInv' /\ PacketsRead({0})'
    BY <2>1, NewTrackersRead, PTL
  <2>3. Twice' = {0}
    BY <2>1 DEF Twice, Uncut, LoopSteps
  <2> QED
    BY <1>2, <2>2, <2>3 DEF PacketsRead
<1>3. CASE ReadL4Record
  <2>1. ReadL4 /\ UNCHANGED <<records, ipVars, pc, stopReason>>
    BY <1>3 DEF ReadL4Record, fileVars
  <2>2. PacketsRead(Twice)'
    BY <2>1, SameFileRead DEF ipVars, PacketsRead, Twice, Uncut
  <2> QED
    BY <2>1, <2>2, ReadL4Keeps
<1>4. CASE ReadIpRecord
  <2>1. ReadIp /\ UNCHANGED <<records, l4Vars>> /\ Twice' = Twice /\ Twice \in SUBSET Nat
    BY <1>4 DEF ReadIpRecord, fileVars, Twice, Uncut
  <2>2. \A twice \in SUBSET Nat : PacketsRead(twice) => PacketsRead(twice)'
    BY <2>1, ReadIpKeeps
  <2>3. PacketsRead(Twice)'
    BY <2>1, <2>2 DEF PacketsRead
  <2> QED
    BY <2>1, <2>3, ReadIpKeeps
<1>5. CASE InterruptLoop
  <2>1. /\ UNCHANGED records
        /\ \/ CutL4 /\ UNCHANGED ipVars
           \/ CutIp /\ UNCHANGED l4Vars
           \/ UNCHANGED trackerVars
    BY <1>5 DEF InterruptLoop, InSegment
  <2>2. Twice = {0} /\ Twice' = {0, 1}
    BY <1>5 DEF InterruptLoop, InLoop, InSegment, Goto, Twice, Uncut, LoopSteps, TrafficIdle
  <2>3. CASE CutL4 /\ UNCHANGED ipVars
    <3>1. PacketsRead({0})'
      BY <2>1, <2>2, <2>3, SameFileRead DEF ipVars, PacketsRead
    <3> QED
      BY <2>1, <2>2, <2>3, <3>1, ReadL4Keeps DEF PacketsRead
  <2>4. CASE CutIp /\ UNCHANGED l4Vars
    BY <2>1, <2>2, <2>4, CutIpKeeps DEF PacketsRead
  <2>5. CASE UNCHANGED trackerVars
    <3>1. TrackersInv' /\ L4Grows /\ PacketsRead({0})'
      BY <2>1, <2>2, <2>5, SameTrackersKeep
    <3> QED
      BY <2>2, <3>1 DEF PacketsRead
  <2> QED
    BY <2>1, <2>3, <2>4, <2>5
<1>6. CASE ~ReaderSteps
  <2>1. UNCHANGED <<records, trackerVars>> /\ (Uncut' => Uncut)
    BY <1>6, OtherStepsReadNothing, OtherStepsCutNothing
  <2>2. TrackersInv' /\ L4Grows /\ \A twice : PacketsRead(twice) => PacketsRead(twice)'
    BY <2>1, SameTrackersKeep
  <2>3. Twice \subseteq Twice'
    BY <2>1 DEF Twice
  <2> QED
    BY <2>2, <2>3 DEF PacketsRead
<1> QED
  BY <1>1, <1>2, <1>3, <1>4, <1>5, <1>6 DEF ReaderSteps


-----------------------------------------------------------------------------
(* Types *)

LEMMA SaturateTyped ==
    ASSUME NEW n \in Nat, NEW top \in Nat
    PROVE  Saturate(n, top) \in 0..top
  BY DEF Saturate

LEMMA FreshLimitIsNat == FreshLimit \in Nat
<1> DEFINE Longest(m) == \A n \in Intervals : n <= m
           longest == CHOOSE m \in Intervals : Longest(m)
<1>1. \E m \in Intervals : Longest(m)
  BY SamplingAssumption
<1>2. longest \in Intervals
  BY <1>1
<1>3. longest \in Nat
  BY <1>2, SamplingAssumption
<1>4. IdleRate * longest \in Nat
  BY <1>3, ThresholdAssumption
<1> QED
  BY <1>4 DEF FreshLimit

LEMMA QuietAgeTyped ==
    ASSUME TypeOK
    PROVE  QuietAgeNow \in 0..IdleSeconds \cup {None}
  BY ThresholdAssumption DEF TypeOK, QuietAgeNow

\* The parts of TypeOK that the steps of a segment change.
StageTyped ==
    /\ pc \in PcStates /\ dumpcap \in {"none", "running", "exited"} /\ stopReason \in StopReasons
    /\ isolate \in BOOLEAN /\ isolated \in BOOLEAN /\ enabled \in BOOLEAN
    /\ struck \subseteq {"enable", "release"}
    /\ helper \in Helpers \cup {None} /\ exposed \in BOOLEAN
    /\ segmentIndex \in 0..SegmentCount /\ sessions \in Seq(StopReasons)

SamplesTyped ==
    /\ fresh \in 0..FreshLimit /\ interval \in Intervals \cup {0}
    /\ quiet \in BOOLEAN /\ quietAge \in 0..IdleSeconds \cup {None}
    /\ calm \in 0..IdleSeconds /\ total \in Nat

LEMMA TypeParts == TypeOK <=> TrackersTypeOK /\ StageTyped /\ SamplesTyped
  BY DEF TypeOK, StageTyped, SamplesTyped

\* A helper is typed when it starts and when it ends.
LEMMA RunsTyped ==
    ASSUME NEW action \in {"enable", "disable"}
    PROVE  /\ Run(action) \in Helpers
           /\ \A outcome \in {"ok", "failed", "cut"} :
                 [Run(action) EXCEPT !.outcome = outcome] = [action |-> action, outcome |-> outcome]
           /\ \A outcome \in {"ok", "failed", "cut"} : [action |-> action, outcome |-> outcome] \in Helpers
  BY DEF Run, Helpers

LEMMA HelperTyped ==
    ASSUME StageTyped, SamplesTyped, HelperSteps
    PROVE  StageTyped' /\ SamplesTyped'
<1>1. UNCHANGED <<isolate, segmentIndex, sessions, dumpcap, stopReason>> /\ SamplesTyped'
  BY HelperMoves DEF sampleVars, SamplesTyped
<1>2. pc' \in PcStates
  BY HelperMoves DEF PcStates
<1>3. struck' \subseteq {"enable", "release"}
  BY DEF HelperSteps, EnableIsolation, HelperEnables, EnableReturns, KeepIsolation, ReleaseIsolation,
         HelperDisables, DisableReturns, InterruptEnable, InterruptRelease, isolationVars, StageTyped
<1>4. exposed' \in BOOLEAN
  <2>1. CASE UNCHANGED exposed
    BY <2>1 DEF StageTyped
  <2>2. CASE Exposes
    BY <2>2, Zenon DEF Exposes
  <2> QED
    BY <2>1, <2>2 DEF HelperSteps, EnableIsolation, HelperEnables, EnableReturns, KeepIsolation, ReleaseIsolation,
                      HelperDisables, DisableReturns, InterruptEnable, InterruptRelease, segmentVars, fileVars
<1>5. enabled' \in BOOLEAN
  <2>1. CASE EnableReturns
    BY <2>1, Zenon DEF EnableReturns
  <2> QED
    BY <2>1 DEF HelperSteps, EnableIsolation, HelperEnables, KeepIsolation, ReleaseIsolation, HelperDisables,
                DisableReturns, InterruptEnable, InterruptRelease, isolationVars, StageTyped
<1>6. helper' \in Helpers \cup {None} /\ isolated' \in BOOLEAN
  <2>1. CASE UNCHANGED <<helper, isolated>>
    BY <2>1 DEF StageTyped
  <2>2. CASE EnableIsolation \/ ReleaseIsolation
    BY <2>2, RunsTyped DEF EnableIsolation, ReleaseIsolation, StageTyped
  <2>3. ASSUME NEW action \in {"enable", "disable"}, HelperRuns(action),
               NEW outcome \in {"ok", "failed", "cut"}, NEW blocked \in BOOLEAN, HelperLeaves(outcome, blocked)
        PROVE  helper' \in Helpers \cup {None} /\ isolated' \in BOOLEAN
    BY <2>3, RunsTyped DEF HelperRuns, HelperLeaves
  <2> QED
    BY <2>1, <2>2, <2>3
       DEF HelperSteps, HelperEnables, EnableReturns, KeepIsolation, HelperDisables, DisableReturns,
           InterruptEnable, InterruptRelease, HelperIsCut, isolationVars
<1> QED
  BY <1>1, <1>2, <1>3, <1>4, <1>5, <1>6 DEF StageTyped

LEMMA SeriesTyped ==
    ASSUME SeriesInv, TrackersInv', Series
    PROVE  TypeOK'
<1> SUFFICES StageTyped' /\ SamplesTyped'
  BY TypeParts, PTL DEF TrackersInv
<1>1. StageTyped /\ SamplesTyped
  BY TypeParts DEF SeriesInv
<1>2. UNCHANGED <<fresh, interval, quiet, quietAge, calm, total>> => SamplesTyped'
  BY <1>1 DEF SamplesTyped
<1>3. CASE HelperSteps
  BY <1>1, <1>3, HelperTyped
<1>4. CASE SkipIsolation \/ StartBrowser
  <2>1. StageTyped'
    BY <1>1, <1>4 DEF SkipIsolation, StartBrowser, Goto, isolationVars, seriesVars, segmentVars, fileVars,
                      StageTyped, PcStates
  <2> QED
    BY <1>2, <1>4, <2>1 DEF SkipIsolation, StartBrowser, segmentVars, fileVars, sampleVars
<1>5. CASE StartSegment
  <2>1. segmentIndex' \in 0..SegmentCount
    BY <1>1, <1>5, SegmentCountAssumption DEF StartSegment, At, SeriesInv, SeriesHolds, StageTyped
  <2>2. exposed' \in BOOLEAN
    BY <1>5, Zenon DEF StartSegment
  <2>3. StageTyped'
    BY <1>1, <1>5, <2>1, <2>2 DEF StartSegment, Goto, isolationVars, StageTyped, PcStates, StopReasons
  <2>4. fresh' = 0 /\ interval' = 0 /\ quiet' = FALSE /\ quietAge' = None /\ calm' = 0 /\ total' = 0
    BY <1>5 DEF StartSegment
  <2>5. 0 \in 0..FreshLimit /\ 0 \in 0..IdleSeconds
    BY FreshLimitIsNat, ThresholdAssumption
  <2>6. SamplesTyped'
    BY <2>4, <2>5 DEF SamplesTyped
  <2> QED
    BY <2>3, <2>6
<1>6. CASE StartFails
  <2>1. segmentIndex' \in 0..SegmentCount
    BY <1>1, <1>6, SegmentCountAssumption DEF StartFails, At, SeriesInv, SeriesHolds, StageTyped
  <2>2. StageTyped'
    BY <1>1, <1>6, <2>1 DEF StartFails, Goto, isolationVars, segmentVars, fileVars, StageTyped, PcStates
  <2> QED
    BY <1>2, <1>6, <2>2 DEF StartFails, segmentVars, fileVars, sampleVars
<1>7. CASE SegmentReturns
  <2>1. record.stop_reason \in StopReasons
    BY <1>1, <1>7 DEF SegmentReturns, At, SeriesInv, RecordHolds, StageTyped
  <2>2. sessions' \in Seq(StopReasons)
    BY <1>1, <1>7, <2>1 DEF SegmentReturns, StageTyped
  <2>3. StageTyped'
    BY <1>1, <1>7, <2>2 DEF SegmentReturns, Goto, isolationVars, segmentVars, fileVars, StageTyped, PcStates
  <2> QED
    BY <1>2, <1>7, <2>3 DEF SegmentReturns, segmentVars, fileVars, sampleVars
<1> QED
  BY <1>3, <1>4, <1>5, <1>6, <1>7 DEF Series, HelperSteps

LEMMA SegmentStageTyped ==
    ASSUME StageTyped, NEW nextPc \in PcStates, InSegment(nextPc),
           dumpcap' \in {dumpcap, "exited"}, stopReason' \in {stopReason} \cup StopReasons
    PROVE  StageTyped'
  BY DEF StageTyped, InSegment, Goto, isolationVars, seriesVars

LEMMA SampleTyped ==
    ASSUME SeriesInv, TrackersInv', L4Grows, Sample
    PROVE  TypeOK'
<1> SUFFICES StageTyped' /\ SamplesTyped'
  BY TypeParts, PTL DEF TrackersInv
<1>1. StageTyped /\ SamplesTyped
  BY TypeParts DEF SeriesInv
<1>2. CASE EnterTry \/ EnterDashboard \/ CheckStarted
  <2>1. /\ \E nextPc \in PcStates : InSegment(nextPc)
        /\ UNCHANGED <<dumpcap, stopReason, fresh, interval, quiet, quietAge, calm, total>>
    BY <1>2 DEF EnterTry, EnterDashboard, CheckStarted, sampleVars, PcStates
  <2> QED
    BY <1>1, <2>1, SegmentStageTyped DEF SamplesTyped
<1>3. CASE Wake
  <2>1. PICK seconds \in Intervals :
           /\ interval' = seconds
           /\ quietAge' = IF quietAge = None THEN None ELSE Saturate(quietAge + seconds, IdleSeconds)
    BY <1>3 DEF Wake
  <2>2. quietAge' \in 0..IdleSeconds \cup {None}
    <3>1. CASE quietAge = None
      BY <2>1, <3>1
    <3>2. CASE quietAge # None
      <4>1. quietAge + seconds \in Nat
        BY <1>1, <3>2, ThresholdAssumption, SamplingAssumption DEF SamplesTyped
      <4> QED
        BY <2>1, <3>2, <4>1, SaturateTyped, ThresholdAssumption
    <3> QED
      BY <3>1, <3>2
  <2>3. /\ InSegment("sizing") /\ "sizing" \in PcStates
        /\ UNCHANGED <<dumpcap, stopReason, fresh, quiet, calm, total>>
    BY <1>3 DEF Wake, PcStates
  <2> QED
    BY <1>1, <2>1, <2>2, <2>3, SegmentStageTyped DEF SamplesTyped
<1>4. CASE TakeSize
  <2>1. quiet' \in BOOLEAN
    BY <1>4 DEF TakeSize
  <2>2. calm + interval \in Nat
    BY <1>1, ThresholdAssumption, SamplingAssumption DEF SamplesTyped
  <2>3. calm' \in 0..IdleSeconds
    BY <1>4, <2>2, SaturateTyped, ThresholdAssumption DEF TakeSize
  <2>4. /\ InSegment("polling") /\ "polling" \in PcStates /\ fresh' = 0
        /\ UNCHANGED <<dumpcap, stopReason, interval, quietAge, total>>
    BY <1>4 DEF TakeSize, PcStates
  <2> QED
    BY <1>1, <2>1, <2>3, <2>4, FreshLimitIsNat, SegmentStageTyped DEF SamplesTyped
<1>5. CASE ReadL4Record \/ ReadIpRecord
  BY <1>1, <1>5 DEF ReadL4Record, ReadIpRecord, isolationVars, seriesVars, fileVars, sampleVars, StageTyped,
                    SamplesTyped
<1>6. CASE L4Polled
  <2>1. L4Stats.total \in Nat
    BY L4StatsGrow DEF SeriesInv, ReadsHold
  <2>2. /\ \E nextPc \in PcStates : InSegment(nextPc)
        /\ UNCHANGED <<dumpcap, stopReason, fresh, interval, quiet, quietAge, calm>>
        /\ total' \in {total, L4Stats.total}
    BY <1>6 DEF L4Polled, PollL4, PcStates
  <2> QED
    BY <1>1, <2>1, <2>2, SegmentStageTyped DEF SamplesTyped
<1>7. CASE IpPolled
  <2>1. /\ \E nextPc \in PcStates : InSegment(nextPc)
        /\ UNCHANGED <<dumpcap, stopReason, fresh, interval, quiet, quietAge, calm, total>>
    BY <1>7 DEF IpPolled, sampleVars, PcStates
  <2> QED
    BY <1>1, <2>1, SegmentStageTyped DEF SamplesTyped
<1>8. CASE PollRaises
  <2>1. /\ \E nextPc \in PcStates : InSegment(nextPc)
        /\ UNCHANGED <<dumpcap, stopReason, fresh, interval, quiet, quietAge, calm, total>>
    BY <1>8 DEF PollRaises, sampleVars, PcStates
  <2> QED
    BY <1>1, <2>1, SegmentStageTyped DEF SamplesTyped
<1> QED
  BY <1>2, <1>3, <1>4, <1>5, <1>6, <1>7, <1>8 DEF Sample

LEMMA LaterStepsTyped ==
    ASSUME SeriesInv, TrackersInv', Decide \/ Finish \/ Traffic \/ DumpcapExits \/ Interrupt \/ UNCHANGED vars
    PROVE  TypeOK'
<1> SUFFICES StageTyped' /\ SamplesTyped'
  BY TypeParts, PTL DEF TrackersInv
<1>1. StageTyped /\ SamplesTyped
  BY TypeParts DEF SeriesInv
<1>2. CASE Decide
  <2>1. QuietAgeNow \in 0..IdleSeconds \cup {None}
    BY QuietAgeTyped DEF SeriesInv
  <2>2. /\ \E nextPc \in PcStates : InSegment(nextPc)
        /\ UNCHANGED <<dumpcap, fresh, interval, quiet, calm, total>>
        /\ stopReason' \in {stopReason, TrafficIdle} /\ quietAge' \in {quietAge, QuietAgeNow}
    BY <1>2 DEF Decide, DumpcapDied, BelowTarget, KeepDraining, StopIdle, sampleVars, PcStates
  <2> QED
    BY <1>1, <2>1, <2>2, SegmentStageTyped DEF SamplesTyped, StopReasons
<1>3. CASE Finish
  <2>1. /\ \E nextPc \in PcStates : InSegment(nextPc)
        /\ UNCHANGED <<fresh, interval, quiet, quietAge, calm, total, stopReason>>
        /\ dumpcap' \in {dumpcap, "exited"}
    BY <1>3 DEF Finish, LeaveDashboard, StopDumpcap, StopFails, WriteRecord, AfterStop, sampleVars, PcStates
  <2> QED
    BY <1>1, <2>1, SegmentStageTyped DEF SamplesTyped
<1>4. CASE Traffic
  <2>1. PICK bytes \in PacketSizes : fresh' = Saturate(fresh + bytes, FreshLimit)
    BY <1>4 DEF Traffic
  <2>2. fresh + bytes \in Nat
    BY <1>1, <2>1, FreshLimitIsNat, SamplingAssumption DEF SamplesTyped
  <2>3. fresh' \in 0..FreshLimit
    BY <2>1, <2>2, SaturateTyped, FreshLimitIsNat
  <2> QED
    BY <1>1, <1>4, <2>3 DEF Traffic, isolationVars, seriesVars, sampleVars, StageTyped, SamplesTyped
<1>5. CASE DumpcapExits
  BY <1>1, <1>5 DEF DumpcapExits, isolationVars, seriesVars, fileVars, sampleVars, StageTyped, SamplesTyped
<1>6. CASE InterruptLoop \/ InterruptHandler \/ InterruptSegment
  <2>1. /\ \E nextPc \in PcStates : InSegment(nextPc)
        /\ UNCHANGED <<dumpcap, fresh, interval, quiet, quietAge, calm, total>>
        /\ stopReason' \in {stopReason, "interrupted"}
    BY <1>6 DEF InterruptLoop, InterruptHandler, InterruptSegment, sampleVars, PcStates
  <2> QED
    BY <1>1, <2>1, SegmentStageTyped DEF SamplesTyped, StopReasons
<1>7. CASE InterruptSeries
  BY <1>1, <1>7 DEF InterruptSeries, Goto, isolationVars, seriesVars, segmentVars, fileVars, sampleVars,
                    StageTyped, SamplesTyped, PcStates
<1>8. CASE HelperSteps
  BY <1>1, <1>8, HelperTyped
<1>9. CASE UNCHANGED vars
  BY <1>1, <1>9 DEF vars, isolationVars, seriesVars, segmentVars, fileVars, sampleVars, StageTyped, SamplesTyped
<1> QED
  BY <1>2, <1>3, <1>4, <1>5, <1>6, <1>7, <1>8, <1>9 DEF Interrupt, HelperSteps

LEMMA TypeStep ==
    ASSUME SeriesInv, [Next]_vars
    PROVE  TypeOK'
<1>1. ReadsHold' /\ (StartSegment \/ L4Grows)
  BY ReadsHoldStep DEF SeriesInv
<1>2. TrackersInv'
  BY <1>1 DEF ReadsHold
<1>3. CASE Sample
  <2>1. CASE L4Grows
    BY <1>2, <1>3, <2>1, SampleTyped
  <2>2. CASE StartSegment
    BY <1>2, <2>2, SeriesTyped DEF Series
  <2> QED
    BY <1>1, <2>1, <2>2
<1>4. CASE Series
  BY <1>2, <1>4, SeriesTyped
<1>5. CASE Decide \/ Finish \/ Traffic \/ DumpcapExits \/ Interrupt \/ UNCHANGED vars
  BY <1>2, <1>5, LaterStepsTyped
<1> QED
  BY <1>3, <1>4, <1>5 DEF Next

-----------------------------------------------------------------------------
(* The isolation *)

LEMMA EnableReleases ==
    ASSUME ReleaseHolds, StageTyped,
           EnableIsolation \/ HelperEnables \/ EnableReturns \/ InterruptEnable
    PROVE  ReleaseHolds'
<1>1. UNCHANGED <<isolate, dumpcap, record, exposed>> /\ ~exposed /\ pc \in {"begin", "enabling"}
  BY DEF EnableIsolation, HelperEnables, EnableReturns, InterruptEnable, At, segmentVars, fileVars, ReleaseHolds
<1>2. CASE EnableIsolation
  <2>1. pc' = "enabling" /\ isolate /\ ~enabled' /\ helper' = [action |-> "enable", outcome |-> "running"]
    BY <1>2 DEF EnableIsolation, At, Goto, Run, ReleaseHolds
  <2> QED
    BY <1>1, <2>1 DEF ReleaseHolds, Ran, IsolationReleased
<1>3. CASE HelperEnables
  <2>1. PICK outcome \in {"ok", "failed"} :
           /\ helper' = [helper EXCEPT !.outcome = outcome]
           /\ outcome = "ok" => isolated' = TRUE
    BY <1>3 DEF HelperEnables, HelperLeaves
  <2>2. helper' = [action |-> "enable", outcome |-> outcome]
    BY <1>3, <2>1, RunsTyped DEF HelperEnables, HelperRuns
  <2>3. pc' = "enabling" /\ isolate /\ ~enabled'
    BY <1>3 DEF HelperEnables, At, ReleaseHolds
  <2> QED
    BY <1>1, <2>1, <2>2, <2>3 DEF ReleaseHolds, Ran, IsolationReleased
<1>4. CASE EnableReturns
  <2>1. /\ UNCHANGED <<helper, isolated, struck>> /\ isolate /\ helper.outcome \in {"ok", "failed"}
        /\ enabled' = (helper.outcome = "ok")
        /\ helper.outcome = "ok" => pc' = "browser"
        /\ helper.outcome = "failed" => pc' = "unwinding"
    BY <1>4 DEF EnableReturns, At, Goto, ReleaseHolds
  <2>2. helper.outcome = "ok" => isolated
    BY <1>4 DEF EnableReturns, At, ReleaseHolds, Ran
  <2>3. CASE helper.outcome = "ok"
    BY <1>1, <2>1, <2>2, <2>3 DEF ReleaseHolds, IsolationReleased
  <2>4. CASE helper.outcome = "failed"
    BY <1>1, <2>1, <2>4 DEF ReleaseHolds, IsolationReleased
  <2> QED
    BY <2>1, <2>3, <2>4
<1>5. CASE InterruptEnable
  <2>1. pc' = "unwinding" /\ struck' # {}
    BY <1>5 DEF InterruptEnable, Goto
  <2> QED
    BY <1>1, <2>1 DEF ReleaseHolds, IsolationReleased
<1> QED
  BY <1>2, <1>3, <1>4, <1>5

LEMMA DisableReleases ==
    ASSUME ReleaseHolds, StageTyped,
           KeepIsolation \/ ReleaseIsolation \/ HelperDisables \/ DisableReturns \/ InterruptRelease
    PROVE  ReleaseHolds'
<1>1. /\ UNCHANGED <<isolate, dumpcap, record>> /\ pc \in {"unwinding", "releasing"}
      /\ pc' \in {"releasing", "over"}
  BY HelperMoves DEF HelperSteps, KeepIsolation, ReleaseIsolation, HelperDisables, DisableReturns,
                     InterruptRelease, At
<1>2. dumpcap' = "running" \/ exposed' => record' = None
  <2>1. CASE UNCHANGED exposed
    BY <1>1, <2>1 DEF ReleaseHolds
  <2>2. CASE Exposes
    <3>1. exposed' => exposed \/ dumpcap = "running"
      BY <2>2 DEF Exposes
    <3> QED
      BY <1>1, <3>1 DEF ReleaseHolds
  <2> QED
    BY <2>1, <2>2 DEF KeepIsolation, ReleaseIsolation, HelperDisables, DisableReturns, InterruptRelease,
                      segmentVars, fileVars
<1>3. CASE KeepIsolation
  BY <1>1, <1>2, <1>3 DEF KeepIsolation, MustRelease, At, Goto, isolationVars, ReleaseHolds, IsolationReleased
<1>4. CASE ReleaseIsolation
  <2>1. pc' = "releasing" /\ helper' = [action |-> "disable", outcome |-> "running"]
    BY <1>4 DEF ReleaseIsolation, Goto, Run
  <2> QED
    BY <1>1, <1>2, <2>1 DEF ReleaseHolds, Ran, IsolationReleased
<1>5. CASE HelperDisables
  <2>1. PICK outcome \in {"ok", "failed"} :
           /\ helper' = [helper EXCEPT !.outcome = outcome]
           /\ outcome = "ok" => isolated' = FALSE
    BY <1>5 DEF HelperDisables, HelperLeaves
  <2>2. helper' = [action |-> "disable", outcome |-> outcome]
    BY <1>5, <2>1, RunsTyped DEF HelperDisables, HelperRuns
  <2>3. pc' = "releasing"
    BY <1>5 DEF HelperDisables, At
  <2> QED
    BY <1>1, <1>2, <2>1, <2>2, <2>3 DEF ReleaseHolds, Ran, IsolationReleased
<1>6. CASE DisableReturns
  <2>1. /\ UNCHANGED <<helper, isolated, struck>> /\ pc = "releasing" /\ pc' = "over"
        /\ helper.outcome \in {"ok", "failed"}
    BY <1>6 DEF DisableReturns, At, Goto, isolationVars
  <2>2. helper.outcome = "failed" \/ ~isolated
    BY <2>1 DEF ReleaseHolds, Ran
  <2> QED
    BY <1>1, <1>2, <2>1, <2>2 DEF ReleaseHolds, IsolationReleased
<1>7. CASE InterruptRelease
  <2>1. pc' = "over" /\ struck' # {}
    BY <1>7 DEF InterruptRelease, Goto
  <2> QED
    BY <1>1, <1>2, <2>1 DEF ReleaseHolds, IsolationReleased
<1> QED
  BY <1>3, <1>4, <1>5, <1>6, <1>7

LEMMA ReleaseHoldsStep ==
    ASSUME SeriesInv, [Next]_vars
    PROVE  ReleaseHolds'
<1> DEFINE Outside == {"begin", "enabling", "unwinding", "releasing", "over"}
<1>1. ReleaseHolds /\ StageTyped
  BY TypeParts DEF SeriesInv
<1>2. RecordHolds
  BY DEF SeriesInv
<1>3. CASE HelperSteps
  BY <1>1, <1>3, EnableReleases, DisableReleases DEF HelperSteps
<1>4. CASE SkipIsolation
  BY <1>1, <1>4 DEF SkipIsolation, At, Goto, isolationVars, segmentVars, fileVars, ReleaseHolds, IsolationReleased
<1>5. CASE StartSegment
  <2>1. /\ UNCHANGED <<isolate, helper, isolated, enabled, struck>> /\ record' = None
        /\ pc = "between" /\ pc' = "launched"
    BY <1>5 DEF StartSegment, isolationVars, At, Goto
  <2>2. exposed' = (isolate /\ ~isolated)
    BY <1>5, Zenon DEF StartSegment
  <2>3. ~exposed'
    BY <1>1, <2>1, <2>2 DEF ReleaseHolds
  <2> QED
    BY <1>1, <2>1, <2>3 DEF ReleaseHolds, IsolationReleased
<1>6. ASSUME UNCHANGED <<isolate, helper, isolated, enabled, struck, exposed>>,
             record' = record \/ (dumpcap' # "running" /\ ~exposed),
             dumpcap' = dumpcap \/ dumpcap' # "running",
             \/ pc' = pc
             \/ pc \notin Outside /\ pc' \notin Outside \ {"unwinding"}
             \/ pc = "begin" /\ pc' = "unwinding"
      PROVE  ReleaseHolds'
  BY <1>1, <1>6 DEF ReleaseHolds, Ran, IsolationReleased
<1>8. CASE StartBrowser \/ StartFails \/ SegmentReturns
  BY <1>6, <1>8 DEF StartBrowser, StartFails, SegmentReturns, At, Goto, isolationVars, segmentVars, fileVars
<1>9. CASE InterruptSeries \/ UNCHANGED vars
  BY <1>6, <1>9 DEF InterruptSeries, Goto, vars, isolationVars, segmentVars, fileVars
<1>10. CASE Traffic \/ DumpcapExits
  BY <1>6, <1>10 DEF Traffic, DumpcapExits, isolationVars, fileVars
<1>11. CASE ReadL4Record \/ ReadIpRecord
  BY <1>6, <1>11 DEF ReadL4Record, ReadIpRecord, isolationVars, fileVars
<1>12. CASE EnterTry \/ EnterDashboard \/ CheckStarted \/ Wake \/ TakeSize
  BY <1>6, <1>12 DEF EnterTry, EnterDashboard, CheckStarted, Wake, TakeSize, InSegment, At, Goto, isolationVars
<1>13. CASE L4Polled \/ IpPolled \/ PollRaises
  BY <1>6, <1>13 DEF L4Polled, PollL4, PollIp, IpPolled, PollRaises, InSegment, Goto, isolationVars
<1>14. CASE Decide
  BY <1>6, <1>14 DEF Decide, DumpcapDied, BelowTarget, KeepDraining, StopIdle, InSegment, At, Goto, isolationVars
<1>15. CASE LeaveDashboard \/ StopDumpcap \/ StopFails
  BY <1>6, <1>15 DEF LeaveDashboard, StopDumpcap, StopFails, Stopping, AfterStop, InSegment, At, Goto, isolationVars
<1>16. CASE WriteRecord
  <2>1. dumpcap' = dumpcap /\ dumpcap # "running" /\ ~exposed
    BY <1>1, <1>2, <1>16 DEF WriteRecord, At, RecordHolds, ReleaseHolds
  <2> QED
    BY <1>6, <1>16, <2>1 DEF WriteRecord, InSegment, At, Goto, isolationVars
<1>17. CASE InterruptLoop \/ InterruptHandler \/ InterruptSegment
  BY <1>6, <1>17 DEF InterruptLoop, InLoop, InterruptHandler, InterruptSegment, InSegment, Goto, isolationVars
<1> QED
  BY <1>3, <1>4, <1>5, <1>8, <1>9, <1>10, <1>11, <1>12, <1>13, <1>14, <1>15, <1>16, <1>17
  DEF Next, Series, Sample, Finish, Interrupt, HelperSteps

-----------------------------------------------------------------------------
(* The record *)

LEMMA RecordHoldsStep ==
    ASSUME SeriesInv, [Next]_vars
    PROVE  RecordHolds'
<1> DEFINE AtRecord == pc \in {"recording", "recording ip", "returned"}
<1>1. RecordHolds
  BY DEF SeriesInv
<1>2. ASSUME UNCHANGED <<pc, records, trackerVars, dumpcap, stopReason, record>>
      PROVE  RecordHolds'
  BY <1>1, <1>2 DEF RecordHolds, L4Stats, IpStats, trackerVars, l4Vars, ipVars
<1>3. ASSUME ~AtRecord'
      PROVE  RecordHolds'
  BY <1>3 DEF RecordHolds
<1>4. CASE UNCHANGED vars
  BY <1>2, <1>4 DEF vars, segmentVars, fileVars
<1>5. CASE HelperSteps \/ SkipIsolation \/ StartBrowser \/ StartSegment \/ StartFails \/ SegmentReturns
  BY <1>3, <1>5, HelperMoves DEF SkipIsolation, StartBrowser, StartSegment, StartFails, SegmentReturns, Goto
<1>6. CASE EnterTry \/ EnterDashboard \/ CheckStarted \/ Wake \/ TakeSize \/ IpPolled \/ PollRaises \/ Decide
  BY <1>3, <1>6 DEF EnterTry, EnterDashboard, CheckStarted, Wake, TakeSize, IpPolled, PollRaises, Decide, DumpcapDied,
                    BelowTarget, KeepDraining, StopIdle, InSegment, Goto
<1>7. CASE InterruptLoop \/ InterruptHandler \/ InterruptSegment \/ InterruptSeries
  BY <1>3, <1>7 DEF InterruptLoop, InterruptHandler, InterruptSegment, InterruptSeries, InSegment, Goto
<1>8. CASE Traffic \/ DumpcapExits
  BY <1>1, <1>3, <1>8 DEF Traffic, DumpcapExits, RecordHolds
<1>9. CASE ReadL4Record
  BY <1>1, <1>3, <1>9 DEF ReadL4Record, PollL4, RecordHolds
<1>10. CASE ReadIpRecord
  BY <1>1, <1>3, <1>10 DEF ReadIpRecord, PollIp, l4Vars, fileVars, RecordHolds
<1>11. CASE L4Polled
  <2>1. UNCHANGED <<records, dumpcap, trackerVars>> /\ l4Offset = Len(records)
        /\ pc' \in {"polling ip", "handling ip", "recording ip"} /\ (pc' = "recording ip" => pc = "recording")
    BY <1>11 DEF L4Polled, PollL4, InSegment, Goto
  <2> QED
    BY <1>1, <2>1 DEF RecordHolds, trackerVars, l4Vars
<1>12. CASE LeaveDashboard \/ StopFails
  BY <1>3, <1>12 DEF LeaveDashboard, StopFails, InSegment, Goto
<1>13. CASE StopDumpcap
  BY <1>13 DEF StopDumpcap, AfterStop, InSegment, Goto, RecordHolds
<1>14. CASE WriteRecord
  <2>1. pc = "recording ip" /\ pc' = "returned" /\ ipOffset = Len(records)
        /\ UNCHANGED <<records, dumpcap, trackerVars, stopReason>>
        /\ record' = [flows |-> L4Stats, ip |-> IpStats, target_met |-> L4Stats.total >= TargetFlows,
                      stop_reason |-> stopReason]
    BY <1>14 DEF WriteRecord, At, InSegment, Goto
  <2>2. L4Stats' = L4Stats /\ IpStats' = IpStats
    BY <2>1 DEF L4Stats, IpStats, trackerVars, l4Vars, ipVars
  <2> QED
    BY <1>1, <2>1, <2>2 DEF RecordHolds, trackerVars, l4Vars, ipVars
<1> QED
  BY <1>4, <1>5, <1>6, <1>7, <1>8, <1>9, <1>10, <1>11, <1>12, <1>13, <1>14
     DEF Next, Series, Sample, Finish, Interrupt, HelperSteps

LEMMA SeriesHoldsStep ==
    ASSUME SeriesInv, [Next]_vars
    PROVE  SeriesHolds'
<1>1. SeriesHolds
  BY DEF SeriesInv
<1>2. CASE HelperSteps \/ SkipIsolation \/ StartBrowser
  BY <1>1, <1>2, HelperMoves, SegmentCountAssumption DEF SkipIsolation, StartBrowser, At, Goto, seriesVars,
                                                         SeriesHolds
<1>3. CASE StartSegment \/ StartFails
  BY <1>3 DEF StartSegment, StartFails, Goto, SeriesHolds
<1>4. CASE SegmentReturns
  BY <1>4 DEF SegmentReturns, Goto, SeriesHolds
<1>5. CASE Sample \/ Decide \/ Finish \/ Traffic \/ DumpcapExits \/ UNCHANGED vars
  <2>1. \/ UNCHANGED <<pc, segmentIndex>>
        \/ pc' \notin {"begin", "enabling", "browser", "between"}
    BY <1>5 DEF Sample, EnterTry, EnterDashboard, CheckStarted, Wake, TakeSize, ReadL4Record, L4Polled, PollL4,
                ReadIpRecord, IpPolled, PollRaises, Decide, DumpcapDied, BelowTarget, KeepDraining, StopIdle, Finish,
                LeaveDashboard, StopDumpcap, StopFails, AfterStop, WriteRecord, Traffic, DumpcapExits, InSegment,
                Goto, vars, seriesVars
  <2> QED
    BY <1>1, <2>1 DEF SeriesHolds
<1>6. CASE InterruptLoop \/ InterruptHandler \/ InterruptSegment \/ InterruptSeries
  BY <1>6 DEF InterruptLoop, InterruptHandler, InterruptSegment, InterruptSeries, InSegment, Goto, SeriesHolds
<1> QED
  BY <1>2, <1>3, <1>4, <1>5, <1>6 DEF Next, Series, Interrupt, HelperSteps

-----------------------------------------------------------------------------
(* The target and the quiet timer *)

LEMMA TargetHoldsStep ==
    ASSUME SeriesInv, [Next]_vars
    PROVE  TargetHolds'
<1>1. TargetHolds /\ SamplesTyped /\ TrackersInv /\ TargetFlows \in Nat
  BY TypeParts, ThresholdAssumption DEF SeriesInv, ReadsHold
<1>2. TrackersInv' /\ (StartSegment \/ L4Grows)
  BY ReadsHoldStep DEF SeriesInv, ReadsHold
<1>3. CASE StartSegment
  <2>1. total' = 0 /\ quietAge' = None /\ stopReason' = "interrupted"
    BY <1>3 DEF StartSegment
  <2>2. L4Stats'.total = 0
    <3>1. synStreams' = {} /\ midstream' = {} /\ udpBases' = {}
      BY <1>3 DEF StartSegment, ResetTrackers
    <3>2. L4Stats'.total = Cardinality({}) + Cardinality({}) + Cardinality({})
      BY <3>1 DEF L4Stats, ConversationStats
    <3> QED
      BY <3>2, FS_EmptySet
  <2> QED
    BY <2>1, <2>2 DEF TargetHolds, TrafficIdle
<1>4. CASE L4Grows
  <2>1. L4Stats.total \in Nat /\ L4Stats'.total \in Nat /\ L4Stats.total <= L4Stats'.total
    BY <1>1, <1>2, <1>4, L4StatsGrow
  <2>2. ASSUME total' = total,
               quietAge' # None \/ stopReason' = TrafficIdle =>
                  quietAge # None \/ stopReason = TrafficIdle \/ TargetReached
        PROVE  TargetHolds'
    BY <1>1, <2>1, <2>2 DEF TargetHolds, TargetReached, SamplesTyped
  <2>3. CASE SkipIsolation \/ StartBrowser \/ StartFails \/ SegmentReturns
    BY <2>2, <2>3 DEF SkipIsolation, StartBrowser, StartFails, SegmentReturns, segmentVars, sampleVars
  <2>4. CASE EnterTry \/ EnterDashboard \/ CheckStarted \/ TakeSize \/ IpPolled \/ PollRaises
    BY <2>2, <2>4 DEF EnterTry, EnterDashboard, CheckStarted, TakeSize, IpPolled, PollRaises, sampleVars
  <2>5. CASE Wake
    BY <2>2, <2>5 DEF Wake
  <2>6. CASE ReadL4Record \/ ReadIpRecord \/ Traffic \/ DumpcapExits \/ UNCHANGED vars
    BY <2>2, <2>6 DEF ReadL4Record, ReadIpRecord, Traffic, DumpcapExits, sampleVars, vars, segmentVars
  <2>7. CASE L4Polled
    <3>1. total' \in {total, L4Stats.total} /\ UNCHANGED <<quietAge, stopReason>>
      BY <2>7 DEF L4Polled
    <3>2. L4Stats' = L4Stats
      BY <2>7 DEF L4Polled, trackerVars, l4Vars, L4Stats
    <3> QED
      BY <1>1, <2>1, <3>1, <3>2 DEF TargetHolds, SamplesTyped
  <2>8. CASE Decide
    BY <2>2, <2>8 DEF Decide, DumpcapDied, BelowTarget, KeepDraining, StopIdle, sampleVars
  <2>9. CASE Finish
    BY <2>2, <2>9 DEF Finish, LeaveDashboard, StopDumpcap, StopFails, WriteRecord, sampleVars
  <2>10. CASE InterruptLoop \/ InterruptHandler \/ InterruptSegment \/ InterruptSeries
    BY <2>2, <2>10 DEF InterruptLoop, InterruptHandler, InterruptSegment, InterruptSeries, segmentVars, sampleVars,
                       TrafficIdle
  <2>11. CASE HelperSteps
    BY <2>2, <2>11, HelperMoves DEF sampleVars
  <2> QED
    BY <1>3, <2>3, <2>4, <2>5, <2>6, <2>7, <2>8, <2>9, <2>10, <2>11
       DEF Next, Series, Sample, Interrupt, HelperSteps
<1> QED
  BY <1>2, <1>3, <1>4

LEMMA TimerHoldsStep ==
    ASSUME SeriesInv, [Next]_vars
    PROVE  TimerHolds'
<1>1. TimerHolds /\ SamplesTyped /\ IdleSeconds \in Nat /\ Intervals \subseteq Nat
  BY TypeParts, ThresholdAssumption, SamplingAssumption DEF SeriesInv
<1>2. ASSUME UNCHANGED <<interval, quiet, quietAge, calm>>,
             stopReason' = stopReason \/ stopReason' = "interrupted",
             pc' = pc \/ pc' \notin LoopSteps
      PROVE  TimerHolds'
  BY <1>1, <1>2 DEF TimerHolds, LoopSteps, TrafficIdle
<1>3. CASE StartSegment
  BY <1>3 DEF StartSegment, Goto, TimerHolds, LoopSteps, TrafficIdle
<1>4. CASE SkipIsolation \/ StartBrowser \/ StartFails \/ SegmentReturns
  BY <1>2, <1>4 DEF SkipIsolation, StartBrowser, StartFails, SegmentReturns, Goto,
                    segmentVars, sampleVars, LoopSteps
<1>5. CASE EnterTry \/ EnterDashboard \/ CheckStarted
  BY <1>1, <1>5 DEF EnterTry, EnterDashboard, CheckStarted, InSegment, At, Goto, sampleVars, TimerHolds, LoopSteps
<1>6. CASE Wake
  <2>1. PICK seconds \in Intervals :
           /\ interval' = seconds
           /\ quietAge' = IF quietAge = None THEN None ELSE Saturate(quietAge + seconds, IdleSeconds)
    BY <1>6 DEF Wake
  <2>2. pc = "asleep" /\ pc' = "sizing" /\ UNCHANGED <<quiet, calm, stopReason>>
    BY <1>6 DEF Wake, InSegment, At, Goto
  <2>3. seconds \in Nat /\ calm \in Nat
    BY <1>1, <2>1 DEF SamplesTyped
  <2>4. quietAge' # None => quietAge # None /\ quietAge \in Nat /\ calm >= quietAge
    BY <1>1, <2>1, <2>2 DEF TimerHolds, SamplesTyped
  <2>5. quietAge' # None => Saturate(calm + seconds, IdleSeconds) >= quietAge'
    BY <1>1, <2>1, <2>3, <2>4 DEF Saturate
  <2> QED
    BY <1>1, <2>1, <2>2, <2>5 DEF TimerHolds, LoopSteps, TrafficIdle
<1>7. CASE TakeSize
  <2>1. /\ pc = "sizing" /\ pc' = "polling" /\ UNCHANGED <<interval, quietAge, stopReason>>
        /\ calm' = IF quiet' THEN Saturate(calm + interval, IdleSeconds) ELSE 0
    BY <1>7 DEF TakeSize, InSegment, At, Goto
  <2> QED
    BY <1>1, <2>1 DEF TimerHolds, LoopSteps, TrafficIdle
<1>8. CASE ReadL4Record \/ ReadIpRecord \/ Traffic \/ DumpcapExits \/ UNCHANGED vars
  BY <1>2, <1>8 DEF ReadL4Record, ReadIpRecord, Traffic, DumpcapExits, sampleVars, vars, segmentVars
<1>9. CASE L4Polled \/ IpPolled
  <2>1. /\ UNCHANGED <<interval, quiet, quietAge, calm, stopReason>>
        /\ pc' \notin LoopSteps \/ (pc \in {"polling", "polling ip"} /\ pc' \in {"polling ip", "deciding"})
    BY <1>9 DEF L4Polled, PollL4, IpPolled, InSegment, Goto, sampleVars, LoopSteps
  <2> QED
    BY <1>1, <2>1 DEF TimerHolds, LoopSteps, TrafficIdle
<1>10. CASE DumpcapDied \/ PollRaises
  BY <1>2, <1>10 DEF DumpcapDied, PollRaises, InSegment, Goto, sampleVars, LoopSteps
<1>11. CASE BelowTarget
  <2>1. quietAge = None
    BY <1>1, <1>11 DEF BelowTarget, SeriesInv, TargetHolds, TargetReached
  <2> QED
    BY <1>1, <1>11, <2>1 DEF BelowTarget, InSegment, At, Goto, sampleVars, TimerHolds, LoopSteps, TrafficIdle
<1>12. QuietAgeNow # None /\ pc = "deciding" => QuietAgeNow \in Nat /\ calm >= QuietAgeNow
  BY <1>1 DEF QuietAgeNow, TimerHolds, SamplesTyped
<1>13. CASE KeepDraining
  <2>1. pc = "deciding" /\ pc' = "asleep" /\ quietAge' = QuietAgeNow /\ UNCHANGED <<calm, stopReason>>
    BY <1>13 DEF KeepDraining, InSegment, At, Goto
  <2> QED
    BY <1>1, <1>12, <2>1 DEF TimerHolds, LoopSteps, TrafficIdle
<1>14. CASE StopIdle
  <2>1. pc = "deciding" /\ pc' = "leaving" /\ IdleLongEnough /\ UNCHANGED calm
    BY <1>14 DEF StopIdle, InSegment, At, Goto
  <2>2. calm >= IdleSeconds
    BY <1>1, <1>12, <2>1 DEF IdleLongEnough, SamplesTyped
  <2> QED
    BY <2>1, <2>2 DEF TimerHolds, LoopSteps
<1>15. CASE Finish
  BY <1>2, <1>15 DEF Finish, LeaveDashboard, StopDumpcap, StopFails, WriteRecord, AfterStop, InSegment, Goto,
                     sampleVars, LoopSteps
<1>16. CASE InterruptLoop \/ InterruptHandler \/ InterruptSegment \/ InterruptSeries
  BY <1>2, <1>16 DEF InterruptLoop, InterruptHandler, InterruptSegment, InterruptSeries, InSegment, Goto,
                     segmentVars, sampleVars, LoopSteps
<1>17. CASE HelperSteps
  BY <1>2, <1>17, HelperMoves DEF sampleVars, LoopSteps
<1> QED
  BY <1>3, <1>4, <1>5, <1>6, <1>7, <1>8, <1>9, <1>10, <1>11, <1>13, <1>14, <1>15, <1>16, <1>17
  DEF Next, Series, Sample, Decide, Interrupt, HelperSteps

-----------------------------------------------------------------------------
(* The theorems *)

LEMMA SeriesInvInitially == Init => SeriesInv
<1> SUFFICES ASSUME Init
             PROVE  SeriesInv
  OBVIOUS
<1>1. TrackersInv /\ PacketsRead({0})
  BY NewTrackersRead DEF Init
<1>2. Twice = {0, 1}
  BY DEF Init, Twice, Uncut, LoopSteps, TrafficIdle
<1>3. ReadsHold
  BY <1>1, <1>2 DEF ReadsHold, PacketsRead
<1>4. StageTyped
  <2>1. pc \in PcStates /\ stopReason \in StopReasons /\ dumpcap = "none" /\ exposed = FALSE
    BY DEF Init, PcStates, StopReasons
  <2>2. isolate \in BOOLEAN /\ isolated = FALSE /\ enabled = FALSE /\ struck = {} /\ helper = None
    BY DEF Init
  <2>3. sessions \in Seq(StopReasons)
    BY DEF Init
  <2>4. segmentIndex \in 0..SegmentCount
    BY SegmentCountAssumption DEF Init
  <2> QED
    BY <2>1, <2>2, <2>3, <2>4 DEF StageTyped
<1>5. SamplesTyped
  <2>1. fresh = 0 /\ interval = 0 /\ quiet = FALSE /\ quietAge = None /\ calm = 0 /\ total = 0
    BY DEF Init
  <2>2. 0 \in 0..FreshLimit /\ 0 \in 0..IdleSeconds
    BY FreshLimitIsNat, ThresholdAssumption
  <2> QED
    BY <2>1, <2>2 DEF SamplesTyped
<1>6. TypeOK
  BY <1>1, <1>4, <1>5, TypeParts DEF TrackersInv
<1>7. ReleaseHolds
  BY DEF Init, ReleaseHolds, IsolationReleased
<1>8. TargetHolds
  <2>1. L4Stats.total = Cardinality({}) + Cardinality({}) + Cardinality({})
    BY DEF Init, NewTrackers, L4Stats, ConversationStats
  <2>2. L4Stats.total = 0
    BY <2>1, FS_EmptySet
  <2> QED
    BY <2>2 DEF Init, TargetHolds, TrafficIdle
<1>9. RecordHolds /\ SeriesHolds /\ TimerHolds
  BY DEF Init, RecordHolds, SeriesHolds, TimerHolds, LoopSteps, TrafficIdle
<1> QED
  BY <1>3, <1>6, <1>7, <1>8, <1>9 DEF SeriesInv

\* The inductive invariant of a Windows capture series: what each tracker has
\* read, the isolation, the record, the target and the quiet timer in every
\* state that the loop, dumpcap and Ctrl+C can reach.
THEOREM SeriesInvariant == Spec => []SeriesInv
<1>1. SeriesInv /\ [Next]_vars => SeriesInv'
  <2> SUFFICES ASSUME SeriesInv, [Next]_vars
               PROVE  SeriesInv'
    OBVIOUS
  <2>1. TypeOK' /\ ReadsHold'
    BY TypeStep, ReadsHoldStep DEF SeriesInv
  <2>2. ReleaseHolds' /\ RecordHolds' /\ SeriesHolds' /\ TargetHolds' /\ TimerHolds'
    BY ReleaseHoldsStep, RecordHoldsStep, SeriesHoldsStep, TargetHoldsStep, TimerHoldsStep
  <2> QED
    BY <2>1, <2>2 DEF SeriesInv
<1> QED
  BY SeriesInvInitially, <1>1, PTL DEF Spec

\* Type correctness: segment_index never passes the number of profiles, and the
\* stop reasons of the sessions are those of segments that returned.
THEOREM SeriesTypes == Spec => []TypeOK
<1>1. SeriesInv => TypeOK
  BY DEF SeriesInv
<1> QED
  BY SeriesInvariant, <1>1, PTL

LEMMA RecordIsTrue == SeriesInv => RecordDescribesSealedFile
<1> SUFFICES ASSUME SeriesInv, pc = "returned"
             PROVE  /\ dumpcap = "exited"
                    /\ record.flows = TrueL4Stats
                    /\ record.ip.udp443 = Cardinality(TrueUdp \cap Udp443)
                    /\ \A k \in Counters :
                          record.ip.packets[k] - TruePackets[k] \in
                              IF record.stop_reason = "interrupted" THEN {0, 1} ELSE {0}
  BY DEF RecordDescribesSealedFile
<1>1. /\ dumpcap = "exited" /\ l4Offset = Len(records) /\ ipOffset = Len(records)
      /\ record = [flows |-> L4Stats, ip |-> IpStats, target_met |-> L4Stats.total >= TargetFlows,
                   stop_reason |-> stopReason]
  BY DEF SeriesInv, RecordHolds
<1>2. TrackersInv /\ PacketsRead(Twice) /\ TrackersTypeOK /\ Len(records) \in Nat
  BY DEF SeriesInv, ReadsHold, TrackersInv, TrackersTypeOK
<1> DEFINE n == Len(records)
<1>3. \A m \in {n, n + 1} :
         /\ StreamsTo(m) = TrueStreams /\ MidstreamTo(m) = TrueMidstream /\ UdpTo(m) = TrueUdp
         /\ \A k \in Counters : Cardinality(Marked(m, k)) = TruePackets[k]
  <2>1. n \in Nat /\ n >= Len(records) /\ n + 1 \in Nat /\ n + 1 >= Len(records)
    BY <1>2
  <2> QED
    BY <1>2, <2>1, ReadToTheEnd
<1>4. synStreams = TrueStreams /\ midstream = TrueMidstream /\ udpBases = TrueUdp
  BY <1>1, <1>2, <1>3 DEF TrackersInv, L4Read, Between
<1>5. udp443Bases = TrueUdp \cap Udp443
  BY <1>1, <1>2, <1>3 DEF TrackersInv, Datagrams443Read, Between
<1>6. record.flows = TrueL4Stats
  BY <1>1, <1>4 DEF L4Stats, TrueL4Stats
<1>7. record.ip.udp443 = Cardinality(TrueUdp \cap Udp443)
  BY <1>1, <1>5 DEF IpStats
<1>8. ASSUME NEW k \in Counters
      PROVE  record.ip.packets[k] - TruePackets[k] \in
                 IF record.stop_reason = "interrupted" THEN {0, 1} ELSE {0}
  <2>1. record.ip.packets[k] = packets[k] /\ record.stop_reason = stopReason
    BY <1>1 DEF IpStats
  <2>2. PICK extra \in Twice : packets[k] = Cardinality(Marked(ipOffset, k)) + extra
    BY <1>2 DEF PacketsRead
  <2>3. Cardinality(Marked(ipOffset, k)) \in Nat
    BY <1>2, MarksAreFinite
  <2>4. Cardinality(Marked(ipOffset, k)) = TruePackets[k]
    BY <1>1, <1>3
  <2>5. Twice \subseteq IF stopReason = "interrupted" THEN {0, 1} ELSE {0}
    <3>1. stopReason \in {"interrupted", TrafficIdle}
      BY DEF SeriesInv, TypeOK, StopReasons
    <3> QED
      BY <3>1 DEF Twice, Uncut
  <2> QED
    BY <2>1, <2>2, <2>3, <2>4, <2>5
<1> QED
  BY <1>1, <1>6, <1>7, <1>8

\* capture.json counts the conversations of the sealed file as one pass over it
\* would, however Ctrl+C cut the polls, and its packet counters are at most one
\* too high, and exact after a segment that stopped by itself.
THEOREM RecordsDescribeFiles == Spec => []RecordDescribesSealedFile
  BY SeriesInvariant, RecordIsTrue, PTL

\* A segment that stopped by itself had been below the idle rate for
\* idle_seconds, and the record it left meets the target.
THEOREM SeriesEndsQuiet == Spec => []IdleMeansQuiet
<1>1. SeriesInv => IdleMeansQuiet
  <2> SUFFICES ASSUME SeriesInv, pc = "returned", record.stop_reason = TrafficIdle
               PROVE  calm >= IdleSeconds /\ record.target_met
    BY DEF IdleMeansQuiet
  <2>1. record = [flows |-> L4Stats, ip |-> IpStats, target_met |-> L4Stats.total >= TargetFlows,
                  stop_reason |-> stopReason]
    BY DEF SeriesInv, RecordHolds
  <2>2. stopReason = TrafficIdle
    BY <2>1, Zenon
  <2>3. calm >= IdleSeconds
    BY <2>2 DEF SeriesInv, TimerHolds
  <2>4. total >= TargetFlows /\ total <= L4Stats.total
    BY <2>2 DEF SeriesInv, TargetHolds
  <2>5. total \in Nat /\ TargetFlows \in Nat /\ L4Stats.total \in Nat
    BY ThresholdAssumption, L4StatsTyped DEF SeriesInv, ReadsHold, TypeOK
  <2>6. L4Stats.total >= TargetFlows
    BY <2>4, <2>5
  <2>7. record.target_met
    BY <2>1, <2>6, Zenon
  <2> QED
    BY <2>3, <2>7
<1> QED
  BY SeriesInvariant, <1>1, PTL

\* No capture.json describes a file that dumpcap wrote in part without the
\* isolation asked for, whatever failed or was cut off.
THEOREM ExposedFilesHaveNoRecord == Spec => []NoExposedRecord
<1>1. SeriesInv => NoExposedRecord
  BY DEF SeriesInv, ReleaseHolds, NoExposedRecord
<1> QED
  BY SeriesInvariant, <1>1, PTL

\* However the series ends, by itself, by errors or by any number of Ctrl+C in the
\* browser, the segments or between them, the isolation is released, unless a run
\* of isolate.ps1 failed.  The only other way out is a Ctrl+C in the call that
\* enables or in the finally clause.
THEOREM SeriesReleases == Spec => []IsolationReleased
<1>1. SeriesInv => IsolationReleased
  BY DEF SeriesInv, ReleaseHolds
<1> QED
  BY SeriesInvariant, <1>1, PTL
=============================================================================
