------------------------- MODULE FlowTrackerProofs -------------------------
(***************************************************************************)
(* Proofs about FlowTracker, for every packet alphabet, every number of    *)
(* conversations and either count mode.                                    *)
(***************************************************************************)
EXTENDS FlowTracker, FiniteSetTheorems, TLAPS

-----------------------------------------------------------------------------
(* One flow and one packet *)

\* A flow that observes a packet is still a flow, of the same tuple, and has
\* not gone back on being established or closed.
LEMMA ObservedProgress ==
    ASSUME NEW flow \in Flow, NEW p \in TcpPackets
    PROVE  /\ Observed(flow, p) \in Flow
           /\ Observed(flow, p).synForward = flow.synForward
           /\ flow.established => Observed(flow, p).established
           /\ Observed(flow, p).active => flow.active
<1>1. FinSides(flow, p) \in SUBSET Sides
  BY DEF FinSides, Flow, TcpPackets, Sides
<1>2. Accepts(flow, p) \in BOOLEAN /\ Closes(flow, p) \in BOOLEAN
  BY DEF Accepts, Closes
<1> QED
  BY <1>1, <1>2 DEF Observed, Flow

LEMMA ReverseIsTuple ==
    ASSUME NEW t \in Tuples
    PROVE  Reverse(t) \in Tuples /\ Reverse(Reverse(t)) = t
  BY DEF Tuples, Reverse, Sides

LEMMA NewFlowIsFlow == ASSUME NEW t \in Tuples PROVE NewFlow(t) \in Flow
  BY DEF NewFlow, Flow

\* What is read from the file is a TCP packet or nothing to the tracker.
LEMMA RecordIsPacket ==
    ASSUME TypeOK, NEW n \in 1..Len(records), records[n] # NotTcp
    PROVE  records[n] \in TcpPackets
  BY PacketsAssumption DEF TypeOK, FileOK

-----------------------------------------------------------------------------
(* The tables after one packet *)

LEMMA OpenFlowTyped ==
    ASSUME TablesOK, NEW p \in TcpPackets, OpenFlow(p)
    PROVE  TablesOK' /\ Progress
<1> DEFINE flow == Observed(NewFlow(p.tuple), p)
<1>1. p.tuple \in Tuples /\ SynKey(p) \in Tuples \X SequenceNumbers
  BY DEF TcpPackets, SynKey
<1>2. flow \in Flow
  BY <1>1, NewFlowIsFlow, ObservedProgress
<1>3. flows' = Append(flows, flow)
  BY DEF OpenFlow
<1> HIDE DEF flow
<1>4. /\ flows' \in Seq(Flow) /\ Len(flows') = Len(flows) + 1
      /\ \A i \in 1..Len(flows) : flows'[i] = flows[i]
  BY <1>2, <1>3 DEF TablesOK
<1>5. /\ DOMAIN tupleToFlow' \subseteq Tuples
      /\ \A t \in DOMAIN tupleToFlow' : tupleToFlow'[t] \in 1..Len(flows')
  BY <1>1, <1>4, ReverseIsTuple DEF OpenFlow, NewIndex, BothDirections, TablesOK
<1>6. /\ DOMAIN seenSyns' \subseteq Tuples \X SequenceNumbers
      /\ \A k \in DOMAIN seenSyns' : seenSyns'[k] \in 1..Len(flows')
  BY <1>1, <1>4 DEF OpenFlow, NewIndex, BothDirections, TablesOK
<1> QED
  BY <1>4, <1>5, <1>6 DEF TablesOK, Progress

LEMMA UpdateFlowTyped ==
    ASSUME TablesOK, NEW p \in TcpPackets, NEW i \in 1..Len(flows), UpdateFlow(p, i)
    PROVE  TablesOK' /\ Progress
<1>1. flows[i] \in Flow
  BY DEF TablesOK
<1> DEFINE flow == Observed(flows[i], p)
<1>2. /\ flow \in Flow /\ flow.synForward = flows[i].synForward
      /\ flows[i].established => flow.established
      /\ flow.active => flows[i].active
  BY <1>1, ObservedProgress
<1>3. flows' = [flows EXCEPT ![i] = flow] /\ UNCHANGED <<tupleToFlow, seenSyns>>
  BY DEF UpdateFlow
<1> HIDE DEF flow
<1>4. /\ flows' \in Seq(Flow) /\ Len(flows') = Len(flows)
      /\ \A j \in 1..Len(flows) : flows'[j] = IF j = i THEN flow ELSE flows[j]
  BY <1>2, <1>3 DEF TablesOK
<1> QED
  BY <1>2, <1>3, <1>4 DEF TablesOK, Progress

LEMMA ConsumeTyped ==
    ASSUME TypeOK, NEW n \in 1..Len(records), Consume(records[n])
    PROVE  TablesOK' /\ Progress
<1> DEFINE p == records[n]
<1>0. TablesOK
  BY DEF TypeOK
<1>1. CASE UNCHANGED tableVars
  BY <1>0, <1>1 DEF TablesOK, Progress, tableVars
<1>2. CASE p # NotTcp /\ ConsumeTcp(p)
  <2>1. p \in TcpPackets
    BY <1>2, RecordIsPacket
  <2>2. CASE OpenFlow(p)
    BY <1>0, <2>1, <2>2, OpenFlowTyped
  <2>3. CASE SynKey(p) \in DOMAIN seenSyns /\ UpdateFlow(p, seenSyns[SynKey(p)])
    BY <1>0, <2>1, <2>3, UpdateFlowTyped DEF TablesOK
  <2>4. CASE p.tuple \in DOMAIN tupleToFlow /\ UpdateFlow(p, Owner(p.tuple))
    BY <1>0, <2>1, <2>4, UpdateFlowTyped DEF TablesOK, Owner
  <2> QED
    BY <1>1, <1>2, <2>2, <2>3, <2>4 DEF ConsumeTcp
<1> QED
  BY <1>1, <1>2 DEF Consume

-----------------------------------------------------------------------------
(* Type correctness *)

LEMMA TypeInit == Init => TypeOK
<1> SUFFICES ASSUME Init PROVE TypeOK
  OBVIOUS
<1>1. records = <<>> /\ consumed = 0 /\ due = 0
  BY DEF Init
<1>2. FileOK
  <2>1. records \in Seq(Packets)
    BY <1>1
  <2>2. torn \in BOOLEAN /\ sealed \in BOOLEAN
    BY DEF Init
  <2>3. header \in {"missing", "partial", "ethernet", "unsupported"}
    BY DEF Init
  <2> QED
    BY <2>1, <2>2, <2>3 DEF FileOK
<1>3. ReaderOK
  <2>1. consumed \in 0..Len(records) /\ due \in 0..Len(records)
    BY <1>1
  <2>2. headerRead \in BOOLEAN
    BY DEF Init
  <2>3. reader \in {"idle", "reading", "failed"}
    BY DEF Init
  <2> QED
    BY <2>1, <2>2, <2>3 DEF ReaderOK
<1>4. DOMAIN tupleToFlow = {} /\ DOMAIN seenSyns = {} /\ flows = <<>>
  BY DEF Init, EmptyTable
<1>5. TablesOK
  BY <1>4 DEF TablesOK
<1> QED
  BY <1>2, <1>3, <1>5 DEF TypeOK

LEMMA TypeStep == TypeOK /\ [Next]_vars => TypeOK'
<1> SUFFICES ASSUME TypeOK, [Next]_vars PROVE TypeOK'
  OBVIOUS
<1>0. FileOK /\ ReaderOK /\ TablesOK
  BY DEF TypeOK
<1>1. CASE CreateFile \/ WriteHeader \/ BeginRecord \/ StopWriter
  <2>1. FileOK'
    BY <1>0, <1>1 DEF CreateFile, WriteHeader, BeginRecord, StopWriter, FileOK
  <2>2. UNCHANGED <<records, tableVars, readerVars>>
    BY <1>1 DEF CreateFile, WriteHeader, BeginRecord, StopWriter
  <2> QED
    BY <1>0, <2>1, <2>2 DEF TypeOK, ReaderOK, TablesOK, tableVars, readerVars
<1>2. CASE FinishRecord
  <2>1. PICK p \in Packets : records' = Append(records, p)
    BY <1>2 DEF FinishRecord
  <2>2. records' \in Seq(Packets) /\ Len(records') = Len(records) + 1
    BY <1>0, <2>1 DEF FileOK
  <2>3. FileOK'
    BY <1>0, <1>2, <2>2 DEF FinishRecord, FileOK
  <2>4. UNCHANGED <<tableVars, readerVars>>
    BY <1>2 DEF FinishRecord
  <2>5. ReaderOK' /\ TablesOK'
    BY <1>0, <2>2, <2>4 DEF FileOK, ReaderOK, TablesOK, tableVars, readerVars
  <2> QED
    BY <2>3, <2>5 DEF TypeOK
<1>3. CASE PollBeforeHeader \/ PollUnsupported \/ OpenPcap \/ PollReturns
  <2>1. UNCHANGED <<fileVars, tableVars>>
    BY <1>3 DEF PollBeforeHeader, PollUnsupported, OpenPcap, PollReturns
  <2>2. FileOK' /\ TablesOK'
    BY <1>0, <2>1 DEF FileOK, TablesOK, fileVars, tableVars
  <2>3. Len(records) \in Nat /\ UNCHANGED records
    BY <1>0, <2>1 DEF FileOK, fileVars
  <2>4. consumed' \in 0..Len(records) /\ due' \in 0..Len(records)
    BY <1>0, <1>3, <2>3 DEF PollBeforeHeader, PollUnsupported, OpenPcap, PollReturns, ReaderOK
  <2>5. headerRead' \in BOOLEAN
    BY <1>0, <1>3 DEF PollBeforeHeader, PollUnsupported, OpenPcap, PollReturns, ReaderOK
  <2>6. reader' \in {"idle", "reading", "failed"}
    BY <1>0, <1>3 DEF PollBeforeHeader, PollUnsupported, OpenPcap, PollReturns, ReaderOK
  <2>7. ReaderOK'
    BY <2>3, <2>4, <2>5, <2>6 DEF ReaderOK
  <2> QED
    BY <2>2, <2>7 DEF TypeOK
<1>4. CASE ReadRecord
  <2>1. UNCHANGED fileVars /\ consumed + 1 \in 1..Len(records)
    BY <1>0, <1>4 DEF ReadRecord, FileOK, ReaderOK
  <2>2. TablesOK'
    BY <1>4, <2>1, ConsumeTyped DEF ReadRecord
  <2>3. FileOK' /\ ReaderOK'
    BY <1>0, <1>4, <2>1 DEF ReadRecord, FileOK, ReaderOK, fileVars
  <2> QED
    BY <2>2, <2>3 DEF TypeOK
<1>5. CASE UNCHANGED vars
  BY <1>0, <1>5 DEF vars, fileVars, tableVars, readerVars, TypeOK, FileOK, ReaderOK, TablesOK
<1> QED
  BY <1>1, <1>2, <1>3, <1>4, <1>5 DEF Next, Writer, Poll

\* The state of the file, of the reader and of its tables stays well formed:
\* in particular every index a table holds is that of a flow.
THEOREM TypeCorrect == Spec => []TypeOK
  BY TypeInit, TypeStep, PTL DEF Spec

-----------------------------------------------------------------------------
(* The lookup tables *)

LEMMA OpenFlowConsistent ==
    ASSUME TablesOK, IndexConsistent, NEW p \in TcpPackets,
           SynKey(p) \notin DOMAIN seenSyns, OpenFlow(p)
    PROVE  IndexConsistent'
<1> DEFINE flow == Observed(NewFlow(p.tuple), p)
           index == Len(flows) + 1
<1>1. p.tuple \in Tuples /\ SynKey(p)[1] = p.tuple
  BY DEF TcpPackets, SynKey
<1>2. flow \in Flow /\ flow.synForward = p.tuple
  BY <1>1, NewFlowIsFlow, ObservedProgress DEF NewFlow
<1>3. flows' = Append(flows, flow)
  BY DEF OpenFlow
<1> HIDE DEF flow
<1>4. /\ Len(flows) \in Nat /\ Len(flows') = index
      /\ flows'[index] = flow
      /\ \A i \in 1..Len(flows) : flows'[i] = flows[i]
  BY <1>2, <1>3 DEF TablesOK
<1>5. /\ DOMAIN tupleToFlow' = DOMAIN tupleToFlow \cup {p.tuple, Reverse(p.tuple)}
      /\ \A t \in DOMAIN tupleToFlow' :
            tupleToFlow'[t] = IF t \in {p.tuple, Reverse(p.tuple)} THEN index ELSE tupleToFlow[t]
  BY DEF OpenFlow, NewIndex, BothDirections
<1>6. /\ DOMAIN seenSyns' = DOMAIN seenSyns \cup {SynKey(p)}
      /\ \A k \in DOMAIN seenSyns' :
            seenSyns'[k] = IF k = SynKey(p) THEN index ELSE seenSyns[k]
  BY DEF OpenFlow, NewIndex
<1>7. TuplesConsistent'
  <2> SUFFICES ASSUME NEW t \in DOMAIN tupleToFlow'
               PROVE  /\ Reverse(t) \in DOMAIN tupleToFlow'
                      /\ tupleToFlow'[Reverse(t)] = tupleToFlow'[t]
                      /\ flows'[tupleToFlow'[t]].synForward \in {t, Reverse(t)}
    BY DEF TuplesConsistent
  <2>1. Reverse(p.tuple) \in Tuples /\ Reverse(Reverse(p.tuple)) = p.tuple
    BY <1>1, ReverseIsTuple
  <2>2. CASE t \in {p.tuple, Reverse(p.tuple)}
    BY <1>2, <1>4, <1>5, <2>1, <2>2
  <2>3. CASE t \notin {p.tuple, Reverse(p.tuple)}
    <3>1. t \in DOMAIN tupleToFlow /\ t \in Tuples
      BY <1>5, <2>3 DEF TablesOK
    <3>2. Reverse(t) \notin {p.tuple, Reverse(p.tuple)}
      BY <2>1, <2>3, <3>1, ReverseIsTuple
    <3>3. /\ Reverse(t) \in DOMAIN tupleToFlow /\ tupleToFlow[Reverse(t)] = tupleToFlow[t]
          /\ flows[tupleToFlow[t]].synForward \in {t, Reverse(t)}
          /\ tupleToFlow[t] \in 1..Len(flows)
      BY <3>1 DEF IndexConsistent, TuplesConsistent, TablesOK
    <3> QED
      BY <1>4, <1>5, <2>3, <3>1, <3>2, <3>3
  <2> QED
    BY <2>2, <2>3
<1>8. SynsConsistent'
  <2>1. \A k \in DOMAIN seenSyns : seenSyns[k] \in 1..Len(flows)
    BY DEF TablesOK
  <2>2. ASSUME NEW k \in DOMAIN seenSyns'
        PROVE  flows'[seenSyns'[k]].synForward = k[1] /\ k[1] \in DOMAIN tupleToFlow'
    BY <1>1, <1>2, <1>4, <1>5, <1>6, <2>1 DEF IndexConsistent, SynsConsistent
  <2>3. ASSUME NEW j \in DOMAIN seenSyns', NEW k \in DOMAIN seenSyns',
               seenSyns'[j] = seenSyns'[k]
        PROVE  j = k
    BY <1>4, <1>6, <2>1, <2>3 DEF IndexConsistent, SynsConsistent
  <2>4. ASSUME NEW i \in 1..Len(flows')
        PROVE  \E k \in DOMAIN seenSyns' : seenSyns'[k] = i
    <3>1. CASE i = index
      BY <1>6, <3>1
    <3>2. CASE i \in 1..Len(flows)
      <4>1. PICK k \in DOMAIN seenSyns : seenSyns[k] = i
        BY <3>2 DEF IndexConsistent, SynsConsistent
      <4> QED
        BY <1>6, <4>1
    <3> QED
      BY <1>4, <3>1, <3>2
  <2> QED
    BY <2>2, <2>3, <2>4 DEF SynsConsistent
<1> QED
  BY <1>7, <1>8 DEF IndexConsistent

LEMMA UpdateFlowConsistent ==
    ASSUME TablesOK, IndexConsistent, NEW p \in TcpPackets,
           NEW i \in 1..Len(flows), UpdateFlow(p, i)
    PROVE  IndexConsistent'
<1>1. /\ flows' = [flows EXCEPT ![i] = Observed(flows[i], p)]
      /\ UNCHANGED <<tupleToFlow, seenSyns>>
  BY DEF UpdateFlow
<1>2. Progress /\ Len(flows') = Len(flows)
  BY <1>1, UpdateFlowTyped DEF TablesOK
<1>3. \A j \in 1..Len(flows) : flows'[j].synForward = flows[j].synForward
  BY <1>2 DEF Progress
<1>4. TuplesConsistent'
  BY <1>1, <1>3 DEF IndexConsistent, TuplesConsistent, TablesOK
<1>5. SynsConsistent'
  BY <1>1, <1>2, <1>3 DEF IndexConsistent, SynsConsistent, TablesOK
<1> QED
  BY <1>4, <1>5 DEF IndexConsistent

LEMMA IndexInit == Init => IndexConsistent
  BY DEF Init, EmptyTable, IndexConsistent, TuplesConsistent, SynsConsistent

LEMMA IndexStep == TypeOK /\ IndexConsistent /\ [Next]_vars => IndexConsistent'
<1> SUFFICES ASSUME TypeOK, IndexConsistent, [Next]_vars PROVE IndexConsistent'
  OBVIOUS
<1>1. CASE UNCHANGED tableVars
  BY <1>1 DEF tableVars, IndexConsistent, TuplesConsistent, SynsConsistent
<1>2. CASE ReadRecord
  <2> DEFINE p == records[consumed + 1]
  <2>0. TablesOK /\ consumed + 1 \in 1..Len(records)
    BY <1>2 DEF ReadRecord, TypeOK, FileOK, ReaderOK
  <2>1. UNCHANGED tableVars \/ (p # NotTcp /\ ConsumeTcp(p))
    BY <1>2 DEF ReadRecord, Consume
  <2>2. CASE p # NotTcp /\ ConsumeTcp(p)
    <3>1. p \in TcpPackets
      BY <2>0, <2>2, RecordIsPacket
    <3>2. CASE SynKey(p) \notin DOMAIN seenSyns /\ OpenFlow(p)
      BY <2>0, <3>1, <3>2, OpenFlowConsistent
    <3>3. CASE SynKey(p) \in DOMAIN seenSyns /\ UpdateFlow(p, seenSyns[SynKey(p)])
      BY <2>0, <3>1, <3>3, UpdateFlowConsistent DEF TablesOK
    <3>4. CASE p.tuple \in DOMAIN tupleToFlow /\ UpdateFlow(p, Owner(p.tuple))
      BY <2>0, <3>1, <3>4, UpdateFlowConsistent DEF TablesOK, Owner
    <3> QED
      BY <1>1, <2>2, <3>2, <3>3, <3>4 DEF ConsumeTcp
  <2> QED
    BY <1>1, <2>1, <2>2
<1> QED
  BY <1>1, <1>2 DEF Next, Writer, Poll, CreateFile, WriteHeader, BeginRecord, FinishRecord,
     StopWriter, PollBeforeHeader, PollUnsupported, OpenPcap, PollReturns, vars

\* The tables stay consistent with the flow list, whatever is captured.
THEOREM IndexCorrect == Spec => []IndexConsistent
  BY TypeInit, TypeStep, IndexInit, IndexStep, PTL DEF Spec

-----------------------------------------------------------------------------
(* Flows only progress *)

LEMMA ProgressStep == TypeOK /\ [Next]_vars => Progress
<1> SUFFICES ASSUME TypeOK, [Next]_vars PROVE Progress
  OBVIOUS
<1>1. CASE UNCHANGED tableVars
  BY <1>1 DEF tableVars, Progress, TypeOK, TablesOK
<1>2. CASE ReadRecord
  <2>1. consumed + 1 \in 1..Len(records)
    BY <1>2 DEF ReadRecord, TypeOK, FileOK, ReaderOK
  <2> QED
    BY <1>2, <2>1, ConsumeTyped DEF ReadRecord
<1> QED
  BY <1>1, <1>2 DEF Next, Writer, Poll, CreateFile, WriteHeader, BeginRecord, FinishRecord,
     StopWriter, PollBeforeHeader, PollUnsupported, OpenPcap, PollReturns, vars

\* No step of the writer or of a poll reopens a flow, forgets an accepted one
\* or removes one from the list.
THEOREM OnlyProgress == Spec => FlowsOnlyProgress
<1>1. TypeOK /\ [Next]_vars => [Progress]_vars
  BY ProgressStep
<1> QED
  BY <1>1, TypeCorrect, PTL DEF Spec, FlowsOnlyProgress

-----------------------------------------------------------------------------
(* The reports *)

Finished == Counted \ Active

LEMMA CountsAreFinite ==
    ASSUME TablesOK
    PROVE  /\ IsFiniteSet(Counted) /\ IsFiniteSet(Finished)
           /\ Cardinality(Counted) \in Nat /\ Cardinality(Finished) \in Nat
           /\ Cardinality(Finished) <= Cardinality(Counted)
<1>1. Len(flows) \in Nat
  BY DEF TablesOK
<1>2. IsFiniteSet(1..Len(flows))
  BY <1>1, FS_Interval
<1>3. Counted \in SUBSET (1..Len(flows)) /\ Finished \in SUBSET Counted
  BY DEF Counted, Finished
<1>4. IsFiniteSet(Counted)
  BY <1>2, <1>3, FS_Subset
<1>5. IsFiniteSet(Finished) /\ Cardinality(Finished) <= Cardinality(Counted)
  BY <1>3, <1>4, FS_Subset
<1> QED
  BY <1>4, <1>5, FS_CardinalityType

\* The tables never count, or count as finished, less than before.
LEMMA CountsGrow ==
    ASSUME TablesOK, TablesOK', Progress
    PROVE  /\ Cardinality(Counted) <= Cardinality(Counted')
           /\ Cardinality(Finished) <= Cardinality(Finished')
           /\ Cardinality(Counted') \in Nat /\ Cardinality(Finished') \in Nat
<1>1. Len(flows) \in Nat /\ Len(flows') \in Nat /\ 1..Len(flows) \subseteq 1..Len(flows')
  BY DEF TablesOK, Progress
<1>2. Counted \in SUBSET Counted'
  BY <1>1 DEF Counted, Progress
<1>3. Finished \in SUBSET Finished'
  BY <1>1, <1>2 DEF Finished, Counted, Active, Progress
<1>4. IsFiniteSet(Counted') /\ IsFiniteSet(Finished')
  <2>1. Len(flows') \in Nat /\ IsFiniteSet(1..Len(flows'))
    BY <1>1, FS_Interval
  <2>2. Counted' \in SUBSET (1..Len(flows')) /\ Finished' \in SUBSET Counted'
    BY DEF Counted, Finished
  <2> QED
    BY <2>1, <2>2, FS_Subset
<1> QED
  BY <1>2, <1>3, <1>4, FS_Subset, FS_CardinalityType

\* A report never claims more than the tables hold.
ReportBounded ==
    /\ reported.total \in Nat /\ reported.completed \in Nat
    /\ reported.completed <= reported.total
    /\ reported.total <= Cardinality(Counted)
    /\ reported.completed <= Cardinality(Finished)

LEMMA ReportInit == Init => ReportBounded
<1> SUFFICES ASSUME Init PROVE ReportBounded
  OBVIOUS
<1>1. TablesOK
  BY TypeInit DEF TypeOK
<1> QED
  BY <1>1, CountsAreFinite DEF Init, NoFlows, ReportBounded

LEMMA StatsFields ==
    Stats.total = Cardinality(Counted) /\ Stats.completed = Cardinality(Finished)
  BY DEF Stats, Finished

LEMMA ReportStep ==
    TypeOK /\ ReportBounded /\ [Next]_vars => ReportBounded' /\ [Reports!Report]_(Reports!vars)
<1> SUFFICES ASSUME TypeOK, ReportBounded, [Next]_vars
             PROVE  ReportBounded' /\ [Reports!Report]_(Reports!vars)
  OBVIOUS
<1>1. TablesOK /\ TablesOK' /\ Progress
  BY TypeStep, ProgressStep DEF TypeOK
<1>2. /\ Cardinality(Counted) <= Cardinality(Counted')
      /\ Cardinality(Finished) <= Cardinality(Finished')
  BY <1>1, CountsGrow
<1>3. /\ Cardinality(Counted') \in Nat /\ Cardinality(Finished') \in Nat
      /\ Cardinality(Counted) \in Nat /\ Cardinality(Finished) \in Nat
      /\ Cardinality(Finished) <= Cardinality(Counted)
  BY <1>1, CountsAreFinite, CountsGrow
<1>4. CASE UNCHANGED reported
  BY <1>2, <1>3, <1>4 DEF ReportBounded, Reports!vars
<1>5. CASE PollBeforeHeader \/ PollReturns
  <2>1. reported' = Stats /\ UNCHANGED tableVars
    BY <1>5 DEF PollBeforeHeader, PollReturns
  <2>2. Counted' = Counted /\ Finished' = Finished
    BY <2>1 DEF tableVars, Counted, Finished, Active
  <2>3. reported'.total = Cardinality(Counted) /\ reported'.completed = Cardinality(Finished)
    BY <2>1, StatsFields
  <2> QED
    BY <1>3, <2>2, <2>3 DEF ReportBounded, Reports!Report
<1> QED
  BY <1>4, <1>5 DEF Next, Writer, Poll, CreateFile, WriteHeader, BeginRecord, FinishRecord,
     StopWriter, PollUnsupported, OpenPcap, ReadRecord, readerVars, vars

\* The tracker implements FlowCount: from one poll to the next the capture loop
\* is never told of fewer flows, or of fewer completed ones.
THEOREM ReportsNeverGoBack == Spec => ReportsImplementFlowCount
<1>1. Init => Reports!Init
  BY DEF Init, NoFlows, Reports!Init
<1> QED
  BY <1>1, TypeInit, TypeStep, ReportInit, ReportStep, PTL
     DEF Spec, ReportsImplementFlowCount, Reports!Spec

-----------------------------------------------------------------------------
(* What the records read so far add up to *)

\* The flow that the records of S make of the start at b, in a file of recs.
Established(recs, b, S) ==
    \E n \in S : {"SYN", "ACK"} \subseteq recs[n].flags /\ ~(recs[n].tuple = recs[b].tuple)
FinsOf(recs, S) == {n \in S : "FIN" \in recs[n].flags}
Closed(recs, b, S) ==
    \/ \E n \in S : "RST" \in recs[n].flags
    \/ \E m, n \in FinsOf(recs, S) : recs[m].tuple = recs[b].tuple /\ ~(recs[n].tuple = recs[b].tuple)
SidesOf(recs, b, S) == {IF recs[n].tuple = recs[b].tuple THEN 0 ELSE 1 : n \in FinsOf(recs, S)}
FlowOf(recs, b, S) ==
    [synForward |-> recs[b].tuple, established |-> Established(recs, b, S), active |-> ~Closed(recs, b, S),
     finSides |-> SidesOf(recs, b, S)]

Own(b) == {n \in Read : BelongsTo(n, b)}

LEMMA FlowOfItsRecords ==
    \A b : /\ FlowBornAt(b) = FlowOf(records, b, Own(b))
           /\ FlowBornAt(b)' = FlowOf(records', b, Own(b)')
  BY Zenon DEF FlowBornAt, FlowOf, Own, Established, FinsOf, Closed, SidesOf

LEMMA ObservedFields ==
    ASSUME NEW t, NEW e \in BOOLEAN, NEW a \in BOOLEAN, NEW s, NEW p
    PROVE  LET flow == [synForward |-> t, established |-> e, active |-> a, finSides |-> s]
           IN  Observed(flow, p) =
                  [synForward |-> t, established |-> e \/ Accepts(flow, p),
                   active |-> a /\ ~Closes(flow, p), finSides |-> FinSides(flow, p)]
<1> DEFINE flow == [synForward |-> t, established |-> e, active |-> a, finSides |-> s]
<1>1. Accepts(flow, p) \in BOOLEAN /\ Closes(flow, p) \in BOOLEAN
  BY DEF Accepts, Closes
<1>2. ASSUME NEW x \in BOOLEAN, NEW y \in BOOLEAN, NEW z
      PROVE  [flow EXCEPT !.established = x, !.active = y, !.finSides = z] =
             [synForward |-> t, established |-> x, active |-> y, finSides |-> z]
  <2> DEFINE after == [flow EXCEPT !.established = x, !.active = y, !.finSides = z]
             all == [synForward : {t}, established : BOOLEAN, active : BOOLEAN, finSides : {s, z}]
  <2>1. flow \in all
    OBVIOUS
  <2>2. /\ after \in all /\ after.synForward = t /\ after.established = x /\ after.active = y
        /\ after.finSides = z
    OBVIOUS
  <2> HIDE DEF after
  <2>3. after = [synForward |-> t, established |-> x, active |-> y, finSides |-> z]
    BY <2>2
  <2> QED
    BY <2>3 DEF after
<1>3. flow.established = e /\ flow.active = a
  OBVIOUS
<1> HIDE DEF flow
<1>4. Observed(flow, p) = [flow EXCEPT !.established = e \/ Accepts(flow, p),
                                      !.active = a /\ ~Closes(flow, p), !.finSides = FinSides(flow, p)]
  BY <1>3, Zenon DEF Observed
<1>5. (e \/ Accepts(flow, p)) \in BOOLEAN /\ (a /\ ~Closes(flow, p)) \in BOOLEAN
  BY <1>1
<1> QED
  BY <1>2, <1>4, <1>5, Zenon DEF flow

LEMMA SameFields ==
    ASSUME NEW t, NEW e \in BOOLEAN, NEW a \in BOOLEAN, NEW s,
           NEW f \in BOOLEAN, NEW c \in BOOLEAN, e <=> f, a <=> c
    PROVE  [synForward |-> t, established |-> e, active |-> a, finSides |-> s] =
           [synForward |-> t, established |-> f, active |-> c, finSides |-> s]
  OBVIOUS

\* One more record of a flow is one more packet observed.
LEMMA ObserveOneMore ==
    ASSUME NEW recs, NEW b, NEW S, NEW n, recs[n] \in TcpPackets
    PROVE  FlowOf(recs, b, S \cup {n}) = Observed(FlowOf(recs, b, S), recs[n])
<1> DEFINE p == recs[n]
           flow == FlowOf(recs, b, S)
<1>1. /\ flow.synForward = recs[b].tuple /\ flow.finSides = SidesOf(recs, b, S)
      /\ (flow.established <=> Established(recs, b, S)) /\ (flow.active <=> ~Closed(recs, b, S))
  BY Zenon DEF FlowOf
<1>2. Established(recs, b, S \cup {n}) <=> Established(recs, b, S) \/ Accepts(flow, p)
  BY <1>1 DEF Established, Accepts
<1>3. SidesOf(recs, b, S \cup {n}) = FinSides(flow, p)
  <2>1. FinsOf(recs, S \cup {n}) = FinsOf(recs, S) \cup (IF "FIN" \in p.flags THEN {n} ELSE {})
    BY DEF FinsOf
  <2> QED
    BY <1>1, <2>1 DEF SidesOf, FinSides
<1>4. \A T : Closed(recs, b, T) <=> (\E k \in T : "RST" \in recs[k].flags) \/ SidesOf(recs, b, T) = Sides
  BY DEF Closed, SidesOf, Sides
<1>5. Closed(recs, b, S \cup {n}) <=> Closed(recs, b, S) \/ Closes(flow, p)
  <2>1. (\E k \in S \cup {n} : "RST" \in recs[k].flags)
           <=> (\E k \in S : "RST" \in recs[k].flags) \/ "RST" \in p.flags
    OBVIOUS
  <2>2. CASE "FIN" \notin p.flags
    <3>1. SidesOf(recs, b, S \cup {n}) = SidesOf(recs, b, S)
      BY <1>1, <1>3, <2>2 DEF FinSides
    <3> QED
      BY <1>4, <2>1, <2>2, <3>1 DEF Closes
  <2>3. CASE "FIN" \in p.flags
    <3>1. SidesOf(recs, b, S) \subseteq SidesOf(recs, b, S \cup {n}) /\ SidesOf(recs, b, S \cup {n}) \subseteq Sides
      BY DEF SidesOf, FinsOf, Sides
    <3>2. SidesOf(recs, b, S) = Sides => SidesOf(recs, b, S \cup {n}) = Sides
      BY <3>1
    <3>3. Closes(flow, p) <=> "RST" \in p.flags \/ SidesOf(recs, b, S \cup {n}) = Sides
      BY <1>3, <2>3 DEF Closes
    <3> QED
      BY <1>4, <2>1, <3>2, <3>3
  <2> QED
    BY <2>2, <2>3
<1>6. Observed(flow, p) =
        [synForward |-> recs[b].tuple, established |-> Established(recs, b, S) \/ Accepts(flow, p),
         active |-> ~Closed(recs, b, S) /\ ~Closes(flow, p), finSides |-> FinSides(flow, p)]
  <2>1. Established(recs, b, S) \in BOOLEAN /\ (~Closed(recs, b, S)) \in BOOLEAN
    BY DEF Established, Closed
  <2>2. flow = [synForward |-> recs[b].tuple, established |-> Established(recs, b, S),
               active |-> ~Closed(recs, b, S), finSides |-> SidesOf(recs, b, S)]
    BY Zenon DEF FlowOf
  <2>3. PICK e \in BOOLEAN, a \in BOOLEAN : e = Established(recs, b, S) /\ a = ~Closed(recs, b, S)
    BY <2>1, Zenon
  <2>4. flow = [synForward |-> recs[b].tuple, established |-> e, active |-> a, finSides |-> SidesOf(recs, b, S)]
    BY <2>2, <2>3, Zenon
  <2> HIDE DEF flow, p
  <2>5. Observed(flow, p) =
          [synForward |-> recs[b].tuple, established |-> e \/ Accepts(flow, p),
           active |-> a /\ ~Closes(flow, p), finSides |-> FinSides(flow, p)]
    <3> DEFINE same == [synForward |-> recs[b].tuple, established |-> e, active |-> a,
                        finSides |-> SidesOf(recs, b, S)]
    <3>1. Observed(same, p) =
            [synForward |-> recs[b].tuple, established |-> e \/ Accepts(same, p),
             active |-> a /\ ~Closes(same, p), finSides |-> FinSides(same, p)]
      BY ObservedFields
    <3>2. flow = same
      BY <2>4
    <3> HIDE DEF same
    <3> QED
      BY <3>1, <3>2, Zenon
  <2> QED
    BY <2>3, <2>5, Zenon
<1>7. /\ Established(recs, b, S \cup {n}) \in BOOLEAN /\ (Established(recs, b, S) \/ Accepts(flow, p)) \in BOOLEAN
      /\ (~Closed(recs, b, S \cup {n})) \in BOOLEAN /\ (~Closed(recs, b, S) /\ ~Closes(flow, p)) \in BOOLEAN
  BY DEF Established, Closed
<1> QED
  BY <1>2, <1>3, <1>5, <1>6, <1>7, SameFields DEF FlowOf

\* The flow of a start that only its own record has reached.
LEMMA ObserveStart ==
    ASSUME NEW recs, NEW b, recs[b] \in TcpPackets, IsStart(recs[b])
    PROVE  FlowOf(recs, b, {b}) = Observed(NewFlow(recs[b].tuple), recs[b])
<1>0. \A S : FlowOf(recs, b, S \cup {b}) = Observed(FlowOf(recs, b, S), recs[b])
  BY ObserveOneMore
<1>1. FlowOf(recs, b, {} \cup {b}) = Observed(FlowOf(recs, b, {}), recs[b])
  BY <1>0, Zenon
<1>2. FlowOf(recs, b, {}) = NewFlow(recs[b].tuple)
  <2>1. FinsOf(recs, {}) = {} /\ SidesOf(recs, b, {}) = {}
    BY DEF FinsOf, SidesOf
  <2>2. Established(recs, b, {}) = FALSE /\ (~Closed(recs, b, {})) = TRUE
    BY <2>1 DEF Established, Closed
  <2> QED
    BY <2>1, <2>2 DEF FlowOf, NewFlow
<1>3. {} \cup {b} = {b}
  OBVIOUS
<1> QED
  BY <1>1, <1>2, <1>3

-----------------------------------------------------------------------------
(* Births and ranks *)

LEMMA BirthsAreRanked ==
    ASSUME TypeOK
    PROVE  /\ IsFiniteSet(Births) /\ Births \subseteq Nat /\ Cardinality(Births) \in Nat
           /\ \A b \in Births : Rank(b) \in 1..Cardinality(Births)
           /\ \A a, b \in Births : Rank(a) = Rank(b) => a = b
<1>1. Read \subseteq Nat /\ IsFiniteSet(Read)
  BY FS_Interval DEF TypeOK, FileOK, ReaderOK, Read
<1>2. IsFiniteSet(Births) /\ Births \subseteq Nat
  BY <1>1, FS_Subset DEF Births
<1> DEFINE UpTo(b) == {a \in Births : a <= b}
<1>3. \A b : UpTo(b) \in SUBSET Births
  OBVIOUS
<1>4. \A b : IsFiniteSet(UpTo(b)) /\ Rank(b) \in Nat /\ Rank(b) <= Cardinality(Births)
  BY <1>2, <1>3, FS_Subset, FS_CardinalityType DEF Rank
<1>5. \A b \in Births : Rank(b) # 0
  <2>1. \A b \in Births : b \in UpTo(b)
    BY <1>2
  <2> QED
    BY <1>4, <2>1, FS_EmptySet DEF Rank
<1>6. ASSUME NEW a \in Births, NEW b \in Births, a < b
      PROVE  Rank(a) # Rank(b)
  <2>1. a \in Nat /\ b \in Nat
    BY <1>2
  <2>2. b \in UpTo(b) /\ b \notin UpTo(a)
    BY <1>6, <2>1
  <2>3. \A x \in Births : x <= a => x <= b
    BY <1>2, <1>6, <2>1
  <2>4. UpTo(a) \in SUBSET UpTo(b)
    BY <2>3
  <2> QED
    BY <1>4, <2>2, <2>4, FS_Subset DEF Rank
<1>7. Cardinality(Births) \in Nat
  BY <1>2, FS_CardinalityType
<1>8. ASSUME NEW b \in Births
      PROVE  Rank(b) \in 1..Cardinality(Births)
  <2>1. Rank(b) \in Nat /\ Rank(b) <= Cardinality(Births) /\ Rank(b) # 0
    BY <1>4, <1>5
  <2> QED
    BY <1>7, <2>1
<1>9. \A a, b \in Births : a = b \/ a < b \/ b < a
  BY <1>2
<1>10. \A a, b \in Births : Rank(a) = Rank(b) => a = b
  BY <1>6, <1>9
<1> QED
  BY <1>2, <1>7, <1>8, <1>10

-----------------------------------------------------------------------------
(* One more record is read *)

Opens(n) == StartsAt(n) /\ \A m \in 1..n - 1 : StartsAt(m) => KeyAt(m) # KeyAt(n)

\* The step in which the next record is read, from the file as it is.
ReadsNext == UNCHANGED records /\ consumed' = consumed + 1 /\ consumed + 1 \in 1..Len(records)

LEMMA BirthsAreOpened ==
    ASSUME TypeOK
    PROVE  /\ Births = {n \in Read : Opens(n)}
           /\ \A b \in Births : /\ b \in Nat /\ b <= consumed /\ b \in 1..Len(records)
                                /\ records[b] \in TcpPackets /\ IsStart(records[b])
           /\ \A a, b \in Births : KeyAt(a) = KeyAt(b) => a = b
<1>1. Births = {n \in Read : Opens(n)}
  BY DEF Births, Opens
<1>2. consumed \in Nat /\ Len(records) \in Nat /\ consumed <= Len(records)
  BY DEF TypeOK, FileOK, ReaderOK
<1>3. ASSUME NEW b \in Births
      PROVE  /\ b \in Nat /\ b <= consumed /\ b \in 1..Len(records)
             /\ records[b] \in TcpPackets /\ IsStart(records[b])
  <2>1. b \in 1..consumed /\ b \in 1..Len(records)
    BY <1>2 DEF Births, Read
  <2>2. records[b] # NotTcp /\ IsStart(records[b])
    BY DEF Births, StartsAt, IsTcp
  <2> QED
    BY <2>1, <2>2, RecordIsPacket
<1>4. ASSUME NEW a \in Births, NEW b \in Births, KeyAt(a) = KeyAt(b)
      PROVE  a = b
  <2>1. a \in Nat /\ b \in Nat /\ a >= 1 /\ b >= 1
    BY <1>3
  <2>2. a < b => a \in 1..b - 1
    BY <2>1
  <2>3. b < a => b \in 1..a - 1
    BY <2>1
  <2>4. StartsAt(a) /\ StartsAt(b)
    BY DEF Births
  <2> QED
    BY <1>1, <1>4, <2>1, <2>2, <2>3, <2>4 DEF Opens
<1> QED
  BY <1>1, <1>3, <1>4

LEMMA BirthsGrow ==
    ASSUME TypeOK, ReadsNext, NEW n, n = consumed + 1
    PROVE  /\ Births' = Births \cup (IF Opens(n) THEN {n} ELSE {})
           /\ \A b \in Births : Rank(b)' = Rank(b)
           /\ Opens(n) => /\ Rank(n)' = Cardinality(Births) + 1
                          /\ Cardinality(Births') = Cardinality(Births) + 1
<1>1. consumed \in Nat /\ Read' = Read \cup {n} /\ n \notin Read /\ Read \subseteq Nat
  BY DEF TypeOK, ReaderOK, ReadsNext, Read
<1>2. Births = {k \in Read : Opens(k)} /\ Births' = {k \in Read' : Opens(k)}
  BY DEF Births, Opens, ReadsNext, StartsAt, IsTcp, KeyAt
<1>3. Births' = Births \cup (IF Opens(n) THEN {n} ELSE {})
  BY <1>1, <1>2
<1>4. IsFiniteSet(Births) /\ \A b \in Births : b \in Nat /\ b <= consumed
  BY BirthsAreRanked, BirthsAreOpened
<1>5. ASSUME NEW b \in Births
      PROVE  Rank(b)' = Rank(b)
  <2>1. {a \in Births' : a <= b} = {a \in Births : a <= b}
    BY <1>1, <1>3, <1>4
  <2> QED
    BY <2>1 DEF Rank
<1>6. ASSUME Opens(n)
      PROVE  Rank(n)' = Cardinality(Births) + 1 /\ Cardinality(Births') = Cardinality(Births) + 1
  <2>1. n \notin Births /\ Births' = Births \cup {n}
    BY <1>2, <1>1, <1>3, <1>6
  <2>2. {a \in Births' : a <= n} = Births'
    BY <1>1, <1>4, <2>1
  <2>3. Cardinality(Births') = Cardinality(Births) + 1
    BY <1>4, <2>1, FS_AddElement
  <2>4. Rank(n)' = Cardinality({a \in Births' : a <= n})
    BY DEF Rank
  <2> QED
    BY <2>2, <2>3, <2>4
<1> QED
  BY <1>3, <1>5, <1>6

\* What is decided of an earlier record stays decided, and the next one belongs
\* to at most one more flow.
LEMMA OwnGrows ==
    ASSUME TypeOK, ReadsNext, NEW n, n = consumed + 1, NEW b \in Births
    PROVE  Own(b)' = Own(b) \cup (IF BelongsTo(n, b)' THEN {n} ELSE {})
<1>1. consumed \in Nat /\ Read' = Read \cup {n} /\ n \notin Read /\ \A m \in Read : m \in Nat /\ m < n
  BY DEF TypeOK, ReaderOK, ReadsNext, Read
<1>2. Births' \subseteq Births \cup {n} /\ Births \subseteq Births'
  BY BirthsGrow
<1>3. ASSUME NEW m \in Read
      PROVE  BelongsTo(m, b)' <=> BelongsTo(m, b)
  <2>1. (\A a \in Births' : records[a].tuple[1] = records[b].tuple[1] => a <= b \/ a > m) <=>
        (\A a \in Births : records[a].tuple[1] = records[b].tuple[1] => a <= b \/ a > m)
    BY <1>1, <1>2
  <2> QED
    BY <2>1 DEF BelongsTo, ReadsNext, IsTcp, KeyAt
<1> QED
  BY <1>1, <1>3 DEF Own

\* The flow of a start, after the next record.
LEMMA FlowGrows ==
    ASSUME TypeOK, ReadsNext, NEW n, n = consumed + 1, NEW b \in Births
    PROVE  FlowBornAt(b)' = IF BelongsTo(n, b)' THEN Observed(FlowBornAt(b), records[n]) ELSE FlowBornAt(b)
<1>1. FlowBornAt(b) = FlowOf(records, b, Own(b)) /\ FlowBornAt(b)' = FlowOf(records', b, Own(b)')
  BY FlowOfItsRecords, Zenon
<1>2. records' = records
  BY DEF ReadsNext
<1>4. CASE BelongsTo(n, b)'
  <2>1. records[n] \in TcpPackets
    <3>1. n \in 1..Len(records) /\ records[n] # NotTcp
      BY <1>4 DEF ReadsNext, BelongsTo, IsTcp
    <3> QED
      BY <3>1, RecordIsPacket
  <2>2. Own(b)' = Own(b) \cup {n}
    BY <1>4, OwnGrows
  <2> QED
    BY <1>1, <1>2, <1>4, <2>1, <2>2, ObserveOneMore
<1>5. CASE ~BelongsTo(n, b)'
  <2>1. Own(b)' = Own(b)
    BY <1>5, OwnGrows
  <2> QED
    BY <1>1, <1>2, <1>5, <2>1
<1> QED
  BY <1>4, <1>5

LEMMA FlowBegins ==
    ASSUME TypeOK, ReadsNext, NEW n, n = consumed + 1, Opens(n)
    PROVE  FlowBornAt(n)' = Observed(NewFlow(records[n].tuple), records[n])
<1>1. n \in 1..Len(records) /\ records[n] # NotTcp /\ IsStart(records[n]) /\ UNCHANGED records
  BY DEF ReadsNext, Opens, StartsAt, IsTcp
<1>2. records[n] \in TcpPackets
  BY <1>1, RecordIsPacket
<1>3. consumed \in Nat /\ n \in Nat /\ Read' = 1..n
  BY DEF TypeOK, ReaderOK, ReadsNext, Read
<1>4. \A m \in Read' : BelongsTo(m, n)' <=> m = n
  <2>1. \A m \in Read' : m <= n /\ m \in Nat /\ (m # n => m \in 1..n - 1)
    BY <1>3
  <2>2. \A m \in 1..n - 1 : StartsAt(m) => KeyAt(m) # KeyAt(n)
    BY DEF Opens
  <2> QED
    BY <1>1, <1>3, <2>1, <2>2 DEF BelongsTo, StartsAt, KeyAt, IsTcp
<1>5. Own(n)' = {n}
  BY <1>3, <1>4 DEF Own
<1>6. FlowBornAt(n)' = FlowOf(records, n, {n})
  BY <1>1, <1>5, FlowOfItsRecords, Zenon
<1> QED
  BY <1>1, <1>2, <1>6, ObserveStart

-----------------------------------------------------------------------------
(* The tables and the records read *)

Latest(b) == \A a \in Births : records[a].tuple[1] = records[b].tuple[1] => a <= b

\* The flows are the starts in their order, each with what its records make of
\* it; the keys lead to them, and the tuples to the latest of a conversation.
FlowsTraced ==
    /\ Len(flows) = Cardinality(Births)
    /\ \A b \in Births : flows[Rank(b)] = FlowBornAt(b)

KeysTraced ==
    /\ \A b \in Births : KeyAt(b) \in DOMAIN seenSyns /\ seenSyns[KeyAt(b)] = Rank(b)
    /\ \A k \in DOMAIN seenSyns : \E b \in Births : KeyAt(b) = k

TuplesTraced ==
    /\ \A b \in Births : \A t \in Tuples :
          t[1] = records[b].tuple[1] =>
             t \in DOMAIN tupleToFlow /\ (Latest(b) => tupleToFlow[t] = Rank(b))
    /\ \A t \in DOMAIN tupleToFlow : \E b \in Births : Latest(b) /\ records[b].tuple[1] = t[1]

StartsTraced == \A m \in Read : StartsAt(m) => KeyAt(m) \in DOMAIN seenSyns

RanksTraced == \A i \in 1..Len(flows) : \E b \in Births : Rank(b) = i

TraceInv == FlowsTraced /\ KeysTraced /\ StartsTraced /\ TuplesTraced /\ RanksTraced

LEMMA TraceInit == Init => TraceInv
<1> SUFFICES ASSUME Init PROVE TraceInv
  OBVIOUS
<1>1. Births = {} /\ Read = {}
  BY DEF Init, Births, Read
<1>2. Len(flows) = 0 /\ Cardinality(Births) = 0
  BY <1>1, FS_EmptySet DEF Init
<1>3. DOMAIN tupleToFlow = {} /\ DOMAIN seenSyns = {}
  BY DEF Init, EmptyTable
<1> QED
  BY <1>1, <1>2, <1>3 DEF TraceInv, FlowsTraced, KeysTraced, StartsTraced, TuplesTraced,
                             RanksTraced

LEMMA SameRecordsSameFlow ==
    ASSUME NEW old, NEW new, NEW b, NEW S, new[b] = old[b], \A m \in S : new[m] = old[m]
    PROVE  FlowOf(new, b, S) = FlowOf(old, b, S)
<1>1. FinsOf(new, S) = FinsOf(old, S) /\ \A m \in FinsOf(old, S) : m \in S
  BY DEF FinsOf
<1>2. SidesOf(new, b, S) = SidesOf(old, b, S)
  BY <1>1 DEF SidesOf
<1>3. Established(new, b, S) <=> Established(old, b, S)
  BY DEF Established
<1>4. Closed(new, b, S) <=> Closed(old, b, S)
  BY <1>1 DEF Closed
<1>5. /\ Established(new, b, S) \in BOOLEAN /\ Established(old, b, S) \in BOOLEAN
      /\ (~Closed(new, b, S)) \in BOOLEAN /\ (~Closed(old, b, S)) \in BOOLEAN
  BY DEF Established, Closed
<1> QED
  BY <1>2, <1>3, <1>4, <1>5, SameFields DEF FlowOf

\* What a writer appends changes nothing about the records read.
LEMMA ReadIsKept ==
    ASSUME TypeOK, UNCHANGED consumed, \A m \in Read : records'[m] = records[m]
    PROVE  /\ Births' = Births /\ \A b : Rank(b)' = Rank(b)
           /\ \A b \in Births : FlowBornAt(b)' = FlowBornAt(b) /\ KeyAt(b)' = KeyAt(b)
           /\ \A b \in Births : Latest(b)' <=> Latest(b)
<1>1. Read' = Read /\ \A n \in Read : 1..n - 1 \subseteq Read
  BY DEF TypeOK, FileOK, ReaderOK, Read
<1>2. \A n \in Read : /\ StartsAt(n)' <=> StartsAt(n)
                      /\ KeyAt(n)' = KeyAt(n) /\ (IsTcp(n)' <=> IsTcp(n))
  BY DEF StartsAt, IsTcp, KeyAt
<1>3. Births' = Births
  BY <1>1, <1>2 DEF Births
<1>4. \A b : Rank(b)' = Rank(b)
  BY <1>3 DEF Rank
<1>5. \A b \in Births : b \in Read
  BY DEF Births
<1>6. ASSUME NEW b \in Births
      PROVE  FlowBornAt(b)' = FlowBornAt(b)
  <2>1. \A n \in Read : BelongsTo(n, b)' <=> BelongsTo(n, b)
    BY <1>2, <1>3, <1>5 DEF BelongsTo
  <2>2. Own(b)' = Own(b) /\ Own(b) \subseteq Read
    BY <1>1, <2>1 DEF Own
  <2>3. FlowOf(records', b, Own(b)) = FlowOf(records, b, Own(b))
    BY <1>5, <2>2, SameRecordsSameFlow
  <2> QED
    BY <2>2, <2>3, FlowOfItsRecords
<1>7. \A b \in Births : Latest(b)' <=> Latest(b)
  BY <1>3, <1>5 DEF Latest
<1> QED
  BY <1>2, <1>3, <1>4, <1>5, <1>6, <1>7

LEMMA TraceKept ==
    ASSUME TypeOK, TraceInv, UNCHANGED <<tableVars, consumed>>, \A m \in Read : records'[m] = records[m]
    PROVE  TraceInv'
<1>1. UNCHANGED <<flows, tupleToFlow, seenSyns>>
  BY DEF tableVars
<1>2. /\ Births' = Births /\ \A b : Rank(b)' = Rank(b)
      /\ \A b \in Births : /\ FlowBornAt(b)' = FlowBornAt(b) /\ KeyAt(b)' = KeyAt(b)
                           /\ Latest(b)' <=> Latest(b)
  BY ReadIsKept
<1>3. \A b \in Births : records'[b] = records[b]
  BY DEF Births
<1>4. FlowsTraced' /\ RanksTraced'
  BY <1>1, <1>2 DEF TraceInv, FlowsTraced, RanksTraced
<1>5. KeysTraced' /\ StartsTraced'
  <2>1. Read' = Read
    BY DEF Read
  <2>2. \A m \in Read : (StartsAt(m)' <=> StartsAt(m)) /\ KeyAt(m)' = KeyAt(m)
    BY DEF StartsAt, IsTcp, KeyAt
  <2> QED
    BY <1>1, <1>2, <2>1, <2>2 DEF TraceInv, KeysTraced, StartsTraced
<1>6. TuplesTraced'
  BY <1>1, <1>2, <1>3 DEF TraceInv, TuplesTraced
<1> QED
  BY <1>4, <1>5, <1>6 DEF TraceInv

LEMMA ReadOneMore ==
    ASSUME TypeOK, ReadsNext
    PROVE  Read' = Read \cup {consumed + 1}
  BY DEF TypeOK, FileOK, ReaderOK, ReadsNext, Read

\* A record that belongs to no flow.
LEMMA TraceUnread ==
    ASSUME TypeOK, TraceInv, ReadsNext, UNCHANGED tableVars, NEW n, n = consumed + 1,
           ~StartsAt(n), \A b \in Births : ~BelongsTo(n, b)'
    PROVE  TraceInv'
<1>1. UNCHANGED <<flows, tupleToFlow, seenSyns, records>>
  BY DEF tableVars, ReadsNext
<1>2. /\ Births' = Births /\ \A b \in Births : Rank(b)' = Rank(b)
      /\ \A b \in Births : FlowBornAt(b)' = FlowBornAt(b)
  BY BirthsGrow, FlowGrows DEF Opens
<1>3. FlowsTraced' /\ RanksTraced'
  BY <1>1, <1>2 DEF TraceInv, FlowsTraced, RanksTraced
<1>4. KeysTraced' /\ StartsTraced'
  BY <1>1, <1>2, ReadOneMore DEF TraceInv, KeysTraced, StartsTraced, StartsAt, IsTcp, KeyAt
<1>5. TuplesTraced'
  BY <1>1, <1>2 DEF TraceInv, TuplesTraced, Latest
<1> QED
  BY <1>3, <1>4, <1>5 DEF TraceInv

\* A record that belongs to the flow of c.
LEMMA TraceUpdated ==
    ASSUME TypeOK, TraceInv, ReadsNext, NEW n, n = consumed + 1, ~Opens(n),
           NEW c \in Births, \A b \in Births : BelongsTo(n, b)' <=> b = c,
           UpdateFlow(records[n], Rank(c))
    PROVE  TraceInv'
<1>1. UNCHANGED <<tupleToFlow, seenSyns, records>> /\
      flows' = [flows EXCEPT ![Rank(c)] = Observed(flows[Rank(c)], records[n])]
  BY DEF UpdateFlow, ReadsNext
<1>2. /\ Births' = Births /\ \A b \in Births : Rank(b)' = Rank(b)
      /\ \A b \in Births : FlowBornAt(b)' =
            IF b = c THEN Observed(FlowBornAt(b), records[n]) ELSE FlowBornAt(b)
  BY BirthsGrow, FlowGrows
<1>3. flows \in Seq(Flow) /\ Len(flows') = Len(flows) /\ \A i \in 1..Len(flows) :
         flows'[i] = IF i = Rank(c) THEN Observed(flows[i], records[n]) ELSE flows[i]
  BY <1>1 DEF TypeOK, TablesOK
<1>4. FlowsTraced' /\ RanksTraced'
  <2>1. \A b \in Births : Rank(b) \in 1..Len(flows) /\ (Rank(b) = Rank(c) => b = c)
    BY BirthsAreRanked DEF TraceInv, FlowsTraced
  <2>2. \A b \in Births : flows[Rank(b)] = FlowBornAt(b)
    BY DEF TraceInv, FlowsTraced
  <2>3. \A b \in Births : flows'[Rank(b)] = FlowBornAt(b)'
    BY <1>2, <1>3, <2>1, <2>2
  <2> QED
    BY <1>2, <1>3, <2>3 DEF TraceInv, FlowsTraced, RanksTraced
<1>5. KeysTraced' /\ StartsTraced'
  <2>1. StartsAt(n) => KeyAt(n) = KeyAt(c)
    BY <1>1 DEF BelongsTo, StartsAt, KeyAt
  <2> QED
    BY <1>1, <1>2, <2>1, ReadOneMore DEF TraceInv, KeysTraced, StartsTraced, StartsAt, IsTcp, KeyAt
<1>6. TuplesTraced'
  BY <1>1, <1>2 DEF TraceInv, TuplesTraced, Latest
<1> QED
  BY <1>4, <1>5, <1>6 DEF TraceInv

\* A record that opens a flow.
LEMMA TraceOpened ==
    ASSUME TypeOK, TraceInv, ReadsNext, NEW n, n = consumed + 1, Opens(n), OpenFlow(records[n])
    PROVE  TraceInv'
<1> DEFINE p == records[n]
           last == Cardinality(Births) + 1
<1>1. /\ n \in Nat /\ n \in 1..Len(records) /\ p # NotTcp /\ IsStart(p) /\ UNCHANGED records
      /\ \A b \in Births : b \in Nat /\ b < n
  <2>1. consumed \in Nat /\ \A b \in Births : b \in Nat /\ b <= consumed
    BY BirthsAreOpened DEF TypeOK, FileOK, ReaderOK
  <2> QED
    BY <2>1 DEF ReadsNext, Opens, StartsAt, IsTcp
<1>2. p \in TcpPackets /\ p.tuple \in Tuples
  BY <1>1, RecordIsPacket DEF TcpPackets
<1>3. /\ Births' = Births \cup {n} /\ \A b \in Births : Rank(b)' = Rank(b)
      /\ Rank(n)' = last /\ Cardinality(Births') = last
  BY BirthsGrow
<1>4. /\ Len(flows) = Cardinality(Births) /\ \A b \in Births : flows[Rank(b)] = FlowBornAt(b)
      /\ \A b \in Births : Rank(b) \in 1..Len(flows)
      /\ Cardinality(Births) \in Nat /\ flows \in Seq(Flow)
  BY BirthsAreRanked DEF TraceInv, FlowsTraced, TypeOK, TablesOK
<1>5. /\ Len(flows') = last /\ flows'[last] = Observed(NewFlow(p.tuple), p)
      /\ \A i \in 1..Len(flows) : flows'[i] = flows[i]
  BY <1>4 DEF OpenFlow
<1>6. FlowsTraced'
  <2>1. FlowBornAt(n)' = Observed(NewFlow(p.tuple), p)
    BY FlowBegins
  <2>2. \A b \in Births : ~BelongsTo(n, b)'
    <3>1. \A b \in Births : KeyAt(b) # KeyAt(n)
      <4>1. \A b \in Births : b \in 1..n - 1 /\ StartsAt(b)
        BY <1>1, BirthsAreOpened DEF Births
      <4> QED
        BY <4>1 DEF Opens
    <3> QED
      BY <1>1, <3>1 DEF BelongsTo, KeyAt
  <2>3. \A b \in Births : FlowBornAt(b)' = FlowBornAt(b)
    BY <2>2, FlowGrows
  <2> QED
    BY <1>3, <1>4, <1>5, <2>1, <2>3 DEF FlowsTraced
<1>7. RanksTraced'
  <2>1. \A i \in 1..last : i = last \/ i \in 1..Len(flows)
    BY <1>4
  <2>2. \A i \in 1..Len(flows) : \E b \in Births : Rank(b) = i
    BY DEF TraceInv, RanksTraced
  <2> QED
    BY <1>3, <1>5, <2>1, <2>2 DEF RanksTraced
<1>8. SynKey(p) = KeyAt(n) /\ NewIndex = last
  BY <1>4 DEF SynKey, KeyAt, NewIndex
<1>9. /\ DOMAIN seenSyns' = DOMAIN seenSyns \cup {KeyAt(n)}
      /\ \A k \in DOMAIN seenSyns' : seenSyns'[k] = IF k = KeyAt(n) THEN last ELSE seenSyns[k]
  BY <1>8 DEF OpenFlow
<1>10. KeysTraced' /\ StartsTraced'
  <2>1. \A b \in Births : KeyAt(b) # KeyAt(n)
    <3>1. \A b \in Births : b \in 1..n - 1 /\ StartsAt(b)
      BY <1>1, BirthsAreOpened DEF Births
    <3> QED
      BY <3>1 DEF Opens
  <2>2. \A m : KeyAt(m)' = KeyAt(m) /\ (StartsAt(m)' <=> StartsAt(m))
    BY <1>1 DEF KeyAt, StartsAt, IsTcp
  <2>3. Read' = Read \cup {n}
    BY ReadOneMore
  <2>4. KeysTraced /\ StartsTraced
    BY DEF TraceInv
  <2>5. KeysTraced'
    BY <1>3, <1>9, <2>1, <2>2, <2>4 DEF KeysTraced
  <2>6. StartsTraced'
    BY <1>9, <2>2, <2>3, <2>4 DEF StartsTraced
  <2> QED
    BY <2>5, <2>6
<1>11. \A t \in Tuples : t[1] = p.tuple[1] <=> t \in BothDirections(p.tuple)
  BY <1>2 DEF Tuples, Sides, BothDirections, Reverse
<1>12. BothDirections(p.tuple) \subseteq Tuples
  BY <1>2, ReverseIsTuple DEF BothDirections
<1>13. /\ DOMAIN tupleToFlow' = DOMAIN tupleToFlow \cup BothDirections(p.tuple)
       /\ \A t \in DOMAIN tupleToFlow' :
             tupleToFlow'[t] = IF t \in BothDirections(p.tuple) THEN last ELSE tupleToFlow[t]
  BY <1>8 DEF OpenFlow
<1>14. TuplesTraced'
  <2>1. Latest(n)' /\ \A b \in Births :
           Latest(b)' <=> Latest(b) /\ records[b].tuple[1] # p.tuple[1]
    BY <1>1, <1>3 DEF Latest
  <2>2. TuplesTraced /\ DOMAIN tupleToFlow \subseteq Tuples
    BY DEF TraceInv, TypeOK, TablesOK
  <2>3. \A b \in Births' : \A t \in Tuples :
           t[1] = records[b].tuple[1] =>
              t \in DOMAIN tupleToFlow' /\ (Latest(b)' => tupleToFlow'[t] = Rank(b)')
    <3>1. ASSUME NEW t \in Tuples, t[1] = p.tuple[1]
          PROVE  t \in DOMAIN tupleToFlow' /\ tupleToFlow'[t] = Rank(n)'
      BY <1>3, <1>11, <1>13, <3>1
    <3>2. ASSUME NEW b \in Births, NEW t \in Tuples, t[1] = records[b].tuple[1]
          PROVE  t \in DOMAIN tupleToFlow' /\ (Latest(b)' => tupleToFlow'[t] = Rank(b)')
      <4>1. t \in DOMAIN tupleToFlow /\ (Latest(b) => tupleToFlow[t] = Rank(b))
        BY <2>2, <3>2 DEF TuplesTraced
      <4>2. Latest(b)' => Latest(b) /\ t \notin BothDirections(p.tuple)
        BY <1>11, <2>1, <3>2
      <4> QED
        BY <1>3, <1>13, <4>1, <4>2
    <3> QED
      BY <1>3, <3>1, <3>2
  <2>4. \A t \in DOMAIN tupleToFlow' : \E b \in Births' : Latest(b)' /\ records[b].tuple[1] = t[1]
    <3>1. \A t \in DOMAIN tupleToFlow : \E b \in Births : Latest(b) /\ records[b].tuple[1] = t[1]
      BY <2>2 DEF TuplesTraced
    <3> QED
      BY <1>3, <1>11, <1>12, <1>13, <2>1, <3>1
  <2> QED
    BY <1>1, <2>3, <2>4 DEF TuplesTraced
<1> QED
  BY <1>6, <1>7, <1>10, <1>14 DEF TraceInv

LEMMA TraceRead ==
    ASSUME TypeOK, TraceInv, ReadsNext, Consume(records[consumed + 1])
    PROVE  TraceInv'
<1>1. PICK n : n = consumed + 1
  OBVIOUS
<1> DEFINE p == records[n]
<1>2. /\ n \in Nat /\ n \in 1..Len(records) /\ UNCHANGED records
      /\ \A b \in Births : b \in Nat /\ b < n /\ b \in 1..n - 1 /\ StartsAt(b)
  <2>1. consumed \in Nat /\ \A b \in Births : b \in 1..consumed /\ StartsAt(b)
    BY DEF TypeOK, FileOK, ReaderOK, Births, Read
  <2> QED
    BY <1>1, <2>1 DEF ReadsNext
<1>3. CASE p = NotTcp
  <2>1. ~StartsAt(n) /\ \A b \in Births : ~BelongsTo(n, b)'
    BY <1>2, <1>3 DEF StartsAt, IsTcp, BelongsTo
  <2> QED
    BY <1>1, <1>3, <2>1, TraceUnread DEF Consume
<1>4. CASE p # NotTcp /\ IsStart(p) /\ SynKey(p) \notin DOMAIN seenSyns
  <2>1. Opens(n)
    <3>1. StartsAt(n) /\ KeyAt(n) \notin DOMAIN seenSyns
      BY <1>4 DEF StartsAt, IsTcp, SynKey, KeyAt
    <3>2. \A m \in 1..n - 1 : m \in Read
      BY <1>1, <1>2 DEF Read, TypeOK, FileOK, ReaderOK
    <3> QED
      BY <3>1, <3>2 DEF TraceInv, StartsTraced, Opens
  <2>2. OpenFlow(p)
    BY <1>1, <1>4 DEF Consume, ConsumeTcp
  <2> QED
    BY <1>1, <2>1, <2>2, TraceOpened
<1>5. CASE p # NotTcp /\ IsStart(p) /\ SynKey(p) \in DOMAIN seenSyns
  <2>1. PICK c \in Births : KeyAt(c) = KeyAt(n)
    BY <1>5 DEF TraceInv, KeysTraced, SynKey, KeyAt
  <2>2. ~Opens(n)
    BY <1>2, <2>1 DEF Opens
  <2>3. UpdateFlow(p, Rank(c))
    <3>1. seenSyns[SynKey(p)] = Rank(c)
      BY <2>1 DEF TraceInv, KeysTraced, SynKey, KeyAt
    <3> QED
      BY <1>1, <1>5, <3>1 DEF Consume, ConsumeTcp
  <2>4. \A b \in Births : BelongsTo(n, b)' <=> b = c
    <3>1. \A b \in Births : KeyAt(b) = KeyAt(n) <=> b = c
      BY <2>1, BirthsAreOpened
    <3> QED
      BY <1>2, <1>5, <3>1 DEF BelongsTo, IsTcp, KeyAt
  <2> QED
    BY <1>1, <2>2, <2>3, <2>4, TraceUpdated
<1>6. CASE p # NotTcp /\ ~IsStart(p)
  <2>1. p.tuple \in Tuples
    BY <1>2, <1>6, RecordIsPacket DEF TcpPackets
  <2>2. ~StartsAt(n) /\ ~Opens(n)
    BY <1>6 DEF StartsAt, Opens
  <2>3. Births' = Births
    BY <1>1, <2>2, BirthsGrow
  <2>4. \A b \in Births : BelongsTo(n, b)' <=> Latest(b) /\ p.tuple[1] = records[b].tuple[1]
    <3>1. ASSUME NEW b \in Births
          PROVE  (\A a \in Births : records[a].tuple[1] = records[b].tuple[1] => a <= b \/ a > n) <=> Latest(b)
      BY <1>2 DEF Latest
    <3> QED
      BY <1>2, <1>6, <2>3, <3>1 DEF BelongsTo, IsTcp
  <2>5. CASE p.tuple \in DOMAIN tupleToFlow
    <3>1. PICK c \in Births : Latest(c) /\ records[c].tuple[1] = p.tuple[1]
      BY <2>5 DEF TraceInv, TuplesTraced
    <3>2. tupleToFlow[p.tuple] = Rank(c)
      BY <2>1, <3>1 DEF TraceInv, TuplesTraced
    <3>3. UpdateFlow(p, Rank(c))
      BY <1>1, <1>6, <2>5, <3>2 DEF Consume, ConsumeTcp, Owner
    <3>4. \A b \in Births : Latest(b) /\ records[b].tuple[1] = p.tuple[1] => b = c
      BY <1>2, <3>1 DEF Latest
    <3>5. \A b \in Births : BelongsTo(n, b)' <=> b = c
      BY <2>4, <3>1, <3>4
    <3> QED
      BY <1>1, <2>2, <3>3, <3>5, TraceUpdated
  <2>6. CASE p.tuple \notin DOMAIN tupleToFlow
    <3>1. \A b \in Births : records[b].tuple[1] # p.tuple[1]
      BY <2>1, <2>6 DEF TraceInv, TuplesTraced
    <3>2. UNCHANGED tableVars
      BY <1>1, <1>6, <2>6 DEF Consume, ConsumeTcp
    <3> QED
      BY <1>1, <2>2, <2>4, <3>1, <3>2, TraceUnread
  <2> QED
    BY <2>5, <2>6
<1> QED
  BY <1>3, <1>4, <1>5, <1>6

LEMMA TraceStep == TypeOK /\ TraceInv /\ [Next]_vars => TraceInv'
<1> SUFFICES ASSUME TypeOK, TraceInv, [Next]_vars PROVE TraceInv'
  OBVIOUS
<1>1. CASE ReadRecord
  <2>1. ReadsNext /\ Consume(records[consumed + 1])
    BY <1>1 DEF ReadRecord, ReadsNext, fileVars, TypeOK, FileOK, ReaderOK
  <2> QED
    BY <2>1, TraceRead
<1>2. CASE FinishRecord
  <2>1. PICK p \in Packets : records' = Append(records, p)
    BY <1>2 DEF FinishRecord
  <2>2. \A m \in Read : records'[m] = records[m]
    BY <2>1 DEF TypeOK, FileOK, ReaderOK, Read
  <2> QED
    BY <1>2, <2>2, TraceKept DEF FinishRecord, readerVars
<1>3. CASE UNCHANGED <<records, tableVars, consumed>>
  BY <1>3, TraceKept
<1> QED
  BY <1>1, <1>2, <1>3 DEF Next, Writer, Poll, CreateFile, WriteHeader, BeginRecord, StopWriter,
     PollBeforeHeader, PollUnsupported, OpenPcap, PollReturns, readerVars, fileVars, vars

\* Incremental tracking, over any schedule of polls and any writer, computes the
\* flows that one pass over the records read would: one per start, however often
\* it was sent, established and closed by the packets that belong to it.
THEOREM TablesMatchTrace == Spec => []MatchesTrace
<1>1. TraceInv => MatchesTrace
  BY DEF TraceInv, FlowsTraced, MatchesTrace
<1> QED
  BY <1>1, TypeInit, TypeStep, TraceInit, TraceStep, PTL DEF Spec

-----------------------------------------------------------------------------
(* The numbers of a poll *)

\* Births and flows are as many, whatever is asked of them.
LEMMA RankCounts ==
    ASSUME TypeOK, NEW C \in SUBSET Births, NEW D,
           \A b \in C : Rank(b) \in D, \A i \in D : \E b \in C : Rank(b) = i
    PROVE  Cardinality(C) = Cardinality(D)
<1> DEFINE rank == [b \in C |-> Rank(b)]
<1>1. IsFiniteSet(C)
  BY BirthsAreRanked, FS_Subset
<1>2. \A a, b \in C : Rank(a) = Rank(b) => a = b
  BY BirthsAreRanked
<1>3. rank \in Bijection(C, D)
  BY <1>2 DEF Bijection, Injection, Surjection, IsInjective
<1>4. ExistsBijection(C, D)
  BY <1>3 DEF ExistsBijection
<1> QED
  BY <1>1, <1>4, FS_Bijection

\* What one pass over the records read would report.
Told ==
    LET counted == {b \in Births : CountMode = "syn" \/ FlowBornAt(b).established}
        active == {b \in counted : FlowBornAt(b).active}
        ipv6(S) == {b \in S : records[b].tuple[1] \in IPv6}
    IN [total          |-> Cardinality(counted),
        active         |-> Cardinality(active),
        completed      |-> Cardinality(counted \ active),
        ipv6           |-> Cardinality(ipv6(counted)),
        active_ipv6    |-> Cardinality(ipv6(active)),
        completed_ipv6 |-> Cardinality(ipv6(counted \ active))]

LEMMA StatsTell ==
    ASSUME TypeOK, TraceInv
    PROVE  Stats = Told
<1> DEFINE counted == {b \in Births : CountMode = "syn" \/ FlowBornAt(b).established}
           active == {b \in counted : FlowBornAt(b).active}
           ipv6(S) == {b \in S : records[b].tuple[1] \in IPv6}
<1>1. /\ \A b \in Births : Rank(b) \in 1..Len(flows) /\ flows[Rank(b)] = FlowBornAt(b)
      /\ \A i \in 1..Len(flows) : \E b \in Births : Rank(b) = i
  BY BirthsAreRanked DEF TraceInv, FlowsTraced, RanksTraced
<1>2. \A b : FlowBornAt(b).synForward = records[b].tuple
  BY FlowOfItsRecords DEF FlowOf
<1>3. \A b \in Births : /\ b \in counted <=> Rank(b) \in Counted
                        /\ b \in active <=> Rank(b) \in Active
                        /\ b \in ipv6(counted) <=> Rank(b) \in OverIPv6(Counted)
                        /\ b \in ipv6(active) <=> Rank(b) \in OverIPv6(Active)
                        /\ b \in ipv6(counted \ active) <=> Rank(b) \in OverIPv6(Counted \ Active)
  BY <1>1, <1>2 DEF Counted, Active, OverIPv6
<1>4. \A C \in SUBSET Births, D \in SUBSET (1..Len(flows)) :
         (\A b \in Births : b \in C <=> Rank(b) \in D) => Cardinality(C) = Cardinality(D)
  <2> SUFFICES ASSUME NEW C \in SUBSET Births, NEW D \in SUBSET (1..Len(flows)),
                      \A b \in Births : b \in C <=> Rank(b) \in D
               PROVE  Cardinality(C) = Cardinality(D)
    OBVIOUS
  <2>1. \A b \in C : Rank(b) \in D
    OBVIOUS
  <2>2. \A i \in D : \E b \in C : Rank(b) = i
    BY <1>1
  <2> QED
    BY <2>1, <2>2, RankCounts
<1>5. /\ counted \in SUBSET Births /\ active \in SUBSET Births /\ counted \ active \in SUBSET Births
      /\ ipv6(counted) \in SUBSET Births /\ ipv6(active) \in SUBSET Births
      /\ ipv6(counted \ active) \in SUBSET Births
  OBVIOUS
<1>6. /\ Counted \in SUBSET (1..Len(flows)) /\ Active \in SUBSET (1..Len(flows))
      /\ Counted \ Active \in SUBSET (1..Len(flows))
      /\ OverIPv6(Counted) \in SUBSET (1..Len(flows)) /\ OverIPv6(Active) \in SUBSET (1..Len(flows))
      /\ OverIPv6(Counted \ Active) \in SUBSET (1..Len(flows))
  BY DEF Counted, Active, OverIPv6
<1>7. Told = [total |-> Cardinality(counted), active |-> Cardinality(active),
              completed |-> Cardinality(counted \ active), ipv6 |-> Cardinality(ipv6(counted)),
              active_ipv6 |-> Cardinality(ipv6(active)),
              completed_ipv6 |-> Cardinality(ipv6(counted \ active))]
  BY Zenon DEF Told
<1> HIDE DEF counted, active, ipv6
<1>8. \A b \in Births : b \in counted \ active <=> Rank(b) \in Counted \ Active
  BY <1>3
<1>9. /\ Cardinality(counted) = Cardinality(Counted) /\ Cardinality(active) = Cardinality(Active)
      /\ Cardinality(counted \ active) = Cardinality(Counted \ Active)
  BY <1>3, <1>4, <1>5, <1>6, <1>8
<1>10. /\ Cardinality(ipv6(counted)) = Cardinality(OverIPv6(Counted))
       /\ Cardinality(ipv6(active)) = Cardinality(OverIPv6(Active))
       /\ Cardinality(ipv6(counted \ active)) = Cardinality(OverIPv6(Counted \ Active))
  BY <1>3, <1>4, <1>5, <1>6
<1> QED
  BY <1>7, <1>9, <1>10 DEF Stats

ReportIsStats == reader = "idle" /\ headerRead => reported = Stats

LEMMA ReportIsStatsStep == TypeOK /\ ReportIsStats /\ [Next]_vars => ReportIsStats'
<1> SUFFICES ASSUME TypeOK, ReportIsStats, [Next]_vars PROVE ReportIsStats'
  OBVIOUS
<1>1. ASSUME UNCHANGED tableVars
      PROVE  Stats' = Stats
  BY <1>1 DEF tableVars, Stats, Counted, Active, OverIPv6
<1>2. CASE UNCHANGED <<tableVars, readerVars>>
  BY <1>1, <1>2 DEF readerVars, ReportIsStats
<1>3. CASE PollBeforeHeader \/ PollUnsupported \/ OpenPcap
  BY <1>3 DEF PollBeforeHeader, PollUnsupported, OpenPcap, ReportIsStats
<1>4. CASE ReadRecord
  BY <1>4 DEF ReadRecord, ReportIsStats
<1>5. CASE PollReturns
  BY <1>1, <1>5 DEF PollReturns, ReportIsStats
<1> QED
  BY <1>2, <1>3, <1>4, <1>5 DEF Next, Writer, Poll, CreateFile, WriteHeader, BeginRecord,
     FinishRecord, StopWriter, vars

\* What a poll returned is what one pass over the records read would count, in
\* either count mode and for either IP version.
THEOREM ReportsMatchTrace == Spec => []ReportMatchesTrace
<1>1. Init => ReportIsStats
  BY DEF Init, ReportIsStats
<1>2. TypeOK /\ TraceInv /\ ReportIsStats => ReportMatchesTrace
  <2> SUFFICES ASSUME TypeOK, TraceInv, ReportIsStats, reader = "idle", headerRead
               PROVE  reported = Told
    BY Zenon DEF ReportMatchesTrace, Told
  <2> QED
    BY StatsTell DEF ReportIsStats
<1> QED
  BY <1>1, <1>2, TypeInit, TypeStep, TraceInit, TraceStep, ReportIsStatsStep, PTL DEF Spec

\* A poll returns only when it has read every record that was complete when it
\* opened the file.
THEOREM PollsAreCurrent == Spec => PollIsCurrent
<1>1. TypeOK /\ [Next]_vars => [reader = "reading" /\ reader' = "idle" => consumed' >= due]_vars
  <2> SUFFICES ASSUME TypeOK, Next, reader = "reading", reader' = "idle"
               PROVE  consumed' >= due
    OBVIOUS
  <2>1. PollReturns
    BY DEF Next, Writer, Poll, CreateFile, WriteHeader, BeginRecord, FinishRecord, StopWriter,
           PollBeforeHeader, PollUnsupported, OpenPcap, ReadRecord, readerVars
  <2> QED
    BY <2>1 DEF PollReturns, TypeOK, FileOK, ReaderOK
<1> QED
  BY <1>1, TypeCorrect, PTL DEF Spec, PollIsCurrent
=============================================================================
