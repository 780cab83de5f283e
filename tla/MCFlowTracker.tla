--------------------------- MODULE MCFlowTracker ---------------------------
(***************************************************************************)
(* FlowTracker with the packets it tells apart, over an IPv4 and an IPv6   *)
(* conversation.  On the first, two initial sequence numbers let a tuple   *)
(* be reused while its old flow is open, and a SYN be retransmitted;       *)
(* accepts and FINs come from either side.  The second interleaves with it *)
(* and is only opened and accepted.  The sequence number of other packets  *)
(* is not looked at.                                                       *)
(***************************************************************************)
EXTENDS FlowTracker

CONSTANTS c1, c2, isn1, isn2

Shape(flags, tuples, seqs) == [tuple: tuples, seq: seqs, flags: {flags}]

MCPackets ==
    {NotTcp}
    \cup Shape({"SYN"}, {<<c1, 0>>}, {isn1, isn2})
    \cup Shape({"SYN", "ACK"}, {c1} \X Sides, {isn1})
    \cup Shape({"FIN", "ACK"}, {c1} \X Sides, {isn1})
    \cup Shape({"RST"}, {<<c1, 0>>}, {isn1})
    \cup Shape({"SYN"}, {<<c2, 0>>}, {isn1}) \cup Shape({"SYN", "ACK"}, {<<c2, 1>>}, {isn1})
=============================================================================
