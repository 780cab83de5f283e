---------------------------- MODULE DatasetAudit ----------------------------
(***************************************************************************)
(* audit_session: whether a session directory passes the automatic gate,   *)
(* as a predicate of what the directory holds at that moment.              *)
(*                                                                         *)
(* A record carries the keys the two writers of records.py give it; a key  *)
(* that a writer leaves out, like a file that is not there, is None.  A    *)
(* PCAP is the number of its whole packets and whether it ends inside one; *)
(* its digest is the PCAP itself.  The audit is run with the case and the  *)
(* server of the session, so the checks of the address, the port, the BPF  *)
(* and the packets outside the tunnel pass and are left out.               *)
(***************************************************************************)
EXTENDS Naturals

CONSTANTS
    None,     \* an absent key or file
    Torn      \* what a write that was cut short leaves: an empty file

ASSUME AbsentAssumption == None \notin Nat /\ None \notin BOOLEAN /\ Torn # None

\* The length of a PCAP tells a torn packet from none and from a whole one.
Bytes(pcap) == 2 * pcap.packets + (IF pcap.torn THEN 1 ELSE 0)

\* capinfos fails on a file that ends inside a packet.
ReadablePackets(pcap) == IF pcap.torn THEN 0 ELSE pcap.packets

\* Lines 69-88 and 121-123.
PcapPasses(capture, pcap) ==
    /\ pcap # None /\ ReadablePackets(pcap) > 0
    /\ capture.file_bytes # None => capture.file_bytes = Bytes(pcap)
    /\ capture.pcap_sha256 # None => capture.pcap_sha256 = pcap

\* A missing manifest is a warning, an empty one lists nothing and is valid.
ManifestPasses(manifest, files) ==
    manifest \in {None, Torn} \/ \A name \in DOMAIN manifest : files[name] = manifest[name]

\* Mutant of CompletionPasses: open flows are not looked at.
CompletionByTarget(capture, transport) ==
    IF capture.target_flows = None
    THEN capture.target_met # FALSE
    ELSE /\ capture.flows.total >= capture.target_flows
         /\ transport = "udp" =>
               capture.stop_reason = "target_udp_conversations_reached_and_traffic_idle"

\* A target in flows, or the target the capture itself calls met.
CompletionPasses(capture, transport) ==
    IF capture.target_flows = None
    THEN capture.target_met # FALSE
    ELSE /\ capture.flows.total >= capture.target_flows
         /\ IF transport = "tcp"
            THEN /\ capture.flows.active = 0
                 /\ capture.flows.completed = capture.flows.total
                 /\ capture.stop_reason = "target_flows_reached_and_all_flows_closed"
            ELSE capture.stop_reason = "target_udp_conversations_reached_and_traffic_idle"

\* A log without a drop counter is a warning.
DropsPass(dropped) == dropped \in {None, 0}

\* Records of formal segments have neither key.
WorkloadPasses(status, successful) ==
    /\ status \in {None, "passed"}
    /\ successful # 0
=============================================================================
