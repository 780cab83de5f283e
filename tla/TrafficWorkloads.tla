-------------------------- MODULE TrafficWorkloads --------------------------
(***************************************************************************)
(* The two workloads of a pilot capture: UDP echo datagrams through a      *)
(* SOCKS5 proxy (socks5_udp.py) and pages in a browser (playwright_web.py).*)
(*                                                                         *)
(* A datagram is its index: the payload starts with it and is random after *)
(* it.  Between the client and the echo target a reply may be lost, late,  *)
(* overtaken or duplicated, and anybody can send to the client's socket,   *)
(* which is read whoever sent.  Every exchange sends one datagram and      *)
(* reads one, so what the socket holds is part of the state.               *)
(***************************************************************************)
EXTENDS Naturals, Sequences, SequencesExt

CONSTANTS
    Attempts,      \* count, or max_pages
    MaxInbox       \* bound: datagrams that wait in the socket

ASSUME AttemptsAssumption == Attempts \in Nat \ {0}
ASSUME MaxInboxAssumption == MaxInbox \in Nat \ {0}

VARIABLES
    workload,      \* "udp" or "web"
    step,          \* what the workload does next
    events,        \* the statuses of the events so far, "ok" or "error"
    echoes,        \* datagrams whose echo is under way, or can come again
    inbox,         \* the socket's queue: indices, and 0 for what is no echo
    backlog        \* history: datagrams that waited when this one was sent

netVars == <<echoes, inbox, backlog>>
workloadVars == <<workload, step, events, netVars>>

SocketOpen == step \in {"sending", "receiving"}
Index == Len(events) + 1

-----------------------------------------------------------------------------
(* The network and the proxy *)

\* An echo that never arrives is lost.
EchoArrives ==
    /\ SocketOpen /\ Len(inbox) < MaxInbox
    /\ \E index \in echoes :
          /\ inbox' = Append(inbox, index)
          /\ echoes' \in {echoes, echoes \ {index}}
    /\ UNCHANGED <<workload, step, events, backlog>>

\* A datagram of another sender, or a reply the SOCKS5 header check refuses.
StrayArrives ==
    /\ SocketOpen /\ Len(inbox) < MaxInbox
    /\ inbox' = Append(inbox, 0)
    /\ UNCHANGED <<workload, step, events, echoes, backlog>>

-----------------------------------------------------------------------------
(* generate_socks5_udp_traffic *)

\* Lines 41-54 and 127-145: the control connection is negotiated.
Associate ==
    /\ workload = "udp" /\ step = "idle"
    /\ step' = "sending"
    /\ UNCHANGED <<workload, events, netVars>>

EndsExchange(status) ==
    /\ events' = Append(events, status)
    /\ step' = IF Index = Attempts THEN "returned" ELSE "sending"

\* Line 64.
SendDatagram ==
    /\ step = "sending"
    /\ backlog' = Len(inbox)
    /\ echoes' = echoes \cup {Index}
    /\ step' = "receiving"
    /\ UNCHANGED <<workload, events, inbox>>

\* Lines 64 and 71-79.
SendFails ==
    /\ step = "sending"
    /\ EndsExchange("error")
    /\ UNCHANGED <<workload, netVars>>

\* Mutant of IsOwnEcho: any well-formed reply will do.
IsAnyEcho(datagram) == datagram # 0

\* Lines 66-68, with _udp_response_payload.
IsOwnEcho(datagram) == datagram = Index

\* Lines 65-79: the oldest datagram of the socket is taken, and only one.
ReceiveDatagram ==
    /\ step = "receiving" /\ inbox # <<>>
    /\ EndsExchange(IF IsOwnEcho(Head(inbox)) THEN "ok" ELSE "error")
    /\ inbox' = Tail(inbox)
    /\ UNCHANGED <<workload, echoes, backlog>>

\* Mutant of TimesOut: the socket has no timeout.
NeverTimesOut == FALSE

\* Lines 54 and 71-79.
TimesOut == step = "receiving" /\ inbox = <<>>
ReceiveTimesOut ==
    /\ TimesOut
    /\ EndsExchange("error")
    /\ UNCHANGED <<workload, netVars>>

-----------------------------------------------------------------------------
(* generate_web_traffic *)

\* Lines 44-51.  The deadline runs since line 40.
LaunchBrowser ==
    /\ workload = "web" /\ step = "idle"
    /\ step' = "paging"
    /\ UNCHANGED <<workload, events, netVars>>

\* Mutant of MorePages: one page too many.
MorePagesInclusive == Len(events) <= Attempts

MorePages == Len(events) < Attempts

\* Lines 56-87.  Any page that loads is ok, whatever its HTTP status.
VisitPage ==
    /\ step = "paging" /\ MorePages
    /\ \E status \in {"ok", "error"} : events' = Append(events, status)
    /\ UNCHANGED <<workload, step, netVars>>

\* Lines 53-55: max_pages or the deadline.
StopPaging ==
    /\ step = "paging"
    /\ step' = "closing"
    /\ UNCHANGED <<workload, events, netVars>>

CloseBrowser ==
    /\ step = "closing"
    /\ step' = "returned"
    /\ UNCHANGED <<workload, events, netVars>>

-----------------------------------------------------------------------------
\* The proxy refuses the association, the browser does not start, or it
\* cannot be closed: the exception takes the events with it.
WorkloadFails ==
    /\ step = "idle" \/ step = "closing"
    /\ step' = "failed"
    /\ UNCHANGED <<workload, events, netVars>>

Successful == Cardinality({i \in DOMAIN events : events[i] = "ok"})

\* Lines 83-87, and 92-96 of playwright_web.py.
WorkloadResult == [attempted |-> Len(events), successful |-> Successful, events |-> events]

WorkloadInit ==
    /\ step = "idle" /\ events = <<>>
    /\ echoes = {} /\ inbox = <<>> /\ backlog = 0

RunWorkload ==
    \/ Associate \/ SendDatagram \/ SendFails \/ ReceiveDatagram \/ ReceiveTimesOut
    \/ LaunchBrowser \/ VisitPage \/ StopPaging \/ CloseBrowser
    \/ WorkloadFails

Network == EchoArrives \/ StrayArrives

-----------------------------------------------------------------------------
WorkloadTypeOK ==
    /\ workload \in {"udp", "web"}
    /\ step \in {"idle", "sending", "receiving", "paging", "closing", "returned", "failed"}
    /\ events \in Seq({"ok", "error"}) /\ Len(events) <= Attempts
    /\ echoes \subseteq 1..Attempts
    /\ inbox \in Seq(0..Attempts) /\ Len(inbox) <= MaxInbox
    /\ backlog \in 0..MaxInbox

\* A datagram counts as successful only if the socket was empty when it was
\* sent: one late, duplicated or foreign datagram in the queue fails this
\* exchange and leaves its reply behind for the next one, so that an old reply
\* is never taken for the echo of a new datagram, however far the replies lag.
OkMeansFreshEcho ==
    [][workload = "udp" /\ events' # events /\ Last(events') = "ok" => backlog = 0]_workloadVars
=============================================================================
