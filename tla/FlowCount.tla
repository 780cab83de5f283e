----------------------------- MODULE FlowCount -----------------------------
(***************************************************************************)
(* What a capture loop may rely on when it polls a flow tracker: the       *)
(* numbers it is handed.  A segment decides that its target is reached,    *)
(* and later that every flow has drained, from successive reports, so a    *)
(* report must never take back a flow it counted or a completion it        *)
(* announced.                                                              *)
(***************************************************************************)
EXTENDS Naturals

VARIABLES total,        \* total_flows of the last report
          completed     \* completed_flows of the last report

vars == <<total, completed>>

TypeOK == total \in Nat /\ completed \in 0..total

Init == total = 0 /\ completed = 0

\* A new report: flows are only ever added and only ever completed.
Report == /\ total' >= total
          /\ completed' >= completed
          /\ completed' <= total'

Spec == Init /\ [][Report]_vars
=============================================================================
