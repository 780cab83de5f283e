------------------------- MODULE MCNetworkIsolation -------------------------
(* Two captures on a machine with two firewall profiles the user left open. *)
EXTENDS NetworkIsolation

MCUserPolicy == [p \in Profiles |-> "Allow"]
=============================================================================
