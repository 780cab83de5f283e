---------------------------- MODULE MCEndpoints ----------------------------
(* Two cases, two images; all interchangeable. *)
EXTENDS Endpoints, TLC

CONSTANTS s1, s2, caseA, caseB, old, new

Symmetry == Permutations({s1, s2}) \cup Permutations({caseA, caseB}) \cup Permutations({old, new})
=============================================================================
