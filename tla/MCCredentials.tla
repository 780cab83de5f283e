--------------------------- MODULE MCCredentials ---------------------------
(* Two shells; one init-secrets takes two secrets, REALITY and VLESS one each. *)
EXTENDS Credentials, TLC

CONSTANTS s1, s2

Symmetry == Permutations({s1, s2})
=============================================================================
