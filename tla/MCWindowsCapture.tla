-------------------------- MODULE MCWindowsCapture --------------------------
(* An IPv4 and an IPv6 conversation; the first reuses its tuple. *)
EXTENDS WindowsCapture

CONSTANTS c1, c2, isn1, isn2

Shape(c, kind, seq) == [conversation |-> c, side |-> 0, seq |-> seq, kind |-> kind]

MCPackets == {Shape(c1, "syn", isn1), Shape(c1, "syn", isn2), Shape(c1, "tcp", isn1),
              Shape(c2, "udp", isn1)}
MCIntervals == {1, 2}
MCPacketSizes == {1, 3}
=============================================================================
