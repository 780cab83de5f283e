--------------------------- MODULE MCPilotCapture ---------------------------
(* Three datagrams or pages, a socket that holds two, two packets. *)
EXTENDS PilotCapture
=============================================================================
