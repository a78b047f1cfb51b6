--------------------------- MODULE MCConnections ---------------------------
(* A small instance of Connections for TLC: the sessions s1 and s2 are one *)
(* user's, s3 would be another's.                                          *)
EXTENDS Connections, TLC

Owner == [s \in Sid |-> IF s = "s3" THEN "u2" ELSE "u1"]
=============================================================================
