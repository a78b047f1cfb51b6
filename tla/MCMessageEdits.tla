--------------------------- MODULE MCMessageEdits ---------------------------
(* A small instance of MessageEdits for TLC. *)
EXTENDS MessageEdits, TLC

AheadSkew == [t \in OwnerTab |-> 1]
=============================================================================
