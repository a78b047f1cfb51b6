--------------------------- MODULE MCGroupDelivery ---------------------------
(* A small instance of GroupDelivery for TLC: the recipients are alike. *)
EXTENDS GroupDelivery, TLC

Perms == Permutations(User \ {Sender})
=============================================================================
