------------------------ MODULE MCMessageLifecycle ------------------------
(* A small instance of MessageLifecycle for TLC. *)
EXTENDS MessageLifecycle, TLC

Handlers == Permutations(Task)
=============================================================================
