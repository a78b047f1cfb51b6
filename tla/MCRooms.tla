------------------------------ MODULE MCRooms ------------------------------
(* A small instance of Rooms for TLC: users are interchangeable. *)
EXTENDS Rooms, TLC

Perms == Permutations(User)
=============================================================================
