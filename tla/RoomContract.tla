----------------------------- MODULE RoomContract -----------------------------
(***************************************************************************)
(* What roomManager promises about who is in a room, without saying how    *)
(* rooms are kept.  A room is founded by one user, perhaps with a second,  *)
(* users enter and depart one at a time, a room may be dissolved, and a    *)
(* restart brings back the members it had at some earlier time, or none.   *)
(***************************************************************************)
EXTENDS Naturals, FiniteSets

CONSTANTS User, RoomId

VARIABLES
    members, \* who is in each room
    past     \* who has been in each room, at any time

Init ==
    /\ members = [r \in RoomId |-> {}]
    /\ past = [r \in RoomId |-> {{}}]

(* A second user enters at once, but a restart may find the first alone. *)
Found(r, u, v) ==
    /\ members[r] = {}
    /\ members' = [members EXCEPT ![r] = {u, v}]
    /\ past' = [past EXCEPT ![r] = @ \cup {{u}, {u, v}}]

Remembers == past' = [r \in RoomId |-> past[r] \cup {members'[r]}]

Enter(r, u) ==
    /\ members[r] # {}
    /\ members' = [members EXCEPT ![r] = @ \cup {u}]
    /\ Remembers

Depart(r, u) ==
    /\ u \in members[r]
    /\ members' = [members EXCEPT ![r] = @ \ {u}]
    /\ Remembers

Dissolve(r) ==
    /\ members[r] # {}
    /\ members' = [members EXCEPT ![r] = {}]
    /\ Remembers

(* All rooms are lost, or rooms come back as they were at some time. *)
Forget ==
    /\ members' = [r \in RoomId |-> {}]
    /\ UNCHANGED past

Restore ==
    /\ DOMAIN members' = RoomId
    /\ \A r \in RoomId : members'[r] \in past[r]
    /\ UNCHANGED past

Next ==
    \/ \E r \in RoomId, u \in User :
          \/ \E v \in User : Found(r, u, v)
          \/ Enter(r, u) \/ Depart(r, u) \/ Dissolve(r)
    \/ Forget
    \/ Restore

Spec == Init /\ [][Next]_<<members, past>>
=============================================================================
