-------------------------------- MODULE Rooms --------------------------------
(***************************************************************************)
(* Group rooms: members, roles and their persistence                       *)
(* (websocket/state/roomManager.js, handlers/room.js, storage/room.mongo). *)
(*                                                                         *)
(* A room lives in memory; every change starts a write of the whole room   *)
(* to the rooms collection.  A change is made at once, its write lands     *)
(* later: writes of one room may land in any order, or fail.  Leaving is   *)
(* the one operation that goes on after an await: when the owner has left, *)
(* it waits for the write of the transfer or deletion and then persists    *)
(* or deletes again, by room id, whatever has become of the room.          *)
(*                                                                         *)
(* A restart forgets memory and loads the collection while requests are    *)
(* already served.                                                         *)
(***************************************************************************)
EXTENDS Naturals, FiniteSets

CONSTANTS
    User,
    RoomId,
    MaxWrites, \* bound: writes started per room
    MaxFaults  \* bound: failed writes and restarts

ASSUME WritesAssumption == MaxWrites \in Nat
ASSUME FaultsAssumption == MaxFaults \in Nat

VARIABLES
    room,      \* rooms: the rooms in memory
    index,     \* userRooms: room ids by user
    store,     \* the rooms collection
    writes,    \* upserts and deletes under way
    newest,    \* history: number of the last write started, per room
    landed,    \* history: number of the write the collection holds
    leaving,   \* leaveRoom activations that await the write of a transfer
    phase,     \* whether loadFromStore has finished
    replaced,  \* history: rooms requests were changing when they were loaded
    demoted,   \* history: rooms whose last owner was given another role
    promoted,  \* history: rooms that were given a second owner
    past,      \* history: the sets of members each room has had
    faults

memoryVars  == <<room, index>>
storeVars   == <<store, landed>>
writeVars   == <<writes, newest>>
historyVars == <<demoted, promoted, past>>
vars == <<memoryVars, storeVars, writeVars, leaving, phase, replaced,
          historyVars, faults>>

Role == {"OWNER", "ADMIN", "MEMBER"}

(* The version in which a member joined stands for the time of joining:    *)
(* every join has a version of its own, and joinedAtByUser keeps the order *)
(* of insertion where two clock readings are equal.  A room id without a   *)
(* room is NoRoom: there are no rooms without members.                     *)
NoRoom == [members |-> {}, roles |-> [v \in {} |-> "MEMBER"],
           joined |-> [v \in {} |-> 0], version |-> 0]

IsRoom(x) ==
    /\ x.members \subseteq User
    /\ x.roles \in [x.members -> Role]
    /\ x.joined \in [x.members -> Nat]
    /\ x.version \in Nat
    /\ \A u, v \in x.members : x.joined[u] = x.joined[v] => u = v
    /\ \A u \in x.members : x.joined[u] <= x.version
    /\ x.members = {} => x = NoRoom

Held == {"live", "gone", "empty"}

TypeOK ==
    /\ room = [r \in RoomId |-> room[r]]   /\ \A r \in RoomId : IsRoom(room[r])
    /\ store = [r \in RoomId |-> store[r]] /\ \A r \in RoomId : IsRoom(store[r])
    /\ index \in [User -> SUBSET RoomId]
    /\ newest \in [RoomId -> Nat]
    /\ landed \in [RoomId -> Nat]
    /\ \A r \in RoomId : landed[r] <= newest[r]
    /\ \A w \in writes :
          /\ w = [room |-> w.room, n |-> w.n, to |-> w.to]
          /\ w.room \in RoomId
          /\ w.n \in 1..newest[w.room]
          /\ IsRoom(w.to)
    /\ leaving \subseteq [room : RoomId, n : Nat, held : Held]
    /\ phase \in {"loading", "ready"}
    /\ replaced \subseteq RoomId
    /\ demoted  \subseteq RoomId
    /\ promoted \subseteq RoomId
    /\ past \in [RoomId -> SUBSET SUBSET User]
    /\ faults \in 0..MaxFaults

-----------------------------------------------------------------------------
(* Rooms as values. *)

Exists(r) == room[r].members # {}
isRoomMember(u, r) == u \in room[r].members
HasRole(u, r, R) == isRoomMember(u, r) /\ room[r].roles[u] \in R

Owners(x) == {u \in x.members : x.roles[u] = "OWNER"}

(* createRoom: the creator is the owner and the only member. *)
created(u) ==
    [members |-> {u}, roles |-> [v \in {u} |-> "OWNER"],
     joined |-> [v \in {u} |-> 1], version |-> 1]

(* joinRoom: one more MEMBER, in the next version. *)
joined(x, u) ==
    LET M == x.members \cup {u} IN
    [members |-> M,
     roles   |-> [v \in M |-> IF v = u THEN "MEMBER" ELSE x.roles[v]],
     joined  |-> [v \in M |-> IF v = u THEN x.version + 1 ELSE x.joined[v]],
     version |-> x.version + 1]

(* leaveRoom: the member, its role and its place in the order go. *)
left(x, u) ==
    LET M == x.members \ {u} IN
    [members |-> M,
     roles   |-> [v \in M |-> x.roles[v]],
     joined  |-> [v \in M |-> x.joined[v]],
     version |-> x.version + 1]

(* setMemberRole, and the transfer of ownership. *)
withRole(x, u, role) ==
    [members |-> x.members,
     roles   |-> [v \in x.members |-> IF v = u THEN role ELSE x.roles[v]],
     joined  |-> x.joined,
     version |-> x.version + 1]

(* updateRoomMeta: of the name and the picture only the version is kept. *)
updated(x) == [members |-> x.members, roles |-> x.roles,
               joined |-> x.joined, version |-> x.version + 1]

(* transferOwnershipOrDelete: the first by time of joining. *)
IsOldest(x, u) ==
    u \in x.members /\ \A v \in x.members : x.joined[u] <= x.joined[v]

-----------------------------------------------------------------------------
(* Writes. *)

(* persistRoom and roomStore.deleteRoom take what they write when they are *)
(* called.  A turn that changes a room twice starts two writes.            *)
Write(r, i, x) == [room |-> r, n |-> newest[r] + i, to |-> x]

persistRoom(r, x) ==
    /\ newest[r] < MaxWrites
    /\ newest' = [newest EXCEPT ![r] = @ + 1]
    /\ writes' = writes \cup {Write(r, 1, x)}

persistTwice(r, x, y) ==
    /\ newest[r] + 1 < MaxWrites
    /\ newest' = [newest EXCEPT ![r] = @ + 2]
    /\ writes' = writes \cup {Write(r, 1, x), Write(r, 2, y)}

UnderWay(r, n) == \E w \in writes : w.room = r /\ w.n = n

(* The room object an awaiting leaveRoom holds is dropped from the map,    *)
(* with members or without.                                                *)
Orphaned(r, held) ==
    {IF l.room = r /\ l.held = "live" THEN [l EXCEPT !.held = held] ELSE l :
        l \in leaving}

(* Mutant: userRooms keeps the room. *)
deleteRoomInternalKeepsIndex(r, members, held) ==
    /\ room' = [room EXCEPT ![r] = NoRoom]
    /\ leaving' = Orphaned(r, held)
    /\ persistRoom(r, NoRoom)
    /\ UNCHANGED index

(* deleteRoomInternal, when it finds the room. *)
deleteRoomInternal(r, members, held) ==
    /\ room' = [room EXCEPT ![r] = NoRoom]
    /\ index' = [u \in User |->
                    IF u \in members THEN index[u] \ {r} ELSE index[u]]
    /\ leaving' = Orphaned(r, held)
    /\ persistRoom(r, NoRoom)

-----------------------------------------------------------------------------
Init ==
    /\ room = [r \in RoomId |-> NoRoom]
    /\ store = [r \in RoomId |-> NoRoom]
    /\ index = [u \in User |-> {}]
    /\ writes = {}
    /\ newest = [r \in RoomId |-> 0]
    /\ landed = [r \in RoomId |-> 0]
    /\ leaving = {}
    /\ phase = "ready"
    /\ replaced = {}
    /\ demoted = {}
    /\ promoted = {}
    /\ past = [r \in RoomId |-> {{}}]
    /\ faults = 0

(* The history of a change of members. *)
Remembers ==
    /\ past' = [r \in RoomId |-> past[r] \cup {room'[r].members}]
    /\ UNCHANGED <<demoted, promoted>>

elsewhere == <<storeVars, phase, replaced, faults>>

(* Mutant: an id that is taken is not noticed. *)
CreateAnyway(u, r) ==
    /\ room' = [room EXCEPT ![r] = created(u)]
    /\ index' = [index EXCEPT ![u] = @ \cup {r}]
    /\ persistRoom(r, created(u))
    /\ Remembers
    /\ UNCHANGED <<leaving, elsewhere>>

(* ROOM_CREATE, alone or with one more member: createRoom, and joinRoom in *)
(* the same turn.                                                          *)
Create(u, r) ==
    /\ ~Exists(r)
    /\ room' = [room EXCEPT ![r] = created(u)]
    /\ index' = [index EXCEPT ![u] = @ \cup {r}]
    /\ persistRoom(r, created(u))
    /\ Remembers
    /\ UNCHANGED <<leaving, elsewhere>>

CreateWith(u, v, r) ==
    /\ ~Exists(r)
    /\ u # v
    /\ room' = [room EXCEPT ![r] = joined(created(u), v)]
    /\ index' = [index EXCEPT ![u] = @ \cup {r}, ![v] = @ \cup {r}]
    /\ persistTwice(r, created(u), joined(created(u), v))
    /\ past' = [past EXCEPT ![r] = @ \cup {{u}, {u, v}}]
    /\ UNCHANGED <<leaving, demoted, promoted, elsewhere>>

(* joinRoom of a room that is there, by someone who is not in it. *)
joinRoom(u, r) ==
    /\ Exists(r)
    /\ ~isRoomMember(u, r)
    /\ room' = [room EXCEPT ![r] = joined(@, u)]
    /\ index' = [index EXCEPT ![u] = @ \cup {r}]
    /\ persistRoom(r, joined(room[r], u))
    /\ Remembers
    /\ UNCHANGED <<leaving, elsewhere>>

(* ROOM_JOIN creates a room that is not there (autoCreate), with the       *)
(* effect of ROOM_CREATE; ROOM_ADD_MEMBERS adds for an owner or admin.     *)
Join(u, r) == joinRoom(u, r)

AddMember(u, v, r) ==
    /\ HasRole(u, r, {"OWNER", "ADMIN"})
    /\ joinRoom(v, r)

(* leaveRoom.  A room that has lost its last member is deleted; after a    *)
(* departed owner without another, the oldest member gets the room.  In    *)
(* both cases the activation awaits the write.                             *)
leavesWhole(x, r) ==
    /\ room' = [room EXCEPT ![r] = x]
    /\ persistRoom(r, x)
    /\ UNCHANGED leaving

(* Mutant: the write starts before the transfer. *)
leavesToHeirWritesFirst(x, r) ==
    \E v \in x.members :
        /\ IsOldest(x, v)
        /\ persistRoom(r, x)
        /\ room' = [room EXCEPT ![r] = withRole(x, v, "OWNER")]
        /\ leaving' = leaving \cup
               {[room |-> r, n |-> newest[r] + 1, held |-> "live"]}

leavesToHeir(x, r) ==
    \E v \in x.members :
        /\ IsOldest(x, v)
        /\ room' = [room EXCEPT ![r] = withRole(x, v, "OWNER")]
        /\ persistRoom(r, withRole(x, v, "OWNER"))
        /\ leaving' = leaving \cup
               {[room |-> r, n |-> newest[r] + 1, held |-> "live"]}

leavesNobody(r, awaits) ==
    /\ room' = [room EXCEPT ![r] = NoRoom]
    /\ persistRoom(r, NoRoom)
    /\ leaving' = Orphaned(r, "empty") \cup
          (IF awaits THEN {[room |-> r, n |-> newest[r] + 1, held |-> "empty"]}
                     ELSE {})

leaveRoom(u, r) ==
    LET x == left(room[r], u)
        wasOwner == room[r].roles[u] = "OWNER"
    IN  /\ index' = [index EXCEPT ![u] = @ \ {r}]
        /\ \/ x.members = {} /\ leavesNobody(r, wasOwner)
           \/ /\ x.members # {}
              /\ wasOwner /\ Owners(x) = {}
              /\ leavesToHeir(x, r)
           \/ /\ x.members # {}
              /\ ~wasOwner \/ Owners(x) # {}
              /\ leavesWhole(x, r)
        /\ Remembers
        /\ UNCHANGED elsewhere

(* ROOM_LEAVE, and ROOM_REMOVE_MEMBER: an owner removes anyone, an admin   *)
(* plain members.                                                          *)
Leave(u, r) ==
    /\ isRoomMember(u, r)
    /\ leaveRoom(u, r)

RemoveMember(u, v, r) ==
    /\ isRoomMember(v, r)
    /\ \/ HasRole(u, r, {"OWNER"})
       \/ HasRole(u, r, {"ADMIN"}) /\ HasRole(v, r, {"MEMBER"})
    /\ leaveRoom(v, r)

(* The rest of leaveRoom, by room id.  It looks at the object it holds,    *)
(* which may have left the map since.                                      *)
LeaveDeletes(l) ==
    /\ l.held = "empty"
    /\ IF Exists(l.room)
       THEN /\ room' = [room EXCEPT ![l.room] = NoRoom]
            /\ index' = [u \in User |-> index[u] \
                   (IF isRoomMember(u, l.room) THEN {l.room} ELSE {})]
            /\ persistRoom(l.room, NoRoom)
            /\ leaving' = Orphaned(l.room, "gone") \ {l}
       ELSE /\ leaving' = leaving \ {l}
            /\ UNCHANGED <<memoryVars, writeVars>>

LeavePersists(l) ==
    /\ l.held # "empty"
    /\ leaving' = leaving \ {l}
    /\ IF Exists(l.room) THEN persistRoom(l.room, room[l.room])
                         ELSE UNCHANGED writeVars
    /\ UNCHANGED memoryVars

LeaveEnds(l) ==
    /\ l \in leaving
    /\ ~UnderWay(l.room, l.n)
    /\ LeaveDeletes(l) \/ LeavePersists(l)
    /\ Remembers
    /\ UNCHANGED elsewhere

(* ROOM_SET_ROLE: an owner sets any role of anyone, an admin any but OWNER *)
(* of anyone but an owner.                                                 *)
SetRole(u, v, r, role) ==
    /\ isRoomMember(v, r)
    /\ \/ HasRole(u, r, {"OWNER"})
       \/ /\ HasRole(u, r, {"ADMIN"})
          /\ role # "OWNER"
          /\ ~HasRole(v, r, {"OWNER"})
    /\ LET x == withRole(room[r], v, role) IN
       /\ room' = [room EXCEPT ![r] = x]
       /\ persistRoom(r, x)
       /\ demoted' = IF Owners(x) = {} THEN demoted \cup {r} ELSE demoted
       /\ promoted' = IF Owners(x) \ {v} # {} /\ role = "OWNER"
                      THEN promoted \cup {r} ELSE promoted
    /\ UNCHANGED <<index, leaving, past, elsewhere>>

(* Mutant: the write starts before the change. *)
UpdateMetaWritesFirst(u, r) ==
    /\ HasRole(u, r, {"OWNER", "ADMIN"})
    /\ persistRoom(r, room[r])
    /\ room' = [room EXCEPT ![r] = updated(@)]
    /\ UNCHANGED <<index, leaving, historyVars, elsewhere>>

(* ROOM_UPDATE_META, by an owner or admin. *)
UpdateMeta(u, r) ==
    /\ HasRole(u, r, {"OWNER", "ADMIN"})
    /\ room' = [room EXCEPT ![r] = updated(@)]
    /\ persistRoom(r, updated(room[r]))
    /\ UNCHANGED <<index, leaving, historyVars, elsewhere>>

(* ROOM_DELETE, by an owner. *)
Delete(u, r) ==
    /\ HasRole(u, r, {"OWNER"})
    /\ deleteRoomInternal(r, room[r].members, "gone")
    /\ Remembers
    /\ UNCHANGED elsewhere

-----------------------------------------------------------------------------
(* The database and the process. *)

Lands(w) ==
    /\ store' = [store EXCEPT ![w.room] = w.to]
    /\ landed' = [landed EXCEPT ![w.room] = w.n]

Land(w) ==
    /\ w \in writes
    /\ writes' = writes \ {w}
    /\ Lands(w)
    /\ UNCHANGED <<memoryVars, newest, leaving, phase, replaced, historyVars,
                   faults>>

(* A failed write may have been applied.  An awaiting leaveRoom throws.    *)
Fail(w) ==
    /\ w \in writes
    /\ faults < MaxFaults
    /\ faults' = faults + 1
    /\ writes' = writes \ {w}
    /\ Lands(w) \/ UNCHANGED storeVars
    /\ leaving' = {l \in leaving : ~(l.room = w.room /\ l.n = w.n)}
    /\ UNCHANGED <<memoryVars, newest, phase, replaced, historyVars>>

Crash ==
    /\ faults < MaxFaults
    /\ faults' = faults + 1
    /\ phase' = "loading"
    /\ room' = [r \in RoomId |-> NoRoom]
    /\ index' = [u \in User |-> {}]
    /\ writes' = {}
    /\ leaving' = {}
    /\ replaced' = {}
    /\ UNCHANGED <<storeVars, newest, historyVars>>

(* loadFromStore: what is stored replaces what requests have made of the   *)
(* same id since the server began to listen.  userRooms only grows.        *)
Load ==
    /\ phase = "loading"
    /\ phase' = "ready"
    /\ room' = [r \in RoomId |->
                   IF store[r].members = {} THEN room[r] ELSE store[r]]
    /\ index' = [u \in User |->
                    index[u] \cup {r \in RoomId : u \in store[r].members}]
    /\ replaced' = {r \in RoomId : /\ store[r].members # {}
                                   /\ Exists(r) \/ \E w \in writes : w.room = r}
    /\ leaving' = {IF l.held = "live" /\ store[l.room].members # {}
                     THEN [l EXCEPT !.held = "gone"] ELSE l : l \in leaving}
    /\ UNCHANGED <<storeVars, writeVars, historyVars, faults>>

Next ==
    \/ \E r \in RoomId, u \in User :
          \/ Create(u, r) \/ Join(u, r) \/ Leave(u, r)
          \/ UpdateMeta(u, r) \/ Delete(u, r)
          \/ \E v \in User :
                \/ CreateWith(u, v, r) \/ AddMember(u, v, r)
                \/ RemoveMember(u, v, r)
                \/ \E role \in Role : SetRole(u, v, r, role)
    \/ \E l \in leaving : LeaveEnds(l)
    \/ \E w \in writes : Land(w) \/ Fail(w)
    \/ Crash
    \/ Load

Spec == Init /\ [][Next]_vars

-----------------------------------------------------------------------------
(* Properties. *)

(* A user is a member of exactly the rooms userRooms lists for them, which *)
(* is what room lists and snapshots are made of.  Only a room that loading *)
(* replaced may be listed for someone who is not in it.                    *)
IndexMatches ==
    \A u \in User, r \in RoomId :
        /\ isRoomMember(u, r) => r \in index[u]
        /\ r \in index[u] => isRoomMember(u, r) \/ r \in replaced

(* Departures never leave a room without an owner or with two, whether it  *)
(* is the room in memory, the stored one or one being written: a room has  *)
(* no owner only after its last owner was given another role, and several  *)
(* only after a promotion, however departures, writes, restarts and        *)
(* re-creations interleave.                                                *)
OwnedAsChosen(r, x) ==
    x.members # {} =>
        /\ Owners(x) = {} => r \in demoted
        /\ \A u, v \in Owners(x) : u # v => r \in promoted

OwnershipIsExplained ==
    /\ \A r \in RoomId : OwnedAsChosen(r, room[r]) /\ OwnedAsChosen(r, store[r])
    /\ \A w \in writes : OwnedAsChosen(w.room, w.to)

(* A restart loses nothing that had time to be written: once no write of a *)
(* room is under way, the collection holds the room as it is in memory,    *)
(* unless the last write failed, was overtaken by an older one, or loading *)
(* replaced the room under the requests that made it.                      *)
Quiet(r) ==
    /\ phase = "ready"
    /\ \A w \in writes : w.room # r
    /\ landed[r] = newest[r]
    /\ r \notin replaced

QuietStoreIsCurrent == \A r \in RoomId : Quiet(r) => store[r] = room[r]

(* Rooms are kept as RoomContract promises. *)
Contract == INSTANCE RoomContract WITH
               members <- [r \in RoomId |-> room[r].members]

ContractSpec == Contract!Spec
=============================================================================
