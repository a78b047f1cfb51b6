----------------------------- MODULE RoomsProofs -----------------------------
(***************************************************************************)
(* Theorems about Rooms, for any users, rooms and bounds: its types, that  *)
(* userRooms matches the rooms, who can own a room, that a quiet store is  *)
(* current, and that rooms are kept as RoomContract promises.              *)
(***************************************************************************)
EXTENDS Rooms, TLAPS

USE WritesAssumption, FaultsAssumption

-----------------------------------------------------------------------------
(* Rooms as values *)

LEMMA NoRoomIsRoom == IsRoom(NoRoom)
BY DEF IsRoom, NoRoom, Role

LEMMA CreatedIsRoom ==
  ASSUME NEW u \in User
  PROVE  /\ IsRoom(created(u))
         /\ created(u).members = {u}
         /\ Owners(created(u)) = {u}
BY DEF IsRoom, created, Role, Owners

LEMMA JoinedIsRoom ==
  ASSUME NEW x, IsRoom(x), NEW u \in User, u \notin x.members
  PROVE  /\ IsRoom(joined(x, u))
         /\ joined(x, u).members = x.members \cup {u}
         /\ Owners(joined(x, u)) = Owners(x)
<1> DEFINE y == joined(x, u)
<1>1. y.members = x.members \cup {u} /\ y.members \subseteq User /\ y.members # {}
  BY DEF joined, IsRoom
<1>2. y.roles \in [y.members -> Role]
  BY DEF joined, IsRoom, Role
<1>3. /\ y.joined \in [y.members -> Nat] /\ y.version \in Nat
      /\ \A v \in y.members : y.joined[v] <= y.version
  BY DEF joined, IsRoom
<1>4. \A v, w \in y.members : y.joined[v] = y.joined[w] => v = w
  BY DEF joined, IsRoom
<1>5. Owners(y) = Owners(x)
  BY DEF joined, Owners
<1> QED BY <1>1, <1>2, <1>3, <1>4, <1>5 DEF IsRoom

LEMMA LeftIsRoom ==
  ASSUME NEW x, IsRoom(x), NEW u \in x.members, left(x, u).members # {}
  PROVE  /\ IsRoom(left(x, u))
         /\ left(x, u).members = x.members \ {u}
         /\ Owners(left(x, u)) = Owners(x) \ {u}
<1> DEFINE y == left(x, u)
<1>1. y.members = x.members \ {u} /\ y.members \subseteq User
  BY DEF left, IsRoom
<1>2. y.roles \in [y.members -> Role]
  BY DEF left, IsRoom
<1>3. /\ y.joined \in [y.members -> Nat] /\ y.version \in Nat
      /\ \A v \in y.members : y.joined[v] <= y.version
  BY DEF left, IsRoom
<1>4. \A v, w \in y.members : y.joined[v] = y.joined[w] => v = w
  BY DEF left, IsRoom
<1>5. Owners(y) = Owners(x) \ {u}
  BY DEF left, Owners
<1> QED BY <1>1, <1>2, <1>3, <1>4, <1>5 DEF IsRoom

LEMMA WithRoleIsRoom ==
  ASSUME NEW x, IsRoom(x), NEW u \in x.members, NEW role \in Role
  PROVE  /\ IsRoom(withRole(x, u, role))
         /\ withRole(x, u, role).members = x.members
         /\ Owners(withRole(x, u, role)) =
               IF role = "OWNER" THEN Owners(x) \cup {u} ELSE Owners(x) \ {u}
<1> DEFINE y == withRole(x, u, role)
<1>1. y.members = x.members /\ y.joined = x.joined /\ y.version = x.version + 1
  BY DEF withRole
<1>2. y.roles \in [x.members -> Role]
  BY DEF withRole, IsRoom
<1>3. x.members # {}
  OBVIOUS
<1>4. Owners(y) = IF role = "OWNER" THEN Owners(x) \cup {u} ELSE Owners(x) \ {u}
  BY DEF withRole, Owners
<1> HIDE DEF y
<1>5. IsRoom(y)
  BY <1>1, <1>2, <1>3 DEF IsRoom
<1> QED BY <1>1, <1>4, <1>5 DEF y

LEMMA UpdatedIsRoom ==
  ASSUME NEW x, IsRoom(x), x.members # {}
  PROVE  /\ IsRoom(updated(x))
         /\ updated(x).members = x.members
         /\ Owners(updated(x)) = Owners(x)
BY DEF updated, IsRoom, Owners

-----------------------------------------------------------------------------
(* What requests do *)

(* OwnedAsChosen, of given histories. *)
Explained(r, x, d, p) ==
    x.members # {} =>
        /\ Owners(x) = {} => r \in d
        /\ \A u, v \in Owners(x) : u # v => r \in p

(* A request makes x of room r, perhaps by way of y, and starts a write of *)
(* each; neither has been given or denied an owner by a departure.         *)
Changes(r, x, y) ==
    /\ IsRoom(x) /\ IsRoom(y)
    /\ room' = [room EXCEPT ![r] = x]
    /\ \/ /\ newest' = [newest EXCEPT ![r] = @ + 1]
          /\ writes' = writes \cup {Write(r, 1, x)}
       \/ /\ newest' = [newest EXCEPT ![r] = @ + 2]
          /\ writes' = writes \cup {Write(r, 1, y), Write(r, 2, x)}
    /\ UNCHANGED <<store, landed, phase, replaced, faults>>
    /\ demoted \subseteq demoted' /\ demoted' \subseteq demoted \cup {r}
    /\ promoted \subseteq promoted' /\ promoted' \subseteq promoted \cup {r}
    /\ Explained(r, room[r], demoted, promoted) =>
          Explained(r, x, demoted', promoted') /\ Explained(r, y, demoted', promoted')
    /\ past' \in [RoomId -> SUBSET SUBSET User]
    /\ \A k \in RoomId : past[k] \subseteq past'[k]
    /\ room[r].members \in past[r] => {x.members, y.members} \subseteq past'[r]

(* The history of members, and of owners, after a change by Remembers. *)
LEMMA RememberedTypes ==
  ASSUME TypeOK, NEW r \in RoomId, NEW x, IsRoom(x),
         room' = [room EXCEPT ![r] = x], Remembers
  PROVE  /\ past' \in [RoomId -> SUBSET SUBSET User]
         /\ \A k \in RoomId : past[k] \subseteq past'[k]
         /\ x.members \in past'[r]
         /\ demoted' = demoted /\ promoted' = promoted
<1>1. \A k \in RoomId : room'[k].members \subseteq User
  BY DEF TypeOK, IsRoom
<1>2. room'[r] = x
  BY DEF TypeOK
<1> QED BY <1>1, <1>2 DEF Remembers, TypeOK

LEMMA CreateChanges ==
  ASSUME TypeOK, NEW r \in RoomId, NEW u \in User, Create(u, r)
  PROVE  Changes(r, created(u), created(u))
<1>1. IsRoom(created(u)) /\ Owners(created(u)) = {u}
  BY CreatedIsRoom
<1>2. Explained(r, created(u), demoted', promoted')
  BY <1>1, CreatedIsRoom DEF Explained
<1> QED BY <1>1, <1>2, RememberedTypes
        DEF Create, Changes, persistRoom, elsewhere, storeVars

LEMMA CreateWithChanges ==
  ASSUME TypeOK, NEW r \in RoomId, NEW u \in User, NEW v \in User, CreateWith(u, v, r)
  PROVE  /\ Changes(r, joined(created(u), v), created(u))
         /\ joined(created(u), v).members = {u, v}
<1> DEFINE x == created(u)  y == joined(x, v)
<1>1. /\ IsRoom(x) /\ x.members = {u} /\ Owners(x) = {u}
      /\ IsRoom(y) /\ y.members = {u, v} /\ Owners(y) = {u}
  BY CreatedIsRoom, JoinedIsRoom DEF CreateWith
<1>2. Explained(r, x, demoted', promoted') /\ Explained(r, y, demoted', promoted')
  BY <1>1 DEF Explained
<1>3. past' = [past EXCEPT ![r] = @ \cup {{u}, {u, v}}]
  BY DEF CreateWith
<1>4. /\ past' \in [RoomId -> SUBSET SUBSET User]
      /\ \A k \in RoomId : past[k] \subseteq past'[k]
      /\ {y.members, x.members} \subseteq past'[r]
  BY <1>1, <1>3 DEF TypeOK
<1>5. /\ room' = [room EXCEPT ![r] = y]
      /\ persistTwice(r, x, y)
      /\ UNCHANGED <<store, landed, phase, replaced, faults, demoted, promoted>>
  BY DEF CreateWith, elsewhere, storeVars
<1> HIDE DEF x, y
<1>6. Changes(r, y, x)
  BY <1>1, <1>2, <1>4, <1>5 DEF Changes, persistTwice
<1> QED BY <1>1, <1>6 DEF x, y

LEMMA JoinChanges ==
  ASSUME TypeOK, NEW r \in RoomId, NEW u \in User, joinRoom(u, r)
  PROVE  Changes(r, joined(room[r], u), joined(room[r], u))
<1> DEFINE x == joined(room[r], u)
<1>1. IsRoom(x) /\ Owners(x) = Owners(room[r]) /\ room[r].members # {}
  BY JoinedIsRoom DEF joinRoom, TypeOK, Exists, isRoomMember
<1>2. room' = [room EXCEPT ![r] = x] /\ persistRoom(r, x)
  BY DEF joinRoom
<1> HIDE DEF x
<1>3. /\ UNCHANGED <<store, landed, phase, replaced, faults>>
      /\ Remembers
  BY DEF joinRoom, elsewhere, storeVars
<1>4. Explained(r, room[r], demoted, promoted) => Explained(r, x, demoted', promoted')
  BY <1>1, <1>2, <1>3, RememberedTypes DEF Explained
<1>5. Changes(r, x, x)
  BY <1>1, <1>2, <1>3, <1>4, RememberedTypes DEF Changes, persistRoom
<1> QED BY <1>5 DEF x

LEMMA SetRoleChanges ==
  ASSUME TypeOK, NEW r \in RoomId, NEW u \in User, NEW v \in User, NEW role \in Role,
         SetRole(u, v, r, role)
  PROVE  Changes(r, withRole(room[r], v, role), withRole(room[r], v, role))
<1> DEFINE x == withRole(room[r], v, role)
<1>1. /\ IsRoom(room[r]) /\ v \in room[r].members
  BY DEF SetRole, TypeOK, isRoomMember
<1>2. /\ IsRoom(x) /\ x.members = room[r].members
      /\ Owners(x) = IF role = "OWNER" THEN Owners(room[r]) \cup {v} ELSE Owners(room[r]) \ {v}
  BY <1>1, WithRoleIsRoom
<1>3. /\ room' = [room EXCEPT ![r] = x] /\ persistRoom(r, x)
      /\ demoted' = IF Owners(x) = {} THEN demoted \cup {r} ELSE demoted
      /\ promoted' = IF Owners(x) \ {v} # {} /\ role = "OWNER"
                     THEN promoted \cup {r} ELSE promoted
      /\ UNCHANGED <<store, landed, phase, replaced, faults, past>>
  BY DEF SetRole, elsewhere, storeVars
<1> HIDE DEF x
<1>4. Explained(r, room[r], demoted, promoted) => Explained(r, x, demoted', promoted')
  BY <1>1, <1>2, <1>3 DEF Explained
<1>5. past \in [RoomId -> SUBSET SUBSET User]
  BY DEF TypeOK
<1>6. Changes(r, x, x)
  BY <1>2, <1>3, <1>4, <1>5 DEF Changes, persistRoom
<1> QED BY <1>6 DEF x

LEMMA UpdateMetaChanges ==
  ASSUME TypeOK, NEW r \in RoomId, NEW u \in User, UpdateMeta(u, r)
  PROVE  /\ Changes(r, updated(room[r]), updated(room[r]))
         /\ updated(room[r]).members = room[r].members
<1> DEFINE x == updated(room[r])
<1>1. IsRoom(room[r]) /\ room[r].members # {}
  BY DEF UpdateMeta, TypeOK, HasRole, isRoomMember
<1>2. IsRoom(x) /\ x.members = room[r].members /\ Owners(x) = Owners(room[r])
  BY <1>1, UpdatedIsRoom
<1>3. /\ room' = [room EXCEPT ![r] = x] /\ persistRoom(r, x)
      /\ UNCHANGED <<store, landed, phase, replaced, faults, past, demoted, promoted>>
  BY DEF UpdateMeta, elsewhere, storeVars, historyVars, TypeOK
<1> HIDE DEF x
<1>4. Explained(r, room[r], demoted, promoted) => Explained(r, x, demoted', promoted')
  BY <1>1, <1>2, <1>3 DEF Explained
<1>5. past \in [RoomId -> SUBSET SUBSET User]
  BY DEF TypeOK
<1>6. Changes(r, x, x)
  BY <1>2, <1>3, <1>4, <1>5 DEF Changes, persistRoom
<1> QED BY <1>2, <1>6 DEF x

(* Deletions. *)
LEMMA NoRoomChanges ==
  ASSUME TypeOK, NEW r \in RoomId, room' = [room EXCEPT ![r] = NoRoom],
         persistRoom(r, NoRoom), Remembers, UNCHANGED elsewhere
  PROVE  Changes(r, NoRoom, NoRoom)
<1>1. Explained(r, NoRoom, demoted', promoted')
  BY DEF Explained, NoRoom
<1> HIDE DEF NoRoom
<1> QED BY <1>1, NoRoomIsRoom, RememberedTypes DEF Changes, persistRoom, elsewhere, storeVars

LEMMA LeaveRoomChanges ==
  ASSUME TypeOK, NEW r \in RoomId, NEW u \in User, isRoomMember(u, r), leaveRoom(u, r)
  PROVE  \E x : Changes(r, x, x) /\ x.members = room[r].members \ {u}
<1> DEFINE x == left(room[r], u)
<1>1. IsRoom(room[r]) /\ u \in room[r].members /\ x.members = room[r].members \ {u}
  BY DEF TypeOK, isRoomMember, left
<1>2. Remembers /\ UNCHANGED <<store, landed, phase, replaced, faults>>
  BY DEF leaveRoom, elsewhere, storeVars
<1>3. CASE x.members = {}
  <2>1. room' = [room EXCEPT ![r] = NoRoom] /\ persistRoom(r, NoRoom)
    BY <1>3 DEF leaveRoom, leavesNobody
  <2>2. Changes(r, NoRoom, NoRoom)
    BY <2>1, <1>2, NoRoomChanges DEF elsewhere, storeVars
  <2> QED BY <2>2, <1>1, <1>3 DEF NoRoom
<1>4. CASE x.members # {}
  <2>1. IsRoom(x) /\ Owners(x) = Owners(room[r]) \ {u}
    BY <1>1, <1>4, LeftIsRoom
  <2>2. CASE room[r].roles[u] = "OWNER" /\ Owners(x) = {} /\ leavesToHeir(x, r)
    <3>1. PICK v \in x.members :
             /\ room' = [room EXCEPT ![r] = withRole(x, v, "OWNER")]
             /\ persistRoom(r, withRole(x, v, "OWNER"))
      BY <2>2 DEF leavesToHeir
    <3> DEFINE y == withRole(x, v, "OWNER")
    <3>2. IsRoom(y) /\ y.members = x.members /\ Owners(y) = {v}
      BY <2>1, <2>2, WithRoleIsRoom DEF Role
    <3>3. Explained(r, y, demoted', promoted')
      BY <3>2 DEF Explained
    <3> HIDE DEF y
    <3>4. Changes(r, y, y)
      BY <1>2, <3>1, <3>2, <3>3, RememberedTypes DEF Changes, persistRoom, y
    <3> QED BY <1>1, <3>2, <3>4
  <2>3. CASE room[r].roles[u] # "OWNER" \/ Owners(x) # {}
    <3>1. room' = [room EXCEPT ![r] = x] /\ persistRoom(r, x)
      BY <2>3, <1>4 DEF leaveRoom, leavesWhole
    <3>2. Owners(x) = {} => Owners(room[r]) = {}
      BY <1>1, <2>1, <2>3 DEF Owners
    <3> HIDE DEF x
    <3>3. demoted' = demoted /\ promoted' = promoted
      BY <1>2 DEF Remembers
    <3>4. Explained(r, room[r], demoted, promoted) => Explained(r, x, demoted', promoted')
      BY <1>1, <2>1, <3>2, <3>3 DEF Explained
    <3>5. Changes(r, x, x)
      BY <1>2, <2>1, <3>1, <3>4, RememberedTypes DEF Changes, persistRoom
    <3> QED BY <1>1, <3>5
  <2> QED BY <1>4, <2>2, <2>3 DEF leaveRoom
<1> QED BY <1>3, <1>4

(* The end of leaveRoom deletes or writes what is there, or does nothing. *)
LEMMA LeaveEndsChanges ==
  ASSUME TypeOK, NEW l \in leaving, LeaveEnds(l)
  PROVE  /\ UNCHANGED <<store, landed, phase, replaced, faults>>
         /\ \/ Changes(l.room, NoRoom, NoRoom)
            \/ Changes(l.room, room[l.room], room[l.room])
            \/ UNCHANGED <<room, newest, writes, demoted, promoted>> /\ Remembers
<1>1. l.room \in RoomId
  BY DEF TypeOK
<1>2. Remembers /\ UNCHANGED <<store, landed, phase, replaced, faults>>
  BY DEF LeaveEnds, elsewhere, storeVars
<1>3. CASE LeaveDeletes(l)
  BY <1>1, <1>2, <1>3, NoRoomChanges
     DEF LeaveDeletes, memoryVars, writeVars, Remembers, elsewhere, storeVars
<1>4. CASE LeavePersists(l) /\ Exists(l.room)
  <2> DEFINE x == room[l.room]
  <2>1. room' = [room EXCEPT ![l.room] = x] /\ IsRoom(x) /\ persistRoom(l.room, x)
    BY <1>1, <1>4 DEF LeavePersists, memoryVars, TypeOK
  <2> HIDE DEF x
  <2>2. demoted' = demoted /\ promoted' = promoted
    BY <1>2 DEF Remembers
  <2>3. Changes(l.room, x, x)
    BY <1>1, <1>2, <2>1, <2>2, RememberedTypes DEF Changes, persistRoom, Explained, x
  <2> QED BY <1>2, <2>3 DEF x
<1>5. CASE LeavePersists(l) /\ ~Exists(l.room)
  BY <1>2, <1>5 DEF LeavePersists, memoryVars, writeVars, Remembers
<1> QED BY <1>3, <1>4, <1>5 DEF LeaveEnds

-----------------------------------------------------------------------------
(* Types *)

LEMMA ChangesType ==
  ASSUME TypeOK, NEW r \in RoomId, NEW x, NEW y, Changes(r, x, y),
         index' \in [User -> SUBSET RoomId],
         leaving' \subseteq [room : RoomId, n : Nat, held : Held]
  PROVE  TypeOK'
<1>1. room' = [k \in RoomId |-> room'[k]] /\ \A k \in RoomId : IsRoom(room'[k])
  BY DEF TypeOK, Changes
<1>2. /\ newest' \in [RoomId -> Nat]
      /\ newest'[r] > newest[r] /\ \A k \in RoomId : newest'[k] >= newest[k]
  BY DEF TypeOK, Changes
<1>3. \A k \in RoomId : landed'[k] <= newest'[k]
  BY <1>2 DEF TypeOK, Changes
<1>4. ASSUME NEW w \in writes'
      PROVE  /\ w = [room |-> w.room, n |-> w.n, to |-> w.to]
             /\ w.room \in RoomId
             /\ w.n \in 1..newest'[w.room]
             /\ IsRoom(w.to)
  <2>1. CASE w \in writes
    BY <1>2, <2>1 DEF TypeOK
  <2>2. CASE w \notin writes
    <3>1. /\ w.room = r /\ w.n \in {newest[r] + 1, newest[r] + 2} /\ w.n <= newest'[r]
          /\ w.to \in {x, y} /\ w = [room |-> w.room, n |-> w.n, to |-> w.to]
      BY <2>2 DEF TypeOK, Changes, Write
    <3> QED BY <1>2, <3>1 DEF Changes, TypeOK
  <2> QED BY <2>1, <2>2
<1>5. /\ store' = [k \in RoomId |-> store'[k]] /\ \A k \in RoomId : IsRoom(store'[k])
      /\ landed' \in [RoomId -> Nat]
      /\ phase' \in {"loading", "ready"} /\ faults' \in 0..MaxFaults
      /\ replaced' \subseteq RoomId /\ demoted' \subseteq RoomId /\ promoted' \subseteq RoomId
      /\ past' \in [RoomId -> SUBSET SUBSET User]
  BY DEF TypeOK, Changes
<1> QED BY <1>1, <1>2, <1>3, <1>4, <1>5 DEF TypeOK

LEMMA OrphanedType ==
  ASSUME TypeOK, NEW r \in RoomId, NEW h \in {"gone", "empty"}
  PROVE  Orphaned(r, h) \subseteq [room : RoomId, n : Nat, held : Held]
BY DEF TypeOK, Orphaned, Held

(* What leaveRoom makes of the activations. *)
LEMMA LeaveRoomTypes ==
  ASSUME TypeOK, NEW r \in RoomId, NEW u \in User, leaveRoom(u, r)
  PROVE  /\ index' = [index EXCEPT ![u] = @ \ {r}]
         /\ index' \in [User -> SUBSET RoomId]
         /\ leaving' \subseteq [room : RoomId, n : Nat, held : Held]
<1>1. index' = [index EXCEPT ![u] = @ \ {r}]
  BY DEF leaveRoom
<1>2. newest[r] + 1 \in Nat
  BY DEF TypeOK
<1>3. Orphaned(r, "empty") \subseteq [room : RoomId, n : Nat, held : Held]
  BY OrphanedType
<1>4. leaving \subseteq [room : RoomId, n : Nat, held : Held]
  BY DEF TypeOK
<1>5. \/ leaving' = leaving
      \/ leaving' = leaving \cup {[room |-> r, n |-> newest[r] + 1, held |-> "live"]}
      \/ leaving' = Orphaned(r, "empty")
      \/ leaving' = Orphaned(r, "empty") \cup
                       {[room |-> r, n |-> newest[r] + 1, held |-> "empty"]}
  BY DEF leaveRoom, leavesNobody, leavesToHeir, leavesWhole
<1>6. leaving' \subseteq [room : RoomId, n : Nat, held : Held]
  BY <1>2, <1>3, <1>4, <1>5 DEF Held
<1> QED BY <1>1, <1>6 DEF TypeOK

LEMMA LandTypes ==
  ASSUME TypeOK, NEW w \in writes, Lands(w) \/ UNCHANGED storeVars
  PROVE  /\ store' = [k \in RoomId |-> store'[k]] /\ \A r \in RoomId : IsRoom(store'[r])
         /\ landed' \in [RoomId -> Nat]
         /\ \A r \in RoomId : landed'[r] <= newest[r]
BY DEF TypeOK, Lands, storeVars

LEMMA TypeStep ==
  ASSUME TypeOK, [Next]_vars
  PROVE  TypeOK'
<1>1. ASSUME NEW r \in RoomId, NEW u \in User, Create(u, r)
      PROVE  TypeOK'
  <2>1. index' \in [User -> SUBSET RoomId] /\ leaving' = leaving
    BY <1>1 DEF TypeOK, Create
  <2> QED BY <1>1, <2>1, CreateChanges, ChangesType DEF TypeOK
<1>2. ASSUME NEW r \in RoomId, NEW u \in User, NEW v \in User, CreateWith(u, v, r)
      PROVE  TypeOK'
  <2>1. index' \in [User -> SUBSET RoomId] /\ leaving' = leaving
    BY <1>2 DEF TypeOK, CreateWith
  <2> QED BY <1>2, <2>1, CreateWithChanges, ChangesType DEF TypeOK
<1>3. ASSUME NEW r \in RoomId, NEW u \in User, joinRoom(u, r)
      PROVE  TypeOK'
  <2>1. index' \in [User -> SUBSET RoomId] /\ leaving' = leaving
    BY <1>3 DEF TypeOK, joinRoom
  <2> QED BY <1>3, <2>1, JoinChanges, ChangesType DEF TypeOK
<1>4. ASSUME NEW r \in RoomId, NEW u \in User, isRoomMember(u, r), leaveRoom(u, r)
      PROVE  TypeOK'
  BY <1>4, LeaveRoomTypes, LeaveRoomChanges, ChangesType
<1>5. ASSUME NEW r \in RoomId, NEW u \in User, NEW v \in User, NEW role \in Role,
             SetRole(u, v, r, role)
      PROVE  TypeOK'
  <2>1. index' \in [User -> SUBSET RoomId] /\ leaving' = leaving
    BY <1>5 DEF TypeOK, SetRole
  <2> QED BY <1>5, <2>1, SetRoleChanges, ChangesType DEF TypeOK
<1>6. ASSUME NEW r \in RoomId, NEW u \in User, UpdateMeta(u, r)
      PROVE  TypeOK'
  <2>1. index' \in [User -> SUBSET RoomId] /\ leaving' = leaving
    BY <1>6 DEF TypeOK, UpdateMeta
  <2> QED BY <1>6, <2>1, UpdateMetaChanges, ChangesType DEF TypeOK
<1>7. ASSUME NEW r \in RoomId, NEW u \in User, Delete(u, r)
      PROVE  TypeOK'
  <2>1. /\ index' \in [User -> SUBSET RoomId] /\ leaving' = Orphaned(r, "gone")
        /\ Changes(r, NoRoom, NoRoom)
    BY <1>7, NoRoomChanges DEF TypeOK, Delete, deleteRoomInternal
  <2> QED BY <2>1, OrphanedType, ChangesType
<1>8. ASSUME NEW l \in leaving, LeaveEnds(l)
      PROVE  TypeOK'
  <2>1. l.room \in RoomId
    BY DEF TypeOK
  <2>2. index' \in [User -> SUBSET RoomId]
    BY <1>8 DEF TypeOK, LeaveEnds, LeaveDeletes, LeavePersists, memoryVars
  <2>3. leaving' \subseteq [room : RoomId, n : Nat, held : Held]
    BY <1>8, <2>1, OrphanedType DEF LeaveEnds, LeaveDeletes, LeavePersists, TypeOK
  <2>4. CASE UNCHANGED <<room, newest, writes, demoted, promoted>> /\ Remembers
    <3>1. UNCHANGED <<store, landed, phase, replaced, faults>>
      BY <1>8, LeaveEndsChanges
    <3>2. \A r \in RoomId : room[r].members \subseteq User
      BY DEF TypeOK, IsRoom
    <3>3. past' \in [RoomId -> SUBSET SUBSET User]
      BY <2>4, <3>2 DEF Remembers, TypeOK
    <3> QED BY <2>2, <2>3, <2>4, <3>1, <3>3 DEF TypeOK
  <2> QED BY <1>8, <2>1, <2>2, <2>3, <2>4, LeaveEndsChanges, ChangesType
<1>9. ASSUME NEW w \in writes, Land(w)
      PROVE  TypeOK'
  <2>1. UNCHANGED <<room, index, newest, leaving, phase, replaced, demoted, promoted, past, faults>>
    BY <1>9 DEF Land, memoryVars, historyVars
  <2> QED BY <1>9, <2>1, LandTypes DEF Land, TypeOK
<1>10. ASSUME NEW w \in writes, Fail(w)
       PROVE  TypeOK'
  <2>1. /\ UNCHANGED <<room, index, newest, phase, replaced, demoted, promoted, past>>
        /\ faults' \in 0..MaxFaults /\ leaving' \subseteq leaving /\ writes' \subseteq writes
    BY <1>10 DEF Fail, memoryVars, historyVars, TypeOK
  <2> QED BY <1>10, <2>1, LandTypes DEF Fail, TypeOK
<1>11. CASE Crash
  <2>1. /\ UNCHANGED <<store, landed, newest, demoted, promoted, past>>
        /\ faults' \in 0..MaxFaults
    BY <1>11 DEF Crash, storeVars, historyVars, TypeOK
  <2> QED BY <1>11, <2>1, NoRoomIsRoom DEF Crash, TypeOK
<1>12. CASE Load
  <2>1. UNCHANGED <<store, landed, newest, writes, demoted, promoted, past, faults>>
    BY <1>12 DEF Load, storeVars, writeVars, historyVars
  <2>2. room' = [k \in RoomId |-> room'[k]] /\ \A r \in RoomId : IsRoom(room'[r])
    BY <1>12 DEF Load, TypeOK
  <2>3. index' \in [User -> SUBSET RoomId] /\ replaced' \subseteq RoomId
    BY <1>12 DEF Load, TypeOK
  <2>4. leaving' \subseteq [room : RoomId, n : Nat, held : Held]
    BY <1>12 DEF Load, TypeOK, Held
  <2> QED BY <1>12, <2>1, <2>2, <2>3, <2>4 DEF Load, TypeOK
<1>13. CASE UNCHANGED vars
  BY <1>13 DEF vars, TypeOK, memoryVars, storeVars, writeVars, historyVars
<1> QED BY <1>1, <1>2, <1>3, <1>4, <1>5, <1>6, <1>7, <1>8, <1>9, <1>10, <1>11, <1>12, <1>13
        DEF Next, Join, AddMember, Leave, RemoveMember

LEMMA TypeInit == Init => TypeOK
BY NoRoomIsRoom DEF Init, TypeOK

(* TypeOK always holds: every room in memory, stored or being written has  *)
(* one role and one place in the order for each member, and no room is     *)
(* kept without members.                                                   *)
THEOREM RoomTypeCorrect == Spec => []TypeOK
<1> QED BY TypeInit, TypeStep, PTL DEF Spec

-----------------------------------------------------------------------------
(* userRooms *)

(* While rooms are being loaded, none has been replaced yet. *)
IndexInv == IndexMatches /\ (phase = "loading" => replaced = {})

LEMMA MembersChange ==
  ASSUME TypeOK, NEW r \in RoomId, NEW x, NEW y, Changes(r, x, y)
  PROVE  /\ room'[r] = x
         /\ \A k \in RoomId : k # r => room'[k] = room[k]
BY DEF TypeOK, Changes

LEMMA IndexStep ==
  ASSUME TypeOK, IndexInv, [Next]_vars
  PROVE  IndexInv'
<1>1. ASSUME NEW r \in RoomId, NEW u \in User, Create(u, r)
      PROVE  IndexInv'
  <2>1. room'[r].members = {u} /\ \A k \in RoomId : k # r => room'[k] = room[k]
    BY <1>1, CreateChanges, MembersChange, CreatedIsRoom
  <2> QED BY <1>1, <2>1
          DEF Create, elsewhere, IndexInv, IndexMatches, isRoomMember, Exists, TypeOK
<1>2. ASSUME NEW r \in RoomId, NEW u \in User, NEW v \in User, CreateWith(u, v, r)
      PROVE  IndexInv'
  <2>1. room'[r].members = {u, v} /\ \A k \in RoomId : k # r => room'[k] = room[k]
    BY <1>2, CreateWithChanges, MembersChange
  <2> QED BY <1>2, <2>1
          DEF CreateWith, elsewhere, IndexInv, IndexMatches, isRoomMember, Exists, TypeOK
<1>3. ASSUME NEW r \in RoomId, NEW u \in User, joinRoom(u, r)
      PROVE  IndexInv'
  <2>1. /\ room'[r].members = room[r].members \cup {u}
        /\ \A k \in RoomId : k # r => room'[k] = room[k]
    BY <1>3, JoinChanges, MembersChange, JoinedIsRoom DEF joinRoom, isRoomMember, TypeOK
  <2> QED BY <1>3, <2>1
          DEF joinRoom, elsewhere, IndexInv, IndexMatches, isRoomMember, TypeOK
<1>4. ASSUME NEW r \in RoomId, NEW u \in User, isRoomMember(u, r), leaveRoom(u, r)
      PROVE  IndexInv'
  <2>1. /\ room'[r].members = room[r].members \ {u}
        /\ \A k \in RoomId : k # r => room'[k] = room[k]
    BY <1>4, LeaveRoomChanges, MembersChange
  <2> QED BY <1>4, <2>1
          DEF leaveRoom, elsewhere, IndexInv, IndexMatches, isRoomMember, TypeOK
<1>5. ASSUME NEW r \in RoomId, NEW u \in User, NEW v \in User, NEW role \in Role,
             SetRole(u, v, r, role)
      PROVE  IndexInv'
  <2>1. \A k \in RoomId : room'[k].members = room[k].members
    BY <1>5, SetRoleChanges, MembersChange, WithRoleIsRoom DEF SetRole, isRoomMember, TypeOK
  <2> QED BY <1>5, <2>1 DEF SetRole, elsewhere, IndexInv, IndexMatches, isRoomMember
<1>6. ASSUME NEW r \in RoomId, NEW u \in User, UpdateMeta(u, r)
      PROVE  IndexInv'
  <2>1. \A k \in RoomId : room'[k].members = room[k].members
    BY <1>6, UpdateMetaChanges, MembersChange
  <2> QED BY <1>6, <2>1 DEF UpdateMeta, elsewhere, IndexInv, IndexMatches, isRoomMember
<1>7. ASSUME NEW r \in RoomId, NEW u \in User, Delete(u, r)
      PROVE  IndexInv'
  <2>1. room'[r].members = {} /\ \A k \in RoomId : k # r => room'[k] = room[k]
    BY <1>7 DEF Delete, deleteRoomInternal, NoRoom, TypeOK
  <2> QED BY <1>7, <2>1
          DEF Delete, deleteRoomInternal, elsewhere, IndexInv, IndexMatches, isRoomMember, TypeOK
<1>8. ASSUME NEW l \in leaving, LeaveEnds(l)
      PROVE  IndexInv'
  <2>1. l.room \in RoomId /\ UNCHANGED <<phase, replaced>>
    BY <1>8 DEF TypeOK, LeaveEnds, elsewhere
  <2>2. CASE UNCHANGED <<room, index>>
    BY <2>1, <2>2 DEF IndexInv, IndexMatches, isRoomMember
  <2>3. CASE LeaveDeletes(l) /\ Exists(l.room)
    <3>1. room'[l.room].members = {} /\ \A k \in RoomId : k # l.room => room'[k] = room[k]
      BY <2>1, <2>3 DEF LeaveDeletes, NoRoom, TypeOK
    <3> QED BY <2>1, <2>3, <3>1
            DEF LeaveDeletes, IndexInv, IndexMatches, isRoomMember, TypeOK
  <2> QED BY <1>8, <2>2, <2>3 DEF LeaveEnds, LeaveDeletes, LeavePersists, memoryVars
<1>9. ASSUME NEW w \in writes, Land(w) \/ Fail(w)
      PROVE  IndexInv'
  BY <1>9 DEF Land, Fail, memoryVars, IndexInv, IndexMatches, isRoomMember
<1>10. CASE Crash
  BY <1>10 DEF Crash, IndexInv, IndexMatches, isRoomMember, NoRoom
<1>11. CASE Load
  <2>1. ASSUME NEW u \in User, NEW r \in RoomId
        PROVE  /\ isRoomMember(u, r)' => r \in index'[u]
               /\ r \in index'[u] => isRoomMember(u, r)' \/ r \in replaced'
    <3>1. r \in index[u] <=> u \in room[r].members
      BY <1>11 DEF Load, IndexInv, IndexMatches, isRoomMember
    <3>2. /\ r \in index'[u] <=> r \in index[u] \/ u \in store[r].members
          /\ room'[r] = IF store[r].members = {} THEN room[r] ELSE store[r]
          /\ Exists(r) /\ store[r].members # {} => r \in replaced'
      BY <1>11 DEF Load, TypeOK
    <3> QED BY <3>1, <3>2 DEF isRoomMember, Exists
  <2> QED BY <1>11, <2>1 DEF Load, IndexInv, IndexMatches
<1>12. CASE UNCHANGED vars
  BY <1>12 DEF vars, memoryVars, IndexInv, IndexMatches, isRoomMember
<1> QED BY <1>1, <1>2, <1>3, <1>4, <1>5, <1>6, <1>7, <1>8, <1>9, <1>10, <1>11, <1>12
        DEF Next, Join, AddMember, Leave, RemoveMember

(* IndexMatches always holds: userRooms, which room lists and snapshots    *)
(* are made of, lists exactly the rooms a user is in, but for rooms that   *)
(* loading has replaced.                                                   *)
THEOREM IndexStaysMatched == Spec => []IndexMatches
<1>1. Init => IndexInv
  BY DEF Init, IndexInv, IndexMatches, isRoomMember, NoRoom
<1>2. TypeOK /\ IndexInv /\ [Next]_vars => IndexInv'
  BY IndexStep
<1>3. IndexInv => IndexMatches
  BY DEF IndexInv
<1> QED BY <1>1, <1>2, <1>3, RoomTypeCorrect, PTL DEF Spec

-----------------------------------------------------------------------------
(* Owners, the collection and the past *)

(* A step that changes no room and starts no write. *)
Keeps ==
    /\ UNCHANGED <<room, store, writes, newest, landed, phase, replaced,
                   demoted, promoted>>
    /\ \A r \in RoomId : past'[r] = past[r] \/ past'[r] = past[r] \cup {room[r].members}

LEMMA KindsOfSteps ==
  ASSUME TypeOK, [Next]_vars
  PROVE  \/ \E r \in RoomId : \E x, y : Changes(r, x, y)
         \/ Keeps
         \/ \E w \in writes : Land(w) \/ Fail(w)
         \/ Crash
         \/ Load
<1>1. ASSUME NEW r \in RoomId, NEW u \in User,
             \/ Create(u, r) \/ joinRoom(u, r) \/ UpdateMeta(u, r) \/ Delete(u, r)
             \/ isRoomMember(u, r) /\ leaveRoom(u, r)
             \/ \E v \in User : \/ CreateWith(u, v, r)
                                \/ \E role \in Role : SetRole(u, v, r, role)
      PROVE  \E x, y : Changes(r, x, y)
  <2>1. CASE Delete(u, r)
    BY <2>1, NoRoomChanges DEF Delete, deleteRoomInternal
  <2> QED BY <1>1, <2>1, CreateChanges, JoinChanges, UpdateMetaChanges, LeaveRoomChanges,
             CreateWithChanges, SetRoleChanges
<1>2. ASSUME NEW l \in leaving, LeaveEnds(l)
      PROVE  Keeps \/ \E r \in RoomId : \E x, y : Changes(r, x, y)
  <2>1. l.room \in RoomId
    BY DEF TypeOK
  <2> QED BY <1>2, <2>1, LeaveEndsChanges DEF Keeps, Remembers
<1>3. CASE UNCHANGED vars
  BY <1>3 DEF vars, memoryVars, storeVars, writeVars, historyVars, Keeps
<1> QED BY <1>1, <1>2, <1>3 DEF Next, Join, AddMember, Leave, RemoveMember

LEMMA WritesAfterChange ==
  ASSUME TypeOK, NEW r \in RoomId, NEW x, NEW y, Changes(r, x, y), NEW w \in writes'
  PROVE  \/ w \in writes
         \/ w.room = r /\ w.to \in {x, y}
BY DEF Changes, Write

LEMMA OwnershipStep ==
  ASSUME TypeOK, OwnershipIsExplained, [Next]_vars
  PROVE  OwnershipIsExplained'
<1> DEFINE Ok(r, x) == Explained(r, x, demoted, promoted)
           OkNext(r, x) == Explained(r, x, demoted', promoted')
<1>1. /\ \A r \in RoomId : Ok(r, room[r]) /\ Ok(r, store[r])
      /\ \A w \in writes : Ok(w.room, w.to)
  BY DEF OwnershipIsExplained, OwnedAsChosen, Explained
<1>2. SUFFICES /\ \A r \in RoomId : OkNext(r, room'[r]) /\ OkNext(r, store'[r])
               /\ \A w \in writes' : OkNext(w.room, w.to)
  BY DEF OwnershipIsExplained, OwnedAsChosen, Explained, Owners
<1>3. ASSUME NEW r \in RoomId, NEW x, NEW y, Changes(r, x, y)
      PROVE  /\ \A k \in RoomId : OkNext(k, room'[k]) /\ OkNext(k, store'[k])
             /\ \A w \in writes' : OkNext(w.room, w.to)
  <2>1. \A k, z : Ok(k, z) => OkNext(k, z)
    BY <1>3 DEF Changes, Explained
  <2>2. OkNext(r, x) /\ OkNext(r, y) /\ store' = store
    BY <1>1, <1>3 DEF Changes
  <2> HIDE DEF Ok, OkNext
  <2> QED BY <1>1, <1>3, <2>1, <2>2, MembersChange, WritesAfterChange
<1>4. CASE Keeps
  BY <1>1, <1>4 DEF Keeps
<1>5. ASSUME NEW w \in writes, Land(w) \/ Fail(w)
      PROVE  /\ \A k \in RoomId : OkNext(k, room'[k]) /\ OkNext(k, store'[k])
             /\ \A v \in writes' : OkNext(v.room, v.to)
  <2>1. /\ room' = room /\ writes' \subseteq writes /\ demoted' = demoted /\ promoted' = promoted
        /\ store' = store \/ store' = [store EXCEPT ![w.room] = w.to]
    BY <1>5 DEF Land, Fail, Lands, memoryVars, storeVars, historyVars
  <2>2. \A k \in RoomId : store'[k] = store[k] \/ (k = w.room /\ store'[k] = w.to)
    BY <2>1 DEF TypeOK
  <2> HIDE DEF Ok, OkNext
  <2>3. \A k, z : Ok(k, z) => OkNext(k, z)
    BY <2>1 DEF Ok, OkNext
  <2> QED BY <1>1, <2>1, <2>2, <2>3
<1>6. CASE Crash
  <2>1. \A r \in RoomId : OkNext(r, NoRoom)
    BY DEF Explained, NoRoom
  <2> QED BY <1>1, <1>6, <2>1 DEF Crash, storeVars, historyVars
<1>7. CASE Load
  BY <1>1, <1>7 DEF Load, storeVars, writeVars, historyVars
<1> QED BY <1>3, <1>4, <1>5, <1>6, <1>7, KindsOfSteps

(* OwnershipIsExplained always holds: leaveRoom, its transfer and the      *)
(* writes, in any order and over restarts, leave a room without an owner,  *)
(* or with two, only where setMemberRole has.                              *)
THEOREM OwnershipStaysExplained == Spec => []OwnershipIsExplained
<1>1. Init => OwnershipIsExplained
  BY DEF Init, OwnershipIsExplained, OwnedAsChosen, NoRoom
<1>2. TypeOK /\ OwnershipIsExplained /\ [Next]_vars => OwnershipIsExplained'
  BY OwnershipStep
<1> QED BY <1>1, <1>2, RoomTypeCorrect, PTL DEF Spec

-----------------------------------------------------------------------------
(* The last write started carries the room as it is in memory, and so does *)
(* the collection once it has landed, unless loading has still to restore  *)
(* the room.                                                               *)
NewestIsCurrent ==
    /\ \A r \in RoomId \ replaced :
          /\ \A w \in writes : w.room = r /\ w.n = newest[r] => w.to = room[r]
          /\ landed[r] = newest[r] =>
                store[r] = room[r] \/ (phase = "loading" /\ room[r] = NoRoom)
    /\ phase = "loading" => replaced = {}

LEMMA NewestStep ==
  ASSUME TypeOK, NewestIsCurrent, [Next]_vars
  PROVE  NewestIsCurrent'
<1>1. ASSUME NEW r \in RoomId, NEW x, NEW y, Changes(r, x, y)
      PROVE  NewestIsCurrent'
  <2>1. /\ newest'[r] \in Nat /\ newest'[r] > newest[r]
        /\ \A k \in RoomId : k # r => newest'[k] = newest[k]
        /\ landed' = landed /\ landed[r] <= newest[r] /\ newest[r] \in Nat /\ landed[r] \in Nat
    BY <1>1 DEF Changes, TypeOK
  <2>2. \A w \in writes : w.room = r => w.n <= newest[r] /\ w.n \in Nat
    BY DEF TypeOK
  <2>3. \A w \in writes' : \/ w \in writes
                           \/ w.room = r /\ (w.n = newest'[r] => w.to = x)
    <3>1. CASE newest' = [newest EXCEPT ![r] = @ + 1] /\ writes' = writes \cup {Write(r, 1, x)}
      BY <3>1 DEF Write
    <3>2. CASE /\ newest' = [newest EXCEPT ![r] = @ + 2]
               /\ writes' = writes \cup {Write(r, 1, y), Write(r, 2, x)}
      <4>1. newest'[r] = newest[r] + 2
        BY <3>2 DEF TypeOK
      <4>2. newest[r] + 1 # newest[r] + 2
        BY <2>1
      <4> QED BY <3>2, <4>1, <4>2 DEF Write
    <3> QED BY <1>1, <3>1, <3>2 DEF Changes
  <2>4. \A w \in writes' : w.room = r /\ w.n = newest'[r] => w.to = x
    BY <2>1, <2>2, <2>3
  <2>5. UNCHANGED <<store, phase, replaced>>
    BY <1>1 DEF Changes
  <2>6. landed[r] # newest'[r]
    BY <2>1
  <2> QED BY <1>1, <2>1, <2>3, <2>4, <2>5, <2>6, MembersChange DEF NewestIsCurrent
<1>2. CASE Keeps
  BY <1>2 DEF Keeps, NewestIsCurrent
<1>3. ASSUME NEW w \in writes, Land(w) \/ Fail(w)
      PROVE  NewestIsCurrent'
  <2>1. UNCHANGED <<room, newest, phase, replaced>> /\ writes' \subseteq writes
    BY <1>3 DEF Land, Fail, memoryVars
  <2>2. CASE UNCHANGED storeVars
    BY <2>1, <2>2 DEF storeVars, NewestIsCurrent
  <2>3. CASE Lands(w)
    <3>1. /\ w.room \in RoomId /\ store'[w.room] = w.to /\ landed'[w.room] = w.n
          /\ \A k \in RoomId : k # w.room => store'[k] = store[k] /\ landed'[k] = landed[k]
      BY <2>3 DEF Lands, TypeOK
    <3> QED BY <2>1, <3>1 DEF NewestIsCurrent
  <2> QED BY <1>3, <2>2, <2>3 DEF Land, Fail
<1>4. CASE Crash
  BY <1>4 DEF Crash, NewestIsCurrent
<1>5. CASE Load
  <2>1. ASSUME NEW r \in RoomId \ replaced'
        PROVE  /\ \A w \in writes' : w.room = r /\ w.n = newest'[r] => w.to = room'[r]
               /\ landed'[r] = newest'[r] => store'[r] = room'[r]
    <3>1. /\ UNCHANGED <<store, landed, newest, writes>> /\ phase = "loading" /\ replaced = {}
          /\ room'[r] = IF store[r].members = {} THEN room[r] ELSE store[r]
      BY <1>5 DEF Load, storeVars, writeVars, NewestIsCurrent
    <3>2. CASE store[r].members = {}
      BY <3>1, <3>2 DEF NewestIsCurrent, TypeOK, IsRoom
    <3>3. CASE store[r].members # {} /\ \A w \in writes : w.room # r
      BY <3>1, <3>3 DEF NewestIsCurrent
    <3> QED BY <1>5, <3>2, <3>3 DEF Load
  <2> QED BY <1>5, <2>1 DEF Load, NewestIsCurrent
<1> QED BY <1>1, <1>2, <1>3, <1>4, <1>5, KindsOfSteps

(* QuietStoreIsCurrent always holds: when the last write that persistRoom  *)
(* started has landed last, the collection holds the room in memory.       *)
THEOREM QuietStoreStaysCurrent == Spec => []QuietStoreIsCurrent
<1>1. Init => NewestIsCurrent
  BY DEF Init, NewestIsCurrent
<1>2. TypeOK /\ NewestIsCurrent /\ [Next]_vars => NewestIsCurrent'
  BY NewestStep
<1>3. NewestIsCurrent => QuietStoreIsCurrent
  BY DEF NewestIsCurrent, QuietStoreIsCurrent, Quiet
<1> QED BY <1>1, <1>2, <1>3, RoomTypeCorrect, PTL DEF Spec

-----------------------------------------------------------------------------
(* RoomContract *)

(* Whoever is in a room, in memory, stored or being written, has been.     *)
PastIsComplete ==
    /\ \A r \in RoomId : {{}, room[r].members, store[r].members} \subseteq past[r]
    /\ \A w \in writes : w.to.members \in past[w.room]

LEMMA PastStep ==
  ASSUME TypeOK, PastIsComplete, [Next]_vars
  PROVE  PastIsComplete'
<1>1. ASSUME NEW r \in RoomId, NEW x, NEW y, Changes(r, x, y)
      PROVE  PastIsComplete'
  <2>1. /\ {x.members, y.members} \subseteq past'[r]
        /\ \A k \in RoomId : past[k] \subseteq past'[k]
        /\ store' = store
    BY <1>1 DEF Changes, PastIsComplete
  <2>2. \A w \in writes' : w.to.members \in past'[w.room]
    <3> SUFFICES ASSUME NEW w \in writes'
                 PROVE  w.to.members \in past'[w.room]
      OBVIOUS
    <3>1. CASE w \in writes
      <4>1. w.room \in RoomId /\ w.to.members \in past[w.room]
        BY <3>1 DEF TypeOK, PastIsComplete
      <4> QED BY <2>1, <4>1
    <3>2. CASE w.room = r /\ w.to \in {x, y}
      BY <2>1, <3>2
    <3> QED BY <1>1, <3>1, <3>2, WritesAfterChange
  <2> QED BY <1>1, <2>1, <2>2, MembersChange DEF PastIsComplete
<1>2. CASE Keeps
  <2>1. \A r \in RoomId : past'[r] = past[r]
    BY <1>2 DEF Keeps, PastIsComplete
  <2>2. \A w \in writes : w.room \in RoomId
    BY DEF TypeOK
  <2> QED BY <1>2, <2>1, <2>2 DEF Keeps, PastIsComplete
<1>3. ASSUME NEW w \in writes, Land(w) \/ Fail(w)
      PROVE  PastIsComplete'
  <2>1. /\ UNCHANGED <<room, past>> /\ writes' \subseteq writes
        /\ \/ store' = store
           \/ store' = [store EXCEPT ![w.room] = w.to]
    BY <1>3 DEF Land, Fail, Lands, memoryVars, storeVars, historyVars
  <2>2. \A k \in RoomId : \/ store'[k] = store[k]
                          \/ k = w.room /\ store'[k] = w.to
    BY <2>1 DEF TypeOK
  <2> QED BY <2>1, <2>2 DEF PastIsComplete
<1>4. CASE Crash
  BY <1>4 DEF Crash, storeVars, historyVars, PastIsComplete, NoRoom
<1>5. CASE Load
  BY <1>5 DEF Load, storeVars, writeVars, historyVars, PastIsComplete
<1> QED BY <1>1, <1>2, <1>3, <1>4, <1>5, KindsOfSteps

(* The members of each room, before and after a change of room r. *)
LEMMA MembersAfter ==
  ASSUME TypeOK, NEW r \in RoomId, NEW x, NEW y, Changes(r, x, y)
  PROVE  [k \in RoomId |-> room'[k].members] =
         [[k \in RoomId |-> room[k].members] EXCEPT ![r] = x.members]
BY MembersChange

(* What Remembers adds to the past of the other rooms is there already. *)
LEMMA RememberedPast ==
  ASSUME TypeOK, PastIsComplete, NEW r \in RoomId, NEW x, NEW y, Changes(r, x, y), Remembers
  PROVE  past' = [past EXCEPT ![r] = @ \cup {x.members}]
<1>1. \A k \in RoomId : past'[k] = IF k = r THEN past[k] \cup {x.members} ELSE past[k]
  BY MembersChange DEF Remembers, PastIsComplete
<1> QED BY <1>1 DEF Remembers, TypeOK

LEMMA FoundStep ==
  ASSUME TypeOK, PastIsComplete, NEW r \in RoomId, NEW u \in User, NEW v \in User,
         (Create(u, r) /\ u = v) \/ CreateWith(u, v, r)
  PROVE  Contract!Found(r, u, v)
<1>1. room[r].members = {}
  BY DEF Create, CreateWith, Exists
<1>2. CASE Create(u, r) /\ u = v
  <2> DEFINE x == created(u)
  <2>1. Changes(r, x, x) /\ x.members = {u, v}
    BY <1>2, CreateChanges, CreatedIsRoom
  <2> HIDE DEF x
  <2>2. past' = [past EXCEPT ![r] = @ \cup {{u, v}}]
    BY <1>2, <2>1, RememberedPast DEF Create
  <2>3. past' = [past EXCEPT ![r] = @ \cup {{u}, {u, v}}]
    BY <1>2, <2>2
  <2>4. [k \in RoomId |-> room'[k].members] =
        [[k \in RoomId |-> room[k].members] EXCEPT ![r] = {u, v}]
    BY <2>1, MembersAfter
  <2> QED BY <1>1, <2>3, <2>4 DEF Contract!Found
<1>3. CASE CreateWith(u, v, r)
  <2> DEFINE x == joined(created(u), v)
  <2>1. Changes(r, x, created(u)) /\ x.members = {u, v}
    BY <1>3, CreateWithChanges
  <2> HIDE DEF x
  <2>2. [k \in RoomId |-> room'[k].members] =
        [[k \in RoomId |-> room[k].members] EXCEPT ![r] = {u, v}]
    BY <2>1, MembersAfter
  <2>3. past' = [past EXCEPT ![r] = @ \cup {{u}, {u, v}}]
    BY <1>3 DEF CreateWith
  <2> QED BY <1>1, <2>2, <2>3 DEF Contract!Found
<1> QED BY <1>2, <1>3

LEMMA EnterStep ==
  ASSUME TypeOK, NEW r \in RoomId, NEW u \in User, joinRoom(u, r)
  PROVE  Contract!Enter(r, u)
<1>1. /\ Changes(r, joined(room[r], u), joined(room[r], u))
      /\ joined(room[r], u).members = room[r].members \cup {u}
  BY JoinChanges, JoinedIsRoom DEF joinRoom, isRoomMember, TypeOK
<1>2. [k \in RoomId |-> room'[k].members] =
      [[k \in RoomId |-> room[k].members] EXCEPT ![r] = @ \cup {u}]
  BY <1>1, MembersAfter
<1>3. past' = [k \in RoomId |-> past[k] \cup {room'[k].members}] /\ room[r].members # {}
  BY DEF joinRoom, Remembers, Exists
<1> QED BY <1>2, <1>3 DEF Contract!Enter, Contract!Remembers

LEMMA DepartStep ==
  ASSUME TypeOK, NEW r \in RoomId, NEW u \in User, isRoomMember(u, r), leaveRoom(u, r)
  PROVE  Contract!Depart(r, u)
<1>1. PICK x : Changes(r, x, x) /\ x.members = room[r].members \ {u}
  BY LeaveRoomChanges
<1>2. [k \in RoomId |-> room'[k].members] =
      [[k \in RoomId |-> room[k].members] EXCEPT ![r] = @ \ {u}]
  BY <1>1, MembersAfter
<1>3. past' = [k \in RoomId |-> past[k] \cup {room'[k].members}] /\ u \in room[r].members
  BY DEF leaveRoom, Remembers, isRoomMember
<1> QED BY <1>2, <1>3 DEF Contract!Depart, Contract!Remembers

LEMMA DissolveStep ==
  ASSUME TypeOK, NEW r \in RoomId, Exists(r), Changes(r, NoRoom, NoRoom), Remembers
  PROVE  Contract!Dissolve(r)
<1>1. [k \in RoomId |-> room'[k].members] =
      [[k \in RoomId |-> room[k].members] EXCEPT ![r] = {}]
  <2>1. NoRoom.members = {}
    BY DEF NoRoom
  <2> HIDE DEF NoRoom
  <2> QED BY <2>1, MembersAfter
<1>2. past' = [k \in RoomId |-> past[k] \cup {room'[k].members}] /\ room[r].members # {}
  BY DEF Remembers, Exists
<1> QED BY <1>1, <1>2 DEF Contract!Dissolve, Contract!Remembers

LEMMA SameMembers ==
  ASSUME TypeOK, \A r \in RoomId : room'[r].members = room[r].members, past' = past
  PROVE  UNCHANGED <<[r \in RoomId |-> room[r].members], past>>
OBVIOUS

LEMMA ContractStep ==
  ASSUME TypeOK, PastIsComplete, [Next]_vars
  PROVE  [Contract!Next]_<<[r \in RoomId |-> room[r].members], past>>
<1>1. ASSUME NEW r \in RoomId, NEW u \in User, Create(u, r)
      PROVE  Contract!Next
  BY <1>1, FoundStep DEF Contract!Next
<1>2. ASSUME NEW r \in RoomId, NEW u \in User, NEW v \in User, CreateWith(u, v, r)
      PROVE  Contract!Next
  BY <1>2, FoundStep DEF Contract!Next
<1>3. ASSUME NEW r \in RoomId, NEW u \in User, joinRoom(u, r)
      PROVE  Contract!Next
  BY <1>3, EnterStep DEF Contract!Next
<1>4. ASSUME NEW r \in RoomId, NEW u \in User, isRoomMember(u, r), leaveRoom(u, r)
      PROVE  Contract!Next
  BY <1>4, DepartStep DEF Contract!Next
<1>5. ASSUME NEW r \in RoomId, NEW u \in User, NEW v \in User, NEW role \in Role,
             SetRole(u, v, r, role)
      PROVE  UNCHANGED <<[k \in RoomId |-> room[k].members], past>>
  <2>1. past' = past /\ \A k \in RoomId : room'[k].members = room[k].members
    BY <1>5, SetRoleChanges, MembersChange, WithRoleIsRoom DEF SetRole, isRoomMember, TypeOK
  <2> QED BY <2>1, SameMembers
<1>6. ASSUME NEW r \in RoomId, NEW u \in User, UpdateMeta(u, r)
      PROVE  UNCHANGED <<[k \in RoomId |-> room[k].members], past>>
  <2>1. past' = past /\ \A k \in RoomId : room'[k].members = room[k].members
    BY <1>6, UpdateMetaChanges, MembersChange DEF UpdateMeta, historyVars
  <2> QED BY <2>1, SameMembers
<1>7. ASSUME NEW r \in RoomId, NEW u \in User, Delete(u, r)
      PROVE  Contract!Next
  <2>1. Exists(r) /\ Changes(r, NoRoom, NoRoom) /\ Remembers
    BY <1>7, NoRoomChanges DEF Delete, deleteRoomInternal, HasRole, isRoomMember, Exists
  <2> QED BY <1>7, <2>1, DissolveStep DEF Contract!Next
<1>8. ASSUME NEW l \in leaving, LeaveEnds(l)
      PROVE  Contract!Next \/ UNCHANGED <<[k \in RoomId |-> room[k].members], past>>
  <2>1. l.room \in RoomId /\ Remembers /\ UNCHANGED elsewhere
    BY <1>8 DEF TypeOK, LeaveEnds
  <2>2. CASE LeaveDeletes(l) /\ Exists(l.room)
    <3>1. Changes(l.room, NoRoom, NoRoom)
      BY <2>1, <2>2, NoRoomChanges DEF LeaveDeletes
    <3>2. Contract!Dissolve(l.room) /\ \E u \in User : TRUE
      BY <2>1, <2>2, <3>1, DissolveStep DEF Exists, TypeOK, IsRoom
    <3> QED BY <2>1, <3>2 DEF Contract!Next
  <2>3. CASE room' = room
    <3>1. \A k \in RoomId : past'[k] = past[k]
      BY <2>1, <2>3 DEF Remembers, PastIsComplete
    <3>2. past' = past
      BY <2>1, <3>1 DEF Remembers, TypeOK
    <3> QED BY <2>3, <3>2
  <2> QED BY <1>8, <2>2, <2>3 DEF LeaveEnds, LeaveDeletes, LeavePersists, memoryVars
<1>9. ASSUME NEW w \in writes, Land(w) \/ Fail(w)
      PROVE  UNCHANGED <<[r \in RoomId |-> room[r].members], past>>
  BY <1>9 DEF Land, Fail, memoryVars, historyVars
<1>10. CASE Crash
  <2>1. Contract!Forget
    BY <1>10 DEF Crash, historyVars, NoRoom, Contract!Forget
  <2> QED BY <2>1 DEF Contract!Next
<1>11. CASE Load
  <2>1. past' = past /\ \A r \in RoomId : room'[r].members \in past[r]
    BY <1>11 DEF Load, historyVars, PastIsComplete
  <2>2. Contract!Restore
    BY <2>1 DEF Contract!Restore
  <2> QED BY <2>2 DEF Contract!Next
<1>12. CASE UNCHANGED vars
  BY <1>12 DEF vars, memoryVars, historyVars
<1> QED BY <1>1, <1>2, <1>3, <1>4, <1>5, <1>6, <1>7, <1>8, <1>9, <1>10, <1>11, <1>12
        DEF Next, Join, AddMember, Leave, RemoveMember

(* Rooms implements RoomContract: users enter and depart one at a time, by *)
(* a request or not at all, and a restart brings back members the room has *)
(* had, though writes land late, out of order or not at all.               *)
THEOREM KeepsRoomContract == Spec => ContractSpec
<1>1. Init => PastIsComplete
  BY DEF Init, PastIsComplete, NoRoom
<1>2. TypeOK /\ PastIsComplete /\ [Next]_vars => PastIsComplete'
  BY PastStep
<1>3. Init => Contract!Init
  BY DEF Init, NoRoom, Contract!Init
<1>4. TypeOK /\ PastIsComplete /\ [Next]_vars
         => [Contract!Next]_<<[r \in RoomId |-> room[r].members], past>>
  BY ContractStep
<1> QED BY <1>1, <1>2, <1>3, <1>4, RoomTypeCorrect, PTL DEF Spec, ContractSpec, Contract!Spec
=============================================================================
