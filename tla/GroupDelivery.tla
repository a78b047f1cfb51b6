---------------------------- MODULE GroupDelivery ----------------------------
(***************************************************************************)
(* Messages to a room (websocket/services/group.service.js), the count of  *)
(* who has received them (websocket/state/roomDeliveryStore.js) and the    *)
(* part of replay that counts (services/replay.service.js).                *)
(*                                                                         *)
(* sendRoomMessage takes the members once, then writes one row of history  *)
(* and, for one member after the other, a row and a frame; members come    *)
(* and go meanwhile, as RoomContract says.  The sender is told when the    *)
(* count of recipients is complete.  The count is in memory: a replay      *)
(* after a restart rebuilds it from the rows, over two awaits.             *)
(***************************************************************************)
EXTENDS Naturals, FiniteSets

CONSTANTS
    User,
    Sender,
    NoUser,      \* none of them
    RoomId,      \* the rooms RoomContract is about
    Room,        \* the one messages are sent to
    ClientId,    \* clientMessageIds of the sender
    MaxMessages, \* bound: activations of sendRoomMessage
    MaxMoves,    \* bound: changes of members
    MaxFaults    \* bound: refused writes and queries, and restarts

ASSUME UserAssumption == IsFiniteSet(User)
ASSUME SenderAssumption == Sender \in User /\ NoUser \notin User
ASSUME RoomAssumption == Room \in RoomId
ASSUME BoundAssumption == MaxMessages \in Nat /\ MaxMoves \in Nat /\ MaxFaults \in Nat

Message == 1..MaxMessages \* roomMessageIds
NoMessage == 0

VARIABLES
    members,  \* the members of each room, and
    past,     \* who they have been: the variables of RoomContract
    idem,     \* groupStore: the message each clientMessageId names
    send,     \* the activations of sendRoomMessage
    canon,    \* messages with a row of history
    row,      \* state of the row of each message and member
    marked,   \* the deliveries collection
    entry,    \* roomDeliveryStore
    task,     \* replays and confirmations of one row under way
    reached,  \* history: members a frame was queued for
    failed,   \* history: rows that were not written (NoUser: of history)
    told,     \* history: messages the sender was told are complete
    rebuilt,  \* history: messages whose count a replay has made or remade
    answers,  \* history: successful ROOM_MESSAGE_RESPONSEs
    moves,
    faults

membershipVars == <<members, past>>
sendVars  == <<idem, send, canon>>
rowVars   == <<row, marked>>
countVars == <<entry, told, rebuilt>>
traceVars == <<reached, failed, answers>>
boundVars == <<moves, faults>>
vars == <<membershipVars, sendVars, rowVars, countVars, task,
          traceVars, boundVars>>

Membership == INSTANCE RoomContract

(* No entry, and an entry with total 0, are filled in by whoever comes     *)
(* next; the first is also what a replay finds after a restart.            *)
NoEntry == [total |-> 0, delivered |-> {}]
NoSend  == [pc |-> "none", id |-> NoMessage, to |-> {}, todo |-> {}, at |-> NoUser]

Stage == {"none", "canonical", "fan", "answered", "lost"}
Kind  == {"replay", "confirm"}
Step  == {"state", "mark", "count", "query", "hydrate"}

Activation == [pc : Stage, id : ClientId \cup {NoMessage}, to : SUBSET User,
               todo : SUBSET User, at : User \cup {NoUser}]
Entry == [total : Nat, delivered : SUBSET (User \ {Sender})]
RowTask == [kind : Kind, user : User, msg : Message, pc : Step, total : Nat,
            got : SUBSET User]

TypeOK ==
    /\ members \in [RoomId -> SUBSET User]
    /\ past \in [RoomId -> SUBSET SUBSET User]
    /\ idem \in [ClientId -> Message \cup {NoMessage}]
    /\ send \in [Message -> Activation]
    /\ \A m \in Message : send[m].pc # "none" => send[m].id \in ClientId
    /\ canon \subseteq Message
    /\ row \in [Message -> [User -> {"none", "sent", "delivered"}]]
    /\ marked \subseteq Message \X User
    /\ entry \in [Message -> Entry]
    /\ task \subseteq RowTask
    /\ reached \subseteq Message \X User
    /\ failed \subseteq Message \X (User \cup {NoUser})
    /\ told \subseteq Message
    /\ rebuilt \subseteq Message
    /\ answers \subseteq ClientId \X Message
    /\ moves \in 0..MaxMoves
    /\ faults \in 0..MaxFaults

-----------------------------------------------------------------------------
(* roomDeliveryStore *)

Others(S) == S \ {Sender}

(* initOrGet: a total of 0 is replaced. *)
WithTotal(e, n) == [e EXCEPT !.total = IF @ = 0 THEN n ELSE @]

(* recordDelivery *)
Counted(e, u, n) ==
    [WithTotal(e, n) EXCEPT !.delivered = @ \cup Others({u})]

(* Mutant: complete with one recipient missing. *)
IsCompleteEarly(e) == e.total > 0 /\ Cardinality(e.delivered) + 1 >= e.total

IsComplete(e) == e.total > 0 /\ Cardinality(e.delivered) >= e.total

(* recordDelivery, and ROOM_DELIVERY_UPDATE to the sender when complete. *)
Record(m, u, e, n) ==
    /\ entry' = [entry EXCEPT ![m] = Counted(e, u, n)]
    /\ told' = IF IsComplete(Counted(e, u, n)) THEN told \cup {m} ELSE told

(* Mutant: the members that are in the room are put in. *)
HydratedWithAll(t) == [total |-> t.total, delivered |-> Others(members[Room])]

(* hydrate: the count of the rows, of the members there were before the    *)
(* query.                                                                  *)
Hydrated(t) == [total |-> t.total, delivered |-> Others(t.got)]

-----------------------------------------------------------------------------
Init ==
    /\ Membership!Init
    /\ idem = [c \in ClientId |-> NoMessage]
    /\ send = [m \in Message |-> NoSend]
    /\ canon = {}
    /\ row = [m \in Message |-> [u \in User |-> "none"]]
    /\ marked = {}
    /\ entry = [m \in Message |-> NoEntry]
    /\ task = {}
    /\ reached = {}
    /\ failed = {}
    /\ told = {}
    /\ rebuilt = {}
    /\ answers = {}
    /\ moves = 0
    /\ faults = 0

Faulty ==
    /\ faults < MaxFaults
    /\ faults' = faults + 1

Healthy == UNCHANGED faults

(* ROOM_MESSAGE by a member, with a clientMessageId that groupStore does   *)
(* not have, or has.                                                       *)
Send(c, m) ==
    /\ Sender \in members[Room]
    /\ idem[c] = NoMessage
    /\ send[m].pc = "none"
    /\ \A k \in Message : k < m => send[k].pc # "none"
    /\ send' = [send EXCEPT ![m] =
                  [pc |-> "canonical", id |-> c, to |-> members[Room],
                   todo |-> members[Room], at |-> NoUser]]
    /\ UNCHANGED <<membershipVars, idem, canon, rowVars, countVars, task, traceVars, boundVars>>

Repeat(c) ==
    /\ Sender \in members[Room]
    /\ idem[c] # NoMessage
    /\ answers' = answers \cup {<<c, idem[c]>>}
    /\ UNCHANGED <<membershipVars, sendVars, rowVars, countVars, task,
                   reached, failed, boundVars>>

(* persistRoomMessageCanonical: a row of the sender with the same          *)
(* clientMessageId is success, and a failure is only logged; then the      *)
(* total of recipients is set.                                             *)
PersistCanonical(m) ==
    /\ send[m].pc = "canonical"
    /\ send' = [send EXCEPT ![m] = [@ EXCEPT !.pc = "fan"]]
    /\ \/ /\ canon' = IF \E k \in canon : send[k].id = send[m].id
                      THEN canon ELSE canon \cup {m}
          /\ failed' = failed
          /\ Healthy
       \/ canon' = canon /\ failed' = failed \cup {<<m, NoUser>>} /\ Faulty
    /\ entry' = [entry EXCEPT ![m] =
                   WithTotal(@, Cardinality(Others(send[m].to)))]
    /\ UNCHANGED <<membershipVars, idem, rowVars, told, rebuilt, task,
                   reached, answers, moves>>

(* The turn of the next member. *)
Served(a, u) == [a EXCEPT !.todo = @ \ {u}, !.at = u]

(* persistRoomMessageForRecipient of the next member; a failure is only    *)
(* logged.                                                                 *)
PersistMember(m, u) ==
    /\ send[m].pc = "fan" /\ send[m].at = NoUser
    /\ u \in send[m].todo
    /\ send' = [send EXCEPT ![m] = Served(@, u)]
    /\ \/ row' = [row EXCEPT ![m][u] = "sent"] /\ failed' = failed /\ Healthy
       \/ row' = row /\ failed' = failed \cup {<<m, u>>} /\ Faulty
    /\ UNCHANGED <<membershipVars, idem, canon, marked, countVars, task, reached, answers, moves>>

(* Mutant: counted whether a socket took the frame or not. *)
SendToMemberCounts(m) ==
    LET u == send[m].at IN
    /\ send[m].pc = "fan" /\ u # NoUser
    /\ send' = [send EXCEPT ![m] = [@ EXCEPT !.at = NoUser]]
    /\ UNCHANGED reached
    /\ IF u = Sender THEN UNCHANGED <<entry, told>>
       ELSE Record(m, u, entry[m], Cardinality(Others(send[m].to)))
    /\ UNCHANGED <<membershipVars, idem, canon, rowVars, rebuilt, task,
                   failed, answers, boundVars>>

(* sendToMember, to all the member's sockets: one of them takes the frame, *)
(* and a recipient is counted, or none does, or there is none.             *)
SendToMember(m) ==
    LET u == send[m].at IN
    /\ send[m].pc = "fan" /\ u # NoUser
    /\ send' = [send EXCEPT ![m] = [@ EXCEPT !.at = NoUser]]
    /\ \/ /\ reached' = reached \cup {<<m, u>>}
          /\ IF u = Sender THEN UNCHANGED <<entry, told>>
             ELSE Record(m, u, entry[m], Cardinality(Others(send[m].to)))
       \/ UNCHANGED <<reached, entry, told>>
    /\ UNCHANGED <<membershipVars, idem, canon, rowVars, rebuilt, task,
                   failed, answers, boundVars>>

(* Mutant: answered, and remembered, before the members are served. *)
AnswerEarly(m) ==
    /\ send[m].pc = "fan"
    /\ send[m].id \in ClientId
    /\ idem' = [idem EXCEPT ![send[m].id] = m]
    /\ answers' = answers \cup {<<send[m].id, m>>}
    /\ UNCHANGED <<membershipVars, send, canon, rowVars, countVars, task, reached, failed, boundVars>>

(* The end of sendRoomMessage. *)
Answer(m) ==
    /\ send[m].pc = "fan" /\ send[m].todo = {} /\ send[m].at = NoUser
    /\ send' = [send EXCEPT ![m] = [@ EXCEPT !.pc = "answered"]]
    /\ idem' = [idem EXCEPT ![send[m].id] = m]
    /\ answers' = answers \cup {<<send[m].id, m>>}
    /\ UNCHANGED <<membershipVars, canon, rowVars, countVars, task,
                   reached, failed, boundVars>>

-----------------------------------------------------------------------------
(* Replays, and confirmations by the recipient. *)

Idle(u, m) == \A t \in task : t.user # u \/ t.msg # m

Task(kind, u, m) ==
    [kind |-> kind, user |-> u, msg |-> m, pc |-> "state", total |-> 0,
     got |-> {}]

(* A row that is neither marked nor in state delivered is replayed when    *)
(* its user connects.                                                      *)
Replay(u, m) ==
    /\ Idle(u, m)
    /\ row[m][u] = "sent" /\ <<m, u>> \notin marked
    /\ task' = task \cup {Task("replay", u, m)}
    /\ UNCHANGED <<membershipVars, sendVars, rowVars, countVars,
                   traceVars, boundVars>>

(* MESSAGE_DELIVERED_CONFIRM: the row's state and the mark, and no count. *)
Confirm(u, m) ==
    /\ <<m, u>> \in reached
    /\ Idle(u, m)
    /\ row[m][u] = "sent"
    /\ task' = task \cup {Task("confirm", u, m)}
    /\ UNCHANGED <<membershipVars, sendVars, rowVars, countVars,
                   traceVars, boundVars>>

Becomes(t, s) == task' = (task \ {t}) \cup {[t EXCEPT !.pc = s]}
Ends(t) == task' = task \ {t}

(* updateMessageState; a failure ends the replay of the row. *)
WriteState(t) ==
    /\ t \in task /\ t.pc = "state"
    /\ \/ /\ row' = [row EXCEPT ![t.msg][t.user] = "delivered"]
          /\ Becomes(t, "mark")
          /\ Healthy
       \/ row' = row /\ Ends(t) /\ Faulty
    /\ UNCHANGED <<membershipVars, sendVars, marked, countVars,
                   traceVars, moves>>

(* markMessageDelivered *)
WriteMark(t) ==
    /\ t \in task /\ t.pc = "mark"
    /\ \/ /\ marked' = marked \cup {<<t.msg, t.user>>}
          /\ IF t.kind = "replay" THEN Becomes(t, "count") ELSE Ends(t)
          /\ Healthy
       \/ marked' = marked /\ Ends(t) /\ Faulty
    /\ UNCHANGED <<membershipVars, sendVars, row, countVars, traceVars,
                   moves>>

(* The count of a replayed row: the members the room has now are the total *)
(* of an entry that has none, which is read from the rows first.           *)
CountReplayed(t) ==
    LET n == Cardinality(Others(members[Room])) IN
    /\ t \in task /\ t.pc = "count"
    /\ \/ /\ entry[t.msg].total # 0
          /\ Record(t.msg, t.user, entry[t.msg], n)
          /\ Ends(t)
       \/ /\ entry[t.msg].total = 0
          /\ task' = (task \ {t}) \cup {[t EXCEPT !.pc = "query", !.total = n]}
          /\ UNCHANGED <<entry, told>>
    /\ UNCHANGED <<membershipVars, sendVars, rowVars, rebuilt,
                   traceVars, boundVars>>

(* getDeliveredRecipientIdsForRoomMessage *)
QueryRows(t) ==
    /\ t \in task /\ t.pc = "query"
    /\ task' = (task \ {t}) \cup
         {[t EXCEPT !.pc = "hydrate",
                    !.got = {u \in User : row[t.msg][u] = "delivered"}]}
    /\ UNCHANGED <<membershipVars, sendVars, rowVars, countVars,
                   traceVars, boundVars>>

(* hydrate replaces whatever the entry has become, and the row is counted; *)
(* after a failed query it is only counted.                                *)
CountHydrated(t) ==
    /\ t \in task
    /\ \/ t.pc = "hydrate" /\ Record(t.msg, t.user, Hydrated(t), t.total) /\ Healthy
       \/ t.pc = "query" /\ Record(t.msg, t.user, entry[t.msg], t.total) /\ Faulty
    /\ Ends(t)
    /\ rebuilt' = rebuilt \cup {t.msg}
    /\ UNCHANGED <<membershipVars, sendVars, rowVars, traceVars, moves>>

-----------------------------------------------------------------------------
(* Members and the process. *)

(* What the rooms promise; after a restart they come back as they were at  *)
(* some time.                                                              *)
MembersMove ==
    /\ moves < MaxMoves
    /\ moves' = moves + 1
    /\ \/ \E u, v \in User : Membership!Found(Room, u, v)
       \/ \E u \in User : Membership!Enter(Room, u) \/ Membership!Depart(Room, u)
       \/ Membership!Dissolve(Room)
       \/ /\ members[Room] = {}
          /\ \E S \in past[Room] : members' = [members EXCEPT ![Room] = S]
          /\ UNCHANGED past
    /\ UNCHANGED <<sendVars, rowVars, countVars, task, traceVars, faults>>

(* Memory is lost: what was under way, the counts, groupStore, the sockets *)
(* and the rooms.                                                          *)
Crash ==
    /\ Faulty
    /\ Membership!Forget
    /\ idem' = [c \in ClientId |-> NoMessage]
    /\ send' = [m \in Message |->
                  IF send[m].pc \in {"canonical", "fan"}
                    THEN [send[m] EXCEPT !.pc = "lost"] ELSE send[m]]
    /\ entry' = [m \in Message |-> NoEntry]
    /\ task' = {}
    /\ UNCHANGED <<canon, rowVars, told, rebuilt, traceVars, moves>>

Next ==
    \/ \E m \in Message :
          \/ \E c \in ClientId : Send(c, m)
          \/ PersistCanonical(m) \/ SendToMember(m) \/ Answer(m)
          \/ \E u \in User : PersistMember(m, u) \/ Replay(u, m) \/ Confirm(u, m)
    \/ \E c \in ClientId : Repeat(c)
    \/ \E t \in task : \/ WriteState(t) \/ WriteMark(t) \/ CountReplayed(t)
                       \/ QueryRows(t) \/ CountHydrated(t)
    \/ MembersMove
    \/ Crash

Spec == Init /\ [][Next]_vars

-----------------------------------------------------------------------------
(* Properties. *)

Has(m, u) == <<m, u>> \in reached \/ row[m][u] = "delivered"

(* Nobody is counted who has not got the message: whatever sends, replays, *)
(* rebuilt counts and restarts have made of an entry, each member in it    *)
(* had a frame queued or a row that was replayed or confirmed.             *)
CountIsBacked ==
    \A m \in Message : \A u \in entry[m].delivered : Has(m, u)

(* A sender that is told a room message is complete is told the truth      *)
(* about everyone it was sent to, unless a replay has remade the count     *)
(* from the members of a later time.                                       *)
CompleteIsHonest ==
    \A m \in told \ rebuilt : \A u \in Others(send[m].to) : Has(m, u)

(* A successful answer, first or repeated, names a message every member    *)
(* has a row of, so that those who were away can be replayed, and history  *)
(* has a row of its clientMessageId, except where the database refused it. *)
AnsweredIsStored ==
    \A a \in answers :
        /\ \A u \in send[a[2]].to :
              row[a[2]][u] # "none" \/ <<a[2], u>> \in failed
        /\ \/ \E k \in canon : send[k].id = a[1]
           \/ <<a[2], NoUser>> \in failed
=============================================================================
