------------------------- MODULE GroupDeliveryProofs -------------------------
(***************************************************************************)
(* Theorems about GroupDelivery, for any users, clientMessageIds and       *)
(* bounds: its types, that the counts are backed by deliveries, that a     *)
(* sender is told the truth, and that answered messages are stored.        *)
(***************************************************************************)
EXTENDS GroupDelivery, FiniteSetTheorems, TLAPS

USE UserAssumption, SenderAssumption, RoomAssumption, BoundAssumption

-----------------------------------------------------------------------------
(* Counts *)

LEMMA SomeUsers ==
  ASSUME NEW S \in SUBSET User
  PROVE  IsFiniteSet(S) /\ Cardinality(S) \in Nat
BY FS_Subset, FS_CardinalityType

LEMMA OthersType ==
  ASSUME NEW S \in SUBSET User
  PROVE  /\ Others(S) \in SUBSET (User \ {Sender})
         /\ Cardinality(Others(S)) \in Nat
<1>1. Others(S) \in SUBSET User
  BY DEF Others
<1> QED BY <1>1, SomeUsers DEF Others

LEMMA CountedType ==
  ASSUME NEW e \in Entry, NEW u \in User, NEW n \in Nat
  PROVE  /\ Counted(e, u, n) \in Entry
         /\ Counted(e, u, n).total = IF e.total = 0 THEN n ELSE e.total
         /\ Counted(e, u, n).delivered = e.delivered \cup Others({u})
         /\ WithTotal(e, n) \in Entry
         /\ WithTotal(e, n).delivered = e.delivered
         /\ WithTotal(e, n).total = IF e.total = 0 THEN n ELSE e.total
BY DEF Counted, WithTotal, Entry, Others

(* A count that is complete with no one who was not sent the message has   *)
(* everyone who was.                                                       *)
LEMMA CompleteHasAll ==
  ASSUME NEW e \in Entry, NEW S \in SUBSET User, e.delivered \subseteq Others(S),
         e.total = Cardinality(Others(S)), IsComplete(e)
  PROVE  Others(S) = e.delivered
<1>1. IsFiniteSet(Others(S)) /\ Cardinality(Others(S)) \in Nat
  BY OthersType, SomeUsers
<1>2. /\ Cardinality(e.delivered) <= Cardinality(Others(S))
      /\ Cardinality(e.delivered) = Cardinality(Others(S)) => e.delivered = Others(S)
      /\ Cardinality(e.delivered) \in Nat
  BY <1>1, FS_Subset, FS_CardinalityType
<1> QED BY <1>1, <1>2 DEF IsComplete

LEMMA RecordType ==
  ASSUME TypeOK, NEW m \in Message, NEW u \in User, NEW e \in Entry, NEW n \in Nat,
         Record(m, u, e, n)
  PROVE  /\ entry' \in [Message -> Entry]
         /\ told' \subseteq Message
         /\ entry'[m] = Counted(e, u, n)
         /\ \A k \in Message : k # m => entry'[k] = entry[k]
         /\ told \subseteq told'
         /\ \A k \in told' \ told : k = m /\ IsComplete(entry'[m])
<1>1. Counted(e, u, n) \in Entry
  BY CountedType
<1> QED BY <1>1 DEF TypeOK, Record

LEMMA HydratedType ==
  ASSUME TypeOK, NEW t \in task
  PROVE  Hydrated(t) \in Entry /\ Hydrated(t).delivered = Others(t.got)
<1>1. t.total \in Nat /\ t.got \in SUBSET User
  BY DEF TypeOK, RowTask
<1> QED BY <1>1, OthersType DEF Hydrated, Entry

-----------------------------------------------------------------------------
(* Types *)

LEMMA MembershipTypes ==
  ASSUME TypeOK, MembersMove
  PROVE  members' \in [RoomId -> SUBSET User] /\ past' \in [RoomId -> SUBSET SUBSET User]
<1> USE DEF TypeOK
<1>1. ASSUME NEW u \in User, NEW v \in User, Membership!Found(Room, u, v)
      PROVE  members' \in [RoomId -> SUBSET User] /\ past' \in [RoomId -> SUBSET SUBSET User]
  BY <1>1 DEF Membership!Found
<1>2. CASE \/ \E u \in User : Membership!Enter(Room, u) \/ Membership!Depart(Room, u)
           \/ Membership!Dissolve(Room)
  <2>1. members' \in [RoomId -> SUBSET User]
    BY <1>2 DEF Membership!Enter, Membership!Depart, Membership!Dissolve
  <2>2. Membership!Remembers
    BY <1>2 DEF Membership!Enter, Membership!Depart, Membership!Dissolve
  <2> QED BY <2>1, <2>2 DEF Membership!Remembers
<1>3. CASE /\ members[Room] = {}
           /\ \E S \in past[Room] : members' = [members EXCEPT ![Room] = S]
           /\ UNCHANGED past
  BY <1>3
<1> QED BY <1>1, <1>2, <1>3 DEF MembersMove

LEMMA BoundTypes ==
  ASSUME TypeOK
  PROVE  /\ Faulty => faults' \in 0..MaxFaults
         /\ Healthy => faults' \in 0..MaxFaults
         /\ MembersMove => moves' \in 0..MaxMoves
BY DEF TypeOK, Faulty, Healthy, MembersMove

LEMMA TypeInit == Init => TypeOK
<1>1. NoSend \in Activation /\ NoEntry \in Entry
  BY DEF NoSend, Activation, NoEntry, Entry, Stage
<1> QED BY <1>1 DEF Init, TypeOK, Membership!Init, NoSend

LEMMA TaskTypes ==
  ASSUME TypeOK, NEW t \in task
  PROVE  /\ t.user \in User /\ t.msg \in Message
         /\ Ends(t) => task' \subseteq task
         /\ \A s \in Step : Becomes(t, s) =>
               task' \subseteq RowTask
         /\ Ends(t) => task' \subseteq RowTask
BY DEF TypeOK, Ends, Becomes, RowTask

(* One activation moves on. *)
LEMMA SendTypes ==
  ASSUME TypeOK, NEW m \in Message, NEW x \in Activation, x.id \in ClientId,
         send' = [send EXCEPT ![m] = x]
  PROVE  /\ send' \in [Message -> Activation]
         /\ \A k \in Message : send'[k].pc # "none" => send'[k].id \in ClientId
         /\ send'[m] = x
         /\ \A k \in Message : k # m => send'[k] = send[k]
BY DEF TypeOK

LEMMA ServedType ==
  ASSUME NEW a \in Activation, NEW u \in User
  PROVE  /\ Served(a, u) \in Activation
         /\ Served(a, u).pc = a.pc /\ Served(a, u).id = a.id /\ Served(a, u).to = a.to
         /\ Served(a, u).todo = a.todo \ {u} /\ Served(a, u).at = u
BY DEF Served, Activation

(* What the parts of sendRoomMessage do to the activation. *)
LEMMA StagesOfSend ==
  ASSUME TypeOK, NEW m \in Message
  PROVE  /\ \A c \in ClientId : Send(c, m) =>
               send' = [send EXCEPT ![m] =
                          [pc |-> "canonical", id |-> c, to |-> members[Room],
                           todo |-> members[Room], at |-> NoUser]]
         /\ \A pc \in Stage :
               send[m].pc # "none" =>
                 [send[m] EXCEPT !.pc = pc] \in Activation
         /\ \A u \in User : Served(send[m], u) \in Activation
         /\ [send[m] EXCEPT !.at = NoUser] \in Activation
         /\ \A c \in ClientId :
               [pc |-> "canonical", id |-> c, to |-> members[Room],
                todo |-> members[Room], at |-> NoUser] \in Activation
<1>1. send[m] \in Activation /\ members[Room] \in SUBSET User
  BY DEF TypeOK
<1>2. \A c \in ClientId : Send(c, m) =>
        send' = [send EXCEPT ![m] =
                   [pc |-> "canonical", id |-> c, to |-> members[Room],
                    todo |-> members[Room], at |-> NoUser]]
  BY DEF Send
<1>3. \A pc \in Stage : [send[m] EXCEPT !.pc = pc] \in Activation
  BY <1>1 DEF Activation
<1>4. \A u \in User : Served(send[m], u) \in Activation
  BY <1>1, ServedType
<1>5. [send[m] EXCEPT !.at = NoUser] \in Activation
  BY <1>1 DEF Activation
<1>6. \A c \in ClientId : [pc |-> "canonical", id |-> c, to |-> members[Room],
                           todo |-> members[Room], at |-> NoUser] \in Activation
  BY <1>1 DEF Activation, Stage
<1> QED BY <1>2, <1>3, <1>4, <1>5, <1>6

LEMMA TypeStep ==
  ASSUME TypeOK, [Next]_vars
  PROVE  TypeOK'
<1>1. ASSUME NEW m \in Message, NEW c \in ClientId, Send(c, m)
      PROVE  TypeOK'
  <2>1. /\ send' \in [Message -> Activation]
        /\ \A k \in Message : send'[k].pc # "none" => send'[k].id \in ClientId
    BY <1>1, StagesOfSend, SendTypes
  <2> QED BY <1>1, <2>1
          DEF Send, TypeOK, membershipVars, rowVars, countVars, traceVars, boundVars
<1>2. ASSUME NEW m \in Message, PersistCanonical(m)
      PROVE  TypeOK'
  <2>1. /\ send' = [send EXCEPT ![m] = [@ EXCEPT !.pc = "fan"]]
        /\ send[m].pc = "canonical"
        /\ canon' \subseteq canon \cup {m} /\ failed' \subseteq failed \cup {<<m, NoUser>>}
        /\ entry' = [entry EXCEPT ![m] = WithTotal(@, Cardinality(Others(send[m].to)))]
        /\ faults' \in 0..MaxFaults
        /\ UNCHANGED <<members, past, idem, row, marked, told, rebuilt, task, reached, answers, moves>>
    BY <1>2, BoundTypes DEF PersistCanonical, membershipVars, rowVars
  <2>2. entry' \in [Message -> Entry]
    <3>1. entry \in [Message -> Entry] /\ send[m].to \in SUBSET User
      BY DEF TypeOK, Activation
    <3>2. WithTotal(entry[m], Cardinality(Others(send[m].to))) \in Entry
      BY <3>1, CountedType, OthersType
    <3> QED BY <2>1, <3>1, <3>2
  <2>3. [send[m] EXCEPT !.pc = "fan"] \in Activation /\ send[m].id \in ClientId
    BY <2>1, StagesOfSend DEF TypeOK, Stage
  <2>4. /\ send' \in [Message -> Activation]
        /\ \A k \in Message : send'[k].pc # "none" => send'[k].id \in ClientId
    BY <2>1, <2>3, SendTypes DEF TypeOK, Activation
  <2> QED BY <2>1, <2>2, <2>4 DEF TypeOK
<1>3. ASSUME NEW m \in Message, NEW u \in User, PersistMember(m, u)
      PROVE  TypeOK'
  <2>1. /\ send' = [send EXCEPT ![m] = Served(@, u)]
        /\ send[m].pc = "fan"
        /\ row' = [row EXCEPT ![m][u] = "sent"] \/ row' = row
        /\ failed' = failed \/ failed' = failed \cup {<<m, u>>}
        /\ faults' \in 0..MaxFaults
        /\ UNCHANGED <<members, past, idem, canon, marked, entry, told, rebuilt, task,
                       reached, answers, moves>>
    BY <1>3, BoundTypes DEF PersistMember, membershipVars, countVars
  <2>2. Served(send[m], u) \in Activation /\ send[m].id \in ClientId
    BY <2>1, StagesOfSend DEF TypeOK
  <2>3. /\ send' \in [Message -> Activation]
        /\ \A k \in Message : send'[k].pc # "none" => send'[k].id \in ClientId
    <3> DEFINE x == Served(send[m], u)
    <3>1. x \in Activation /\ send' = [send EXCEPT ![m] = x]
      BY <2>1, <2>2
    <3>2. x.id = send[m].id
      BY ServedType DEF TypeOK
    <3> HIDE DEF x
    <3> QED BY <2>2, <3>1, <3>2, SendTypes
  <2>4. row' \in [Message -> [User -> {"none", "sent", "delivered"}]]
    <3>1. row \in [Message -> [User -> {"none", "sent", "delivered"}]]
      BY DEF TypeOK
    <3>2. row' = row \/ row' = [row EXCEPT ![m] = [@ EXCEPT ![u] = "sent"]]
      BY <2>1
    <3>3. [row[m] EXCEPT ![u] = "sent"] \in [User -> {"none", "sent", "delivered"}]
      BY <3>1
    <3> QED BY <3>1, <3>2, <3>3
  <2> QED BY <2>1, <2>3, <2>4 DEF TypeOK
<1>4. ASSUME NEW m \in Message, SendToMember(m)
      PROVE  TypeOK'
  <2> DEFINE u == send[m].at
  <2>1. u \in User /\ entry[m] \in Entry /\ Cardinality(Others(send[m].to)) \in Nat
    BY <1>4, OthersType DEF SendToMember, TypeOK, Activation
  <2>2. entry' \in [Message -> Entry] /\ told' \subseteq Message
    BY <1>4, <2>1, RecordType DEF SendToMember, TypeOK
  <2>3. [send[m] EXCEPT !.at = NoUser] \in Activation /\ send[m].id \in ClientId
    BY <1>4, StagesOfSend DEF TypeOK, SendToMember
  <2>4. /\ send' \in [Message -> Activation]
        /\ \A k \in Message : send'[k].pc # "none" => send'[k].id \in ClientId
    BY <1>4, <2>3, SendTypes DEF TypeOK, Activation, SendToMember
  <2>5. reached' \subseteq Message \X User
    BY <1>4, <2>1 DEF SendToMember, TypeOK
  <2> QED BY <1>4, <2>2, <2>4, <2>5
          DEF SendToMember, TypeOK, membershipVars, rowVars, boundVars
<1>5. ASSUME NEW m \in Message, Answer(m)
      PROVE  TypeOK'
  <2>1. [send[m] EXCEPT !.pc = "answered"] \in Activation /\ send[m].id \in ClientId
    BY <1>5, StagesOfSend DEF TypeOK, Answer, Stage
  <2>2. /\ send' \in [Message -> Activation]
        /\ \A k \in Message : send'[k].pc # "none" => send'[k].id \in ClientId
    BY <1>5, <2>1, SendTypes DEF TypeOK, Activation, Answer
  <2> QED BY <1>5, <2>1, <2>2
          DEF Answer, TypeOK, membershipVars, rowVars, countVars, boundVars
<1>6. ASSUME NEW c \in ClientId, Repeat(c)
      PROVE  TypeOK'
  BY <1>6 DEF Repeat, TypeOK, membershipVars, sendVars, rowVars, countVars, boundVars
<1>7. ASSUME NEW u \in User, NEW m \in Message, Replay(u, m) \/ Confirm(u, m)
      PROVE  TypeOK'
  <2>1. \A k \in Kind : Task(k, u, m) \in RowTask
    BY DEF Task, RowTask, Step
  <2>2. task' \subseteq task \cup {Task(k, u, m) : k \in Kind}
    BY <1>7 DEF Replay, Confirm, Kind
  <2> QED BY <1>7, <2>1, <2>2
          DEF Replay, Confirm, TypeOK, membershipVars, sendVars, rowVars, countVars,
              traceVars, boundVars
<1>8. ASSUME NEW t \in task, WriteState(t)
      PROVE  TypeOK'
  <2>1. t.user \in User /\ t.msg \in Message /\ task' \subseteq RowTask
    BY <1>8, TaskTypes DEF WriteState, Step
  <2>2. row' \in [Message -> [User -> {"none", "sent", "delivered"}]]
    <3>1. row \in [Message -> [User -> {"none", "sent", "delivered"}]]
      BY DEF TypeOK
    <3>2. row' = row \/ row' = [row EXCEPT ![t.msg] = [@ EXCEPT ![t.user] = "delivered"]]
      BY <1>8 DEF WriteState
    <3>3. [row[t.msg] EXCEPT ![t.user] = "delivered"] \in [User -> {"none", "sent", "delivered"}]
      BY <2>1, <3>1
    <3> QED BY <2>1, <3>1, <3>2, <3>3
  <2>3. faults' \in 0..MaxFaults
    BY <1>8, BoundTypes DEF WriteState
  <2> QED BY <1>8, <2>1, <2>2, <2>3
          DEF WriteState, TypeOK, membershipVars, sendVars, countVars, traceVars
<1>9. ASSUME NEW t \in task, WriteMark(t)
      PROVE  TypeOK'
  <2>1. t.user \in User /\ t.msg \in Message /\ task' \subseteq RowTask
    BY <1>9, TaskTypes DEF WriteMark, Step
  <2>2. faults' \in 0..MaxFaults /\ marked' \subseteq Message \X User
    BY <1>9, <2>1, BoundTypes DEF WriteMark, TypeOK
  <2> QED BY <1>9, <2>1, <2>2
          DEF WriteMark, TypeOK, membershipVars, sendVars, countVars, traceVars
<1>10. ASSUME NEW t \in task, CountReplayed(t)
       PROVE  TypeOK'
  <2> DEFINE n == Cardinality(Others(members[Room]))
  <2>1. t.user \in User /\ t.msg \in Message /\ n \in Nat /\ entry[t.msg] \in Entry
    BY TaskTypes, OthersType DEF TypeOK
  <2>2. entry' \in [Message -> Entry] /\ told' \subseteq Message
    BY <1>10, <2>1, RecordType DEF CountReplayed, TypeOK
  <2>3. [t EXCEPT !.pc = "query", !.total = n] \in RowTask
    <3>1. t \in RowTask
      BY DEF TypeOK
    <3> HIDE DEF n
    <3> QED BY <2>1, <3>1 DEF RowTask, Step
  <2>4. task' \subseteq RowTask
    BY <1>10, <2>3, TaskTypes DEF CountReplayed, TypeOK
  <2> QED BY <1>10, <2>2, <2>4
          DEF CountReplayed, TypeOK, membershipVars, sendVars, rowVars, traceVars, boundVars
<1>11. ASSUME NEW t \in task, QueryRows(t)
       PROVE  TypeOK'
  <2>1. [t EXCEPT !.pc = "hydrate", !.got = {u \in User : row[t.msg][u] = "delivered"}] \in RowTask
    <3>1. t \in RowTask /\ {u \in User : row[t.msg][u] = "delivered"} \in SUBSET User
      BY DEF TypeOK
    <3> HIDE <1>11
    <3> QED BY <3>1 DEF RowTask, Step
  <2>2. task' \subseteq RowTask
    BY <1>11, <2>1 DEF QueryRows, TypeOK
  <2> QED BY <1>11, <2>2
          DEF QueryRows, TypeOK, membershipVars, sendVars, rowVars, countVars, traceVars, boundVars
<1>12. ASSUME NEW t \in task, CountHydrated(t)
       PROVE  TypeOK'
  <2>1. /\ t.user \in User /\ t.msg \in Message /\ t.total \in Nat
        /\ entry[t.msg] \in Entry /\ Hydrated(t) \in Entry
    BY HydratedType DEF TypeOK, RowTask
  <2>2. entry' \in [Message -> Entry] /\ told' \subseteq Message
    BY <1>12, <2>1, RecordType DEF CountHydrated
  <2>3. faults' \in 0..MaxFaults /\ task' \subseteq RowTask
    BY <1>12, BoundTypes, TaskTypes DEF CountHydrated
  <2> QED BY <1>12, <2>1, <2>2, <2>3
          DEF CountHydrated, TypeOK, membershipVars, sendVars, rowVars, traceVars
<1>13. CASE MembersMove
  <2>1. UNCHANGED <<idem, send, canon, row, marked, entry, told, rebuilt, task,
                    reached, failed, answers, faults>>
    BY <1>13 DEF MembersMove, sendVars, rowVars, countVars, traceVars
  <2> QED BY <1>13, <2>1, MembershipTypes, BoundTypes DEF TypeOK
<1>14. CASE Crash
  <2>1. /\ send' \in [Message -> Activation]
        /\ \A m \in Message : send'[m].pc # "none" => send'[m].id \in ClientId
    <3>1. send \in [Message -> Activation]
      BY DEF TypeOK
    <3>2. \A m \in Message : [send[m] EXCEPT !.pc = "lost"] \in Activation
      BY <3>1 DEF Activation, Stage
    <3>3. \A m \in Message :
            /\ send'[m] = IF send[m].pc \in {"canonical", "fan"}
                            THEN [send[m] EXCEPT !.pc = "lost"] ELSE send[m]
            /\ [send[m] EXCEPT !.pc = "lost"].id = send[m].id
      BY <1>14, <3>1 DEF Crash, Activation
    <3>4. \A m \in Message : send[m].pc \in {"canonical", "fan"} => send[m].id \in ClientId
      BY DEF TypeOK
    <3>5. send' = [m \in Message |-> send'[m]]
      BY <1>14 DEF Crash
    <3>6. \A m \in Message : send[m].pc # "none" => send[m].id \in ClientId
      BY DEF TypeOK
    <3> QED BY <3>1, <3>2, <3>3, <3>4, <3>5, <3>6
  <2>2. /\ faults' \in 0..MaxFaults
        /\ members' \in [RoomId -> SUBSET User] /\ past' = past
        /\ entry' \in [Message -> Entry]
    BY <1>14, BoundTypes DEF Crash, Membership!Forget, NoEntry, Entry
  <2> QED BY <1>14, <2>1, <2>2 DEF Crash, TypeOK, rowVars, traceVars
<1>15. CASE UNCHANGED vars
  BY <1>15 DEF vars, TypeOK, membershipVars, sendVars, rowVars, countVars, traceVars, boundVars
<1> QED BY <1>1, <1>2, <1>3, <1>4, <1>5, <1>6, <1>7, <1>8, <1>9, <1>10, <1>11, <1>12,
           <1>13, <1>14, <1>15 DEF Next

(* TypeOK always holds. *)
THEOREM GroupTypeCorrect == Spec => []TypeOK
<1> QED BY TypeInit, TypeStep, PTL DEF Spec

-----------------------------------------------------------------------------
(* Sends, rows and counts *)

(* What an activation has done: it writes a row of a member when the       *)
(* member's turn has come, and answers when all have had theirs.           *)
SendInv ==
    \A m \in Message :
        /\ send[m].pc \in {"none", "canonical"} => entry[m] = NoEntry \/ m \in rebuilt
        /\ send[m].pc = "none" => m \notin told /\ m \notin rebuilt
        /\ \A u \in User : row[m][u] # "none" => /\ u \in send[m].to
                                                 /\ u \notin send[m].todo
                                                 /\ send[m].pc \notin {"none", "canonical"}
        /\ send[m].pc \in {"fan", "answered"} =>
              /\ \A u \in send[m].to \ send[m].todo :
                    row[m][u] # "none" \/ <<m, u>> \in failed
              /\ \/ \E k \in canon : send[k].id = send[m].id
                 \/ <<m, NoUser>> \in failed
        /\ send[m].pc = "answered" => send[m].todo = {}
        /\ send[m].at \in User => send[m].at \in send[m].to
        /\ send[m].todo \subseteq send[m].to
        /\ send[m].pc \in {"none", "canonical"} => send[m].todo = send[m].to
        /\ m \in canon => send[m].pc # "none"

AnswerInv ==
    /\ \A a \in answers : send[a[2]].pc = "answered" /\ send[a[2]].id = a[1]
    /\ \A c \in ClientId : idem[c] # NoMessage => <<c, idem[c]>> \in answers

(* A row that is being counted is in state delivered, and so is every row  *)
(* a rebuilt count is made of.                                             *)
TaskInv ==
    \A t \in task :
        /\ row[t.msg][t.user] # "none"
        /\ t.pc # "state" => row[t.msg][t.user] = "delivered"
        /\ \A u \in t.got : row[t.msg][u] = "delivered"

(* A count that no replay has made has the recipients of the send for its  *)
(* total, and nobody but them in it.                                       *)
CountInv ==
    \A m \in Message \ rebuilt :
        /\ entry[m].total \in {0, Cardinality(Others(send[m].to))}
        /\ entry[m].delivered \subseteq Others(send[m].to)

IInv == SendInv /\ AnswerInv /\ TaskInv /\ CountInv /\ CountIsBacked /\ CompleteIsHonest

(* How the parts of sendRoomMessage change its activation. *)
LEMMA SendMoves ==
  ASSUME TypeOK, NEW m \in Message, NEW k \in Message
  PROVE  /\ \A c \in ClientId : Send(c, m) =>
               IF k = m THEN /\ send'[k].pc = "canonical" /\ send'[k].id = c
                             /\ send'[k].to = members[Room] /\ send'[k].todo = members[Room]
                             /\ send'[k].at = NoUser
               ELSE send'[k] = send[k]
         /\ PersistCanonical(m) =>
               IF k = m THEN /\ send'[k].pc = "fan" /\ send'[k].id = send[k].id
                             /\ send'[k].to = send[k].to /\ send'[k].todo = send[k].todo
                             /\ send'[k].at = send[k].at
               ELSE send'[k] = send[k]
         /\ \A u \in User : PersistMember(m, u) =>
               IF k = m THEN /\ send'[k].pc = send[k].pc /\ send'[k].id = send[k].id
                             /\ send'[k].to = send[k].to /\ send'[k].todo = send[k].todo \ {u}
                             /\ send'[k].at = u
               ELSE send'[k] = send[k]
         /\ SendToMember(m) =>
               IF k = m THEN /\ send'[k].pc = send[k].pc /\ send'[k].id = send[k].id
                             /\ send'[k].to = send[k].to /\ send'[k].todo = send[k].todo
                             /\ send'[k].at = NoUser
               ELSE send'[k] = send[k]
         /\ Answer(m) =>
               IF k = m THEN /\ send'[k].pc = "answered" /\ send'[k].id = send[k].id
                             /\ send'[k].to = send[k].to /\ send'[k].todo = send[k].todo
                             /\ send'[k].at = send[k].at
               ELSE send'[k] = send[k]
         /\ Crash =>
               /\ send'[k].pc = IF send[k].pc \in {"canonical", "fan"} THEN "lost" ELSE send[k].pc
               /\ send'[k].id = send[k].id /\ send'[k].to = send[k].to
               /\ send'[k].todo = send[k].todo /\ send'[k].at = send[k].at
<1> USE DEF TypeOK, Activation
<1>1. \A c \in ClientId : Send(c, m) =>
               IF k = m THEN /\ send'[k].pc = "canonical" /\ send'[k].id = c
                             /\ send'[k].to = members[Room] /\ send'[k].todo = members[Room]
                             /\ send'[k].at = NoUser
               ELSE send'[k] = send[k]
  BY DEF Send
<1>2. PersistCanonical(m) =>
               IF k = m THEN /\ send'[k].pc = "fan" /\ send'[k].id = send[k].id
                             /\ send'[k].to = send[k].to /\ send'[k].todo = send[k].todo
                             /\ send'[k].at = send[k].at
               ELSE send'[k] = send[k]
  BY DEF PersistCanonical
<1>3. \A u \in User : PersistMember(m, u) =>
               IF k = m THEN /\ send'[k].pc = send[k].pc /\ send'[k].id = send[k].id
                             /\ send'[k].to = send[k].to /\ send'[k].todo = send[k].todo \ {u}
                             /\ send'[k].at = u
               ELSE send'[k] = send[k]
  BY ServedType DEF PersistMember
<1>4. SendToMember(m) =>
               IF k = m THEN /\ send'[k].pc = send[k].pc /\ send'[k].id = send[k].id
                             /\ send'[k].to = send[k].to /\ send'[k].todo = send[k].todo
                             /\ send'[k].at = NoUser
               ELSE send'[k] = send[k]
  BY DEF SendToMember
<1>5. Answer(m) =>
               IF k = m THEN /\ send'[k].pc = "answered" /\ send'[k].id = send[k].id
                             /\ send'[k].to = send[k].to /\ send'[k].todo = send[k].todo
                             /\ send'[k].at = send[k].at
               ELSE send'[k] = send[k]
  BY DEF Answer
<1>6. Crash =>
               /\ send'[k].pc = IF send[k].pc \in {"canonical", "fan"} THEN "lost" ELSE send[k].pc
               /\ send'[k].id = send[k].id /\ send'[k].to = send[k].to
               /\ send'[k].todo = send[k].todo /\ send'[k].at = send[k].at
  BY DEF Crash
<1> QED BY <1>1, <1>2, <1>3, <1>4, <1>5, <1>6

(* Rows: a new one is sent, and no row goes back from delivered. *)
LEMMA RowsMove ==
  ASSUME TypeOK, SendInv, TaskInv, [Next]_vars, NEW m \in Message, NEW u \in User
  PROVE  /\ row[m][u] = "delivered" => row'[m][u] = "delivered"
         /\ row[m][u] # "none" => row'[m][u] # "none"
         /\ row[m][u] = "none" /\ row'[m][u] # "none" =>
               send[m].pc = "fan" /\ u \in send[m].todo /\ PersistMember(m, u)
<1>1. ASSUME NEW k \in Message, NEW v \in User, PersistMember(k, v)
      PROVE  /\ row[m][u] = "delivered" => row'[m][u] = "delivered"
             /\ row[m][u] # "none" => row'[m][u] # "none"
             /\ row[m][u] = "none" /\ row'[m][u] # "none" =>
                   send[m].pc = "fan" /\ u \in send[m].todo /\ PersistMember(m, u)
  <2>1. /\ row' = row \/ row' = [row EXCEPT ![k][v] = "sent"]
        /\ v \in send[k].todo /\ send[k].pc = "fan" /\ row[k][v] = "none"
    BY <1>1 DEF PersistMember, SendInv
  <2>2. row'[m][u] = row[m][u] \/ (m = k /\ u = v /\ row'[m][u] = "sent")
    BY <2>1 DEF TypeOK
  <2> QED BY <1>1, <2>1, <2>2
<1>2. ASSUME NEW t \in task, WriteState(t)
      PROVE  /\ row[m][u] = "delivered" => row'[m][u] = "delivered"
             /\ row[m][u] # "none" => row'[m][u] # "none"
             /\ row'[m][u] # "none" => row[m][u] # "none"
  <2>1. /\ row' = row \/ row' = [row EXCEPT ![t.msg][t.user] = "delivered"]
        /\ row[t.msg][t.user] # "none"
    BY <1>2 DEF WriteState, TaskInv
  <2>2. row'[m][u] = row[m][u] \/ (m = t.msg /\ u = t.user /\ row'[m][u] = "delivered")
    BY <2>1, TaskTypes DEF TypeOK
  <2> QED BY <2>1, <2>2
<1>3. \/ row' = row
      \/ \E k \in Message, v \in User : PersistMember(k, v)
      \/ \E t \in task : WriteState(t)
  BY DEF Next, vars, Send, PersistCanonical, SendToMember, Answer, Repeat, Replay, Confirm,
         WriteMark, CountReplayed, QueryRows, CountHydrated, MembersMove, Crash, rowVars
<1> QED BY <1>1, <1>2, <1>3

LEMMA HasStays ==
  ASSUME TypeOK, SendInv, TaskInv, [Next]_vars, NEW m \in Message, NEW u \in User, Has(m, u)
  PROVE  Has(m, u)'
<1>1. reached \subseteq reached'
  BY DEF Next, vars, Send, PersistCanonical, PersistMember, SendToMember, Answer, Repeat,
         Replay, Confirm, WriteState, WriteMark, CountReplayed, QueryRows, CountHydrated,
         MembersMove, Crash, traceVars
<1> QED BY <1>1, RowsMove DEF Has

(* What leaves sends, counts and answers alone. *)
SendsKeep ==
    UNCHANGED <<send, canon, failed>> /\ (answers' = answers) /\ (idem' = idem)

LEMMA TasksKeepSends ==
  ASSUME NEW t \in task, \/ WriteState(t) \/ WriteMark(t) \/ CountReplayed(t)
                         \/ QueryRows(t) \/ CountHydrated(t)
  PROVE  SendsKeep
BY DEF SendsKeep, WriteState, WriteMark, CountReplayed, QueryRows, CountHydrated,
       sendVars, traceVars

LEMMA CountKeeps ==
  ASSUME TypeOK, NEW t \in task, CountReplayed(t) \/ CountHydrated(t), NEW k \in Message
  PROVE  k # t.msg => /\ entry'[k] = entry[k]
                      /\ k \in told' => k \in told
                      /\ k \in rebuilt' => k \in rebuilt
BY DEF CountReplayed, CountHydrated, Record, TypeOK

LEMMA SendInvStep ==
  ASSUME TypeOK, SendInv, TaskInv, [Next]_vars
  PROVE  SendInv'
<1> USE DEF SendInv
<1>0. \A a \in [Message -> Entry], m \in Message : a[m] \in Entry
  OBVIOUS
<1>1. ASSUME NEW m \in Message, NEW c \in ClientId, Send(c, m)
      PROVE  SendInv'
  <2>1. UNCHANGED <<row, entry, told, rebuilt, canon, failed>> /\ send[m].pc = "none"
    BY <1>1 DEF Send, rowVars, countVars, traceVars
  <2> SUFFICES ASSUME NEW k \in Message PROVE SendInv!(k)'
    OBVIOUS
  <2>2. CASE k = m
    BY <1>1, <2>1, <2>2, SendMoves
  <2>3. CASE k # m
    <3>1. send'[k] = send[k]
      BY <1>1, <2>3, SendMoves
    <3>2. \A j \in canon : send'[j].id = send[j].id
      <4>1. \A j \in canon : j \in Message /\ j # m
        BY <2>1 DEF TypeOK
      <4> QED BY <1>1, <4>1, SendMoves
    <3> QED BY <2>1, <3>1, <3>2
  <2> QED BY <2>2, <2>3
<1>2. ASSUME NEW m \in Message, PersistCanonical(m)
      PROVE  SendInv'
  <2>1. /\ UNCHANGED <<row, told, rebuilt>> /\ send[m].pc = "canonical"
        /\ canon \subseteq canon' /\ canon' \subseteq canon \cup {m} /\ failed \subseteq failed'
        /\ \/ \E j \in canon' : send[j].id = send[m].id
           \/ <<m, NoUser>> \in failed'
        /\ \A j \in Message : j # m => entry'[j] = entry[j]
    BY <1>2 DEF PersistCanonical, rowVars, TypeOK
  <2>2. \A j \in Message : send'[j].id = send[j].id
    BY <1>2, SendMoves
  <2> SUFFICES ASSUME NEW k \in Message PROVE SendInv!(k)'
    OBVIOUS
  <2>3. CASE k = m
    <3>1. \A u \in User : row[m][u] = "none"
      BY <2>1
    <3>2. send[m].todo = send[m].to
      BY <2>1
    <3> QED BY <1>2, <2>1, <2>2, <2>3, <3>1, <3>2, SendMoves DEF TypeOK
  <2>4. CASE k # m
    BY <1>2, <2>1, <2>2, <2>4, SendMoves DEF TypeOK
  <2> QED BY <2>3, <2>4
<1>3. ASSUME NEW m \in Message, NEW u \in User, PersistMember(m, u)
      PROVE  SendInv'
  <2>1. /\ UNCHANGED <<entry, told, rebuilt, canon>> /\ send[m].pc = "fan"
        /\ u \in send[m].todo
        /\ failed \subseteq failed'
        /\ row'[m][u] # "none" \/ <<m, u>> \in failed'
    BY <1>3 DEF PersistMember, countVars, TypeOK
  <2>2. \A j \in Message, v \in User :
          /\ row[j][v] # "none" => row'[j][v] # "none"
          /\ row'[j][v] # "none" => row[j][v] # "none" \/ (j = m /\ v = u)
    BY <1>3 DEF PersistMember, TypeOK
  <2>3. \A j \in Message : send'[j].id = send[j].id
    BY <1>3, SendMoves
  <2>4. \A j \in canon : j \in Message
    BY DEF TypeOK
  <2> SUFFICES ASSUME NEW k \in Message PROVE SendInv!(k)'
    OBVIOUS
  <2>5. CASE k = m
    <3>1. /\ send'[m].pc = "fan" /\ send'[m].to = send[m].to
          /\ send'[m].todo = send[m].todo \ {u} /\ send'[m].at = u /\ send'[m].id = send[m].id
      BY <1>3, <2>1, SendMoves
    <3>2. \A v \in send[m].to \ send'[m].todo :
             row'[m][v] # "none" \/ <<m, v>> \in failed'
      <4>1. send[m].to \subseteq User
        BY DEF TypeOK, Activation
      <4>2. \A v \in send[m].to \ send[m].todo : row[m][v] # "none" \/ <<m, v>> \in failed
        BY <2>1
      <4> HIDE DEF SendInv
      <4> QED BY <2>1, <2>2, <3>1, <4>1, <4>2
    <3> QED BY <2>1, <2>2, <2>3, <2>4, <2>5, <3>1, <3>2
  <2>6. CASE k # m
    <3>1. send'[k] = send[k]
      BY <1>3, <2>6, SendMoves
    <3>2. send[k].to \subseteq User
      BY DEF TypeOK, Activation
    <3> QED BY <2>1, <2>2, <2>3, <2>4, <2>6, <3>1, <3>2
  <2> QED BY <2>5, <2>6
<1>4. ASSUME NEW m \in Message, SendToMember(m)
      PROVE  SendInv'
  <2>1. /\ UNCHANGED <<row, rebuilt, canon, failed>> /\ send[m].pc = "fan"
        /\ \A k \in Message : k # m => entry'[k] = entry[k] /\ (k \in told' => k \in told)
    BY <1>4 DEF SendToMember, Record, rowVars, TypeOK
  <2>2. \A j \in Message : send'[j].id = send[j].id
    BY <1>4, SendMoves
  <2>3. \A j \in canon : j \in Message
    BY DEF TypeOK
  <2> SUFFICES ASSUME NEW k \in Message PROVE SendInv!(k)'
    OBVIOUS
  <2>4. CASE k = m
    BY <1>4, <2>1, <2>2, <2>3, <2>4, SendMoves
  <2>5. CASE k # m
    <3>1. send'[k] = send[k]
      BY <1>4, <2>5, SendMoves
    <3> QED BY <2>1, <2>2, <2>3, <2>5, <3>1
  <2> QED BY <2>4, <2>5
<1>5. ASSUME NEW m \in Message, Answer(m)
      PROVE  SendInv'
  <2>1. /\ UNCHANGED <<row, entry, told, rebuilt, canon, failed>>
        /\ send[m].pc = "fan" /\ send[m].todo = {}
    BY <1>5 DEF Answer, rowVars, countVars
  <2>2. \A j \in Message : send'[j].id = send[j].id
    BY <1>5, SendMoves
  <2>3. \A j \in canon : j \in Message
    BY DEF TypeOK
  <2> SUFFICES ASSUME NEW k \in Message PROVE SendInv!(k)'
    OBVIOUS
  <2>4. CASE k = m
    BY <1>5, <2>1, <2>2, <2>3, <2>4, SendMoves
  <2>5. CASE k # m
    <3>1. send'[k] = send[k]
      BY <1>5, <2>5, SendMoves
    <3> QED BY <2>1, <2>2, <2>3, <2>5, <3>1
  <2> QED BY <2>4, <2>5
<1>6. ASSUME NEW t \in task, WriteState(t) \/ WriteMark(t) \/ QueryRows(t)
      PROVE  SendInv'
  <2>1. UNCHANGED <<send, canon, failed, entry, told, rebuilt>>
    BY <1>6 DEF WriteState, WriteMark, QueryRows, sendVars, traceVars, countVars
  <2>2. \A j \in Message, v \in User : row'[j][v] # "none" <=> row[j][v] # "none"
    <3>1. ~\E j \in Message, v \in User : PersistMember(j, v) /\ row[j][v] = "none" /\ row'[j][v] # "none"
      <4> SUFFICES ASSUME NEW j \in Message, NEW v \in User, PersistMember(j, v) PROVE FALSE
        OBVIOUS
      <4>1. send' # send
        <5>1. v \in send[j].todo
          BY DEF PersistMember
        <5>2. v \notin send'[j].todo
          BY SendMoves
        <5> QED BY <5>1, <5>2
      <4> QED BY <2>1, <4>1
    <3> QED BY <3>1, RowsMove
  <2>3. \A j \in Message : send[j].to \subseteq User
    BY DEF TypeOK, Activation
  <2> QED BY <2>1, <2>2, <2>3
<1>7. ASSUME NEW t \in task, CountReplayed(t) \/ CountHydrated(t)
      PROVE  SendInv'
  <2>1. UNCHANGED <<send, canon, failed, row>>
    BY <1>7 DEF CountReplayed, CountHydrated, sendVars, traceVars, rowVars
  <2>2. t.msg \in Message /\ send[t.msg].pc \notin {"none", "canonical"}
    BY TaskTypes DEF TaskInv
  <2>3. \A k \in Message : k # t.msg => /\ entry'[k] = entry[k]
                                        /\ k \in told' => k \in told
                                        /\ k \in rebuilt' <=> k \in rebuilt
    <3>1. rebuilt \subseteq rebuilt'
      BY <1>7 DEF CountReplayed, CountHydrated
    <3> QED BY <1>7, <3>1, CountKeeps
  <2> SUFFICES ASSUME NEW k \in Message PROVE SendInv!(k)'
    OBVIOUS
  <2>4. CASE k = t.msg
    BY <2>1, <2>2, <2>4
  <2>5. CASE k # t.msg
    BY <2>1, <2>3, <2>5
  <2> QED BY <2>4, <2>5
<1>8. CASE Crash
  <2>1. /\ UNCHANGED <<canon, row, told, rebuilt, failed>>
        /\ \A k \in Message : entry'[k] = NoEntry
    BY <1>8 DEF Crash, rowVars, traceVars
  <2>2. \A j \in canon : j \in Message
    BY DEF TypeOK
  <2>3. \A j \in Message : send'[j].id = send[j].id
    BY <1>8, SendMoves
  <2> SUFFICES ASSUME NEW k \in Message PROVE SendInv!(k)'
    OBVIOUS
  <2>4. /\ send'[k].pc = IF send[k].pc \in {"canonical", "fan"} THEN "lost" ELSE send[k].pc
        /\ send'[k].to = send[k].to /\ send'[k].todo = send[k].todo /\ send'[k].at = send[k].at
    BY <1>8, SendMoves
  <2> QED BY <2>1, <2>2, <2>3, <2>4
<1>9. ASSUME \/ \E c \in ClientId : Repeat(c)
             \/ \E u \in User, m \in Message : Replay(u, m) \/ Confirm(u, m)
             \/ MembersMove \/ UNCHANGED vars
      PROVE  SendInv'
  <2>1. UNCHANGED <<send, canon, failed, entry, told, rebuilt, row>>
    BY <1>9 DEF Repeat, Replay, Confirm, MembersMove, vars, sendVars, traceVars, countVars, rowVars
  <2> QED BY <2>1
<1> QED BY <1>1, <1>2, <1>3, <1>4, <1>5, <1>6, <1>7, <1>8, <1>9 DEF Next

LEMMA AnswerInvStep ==
  ASSUME TypeOK, AnswerInv, [Next]_vars
  PROVE  AnswerInv'
<1> USE DEF AnswerInv
<1>0. /\ \A a \in answers : a \in ClientId \X Message
      /\ answers \subseteq answers'
  BY DEF TypeOK, Next, vars, Send, PersistCanonical, PersistMember, SendToMember, Answer, Repeat,
         Replay, Confirm, WriteState, WriteMark, CountReplayed, QueryRows, CountHydrated,
         MembersMove, Crash, traceVars
<1>1. \A a \in answers : send'[a[2]].pc = "answered" /\ send'[a[2]].id = a[1]
  <2> SUFFICES ASSUME NEW a \in answers
               PROVE  send'[a[2]].pc = "answered" /\ send'[a[2]].id = a[1]
    OBVIOUS
  <2> DEFINE k == a[2]
  <2>1. k \in Message /\ send[k].pc = "answered" /\ send[k].id = a[1]
    BY <1>0
  <2>2. \/ send' = send
        \/ \E m \in Message : /\ \/ \E c \in ClientId : Send(c, m)
                                 \/ PersistCanonical(m) \/ SendToMember(m) \/ Answer(m)
                                 \/ \E u \in User : PersistMember(m, u)
                              /\ send[m].pc # "answered"
        \/ Crash
    BY DEF Next, vars, Send, PersistCanonical, PersistMember, SendToMember, Answer, Repeat,
           Replay, Confirm, WriteState, WriteMark, CountReplayed, QueryRows, CountHydrated,
           MembersMove, sendVars
  <2> QED BY <2>1, <2>2, SendMoves
<1>2. \/ UNCHANGED <<answers, idem>>
      \/ \E m \in Message : Answer(m)
      \/ \E c \in ClientId : Repeat(c)
      \/ Crash
  BY DEF Next, vars, Send, PersistCanonical, PersistMember, SendToMember,
         Replay, Confirm, WriteState, WriteMark, CountReplayed, QueryRows, CountHydrated,
         MembersMove, sendVars, traceVars
<1>3. CASE UNCHANGED <<answers, idem>>
  BY <1>1, <1>3
<1>4. ASSUME NEW m \in Message, Answer(m)
      PROVE  AnswerInv'
  <2>1. /\ answers' = answers \cup {<<send[m].id, m>>}
        /\ idem' = [idem EXCEPT ![send[m].id] = m]
    BY <1>4 DEF Answer
  <2>2. send'[m].pc = "answered" /\ send'[m].id = send[m].id
    BY <1>4, SendMoves
  <2> QED BY <1>1, <2>1, <2>2 DEF TypeOK
<1>5. ASSUME NEW c \in ClientId, Repeat(c)
      PROVE  AnswerInv'
  <2>1. answers' = answers /\ idem' = idem
    BY <1>5 DEF Repeat, sendVars
  <2> QED BY <1>1, <2>1
<1>6. CASE Crash
  <2>1. answers' = answers /\ \A c \in ClientId : idem'[c] = NoMessage
    BY <1>6 DEF Crash, traceVars
  <2> QED BY <1>1, <2>1
<1> QED BY <1>2, <1>3, <1>4, <1>5, <1>6

LEMMA TaskInvStep ==
  ASSUME TypeOK, SendInv, TaskInv, [Next]_vars
  PROVE  TaskInv'
<1> DEFINE Good(t) == /\ row'[t.msg][t.user] # "none"
                      /\ t.pc # "state" => row'[t.msg][t.user] = "delivered"
                      /\ \A u \in t.got : row'[t.msg][u] = "delivered"
<1>1. \A t \in task : /\ t.msg \in Message /\ t.user \in User /\ t.got \subseteq User
                      /\ t.pc \in Step /\ t \in RowTask
  BY DEF TypeOK, RowTask
<1>2. \A t \in task : Good(t)
  BY <1>1, RowsMove DEF TaskInv
<1>3. \/ task' \subseteq task
      \/ \E u \in User, m \in Message : Replay(u, m) \/ Confirm(u, m)
      \/ \E t \in task : WriteState(t) \/ WriteMark(t) \/ CountReplayed(t) \/ QueryRows(t)
  BY DEF Next, vars, Send, PersistCanonical, PersistMember, SendToMember, Answer, Repeat,
         CountHydrated, Ends, MembersMove, Crash
<1>4. ASSUME NEW u \in User, NEW m \in Message, Replay(u, m) \/ Confirm(u, m)
      PROVE  TaskInv'
  <2>1. /\ row' = row /\ row[m][u] # "none"
        /\ task' \subseteq task \cup {Task(k, u, m) : k \in Kind}
    BY <1>4 DEF Replay, Confirm, Kind, rowVars
  <2>2. \A k \in Kind : Good(Task(k, u, m))
    BY <2>1 DEF Task
  <2> QED BY <1>2, <2>1, <2>2 DEF TaskInv
<1>5. ASSUME NEW t \in task, WriteState(t)
      PROVE  TaskInv'
  <2>1. \/ task' \subseteq task
        \/ /\ row' = [row EXCEPT ![t.msg][t.user] = "delivered"]
           /\ task' = (task \ {t}) \cup {[t EXCEPT !.pc = "mark"]}
    BY <1>5 DEF WriteState, Becomes, Ends
  <2>2. row' = [row EXCEPT ![t.msg][t.user] = "delivered"] => Good([t EXCEPT !.pc = "mark"])
    <3>1. row' = [row EXCEPT ![t.msg][t.user] = "delivered"] => row'[t.msg][t.user] = "delivered"
      BY <1>1 DEF TypeOK
    <3>2. \A x \in t.got : row'[t.msg][x] = "delivered"
      BY <1>2
    <3>3. /\ [t EXCEPT !.pc = "mark"].msg = t.msg /\ [t EXCEPT !.pc = "mark"].user = t.user
          /\ [t EXCEPT !.pc = "mark"].got = t.got
      BY <1>1 DEF RowTask
    <3> QED BY <3>1, <3>2, <3>3
  <2> QED BY <1>2, <2>1, <2>2 DEF TaskInv
<1>6. ASSUME NEW t \in task, WriteMark(t)
      PROVE  TaskInv'
  <2>1. \/ task' \subseteq task
        \/ task' = (task \ {t}) \cup {[t EXCEPT !.pc = "count"]}
    BY <1>6 DEF WriteMark, Becomes, Ends
  <2>2. Good([t EXCEPT !.pc = "count"])
    <3>1. t.pc = "mark"
      BY <1>6 DEF WriteMark
    <3>2. /\ [t EXCEPT !.pc = "count"].msg = t.msg /\ [t EXCEPT !.pc = "count"].user = t.user
          /\ [t EXCEPT !.pc = "count"].got = t.got
      BY <1>1 DEF RowTask
    <3> QED BY <1>2, <3>1, <3>2
  <2> QED BY <1>2, <2>1, <2>2 DEF TaskInv
<1>7. ASSUME NEW t \in task, CountReplayed(t)
      PROVE  TaskInv'
  <2> DEFINE n == Cardinality(Others(members[Room]))
             x == [t EXCEPT !.pc = "query", !.total = n]
  <2>1. task' \subseteq task \cup {x}
    BY <1>7 DEF CountReplayed, Ends
  <2>2. x.msg = t.msg /\ x.user = t.user /\ x.got = t.got
    BY <1>1 DEF RowTask
  <2>3. t.pc = "count"
    BY <1>7 DEF CountReplayed
  <2> HIDE DEF x
  <2>4. Good(x)
    BY <1>2, <2>2, <2>3
  <2> QED BY <1>2, <2>1, <2>4 DEF TaskInv
<1>8. ASSUME NEW t \in task, QueryRows(t)
      PROVE  TaskInv'
  <2> DEFINE S == {u \in User : row[t.msg][u] = "delivered"}
             x == [t EXCEPT !.pc = "hydrate", !.got = S]
  <2>1. task' \subseteq task \cup {x} /\ row' = row /\ t.pc = "query"
    BY <1>8 DEF QueryRows, rowVars
  <2>2. x.msg = t.msg /\ x.user = t.user /\ x.got = S
    BY <1>1 DEF RowTask
  <2> HIDE DEF x
  <2>3. Good(x)
    BY <1>2, <2>1, <2>2
  <2> QED BY <1>2, <2>1, <2>3 DEF TaskInv
<1>9. CASE task' \subseteq task
  BY <1>2, <1>9 DEF TaskInv
<1> QED BY <1>3, <1>4, <1>5, <1>6, <1>7, <1>8, <1>9

LEMMA RecordGives ==
  ASSUME TypeOK, NEW m \in Message, NEW u \in User, NEW e \in Entry, NEW n \in Nat,
         Record(m, u, e, n)
  PROVE  /\ entry'[m].total = IF e.total = 0 THEN n ELSE e.total
         /\ entry'[m].delivered = e.delivered \cup Others({u})
<1>1. entry'[m] = Counted(e, u, n)
  BY RecordType
<1>2. /\ Counted(e, u, n).total = IF e.total = 0 THEN n ELSE e.total
      /\ Counted(e, u, n).delivered = e.delivered \cup Others({u})
  BY CountedType
<1> QED BY <1>1, <1>2

(* Counting one more recipient of a send in the count the send made. *)
LEMMA RecordedOfSend ==
  ASSUME TypeOK, NEW m \in Message, NEW S \in SUBSET User, NEW u \in S, NEW n \in Nat,
         Record(m, u, entry[m], n),
         entry[m].delivered \subseteq Others(S),
         entry[m].total \in {0, Cardinality(Others(S))},
         entry[m].total = 0 => n = Cardinality(Others(S))
  PROVE  /\ entry'[m].total = Cardinality(Others(S))
         /\ entry'[m].delivered \subseteq Others(S)
         /\ m \in told' \ told => Others(S) = entry'[m].delivered
<1>1. entry[m] \in Entry /\ u \in User
  BY DEF TypeOK
<1>2. /\ entry'[m] = Counted(entry[m], u, n)
      /\ m \in told' \ told => IsComplete(entry'[m])
  BY <1>1, RecordType
<1>3. /\ entry'[m] \in Entry
      /\ entry'[m].total = Cardinality(Others(S))
      /\ entry'[m].delivered = entry[m].delivered \cup Others({u})
  <2>1. entry'[m] \in Entry
    BY <1>1, RecordType
  <2>2. /\ entry'[m].total = IF entry[m].total = 0 THEN n ELSE entry[m].total
        /\ entry'[m].delivered = entry[m].delivered \cup Others({u})
    BY <1>1, RecordGives
  <2> QED BY <2>1, <2>2
<1>4. entry'[m].delivered \subseteq Others(S)
  BY <1>3 DEF Others
<1> QED BY <1>2, <1>3, <1>4, CompleteHasAll

LEMMA CountStep ==
  ASSUME TypeOK, IInv, [Next]_vars
  PROVE  CountInv' /\ CountIsBacked' /\ CompleteIsHonest'
<1> DEFINE Quiet(k) == /\ entry'[k] = entry[k] \/ entry'[k] = NoEntry
                       /\ k \in told' => k \in told
                       /\ k \in rebuilt => k \in rebuilt'
                       /\ send'[k].to = send[k].to
           Sound(k) == /\ k \notin rebuilt' =>
                             /\ entry'[k].total \in {0, Cardinality(Others(send'[k].to))}
                             /\ entry'[k].delivered \subseteq Others(send'[k].to)
                       /\ \A u \in entry'[k].delivered : Has(k, u)'
                       /\ k \in told' \ rebuilt' => \A u \in Others(send'[k].to) : Has(k, u)'
<1>0. \A k \in Message : /\ entry[k] \in Entry /\ entry[k].delivered \subseteq User
                         /\ send[k].to \subseteq User /\ members[Room] \subseteq User
                         /\ \A u \in User : Has(k, u) => Has(k, u)'
                         /\ Cardinality(Others(send[k].to)) \in Nat
  BY HasStays, OthersType DEF TypeOK, Entry, Activation, IInv
<1>1. \A k \in Message : Quiet(k) => Sound(k)
  <2> SUFFICES ASSUME NEW k \in Message, Quiet(k) PROVE Sound(k)
    OBVIOUS
  <2>1. k \notin rebuilt' =>
          /\ entry'[k].total \in {0, Cardinality(Others(send'[k].to))}
          /\ entry'[k].delivered \subseteq Others(send'[k].to)
    BY DEF IInv, CountInv, NoEntry
  <2>2. \A u \in entry'[k].delivered : Has(k, u)'
    <3>1. \A u \in entry[k].delivered : u \in User /\ Has(k, u)
      BY <1>0 DEF IInv, CountIsBacked
    <3>2. \A u \in entry'[k].delivered : u \in entry[k].delivered
      BY DEF NoEntry
    <3> QED BY <1>0, <3>1, <3>2
  <2>3. k \in told' \ rebuilt' => \A u \in Others(send'[k].to) : Has(k, u)'
    <3>1. k \in told \ rebuilt => \A u \in Others(send[k].to) : u \in User /\ Has(k, u)
      BY <1>0 DEF IInv, CompleteIsHonest, Others
    <3> QED BY <1>0, <3>1
  <2> QED BY <2>1, <2>2, <2>3
<1> SUFFICES \A k \in Message : Sound(k)
  <2>1. ASSUME \A k \in Message : Sound(k)
        PROVE  CountInv'
    BY <2>1 DEF CountInv
  <2>2. ASSUME \A k \in Message : Sound(k)
        PROVE  CountIsBacked'
    BY <2>2 DEF CountIsBacked
  <2>3. ASSUME \A k \in Message : Sound(k)
        PROVE  CompleteIsHonest'
    <3>1. told' \subseteq Message
      BY TypeStep DEF TypeOK
    <3> QED BY <2>3, <3>1 DEF CompleteIsHonest
  <2> QED BY <2>1, <2>2, <2>3
<1>2. ASSUME NEW m \in Message, NEW c \in ClientId, Send(c, m)
      PROVE  \A k \in Message : Sound(k)
  <2>1. UNCHANGED <<entry, told, rebuilt>> /\ send[m].pc = "none"
    BY <1>2 DEF Send, countVars
  <2>2. \A k \in Message : k # m => Quiet(k)
    BY <1>2, <2>1, SendMoves
  <2>3. m \notin told /\ (entry[m] = NoEntry \/ m \in rebuilt)
    BY <2>1 DEF IInv, SendInv
  <2>4. Sound(m)
    BY <1>0, <2>1, <2>3 DEF NoEntry, IInv, CountIsBacked
  <2> QED BY <1>1, <2>2, <2>4
<1>3. ASSUME NEW m \in Message, PersistCanonical(m)
      PROVE  \A k \in Message : Sound(k)
  <2>1. /\ UNCHANGED <<told, rebuilt>>
        /\ entry' = [entry EXCEPT ![m] = WithTotal(@, Cardinality(Others(send[m].to)))]
    BY <1>3 DEF PersistCanonical
  <2>2. \A k \in Message : send'[k].to = send[k].to
    BY <1>3, SendMoves
  <2>3. \A k \in Message : k # m => Quiet(k)
    BY <2>1, <2>2 DEF TypeOK
  <2>4. entry'[m] = WithTotal(entry[m], Cardinality(Others(send[m].to)))
    BY <2>1 DEF TypeOK
  <2>5. /\ entry'[m].delivered = entry[m].delivered
        /\ entry'[m].total = IF entry[m].total = 0 THEN Cardinality(Others(send[m].to)) ELSE entry[m].total
    <3>1. WithTotal(entry[m], Cardinality(Others(send[m].to))).delivered = entry[m].delivered
      BY <1>0 DEF WithTotal, Entry
    <3>2. WithTotal(entry[m], Cardinality(Others(send[m].to))).total
            = IF entry[m].total = 0 THEN Cardinality(Others(send[m].to)) ELSE entry[m].total
      BY <1>0 DEF WithTotal, Entry
    <3> QED BY <2>4, <3>1, <3>2
  <2>6. Sound(m)
    BY <1>0, <2>1, <2>2, <2>5 DEF IInv, CountInv, CountIsBacked, CompleteIsHonest, Others
  <2> QED BY <1>1, <2>3, <2>6
<1>4. ASSUME NEW m \in Message, SendToMember(m)
      PROVE  \A k \in Message : Sound(k)
  <2> DEFINE n == Cardinality(Others(send[m].to))
  <2>0. PICK u \in User : u = send[m].at
    BY <1>4 DEF SendToMember, TypeOK, Activation
  <2>1. /\ u \in User /\ u \in send[m].to /\ rebuilt' = rebuilt
        /\ \/ UNCHANGED <<entry, told>>
           \/ Record(m, u, entry[m], n) /\ <<m, u>> \in reached'
    BY <1>4, <2>0 DEF SendToMember, TypeOK, Activation, IInv, SendInv
  <2>2. \A k \in Message : send'[k].to = send[k].to
    BY <1>4, SendMoves
  <2>3. CASE UNCHANGED <<entry, told>>
    <3>1. \A k \in Message : Quiet(k)
      BY <2>1, <2>2, <2>3
    <3> QED BY <1>1, <3>1
  <2>4. CASE Record(m, u, entry[m], n) /\ <<m, u>> \in reached'
    <3> HIDE DEF n
    <3>1. n \in Nat /\ n = Cardinality(Others(send[m].to))
      BY <1>0 DEF n
    <3>2. \A k \in Message : k # m => Quiet(k)
      BY <1>0, <2>1, <2>2, <2>4, <3>1, RecordType
    <3>3. entry'[m].delivered = entry[m].delivered \cup Others({u}) /\ Has(m, u)'
      <4>1. entry'[m].delivered = entry[m].delivered \cup Others({u})
        BY <1>0, <2>1, <2>4, <3>1, RecordGives
      <4> QED BY <2>4, <4>1 DEF Has
    <3>4. \A v \in entry'[m].delivered : Has(m, v)'
      <4>1. \A v \in entry[m].delivered : v \in User /\ Has(m, v)
        BY <1>0 DEF IInv, CountIsBacked
      <4>2. \A v \in Others({u}) : v = u
        BY DEF Others
      <4> QED BY <1>0, <3>3, <4>1, <4>2
    <3>5. m \notin rebuilt =>
            /\ entry'[m].total = Cardinality(Others(send[m].to))
            /\ entry'[m].delivered \subseteq Others(send[m].to)
            /\ m \in told' \ told => Others(send[m].to) = entry'[m].delivered
      <4> SUFFICES ASSUME m \notin rebuilt
                   PROVE  /\ entry'[m].total = Cardinality(Others(send[m].to))
                          /\ entry'[m].delivered \subseteq Others(send[m].to)
                          /\ m \in told' \ told => Others(send[m].to) = entry'[m].delivered
        OBVIOUS
      <4>1. /\ entry[m].total \in {0, Cardinality(Others(send[m].to))}
            /\ entry[m].delivered \subseteq Others(send[m].to)
        BY DEF IInv, CountInv
      <4> QED BY <1>0, <2>1, <2>4, <3>1, <4>1, RecordedOfSend
    <3>6. \A v \in Others(send[m].to) : v \in User /\ (m \in told \ rebuilt => Has(m, v)')
      BY <1>0 DEF Others, IInv, CompleteIsHonest
    <3>7. Sound(m)
      BY <2>1, <2>2, <3>4, <3>5, <3>6
    <3> QED BY <1>1, <3>2, <3>7
  <2> QED BY <2>1, <2>3, <2>4
<1>5. ASSUME NEW t \in task, CountReplayed(t)
      PROVE  \A k \in Message : Sound(k)
  <2> DEFINE m == t.msg
             u == t.user
             n == Cardinality(Others(members[Room]))
  <2>1. /\ m \in Message /\ u \in User /\ n \in Nat /\ rebuilt' = rebuilt
        /\ \A k \in Message : send'[k].to = send[k].to
        /\ row' = row
    BY <1>0, <1>5, TaskTypes, OthersType DEF CountReplayed, sendVars, rowVars
  <2>2. \/ UNCHANGED <<entry, told>>
        \/ entry[m].total # 0 /\ Record(m, u, entry[m], n)
    BY <1>5 DEF CountReplayed
  <2>3. CASE UNCHANGED <<entry, told>>
    <3>1. \A k \in Message : Quiet(k)
      BY <2>1, <2>3
    <3> QED BY <1>1, <3>1
  <2>4. CASE entry[m].total # 0 /\ Record(m, u, entry[m], n)
    <3>0. Has(m, u)'
      <4>1. t.pc = "count"
        BY <1>5 DEF CountReplayed
      <4> QED BY <2>1, <4>1 DEF Has, IInv, TaskInv
    <3>1. u \in send[m].to
      BY <2>1 DEF IInv, TaskInv, SendInv
    <3> HIDE DEF m, u, n
    <3>2. \A k \in Message : k # m => Quiet(k)
      BY <1>0, <2>1, <2>4, RecordType
    <3>3. entry'[m].delivered = entry[m].delivered \cup Others({u})
      BY <1>0, <2>1, <2>4, RecordGives
    <3>4. \A v \in entry'[m].delivered : Has(m, v)'
      BY <1>0, <2>1, <3>0, <3>3 DEF Others, IInv, CountIsBacked
    <3>5. m \notin rebuilt =>
            /\ entry'[m].total = Cardinality(Others(send[m].to))
            /\ entry'[m].delivered \subseteq Others(send[m].to)
            /\ m \in told' \ told => Others(send[m].to) = entry'[m].delivered
      <4> SUFFICES ASSUME m \notin rebuilt
                   PROVE  /\ entry'[m].total = Cardinality(Others(send[m].to))
                          /\ entry'[m].delivered \subseteq Others(send[m].to)
                          /\ m \in told' \ told => Others(send[m].to) = entry'[m].delivered
        OBVIOUS
      <4>1. /\ entry[m].total \in {0, Cardinality(Others(send[m].to))}
            /\ entry[m].delivered \subseteq Others(send[m].to)
        BY <2>1 DEF IInv, CountInv
      <4> QED BY <1>0, <2>1, <2>4, <3>1, <4>1, RecordedOfSend
    <3>6. \A v \in Others(send[m].to) : v \in User /\ (m \in told \ rebuilt => Has(m, v)')
      BY <1>0, <2>1 DEF Others, IInv, CompleteIsHonest
    <3>7. Sound(m)
      BY <2>1, <3>4, <3>5, <3>6
    <3> QED BY <1>1, <3>2, <3>7
  <2> QED BY <2>2, <2>3, <2>4
<1>6. ASSUME NEW t \in task, CountHydrated(t)
      PROVE  \A k \in Message : Sound(k)
  <2> DEFINE m == t.msg
             u == t.user
  <2>1. /\ m \in Message /\ u \in User /\ t.total \in Nat
        /\ rebuilt' = rebuilt \cup {m} /\ row' = row
        /\ \A k \in Message : send'[k].to = send[k].to
    BY <1>6, TaskTypes DEF CountHydrated, sendVars, rowVars, TypeOK, RowTask
  <2>2. Has(m, u)'
    <3>1. t.pc \in {"hydrate", "query"}
      BY <1>6 DEF CountHydrated
    <3> QED BY <2>1, <3>1 DEF Has, IInv, TaskInv
  <2>3. PICK e \in {Hydrated(t), entry[m]} : Record(m, u, e, t.total)
    BY <1>6 DEF CountHydrated
  <2>4. e \in Entry /\ e.delivered \subseteq User
    BY <1>0, <2>1, HydratedType DEF Entry
  <2>5. \A v \in e.delivered : Has(m, v)'
    <3>1. CASE e = entry[m]
      BY <1>0, <2>1, <3>1 DEF IInv, CountIsBacked
    <3>2. CASE e = Hydrated(t)
      <4>1. e.delivered = Others(t.got)
        BY <3>2, HydratedType
      <4>2. \A v \in t.got : row[m][v] = "delivered"
        BY DEF IInv, TaskInv
      <4> QED BY <2>1, <4>1, <4>2 DEF Others, Has
    <3> QED BY <3>1, <3>2
  <2>6. entry'[m].delivered = e.delivered \cup Others({u})
    <3> HIDE DEF m, u
    <3> QED BY <2>1, <2>3, <2>4, RecordGives
  <2>7. Sound(m)
    BY <2>1, <2>2, <2>5, <2>6 DEF Others
  <2>8. \A k \in Message : k # m => Quiet(k)
    <3> HIDE DEF m, u
    <3> QED BY <2>1, <2>3, <2>4, RecordType
  <2> QED BY <1>1, <2>7, <2>8
<1>7. CASE Crash
  <2>1. \A k \in Message : Quiet(k)
    BY <1>7, SendMoves DEF Crash
  <2> QED BY <1>1, <2>1
<1>8. ASSUME NEW m \in Message,
             Answer(m) \/ \E u \in User : PersistMember(m, u)
      PROVE  \A k \in Message : Sound(k)
  <2>1. \A k \in Message : Quiet(k)
    BY <1>8, SendMoves DEF Answer, PersistMember, countVars
  <2> QED BY <1>1, <2>1
<1>9. ASSUME \/ \E c \in ClientId : Repeat(c)
             \/ \E u \in User, m \in Message : Replay(u, m) \/ Confirm(u, m)
             \/ \E t \in task : WriteState(t) \/ WriteMark(t) \/ QueryRows(t)
             \/ MembersMove \/ UNCHANGED vars
      PROVE  \A k \in Message : Sound(k)
  <2>1. UNCHANGED <<send, entry, told, rebuilt>>
    BY <1>9 DEF Repeat, Replay, Confirm, WriteState, WriteMark, QueryRows, MembersMove, vars,
                sendVars, countVars
  <2> QED BY <1>1, <2>1
<1> QED BY <1>2, <1>3, <1>4, <1>5, <1>6, <1>7, <1>8, <1>9 DEF Next

-----------------------------------------------------------------------------
(* The theorems *)

LEMMA IInvInit == Init => IInv
<1> SUFFICES ASSUME Init PROVE IInv
  OBVIOUS
<1>1. \A m \in Message : /\ send[m] = NoSend /\ entry[m] = NoEntry
                         /\ \A u \in User : row[m][u] = "none"
  BY DEF Init
<1>2. canon = {} /\ told = {} /\ rebuilt = {} /\ task = {} /\ answers = {}
  BY DEF Init
<1>3. \A c \in ClientId : idem[c] = NoMessage
  BY DEF Init
<1>4. SendInv
  <2>1. \A m \in Message : /\ send[m].pc = "none" /\ send[m].to = {}
                           /\ send[m].todo = {} /\ send[m].at \notin User
    BY <1>1 DEF NoSend
  <2> QED BY <1>1, <1>2, <2>1 DEF SendInv
<1>5. AnswerInv /\ TaskInv /\ CompleteIsHonest
  BY <1>2, <1>3 DEF AnswerInv, TaskInv, CompleteIsHonest
<1>6. CountInv /\ CountIsBacked
  BY <1>1 DEF CountInv, CountIsBacked, NoEntry
<1> QED BY <1>4, <1>5, <1>6 DEF IInv

LEMMA IInvStep == TypeOK /\ IInv /\ [Next]_vars => IInv'
BY SendInvStep, AnswerInvStep, TaskInvStep, CountStep DEF IInv

LEMMA AnsweredFromIInv == TypeOK /\ IInv => AnsweredIsStored
<1> SUFFICES ASSUME TypeOK, IInv, NEW a \in answers
             PROVE  /\ \A u \in send[a[2]].to : row[a[2]][u] # "none" \/ <<a[2], u>> \in failed
                    /\ \/ \E k \in canon : send[k].id = a[1]
                       \/ <<a[2], NoUser>> \in failed
  BY DEF AnsweredIsStored
<1>1. a[2] \in Message /\ send[a[2]].pc = "answered" /\ send[a[2]].id = a[1]
  BY DEF TypeOK, IInv, AnswerInv
<1>2. send[a[2]].todo = {}
  BY <1>1 DEF IInv, SendInv
<1> QED BY <1>1, <1>2 DEF IInv, SendInv

LEMMA IInvHolds == Spec => []IInv
<1> QED BY GroupTypeCorrect, IInvInit, IInvStep, PTL DEF Spec

(* CountIsBacked always holds: nobody is counted who has not got the       *)
(* message.                                                                *)
THEOREM CountStaysBacked == Spec => []CountIsBacked
<1>1. IInv => CountIsBacked
  BY DEF IInv
<1> QED BY <1>1, IInvHolds, PTL

(* CompleteIsHonest always holds: who is told a message is complete is     *)
(* told the truth about everyone it was sent to.                           *)
THEOREM CompletionStaysHonest == Spec => []CompleteIsHonest
<1>1. IInv => CompleteIsHonest
  BY DEF IInv
<1> QED BY <1>1, IInvHolds, PTL

(* AnsweredIsStored always holds: an answered message has its rows. *)
THEOREM AnsweredStaysStored == Spec => []AnsweredIsStored
<1> QED BY GroupTypeCorrect, IInvHolds, AnsweredFromIInv, PTL
=============================================================================
