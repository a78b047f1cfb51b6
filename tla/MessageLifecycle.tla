-------------------------- MODULE MessageLifecycle --------------------------
(***************************************************************************)
(* The life of direct messages from one sender to one recipient on one     *)
(* backend instance: intake and idempotency, persistence, the delivery     *)
(* attempt, the recipient's confirmations, replay after a reconnect, the   *)
(* FAILED mark of a slow socket, and restarts that lose all memory.        *)
(*                                                                         *)
(* A handler is asynchronous: it runs without interruption up to an await  *)
(* on MongoDB and any other handler may run in between.  A Task is such an *)
(* activation; pc[t] names the await it stands at, and every action below  *)
(* is one database operation together with the code that runs up to the    *)
(* next one.                                                               *)
(***************************************************************************)
EXTENDS Naturals, FiniteSets

CONSTANTS
    Mid,          \* server message ids; their order is the replay order
    Cmid,         \* client message ids the sender may attach
    NoMid,        \* "no message"
    NoCmid,       \* a send without a clientMessageId
    Task,         \* concurrent handler activations
    ReplayLimit,  \* how many rows a replay query returns
    Faults,       \* environment faults considered
    MaxRequests,  \* bound: requests in a behaviour
    MaxFaults     \* bound: faults in a behaviour

AllFaults == {"crash", "db", "socket", "disconnect", "overflow", "timeout"}

ASSUME MidAssumption   == Mid \subseteq Nat /\ NoMid \notin Mid
ASSUME CmidAssumption  == NoCmid \notin Cmid
ASSUME LimitAssumption == ReplayLimit \in Nat
ASSUME BoundAssumption == MaxRequests \in Nat /\ MaxFaults \in Nat
ASSUME FaultAssumption == Faults \subseteq AllFaults

VARIABLES
    row,      \* messages collection: state of the row of each id
    cmidOf,   \* the clientMessageId of each generated id
    marked,   \* deliveries collection: ids marked delivered to the recipient
    issued,   \* ids generated so far
    mem,      \* message.service messageStore: state of the domain object
    dedupe,   \* message.service clientMessageIdMap
    cache,    \* websocket/state/messageStore: cached row state
    record,   \* directDeliveryStore: state of the delivery record
    timer,    \* directDeliveryStore: ids whose ACK timeout is armed
    failure,  \* ids for which ACK_TIMEOUT or SOCKET_CLOSED was recorded
    frames,   \* outbound queues: <<kind, id>> while a frame naming id waits
    failing,  \* ids a sendOrFail is about to mark FAILED
    open,     \* the recipient has an OPEN socket
    held,     \* ids the recipient's client has received
    pushed,   \* those it received as a live MESSAGE_RECEIVE
    pc,       \* where each handler stands
    msg,      \* the message each handler works on
    todo,     \* a replay's rows still to look at
    out,      \* a replay's messages to emit at its end
    via,      \* how a replay emits: its own socket, all sockets, or gone
    acks,     \* MESSAGE_ACKs given: <<client id, id>>
    nacks,    \* client ids answered by MESSAGE_NACK
    told,     \* MESSAGE_STATE_UPDATEs emitted to the sender: <<id, state>>
    claimed,  \* ids a replay has marked delivered
    forced,   \* ids the HTTP mark-read endpoint forced to READ
    requests, \* requests so far
    faults    \* faults so far

dbVars   == <<row, marked>>
idVars   == <<issued, cmidOf>>
memVars  == <<mem, dedupe, cache, record, timer, failure>>
wireVars == <<frames, failing, open, held, pushed>>
taskVars == <<pc, msg, todo, out, via>>
histVars == <<acks, nacks, told, claimed, forced>>
bounds   == <<requests, faults>>
vars     == <<dbVars, idVars, memVars, wireVars, taskVars, histVars, bounds>>

-----------------------------------------------------------------------------
(* Types *)

Key         == Cmid \cup {NoCmid}
RowState    == {"none", "sent", "delivered", "read", "FAILED"}
MemState    == {"none", "sending", "sent", "delivered", "read"}
RecordState == {"none", "PERSISTED", "SENT", "DELIVERED", "READ"}
FrameKind   == {"sender", "live", "replay"}

SendPc    == {"lookup", "insert", "create", "update", "finish"}
AttemptPc == {"load", "check", "emit"}
ConfirmPc == {"dRead", "dWrite", "dMark", "dFinish"}
ReadPc    == {"rRead", "rWrite", "rMark", "rFinish", "rNotify"}
ReplayPc  == {"pFetch", "pPick", "pCheck", "pWrite", "pMark", "pFinish"}
Pc        == {"idle"} \cup SendPc \cup AttemptPc \cup ConfirmPc
                      \cup ReadPc \cup ReplayPc

DbType ==
    /\ row     \in [Mid -> RowState]
    /\ marked  \subseteq Mid

IdType ==
    /\ issued  \subseteq Mid
    /\ cmidOf  \in [Mid -> Key]

MemType ==
    /\ mem     \in [Mid -> MemState]
    /\ dedupe  \in [Cmid -> Mid \cup {NoMid}]
    /\ cache   \in [Mid -> RowState]
    /\ record  \in [Mid -> RecordState]
    /\ timer   \subseteq Mid
    /\ failure \subseteq Mid

WireType ==
    /\ frames  \subseteq (FrameKind \X Mid)
    /\ failing \subseteq Mid
    /\ open    \in BOOLEAN
    /\ held    \subseteq Mid
    /\ pushed  \subseteq Mid

TaskType ==
    /\ pc      \in [Task -> Pc]
    /\ msg     \in [Task -> Mid \cup {NoMid}]
    /\ todo    \in [Task -> SUBSET Mid]
    /\ out     \in [Task -> SUBSET Mid]
    /\ via     \in [Task -> {"none", "resume", "replay", "gone"}]
    /\ \A t \in Task : pc[t] \in {"idle", "pFetch", "pPick"} \/ msg[t] \in Mid

HistType ==
    /\ acks    \subseteq (Key \X Mid)
    /\ nacks   \subseteq Key
    /\ told    \subseteq (Mid \X {"delivered", "read"})
    /\ claimed \subseteq Mid
    /\ forced  \subseteq Mid

BoundType == requests \in Nat /\ faults \in Nat

TypeOK ==
    /\ DbType
    /\ IdType
    /\ MemType
    /\ WireType
    /\ TaskType
    /\ HistType
    /\ BoundType

-----------------------------------------------------------------------------
(* State machines and queries of the code *)

(* models/message.state.js: the transitions of a message. *)
isValidTransition(from, to) ==
    <<from, to>> \in {<<"sending", "sent">>, <<"sent", "delivered">>,
                      <<"delivered", "read">>}

(* delivery.service: the transitions of a delivery record. *)
AllowedTransition(from, to) ==
    <<from, to>> \in {<<"PERSISTED", "SENT">>, <<"PERSISTED", "DELIVERED">>,
                      <<"SENT", "DELIVERED">>, <<"DELIVERED", "READ">>}

isPendingReplay(m) == record[m] \notin {"DELIVERED", "READ"}

Stored == {m \in Mid : row[m] # "none"}

(* The unique index on (chatId, senderId, clientMessageId).  The rows of   *)
(* one chat and sender all carry the first two keys, so a missing client   *)
(* id is indexed as null like any other value.                             *)
DuplicateKey(m) == \E k \in Stored : k = m \/ cmidOf[k] = cmidOf[m]

(* getUndeliveredMessages: the limit is applied before delivered rows are  *)
(* filtered out.                                                           *)
After(last) == IF last = NoMid THEN Stored ELSE {m \in Stored : last < m}
Before(m, S) == {k \in S : k < m}
Window(S) == {m \in S : Cardinality(Before(m, S)) < ReplayLimit}
Undelivered(last) ==
    {m \in Window(After(last)) : m \notin marked /\ row[m] \notin {"delivered", "read"}}

(* What a client can send as the last message it has seen.                 *)
Cursors == {NoMid} \cup {m \in held : \A k \in held : k <= m}

-----------------------------------------------------------------------------
Init ==
    /\ row = [m \in Mid |-> "none"]
    /\ cmidOf = [m \in Mid |-> NoCmid]
    /\ marked = {}
    /\ issued = {}
    /\ mem = [m \in Mid |-> "none"]
    /\ dedupe = [c \in Cmid |-> NoMid]
    /\ cache = [m \in Mid |-> "none"]
    /\ record = [m \in Mid |-> "none"]
    /\ timer = {}
    /\ failure = {}
    /\ frames = {}
    /\ failing = {}
    /\ open = FALSE
    /\ held = {}
    /\ pushed = {}
    /\ pc = [t \in Task |-> "idle"]
    /\ msg = [t \in Task |-> NoMid]
    /\ todo = [t \in Task |-> {}]
    /\ out = [t \in Task |-> {}]
    /\ via = [t \in Task |-> "none"]
    /\ acks = {}
    /\ nacks = {}
    /\ told = {}
    /\ claimed = {}
    /\ forced = {}
    /\ requests = 0
    /\ faults = 0

-----------------------------------------------------------------------------
(* Steps shared by the handlers *)

Request ==
    /\ requests < MaxRequests
    /\ requests' = requests + 1
    /\ UNCHANGED faults

Fault(kind) ==
    /\ kind \in Faults
    /\ faults < MaxFaults
    /\ faults' = faults + 1
    /\ UNCHANGED requests

Goto(t, label) == pc' = [pc EXCEPT ![t] = label]

Begin(t, label, m) ==
    /\ Request
    /\ pc[t] = "idle"
    /\ Goto(t, label)
    /\ msg' = [msg EXCEPT ![t] = m]

End(t) ==
    /\ Goto(t, "idle")
    /\ msg' = [msg EXCEPT ![t] = NoMid]

(* Mutant: leaving SENT keeps the ACK timeout armed. *)
transitionStateKeepsTimer(m, to) ==
    IF AllowedTransition(record[m], to)
    THEN /\ record' = [record EXCEPT ![m] = to]
         /\ timer' = IF to = "SENT" THEN timer \cup {m} ELSE timer
    ELSE UNCHANGED <<record, timer>>

(* deliveryService.transitionState: an invalid transition changes nothing; *)
(* leaving SENT disarms the ACK timeout and entering SENT arms it.         *)
transitionState(m, to) ==
    IF AllowedTransition(record[m], to)
    THEN /\ record' = [record EXCEPT ![m] = to]
         /\ timer' = IF to = "SENT" THEN timer \cup {m} ELSE timer \ {m}
    ELSE UNCHANGED <<record, timer>>

(* transitionState to READ, or forceMarkAsRead when that is refused: the   *)
(* record ends READ, created if need be, and its timeout is disarmed.      *)
forceMarkAsRead(S) ==
    /\ record' = [m \in Mid |-> IF m \in S THEN "READ" ELSE record[m]]
    /\ timer' = timer \ S

advanceMem(m, to) ==
    mem' = IF isValidTransition(mem[m], to) THEN [mem EXCEPT ![m] = to] ELSE mem

ToSender(m) == frames' = frames \cup {<<"sender", m>>}
NotifySender(m, state) == ToSender(m) /\ told' = told \cup {<<m, state>>}

(* MESSAGE_ACK, the echo to the sender, and attemptDelivery left running.  *)
Ack(t, m) ==
    /\ acks' = acks \cup {<<cmidOf[m], m>>}
    /\ ToSender(m)
    /\ Goto(t, "load")

Nack(t) ==
    /\ nacks' = nacks \cup {cmidOf[msg[t]]}
    /\ End(t)

-----------------------------------------------------------------------------
(* MESSAGE_SEND and POST /chat/send *)

(* Mutant: a known client id is acknowledged before it is persisted. *)
AcceptDuplicateEarlyAck(t, c) ==
    /\ dedupe[c] # NoMid
    /\ Request
    /\ pc[t] = "idle"
    /\ Ack(t, dedupe[c])
    /\ msg' = [msg EXCEPT ![t] = dedupe[c]]
    /\ UNCHANGED <<idVars, dbVars, memVars, failing, open, held, pushed,
                   todo, out, via, nacks, told, claimed, forced>>

(* acceptIncomingMessage finds the client id in clientMessageIdMap.  If    *)
(* the message is already sent the ACK is given at once; if its first      *)
(* handler is still persisting it, this one persists it too.               *)
AcceptDuplicate(t, c) ==
    /\ dedupe[c] # NoMid
    /\ LET m == dedupe[c] IN
       IF mem[m] \in {"sent", "delivered", "read"}
       THEN /\ Request
            /\ pc[t] = "idle"
            /\ Ack(t, m)
            /\ msg' = [msg EXCEPT ![t] = m]
            /\ UNCHANGED <<idVars, dbVars, memVars, failing, open, held, pushed,
                           todo, out, via, nacks, told, claimed, forced>>
       ELSE /\ Begin(t, "lookup", m)
            /\ UNCHANGED <<idVars, dbVars, memVars, wireVars, todo, out, via, histVars>>

(* acceptIncomingMessage generates an id and starts in state sending. *)
AcceptNew(t, c, m) ==
    /\ c \in Cmid => dedupe[c] = NoMid
    /\ m \notin issued
    /\ Begin(t, "lookup", m)
    /\ issued' = issued \cup {m}
    /\ cmidOf' = [cmidOf EXCEPT ![m] = c]
    /\ mem' = [mem EXCEPT ![m] = "sending"]
    /\ dedupe' = IF c \in Cmid THEN [dedupe EXCEPT ![c] = m] ELSE dedupe
    /\ UNCHANGED <<dbVars, cache, record, timer, failure, wireVars,
                   todo, out, via, histVars>>

(* persistMessage, its two findOne: an existing row of this id, or of this *)
(* client id, ends it without an insert (what it returns is not used).     *)
Lookup(t) ==
    /\ pc[t] = "lookup"
    /\ LET m == msg[t]
           found == \E k \in Stored :
                       k = m \/ (cmidOf[m] # NoCmid /\ cmidOf[k] = cmidOf[m])
       IN  Goto(t, IF found THEN "create" ELSE "insert")
    /\ UNCHANGED <<dbVars, idVars, memVars, wireVars, msg, todo, out, via, histVars, bounds>>

(* persistMessage, insertOne: a duplicate key throws and the sender gets a *)
(* MESSAGE_NACK.                                                           *)
Insert(t) ==
    /\ pc[t] = "insert"
    /\ IF DuplicateKey(msg[t])
       THEN Nack(t) /\ UNCHANGED row
       ELSE /\ row' = [row EXCEPT ![msg[t]] = "sent"]
            /\ Goto(t, "create")
            /\ UNCHANGED <<msg, nacks>>
    /\ UNCHANGED <<marked, idVars, memVars, wireVars, todo, out, via,
                   acks, told, claimed, forced, bounds>>

(* Mutant: createDelivery without its check for an existing record. *)
CreateDeliveryAgain(t) ==
    /\ pc[t] = "create"
    /\ record' = [record EXCEPT ![msg[t]] = "PERSISTED"]
    /\ Goto(t, "update")
    /\ UNCHANGED <<dbVars, idVars, mem, dedupe, cache, timer, failure, wireVars,
                   msg, todo, out, via, histVars, bounds>>

(* createDelivery: PERSISTED unless there is a record already. *)
CreateDelivery(t) ==
    /\ pc[t] = "create"
    /\ record' = IF record[msg[t]] = "none"
                 THEN [record EXCEPT ![msg[t]] = "PERSISTED"] ELSE record
    /\ Goto(t, "update")
    /\ UNCHANGED <<dbVars, idVars, mem, dedupe, cache, timer, failure, wireVars,
                   msg, todo, out, via, histVars, bounds>>

(* Mutants: updateMessageState that ignores that it matched no row, and    *)
(* one that upserts.                                                       *)
UpdateSentUnchecked(t) ==
    /\ pc[t] = "update"
    /\ row' = IF row[msg[t]] = "none" THEN row ELSE [row EXCEPT ![msg[t]] = "sent"]
    /\ Goto(t, "finish")
    /\ UNCHANGED <<marked, idVars, memVars, wireVars, msg, todo, out, via, histVars, bounds>>

UpdateSentUpsert(t) ==
    /\ pc[t] = "update"
    /\ row' = [row EXCEPT ![msg[t]] = "sent"]
    /\ Goto(t, "finish")
    /\ UNCHANGED <<marked, idVars, memVars, wireVars, msg, todo, out, via, histVars, bounds>>

(* updateMessageState(SENT): unconditional, and it throws when no row has  *)
(* this id.                                                                *)
UpdateSent(t) ==
    /\ pc[t] = "update"
    /\ IF row[msg[t]] = "none"
       THEN Nack(t) /\ UNCHANGED row
       ELSE /\ row' = [row EXCEPT ![msg[t]] = "sent"]
            /\ Goto(t, "finish")
            /\ UNCHANGED <<msg, nacks>>
    /\ UNCHANGED <<marked, idVars, memVars, wireVars, todo, out, via,
                   acks, told, claimed, forced, bounds>>

(* The rest of persistAndReturnAck and of the handler. *)
FinishSend(t) ==
    /\ pc[t] = "finish"
    /\ mem' = [mem EXCEPT ![msg[t]] = "sent"]
    /\ Ack(t, msg[t])
    /\ UNCHANGED <<dbVars, idVars, dedupe, cache, record, timer, failure, failing,
                   open, held, pushed, msg, todo, out, via, nacks, told, claimed, forced, bounds>>

-----------------------------------------------------------------------------
(* attemptDelivery, left running by the handler of a send *)

(* getOrLoadMessage fills the transport cache from the row. *)
LoadCache(m) ==
    cache' = IF cache[m] = "none" THEN [cache EXCEPT ![m] = row[m]] ELSE cache

AttemptLoad(t) ==
    /\ pc[t] = "load"
    /\ LoadCache(msg[t])
    /\ Goto(t, "check")
    /\ UNCHANGED <<dbVars, idVars, mem, dedupe, record, timer, failure, wireVars,
                   msg, todo, out, via, histVars, bounds>>

(* isDeliveredTo: a message already marked is not sent again; the sender   *)
(* gets a DELIVERY_STATUS either way.                                      *)
AttemptCheck(t) ==
    /\ pc[t] = "check"
    /\ IF msg[t] \in marked
       THEN ToSender(msg[t]) /\ End(t)
       ELSE Goto(t, "emit") /\ UNCHANGED <<frames, msg>>
    /\ UNCHANGED <<dbVars, idVars, memVars, failing, open, held, pushed,
                   todo, out, via, histVars, bounds>>

(* Mutants: queueing a frame marks the message delivered, or tells the     *)
(* sender that it is.                                                      *)
AttemptQueuedMarks(t) ==
    /\ pc[t] = "emit"
    /\ open
    /\ frames' = frames \cup {<<"live", msg[t]>>, <<"sender", msg[t]>>}
    /\ transitionState(msg[t], "SENT")
    /\ marked' = marked \cup {msg[t]}
    /\ End(t)
    /\ UNCHANGED <<row, idVars, mem, dedupe, cache, failure, failing, open, held, pushed,
                   todo, out, via, histVars, bounds>>

AttemptQueuedTells(t) ==
    /\ pc[t] = "emit"
    /\ open
    /\ frames' = frames \cup {<<"live", msg[t]>>, <<"sender", msg[t]>>}
    /\ transitionState(msg[t], "SENT")
    /\ told' = told \cup {<<msg[t], "delivered">>}
    /\ End(t)
    /\ UNCHANGED <<dbVars, idVars, mem, dedupe, cache, failure, failing, open, held, pushed,
                   todo, out, via, acks, nacks, claimed, forced, bounds>>

(* A frame is queued on the recipient's socket and the record becomes SENT *)
(* with its ACK timeout armed.                                             *)
AttemptQueued(t) ==
    /\ pc[t] = "emit"
    /\ open
    /\ frames' = frames \cup {<<"live", msg[t]>>, <<"sender", msg[t]>>}
    /\ transitionState(msg[t], "SENT")
    /\ End(t)
    /\ UNCHANGED <<dbVars, idVars, mem, dedupe, cache, failure, failing, open, held, pushed,
                   todo, out, via, histVars, bounds>>

(* No socket, or its queue is full: nothing is queued and the sender gets  *)
(* MESSAGE_ERROR and DELIVERY_STATUS RECIPIENT_OFFLINE.                    *)
AttemptRefused(t) ==
    /\ pc[t] = "emit"
    /\ IF open THEN Fault("overflow") ELSE UNCHANGED bounds
    /\ ToSender(msg[t])
    /\ End(t)
    /\ UNCHANGED <<dbVars, idVars, memVars, failing, open, held, pushed,
                   todo, out, via, histVars>>

-----------------------------------------------------------------------------
(* MESSAGE_DELIVERED_CONFIRM and CLIENT_ACK delivered *)

(* The web client confirms each live MESSAGE_RECEIVE once in every tab; it *)
(* does not confirm what a replay or the history brought.                  *)
ConfirmDelivered(t, m) ==
    /\ open
    /\ m \in pushed
    /\ Begin(t, "dRead", m)
    /\ LoadCache(m)
    /\ UNCHANGED <<dbVars, idVars, mem, dedupe, record, timer, failure, wireVars,
                   todo, out, via, histVars>>

(* getMessage.  Already delivered or read: the sender is notified again.   *)
(* Sent: go on.  FAILED: INVALID_TRANSITION.                               *)
DRead(t) ==
    /\ pc[t] = "dRead"
    /\ \/ /\ row[msg[t]] \in {"delivered", "read"}
          /\ NotifySender(msg[t], "delivered")
          /\ End(t)
       \/ /\ isValidTransition(row[msg[t]], "delivered")
          /\ Goto(t, "dWrite")
          /\ UNCHANGED <<frames, told, msg>>
       \/ /\ row[msg[t]] \notin {"sent", "delivered", "read"}
          /\ End(t)
          /\ UNCHANGED <<frames, told>>
    /\ UNCHANGED <<dbVars, idVars, memVars, failing, open, held, pushed, todo, out, via,
                   acks, nacks, claimed, forced, bounds>>

DWrite(t) ==
    /\ pc[t] = "dWrite"
    /\ row' = [row EXCEPT ![msg[t]] = "delivered"]
    /\ Goto(t, "dMark")
    /\ UNCHANGED <<marked, idVars, memVars, wireVars, msg, todo, out, via, histVars, bounds>>

(* Mutant: the confirmation is not recorded in the deliveries collection. *)
DMarkSkipped(t) ==
    /\ pc[t] = "dMark"
    /\ Goto(t, "dFinish")
    /\ UNCHANGED <<dbVars, idVars, memVars, wireVars, msg, todo, out, via, histVars, bounds>>

DMark(t) ==
    /\ pc[t] = "dMark"
    /\ marked' = marked \cup {msg[t]}
    /\ Goto(t, "dFinish")
    /\ UNCHANGED <<row, idVars, memVars, wireVars, msg, todo, out, via, histVars, bounds>>

DFinish(t) ==
    /\ pc[t] = "dFinish"
    /\ transitionState(msg[t], "DELIVERED")
    /\ advanceMem(msg[t], "delivered")
    /\ NotifySender(msg[t], "delivered")
    /\ End(t)
    /\ UNCHANGED <<dbVars, idVars, dedupe, cache, failure, failing, open, held, pushed,
                   todo, out, via, acks, nacks, claimed, forced, bounds>>

-----------------------------------------------------------------------------
(* MESSAGE_READ, MESSAGE_READ_CONFIRM and CLIENT_ACK read *)

ConfirmRead(t, m) ==
    /\ open
    /\ m \in held
    /\ Begin(t, "rRead", m)
    /\ LoadCache(m)
    /\ UNCHANGED <<dbVars, idVars, mem, dedupe, record, timer, failure, wireVars,
                   todo, out, via, histVars>>

(* getMessage.  Already read: only the cursor and the notifications. *)
RRead(t) ==
    /\ pc[t] = "rRead"
    /\ \/ /\ row[msg[t]] = "read"
          /\ Goto(t, "rNotify")
          /\ UNCHANGED msg
       \/ /\ isValidTransition(row[msg[t]], "read")
          /\ Goto(t, "rWrite")
          /\ UNCHANGED msg
       \/ /\ row[msg[t]] \notin {"delivered", "read"}
          /\ End(t)
    /\ UNCHANGED <<dbVars, idVars, memVars, wireVars, todo, out, via, histVars, bounds>>

RWrite(t) ==
    /\ pc[t] = "rWrite"
    /\ row' = [row EXCEPT ![msg[t]] = "read"]
    /\ Goto(t, "rMark")
    /\ UNCHANGED <<marked, idVars, memVars, wireVars, msg, todo, out, via, histVars, bounds>>

RMark(t) ==
    /\ pc[t] = "rMark"
    /\ marked' = marked \cup {msg[t]}
    /\ Goto(t, "rFinish")
    /\ UNCHANGED <<row, idVars, memVars, wireVars, msg, todo, out, via, histVars, bounds>>

(* transitionState(READ), forced when the record is not DELIVERED. *)
RFinish(t) ==
    /\ pc[t] = "rFinish"
    /\ forceMarkAsRead({msg[t]})
    /\ advanceMem(msg[t], "read")
    /\ Goto(t, "rNotify")
    /\ UNCHANGED <<dbVars, idVars, dedupe, cache, failure, wireVars,
                   msg, todo, out, via, histVars, bounds>>

(* After persistReadCursorForDm, which never fails the handler. *)
RNotify(t) ==
    /\ pc[t] = "rNotify"
    /\ NotifySender(msg[t], "read")
    /\ End(t)
    /\ UNCHANGED <<dbVars, idVars, memVars, failing, open, held, pushed, todo, out, via,
                   acks, nacks, claimed, forced, bounds>>

(* POST mark-read: every stored message up to the pivot's timestamp is     *)
(* forced to READ, in the delivery store only.  Clock values are not       *)
(* modelled: any stored messages may be the older ones.                    *)
MarkReadUpTo(p, S) ==
    /\ Request
    /\ p \in held
    /\ p \in S
    /\ S \subseteq Stored
    /\ forceMarkAsRead(S)
    /\ forced' = forced \cup S
    /\ UNCHANGED <<dbVars, idVars, mem, dedupe, cache, failure, wireVars, taskVars,
                   acks, nacks, told, claimed>>

-----------------------------------------------------------------------------
(* RESUME and MESSAGE_REPLAY *)

(* RESUME emits on the socket it came from and MESSAGE_REPLAY on all of    *)
(* the recipient's.  The cursor is the last id the client has seen, or     *)
(* none after a fresh start.                                               *)
Replay(t, last, kind) ==
    /\ open
    /\ last \in Cursors
    /\ Begin(t, "pFetch", last)
    /\ via' = [via EXCEPT ![t] = kind]
    /\ UNCHANGED <<dbVars, idVars, memVars, wireVars, todo, out, histVars>>

EndReplay(t) ==
    /\ End(t)
    /\ todo' = [todo EXCEPT ![t] = {}]
    /\ out' = [out EXCEPT ![t] = {}]
    /\ via' = [via EXCEPT ![t] = "none"]

(* The cursor's check, getUndeliveredMessages and the re-read of each row; *)
(* a row whose re-read fails is left out.                                  *)
PFetch(t) ==
    /\ pc[t] = "pFetch"
    /\ \E S \in SUBSET Undelivered(msg[t]) :
         /\ IF S = Undelivered(msg[t]) THEN UNCHANGED bounds ELSE Fault("db")
         /\ todo' = [todo EXCEPT ![t] = S]
    /\ msg' = [msg EXCEPT ![t] = NoMid]
    /\ Goto(t, "pPick")
    /\ UNCHANGED <<dbVars, idVars, memVars, wireVars, out, via, histVars>>

(* The next row in id order; one whose record is DELIVERED or READ is      *)
(* skipped.                                                                *)
PPick(t) ==
    /\ pc[t] = "pPick"
    /\ \E m \in todo[t] :
         /\ \A k \in todo[t] : m <= k
         /\ todo' = [todo EXCEPT ![t] = @ \ {m}]
         /\ IF isPendingReplay(m)
            THEN Goto(t, "pCheck") /\ msg' = [msg EXCEPT ![t] = m]
            ELSE UNCHANGED <<pc, msg>>
    /\ UNCHANGED <<dbVars, idVars, memVars, wireVars, out, via, histVars, bounds>>

Skip(t) ==
    /\ Goto(t, "pPick")
    /\ msg' = [msg EXCEPT ![t] = NoMid]

(* A replay caches the state a row had when PFetch read it again: the one  *)
(* it has now or an earlier one, of which no check tells FAILED from sent. *)
SyncCache(m) ==
    \E s \in {"sent", row[m]} :
       cache' = IF cache[m] = "none" THEN [cache EXCEPT ![m] = s] ELSE cache

(* isMessageDelivered, then the cached state; the row is cached if it was  *)
(* not.                                                                    *)
PCheck(t) ==
    /\ pc[t] = "pCheck"
    /\ IF msg[t] \in marked \/ cache[msg[t]] \in {"delivered", "read"}
       THEN Skip(t) /\ UNCHANGED cache
       ELSE Goto(t, "pWrite") /\ SyncCache(msg[t]) /\ UNCHANGED msg
    /\ UNCHANGED <<dbVars, idVars, mem, dedupe, record, timer, failure, wireVars,
                   todo, out, via, histVars, bounds>>

PWrite(t) ==
    /\ pc[t] = "pWrite"
    /\ row' = [row EXCEPT ![msg[t]] = "delivered"]
    /\ claimed' = claimed \cup {msg[t]}
    /\ Goto(t, "pMark")
    /\ UNCHANGED <<marked, idVars, memVars, wireVars, msg, todo, out, via,
                   acks, nacks, told, forced, bounds>>

PMark(t) ==
    /\ pc[t] = "pMark"
    /\ marked' = marked \cup {msg[t]}
    /\ Goto(t, "pFinish")
    /\ UNCHANGED <<row, idVars, memVars, wireVars, msg, todo, out, via, histVars, bounds>>

(* The sender is told "delivered"; the message itself waits in out. *)
PFinish(t) ==
    /\ pc[t] = "pFinish"
    /\ transitionState(msg[t], "DELIVERED")
    /\ cache' = [cache EXCEPT ![msg[t]] = "delivered"]
    /\ out' = [out EXCEPT ![t] = @ \cup {msg[t]}]
    /\ NotifySender(msg[t], "delivered")
    /\ Skip(t)
    /\ UNCHANGED <<dbVars, idVars, mem, dedupe, failure, failing, open, held, pushed,
                   todo, via, acks, nacks, claimed, forced, bounds>>

(* All rows done: the handler emits them.  Nobody looks at whether a frame *)
(* was queued: a gone socket takes none and a full queue only a prefix.    *)
PEmit(t) ==
    /\ pc[t] = "pPick"
    /\ todo[t] = {}
    /\ \E Q \in SUBSET out[t] :
         /\ \A m \in Q, k \in out[t] : k < m => k \in Q
         /\ IF via[t] = "resume" \/ (via[t] = "replay" /\ open)
            THEN IF Q = out[t] THEN UNCHANGED bounds ELSE Fault("overflow")
            ELSE Q = {} /\ UNCHANGED bounds
         /\ frames' = frames \cup ({"replay"} \X Q)
    /\ EndReplay(t)
    /\ UNCHANGED <<dbVars, idVars, memVars, failing, open, held, pushed, histVars>>

(* handleResume waits 8 seconds: then it answers with no messages, while   *)
(* replayMessages runs on.                                                 *)
ReplayTimeout(t) ==
    /\ Fault("timeout")
    /\ via[t] = "resume"
    /\ via' = [via EXCEPT ![t] = "gone"]
    /\ UNCHANGED <<dbVars, idVars, memVars, wireVars, pc, msg, todo, out, histVars>>

-----------------------------------------------------------------------------
(* A database operation fails *)

(* Persistence throws: MESSAGE_NACK.  An insert may have been applied when *)
(* its acknowledgement was lost.                                           *)
SendDbError(t) ==
    /\ Fault("db")
    /\ pc[t] \in {"lookup", "insert", "update"}
    /\ Nack(t)
    /\ \/ UNCHANGED row
       \/ /\ pc[t] = "insert"
          /\ ~DuplicateKey(msg[t])
          /\ row' = [row EXCEPT ![msg[t]] = "sent"]
    /\ UNCHANGED <<marked, idVars, memVars, wireVars, todo, out, via,
                   acks, told, claimed, forced>>

(* getById answers null and the attempt is given up; isDeliveredTo answers *)
(* false and it goes on.                                                   *)
AttemptDbError(t) ==
    /\ Fault("db")
    /\ \/ pc[t] = "load" /\ ToSender(msg[t]) /\ End(t)
       \/ pc[t] = "check" /\ Goto(t, "emit") /\ UNCHANGED <<frames, msg>>
    /\ UNCHANGED <<dbVars, idVars, memVars, failing, open, held, pushed,
                   todo, out, via, histVars>>

(* A confirmation is answered with PERSISTENCE_ERROR. *)
ConfirmDbError(t) ==
    /\ Fault("db")
    /\ pc[t] \in {"dRead", "dWrite", "dMark", "rRead", "rWrite", "rMark"}
    /\ End(t)
    /\ UNCHANGED <<dbVars, idVars, memVars, wireVars, todo, out, via, histVars>>

(* The query fails the replay; isMessageDelivered counts as false; a       *)
(* failed mark drops the message from the replay.                          *)
ReplayDbError(t) ==
    /\ Fault("db")
    /\ \/ /\ pc[t] = "pFetch"
          /\ EndReplay(t)
          /\ UNCHANGED cache
       \/ /\ pc[t] = "pCheck"
          /\ IF cache[msg[t]] \in {"delivered", "read"}
             THEN Skip(t) /\ UNCHANGED cache
             ELSE Goto(t, "pWrite") /\ SyncCache(msg[t]) /\ UNCHANGED msg
          /\ UNCHANGED <<todo, out, via>>
       \/ /\ pc[t] \in {"pWrite", "pMark"}
          /\ Skip(t)
          /\ UNCHANGED <<cache, todo, out, via>>
    /\ UNCHANGED <<dbVars, idVars, mem, dedupe, record, timer, failure,
                   wireVars, histVars>>

-----------------------------------------------------------------------------
(* Sockets, timers and the process *)

(* processQueue: the frame reaches the peer. *)
Transmit(kind, m) ==
    /\ <<kind, m>> \in frames
    /\ frames' = frames \ {<<kind, m>>}
    /\ held' = IF kind = "sender" THEN held ELSE held \cup {m}
    /\ pushed' = IF kind = "live" THEN pushed \cup {m} ELSE pushed
    /\ UNCHANGED <<dbVars, idVars, memVars, failing, open, taskVars, histVars, bounds>>

(* sendOrFail on a slow or failing socket: the frame is gone and the       *)
(* message it names is going to be marked FAILED, whatever the frame said. *)
sendOrFail(kind, m) ==
    /\ Fault("socket")
    /\ <<kind, m>> \in frames
    /\ frames' = frames \ {<<kind, m>>}
    /\ failing' = failing \cup {m}
    /\ UNCHANGED <<dbVars, idVars, memVars, open, held, pushed, taskVars, histVars>>

MarkFailed(m) ==
    /\ m \in failing
    /\ failing' = failing \ {m}
    /\ row' = [row EXCEPT ![m] = "FAILED"]
    /\ UNCHANGED <<marked, idVars, memVars, frames, open, held, pushed, taskVars, histVars, bounds>>

(* The ACK timeout records a failure and changes no state. *)
AckTimeout(m) ==
    /\ m \in timer
    /\ timer' = timer \ {m}
    /\ failure' = IF record[m] = "SENT" THEN failure \cup {m} ELSE failure
    /\ UNCHANGED <<dbVars, idVars, mem, dedupe, cache, record, wireVars,
                   taskVars, histVars, bounds>>

Connect ==
    /\ ~open
    /\ open' = TRUE
    /\ UNCHANGED <<dbVars, idVars, memVars, frames, failing, held, pushed, taskVars, histVars, bounds>>

(* What the socket's queue held is lost, and a RESUME has lost its socket. *)
Disconnect ==
    /\ Fault("disconnect")
    /\ open
    /\ open' = FALSE
    /\ frames' = {f \in frames : f[1] = "sender"}
    /\ via' = [t \in Task |-> IF via[t] = "resume" THEN "gone" ELSE via[t]]
    /\ UNCHANGED <<dbVars, idVars, memVars, failing, held, pushed, pc, msg, todo, out, histVars>>

(* recordFailuresForDisconnectedUser, when the grace period has expired. *)
GraceExpired ==
    LET S == {m \in Mid : record[m] = "SENT"} IN
    /\ ~open
    /\ S # {}
    /\ timer' = timer \ S
    /\ failure' = failure \cup S
    /\ UNCHANGED <<dbVars, idVars, mem, dedupe, cache, record, wireVars,
                   taskVars, histVars, bounds>>

(* GET history over HTTP: the client holds what the database has. *)
LoadHistory ==
    /\ Request
    /\ held' = held \cup Stored
    /\ UNCHANGED <<dbVars, idVars, memVars, frames, failing, open, pushed,
                   taskVars, histVars>>

(* The process stops: only the database, and what the clients know, stays. *)
Crash ==
    /\ Fault("crash")
    /\ mem' = [m \in Mid |-> "none"]
    /\ dedupe' = [c \in Cmid |-> NoMid]
    /\ cache' = [m \in Mid |-> "none"]
    /\ record' = [m \in Mid |-> "none"]
    /\ timer' = {}
    /\ failure' = {}
    /\ frames' = {}
    /\ failing' = {}
    /\ open' = FALSE
    /\ pc' = [t \in Task |-> "idle"]
    /\ msg' = [t \in Task |-> NoMid]
    /\ todo' = [t \in Task |-> {}]
    /\ out' = [t \in Task |-> {}]
    /\ via' = [t \in Task |-> "none"]
    /\ UNCHANGED <<dbVars, idVars, held, pushed, histVars>>

-----------------------------------------------------------------------------
SendStep(t) ==
    \/ \E c \in Cmid : AcceptDuplicate(t, c)
    \/ \E c \in Key, m \in Mid : AcceptNew(t, c, m)
    \/ Lookup(t)
    \/ Insert(t)
    \/ CreateDelivery(t)
    \/ UpdateSent(t)
    \/ FinishSend(t)
    \/ SendDbError(t)

AttemptStep(t) ==
    \/ AttemptLoad(t)
    \/ AttemptCheck(t)
    \/ AttemptQueued(t)
    \/ AttemptRefused(t)
    \/ AttemptDbError(t)

ConfirmStep(t) ==
    \/ \E m \in Mid : ConfirmDelivered(t, m) \/ ConfirmRead(t, m)
    \/ DRead(t)
    \/ DWrite(t)
    \/ DMark(t)
    \/ DFinish(t)
    \/ RRead(t)
    \/ RWrite(t)
    \/ RMark(t)
    \/ RFinish(t)
    \/ RNotify(t)
    \/ ConfirmDbError(t)

ReplayStep(t) ==
    \/ \E last \in Mid \cup {NoMid}, kind \in {"resume", "replay"} :
          Replay(t, last, kind)
    \/ PFetch(t)
    \/ PPick(t)
    \/ PCheck(t)
    \/ PWrite(t)
    \/ PMark(t)
    \/ PFinish(t)
    \/ PEmit(t)
    \/ ReplayTimeout(t)
    \/ ReplayDbError(t)

SocketStep ==
    \/ \E k \in FrameKind, m \in Mid : Transmit(k, m) \/ sendOrFail(k, m)
    \/ \E m \in Mid : MarkFailed(m) \/ AckTimeout(m)
    \/ \E p \in Mid, S \in SUBSET Mid : MarkReadUpTo(p, S)
    \/ Connect
    \/ Disconnect
    \/ GraceExpired
    \/ LoadHistory
    \/ Crash

Next ==
    \/ \E t \in Task : SendStep(t) \/ AttemptStep(t) \/ ConfirmStep(t) \/ ReplayStep(t)
    \/ SocketStep

Spec == Init /\ [][Next]_vars
-----------------------------------------------------------------------------
(* Safety *)

(* A MESSAGE_ACK is given only for a message whose row exists and carries  *)
(* the acknowledged clientMessageId (persistAndReturnAck: no ACK before    *)
(* the database write).                                                    *)
AckNamesStoredRow ==
    \A a \in acks : row[a[2]] # "none" /\ cmidOf[a[2]] = a[1]

(* However often a send is repeated, by handlers running side by side or   *)
(* across restarts, all its ACKs name one message.                         *)
OneIdPerClientId ==
    \A a, b \in acks : a[1] \in Cmid /\ a[1] = b[1] => a[2] = b[2]

(* The delivery record in memory says DELIVERED or READ only for messages  *)
(* marked in the deliveries collection, or forced by POST mark-read.       *)
RecordBehindDeliveries ==
    \A m \in Mid : record[m] \in {"DELIVERED", "READ"} => m \in marked \cup forced

(* An ACK timeout is armed only while the record is SENT, and a record in  *)
(* SENT has its timeout armed or its failure recorded.                     *)
SentIsWatched ==
    /\ \A m \in timer : record[m] = "SENT"
    /\ \A m \in Mid : record[m] = "SENT" => m \in timer \cup failure

(* Whichever cursor a client sends, the replay that starts from it finds a *)
(* stored message the client does not hold and passes it over nowhere      *)
(* (PFetch, PPick, PCheck), but for four ways to lose the push: a replay   *)
(* has claimed it; POST mark-read has forced it; the cursor has passed it, *)
(* as the client got a message with a greater id first; or the query stops *)
(* before it, because ReplayLimit rows, delivered ones counted, lie        *)
(* between the cursor and it (getUndeliveredMessages).                     *)
Replays(last, m) ==
    /\ m \in Undelivered(last)
    /\ isPendingReplay(m)
    /\ cache[m] \notin {"delivered", "read"}

UnheldIsReplayable ==
    \A last \in Cursors, m \in Stored \ held :
        \/ Replays(last, m)
        \/ m \in claimed \cup forced
        \/ last # NoMid /\ m < last
        \/ ReplayLimit <= Cardinality(Before(m, After(last)))

(* A MESSAGE_STATE_UPDATE to the sender says "read" only of a message the  *)
(* recipient's client holds, and "delivered" only of one it holds or a     *)
(* replay claimed.  (DELIVERY_STATUS, which attemptDelivery's caller sends *)
(* when a frame was queued, is not a receipt.)                             *)
ReceiptsAreHonest ==
    \A n \in told : n[1] \in held \/ (n[2] = "delivered" /\ n[1] \in claimed)

(* Between two restarts a delivery record never goes back                  *)
(* (validateTransition, forceMarkAsRead, createDelivery).                  *)
Rank(s) == CASE s = "none" -> 0 [] s = "PERSISTED" -> 1 [] s = "SENT" -> 2
             [] s = "DELIVERED" -> 3 [] s = "READ" -> 4
RecordNeverRegresses ==
    [][\A m \in Mid : record'[m] # "none" => Rank(record[m]) <= Rank(record'[m])]_vars
-----------------------------------------------------------------------------
(* The inductive invariant behind these properties *)

(* Everything that names a message anywhere names a stored one. *)
KnownAreStored ==
    /\ Stored \subseteq issued
    /\ marked \subseteq Stored
    /\ held \subseteq Stored
    /\ pushed \subseteq held
    /\ failing \subseteq Stored
    /\ \A f \in frames : f[2] \in Stored
    /\ \A t \in Task : todo[t] \subseteq Stored /\ out[t] \subseteq Stored
    /\ \A c \in Cmid : dedupe[c] # NoMid => dedupe[c] \in issued
    /\ \A m \in Mid : mem[m] \in {"sent", "delivered", "read"} => m \in Stored

(* What a handler has already established at each of its awaits. *)
OnStoredPc == {"finish", "pCheck", "pWrite", "pMark", "pFinish"}
                 \cup AttemptPc \cup ConfirmPc \cup ReadPc
HandlersKnow ==
    \A t \in Task :
       /\ pc[t] \in SendPc => msg[t] \in issued
       /\ pc[t] \in OnStoredPc => msg[t] \in Stored
       /\ pc[t] \in ConfirmPc \cup ReadPc => msg[t] \in held
       /\ pc[t] \in {"dFinish", "rFinish", "pFinish"} => msg[t] \in marked
       /\ pc[t] \in {"pMark", "pFinish"} => msg[t] \in claimed

(* The unique index: no two rows carry one client id. *)
RowsAreUnique == \A k, m \in Stored : cmidOf[k] = cmidOf[m] => k = m

(* Whatever makes replay pass over a message has a known cause. *)
PassedOver(m) ==
    \/ m \in marked
    \/ row[m] \in {"delivered", "read"}
    \/ record[m] \in {"DELIVERED", "READ"}
    \/ cache[m] \in {"delivered", "read"}
PassedOverIsExplained ==
    \A m \in Mid : PassedOver(m) => m \in held \cup claimed \cup forced

IInv ==
    /\ TypeOK
    /\ KnownAreStored
    /\ HandlersKnow
    /\ RowsAreUnique
    /\ PassedOverIsExplained
    /\ AckNamesStoredRow
    /\ RecordBehindDeliveries
    /\ SentIsWatched
    /\ ReceiptsAreHonest

-----------------------------------------------------------------------------
(* Refinement *)

(* The rows, the ACKs, the deliveries collection, the recipient's client   *)
(* and the read notifications implement MessageContract: every step stores,*)
(* acknowledges, delivers, receives or gives a receipt as it allows.       *)
Contract == INSTANCE MessageContract WITH
    stored    <- {<<cmidOf[m], m>> : m \in Stored},
    acked     <- acks,
    delivered <- marked,
    received  <- held,
    receipts  <- {m \in Mid : <<m, "read">> \in told}

ContractSpec == Contract!CSpec

-----------------------------------------------------------------------------
(* What the documents say and the code does not keep *)

(* websocket/STATE_MACHINE.md lists "read -> any other state" as invalid.  *)
ReadIsTerminal == [][\A m \in Mid : row[m] = "read" => row'[m] = "read"]_vars

=============================================================================
