------------------------ MODULE MessageLifecycleProofs ------------------------
(***************************************************************************)
(* Proofs about MessageLifecycle, for any sets of messages, client ids and *)
(* handlers and any bounds: its types, and the inductive invariant IInv    *)
(* behind its safety properties.                                           *)
(***************************************************************************)
EXTENDS MessageLifecycle, FiniteSetTheorems, TLAPS

-----------------------------------------------------------------------------
(* Types *)

(* The initial state has the right types. *)
LEMMA InitType == Init => TypeOK
<1> SUFFICES ASSUME Init PROVE TypeOK
  OBVIOUS
<1>1. DbType /\ IdType /\ HistType /\ BoundType
  BY DEF Init, DbType, RowState, IdType, Key, HistType, BoundType
<1>2. MemType
  BY DEF Init, MemType, MemState, RecordState, RowState
<1>3. WireType
  BY DEF Init, WireType
<1>4. TaskType
  BY DEF Init, TaskType, Pc
<1> QED
  BY <1>1, <1>2, <1>3, <1>4 DEF TypeOK

(* transitionState leaves the delivery records and timers well typed. *)
LEMMA TransitionType ==
    ASSUME NEW m \in Mid, NEW to \in RecordState \ {"none"},
           record \in [Mid -> RecordState], timer \subseteq Mid,
           transitionState(m, to)
    PROVE  record' \in [Mid -> RecordState] /\ timer' \subseteq Mid
<1>1. CASE AllowedTransition(record[m], to)
  BY <1>1 DEF transitionState
<1>2. CASE ~AllowedTransition(record[m], to)
  BY <1>2 DEF transitionState
<1> QED
  BY <1>1, <1>2

(* Types are preserved by the steps of a send ... *)
LEMMA SendType ==
    ASSUME TypeOK, NEW t \in Task, SendStep(t)
    PROVE  TypeOK'
<1> USE MidAssumption, CmidAssumption
    DEF TypeOK, RowState, Key, MemState, RecordState, FrameKind, Pc, SendPc,
        AttemptPc, ConfirmPc, ReadPc, ReplayPc, vars, dbVars, idVars, memVars,
        wireVars, taskVars, histVars, bounds
<1>1. ASSUME NEW c \in Cmid, AcceptDuplicate(t, c) PROVE TypeOK'
  <2>1. dedupe[c] \in Mid
    BY <1>1 DEF AcceptDuplicate, MemType
  <2>2. cmidOf[dedupe[c]] \in Key
    BY <2>1 DEF IdType
  <2>3. UNCHANGED <<dbVars, idVars, memVars>>
    BY <1>1 DEF AcceptDuplicate, Request, Ack, ToSender, Goto, Begin
  <2>4. DbType' /\ IdType' /\ MemType'
    BY <2>3 DEF DbType, IdType, MemType
  <2>5. CASE mem[dedupe[c]] \in {"sent", "delivered", "read"}
    <3>1. Request /\ Ack(t, dedupe[c])
             /\ msg' = [msg EXCEPT ![t] = dedupe[c]]
             /\ UNCHANGED <<failing, open, held, pushed, todo, out, via,
                            nacks, told, claimed, forced>>
      BY <1>1, <2>5 DEF AcceptDuplicate
    <3>2. WireType'
      BY <2>1, <3>1 DEF Ack, ToSender, WireType
    <3>3. TaskType'
      BY <2>1, <3>1 DEF Ack, Goto, TaskType
    <3>4. HistType' /\ BoundType'
      BY <2>1, <2>2, <3>1 DEF Ack, Request, HistType, BoundType
    <3> QED
      BY <2>4, <3>2, <3>3, <3>4
  <2>6. CASE mem[dedupe[c]] \notin {"sent", "delivered", "read"}
    <3>1. Begin(t, "lookup", dedupe[c])
             /\ UNCHANGED <<wireVars, todo, out, via, histVars>>
      BY <1>1, <2>6 DEF AcceptDuplicate
    <3>2. TaskType'
      BY <2>1, <3>1 DEF Begin, Goto, TaskType
    <3>3. WireType' /\ HistType' /\ BoundType'
      BY <3>1 DEF Begin, Request, WireType, HistType, BoundType
    <3> QED
      BY <2>4, <3>2, <3>3
  <2> QED
    BY <2>5, <2>6
<1>2. ASSUME NEW c \in Key, NEW m \in Mid, AcceptNew(t, c, m) PROVE TypeOK'
  <2>1. UNCHANGED <<dbVars, wireVars, histVars>>
    BY <1>2 DEF AcceptNew, Request, Begin, Goto
  <2>2. DbType' /\ WireType' /\ HistType'
    BY <2>1 DEF DbType, WireType, HistType
  <2>3. IdType'
    BY <1>2 DEF AcceptNew, Request, Begin, Goto, IdType
  <2>4. MemType'
    BY <1>2 DEF AcceptNew, Request, Begin, Goto, MemType, DbType
  <2>5. TaskType'
    BY <1>2 DEF AcceptNew, Request, Begin, Goto, TaskType
  <2>6. BoundType'
    BY <1>2 DEF AcceptNew, Request, Begin, Goto, BoundType
  <2> QED
    BY <2>2, <2>3, <2>4, <2>5, <2>6
<1>3. CASE Lookup(t)
  BY <1>3 DEF Lookup, Goto, DbType, IdType, MemType, WireType, TaskType,
     HistType, BoundType
<1>4. CASE Insert(t)
  <2>1. msg[t] \in Mid
    BY <1>4 DEF Insert, Nack, End, Goto, TaskType
  <2>2. UNCHANGED <<idVars, memVars, wireVars, bounds>>
    BY <1>4 DEF Insert, Nack, End, Goto
  <2>3. IdType' /\ MemType' /\ WireType' /\ BoundType'
    BY <2>2 DEF IdType, MemType, WireType, BoundType
  <2>4. DbType'
    BY <1>4, <2>1 DEF Insert, Nack, End, Goto, DbType
  <2>5. TaskType'
    BY <1>4, <2>1 DEF Insert, Nack, End, Goto, TaskType
  <2>6. HistType'
    BY <1>4, <2>1 DEF Insert, Nack, End, Goto, HistType, IdType
  <2> QED
    BY <2>3, <2>4, <2>5, <2>6
<1>5. CASE CreateDelivery(t)
  BY <1>5 DEF CreateDelivery, Goto, DbType, IdType, MemType, WireType,
     TaskType, HistType, BoundType
<1>6. CASE UpdateSent(t)
  <2>1. msg[t] \in Mid
    BY <1>6 DEF UpdateSent, Nack, End, Goto, TaskType
  <2>2. UNCHANGED <<idVars, memVars, wireVars, bounds>>
    BY <1>6 DEF UpdateSent, Nack, End, Goto
  <2>3. IdType' /\ MemType' /\ WireType' /\ BoundType'
    BY <2>2 DEF IdType, MemType, WireType, BoundType
  <2>4. DbType'
    BY <1>6, <2>1 DEF UpdateSent, Nack, End, Goto, DbType
  <2>5. TaskType'
    BY <1>6, <2>1 DEF UpdateSent, Nack, End, Goto, TaskType
  <2>6. HistType'
    BY <1>6, <2>1 DEF UpdateSent, Nack, End, Goto, HistType, IdType
  <2> QED
    BY <2>3, <2>4, <2>5, <2>6
<1>7. CASE FinishSend(t)
  <2>1. msg[t] \in Mid
    BY <1>7 DEF FinishSend, Ack, ToSender, Goto, TaskType
  <2>2. UNCHANGED <<dbVars, idVars, bounds>>
    BY <1>7 DEF FinishSend, Ack, ToSender, Goto
  <2>3. DbType' /\ IdType' /\ BoundType'
    BY <2>2 DEF DbType, IdType, BoundType
  <2>4. MemType'
    BY <1>7, <2>1 DEF FinishSend, Ack, ToSender, Goto, MemType, DbType
  <2>5. WireType'
    BY <1>7, <2>1 DEF FinishSend, Ack, ToSender, Goto, WireType
  <2>6. TaskType'
    BY <1>7, <2>1 DEF FinishSend, Ack, ToSender, Goto, TaskType
  <2>7. HistType'
    <3>1. cmidOf[msg[t]] \in Key
      BY <2>1 DEF IdType
    <3> QED
      BY <1>7, <2>1, <3>1 DEF FinishSend, Ack, ToSender, Goto, HistType
  <2> QED
    BY <2>3, <2>4, <2>5, <2>6, <2>7
<1>8. CASE SendDbError(t)
  <2>1. msg[t] \in Mid
    BY <1>8 DEF SendDbError, Fault, Nack, End, Goto, TaskType
  <2>2. UNCHANGED <<idVars, memVars, wireVars>>
    BY <1>8 DEF SendDbError, Fault, Nack, End, Goto
  <2>3. IdType' /\ MemType' /\ WireType'
    BY <2>2 DEF IdType, MemType, WireType
  <2>4. DbType'
    BY <1>8, <2>1 DEF SendDbError, Fault, Nack, End, Goto, DbType
  <2>5. TaskType'
    BY <1>8, <2>1 DEF SendDbError, Fault, Nack, End, Goto, TaskType
  <2>6. HistType'
    BY <1>8, <2>1 DEF SendDbError, Fault, Nack, End, Goto, HistType, IdType
  <2>7. BoundType'
    BY <1>8, <2>1 DEF SendDbError, Fault, Nack, End, Goto, BoundType
  <2> QED
    BY <2>3, <2>4, <2>5, <2>6, <2>7
<1> HIDE DEF TypeOK, vars, FrameKind, Key
<1> QED
  BY <1>1, <1>2, <1>3, <1>4, <1>5, <1>6, <1>7, <1>8 DEF SendStep

(* ... of a delivery attempt ... *)
LEMMA AttemptType ==
    ASSUME TypeOK, NEW t \in Task, AttemptStep(t)
    PROVE  TypeOK'
<1> USE MidAssumption, CmidAssumption
    DEF TypeOK, RowState, Key, MemState, RecordState, FrameKind, Pc, SendPc,
        AttemptPc, ConfirmPc, ReadPc, ReplayPc, vars, dbVars, idVars, memVars,
        wireVars, taskVars, histVars, bounds
<1>1. CASE AttemptLoad(t)
  BY <1>1 DEF AttemptLoad, LoadCache, Goto, DbType, IdType, MemType, WireType,
     TaskType, HistType, BoundType
<1>2. CASE AttemptCheck(t)
  <2>1. msg[t] \in Mid
    BY <1>2 DEF AttemptCheck, ToSender, End, Goto, TaskType
  <2>2. UNCHANGED <<dbVars, idVars, memVars, histVars, bounds>>
    BY <1>2 DEF AttemptCheck, ToSender, End, Goto
  <2>3. DbType' /\ IdType' /\ MemType' /\ HistType' /\ BoundType'
    BY <2>2 DEF DbType, IdType, MemType, HistType, BoundType
  <2>4. WireType'
    BY <1>2, <2>1 DEF AttemptCheck, ToSender, End, Goto, WireType
  <2>5. TaskType'
    BY <1>2, <2>1 DEF AttemptCheck, ToSender, End, Goto, TaskType
  <2> QED
    BY <2>3, <2>4, <2>5
<1>3. CASE AttemptQueued(t)
  <2>1. msg[t] \in Mid
    BY <1>3 DEF AttemptQueued, transitionState, End, Goto, TaskType
  <2>2. UNCHANGED <<dbVars, idVars, histVars, bounds>>
    BY <1>3 DEF AttemptQueued, transitionState, End, Goto
  <2>3. DbType' /\ IdType' /\ HistType' /\ BoundType'
    BY <2>2 DEF DbType, IdType, HistType, BoundType
  <2>4. MemType'
    <3>1. UNCHANGED <<mem, dedupe, cache, failure>> /\ transitionState(msg[t],
       "SENT")
      BY <1>3 DEF AttemptQueued
    <3>2. record' \in [Mid -> RecordState] /\ timer' \subseteq Mid
      BY <2>1, <3>1, TransitionType DEF MemType
    <3> QED
      BY <3>1, <3>2 DEF MemType
  <2>5. WireType'
    BY <1>3, <2>1 DEF AttemptQueued, transitionState, End, Goto, WireType
  <2>6. TaskType'
    BY <1>3, <2>1 DEF AttemptQueued, transitionState, End, Goto, TaskType
  <2> QED
    BY <2>3, <2>4, <2>5, <2>6
<1>4. CASE AttemptRefused(t)
  <2>1. msg[t] \in Mid
    BY <1>4 DEF AttemptRefused, Fault, ToSender, End, Goto, TaskType
  <2>2. UNCHANGED <<dbVars, idVars, memVars, histVars>>
    BY <1>4 DEF AttemptRefused, Fault, ToSender, End, Goto
  <2>3. DbType' /\ IdType' /\ MemType' /\ HistType'
    BY <2>2 DEF DbType, IdType, MemType, HistType
  <2>4. WireType'
    BY <1>4, <2>1 DEF AttemptRefused, Fault, ToSender, End, Goto, WireType
  <2>5. TaskType'
    BY <1>4, <2>1 DEF AttemptRefused, Fault, ToSender, End, Goto, TaskType
  <2>6. BoundType'
    BY <1>4, <2>1 DEF AttemptRefused, Fault, ToSender, End, Goto, BoundType
  <2> QED
    BY <2>3, <2>4, <2>5, <2>6
<1>5. CASE AttemptDbError(t)
  <2>1. msg[t] \in Mid
    BY <1>5 DEF AttemptDbError, Fault, ToSender, End, Goto, TaskType
  <2>2. UNCHANGED <<dbVars, idVars, memVars, histVars>>
    BY <1>5 DEF AttemptDbError, Fault, ToSender, End, Goto
  <2>3. DbType' /\ IdType' /\ MemType' /\ HistType'
    BY <2>2 DEF DbType, IdType, MemType, HistType
  <2>4. WireType'
    BY <1>5, <2>1 DEF AttemptDbError, Fault, ToSender, End, Goto, WireType
  <2>5. TaskType'
    BY <1>5, <2>1 DEF AttemptDbError, Fault, ToSender, End, Goto, TaskType
  <2>6. BoundType'
    BY <1>5, <2>1 DEF AttemptDbError, Fault, ToSender, End, Goto, BoundType
  <2> QED
    BY <2>3, <2>4, <2>5, <2>6
<1> HIDE DEF TypeOK, vars, FrameKind, Key
<1> QED
  BY <1>1, <1>2, <1>3, <1>4, <1>5 DEF AttemptStep

(* ... of a confirmation ... *)
LEMMA ConfirmType ==
    ASSUME TypeOK, NEW t \in Task, ConfirmStep(t)
    PROVE  TypeOK'
<1> USE MidAssumption, CmidAssumption
    DEF TypeOK, RowState, Key, MemState, RecordState, FrameKind, Pc, SendPc,
        AttemptPc, ConfirmPc, ReadPc, ReplayPc, vars, dbVars, idVars, memVars,
        wireVars, taskVars, histVars, bounds
<1>1. ASSUME NEW m \in Mid, ConfirmDelivered(t, m) PROVE TypeOK'
  BY <1>1 DEF ConfirmDelivered, Begin, Request, LoadCache, Goto, DbType,
     IdType, MemType, WireType, TaskType, HistType, BoundType
<1>2. CASE DRead(t)
  <2>1. msg[t] \in Mid
    BY <1>2 DEF DRead, NotifySender, ToSender, End, Goto, TaskType
  <2>2. UNCHANGED <<dbVars, idVars, memVars, bounds>>
    BY <1>2 DEF DRead, NotifySender, ToSender, End, Goto
  <2>3. DbType' /\ IdType' /\ MemType' /\ BoundType'
    BY <2>2 DEF DbType, IdType, MemType, BoundType
  <2>4. WireType'
    BY <1>2, <2>1 DEF DRead, NotifySender, ToSender, End, Goto, WireType
  <2>5. TaskType'
    BY <1>2, <2>1 DEF DRead, NotifySender, ToSender, End, Goto, TaskType
  <2>6. HistType'
    BY <1>2, <2>1 DEF DRead, NotifySender, ToSender, End, Goto, HistType,
       IdType
  <2> QED
    BY <2>3, <2>4, <2>5, <2>6
<1>3. CASE DWrite(t)
  BY <1>3 DEF DWrite, Goto, DbType, IdType, MemType, WireType, TaskType,
     HistType, BoundType
<1>4. CASE DMark(t)
  BY <1>4 DEF DMark, Goto, DbType, IdType, MemType, WireType, TaskType,
     HistType, BoundType
<1>5. CASE DFinish(t)
  <2>1. msg[t] \in Mid
    BY <1>5 DEF DFinish, transitionState, advanceMem, NotifySender, ToSender,
       End, Goto, TaskType
  <2>2. UNCHANGED <<dbVars, idVars, bounds>>
    BY <1>5 DEF DFinish, transitionState, advanceMem, NotifySender, ToSender,
       End, Goto
  <2>3. DbType' /\ IdType' /\ BoundType'
    BY <2>2 DEF DbType, IdType, BoundType
  <2>4. MemType'
    BY <1>5, <2>1 DEF DFinish, transitionState, advanceMem, NotifySender,
       ToSender, End, Goto, MemType, DbType
  <2>5. WireType'
    BY <1>5, <2>1 DEF DFinish, transitionState, advanceMem, NotifySender,
       ToSender, End, Goto, WireType
  <2>6. TaskType'
    BY <1>5, <2>1 DEF DFinish, transitionState, advanceMem, NotifySender,
       ToSender, End, Goto, TaskType
  <2>7. HistType'
    BY <1>5, <2>1 DEF DFinish, transitionState, advanceMem, NotifySender,
       ToSender, End, Goto, HistType, IdType
  <2> QED
    BY <2>3, <2>4, <2>5, <2>6, <2>7
<1>6. ASSUME NEW m \in Mid, ConfirmRead(t, m) PROVE TypeOK'
  <2>1. UNCHANGED <<dbVars, idVars, wireVars, histVars>>
    BY <1>6 DEF ConfirmRead, Begin, Request, LoadCache, Goto
  <2>2. DbType' /\ IdType' /\ WireType' /\ HistType'
    BY <2>1 DEF DbType, IdType, WireType, HistType
  <2>3. MemType'
    BY <1>6 DEF ConfirmRead, Begin, Request, LoadCache, Goto, MemType, DbType
  <2>4. TaskType'
    BY <1>6 DEF ConfirmRead, Begin, Request, LoadCache, Goto, TaskType
  <2>5. BoundType'
    BY <1>6 DEF ConfirmRead, Begin, Request, LoadCache, Goto, BoundType
  <2> QED
    BY <2>2, <2>3, <2>4, <2>5
<1>7. CASE RRead(t)
  <2>1. msg[t] \in Mid
    BY <1>7 DEF RRead, End, Goto, TaskType
  <2>2. UNCHANGED <<dbVars, idVars, memVars, wireVars, histVars, bounds>>
    BY <1>7 DEF RRead, End, Goto
  <2>3. DbType' /\ IdType' /\ MemType' /\ WireType' /\ HistType' /\ BoundType'
    BY <2>2 DEF DbType, IdType, MemType, WireType, HistType, BoundType
  <2>4. TaskType'
    BY <1>7, <2>1 DEF RRead, End, Goto, TaskType
  <2> QED
    BY <2>3, <2>4
<1>8. CASE RWrite(t)
  BY <1>8 DEF RWrite, Goto, DbType, IdType, MemType, WireType, TaskType,
     HistType, BoundType
<1>9. CASE RMark(t)
  BY <1>9 DEF RMark, Goto, DbType, IdType, MemType, WireType, TaskType,
     HistType, BoundType
<1>10. CASE RFinish(t)
  BY <1>10 DEF RFinish, forceMarkAsRead, advanceMem, Goto, DbType, IdType,
     MemType, WireType, TaskType, HistType, BoundType
<1>11. CASE RNotify(t)
  BY <1>11 DEF RNotify, NotifySender, ToSender, End, Goto, DbType, IdType,
     MemType, WireType, TaskType, HistType, BoundType
<1>12. CASE ConfirmDbError(t)
  BY <1>12 DEF ConfirmDbError, Fault, End, Goto, DbType, IdType, MemType,
     WireType, TaskType, HistType, BoundType
<1> HIDE DEF TypeOK, vars, FrameKind, Key
<1> QED
  BY <1>1, <1>2, <1>3, <1>4, <1>5, <1>6, <1>7, <1>8, <1>9, <1>10, <1>11, <1>12
     DEF ConfirmStep

(* ... of a replay ... *)
LEMMA ReplayType ==
    ASSUME TypeOK, NEW t \in Task, ReplayStep(t)
    PROVE  TypeOK'
<1> USE MidAssumption, CmidAssumption
    DEF TypeOK, RowState, Key, MemState, RecordState, FrameKind, Pc, SendPc,
        AttemptPc, ConfirmPc, ReadPc, ReplayPc, vars, dbVars, idVars, memVars,
        wireVars, taskVars, histVars, bounds
<1>1. ASSUME NEW last \in Mid \cup {NoMid}, NEW kind \in {"resume", "replay"},
   Replay(t, last, kind) PROVE TypeOK'
  BY <1>1 DEF Replay, Begin, Request, Goto, DbType, IdType, MemType, WireType,
     TaskType, HistType, BoundType
<1>2. CASE PFetch(t)
  <2>1. UNCHANGED <<dbVars, idVars, memVars, wireVars, histVars>>
    BY <1>2 DEF PFetch
  <2>2. DbType' /\ IdType' /\ MemType' /\ WireType' /\ HistType'
    BY <2>1 DEF DbType, IdType, MemType, WireType, HistType
  <2>3. Undelivered(msg[t]) \subseteq Mid
    BY DEF Undelivered, Window, After, Stored
  <2>4. PICK S \in SUBSET Undelivered(msg[t]) :
           /\ UNCHANGED bounds \/ Fault("db")
           /\ todo' = [todo EXCEPT ![t] = S]
    BY <1>2 DEF PFetch
  <2>5. TaskType'
    BY <1>2, <2>3, <2>4 DEF PFetch, Goto, TaskType
  <2>6. BoundType'
    BY <2>4 DEF Fault, BoundType
  <2> QED
    BY <2>2, <2>5, <2>6
<1>3. CASE PPick(t)
  BY <1>3 DEF PPick, Goto, DbType, IdType, MemType, WireType, TaskType,
     HistType, BoundType
<1>4. CASE PCheck(t)
  BY <1>4 DEF PCheck, Skip, SyncCache, Goto, DbType, IdType, MemType, WireType,
     TaskType, HistType, BoundType
<1>5. CASE PWrite(t)
  BY <1>5 DEF PWrite, Goto, DbType, IdType, MemType, WireType, TaskType,
     HistType, BoundType
<1>6. CASE PMark(t)
  BY <1>6 DEF PMark, Goto, DbType, IdType, MemType, WireType, TaskType,
     HistType, BoundType
<1>7. CASE PFinish(t)
  <2>1. msg[t] \in Mid
    BY <1>7 DEF PFinish, transitionState, NotifySender, ToSender, Skip, Goto,
       TaskType
  <2>2. UNCHANGED <<dbVars, idVars, bounds>>
    BY <1>7 DEF PFinish, transitionState, NotifySender, ToSender, Skip, Goto
  <2>3. DbType' /\ IdType' /\ BoundType'
    BY <2>2 DEF DbType, IdType, BoundType
  <2>4. MemType'
    BY <1>7, <2>1 DEF PFinish, transitionState, NotifySender, ToSender, Skip,
       Goto, MemType, DbType
  <2>5. WireType'
    BY <1>7, <2>1 DEF PFinish, transitionState, NotifySender, ToSender, Skip,
       Goto, WireType
  <2>6. TaskType'
    BY <1>7, <2>1 DEF PFinish, transitionState, NotifySender, ToSender, Skip,
       Goto, TaskType
  <2>7. HistType'
    BY <1>7, <2>1 DEF PFinish, transitionState, NotifySender, ToSender, Skip,
       Goto, HistType, IdType
  <2> QED
    BY <2>3, <2>4, <2>5, <2>6, <2>7
<1>8. CASE PEmit(t)
  <2>1. UNCHANGED <<dbVars, idVars, memVars, histVars>>
    BY <1>8 DEF PEmit
  <2>2. DbType' /\ IdType' /\ MemType' /\ HistType'
    BY <2>1 DEF DbType, IdType, MemType, HistType
  <2>3. out[t] \subseteq Mid
    BY DEF TaskType
  <2>4. PICK Q \in SUBSET out[t] :
           /\ UNCHANGED bounds \/ Fault("overflow")
           /\ frames' = frames \cup ({"replay"} \X Q)
    BY <1>8 DEF PEmit
  <2>5. WireType'
    BY <1>8, <2>3, <2>4 DEF PEmit, WireType
  <2>6. TaskType'
    BY <1>8 DEF PEmit, EndReplay, End, Goto, TaskType
  <2>7. BoundType'
    BY <2>4 DEF Fault, BoundType
  <2> QED
    BY <2>2, <2>5, <2>6, <2>7
<1>9. CASE ReplayTimeout(t)
  BY <1>9 DEF ReplayTimeout, Fault, DbType, IdType, MemType, WireType,
     TaskType, HistType, BoundType
<1>10. CASE ReplayDbError(t)
  BY <1>10 DEF ReplayDbError, Fault, EndReplay, End, Skip, SyncCache, Goto,
     DbType, IdType, MemType, WireType, TaskType, HistType, BoundType
<1> HIDE DEF TypeOK, vars, FrameKind, Key
<1> QED
  BY <1>1, <1>2, <1>3, <1>4, <1>5, <1>6, <1>7, <1>8, <1>9, <1>10 DEF ReplayStep

(* ... and of the sockets, the timers and the process. *)
LEMMA SocketType ==
    ASSUME TypeOK, SocketStep
    PROVE  TypeOK'
<1> USE MidAssumption, CmidAssumption
    DEF TypeOK, RowState, Key, MemState, RecordState, FrameKind, Pc, SendPc,
        AttemptPc, ConfirmPc, ReadPc, ReplayPc, vars, dbVars, idVars, memVars,
        wireVars, taskVars, histVars, bounds
<1>1. ASSUME NEW k \in FrameKind, NEW m \in Mid, Transmit(k, m) PROVE TypeOK'
  BY <1>1 DEF Transmit, DbType, IdType, MemType, WireType, TaskType, HistType,
     BoundType
<1>2. ASSUME NEW k \in FrameKind, NEW m \in Mid, sendOrFail(k, m) PROVE TypeOK'
  BY <1>2 DEF sendOrFail, Fault, DbType, IdType, MemType, WireType, TaskType,
     HistType, BoundType
<1>3. ASSUME NEW m \in Mid, MarkFailed(m) PROVE TypeOK'
  BY <1>3 DEF MarkFailed, DbType, IdType, MemType, WireType, TaskType,
     HistType, BoundType
<1>4. ASSUME NEW m \in Mid, AckTimeout(m) PROVE TypeOK'
  BY <1>4 DEF AckTimeout, DbType, IdType, MemType, WireType, TaskType,
     HistType, BoundType
<1>5. ASSUME NEW p \in Mid, NEW S \in SUBSET Mid, MarkReadUpTo(p, S) PROVE
   TypeOK'
  BY <1>5 DEF MarkReadUpTo, Request, forceMarkAsRead, DbType, IdType, MemType,
     WireType, TaskType, HistType, BoundType
<1>6. CASE Connect
  BY <1>6 DEF Connect, DbType, IdType, MemType, WireType, TaskType, HistType,
     BoundType
<1>7. CASE Disconnect
  <2>1. UNCHANGED <<dbVars, idVars, memVars, histVars>>
    BY <1>7 DEF Disconnect, Fault
  <2>2. DbType' /\ IdType' /\ MemType' /\ HistType'
    BY <2>1 DEF DbType, IdType, MemType, HistType
  <2>3. WireType'
    BY <1>7 DEF Disconnect, Fault, WireType
  <2>4. TaskType'
    BY <1>7 DEF Disconnect, Fault, TaskType
  <2>5. BoundType'
    BY <1>7 DEF Disconnect, Fault, BoundType
  <2> QED
    BY <2>2, <2>3, <2>4, <2>5
<1>8. CASE GraceExpired
  BY <1>8 DEF GraceExpired, DbType, IdType, MemType, WireType, TaskType,
     HistType, BoundType
<1>9. CASE LoadHistory
  <2>1. UNCHANGED <<dbVars, idVars, memVars, taskVars, histVars>>
    BY <1>9 DEF LoadHistory, Request, Stored
  <2>2. DbType' /\ IdType' /\ MemType' /\ TaskType' /\ HistType'
    BY <2>1 DEF DbType, IdType, MemType, TaskType, HistType
  <2>3. WireType'
    BY <1>9 DEF LoadHistory, Request, Stored, WireType
  <2>4. BoundType'
    BY <1>9 DEF LoadHistory, Request, Stored, BoundType
  <2> QED
    BY <2>2, <2>3, <2>4
<1>10. CASE Crash
  <2>1. UNCHANGED <<dbVars, idVars, histVars>>
    BY <1>10 DEF Crash, Fault
  <2>2. DbType' /\ IdType' /\ HistType'
    BY <2>1 DEF DbType, IdType, HistType
  <2>3. MemType'
    BY <1>10 DEF Crash, Fault, MemType, DbType
  <2>4. WireType'
    BY <1>10 DEF Crash, Fault, WireType
  <2>5. TaskType'
    BY <1>10 DEF Crash, Fault, TaskType
  <2>6. BoundType'
    BY <1>10 DEF Crash, Fault, BoundType
  <2> QED
    BY <2>2, <2>3, <2>4, <2>5, <2>6
<1> HIDE DEF TypeOK, vars, FrameKind, Key
<1> QED
  BY <1>1, <1>2, <1>3, <1>4, <1>5, <1>6, <1>7, <1>8, <1>9, <1>10 DEF SocketStep
(* Every step preserves the types. *)
LEMMA NextType == TypeOK /\ [Next]_vars => TypeOK'
<1> SUFFICES ASSUME TypeOK, [Next]_vars PROVE TypeOK'
  OBVIOUS
<1>1. ASSUME NEW t \in Task,
             SendStep(t) \/ AttemptStep(t) \/ ConfirmStep(t) \/ ReplayStep(t)
      PROVE  TypeOK'
  BY <1>1, SendType, AttemptType, ConfirmType, ReplayType
<1>2. CASE SocketStep
  BY <1>2, SocketType
<1>3. CASE UNCHANGED vars
  BY <1>3 DEF TypeOK, DbType, IdType, MemType, WireType, TaskType, HistType,
         BoundType, vars, dbVars, idVars, memVars, wireVars, taskVars, histVars,
         bounds
<1> QED
  BY <1>1, <1>2, <1>3 DEF Next

(* Every variable of the model keeps to its type: rows, records and domain *)
(* objects only ever take the states of their state machines, and a handler*)
(* past its first await always has a message.                              *)
THEOREM TypeCorrect == Spec => []TypeOK
  BY InitType, NextType, PTL DEF Spec

-----------------------------------------------------------------------------
(* Who writes what *)

(* Rows, ids, delivery marks and what the recipient holds are never taken  *)
(* back, and neither are the claims of replays and of POST mark-read.      *)
LEMMA Grows ==
    ASSUME TypeOK, [Next]_vars
    PROVE  /\ Stored \subseteq Stored'
           /\ issued \subseteq issued'
           /\ marked \subseteq marked'
           /\ held \subseteq held'
           /\ claimed \subseteq claimed'
           /\ forced \subseteq forced'
<1> DEFINE Grown == /\ Stored \subseteq Stored'
                    /\ issued \subseteq issued'
                    /\ marked \subseteq marked'
                    /\ held \subseteq held'
                    /\ claimed \subseteq claimed'
                    /\ forced \subseteq forced'
<1> USE DEF TypeOK, DbType, RowState, Stored, vars, dbVars, idVars, memVars,
        wireVars, taskVars, histVars, bounds
<1>1. ASSUME NEW t \in Task, SendStep(t) PROVE Grown
  BY <1>1 DEF SendStep, AcceptDuplicate, AcceptNew, Lookup, Insert,
     CreateDelivery, UpdateSent, FinishSend, SendDbError, Begin, Ack, Nack, End
<1>2. ASSUME NEW t \in Task, AttemptStep(t) PROVE Grown
  BY <1>2 DEF AttemptStep, AttemptLoad, AttemptCheck, AttemptQueued,
     AttemptRefused, AttemptDbError
<1>3. ASSUME NEW t \in Task, ConfirmStep(t) PROVE Grown
  BY <1>3 DEF ConfirmStep, ConfirmDelivered, DRead, DWrite, DMark, DFinish,
     ConfirmRead, RRead, RWrite, RMark, RFinish, RNotify, ConfirmDbError
<1>4. ASSUME NEW t \in Task, ReplayStep(t) PROVE Grown
  BY <1>4 DEF ReplayStep, Replay, PFetch, PPick, PCheck, PWrite, PMark,
     PFinish, PEmit, ReplayTimeout, ReplayDbError
<1>5. ASSUME SocketStep PROVE Grown
  BY <1>5 DEF SocketStep, Transmit, sendOrFail, MarkFailed, AckTimeout,
     MarkReadUpTo, Connect, Disconnect, GraceExpired, LoadHistory, Crash
<1>6. ASSUME UNCHANGED vars PROVE Grown
  BY <1>6
<1> HIDE DEF TypeOK, vars, Stored, Grown
<1>7. Grown
  BY <1>1, <1>2, <1>3, <1>4, <1>5, <1>6 DEF Next
<1> QED
  BY <1>7 DEF Grown

(* The actions that write delivery records, their timers and failures. *)
LEMMA RecordWriters ==
    ASSUME [Next]_vars
    PROVE  \/ UNCHANGED <<record, timer, failure>>
           \/ \E t \in Task : \/ CreateDelivery(t) \/ AttemptQueued(t)
                              \/ DFinish(t) \/ RFinish(t) \/ PFinish(t)
           \/ \E p \in Mid, S \in SUBSET Mid : MarkReadUpTo(p, S)
           \/ \E m \in Mid : AckTimeout(m)
           \/ GraceExpired
           \/ Crash
<1> USE DEF vars, memVars
<1>1. ASSUME NEW t \in Task, SendStep(t)
      PROVE  CreateDelivery(t) \/ UNCHANGED <<record, timer, failure>>
  BY <1>1 DEF SendStep, AcceptDuplicate, AcceptNew, Lookup, Insert,
     UpdateSent, FinishSend, SendDbError
<1>2. ASSUME NEW t \in Task, AttemptStep(t)
      PROVE  AttemptQueued(t) \/ UNCHANGED <<record, timer, failure>>
  BY <1>2 DEF AttemptStep, AttemptLoad, AttemptCheck, AttemptRefused,
     AttemptDbError
<1>3. ASSUME NEW t \in Task, ConfirmStep(t)
      PROVE  DFinish(t) \/ RFinish(t) \/ UNCHANGED <<record, timer, failure>>
  BY <1>3 DEF ConfirmStep, ConfirmDelivered, DRead, DWrite, DMark,
     ConfirmRead, RRead, RWrite, RMark, RNotify, ConfirmDbError
<1>4. ASSUME NEW t \in Task, ReplayStep(t)
      PROVE  PFinish(t) \/ UNCHANGED <<record, timer, failure>>
  BY <1>4 DEF ReplayStep, Replay, PFetch, PPick, PCheck, PWrite, PMark,
     PEmit, ReplayTimeout, ReplayDbError
<1>5. CASE SocketStep
  BY <1>5 DEF SocketStep, Transmit, sendOrFail, MarkFailed, Connect,
     Disconnect, LoadHistory
<1> QED
  BY <1>1, <1>2, <1>3, <1>4, <1>5 DEF Next

(* The actions that write rows. *)
LEMMA RowWriters ==
    ASSUME [Next]_vars
    PROVE  \/ UNCHANGED row
           \/ \E t \in Task : \/ Insert(t) \/ UpdateSent(t) \/ SendDbError(t)
                              \/ DWrite(t) \/ RWrite(t) \/ PWrite(t)
           \/ \E m \in Mid : MarkFailed(m)
<1> USE DEF vars, dbVars
<1>1. ASSUME NEW t \in Task, SendStep(t)
      PROVE  Insert(t) \/ UpdateSent(t) \/ SendDbError(t) \/ UNCHANGED row
  BY <1>1 DEF SendStep, AcceptDuplicate, AcceptNew, Lookup, CreateDelivery,
     FinishSend
<1>2. ASSUME NEW t \in Task, AttemptStep(t) PROVE UNCHANGED row
  BY <1>2 DEF AttemptStep, AttemptLoad, AttemptCheck, AttemptQueued,
     AttemptRefused, AttemptDbError
<1>3. ASSUME NEW t \in Task, ConfirmStep(t)
      PROVE  DWrite(t) \/ RWrite(t) \/ UNCHANGED row
  BY <1>3 DEF ConfirmStep, ConfirmDelivered, DRead, DMark, DFinish,
     ConfirmRead, RRead, RMark, RFinish, RNotify, ConfirmDbError
<1>4. ASSUME NEW t \in Task, ReplayStep(t) PROVE PWrite(t) \/ UNCHANGED row
  BY <1>4 DEF ReplayStep, Replay, PFetch, PPick, PCheck, PMark, PFinish,
     PEmit, ReplayTimeout, ReplayDbError
<1>5. CASE SocketStep
  BY <1>5 DEF SocketStep, Transmit, sendOrFail, AckTimeout, MarkReadUpTo,
     Connect, Disconnect, GraceExpired, LoadHistory, Crash
<1> QED
  BY <1>1, <1>2, <1>3, <1>4, <1>5 DEF Next

(* The actions that mark messages delivered. *)
LEMMA MarkWriters ==
    ASSUME [Next]_vars
    PROVE  UNCHANGED marked \/ \E t \in Task : DMark(t) \/ RMark(t) \/ PMark(t)
<1> USE DEF vars, dbVars
<1>1. ASSUME NEW t \in Task, SendStep(t) \/ AttemptStep(t)
      PROVE  UNCHANGED marked
  BY <1>1 DEF SendStep, AcceptDuplicate, AcceptNew, Lookup, Insert,
     CreateDelivery, UpdateSent, FinishSend, SendDbError, AttemptStep,
     AttemptLoad, AttemptCheck, AttemptQueued, AttemptRefused, AttemptDbError
<1>2. ASSUME NEW t \in Task, ConfirmStep(t)
      PROVE  DMark(t) \/ RMark(t) \/ UNCHANGED marked
  BY <1>2 DEF ConfirmStep, ConfirmDelivered, DRead, DWrite, DFinish,
     ConfirmRead, RRead, RWrite, RFinish, RNotify, ConfirmDbError
<1>3. ASSUME NEW t \in Task, ReplayStep(t) PROVE PMark(t) \/ UNCHANGED marked
  BY <1>3 DEF ReplayStep, Replay, PFetch, PPick, PCheck, PWrite, PFinish,
     PEmit, ReplayTimeout, ReplayDbError
<1>4. CASE SocketStep
  BY <1>4 DEF SocketStep, Transmit, sendOrFail, MarkFailed, AckTimeout,
     MarkReadUpTo, Connect, Disconnect, GraceExpired, LoadHistory, Crash
<1> QED
  BY <1>1, <1>2, <1>3, <1>4 DEF Next

(* The actions that write the transport cache. *)
LEMMA CacheWriters ==
    ASSUME [Next]_vars
    PROVE  \/ UNCHANGED cache
           \/ \E t \in Task : LoadCache(msg[t]) \/ SyncCache(msg[t])
           \/ \E m \in Mid : LoadCache(m)
           \/ \E t \in Task : PFinish(t)
           \/ Crash
<1> USE DEF vars, memVars
<1>1. ASSUME NEW t \in Task, SendStep(t) PROVE UNCHANGED cache
  BY <1>1 DEF SendStep, AcceptDuplicate, AcceptNew, Lookup, Insert,
     CreateDelivery, UpdateSent, FinishSend, SendDbError
<1>2. ASSUME NEW t \in Task, AttemptStep(t)
      PROVE  LoadCache(msg[t]) \/ UNCHANGED cache
  BY <1>2 DEF AttemptStep, AttemptLoad, AttemptCheck, AttemptQueued,
     AttemptRefused, AttemptDbError
<1>3. ASSUME NEW t \in Task, ConfirmStep(t)
      PROVE  \/ \E m \in Mid : LoadCache(m)
             \/ UNCHANGED cache
  BY <1>3 DEF ConfirmStep, ConfirmDelivered, DRead, DWrite, DMark, DFinish,
     ConfirmRead, RRead, RWrite, RMark, RFinish, RNotify, ConfirmDbError
<1>4. ASSUME NEW t \in Task, ReplayStep(t)
      PROVE  PFinish(t) \/ SyncCache(msg[t]) \/ UNCHANGED cache
  BY <1>4 DEF ReplayStep, Replay, PFetch, PPick, PCheck, PWrite, PMark,
     PEmit, ReplayTimeout, ReplayDbError
<1>5. CASE SocketStep
  BY <1>5 DEF SocketStep, Transmit, sendOrFail, MarkFailed, AckTimeout,
     MarkReadUpTo, Connect, Disconnect, GraceExpired, LoadHistory
<1> QED
  BY <1>1, <1>2, <1>3, <1>4, <1>5 DEF Next

(* The actions that acknowledge a send. *)
LEMMA AckWriters ==
    ASSUME [Next]_vars
    PROVE  \/ UNCHANGED acks
           \/ \E t \in Task, c \in Cmid : AcceptDuplicate(t, c)
           \/ \E t \in Task : FinishSend(t)
<1> USE DEF vars, histVars
<1>1. ASSUME NEW t \in Task, SendStep(t)
      PROVE  \/ UNCHANGED acks
             \/ \E c \in Cmid : AcceptDuplicate(t, c)
             \/ FinishSend(t)
  BY <1>1 DEF SendStep, AcceptNew, Lookup, Insert, CreateDelivery, UpdateSent,
     SendDbError
<1>2. ASSUME NEW t \in Task, AttemptStep(t) \/ ConfirmStep(t)
      PROVE  UNCHANGED acks
  BY <1>2 DEF AttemptStep, AttemptLoad, AttemptCheck, AttemptQueued,
     AttemptRefused, AttemptDbError, ConfirmStep, ConfirmDelivered, DRead,
     DWrite, DMark, DFinish, ConfirmRead, RRead, RWrite, RMark, RFinish,
     RNotify, ConfirmDbError
<1>3. ASSUME NEW t \in Task, ReplayStep(t) PROVE UNCHANGED acks
  BY <1>3 DEF ReplayStep, Replay, PFetch, PPick, PCheck, PWrite, PMark,
     PFinish, PEmit, ReplayTimeout, ReplayDbError
<1>4. CASE SocketStep
  BY <1>4 DEF SocketStep, Transmit, sendOrFail, MarkFailed, AckTimeout,
     MarkReadUpTo, Connect, Disconnect, GraceExpired, LoadHistory, Crash
<1> QED
  BY <1>1, <1>2, <1>3, <1>4 DEF Next

(* The actions that notify the sender of a state. *)
LEMMA ToldWriters ==
    ASSUME [Next]_vars
    PROVE  \/ UNCHANGED told
           \/ \E t \in Task : DRead(t) \/ DFinish(t) \/ RNotify(t) \/ PFinish(t)
<1> USE DEF vars, histVars
<1>1. ASSUME NEW t \in Task, SendStep(t) \/ AttemptStep(t)
      PROVE  UNCHANGED told
  BY <1>1 DEF SendStep, AcceptDuplicate, AcceptNew, Lookup, Insert,
     CreateDelivery, UpdateSent, FinishSend, SendDbError, AttemptStep,
     AttemptLoad, AttemptCheck, AttemptQueued, AttemptRefused, AttemptDbError
<1>2. ASSUME NEW t \in Task, ConfirmStep(t)
      PROVE  DRead(t) \/ DFinish(t) \/ RNotify(t) \/ UNCHANGED told
  BY <1>2 DEF ConfirmStep, ConfirmDelivered, DWrite, DMark, ConfirmRead,
     RRead, RWrite, RMark, RFinish, ConfirmDbError
<1>3. ASSUME NEW t \in Task, ReplayStep(t) PROVE PFinish(t) \/ UNCHANGED told
  BY <1>3 DEF ReplayStep, Replay, PFetch, PPick, PCheck, PWrite, PMark,
     PEmit, ReplayTimeout, ReplayDbError
<1>4. CASE SocketStep
  BY <1>4 DEF SocketStep, Transmit, sendOrFail, MarkFailed, AckTimeout,
     MarkReadUpTo, Connect, Disconnect, GraceExpired, LoadHistory, Crash
<1> QED
  BY <1>1, <1>2, <1>3, <1>4 DEF Next

-----------------------------------------------------------------------------
(* The parts of the inductive invariant *)

(* transitionState keeps a record that enters SENT watched by a timer, and *)
(* disarms the timer of one that leaves it.                                *)
LEMMA TransitionWatched ==
    ASSUME NEW m \in Mid, NEW to \in {"SENT", "DELIVERED"},
           record \in [Mid -> RecordState], SentIsWatched,
           transitionState(m, to), failure' = failure
    PROVE  SentIsWatched'
<1>1. CASE ~AllowedTransition(record[m], to)
  BY <1>1 DEF transitionState, SentIsWatched
<1>2. CASE AllowedTransition(record[m], to) /\ to = "SENT"
  <2>1. record' = [record EXCEPT ![m] = "SENT"] /\ timer' = timer \cup {m}
    BY <1>2 DEF transitionState
  <2> QED
    BY <2>1 DEF SentIsWatched
<1>3. CASE AllowedTransition(record[m], to) /\ to = "DELIVERED"
  <2>1. record' = [record EXCEPT ![m] = "DELIVERED"] /\ timer' = timer \ {m}
    BY <1>3 DEF transitionState
  <2> QED
    BY <2>1 DEF SentIsWatched
<1> QED
  BY <1>1, <1>2, <1>3

(* No step leaves a record in SENT unwatched, or a timer behind. *)
LEMMA WatchedStep ==
    ASSUME TypeOK, SentIsWatched, [Next]_vars
    PROVE  SentIsWatched'
<1>0. record \in [Mid -> RecordState] /\ timer \subseteq Mid
  BY DEF TypeOK, MemType
<1>1. CASE UNCHANGED <<record, timer, failure>>
  BY <1>1 DEF SentIsWatched
<1>2. ASSUME NEW t \in Task, CreateDelivery(t) PROVE SentIsWatched'
  BY <1>0, <1>2 DEF CreateDelivery, SentIsWatched
<1>3. ASSUME NEW t \in Task, AttemptQueued(t) PROVE SentIsWatched'
  <2>1. msg[t] \in Mid
    BY <1>3 DEF AttemptQueued, TypeOK, TaskType
  <2> QED
    BY <1>0, <1>3, <2>1, TransitionWatched DEF AttemptQueued
<1>4. ASSUME NEW t \in Task, DFinish(t) \/ PFinish(t) PROVE SentIsWatched'
  <2>1. msg[t] \in Mid
    BY <1>4 DEF DFinish, PFinish, TypeOK, TaskType
  <2> QED
    BY <1>0, <1>4, <2>1, TransitionWatched DEF DFinish, PFinish
<1>5. ASSUME NEW t \in Task, RFinish(t) PROVE SentIsWatched'
  <2>1. msg[t] \in Mid
    BY <1>5 DEF RFinish, TypeOK, TaskType
  <2> QED
    BY <1>0, <1>5, <2>1 DEF RFinish, forceMarkAsRead, SentIsWatched
<1>6. ASSUME NEW p \in Mid, NEW S \in SUBSET Mid, MarkReadUpTo(p, S)
      PROVE  SentIsWatched'
  BY <1>0, <1>6 DEF MarkReadUpTo, forceMarkAsRead, SentIsWatched
<1>7. ASSUME NEW m \in Mid, AckTimeout(m) PROVE SentIsWatched'
  BY <1>7 DEF AckTimeout, SentIsWatched
<1>8. CASE GraceExpired
  BY <1>8 DEF GraceExpired, SentIsWatched
<1>9. CASE Crash
  BY <1>9 DEF Crash, SentIsWatched
<1> QED
  BY <1>1, <1>2, <1>3, <1>4, <1>5, <1>6, <1>7, <1>8, <1>9, RecordWriters

(* No step takes a delivery record back, except a restart that drops it. *)
LEMMA RecordForward ==
    ASSUME TypeOK, [Next]_vars
    PROVE  \A m \in Mid : record'[m] # "none" => Rank(record[m]) <= Rank(record'[m])
<1> DEFINE Forward == \A m \in Mid : record'[m] # "none"
                                        => Rank(record[m]) <= Rank(record'[m])
<1> USE DEF Rank, RecordState, AllowedTransition
<1>0. record \in [Mid -> RecordState]
  BY DEF TypeOK, MemType
<1>1. CASE UNCHANGED <<record, timer, failure>>
  BY <1>0, <1>1
<1>2. ASSUME NEW t \in Task, CreateDelivery(t) PROVE Forward
  BY <1>0, <1>2 DEF CreateDelivery
<1>3. ASSUME NEW t \in Task, AttemptQueued(t) \/ DFinish(t) \/ PFinish(t)
      PROVE  Forward
  <2>1. PICK to \in {"SENT", "DELIVERED"} : transitionState(msg[t], to)
    BY <1>3 DEF AttemptQueued, DFinish, PFinish
  <2> QED
    BY <1>0, <2>1 DEF transitionState
<1>4. ASSUME NEW t \in Task, RFinish(t) PROVE Forward
  BY <1>0, <1>4 DEF RFinish, forceMarkAsRead
<1>5. ASSUME NEW p \in Mid, NEW S \in SUBSET Mid, MarkReadUpTo(p, S)
      PROVE  Forward
  BY <1>0, <1>5 DEF MarkReadUpTo, forceMarkAsRead
<1>6. ASSUME (\E m \in Mid : AckTimeout(m)) \/ GraceExpired PROVE Forward
  BY <1>0, <1>6 DEF AckTimeout, GraceExpired
<1>7. ASSUME Crash PROVE Forward
  BY <1>0, <1>7 DEF Crash
<1> HIDE DEF Rank
<1> QED
  BY <1>1, <1>2, <1>3, <1>4, <1>5, <1>6, <1>7, RecordWriters

(* A record becomes DELIVERED only after the mark, READ only after the     *)
(* mark or through POST mark-read.                                         *)
LEMMA BehindDeliveriesStep ==
    ASSUME TypeOK, HandlersKnow, RecordBehindDeliveries, [Next]_vars
    PROVE  RecordBehindDeliveries'
<1> USE DEF RecordBehindDeliveries
<1>0. /\ record \in [Mid -> RecordState]
      /\ marked \subseteq marked'
      /\ forced \subseteq forced'
  BY Grows DEF TypeOK, MemType
<1>1. CASE UNCHANGED <<record, timer, failure>>
  BY <1>0, <1>1
<1>2. ASSUME NEW t \in Task, CreateDelivery(t) PROVE RecordBehindDeliveries'
  BY <1>0, <1>2 DEF CreateDelivery
<1>3. ASSUME NEW t \in Task, AttemptQueued(t) PROVE RecordBehindDeliveries'
  BY <1>0, <1>3 DEF AttemptQueued, transitionState
<1>4. ASSUME NEW t \in Task, DFinish(t) \/ PFinish(t)
      PROVE  RecordBehindDeliveries'
  <2>1. msg[t] \in marked
    BY <1>4 DEF DFinish, PFinish, HandlersKnow
  <2> QED
    BY <1>0, <1>4, <2>1 DEF DFinish, PFinish, transitionState
<1>5. ASSUME NEW t \in Task, RFinish(t) PROVE RecordBehindDeliveries'
  BY <1>0, <1>5 DEF RFinish, forceMarkAsRead, HandlersKnow
<1>6. ASSUME NEW p \in Mid, NEW S \in SUBSET Mid, MarkReadUpTo(p, S)
      PROVE  RecordBehindDeliveries'
  BY <1>0, <1>6 DEF MarkReadUpTo, forceMarkAsRead
<1>7. ASSUME (\E m \in Mid : AckTimeout(m)) \/ GraceExpired
      PROVE  RecordBehindDeliveries'
  BY <1>0, <1>7 DEF AckTimeout, GraceExpired
<1>8. CASE Crash
  BY <1>8 DEF Crash
<1> QED
  BY <1>1, <1>2, <1>3, <1>4, <1>5, <1>6, <1>7, <1>8, RecordWriters

-----------------------------------------------------------------------------
(* What is known of the messages named anywhere *)

(* Every message named anywhere is stored: sends, ... *)
LEMMA SendKnown ==
    ASSUME TypeOK, KnownAreStored, HandlersKnow,
           [Next]_vars, NEW t \in Task, SendStep(t)
    PROVE  KnownAreStored'
<1>0. Stored \subseteq Stored' /\ issued \subseteq issued' /\ marked \subseteq
   marked' /\ held \subseteq held' /\ claimed \subseteq claimed'
  BY Grows
<1> USE MidAssumption, CmidAssumption
    DEF TypeOK, DbType, IdType, MemType, WireType, TaskType, KnownAreStored,
        HandlersKnow, OnStoredPc, SendPc, AttemptPc, ConfirmPc, ReadPc, Stored,
        vars, dbVars, idVars, memVars, wireVars, taskVars, histVars, bounds
<1>1. ASSUME NEW c \in Cmid, AcceptDuplicate(t, c) PROVE KnownAreStored'
  <2>1. UNCHANGED <<dbVars, idVars, memVars, failing, held, pushed, todo, out>>
    BY <1>1 DEF AcceptDuplicate, Begin
  <2>2. frames' = frames \/ (dedupe[c] \in Stored /\ ToSender(dedupe[c]))
    BY <1>1 DEF AcceptDuplicate, Begin, Ack
  <2>3. \A f \in frames' : f[2] \in Stored
    BY <2>2 DEF ToSender
  <2> QED
    BY <2>1, <2>3
<1>2. ASSUME NEW c \in Key, NEW m \in Mid, AcceptNew(t, c, m) PROVE
   KnownAreStored'
  BY <1>0, <1>2 DEF AcceptNew, Request, Begin, Goto
<1>3. CASE Lookup(t)
  BY <1>0, <1>3 DEF Lookup, Goto
<1>4. CASE Insert(t)
  <2>1. UNCHANGED <<marked, idVars, memVars, wireVars, todo, out>>
    BY <1>4 DEF Insert
  <2>2. msg[t] \in issued
    BY <1>4 DEF Insert
  <2>3. row' = row \/ row' = [row EXCEPT ![msg[t]] = "sent"]
    BY <1>4 DEF Insert
  <2>4. Stored' \subseteq issued
    BY <2>2, <2>3
  <2> HIDE DEF Stored
  <2> QED
    BY <1>0, <2>1, <2>4
<1>5. CASE CreateDelivery(t)
  BY <1>0, <1>5 DEF CreateDelivery, Goto
<1>6. CASE UpdateSent(t)
  BY <1>0, <1>6 DEF UpdateSent, Nack, End, Goto
<1>7. CASE FinishSend(t)
  BY <1>0, <1>7 DEF FinishSend, Ack, ToSender, Goto
<1>8. CASE SendDbError(t)
  <2>1. UNCHANGED <<marked, idVars, memVars, wireVars, todo, out>>
    BY <1>8 DEF SendDbError
  <2>2. msg[t] \in issued
    BY <1>8 DEF SendDbError
  <2>3. row' = row \/ row' = [row EXCEPT ![msg[t]] = "sent"]
    BY <1>8 DEF SendDbError
  <2>4. Stored' \subseteq issued
    BY <2>2, <2>3
  <2> HIDE DEF Stored
  <2> QED
    BY <1>0, <2>1, <2>4
<1> HIDE DEF TypeOK, KnownAreStored, HandlersKnow, vars
<1> QED
  BY <1>1, <1>2, <1>3, <1>4, <1>5, <1>6, <1>7, <1>8 DEF SendStep

(* ... delivery attempts, ... *)
LEMMA AttemptKnown ==
    ASSUME TypeOK, KnownAreStored, HandlersKnow,
           [Next]_vars, NEW t \in Task, AttemptStep(t)
    PROVE  KnownAreStored'
<1>0. Stored \subseteq Stored' /\ issued \subseteq issued' /\ marked \subseteq
   marked' /\ held \subseteq held' /\ claimed \subseteq claimed'
  BY Grows
<1> USE MidAssumption, CmidAssumption
    DEF TypeOK, DbType, IdType, MemType, WireType, TaskType, KnownAreStored,
        HandlersKnow, OnStoredPc, SendPc, AttemptPc, ConfirmPc, ReadPc, Stored,
        vars, dbVars, idVars, memVars, wireVars, taskVars, histVars, bounds
<1>1. CASE AttemptLoad(t)
  BY <1>0, <1>1 DEF AttemptLoad, LoadCache, Goto
<1>2. CASE AttemptCheck(t)
  BY <1>0, <1>2 DEF AttemptCheck, ToSender, End, Goto
<1>3. CASE AttemptQueued(t)
  BY <1>0, <1>3 DEF AttemptQueued, transitionState, End, Goto
<1>4. CASE AttemptRefused(t)
  BY <1>0, <1>4 DEF AttemptRefused, Fault, ToSender, End, Goto
<1>5. CASE AttemptDbError(t)
  BY <1>0, <1>5 DEF AttemptDbError, Fault, ToSender, End, Goto
<1> HIDE DEF TypeOK, KnownAreStored, HandlersKnow, vars
<1> QED
  BY <1>1, <1>2, <1>3, <1>4, <1>5 DEF AttemptStep

(* ... confirmations, ... *)
LEMMA ConfirmKnown ==
    ASSUME TypeOK, KnownAreStored, HandlersKnow,
           [Next]_vars, NEW t \in Task, ConfirmStep(t)
    PROVE  KnownAreStored'
<1>0. Stored \subseteq Stored' /\ issued \subseteq issued' /\ marked \subseteq
   marked' /\ held \subseteq held' /\ claimed \subseteq claimed'
  BY Grows
<1> USE MidAssumption, CmidAssumption
    DEF TypeOK, DbType, IdType, MemType, WireType, TaskType, KnownAreStored,
        HandlersKnow, OnStoredPc, SendPc, AttemptPc, ConfirmPc, ReadPc, Stored,
        vars, dbVars, idVars, memVars, wireVars, taskVars, histVars, bounds
<1>1. ASSUME NEW m \in Mid, ConfirmDelivered(t, m) PROVE KnownAreStored'
  BY <1>0, <1>1 DEF ConfirmDelivered, Begin, Request, LoadCache, Goto
<1>2. CASE DRead(t)
  BY <1>0, <1>2 DEF DRead, NotifySender, ToSender, End, Goto
<1>3. CASE DWrite(t)
  BY <1>0, <1>3 DEF DWrite, Goto
<1>4. CASE DMark(t)
  BY <1>0, <1>4 DEF DMark, Goto
<1>5. CASE DFinish(t)
  BY <1>0, <1>5 DEF DFinish, transitionState, advanceMem, NotifySender,
     ToSender, End, Goto, isValidTransition
<1>6. ASSUME NEW m \in Mid, ConfirmRead(t, m) PROVE KnownAreStored'
  BY <1>0, <1>6 DEF ConfirmRead, Begin, Request, LoadCache, Goto
<1>7. CASE RRead(t)
  BY <1>0, <1>7 DEF RRead, End, Goto
<1>8. CASE RWrite(t)
  BY <1>0, <1>8 DEF RWrite, Goto
<1>9. CASE RMark(t)
  BY <1>0, <1>9 DEF RMark, Goto
<1>10. CASE RFinish(t)
  BY <1>0, <1>10 DEF RFinish, forceMarkAsRead, advanceMem, Goto,
     isValidTransition
<1>11. CASE RNotify(t)
  BY <1>0, <1>11 DEF RNotify, NotifySender, ToSender, End, Goto
<1>12. CASE ConfirmDbError(t)
  BY <1>0, <1>12 DEF ConfirmDbError, Fault, End, Goto
<1> HIDE DEF TypeOK, KnownAreStored, HandlersKnow, vars
<1> QED
  BY <1>1, <1>2, <1>3, <1>4, <1>5, <1>6, <1>7, <1>8, <1>9, <1>10, <1>11, <1>12
     DEF ConfirmStep

(* ... replays ... *)
LEMMA ReplayKnown ==
    ASSUME TypeOK, KnownAreStored, HandlersKnow,
           [Next]_vars, NEW t \in Task, ReplayStep(t)
    PROVE  KnownAreStored'
<1>0. Stored \subseteq Stored' /\ issued \subseteq issued' /\ marked \subseteq
   marked' /\ held \subseteq held' /\ claimed \subseteq claimed'
  BY Grows
<1> USE MidAssumption, CmidAssumption
    DEF TypeOK, DbType, IdType, MemType, WireType, TaskType, KnownAreStored,
        HandlersKnow, OnStoredPc, SendPc, AttemptPc, ConfirmPc, ReadPc, Stored,
        vars, dbVars, idVars, memVars, wireVars, taskVars, histVars, bounds
<1>1. ASSUME NEW last \in Mid \cup {NoMid}, NEW kind \in {"resume", "replay"},
   Replay(t, last, kind) PROVE KnownAreStored'
  BY <1>0, <1>1 DEF Replay, Begin, Request, Goto
<1>2. CASE PFetch(t)
  <2>1. UNCHANGED <<dbVars, idVars, memVars, wireVars, out>>
    BY <1>2 DEF PFetch
  <2>2. Undelivered(msg[t]) \subseteq Stored
    BY DEF Undelivered, Window, After
  <2>3. todo' \in [Task -> SUBSET Mid]
           /\ \A u \in Task : todo'[u] \subseteq Stored
    BY <1>2, <2>2 DEF PFetch
  <2> QED
    BY <2>1, <2>3
<1>3. CASE PPick(t)
  BY <1>0, <1>3 DEF PPick, Goto
<1>4. CASE PCheck(t)
  BY <1>0, <1>4 DEF PCheck, Skip, SyncCache, Goto
<1>5. CASE PWrite(t)
  BY <1>0, <1>5 DEF PWrite, Goto
<1>6. CASE PMark(t)
  BY <1>0, <1>6 DEF PMark, Goto
<1>7. CASE PFinish(t)
  BY <1>0, <1>7 DEF PFinish, transitionState, NotifySender, ToSender, Skip,
     Goto
<1>8. CASE PEmit(t)
  BY <1>0, <1>8 DEF PEmit, Fault, EndReplay, End, Goto
<1>9. CASE ReplayTimeout(t)
  BY <1>0, <1>9 DEF ReplayTimeout, Fault
<1>10. CASE ReplayDbError(t)
  BY <1>0, <1>10 DEF ReplayDbError, Fault, EndReplay, End, Skip, SyncCache,
     Goto
<1> HIDE DEF TypeOK, KnownAreStored, HandlersKnow, vars
<1> QED
  BY <1>1, <1>2, <1>3, <1>4, <1>5, <1>6, <1>7, <1>8, <1>9, <1>10 DEF ReplayStep

(* ... and sockets, timers and the process keep it so. *)
LEMMA SocketKnown ==
    ASSUME TypeOK, KnownAreStored, HandlersKnow,
           [Next]_vars, SocketStep
    PROVE  KnownAreStored'
<1>0. Stored \subseteq Stored' /\ issued \subseteq issued' /\ marked \subseteq
   marked' /\ held \subseteq held' /\ claimed \subseteq claimed'
  BY Grows
<1> USE MidAssumption, CmidAssumption
    DEF TypeOK, DbType, IdType, MemType, WireType, TaskType, KnownAreStored,
        HandlersKnow, OnStoredPc, SendPc, AttemptPc, ConfirmPc, ReadPc, Stored,
        vars, dbVars, idVars, memVars, wireVars, taskVars, histVars, bounds
<1>1. ASSUME NEW k \in FrameKind, NEW m \in Mid, Transmit(k, m) PROVE
   KnownAreStored'
  BY <1>0, <1>1 DEF Transmit
<1>2. ASSUME NEW k \in FrameKind, NEW m \in Mid, sendOrFail(k, m) PROVE
   KnownAreStored'
  BY <1>0, <1>2 DEF sendOrFail, Fault
<1>3. ASSUME NEW m \in Mid, MarkFailed(m) PROVE KnownAreStored'
  BY <1>0, <1>3 DEF MarkFailed
<1>4. ASSUME NEW m \in Mid, AckTimeout(m) PROVE KnownAreStored'
  BY <1>0, <1>4 DEF AckTimeout
<1>5. ASSUME NEW p \in Mid, NEW S \in SUBSET Mid, MarkReadUpTo(p, S) PROVE
   KnownAreStored'
  BY <1>0, <1>5 DEF MarkReadUpTo, Request, forceMarkAsRead
<1>6. CASE Connect
  BY <1>0, <1>6 DEF Connect
<1>7. CASE Disconnect
  BY <1>0, <1>7 DEF Disconnect, Fault
<1>8. CASE GraceExpired
  BY <1>0, <1>8 DEF GraceExpired
<1>9. CASE LoadHistory
  BY <1>0, <1>9 DEF LoadHistory, Request
<1>10. CASE Crash
  BY <1>0, <1>10 DEF Crash, Fault
<1> HIDE DEF TypeOK, KnownAreStored, HandlersKnow, vars
<1> QED
  BY <1>1, <1>2, <1>3, <1>4, <1>5, <1>6, <1>7, <1>8, <1>9, <1>10 DEF SocketStep

(* What handlers know of their messages stays true through sends, ... *)
LEMMA SendHandlers ==
    ASSUME TypeOK, KnownAreStored, HandlersKnow,
           [Next]_vars, NEW t \in Task, SendStep(t)
    PROVE  HandlersKnow'
<1>0. Stored \subseteq Stored' /\ issued \subseteq issued' /\ marked \subseteq
   marked' /\ held \subseteq held' /\ claimed \subseteq claimed'
  BY Grows
<1> USE MidAssumption, CmidAssumption
    DEF TypeOK, DbType, IdType, MemType, WireType, TaskType, KnownAreStored,
        HandlersKnow, OnStoredPc, Pc, SendPc, AttemptPc, ConfirmPc, ReadPc, ReplayPc,
        Stored, vars, dbVars, idVars, memVars, wireVars, taskVars, histVars, bounds
<1>1. ASSUME NEW c \in Cmid, AcceptDuplicate(t, c) PROVE HandlersKnow'
  <2>1. UNCHANGED <<dbVars, idVars, memVars, held, claimed>>
    BY <1>1 DEF AcceptDuplicate, Begin, histVars
  <2>2. msg' = [msg EXCEPT ![t] = dedupe[c]] /\ dedupe[c] \in issued
    BY <1>1 DEF AcceptDuplicate, Begin
  <2>3. \/ pc' = [pc EXCEPT ![t] = "lookup"]
        \/ pc' = [pc EXCEPT ![t] = "load"] /\ dedupe[c] \in Stored
    BY <1>1 DEF AcceptDuplicate, Begin, Ack, Goto
  <2> QED
    BY <2>1, <2>2, <2>3
<1>2. ASSUME NEW c \in Key, NEW m \in Mid, AcceptNew(t, c, m) PROVE
   HandlersKnow'
  BY <1>0, <1>2 DEF AcceptNew, Request, Begin, Goto
<1>3. CASE Lookup(t)
  BY <1>0, <1>3 DEF Lookup, Goto
<1>4. CASE Insert(t)
  BY <1>0, <1>4 DEF Insert, Nack, End, Goto
<1>5. CASE CreateDelivery(t)
  BY <1>0, <1>5 DEF CreateDelivery, Goto
<1>6. CASE UpdateSent(t)
  BY <1>0, <1>6 DEF UpdateSent, Nack, End, Goto
<1>7. CASE FinishSend(t)
  BY <1>0, <1>7 DEF FinishSend, Ack, ToSender, Goto
<1>8. CASE SendDbError(t)
  BY <1>0, <1>8 DEF SendDbError, Fault, Nack, End, Goto
<1> HIDE DEF TypeOK, KnownAreStored, HandlersKnow, vars
<1> QED
  BY <1>1, <1>2, <1>3, <1>4, <1>5, <1>6, <1>7, <1>8 DEF SendStep

(* ... delivery attempts, ... *)
LEMMA AttemptHandlers ==
    ASSUME TypeOK, KnownAreStored, HandlersKnow,
           [Next]_vars, NEW t \in Task, AttemptStep(t)
    PROVE  HandlersKnow'
<1>0. Stored \subseteq Stored' /\ issued \subseteq issued' /\ marked \subseteq
   marked' /\ held \subseteq held' /\ claimed \subseteq claimed'
  BY Grows
<1> USE MidAssumption, CmidAssumption
    DEF TypeOK, DbType, IdType, MemType, WireType, TaskType, KnownAreStored,
        HandlersKnow, OnStoredPc, Pc, SendPc, AttemptPc, ConfirmPc, ReadPc, ReplayPc,
        Stored, vars, dbVars, idVars, memVars, wireVars, taskVars, histVars, bounds
<1>1. CASE AttemptLoad(t)
  BY <1>0, <1>1 DEF AttemptLoad, LoadCache, Goto
<1>2. CASE AttemptCheck(t)
  BY <1>0, <1>2 DEF AttemptCheck, ToSender, End, Goto
<1>3. CASE AttemptQueued(t)
  BY <1>0, <1>3 DEF AttemptQueued, transitionState, End, Goto
<1>4. CASE AttemptRefused(t)
  BY <1>0, <1>4 DEF AttemptRefused, Fault, ToSender, End, Goto
<1>5. CASE AttemptDbError(t)
  BY <1>0, <1>5 DEF AttemptDbError, Fault, ToSender, End, Goto
<1> HIDE DEF TypeOK, KnownAreStored, HandlersKnow, vars
<1> QED
  BY <1>1, <1>2, <1>3, <1>4, <1>5 DEF AttemptStep

(* ... confirmations, ... *)
LEMMA ConfirmHandlers ==
    ASSUME TypeOK, KnownAreStored, HandlersKnow,
           [Next]_vars, NEW t \in Task, ConfirmStep(t)
    PROVE  HandlersKnow'
<1>0. Stored \subseteq Stored' /\ issued \subseteq issued' /\ marked \subseteq
   marked' /\ held \subseteq held' /\ claimed \subseteq claimed'
  BY Grows
<1> USE MidAssumption, CmidAssumption
    DEF TypeOK, DbType, IdType, MemType, WireType, TaskType, KnownAreStored,
        HandlersKnow, OnStoredPc, Pc, SendPc, AttemptPc, ConfirmPc, ReadPc, ReplayPc,
        Stored, vars, dbVars, idVars, memVars, wireVars, taskVars, histVars, bounds
<1>1. ASSUME NEW m \in Mid, ConfirmDelivered(t, m) PROVE HandlersKnow'
  BY <1>0, <1>1 DEF ConfirmDelivered, Begin, Request, LoadCache, Goto
<1>2. CASE DRead(t)
  BY <1>0, <1>2 DEF DRead, NotifySender, ToSender, End, Goto
<1>3. CASE DWrite(t)
  BY <1>0, <1>3 DEF DWrite, Goto
<1>4. CASE DMark(t)
  BY <1>0, <1>4 DEF DMark, Goto
<1>5. CASE DFinish(t)
  BY <1>0, <1>5 DEF DFinish, transitionState, advanceMem, NotifySender,
     ToSender, End, Goto, isValidTransition
<1>6. ASSUME NEW m \in Mid, ConfirmRead(t, m) PROVE HandlersKnow'
  BY <1>0, <1>6 DEF ConfirmRead, Begin, Request, LoadCache, Goto
<1>7. CASE RRead(t)
  BY <1>0, <1>7 DEF RRead, End, Goto
<1>8. CASE RWrite(t)
  BY <1>0, <1>8 DEF RWrite, Goto
<1>9. CASE RMark(t)
  BY <1>0, <1>9 DEF RMark, Goto
<1>10. CASE RFinish(t)
  BY <1>0, <1>10 DEF RFinish, forceMarkAsRead, advanceMem, Goto,
     isValidTransition
<1>11. CASE RNotify(t)
  BY <1>0, <1>11 DEF RNotify, NotifySender, ToSender, End, Goto
<1>12. CASE ConfirmDbError(t)
  BY <1>0, <1>12 DEF ConfirmDbError, Fault, End, Goto
<1> HIDE DEF TypeOK, KnownAreStored, HandlersKnow, vars
<1> QED
  BY <1>1, <1>2, <1>3, <1>4, <1>5, <1>6, <1>7, <1>8, <1>9, <1>10, <1>11, <1>12
     DEF ConfirmStep

(* ... replays ... *)
LEMMA ReplayHandlers ==
    ASSUME TypeOK, KnownAreStored, HandlersKnow,
           [Next]_vars, NEW t \in Task, ReplayStep(t)
    PROVE  HandlersKnow'
<1>0. Stored \subseteq Stored' /\ issued \subseteq issued' /\ marked \subseteq
   marked' /\ held \subseteq held' /\ claimed \subseteq claimed'
  BY Grows
<1> USE MidAssumption, CmidAssumption
    DEF TypeOK, DbType, IdType, MemType, WireType, TaskType, KnownAreStored,
        HandlersKnow, OnStoredPc, Pc, SendPc, AttemptPc, ConfirmPc, ReadPc, ReplayPc,
        Stored, vars, dbVars, idVars, memVars, wireVars, taskVars, histVars, bounds
<1>1. ASSUME NEW last \in Mid \cup {NoMid}, NEW kind \in {"resume", "replay"},
   Replay(t, last, kind) PROVE HandlersKnow'
  BY <1>0, <1>1 DEF Replay, Begin, Request, Goto
<1>2. CASE PFetch(t)
  BY <1>0, <1>2 DEF PFetch, Fault, Goto, Undelivered, Window, After
<1>3. CASE PPick(t)
  BY <1>0, <1>3 DEF PPick, Goto
<1>4. CASE PCheck(t)
  BY <1>0, <1>4 DEF PCheck, Skip, SyncCache, Goto
<1>5. CASE PWrite(t)
  BY <1>0, <1>5 DEF PWrite, Goto
<1>6. CASE PMark(t)
  BY <1>0, <1>6 DEF PMark, Goto
<1>7. CASE PFinish(t)
  BY <1>0, <1>7 DEF PFinish, transitionState, NotifySender, ToSender, Skip,
     Goto
<1>8. CASE PEmit(t)
  BY <1>0, <1>8 DEF PEmit, Fault, EndReplay, End, Goto
<1>9. CASE ReplayTimeout(t)
  BY <1>0, <1>9 DEF ReplayTimeout, Fault
<1>10. CASE ReplayDbError(t)
  BY <1>0, <1>10 DEF ReplayDbError, Fault, EndReplay, End, Skip, SyncCache,
     Goto
<1> HIDE DEF TypeOK, KnownAreStored, HandlersKnow, vars
<1> QED
  BY <1>1, <1>2, <1>3, <1>4, <1>5, <1>6, <1>7, <1>8, <1>9, <1>10 DEF ReplayStep

(* ... and what happens to sockets, timers and the process. *)
LEMMA SocketHandlers ==
    ASSUME TypeOK, KnownAreStored, HandlersKnow,
           [Next]_vars, SocketStep
    PROVE  HandlersKnow'
<1>0. Stored \subseteq Stored' /\ issued \subseteq issued' /\ marked \subseteq
   marked' /\ held \subseteq held' /\ claimed \subseteq claimed'
  BY Grows
<1> USE MidAssumption, CmidAssumption
    DEF TypeOK, DbType, IdType, MemType, WireType, TaskType, KnownAreStored,
        HandlersKnow, OnStoredPc, Pc, SendPc, AttemptPc, ConfirmPc, ReadPc, ReplayPc,
        Stored, vars, dbVars, idVars, memVars, wireVars, taskVars, histVars, bounds
<1>1. ASSUME NEW k \in FrameKind, NEW m \in Mid, Transmit(k, m) PROVE
   HandlersKnow'
  BY <1>0, <1>1 DEF Transmit
<1>2. ASSUME NEW k \in FrameKind, NEW m \in Mid, sendOrFail(k, m) PROVE
   HandlersKnow'
  BY <1>0, <1>2 DEF sendOrFail, Fault
<1>3. ASSUME NEW m \in Mid, MarkFailed(m) PROVE HandlersKnow'
  BY <1>0, <1>3 DEF MarkFailed
<1>4. ASSUME NEW m \in Mid, AckTimeout(m) PROVE HandlersKnow'
  BY <1>0, <1>4 DEF AckTimeout
<1>5. ASSUME NEW p \in Mid, NEW S \in SUBSET Mid, MarkReadUpTo(p, S) PROVE
   HandlersKnow'
  BY <1>0, <1>5 DEF MarkReadUpTo, Request, forceMarkAsRead
<1>6. CASE Connect
  BY <1>0, <1>6 DEF Connect
<1>7. CASE Disconnect
  BY <1>0, <1>7 DEF Disconnect, Fault
<1>8. CASE GraceExpired
  BY <1>0, <1>8 DEF GraceExpired
<1>9. CASE LoadHistory
  BY <1>0, <1>9 DEF LoadHistory, Request
<1>10. CASE Crash
  BY <1>0, <1>10 DEF Crash, Fault
<1> HIDE DEF TypeOK, KnownAreStored, HandlersKnow, vars
<1> QED
  BY <1>1, <1>2, <1>3, <1>4, <1>5, <1>6, <1>7, <1>8, <1>9, <1>10 DEF SocketStep

(* Client ids are given once, and only to ids without a row: the client id *)
(* of a stored message never changes.                                      *)
LEMMA ClientIdsAreFixed ==
    ASSUME TypeOK, KnownAreStored, [Next]_vars
    PROVE  \A m \in Stored : cmidOf'[m] = cmidOf[m]
<1> USE DEF TypeOK, IdType, vars, idVars
<1>0. Stored \subseteq issued
  BY DEF KnownAreStored
<1>1. ASSUME NEW t \in Task, SendStep(t)
      PROVE  \/ UNCHANGED cmidOf
             \/ \E c \in Key, m \in Mid : AcceptNew(t, c, m)
  BY <1>1 DEF SendStep, AcceptDuplicate, Lookup, Insert, CreateDelivery,
     UpdateSent, FinishSend, SendDbError
<1>2. ASSUME NEW t \in Task, AttemptStep(t) \/ ConfirmStep(t)
      PROVE  UNCHANGED cmidOf
  BY <1>2 DEF AttemptStep, AttemptLoad, AttemptCheck, AttemptQueued,
     AttemptRefused, AttemptDbError, ConfirmStep, ConfirmDelivered, DRead,
     DWrite, DMark, DFinish, ConfirmRead, RRead, RWrite, RMark, RFinish,
     RNotify, ConfirmDbError
<1>3. ASSUME NEW t \in Task, ReplayStep(t) PROVE UNCHANGED cmidOf
  BY <1>3 DEF ReplayStep, Replay, PFetch, PPick, PCheck, PWrite, PMark,
     PFinish, PEmit, ReplayTimeout, ReplayDbError
<1>4. ASSUME SocketStep PROVE UNCHANGED cmidOf
  BY <1>4 DEF SocketStep, Transmit, sendOrFail, MarkFailed, AckTimeout,
     MarkReadUpTo, Connect, Disconnect, GraceExpired, LoadHistory, Crash
<1>5. ASSUME NEW t \in Task, NEW c \in Key, NEW m \in Mid, AcceptNew(t, c, m)
      PROVE  \A k \in Stored : cmidOf'[k] = cmidOf[k]
  BY <1>0, <1>5 DEF AcceptNew
<1>6. UNCHANGED cmidOf \/ \A k \in Stored : cmidOf'[k] = cmidOf[k]
  BY <1>1, <1>2, <1>3, <1>4, <1>5 DEF Next
<1> QED
  BY <1>6

(* Only an insert that found its client id free adds a row. *)
LEMMA StoredSteps ==
    ASSUME TypeOK, KnownAreStored, HandlersKnow, [Next]_vars
    PROVE  \/ Stored' = Stored
           \/ \E m \in Mid : ~DuplicateKey(m) /\ cmidOf' = cmidOf
                                 /\ Stored' = Stored \cup {m}
<1> DEFINE Goal == \/ Stored' = Stored
                   \/ \E m \in Mid : ~DuplicateKey(m) /\ cmidOf' = cmidOf
                                         /\ Stored' = Stored \cup {m}
<1> USE DEF Stored, RowState
<1>0. row \in [Mid -> RowState]
  BY DEF TypeOK, DbType
<1>1. ASSUME UNCHANGED row PROVE Goal
  BY <1>1
<1>2. ASSUME NEW t \in Task, Insert(t) \/ SendDbError(t) PROVE Goal
  <2>1. msg[t] \in Mid \/ UNCHANGED row
    BY <1>2 DEF Insert, SendDbError, TypeOK, TaskType
  <2>2. \/ UNCHANGED row
        \/ ~DuplicateKey(msg[t]) /\ row' = [row EXCEPT ![msg[t]] = "sent"]
    BY <1>2 DEF Insert, SendDbError
  <2>3. cmidOf' = cmidOf
    BY <1>2 DEF Insert, SendDbError, idVars
  <2> QED
    BY <1>0, <2>1, <2>2, <2>3
<1>3. ASSUME NEW t \in Task, UpdateSent(t) PROVE Goal
  <2>1. row' = row \/ /\ row[msg[t]] # "none"
                      /\ row' = [row EXCEPT ![msg[t]] = "sent"]
    BY <1>3 DEF UpdateSent
  <2> QED
    BY <1>0, <2>1
<1>4. ASSUME NEW t \in Task, DWrite(t) \/ RWrite(t) \/ PWrite(t) PROVE Goal
  <2>1. row[msg[t]] # "none"
    BY <1>4 DEF DWrite, RWrite, PWrite, HandlersKnow, OnStoredPc, ConfirmPc,
       ReadPc
  <2>2. PICK s \in RowState \ {"none"} : row' = [row EXCEPT ![msg[t]] = s]
    BY <1>4 DEF DWrite, RWrite, PWrite
  <2> QED
    BY <1>0, <2>1, <2>2
<1>5. ASSUME NEW m \in Mid, MarkFailed(m) PROVE Goal
  <2>1. m \in Stored
    BY <1>5 DEF MarkFailed, KnownAreStored
  <2> QED
    BY <1>0, <1>5, <2>1 DEF MarkFailed
<1> QED
  BY <1>1, <1>2, <1>3, <1>4, <1>5, RowWriters

(* No step gives two rows one client id. *)
LEMMA UniqueStep ==
    ASSUME TypeOK, KnownAreStored, HandlersKnow, RowsAreUnique, [Next]_vars
    PROVE  RowsAreUnique'
<1>1. CASE Stored' = Stored
  BY <1>1, ClientIdsAreFixed DEF RowsAreUnique
<1>2. ASSUME NEW m \in Mid, ~DuplicateKey(m), cmidOf' = cmidOf,
             Stored' = Stored \cup {m}
      PROVE  RowsAreUnique'
  BY <1>2 DEF RowsAreUnique, DuplicateKey
<1> QED
  BY <1>1, <1>2, StoredSteps

(* Every ACK names a row with the acknowledged client id, and no later     *)
(* step can change that.                                                   *)
LEMMA AckStep ==
    ASSUME TypeOK, KnownAreStored, HandlersKnow, AckNamesStoredRow,
           [Next]_vars
    PROVE  AckNamesStoredRow'
<1> USE DEF AckNamesStoredRow
<1>0. \A a \in acks : a[2] \in Stored
  BY DEF TypeOK, HistType, Stored
<1>1. \A a \in acks : a[2] \in Stored' /\ cmidOf'[a[2]] = a[1]
  BY <1>0, Grows, ClientIdsAreFixed
<1>2. \A a \in acks' : a \in acks \/ \E m \in Stored : a = <<cmidOf[m], m>>
  <2>1. ASSUME NEW t \in Task, NEW c \in Cmid, AcceptDuplicate(t, c)
        PROVE  acks' = acks \/ \E m \in Stored : acks' = acks \cup {<<cmidOf[m], m>>}
    <3>1. dedupe[c] \in Mid
      BY <2>1 DEF AcceptDuplicate, TypeOK, MemType
    <3>2. CASE mem[dedupe[c]] \in {"sent", "delivered", "read"}
      BY <2>1, <3>1, <3>2 DEF AcceptDuplicate, Ack, KnownAreStored
    <3>3. CASE mem[dedupe[c]] \notin {"sent", "delivered", "read"}
      BY <2>1, <3>3 DEF AcceptDuplicate, histVars
    <3> QED
      BY <3>2, <3>3
  <2>2. ASSUME NEW t \in Task, FinishSend(t)
        PROVE  \E m \in Stored : acks' = acks \cup {<<cmidOf[m], m>>}
    BY <2>2 DEF FinishSend, Ack, HandlersKnow, OnStoredPc
  <2> QED
    BY <2>1, <2>2, AckWriters
<1>3. \A m \in Stored : m \in Stored' /\ cmidOf'[m] = cmidOf[m]
  BY Grows, ClientIdsAreFixed
<1>4. \A a \in acks' : a[2] \in Stored' /\ cmidOf'[a[2]] = a[1]
  BY <1>1, <1>2, <1>3
<1> QED
  BY <1>4 DEF Stored

(* A mark, a state of a row, a record or a cached state that makes replay  *)
(* pass over a message always has a cause: the recipient's client holds it,*)
(* a replay claimed it or POST mark-read forced it.                        *)
LEMMA PassedOverStep ==
    ASSUME TypeOK, KnownAreStored, HandlersKnow, RecordBehindDeliveries,
           PassedOverIsExplained, [Next]_vars
    PROVE  PassedOverIsExplained'
<1> DEFINE Explained(m) == m \in held \cup claimed \cup forced
<1>0. ASSUME NEW m \in Mid, Explained(m) PROVE Explained(m)'
  BY <1>0, Grows
<1>1. \A m \in marked' : Explained(m)'
  <2>1. \A m \in marked : Explained(m)
    BY DEF PassedOverIsExplained, PassedOver, TypeOK, DbType
  <2>2. ASSUME NEW t \in Task, DMark(t) \/ RMark(t) \/ PMark(t)
        PROVE  marked' = marked \cup {msg[t]} /\ Explained(msg[t]) /\ msg[t] \in Mid
    BY <2>2 DEF DMark, RMark, PMark, HandlersKnow, ConfirmPc, ReadPc, TypeOK,
       TaskType
  <2> HIDE DEF Explained
  <2> QED
    BY <1>0, <2>1, <2>2, MarkWriters DEF TypeOK, DbType
<1>2. \A m \in Mid : row'[m] \in {"delivered", "read"} => Explained(m)'
  <2>1. \A m \in Mid : row[m] \in {"delivered", "read"} => Explained(m)
    BY DEF PassedOverIsExplained, PassedOver
  <2>2. row \in [Mid -> RowState]
    BY DEF TypeOK, DbType
  <2>3. ASSUME NEW t \in Task, Insert(t) \/ UpdateSent(t) \/ SendDbError(t)
        PROVE  row' = row \/ row' = [row EXCEPT ![msg[t]] = "sent"]
    BY <2>3 DEF Insert, UpdateSent, SendDbError
  <2>4. ASSUME NEW t \in Task, DWrite(t) \/ RWrite(t)
        PROVE  /\ msg[t] \in held
               /\ \A m \in Mid : m # msg[t] => row'[m] = row[m]
    BY <2>2, <2>4 DEF DWrite, RWrite, HandlersKnow, ConfirmPc, ReadPc
  <2>5. ASSUME NEW t \in Task, PWrite(t)
        PROVE  /\ msg[t] \in claimed'
               /\ \A m \in Mid : m # msg[t] => row'[m] = row[m]
    BY <2>2, <2>5 DEF PWrite
  <2>6. ASSUME NEW m \in Mid, MarkFailed(m)
        PROVE  row' = [row EXCEPT ![m] = "FAILED"]
    BY <2>6 DEF MarkFailed
  <2> QED
    BY <1>0, <2>1, <2>2, <2>3, <2>4, <2>5, <2>6, RowWriters, Grows
<1>3. \A m \in Mid : cache'[m] \in {"delivered", "read"} => Explained(m)'
  <2>1. \A m \in Mid : cache[m] \in {"delivered", "read"} => Explained(m)
    BY DEF PassedOverIsExplained, PassedOver
  <2>2. \A m \in Mid : row[m] \in {"delivered", "read"} => Explained(m)
    BY DEF PassedOverIsExplained, PassedOver
  <2>3. cache \in [Mid -> RowState]
    BY DEF TypeOK, MemType
  <2>4. ASSUME NEW k, LoadCache(k) \/ SyncCache(k)
        PROVE  \A m \in Mid : cache'[m] \in {"sent", cache[m], row[m]}
    BY <2>3, <2>4 DEF LoadCache, SyncCache
  <2>5. ASSUME NEW t \in Task, PFinish(t)
        PROVE  /\ Explained(msg[t])
               /\ \A m \in Mid : m # msg[t] => cache'[m] = cache[m]
    BY <2>3, <2>5 DEF PFinish, HandlersKnow
  <2>6. ASSUME Crash PROVE \A m \in Mid : cache'[m] = "none"
    BY <2>6 DEF Crash
  <2> HIDE DEF Explained
  <2> QED
    BY <1>0, <2>1, <2>2, <2>4, <2>5, <2>6, CacheWriters
<1>4. \A m \in Mid : record'[m] \in {"DELIVERED", "READ"} => Explained(m)'
  BY <1>1, BehindDeliveriesStep DEF RecordBehindDeliveries
<1> QED
  BY <1>1, <1>2, <1>3, <1>4 DEF PassedOverIsExplained, PassedOver

(* No step tells the sender of a state the message has not reached. *)
LEMMA ReceiptsStep ==
    ASSUME TypeOK, KnownAreStored, HandlersKnow, PassedOverIsExplained,
           ReceiptsAreHonest, [Next]_vars
    PROVE  ReceiptsAreHonest'
<1> DEFINE Honest(n) == n[1] \in held \/ (n[2] = "delivered" /\ n[1] \in claimed)
<1>0. ASSUME NEW n, Honest(n) PROVE Honest(n)'
  BY <1>0, Grows
<1>1. \A n \in told : Honest(n)
  BY DEF ReceiptsAreHonest
<1>2. ASSUME NEW t \in Task, DRead(t) \/ DFinish(t) \/ RNotify(t)
      PROVE  \A n \in told' : n \in told \/ n[1] \in held
  <2>1. msg[t] \in held
    BY <1>2 DEF DRead, DFinish, RNotify, HandlersKnow, ConfirmPc, ReadPc
  <2> QED
    BY <1>2, <2>1 DEF DRead, DFinish, RNotify, NotifySender
<1>3. ASSUME NEW t \in Task, PFinish(t)
      PROVE  \A n \in told' : n \in told \/ n = <<msg[t], "delivered">>
  BY <1>3 DEF PFinish, NotifySender
<1>4. ASSUME NEW t \in Task, PFinish(t) PROVE msg[t] \in claimed
  BY <1>4 DEF PFinish, HandlersKnow
<1>5. \A n \in told' : Honest(n)'
  BY <1>0, <1>1, <1>2, <1>3, <1>4, ToldWriters
<1> QED
  BY <1>5 DEF ReceiptsAreHonest

-----------------------------------------------------------------------------
(* The inductive invariant and the theorems *)

(* IInv holds initially. *)
LEMMA InitInv == Init => IInv
<1> SUFFICES ASSUME Init PROVE IInv
  OBVIOUS
<1>1. TypeOK
  BY InitType
<1>2. KnownAreStored /\ HandlersKnow
  BY DEF Init, KnownAreStored, HandlersKnow, Stored, SendPc, OnStoredPc,
     AttemptPc, ConfirmPc, ReadPc
<1>3. RowsAreUnique /\ PassedOverIsExplained
  BY DEF Init, RowsAreUnique, PassedOverIsExplained, PassedOver, Stored
<1>4. AckNamesStoredRow /\ RecordBehindDeliveries /\ SentIsWatched
         /\ ReceiptsAreHonest
  BY DEF Init, AckNamesStoredRow, RecordBehindDeliveries, SentIsWatched,
     ReceiptsAreHonest
<1> QED
  BY <1>1, <1>2, <1>3, <1>4 DEF IInv

(* Every step preserves IInv. *)
LEMMA NextInv == IInv /\ [Next]_vars => IInv'
<1> SUFFICES ASSUME IInv, [Next]_vars PROVE IInv'
  OBVIOUS
<1> USE DEF IInv
<1>1. TypeOK'
  BY NextType
<1>2. KnownAreStored'
  <2>1. ASSUME NEW t \in Task,
               SendStep(t) \/ AttemptStep(t) \/ ConfirmStep(t) \/ ReplayStep(t)
        PROVE  KnownAreStored'
    BY <2>1, SendKnown, AttemptKnown, ConfirmKnown, ReplayKnown
  <2>2. CASE SocketStep
    BY <2>2, SocketKnown
  <2>3. CASE UNCHANGED vars
    BY <2>3 DEF KnownAreStored, Stored, vars, dbVars, idVars, memVars,
       wireVars, taskVars
  <2> QED
    BY <2>1, <2>2, <2>3 DEF Next
<1>3. HandlersKnow'
  <2>1. ASSUME NEW t \in Task,
               SendStep(t) \/ AttemptStep(t) \/ ConfirmStep(t) \/ ReplayStep(t)
        PROVE  HandlersKnow'
    BY <2>1, SendHandlers, AttemptHandlers, ConfirmHandlers, ReplayHandlers
  <2>2. CASE SocketStep
    BY <2>2, SocketHandlers
  <2>3. CASE UNCHANGED vars
    BY <2>3 DEF HandlersKnow, Stored, vars, dbVars, idVars, wireVars, taskVars,
       histVars
  <2> QED
    BY <2>1, <2>2, <2>3 DEF Next
<1>4. RowsAreUnique' /\ PassedOverIsExplained'
  BY UniqueStep, PassedOverStep
<1>5. AckNamesStoredRow' /\ RecordBehindDeliveries' /\ SentIsWatched'
         /\ ReceiptsAreHonest'
  BY AckStep, BehindDeliveriesStep, WatchedStep, ReceiptsStep
<1> QED
  BY <1>1, <1>2, <1>3, <1>4, <1>5

(* IInv is an invariant of the specification. *)
THEOREM Invariance == Spec => []IInv
  BY InitInv, NextInv, PTL DEF Spec

(* A MESSAGE_ACK only ever names a message whose row exists and carries the*)
(* acknowledged clientMessageId, now and ever after: persistence comes     *)
(* before the ACK, rows are not deleted and client ids do not move.        *)
THEOREM AcksAreDurable == Spec => []AckNamesStoredRow
<1>1. IInv => AckNamesStoredRow
  BY DEF IInv
<1> QED
  BY <1>1, Invariance, PTL

(* However often a clientMessageId is sent, by handlers side by side or    *)
(* across restarts, all its ACKs name one message: the unique index does   *)
(* what the in-memory map, which a restart empties, cannot.                *)
THEOREM SendsAreIdempotent == Spec => []OneIdPerClientId
<1>1. IInv => OneIdPerClientId
  <2> SUFFICES ASSUME IInv, NEW a \in acks, NEW b \in acks, a[1] = b[1]
               PROVE  a[2] = b[2]
    BY DEF OneIdPerClientId
  <2>1. a[2] \in Stored /\ b[2] \in Stored
    BY DEF IInv, TypeOK, HistType, AckNamesStoredRow, Stored
  <2>2. cmidOf[a[2]] = cmidOf[b[2]]
    BY DEF IInv, AckNamesStoredRow
  <2> QED
    BY <2>1, <2>2 DEF IInv, RowsAreUnique
<1> QED
  BY <1>1, Invariance, PTL

(* The in-memory delivery record never runs ahead of the deliveries        *)
(* collection, but for POST mark-read, which writes memory only.           *)
THEOREM RecordsFollowDeliveries == Spec => []RecordBehindDeliveries
<1>1. IInv => RecordBehindDeliveries
  BY DEF IInv
<1> QED
  BY <1>1, Invariance, PTL

(* A record in SENT has its ACK timeout armed or its failure recorded, and *)
(* no timeout outlives the SENT state.                                     *)
THEOREM SentRecordsAreWatched == Spec => []SentIsWatched
<1>1. IInv => SentIsWatched
  BY DEF IInv
<1> QED
  BY <1>1, Invariance, PTL

(* The sender is told "read" only of a message the recipient's client      *)
(* holds, "delivered" only of one it holds or a replay claimed.            *)
THEOREM SenderIsToldTheTruth == Spec => []ReceiptsAreHonest
<1>1. IInv => ReceiptsAreHonest
  BY DEF IInv
<1> QED
  BY <1>1, Invariance, PTL

(* The rows before a message in any set of rows are finitely many.         *)
LEMMA RowsBefore ==
  ASSUME NEW m \in Mid, NEW S \in SUBSET Mid
  PROVE  Cardinality(Before(m, S)) \in Nat
<1>1. m \in Nat /\ S \subseteq Nat
  BY MidAssumption
<1>2. IsFiniteSet(0..m)
  BY <1>1, FS_Interval
<1>3. \A k \in Before(m, S) : k \in 0..m
  BY <1>1 DEF Before
<1> DEFINE B == Before(m, S)
<1>4. B \subseteq 0..m
  BY <1>3
<1> HIDE DEF B
<1>5. IsFiniteSet(B)
  BY <1>2, <1>4, FS_Subset
<1>6. Cardinality(B) \in Nat
  BY <1>5, FS_CardinalityType
<1> QED
  BY <1>6 DEF B

(* From whatever cursor the client sends, a replay delivers a stored       *)
(* message the client does not hold, unless a replay has claimed it before *)
(* emitting it, POST mark-read has forced it, the cursor has passed it, or *)
(* as many rows as the query may return come before it.                    *)
THEOREM UnheldStaysReplayable == Spec => []UnheldIsReplayable
<1>1. IInv => UnheldIsReplayable
  <2> SUFFICES ASSUME IInv, NEW last \in Cursors, NEW m \in Stored \ held,
                      m \notin claimed \cup forced,
                      ~(last # NoMid /\ m < last),
                      ~(ReplayLimit <= Cardinality(Before(m, After(last))))
               PROVE  Replays(last, m)
    BY DEF UnheldIsReplayable
  <2>1. m \in Mid /\ After(last) \in SUBSET Mid /\ held \subseteq Mid
    BY DEF Stored, After, IInv, KnownAreStored
  <2>2. m \in After(last)
    <3>1. CASE last = NoMid
      BY <3>1 DEF After
    <3>2. CASE last # NoMid
      <4>1. last \in held
        BY <3>2 DEF Cursors
      <4>2. last \in Nat /\ m \in Nat /\ m # last
        BY <2>1, <4>1, MidAssumption
      <4> QED BY <3>2, <4>2 DEF After
    <3> QED BY <3>1, <3>2
  <2>3. Cardinality(Before(m, After(last))) < ReplayLimit
    BY <2>1, RowsBefore, LimitAssumption
  <2>4. ~PassedOver(m)
    BY <2>1 DEF IInv, PassedOverIsExplained
  <2> QED BY <2>2, <2>3, <2>4 DEF Replays, Undelivered, Window, PassedOver, isPendingReplay
<1> QED
  BY <1>1, Invariance, PTL

(* Between two restarts a delivery record only moves forward. *)
THEOREM RecordsMoveForward == Spec => RecordNeverRegresses
<1>1. IInv /\ [Next]_vars =>
         [\A m \in Mid : record'[m] # "none" => Rank(record[m]) <= Rank(record'[m])]_vars
  BY RecordForward DEF IInv
<1> QED
  BY <1>1, Invariance, PTL DEF Spec, RecordNeverRegresses

-----------------------------------------------------------------------------
(* MessageLifecycle implements MessageContract *)

(* The actions that change what the contract sees. *)
LEMMA ContractWriters ==
    ASSUME [Next]_vars
    PROVE  \/ UNCHANGED <<row, acks, marked, held, told>>
           \/ \E t \in Task : Insert(t) \/ SendDbError(t)
           \/ \E t \in Task : UpdateSent(t) \/ DWrite(t) \/ RWrite(t) \/ PWrite(t)
           \/ \E t \in Task, c \in Cmid : AcceptDuplicate(t, c)
           \/ \E t \in Task : FinishSend(t)
           \/ \E t \in Task : DMark(t) \/ RMark(t) \/ PMark(t)
           \/ \E t \in Task : DRead(t) \/ DFinish(t) \/ RNotify(t) \/ PFinish(t)
           \/ \E k \in FrameKind, m \in Mid : Transmit(k, m)
           \/ \E m \in Mid : MarkFailed(m)
           \/ LoadHistory
<1> USE DEF vars, dbVars, wireVars, histVars
<1>1. ASSUME NEW t \in Task, SendStep(t)
      PROVE  \/ UNCHANGED <<row, acks, marked, held, told>>
             \/ Insert(t) \/ SendDbError(t) \/ UpdateSent(t) \/ FinishSend(t)
             \/ \E c \in Cmid : AcceptDuplicate(t, c)
  BY <1>1 DEF SendStep, AcceptNew, Lookup, CreateDelivery
<1>2. ASSUME NEW t \in Task, AttemptStep(t)
      PROVE  UNCHANGED <<row, acks, marked, held, told>>
  BY <1>2 DEF AttemptStep, AttemptLoad, AttemptCheck, AttemptQueued,
     AttemptRefused, AttemptDbError
<1>3. ASSUME NEW t \in Task, ConfirmStep(t)
      PROVE  \/ UNCHANGED <<row, acks, marked, held, told>>
             \/ DRead(t) \/ DWrite(t) \/ DMark(t) \/ DFinish(t)
             \/ RWrite(t) \/ RMark(t) \/ RNotify(t)
  BY <1>3 DEF ConfirmStep, ConfirmDelivered, ConfirmRead, RRead, RFinish,
     ConfirmDbError
<1>4. ASSUME NEW t \in Task, ReplayStep(t)
      PROVE  \/ UNCHANGED <<row, acks, marked, held, told>>
             \/ PWrite(t) \/ PMark(t) \/ PFinish(t)
  BY <1>4 DEF ReplayStep, Replay, PFetch, PPick, PCheck, PEmit,
     ReplayTimeout, ReplayDbError
<1>5. CASE SocketStep
  BY <1>5 DEF SocketStep, sendOrFail, AckTimeout, MarkReadUpTo, Connect,
     Disconnect, GraceExpired, Crash
<1> QED
  BY <1>1, <1>2, <1>3, <1>4, <1>5 DEF Next

(* Every step stores one message, acknowledges one, marks one delivered,   *)
(* lets the recipient receive some, gives one receipt, or changes nothing  *)
(* the contract sees.                                                      *)
LEMMA ContractStep ==
    ASSUME IInv, [Next]_vars
    PROVE  [Contract!CNext]_(Contract!cvars)
<1> DEFINE pairs == {<<cmidOf[m], m>> : m \in Stored}
           receipts == {m \in Mid : <<m, "read">> \in told}
<1> USE DEF Contract!cvars
<1>1. /\ TypeOK /\ KnownAreStored /\ HandlersKnow /\ RowsAreUnique
      /\ row \in [Mid -> RowState] /\ cmidOf \in [Mid -> Key]
  BY DEF IInv, TypeOK, DbType, IdType
<1>2. \A m \in Stored : cmidOf'[m] = cmidOf[m]
  BY <1>1, ClientIdsAreFixed
<1>3. Contract!StoredIds = Stored
  <2>1. \A m \in Stored : <<cmidOf[m], m>> \in pairs /\ <<cmidOf[m], m>>[2] = m
    OBVIOUS
  <2>2. \A s \in pairs : s[2] \in Stored
    OBVIOUS
  <2>3. Contract!StoredIds = {s[2] : s \in pairs}
    BY DEF Contract!StoredIds
  <2> HIDE DEF pairs
  <2> QED
    BY <2>1, <2>2, <2>3
<1>4. Stored' = Stored => pairs' = pairs
  BY <1>2
<1>5. CASE UNCHANGED <<row, acks, marked, held, told>>
  BY <1>4, <1>5 DEF Stored
<1>6. ASSUME NEW t \in Task, Insert(t) \/ SendDbError(t)
      PROVE  [Contract!CNext]_(Contract!cvars)
  <2>1. UNCHANGED <<acks, marked, held, told, cmidOf>>
    BY <1>6 DEF Insert, SendDbError, idVars, wireVars
  <2>2. \/ UNCHANGED row
        \/ ~DuplicateKey(msg[t]) /\ row' = [row EXCEPT ![msg[t]] = "sent"]
    BY <1>6 DEF Insert, SendDbError
  <2>3. msg[t] \in Mid
    BY <1>1, <1>6 DEF Insert, SendDbError, TypeOK, TaskType
  <2>4. CASE UNCHANGED row
    BY <1>4, <2>1, <2>4 DEF Stored
  <2>5. CASE ~DuplicateKey(msg[t]) /\ row' = [row EXCEPT ![msg[t]] = "sent"]
    <3>1. Stored' = Stored \cup {msg[t]}
      BY <1>1, <2>3, <2>5 DEF Stored
    <3>2. pairs' = pairs \cup {<<cmidOf[msg[t]], msg[t]>>}
      BY <2>1, <3>1
    <3>3. msg[t] \notin Stored /\ \A s \in pairs : s[1] # cmidOf[msg[t]]
      BY <2>5 DEF DuplicateKey
    <3>4. PICK m \in Mid, c \in Cmid \cup {NoCmid} :
             m = msg[t] /\ c = cmidOf[msg[t]]
      BY <1>1, <2>3 DEF Key
    <3>5. Contract!Store(c, m)
      BY <1>3, <2>1, <3>2, <3>3, <3>4 DEF Contract!Store
    <3> QED
      BY <3>5 DEF Contract!CNext
  <2> QED
    BY <2>2, <2>4, <2>5
<1>7. ASSUME \/ \E t \in Task : \/ UpdateSent(t) \/ DWrite(t)
                                \/ RWrite(t) \/ PWrite(t)
             \/ \E m \in Mid : MarkFailed(m)
      PROVE  [Contract!CNext]_(Contract!cvars)
  <2>1. UNCHANGED <<acks, marked, held, told, cmidOf>>
    BY <1>7 DEF UpdateSent, DWrite, RWrite, PWrite, MarkFailed, idVars,
       wireVars, histVars
  <2>2. ASSUME NEW t \in Task, UpdateSent(t) \/ DWrite(t) \/ RWrite(t) \/ PWrite(t)
        PROVE  Stored' = Stored
    <3>1. row[msg[t]] # "none" \/ UNCHANGED row
      BY <1>1, <2>2 DEF UpdateSent, DWrite, RWrite, PWrite, HandlersKnow,
         OnStoredPc, ConfirmPc, ReadPc, Stored
    <3>2. PICK s \in {"sent", "delivered", "read"} :
             UNCHANGED row \/ row' = [row EXCEPT ![msg[t]] = s]
      BY <2>2 DEF UpdateSent, DWrite, RWrite, PWrite
    <3> QED
      BY <1>1, <3>1, <3>2 DEF Stored
  <2>3. ASSUME NEW m \in Mid, MarkFailed(m) PROVE Stored' = Stored
    BY <1>1, <2>3 DEF MarkFailed, KnownAreStored, Stored
  <2>4. Stored' = Stored
    BY <1>7, <2>2, <2>3
  <2> QED
    BY <1>4, <2>1, <2>4
<1>8. ASSUME NEW m \in Stored, UNCHANGED <<row, cmidOf, marked, held, told>>,
             acks' = acks \cup {<<cmidOf[m], m>>}
      PROVE  [Contract!CNext]_(Contract!cvars)
  <2>1. pairs' = pairs /\ <<cmidOf[m], m>> \in pairs
    BY <1>8 DEF Stored
  <2>2. Contract!Acknowledge(cmidOf[m], m)
    BY <1>8, <2>1 DEF Contract!Acknowledge
  <2> QED
    BY <1>1, <2>2 DEF Contract!CNext, Key, Stored
<1>9. ASSUME NEW t \in Task, NEW c \in Cmid, AcceptDuplicate(t, c)
      PROVE  [Contract!CNext]_(Contract!cvars)
  <2>1. dedupe[c] \in Mid
    BY <1>1, <1>9 DEF AcceptDuplicate, TypeOK, MemType
  <2>2. CASE mem[dedupe[c]] \in {"sent", "delivered", "read"}
    <3>1. dedupe[c] \in Stored
      BY <1>1, <2>1, <2>2 DEF KnownAreStored
    <3>2. /\ UNCHANGED <<row, cmidOf, marked, held, told>>
          /\ acks' = acks \cup {<<cmidOf[dedupe[c]], dedupe[c]>>}
      BY <1>9, <2>2 DEF AcceptDuplicate, Ack, dbVars, idVars
    <3> QED
      BY <1>8, <3>1, <3>2
  <2>3. CASE mem[dedupe[c]] \notin {"sent", "delivered", "read"}
    BY <1>5, <1>9, <2>3 DEF AcceptDuplicate, dbVars, wireVars, histVars
  <2> QED
    BY <2>2, <2>3
<1>10. ASSUME NEW t \in Task, FinishSend(t)
       PROVE  [Contract!CNext]_(Contract!cvars)
  <2>1. msg[t] \in Stored
    BY <1>1, <1>10 DEF FinishSend, HandlersKnow, OnStoredPc
  <2>2. /\ UNCHANGED <<row, cmidOf, marked, held, told>>
        /\ acks' = acks \cup {<<cmidOf[msg[t]], msg[t]>>}
    BY <1>10 DEF FinishSend, Ack, dbVars, idVars
  <2> QED
    BY <1>8, <2>1, <2>2
<1>11. ASSUME NEW t \in Task, DMark(t) \/ RMark(t) \/ PMark(t)
       PROVE  [Contract!CNext]_(Contract!cvars)
  <2>1. /\ UNCHANGED <<row, cmidOf, acks, held, told>>
        /\ marked' = marked \cup {msg[t]}
    BY <1>11 DEF DMark, RMark, PMark, idVars, wireVars, histVars
  <2>2. msg[t] \in Stored
    BY <1>1, <1>11 DEF DMark, RMark, PMark, HandlersKnow, OnStoredPc,
       ConfirmPc, ReadPc
  <2>3. Contract!Deliver(msg[t])
    BY <1>3, <1>4, <2>1, <2>2 DEF Contract!Deliver, Stored
  <2> QED
    BY <2>2, <2>3 DEF Contract!CNext, Stored
<1>12. ASSUME NEW t \in Task, DRead(t) \/ DFinish(t) \/ RNotify(t) \/ PFinish(t)
       PROVE  [Contract!CNext]_(Contract!cvars)
  <2>1. UNCHANGED <<row, cmidOf, acks, marked, held>>
    BY <1>12 DEF DRead, DFinish, RNotify, PFinish, dbVars, idVars
  <2>2. pairs' = pairs
    BY <1>4, <2>1 DEF Stored
  <2>3. CASE receipts' = receipts
    BY <2>1, <2>2, <2>3
  <2>4. ASSUME RNotify(t) PROVE [Contract!CNext]_(Contract!cvars)
    <3>1. msg[t] \in held /\ msg[t] \in Mid
      BY <1>1, <2>4 DEF RNotify, HandlersKnow, ReadPc, TypeOK, TaskType
    <3>2. receipts' = receipts \cup {msg[t]}
      BY <2>4, <3>1 DEF RNotify, NotifySender
    <3>3. PICK m \in Mid : m = msg[t]
      BY <3>1
    <3>4. Contract!GiveReceipt(m)
      BY <2>1, <2>2, <3>1, <3>2, <3>3 DEF Contract!GiveReceipt
    <3> QED
      BY <3>4 DEF Contract!CNext
  <2>5. ASSUME DRead(t) \/ DFinish(t) \/ PFinish(t) PROVE receipts' = receipts
    BY <2>5 DEF DRead, DFinish, PFinish, NotifySender
  <2> QED
    BY <1>12, <2>3, <2>4, <2>5
<1>13. ASSUME (\E k \in FrameKind, m \in Mid : Transmit(k, m)) \/ LoadHistory
       PROVE  [Contract!CNext]_(Contract!cvars)
  <2>1. UNCHANGED <<row, cmidOf, acks, marked, told>>
    BY <1>13 DEF Transmit, LoadHistory, dbVars, idVars, histVars
  <2>2. PICK S \in SUBSET Stored : held' = held \cup S
    <3>1. CASE LoadHistory
      BY <3>1 DEF LoadHistory
    <3>2. ASSUME NEW k \in FrameKind, NEW m \in Mid, Transmit(k, m)
          PROVE  \E S \in SUBSET Stored : held' = held \cup S
      <4>1. m \in Stored
        BY <1>1, <3>2 DEF Transmit, KnownAreStored
      <4>2. held' = held \cup {} \/ held' = held \cup {m}
        BY <3>2 DEF Transmit
      <4> QED
        BY <4>1, <4>2
    <3> QED
      BY <1>13, <3>1, <3>2
  <2>3. Contract!Receive(S)
    BY <1>3, <1>4, <2>1, <2>2 DEF Contract!Receive, Stored
  <2> QED
    BY <2>2, <2>3 DEF Contract!CNext, Stored
<1> QED
  BY <1>5, <1>6, <1>7, <1>9, <1>10, <1>11, <1>12, <1>13, ContractWriters

(* The backend's handlers, memory, restarts and faults together keep the   *)
(* contract: one stored id per client id, ACKs and deliveries only of      *)
(* stored messages, receipts only of received ones.                        *)
THEOREM KeepsContract == Spec => ContractSpec
<1>1. Init => Contract!CInit
  BY DEF Init, Contract!CInit, Stored
<1>2. IInv /\ [Next]_vars => [Contract!CNext]_(Contract!cvars)
  BY ContractStep
<1> QED
  BY <1>1, <1>2, Invariance, PTL DEF Spec, ContractSpec, Contract!CSpec

=============================================================================
