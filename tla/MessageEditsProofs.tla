------------------------- MODULE MessageEditsProofs -------------------------
(***************************************************************************)
(* Theorems about MessageEdits, for any number of tabs, texts, edits and   *)
(* deletes and any skew of the clocks: its types, that the recipient sees  *)
(* only texts the row has had, that no delete is made up, and that the     *)
(* recipient's tabs follow the edits.                                      *)
(***************************************************************************)
EXTENDS MessageEdits, SequenceTheorems, TLAPS

USE TabAssumption, TextAssumption, SkewAssumption, BoundAssumption

(* What a step does to the changes that are written, and to the mark of a  *)
(* deleted row: nothing.                                                   *)
HistoryStays ==
    /\ row.deleted => row'.deleted
    /\ \A o \in OpId : op[o].wrote => /\ op'[o].wrote
                                      /\ op'[o].kind = op[o].kind
                                      /\ op'[o].text = op[o].text
                                      /\ op'[o].at = op[o].at

-----------------------------------------------------------------------------
(* What is backed by the history stays backed. *)

(* A written edit stays one.                                               *)
LEMMA EditsStay ==
  ASSUME HistoryStays
  PROVE  Edits \subseteq Edits'
BY DEF HistoryStays, Edits

(* A text the row has had is one it has had.                               *)
LEMMA StoredStays ==
  ASSUME HistoryStays, NEW c, IsStored(c)
  PROVE  IsStored(c)'
BY DEF HistoryStays, Edits, IsStored

(* What carries an edit's stamp and text still does.                       *)
LEMMA CarriedStays ==
  ASSUME HistoryStays, NEW b, NEW S \in SUBSET Edits, Carries(b, S)
  PROVE  b.at # 0 => \E o \in S : op'[o].at = b.at /\ op'[o].text = b.text
BY DEF HistoryStays, Edits, Carries

(* A backed frame stays backed.                                            *)
LEMMA FrameStays ==
  ASSUME HistoryStays, NEW f, FrameBacked(f)
  PROVE  FrameBacked(f)'
BY EditsStay, StoredStays DEF HistoryStays, FrameBacked

(* A backed page of history stays backed.                                  *)
LEMMA LoadStays ==
  ASSUME HistoryStays, NEW l, LoadBacked(l)
  PROVE  LoadBacked(l)'
<1>1. l.ops \subseteq Edits /\ IsStored(l.row.text)' /\ (l.row.deleted => row'.deleted)
  BY StoredStays DEF LoadBacked, HistoryStays
<1>2. \A o \in l.ops : op'[o].at <= l.row.at
  BY <1>1 DEF LoadBacked, HistoryStays, Edits
<1>3. l.row.at # 0 => \E o \in l.ops : op'[o].at = l.row.at /\ op'[o].text = l.row.text
  BY <1>1, CarriedStays DEF LoadBacked
<1> QED BY <1>1, <1>2, <1>3, EditsStay DEF LoadBacked, Carries

(* A text the row has had is a text. *)
LEMMA StoredIsText ==
  ASSUME TypeOK, NEW c, IsStored(c)
  PROVE  c \in Text
BY DEF TypeOK, IsStored, Edits

-----------------------------------------------------------------------------
(* The server's side: the row, its cache and the changes under way *)

ServerType ==
    /\ row \in Row
    /\ cache \in Text \cup {NoText}
    /\ op \in [OpId -> Op]
    /\ \A o \in OpId : op[o].kind = "edit" => op[o].text \in Text
    /\ now \in Nat
    /\ met \subseteq OpId

(* What a step has to show for the server.                                 *)
ServerGoal == ServerType' /\ WrittenIsStamped' /\ HistoryStays

(* Types of the changes, as a handler moves one of them on.                *)
LEMMA OpMoves ==
  ASSUME TypeOK, NEW o \in OpId, NEW pc \in Stage
  PROVE  /\ op[o] \in Op
         /\ [op EXCEPT ![o].pc = pc] \in [OpId -> Op]
         /\ [op EXCEPT ![o].pc = pc, ![o].ok = TRUE] \in [OpId -> Op]
         /\ [op EXCEPT ![o].pc = pc, ![o].wrote = TRUE] \in [OpId -> Op]
         /\ \A c \in Text \cup {NoText} : [op EXCEPT ![o].pc = pc, ![o].old = c] \in [OpId -> Op]
         /\ \A n \in Nat : [op EXCEPT ![o].pc = pc, ![o].at = n] \in [OpId -> Op]
<1>1. op \in [OpId -> Op] /\ op[o] \in Op
  BY DEF TypeOK
<1>2. [op EXCEPT ![o].pc = pc] \in [OpId -> Op]
  BY <1>1 DEF Op
<1>3. [op[o] EXCEPT !.pc = pc, !.ok = TRUE] \in Op
  BY <1>1 DEF Op
<1>4. [op[o] EXCEPT !.pc = pc, !.wrote = TRUE] \in Op
  BY <1>1 DEF Op
<1>5. \A c \in Text \cup {NoText} : [op[o] EXCEPT !.pc = pc, !.old = c] \in Op
  BY <1>1 DEF Op
<1>6. \A n \in Nat : [op[o] EXCEPT !.pc = pc, !.at = n] \in Op
  BY <1>1 DEF Op
<1> QED BY <1>1, <1>2, <1>3, <1>4, <1>5, <1>6

(* A lost request is typed as the others are.                              *)
LEMMA OpsAreLost ==
  ASSUME TypeOK, NEW S \in SUBSET OpId
  PROVE  [o \in OpId |-> IF o \in S THEN [op[o] EXCEPT !.pc = "lost"] ELSE op[o]] \in [OpId -> Op]
<1>1. op \in [OpId -> Op]
  BY DEF TypeOK
<1>2. ASSUME NEW p \in Op
      PROVE  [p EXCEPT !.pc = "lost"] \in Op
  BY DEF Op, Stage
<1> QED BY <1>1, <1>2

(* A new request touches no other, and keeps what the server knows.        *)
LEMMA TellsStep ==
  ASSUME TypeOK, WrittenIsStamped, NEW t \in Tab, NEW kind \in {"edit", "delete"},
         NEW c \in Text \cup {NoText}, kind = "edit" => c \in Text,
         Tells(t, kind, c), UNCHANGED <<row, cache, now>>
  PROVE  ServerGoal
<1>1. PICK o \in OpId \ Used :
        /\ op' = [op EXCEPT ![o] = [pc |-> "sent", kind |-> kind, tab |-> t, text |-> c,
                                    old |-> NoText, at |-> 0, wrote |-> FALSE, ok |-> FALSE]]
        /\ met' = IF c = row.text THEN met \cup {o} ELSE met
  BY DEF Tells
<1>2. ~op[o].wrote /\ o \in OpId
  BY DEF Used, WrittenIsStamped
<1>3. op' \in [OpId -> Op]
  <2>1. op \in [OpId -> Op]
    BY DEF TypeOK
  <2> QED BY <1>1, <1>2, <2>1 DEF Op, Stage
<1>4. met' \subseteq OpId
  BY <1>1, <1>2 DEF TypeOK
<1>5. \A p \in OpId : IF p = o THEN /\ op'[p].pc = "sent" /\ op'[p].kind = kind
                                    /\ op'[p].text = c /\ ~op'[p].wrote
                               ELSE op'[p] = op[p]
  BY <1>1, <1>2 DEF TypeOK
<1> QED BY <1>2, <1>3, <1>4, <1>5 DEF ServerGoal, ServerType, TypeOK, WrittenIsStamped, HistoryStays

(* So does the write of the row, from a stamped change.                    *)
LEMMA WritesStep ==
  ASSUME TypeOK, WrittenIsStamped, NEW o \in OpId, op[o].pc = "stamped", Writes(o),
         NEW pc \in {"applied", "done"},
         op' = [op EXCEPT ![o].pc = pc, ![o].wrote = TRUE],
         UNCHANGED <<cache, now>>
  PROVE  ServerGoal
<1>1. row' = Changed(o) /\ met' \subseteq OpId
  BY DEF Writes, Underway, TypeOK
<1>2. op[o] \in Op /\ op[o].at \in Nat /\ op[o].at >= 1
  BY DEF TypeOK, Op, WrittenIsStamped
<1>3. row' \in Row /\ (row.deleted => row'.deleted)
      /\ (op[o].kind = "delete" => row'.deleted)
  BY <1>1, <1>2 DEF Changed, TypeOK, Row
<1>4. op' \in [OpId -> Op]
  BY OpMoves DEF Stage
<1>5. \A p \in OpId : IF p = o THEN /\ op'[p].pc = pc /\ op'[p].kind = op[p].kind
                                    /\ op'[p].text = op[p].text /\ op'[p].at = op[p].at
                                    /\ op'[p].wrote
                               ELSE op'[p] = op[p]
  BY DEF TypeOK, Op
<1>6. ServerType'
  BY <1>1, <1>3, <1>4, <1>5 DEF ServerType, TypeOK
<1>7. ~op[o].wrote
  BY DEF WrittenIsStamped
<1>8. HistoryStays
  BY <1>3, <1>5, <1>7 DEF HistoryStays
<1>9. WrittenIsStamped'
  BY <1>2, <1>3, <1>5 DEF WrittenIsStamped
<1> QED BY <1>6, <1>8, <1>9 DEF ServerGoal

(* Ending changes, or moving one on to a stage before it is stamped.       *)
LEMMA ProceedStep ==
  ASSUME TypeOK, WrittenIsStamped, op' \in [OpId -> Op],
         \A o \in OpId : \/ op'[o] = op[o]
                         \/ /\ op'[o].pc \in {"read", "known", "done", "lost"}
                            /\ op[o].wrote => op'[o].pc \in {"done", "lost"}
                            /\ op'[o].kind = op[o].kind
                            /\ op'[o].text = op[o].text
                            /\ op'[o].at = op[o].at
                            /\ op'[o].wrote = op[o].wrote,
         cache' \in Text \cup {NoText},
         UNCHANGED <<row, now, met>>
  PROVE  ServerGoal
BY DEF ServerGoal, ServerType, TypeOK, WrittenIsStamped, HistoryStays

(* Each step keeps what the server knows: rows, stamps, written edits.     *)
LEMMA ServerStep ==
  ASSUME TypeOK, WrittenIsStamped, [Next]_vars
  PROVE  ServerGoal
<1>u. CASE UNCHANGED serverVars
  BY <1>u DEF serverVars, ServerGoal, ServerType, TypeOK, WrittenIsStamped, HistoryStays
<1>1. ASSUME NEW t \in OwnerTab, OwnerStep(t)
      PROVE  ServerGoal
  <2>0. t \in Tab
    BY DEF Tab
  <2>1. ASSUME NEW c \in Text, EditMessage(t, c)
        PROVE  ServerGoal
    BY <2>0, <2>1, TellsStep DEF EditMessage
  <2>2. CASE DeleteMessage(t)
    BY <2>0, <2>2, TellsStep DEF DeleteMessage
  <2>3. CASE ChangeUnsent(t)
    BY <2>3, <1>u DEF ChangeUnsent
  <2> QED BY <1>1, <2>1, <2>2, <2>3 DEF OwnerStep
<1>2. ASSUME NEW o \in OpId, HandlerStep(o)
      PROVE  ServerGoal
  <2>0. op[o] \in Op
    BY DEF TypeOK
  <2>1. CASE FindsCached(o)
    <3>1. op' = [op EXCEPT ![o].pc = "known", ![o].old = cache] /\ op[o].pc = "sent"
          /\ UNCHANGED <<row, cache, now, met>>
      BY <2>1 DEF FindsCached, Starts
    <3>2. op' \in [OpId -> Op]
      <4>1. cache \in Text \cup {NoText}
        BY DEF TypeOK
      <4> QED BY <3>1, <4>1, OpMoves DEF Stage
    <3> QED BY <3>1, <3>2, ProceedStep DEF TypeOK, Op, WrittenIsStamped
  <2>2. CASE ReadsRow(o)
    <3>1. op' = [op EXCEPT ![o].pc = "read", ![o].old = row.text] /\ op[o].pc = "sent"
          /\ UNCHANGED <<row, cache, now, met>>
      BY <2>2 DEF ReadsRow, Starts
    <3>2. op' \in [OpId -> Op]
      <4>1. row.text \in Text \cup {NoText}
        BY DEF TypeOK, Row
      <4> QED BY <3>1, <4>1, OpMoves DEF Stage
    <3> QED BY <3>1, <3>2, ProceedStep DEF TypeOK, Op, WrittenIsStamped
  <2>3. CASE CachesRow(o)
    <3>1. op' = [op EXCEPT ![o].pc = "known"] /\ op[o].pc = "read" /\ cache' = op[o].old
          /\ UNCHANGED <<row, now, met>>
      BY <2>3 DEF CachesRow
    <3>2. op' \in [OpId -> Op] /\ cache' \in Text \cup {NoText}
      <4>1. op \in [OpId -> Op] /\ op[o].old \in Text \cup {NoText}
        BY <2>0 DEF TypeOK, Op
      <4> QED BY <3>1, <4>1, <2>0 DEF Op, Stage
    <3>3. \A p \in OpId : op'[p] = IF p = o THEN [op[o] EXCEPT !.pc = "known"] ELSE op[p]
      BY <3>1 DEF TypeOK
    <3>4. ~op[o].wrote
      BY <3>1 DEF WrittenIsStamped
    <3>5. op'[o] = [op[o] EXCEPT !.pc = "known"]
      BY <3>3
    <3>6. /\ op'[o].pc = "known" /\ op'[o].kind = op[o].kind /\ op'[o].text = op[o].text
          /\ op'[o].at = op[o].at /\ op'[o].wrote = op[o].wrote
      BY <2>0, <3>5 DEF Op
    <3> QED BY <3>1, <3>2, <3>3, <3>4, <3>6, ProceedStep
  <2>4. CASE SkipsEdit(o)
    <3>1. op' = [op EXCEPT ![o].pc = "done", ![o].ok = TRUE]
          /\ UNCHANGED <<row, cache, now, met>>
      BY <2>4 DEF SkipsEdit
    <3>2. op' \in [OpId -> Op]
      BY <3>1, OpMoves DEF Stage
    <3> QED BY <3>1, <3>2, ProceedStep DEF TypeOK, Op
  <2>5. CASE StampsChange(o)
    <3>1. op' = [op EXCEPT ![o].pc = "stamped", ![o].at = now'] /\ op[o].pc = "known"
          /\ now' \in Nat /\ now' >= 1
          /\ UNCHANGED <<row, cache, met>>
      BY <2>5 DEF StampsChange, TypeOK, WrittenIsStamped
    <3>2. op' \in [OpId -> Op]
      BY <3>1, OpMoves DEF Stage
    <3>3. \A p \in OpId : IF p = o THEN /\ op'[p].pc = "stamped" /\ op'[p].kind = op[p].kind
                                        /\ op'[p].text = op[p].text /\ op'[p].at = now'
                                        /\ op'[p].wrote = op[p].wrote
                                   ELSE op'[p] = op[p]
      BY <3>1 DEF TypeOK, Op
    <3>4. ~op[o].wrote
      BY <3>1 DEF WrittenIsStamped
    <3> QED BY <3>1, <3>2, <3>3, <3>4 DEF ServerGoal, ServerType, TypeOK, WrittenIsStamped, HistoryStays
  <2>6. CASE AppliesChange(o)
    BY <2>6, WritesStep DEF AppliesChange
  <2>7. CASE BroadcastsChange(o)
    <3>1. op' = [op EXCEPT ![o].pc = "done", ![o].ok = TRUE]
          /\ UNCHANGED <<row, cache, now, met>>
      BY <2>7 DEF BroadcastsChange
    <3>2. op' \in [OpId -> Op]
      BY <3>1, OpMoves DEF Stage
    <3> QED BY <3>1, <3>2, ProceedStep DEF TypeOK, Op
  <2>8. CASE RefusesChange(o)
    <3>1. op' = [op EXCEPT ![o].pc = "done"] /\ UNCHANGED <<row, cache, now, met>>
      BY <2>8 DEF RefusesChange
    <3>2. op' \in [OpId -> Op]
      BY <3>1, OpMoves DEF Stage
    <3> QED BY <3>1, <3>2, ProceedStep DEF TypeOK, Op
  <2>9. CASE FailsWrite(o)
    <3>1. op[o].pc = "stamped" /\ UNCHANGED <<cache, now>>
      BY <2>9 DEF FailsWrite
    <3>2. CASE Writes(o) /\ op' = [op EXCEPT ![o].pc = "done", ![o].wrote = TRUE]
      BY <3>1, <3>2, WritesStep
    <3>3. CASE UNCHANGED <<row, met>> /\ op' = [op EXCEPT ![o].pc = "done"]
      <4>1. op' \in [OpId -> Op]
        BY <3>3, OpMoves DEF Stage
      <4> QED BY <3>1, <3>3, <4>1, ProceedStep DEF TypeOK, Op
    <3> QED BY <2>9, <3>2, <3>3 DEF FailsWrite
  <2> QED BY <1>2, <2>1, <2>2, <2>3, <2>4, <2>5, <2>6, <2>7, <2>8, <2>9 DEF HandlerStep
<1>3. ASSUME NEW t \in Tab, TabStep(t)
      PROVE  ServerGoal
  <2>1. CASE Disconnect(t)
    <3>1. PICK gone \in SUBSET OpId :
            op' = [o \in OpId |-> IF o \in gone THEN [op[o] EXCEPT !.pc = "lost"] ELSE op[o]]
      BY <2>1 DEF Disconnect
    <3>2. op' \in [OpId -> Op]
      BY <3>1, OpsAreLost
    <3>3. UNCHANGED <<row, cache, now, met>>
      BY <2>1 DEF Disconnect
    <3> QED BY <3>1, <3>2, <3>3, ProceedStep DEF TypeOK, Op
  <2> QED BY <1>3, <1>u, <2>1 DEF TabStep, ReplayReads, FrameArrives, LoadStarts, LoadReads,
             LoadArrives, LoadFails, Connect, ReloadPage
<1>4. CASE DeliverySends
  BY <1>4, <1>u DEF DeliverySends
<1>5. CASE Restart
  <2>1. op' = [o \in OpId |-> IF o \in Underway THEN [op[o] EXCEPT !.pc = "lost"] ELSE op[o]]
        /\ cache' = NoText /\ UNCHANGED <<row, now, met>>
    BY <1>5 DEF Restart
  <2>2. op' \in [OpId -> Op]
    BY <2>1, OpsAreLost DEF Underway
  <2> QED BY <2>1, <2>2, ProceedStep DEF TypeOK, Op
<1> QED BY <1>1, <1>2, <1>3, <1>4, <1>5, <1>u DEF Next, vars

(* The row is written with the stamp and the text of the change, or is     *)
(* marked, or stays.                                                       *)
LEMMA RowStep ==
  ASSUME TypeOK, RowIsBacked, HistoryStays, [Next]_vars
  PROVE  RowIsBacked'
<1>1. CASE UNCHANGED row
  <2>1. IsStored(row.text)'
    BY <1>1, StoredStays DEF RowIsBacked
  <2>2. row.at # 0 => \E o \in Edits : op'[o].at = row.at /\ op'[o].text = row.text
    BY CarriedStays DEF RowIsBacked
  <2> QED BY <1>1, <2>1, <2>2, EditsStay DEF RowIsBacked, Carries
<1>2. ASSUME NEW o \in OpId, Writes(o), NEW pc,
             op' = [op EXCEPT ![o].pc = pc, ![o].wrote = TRUE]
      PROVE  RowIsBacked'
  <2>1. row' = Changed(o)
    BY <1>2 DEF Writes
  <2>2. op'[o].wrote /\ op'[o].kind = op[o].kind /\ op'[o].text = op[o].text /\ op'[o].at = op[o].at
    BY <1>2 DEF TypeOK, Op
  <2>3. CASE op[o].kind = "edit"
    <3>1. row'.text = op[o].text /\ row'.at = op[o].at
      BY <2>1, <2>3 DEF Changed, TypeOK, Row
    <3>2. o \in Edits'
      BY <2>2, <2>3 DEF Edits
    <3> QED BY <2>2, <3>1, <3>2 DEF RowIsBacked, IsStored, Carries
  <2>4. CASE op[o].kind # "edit"
    <3>1. row'.text = row.text /\ row'.at = row.at
      BY <2>1, <2>4 DEF Changed, TypeOK, Row
    <3>2. IsStored(row.text)'
      BY <3>1, StoredStays DEF RowIsBacked, IsStored
    <3>3. row.at # 0 => \E p \in Edits : op'[p].at = row.at /\ op'[p].text = row.text
      BY CarriedStays DEF RowIsBacked
    <3> QED BY <3>1, <3>2, <3>3, EditsStay DEF RowIsBacked, Carries
  <2> QED BY <2>3, <2>4
<1>3. ASSUME NEW o \in OpId, HandlerStep(o)
      PROVE  RowIsBacked'
  <2>1. CASE AppliesChange(o)
    BY <2>1, <1>2 DEF AppliesChange
  <2>2. CASE FailsWrite(o)
    BY <2>2, <1>1, <1>2 DEF FailsWrite
  <2> QED BY <1>3, <1>1, <2>1, <2>2 DEF HandlerStep, FindsCached, ReadsRow, CachesRow,
             SkipsEdit, StampsChange, BroadcastsChange, RefusesChange
<1>4. ASSUME NEW t \in OwnerTab, OwnerStep(t)
      PROVE  RowIsBacked'
  BY <1>4, <1>1 DEF OwnerStep, EditMessage, DeleteMessage, ChangeUnsent, serverVars
<1>5. ASSUME NEW t \in Tab, TabStep(t)
      PROVE  RowIsBacked'
  BY <1>5, <1>1 DEF TabStep, ReplayReads, FrameArrives, LoadStarts, LoadReads, LoadArrives,
     LoadFails, Disconnect, Connect, ReloadPage, serverVars
<1> QED BY <1>1, <1>3, <1>4, <1>5 DEF Next, vars, serverVars, DeliverySends, Restart

-----------------------------------------------------------------------------
(* What handlers compare with, and what they acknowledge *)

(* The cache and each change keep what they had, or a text the row has had. *)
LEMMA AcksKeepBacked ==
  ASSUME AcksAreBacked, HistoryStays,
         \/ cache' \in {cache, NoText}
         \/ \E c : cache' = c /\ IsStored(c),
         \A o \in OpId :
            \/ op'[o] = op[o]
            \/ /\ op'[o].pc \in {"read", "known"} => \E c : op'[o].old = c /\ IsStored(c)
               /\ op'[o].ok => /\ op'[o].pc = "done"
                               /\ op'[o].kind = "edit" => \E c : op'[o].text = c /\ IsStored(c)
  PROVE  AcksAreBacked'
<1>1. cache' # NoText => IsStored(cache)'
  <2> SUFFICES ASSUME cache' # NoText
               PROVE  IsStored(cache)'
    OBVIOUS
  <2>1. PICK c : cache' = c /\ IsStored(c)
    BY DEF AcksAreBacked
  <2>2. IsStored(c)'
    BY <2>1, StoredStays
  <2> QED BY <2>1, <2>2 DEF IsStored
<1>2. ASSUME NEW o \in OpId
      PROVE  /\ op'[o].pc \in {"read", "known"} => IsStored(op[o].old)'
             /\ op'[o].ok => op'[o].pc = "done"
             /\ op'[o].kind = "edit" /\ op'[o].ok => IsStored(op[o].text)'
  <2>1. ASSUME op'[o].pc \in {"read", "known"}
        PROVE  IsStored(op[o].old)'
    <3>1. PICK c : op'[o].old = c /\ IsStored(c)
      BY <1>2, <2>1 DEF AcksAreBacked
    <3>2. IsStored(c)'
      BY <3>1, StoredStays
    <3> QED BY <3>1, <3>2 DEF IsStored
  <2>2. op'[o].ok => op'[o].pc = "done"
    BY <1>2 DEF AcksAreBacked
  <2>3. ASSUME op'[o].kind = "edit" /\ op'[o].ok
        PROVE  IsStored(op[o].text)'
    <3>1. PICK c : op'[o].text = c /\ IsStored(c)
      BY <1>2, <2>3 DEF AcksAreBacked, AckedWasStored
    <3>2. IsStored(c)'
      BY <3>1, StoredStays
    <3> QED BY <3>1, <3>2 DEF IsStored
  <2> QED BY <2>1, <2>2, <2>3
<1> QED BY <1>1, <1>2 DEF AcksAreBacked, AckedWasStored

(* The cache and what handlers compare with keep being texts of the row.   *)
LEMMA AcksStep ==
  ASSUME TypeOK, WrittenIsStamped, RowIsBacked, AcksAreBacked, HistoryStays, [Next]_vars
  PROVE  AcksAreBacked'
<1>0. op \in [OpId -> Op] /\ \A o \in OpId : op[o].ok => op[o].pc = "done"
  BY DEF TypeOK, AcksAreBacked
<1>u. CASE UNCHANGED serverVars
  BY <1>u, AcksKeepBacked DEF serverVars
<1>1. ASSUME NEW t \in OwnerTab, OwnerStep(t)
      PROVE  AcksAreBacked'
  <2>1. ASSUME NEW kind, NEW c, Tells(t, kind, c), UNCHANGED cache
        PROVE  AcksAreBacked'
    <3>1. PICK o \in OpId :
            op' = [op EXCEPT ![o] = [pc |-> "sent", kind |-> kind, tab |-> t, text |-> c,
                                     old |-> NoText, at |-> 0, wrote |-> FALSE, ok |-> FALSE]]
      BY <2>1 DEF Tells
    <3>2. \A p \in OpId : op'[p] = op[p] \/ (op'[p].pc = "sent" /\ ~op'[p].ok)
      BY <1>0, <3>1
    <3> QED BY <2>1, <3>2, AcksKeepBacked
  <2> QED BY <1>1, <1>u, <2>1 DEF OwnerStep, EditMessage, DeleteMessage, ChangeUnsent
<1>2. ASSUME NEW o \in OpId, HandlerStep(o)
      PROVE  AcksAreBacked'
  <2>0. op[o] \in Op
    BY <1>0
  <2>1. CASE FindsCached(o)
    <3>1. op' = [op EXCEPT ![o].pc = "known", ![o].old = cache] /\ op[o].pc = "sent"
          /\ cache # NoText /\ cache' = cache
      BY <2>1 DEF FindsCached, Starts
    <3>2. /\ op'[o].pc = "known" /\ op'[o].old = cache /\ ~op'[o].ok
          /\ \A p \in OpId \ {o} : op'[p] = op[p]
      BY <1>0, <2>0, <3>1 DEF Op
    <3>3. \E c : op'[o].old = c /\ IsStored(c)
      BY <3>1, <3>2 DEF AcksAreBacked
    <3> QED BY <3>1, <3>2, <3>3, AcksKeepBacked
  <2>2. CASE ReadsRow(o)
    <3>1. op' = [op EXCEPT ![o].pc = "read", ![o].old = row.text] /\ op[o].pc = "sent"
          /\ cache' = cache
      BY <2>2 DEF ReadsRow, Starts
    <3>2. /\ op'[o].pc = "read" /\ op'[o].old = row.text /\ ~op'[o].ok
          /\ \A p \in OpId \ {o} : op'[p] = op[p]
      BY <1>0, <2>0, <3>1 DEF Op
    <3>3. \E c : op'[o].old = c /\ IsStored(c)
      BY <3>2 DEF RowIsBacked
    <3> QED BY <3>1, <3>2, <3>3, AcksKeepBacked
  <2>3. CASE CachesRow(o)
    <3>1. op' = [op EXCEPT ![o].pc = "known"] /\ op[o].pc = "read" /\ cache' = op[o].old
      BY <2>3 DEF CachesRow
    <3>2. /\ op'[o].pc = "known" /\ op'[o].old = op[o].old /\ ~op'[o].ok
          /\ \A p \in OpId \ {o} : op'[p] = op[p]
      BY <1>0, <2>0, <3>1 DEF Op
    <3>3. \E c : op'[o].old = c /\ cache' = c /\ IsStored(c)
      BY <3>1, <3>2 DEF AcksAreBacked
    <3> QED BY <3>1, <3>2, <3>3, AcksKeepBacked
  <2>4. CASE SkipsEdit(o)
    <3>1. op' = [op EXCEPT ![o].pc = "done", ![o].ok = TRUE] /\ op[o].pc = "known"
          /\ op[o].text = op[o].old /\ cache' = cache
      BY <2>4 DEF SkipsEdit, IsNoChange
    <3>2. /\ op'[o].pc = "done" /\ op'[o].text = op[o].old
          /\ \A p \in OpId \ {o} : op'[p] = op[p]
      BY <1>0, <2>0, <3>1 DEF Op
    <3>3. \E c : op'[o].text = c /\ IsStored(c)
      BY <3>1, <3>2 DEF AcksAreBacked
    <3> QED BY <3>1, <3>2, <3>3, AcksKeepBacked
  <2>5. CASE StampsChange(o)
    <3>1. op' = [op EXCEPT ![o].pc = "stamped", ![o].at = now'] /\ op[o].pc = "known"
          /\ cache' = cache
      BY <2>5 DEF StampsChange
    <3>2. /\ op'[o].pc = "stamped" /\ ~op'[o].ok
          /\ \A p \in OpId \ {o} : op'[p] = op[p]
      BY <1>0, <2>0, <3>1 DEF Op
    <3> QED BY <3>1, <3>2, AcksKeepBacked
  <2>6. ASSUME op[o].pc = "stamped", NEW pc \in {"applied", "done"}, UNCHANGED cache,
               \/ op' = [op EXCEPT ![o].pc = pc, ![o].wrote = TRUE]
               \/ op' = [op EXCEPT ![o].pc = pc]
        PROVE  AcksAreBacked'
    <3>1. /\ op'[o].pc = pc /\ ~op'[o].ok
          /\ \A p \in OpId \ {o} : op'[p] = op[p]
      BY <1>0, <2>0, <2>6 DEF Op
    <3> QED BY <2>6, <3>1, AcksKeepBacked
  <2>7. CASE AppliesChange(o)
    BY <2>6, <2>7 DEF AppliesChange
  <2>8. CASE BroadcastsChange(o)
    <3>1. op' = [op EXCEPT ![o].pc = "done", ![o].ok = TRUE] /\ op[o].pc = "applied"
          /\ cache' = cache
      BY <2>8 DEF BroadcastsChange
    <3>2. /\ op'[o].pc = "done" /\ op'[o].text = op[o].text /\ op'[o].kind = op[o].kind
          /\ \A p \in OpId \ {o} : op'[p] = op[p]
      BY <1>0, <2>0, <3>1 DEF Op
    <3>3. op[o].kind = "edit" => \E c : op'[o].text = c /\ IsStored(c)
      BY <3>1, <3>2 DEF WrittenIsStamped, IsStored, Edits
    <3> QED BY <3>1, <3>2, <3>3, AcksKeepBacked
  <2>9. CASE RefusesChange(o)
    <3>1. op' = [op EXCEPT ![o].pc = "done"] /\ op[o].pc = "sent" /\ cache' = cache
      BY <2>9 DEF RefusesChange, Starts
    <3>2. /\ op'[o].pc = "done" /\ ~op'[o].ok
          /\ \A p \in OpId \ {o} : op'[p] = op[p]
      BY <1>0, <2>0, <3>1 DEF Op
    <3> QED BY <3>1, <3>2, AcksKeepBacked
  <2>10. CASE FailsWrite(o)
    BY <2>6, <2>10 DEF FailsWrite
  <2> QED BY <1>2, <2>1, <2>2, <2>3, <2>4, <2>5, <2>7, <2>8, <2>9, <2>10 DEF HandlerStep
<1>3. ASSUME NEW S \in SUBSET {o \in OpId : op[o].pc # "done"},
             op' = [o \in OpId |-> IF o \in S THEN [op[o] EXCEPT !.pc = "lost"] ELSE op[o]],
             cache' \in {cache, NoText}
      PROVE  AcksAreBacked'
  <2>1. ASSUME NEW o \in OpId
        PROVE  op'[o] = op[o] \/ (op'[o].pc = "lost" /\ ~op'[o].ok)
    BY <1>0, <1>3 DEF Op
  <2> QED BY <1>3, <2>1, AcksKeepBacked
<1>4. ASSUME NEW t \in Tab, TabStep(t)
      PROVE  AcksAreBacked'
  <2>1. CASE Disconnect(t)
    <3>1. PICK gone \in SUBSET {o \in OpId : op[o].pc = "sent" /\ op[o].tab = t} :
            op' = [o \in OpId |-> IF o \in gone THEN [op[o] EXCEPT !.pc = "lost"] ELSE op[o]]
      BY <2>1 DEF Disconnect
    <3>2. cache' = cache /\ gone \in SUBSET {o \in OpId : op[o].pc # "done"}
      BY <2>1 DEF Disconnect
    <3> QED BY <3>1, <3>2, <1>3
  <2> QED BY <1>4, <1>u, <2>1 DEF TabStep, ReplayReads, FrameArrives, LoadStarts, LoadReads,
             LoadArrives, LoadFails, Connect, ReloadPage
<1>5. CASE Restart
  <2>1. Underway \in SUBSET {o \in OpId : op[o].pc # "done"}
    BY DEF Underway
  <2> QED BY <1>3, <1>5, <2>1 DEF Restart
<1> QED BY <1>1, <1>2, <1>4, <1>5, <1>u DEF Next, vars, DeliverySends

-----------------------------------------------------------------------------
(* The delivery under way *)

(* It carries a text the row had when it was read.                         *)
LEMMA LateStep ==
  ASSUME TypeOK, RowIsBacked, LateIsBacked, HistoryStays, [Next]_vars
  PROVE  late' \in Late /\ LateIsBacked'
<1>1. CASE UNCHANGED late
  BY <1>1, StoredStays DEF LateIsBacked, TypeOK, Late
<1>2. CASE late' = NoLate
  BY <1>2 DEF NoLate, Late, LateIsBacked
<1>3. ASSUME NEW t \in Tab, TabStep(t)
      PROVE  late' \in Late /\ LateIsBacked'
  <2>1. CASE ReplayReads(t)
    <3>1. late' = [text |-> row.text, live |-> FALSE, to |-> {t}] /\ t \in PeerTab
      BY <2>1 DEF ReplayReads
    <3>2. IsStored(row.text)'
      BY <2>1, StoredStays DEF RowIsBacked, ReplayReads, serverVars
    <3>3. row.text \in Text
      BY DEF TypeOK, Row
    <3>4. late' \in Late /\ late'.text = row.text
      BY <3>1, <3>3 DEF Late
    <3>5. row' = row
      BY <2>1 DEF ReplayReads, serverVars
    <3> QED BY <3>2, <3>4, <3>5 DEF LateIsBacked, IsStored
  <2>2. CASE Disconnect(t)
    BY <2>2, <1>1, <1>2 DEF Disconnect
  <2> QED BY <1>1, <1>3, <2>1, <2>2 DEF TabStep, FrameArrives, LoadStarts, LoadReads,
             LoadArrives, LoadFails, Connect, ReloadPage, deliveryVars
<1>4. ASSUME NEW o \in OpId, HandlerStep(o)
      PROVE  late' \in Late /\ LateIsBacked'
  BY <1>4, <1>1 DEF HandlerStep, FindsCached, ReadsRow, CachesRow, SkipsEdit, StampsChange,
     AppliesChange, BroadcastsChange, RefusesChange, FailsWrite, deliveryVars
<1>5. ASSUME NEW t \in OwnerTab, OwnerStep(t)
      PROVE  late' \in Late /\ LateIsBacked'
  BY <1>5, <1>1 DEF OwnerStep, EditMessage, DeleteMessage, ChangeUnsent, deliveryVars
<1> QED BY <1>1, <1>2, <1>3, <1>4, <1>5 DEF Next, vars, deliveryVars, DeliverySends, Restart

-----------------------------------------------------------------------------
(* Frames on the way *)

PipeGoal == pipe' \in [Tab -> Seq(Frame)] /\ FramesAreBacked'

(* Every frame of a pipe was in it before, or is backed now.               *)
LEMMA PipeKeepsBacked ==
  ASSUME TypeOK, FramesAreBacked, HistoryStays, pipe' \in [Tab -> Seq(Frame)],
         \A t \in Tab : \A i \in 1..Len(pipe'[t]) :
            \/ \E j \in 1..Len(pipe[t]) : pipe'[t][i] = pipe[t][j]
            \/ \E f : pipe'[t][i] = f /\ FrameBacked(f)'
  PROVE  PipeGoal
<1> SUFFICES ASSUME NEW t \in Tab, NEW i \in 1..Len(pipe'[t])
             PROVE  FrameBacked(pipe[t][i])'
  BY DEF PipeGoal, FramesAreBacked
<1>1. ASSUME NEW f, pipe'[t][i] = f, FrameBacked(f)'
      PROVE  FrameBacked(pipe[t][i])'
  BY <1>1 DEF FrameBacked, IsStored
<1>2. ASSUME NEW j \in 1..Len(pipe[t]), pipe'[t][i] = pipe[t][j]
      PROVE  FrameBacked(pipe[t][i])'
  <2>1. PICK f : f = pipe[t][j]
    OBVIOUS
  <2>2. FrameBacked(f)
    BY <2>1 DEF FramesAreBacked, FrameBacked, IsStored
  <2>3. FrameBacked(f)'
    BY <2>2, FrameStays
  <2> QED BY <1>1, <1>2, <2>1, <2>3
<1> QED BY <1>1, <1>2

(* One frame to some of the tabs.                                          *)
LEMMA PipeSends ==
  ASSUME TypeOK, FramesAreBacked, HistoryStays, NEW S, NEW f \in Frame, FrameBacked(f)',
         pipe' = [t \in Tab |-> IF t \in S THEN Append(pipe[t], f) ELSE pipe[t]]
  PROVE  PipeGoal
<1>1. pipe \in [Tab -> Seq(Frame)]
  BY DEF TypeOK
<1>2. ASSUME NEW t \in Tab
      PROVE  /\ Append(pipe[t], f) \in Seq(Frame)
             /\ Len(Append(pipe[t], f)) = Len(pipe[t]) + 1
             /\ Append(pipe[t], f)[Len(pipe[t]) + 1] = f
             /\ \A i \in 1..Len(pipe[t]) : Append(pipe[t], f)[i] = pipe[t][i]
             /\ Len(pipe[t]) \in Nat
  BY <1>1
<1>3. pipe' \in [Tab -> Seq(Frame)]
  BY <1>1, <1>2
<1>4. ASSUME NEW t \in Tab, NEW i \in 1..Len(pipe'[t])
      PROVE  \/ \E j \in 1..Len(pipe[t]) : pipe'[t][i] = pipe[t][j]
             \/ pipe'[t][i] = f
  BY <1>2, <1>4
<1> QED BY <1>3, <1>4, PipeKeepsBacked

(* Every step keeps the frames on the way backed.                          *)
LEMMA PipeStep ==
  ASSUME TypeOK, WrittenIsStamped, LateIsBacked, FramesAreBacked, HistoryStays, [Next]_vars
  PROVE  PipeGoal
<1>0. pipe \in [Tab -> Seq(Frame)]
  BY DEF TypeOK
<1>1. CASE UNCHANGED pipe
  BY <1>0, <1>1, PipeKeepsBacked
<1>2. ASSUME NEW o \in OpId, HandlerStep(o)
      PROVE  PipeGoal
  <2>1. CASE BroadcastsChange(o)
    <3>0. [kind |-> op[o].kind, op |-> o, text |-> op[o].text] \in Frame
      BY DEF TypeOK, Op, Frame
    <3>1. PICK f \in Frame : f = [kind |-> op[o].kind, op |-> o, text |-> op[o].text]
      BY <3>0
    <3>2. op[o].wrote /\ (op[o].kind = "delete" => row.deleted)
      BY <2>1 DEF BroadcastsChange, WrittenIsStamped
    <3>3. FrameBacked(f)
      BY <3>1, <3>2 DEF FrameBacked, Edits, TypeOK, Op
    <3>4. FrameBacked(f)'
      BY <3>3, FrameStays
    <3>5. pipe' = [t \in Tab |-> IF t \in conn THEN Append(pipe[t], f) ELSE pipe[t]]
      BY <2>1, <3>1 DEF BroadcastsChange, ToAll
    <3> QED BY <3>4, <3>5, PipeSends
  <2>2. CASE RefusesChange(o)
    <3>0. [kind |-> "refused", op |-> NoOp, text |-> NoText] \in Frame
      BY DEF Frame
    <3>1. PICK f \in Frame : f = [kind |-> "refused", op |-> NoOp, text |-> NoText]
      BY <3>0
    <3>2. FrameBacked(f)'
      BY <3>1 DEF FrameBacked
    <3>3. CASE op[o].tab \in conn
      <4>1. pipe' = [pipe EXCEPT ![op[o].tab] = Append(@, f)]
        BY <2>2, <3>1, <3>3 DEF RefusesChange
      <4>2. pipe' = [t \in Tab |-> IF t \in {op[o].tab} THEN Append(pipe[t], f) ELSE pipe[t]]
        BY <1>0, <4>1
      <4> QED BY <3>1, <3>2, <4>2, PipeSends
    <3> QED BY <1>1, <2>2, <3>3 DEF RefusesChange
  <2> QED BY <1>1, <1>2, <2>1, <2>2 DEF HandlerStep, FindsCached, ReadsRow, CachesRow,
             SkipsEdit, StampsChange, AppliesChange, FailsWrite, tabVars
<1>3. CASE DeliverySends
  <2>0. [kind |-> "receive", op |-> NoOp, text |-> late.text] \in Frame
    BY DEF TypeOK, Late, Frame
  <2>1. PICK f \in Frame : f = [kind |-> "receive", op |-> NoOp, text |-> late.text]
    BY <2>0
  <2>2. IsStored(late.text) /\ row' = row /\ op' = op
    BY <1>3 DEF DeliverySends, LateIsBacked, serverVars
  <2>3. pipe' = [t \in Tab |-> IF t \in late.to \cap conn THEN Append(pipe[t], f) ELSE pipe[t]]
    BY <1>3, <2>1 DEF DeliverySends
  <2>4. FrameBacked(f)
    BY <2>1, <2>2 DEF FrameBacked, IsStored
  <2> QED BY <2>3, <2>4, FrameStays, PipeSends
<1>4. CASE Restart
  <2>1. pipe' = [t \in Tab |-> <<>>]
    BY <1>4 DEF Restart
  <2>2. pipe' \in [Tab -> Seq(Frame)] /\ \A t \in Tab : Len(pipe'[t]) = 0
    BY <2>1
  <2> QED BY <2>2, PipeKeepsBacked
<1>5. ASSUME NEW t \in Tab, TabStep(t)
      PROVE  PipeGoal
  <2>1. CASE FrameArrives(t)
    <3>1. pipe[t] # <<>> /\ pipe' = [pipe EXCEPT ![t] = Tail(@)] /\ pipe[t] \in Seq(Frame)
      BY <1>0, <2>1 DEF FrameArrives
    <3>2. Tail(pipe[t]) \in Seq(Frame) /\ Len(Tail(pipe[t])) = Len(pipe[t]) - 1
          /\ \A i \in 1..Len(Tail(pipe[t])) : Tail(pipe[t])[i] = pipe[t][i + 1]
                                              /\ i + 1 \in 1..Len(pipe[t])
      BY <3>1
    <3>3. pipe' \in [Tab -> Seq(Frame)]
      BY <1>0, <3>1, <3>2
    <3>4. ASSUME NEW u \in Tab, NEW i \in 1..Len(pipe'[u])
          PROVE  \E j \in 1..Len(pipe[u]) : pipe'[u][i] = pipe[u][j]
      BY <1>0, <3>1, <3>2, <3>4
    <3> QED BY <3>3, <3>4, PipeKeepsBacked
  <2>2. CASE Disconnect(t)
    <3>1. pipe' = [pipe EXCEPT ![t] = <<>>]
      BY <2>2 DEF Disconnect
    <3>2. pipe' \in [Tab -> Seq(Frame)] /\ \A u \in Tab : pipe'[u] = pipe[u] \/ Len(pipe'[u]) = 0
      BY <1>0, <3>1
    <3>3. ASSUME NEW u \in Tab, NEW i \in 1..Len(pipe'[u])
          PROVE  \E j \in 1..Len(pipe[u]) : pipe'[u][i] = pipe[u][j]
      BY <3>2, <3>3
    <3> QED BY <3>2, <3>3, PipeKeepsBacked
  <2> QED BY <1>1, <1>5, <2>1, <2>2 DEF TabStep, ReplayReads, LoadStarts, LoadReads,
             LoadArrives, LoadFails, Connect, ReloadPage, tabVars
<1>6. ASSUME NEW t \in OwnerTab, OwnerStep(t)
      PROVE  PipeGoal
  BY <1>6, <1>1 DEF OwnerStep, EditMessage, DeleteMessage, ChangeUnsent
<1> QED BY <1>1, <1>2, <1>3, <1>4, <1>5, <1>6 DEF Next, vars, tabVars

-----------------------------------------------------------------------------
(* History that is being loaded *)

LoadGoal == load' \in [Tab -> Load] /\ LoadsAreBacked'

(* A load that is read was read before, or is backed now.                  *)
LEMMA LoadKeepsBacked ==
  ASSUME LoadsAreBacked, HistoryStays, load' \in [Tab -> Load],
         \A t \in Tab : \/ load'[t] = load[t]
                        \/ load'[t].pc # "read"
                        \/ \E l : load'[t] = l /\ LoadBacked(l)
  PROVE  LoadGoal
<1> SUFFICES ASSUME NEW t \in Tab, load'[t].pc = "read"
             PROVE  LoadBacked(load[t])'
  BY DEF LoadGoal, LoadsAreBacked
<1>1. PICK l : l = load'[t]
  OBVIOUS
<1>2. LoadBacked(l)
  BY <1>1 DEF LoadsAreBacked
<1>3. LoadBacked(l)'
  BY <1>2, LoadStays
<1> QED BY <1>1, <1>3

(* Loads that start, or stop.                                              *)
LEMMA AskingFacts ==
  ASSUME TypeOK, NEW t \in Tab
  PROVE  /\ load \in [Tab -> Load]
         /\ NoLoad \in Load /\ NoLoad.pc # "read"
         /\ Asking(t) \in [Tab -> Load]
         /\ \A u \in Tab : Asking(t)[u] = load[u] \/ Asking(t)[u].pc = "asked"
<1>1. load \in [Tab -> Load] /\ load[t] \in Load
  BY DEF TypeOK
<1>2. [load[t] EXCEPT !.pc = "asked"] \in Load /\ [load[t] EXCEPT !.pc = "asked"].pc = "asked"
  BY <1>1 DEF Load
<1>3. NoLoad \in Load /\ NoLoad.pc # "read"
  BY DEF NoLoad, Load, FirstRow, Row
<1> QED BY <1>1, <1>2, <1>3 DEF Asking

(* A page of history that is read now is backed.                           *)
LEMMA LoadReadsFacts ==
  ASSUME TypeOK, RowIsBacked,
         NEW l, l = [pc |-> "read", row |-> row, ops |-> {o \in Edits : op[o].at <= row.at}]
  PROVE  l \in Load /\ LoadBacked(l)
<1>1. l \in Load
  BY DEF Load, TypeOK, Edits
<1>2. \A o \in OpId : op[o].at \in Nat
  BY DEF TypeOK, Op
<1>3. row.at \in Nat
  BY DEF TypeOK, Row
<1>4. row.at # 0 => \E o \in l.ops : op[o].at = row.at /\ op[o].text = row.text
  <2>1. SUFFICES ASSUME row.at # 0
                 PROVE  \E o \in l.ops : op[o].at = row.at /\ op[o].text = row.text
    OBVIOUS
  <2>2. PICK o \in Edits : op[o].at = row.at /\ op[o].text = row.text
    BY <2>1 DEF RowIsBacked, Carries
  <2> QED BY <2>2, <1>3
<1> QED BY <1>1, <1>4 DEF RowIsBacked, LoadBacked, Carries

(* And the pages of history that are being loaded.                         *)
LEMMA LoadStep ==
  ASSUME TypeOK, RowIsBacked, LoadsAreBacked, HistoryStays, [Next]_vars
  PROVE  LoadGoal
<1>1. CASE UNCHANGED load
  BY <1>1, LoadKeepsBacked DEF TypeOK
<1>2. ASSUME NEW t \in Tab, load' = Asking(t)
      PROVE  LoadGoal
  BY <1>2, AskingFacts, LoadKeepsBacked
<1>3. ASSUME NEW t \in Tab, load' = [load EXCEPT ![t] = NoLoad]
      PROVE  LoadGoal
  <2>1. load' \in [Tab -> Load] /\ \A u \in Tab : load'[u] = load[u] \/ load'[u].pc # "read"
    BY <1>3, AskingFacts
  <2> QED BY <2>1, LoadKeepsBacked
<1>4. ASSUME NEW t \in Tab, LoadReads(t)
      PROVE  LoadGoal
  <2>1. PICK l : l = [pc |-> "read", row |-> row, ops |-> {o \in Edits : op[o].at <= row.at}]
    OBVIOUS
  <2>2. l \in Load /\ LoadBacked(l)
    BY <2>1, LoadReadsFacts
  <2>3. load' = [load EXCEPT ![t] = l]
    BY <1>4, <2>1 DEF LoadReads
  <2>4. load' \in [Tab -> Load] /\ \A u \in Tab : load'[u] = load[u] \/ load'[u] = l
    BY <2>2, <2>3, AskingFacts
  <2> QED BY <2>2, <2>4, LoadKeepsBacked
<1>5. ASSUME NEW t \in Tab, TabStep(t)
      PROVE  LoadGoal
  <2>1. CASE FrameArrives(t)
    BY <2>1, <1>1, <1>2 DEF FrameArrives
  <2> QED BY <1>1, <1>2, <1>3, <1>4, <1>5, <2>1 DEF TabStep, ReplayReads, LoadStarts,
             LoadArrives, LoadFails, Disconnect, Connect, ReloadPage, tabVars
<1>6. ASSUME NEW t \in OwnerTab, OwnerStep(t)
      PROVE  LoadGoal
  BY <1>6, <1>1, <1>2 DEF OwnerStep, EditMessage, DeleteMessage, ChangeUnsent, Tab
<1>7. ASSUME NEW o \in OpId, HandlerStep(o)
      PROVE  LoadGoal
  BY <1>7, <1>1 DEF HandlerStep, FindsCached, ReadsRow, CachesRow, SkipsEdit, StampsChange,
     AppliesChange, BroadcastsChange, RefusesChange, FailsWrite, tabVars
<1> QED BY <1>1, <1>5, <1>6, <1>7 DEF Next, vars, tabVars, DeliverySends, Restart

-----------------------------------------------------------------------------
(* Bubbles *)

(* What the invariant says of a tab whose bubble is b and that has met the *)
(* edits of S.                                                             *)
BubbleBacked(t, b, S) ==
    /\ S \subseteq Edits
    /\ b.shown /\ b.deleted => row.deleted \/ b.mine
    /\ t \in PeerTab => /\ b.shown => IsStored(b.text)
                        /\ ~b.shown => b.at = 0
                        /\ Carries(b, S)
                        /\ \A o \in S : op[o].at <= b.at

(* A backed bubble stays backed while the row's history grows.             *)
LEMMA BubbleStays ==
  ASSUME HistoryStays, NEW t, NEW b, NEW S, BubbleBacked(t, b, S)
  PROVE  BubbleBacked(t, b, S)'
<1>1. S \subseteq Edits /\ (b.shown /\ b.deleted => row'.deleted \/ b.mine)
  BY DEF BubbleBacked, HistoryStays
<1>2. ASSUME t \in PeerTab
      PROVE  /\ b.shown => IsStored(b.text)'
             /\ Carries(b, S)'
             /\ \A o \in S : op'[o].at <= b.at
  <2>1. Carries(b, S) /\ \A o \in S : op[o].at <= b.at
    BY <1>2 DEF BubbleBacked
  <2>2. \A o \in S : op'[o].at <= b.at
    BY <1>1, <2>1 DEF HistoryStays, Edits
  <2>3. b.shown => IsStored(b.text)'
    BY <1>2, StoredStays DEF BubbleBacked
  <2> QED BY <1>1, <2>1, <2>2, <2>3, CarriedStays DEF Carries
<1> QED BY <1>1, <1>2, EditsStay DEF BubbleBacked

(* What each change of a bubble leaves backed.                             *)
LEMMA EditShownBacked ==
  ASSUME TypeOK, WrittenIsStamped, NEW t, NEW b \in Bubble, NEW S, NEW o \in Edits,
         b.shown, BubbleBacked(t, b, S)
  PROVE  EditShown(b, o) \in Bubble /\ BubbleBacked(t, EditShown(b, o), S \cup {o})
<1>1. /\ o \in OpId /\ op[o].kind = "edit" /\ op[o].wrote /\ op[o].at \in Nat /\ op[o].at >= 1
      /\ op[o].text \in Text
  BY DEF Edits, TypeOK, Op, WrittenIsStamped
<1>2. \A p \in S : op[p].at \in Nat /\ op[p].at >= 1
  BY DEF BubbleBacked, Edits, TypeOK, Op, WrittenIsStamped
<1>3. b.at \in Nat
  BY DEF Bubble
<1>4. CASE IsStale(b, op[o].at)
  <2>1. EditShown(b, o) = b /\ op[o].at <= b.at
    BY <1>1, <1>3, <1>4 DEF EditShown, IsStale
  <2> QED BY <2>1 DEF BubbleBacked, Carries
<1>5. CASE ~IsStale(b, op[o].at)
  <2>1. PICK e : e = EditShown(b, o)
    OBVIOUS
  <2>2. e \in Bubble /\ e.shown /\ e.text = op[o].text /\ e.at = op[o].at /\ ~e.deleted
    BY <1>1, <1>5, <2>1 DEF EditShown, Bubble
  <2>3. t \in PeerTab => \A p \in S : op[p].at <= op[o].at
    BY <1>1, <1>2, <1>3, <1>5 DEF BubbleBacked, IsStale
  <2>4. IsStored(e.text) /\ Carries(e, S \cup {o})
    BY <2>2 DEF IsStored, Carries
  <2>5. BubbleBacked(t, e, S \cup {o})
    BY <1>1, <2>2, <2>3, <2>4 DEF BubbleBacked
  <2> QED BY <2>1, <2>2, <2>5
<1> QED BY <1>4, <1>5

(* The frame of a delete, when the row is deleted, leaves a backed bubble. *)
LEMMA DeleteShownBacked ==
  ASSUME row.deleted, NEW t, NEW b \in Bubble, NEW S, BubbleBacked(t, b, S)
  PROVE  DeleteShown(b) \in Bubble /\ BubbleBacked(t, DeleteShown(b), S)
<1>1. PICK e : e = DeleteShown(b)
  OBVIOUS
<1>2. e \in Bubble /\ e.shown = b.shown /\ e.text = b.text /\ e.at = b.at
  BY <1>1 DEF DeleteShown, Bubble
<1>3. BubbleBacked(t, e, S)
  BY <1>2 DEF BubbleBacked, Carries
<1> QED BY <1>1, <1>2, <1>3

(* So does the delivery of a text the row has had.                         *)
LEMMA ReceiveShownBacked ==
  ASSUME TypeOK, NEW t, NEW c, IsStored(c)
  PROVE  ReceiveShown(c) \in Bubble /\ BubbleBacked(t, ReceiveShown(c), {})
<1>1. c \in Text
  BY StoredIsText
<1> QED BY <1>1 DEF ReceiveShown, NoBubble, Bubble, BubbleBacked, Carries

(* And so is the empty list of a reloaded page.                            *)
LEMMA NoBubbleBacked ==
  ASSUME NEW t
  PROVE  NoBubble \in Bubble /\ BubbleBacked(t, NoBubble, {})
BY DEF NoBubble, Bubble, BubbleBacked, Carries

(* Of the edits a tab and a page of history have met, the merged bubble    *)
(* has met those up to its stamp, and all of them where the greater stamp  *)
(* has won.                                                                *)
LEMMA MergedBacked ==
  ASSUME TypeOK, WrittenIsStamped, NEW t, NEW b \in Bubble, NEW S, BubbleBacked(t, b, S),
         NEW l \in Load, LoadBacked(l), NEW e \in Merged(b, l.row),
         NEW M, M = {o \in S \cup l.ops : op[o].at <= e.at \/ (~b.deleted /\ ~l.row.deleted)}
  PROVE  e \in Bubble /\ BubbleBacked(t, e, M)
<1>1. /\ l.row \in Row /\ l.row.at \in Nat /\ b.at \in Nat
      /\ b.shown \in BOOLEAN /\ b.deleted \in BOOLEAN /\ l.row.deleted \in BOOLEAN
  BY DEF Load, Row, Bubble
<1>2. \A o \in S \cup l.ops : o \in Edits /\ op[o].at \in Nat /\ op[o].at >= 1
  BY DEF BubbleBacked, LoadBacked, Edits, TypeOK, Op, WrittenIsStamped
<1>3. M \subseteq Edits
  BY <1>2
<1>4. CASE e = AsBubble(l.row) /\ (~b.shown \/ b.deleted \/ l.row.deleted \/ ~(b.at >= l.row.at))
  <2>1. /\ e \in Bubble /\ e.shown /\ e.text = l.row.text /\ e.at = l.row.at
        /\ e.deleted = l.row.deleted
    BY <1>1, <1>4 DEF AsBubble, Bubble, Row
  <2>2. Carries(e, M)
    BY <1>1, <1>2, <2>1 DEF LoadBacked, Carries
  <2>3. t \in PeerTab => \A o \in M : op[o].at <= e.at
    <3>1. SUFFICES ASSUME t \in PeerTab, NEW o \in M, ~(op[o].at <= e.at)
                   PROVE  FALSE
      OBVIOUS
    <3>2. ~b.deleted /\ ~l.row.deleted /\ o \in S
      BY <2>1, <3>1 DEF LoadBacked
    <3>3. op[o].at <= b.at /\ (~b.shown => b.at = 0)
      BY <3>1, <3>2 DEF BubbleBacked
    <3>4. b.shown
      BY <1>1, <1>2, <3>2, <3>3
    <3>5. ~(b.at >= l.row.at)
      BY <1>4, <3>2, <3>4
    <3> QED BY <1>1, <1>2, <2>1, <3>1, <3>2, <3>3, <3>5
  <2> QED BY <1>3, <2>1, <2>2, <2>3 DEF BubbleBacked, LoadBacked
<1>5. CASE e = b /\ b.shown /\ (b.deleted \/ (~l.row.deleted /\ b.at >= l.row.at))
  <2>1. t \in PeerTab => Carries(e, M)
    BY <1>1, <1>2, <1>5 DEF BubbleBacked, Carries
  <2>2. t \in PeerTab => \A o \in M : op[o].at <= e.at
    <3>1. SUFFICES ASSUME t \in PeerTab, NEW o \in M, ~(op[o].at <= e.at)
                   PROVE  FALSE
      OBVIOUS
    <3>2. ~b.deleted /\ ~l.row.deleted /\ b.at >= l.row.at
      BY <1>5, <3>1
    <3>3. o \in S => op[o].at <= b.at
      BY <3>1 DEF BubbleBacked
    <3>4. o \in l.ops => op[o].at <= l.row.at
      BY DEF LoadBacked
    <3> QED BY <1>1, <1>2, <1>5, <3>1, <3>2, <3>3, <3>4
  <2> QED BY <1>3, <1>5, <2>1, <2>2 DEF BubbleBacked
<1>6. \/ e = AsBubble(l.row) /\ (~b.shown \/ b.deleted \/ l.row.deleted \/ ~(b.at >= l.row.at))
      \/ e = b /\ b.shown /\ (b.deleted \/ (~l.row.deleted /\ b.at >= l.row.at))
  BY DEF Merged
<1> QED BY <1>4, <1>5, <1>6

(* The edits a tab has met and not gone back behind, tab by tab.           *)
kept == [t \in Tab |-> Kept(t)]

MetType == /\ heard \in [Tab -> SUBSET OpId]
           /\ replaced \in [Tab -> SUBSET OpId]
           /\ buried \in [Tab -> SUBSET OpId]

(* A step that leaves what the tabs have met leaves what they keep of it.  *)
LEMMA KeptStays ==
  ASSUME UNCHANGED metVars
  PROVE  kept' = kept
BY DEF metVars, kept, Kept

(* What a tab keeps after an edit frame, a MESSAGE_RECEIVE, a page of      *)
(* history with the edits L, which takes it back behind B, and a reload.   *)
LEMMA KeptAfterEdit ==
  ASSUME MetType, NEW t \in Tab, NEW o \in OpId,
         heard' = [heard EXCEPT ![t] = @ \cup {o}],
         replaced' = [replaced EXCEPT ![t] = @ \ {o}],
         buried' = [buried EXCEPT ![t] = @ \ {o}]
  PROVE  kept' = [kept EXCEPT ![t] = @ \cup {o}]
BY Zenon DEF MetType, kept, Kept

LEMMA KeptAfterReceive ==
  ASSUME MetType, NEW t \in Tab,
         replaced' = [replaced EXCEPT ![t] = heard[t]], UNCHANGED <<heard, buried>>
  PROVE  kept' = [kept EXCEPT ![t] = {}]
BY DEF MetType, kept, Kept

LEMMA KeptAfterLoad ==
  ASSUME MetType, NEW t \in Tab, NEW L \in SUBSET OpId, NEW B \in SUBSET OpId,
         heard' = [heard EXCEPT ![t] = @ \cup L],
         replaced' = [replaced EXCEPT ![t] = @ \ L],
         buried' = [buried EXCEPT ![t] = (@ \ L) \cup (heard'[t] \cap B)]
  PROVE  kept' = [kept EXCEPT ![t] = (@ \cup L) \ B]
BY DEF MetType, kept, Kept

LEMMA KeptAfterReload ==
  ASSUME MetType, NEW t \in Tab,
         heard' = [heard EXCEPT ![t] = {}],
         replaced' = [replaced EXCEPT ![t] = {}],
         buried' = [buried EXCEPT ![t] = {}]
  PROVE  kept' = [kept EXCEPT ![t] = {}]
BY DEF MetType, kept, Kept

(* Two parts of the inductive invariant, together, tab by tab.             *)
LEMMA BubblesAreBacked ==
  ASSUME IInv, NEW t \in Tab
  PROVE  /\ view \in [Tab -> Bubble] /\ view[t] \in Bubble
         /\ kept \in [Tab -> SUBSET OpId]
         /\ BubbleBacked(t, view[t], kept[t])
BY DEF IInv, TypeOK, Follows, ShownIsStored, DeletedIsTrue, BubbleBacked, kept, Kept

BubbleGoal ==
    /\ view' \in [Tab -> Bubble]
    /\ kept' \in [Tab -> SUBSET OpId]
    /\ \A t \in PeerTab : Follows(t)'
    /\ ShownIsStored'
    /\ DeletedIsTrue'

(* A step that changes the bubble of at most one tab, to one that is       *)
(* backed by the history before the step.                                  *)
LEMMA BubbleKeepsBacked ==
  ASSUME IInv, HistoryStays, NEW t \in Tab, NEW b \in Bubble, NEW S, BubbleBacked(t, b, S),
         view' = [view EXCEPT ![t] = b], kept' = [kept EXCEPT ![t] = S]
  PROVE  BubbleGoal
<1>1. view \in [Tab -> Bubble] /\ kept \in [Tab -> SUBSET OpId]
  BY BubblesAreBacked
<1>2. S \subseteq OpId
  BY DEF BubbleBacked, Edits
<1>3. view' \in [Tab -> Bubble] /\ kept' \in [Tab -> SUBSET OpId]
  BY <1>1, <1>2
<1>4. ASSUME NEW u \in Tab
      PROVE  BubbleBacked(u, view[u], kept[u])'
  <2>1. PICK c, M : c = view'[u] /\ M = kept'[u]
    OBVIOUS
  <2>2. BubbleBacked(u, c, M)
    <3>1. CASE u = t
      BY <1>1, <2>1, <3>1
    <3>2. CASE u # t
      BY <1>1, <2>1, <3>2, BubblesAreBacked
    <3> QED BY <3>1, <3>2
  <2>3. BubbleBacked(u, c, M)'
    BY <2>2, BubbleStays
  <2> QED BY <2>1, <2>3 DEF BubbleBacked, Carries
<1>5. PeerTab \subseteq Tab
  BY DEF Tab
<1>6. \A u \in Tab : kept'[u] = Kept(u)'
  BY DEF kept, Kept
<1> QED BY <1>3, <1>4, <1>5, <1>6
        DEF BubbleGoal, BubbleBacked, Follows, ShownIsStored, DeletedIsTrue, Carries

(* A step that touches no bubble keeps them backed.                        *)
LEMMA BubblesUntouched ==
  ASSUME IInv, HistoryStays, UNCHANGED <<view, kept>>
  PROVE  BubbleGoal
<1>1. PICK t \in Tab : TRUE
  BY DEF Tab
<1>2. PICK b \in Bubble : b = view[t]
  BY BubblesAreBacked
<1>3. PICK S : S = kept[t]
  OBVIOUS
<1>4. BubbleBacked(t, b, S)
  BY <1>2, <1>3, BubblesAreBacked DEF BubbleBacked, Carries
<1>5. view' = [view EXCEPT ![t] = b] /\ kept' = [kept EXCEPT ![t] = S]
  BY <1>2, <1>3, BubblesAreBacked
<1> QED BY <1>4, <1>5, BubbleKeepsBacked

(* The tab's own changes are an owner's.                                   *)
LEMMA OwnChangeStep ==
  ASSUME IInv, HistoryStays, NEW t \in OwnerTab, Changeable(t), UNCHANGED kept,
         NEW b, view' = [view EXCEPT ![t] = b],
         (\E c \in Text : b = Edited(t, c)) \/ b = Deleted(t)
  PROVE  BubbleGoal
<1>0. t \in Tab /\ t \notin PeerTab
  BY DEF Tab
<1>1. PICK S : S = kept[t]
  OBVIOUS
<1>2. view[t] \in Bubble /\ BubbleBacked(t, view[t], S) /\ kept \in [Tab -> SUBSET OpId]
  BY <1>0, <1>1, BubblesAreBacked
<1>3. now + Skew[t] \in Nat
  BY DEF IInv, TypeOK
<1>4. b \in Bubble /\ (b.deleted => b.mine)
  BY <1>2, <1>3 DEF Edited, Deleted, Bubble, Changeable
<1>5. BubbleBacked(t, b, S)
  BY <1>0, <1>2, <1>4 DEF BubbleBacked
<1>6. kept' = [kept EXCEPT ![t] = S]
  BY <1>0, <1>1, <1>2
<1> QED BY <1>0, <1>4, <1>5, <1>6, BubbleKeepsBacked

(* A tab that takes a frame keeps its bubble backed.                       *)
LEMMA FrameArrivesStep ==
  ASSUME IInv, HistoryStays, NEW t \in Tab, FrameArrives(t)
  PROVE  BubbleGoal
<1>0. view[t] \in Bubble /\ kept \in [Tab -> SUBSET OpId]
      /\ BubbleBacked(t, view[t], kept[t])
  BY BubblesAreBacked
<1>1. PICK f \in Frame : f = Head(pipe[t]) /\ FrameBacked(f)
  <2>1. pipe[t] \in Seq(Frame) /\ pipe[t] # <<>>
    BY DEF IInv, TypeOK, FrameArrives
  <2>2. Head(pipe[t]) = pipe[t][1] /\ 1 \in 1..Len(pipe[t]) /\ Head(pipe[t]) \in Frame
    BY <2>1
  <2>3. FrameBacked(pipe[t][1])
    BY <2>2 DEF IInv, FramesAreBacked
  <2> QED BY <2>2, <2>3
<1>v. PICK v \in Bubble : v = view[t]
  BY <1>0
<1>2. PICK S : v = view[t] /\ S = kept[t] /\ BubbleBacked(t, v, S)
  BY <1>0, <1>v DEF BubbleBacked, Carries
<1>m. MetType
  BY DEF IInv, TypeOK, MetType
<1>3. CASE /\ f.kind = "edit" /\ view[t].shown
           /\ view' = [view EXCEPT ![t] = EditShown(@, f.op)]
           /\ heard' = [heard EXCEPT ![t] = @ \cup {f.op}]
           /\ replaced' = [replaced EXCEPT ![t] = @ \ {f.op}]
           /\ buried' = [buried EXCEPT ![t] = @ \ {f.op}]
  <2>1. f.op \in Edits /\ f.op \in OpId
    BY <1>1, <1>3 DEF FrameBacked, Edits
  <2>5. kept' = [kept EXCEPT ![t] = @ \cup {f.op}]
    BY <1>m, <1>3, <2>1, KeptAfterEdit
  <2>2. PICK b : b = EditShown(v, f.op)
    OBVIOUS
  <2>3. b \in Bubble /\ BubbleBacked(t, b, S \cup {f.op})
    BY <1>2, <1>3, <2>1, <2>2, EditShownBacked DEF IInv
  <2>4. view' = [view EXCEPT ![t] = b] /\ kept' = [kept EXCEPT ![t] = S \cup {f.op}]
    BY <1>2, <1>3, <2>2, <2>5
  <2> QED BY <2>3, <2>4, BubbleKeepsBacked
<1>4. CASE /\ f.kind = "delete"
           /\ view' = [view EXCEPT ![t] = DeleteShown(@)]
           /\ UNCHANGED metVars
  <2>1. PICK b : b = DeleteShown(v)
    OBVIOUS
  <2>2. b \in Bubble /\ BubbleBacked(t, b, S)
    BY <1>1, <1>2, <1>4, <2>1, DeleteShownBacked DEF FrameBacked
  <2>3. view' = [view EXCEPT ![t] = b] /\ kept' = [kept EXCEPT ![t] = S]
    BY <1>0, <1>2, <1>4, <2>1, KeptStays
  <2> QED BY <2>2, <2>3, BubbleKeepsBacked
<1>5. CASE /\ f.kind = "receive"
           /\ view' = [view EXCEPT ![t] = ReceiveShown(f.text)]
           /\ replaced' = [replaced EXCEPT ![t] = heard[t]]
           /\ UNCHANGED <<heard, buried>>
  <2>1. PICK b : b = ReceiveShown(f.text)
    OBVIOUS
  <2>2. b \in Bubble /\ BubbleBacked(t, b, {})
    BY <1>1, <1>5, <2>1, ReceiveShownBacked DEF FrameBacked, IInv
  <2>3. kept' = [kept EXCEPT ![t] = {}]
    BY <1>m, <1>5, KeptAfterReceive
  <2> QED BY <1>5, <2>1, <2>2, <2>3, BubbleKeepsBacked
<1>6. CASE UNCHANGED <<view, metVars>>
  BY <1>6, KeptStays, BubblesUntouched
<1> QED BY <1>1, <1>3, <1>4, <1>5, <1>6 DEF FrameArrives

(* A tab that merges a page of history keeps its bubble backed.            *)
LEMMA LoadArrivesStep ==
  ASSUME IInv, HistoryStays, NEW t \in Tab, LoadArrives(t)
  PROVE  BubbleGoal
<1>0. view[t] \in Bubble /\ BubbleBacked(t, view[t], kept[t])
  BY BubblesAreBacked
<1>v. PICK v \in Bubble : v = view[t]
  BY <1>0
<1>1. PICK S : v = view[t] /\ S = kept[t] /\ BubbleBacked(t, v, S)
  BY <1>0, <1>v DEF BubbleBacked, Carries
<1>2. PICK l \in Load : l = load[t] /\ LoadBacked(l)
  <2>1. load[t] \in Load /\ LoadBacked(load[t])
    BY DEF IInv, TypeOK, LoadsAreBacked, LoadArrives
  <2> QED BY <2>1 DEF LoadBacked, Carries, IsStored
<1>3. PICK b \in Merged(view[t], load[t].row) :
        /\ view' = [view EXCEPT ![t] = b]
        /\ heard' = [heard EXCEPT ![t] = @ \cup load[t].ops]
        /\ replaced' = [replaced EXCEPT ![t] = @ \ load[t].ops]
        /\ buried' = [buried EXCEPT ![t] = (@ \ load[t].ops) \cup
                         {o \in heard'[t] :
                            /\ op[o].at > b.at
                            /\ view[t].deleted \/ load[t].row.deleted}]
  BY DEF LoadArrives
<1>m. MetType /\ l.ops \in SUBSET OpId
  BY DEF IInv, TypeOK, MetType, Load
<1>8. PICK B \in SUBSET OpId :
        B = {o \in OpId : op[o].at > b.at /\ (v.deleted \/ l.row.deleted)}
  OBVIOUS
<1>9. heard'[t] \subseteq OpId
  BY <1>m, <1>2, <1>3 DEF MetType
<1>10. buried' = [buried EXCEPT ![t] = (@ \ l.ops) \cup (heard'[t] \cap B)]
  <2>1. heard'[t] \cap B = {o \in heard'[t] :
                              op[o].at > b.at /\ (view[t].deleted \/ load[t].row.deleted)}
    BY <1>1, <1>2, <1>8, <1>9
  <2> QED BY <1>2, <1>3, <2>1
<1>11. kept' = [kept EXCEPT ![t] = (@ \cup l.ops) \ B]
  BY <1>2, <1>3, <1>m, <1>10, KeptAfterLoad
<1>4. PICK M : M = {o \in S \cup l.ops : op[o].at <= b.at \/ (~v.deleted /\ ~l.row.deleted)}
  OBVIOUS
<1>5. b \in Merged(v, l.row)
  BY <1>1, <1>2, <1>3
<1>6. b \in Bubble /\ BubbleBacked(t, b, M)
  BY <1>1, <1>2, <1>4, <1>5, MergedBacked DEF IInv
<1>7. kept' = [kept EXCEPT ![t] = M]
  <2>1. S \subseteq OpId /\ b.at \in Nat /\ \A o \in OpId : op[o].at \in Nat
    BY <1>1, <1>6 DEF IInv, TypeOK, Op, Bubble, BubbleBacked, Edits
  <2>2. (S \cup l.ops) \ B = M
    BY <1>m, <1>4, <1>8, <2>1
  <2> QED BY <1>1, <1>11, <2>2
<1> QED BY <1>3, <1>6, <1>7, BubbleKeepsBacked

(* Every step keeps the bubbles backed.                                    *)
LEMMA BubbleStep ==
  ASSUME IInv, HistoryStays, [Next]_vars
  PROVE  BubbleGoal
<1>1. CASE UNCHANGED <<view, metVars>>
  BY <1>1, KeptStays, BubblesUntouched
<1>2. ASSUME NEW t \in OwnerTab, OwnerStep(t)
      PROVE  BubbleGoal
  <2>1. ASSUME NEW c \in Text, EditMessage(t, c)
        PROVE  BubbleGoal
    <3>1. PICK b : b = Edited(t, c)
      OBVIOUS
    <3> QED BY <2>1, <3>1, KeptStays, OwnChangeStep DEF EditMessage
  <2>2. CASE DeleteMessage(t)
    <3>1. PICK b : b = Deleted(t)
      OBVIOUS
    <3> QED BY <2>2, <3>1, KeptStays, OwnChangeStep DEF DeleteMessage
  <2>3. CASE ChangeUnsent(t)
    <3>1. PICK b \in {Edited(t, c) : c \in Text} \cup {Deleted(t)} :
            view' = [view EXCEPT ![t] = b]
      BY <2>3 DEF ChangeUnsent
    <3> QED BY <2>3, <3>1, KeptStays, OwnChangeStep DEF ChangeUnsent
  <2> QED BY <1>2, <2>1, <2>2, <2>3 DEF OwnerStep
<1>3. ASSUME NEW t \in Tab, TabStep(t)
      PROVE  BubbleGoal
  <2>1. CASE FrameArrives(t)
    BY <2>1, FrameArrivesStep
  <2>2. CASE LoadArrives(t)
    BY <2>2, LoadArrivesStep
  <2>3. CASE ReloadPage(t)
    <3>1. PICK b : b = NoBubble
      OBVIOUS
    <3>2. view' = [view EXCEPT ![t] = b] /\ kept' = [kept EXCEPT ![t] = {}]
      BY <2>3, <3>1, KeptAfterReload DEF ReloadPage, IInv, TypeOK, MetType
    <3>3. b \in Bubble /\ BubbleBacked(t, b, {})
      BY <3>1, NoBubbleBacked
    <3> QED BY <3>2, <3>3, BubbleKeepsBacked
  <2> QED BY <1>1, <1>3, <2>1, <2>2, <2>3 DEF TabStep, ReplayReads, LoadStarts, LoadReads,
             LoadFails, Disconnect, Connect, tabVars
<1>4. ASSUME NEW o \in OpId, HandlerStep(o)
      PROVE  BubbleGoal
  BY <1>4, <1>1 DEF HandlerStep, FindsCached, ReadsRow, CachesRow, SkipsEdit, StampsChange,
     AppliesChange, BroadcastsChange, RefusesChange, FailsWrite, tabVars
<1> QED BY <1>1, <1>2, <1>3, <1>4 DEF Next, vars, tabVars, DeliverySends, Restart

(* Every step keeps the types of what the tabs have met, and what they     *)
(* have met is written.                                                    *)
LEMMA MetStep ==
  ASSUME IInv, HistoryStays, [Next]_vars
  PROVE  MetType' /\ \A t \in Tab : heard'[t] \subseteq Edits'
<1> DEFINE Goal == MetType' /\ \A t \in Tab : heard'[t] \subseteq Edits'
<1>0. MetType /\ Edits \subseteq Edits' /\ Edits \subseteq OpId
      /\ \A t \in Tab : heard[t] \subseteq Edits
  BY EditsStay DEF IInv, TypeOK, MetType, Edits
<1>1. CASE UNCHANGED metVars
  BY <1>0, <1>1 DEF MetType, metVars
<1>2. ASSUME NEW t \in Tab, FrameArrives(t)
      PROVE  Goal
  <2>1. CASE UNCHANGED heard /\ UNCHANGED buried
             /\ replaced' = [replaced EXCEPT ![t] = heard[t]]
    BY <1>0, <2>1 DEF MetType
  <2>2. ASSUME NEW o \in Edits,
               heard' = [heard EXCEPT ![t] = @ \cup {o}],
               replaced' = [replaced EXCEPT ![t] = @ \ {o}],
               buried' = [buried EXCEPT ![t] = @ \ {o}]
        PROVE  Goal
    BY <1>0, <2>2 DEF MetType
  <2>3. pipe[t] \in Seq(Frame) /\ pipe[t] # <<>>
    BY <1>2 DEF IInv, TypeOK, FrameArrives
  <2>4. Head(pipe[t]) = pipe[t][1] /\ 1 \in 1..Len(pipe[t])
    BY <2>3
  <2>5. Head(pipe[t]).kind = "edit" => Head(pipe[t]).op \in Edits
    BY <2>4 DEF IInv, FramesAreBacked, FrameBacked
  <2> QED BY <1>1, <1>2, <2>1, <2>2, <2>5 DEF FrameArrives
<1>3. ASSUME NEW t \in Tab, LoadArrives(t)
      PROVE  Goal
  <2>1. load[t].ops \subseteq Edits
    BY <1>3 DEF IInv, LoadsAreBacked, LoadBacked, LoadArrives
  <2>2. PICK b : /\ heard' = [heard EXCEPT ![t] = @ \cup load[t].ops]
                 /\ replaced' = [replaced EXCEPT ![t] = @ \ load[t].ops]
                 /\ buried' = [buried EXCEPT ![t] = (@ \ load[t].ops) \cup
                                 {o \in heard'[t] :
                                    /\ op[o].at > b.at
                                    /\ view[t].deleted \/ load[t].row.deleted}]
    BY <1>3 DEF LoadArrives
  <2>3. heard' \in [Tab -> SUBSET OpId] /\ \A u \in Tab : heard'[u] \subseteq Edits'
    BY <1>0, <2>1, <2>2 DEF MetType
  <2>4. replaced' \in [Tab -> SUBSET OpId]
    BY <1>0, <2>2 DEF MetType
  <2>5. PICK B : B = {o \in heard'[t] :
                        op[o].at > b.at /\ (view[t].deleted \/ load[t].row.deleted)}
    OBVIOUS
  <2>6. B \subseteq OpId /\ buried' = [buried EXCEPT ![t] = (@ \ load[t].ops) \cup B]
    BY <2>2, <2>3, <2>5
  <2>7. buried' \in [Tab -> SUBSET OpId]
    BY <1>0, <2>6 DEF MetType
  <2> QED BY <2>3, <2>4, <2>7 DEF MetType
<1>4. ASSUME NEW t \in Tab, ReloadPage(t)
      PROVE  Goal
  BY <1>0, <1>4 DEF ReloadPage, MetType
<1>5. ASSUME NEW t \in Tab, TabStep(t)
      PROVE  Goal
  BY <1>1, <1>2, <1>3, <1>4, <1>5 DEF TabStep, ReplayReads, LoadStarts, LoadReads, LoadFails,
     Disconnect, Connect, tabVars
<1>6. ASSUME NEW t \in OwnerTab, OwnerStep(t)
      PROVE  Goal
  BY <1>1, <1>6 DEF OwnerStep, EditMessage, DeleteMessage, ChangeUnsent
<1>7. ASSUME NEW o \in OpId, HandlerStep(o)
      PROVE  Goal
  BY <1>7, <1>1 DEF HandlerStep, FindsCached, ReadsRow, CachesRow, SkipsEdit, StampsChange,
     AppliesChange, BroadcastsChange, RefusesChange, FailsWrite, tabVars
<1> QED BY <1>1, <1>5, <1>6, <1>7 DEF Next, vars, tabVars, DeliverySends, Restart

-----------------------------------------------------------------------------
(* What is left of the types: who is connected, and the bounds *)

(* The variables the other lemmas leave out keep their types.              *)
LEMMA OtherTypesStep ==
  ASSUME TypeOK, [Next]_vars
  PROVE  due' \in BOOLEAN /\ conn' \subseteq Tab /\ events' \in 0..MaxEvents
<1> DEFINE Goal == due' \in BOOLEAN /\ conn' \subseteq Tab /\ events' \in 0..MaxEvents
<1>0. due \in BOOLEAN /\ conn \subseteq Tab /\ events \in 0..MaxEvents
      /\ (Happens => events' \in 0..MaxEvents)
  BY DEF TypeOK, Happens
<1>1. ASSUME NEW t \in OwnerTab, OwnerStep(t)
      PROVE  Goal
  BY <1>0, <1>1 DEF OwnerStep, EditMessage, DeleteMessage, ChangeUnsent, deliveryVars
<1>2. ASSUME NEW o \in OpId, HandlerStep(o)
      PROVE  Goal
  BY <1>0, <1>2 DEF HandlerStep, FindsCached, ReadsRow, CachesRow, SkipsEdit, StampsChange,
     AppliesChange, BroadcastsChange, RefusesChange, FailsWrite, deliveryVars, tabVars
<1>3. ASSUME NEW t \in Tab, TabStep(t)
      PROVE  Goal
  BY <1>0, <1>3 DEF TabStep, ReplayReads, FrameArrives, LoadStarts, LoadReads, LoadArrives,
     LoadFails, Disconnect, Connect, ReloadPage, deliveryVars, tabVars
<1>4. CASE DeliverySends \/ Restart
  BY <1>0, <1>4 DEF DeliverySends, Restart
<1>5. CASE UNCHANGED vars
  BY <1>0, <1>5 DEF vars, deliveryVars, tabVars
<1> QED BY <1>1, <1>2, <1>3, <1>4, <1>5 DEF Next

-----------------------------------------------------------------------------
(* The invariant *)

(* The inductive invariant holds at the start.                             *)
LEMMA InitIInv == Init => IInv
<1> SUFFICES ASSUME Init
             PROVE  IInv
  OBVIOUS
<1>1. (CHOOSE t \in Tab : TRUE) \in Tab
  BY DEF Tab
<1>2. FirstRow \in Row /\ NoBubble \in Bubble /\ NoLoad \in Load
  BY DEF FirstRow, Row, NoBubble, Bubble, NoLoad, Load
<1>3. late \in Late /\ LateIsBacked
  <2>1. CASE late = NoLate
    BY <2>1 DEF NoLate, Late, LateIsBacked
  <2>2. CASE late = [text |-> FirstText, live |-> TRUE, to |-> PeerTab]
    <3>1. late \in Late /\ late.text = FirstText
      BY <2>2 DEF Late
    <3> QED BY <3>1 DEF LateIsBacked, IsStored
  <2> QED BY <2>1, <2>2 DEF Init
<1>4. /\ op \in [OpId -> Op]
      /\ \A o \in OpId : op[o].kind = "delete" /\ op[o].pc = "none" /\ ~op[o].wrote
  BY <1>1 DEF Init, Op, Stage
<1>5. /\ view \in [Tab -> Bubble]
      /\ \A t \in Tab : view[t].at = 0 /\ view[t].text = FirstText /\ ~view[t].deleted
  <2>1. [NoBubble EXCEPT !.shown = TRUE] \in Bubble
    BY <1>2 DEF Bubble
  <2> QED BY <1>2, <2>1 DEF Init, NoBubble
<1>6. /\ load \in [Tab -> Load] /\ pipe \in [Tab -> Seq(Frame)] /\ MetType
      /\ \A t \in Tab : load[t].pc = "idle" /\ heard[t] = {} /\ Len(pipe[t]) = 0
  BY <1>2 DEF Init, NoLoad, MetType
<1>7. TypeOK
  <2>1. row \in Row /\ cache \in Text \cup {NoText} /\ now \in Nat /\ due \in BOOLEAN
    BY <1>2 DEF Init
  <2>2. conn \subseteq Tab /\ met \subseteq OpId /\ events \in 0..MaxEvents
    BY DEF Init
  <2> QED BY <1>3, <1>4, <1>5, <1>6, <2>1, <2>2 DEF TypeOK, MetType
<1>8. PeerTab \subseteq Tab
  BY DEF Tab
<1>9. WrittenIsStamped /\ RowIsBacked
  BY <1>4 DEF Init, WrittenIsStamped, RowIsBacked, IsStored, Carries, FirstRow
<1>10. FramesAreBacked /\ LoadsAreBacked
  BY <1>6 DEF FramesAreBacked, LoadsAreBacked
<1>12. AcksAreBacked
  <2>1. cache # NoText => IsStored(cache)
    BY DEF Init, IsStored
  <2>2. \A o \in OpId : ~op[o].ok /\ op[o].pc = "none"
    BY DEF Init
  <2> QED BY <2>1, <2>2 DEF AcksAreBacked, AckedWasStored
<1>11. /\ \A t \in Tab : heard[t] \subseteq Edits
       /\ \A t \in PeerTab : Follows(t)
       /\ ShownIsStored /\ DeletedIsTrue
  BY <1>5, <1>6, <1>8 DEF Follows, Kept, Carries, ShownIsStored, IsStored, DeletedIsTrue
<1> QED BY <1>3, <1>7, <1>9, <1>10, <1>11, <1>12 DEF IInv

(* And every step keeps it.                                                *)
LEMMA IInvStep ==
  ASSUME IInv, [Next]_vars
  PROVE  IInv'
<1>1. /\ TypeOK /\ WrittenIsStamped /\ RowIsBacked /\ AcksAreBacked /\ LateIsBacked
      /\ FramesAreBacked /\ LoadsAreBacked
  BY DEF IInv
<1>2. ServerType' /\ WrittenIsStamped' /\ HistoryStays
  BY <1>1, ServerStep DEF ServerGoal
<1>3. RowIsBacked' /\ AcksAreBacked' /\ late' \in Late /\ LateIsBacked'
  BY <1>1, <1>2, RowStep, AcksStep, LateStep
<1>4. pipe' \in [Tab -> Seq(Frame)] /\ FramesAreBacked'
  BY <1>1, <1>2, PipeStep DEF PipeGoal
<1>5. load' \in [Tab -> Load] /\ LoadsAreBacked'
  BY <1>1, <1>2, LoadStep DEF LoadGoal
<1>6. BubbleGoal /\ MetType' /\ \A t \in Tab : heard'[t] \subseteq Edits'
  BY <1>2, BubbleStep, MetStep
<1>7. due' \in BOOLEAN /\ conn' \subseteq Tab /\ events' \in 0..MaxEvents
  BY <1>1, OtherTypesStep
<1>8. TypeOK'
  BY <1>2, <1>3, <1>4, <1>5, <1>6, <1>7 DEF TypeOK, ServerType, BubbleGoal, MetType
<1> QED BY <1>2, <1>3, <1>4, <1>5, <1>6, <1>8 DEF IInv, BubbleGoal

(* The inductive invariant holds of every behaviour: whatever a tab, a     *)
(* frame, a page of history or the delivery carries is backed by the       *)
(* history of the row.                                                     *)
THEOREM EditInvariance == Spec => []IInv
<1>1. Init => IInv
  BY InitIInv
<1>2. IInv /\ [Next]_vars => IInv'
  BY IInvStep
<1> QED BY <1>1, <1>2, PTL DEF Spec

(* Types of rows, frames, bubbles and loads of history.                    *)
THEOREM EditTypeCorrect == Spec => []TypeOK
<1>1. IInv => TypeOK
  BY DEF IInv
<1> QED BY <1>1, EditInvariance, PTL

(* The recipient is never shown a text the row has not had, whatever the   *)
(* sender's tabs show early, are refused or never send.                    *)
THEOREM TextsShownWereStored == Spec => []ShownIsStored
<1>1. IInv => ShownIsStored
  BY DEF IInv
<1> QED BY <1>1, EditInvariance, PTL

(* A bubble shown as deleted is a deleted row, or its own tab deleted it.  *)
THEOREM DeletesAreTrue == Spec => []DeletedIsTrue
<1>1. IInv => DeletedIsTrue
  BY DEF IInv
<1> QED BY <1>1, EditInvariance, PTL

(* A tab of the recipient that has met an edit shows it, another one of    *)
(* the same millisecond, or a later one, unless a MESSAGE_RECEIVE or a     *)
(* deleted row has replaced the bubble after it and it has not met it      *)
(* again.                                                                  *)
THEOREM PeersStayFollowing == Spec => []PeersFollow
<1>1. IInv => PeersFollow
  <2> SUFFICES ASSUME IInv, NEW t \in PeerTab, NEW o \in Kept(t)
               PROVE  Passed(t, o)
    BY DEF PeersFollow, Kept
  <2>1. t \in Tab
    BY DEF Tab
  <2>2. o \in Edits /\ op[o].at <= view[t].at /\ Carries(view[t], Kept(t))
    BY <2>1 DEF IInv, Follows, Kept
  <2>3. op[o].at \in Nat /\ op[o].at >= 1 /\ view[t].at \in Nat
    BY <2>1, <2>2 DEF IInv, TypeOK, Edits, Op, Bubble, WrittenIsStamped
  <2>4. CASE op[o].at = view[t].at
    <3>1. view[t].at # 0
      BY <2>3, <2>4
    <3>2. PICK p \in Kept(t) : op[p].at = view[t].at /\ op[p].text = view[t].text
      BY <2>2, <3>1 DEF Carries
    <3> QED BY <2>4, <3>2 DEF Passed, Kept
  <2> QED BY <2>2, <2>3, <2>4 DEF Passed
<1> QED BY <1>1, EditInvariance, PTL

(* A tab of the recipient that has met every edit, and gone back behind    *)
(* none of them since, shows what the row has, where writes have come in   *)
(* the order of their stamps.                                              *)
THEOREM PeersComeToAgree == Spec => []PeersAgree
<1>1. IInv => PeersAgree
  <2> SUFFICES ASSUME IInv, StampsFollowWrites, NEW t \in PeerTab,
                      view[t].shown, Kept(t) = Edits
               PROVE  view[t].text = row.text /\ view[t].at = row.at
    BY DEF PeersAgree
  <2>1. t \in Tab
    BY DEF Tab
  <2>2. /\ view[t].at \in Nat /\ row.at \in Nat
        /\ \A o \in Edits : op[o].at \in Nat /\ op[o].at >= 1
    BY <2>1 DEF IInv, TypeOK, Bubble, Row, Edits, Op, WrittenIsStamped
  <2>3. /\ \A o \in Edits : op[o].at <= view[t].at /\ op[o].at <= row.at
        /\ Carries(view[t], Edits) /\ Carries(row, Edits)
        /\ IsStored(view[t].text) /\ IsStored(row.text)
    BY DEF IInv, Follows, RowIsBacked, ShownIsStored, StampsFollowWrites
  <2>4. CASE Edits = {}
    BY <2>3, <2>4 DEF Carries, IsStored
  <2>5. CASE Edits # {}
    <3>1. view[t].at # 0 /\ row.at # 0
      BY <2>2, <2>3, <2>5
    <3>2. PICK o \in Edits : op[o].at = view[t].at /\ op[o].text = view[t].text
      BY <2>3, <3>1 DEF Carries
    <3>3. PICK p \in Edits : op[p].at = row.at /\ op[p].text = row.text
      BY <2>3, <3>1 DEF Carries
    <3>4. op[o].at <= op[p].at /\ op[p].at <= op[o].at
      BY <2>3, <3>2, <3>3
    <3>5. op[o].at = op[p].at
      BY <2>2, <3>4
    <3> QED BY <3>2, <3>3, <3>5 DEF StampsFollowWrites
  <2> QED BY <2>4, <2>5
<1> QED BY <1>1, EditInvariance, PTL

(* An edit that is acknowledged has been the content of the row, perhaps   *)
(* before it was asked for: the cache a handler compares with is stale,    *)
(* but never wrong about the past.                                         *)
THEOREM AckedEditsWereStored == Spec => []AckedWasStored
<1>1. IInv => AckedWasStored
  BY DEF IInv, AcksAreBacked
<1> QED BY <1>1, EditInvariance, PTL
=============================================================================
