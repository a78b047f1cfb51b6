---------------------------- MODULE MessageEdits ----------------------------
(***************************************************************************)
(* Editing and deleting one stored message: the handlers of the server     *)
(* (websocket/handlers/messageMutation.js), the row, the transport cache   *)
(* they compare with, and the bubble each tab of the sender and of the     *)
(* recipient shows (frontend ChatAdapterContext.jsx).                      *)
(*                                                                         *)
(* A tab changes its own bubble at once and tells the server.  A handler   *)
(* looks the message up, writes the row over an await and sends the change *)
(* to every tab that is connected; frames of overlapping handlers reach    *)
(* the tabs in any order of the handlers.  A tab keeps the edit with the   *)
(* greater editedAt and merges the history it loads the same way.          *)
(***************************************************************************)
EXTENDS Naturals, Sequences, FiniteSets

CONSTANTS
    OwnerTab,   \* tabs of the sender, who alone is offered edit and delete
    PeerTab,    \* tabs of the recipient
    Text,       \* contents of the message
    FirstText,  \* the one it was sent with
    NoText,
    Skew,       \* how far the clock of each owner's tab is ahead
    MaxOps,     \* bound: edits and deletes the server is told of
    MaxEvents   \* bound: loads, closed sockets, reloads, changes that stay in a tab,
                \*   queries and writes that fail, and restarts

ASSUME TabAssumption  == OwnerTab # {} /\ OwnerTab \cap PeerTab = {}
ASSUME TextAssumption == FirstText \in Text /\ NoText \notin Text
ASSUME SkewAssumption == Skew \in [OwnerTab -> Nat]
ASSUME BoundAssumption == MaxOps \in Nat /\ MaxEvents \in Nat

Tab == OwnerTab \cup PeerTab
OpId == 1..MaxOps
NoOp == 0

VARIABLES
    row,     \* the stored message
    cache,   \* the content messageStore has, NoText when it has not loaded it
    op,      \* the edits and deletes the server is told of
    now,     \* the server's clock, in milliseconds
    due,     \* the message is not delivered: a replay will take it
    late,    \* the delivery that has read the content and not sent it yet
    conn,    \* tabs with a ready socket
    pipe,    \* frames on the way to each tab
    view,    \* the bubble of each tab
    load,    \* the history each tab is loading
    heard,    \* history: edits the tab has met since its page was loaded,
    replaced, \*   those a MESSAGE_RECEIVE has replaced since,
    buried,   \*   those a delete in the history has taken back
    met,     \* history: edits whose text the row has had since they were sent
    events

serverVars == <<row, cache, op, now, met>>
deliveryVars == <<due, late>>
metVars == <<heard, replaced, buried>>
tabVars == <<conn, pipe, view, load, metVars>>
vars == <<serverVars, deliveryVars, tabVars, events>>

Stage == {"none", "sent", "read", "known", "stamped", "applied", "done", "lost"}
Op == [pc : Stage, kind : {"edit", "delete"}, tab : Tab, text : Text \cup {NoText},
       old : Text \cup {NoText}, at : Nat, wrote : BOOLEAN, ok : BOOLEAN]

(* editedAt is 0 where the code has null; deletedAt is left out: it is     *)
(* compared only where both sides are deleted.  mine is history: the tab   *)
(* itself has deleted the bubble and no frame has.                         *)
Row == [text : Text, at : Nat, deleted : BOOLEAN]
Bubble == [shown : BOOLEAN, text : Text, at : Nat, deleted : BOOLEAN, mine : BOOLEAN]
Frame == [kind : {"edit", "delete", "receive", "refused"}, op : OpId \cup {NoOp},
          text : Text \cup {NoText}]
Load == [pc : {"idle", "asked", "read"}, row : Row, ops : SUBSET OpId]
Late == [text : Text \cup {NoText}, live : BOOLEAN, to : SUBSET PeerTab]

FirstRow == [text |-> FirstText, at |-> 0, deleted |-> FALSE]
NoBubble == [shown |-> FALSE, text |-> FirstText, at |-> 0, deleted |-> FALSE, mine |-> FALSE]
NoLoad == [pc |-> "idle", row |-> FirstRow, ops |-> {}]
NoLate == [text |-> NoText, live |-> FALSE, to |-> {}]

TypeOK ==
    /\ row \in Row
    /\ cache \in Text \cup {NoText}
    /\ op \in [OpId -> Op]
    /\ \A o \in OpId : op[o].kind = "edit" => op[o].text \in Text
    /\ now \in Nat
    /\ due \in BOOLEAN
    /\ late \in Late
    /\ conn \subseteq Tab
    /\ pipe \in [Tab -> Seq(Frame)]
    /\ view \in [Tab -> Bubble]
    /\ load \in [Tab -> Load]
    /\ heard \in [Tab -> SUBSET OpId]
    /\ replaced \in [Tab -> SUBSET OpId]
    /\ buried \in [Tab -> SUBSET OpId]
    /\ met \subseteq OpId
    /\ events \in 0..MaxEvents

-----------------------------------------------------------------------------
Used == {o \in OpId : op[o].pc # "none"}
Underway == {o \in OpId : op[o].pc \notin {"none", "done", "lost"}}
Edits == {o \in OpId : op[o].kind = "edit" /\ op[o].wrote}

(* sendToUserSocket for the owner and for the recipient: one frame to each *)
(* connected tab.                                                          *)
ToAll(f) == [t \in Tab |-> IF t \in conn THEN Append(pipe[t], f) ELSE pipe[t]]

(* The history a tab loads: a request of its own, or one under way.        *)
Asking(t) == [load EXCEPT ![t] = IF @.pc = "idle" THEN [@ EXCEPT !.pc = "asked"] ELSE @]

Happens == events < MaxEvents /\ events' = events + 1

(* The message was sent and the tabs of the owner know its id; its live    *)
(* delivery is under way, or nobody was there to deliver it to.            *)
Init ==
    /\ row = FirstRow
    /\ cache \in {FirstText, NoText}
    /\ op = [o \in OpId |-> [pc |-> "none", kind |-> "delete",
                             tab |-> CHOOSE t \in Tab : TRUE, text |-> NoText,
                             old |-> NoText, at |-> 0, wrote |-> FALSE, ok |-> FALSE]]
    /\ now = 1
    /\ \/ due = TRUE /\ late = NoLate
       \/ due = FALSE /\ late = [text |-> FirstText, live |-> TRUE, to |-> PeerTab]
    /\ conn = Tab
    /\ pipe = [t \in Tab |-> <<>>]
    /\ view = [t \in Tab |-> IF t \in OwnerTab THEN [NoBubble EXCEPT !.shown = TRUE]
                                               ELSE NoBubble]
    /\ load = [t \in Tab |-> NoLoad]
    /\ heard = [t \in Tab |-> {}]
    /\ replaced = [t \in Tab |-> {}]
    /\ buried = [t \in Tab |-> {}]
    /\ met = {}
    /\ events = 0

-----------------------------------------------------------------------------
(* The owner's tab *)

Changeable(t) == t \in OwnerTab /\ view[t].shown /\ ~view[t].deleted

(* editMessage: the first edit of a bubble stamps it with the tab's clock. *)
Edited(t, c) == [view[t] EXCEPT !.text = c, !.at = IF @ = 0 THEN now + Skew[t] ELSE @]
Deleted(t) == [view[t] EXCEPT !.deleted = TRUE, !.mine = TRUE]

Tells(t, kind, c) == \E o \in OpId \ Used :
    /\ Used = 1..(o - 1)
    /\ op' = [op EXCEPT ![o] = [pc |-> "sent", kind |-> kind, tab |-> t, text |-> c,
                                old |-> NoText, at |-> 0, wrote |-> FALSE, ok |-> FALSE]]
    /\ met' = IF c = row.text THEN met \cup {o} ELSE met

EditMessage(t, c) ==
    /\ Changeable(t)
    /\ t \in conn
    /\ Tells(t, "edit", c)
    /\ view' = [view EXCEPT ![t] = Edited(t, c)]
    /\ UNCHANGED <<row, cache, now, deliveryVars, conn, pipe, load, metVars, events>>

DeleteMessage(t) ==
    /\ Changeable(t)
    /\ t \in conn
    /\ Tells(t, "delete", NoText)
    /\ view' = [view EXCEPT ![t] = Deleted(t)]
    /\ UNCHANGED <<row, cache, now, deliveryVars, conn, pipe, load, metVars, events>>

(* The socket is not ready, or refuses (a rate limit): the server is told  *)
(* nothing, and the tab loads the history.                                 *)
ChangeUnsent(t) ==
    /\ Happens
    /\ Changeable(t)
    /\ \E b \in {Edited(t, c) : c \in Text} \cup {Deleted(t)} :
           view' = [view EXCEPT ![t] = b]
    /\ load' = Asking(t)
    /\ UNCHANGED <<serverVars, deliveryVars, conn, pipe, metVars>>
-----------------------------------------------------------------------------
(* The handlers.  Requests of one socket start in order and then overlap.  *)

Starts(o) ==
    /\ op[o].pc = "sent"
    /\ \A p \in 1..(o - 1) : op[p].tab = op[o].tab => op[p].pc # "sent"

(* getOrLoadMessage finds the message in the cache, with the content it    *)
(* had when it was cached.                                                 *)
FindsCached(o) ==
    /\ Starts(o)
    /\ cache # NoText
    /\ op' = [op EXCEPT ![o].pc = "known", ![o].old = cache]
    /\ UNCHANGED <<row, cache, now, met, deliveryVars, tabVars, events>>

ReadsRow(o) ==
    /\ Starts(o)
    /\ cache = NoText
    /\ op' = [op EXCEPT ![o].pc = "read", ![o].old = row.text]
    /\ UNCHANGED <<row, cache, now, met, deliveryVars, tabVars, events>>

CachesRow(o) ==
    /\ op[o].pc = "read"
    /\ op' = [op EXCEPT ![o].pc = "known"]
    /\ cache' = op[o].old
    /\ UNCHANGED <<row, now, met, deliveryVars, tabVars, events>>

(* An edit to the text the handler has found is acknowledged, no more.     *)
(* Frames of acknowledgement change nothing in a tab and are left out.     *)
IsNoChange(o) == op[o].kind = "edit" /\ op[o].text = op[o].old

SkipsEdit(o) ==
    /\ op[o].pc = "known"
    /\ IsNoChange(o)
    /\ op' = [op EXCEPT ![o].pc = "done", ![o].ok = TRUE]
    /\ UNCHANGED <<row, cache, now, met, deliveryVars, tabVars, events>>

(* editMessageContent and softDeleteMessage take the time and start one    *)
(* update of the row.                                                      *)
StampsChange(o) ==
    /\ op[o].pc = "known"
    /\ ~IsNoChange(o)
    /\ now' \in {now, now + 1}
    /\ op' = [op EXCEPT ![o].pc = "stamped", ![o].at = now']
    /\ UNCHANGED <<row, cache, met, deliveryVars, tabVars, events>>

(* Mutant: an edit clears the mark of a deleted row. *)
ChangedRevives(o) == IF op[o].kind = "edit"
                     THEN [text |-> op[o].text, at |-> op[o].at, deleted |-> FALSE]
                     ELSE [row EXCEPT !.deleted = TRUE]

Changed(o) == IF op[o].kind = "edit"
              THEN [row EXCEPT !.text = op[o].text, !.at = op[o].at]
              ELSE [row EXCEPT !.deleted = TRUE]

Writes(o) ==
    /\ row' = Changed(o)
    /\ met' = met \cup {p \in Underway : op[p].text = row'.text}

AppliesChange(o) ==
    /\ op[o].pc = "stamped"
    /\ Writes(o)
    /\ op' = [op EXCEPT ![o].pc = "applied", ![o].wrote = TRUE]
    /\ UNCHANGED <<cache, now, deliveryVars, tabVars, events>>

(* Mutant: the change is sent before the row is written. *)
BroadcastsEarly(o) ==
    /\ op[o].pc \in {"stamped", "applied"}
    /\ op' = [op EXCEPT ![o].pc = "done", ![o].ok = TRUE]
    /\ pipe' = ToAll([kind |-> op[o].kind, op |-> o, text |-> op[o].text])
    /\ UNCHANGED <<row, cache, now, met, deliveryVars, conn, view, load, metVars, events>>

(* MESSAGE_MUTATION to both users, then the acknowledgement. *)
BroadcastsChange(o) ==
    /\ op[o].pc = "applied"
    /\ op' = [op EXCEPT ![o].pc = "done", ![o].ok = TRUE]
    /\ pipe' = ToAll([kind |-> op[o].kind, op |-> o, text |-> op[o].text])
    /\ UNCHANGED <<row, cache, now, met, deliveryVars, conn, view, load, metVars, events>>

(* A failed query counts as NOT_FOUND: the tab that asked loads history.   *)
RefusesChange(o) ==
    /\ Happens
    /\ Starts(o) /\ cache = NoText
    /\ op' = [op EXCEPT ![o].pc = "done"]
    /\ pipe' = IF op[o].tab \in conn
               THEN [pipe EXCEPT ![op[o].tab] =
                       Append(@, [kind |-> "refused", op |-> NoOp, text |-> NoText])]
               ELSE pipe
    /\ UNCHANGED <<row, cache, now, met, deliveryVars, conn, view, load, metVars>>

(* A write that throws, applied or not: ERROR, which names no message.     *)
FailsWrite(o) ==
    /\ Happens
    /\ op[o].pc = "stamped"
    /\ \/ Writes(o) /\ op' = [op EXCEPT ![o].pc = "done", ![o].wrote = TRUE]
       \/ UNCHANGED <<row, met>> /\ op' = [op EXCEPT ![o].pc = "done"]
    /\ UNCHANGED <<cache, now, deliveryVars, tabVars>>

Restart ==
    /\ Happens
    /\ cache' = NoText
    /\ op' = [o \in OpId |-> IF o \in Underway THEN [op[o] EXCEPT !.pc = "lost"] ELSE op[o]]
    /\ late' = NoLate
    /\ conn' = {}
    /\ pipe' = [t \in Tab |-> <<>>]
    /\ UNCHANGED <<row, now, met, due, view, load, metVars>>

-----------------------------------------------------------------------------
(* The delivery of the message to the recipient *)

(* A resume of the tab claims the message with the content it has now.     *)
ReplayReads(t) ==
    /\ due /\ late = NoLate
    /\ t \in PeerTab \cap conn
    /\ due' = FALSE
    /\ late' = [text |-> row.text, live |-> FALSE, to |-> {t}]
    /\ UNCHANGED <<serverVars, tabVars, events>>

(* MESSAGE_RECEIVE carries the content, no editedAt and no deleted.        *)
DeliverySends ==
    /\ late # NoLate
    /\ pipe' = [t \in Tab |->
                  IF t \in late.to \cap conn
                  THEN Append(pipe[t], [kind |-> "receive", op |-> NoOp, text |-> late.text])
                  ELSE pipe[t]]
    /\ late' = NoLate
    /\ UNCHANGED <<serverVars, due, conn, view, load, metVars, events>>

-----------------------------------------------------------------------------
(* What a tab does with a frame *)

(* Mutant: the last edit to arrive wins. *)
IsStaleNever(b, at) == FALSE

IsStale(b, at) == b.at # 0 /\ at < b.at

EditShown(b, o) ==
    IF IsStale(b, op[o].at) THEN b
    ELSE [b EXCEPT !.text = op[o].text, !.at = op[o].at, !.deleted = FALSE, !.mine = FALSE]

DeleteShown(b) == [b EXCEPT !.deleted = TRUE, !.mine = FALSE]

(* mergeMessageReceive: the fields of the frame replace those of the       *)
(* bubble, editedAt and deleted with them.                                 *)
ReceiveShown(c) == [NoBubble EXCEPT !.shown = TRUE, !.text = c]

FrameArrives(t) ==
    /\ pipe[t] # <<>>
    /\ pipe' = [pipe EXCEPT ![t] = Tail(@)]
    /\ LET f == Head(pipe[t]) IN
       \/ /\ f.kind = "edit" /\ view[t].shown
          /\ view' = [view EXCEPT ![t] = EditShown(@, f.op)]
          /\ heard' = [heard EXCEPT ![t] = @ \cup {f.op}]
          /\ replaced' = [replaced EXCEPT ![t] = @ \ {f.op}]
          /\ buried' = [buried EXCEPT ![t] = @ \ {f.op}]
          /\ UNCHANGED load
       \/ /\ f.kind = "delete" /\ view[t].shown
          /\ view' = [view EXCEPT ![t] = DeleteShown(@)]
          /\ UNCHANGED <<load, metVars>>
       \/ /\ f.kind \in {"edit", "delete"} /\ ~view[t].shown
          /\ UNCHANGED <<view, load, metVars>>
       \/ /\ f.kind = "receive"
          /\ view' = [view EXCEPT ![t] = ReceiveShown(f.text)]
          /\ replaced' = [replaced EXCEPT ![t] = heard[t]]
          /\ UNCHANGED <<load, heard, buried>>
       \/ /\ f.kind = "refused"
          /\ load' = Asking(t)
          /\ UNCHANGED <<view, metVars>>
    /\ UNCHANGED <<serverVars, deliveryVars, conn, events>>

-----------------------------------------------------------------------------
(* Loading history *)

LoadStarts(t) ==
    /\ Happens
    /\ load[t].pc = "idle"
    /\ load' = Asking(t)
    /\ UNCHANGED <<serverVars, deliveryVars, conn, pipe, view, metVars>>

LoadReads(t) ==
    /\ load[t].pc = "asked"
    /\ load' = [load EXCEPT ![t] = [pc |-> "read", row |-> row,
                                 ops |-> {o \in Edits : op[o].at <= row.at}]]
    /\ UNCHANGED <<serverVars, deliveryVars, conn, pipe, view, metVars, events>>

AsBubble(r) == [shown |-> TRUE, text |-> r.text, at |-> r.at, deleted |-> r.deleted,
                mine |-> FALSE]

(* Mutant: the history a tab loads replaces what it has. *)
MergedRow(b, r) == {AsBubble(r)}

(* mergeMessageState; of two deleted ones the later deletedAt wins, which  *)
(* may be either.                                                          *)
Merged(b, r) ==
    IF ~b.shown THEN {AsBubble(r)}
    ELSE IF b.deleted /\ r.deleted THEN {b, AsBubble(r)}
    ELSE IF b.deleted THEN {b}
    ELSE IF r.deleted THEN {AsBubble(r)}
    ELSE IF b.at >= r.at THEN {b} ELSE {AsBubble(r)}

LoadArrives(t) ==
    /\ load[t].pc = "read"
    /\ load' = [load EXCEPT ![t] = NoLoad]
    /\ \E b \in Merged(view[t], load[t].row) :
          /\ view' = [view EXCEPT ![t] = b]
          /\ heard' = [heard EXCEPT ![t] = @ \cup load[t].ops]
          /\ replaced' = [replaced EXCEPT ![t] = @ \ load[t].ops]
          /\ buried' = [buried EXCEPT ![t] = (@ \ load[t].ops) \cup
                          {o \in heard'[t] :
                             /\ op[o].at > b.at
                             /\ view[t].deleted \/ load[t].row.deleted}]
    /\ UNCHANGED <<serverVars, deliveryVars, conn, pipe, events>>

LoadFails(t) ==
    /\ load[t].pc \in {"asked", "read"}
    /\ Happens
    /\ load' = [load EXCEPT ![t] = NoLoad]
    /\ UNCHANGED <<serverVars, deliveryVars, conn, pipe, view, metVars>>

-----------------------------------------------------------------------------
(* Sockets and pages *)

(* A closed socket takes the frames on the way with it, and some of the    *)
(* requests.                                                               *)
Disconnect(t) ==
    /\ Happens
    /\ t \in conn
    /\ conn' = conn \ {t}
    /\ pipe' = [pipe EXCEPT ![t] = <<>>]
    /\ \E gone \in SUBSET {o \in OpId : op[o].pc = "sent" /\ op[o].tab = t} :
          op' = [o \in OpId |-> IF o \in gone THEN [op[o] EXCEPT !.pc = "lost"] ELSE op[o]]
    /\ late' = IF late.live THEN late
               ELSE IF late.to = {t} THEN NoLate ELSE late
    /\ UNCHANGED <<row, cache, now, met, due, view, load, metVars>>

Connect(t) ==
    /\ t \in Tab \ conn
    /\ conn' = conn \cup {t}
    /\ UNCHANGED <<serverVars, deliveryVars, pipe, view, load, metVars, events>>

(* The page is loaded again: an empty list, no socket, no request.         *)
ReloadPage(t) ==
    /\ Happens
    /\ t \notin conn
    /\ view[t].shown \/ load[t] # NoLoad
    /\ view' = [view EXCEPT ![t] = NoBubble]
    /\ load' = [load EXCEPT ![t] = NoLoad]
    /\ heard' = [heard EXCEPT ![t] = {}]
    /\ replaced' = [replaced EXCEPT ![t] = {}]
    /\ buried' = [buried EXCEPT ![t] = {}]
    /\ UNCHANGED <<serverVars, deliveryVars, conn, pipe>>

-----------------------------------------------------------------------------
OwnerStep(t) ==
    \/ \E c \in Text : EditMessage(t, c)
    \/ DeleteMessage(t)
    \/ ChangeUnsent(t)

HandlerStep(o) ==
    \/ FindsCached(o)
    \/ ReadsRow(o)
    \/ CachesRow(o)
    \/ SkipsEdit(o)
    \/ StampsChange(o)
    \/ AppliesChange(o)
    \/ BroadcastsChange(o)
    \/ RefusesChange(o)
    \/ FailsWrite(o)

TabStep(t) ==
    \/ ReplayReads(t)
    \/ FrameArrives(t)
    \/ LoadStarts(t)
    \/ LoadReads(t)
    \/ LoadArrives(t)
    \/ LoadFails(t)
    \/ Disconnect(t)
    \/ Connect(t)
    \/ ReloadPage(t)

Next ==
    \/ \E t \in OwnerTab : OwnerStep(t)
    \/ \E o \in OpId : HandlerStep(o)
    \/ \E t \in Tab : TabStep(t)
    \/ DeliverySends
    \/ Restart

Spec == Init /\ [][Next]_vars

-----------------------------------------------------------------------------
(* Properties *)

(* Edits reach the recipient's tabs in an order of their own.  A tab that  *)
(* has met an edit shows it, another one of the same millisecond, or a     *)
(* later one, whatever order the frames and the history came in            *)
(* (ChatAdapterContext.jsx, MESSAGE_MUTATION and mergeMessageState), with  *)
(* two exceptions, until it meets the edit again.  A MESSAGE_RECEIVE that  *)
(* comes after the edit replaces the bubble by the content the delivery    *)
(* has read, which may be older, and with no editedAt, so that what comes  *)
(* next cannot be older (mergeMessageReceive).  And a deleted row with an  *)
(* earlier stamp replaces the bubble: an edit frame that comes then is     *)
(* compared with that stamp.  Of a row the tab meets the edits up to the   *)
(* stamp it has: where a write came after one with a later stamp, history  *)
(* no longer tells of that.                                                *)
Passed(t, o) ==
    \/ view[t].at > op[o].at
    \/ \E p \in heard[t] : /\ op[p].at = op[o].at
                          /\ view[t].at = op[p].at
                          /\ view[t].text = op[p].text

PeersFollow ==
    \A t \in PeerTab : \A o \in heard[t] :
        Passed(t, o) \/ o \in replaced[t] \/ o \in buried[t]

(* And so they come to agree with the row: where no write has come after   *)
(* one with a later stamp and no two texts have one stamp, a tab of the    *)
(* recipient that has met every edit, none of which it has gone back       *)
(* behind since, shows the text the row has, with the row's stamp.  A tab  *)
(* whose bubble a late MESSAGE_RECEIVE has replaced is not meant: it shows *)
(* what the delivery had read until a frame or a history comes.  Neither   *)
(* premise is so in general: editMessageContent takes the time before it   *)
(* writes, and overlapping handlers write in any order.                    *)
Kept(t) == heard[t] \ (replaced[t] \cup buried[t])
StampsFollowWrites ==
    /\ \A o \in Edits : op[o].at <= row.at
    /\ \A o, p \in Edits : op[o].at = op[p].at => op[o].text = op[p].text
PeersAgree ==
    StampsFollowWrites =>
        \A t \in PeerTab : view[t].shown /\ Kept(t) = Edits =>
            view[t].text = row.text /\ view[t].at = row.at

(* The recipient is never shown a text the row has not had: what a tab of  *)
(* the sender shows early, what was refused and what never left the tab    *)
(* stays there (messageMutation.js writes before it sends).                *)
IsStored(c) == c = FirstText \/ \E o \in Edits : op[o].text = c
ShownIsStored == \A t \in PeerTab : view[t].shown => IsStored(view[t].text)

(* A bubble shown as deleted is a deleted row, or one its own tab has      *)
(* deleted: no merge of history, frames and the tab's own changes makes a  *)
(* delete up.                                                              *)
DeletedIsTrue ==
    \A t \in Tab :
        view[t].shown /\ view[t].deleted => row.deleted \/ view[t].mine

(* messageMutation.js:3-7 says the handler validates, persists and then    *)
(* acknowledges: an acknowledged edit is, at some time between request and *)
(* acknowledgement, the content of the row.                                *)
AckedEditIsStored ==
    \A o \in OpId : op[o].kind = "edit" /\ op[o].ok => o \in met

(* What holds of it: an acknowledged edit has been the content of the row, *)
(* perhaps before it was asked for, as the cache the handler compares with *)
(* keeps what the row has once had.                                        *)
AckedWasStored == \A o \in OpId : op[o].kind = "edit" /\ op[o].ok => IsStored(op[o].text)

-----------------------------------------------------------------------------
(* The inductive invariant behind all but AckedEditIsStored *)

(* A change is stamped before it is written, and the stamp of a written    *)
(* one stays.  A deleted row stays deleted.                                *)
WrittenIsStamped ==
    /\ now >= 1
    /\ \A o \in OpId :
          /\ op[o].pc \in {"stamped", "applied"} => op[o].at >= 1
          /\ op[o].pc = "applied" => op[o].wrote
          /\ op[o].wrote => /\ op[o].pc \in {"applied", "done", "lost"}
                            /\ op[o].at >= 1
                            /\ op[o].kind = "delete" => row.deleted

(* b, a row or a bubble, has the stamp and the text of one edit of S, or   *)
(* no stamp.                                                               *)
Carries(b, S) == b.at # 0 => \E o \in S : op[o].at = b.at /\ op[o].text = b.text

RowIsBacked == IsStored(row.text) /\ Carries(row, Edits)

LateIsBacked == late # NoLate => IsStored(late.text)

(* What a handler compares with is a text the row has had.                 *)
AcksAreBacked ==
    /\ cache # NoText => IsStored(cache)
    /\ \A o \in OpId :
          /\ op[o].pc \in {"read", "known"} => IsStored(op[o].old)
          /\ op[o].ok => op[o].pc = "done"
    /\ AckedWasStored

(* A frame on the way tells of what the row has had.                       *)
FrameBacked(f) ==
    /\ f.kind = "edit" => f.op \in Edits
    /\ f.kind = "delete" => row.deleted
    /\ f.kind = "receive" => IsStored(f.text)
FramesAreBacked == \A t \in Tab : \A i \in 1..Len(pipe[t]) : FrameBacked(pipe[t][i])

(* So does a page of history, which also knows the edit its row shows.     *)
LoadBacked(l) ==
    /\ IsStored(l.row.text)
    /\ l.row.deleted => row.deleted
    /\ l.ops \subseteq Edits
    /\ Carries(l.row, l.ops)
    /\ \A o \in l.ops : op[o].at <= l.row.at
LoadsAreBacked == \A t \in Tab : load[t].pc = "read" => LoadBacked(load[t])

(* The stamp of a recipient's bubble is the greatest of the edits it has   *)
(* met and not gone back behind, and the text is that of one with it.      *)
Follows(t) ==
    /\ ~view[t].shown => view[t].at = 0
    /\ Carries(view[t], Kept(t))
    /\ \A o \in Kept(t) : op[o].at <= view[t].at

IInv ==
    /\ TypeOK
    /\ WrittenIsStamped
    /\ RowIsBacked
    /\ AcksAreBacked
    /\ LateIsBacked
    /\ FramesAreBacked
    /\ LoadsAreBacked
    /\ \A t \in Tab : heard[t] \subseteq Edits
    /\ \A t \in PeerTab : Follows(t)
    /\ ShownIsStored
    /\ DeletedIsTrue
=============================================================================
