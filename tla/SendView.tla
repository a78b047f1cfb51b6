------------------------------ MODULE SendView ------------------------------
(***************************************************************************)
(* What one tab of the sender shows of the direct messages it sends: the   *)
(* bubbles of ChatAdapterContext.jsx and ChatWindow.jsx, the outbox for    *)
(* what cannot be sent at once, and the retry of what has failed, against  *)
(* the answers of sendMessage.js and the receipts that follow them.        *)
(*                                                                         *)
(* A send has a bubble under its clientMessageId (own) until the ACK gives *)
(* it the server's id; the echo of the message and the history bring a     *)
(* second bubble under the server's id (echo).  Both are one message once  *)
(* the ACK is there, and the next message in the chat or the next load of  *)
(* history drops one of them.  Rendering shows the better status of two.   *)
(***************************************************************************)
EXTENDS Naturals, Sequences, FiniteSets

CONSTANTS
    MaxSends,   \* bound: messages typed and retried
    MaxDown,    \* bound: frames on the way to the tab
    MaxEvents   \* bound: closed sockets, reloads, loads, rate limits, repeated
                \*   receipts and messages from the peer

ASSUME BoundAssumption == MaxSends \in Nat /\ MaxDown \in Nat /\ MaxEvents \in Nat

Send == 1..MaxSends

VARIABLES
    text,     \* the send each one repeats, itself when typed, 0 when not used
    own,      \* bubbles under a clientMessageId
    echo,     \* status of bubbles under the server's id
    outbox,   \* pendingOutboxRef
    armed,    \* flushTimerRef
    flushing, \* history: a flush of this socket has sent and left something
    load,     \* a load of history
    ready,    \* wsClient.isReady()
    limited,  \* wsClient.isRateLimited()
    down,     \* frames on the way to the tab
    req,      \* what became of the request of each send
    level,    \* the best state the message has had on the server
    cut,      \* history: sends whose ACK was lost with a socket
    gone,     \* history: texts a page reload took before they were stored
    events

viewVars == <<text, own, echo, load>>
outboxVars == <<outbox, armed, flushing>>
serverVars == <<req, level>>
vars == <<viewVars, outboxVars, serverVars, ready, limited, down, cut, gone, events>>

Tick == {"sent", "delivered", "read"}
Rank(s) == CASE s = "sent" -> 1 [] s = "delivered" -> 2 [] s = "read" -> 3 [] OTHER -> 0

Bubble == [shown : BOOLEAN, named : BOOLEAN, deleted : BOOLEAN,
           status : Tick \cup {"sending", "failed"}]
NoBubble == [shown |-> FALSE, named |-> FALSE, deleted |-> FALSE, status |-> "sending"]
Frame == [kind : {"echo", "ack", "nack", "error", "status", "update", "peer"},
          id : Send \cup {0}, state : Tick]
Load == [pc : {"idle", "asked", "read"}, rows : [Send -> Tick \cup {"none"}]]
NoLoad == [pc |-> "idle", rows |-> [i \in Send |-> "none"]]

TypeOK ==
    /\ text \in [Send -> Send \cup {0}]
    /\ own \in [Send -> Bubble]
    /\ echo \in [Send -> Tick \cup {"none"}]
    /\ outbox \in Seq(Send)
    /\ armed \in BOOLEAN
    /\ flushing \in BOOLEAN
    /\ load \in Load
    /\ ready \in BOOLEAN
    /\ limited \in BOOLEAN
    /\ down \in Seq(Frame)
    /\ req \in [Send -> {"none", "way", "stored", "answered", "done", "refused", "lost"}]
    /\ level \in [Send -> Tick \cup {"none"}]
    /\ cut \subseteq Send
    /\ gone \subseteq Send
    /\ events \in 0..MaxEvents

Init ==
    /\ text = [i \in Send |-> 0]
    /\ own = [i \in Send |-> NoBubble]
    /\ echo = [i \in Send |-> "none"]
    /\ outbox = <<>>
    /\ armed = FALSE
    /\ flushing = FALSE
    /\ load = NoLoad
    /\ ready = FALSE
    /\ limited = FALSE
    /\ down = <<>>
    /\ req = [i \in Send |-> "none"]
    /\ level = [i \in Send |-> "none"]
    /\ cut = {}
    /\ gone = {}
    /\ events = 0

-----------------------------------------------------------------------------
Happens == events < MaxEvents /\ events' = events + 1

Used == {i \in Send : text[i] # 0}
F(kind, i, s) == [kind |-> kind, id |-> i, state |-> s]
Sends(f) ==
    /\ Len(down) + Len(f) <= MaxDown
    /\ down' = IF ready THEN down \o f ELSE down

AckComing(i) == \E k \in 1..Len(down) : down[k].kind = "ack" /\ down[k].id = i

Named(i) == own[i].shown /\ own[i].named
Asking == IF load.pc = "idle" THEN [load EXCEPT !.pc = "asked"] ELSE load

(* send() of wsClient.js, which sends nothing while the server has asked   *)
(* the client to slow down.                                                *)
Sendable == ready /\ ~limited

-----------------------------------------------------------------------------
(* Typing and retrying *)

(* sendOrQueueMessage.  What cannot be sent is queued, and no timer is set. *)
SendsOrQueues(i) ==
    IF Sendable
    THEN req' = [req EXCEPT ![i] = "way"] /\ UNCHANGED outbox
    ELSE outbox' = Append(outbox, i) /\ UNCHANGED req

Optimistic == [NoBubble EXCEPT !.shown = TRUE]

HandleSend(i) ==
    /\ Used = 1..(i - 1)
    /\ text' = [text EXCEPT ![i] = i]
    /\ own' = [own EXCEPT ![i] = Optimistic]
    /\ SendsOrQueues(i)
    /\ UNCHANGED <<echo, armed, flushing, load, ready, limited, down, level, cut, gone, events>>

(* Mutant: the failed bubble is removed, the new one is not added. *)
RetriedOnly(i, j) == [own EXCEPT ![j].deleted = TRUE]

(* The failed bubble is deleted, and its text is shown and sent under an   *)
(* id of its own.                                                          *)
Retried(i, j) == [own EXCEPT ![j].deleted = TRUE, ![i] = Optimistic]

(* The delete that goes with a retry names no message of the server: with  *)
(* a socket or without the tab ends up loading history.                    *)
HandleRetryFailedMessage(i, j) ==
    /\ Used = 1..(i - 1)
    /\ own[j].shown /\ own[j].status = "failed"
    /\ text' = [text EXCEPT ![i] = text[j]]
    /\ own' = Retried(i, j)
    /\ load' = Asking
    /\ SendsOrQueues(i)
    /\ UNCHANGED <<echo, armed, flushing, ready, limited, down, level, cut, gone, events>>

(* The 15 s a bubble may be pending are over, sent or still queued.        *)
SendingTimeout(i) ==
    /\ own[i].shown /\ own[i].status = "sending"
    /\ own' = [own EXCEPT ![i].status = "failed"]
    /\ UNCHANGED <<text, echo, load, outboxVars, serverVars, ready, limited, down, cut,
                   gone, events>>

-----------------------------------------------------------------------------
(* The outbox *)

(* Mutant: one item is sent and the timer is not set again. *)
FlushOnce(was) ==
    /\ outbox # <<>>
    /\ req' = [req EXCEPT ![Head(outbox)] = "way"]
    /\ outbox' = Tail(outbox)
    /\ armed' = was
    /\ flushing' = (Len(outbox) > 1)

(* flushPendingOutbox with something to send sends the head; on an open    *)
(* socket that always succeeds.  was says whether another timer is set.    *)
FlushHead(was) ==
    /\ outbox # <<>>
    /\ req' = [req EXCEPT ![Head(outbox)] = "way"]
    /\ outbox' = Tail(outbox)
    /\ armed' = (was \/ Len(outbox) > 1)
    /\ flushing' = (Len(outbox) > 1)

(* While limited it comes back later, unless that is a minute away.        *)
FlushWhenReady(was) ==
    \/ ~limited /\ FlushHead(was)
    \/ /\ limited /\ outbox # <<>>
       /\ armed' \in {TRUE, was}
       /\ flushing' = (flushing /\ armed')
       /\ UNCHANGED <<outbox, req>>
    \/ /\ outbox = <<>>
       /\ armed' = was
       /\ UNCHANGED <<outbox, flushing, req>>

HelloAck ==
    /\ ~ready
    /\ ready' = TRUE
    /\ FlushWhenReady(armed)
    /\ UNCHANGED <<viewVars, limited, down, level, cut, gone, events>>

FlushTimer ==
    /\ armed
    /\ \/ ready /\ FlushWhenReady(FALSE)
       \/ /\ ~ready
          /\ armed' = (outbox # <<>>)
          /\ UNCHANGED <<outbox, flushing, req>>
    /\ UNCHANGED <<viewVars, ready, limited, down, level, cut, gone, events>>

-----------------------------------------------------------------------------
(* The server *)

(* Mutant: the message is acknowledged before it is stored. *)
StoresLater(i) ==
    /\ req[i] = "way"
    /\ req' = [req EXCEPT ![i] = "stored"]
    /\ UNCHANGED <<viewVars, outboxVars, level, ready, limited, down, cut, gone, events>>

Stores(i) ==
    /\ req[i] = "way"
    /\ req' = [req EXCEPT ![i] = "stored"]
    /\ level' = [level EXCEPT ![i] = "sent"]
    /\ UNCHANGED <<viewVars, outboxVars, ready, limited, down, cut, gone, events>>

(* The echo to the sender's sockets, then the ACK. *)
Answers(i) ==
    /\ req[i] = "stored"
    /\ req' = [req EXCEPT ![i] = "answered"]
    /\ Sends(<<F("echo", i, "sent"), F("ack", i, "sent")>>)
    /\ cut' = IF ready THEN cut ELSE cut \cup {i}
    /\ UNCHANGED <<viewVars, outboxVars, level, ready, limited, gone, events>>

(* A NACK, also for a row whose write was applied; or an ERROR of the      *)
(* router, which names no message.                                         *)
Refuses(i) ==
    /\ req[i] = "way"
    /\ req' = [req EXCEPT ![i] = "refused"]
    /\ \/ Sends(<<F("nack", i, "sent")>>) /\ level' \in {level, [level EXCEPT ![i] = "sent"]}
       \/ Sends(<<F("error", 0, "sent")>>) /\ UNCHANGED level
    /\ UNCHANGED <<viewVars, outboxVars, ready, limited, cut, gone, events>>

AtLeast(i, s) == IF Rank(level[i]) < Rank(s) THEN s ELSE level[i]

(* The outcome of the live delivery: DELIVERY_STATUS once a frame is       *)
(* queued for the recipient, an error when all queues are full, and        *)
(* RECIPIENT_OFFLINE, which changes no tick.                               *)
ReportsDelivery(i) ==
    /\ req[i] = "answered"
    /\ req' = [req EXCEPT ![i] = "done"]
    /\ \/ Sends(<<F("status", i, "delivered")>>)
          /\ level' = [level EXCEPT ![i] = AtLeast(i, "delivered")]
       \/ Sends(<<F("error", 0, "sent")>>) /\ UNCHANGED level
       \/ UNCHANGED <<down, level>>
    /\ UNCHANGED <<viewVars, outboxVars, ready, limited, cut, gone, events>>

(* A replay, a confirmation or a read of the recipient, told to the sender. *)
Confirms(i, s) ==
    /\ s \in {"delivered", "read"}
    /\ level[i] # "none" /\ Rank(level[i]) < Rank(s)
    /\ level' = [level EXCEPT ![i] = s]
    /\ Sends(<<F("update", i, s)>>)
    /\ UNCHANGED <<viewVars, outboxVars, req, ready, limited, cut, gone, events>>

(* A confirmation that comes again, from another tab or after a retry, is  *)
(* told again.                                                             *)
ConfirmsAgain(i, s) ==
    /\ s \in {"delivered", "read"}
    /\ Rank(s) <= Rank(level[i])
    /\ Happens
    /\ Sends(<<F("update", i, s)>>)
    /\ UNCHANGED <<viewVars, outboxVars, serverVars, ready, limited, cut, gone>>

(* The peer writes to the chat. *)
PeerWrites ==
    /\ ready
    /\ Happens
    /\ Sends(<<F("peer", 0, "sent")>>)
    /\ UNCHANGED <<viewVars, outboxVars, serverVars, ready, limited, cut, gone>>

-----------------------------------------------------------------------------
(* What the tab does with a frame *)

Arrives(kind) == down # <<>> /\ Head(down).kind = kind /\ down' = Tail(down)
It == Head(down).id

(* Of two bubbles of one id either may stay: they are sorted by createdAt, *)
(* which the tab's clock has given to one of them.                         *)
Collapses(e) ==
    \E keep \in SUBSET {i \in Send : Named(i) /\ e[i] # "none"} :
        /\ own' = [i \in Send |-> IF Named(i) /\ e[i] # "none" /\ i \notin keep
                                  THEN NoBubble ELSE own[i]]
        /\ echo' = [i \in Send |-> IF i \in keep THEN "none" ELSE e[i]]

unviewed == <<text, load, outboxVars, serverVars, ready, limited, cut, gone, events>>

(* mergeMessageReceive with the sender's own message: its fields replace   *)
(* those of a bubble the history has brought, and the status with them.    *)
EchoArrives ==
    /\ Arrives("echo")
    /\ Collapses([echo EXCEPT ![It] = "sent"])
    /\ UNCHANGED unviewed

PeerArrives ==
    /\ Arrives("peer")
    /\ Collapses(echo)
    /\ UNCHANGED unviewed

(* Mutant: the ACK changes the status and leaves the bubble its id. *)
Unnamed(b) == [b EXCEPT !.deleted = FALSE, !.status = "sent"]

(* replaceMessage: the id, the status, and deleted, which the ACK has not. *)
Acked(b) == [b EXCEPT !.named = TRUE, !.deleted = FALSE, !.status = "sent"]

AckArrives ==
    /\ Arrives("ack")
    /\ own' = IF own[It].shown THEN [own EXCEPT ![It] = Acked(@)] ELSE own
    /\ UNCHANGED <<echo, unviewed>>

NackArrives ==
    /\ Arrives("nack")
    /\ own' = IF own[It].shown /\ ~own[It].named
              THEN [own EXCEPT ![It].status = "failed"] ELSE own
    /\ UNCHANGED <<echo, unviewed>>

Pending == {i \in Send : own[i].shown /\ own[i].status = "sending"}

(* An error that names no clientMessageId fails the newest pending bubble, *)
(* whichever message it is about.                                          *)
ErrorArrives ==
    /\ Arrives("error")
    /\ own' = [i \in Send |-> IF i \in Pending /\ \A j \in Pending : j <= i
                              THEN [own[i] EXCEPT !.status = "failed"] ELSE own[i]]
    /\ UNCHANGED <<echo, unviewed>>

Ticked(i, s) ==
    /\ own' = IF Named(i) THEN [own EXCEPT ![i].status = s] ELSE own
    /\ echo' = IF echo[i] # "none" THEN [echo EXCEPT ![i] = s] ELSE echo

(* updateMessageStatusByMessageId with forceSync. *)
StatusArrives ==
    /\ Arrives("status")
    /\ Ticked(It, Head(down).state)
    /\ UNCHANGED unviewed

(* applyStateUpdate compares with the first of the bubbles of the id, and  *)
(* what it decides goes for all of them.                                   *)
Shown(i) == {s \in Tick : (Named(i) /\ s = own[i].status) \/ s = echo[i]}

UpdateArrives ==
    /\ Arrives("update")
    /\ LET s == Head(down).state IN
       \/ /\ \E c \in Shown(It) : Rank(c) < Rank(s)
          /\ Ticked(It, s)
       \/ /\ \E c \in Shown(It) : Rank(c) >= Rank(s)
          /\ UNCHANGED <<own, echo>>
       \/ /\ Shown(It) = {}
          /\ UNCHANGED <<own, echo>>
    /\ UNCHANGED unviewed

-----------------------------------------------------------------------------
(* Loading history *)

LoadStarts ==
    /\ load.pc = "idle"
    /\ Happens
    /\ load' = Asking
    /\ UNCHANGED <<text, own, echo, outboxVars, serverVars, ready, limited, down, cut, gone>>

LoadReads ==
    /\ load.pc = "asked"
    /\ load' = [pc |-> "read", rows |-> level]
    /\ UNCHANGED <<text, own, echo, outboxVars, serverVars, ready, limited, down, cut, gone,
                   events>>

(* loadMessages adds what the list does not have, and keeps what it has.   *)
MergesList ==
    Collapses([i \in Send |-> IF ~Named(i) /\ echo[i] = "none" THEN load.rows[i]
                                                               ELSE echo[i]])

LoadArrives ==
    /\ load.pc = "read"
    /\ load' = NoLoad
    /\ MergesList
    /\ UNCHANGED <<text, outboxVars, serverVars, ready, limited, down, cut, gone, events>>

LoadFails ==
    /\ load.pc = "asked"
    /\ load' = NoLoad
    /\ UNCHANGED <<text, own, echo, outboxVars, serverVars, ready, limited, down, cut, gone,
                   events>>

-----------------------------------------------------------------------------
(* The socket and the page *)

(* Frames on the way are lost, and the requests the server has not got.    *)
Cuts ==
    /\ ready' = FALSE
    /\ flushing' = FALSE
    /\ down' = <<>>
    /\ cut' = cut \cup {i \in Send : AckComing(i)}
    /\ \E lost \in SUBSET {i \in Send : req[i] = "way"} :
          req' = [i \in Send |-> IF i \in lost THEN "lost" ELSE req[i]]

Disconnect ==
    /\ ready
    /\ Happens
    /\ Cuts
    /\ UNCHANGED <<viewVars, outbox, armed, level, limited, gone>>

ReloadPage ==
    /\ Used # {}
    /\ Happens
    /\ Cuts
    /\ own' = [i \in Send |-> NoBubble]
    /\ echo' = [i \in Send |-> "none"]
    /\ load' = NoLoad
    /\ outbox' = <<>>
    /\ armed' = FALSE
    /\ limited' = FALSE
    /\ gone' = gone \cup {text[i] : i \in {j \in Used : level[j] = "none"}}
    /\ UNCHANGED <<text, level>>

Slows ==
    /\ ready /\ ~limited
    /\ Happens
    /\ limited' = TRUE
    /\ UNCHANGED <<viewVars, outboxVars, serverVars, ready, down, cut, gone>>

LimitEnds ==
    /\ limited
    /\ limited' = FALSE
    /\ UNCHANGED <<viewVars, outboxVars, serverVars, ready, down, cut, gone, events>>

-----------------------------------------------------------------------------
UserStep ==
    \/ \E i \in Send : HandleSend(i)
    \/ \E i, j \in Send : HandleRetryFailedMessage(i, j)
    \/ ReloadPage

TabStep ==
    \/ \E i \in Send : SendingTimeout(i)
    \/ HelloAck
    \/ FlushTimer
    \/ EchoArrives
    \/ AckArrives
    \/ NackArrives
    \/ ErrorArrives
    \/ StatusArrives
    \/ UpdateArrives
    \/ PeerArrives
    \/ LoadStarts
    \/ LoadReads
    \/ LoadArrives
    \/ LoadFails

ServerStep ==
    \/ \E i \in Send :
          \/ Stores(i)
          \/ Answers(i)
          \/ Refuses(i)
          \/ ReportsDelivery(i)
          \/ \E s \in Tick : Confirms(i, s) \/ ConfirmsAgain(i, s)
    \/ PeerWrites
    \/ Disconnect
    \/ Slows
    \/ LimitEnds

Next == UserStep \/ TabStep \/ ServerStep

Spec == Init /\ [][Next]_vars /\ WF_vars(FlushTimer)

-----------------------------------------------------------------------------
(* Properties *)

(* No text disappears in the tab: it is stored, or a bubble shows it as    *)
(* pending or failed, unless the page was reloaded first.  Retries, late   *)
(* answers, errors about something else, merges of history and the hard    *)
(* deduplication all work on the list that holds it.                       *)
NothingVanishes ==
    \A t \in Used :
        \/ text[t] \in gone
        \/ \E i \in Used : /\ text[i] = text[t]
                          /\ \/ level[i] # "none"
                             \/ own[i].shown /\ ~own[i].deleted /\ ~own[i].named

(* A tick is backed by the server: sent means stored, delivered that the   *)
(* message was handed to the recipient's socket or replay, read that the   *)
(* recipient has read it; forced, merged and loaded ticks alike.           *)
TicksAreBacked ==
    \A i \in Send :
        /\ own[i].shown => Rank(own[i].status) <= Rank(level[i])
        /\ Rank(echo[i]) <= Rank(level[i])

(* A message is seen twice, pending or failed and once more as sent, only  *)
(* until its ACK comes, after a NACK for a row that was written, or when   *)
(* its ACK was lost with the socket.                                       *)
DoubleIsExplained ==
    \A i \in Send :
        own[i].shown /\ ~own[i].named /\ echo[i] # "none" =>
            \/ req[i] \in {"stored", "refused"}
            \/ i \in cut
            \/ AckComing(i)

(* What is queued leaves: once its timer is set or a flush has begun, on a *)
(* socket that stays ready and is not slowed down, the outbox is emptied   *)
(* (the toast says "Will send when connected").                            *)
OutboxDrains ==
    ((armed \/ flushing) /\ Sendable) ~> (outbox = <<>> \/ ~Sendable)

(* Its safety half: a flush that has begun and left something has its      *)
(* timer set, whatever is queued, slowed down or answered meanwhile, until *)
(* the socket closes or the server asks for a pause of a minute.           *)
FlushesGoOn == flushing => ready /\ armed /\ outbox # <<>>

(* And a timer that is set with something queued stays set, across closed  *)
(* sockets too, until nothing is queued; only a pause of a minute ends it. *)
TimerIsKept == [][armed /\ outbox # <<>> => armed' \/ outbox' = <<>> \/ limited]_vars

-----------------------------------------------------------------------------
(* The inductive invariant *)

(* A send that is not used has left no trace. *)
UnusedIsFresh ==
    \A i \in Send : text[i] = 0 =>
        /\ ~own[i].shown
        /\ req[i] = "none"

(* What is queued has not been sent, and is queued once. *)
QueuedIsUnsent ==
    /\ \A k \in 1..Len(outbox) : req[outbox[k]] = "none" /\ text[outbox[k]] # 0
    /\ \A k, l \in 1..Len(outbox) : outbox[k] = outbox[l] => k = l

(* A row has a request that wrote it, and an answer has a row. *)
StoredIsRequested ==
    \A i \in Send :
        /\ level[i] # "none" => req[i] \in {"stored", "answered", "done", "refused"}
        /\ req[i] \in {"stored", "answered", "done"} => level[i] # "none"

NamedIsTicked == \A i \in Send : Named(i) => own[i].status \in Tick /\ ~own[i].deleted

(* Frames and the history read say no more of a message than the server.   *)
FrameBacked(f) ==
    f.kind \in {"echo", "ack", "status", "update"} =>
        f.id \in Send /\ Rank(f.state) <= Rank(level[f.id])

NewsIsBacked ==
    /\ \A k \in 1..Len(down) : FrameBacked(down[k])
    /\ \A i \in Send : Rank(load.rows[i]) <= Rank(level[i])

(* A bubble that waits for an ACK which was sent will get it, or it was cut. *)
AnswerIsComing ==
    \A i \in Send :
        req[i] \in {"answered", "done"} /\ own[i].shown /\ ~own[i].named =>
            i \in cut \/ AckComing(i)

IInv ==
    /\ TypeOK
    /\ UnusedIsFresh
    /\ QueuedIsUnsent
    /\ StoredIsRequested
    /\ NamedIsTicked
    /\ NewsIsBacked
    /\ AnswerIsComing
    /\ NothingVanishes
    /\ TicksAreBacked
=============================================================================
