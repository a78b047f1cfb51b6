---------------------------- MODULE OutboundQueue ----------------------------
(***************************************************************************)
(* The outbound queue of one WebSocket (websocket/safety/backpressure.js). *)
(* Every frame to the peer is queued; a drain loop shifts them one by one  *)
(* into ws.send; a slow peer stops the loop, or costs the frame at hand; a *)
(* queue that refuses too often closes the socket, if the caller asks.     *)
(*                                                                         *)
(* The loop is asynchronous: it waits for sendOrFail, which may be waiting *)
(* for the database, and goes on in a setImmediate.  New frames arrive in  *)
(* between, and each of them may start a loop: only the flag `processing'  *)
(* keeps two of them apart.                                                *)
(***************************************************************************)
EXTENDS Integers, Sequences

CONSTANTS
    MaxQueue,     \* BACKPRESSURE.maxQueueSize
    MaxOverflows, \* BACKPRESSURE.maxQueueOverflows
    Threshold,    \* BACKPRESSURE.threshold, of pending sends
    Drain,        \* drain loops that could be active at a time
    MaxFrames     \* bound: frames accepted in a behaviour

ASSUME QueueAssumption == MaxQueue \in Nat \ {0}
ASSUME OverflowAssumption == MaxOverflows \in Nat \ {0}
ASSUME ThresholdAssumption == Threshold \in Nat \ {0, 1}
ASSUME FramesAssumption == MaxFrames \in Nat
ASSUME DrainAssumption == Drain # {}

VARIABLES
    queue,      \* state.queue: the frames that wait
    processing, \* state.processing: the flag against two drain loops
    overflows,  \* state.queueOverflows, up to MaxOverflows
    pending,    \* state.pendingSends
    present,    \* the socket has a state object
    at,         \* where each drain loop stands
    open,       \* readyState = OPEN
    slow,       \* bufferedAmount is over the threshold
    accepted,   \* frames accepted so far; frame n is the n-th one
    durable,    \* the frames that carry a messageId
    wire,       \* the frames handed to ws.send, in order
    lost        \* the frames shifted from the queue and not sent

histVars  == <<accepted, durable, wire, lost>>
queueVars == <<queue, processing, overflows, pending, present, at, open, slow, histVars>>

-----------------------------------------------------------------------------
(* sent, dropped: sendOrFail has settled, and its continuation is the next *)
(* microtask; marking: sendOrFail awaits the FAILED mark in the database;  *)
(* next: sendNext is scheduled with setImmediate.                          *)
LoopPc == {"idle", "sent", "dropped", "marking", "next"}

QueueTypeOK ==
    /\ queue      \in Seq(Nat)
    /\ Len(queue) <= MaxQueue
    /\ processing \in BOOLEAN
    /\ overflows  \in 0..MaxOverflows
    /\ pending    \in Nat
    /\ present    \in BOOLEAN
    /\ at         \in [Drain -> LoopPc]
    /\ open       \in BOOLEAN
    /\ slow       \in BOOLEAN
    /\ accepted   \in Nat
    /\ durable    \subseteq 1..accepted
    /\ wire       \in Seq(Nat)
    /\ lost       \subseteq Nat

(* Microtasks run before any timer, socket event or database answer.       *)
NoMicrotask == \A d \in Drain : at[d] \notin {"sent", "dropped"}

(* checkBackpressure of a queue of length len: pending sends and length    *)
(* are always looked at, the buffered amount only if 100 ms have passed    *)
(* since the last look, so a slow peer may or may not be noticed.          *)
MayPass(len)  == pending < Threshold /\ len < MaxQueue
MayBlock(len) == slow \/ ~MayPass(len)

(* A passed check forgets past overflows once the queue is half empty.     *)
Forgiven(len) == IF 2 * len < MaxQueue THEN 0 ELSE overflows

(* sendNext shifts the head of q and hands it to sendOrFail, which sends   *)
(* it, or drops it because of the buffered amount and, if it names a       *)
(* message, marks that message FAILED.                                     *)
SendHead(d, q, named) ==
    /\ queue' = Tail(q)
    /\ pending' = pending + 1
    /\ \/ /\ slow
          /\ lost' = lost \cup {Head(q)}
          /\ at' = [at EXCEPT ![d] = IF Head(q) \in named THEN "marking" ELSE "dropped"]
          /\ UNCHANGED wire
       \/ /\ ~slow
          /\ wire' = Append(wire, Head(q))
          /\ at' = [at EXCEPT ![d] = "sent"]
          /\ UNCHANGED lost

-----------------------------------------------------------------------------
(* The state initSocket installs.                                          *)
QueueInit ==
    /\ queue = <<>>
    /\ processing = FALSE
    /\ overflows = 0
    /\ pending = 0
    /\ present = TRUE
    /\ at = [d \in Drain |-> "idle"]
    /\ open = TRUE
    /\ slow = FALSE
    /\ accepted = 0
    /\ durable = {}
    /\ wire = <<>>
    /\ lost = {}

(* sendMessage on an open socket whose queue has room: the frame goes to   *)
(* the end of the queue.                                                   *)
Admit(named) ==
    /\ open
    /\ Len(queue) < MaxQueue
    /\ accepted < MaxFrames
    /\ accepted' = accepted + 1
    /\ durable' = IF named THEN durable \cup {accepted + 1} ELSE durable
    /\ UNCHANGED <<present, open, slow>>

(* A drain is at work, or the check fails: the frame stays there.          *)
AcceptQueued(named) ==
    /\ Admit(named)
    /\ processing \/ MayBlock(Len(queue) + 1)
    /\ queue' = Append(queue, accepted + 1)
    /\ UNCHANGED <<processing, overflows, pending, at, wire, lost>>

(* Mutant of AcceptAndDrain: the new frame is sent ahead of those waiting. *)
AcceptAndSend(named) ==
    /\ Admit(named)
    /\ ~processing
    /\ MayPass(Len(queue) + 1)
    /\ processing' = TRUE
    /\ overflows' = Forgiven(Len(queue) + 1)
    /\ \E d \in Drain :
          /\ at[d] = "idle"
          /\ SendHead(d, <<accepted + 1>> \o queue, durable')

(* Otherwise a drain starts, and the head of the queue is sent at once.    *)
AcceptAndDrain(named) ==
    /\ Admit(named)
    /\ ~processing
    /\ MayPass(Len(queue) + 1)
    /\ processing' = TRUE
    /\ overflows' = Forgiven(Len(queue) + 1)
    /\ \E d \in Drain :
          /\ at[d] = "idle"
          /\ SendHead(d, Append(queue, accepted + 1), durable')

(* sendMessage finds the queue full: the frame is refused.  At the last    *)
(* allowed overflow most callers close the socket (closes), which also     *)
(* drops its state object; the dispatcher's sendResponse does not.         *)
Refuse(closes) ==
    /\ open
    /\ Len(queue) >= MaxQueue
    /\ overflows' = IF overflows < MaxOverflows THEN overflows + 1 ELSE overflows
    /\ IF closes /\ overflows' = MaxOverflows
       THEN open' = FALSE /\ present' = FALSE
       ELSE UNCHANGED <<open, present>>
    /\ UNCHANGED <<queue, processing, pending, at, slow, histVars>>

(* sendNext stops on a closed socket, on a failed check and on an empty    *)
(* queue,                                                                  *)
sendNextStops(d) ==
    /\ at[d] = "next"
    /\ NoMicrotask
    /\ \/ ~open /\ UNCHANGED overflows
       \/ open /\ MayBlock(Len(queue)) /\ UNCHANGED overflows
       \/ open /\ MayPass(Len(queue)) /\ queue = <<>> /\ overflows' = Forgiven(0)
    /\ processing' = FALSE
    /\ at' = [at EXCEPT ![d] = "idle"]
    /\ UNCHANGED <<queue, pending, present, open, slow, histVars>>

(* and sends the next frame otherwise.                                     *)
sendNext(d) ==
    /\ at[d] = "next"
    /\ NoMicrotask
    /\ open
    /\ MayPass(Len(queue))
    /\ queue # <<>>
    /\ overflows' = Forgiven(Len(queue))
    /\ SendHead(d, queue, durable)
    /\ UNCHANGED <<processing, present, open, slow, accepted, durable>>

Decremented == IF pending = 0 THEN 0 ELSE pending - 1

(* Mutants of Sent: the flag is cleared although the loop goes on; the     *)
(* loop ends after one frame.                                              *)
SentClearsFlag(d) ==
    /\ at[d] = "sent"
    /\ pending' = IF present THEN Decremented ELSE pending
    /\ processing' = FALSE
    /\ at' = [at EXCEPT ![d] = IF present THEN "next" ELSE "idle"]
    /\ UNCHANGED <<queue, overflows, present, open, slow, histVars>>

SentOnce(d) ==
    /\ at[d] = "sent"
    /\ pending' = IF present THEN Decremented ELSE pending
    /\ processing' = IF present THEN FALSE ELSE processing
    /\ at' = [at EXCEPT ![d] = "idle"]
    /\ UNCHANGED <<queue, overflows, present, open, slow, histVars>>

(* The continuation of a send: the loop goes on.  If the state object is   *)
(* gone by now, the loop ends.                                             *)
Sent(d) ==
    /\ at[d] = "sent"
    /\ pending' = IF present THEN Decremented ELSE pending
    /\ at' = [at EXCEPT ![d] = IF present THEN "next" ELSE "idle"]
    /\ UNCHANGED <<queue, processing, overflows, present, open, slow, histVars>>

(* Mutant of Dropped: the loop ends and leaves the flag up.                *)
DroppedKeepsFlag(d) ==
    /\ at[d] = "dropped" \/ (at[d] = "marking" /\ NoMicrotask)
    /\ pending' = IF present THEN Decremented ELSE pending
    /\ at' = [at EXCEPT ![d] = "idle"]
    /\ UNCHANGED <<queue, processing, overflows, present, open, slow, histVars>>

(* The continuation of a drop: the loop ends.                              *)
Dropped(d) ==
    /\ at[d] = "dropped" \/ (at[d] = "marking" /\ NoMicrotask)
    /\ pending' = IF present THEN Decremented ELSE pending
    /\ processing' = IF present THEN FALSE ELSE processing
    /\ at' = [at EXCEPT ![d] = "idle"]
    /\ UNCHANGED <<queue, overflows, present, open, slow, histVars>>

(* closeAbusiveConnection, for another reason than the queue.              *)
closeAbusiveConnection ==
    /\ present
    /\ open' = FALSE
    /\ present' = FALSE
    /\ UNCHANGED <<queue, processing, overflows, pending, at, slow, histVars>>

(* The peer, an external program: it reads slowly, catches up, goes.       *)
SlowDown ==
    /\ open /\ ~slow
    /\ slow' = TRUE
    /\ UNCHANGED <<queue, processing, overflows, pending, present, at, open, histVars>>

CatchUp ==
    /\ open /\ slow /\ NoMicrotask
    /\ slow' = FALSE
    /\ UNCHANGED <<queue, processing, overflows, pending, present, at, open, histVars>>

Disconnect ==
    /\ open /\ NoMicrotask
    /\ open' = FALSE
    /\ UNCHANGED <<queue, processing, overflows, pending, present, at, slow, histVars>>

-----------------------------------------------------------------------------
Step(d) == sendNextStops(d) \/ sendNext(d) \/ Sent(d) \/ Dropped(d)

QueueNext ==
    \/ \E named \in BOOLEAN : AcceptQueued(named) \/ AcceptAndDrain(named)
    \/ \E closes \in BOOLEAN : Refuse(closes)
    \/ \E d \in Drain : Step(d)
    \/ closeAbusiveConnection
    \/ SlowDown
    \/ CatchUp
    \/ Disconnect

(* Continuations and immediates run, and the database answers; a peer that *)
(* stays connected reads what it is sent.                                  *)
QueueFairness ==
    /\ \A d \in Drain : WF_queueVars(Step(d))
    /\ WF_queueVars(CatchUp)

QueueSpec == QueueInit /\ [][QueueNext]_queueVars /\ QueueFairness

-----------------------------------------------------------------------------
(* Safety *)

(* The flag of processQueue does its work: at most one drain loop is       *)
(* active, whatever arrives while it waits for sendOrFail, and on a socket *)
(* that has its state the flag is up exactly while one is.                 *)
OneDrain ==
    /\ \A d, e \in Drain : at[d] # "idle" /\ at[e] # "idle" => d = e
    /\ present => (processing <=> \E d \in Drain : at[d] # "idle")

(* Pending sends are counted exactly: one while sendOrFail is out, none    *)
(* otherwise.  The threshold of 100 pending sends is never reached.        *)
PendingIsExact ==
    present => pending = IF \E d \in Drain : at[d] \in {"sent", "dropped", "marking"}
                         THEN 1 ELSE 0

(* Frames leave in the order sendMessage accepted them, none twice, and    *)
(* every accepted frame is in one place: sent, dropped, or in the queue    *)
(* behind all that were taken from it.                                     *)
taken == accepted - Len(queue)
Elements(s) == {s[i] : i \in DOMAIN s}
InOrder ==
    /\ taken >= 0
    /\ \A i \in DOMAIN queue : queue[i] = taken + i
    /\ \A i, j \in DOMAIN wire : i < j => wire[i] < wire[j]
    /\ Elements(wire) \cap lost = {}
    /\ Elements(wire) \cup lost = 1..taken

(* The inductive invariant.  A socket loses its state object only after it *)
(* has stopped being open, so a drain never starts beside an old one.      *)
QueueIInv ==
    /\ QueueTypeOK
    /\ open => present
    /\ OneDrain
    /\ PendingIsExact
    /\ InOrder

-----------------------------------------------------------------------------
(* Liveness *)

(* To a peer that keeps up, on a queue that never fills, every accepted    *)
(* frame is sent, unless the socket closes.                                *)
KeepsUp == ~slow /\ Len(queue) < MaxQueue
SentToFastPeer ==
    []KeepsUp => \A n \in 1..MaxFrames : n <= accepted ~> n \in Elements(wire) \/ ~open

(* The safety half of it: all that time a drain is at work while frames    *)
(* wait on an open socket, and no frame is dropped.  A drain stopped by a  *)
(* failed check has nothing to start it again, so none may stop early.     *)
Attended == open /\ queue # <<>> => \E d \in Drain : at[d] # "idle"
NothingWaits == Attended /\ lost = {}
ServedWhileFast == []KeepsUp => []NothingWaits

(* A queue that has stopped, because a check failed or a frame was         *)
(* dropped, recovers: once backpressure has cleared for good and no drain  *)
(* is about to end with a drop, the next frame accepted restarts it, and   *)
(* that frame and all before it are taken from the queue, unless the       *)
(* socket closes.  While a drop is being marked FAILED in the database     *)
(* this is not so: the frame only joins the queue, as the flag is up, and  *)
(* the drain ends behind it.                                               *)
Clear == KeepsUp /\ \A d \in Drain : at[d] \notin {"dropped", "marking"}
Taken(n) == 1..n \subseteq Elements(wire) \cup lost
NextFrameRestarts ==
    \A n \in 1..MaxFrames :
        [](accepted < n /\ Clear /\ []KeepsUp => (accepted >= n ~> Taken(n) \/ ~open))

(* The safety half of it: while backpressure stays clear no drain drops a  *)
(* frame or stops in front of one, and an accepted frame never waits       *)
(* without a drain.                                                        *)
AcceptAttends == [][Clear /\ KeepsUp' /\ accepted' # accepted => Attended']_queueVars
StaysAttended == [](Clear /\ Attended /\ []KeepsUp => [](Clear /\ Attended))

(* backpressure.js:118 and :165: messages are queued "for sending when     *)
(* backpressure clears", and the queue is processed "when backpressure     *)
(* allows"; wsServer.js:579-581: queued even then, "so they can be sent    *)
(* later".  Nothing comes back to a queue that has stopped.                *)
QueuedIsSent ==
    <>[]~slow => \A n \in 1..MaxFrames : n <= accepted ~> Taken(n) \/ ~open
=============================================================================
