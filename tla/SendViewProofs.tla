--------------------------- MODULE SendViewProofs ---------------------------
(***************************************************************************)
(* The inductive invariant of SendView, for any number of sends and any    *)
(* bounds on frames and events, and the safety properties it implies.      *)
(* After facts about frames and the outbox there is a lemma for each       *)
(* action, with a step for each part of the invariant.                     *)
(***************************************************************************)
EXTENDS SendView, TLAPS

USE BoundAssumption

(* The order of the ticks.                                                 *)
LEMMA RankFacts ==
  /\ Rank("none") = 0 /\ Rank("sending") = 0 /\ Rank("failed") = 0
  /\ Rank("sent") = 1 /\ Rank("delivered") = 2 /\ Rank("read") = 3
  /\ \A s : Rank(s) \in 0..3
BY DEF Rank

(* What the server learns later backs what it has said before.             *)
LEMMA NewsStaysBacked ==
  ASSUME NewsIsBacked, UNCHANGED <<down, load>>,
         \A i \in Send : Rank(level[i]) <= Rank(level'[i])
  PROVE  NewsIsBacked'
<1>1. ASSUME NEW f, FrameBacked(f)
      PROVE  FrameBacked(f)'
  BY <1>1, RankFacts DEF FrameBacked
<1>2. \A k \in 1..Len(down) : FrameBacked(down[k])'
  BY <1>1 DEF NewsIsBacked
<1>3. \A i \in Send : Rank(load.rows[i]) <= Rank(level'[i])
  BY RankFacts DEF NewsIsBacked
<1> QED BY <1>2, <1>3 DEF NewsIsBacked, FrameBacked

(* Sending adds frames at the end, or nothing.                             *)
LEMMA SendsFacts ==
  ASSUME TypeOK, NEW f \in Seq(Frame), Sends(f)
  PROVE  /\ down' \in Seq(Frame)
         /\ \A k \in 1..Len(down') : \/ k \in 1..Len(down) /\ down'[k] = down[k]
                                     \/ \E l \in 1..Len(f) : down'[k] = f[l]
         /\ \A i \in Send : AckComing(i) => AckComing(i)'
         /\ ready => \A l \in 1..Len(f) :
                        Len(down) + l \in 1..Len(down') /\ down'[Len(down) + l] = f[l]
<1>1. CASE ready
  <2>1. /\ down' = down \o f
        /\ down \in Seq(Frame)
    BY <1>1 DEF Sends, TypeOK
  <2>2. /\ Len(down') = Len(down) + Len(f)
        /\ \A k \in 1..Len(down) : down'[k] = down[k]
        /\ \A l \in 1..Len(f) : down'[Len(down) + l] = f[l]
        /\ down' \in Seq(Frame)
    BY <2>1
  <2>3. ASSUME NEW k \in 1..Len(down'), k \notin 1..Len(down)
        PROVE  \E l \in 1..Len(f) : down'[k] = f[l]
    <3>1. k - Len(down) \in 1..Len(f) /\ k = Len(down) + (k - Len(down))
      BY <2>1, <2>2, <2>3
    <3>2. down'[k] = f[k - Len(down)]
      BY <3>1, <2>2
    <3> QED BY <3>1, <3>2
  <2>4. \A i \in Send : AckComing(i) => AckComing(i)'
    BY <2>1, <2>2 DEF AckComing
  <2>5. \A l \in 1..Len(f) :
           Len(down) + l \in 1..Len(down') /\ down'[Len(down) + l] = f[l]
    BY <2>1, <2>2
  <2>6. \A k \in 1..Len(down') : \/ k \in 1..Len(down) /\ down'[k] = down[k]
                                 \/ \E l \in 1..Len(f) : down'[k] = f[l]
    BY <2>2, <2>3
  <2> QED BY <2>2, <2>4, <2>5, <2>6
<1>2. CASE ~ready
  BY <1>2 DEF Sends, TypeOK, AckComing
<1> QED BY <1>1, <1>2

(* A frame that arrives was sent, and the others keep their order.         *)
LEMMA ArrivesFacts ==
  ASSUME TypeOK, NewsIsBacked, NEW kind, Arrives(kind)
  PROVE  /\ Head(down) \in Frame /\ Head(down).kind = kind
         /\ FrameBacked(Head(down))
         /\ down' \in Seq(Frame)
         /\ \A k \in 1..Len(down') : k + 1 \in 1..Len(down) /\ down'[k] = down[k + 1]
         /\ \A i \in Send : AckComing(i) => AckComing(i)' \/ (kind = "ack" /\ It = i)
<1>1. /\ down \in Seq(Frame) /\ down # <<>> /\ down' = Tail(down)
      /\ Head(down).kind = kind
  BY DEF TypeOK, Arrives
<1>2. Head(down) = down[1] /\ 1 \in 1..Len(down) /\ Head(down) \in Frame
  BY <1>1
<1>3. /\ down' \in Seq(Frame) /\ Len(down') = Len(down) - 1
      /\ \A k \in 1..Len(down') : k + 1 \in 1..Len(down) /\ down'[k] = down[k + 1]
  BY <1>1
<1>4. ASSUME NEW i \in Send, AckComing(i)
      PROVE  AckComing(i)' \/ (kind = "ack" /\ It = i)
  <2>1. PICK k \in 1..Len(down) : down[k].kind = "ack" /\ down[k].id = i
    BY <1>4 DEF AckComing
  <2>2. CASE k = 1
    BY <2>1, <2>2, <1>1, <1>2 DEF It
  <2>3. CASE k # 1
    <3>1. k - 1 \in 1..Len(down') /\ down'[k - 1] = down[k]
      BY <1>1, <1>3, <2>3
    <3> QED BY <3>1, <2>1 DEF AckComing
  <2> QED BY <2>2, <2>3
<1> QED BY <1>1, <1>2, <1>3, <1>4 DEF NewsIsBacked

(* News stays backed when a frame is taken.                                *)
LEMMA ArrivalStaysBacked ==
  ASSUME TypeOK, NewsIsBacked, NEW kind, Arrives(kind), UNCHANGED <<load, level>>
  PROVE  NewsIsBacked'
<1>1. \A k \in 1..Len(down') : k + 1 \in 1..Len(down) /\ down'[k] = down[k + 1]
  BY ArrivesFacts
<1>2. \A k \in 1..Len(down') : FrameBacked(down'[k])
  BY <1>1 DEF NewsIsBacked
<1> QED BY <1>2 DEF NewsIsBacked, FrameBacked

(* And when frames are sent that the server backs.                         *)
LEMMA SendingStaysBacked ==
  ASSUME TypeOK, NewsIsBacked, NEW f \in Seq(Frame), Sends(f), UNCHANGED load,
         \A i \in Send : Rank(level[i]) <= Rank(level'[i]),
         \A l \in 1..Len(f) : FrameBacked(f[l])'
  PROVE  NewsIsBacked'
<1>2. ASSUME NEW k \in 1..Len(down)
      PROVE  down[k].kind \in {"echo", "ack", "status", "update"} =>
                 down[k].id \in Send /\ Rank(down[k].state) <= Rank(level'[down[k].id])
  BY RankFacts DEF NewsIsBacked, FrameBacked
<1>3. \A k \in 1..Len(down') : \/ k \in 1..Len(down) /\ down'[k] = down[k]
                               \/ \E l \in 1..Len(f) : down'[k] = f[l]
  BY SendsFacts
<1>4. ASSUME NEW k \in 1..Len(down')
      PROVE  down'[k].kind \in {"echo", "ack", "status", "update"} =>
                 down'[k].id \in Send /\ Rank(down'[k].state) <= Rank(level'[down'[k].id])
  BY <1>2, <1>3 DEF FrameBacked
<1>5. \A i \in Send : Rank(load.rows[i]) <= Rank(level'[i])
  BY RankFacts DEF NewsIsBacked
<1> QED BY <1>4, <1>5 DEF NewsIsBacked, FrameBacked

(* A new send is queued once, or its request goes out.                     *)
LEMMA SendsOrQueuesFacts ==
  ASSUME TypeOK, UnusedIsFresh, QueuedIsUnsent, StoredIsRequested,
         NEW i \in Send, text[i] = 0, SendsOrQueues(i),
         text'[i] # 0, \A j \in Send \ {i} : text'[j] = text[j]
  PROVE  /\ outbox' \in Seq(Send)
         /\ req' \in [Send -> {"none", "way", "stored", "answered", "done", "refused", "lost"}]
         /\ \A j \in Send \ {i} : req'[j] = req[j]
         /\ req'[i] \in {"none", "way"}
         /\ QueuedIsUnsent'
<1>1. req[i] = "none" /\ \A k \in 1..Len(outbox) : outbox[k] \in Send /\ outbox[k] # i
  BY DEF UnusedIsFresh, QueuedIsUnsent, TypeOK
<1>2. CASE Sendable
  <2>1. outbox' = outbox /\ req' = [req EXCEPT ![i] = "way"]
    BY <1>2 DEF SendsOrQueues
  <2> QED BY <1>1, <2>1 DEF TypeOK, QueuedIsUnsent
<1>3. CASE ~Sendable
  <2>1. outbox' = Append(outbox, i) /\ req' = req /\ outbox \in Seq(Send)
    BY <1>3 DEF SendsOrQueues, TypeOK
  <2>2. /\ Len(outbox') = Len(outbox) + 1 /\ outbox'[Len(outbox) + 1] = i
        /\ \A k \in 1..Len(outbox) : outbox'[k] = outbox[k]
        /\ outbox' \in Seq(Send)
    BY <2>1
  <2>3. \A k \in 1..Len(outbox') : req'[outbox'[k]] = "none" /\ text'[outbox'[k]] # 0
    BY <1>1, <2>1, <2>2 DEF QueuedIsUnsent
  <2>4. \A k, l \in 1..Len(outbox') : outbox'[k] = outbox'[l] => k = l
    BY <1>1, <2>1, <2>2 DEF QueuedIsUnsent
  <2> QED BY <1>1, <2>1, <2>2, <2>3, <2>4 DEF TypeOK, QueuedIsUnsent
<1> QED BY <1>2, <1>3

(* A flush takes the head of the outbox, which was not sent before.        *)
LEMMA FlushFacts ==
  ASSUME TypeOK, QueuedIsUnsent, NEW was \in BOOLEAN, FlushWhenReady(was), UNCHANGED text
  PROVE  /\ outbox' \in Seq(Send) /\ armed' \in BOOLEAN /\ flushing' \in BOOLEAN
         /\ req' \in [Send -> {"none", "way", "stored", "answered", "done", "refused", "lost"}]
         /\ \A i \in Send : \/ req'[i] = req[i]
                            \/ req[i] = "none" /\ text[i] # 0 /\ req'[i] = "way"
         /\ QueuedIsUnsent'
<1>1. CASE ~limited /\ FlushHead(was)
  <2>1. /\ outbox \in Seq(Send) /\ outbox # <<>> /\ outbox' = Tail(outbox)
        /\ req' = [req EXCEPT ![Head(outbox)] = "way"]
        /\ armed' = (was \/ Len(outbox) > 1)
        /\ flushing' = (Len(outbox) > 1)
    BY <1>1 DEF FlushHead, TypeOK
  <2>2. /\ Head(outbox) = outbox[1] /\ 1 \in 1..Len(outbox) /\ Head(outbox) \in Send
        /\ outbox' \in Seq(Send)
        /\ \A k \in 1..Len(outbox') : k + 1 \in 2..Len(outbox) /\ outbox'[k] = outbox[k + 1]
    BY <2>1
  <2>3. \A k \in 1..Len(outbox') : outbox'[k] # Head(outbox)
    BY <2>1, <2>2 DEF QueuedIsUnsent
  <2>4. \A k \in 1..Len(outbox') : req'[outbox'[k]] = "none" /\ text'[outbox'[k]] # 0
    BY <2>1, <2>2, <2>3 DEF QueuedIsUnsent, TypeOK
  <2>5. \A k, l \in 1..Len(outbox') : outbox'[k] = outbox'[l] => k = l
    BY <2>1, <2>2 DEF QueuedIsUnsent
  <2>6. req[Head(outbox)] = "none" /\ text[Head(outbox)] # 0
    BY <2>2 DEF QueuedIsUnsent
  <2>7. armed' \in BOOLEAN /\ flushing' \in BOOLEAN
    BY <2>1
  <2>8. \A i \in Send : \/ req'[i] = req[i]
                        \/ req[i] = "none" /\ text[i] # 0 /\ req'[i] = "way"
    BY <2>1, <2>6 DEF TypeOK
  <2>9. req' \in [Send -> {"none", "way", "stored", "answered", "done", "refused", "lost"}]
    BY <2>1 DEF TypeOK
  <2> QED BY <2>2, <2>4, <2>5, <2>7, <2>8, <2>9 DEF QueuedIsUnsent
<1>2. CASE UNCHANGED <<outbox, req>> /\ armed' \in BOOLEAN /\ flushing' \in BOOLEAN
  BY <1>2 DEF TypeOK, QueuedIsUnsent
<1>3. CASE limited /\ outbox # <<>> /\ armed' \in {TRUE, was}
           /\ flushing' = (flushing /\ armed') /\ UNCHANGED <<outbox, req>>
  <2>1. armed' \in BOOLEAN /\ flushing' \in BOOLEAN
    BY <1>3 DEF TypeOK
  <2> QED BY <2>1, <1>2, <1>3
<1>4. CASE outbox = <<>> /\ armed' = was /\ UNCHANGED <<outbox, flushing, req>>
  BY <1>2, <1>4 DEF TypeOK
<1> QED BY <1>1, <1>3, <1>4 DEF FlushWhenReady

(* Of two bubbles of one message one is dropped; every other stays.        *)
LEMMA CollapsesFacts ==
  ASSUME TypeOK, NEW e \in [Send -> Tick \cup {"none"}], Collapses(e)
  PROVE  /\ own' \in [Send -> Bubble] /\ echo' \in [Send -> Tick \cup {"none"}]
         /\ \A i \in Send : own'[i] = own[i] \/ (Named(i) /\ own'[i] = NoBubble)
         /\ \A i \in Send : echo'[i] \in {e[i], "none"}
<1>1. PICK keep \in SUBSET {i \in Send : Named(i) /\ e[i] # "none"} :
        /\ own' = [i \in Send |-> IF Named(i) /\ e[i] # "none" /\ i \notin keep
                                  THEN NoBubble ELSE own[i]]
        /\ echo' = [i \in Send |-> IF i \in keep THEN "none" ELSE e[i]]
  BY DEF Collapses
<1>2. NoBubble \in Bubble
  BY DEF NoBubble, Bubble
<1> QED BY <1>1, <1>2 DEF TypeOK

(* A tick changes the bubbles of one message, and nothing but the tick.    *)
LEMMA TickedFacts ==
  ASSUME TypeOK, NEW i \in Send, NEW s \in Tick, Ticked(i, s)
  PROVE  /\ own' \in [Send -> Bubble] /\ echo' \in [Send -> Tick \cup {"none"}]
         /\ \A j \in Send : \/ own'[j] = own[j]
                            \/ j = i /\ Named(i) /\ own'[j] = [own[j] EXCEPT !.status = s]
         /\ \A j \in Send : echo'[j] = echo[j] \/ (j = i /\ echo'[j] = s)
<1>1. /\ own' \in [Send -> Bubble]
      /\ \A j \in Send : \/ own'[j] = own[j]
                         \/ j = i /\ Named(i) /\ own'[j] = [own[j] EXCEPT !.status = s]
  BY DEF Ticked, TypeOK, Bubble
<1>2. /\ echo' \in [Send -> Tick \cup {"none"}]
      /\ \A j \in Send : echo'[j] = echo[j] \/ (j = i /\ echo'[j] = s)
  BY DEF Ticked, TypeOK
<1> QED BY <1>1, <1>2

(* Failing a bubble changes nothing but its status.                        *)
LEMMA FailingFacts ==
  ASSUME TypeOK, NEW D \in SUBSET Send,
         own' = [i \in Send |-> IF i \in D THEN [own[i] EXCEPT !.status = "failed"]
                                           ELSE own[i]]
  PROVE  /\ own' \in [Send -> Bubble]
         /\ \A i \in Send : /\ own'[i].shown = own[i].shown
                            /\ own'[i].named = own[i].named
                            /\ own'[i].deleted = own[i].deleted
                            /\ own'[i].status \in {own[i].status, "failed"}
                            /\ i \notin D => own'[i] = own[i]
BY DEF TypeOK, Bubble

(* An answer still to come is the same one after bubbles have failed,      *)
(* ticks have changed or bubbles have been dropped.                        *)
LEMMA AnswerStaysComing ==
  ASSUME AnswerIsComing, UNCHANGED <<req, cut>>,
         \A i \in Send : /\ own'[i].shown /\ ~own'[i].named => own[i].shown /\ ~own[i].named
                         /\ AckComing(i) => \/ AckComing(i)'
                                            \/ ~(own'[i].shown /\ ~own'[i].named)
  PROVE  AnswerIsComing'
BY DEF AnswerIsComing

(* A typed message keeps the inductive invariant.                          *)
LEMMA HandleSendStep ==
  ASSUME IInv, NEW i \in Send, HandleSend(i)
  PROVE  IInv'
<1>a. text[i] = 0 /\ text'[i] = i /\ text' \in [Send -> Send \cup {0}]
      /\ \A k \in Send \ {i} : text'[k] = text[k]
  <2>1. i \notin Used /\ text \in [Send -> Send \cup {0}]
    BY DEF HandleSend, IInv, TypeOK, Send
  <2>2. text' = [text EXCEPT ![i] = i]
    BY DEF HandleSend
  <2> QED BY <2>1, <2>2 DEF Used
<1>b. i # 0
  BY BoundAssumption DEF Send
<1>c. /\ outbox' \in Seq(Send)
      /\ req' \in [Send -> {"none", "way", "stored", "answered", "done", "refused", "lost"}]
      /\ \A k \in Send \ {i} : req'[k] = req[k]
      /\ req'[i] \in {"none", "way"}
      /\ QueuedIsUnsent'
  BY <1>a, <1>b, SendsOrQueuesFacts DEF HandleSend, IInv
<1>d. /\ \A k \in Send \ {i} : own'[k] = own[k]
      /\ own'[i] = Optimistic /\ own' \in [Send -> Bubble]
      /\ Optimistic.shown /\ ~Optimistic.named /\ ~Optimistic.deleted
  BY DEF HandleSend, IInv, TypeOK, Optimistic, NoBubble, Bubble
<1>e. req[i] = "none" /\ level[i] = "none"
  BY <1>a DEF IInv, UnusedIsFresh, StoredIsRequested, TypeOK
<1>1. TypeOK'
  BY <1>a, <1>c, <1>d DEF IInv, TypeOK, HandleSend
<1>2. UnusedIsFresh'
  BY <1>a, <1>b, <1>c, <1>d DEF IInv, UnusedIsFresh
<1>3. QueuedIsUnsent'
  BY <1>c
<1>4. StoredIsRequested'
  BY <1>c, <1>e DEF IInv, StoredIsRequested, HandleSend
<1>5. NamedIsTicked'
  BY DEF IInv, TypeOK, NamedIsTicked, Named, HandleSend, SendsOrQueues, Optimistic,
     Used, Sendable, NoBubble, Tick
<1>6. NewsIsBacked'
  BY DEF IInv, TypeOK, NewsIsBacked, FrameBacked, HandleSend, SendsOrQueues,
     Optimistic, Used, Sendable, NoBubble, Rank
<1>7. AnswerIsComing'
  BY <1>c, <1>d DEF IInv, AnswerIsComing, AckComing, HandleSend
<1>8. NothingVanishes'
  <2>1. ASSUME NEW t \in Used
        PROVE  t \in Used' /\ text'[t] = text[t] /\ own'[t] = own[t]
    <3>1. t # i /\ t \in Send /\ text[t] # 0
      BY <2>1, <1>a DEF Used
    <3> QED BY <3>1, <1>a, <1>d DEF Used
  <2>2. Used' = Used \cup {i} /\ level' = level /\ gone' = gone
    BY <1>a, <1>b DEF Used, HandleSend
  <2>3. i \in Used' /\ own'[i].shown /\ ~own'[i].deleted /\ ~own'[i].named
    BY <2>2, <1>d
  <2> QED BY <2>1, <2>2, <2>3 DEF IInv, NothingVanishes
<1>9. TicksAreBacked'
  BY DEF IInv, TypeOK, TicksAreBacked, HandleSend, SendsOrQueues, Optimistic, Used,
     Sendable, NoBubble, Rank
<1> QED BY <1>1, <1>2, <1>3, <1>4, <1>5, <1>6, <1>7, <1>8, <1>9 DEF IInv

(* A retry keeps the inductive invariant.                                  *)
LEMMA HandleRetryFailedMessageStep ==
  ASSUME IInv, NEW i \in Send, NEW j \in Send, HandleRetryFailedMessage(i, j)
  PROVE  IInv'
<1>a. text[i] = 0 /\ text'[i] = text[j] /\ text' \in [Send -> Send \cup {0}]
      /\ \A k \in Send \ {i} : text'[k] = text[k]
  <2>1. i \notin Used /\ text \in [Send -> Send \cup {0}]
    BY DEF HandleRetryFailedMessage, IInv, TypeOK, Send
  <2>2. text' = [text EXCEPT ![i] = text[j]]
    BY DEF HandleRetryFailedMessage
  <2> QED BY <2>1, <2>2 DEF Used
<1>b. text[j] # 0 /\ i # j
  BY <1>a DEF HandleRetryFailedMessage, IInv, UnusedIsFresh
<1>c. /\ outbox' \in Seq(Send)
      /\ req' \in [Send -> {"none", "way", "stored", "answered", "done", "refused", "lost"}]
      /\ \A k \in Send \ {i} : req'[k] = req[k]
      /\ req'[i] \in {"none", "way"}
      /\ QueuedIsUnsent'
  BY <1>a, <1>b, SendsOrQueuesFacts DEF HandleRetryFailedMessage, IInv
<1>d. /\ \A k \in Send \ {i, j} : own'[k] = own[k]
      /\ own'[i] = Optimistic /\ own'[j] = [own[j] EXCEPT !.deleted = TRUE]
      /\ own' \in [Send -> Bubble]
      /\ Optimistic.shown /\ ~Optimistic.named /\ ~Optimistic.deleted
      /\ Optimistic.status = "sending"
  <2>1. own' = [own EXCEPT ![j].deleted = TRUE, ![i] = Optimistic] /\ own \in [Send -> Bubble]
    BY DEF HandleRetryFailedMessage, Retried, IInv, TypeOK
  <2>2. /\ Optimistic \in Bubble
        /\ Optimistic.shown /\ ~Optimistic.named /\ ~Optimistic.deleted
        /\ Optimistic.status = "sending"
    BY DEF Optimistic, NoBubble, Bubble
  <2>3. [own[j] EXCEPT !.deleted = TRUE] \in Bubble
    BY <2>1 DEF Bubble
  <2> QED BY <1>b, <2>1, <2>2, <2>3
<1>e. req[i] = "none" /\ level[i] = "none"
  BY <1>a DEF IInv, UnusedIsFresh, StoredIsRequested, TypeOK
<1>f. load' \in Load
  BY DEF HandleRetryFailedMessage, Asking, IInv, TypeOK, Load
<1>g. /\ own'[j].shown = own[j].shown /\ own'[j].named = own[j].named
      /\ own'[j].status = own[j].status /\ own[j].status = "failed" /\ own[j].shown
  <2>1. own[j] \in Bubble /\ own'[j] = [own[j] EXCEPT !.deleted = TRUE]
    BY <1>d DEF IInv, TypeOK
  <2>2. own[j].shown /\ own[j].status = "failed"
    BY DEF HandleRetryFailedMessage
  <2> QED BY <2>1, <2>2 DEF Bubble
<1>h. UNCHANGED <<echo, down, level, cut>>
  BY DEF HandleRetryFailedMessage
<1>1. TypeOK'
  BY <1>a, <1>c, <1>d, <1>f DEF IInv, TypeOK, HandleRetryFailedMessage
<1>2. UnusedIsFresh'
  BY <1>a, <1>b, <1>c, <1>d, <1>g DEF IInv, UnusedIsFresh
<1>3. QueuedIsUnsent'
  BY <1>c
<1>4. StoredIsRequested'
  BY <1>c, <1>e DEF IInv, StoredIsRequested, HandleRetryFailedMessage
<1>5. NamedIsTicked'
  <2>1. ~own[j].named
    BY <1>g DEF IInv, NamedIsTicked, Named, Tick
  <2>2. ~Named(i)' /\ ~Named(j)'
    BY <2>1, <1>d, <1>g DEF Named
  <2> QED BY <2>2, <1>d DEF IInv, NamedIsTicked, Named
<1>6. NewsIsBacked'
  BY DEF IInv, TypeOK, NewsIsBacked, FrameBacked, HandleRetryFailedMessage, Retried,
     Asking, SendsOrQueues, Optimistic, Used, Sendable, NoBubble, Rank
<1>7. AnswerIsComing'
  <2>1. ASSUME NEW k \in Send, req'[k] \in {"answered", "done"},
                own'[k].shown, ~own'[k].named
        PROVE  k \in cut \/ AckComing(k)
    <3>1. k # i /\ req[k] = req'[k]
      BY <2>1, <1>c
    <3>2. own[k].shown /\ ~own[k].named
      BY <3>1, <2>1, <1>d, <1>g
    <3> QED BY <3>1, <3>2, <2>1 DEF IInv, AnswerIsComing
  <2>2. \A k \in Send : AckComing(k) => AckComing(k)'
    BY <1>h DEF AckComing
  <2> QED BY <2>1, <2>2, <1>h DEF AnswerIsComing
<1>8. NothingVanishes'
  <2>1. SUFFICES ASSUME NEW t \in Used'
                 PROVE  \/ text'[t] \in gone
                        \/ \E k \in Used' :
                              /\ text'[k] = text'[t]
                              /\ \/ level[k] # "none"
                                 \/ own'[k].shown /\ ~own'[k].deleted /\ ~own'[k].named
    BY DEF NothingVanishes, HandleRetryFailedMessage
  <2>2. CASE t = i \/ text[t] = text[j]
    BY <2>2, <1>a, <1>b, <1>d DEF Used
  <2>3. CASE t # i /\ text[t] # text[j]
    <3>1. t \in Used /\ text'[t] = text[t]
      BY <2>3, <1>a DEF Used
    <3>2. \/ text[t] \in gone
          \/ \E k \in Used : /\ text[k] = text[t]
                            /\ \/ level[k] # "none"
                               \/ own[k].shown /\ ~own[k].deleted /\ ~own[k].named
      BY <3>1 DEF IInv, NothingVanishes
    <3>3. ASSUME NEW k \in Used, text[k] = text[t]
          PROVE  k \in Used' /\ text'[k] = text[k] /\ own'[k] = own[k]
      BY <2>3, <3>3, <1>a, <1>d DEF Used
    <3> QED BY <3>1, <3>2, <3>3
  <2> QED BY <2>2, <2>3
<1>9. TicksAreBacked'
  <2>1. ASSUME NEW k \in Send, own'[k].shown
        PROVE  Rank(own'[k].status) <= Rank(level[k])
    <3>1. CASE k = i \/ k = j
      <4>1. own'[k].status \in {"sending", "failed"}
        BY <3>1, <1>d, <1>g
      <4>2. Rank(own'[k].status) = 0 /\ Rank(level[k]) \in 0..3
        BY <4>1, RankFacts
      <4> QED BY <4>2
    <3>2. CASE k # i /\ k # j
      BY <3>2, <2>1, <1>d DEF IInv, TicksAreBacked
    <3> QED BY <3>1, <3>2
  <2> QED BY <2>1, <1>h DEF IInv, TicksAreBacked
<1> QED BY <1>1, <1>2, <1>3, <1>4, <1>5, <1>6, <1>7, <1>8, <1>9 DEF IInv

(* The end of a pending bubble's 15 s keeps the inductive invariant.       *)
LEMMA SendingTimeoutStep ==
  ASSUME IInv, NEW i \in Send, SendingTimeout(i)
  PROVE  IInv'
<1>1. TypeOK'
  BY DEF IInv, TypeOK, SendingTimeout, Bubble, Frame, Load, Tick, outboxVars, serverVars
<1>2. UnusedIsFresh'
  BY DEF IInv, TypeOK, UnusedIsFresh, SendingTimeout, outboxVars, serverVars
<1>3. QueuedIsUnsent'
  BY DEF IInv, TypeOK, QueuedIsUnsent, SendingTimeout, outboxVars, serverVars
<1>4. StoredIsRequested'
  BY DEF IInv, TypeOK, StoredIsRequested, SendingTimeout, outboxVars, serverVars
<1>5. NamedIsTicked'
  BY DEF IInv, TypeOK, NamedIsTicked, Named, SendingTimeout, Tick, outboxVars,
     serverVars
<1>6. NewsIsBacked'
  BY DEF IInv, TypeOK, NewsIsBacked, FrameBacked, SendingTimeout, Rank, outboxVars,
     serverVars
<1>7. AnswerIsComing'
  BY DEF IInv, TypeOK, AnswerIsComing, AckComing, SendingTimeout, outboxVars, serverVars
<1>8. NothingVanishes'
  BY DEF IInv, TypeOK, NothingVanishes, SendingTimeout, Used, outboxVars, serverVars
<1>9. TicksAreBacked'
  BY DEF IInv, TypeOK, TicksAreBacked, SendingTimeout, Rank, outboxVars, serverVars
<1> QED BY <1>1, <1>2, <1>3, <1>4, <1>5, <1>6, <1>7, <1>8, <1>9 DEF IInv

(* HELLO_ACK, with the flush it starts, keeps the inductive invariant.     *)
LEMMA HelloAckStep ==
  ASSUME IInv, HelloAck
  PROVE  IInv'
<1>a. /\ outbox' \in Seq(Send) /\ armed' \in BOOLEAN /\ flushing' \in BOOLEAN
      /\ req' \in [Send -> {"none", "way", "stored", "answered", "done", "refused", "lost"}]
      /\ \A i \in Send : \/ req'[i] = req[i]
                         \/ req[i] = "none" /\ text[i] # 0 /\ req'[i] = "way"
      /\ QueuedIsUnsent'
  <2>1. FlushWhenReady(armed) /\ armed \in BOOLEAN /\ UNCHANGED text
    BY DEF HelloAck, viewVars, IInv, TypeOK
  <2> QED BY <2>1, FlushFacts DEF IInv
<1>b. UNCHANGED <<viewVars, limited, down, level, cut, gone, events>> /\ ready' \in BOOLEAN
  BY DEF HelloAck, IInv, TypeOK
<1>1. TypeOK'
  BY <1>a, <1>b DEF IInv, TypeOK, viewVars
<1>2. UnusedIsFresh'
  BY <1>a, <1>b DEF IInv, UnusedIsFresh, viewVars
<1>3. QueuedIsUnsent'
  BY <1>a
<1>4. StoredIsRequested'
  BY <1>a, <1>b DEF IInv, StoredIsRequested
<1>5. NamedIsTicked'
  BY <1>b DEF IInv, NamedIsTicked, Named, viewVars
<1>6. NewsIsBacked'
  BY <1>b DEF IInv, NewsIsBacked, FrameBacked, viewVars
<1>7. AnswerIsComing'
  BY <1>a, <1>b DEF IInv, AnswerIsComing, AckComing, viewVars
<1>8. NothingVanishes'
  BY <1>b DEF IInv, NothingVanishes, Used, viewVars
<1>9. TicksAreBacked'
  BY <1>b DEF IInv, TicksAreBacked, viewVars
<1> QED BY <1>1, <1>2, <1>3, <1>4, <1>5, <1>6, <1>7, <1>8, <1>9 DEF IInv

(* The flush timer keeps the inductive invariant.                          *)
LEMMA FlushTimerStep ==
  ASSUME IInv, FlushTimer
  PROVE  IInv'
<1>a. /\ outbox' \in Seq(Send) /\ armed' \in BOOLEAN /\ flushing' \in BOOLEAN
      /\ req' \in [Send -> {"none", "way", "stored", "answered", "done", "refused", "lost"}]
      /\ \A i \in Send : \/ req'[i] = req[i]
                         \/ req[i] = "none" /\ text[i] # 0 /\ req'[i] = "way"
      /\ QueuedIsUnsent'
  <2>1. UNCHANGED text
    BY DEF FlushTimer, viewVars
  <2>2. CASE ready /\ FlushWhenReady(FALSE)
    BY <2>1, <2>2, FlushFacts DEF IInv
  <2>3. CASE armed' = (outbox # <<>>) /\ UNCHANGED <<outbox, flushing, req>>
    BY <2>1, <2>3 DEF IInv, TypeOK, QueuedIsUnsent
  <2> QED BY <2>2, <2>3 DEF FlushTimer
<1>b. UNCHANGED <<viewVars, limited, down, level, cut, gone, events>> /\ ready' \in BOOLEAN
  BY DEF FlushTimer, IInv, TypeOK
<1>1. TypeOK'
  BY <1>a, <1>b DEF IInv, TypeOK, viewVars
<1>2. UnusedIsFresh'
  BY <1>a, <1>b DEF IInv, UnusedIsFresh, viewVars
<1>3. QueuedIsUnsent'
  BY <1>a
<1>4. StoredIsRequested'
  BY <1>a, <1>b DEF IInv, StoredIsRequested
<1>5. NamedIsTicked'
  BY <1>b DEF IInv, NamedIsTicked, Named, viewVars
<1>6. NewsIsBacked'
  BY <1>b DEF IInv, NewsIsBacked, FrameBacked, viewVars
<1>7. AnswerIsComing'
  BY <1>a, <1>b DEF IInv, AnswerIsComing, AckComing, viewVars
<1>8. NothingVanishes'
  BY <1>b DEF IInv, NothingVanishes, Used, viewVars
<1>9. TicksAreBacked'
  BY <1>b DEF IInv, TicksAreBacked, viewVars
<1> QED BY <1>1, <1>2, <1>3, <1>4, <1>5, <1>6, <1>7, <1>8, <1>9 DEF IInv

(* An echo keeps the inductive invariant.                                  *)
LEMMA EchoArrivesStep ==
  ASSUME IInv, EchoArrives
  PROVE  IInv'
<1>a. Arrives("echo") /\ UNCHANGED unviewed
  BY DEF EchoArrives
<1>b. UNCHANGED <<text, load, outbox, armed, flushing, req, level, ready, limited, cut, gone, events>>
  BY <1>a DEF unviewed, outboxVars, serverVars
<1>c. /\ Head(down) \in Frame /\ Head(down).kind = "echo" /\ FrameBacked(Head(down))
      /\ down' \in Seq(Frame)
      /\ \A i \in Send : AckComing(i) => AckComing(i)' \/ ("echo" = "ack" /\ It = i)
  BY <1>a, ArrivesFacts DEF IInv
<1>l. It \in Send /\ Head(down).state \in Tick /\ Rank(Head(down).state) <= Rank(level[It])
  BY <1>c DEF FrameBacked, Frame, It
<1>d. /\ own' \in [Send -> Bubble] /\ echo' \in [Send -> Tick \cup {"none"}]
      /\ \A i \in Send : own'[i] = own[i] \/ (Named(i) /\ own'[i] = NoBubble)
      /\ \A i \in Send : echo'[i] \in {[echo EXCEPT ![It] = "sent"][i], "none"}
      /\ ~NoBubble.shown /\ ~NoBubble.named
  <2>1. [echo EXCEPT ![It] = "sent"] \in [Send -> Tick \cup {"none"}] /\ Collapses([echo EXCEPT ![It] = "sent"])
    BY <1>l DEF EchoArrives, IInv, TypeOK, Tick
  <2>2. ~NoBubble.shown /\ ~NoBubble.named
    BY DEF NoBubble
  <2> QED BY <2>1, <2>2, CollapsesFacts DEF IInv
<1>1. TypeOK'
  BY <1>b, <1>c, <1>d DEF IInv, TypeOK
<1>2. UnusedIsFresh'
  BY <1>b, <1>d DEF IInv, UnusedIsFresh
<1>3. QueuedIsUnsent'
  BY <1>b DEF IInv, QueuedIsUnsent
<1>4. StoredIsRequested'
  BY <1>b DEF IInv, StoredIsRequested
<1>5. NamedIsTicked'
  BY <1>b, <1>d DEF IInv, NamedIsTicked, Named
<1>6. NewsIsBacked'
  BY <1>a, <1>b, ArrivalStaysBacked DEF IInv
<1>7. AnswerIsComing'
  BY <1>b, <1>c, <1>d, AnswerStaysComing DEF IInv
<1>8. NothingVanishes'
  <2>1. \A i \in Send : own[i].shown /\ ~own[i].deleted /\ ~own[i].named => own'[i] = own[i]
    BY <1>d DEF Named
  <2> QED BY <2>1, <1>b DEF IInv, NothingVanishes, Used
<1>9. TicksAreBacked'
  <2>1. \A i \in Send : Rank(echo'[i]) <= Rank(level[i])
    <3>1. Rank("sent") <= Rank(level[It])
      BY <1>l, RankFacts DEF Tick
    <3>2. ASSUME NEW i \in Send
          PROVE  echo'[i] \in {echo[i], "none"} \/ (i = It /\ echo'[i] = "sent")
      BY <1>d, <1>l DEF IInv, TypeOK
    <3> QED BY <3>1, <3>2, RankFacts DEF IInv, TicksAreBacked
  <2>2. \A i \in Send : own'[i].shown => Rank(own'[i].status) <= Rank(level[i])
    BY <1>d DEF IInv, TicksAreBacked
  <2> QED BY <2>1, <2>2, <1>b DEF TicksAreBacked
<1> QED BY <1>1, <1>2, <1>3, <1>4, <1>5, <1>6, <1>7, <1>8, <1>9 DEF IInv

(* A message from the peer keeps the inductive invariant.                  *)
LEMMA PeerArrivesStep ==
  ASSUME IInv, PeerArrives
  PROVE  IInv'
<1>a. Arrives("peer") /\ UNCHANGED unviewed
  BY DEF PeerArrives
<1>b. UNCHANGED <<text, load, outbox, armed, flushing, req, level, ready, limited, cut, gone, events>>
  BY <1>a DEF unviewed, outboxVars, serverVars
<1>c. /\ Head(down) \in Frame /\ Head(down).kind = "peer" /\ FrameBacked(Head(down))
      /\ down' \in Seq(Frame)
      /\ \A i \in Send : AckComing(i) => AckComing(i)' \/ ("peer" = "ack" /\ It = i)
  BY <1>a, ArrivesFacts DEF IInv
<1>d. /\ own' \in [Send -> Bubble] /\ echo' \in [Send -> Tick \cup {"none"}]
      /\ \A i \in Send : own'[i] = own[i] \/ (Named(i) /\ own'[i] = NoBubble)
      /\ \A i \in Send : echo'[i] \in {echo[i], "none"}
      /\ ~NoBubble.shown /\ ~NoBubble.named
  <2>1. echo \in [Send -> Tick \cup {"none"}] /\ Collapses(echo)
    BY DEF PeerArrives, IInv, TypeOK
  <2>2. ~NoBubble.shown /\ ~NoBubble.named
    BY DEF NoBubble
  <2> QED BY <2>1, <2>2, CollapsesFacts DEF IInv
<1>1. TypeOK'
  BY <1>b, <1>c, <1>d DEF IInv, TypeOK
<1>2. UnusedIsFresh'
  BY <1>b, <1>d DEF IInv, UnusedIsFresh
<1>3. QueuedIsUnsent'
  BY <1>b DEF IInv, QueuedIsUnsent
<1>4. StoredIsRequested'
  BY <1>b DEF IInv, StoredIsRequested
<1>5. NamedIsTicked'
  BY <1>b, <1>d DEF IInv, NamedIsTicked, Named
<1>6. NewsIsBacked'
  BY <1>a, <1>b, ArrivalStaysBacked DEF IInv
<1>7. AnswerIsComing'
  BY <1>b, <1>c, <1>d, AnswerStaysComing DEF IInv
<1>8. NothingVanishes'
  <2>1. \A i \in Send : own[i].shown /\ ~own[i].deleted /\ ~own[i].named => own'[i] = own[i]
    BY <1>d DEF Named
  <2> QED BY <2>1, <1>b DEF IInv, NothingVanishes, Used
<1>9. TicksAreBacked'
  <2>1. \A i \in Send : Rank(echo'[i]) <= Rank(level[i])
    BY <1>d, RankFacts DEF IInv, TicksAreBacked
  <2>2. \A i \in Send : own'[i].shown => Rank(own'[i].status) <= Rank(level[i])
    BY <1>d DEF IInv, TicksAreBacked
  <2> QED BY <2>1, <2>2, <1>b DEF TicksAreBacked
<1> QED BY <1>1, <1>2, <1>3, <1>4, <1>5, <1>6, <1>7, <1>8, <1>9 DEF IInv

(* An ACK keeps the inductive invariant.                                   *)
LEMMA AckArrivesStep ==
  ASSUME IInv, AckArrives
  PROVE  IInv'
<1>a. Arrives("ack") /\ UNCHANGED unviewed
  BY DEF AckArrives
<1>b. UNCHANGED <<text, load, outbox, armed, flushing, req, level, ready, limited, cut, gone, events>>
  BY <1>a DEF unviewed, outboxVars, serverVars
<1>c. /\ Head(down) \in Frame /\ Head(down).kind = "ack" /\ FrameBacked(Head(down))
      /\ down' \in Seq(Frame)
      /\ \A i \in Send : AckComing(i) => AckComing(i)' \/ ("ack" = "ack" /\ It = i)
  BY <1>a, ArrivesFacts DEF IInv
<1>l. It \in Send /\ Head(down).state \in Tick /\ Rank(Head(down).state) <= Rank(level[It])
  BY <1>c DEF FrameBacked, Frame, It
<1>d. /\ own' \in [Send -> Bubble] /\ echo' = echo
      /\ \A i \in Send : \/ own'[i] = own[i] /\ (i = It => ~own[i].shown)
                         \/ i = It /\ own[i].shown /\ own'[i] = Acked(own[i])
      /\ \A i \in Send : LET b == Acked(own[i]) IN
            /\ b \in Bubble /\ b.shown = own[i].shown /\ b.named
            /\ ~b.deleted /\ b.status = "sent"
  <2>1. \A i \in Send : LET b == Acked(own[i]) IN
            /\ b \in Bubble /\ b.shown = own[i].shown /\ b.named
            /\ ~b.deleted /\ b.status = "sent"
    BY DEF IInv, TypeOK, Bubble, Acked, Tick
  <2>2. own' = IF own[It].shown THEN [own EXCEPT ![It] = Acked(own[It])] ELSE own
    BY DEF AckArrives
  <2>3. own \in [Send -> Bubble] /\ echo' = echo
    BY DEF IInv, TypeOK, AckArrives
  <2> QED BY <1>l, <2>1, <2>2, <2>3
<1>1. TypeOK'
  BY <1>b, <1>c, <1>d DEF IInv, TypeOK
<1>2. UnusedIsFresh'
  BY <1>b, <1>d DEF IInv, UnusedIsFresh
<1>3. QueuedIsUnsent'
  BY <1>b DEF IInv, QueuedIsUnsent
<1>4. StoredIsRequested'
  BY <1>b DEF IInv, StoredIsRequested
<1>5. NamedIsTicked'
  BY <1>b, <1>d DEF IInv, NamedIsTicked, Named, Tick
<1>6. NewsIsBacked'
  BY <1>a, <1>b, ArrivalStaysBacked DEF IInv
<1>7. AnswerIsComing'
  <2>1. \A i \in Send : own'[i].shown /\ ~own'[i].named => own[i].shown /\ ~own[i].named
    BY <1>d
  <2>2. \A i \in Send : AckComing(i) =>
                         AckComing(i)' \/ ~(own'[i].shown /\ ~own'[i].named)
    BY <1>c, <1>d
  <2> QED BY <2>1, <2>2, <1>b, AnswerStaysComing DEF IInv
<1>8. NothingVanishes'
  <2>1. level[It] # "none"
    BY <1>l, RankFacts DEF Tick
  <2>2. \A i \in Send : own[i].shown /\ ~own[i].deleted /\ ~own[i].named =>
           own'[i] = own[i] \/ level[i] # "none"
    BY <2>1, <1>d
  <2> QED BY <2>2, <1>b DEF IInv, NothingVanishes, Used
<1>9. TicksAreBacked'
  <2>1. Rank("sent") <= Rank(level[It])
    BY <1>l, RankFacts DEF Tick
  <2> QED BY <2>1, <1>b, <1>d DEF IInv, TicksAreBacked
<1> QED BY <1>1, <1>2, <1>3, <1>4, <1>5, <1>6, <1>7, <1>8, <1>9 DEF IInv

(* A NACK keeps the inductive invariant.                                   *)
LEMMA NackArrivesStep ==
  ASSUME IInv, NackArrives
  PROVE  IInv'
<1>a. Arrives("nack") /\ UNCHANGED unviewed
  BY DEF NackArrives
<1>b. UNCHANGED <<text, load, outbox, armed, flushing, req, level, ready, limited, cut, gone, events>>
  BY <1>a DEF unviewed, outboxVars, serverVars
<1>c. /\ Head(down) \in Frame /\ Head(down).kind = "nack" /\ FrameBacked(Head(down))
      /\ down' \in Seq(Frame)
      /\ \A i \in Send : AckComing(i) => AckComing(i)' \/ ("nack" = "ack" /\ It = i)
  BY <1>a, ArrivesFacts DEF IInv
<1>d. /\ own' \in [Send -> Bubble] /\ echo' = echo
      /\ \A i \in Send : /\ own'[i].shown = own[i].shown
                         /\ own'[i].named = own[i].named
                         /\ own'[i].deleted = own[i].deleted
                         /\ own'[i].status \in {own[i].status, "failed"}
                         /\ own'[i] # own[i] => ~own[i].named
  <2> DEFINE D == {i \in Send : i = It /\ own[i].shown /\ ~own[i].named}
  <2>1. own' = [i \in Send |-> IF i \in D THEN [own[i] EXCEPT !.status = "failed"] ELSE own[i]]
    BY DEF NackArrives, IInv, TypeOK, Bubble
  <2>2. D \in SUBSET Send /\ \A i \in D : ~own[i].named
    OBVIOUS
  <2>3. echo' = echo
    BY DEF NackArrives
  <2> HIDE DEF D
  <2> QED BY <2>1, <2>2, <2>3, FailingFacts DEF IInv
<1>1. TypeOK'
  BY <1>b, <1>c, <1>d DEF IInv, TypeOK
<1>2. UnusedIsFresh'
  BY <1>b, <1>d DEF IInv, UnusedIsFresh
<1>3. QueuedIsUnsent'
  BY <1>b DEF IInv, QueuedIsUnsent
<1>4. StoredIsRequested'
  BY <1>b DEF IInv, StoredIsRequested
<1>5. NamedIsTicked'
  BY <1>b, <1>d DEF IInv, NamedIsTicked, Named
<1>6. NewsIsBacked'
  BY <1>a, <1>b, ArrivalStaysBacked DEF IInv
<1>7. AnswerIsComing'
  BY <1>b, <1>c, <1>d, AnswerStaysComing DEF IInv
<1>8. NothingVanishes'
  BY <1>b, <1>d DEF IInv, NothingVanishes, Used
<1>9. TicksAreBacked'
  BY <1>b, <1>d, RankFacts DEF IInv, TicksAreBacked
<1> QED BY <1>1, <1>2, <1>3, <1>4, <1>5, <1>6, <1>7, <1>8, <1>9 DEF IInv

(* An error keeps the inductive invariant.                                 *)
LEMMA ErrorArrivesStep ==
  ASSUME IInv, ErrorArrives
  PROVE  IInv'
<1>a. Arrives("error") /\ UNCHANGED unviewed
  BY DEF ErrorArrives
<1>b. UNCHANGED <<text, load, outbox, armed, flushing, req, level, ready, limited, cut, gone, events>>
  BY <1>a DEF unviewed, outboxVars, serverVars
<1>c. /\ Head(down) \in Frame /\ Head(down).kind = "error" /\ FrameBacked(Head(down))
      /\ down' \in Seq(Frame)
      /\ \A i \in Send : AckComing(i) => AckComing(i)' \/ ("error" = "ack" /\ It = i)
  BY <1>a, ArrivesFacts DEF IInv
<1>d. /\ own' \in [Send -> Bubble] /\ echo' = echo
      /\ \A i \in Send : /\ own'[i].shown = own[i].shown
                         /\ own'[i].named = own[i].named
                         /\ own'[i].deleted = own[i].deleted
                         /\ own'[i].status \in {own[i].status, "failed"}
                         /\ own'[i] # own[i] => ~own[i].named
  <2> DEFINE D == {i \in Pending : \A j \in Pending : j <= i}
  <2>1. own' = [i \in Send |-> IF i \in D THEN [own[i] EXCEPT !.status = "failed"] ELSE own[i]]
    BY DEF ErrorArrives
  <2>2. D \in SUBSET Send /\ \A i \in D : ~own[i].named
    BY DEF IInv, NamedIsTicked, Named, Pending, Tick
  <2>3. echo' = echo
    BY DEF ErrorArrives
  <2> HIDE DEF D
  <2> QED BY <2>1, <2>2, <2>3, FailingFacts DEF IInv
<1>1. TypeOK'
  BY <1>b, <1>c, <1>d DEF IInv, TypeOK
<1>2. UnusedIsFresh'
  BY <1>b, <1>d DEF IInv, UnusedIsFresh
<1>3. QueuedIsUnsent'
  BY <1>b DEF IInv, QueuedIsUnsent
<1>4. StoredIsRequested'
  BY <1>b DEF IInv, StoredIsRequested
<1>5. NamedIsTicked'
  BY <1>b, <1>d DEF IInv, NamedIsTicked, Named
<1>6. NewsIsBacked'
  BY <1>a, <1>b, ArrivalStaysBacked DEF IInv
<1>7. AnswerIsComing'
  BY <1>b, <1>c, <1>d, AnswerStaysComing DEF IInv
<1>8. NothingVanishes'
  BY <1>b, <1>d DEF IInv, NothingVanishes, Used
<1>9. TicksAreBacked'
  BY <1>b, <1>d, RankFacts DEF IInv, TicksAreBacked
<1> QED BY <1>1, <1>2, <1>3, <1>4, <1>5, <1>6, <1>7, <1>8, <1>9 DEF IInv

(* DELIVERY_STATUS keeps the inductive invariant.                          *)
LEMMA StatusArrivesStep ==
  ASSUME IInv, StatusArrives
  PROVE  IInv'
<1>a. Arrives("status") /\ UNCHANGED unviewed
  BY DEF StatusArrives
<1>b. UNCHANGED <<text, load, outbox, armed, flushing, req, level, ready, limited, cut, gone, events>>
  BY <1>a DEF unviewed, outboxVars, serverVars
<1>c. /\ Head(down) \in Frame /\ Head(down).kind = "status" /\ FrameBacked(Head(down))
      /\ down' \in Seq(Frame)
      /\ \A i \in Send : AckComing(i) => AckComing(i)' \/ ("status" = "ack" /\ It = i)
  BY <1>a, ArrivesFacts DEF IInv
<1>l. It \in Send /\ Head(down).state \in Tick /\ Rank(Head(down).state) <= Rank(level[It])
  BY <1>c DEF FrameBacked, Frame, It
<1>d. /\ own' \in [Send -> Bubble] /\ echo' \in [Send -> Tick \cup {"none"}]
      /\ \A j \in Send : \/ own'[j] = own[j]
                         \/ /\ j = It /\ Named(It)
                            /\ own'[j] = [own[j] EXCEPT !.status = Head(down).state]
      /\ \A j \in Send : echo'[j] = echo[j] \/ (j = It /\ echo'[j] = Head(down).state)
  <2>1. Ticked(It, Head(down).state)
    BY DEF StatusArrives
  <2> QED BY <2>1, <1>l, TickedFacts DEF IInv
<1>e. \A j \in Send : /\ own'[j].shown = own[j].shown
                     /\ own'[j].named = own[j].named
                     /\ own'[j].deleted = own[j].deleted
                     /\ \/ own'[j].status = own[j].status
                        \/ j = It /\ own'[j].status = Head(down).state
  BY <1>d DEF IInv, TypeOK, Bubble
<1>1. TypeOK'
  BY <1>b, <1>c, <1>d DEF IInv, TypeOK
<1>2. UnusedIsFresh'
  BY <1>b, <1>e DEF IInv, UnusedIsFresh
<1>3. QueuedIsUnsent'
  BY <1>b DEF IInv, QueuedIsUnsent
<1>4. StoredIsRequested'
  BY <1>b DEF IInv, StoredIsRequested
<1>5. NamedIsTicked'
  BY <1>b, <1>e, <1>l DEF IInv, NamedIsTicked, Named
<1>6. NewsIsBacked'
  BY <1>a, <1>b, ArrivalStaysBacked DEF IInv
<1>7. AnswerIsComing'
  BY <1>b, <1>c, <1>e, AnswerStaysComing DEF IInv
<1>8. NothingVanishes'
  BY <1>b, <1>e DEF IInv, NothingVanishes, Used
<1>9. TicksAreBacked'
  <2>1. \A i \in Send : own'[i].shown => Rank(own'[i].status) <= Rank(level[i])
    BY <1>e, <1>l DEF IInv, TicksAreBacked
  <2>2. \A i \in Send : Rank(echo'[i]) <= Rank(level[i])
    BY <1>d, <1>l DEF IInv, TicksAreBacked
  <2> QED BY <2>1, <2>2, <1>b DEF TicksAreBacked
<1> QED BY <1>1, <1>2, <1>3, <1>4, <1>5, <1>6, <1>7, <1>8, <1>9 DEF IInv

(* A state update keeps the inductive invariant.                           *)
LEMMA UpdateArrivesStep ==
  ASSUME IInv, UpdateArrives
  PROVE  IInv'
<1>a. Arrives("update") /\ UNCHANGED unviewed
  BY DEF UpdateArrives
<1>b. UNCHANGED <<text, load, outbox, armed, flushing, req, level, ready, limited, cut, gone, events>>
  BY <1>a DEF unviewed, outboxVars, serverVars
<1>c. /\ Head(down) \in Frame /\ Head(down).kind = "update" /\ FrameBacked(Head(down))
      /\ down' \in Seq(Frame)
      /\ \A i \in Send : AckComing(i) => AckComing(i)' \/ ("update" = "ack" /\ It = i)
  BY <1>a, ArrivesFacts DEF IInv
<1>l. It \in Send /\ Head(down).state \in Tick /\ Rank(Head(down).state) <= Rank(level[It])
  BY <1>c DEF FrameBacked, Frame, It
<1>d. /\ own' \in [Send -> Bubble] /\ echo' \in [Send -> Tick \cup {"none"}]
      /\ \A j \in Send : \/ own'[j] = own[j]
                         \/ /\ j = It /\ Named(It)
                            /\ own'[j] = [own[j] EXCEPT !.status = Head(down).state]
      /\ \A j \in Send : echo'[j] = echo[j] \/ (j = It /\ echo'[j] = Head(down).state)
  <2>1. CASE Ticked(It, Head(down).state)
    BY <2>1, <1>l, TickedFacts DEF IInv
  <2>2. CASE UNCHANGED <<own, echo>>
    BY <2>2 DEF IInv, TypeOK
  <2> QED BY <2>1, <2>2 DEF UpdateArrives
<1>e. \A j \in Send : /\ own'[j].shown = own[j].shown
                     /\ own'[j].named = own[j].named
                     /\ own'[j].deleted = own[j].deleted
                     /\ \/ own'[j].status = own[j].status
                        \/ j = It /\ own'[j].status = Head(down).state
  BY <1>d DEF IInv, TypeOK, Bubble
<1>1. TypeOK'
  BY <1>b, <1>c, <1>d DEF IInv, TypeOK
<1>2. UnusedIsFresh'
  BY <1>b, <1>e DEF IInv, UnusedIsFresh
<1>3. QueuedIsUnsent'
  BY <1>b DEF IInv, QueuedIsUnsent
<1>4. StoredIsRequested'
  BY <1>b DEF IInv, StoredIsRequested
<1>5. NamedIsTicked'
  BY <1>b, <1>e, <1>l DEF IInv, NamedIsTicked, Named
<1>6. NewsIsBacked'
  BY <1>a, <1>b, ArrivalStaysBacked DEF IInv
<1>7. AnswerIsComing'
  BY <1>b, <1>c, <1>e, AnswerStaysComing DEF IInv
<1>8. NothingVanishes'
  BY <1>b, <1>e DEF IInv, NothingVanishes, Used
<1>9. TicksAreBacked'
  <2>1. \A i \in Send : own'[i].shown => Rank(own'[i].status) <= Rank(level[i])
    BY <1>e, <1>l DEF IInv, TicksAreBacked
  <2>2. \A i \in Send : Rank(echo'[i]) <= Rank(level[i])
    BY <1>d, <1>l DEF IInv, TicksAreBacked
  <2> QED BY <2>1, <2>2, <1>b DEF TicksAreBacked
<1> QED BY <1>1, <1>2, <1>3, <1>4, <1>5, <1>6, <1>7, <1>8, <1>9 DEF IInv

(* Asking for history keeps the inductive invariant.                       *)
LEMMA LoadStartsStep ==
  ASSUME IInv, LoadStarts
  PROVE  IInv'
<1>1. TypeOK'
  BY DEF IInv, TypeOK, LoadStarts, Asking, Happens, Bubble, Frame, Load, Tick,
     outboxVars, serverVars
<1>2. UnusedIsFresh'
  BY DEF IInv, TypeOK, UnusedIsFresh, LoadStarts, Asking, Happens, outboxVars,
     serverVars
<1>3. QueuedIsUnsent'
  BY DEF IInv, TypeOK, QueuedIsUnsent, LoadStarts, Asking, Happens, outboxVars,
     serverVars
<1>4. StoredIsRequested'
  BY DEF IInv, TypeOK, StoredIsRequested, LoadStarts, Asking, Happens, outboxVars,
     serverVars
<1>5. NamedIsTicked'
  BY DEF IInv, TypeOK, NamedIsTicked, Named, LoadStarts, Asking, Happens, Tick,
     outboxVars, serverVars
<1>6. NewsIsBacked'
  BY DEF IInv, TypeOK, NewsIsBacked, FrameBacked, LoadStarts, Asking, Happens, Rank,
     outboxVars, serverVars
<1>7. AnswerIsComing'
  BY DEF IInv, TypeOK, AnswerIsComing, AckComing, LoadStarts, Asking, Happens,
     outboxVars, serverVars
<1>8. NothingVanishes'
  BY DEF IInv, TypeOK, NothingVanishes, LoadStarts, Asking, Happens, Used,
     outboxVars, serverVars
<1>9. TicksAreBacked'
  BY DEF IInv, TypeOK, TicksAreBacked, LoadStarts, Asking, Happens, Rank, outboxVars,
     serverVars
<1> QED BY <1>1, <1>2, <1>3, <1>4, <1>5, <1>6, <1>7, <1>8, <1>9 DEF IInv

(* The reading of history keeps the inductive invariant.                   *)
LEMMA LoadReadsStep ==
  ASSUME IInv, LoadReads
  PROVE  IInv'
<1>1. TypeOK'
  BY DEF IInv, TypeOK, LoadReads, Bubble, Frame, Load, Tick, outboxVars, serverVars
<1>2. UnusedIsFresh'
  BY DEF IInv, TypeOK, UnusedIsFresh, LoadReads, outboxVars, serverVars
<1>3. QueuedIsUnsent'
  BY DEF IInv, TypeOK, QueuedIsUnsent, LoadReads, outboxVars, serverVars
<1>4. StoredIsRequested'
  BY DEF IInv, TypeOK, StoredIsRequested, LoadReads, outboxVars, serverVars
<1>5. NamedIsTicked'
  BY DEF IInv, TypeOK, NamedIsTicked, Named, LoadReads, Tick, outboxVars, serverVars
<1>6. NewsIsBacked'
  BY DEF IInv, TypeOK, NewsIsBacked, FrameBacked, LoadReads, Rank, outboxVars,
     serverVars
<1>7. AnswerIsComing'
  BY DEF IInv, TypeOK, AnswerIsComing, AckComing, LoadReads, outboxVars, serverVars
<1>8. NothingVanishes'
  BY DEF IInv, TypeOK, NothingVanishes, LoadReads, Used, outboxVars, serverVars
<1>9. TicksAreBacked'
  BY DEF IInv, TypeOK, TicksAreBacked, LoadReads, Rank, outboxVars, serverVars
<1> QED BY <1>1, <1>2, <1>3, <1>4, <1>5, <1>6, <1>7, <1>8, <1>9 DEF IInv

(* The merge of history keeps the inductive invariant.                     *)
LEMMA LoadArrivesStep ==
  ASSUME IInv, LoadArrives
  PROVE  IInv'
<1>b. /\ UNCHANGED <<text, outbox, armed, flushing, req, level, ready, limited, down, cut, gone, events>>
      /\ load' = NoLoad
  BY DEF LoadArrives, outboxVars, serverVars
<1> DEFINE e == [i \in Send |-> IF ~Named(i) /\ echo[i] = "none" THEN load.rows[i] ELSE echo[i]]
<1>c. e \in [Send -> Tick \cup {"none"}]
  BY DEF IInv, TypeOK, Load
<1>d. /\ own' \in [Send -> Bubble] /\ echo' \in [Send -> Tick \cup {"none"}]
      /\ \A i \in Send : own'[i] = own[i] \/ (Named(i) /\ own'[i] = NoBubble)
      /\ \A i \in Send : echo'[i] \in {e[i], "none"}
      /\ ~NoBubble.shown /\ ~NoBubble.named
  <2>1. Collapses(e)
    BY DEF LoadArrives, MergesList
  <2>2. ~NoBubble.shown /\ ~NoBubble.named
    BY DEF NoBubble
  <2> HIDE DEF e
  <2> QED BY <2>1, <2>2, <1>c, CollapsesFacts DEF IInv
<1>1. TypeOK'
  BY <1>b, <1>d DEF IInv, TypeOK, Load, NoLoad
<1>2. UnusedIsFresh'
  BY <1>b, <1>d DEF IInv, UnusedIsFresh
<1>3. QueuedIsUnsent'
  BY <1>b DEF IInv, QueuedIsUnsent
<1>4. StoredIsRequested'
  BY <1>b DEF IInv, StoredIsRequested
<1>5. NamedIsTicked'
  BY <1>b, <1>d DEF IInv, NamedIsTicked, Named
<1>6. NewsIsBacked'
  BY <1>b, RankFacts DEF IInv, NewsIsBacked, FrameBacked, NoLoad
<1>7. AnswerIsComing'
  BY <1>b, <1>d DEF IInv, AnswerIsComing, AckComing
<1>8. NothingVanishes'
  <2>1. \A i \in Send : own[i].shown /\ ~own[i].deleted /\ ~own[i].named => own'[i] = own[i]
    BY <1>d DEF Named
  <2> QED BY <2>1, <1>b DEF IInv, NothingVanishes, Used
<1>9. TicksAreBacked'
  <2>1. \A i \in Send : Rank(echo'[i]) <= Rank(level[i])
    BY <1>d, RankFacts DEF IInv, TicksAreBacked, NewsIsBacked
  <2>2. \A i \in Send : own'[i].shown => Rank(own'[i].status) <= Rank(level[i])
    BY <1>d DEF IInv, TicksAreBacked
  <2> QED BY <2>1, <2>2, <1>b DEF TicksAreBacked
<1> QED BY <1>1, <1>2, <1>3, <1>4, <1>5, <1>6, <1>7, <1>8, <1>9 DEF IInv

(* A failed load keeps the inductive invariant.                            *)
LEMMA LoadFailsStep ==
  ASSUME IInv, LoadFails
  PROVE  IInv'
<1>1. TypeOK'
  BY DEF IInv, TypeOK, LoadFails, Bubble, Frame, Load, NoLoad, Tick, outboxVars,
     serverVars
<1>2. UnusedIsFresh'
  BY DEF IInv, TypeOK, UnusedIsFresh, LoadFails, NoLoad, outboxVars, serverVars
<1>3. QueuedIsUnsent'
  BY DEF IInv, TypeOK, QueuedIsUnsent, LoadFails, NoLoad, outboxVars, serverVars
<1>4. StoredIsRequested'
  BY DEF IInv, TypeOK, StoredIsRequested, LoadFails, NoLoad, outboxVars, serverVars
<1>5. NamedIsTicked'
  BY DEF IInv, TypeOK, NamedIsTicked, Named, LoadFails, NoLoad, Tick, outboxVars,
     serverVars
<1>6. NewsIsBacked'
  BY DEF IInv, TypeOK, NewsIsBacked, FrameBacked, LoadFails, NoLoad, Rank,
     outboxVars, serverVars
<1>7. AnswerIsComing'
  BY DEF IInv, TypeOK, AnswerIsComing, AckComing, LoadFails, NoLoad, outboxVars,
     serverVars
<1>8. NothingVanishes'
  BY DEF IInv, TypeOK, NothingVanishes, LoadFails, NoLoad, Used, outboxVars, serverVars
<1>9. TicksAreBacked'
  BY DEF IInv, TypeOK, TicksAreBacked, LoadFails, NoLoad, Rank, outboxVars, serverVars
<1> QED BY <1>1, <1>2, <1>3, <1>4, <1>5, <1>6, <1>7, <1>8, <1>9 DEF IInv

(* The write of a row keeps the inductive invariant.                       *)
LEMMA StoresStep ==
  ASSUME IInv, NEW i \in Send, Stores(i)
  PROVE  IInv'
<1>a. /\ level \in [Send -> Tick \cup {"none"}] /\ level' = [level EXCEPT ![i] = "sent"]
      /\ level[i] = "none"
  BY DEF Stores, IInv, TypeOK, StoredIsRequested
<1>b. \A j \in Send : Rank(level[j]) <= Rank(level'[j])
  <2>1. \A j \in Send : level'[j] = level[j] \/ level[j] = "none"
    BY <1>a
  <2> QED BY <2>1, RankFacts
<1>1. TypeOK'
  BY DEF IInv, TypeOK, Stores, Bubble, Frame, Load, Tick, viewVars, outboxVars
<1>2. UnusedIsFresh'
  BY DEF IInv, TypeOK, UnusedIsFresh, Stores, viewVars, outboxVars
<1>3. QueuedIsUnsent'
  BY DEF IInv, TypeOK, QueuedIsUnsent, Stores, viewVars, outboxVars
<1>4. StoredIsRequested'
  BY DEF IInv, TypeOK, StoredIsRequested, Stores, viewVars, outboxVars
<1>5. NamedIsTicked'
  BY DEF IInv, TypeOK, NamedIsTicked, Named, Stores, Tick, viewVars, outboxVars
<1>6. NewsIsBacked'
  <2>1. UNCHANGED <<down, load>>
    BY DEF Stores, viewVars
  <2> QED BY <2>1, <1>b, NewsStaysBacked DEF IInv
<1>7. AnswerIsComing'
  BY DEF IInv, TypeOK, AnswerIsComing, AckComing, Stores, viewVars, outboxVars
<1>8. NothingVanishes'
  BY DEF IInv, TypeOK, NothingVanishes, Stores, Used, viewVars, outboxVars
<1>9. TicksAreBacked'
  <2>1. UNCHANGED <<own, echo>>
    BY DEF Stores, viewVars
  <2>2. \A j \in Send : Rank(own[j].status) \in Nat /\ Rank(echo[j]) \in Nat
                        /\ Rank(level[j]) \in Nat /\ Rank(level'[j]) \in Nat
    BY RankFacts
  <2> QED BY <2>1, <2>2, <1>b DEF IInv, TicksAreBacked
<1> QED BY <1>1, <1>2, <1>3, <1>4, <1>5, <1>6, <1>7, <1>8, <1>9 DEF IInv

(* The echo and the ACK keeps the inductive invariant.                     *)
LEMMA AnswersStep ==
  ASSUME IInv, NEW i \in Send, Answers(i)
  PROVE  IInv'
<1> DEFINE f == <<F("echo", i, "sent"), F("ack", i, "sent")>>
<1>a. f \in Seq(Frame) /\ Sends(f) /\ Len(f) = 2
      /\ f[1].kind = "echo" /\ f[1].id = i /\ f[1].state = "sent"
      /\ f[2].kind = "ack" /\ f[2].id = i /\ f[2].state = "sent"
  BY DEF Answers, F, Frame, Tick
<1>b. UNCHANGED level /\ UNCHANGED load
  BY DEF Answers, viewVars
<1> HIDE DEF f
<1>c. /\ down' \in Seq(Frame)
      /\ \A k \in Send : AckComing(k) => AckComing(k)'
      /\ ready => AckComing(i)'
  <2>1. down' \in Seq(Frame) /\ \A k \in Send : AckComing(k) => AckComing(k)'
    BY <1>a, SendsFacts DEF IInv
  <2>2. ready => Len(down) + 2 \in 1..Len(down') /\ down'[Len(down) + 2] = f[2]
    <3>1. ready => \A l \in 1..Len(f) :
                      Len(down) + l \in 1..Len(down') /\ down'[Len(down) + l] = f[l]
      BY <1>a, SendsFacts DEF IInv
    <3> QED BY <3>1, <1>a
  <2> QED BY <1>a, <2>1, <2>2 DEF AckComing
<1>1. TypeOK'
  BY <1>b, <1>c DEF IInv, TypeOK, Answers, viewVars, outboxVars
<1>2. UnusedIsFresh'
  BY DEF IInv, TypeOK, UnusedIsFresh, Answers, Sends, F, viewVars, outboxVars
<1>3. QueuedIsUnsent'
  BY DEF IInv, TypeOK, QueuedIsUnsent, Answers, Sends, F, viewVars, outboxVars
<1>4. StoredIsRequested'
  BY DEF IInv, TypeOK, StoredIsRequested, Answers, Sends, F, viewVars, outboxVars
<1>5. NamedIsTicked'
  BY DEF IInv, TypeOK, NamedIsTicked, Named, Answers, Sends, F, Tick, viewVars,
     outboxVars
<1>6. NewsIsBacked'
  <2>1. level[i] # "none" /\ Rank("sent") <= Rank(level[i])
    BY RankFacts DEF IInv, StoredIsRequested, TypeOK, Tick, Answers
  <2>2. \A l \in 1..Len(f) : FrameBacked(f[l])'
    BY <1>a, <1>b, <2>1 DEF FrameBacked
  <2>3. \A k \in Send : Rank(level[k]) <= Rank(level'[k])
    BY <1>b, RankFacts
  <2> QED BY <1>a, <1>b, <2>2, <2>3, SendingStaysBacked DEF IInv
<1>7. AnswerIsComing'
  BY <1>c DEF IInv, AnswerIsComing, Answers, viewVars, TypeOK
<1>8. NothingVanishes'
  BY DEF IInv, TypeOK, NothingVanishes, Answers, Sends, F, Used, viewVars, outboxVars
<1>9. TicksAreBacked'
  BY DEF IInv, TypeOK, TicksAreBacked, Answers, Sends, F, Rank, viewVars, outboxVars
<1> QED BY <1>1, <1>2, <1>3, <1>4, <1>5, <1>6, <1>7, <1>8, <1>9 DEF IInv

(* A refusal keeps the inductive invariant.                                *)
LEMMA RefusesStep ==
  ASSUME IInv, NEW i \in Send, Refuses(i)
  PROVE  IInv'
<1>b. /\ level' \in [Send -> Tick \cup {"none"}]
      /\ \A k \in Send : Rank(level[k]) <= Rank(level'[k])
  <2>1. level \in [Send -> Tick \cup {"none"}] /\ level[i] = "none"
        /\ (level' = level \/ level' = [level EXCEPT ![i] = "sent"])
    BY DEF Refuses, IInv, TypeOK, StoredIsRequested
  <2>2. \A k \in Send : level'[k] = level[k] \/ level[k] = "none"
    BY <2>1
  <2>3. \A k \in Send : Rank(level[k]) <= Rank(level'[k])
    BY <2>2, RankFacts
  <2>4. level' \in [Send -> Tick \cup {"none"}]
    BY <2>1 DEF Tick
  <2> QED BY <2>3, <2>4
<1>c. /\ down' \in Seq(Frame) /\ NewsIsBacked'
      /\ \A k \in Send : AckComing(k) => AckComing(k)'
  <2>0. UNCHANGED load /\ \A k \in Send : Rank(level[k]) \in Nat /\ Rank(level'[k]) \in Nat
    BY RankFacts DEF Refuses, viewVars
  <2>1. ASSUME NEW g \in Frame, Sends(<<g>>), FrameBacked(g)'
        PROVE  /\ down' \in Seq(Frame) /\ NewsIsBacked'
               /\ \A k \in Send : AckComing(k) => AckComing(k)'
    <3> DEFINE f == <<g>>
    <3>1. f \in Seq(Frame) /\ Len(f) = 1 /\ f[1] = g /\ Sends(f)
      BY <2>1
    <3> HIDE DEF f
    <3>2. \A l \in 1..Len(f) : FrameBacked(f[l])'
      BY <2>1, <3>1 DEF FrameBacked
    <3>3. down' \in Seq(Frame) /\ \A k \in Send : AckComing(k) => AckComing(k)'
      BY <3>1, SendsFacts DEF IInv
    <3>4. NewsIsBacked'
      BY <2>0, <3>1, <3>2, <1>b, SendingStaysBacked DEF IInv
    <3> QED BY <3>3, <3>4
  <2>2. CASE Sends(<<F("nack", i, "sent")>>)
    <3>1. F("nack", i, "sent") \in Frame
      BY DEF F, Frame, Tick
    <3>2. FrameBacked(F("nack", i, "sent"))'
      BY DEF FrameBacked, F
    <3> QED BY <3>1, <3>2, <2>2, <2>1
  <2>3. CASE Sends(<<F("error", 0, "sent")>>)
    <3>1. F("error", 0, "sent") \in Frame
      BY DEF F, Frame, Tick
    <3>2. FrameBacked(F("error", 0, "sent"))'
      BY DEF FrameBacked, F
    <3> QED BY <3>1, <3>2, <2>3, <2>1
  <2> QED BY <2>2, <2>3 DEF Refuses
<1>1. TypeOK'
  BY <1>b, <1>c DEF IInv, TypeOK, Refuses, viewVars, outboxVars
<1>2. UnusedIsFresh'
  BY DEF IInv, TypeOK, UnusedIsFresh, Refuses, Sends, F, viewVars, outboxVars
<1>3. QueuedIsUnsent'
  BY DEF IInv, TypeOK, QueuedIsUnsent, Refuses, Sends, F, viewVars, outboxVars
<1>4. StoredIsRequested'
  BY DEF IInv, TypeOK, StoredIsRequested, Refuses, Sends, F, viewVars, outboxVars
<1>5. NamedIsTicked'
  BY DEF IInv, TypeOK, NamedIsTicked, Named, Refuses, Sends, F, Tick, viewVars,
     outboxVars
<1>6. NewsIsBacked'
  BY <1>c
<1>7. AnswerIsComing'
  BY <1>c DEF IInv, AnswerIsComing, Refuses, viewVars, TypeOK
<1>8. NothingVanishes'
  BY DEF IInv, TypeOK, NothingVanishes, Refuses, Sends, F, Used, viewVars, outboxVars
<1>9. TicksAreBacked'
  <2>1. UNCHANGED <<own, echo>>
    BY DEF Refuses, viewVars
  <2>2. \A j \in Send : Rank(own[j].status) \in Nat /\ Rank(echo[j]) \in Nat
                        /\ Rank(level[j]) \in Nat /\ Rank(level'[j]) \in Nat
    BY RankFacts
  <2> QED BY <2>1, <2>2, <1>b DEF IInv, TicksAreBacked
<1> QED BY <1>1, <1>2, <1>3, <1>4, <1>5, <1>6, <1>7, <1>8, <1>9 DEF IInv

(* The outcome of the live delivery keeps the inductive invariant.         *)
LEMMA ReportsDeliveryStep ==
  ASSUME IInv, NEW i \in Send, ReportsDelivery(i)
  PROVE  IInv'
<1>d. Sends(<<F("status", i, "delivered")>>) /\ level' = [level EXCEPT ![i] = AtLeast(i, "delivered")] =>
         Rank("delivered") <= Rank(level'[i])
  BY RankFacts DEF AtLeast, IInv, TypeOK
<1>b. /\ level' \in [Send -> Tick \cup {"none"}]
      /\ \A k \in Send : Rank(level[k]) <= Rank(level'[k])
  <2>1. level \in [Send -> Tick \cup {"none"}]
        /\ (level' = level \/ level' = [level EXCEPT ![i] = AtLeast(i, "delivered")])
    BY DEF ReportsDelivery, IInv, TypeOK
  <2>2. AtLeast(i, "delivered") \in Tick \cup {"none"}
        /\ Rank(level[i]) <= Rank(AtLeast(i, "delivered"))
    BY <2>1, RankFacts DEF AtLeast, Tick
  <2>3. \A k \in Send : level'[k] = level[k] \/ (k = i /\ level'[k] = AtLeast(i, "delivered"))
    BY <2>1
  <2>4. \A k \in Send : Rank(level[k]) <= Rank(level'[k])
    BY <2>2, <2>3, RankFacts
  <2>5. level' \in [Send -> Tick \cup {"none"}]
    BY <2>1, <2>2
  <2> QED BY <2>4, <2>5
<1>c. /\ down' \in Seq(Frame) /\ NewsIsBacked'
      /\ \A k \in Send : AckComing(k) => AckComing(k)'
  <2>0. UNCHANGED load /\ \A k \in Send : Rank(level[k]) \in Nat /\ Rank(level'[k]) \in Nat
    BY RankFacts DEF ReportsDelivery, viewVars
  <2>1. ASSUME NEW g \in Frame, Sends(<<g>>), FrameBacked(g)'
        PROVE  /\ down' \in Seq(Frame) /\ NewsIsBacked'
               /\ \A k \in Send : AckComing(k) => AckComing(k)'
    <3> DEFINE f == <<g>>
    <3>1. f \in Seq(Frame) /\ Len(f) = 1 /\ f[1] = g /\ Sends(f)
      BY <2>1
    <3> HIDE DEF f
    <3>2. \A l \in 1..Len(f) : FrameBacked(f[l])'
      BY <2>1, <3>1 DEF FrameBacked
    <3>3. down' \in Seq(Frame) /\ \A k \in Send : AckComing(k) => AckComing(k)'
      BY <3>1, SendsFacts DEF IInv
    <3>4. NewsIsBacked'
      BY <2>0, <3>1, <3>2, <1>b, SendingStaysBacked DEF IInv
    <3> QED BY <3>3, <3>4
  <2>2. CASE /\ Sends(<<F("status", i, "delivered")>>)
             /\ level' = [level EXCEPT ![i] = AtLeast(i, "delivered")]
    <3>1. F("status", i, "delivered") \in Frame
      BY DEF F, Frame, Tick
    <3>2. FrameBacked(F("status", i, "delivered"))'
      <4>1. Rank("delivered") <= Rank(level'[i])
        BY <1>d, <2>2
      <4> QED BY <4>1 DEF FrameBacked, F
    <3> QED BY <3>1, <3>2, <2>2, <2>1
  <2>3. CASE Sends(<<F("error", 0, "sent")>>)
    <3>1. F("error", 0, "sent") \in Frame
      BY DEF F, Frame, Tick
    <3>2. FrameBacked(F("error", 0, "sent"))'
      BY DEF FrameBacked, F
    <3> QED BY <3>1, <3>2, <2>3, <2>1
  <2>4. CASE UNCHANGED <<down, level>>
    BY <2>4, <2>0, <1>b, NewsStaysBacked DEF IInv, TypeOK, AckComing
  <2> QED BY <2>2, <2>3, <2>4 DEF ReportsDelivery
<1>1. TypeOK'
  BY <1>b, <1>c DEF IInv, TypeOK, ReportsDelivery, viewVars, outboxVars
<1>2. UnusedIsFresh'
  BY DEF IInv, TypeOK, UnusedIsFresh, ReportsDelivery, AtLeast, Sends, F, Rank,
     viewVars, outboxVars
<1>3. QueuedIsUnsent'
  BY DEF IInv, TypeOK, QueuedIsUnsent, ReportsDelivery, AtLeast, Sends, F, Rank,
     viewVars, outboxVars
<1>4. StoredIsRequested'
  BY DEF IInv, TypeOK, StoredIsRequested, ReportsDelivery, AtLeast, Sends, F, Rank,
     viewVars, outboxVars
<1>5. NamedIsTicked'
  BY DEF IInv, TypeOK, NamedIsTicked, Named, ReportsDelivery, AtLeast, Sends, F,
     Tick, Rank, viewVars, outboxVars
<1>6. NewsIsBacked'
  BY <1>c
<1>7. AnswerIsComing'
  BY <1>c DEF IInv, AnswerIsComing, ReportsDelivery, viewVars, TypeOK
<1>8. NothingVanishes'
  BY DEF IInv, TypeOK, NothingVanishes, ReportsDelivery, AtLeast, Sends, F, Used,
     Rank, viewVars, outboxVars
<1>9. TicksAreBacked'
  <2>1. UNCHANGED <<own, echo>>
    BY DEF ReportsDelivery, viewVars
  <2>2. \A j \in Send : Rank(own[j].status) \in Nat /\ Rank(echo[j]) \in Nat
                        /\ Rank(level[j]) \in Nat /\ Rank(level'[j]) \in Nat
    BY RankFacts
  <2> QED BY <2>1, <2>2, <1>b DEF IInv, TicksAreBacked
<1> QED BY <1>1, <1>2, <1>3, <1>4, <1>5, <1>6, <1>7, <1>8, <1>9 DEF IInv

(* A confirmation keeps the inductive invariant.                           *)
LEMMA ConfirmsStep ==
  ASSUME IInv, NEW i \in Send, NEW s \in Tick, Confirms(i, s)
  PROVE  IInv'
<1>d. Rank(s) <= Rank(level'[i])
  BY RankFacts DEF Confirms, IInv, TypeOK
<1>b. /\ level' \in [Send -> Tick \cup {"none"}]
      /\ \A k \in Send : Rank(level[k]) <= Rank(level'[k])
  <2>1. level \in [Send -> Tick \cup {"none"}] /\ level' = [level EXCEPT ![i] = s]
        /\ Rank(level[i]) < Rank(s)
    BY DEF Confirms, IInv, TypeOK
  <2>2. \A k \in Send : level'[k] = level[k] \/ (k = i /\ level'[k] = s)
    BY <2>1
  <2>3. \A k \in Send : Rank(level[k]) <= Rank(level'[k])
    BY <2>1, <2>2, RankFacts
  <2>4. level' \in [Send -> Tick \cup {"none"}]
    BY <2>1
  <2> QED BY <2>3, <2>4
<1>c. /\ down' \in Seq(Frame) /\ NewsIsBacked'
      /\ \A k \in Send : AckComing(k) => AckComing(k)'
  <2>0. UNCHANGED load /\ \A k \in Send : Rank(level[k]) \in Nat /\ Rank(level'[k]) \in Nat
    BY RankFacts DEF Confirms, viewVars
  <2>1. ASSUME NEW g \in Frame, Sends(<<g>>), FrameBacked(g)'
        PROVE  /\ down' \in Seq(Frame) /\ NewsIsBacked'
               /\ \A k \in Send : AckComing(k) => AckComing(k)'
    <3> DEFINE f == <<g>>
    <3>1. f \in Seq(Frame) /\ Len(f) = 1 /\ f[1] = g /\ Sends(f)
      BY <2>1
    <3> HIDE DEF f
    <3>2. \A l \in 1..Len(f) : FrameBacked(f[l])'
      BY <2>1, <3>1 DEF FrameBacked
    <3>3. down' \in Seq(Frame) /\ \A k \in Send : AckComing(k) => AckComing(k)'
      BY <3>1, SendsFacts DEF IInv
    <3>4. NewsIsBacked'
      BY <2>0, <3>1, <3>2, <1>b, SendingStaysBacked DEF IInv
    <3> QED BY <3>3, <3>4
  <2>2. CASE Sends(<<F("update", i, s)>>)
    <3>1. F("update", i, s) \in Frame
      BY DEF F, Frame, Tick
    <3>2. FrameBacked(F("update", i, s))'
      BY <1>d, <2>2 DEF FrameBacked, F
    <3> QED BY <3>1, <3>2, <2>2, <2>1
  <2> QED BY <2>2 DEF Confirms
<1>1. TypeOK'
  BY <1>b, <1>c DEF IInv, TypeOK, Confirms, viewVars, outboxVars
<1>2. UnusedIsFresh'
  BY DEF IInv, TypeOK, UnusedIsFresh, Confirms, Sends, F, Rank, viewVars, outboxVars
<1>3. QueuedIsUnsent'
  BY DEF IInv, TypeOK, QueuedIsUnsent, Confirms, Sends, F, Rank, viewVars, outboxVars
<1>4. StoredIsRequested'
  BY DEF IInv, TypeOK, StoredIsRequested, Confirms, Sends, F, Rank, viewVars, outboxVars
<1>5. NamedIsTicked'
  BY DEF IInv, TypeOK, NamedIsTicked, Named, Confirms, Sends, F, Tick, Rank,
     viewVars, outboxVars
<1>6. NewsIsBacked'
  BY <1>c
<1>7. AnswerIsComing'
  BY <1>c DEF IInv, AnswerIsComing, Confirms, viewVars
<1>8. NothingVanishes'
  BY DEF IInv, TypeOK, NothingVanishes, Confirms, Sends, F, Used, Rank, viewVars,
     outboxVars
<1>9. TicksAreBacked'
  <2>1. UNCHANGED <<own, echo>>
    BY DEF Confirms, viewVars
  <2>2. \A j \in Send : Rank(own[j].status) \in Nat /\ Rank(echo[j]) \in Nat
                        /\ Rank(level[j]) \in Nat /\ Rank(level'[j]) \in Nat
    BY RankFacts
  <2> QED BY <2>1, <2>2, <1>b DEF IInv, TicksAreBacked
<1> QED BY <1>1, <1>2, <1>3, <1>4, <1>5, <1>6, <1>7, <1>8, <1>9 DEF IInv

(* A repeated confirmation keeps the inductive invariant.                  *)
LEMMA ConfirmsAgainStep ==
  ASSUME IInv, NEW i \in Send, NEW s \in Tick, ConfirmsAgain(i, s)
  PROVE  IInv'
<1>d. Rank(s) <= Rank(level'[i]) /\ level' = level
  BY DEF ConfirmsAgain, serverVars
<1>b. /\ level' \in [Send -> Tick \cup {"none"}]
      /\ \A k \in Send : Rank(level[k]) <= Rank(level'[k])
  <2>1. \A k \in Send : Rank(level[k]) \in Nat
    BY RankFacts
  <2> QED BY <1>d, <2>1 DEF IInv, TypeOK
<1>c. /\ down' \in Seq(Frame) /\ NewsIsBacked'
      /\ \A k \in Send : AckComing(k) => AckComing(k)'
  <2>0. UNCHANGED load /\ \A k \in Send : Rank(level[k]) \in Nat /\ Rank(level'[k]) \in Nat
    BY RankFacts DEF ConfirmsAgain, viewVars
  <2>1. ASSUME NEW g \in Frame, Sends(<<g>>), FrameBacked(g)'
        PROVE  /\ down' \in Seq(Frame) /\ NewsIsBacked'
               /\ \A k \in Send : AckComing(k) => AckComing(k)'
    <3> DEFINE f == <<g>>
    <3>1. f \in Seq(Frame) /\ Len(f) = 1 /\ f[1] = g /\ Sends(f)
      BY <2>1
    <3> HIDE DEF f
    <3>2. \A l \in 1..Len(f) : FrameBacked(f[l])'
      BY <2>1, <3>1 DEF FrameBacked
    <3>3. down' \in Seq(Frame) /\ \A k \in Send : AckComing(k) => AckComing(k)'
      BY <3>1, SendsFacts DEF IInv
    <3>4. NewsIsBacked'
      BY <2>0, <3>1, <3>2, <1>b, SendingStaysBacked DEF IInv
    <3> QED BY <3>3, <3>4
  <2>2. CASE Sends(<<F("update", i, s)>>)
    <3>1. F("update", i, s) \in Frame
      BY DEF F, Frame, Tick
    <3>2. FrameBacked(F("update", i, s))'
      BY <1>d, <2>2 DEF FrameBacked, F
    <3> QED BY <3>1, <3>2, <2>2, <2>1
  <2> QED BY <2>2 DEF ConfirmsAgain
<1>1. TypeOK'
  BY <1>b, <1>c DEF IInv, TypeOK, ConfirmsAgain, Happens, viewVars, outboxVars,
     serverVars
<1>2. UnusedIsFresh'
  BY DEF IInv, TypeOK, UnusedIsFresh, ConfirmsAgain, Sends, F, Happens, Rank,
     viewVars, outboxVars, serverVars
<1>3. QueuedIsUnsent'
  BY DEF IInv, TypeOK, QueuedIsUnsent, ConfirmsAgain, Sends, F, Happens, Rank,
     viewVars, outboxVars, serverVars
<1>4. StoredIsRequested'
  BY DEF IInv, TypeOK, StoredIsRequested, ConfirmsAgain, Sends, F, Happens, Rank,
     viewVars, outboxVars, serverVars
<1>5. NamedIsTicked'
  BY DEF IInv, TypeOK, NamedIsTicked, Named, ConfirmsAgain, Sends, F, Happens, Tick,
     Rank, viewVars, outboxVars, serverVars
<1>6. NewsIsBacked'
  BY <1>c
<1>7. AnswerIsComing'
  BY <1>c DEF IInv, AnswerIsComing, ConfirmsAgain, viewVars, serverVars
<1>8. NothingVanishes'
  BY DEF IInv, TypeOK, NothingVanishes, ConfirmsAgain, Sends, F, Happens, Used, Rank,
     viewVars, outboxVars, serverVars
<1>9. TicksAreBacked'
  <2>1. UNCHANGED <<own, echo>>
    BY DEF ConfirmsAgain, viewVars
  <2>2. \A j \in Send : Rank(own[j].status) \in Nat /\ Rank(echo[j]) \in Nat
                        /\ Rank(level[j]) \in Nat /\ Rank(level'[j]) \in Nat
    BY RankFacts
  <2> QED BY <2>1, <2>2, <1>b DEF IInv, TicksAreBacked
<1> QED BY <1>1, <1>2, <1>3, <1>4, <1>5, <1>6, <1>7, <1>8, <1>9 DEF IInv

(* A message of the peer keeps the inductive invariant.                    *)
LEMMA PeerWritesStep ==
  ASSUME IInv, PeerWrites
  PROVE  IInv'
<1>b. /\ level' \in [Send -> Tick \cup {"none"}]
      /\ \A k \in Send : Rank(level[k]) <= Rank(level'[k])
  BY RankFacts DEF PeerWrites, serverVars, IInv, TypeOK
<1>c. /\ down' \in Seq(Frame) /\ NewsIsBacked'
      /\ \A k \in Send : AckComing(k) => AckComing(k)'
  <2>0. UNCHANGED load /\ \A k \in Send : Rank(level[k]) \in Nat /\ Rank(level'[k]) \in Nat
    BY RankFacts DEF PeerWrites, viewVars
  <2>1. ASSUME NEW g \in Frame, Sends(<<g>>), FrameBacked(g)'
        PROVE  /\ down' \in Seq(Frame) /\ NewsIsBacked'
               /\ \A k \in Send : AckComing(k) => AckComing(k)'
    <3> DEFINE f == <<g>>
    <3>1. f \in Seq(Frame) /\ Len(f) = 1 /\ f[1] = g /\ Sends(f)
      BY <2>1
    <3> HIDE DEF f
    <3>2. \A l \in 1..Len(f) : FrameBacked(f[l])'
      BY <2>1, <3>1 DEF FrameBacked
    <3>3. down' \in Seq(Frame) /\ \A k \in Send : AckComing(k) => AckComing(k)'
      BY <3>1, SendsFacts DEF IInv
    <3>4. NewsIsBacked'
      BY <2>0, <3>1, <3>2, <1>b, SendingStaysBacked DEF IInv
    <3> QED BY <3>3, <3>4
  <2>2. CASE Sends(<<F("peer", 0, "sent")>>)
    <3>1. F("peer", 0, "sent") \in Frame
      BY DEF F, Frame, Tick
    <3>2. FrameBacked(F("peer", 0, "sent"))'
      BY DEF FrameBacked, F
    <3> QED BY <3>1, <3>2, <2>2, <2>1
  <2> QED BY <2>2 DEF PeerWrites
<1>1. TypeOK'
  BY <1>b, <1>c DEF IInv, TypeOK, PeerWrites, Happens, viewVars, outboxVars, serverVars
<1>2. UnusedIsFresh'
  BY DEF IInv, TypeOK, UnusedIsFresh, PeerWrites, Sends, F, Happens, viewVars,
     outboxVars, serverVars
<1>3. QueuedIsUnsent'
  BY DEF IInv, TypeOK, QueuedIsUnsent, PeerWrites, Sends, F, Happens, viewVars,
     outboxVars, serverVars
<1>4. StoredIsRequested'
  BY DEF IInv, TypeOK, StoredIsRequested, PeerWrites, Sends, F, Happens, viewVars,
     outboxVars, serverVars
<1>5. NamedIsTicked'
  BY DEF IInv, TypeOK, NamedIsTicked, Named, PeerWrites, Sends, F, Happens, Tick,
     viewVars, outboxVars, serverVars
<1>6. NewsIsBacked'
  BY <1>c
<1>7. AnswerIsComing'
  BY <1>c DEF IInv, AnswerIsComing, PeerWrites, viewVars, serverVars
<1>8. NothingVanishes'
  BY DEF IInv, TypeOK, NothingVanishes, PeerWrites, Sends, F, Happens, Used,
     viewVars, outboxVars, serverVars
<1>9. TicksAreBacked'
  <2>1. UNCHANGED <<own, echo>>
    BY DEF PeerWrites, viewVars
  <2>2. \A j \in Send : Rank(own[j].status) \in Nat /\ Rank(echo[j]) \in Nat
                        /\ Rank(level[j]) \in Nat /\ Rank(level'[j]) \in Nat
    BY RankFacts
  <2> QED BY <2>1, <2>2, <1>b DEF IInv, TicksAreBacked
<1> QED BY <1>1, <1>2, <1>3, <1>4, <1>5, <1>6, <1>7, <1>8, <1>9 DEF IInv

(* A closed socket keeps the inductive invariant.                          *)
LEMMA DisconnectStep ==
  ASSUME IInv, Disconnect
  PROVE  IInv'
<1>a. /\ ready' = FALSE /\ flushing' = FALSE /\ down' = <<>>
      /\ cut' = cut \cup {i \in Send : AckComing(i)}
      /\ \E lost \in SUBSET {i \in Send : req[i] = "way"} :
            req' = [i \in Send |-> IF i \in lost THEN "lost" ELSE req[i]]
  BY DEF Disconnect, Cuts
<1>b. /\ req' \in [Send -> {"none", "way", "stored", "answered", "done", "refused", "lost"}]
      /\ \A i \in Send : req'[i] = req[i] \/ (req[i] = "way" /\ req'[i] = "lost")
  BY <1>a DEF IInv, TypeOK
<1>c. down' \in Seq(Frame) /\ cut' \subseteq Send /\ events' \in 0..MaxEvents
  BY <1>a DEF IInv, TypeOK, Disconnect, Happens
<1>1. TypeOK'
  BY <1>a, <1>b, <1>c DEF IInv, TypeOK, Disconnect, viewVars
<1>2. UnusedIsFresh'
  BY DEF IInv, TypeOK, UnusedIsFresh, Disconnect, Cuts, Happens, viewVars
<1>3. QueuedIsUnsent'
  BY DEF IInv, TypeOK, QueuedIsUnsent, Disconnect, Cuts, Happens, viewVars
<1>4. StoredIsRequested'
  BY DEF IInv, TypeOK, StoredIsRequested, Disconnect, Cuts, Happens, viewVars
<1>5. NamedIsTicked'
  BY DEF IInv, TypeOK, NamedIsTicked, Named, Disconnect, Cuts, Happens, Tick, viewVars
<1>6. NewsIsBacked'
  BY DEF IInv, TypeOK, NewsIsBacked, FrameBacked, Disconnect, Cuts, Happens, Rank,
     viewVars
<1>7. AnswerIsComing'
  BY DEF IInv, TypeOK, AnswerIsComing, AckComing, Disconnect, Cuts, Happens, viewVars
<1>8. NothingVanishes'
  BY DEF IInv, TypeOK, NothingVanishes, Disconnect, Cuts, Happens, Used, viewVars
<1>9. TicksAreBacked'
  BY DEF IInv, TypeOK, TicksAreBacked, Disconnect, Cuts, Happens, Rank, viewVars
<1> QED BY <1>1, <1>2, <1>3, <1>4, <1>5, <1>6, <1>7, <1>8, <1>9 DEF IInv

(* A reloaded page keeps the inductive invariant.                          *)
LEMMA ReloadPageStep ==
  ASSUME IInv, ReloadPage
  PROVE  IInv'
<1>a. /\ ready' = FALSE /\ flushing' = FALSE /\ down' = <<>>
      /\ cut' = cut \cup {i \in Send : AckComing(i)}
      /\ \E lost \in SUBSET {i \in Send : req[i] = "way"} :
            req' = [i \in Send |-> IF i \in lost THEN "lost" ELSE req[i]]
  BY DEF ReloadPage, Cuts
<1>b. /\ req' \in [Send -> {"none", "way", "stored", "answered", "done", "refused", "lost"}]
      /\ \A i \in Send : req'[i] = req[i] \/ (req[i] = "way" /\ req'[i] = "lost")
  BY <1>a DEF IInv, TypeOK
<1>c. down' \in Seq(Frame) /\ cut' \subseteq Send /\ events' \in 0..MaxEvents
  BY <1>a DEF IInv, TypeOK, ReloadPage, Happens
<1>d. gone' \subseteq Send
  BY DEF ReloadPage, Used, IInv, TypeOK
<1>e. /\ own' \in [Send -> Bubble] /\ echo' \in [Send -> Tick \cup {"none"}]
      /\ load' \in Load /\ outbox' \in Seq(Send)
  BY DEF ReloadPage, NoBubble, Bubble, NoLoad, Load
<1>1. TypeOK'
  BY <1>a, <1>b, <1>c, <1>d, <1>e DEF IInv, TypeOK, ReloadPage
<1>2. UnusedIsFresh'
  BY DEF IInv, TypeOK, UnusedIsFresh, ReloadPage, Cuts, Happens, NoBubble, NoLoad, Used
<1>3. QueuedIsUnsent'
  BY DEF IInv, TypeOK, QueuedIsUnsent, ReloadPage, Cuts, Happens, NoBubble, NoLoad, Used
<1>4. StoredIsRequested'
  BY DEF IInv, TypeOK, StoredIsRequested, ReloadPage, Cuts, Happens, NoBubble,
     NoLoad, Used
<1>5. NamedIsTicked'
  BY DEF IInv, TypeOK, NamedIsTicked, Named, ReloadPage, Cuts, Happens, NoBubble,
     NoLoad, Tick, Used
<1>6. NewsIsBacked'
  BY DEF IInv, TypeOK, NewsIsBacked, FrameBacked, ReloadPage, Cuts, Happens,
     NoBubble, NoLoad, Used, Rank
<1>7. AnswerIsComing'
  BY DEF IInv, TypeOK, AnswerIsComing, AckComing, ReloadPage, Cuts, Happens,
     NoBubble, NoLoad, Used
<1>8. NothingVanishes'
  BY DEF IInv, TypeOK, NothingVanishes, ReloadPage, Cuts, Happens, NoBubble, NoLoad,
     Used
<1>9. TicksAreBacked'
  BY DEF IInv, TypeOK, TicksAreBacked, ReloadPage, Cuts, Happens, NoBubble, NoLoad,
     Used, Rank
<1> QED BY <1>1, <1>2, <1>3, <1>4, <1>5, <1>6, <1>7, <1>8, <1>9 DEF IInv

(* The start of a rate limit keeps the inductive invariant.                *)
LEMMA SlowsStep ==
  ASSUME IInv, Slows
  PROVE  IInv'
<1>1. TypeOK'
  BY DEF IInv, TypeOK, Slows, Happens, Bubble, Frame, Load, Tick, viewVars,
     outboxVars, serverVars
<1>2. UnusedIsFresh'
  BY DEF IInv, TypeOK, UnusedIsFresh, Slows, Happens, viewVars, outboxVars, serverVars
<1>3. QueuedIsUnsent'
  BY DEF IInv, TypeOK, QueuedIsUnsent, Slows, Happens, viewVars, outboxVars, serverVars
<1>4. StoredIsRequested'
  BY DEF IInv, TypeOK, StoredIsRequested, Slows, Happens, viewVars, outboxVars,
     serverVars
<1>5. NamedIsTicked'
  BY DEF IInv, TypeOK, NamedIsTicked, Named, Slows, Happens, Tick, viewVars,
     outboxVars, serverVars
<1>6. NewsIsBacked'
  BY DEF IInv, TypeOK, NewsIsBacked, FrameBacked, Slows, Happens, Rank, viewVars,
     outboxVars, serverVars
<1>7. AnswerIsComing'
  BY DEF IInv, TypeOK, AnswerIsComing, AckComing, Slows, Happens, viewVars,
     outboxVars, serverVars
<1>8. NothingVanishes'
  BY DEF IInv, TypeOK, NothingVanishes, Slows, Happens, Used, viewVars, outboxVars,
     serverVars
<1>9. TicksAreBacked'
  BY DEF IInv, TypeOK, TicksAreBacked, Slows, Happens, Rank, viewVars, outboxVars,
     serverVars
<1> QED BY <1>1, <1>2, <1>3, <1>4, <1>5, <1>6, <1>7, <1>8, <1>9 DEF IInv

(* The end of a rate limit keeps the inductive invariant.                  *)
LEMMA LimitEndsStep ==
  ASSUME IInv, LimitEnds
  PROVE  IInv'
<1>1. TypeOK'
  BY DEF IInv, TypeOK, LimitEnds, Bubble, Frame, Load, Tick, viewVars, outboxVars,
     serverVars
<1>2. UnusedIsFresh'
  BY DEF IInv, TypeOK, UnusedIsFresh, LimitEnds, viewVars, outboxVars, serverVars
<1>3. QueuedIsUnsent'
  BY DEF IInv, TypeOK, QueuedIsUnsent, LimitEnds, viewVars, outboxVars, serverVars
<1>4. StoredIsRequested'
  BY DEF IInv, TypeOK, StoredIsRequested, LimitEnds, viewVars, outboxVars, serverVars
<1>5. NamedIsTicked'
  BY DEF IInv, TypeOK, NamedIsTicked, Named, LimitEnds, Tick, viewVars, outboxVars,
     serverVars
<1>6. NewsIsBacked'
  BY DEF IInv, TypeOK, NewsIsBacked, FrameBacked, LimitEnds, Rank, viewVars,
     outboxVars, serverVars
<1>7. AnswerIsComing'
  BY DEF IInv, TypeOK, AnswerIsComing, AckComing, LimitEnds, viewVars, outboxVars,
     serverVars
<1>8. NothingVanishes'
  BY DEF IInv, TypeOK, NothingVanishes, LimitEnds, Used, viewVars, outboxVars,
     serverVars
<1>9. TicksAreBacked'
  BY DEF IInv, TypeOK, TicksAreBacked, LimitEnds, Rank, viewVars, outboxVars, serverVars
<1> QED BY <1>1, <1>2, <1>3, <1>4, <1>5, <1>6, <1>7, <1>8, <1>9 DEF IInv

(* The tab starts with no bubble, nothing queued and nothing on the way.   *)
LEMMA InitLemma == Init => IInv
<1> SUFFICES ASSUME Init PROVE IInv
  OBVIOUS
<1>1. NoBubble \in Bubble /\ NoLoad \in Load /\ ~NoBubble.shown /\ ~NoBubble.named
  BY DEF NoBubble, Bubble, NoLoad, Load
<1>2. TypeOK
  <2>1. /\ outbox \in Seq(Send) /\ down \in Seq(Frame)
        /\ text \in [Send -> Send \cup {0}]
        /\ own \in [Send -> Bubble] /\ echo \in [Send -> Tick \cup {"none"}]
        /\ req \in [Send -> {"none", "way", "stored", "answered", "done", "refused", "lost"}]
        /\ level \in [Send -> Tick \cup {"none"}]
    BY <1>1 DEF Init
  <2>2. /\ armed \in BOOLEAN /\ flushing \in BOOLEAN /\ load \in Load
        /\ ready \in BOOLEAN /\ limited \in BOOLEAN
        /\ cut \subseteq Send /\ gone \subseteq Send
    BY <1>1 DEF Init
  <2>3. events \in 0..MaxEvents
    BY BoundAssumption DEF Init
  <2> QED BY <2>1, <2>2, <2>3 DEF TypeOK
<1>3. UnusedIsFresh /\ QueuedIsUnsent /\ StoredIsRequested /\ NamedIsTicked
  BY <1>1 DEF Init, UnusedIsFresh, QueuedIsUnsent, StoredIsRequested, NamedIsTicked, Named
<1>4. NewsIsBacked
  BY RankFacts DEF Init, NewsIsBacked, NoLoad
<1>5. AnswerIsComing /\ NothingVanishes
  BY <1>1 DEF Init, AnswerIsComing, NothingVanishes, Used
<1>6. TicksAreBacked
  BY <1>1, RankFacts DEF Init, TicksAreBacked
<1> QED BY <1>2, <1>3, <1>4, <1>5, <1>6 DEF IInv

(* A step of nobody changes nothing.                                       *)
LEMMA StutterLemma == IInv /\ UNCHANGED vars => IInv'
BY DEF IInv, TypeOK, UnusedIsFresh, QueuedIsUnsent, StoredIsRequested, NamedIsTicked,
       Named, NewsIsBacked, FrameBacked, AnswerIsComing, AckComing, NothingVanishes, Used,
       TicksAreBacked, vars, viewVars, outboxVars, serverVars

(* Typing, retrying and reloading keep the inductive invariant.            *)
LEMMA UserLemma == IInv /\ UserStep => IInv'
BY HandleSendStep, HandleRetryFailedMessageStep, ReloadPageStep DEF UserStep

(* So do the tab's own steps.                                              *)
LEMMA TabLemma == IInv /\ TabStep => IInv'
BY SendingTimeoutStep, HelloAckStep, FlushTimerStep, EchoArrivesStep, AckArrivesStep,
   NackArrivesStep, ErrorArrivesStep, StatusArrivesStep, UpdateArrivesStep, PeerArrivesStep,
   LoadStartsStep, LoadReadsStep, LoadArrivesStep, LoadFailsStep DEF TabStep

(* And those of the server, of the peer and of the network.                *)
LEMMA ServerLemma == IInv /\ ServerStep => IInv'
BY StoresStep, AnswersStep, RefusesStep, ReportsDeliveryStep, ConfirmsStep,
   ConfirmsAgainStep, PeerWritesStep, DisconnectStep, SlowsStep, LimitEndsStep DEF ServerStep

(* The inductive invariant holds in every reachable state.                 *)
THEOREM Invariance == Spec => []IInv
<1>1. IInv /\ [Next]_vars => IInv'
  BY StutterLemma, UserLemma, TabLemma, ServerLemma DEF Next
<1> QED BY InitLemma, <1>1, PTL DEF Spec

(* Every variable keeps its type; a queued send is one of the sends.       *)
THEOREM ViewTypeCorrect == Spec => []TypeOK
<1>1. IInv => TypeOK
  BY DEF IInv
<1> QED BY Invariance, <1>1, PTL

(* What was typed is stored or still to be seen as pending or failed,      *)
(* unless a page reload took it (retry, timeout, error, ACK, NACK, merge   *)
(* of history and deduplication of ChatAdapterContext.jsx).                *)
THEOREM TextsStay == Spec => []NothingVanishes
<1>1. IInv => NothingVanishes
  BY DEF IInv
<1> QED BY Invariance, <1>1, PTL

(* No bubble shows a better state than the server has given the message.   *)
THEOREM TicksStayBacked == Spec => []TicksAreBacked
<1>1. IInv => TicksAreBacked
  BY DEF IInv
<1> QED BY Invariance, <1>1, PTL

(* A message that is seen both as unsent and as sent waits for its ACK,    *)
(* was refused after its row was written, or lost its ACK with the socket. *)
THEOREM DoublesStayExplained == Spec => []DoubleIsExplained
<1>1. ASSUME IInv PROVE DoubleIsExplained
  <2>1. SUFFICES ASSUME NEW i \in Send, own[i].shown, ~own[i].named, echo[i] # "none"
                 PROVE  \/ req[i] \in {"stored", "refused"}
                        \/ i \in cut
                        \/ AckComing(i)
    BY DEF DoubleIsExplained
  <2>2. echo[i] \in Tick /\ Rank(echo[i]) <= Rank(level[i])
    BY <1>1, <2>1 DEF IInv, TypeOK, TicksAreBacked
  <2>3. level[i] # "none"
    BY <2>2, RankFacts DEF Tick
  <2>4. req[i] \in {"stored", "answered", "done", "refused"}
    BY <1>1, <2>3 DEF IInv, StoredIsRequested
  <2> QED BY <1>1, <2>1, <2>4 DEF IInv, AnswerIsComing
<1> QED BY Invariance, <1>1, PTL

(* A flush keeps its timer while it leaves something behind.               *)
LEMMA FlushGoesOn ==
  ASSUME TypeOK, FlushesGoOn, NEW was \in BOOLEAN, FlushWhenReady(was)
  PROVE  flushing' => armed' /\ outbox' # <<>>
<1>1. CASE ~limited /\ FlushHead(was)
  <2>1. /\ outbox \in Seq(Send) /\ outbox # <<>> /\ outbox' = Tail(outbox)
        /\ armed' = (was \/ Len(outbox) > 1)
        /\ flushing' = (Len(outbox) > 1)
    BY <1>1 DEF FlushHead, TypeOK
  <2>2. Len(outbox) > 1 => Len(outbox') # 0
    BY <2>1
  <2> QED BY <2>1, <2>2
<1>2. CASE limited /\ outbox # <<>> /\ armed' \in {TRUE, was}
           /\ flushing' = (flushing /\ armed') /\ UNCHANGED <<outbox, req>>
  BY <1>2 DEF TypeOK
<1>3. CASE outbox = <<>> /\ armed' = was /\ UNCHANGED <<outbox, flushing, req>>
  BY <1>3 DEF FlushesGoOn
<1> QED BY <1>1, <1>2, <1>3 DEF FlushWhenReady

(* Queueing a send ends no flush.                                          *)
LEMMA QueueingKeepsFlush ==
  ASSUME TypeOK, FlushesGoOn, NEW i \in Send, SendsOrQueues(i),
         UNCHANGED <<armed, flushing, ready>>
  PROVE  FlushesGoOn'
<1>1. CASE outbox' = outbox
  BY <1>1 DEF FlushesGoOn
<1>2. CASE outbox' = Append(outbox, i)
  <2>1. outbox' # <<>>
    BY <1>2 DEF TypeOK
  <2> QED BY <2>1 DEF FlushesGoOn
<1> QED BY <1>1, <1>2 DEF SendsOrQueues

(* No step of the user ends a flush that has something to send, but for a  *)
(* reload of the page.                                                     *)
LEMMA UserKeepsFlush == TypeOK /\ FlushesGoOn /\ UserStep => FlushesGoOn'
<1> SUFFICES ASSUME TypeOK, FlushesGoOn, UserStep PROVE FlushesGoOn'
  OBVIOUS
<1>1. ASSUME NEW i \in Send, HandleSend(i) PROVE FlushesGoOn'
  BY <1>1, QueueingKeepsFlush DEF HandleSend
<1>2. ASSUME NEW i \in Send, NEW j \in Send, HandleRetryFailedMessage(i, j)
      PROVE  FlushesGoOn'
  BY <1>2, QueueingKeepsFlush DEF HandleRetryFailedMessage
<1>3. CASE ReloadPage
  BY <1>3 DEF ReloadPage, Cuts, FlushesGoOn
<1> QED BY <1>1, <1>2, <1>3 DEF UserStep

(* The tab's own steps: only HELLO_ACK and the timer touch the outbox.     *)
LEMMA TabKeepsFlush == TypeOK /\ FlushesGoOn /\ TabStep => FlushesGoOn'
<1> SUFFICES ASSUME TypeOK, FlushesGoOn, TabStep PROVE FlushesGoOn'
  OBVIOUS
<1>1. CASE HelloAck
  <2>1. FlushWhenReady(armed) /\ armed \in BOOLEAN /\ ready' = TRUE
    BY <1>1 DEF HelloAck, TypeOK
  <2>2. flushing' => armed' /\ outbox' # <<>>
    BY <2>1, FlushGoesOn
  <2> QED BY <2>1, <2>2 DEF FlushesGoOn
<1>2. CASE FlushTimer
  <2>1. CASE ready /\ FlushWhenReady(FALSE)
    <3>1. flushing' => armed' /\ outbox' # <<>>
      BY <2>1, FlushGoesOn
    <3>2. ready'
      BY <1>2, <2>1 DEF FlushTimer
    <3> QED BY <3>1, <3>2 DEF FlushesGoOn
  <2>2. CASE ~ready /\ UNCHANGED flushing
    BY <2>2 DEF FlushesGoOn
  <2> QED BY <1>2, <2>1, <2>2 DEF FlushTimer
<1>3. ASSUME NEW i \in Send, SendingTimeout(i) PROVE FlushesGoOn'
  BY <1>3 DEF SendingTimeout, FlushesGoOn, outboxVars
<1>4. CASE EchoArrives
  BY <1>4 DEF EchoArrives, unviewed, FlushesGoOn, outboxVars
<1>5. CASE AckArrives
  BY <1>5 DEF AckArrives, unviewed, FlushesGoOn, outboxVars
<1>6. CASE NackArrives
  BY <1>6 DEF NackArrives, unviewed, FlushesGoOn, outboxVars
<1>7. CASE ErrorArrives
  BY <1>7 DEF ErrorArrives, unviewed, FlushesGoOn, outboxVars
<1>8. CASE StatusArrives
  BY <1>8 DEF StatusArrives, unviewed, FlushesGoOn, outboxVars
<1>9. CASE UpdateArrives
  BY <1>9 DEF UpdateArrives, unviewed, FlushesGoOn, outboxVars
<1>10. CASE PeerArrives
  BY <1>10 DEF PeerArrives, unviewed, FlushesGoOn, outboxVars
<1>11. CASE LoadStarts \/ LoadReads
  BY <1>11 DEF LoadStarts, LoadReads, FlushesGoOn, viewVars, outboxVars
<1>12. CASE LoadArrives \/ LoadFails
  BY <1>12 DEF LoadArrives, LoadFails, FlushesGoOn, viewVars, outboxVars
<1> QED BY <1>1, <1>2, <1>3, <1>4, <1>5, <1>6, <1>7, <1>8, <1>9, <1>10, <1>11, <1>12
        DEF TabStep

(* The server slows a flush down and does not end it; a closed socket does. *)
LEMMA ServerKeepsFlush == TypeOK /\ FlushesGoOn /\ ServerStep => FlushesGoOn'
<1> SUFFICES ASSUME TypeOK, FlushesGoOn, ServerStep PROVE FlushesGoOn'
  OBVIOUS
<1>1. ASSUME NEW i \in Send, Stores(i) \/ Answers(i) \/ Refuses(i) \/ ReportsDelivery(i)
      PROVE  FlushesGoOn'
  BY <1>1 DEF Stores, Answers, Refuses, ReportsDelivery, FlushesGoOn, outboxVars
<1>2. ASSUME NEW i \in Send, NEW s \in Tick, Confirms(i, s) \/ ConfirmsAgain(i, s)
      PROVE  FlushesGoOn'
  BY <1>2 DEF Confirms, ConfirmsAgain, FlushesGoOn, outboxVars
<1>3. CASE PeerWrites
  BY <1>3 DEF PeerWrites, FlushesGoOn, outboxVars
<1>4. CASE Disconnect
  BY <1>4 DEF Disconnect, Cuts, FlushesGoOn
<1>5. CASE Slows \/ LimitEnds
  BY <1>5 DEF Slows, LimitEnds, FlushesGoOn, outboxVars
<1> QED BY <1>1, <1>2, <1>3, <1>4, <1>5 DEF ServerStep

(* A flush of the outbox that has begun and left something has its timer   *)
(* set until the socket closes, the page is reloaded or the server asks    *)
(* for a pause of a minute (flushPendingOutbox of ChatAdapterContext.jsx): *)
(* a part of the safety half of OutboxDrains, for which the timer has to   *)
(* fire.                                                                   *)
THEOREM FlushesContinue == Spec => []FlushesGoOn
<1>1. Init => FlushesGoOn
  BY DEF Init, FlushesGoOn
<1>2. TypeOK /\ FlushesGoOn /\ [Next]_vars => FlushesGoOn'
  <2>1. FlushesGoOn /\ UNCHANGED vars => FlushesGoOn'
    BY DEF FlushesGoOn, vars, outboxVars
  <2> QED BY <2>1, UserKeepsFlush, TabKeepsFlush, ServerKeepsFlush DEF Next
<1> QED BY <1>1, <1>2, ViewTypeCorrect, PTL DEF Spec

(* A flush with no timer of its own sets one, unless it sends the last of  *)
(* the outbox or is slowed down.                                           *)
LEMMA FlushSetsTimer ==
  ASSUME TypeOK, NEW was \in BOOLEAN, FlushWhenReady(was), outbox # <<>>
  PROVE  armed' \/ outbox' = <<>> \/ limited
<1>1. CASE ~limited /\ FlushHead(was)
  <2>1. /\ outbox \in Seq(Send) /\ outbox # <<>> /\ outbox' = Tail(outbox)
        /\ armed' = (was \/ Len(outbox) > 1)
    BY <1>1 DEF FlushHead, TypeOK
  <2>2. Len(outbox) = 1 => Tail(outbox) = <<>>
    BY <2>1
  <2>3. 1 \in 1..Len(outbox)
    BY <2>1
  <2>4. Len(outbox) > 1 \/ Len(outbox) = 1
    BY <2>1, <2>3
  <2> QED BY <2>1, <2>2, <2>4
<1> QED BY <1>1 DEF FlushWhenReady

(* A set timer is not lost while something is queued: not to a send, a     *)
(* closed socket, HELLO_ACK or an empty answer of the timer itself         *)
(* (flushPendingOutbox).                                                   *)
THEOREM TimerStays == Spec => TimerIsKept
<1> DEFINE Kept == armed /\ outbox # <<>> => armed' \/ outbox' = <<>> \/ limited
<1>1. ASSUME TypeOK, UserStep PROVE Kept
  BY <1>1 DEF UserStep, HandleSend, HandleRetryFailedMessage, ReloadPage
<1>2. ASSUME TypeOK, TabStep PROVE Kept
  <2>1. CASE HelloAck
    <3>1. FlushWhenReady(armed) /\ armed \in BOOLEAN
      BY <1>2, <2>1 DEF HelloAck, TypeOK
    <3> QED BY <1>2, <3>1, FlushSetsTimer
  <2>2. CASE FlushTimer
    <3>1. CASE ready /\ FlushWhenReady(FALSE)
      BY <1>2, <3>1, FlushSetsTimer
    <3>2. CASE ~ready /\ armed' = (outbox # <<>>)
      BY <3>2
    <3> QED BY <2>2, <3>1, <3>2 DEF FlushTimer
  <2>3. ASSUME NEW i \in Send, SendingTimeout(i) PROVE Kept
    BY <2>3 DEF SendingTimeout, outboxVars
  <2>4. CASE EchoArrives \/ AckArrives \/ NackArrives \/ ErrorArrives
    BY <2>4 DEF EchoArrives, AckArrives, NackArrives, ErrorArrives, unviewed, outboxVars
  <2>5. CASE StatusArrives \/ UpdateArrives \/ PeerArrives
    BY <2>5 DEF StatusArrives, UpdateArrives, PeerArrives, unviewed, outboxVars
  <2>6. CASE LoadStarts \/ LoadReads \/ LoadArrives \/ LoadFails
    BY <2>6 DEF LoadStarts, LoadReads, LoadArrives, LoadFails, viewVars, outboxVars
  <2> QED BY <1>2, <2>1, <2>2, <2>3, <2>4, <2>5, <2>6 DEF TabStep
<1>3. ASSUME TypeOK, ServerStep PROVE Kept
  <2>1. ASSUME NEW i \in Send, Stores(i) \/ Answers(i) \/ Refuses(i) \/ ReportsDelivery(i)
        PROVE  Kept
    BY <2>1 DEF Stores, Answers, Refuses, ReportsDelivery, outboxVars
  <2>2. ASSUME NEW i \in Send, NEW s \in Tick, Confirms(i, s) \/ ConfirmsAgain(i, s)
        PROVE  Kept
    BY <2>2 DEF Confirms, ConfirmsAgain, outboxVars
  <2>3. CASE PeerWrites \/ Disconnect \/ Slows \/ LimitEnds
    BY <2>3 DEF PeerWrites, Disconnect, Slows, LimitEnds, outboxVars
  <2> QED BY <1>3, <2>1, <2>2, <2>3 DEF ServerStep
<1>4. TypeOK /\ [Next]_vars => [Kept]_vars
  BY <1>1, <1>2, <1>3 DEF Next
<1> QED BY <1>4, ViewTypeCorrect, PTL DEF Spec, TimerIsKept
=============================================================================
