--------------------------- MODULE TransportProofs ---------------------------
(***************************************************************************)
(* Theorems about the server's side of the transport.                      *)
(*                                                                         *)
(* OutboundQueue, one socket's queue, for every size of the queue, every   *)
(* number of overflows and every number of frames.                         *)
(*                                                                         *)
(* Connections: its types, that sessions and sockets agree, and that       *)
(* presence is justified, for any number of users, sessions and            *)
(* connections and any limit of sockets per session.                       *)
(***************************************************************************)
EXTENDS OutboundQueue, Connections, SequenceTheorems, FiniteSetTheorems, TLAPS

-----------------------------------------------------------------------------
(* The outbound queue *)

(* Sending the head of a queue that is not empty: what becomes of it.      *)
LEMMA SendHeadEffect ==
    ASSUME QueueTypeOK, NEW d \in Drain, NEW q \in Seq(Nat), NEW named,
           q # <<>>, SendHead(d, q, named)
    PROVE  /\ Head(q) = q[1] /\ Head(q) \in Nat
           /\ queue' \in Seq(Nat) /\ Len(queue') = Len(q) - 1
           /\ \A i \in 1..Len(queue') : queue'[i] = q[i + 1]
           /\ pending' = pending + 1
           /\ \E pc \in {"sent", "dropped", "marking"} : at' = [at EXCEPT ![d] = pc]
           /\ \/ wire' = Append(wire, Head(q)) /\ lost' = lost
              \/ wire' = wire /\ lost' = lost \cup {Head(q)}
           /\ at' \in [Drain -> LoopPc]
           /\ wire' \in Seq(Nat)
           /\ lost' \subseteq Nat
<1>1. Head(q) = q[1] /\ Head(q) \in Nat /\ Tail(q) \in Seq(Nat) /\ Len(Tail(q)) = Len(q) - 1
      /\ \A i \in 1..Len(Tail(q)) : Tail(q)[i] = q[i + 1]
  BY HeadTailProperties
<1>2. queue' = Tail(q) /\ pending' = pending + 1
  BY DEF SendHead
<1>3. /\ \/ wire' = Append(wire, Head(q)) /\ lost' = lost
         \/ wire' = wire /\ lost' = lost \cup {Head(q)}
      /\ \E pc \in {"sent", "dropped", "marking"} : at' = [at EXCEPT ![d] = pc]
  BY Zenon DEF SendHead
<1>4. at' \in [Drain -> LoopPc]
  BY <1>3 DEF QueueTypeOK, LoopPc
<1>5. wire \in Seq(Nat) /\ lost \subseteq Nat
  BY DEF QueueTypeOK
<1>6. Append(wire, Head(q)) \in Seq(Nat)
  BY <1>1, <1>5, AppendProperties
<1>7. wire' \in Seq(Nat) /\ lost' \subseteq Nat
  BY <1>1, <1>3, <1>5, <1>6
<1>8. QED
  BY <1>1, <1>2, <1>3, <1>4, <1>7

(* The queue with the frame sendMessage accepts.                           *)
LEMMA AdmitEffect ==
    ASSUME QueueTypeOK, NEW named \in BOOLEAN, Admit(named)
    PROVE  LET q == Append(queue, accepted + 1)
           IN  /\ q \in Seq(Nat) /\ q # <<>> /\ Len(q) = Len(queue) + 1 /\ Len(q) <= MaxQueue
               /\ \A i \in 1..Len(queue) : q[i] = queue[i]
               /\ q[Len(queue) + 1] = accepted + 1
               /\ accepted' = accepted + 1 /\ accepted' \in Nat
               /\ durable' \subseteq 1..accepted'
               /\ UNCHANGED <<present, open, slow>>
<1>1. queue \in Seq(Nat) /\ accepted + 1 \in Nat
  BY DEF QueueTypeOK
<1>2. Len(queue) \in Nat
  BY <1>1, LenProperties
<1>3. Len(queue) + 1 <= MaxQueue
  BY <1>2, QueueAssumption DEF Admit
<1>4. accepted' = accepted + 1 /\ durable' \subseteq 1..accepted'
  BY DEF Admit, QueueTypeOK
<1>5. UNCHANGED <<present, open, slow>>
  BY DEF Admit
<1>6. QED
  BY <1>1, <1>3, <1>4, <1>5, AppendProperties

-----------------------------------------------------------------------------
(* Every step keeps the types.                                             *)
LEMMA QueueTypeStep ==
    ASSUME QueueTypeOK, [QueueNext]_queueVars
    PROVE  QueueTypeOK'
<1> USE QueueAssumption, OverflowAssumption
<1>a. \A len \in Nat : Forgiven(len) \in 0..MaxOverflows
  BY DEF QueueTypeOK, Forgiven
<1>b. Len(queue) \in Nat
  BY LenProperties DEF QueueTypeOK
<1>c. Decremented \in Nat
  BY DEF QueueTypeOK, Decremented
<1>1. ASSUME NEW named \in BOOLEAN, AcceptQueued(named)
      PROVE  QueueTypeOK'
  <2>1. Admit(named) /\ queue' = Append(queue, accepted + 1)
        /\ UNCHANGED <<processing, overflows, pending, at, wire, lost>>
    BY <1>1 DEF AcceptQueued
  <2>2. QED
    BY <2>1, AdmitEffect DEF QueueTypeOK
<1>2. ASSUME NEW named \in BOOLEAN, AcceptAndDrain(named)
      PROVE  QueueTypeOK'
  <2> DEFINE q == Append(queue, accepted + 1)
  <2>1. /\ q \in Seq(Nat) /\ q # <<>> /\ Len(q) = Len(queue) + 1 /\ Len(q) <= MaxQueue
        /\ accepted' \in Nat /\ durable' \subseteq 1..accepted'
        /\ UNCHANGED <<present, open, slow>>
    BY <1>2, AdmitEffect DEF AcceptAndDrain
  <2>2. PICK d \in Drain : SendHead(d, q, durable')
    BY <1>2 DEF AcceptAndDrain
  <2>3. overflows' \in 0..MaxOverflows
    BY <1>2, <1>a, <1>b DEF AcceptAndDrain
  <2>4. processing' = TRUE
    BY <1>2 DEF AcceptAndDrain
  <2> HIDE DEF q
  <2>5. /\ queue' \in Seq(Nat) /\ Len(queue') = Len(q) - 1
        /\ pending' = pending + 1
        /\ at' \in [Drain -> LoopPc]
        /\ wire' \in Seq(Nat)
        /\ lost' \subseteq Nat
    BY <2>1, <2>2, SendHeadEffect
  <2>6. QED
    BY <1>b, <2>1, <2>3, <2>4, <2>5 DEF QueueTypeOK
<1>3. ASSUME NEW closes \in BOOLEAN, Refuse(closes)
      PROVE  QueueTypeOK'
  <2>1. open' \in BOOLEAN /\ present' \in BOOLEAN
    BY <1>3, Zenon DEF QueueTypeOK, Refuse
  <2>2. overflows' \in 0..MaxOverflows
    BY <1>3 DEF QueueTypeOK, Refuse
  <2>3. UNCHANGED <<queue, processing, pending, at, slow, histVars>>
    BY <1>3 DEF Refuse
  <2>4. QED
    BY <2>1, <2>2, <2>3 DEF QueueTypeOK, histVars
<1>4. ASSUME NEW d \in Drain, sendNextStops(d)
      PROVE  QueueTypeOK'
  <2>1. overflows' \in 0..MaxOverflows
    BY <1>4, <1>a, Zenon DEF QueueTypeOK, sendNextStops
  <2>2. processing' = FALSE /\ at' = [at EXCEPT ![d] = "idle"]
        /\ UNCHANGED <<queue, pending, present, open, slow, histVars>>
    BY <1>4 DEF sendNextStops
  <2>3. QED
    BY <2>1, <2>2 DEF QueueTypeOK, LoopPc, histVars
<1>5. ASSUME NEW d \in Drain, sendNext(d)
      PROVE  QueueTypeOK'
  <2>1. queue \in Seq(Nat) /\ queue # <<>> /\ SendHead(d, queue, durable)
    BY <1>5 DEF sendNext, QueueTypeOK
  <2>2. /\ queue' \in Seq(Nat) /\ Len(queue') = Len(queue) - 1
        /\ pending' = pending + 1
        /\ at' \in [Drain -> LoopPc]
        /\ wire' \in Seq(Nat)
        /\ lost' \subseteq Nat
    BY <2>1, SendHeadEffect
  <2>3. overflows' \in 0..MaxOverflows
    BY <1>5, <1>a, <1>b DEF sendNext
  <2>4. UNCHANGED <<processing, present, open, slow, accepted, durable>>
    BY <1>5 DEF sendNext
  <2>5. QED
    BY <1>b, <2>2, <2>3, <2>4 DEF QueueTypeOK
<1>6. ASSUME NEW d \in Drain, Sent(d)
      PROVE  QueueTypeOK'
  <2>1. pending' \in Nat
    BY <1>6, <1>c DEF Sent, QueueTypeOK
  <2>2. at' \in [Drain -> LoopPc]
    BY <1>6 DEF Sent, QueueTypeOK, LoopPc
  <2>3. UNCHANGED <<queue, processing, overflows, present, open, slow, histVars>>
    BY <1>6 DEF Sent
  <2>4. QED
    BY <2>1, <2>2, <2>3 DEF QueueTypeOK, histVars
<1>7. ASSUME NEW d \in Drain, Dropped(d)
      PROVE  QueueTypeOK'
  <2>1. pending' \in Nat
    BY <1>7, <1>c DEF Dropped, QueueTypeOK
  <2>2. at' \in [Drain -> LoopPc]
    BY <1>7 DEF Dropped, QueueTypeOK, LoopPc
  <2>3. processing' \in BOOLEAN
    BY <1>7, Zenon DEF Dropped, QueueTypeOK
  <2>4. UNCHANGED <<queue, overflows, present, open, slow, histVars>>
    BY <1>7 DEF Dropped
  <2>5. QED
    BY <2>1, <2>2, <2>3, <2>4 DEF QueueTypeOK, histVars
<1>8. CASE closeAbusiveConnection
  BY <1>8 DEF QueueTypeOK, closeAbusiveConnection, histVars
<1>9. CASE SlowDown \/ CatchUp \/ Disconnect
  BY <1>9 DEF QueueTypeOK, SlowDown, CatchUp, Disconnect, histVars
<1>10. CASE UNCHANGED queueVars
  BY <1>10 DEF QueueTypeOK, queueVars, histVars
<1>11. QED
  BY <1>1, <1>2, <1>3, <1>4, <1>5, <1>6, <1>7, <1>8, <1>9, <1>10 DEF QueueNext, Step

(* The types hold at the start.                                           *)
LEMMA QueueTypeInit == QueueInit => QueueTypeOK
<1>1. <<>> \in Seq(Nat) /\ Len(<<>>) = 0
  BY EmptySeq
<1>2. 0 <= MaxQueue /\ 0 \in 0..MaxOverflows /\ 0 \in Nat
  BY QueueAssumption, OverflowAssumption
<1>3. QED
  BY <1>1, <1>2 DEF QueueInit, QueueTypeOK, LoopPc

(* Type correctness of the queue, its loops and its histories: the queue   *)
(* never grows beyond MaxQueue (backpressure.js, queueMessage).            *)
THEOREM QueueTypeCorrect == QueueSpec => []QueueTypeOK
<1>1. QueueTypeOK /\ [QueueNext]_queueVars => QueueTypeOK'
  BY QueueTypeStep
<1>2. QED
  BY <1>1, QueueTypeInit, PTL DEF QueueSpec

-----------------------------------------------------------------------------
(* The flag keeps two drain loops apart.                                   *)
LEMMA DrainStep ==
    ASSUME QueueTypeOK, open => present, OneDrain, [QueueNext]_queueVars
    PROVE  OneDrain' /\ (open' => present')
<1>1. ASSUME NEW named \in BOOLEAN, AcceptQueued(named)
      PROVE  OneDrain' /\ (open' => present')
  BY <1>1 DEF AcceptQueued, Admit, OneDrain
<1>2. ASSUME NEW named \in BOOLEAN, AcceptAndDrain(named)
      PROVE  OneDrain' /\ (open' => present')
  <2> DEFINE q == Append(queue, accepted + 1)
  <2>1. /\ q \in Seq(Nat) /\ q # <<>> /\ open
        /\ UNCHANGED <<present, open, slow>>
    BY <1>2, AdmitEffect DEF AcceptAndDrain, Admit
  <2>2. PICK d \in Drain : SendHead(d, q, durable')
    BY <1>2 DEF AcceptAndDrain
  <2>3. PICK pc \in {"sent", "dropped", "marking"} : at' = [at EXCEPT ![d] = pc]
    BY <2>1, <2>2, SendHeadEffect
  <2>4. \A e \in Drain : at[e] = "idle"
    BY <1>2, <2>1 DEF OneDrain, AcceptAndDrain
  <2>5. at'[d] = pc /\ \A e \in Drain : e # d => at'[e] = "idle"
    BY <2>3, <2>4 DEF QueueTypeOK
  <2>6. processing'
    BY <1>2 DEF AcceptAndDrain
  <2>7. QED
    BY <2>1, <2>5, <2>6 DEF OneDrain
<1>3. ASSUME NEW closes \in BOOLEAN, Refuse(closes)
      PROVE  OneDrain' /\ (open' => present')
  <2>1. UNCHANGED <<processing, at>>
    BY <1>3 DEF Refuse
  <2>2. (open' => present') /\ (present' => present)
    BY <1>3, Zenon DEF Refuse
  <2>3. QED
    BY <2>1, <2>2 DEF OneDrain
<1>4. ASSUME NEW d \in Drain, sendNextStops(d)
      PROVE  OneDrain' /\ (open' => present')
  <2>1. at[d] = "next" /\ processing' = FALSE /\ at' = [at EXCEPT ![d] = "idle"]
        /\ UNCHANGED <<present, open>>
    BY <1>4 DEF sendNextStops
  <2>2. \A e \in Drain : at'[e] = "idle"
    BY <2>1 DEF OneDrain, QueueTypeOK
  <2>3. QED
    BY <2>1, <2>2 DEF OneDrain
<1>5. ASSUME NEW d \in Drain, sendNext(d)
      PROVE  OneDrain' /\ (open' => present')
  <2>1. queue \in Seq(Nat) /\ queue # <<>> /\ SendHead(d, queue, durable)
        /\ at[d] = "next" /\ UNCHANGED <<processing, present, open>>
    BY <1>5 DEF sendNext, QueueTypeOK
  <2>2. PICK pc \in {"sent", "dropped", "marking"} : at' = [at EXCEPT ![d] = pc]
    BY <2>1, SendHeadEffect
  <2>3. at'[d] = pc /\ \A e \in Drain : e # d => at'[e] = "idle"
    BY <2>1, <2>2 DEF OneDrain, QueueTypeOK
  <2>4. QED
    BY <2>1, <2>3 DEF OneDrain
<1>6. ASSUME NEW d \in Drain, Sent(d)
      PROVE  OneDrain' /\ (open' => present')
  <2>1. at[d] = "sent" /\ UNCHANGED <<processing, present, open>>
        /\ at' = [at EXCEPT ![d] = IF present THEN "next" ELSE "idle"]
    BY <1>6 DEF Sent
  <2>2. \A e \in Drain : e # d => at'[e] = "idle"
    BY <2>1 DEF OneDrain, QueueTypeOK
  <2>3. present => at'[d] = "next"
    BY <2>1 DEF QueueTypeOK
  <2>4. QED
    BY <2>1, <2>2, <2>3 DEF OneDrain
<1>7. ASSUME NEW d \in Drain, Dropped(d)
      PROVE  OneDrain' /\ (open' => present')
  <2>1. at[d] # "idle" /\ at' = [at EXCEPT ![d] = "idle"] /\ UNCHANGED <<present, open>>
    BY <1>7 DEF Dropped
  <2>2. present => processing' = FALSE
    BY <1>7, Zenon DEF Dropped
  <2>3. \A e \in Drain : at'[e] = "idle"
    BY <2>1 DEF OneDrain, QueueTypeOK
  <2>4. QED
    BY <2>1, <2>2, <2>3 DEF OneDrain
<1>8. CASE closeAbusiveConnection
  BY <1>8 DEF closeAbusiveConnection, OneDrain
<1>9. CASE SlowDown \/ CatchUp \/ Disconnect
  BY <1>9 DEF SlowDown, CatchUp, Disconnect, OneDrain
<1>10. CASE UNCHANGED queueVars
  BY <1>10 DEF queueVars, OneDrain
<1>11. QED
  BY <1>1, <1>2, <1>3, <1>4, <1>5, <1>6, <1>7, <1>8, <1>9, <1>10 DEF QueueNext, Step

(* Pending sends are counted exactly.                                      *)
LEMMA PendingStep ==
    ASSUME QueueTypeOK, open => present, OneDrain, PendingIsExact, [QueueNext]_queueVars
    PROVE  PendingIsExact'
<1> DEFINE Out(d) == at[d] \in {"sent", "dropped", "marking"}
<1>0. \A d, e \in Drain : at[d] # "idle" /\ e # d => at[e] = "idle"
  BY DEF OneDrain
<1>1. ASSUME NEW named \in BOOLEAN, AcceptQueued(named)
      PROVE  PendingIsExact'
  BY <1>1 DEF AcceptQueued, Admit, PendingIsExact
<1>2. ASSUME NEW named \in BOOLEAN, AcceptAndDrain(named)
      PROVE  PendingIsExact'
  <2> DEFINE q == Append(queue, accepted + 1)
  <2>1. q \in Seq(Nat) /\ q # <<>> /\ open
    BY <1>2, AdmitEffect DEF AcceptAndDrain, Admit
  <2>2. PICK d \in Drain : SendHead(d, q, durable')
    BY <1>2 DEF AcceptAndDrain
  <2>3. PICK pc \in {"sent", "dropped", "marking"} : at' = [at EXCEPT ![d] = pc]
    BY <2>1, <2>2, SendHeadEffect
  <2>4. pending' = pending + 1
    BY <2>2 DEF SendHead
  <2>5. \A e \in Drain : at[e] = "idle"
    BY <1>2, <2>1 DEF OneDrain, AcceptAndDrain
  <2>6. pending = 0
    BY <2>1, <2>5 DEF PendingIsExact
  <2>7. at'[d] = pc
    BY <2>3 DEF QueueTypeOK
  <2>8. QED
    BY <2>4, <2>6, <2>7 DEF PendingIsExact
<1>3. ASSUME NEW closes \in BOOLEAN, Refuse(closes)
      PROVE  PendingIsExact'
  <2>1. UNCHANGED <<pending, at>>
    BY <1>3 DEF Refuse
  <2>2. present' => present
    BY <1>3, Zenon DEF Refuse
  <2>3. QED
    BY <2>1, <2>2 DEF PendingIsExact
<1>4. ASSUME NEW d \in Drain, sendNextStops(d)
      PROVE  PendingIsExact'
  <2>1. at[d] = "next" /\ at' = [at EXCEPT ![d] = "idle"] /\ UNCHANGED <<present, pending>>
    BY <1>4 DEF sendNextStops
  <2>2. \A e \in Drain : ~Out(e) /\ ~Out(e)'
    BY <1>0, <2>1 DEF QueueTypeOK
  <2>3. QED
    BY <2>1, <2>2 DEF PendingIsExact
<1>5. ASSUME NEW d \in Drain, sendNext(d)
      PROVE  PendingIsExact'
  <2>1. queue \in Seq(Nat) /\ queue # <<>> /\ SendHead(d, queue, durable)
        /\ at[d] = "next" /\ UNCHANGED present
    BY <1>5 DEF sendNext, QueueTypeOK
  <2>2. PICK pc \in {"sent", "dropped", "marking"} : at' = [at EXCEPT ![d] = pc]
    BY <2>1, SendHeadEffect
  <2>3. pending' = pending + 1
    BY <2>1 DEF SendHead
  <2>4. \A e \in Drain : ~Out(e)
    BY <1>0, <2>1
  <2>5. present => pending = 0
    BY <2>4 DEF PendingIsExact
  <2>6. Out(d)'
    BY <2>2 DEF QueueTypeOK
  <2>7. QED
    BY <2>1, <2>3, <2>5, <2>6 DEF PendingIsExact
<1>6. ASSUME NEW d \in Drain, Sent(d) \/ Dropped(d)
      PROVE  PendingIsExact'
  <2>1. Out(d) /\ UNCHANGED present
    BY <1>6 DEF Sent, Dropped
  <2>2. present => pending' = Decremented
    BY <1>6 DEF Sent, Dropped
  <2>3. present => pending = 1
    BY <2>1 DEF PendingIsExact
  <2>4. \A e \in Drain : ~Out(e)'
    BY <1>0, <1>6 DEF Sent, Dropped, QueueTypeOK
  <2>5. QED
    BY <2>1, <2>2, <2>3, <2>4 DEF PendingIsExact, Decremented
<1>7. CASE closeAbusiveConnection
  BY <1>7 DEF closeAbusiveConnection, PendingIsExact
<1>8. CASE SlowDown \/ CatchUp \/ Disconnect
  BY <1>8 DEF SlowDown, CatchUp, Disconnect, PendingIsExact
<1>9. CASE UNCHANGED queueVars
  BY <1>9 DEF queueVars, PendingIsExact
<1>10. QED
  BY <1>1, <1>2, <1>3, <1>4, <1>5, <1>6, <1>7, <1>8, <1>9 DEF QueueNext, Step

-----------------------------------------------------------------------------
(* Appending a frame adds it to the elements.                              *)
LEMMA ElementsOfAppend ==
    ASSUME NEW s \in Seq(Nat), NEW x \in Nat
    PROVE  Elements(Append(s, x)) = Elements(s) \cup {x}
<1> DEFINE t == Append(s, x)
<1>1. /\ DOMAIN s = 1..Len(s) /\ Len(s) \in Nat
      /\ DOMAIN t = 1..(Len(s) + 1)
      /\ \A i \in 1..Len(s) : t[i] = s[i]
      /\ t[Len(s) + 1] = x
  BY AppendProperties, LenProperties
<1> HIDE DEF t
<1>2. ASSUME NEW y \in Elements(t) PROVE y \in Elements(s) \cup {x}
  <2>1. PICK i \in 1..(Len(s) + 1) : y = t[i]
    BY <1>1, <1>2 DEF Elements
  <2>2. CASE i = Len(s) + 1
    BY <1>1, <2>1, <2>2
  <2>3. CASE i # Len(s) + 1
    <3>1. i \in 1..Len(s)
      BY <1>1, <2>1, <2>3
    <3>2. QED
      BY <1>1, <2>1, <3>1 DEF Elements
  <2>4. QED
    BY <2>2, <2>3
<1>3. ASSUME NEW y \in Elements(s) \cup {x} PROVE y \in Elements(t)
  <2>1. CASE y = x
    <3>1. Len(s) + 1 \in DOMAIN t
      BY <1>1
    <3>2. QED
      BY <1>1, <2>1, <3>1 DEF Elements
  <2>2. CASE y \in Elements(s)
    <3>1. PICK i \in 1..Len(s) : y = s[i]
      BY <1>1, <2>2 DEF Elements
    <3>2. i \in DOMAIN t
      BY <1>1, <3>1
    <3>3. QED
      BY <1>1, <3>1, <3>2 DEF Elements
  <2>3. QED
    BY <1>3, <2>1, <2>2
<1>4. QED
  BY <1>2, <1>3 DEF t

(* Sending the head of a queue that holds the frames from base + 1 on.     *)
LEMMA SendHeadInOrder ==
    ASSUME QueueTypeOK, InOrder, NEW d \in Drain, NEW q \in Seq(Nat), NEW named,
           q # <<>>, SendHead(d, q, named),
           \A i \in 1..Len(q) : q[i] = taken + i,
           accepted' = taken + Len(q)
    PROVE  InOrder'
<1> DEFINE x == Head(q)
<1>1. /\ x = q[1] /\ x \in Nat
      /\ queue' \in Seq(Nat) /\ Len(queue') = Len(q) - 1
      /\ \A i \in 1..Len(queue') : queue'[i] = q[i + 1]
      /\ \/ wire' = Append(wire, x) /\ lost' = lost
         \/ wire' = wire /\ lost' = lost \cup {x}
  BY SendHeadEffect
<1> HIDE DEF x
<1>2. Len(q) \in Nat \ {0} /\ DOMAIN queue' = 1..Len(queue') /\ Len(queue) \in Nat
  BY <1>1, LenProperties, EmptySeq DEF QueueTypeOK
<1>3. taken \in Nat /\ accepted \in Nat
  BY <1>2 DEF taken, QueueTypeOK, InOrder
<1>4. x = taken + 1
  BY <1>1, <1>2
<1>5. taken' = taken + 1 /\ taken' >= 0
  <2>1. taken' = accepted' - Len(queue')
    BY DEF taken
  <2>2. QED
    BY <1>1, <1>2, <1>3, <2>1
<1>6. \A i \in DOMAIN queue' : queue'[i] = taken' + i
  <2> SUFFICES ASSUME NEW i \in 1..Len(queue') PROVE queue'[i] = taken' + i
    BY <1>2
  <2>1. i \in Nat /\ i + 1 \in 1..Len(q)
    BY <1>1, <1>2
  <2>2. queue'[i] = taken + (i + 1)
    BY <1>1, <2>1
  <2>3. QED
    BY <1>3, <1>5, <2>1, <2>2
<1>7. wire \in Seq(Nat) /\ DOMAIN wire = 1..Len(wire) /\ Len(wire) \in Nat
  BY LenProperties DEF QueueTypeOK
<1>8. x \notin Elements(wire) \cup lost
  BY <1>3, <1>4 DEF InOrder
<1>9. Elements(wire) \cup lost \cup {x} = 1..taken'
  <2>1. Elements(wire) \cup lost = 1..taken
    BY DEF InOrder
  <2>2. 1..taken' = (1..taken) \cup {x}
    BY <1>3, <1>4, <1>5
  <2>3. QED
    BY <2>1, <2>2
<1>10. CASE wire' = Append(wire, x) /\ lost' = lost
  <2>1. Elements(wire') = Elements(wire) \cup {x}
    BY <1>1, <1>7, <1>10, ElementsOfAppend
  <2>2. Elements(wire') \cap lost' = {} /\ Elements(wire') \cup lost' = 1..taken'
    BY <1>8, <1>9, <1>10, <2>1 DEF InOrder
  <2>3. /\ DOMAIN wire' = 1..(Len(wire) + 1)
        /\ \A i \in 1..Len(wire) : wire'[i] = wire[i]
        /\ wire'[Len(wire) + 1] = x
    BY <1>1, <1>7, <1>10, AppendProperties, LenProperties
  <2>4. \A i \in 1..Len(wire) : wire[i] < x
    <3> SUFFICES ASSUME NEW i \in 1..Len(wire) PROVE wire[i] < x
      OBVIOUS
    <3>1. wire[i] \in 1..taken
      BY <1>7 DEF InOrder, Elements
    <3>2. QED
      BY <1>3, <1>4, <3>1
  <2>5. ASSUME NEW i \in DOMAIN wire', NEW j \in DOMAIN wire', i < j
        PROVE  wire'[i] < wire'[j]
    <3>1. i \in 1..Len(wire)
      BY <1>7, <2>3, <2>5
    <3>2. CASE j \in 1..Len(wire)
      BY <1>7, <2>3, <2>5, <3>1, <3>2 DEF InOrder
    <3>3. CASE j = Len(wire) + 1
      BY <2>3, <2>4, <3>1, <3>3
    <3>4. QED
      BY <1>7, <2>3, <3>2, <3>3
  <2>6. QED
    BY <1>5, <1>6, <2>2, <2>5 DEF InOrder
<1>11. CASE wire' = wire /\ lost' = lost \cup {x}
  <2>1. Elements(wire') = Elements(wire)
    BY <1>11
  <2>2. Elements(wire') \cap lost' = {} /\ Elements(wire') \cup lost' = 1..taken'
    BY <1>8, <1>9, <1>11, <2>1 DEF InOrder
  <2>3. QED
    BY <1>5, <1>6, <1>11, <2>2 DEF InOrder
<1>12. QED
  BY <1>1, <1>10, <1>11

(* Frames stay in order.                                                   *)
LEMMA OrderStep ==
    ASSUME QueueTypeOK, InOrder, [QueueNext]_queueVars
    PROVE  InOrder'
<1>0. queue \in Seq(Nat) /\ Len(queue) \in Nat /\ DOMAIN queue = 1..Len(queue) /\ accepted \in Nat
  BY LenProperties DEF QueueTypeOK
<1>1. ASSUME NEW named \in BOOLEAN, Admit(named)
      PROVE  LET q == Append(queue, accepted + 1)
             IN  /\ q \in Seq(Nat) /\ q # <<>>
                 /\ DOMAIN q = 1..Len(q)
                 /\ \A i \in 1..Len(q) : q[i] = taken + i
                 /\ accepted' = taken + Len(q)
                 /\ accepted' - Len(q) = taken
  <2> DEFINE q == Append(queue, accepted + 1)
  <2>1. /\ q \in Seq(Nat) /\ q # <<>> /\ Len(q) = Len(queue) + 1
        /\ \A i \in 1..Len(queue) : q[i] = queue[i]
        /\ q[Len(queue) + 1] = accepted + 1
        /\ accepted' = accepted + 1
    BY <1>1, AdmitEffect
  <2>2. DOMAIN q = 1..Len(q)
    BY <2>1, LenProperties
  <2> HIDE DEF q
  <2>3. accepted' = taken + Len(q) /\ accepted' - Len(q) = taken
        /\ q[Len(queue) + 1] = taken + (Len(queue) + 1)
    BY <1>0, <2>1 DEF taken
  <2>4. ASSUME NEW i \in 1..Len(q) PROVE q[i] = taken + i
    <3>1. CASE i \in 1..Len(queue)
      BY <1>0, <2>1, <3>1 DEF InOrder
    <3>2. CASE i = Len(queue) + 1
      BY <2>3, <3>2
    <3>3. QED
      BY <1>0, <2>1, <3>1, <3>2
  <2>5. QED
    BY <2>1, <2>2, <2>3, <2>4 DEF q
<1>2. ASSUME NEW named \in BOOLEAN, AcceptQueued(named)
      PROVE  InOrder'
  <2> DEFINE q == Append(queue, accepted + 1)
  <2>1. Admit(named) /\ queue' = q /\ UNCHANGED <<wire, lost>>
    BY <1>2 DEF AcceptQueued
  <2>2. /\ DOMAIN q = 1..Len(q)
        /\ \A i \in 1..Len(q) : q[i] = taken + i
        /\ accepted' - Len(q) = taken
    BY <1>1, <2>1
  <2> HIDE DEF q
  <2>3. taken' = taken
    BY <2>1, <2>2 DEF taken
  <2>4. QED
    BY <2>1, <2>2, <2>3 DEF InOrder, Elements
<1>3. ASSUME NEW named \in BOOLEAN, AcceptAndDrain(named)
      PROVE  InOrder'
  <2> DEFINE q == Append(queue, accepted + 1)
  <2>1. Admit(named)
    BY <1>3 DEF AcceptAndDrain
  <2>2. PICK d \in Drain : SendHead(d, q, durable')
    BY <1>3 DEF AcceptAndDrain
  <2>3. /\ q \in Seq(Nat) /\ q # <<>>
        /\ \A i \in 1..Len(q) : q[i] = taken + i
        /\ accepted' = taken + Len(q)
    BY <1>1, <2>1
  <2> HIDE DEF q
  <2>4. QED
    BY <2>2, <2>3, SendHeadInOrder
<1>4. ASSUME NEW d \in Drain, sendNext(d)
      PROVE  InOrder'
  <2>1. queue # <<>> /\ SendHead(d, queue, durable) /\ accepted' = accepted
    BY <1>4 DEF sendNext
  <2>2. \A i \in 1..Len(queue) : queue[i] = taken + i
    BY <1>0 DEF InOrder
  <2>3. accepted' = taken + Len(queue)
    BY <1>0, <2>1 DEF taken
  <2>4. QED
    BY <1>0, <2>1, <2>2, <2>3, SendHeadInOrder
<1>5. ASSUME UNCHANGED <<queue, accepted, wire, lost>>
      PROVE  InOrder'
  BY <1>5 DEF InOrder, taken, Elements
<1>6. ASSUME NEW closes \in BOOLEAN, Refuse(closes)
      PROVE  InOrder'
  BY <1>5, <1>6 DEF Refuse, histVars
<1>7. ASSUME NEW d \in Drain, sendNextStops(d) \/ Sent(d) \/ Dropped(d)
      PROVE  InOrder'
  BY <1>5, <1>7 DEF sendNextStops, Sent, Dropped, histVars
<1>8. CASE closeAbusiveConnection \/ SlowDown \/ CatchUp \/ Disconnect
  BY <1>5, <1>8 DEF closeAbusiveConnection, SlowDown, CatchUp, Disconnect, histVars
<1>9. CASE UNCHANGED queueVars
  BY <1>5, <1>9 DEF queueVars, histVars
<1>10. QED
  BY <1>2, <1>3, <1>4, <1>6, <1>7, <1>8, <1>9 DEF QueueNext, Step

-----------------------------------------------------------------------------
(* The conjunction of the types, the flag, the count and the order is      *)
(* inductive.                                                              *)
THEOREM QueueInvariance == QueueSpec => []QueueIInv
<1>1. QueueInit => QueueIInv
  <2> SUFFICES ASSUME QueueInit PROVE QueueIInv
    OBVIOUS
  <2>1. QueueTypeOK
    BY QueueTypeInit
  <2>2. Len(<<>>) = 0 /\ DOMAIN <<>> = {}
    BY EmptySeq
  <2>3. OneDrain /\ PendingIsExact /\ (open => present)
    BY DEF QueueInit, OneDrain, PendingIsExact
  <2>4. queue = <<>> /\ wire = <<>> /\ lost = {} /\ accepted = 0
    BY DEF QueueInit
  <2>5. taken = 0 /\ Elements(wire) = {}
    <3>1. DOMAIN wire = {}
      BY <2>2, <2>4
    <3>2. Elements(wire) = {}
      BY <3>1, Zenon DEF Elements
    <3>3. Len(queue) = 0
      BY <2>2, <2>4, Zenon
    <3>4. accepted = 0
      BY <2>4
    <3>5. taken = 0
      BY <3>3, <3>4 DEF taken
    <3>6. QED
      BY <3>2, <3>5
  <2>6. InOrder
    BY <2>2, <2>4, <2>5 DEF InOrder
  <2>7. QED
    BY <2>1, <2>3, <2>6 DEF QueueIInv
<1>2. QueueIInv /\ [QueueNext]_queueVars => QueueIInv'
  BY QueueTypeStep, DrainStep, PendingStep, OrderStep DEF QueueIInv
<1>3. QED
  BY <1>1, <1>2, PTL DEF QueueSpec

(* processQueue's flag admits one drain loop at a time.                    *)
THEOREM DrainsAreExclusive == QueueSpec => []OneDrain
<1>1. QueueIInv => OneDrain
  BY DEF QueueIInv
<1>2. QED
  BY <1>1, QueueInvariance, PTL

(* incrementPendingSend and decrementPendingSend balance, so the threshold *)
(* on pending sends is never what stops a queue.                           *)
THEOREM PendingSendsAreExact == QueueSpec => []PendingIsExact
<1>1. QueueIInv => PendingIsExact
  BY DEF QueueIInv
<1>2. QED
  BY <1>1, QueueInvariance, PTL

(* Frames leave in the order they were accepted, and none is duplicated or *)
(* taken from the queue without being sent or counted as dropped.          *)
THEOREM FramesStayInOrder == QueueSpec => []InOrder
<1>1. QueueIInv => InOrder
  BY DEF QueueIInv
<1>2. QED
  BY <1>1, QueueInvariance, PTL

-----------------------------------------------------------------------------
(* While backpressure is clear and stays so, no step drops a frame or sets *)
(* out to.                                                                 *)
LEMMA ClearStep ==
    ASSUME QueueIInv, Clear, KeepsUp', [QueueNext]_queueVars
    PROVE  Clear' /\ lost' = lost
<1>0. ~slow /\ at \in [Drain -> LoopPc]
  BY DEF QueueIInv, Clear, KeepsUp, QueueTypeOK
<1>1. ASSUME NEW d \in Drain, NEW q, NEW named, SendHead(d, q, named)
      PROVE  Clear' /\ lost' = lost
  <2>1. at' = [at EXCEPT ![d] = "sent"] /\ lost' = lost
    BY <1>0, <1>1, Zenon DEF SendHead
  <2> QED BY <1>0, <2>1 DEF Clear
<1>2. ASSUME NEW named \in BOOLEAN, AcceptQueued(named) \/ AcceptAndDrain(named)
      PROVE  Clear' /\ lost' = lost
  BY <1>1, <1>2 DEF AcceptQueued, AcceptAndDrain, Clear
<1>3. ASSUME NEW closes \in BOOLEAN, Refuse(closes)
      PROVE  Clear' /\ lost' = lost
  BY <1>3 DEF Refuse, histVars, Clear
<1>4. ASSUME NEW d \in Drain, Step(d)
      PROVE  Clear' /\ lost' = lost
  <2>1. CASE sendNext(d)
    BY <1>1, <2>1 DEF sendNext
  <2>2. CASE sendNextStops(d) \/ Sent(d)
    BY <1>0, <2>2 DEF sendNextStops, Sent, histVars, Clear
  <2>3. CASE Dropped(d)
    BY <2>3 DEF Dropped, Clear
  <2> QED BY <1>4, <2>1, <2>2, <2>3 DEF Step
<1>5. CASE closeAbusiveConnection \/ SlowDown \/ CatchUp \/ Disconnect \/ UNCHANGED queueVars
  BY <1>5 DEF closeAbusiveConnection, SlowDown, CatchUp, Disconnect, queueVars, histVars, Clear
<1> QED BY <1>2, <1>3, <1>4, <1>5 DEF QueueNext

(* All that time a drain that is at work stays at work until no frame      *)
(* waits, and an accepted frame finds one at work or starts it.            *)
LEMMA AttendedStep ==
    ASSUME QueueIInv, Clear, KeepsUp', [QueueNext]_queueVars,
           Attended \/ accepted' # accepted
    PROVE  Attended'
<1> USE QueueAssumption, ThresholdAssumption, DrainAssumption
<1>0. /\ QueueTypeOK /\ OneDrain /\ PendingIsExact /\ (open => present)
      /\ ~slow /\ Len(queue) \in Nat /\ Len(queue) < MaxQueue /\ Len(queue') < MaxQueue
      /\ queue \in Seq(Nat) /\ at \in [Drain -> LoopPc]
  BY DEF QueueIInv, Clear, KeepsUp, QueueTypeOK
<1>1. ASSUME NEW d \in Drain, NEW q, NEW named, SendHead(d, q, named)
      PROVE  Attended'
  <2>1. at' = [at EXCEPT ![d] = "sent"]
    BY <1>0, <1>1, Zenon DEF SendHead
  <2> QED BY <1>0, <2>1 DEF Attended
<1>2. ASSUME NEW named \in BOOLEAN, AcceptQueued(named)
      PROVE  Attended'
  <2>1. queue' = Append(queue, accepted + 1) /\ UNCHANGED <<open, at, processing, present>>
        /\ open
    BY <1>2 DEF AcceptQueued, Admit
  <2>2. Len(queue) + 1 < MaxQueue
    BY <1>0, <2>1, AppendProperties DEF QueueTypeOK
  <2>3. CASE processing
    BY <1>0, <2>1, <2>3 DEF Attended, OneDrain
  <2>4. CASE MayBlock(Len(queue) + 1)
    <3>1. pending >= Threshold
      BY <1>0, <2>2, <2>4 DEF MayBlock, MayPass, QueueTypeOK
    <3>2. \E d \in Drain : at[d] # "idle"
      BY <1>0, <2>1, <3>1 DEF PendingIsExact
    <3> QED BY <2>1, <3>2 DEF Attended
  <2> QED BY <1>2, <2>3, <2>4 DEF AcceptQueued
<1>3. ASSUME NEW named \in BOOLEAN, AcceptAndDrain(named)
      PROVE  Attended'
  BY <1>1, <1>3 DEF AcceptAndDrain
<1>4. CASE UNCHANGED accepted
  <2>0. Attended
    BY <1>4
  <2>1. ASSUME NEW closes \in BOOLEAN, Refuse(closes)
        PROVE  Attended'
    BY <2>0, <2>1 DEF Refuse, Attended
  <2>2. ASSUME NEW d \in Drain, sendNextStops(d)
        PROVE  Attended'
    <3>1. /\ at[d] = "next" /\ at' = [at EXCEPT ![d] = "idle"]
          /\ UNCHANGED <<queue, open>>
      BY <2>2 DEF sendNextStops
    <3>2. present => pending = 0
      BY <1>0, <3>1 DEF OneDrain, PendingIsExact
    <3>3. open => MayPass(Len(queue)) /\ ~slow
      BY <1>0, <3>2 DEF MayPass
    <3>4. open => queue = <<>>
      BY <2>2, <3>3 DEF sendNextStops, MayBlock
    <3> QED BY <3>1, <3>4 DEF Attended
  <2>3. ASSUME NEW d \in Drain, sendNext(d)
        PROVE  Attended'
    BY <1>1, <2>3 DEF sendNext
  <2>4. ASSUME NEW d \in Drain, Sent(d)
        PROVE  Attended'
    <3>1. at' = [at EXCEPT ![d] = IF present THEN "next" ELSE "idle"]
          /\ UNCHANGED <<queue, open>>
      BY <2>4 DEF Sent
    <3> QED BY <1>0, <2>0, <3>1 DEF Attended
  <2>5. ASSUME NEW d \in Drain, Dropped(d)
        PROVE  Attended'
    BY <2>5 DEF Dropped, Clear
  <2>6. CASE closeAbusiveConnection \/ SlowDown \/ CatchUp \/ Disconnect \/ UNCHANGED queueVars
    BY <2>0, <2>6 DEF closeAbusiveConnection, SlowDown, CatchUp, Disconnect, queueVars, Attended
  <2>7. ASSUME NEW named \in BOOLEAN, AcceptQueued(named) \/ AcceptAndDrain(named)
        PROVE  Attended'
    BY <1>2, <1>3, <2>7
  <2> QED BY <2>1, <2>2, <2>3, <2>4, <2>5, <2>6, <2>7 DEF QueueNext, Step
<1>5. CASE ~UNCHANGED accepted
  BY <1>2, <1>3, <1>5 DEF QueueNext, Step, Refuse, sendNextStops, sendNext, Sent, Dropped,
     closeAbusiveConnection, SlowDown, CatchUp, Disconnect, queueVars, histVars
<1> QED BY <1>4, <1>5

(* As long as the peer keeps up and the queue has room, a drain is at work *)
(* whenever a frame waits on an open socket, and no frame is lost: the     *)
(* safety half of SentToFastPeer.                                          *)
THEOREM FastPeersAreServed == QueueSpec => ServedWhileFast
<1> DEFINE Served == NothingWaits /\ \A d \in Drain : at[d] \notin {"dropped", "marking"}
<1>1. QueueInit => Served
  BY DEF QueueInit, Attended, NothingWaits
<1>2. QueueIInv /\ Served /\ KeepsUp /\ KeepsUp' /\ [QueueNext]_queueVars => Served'
  <2> SUFFICES ASSUME QueueIInv, Served, KeepsUp, KeepsUp', [QueueNext]_queueVars
               PROVE  Served'
    OBVIOUS
  <2>1. Clear /\ Attended /\ lost = {}
    BY DEF Clear, NothingWaits
  <2>2. Clear' /\ lost' = {} /\ Attended'
    BY <2>1, ClearStep, AttendedStep
  <2> QED BY <2>2 DEF Clear, NothingWaits
<1>3. Served => NothingWaits
  OBVIOUS
<1> HIDE DEF Served
<1> QED BY <1>1, <1>2, <1>3, QueueInvariance, PTL DEF QueueSpec, ServedWhileFast

(* A stopped queue recovers with the next frame: once backpressure is      *)
(* clear and no drop is under way, an accepted frame has a drain at work   *)
(* (one runs, or it starts one), and as long as backpressure stays clear   *)
(* that drain neither drops a frame nor stops in front of one: the safety  *)
(* half of NextFrameRestarts.                                              *)
THEOREM NextFrameIsAttended == QueueSpec => AcceptAttends /\ StaysAttended
<1>1. QueueIInv /\ [QueueNext]_queueVars
         => [Clear /\ KeepsUp' /\ accepted' # accepted => Attended']_queueVars
  BY AttendedStep
<1>2. QueueIInv /\ Clear /\ Attended /\ KeepsUp' /\ [QueueNext]_queueVars
         => Clear' /\ Attended'
  BY ClearStep, AttendedStep
<1> QED BY <1>1, <1>2, QueueInvariance, PTL DEF QueueSpec, AcceptAttends, StaysAttended

-----------------------------------------------------------------------------
(* Connections, sessions and presence *)

USE UserAssumption, SidAssumption, MaxAssumption, BoundAssumption

-----------------------------------------------------------------------------
(* The sockets of a session are finitely many: a session that loses one,   *)
(* or gains one and loses another, does not grow.                          *)
LEMMA SomeSockets ==
  ASSUME NEW S \in SUBSET Socket
  PROVE  IsFiniteSet(S) /\ Cardinality(S) \in Nat
BY FS_Interval, FS_Subset, FS_CardinalityType, 1 \in Int, MaxConnections \in Int DEF Socket

LEMMA FewerSockets ==
  ASSUME NEW S \in SUBSET Socket, NEW T \in SUBSET S
  PROVE  /\ Cardinality(T) \in Nat
         /\ Cardinality(S) <= MaxSockets => Cardinality(T) <= MaxSockets
<1>1. T \in SUBSET Socket
  OBVIOUS
<1>2. Cardinality(T) <= Cardinality(S)
  BY SomeSockets, FS_Subset
<1> QED BY <1>1, <1>2, SomeSockets

LEMMA ExchangedSockets ==
  ASSUME NEW S \in SUBSET Socket, Cardinality(S) <= MaxSockets,
         NEW w \in Socket, NEW o \in S \cup {w}
  PROVE  Cardinality((S \cup {w}) \ {o}) <= MaxSockets
<1>1. /\ IsFiniteSet(S) /\ Cardinality(S) \in Nat
      /\ IsFiniteSet(S \cup {w}) /\ Cardinality(S \cup {w}) \in Nat
  BY SomeSockets
<1>2. Cardinality(S \cup {w}) <= Cardinality(S) + 1
  BY <1>1, FS_AddElement
<1>3. Cardinality((S \cup {w}) \ {o}) = Cardinality(S \cup {w}) - 1
  BY <1>1, FS_RemoveElement
<1> QED BY <1>1, <1>2, <1>3

-----------------------------------------------------------------------------
(* Types *)

LEMMA MarkOfflineType ==
  ASSUME TypeOK, NEW w \in Socket, sid[w] \in Sid, markOffline(w)
  PROVE  sockets' \in [Sid -> SUBSET Socket] /\ primary' \in [Sid -> Socket \cup {NoSocket}]
BY DEF TypeOK, markOffline

LEMMA TypeStep ==
  ASSUME TypeOK, [Next]_vars
  PROVE  TypeOK'
<1>1. ASSUME NEW w \in Socket, NEW s \in Sid, register(w, s)
      PROVE  TypeOK'
  <2> DEFINE all    == sockets[s] \cup {w}
             opened == [ready EXCEPT ![w] = IF phase = "serving" THEN "open" ELSE "closing"]
  <2>1. UserOf[s] \in User /\ all \in SUBSET Socket
    BY DEF TypeOK
  <2>2. /\ opened \in [Socket -> {"none", "open", "closing", "closed"}]
        /\ opened[w] # "none"
        /\ \A k \in Socket : k # w => opened[k] = ready[k]
    BY DEF TypeOK
  <2>3. /\ presence' \in [User -> {"none", "online", "offline"}] /\ timers' \subseteq User
        /\ sid' = [sid EXCEPT ![w] = s] /\ stored' \subseteq Sid /\ phase' = phase
    BY <1>1, <2>1 DEF register, setSocketSession, onConnect, TypeOK
  <2>4. CASE /\ ready' = opened
             /\ known' = known \cup {w}
             /\ sockets' = [sockets EXCEPT ![s] = all]
             /\ primary' = IF primary[s] = NoSocket THEN [primary EXCEPT ![s] = w] ELSE primary
    <3> HIDE DEF all, opened
    <3> QED BY <2>1, <2>2, <2>3, <2>4 DEF TypeOK
  <2>5. ASSUME NEW o \in all, NEW p \in Socket \cup {NoSocket},
               /\ ready' = [opened EXCEPT ![o] = IF @ = "open" THEN "closing" ELSE @]
               /\ known' = (known \cup {w}) \ {o}
               /\ sockets' = [sockets EXCEPT ![s] = all \ {o}]
               /\ primary' = [primary EXCEPT ![s] = p]
        PROVE  TypeOK'
    <3> HIDE DEF all, opened
    <3>1. ready' \in [Socket -> {"none", "open", "closing", "closed"}]
      BY <2>1, <2>2, <2>5
    <3>2. \A k \in Socket : ready'[k] # "none" => opened[k] # "none"
      BY <2>1, <2>2, <2>5
    <3> QED BY <2>1, <2>2, <2>3, <2>5, <3>1, <3>2 DEF TypeOK
  <2> QED BY <1>1, <2>4, <2>5 DEF register
<1>2. ASSUME NEW w \in Socket, StartClosing(w)
      PROVE  TypeOK'
  BY <1>2 DEF StartClosing, TypeOK, sessionVars, presenceVars
<1>3. ASSUME NEW w \in Socket, CloseEvent(w) \/ removeConnection(w)
      PROVE  TypeOK'
  <2>1. sid[w] \in Sid /\ UserOf[sid[w]] \in User
    BY <1>3 DEF CloseEvent, removeConnection, TypeOK
  <2>2. sockets' \in [Sid -> SUBSET Socket] /\ primary' \in [Sid -> Socket \cup {NoSocket}]
    BY <1>3, <2>1, MarkOfflineType DEF CloseEvent, removeConnection
  <2> QED BY <1>3, <2>1, <2>2
          DEF CloseEvent, removeConnection, TypeOK, onDisconnect, requestDisconnect, presenceVars
<1>4. ASSUME NEW u \in User, GraceExpires(u)
      PROVE  TypeOK'
  BY <1>4 DEF GraceExpires, TypeOK, sessionVars
<1>5. ASSUME NEW s \in Sid, removeSession(s)
      PROVE  TypeOK'
  <2>1. UserOf[s] \in User
    OBVIOUS
  <2> QED BY <1>5, <2>1 DEF removeSession, Drop, TypeOK, onDisconnect, presenceVars
<1>6. ASSUME NEW u \in User, remove(u)
      PROVE  TypeOK'
  BY <1>6 DEF remove, Drop, TypeOK, onDisconnect
<1>7. CASE Shutdown
  BY <1>7 DEF Shutdown, TypeOK, sessionVars, presenceVars
<1>8. CASE clear
  BY <1>8 DEF clear, TypeOK, presenceVars
<1>9. CASE UNCHANGED vars
  BY <1>9 DEF vars, TypeOK, sessionVars, presenceVars
<1> QED BY <1>1, <1>2, <1>3, <1>4, <1>5, <1>6, <1>7, <1>8, <1>9 DEF Next

-----------------------------------------------------------------------------
(* Sessions and sockets *)

(* A socket that is being closed leaves the one session that can have it,  *)
(* which the others do not notice.                                         *)
LEMMA SocketLeaves ==
  ASSUME TypeOK, TypeOK', SessionsMatchSockets,
         NEW w \in Socket, ready[w] # "none",
         NEW c \in {"closing", "closed"}, ready' = [ready EXCEPT ![w] = c],
         known' = known \ {w}, markOffline(w), UNCHANGED <<sid, stored>>
  PROVE  SessionsMatchSockets'
<1> DEFINE s == sid[w]
<1>1. s \in Sid
  BY DEF TypeOK
<1>2. /\ sockets' = [sockets EXCEPT ![s] = @ \ {w}]
      /\ IF w \in sockets[s] THEN Reelect(s, sockets[s] \ {w}, primary'[s])
                             ELSE primary'[s] = primary[s]
      /\ \A k \in Sid \ {s} : primary'[k] = primary[k]
  <2>1. CASE w \in sockets[s]
    <3>1. PICK p \in Socket \cup {NoSocket} :
             /\ Reelect(s, sockets[s] \ {w}, p)
             /\ sockets' = [sockets EXCEPT ![s] = @ \ {w}]
             /\ primary' = [primary EXCEPT ![s] = p]
      BY <2>1 DEF markOffline
    <3>2. primary'[s] = p /\ \A k \in Sid \ {s} : primary'[k] = primary[k]
      BY <1>1, <3>1 DEF TypeOK
    <3> QED BY <2>1, <3>1, <3>2
  <2>2. CASE w \notin sockets[s]
    <3>1. sockets' = sockets /\ primary' = primary
      BY <2>2 DEF markOffline
    <3>2. sockets[s] \ {w} = sockets[s]
      BY <2>2
    <3> QED BY <1>1, <2>2, <3>1, <3>2 DEF TypeOK
  <2> QED BY <2>1, <2>2
<1> HIDE DEF s
<1>3. \A k \in Sid : w \notin sockets'[k]
  BY <1>1, <1>2 DEF TypeOK, SessionsMatchSockets, AttachedIsLive, s
<1>4. OpenIsAttached'
  BY <1>1, <1>2 DEF TypeOK, SessionsMatchSockets, OpenIsAttached
<1>5. AttachedIsLive'
  <2> SUFFICES ASSUME NEW k \in Sid, NEW x \in sockets'[k]
               PROVE  sid'[x] = k /\ k \in stored' /\ ready'[x] \in {"open", "closing"}
    BY DEF AttachedIsLive
  <2>1. x \in sockets[k] /\ x # w /\ x \in Socket
    BY <1>1, <1>2, <1>3 DEF TypeOK
  <2> QED BY <2>1 DEF TypeOK, SessionsMatchSockets, AttachedIsLive
<1>6. SessionsFit'
  <2> SUFFICES ASSUME NEW k \in Sid
               PROVE  Cardinality(sockets'[k]) <= MaxSockets
    BY DEF SessionsFit
  <2>1. sockets[k] \in SUBSET Socket /\ sockets'[k] \in SUBSET sockets[k]
    BY <1>1, <1>2 DEF TypeOK
  <2> QED BY <2>1, FewerSockets DEF SessionsMatchSockets, SessionsFit
<1>7. PrimaryIsAttached'
  <2> SUFFICES ASSUME NEW k \in Sid
               PROVE  IF sockets'[k] = {} THEN primary'[k] = NoSocket
                                          ELSE primary'[k] \in sockets'[k]
    BY DEF PrimaryIsAttached
  <2>1. CASE k = s /\ w \in sockets[s]
    BY <1>1, <1>2, <2>1 DEF TypeOK, Reelect, IsNewest
  <2>2. CASE k # s \/ w \notin sockets[s]
    <3>1. sockets'[k] = sockets[k] /\ primary'[k] = primary[k]
      BY <1>1, <1>2, <2>2 DEF TypeOK
    <3> QED BY <3>1 DEF SessionsMatchSockets, PrimaryIsAttached
  <2> QED BY <2>1, <2>2
<1> QED BY <1>4, <1>5, <1>6, <1>7 DEF SessionsMatchSockets

(* Sessions that lose all their sockets, which are closed.                 *)
LEMMA SessionsEmptied ==
  ASSUME TypeOK, TypeOK', SessionsMatchSockets,
         NEW gone \in SUBSET Sid,
         sockets' = [s \in Sid |-> IF s \in gone THEN {} ELSE sockets[s]],
         primary' = [s \in Sid |-> IF s \in gone THEN NoSocket ELSE primary[s]],
         \A s \in Sid \ gone : s \in stored => s \in stored',
         \A w \in Socket : ready'[w] = IF ready[w] = "open" /\ \E s \in gone : w \in sockets[s]
                                       THEN "closing" ELSE ready[w],
         \A w \in known : w \notin known' => \E s \in gone : w \in sockets[s],
         UNCHANGED sid
  PROVE  SessionsMatchSockets'
<1>1. OpenIsAttached'
  BY DEF TypeOK, SessionsMatchSockets, OpenIsAttached
<1>2. AttachedIsLive'
  <2> SUFFICES ASSUME NEW k \in Sid, NEW x \in sockets'[k]
               PROVE  sid'[x] = k /\ k \in stored' /\ ready'[x] \in {"open", "closing"}
    BY DEF AttachedIsLive
  <2>1. k \notin gone /\ x \in sockets[k] /\ x \in Socket
    BY DEF TypeOK
  <2> QED BY <2>1 DEF TypeOK, SessionsMatchSockets, AttachedIsLive
<1>3. SessionsFit'
  <2> SUFFICES ASSUME NEW k \in Sid
               PROVE  Cardinality(sockets'[k]) <= MaxSockets
    BY DEF SessionsFit
  <2>1. sockets[k] \in SUBSET Socket /\ sockets'[k] \in SUBSET sockets[k]
    BY DEF TypeOK
  <2> QED BY <2>1, FewerSockets DEF SessionsMatchSockets, SessionsFit
<1>4. PrimaryIsAttached'
  BY DEF TypeOK, SessionsMatchSockets, PrimaryIsAttached
<1> QED BY <1>1, <1>2, <1>3, <1>4 DEF SessionsMatchSockets

(* A new socket, with the oldest evicted if it is one too many.            *)
LEMMA SocketRegisters ==
  ASSUME TypeOK, TypeOK', SessionsMatchSockets,
         NEW w \in Socket, NEW s \in Sid, register(w, s)
  PROVE  SessionsMatchSockets'
<1> DEFINE all    == sockets[s] \cup {w}
           opened == [ready EXCEPT ![w] = IF phase = "serving" THEN "open" ELSE "closing"]
<1>1. /\ ready[w] = "none" /\ sid' = [sid EXCEPT ![w] = s] /\ stored' = stored \cup {s}
      /\ \A k \in Sid : w \notin sockets[k]
  BY DEF register, setSocketSession, SessionsMatchSockets, AttachedIsLive
<1>2. /\ opened[w] \in {"open", "closing"}
      /\ \A k \in Socket : k # w => opened[k] = ready[k]
      /\ opened \in [Socket -> {"none", "open", "closing", "closed"}]
  BY DEF TypeOK
<1>3. /\ all \in SUBSET Socket
      /\ \A k \in Sid : sockets[k] \in SUBSET Socket /\ (k # s => all \cap sockets[k] = {})
      /\ \A x \in all : sid'[x] = s /\ opened[x] \in {"open", "closing"}
  BY <1>1, <1>2 DEF TypeOK, SessionsMatchSockets, AttachedIsLive
<1>4. CASE /\ Cardinality(all) <= MaxSockets
           /\ ready' = opened
           /\ known' = known \cup {w}
           /\ sockets' = [sockets EXCEPT ![s] = all]
           /\ primary' = IF primary[s] = NoSocket THEN [primary EXCEPT ![s] = w] ELSE primary
  <2>1. /\ sockets'[s] = all /\ w \in all /\ sockets[s] \in SUBSET all
        /\ \A k \in Sid \ {s} : sockets'[k] = sockets[k]
    BY <1>4 DEF TypeOK
  <2>2. OpenIsAttached'
    <3> HIDE DEF all, opened
    <3> QED BY <1>1, <1>2, <1>3, <1>4, <2>1 DEF TypeOK, SessionsMatchSockets, OpenIsAttached
  <2>3. AttachedIsLive'
    <3> HIDE DEF all, opened
    <3> QED BY <1>1, <1>2, <1>3, <1>4, <2>1 DEF TypeOK, SessionsMatchSockets, AttachedIsLive
  <2>4. SessionsFit'
    BY <1>4, <2>1 DEF SessionsMatchSockets, SessionsFit
  <2>5. PrimaryIsAttached'
    <3> HIDE DEF all, opened
    <3>1. all # {}
      BY <2>1
    <3>2. primary'[s] \in all
      BY <1>4, <2>1 DEF TypeOK, SessionsMatchSockets, PrimaryIsAttached
    <3>3. \A k \in Sid \ {s} : primary'[k] = primary[k]
      BY <1>4 DEF TypeOK
    <3> QED BY <2>1, <3>1, <3>2, <3>3 DEF SessionsMatchSockets, PrimaryIsAttached
  <2> QED BY <2>2, <2>3, <2>4, <2>5 DEF SessionsMatchSockets
<1>5. ASSUME NEW o \in all, NEW p \in Socket \cup {NoSocket},
             /\ Reelect(s, all \ {o}, p)
             /\ ready' = [opened EXCEPT ![o] = IF @ = "open" THEN "closing" ELSE @]
             /\ known' = (known \cup {w}) \ {o}
             /\ sockets' = [sockets EXCEPT ![s] = all \ {o}]
             /\ primary' = [primary EXCEPT ![s] = p]
      PROVE  SessionsMatchSockets'
  <2>1. /\ sockets'[s] = all \ {o} /\ w \in all /\ sockets[s] \in SUBSET all
        /\ \A k \in Sid \ {s} : sockets'[k] = sockets[k]
    BY <1>5 DEF TypeOK
  <2>2. /\ o \in Socket /\ ready'[o] # "open"
        /\ \A k \in Socket \ {o} : ready'[k] = opened[k]
    <3> HIDE DEF all, opened
    <3> QED BY <1>2, <1>3, <1>5
  <2>3. OpenIsAttached'
    <3> HIDE DEF all, opened
    <3> QED BY <1>1, <1>2, <1>3, <1>5, <2>1, <2>2 DEF TypeOK, SessionsMatchSockets, OpenIsAttached
  <2>4. AttachedIsLive'
    <3> HIDE DEF all, opened
    <3> SUFFICES ASSUME NEW k \in Sid, NEW x \in sockets'[k]
                 PROVE  sid'[x] = k /\ k \in stored' /\ ready'[x] \in {"open", "closing"}
      BY DEF AttachedIsLive
    <3>1. CASE k = s
      <4>1. x \in all /\ x # o /\ x \in Socket
        BY <1>3, <2>1, <3>1
      <4> QED BY <1>1, <1>3, <2>2, <3>1, <4>1
    <3>2. CASE k # s
      <4>1. x \in sockets[k] /\ x \in Socket /\ x # w /\ x # o
        BY <1>1, <1>3, <2>1, <3>2
      <4> QED BY <1>1, <1>2, <2>2, <4>1 DEF TypeOK, SessionsMatchSockets, AttachedIsLive
    <3> QED BY <3>1, <3>2
  <2>5. SessionsFit'
    <3>1. Cardinality(all \ {o}) <= MaxSockets
      BY <1>3, <1>5, ExchangedSockets DEF SessionsMatchSockets, SessionsFit
    <3> HIDE DEF all
    <3> QED BY <2>1, <3>1 DEF SessionsMatchSockets, SessionsFit
  <2>6. PrimaryIsAttached'
    <3>1. IF all \ {o} = {} THEN p = NoSocket ELSE p \in all \ {o}
      BY <1>5 DEF Reelect, IsNewest
    <3>2. primary'[s] = p /\ \A k \in Sid \ {s} : primary'[k] = primary[k]
      BY <1>5 DEF TypeOK
    <3> HIDE DEF all
    <3> QED BY <2>1, <3>1, <3>2 DEF SessionsMatchSockets, PrimaryIsAttached
  <2> QED BY <2>3, <2>4, <2>5, <2>6 DEF SessionsMatchSockets
<1> QED BY <1>4, <1>5 DEF register

LEMMA SessionsStep ==
  ASSUME TypeOK, SessionsMatchSockets, [Next]_vars
  PROVE  SessionsMatchSockets'
<1> TypeOK'
  BY TypeStep
<1>1. ASSUME NEW w \in Socket, NEW s \in Sid, register(w, s)
      PROVE  SessionsMatchSockets'
  BY <1>1, SocketRegisters
<1>2. ASSUME NEW w \in Socket, StartClosing(w)
      PROVE  SessionsMatchSockets'
  BY <1>2 DEF StartClosing, TypeOK, sessionVars, SessionsMatchSockets,
              OpenIsAttached, AttachedIsLive, SessionsFit, PrimaryIsAttached
<1>3. ASSUME NEW w \in Socket, CloseEvent(w) \/ removeConnection(w)
      PROVE  SessionsMatchSockets'
  <2>1. PICK c \in {"closing", "closed"} : ready' = [ready EXCEPT ![w] = c]
    BY <1>3 DEF CloseEvent, removeConnection
  <2>2. /\ ready[w] # "none" /\ known' = known \ {w}
        /\ markOffline(w) /\ UNCHANGED <<sid, stored>>
    BY <1>3 DEF CloseEvent, removeConnection
  <2> QED BY <2>1, <2>2, SocketLeaves
<1>4. ASSUME NEW s \in Sid, removeSession(s)
      PROVE  SessionsMatchSockets'
  <2>1. /\ sockets' = [k \in Sid |-> IF k \in {s} THEN {} ELSE sockets[k]]
        /\ primary' = [k \in Sid |-> IF k \in {s} THEN NoSocket ELSE primary[k]]
    <3>1. \A k \in Sid : sockets[k] \ sockets[s] = IF k \in {s} THEN {} ELSE sockets[k]
      BY DEF SessionsMatchSockets, AttachedIsLive
    <3>2. sockets' = [k \in Sid |-> sockets[k] \ sockets[s]]
      BY <1>4 DEF removeSession, Drop
    <3>3. primary' = [primary EXCEPT ![s] = NoSocket]
      BY <1>4 DEF removeSession
    <3>4. primary' = [k \in Sid |-> IF k \in {s} THEN NoSocket ELSE primary[k]]
      BY <3>3 DEF TypeOK
    <3> QED BY <3>1, <3>2, <3>4
  <2>2. /\ stored' = stored \ {s} /\ known' = known \ sockets[s] /\ UNCHANGED sid
        /\ ready' = [w \in Socket |-> IF w \in sockets[s] /\ ready[w] = "open"
                                       THEN "closing" ELSE ready[w]]
    BY <1>4 DEF removeSession, Drop
  <2> QED BY <2>1, <2>2, SessionsEmptied
<1>5. ASSUME NEW u \in User, remove(u)
      PROVE  SessionsMatchSockets'
  <2> DEFINE used == {s \in Sessions(u) : sockets[s] # {}}
             gone == UNION {sockets[s] : s \in used}
  <2>1. used \in SUBSET Sid /\ \A w : w \in gone <=> \E s \in used : w \in sockets[s]
    BY DEF Sessions
  <2>2. /\ sockets' = [s \in Sid |-> sockets[s] \ gone]
        /\ primary' = [s \in Sid |-> IF s \in used THEN NoSocket ELSE primary[s]]
        /\ stored' = stored \ used /\ known' = known \ gone /\ UNCHANGED sid
        /\ ready' = [w \in Socket |-> IF w \in gone /\ ready[w] = "open"
                                       THEN "closing" ELSE ready[w]]
    BY <1>5 DEF remove, Drop
  <2> HIDE DEF used, gone
  <2>3. \A k \in Sid : sockets[k] \ gone = IF k \in used THEN {} ELSE sockets[k]
    BY <2>1 DEF SessionsMatchSockets, AttachedIsLive
  <2>4. sockets' = [s \in Sid |-> IF s \in used THEN {} ELSE sockets[s]]
    BY <2>2, <2>3
  <2> QED BY <2>1, <2>2, <2>4, SessionsEmptied
<1>6. CASE clear
  <2>1. /\ sockets' = [s \in Sid |-> IF s \in Sid THEN {} ELSE sockets[s]]
        /\ primary' = [s \in Sid |-> IF s \in Sid THEN NoSocket ELSE primary[s]]
        /\ UNCHANGED <<sid, known>>
        /\ \A w \in Socket : ready'[w] = IF ready[w] = "open" /\ \E s \in Sid : w \in sockets[s]
                                         THEN "closing" ELSE ready[w]
    BY <1>6 DEF clear
  <2> QED BY <2>1, SessionsEmptied
<1>7. CASE (\E u \in User : GraceExpires(u)) \/ Shutdown \/ UNCHANGED vars
  <2>1. UNCHANGED <<ready, sid, known, stored, sockets, primary>>
    BY <1>7 DEF GraceExpires, Shutdown, vars, sessionVars
  <2> QED BY <2>1 DEF SessionsMatchSockets, OpenIsAttached, AttachedIsLive,
                      SessionsFit, PrimaryIsAttached
<1> QED BY <1>1, <1>2, <1>3, <1>4, <1>5, <1>6, <1>7 DEF Next

-----------------------------------------------------------------------------
(* Presence *)

(* What a handler asks in the middle of its changes is whether the user    *)
(* will have an OPEN socket after them.                                    *)
LEMMA AskedAfterwards ==
  ASSUME TypeOK', SessionsMatchSockets', NEW u \in User
  PROVE  getSockets(u, sockets', ready') = {} <=> ~IsOpen(u)'
<1>1. ASSUME NEW w \in Socket, ready'[w] = "open", UserOf[sid'[w]] = u
      PROVE  w \in getSockets(u, sockets', ready')
  BY <1>1 DEF TypeOK, SessionsMatchSockets, OpenIsAttached, getSockets, Sessions
<1>2. ASSUME NEW w \in getSockets(u, sockets', ready')
      PROVE  IsOpen(u)'
  BY <1>2 DEF TypeOK, SessionsMatchSockets, AttachedIsLive, getSockets, Sessions, IsOpen
<1> QED BY <1>1, <1>2 DEF IsOpen

(* The condition for one user.                                             *)
Justified(u) ==
    /\ IsOpen(u) => presence[u] = "online" /\ u \notin timers
    /\ presence[u] = "online" /\ ~IsOpen(u) =>
          \/ u \in timers
          \/ \E w \in Socket : ready[w] = "closing" /\ UserOf[sid[w]] = u

(* It survives a step that opens no socket of the user, keeps the CLOSING  *)
(* ones, leaves an OPEN one CLOSING or OPEN, and does not touch presence.  *)
LEMMA PresenceUntouched ==
  ASSUME TypeOK, NEW u \in User, Justified(u),
         UNCHANGED sid, presence'[u] = presence[u],
         u \in timers' <=> u \in timers,
         \A w \in Socket : UserOf[sid[w]] = u =>
            /\ ready'[w] = "open" => ready[w] = "open"
            /\ ready[w] = "open" => ready'[w] \in {"open", "closing"}
            /\ ready[w] = "closing" => ready'[w] = "closing"
  PROVE  Justified(u)'
BY DEF Justified, IsOpen

(* A socket of user v leaves: v has another that is OPEN, or the handler   *)
(* has shown v offline or started the timer.                               *)
LEMMA PresenceFollows ==
  ASSUME TypeOK, TypeOK', SessionsMatchSockets', NEW v \in User, NEW u \in User,
         Justified(u), UNCHANGED sid,
         \A w \in Socket :
            /\ ready'[w] = "open" => ready[w] = "open"
            /\ UserOf[sid[w]] # v => ready'[w] = ready[w],
         IF getSockets(v, sockets', ready') = {}
         THEN onDisconnect(v) \/ requestDisconnect(v) ELSE UNCHANGED presenceVars
  PROVE  Justified(u)'
<1>1. IsOpen(u)' => IsOpen(u)
  BY DEF IsOpen
<1>2. CASE u # v
  <2>1. presence'[u] = presence[u] /\ (u \in timers' <=> u \in timers)
    BY <1>2 DEF onDisconnect, requestDisconnect, presenceVars, TypeOK
  <2> QED BY <1>2, <2>1, PresenceUntouched
<1>3. CASE u = v /\ IsOpen(u)'
  <2>1. UNCHANGED presenceVars
    BY <1>3, AskedAfterwards
  <2> QED BY <1>1, <1>3, <2>1 DEF Justified, presenceVars
<1>4. CASE u = v /\ ~IsOpen(u)'
  <2>1. onDisconnect(u) \/ requestDisconnect(u)
    BY <1>4, AskedAfterwards
  <2>2. presence'[u] = "online" => u \in timers'
    BY <2>1 DEF onDisconnect, requestDisconnect, TypeOK
  <2> QED BY <1>4, <2>2 DEF Justified
<1> QED BY <1>2, <1>3, <1>4

LEMMA PresenceOnRegister ==
  ASSUME TypeOK, TypeOK', NEW u \in User, Justified(u),
         NEW w \in Socket, NEW s \in Sid, register(w, s), SessionsMatchSockets
  PROVE  Justified(u)'
<1>1. /\ ready[w] = "none" /\ sid' = [sid EXCEPT ![w] = s]
      /\ presence' = [presence EXCEPT ![UserOf[s]] = "online"]
      /\ timers' = timers \ {UserOf[s]}
  BY DEF register, setSocketSession, onConnect
<1>2. /\ ready'[w] \in {"open", "closing"}
      /\ \A k \in Socket \ {w} : sid'[k] = sid[k]
      /\ \A k \in Socket \ {w} : ready'[k] # ready[k] =>
            ready[k] = "open" /\ ready'[k] = "closing" /\ k \in sockets[s]
      /\ sid'[w] = s
  <2> DEFINE opened == [ready EXCEPT ![w] = IF phase = "serving" THEN "open" ELSE "closing"]
  <2>1. opened \in [Socket -> {"none", "open", "closing", "closed"}]
        /\ opened[w] \in {"open", "closing"} /\ \A k \in Socket \ {w} : opened[k] = ready[k]
    BY DEF TypeOK
  <2>2. \/ ready' = opened
        \/ \E o \in sockets[s] \cup {w} :
              ready' = [opened EXCEPT ![o] = IF @ = "open" THEN "closing" ELSE @]
    BY DEF register
  <2> HIDE DEF opened
  <2>3. \A k \in Socket \ {w} : sid'[k] = sid[k]
    BY <1>1 DEF TypeOK
  <2>4. sid'[w] = s
    BY <1>1 DEF TypeOK
  <2> QED BY <2>1, <2>2, <2>3, <2>4
<1>3. CASE u = UserOf[s]
  <2>1. presence'[u] = "online" /\ u \notin timers'
    BY <1>1, <1>3 DEF TypeOK
  <2>2. ready'[w] = "closing" \/ IsOpen(u)'
    BY <1>2, <1>3 DEF IsOpen
  <2> QED BY <1>2, <1>3, <2>1, <2>2 DEF Justified
<1>4. CASE u # UserOf[s]
  <2>1. presence'[u] = presence[u] /\ (u \in timers' <=> u \in timers)
    BY <1>1, <1>4 DEF TypeOK
  <2>2. \A k \in Socket : (ready[k] # "none" /\ UserOf[sid[k]] = u) =>
            k # w /\ ready'[k] = ready[k] /\ sid'[k] = sid[k]
    BY <1>1, <1>2, <1>4 DEF SessionsMatchSockets, AttachedIsLive
  <2>3. \A k \in Socket : (ready'[k] # "none" /\ UserOf[sid'[k]] = u) =>
            k # w /\ ready'[k] = ready[k] /\ sid'[k] = sid[k]
    BY <1>1, <1>2, <1>4 DEF SessionsMatchSockets, AttachedIsLive
  <2> QED BY <2>1, <2>2, <2>3 DEF Justified, IsOpen
<1> QED BY <1>3, <1>4

LEMMA PresenceStep ==
  ASSUME IInv, [Next]_vars
  PROVE  PresenceIsJustified'
<1> TypeOK /\ SessionsMatchSockets /\ TypeOK' /\ SessionsMatchSockets'
  BY TypeStep, SessionsStep DEF IInv
<1> SUFFICES ASSUME NEW u \in User
             PROVE  Justified(u)'
  BY DEF PresenceIsJustified, Justified
<1> Justified(u)
  BY DEF IInv, PresenceIsJustified, Justified
<1>1. ASSUME NEW w \in Socket, NEW s \in Sid, register(w, s)
      PROVE  Justified(u)'
  BY <1>1, PresenceOnRegister
<1>2. ASSUME NEW w \in Socket, StartClosing(w)
      PROVE  Justified(u)'
  <2>1. \A k \in Socket : ready'[k] = IF k = w THEN "closing" ELSE ready[k]
    BY <1>2 DEF StartClosing, TypeOK
  <2> QED BY <1>2, <2>1, PresenceUntouched DEF StartClosing, presenceVars
<1>3. ASSUME NEW w \in Socket, CloseEvent(w) \/ removeConnection(w)
      PROVE  Justified(u)'
  <2> DEFINE v == UserOf[sid[w]]
  <2>1. v \in User /\ UNCHANGED sid
    BY <1>3 DEF CloseEvent, removeConnection, TypeOK
  <2>2. \A k \in Socket : /\ ready'[k] = "open" => ready[k] = "open"
                          /\ k # w => ready'[k] = ready[k]
    BY <1>3 DEF CloseEvent, removeConnection, TypeOK
  <2>3. IF getSockets(v, sockets', ready') = {}
        THEN onDisconnect(v) \/ requestDisconnect(v) ELSE UNCHANGED presenceVars
    BY <1>3 DEF CloseEvent, removeConnection
  <2>4. \A k \in Socket : UserOf[sid[k]] # v => ready'[k] = ready[k]
    BY <2>2
  <2> HIDE DEF v
  <2> QED BY <2>1, <2>2, <2>3, <2>4, PresenceFollows
<1>4. ASSUME NEW v \in User, GraceExpires(v)
      PROVE  Justified(u)'
  <2>1. UNCHANGED <<ready, sid, sockets>> /\ timers' = timers \ {v} /\ v \in timers
    BY <1>4 DEF GraceExpires, sessionVars
  <2>2. IsOpen(u)' <=> IsOpen(u)
    BY <2>1 DEF IsOpen
  <2>3. CASE u # v
    <3>1. presence'[u] = presence[u]
      BY <1>4, <2>3 DEF GraceExpires, TypeOK
    <3> QED BY <2>1, <2>3, <3>1, PresenceUntouched
  <2>4. CASE u = v
    <3>1. ~IsOpen(u)'
      BY <2>1, <2>2, <2>4 DEF Justified
    <3>2. getSockets(u, sockets, ready) = {}
      BY <2>1, <3>1, AskedAfterwards
    <3>3. presence'[u] = "offline"
      BY <1>4, <2>4, <3>2 DEF GraceExpires, TypeOK
    <3> QED BY <3>1, <3>3 DEF Justified
  <2> QED BY <2>3, <2>4
<1>5. ASSUME NEW s \in Sid, removeSession(s)
      PROVE  Justified(u)'
  <2> DEFINE v == UserOf[s]
  <2>1. /\ v \in User /\ UNCHANGED sid
        /\ ready' = [w \in Socket |-> IF w \in sockets[s] /\ ready[w] = "open"
                                       THEN "closing" ELSE ready[w]]
        /\ IF sockets[s] # {} /\ getSockets(v, sockets', ready') = {}
           THEN onDisconnect(v) ELSE UNCHANGED presenceVars
    BY <1>5 DEF removeSession, Drop
  <2>2. CASE sockets[s] # {}
    <3>1. \A k \in Socket : /\ ready'[k] = "open" => ready[k] = "open"
                            /\ UserOf[sid[k]] # v => ready'[k] = ready[k]
      BY <2>1 DEF SessionsMatchSockets, AttachedIsLive
    <3>2. IF getSockets(v, sockets', ready') = {}
          THEN onDisconnect(v) \/ requestDisconnect(v) ELSE UNCHANGED presenceVars
      BY <2>1, <2>2
    <3> HIDE DEF v
    <3> QED BY <2>1, <3>1, <3>2, PresenceFollows
  <2>3. CASE sockets[s] = {}
    <3>1. \A w \in Socket : ready'[w] = ready[w]
      BY <2>1, <2>3
    <3>2. UNCHANGED <<presence, timers>>
      BY <2>1, <2>3 DEF presenceVars
    <3> QED BY <2>1, <3>1, <3>2, PresenceUntouched
  <2> QED BY <2>2, <2>3
<1>6. ASSUME NEW v \in User, remove(v)
      PROVE  Justified(u)'
  <2> DEFINE gone == UNION {sockets[s] : s \in {k \in Sessions(v) : sockets[k] # {}}}
  <2>1. /\ UNCHANGED sid /\ onDisconnect(v)
        /\ sockets' = [s \in Sid |-> sockets[s] \ gone]
        /\ ready' = [w \in Socket |-> IF w \in gone /\ ready[w] = "open"
                                       THEN "closing" ELSE ready[w]]
    BY <1>6 DEF remove, Drop
  <2>2. \A s \in Sessions(v) : sockets[s] \subseteq gone
    OBVIOUS
  <2>3. \A k \in gone : UserOf[sid[k]] = v
    BY DEF SessionsMatchSockets, AttachedIsLive, Sessions
  <2> HIDE DEF gone
  <2>4. getSockets(v, sockets', ready') = {}
    BY <2>1, <2>2 DEF getSockets, Sessions
  <2>5. \A k \in Socket : /\ ready'[k] = "open" => ready[k] = "open"
                          /\ UserOf[sid[k]] # v => ready'[k] = ready[k]
    BY <2>1, <2>3
  <2> QED BY <2>1, <2>4, <2>5, PresenceFollows
<1>7. CASE clear
  <2>1. \A k \in Socket : ready'[k] = ready[k] \/ (ready[k] = "open" /\ ready'[k] = "closing")
    BY <1>7 DEF clear
  <2> QED BY <1>7, <2>1, PresenceUntouched DEF clear, presenceVars
<1>8. CASE Shutdown \/ UNCHANGED vars
  <2>1. UNCHANGED <<ready, sid, presence, timers>>
    BY <1>8 DEF Shutdown, vars, presenceVars
  <2> QED BY <2>1, PresenceUntouched
<1> QED BY <1>1, <1>2, <1>3, <1>4, <1>5, <1>6, <1>7, <1>8 DEF Next

-----------------------------------------------------------------------------
(* Theorems *)

LEMMA InitIInv ==
  ASSUME Init
  PROVE  IInv
<1>1. TypeOK
  BY DEF Init, TypeOK
<1>2. SessionsMatchSockets
  BY FS_EmptySet DEF Init, SessionsMatchSockets, OpenIsAttached, AttachedIsLive,
                     SessionsFit, PrimaryIsAttached
<1>3. PresenceIsJustified
  BY DEF Init, PresenceIsJustified, IsOpen
<1> QED BY <1>1, <1>2, <1>3 DEF IInv

(* The inductive invariant of connections and presence. *)
THEOREM ConnectionInvariance == Spec => []IInv
<1>1. IInv /\ [Next]_vars => IInv'
  BY TypeStep, SessionsStep, PresenceStep DEF IInv
<1> QED BY <1>1, InitIInv, PTL DEF Spec

(* Every variable keeps its type; in particular a handler never asks for   *)
(* the user of a socket that is not registered.                            *)
THEOREM ConnectionTypeCorrect == Spec => []TypeOK
<1>1. IInv => TypeOK
  BY DEF IInv
<1> QED BY <1>1, ConnectionInvariance, PTL

(* Whatever the order of registrations, evictions, kicks and late close    *)
(* events, sessions and sockets agree: an OPEN socket can be found by      *)
(* delivery and by a kick, none is left over, and a session never exceeds  *)
(* its limit or loses its primary while it has a socket.                   *)
THEOREM SessionsStayMatched == Spec => []SessionsMatchSockets
<1>1. IInv => SessionsMatchSockets
  BY DEF IInv
<1> QED BY <1>1, ConnectionInvariance, PTL

(* A user with an OPEN socket is online with no timer running, and one     *)
(* shown online without it has a close event or a timer ahead.             *)
THEOREM PresenceStaysJustified == Spec => []PresenceIsJustified
<1>1. IInv => PresenceIsJustified
  BY DEF IInv
<1> QED BY <1>1, ConnectionInvariance, PTL
=============================================================================
