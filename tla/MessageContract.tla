--------------------------- MODULE MessageContract ---------------------------
(***************************************************************************)
(* What the backend promises about direct messages, whatever its handlers, *)
(* its memory and its restarts do: a client message id is stored under one *)
(* server id, an ACK names a stored message, a message is marked delivered *)
(* only once stored, and a read receipt is given only for a message that   *)
(* reached the recipient.                                                  *)
(***************************************************************************)
EXTENDS Naturals

CONSTANTS Mid, Cmid, NoCmid

VARIABLES
    stored,    \* <<client id, id>> of every stored message
    acked,     \* <<client id, id>> of every ACK given to the sender
    delivered, \* ids marked delivered to the recipient
    received,  \* ids the recipient's client holds
    receipts   \* ids the sender was told are read

cvars == <<stored, acked, delivered, received, receipts>>

StoredIds == {s[2] : s \in stored}

CInit ==
    /\ stored = {}
    /\ acked = {}
    /\ delivered = {}
    /\ received = {}
    /\ receipts = {}

(* A client id, when there is one, is stored once and for all. *)
Store(c, m) ==
    /\ m \notin StoredIds
    /\ c \in Cmid => \A s \in stored : s[1] # c
    /\ stored' = stored \cup {<<c, m>>}
    /\ UNCHANGED <<acked, delivered, received, receipts>>

Acknowledge(c, m) ==
    /\ <<c, m>> \in stored
    /\ acked' = acked \cup {<<c, m>>}
    /\ UNCHANGED <<stored, delivered, received, receipts>>

Deliver(m) ==
    /\ m \in StoredIds
    /\ delivered' = delivered \cup {m}
    /\ UNCHANGED <<stored, acked, received, receipts>>

Receive(S) ==
    /\ S \subseteq StoredIds
    /\ received' = received \cup S
    /\ UNCHANGED <<stored, acked, delivered, receipts>>

GiveReceipt(m) ==
    /\ m \in received
    /\ receipts' = receipts \cup {m}
    /\ UNCHANGED <<stored, acked, delivered, received>>

CNext ==
    \/ \E c \in Cmid \cup {NoCmid}, m \in Mid : Store(c, m) \/ Acknowledge(c, m)
    \/ \E m \in Mid : Deliver(m) \/ GiveReceipt(m)
    \/ \E S \in SUBSET Mid : Receive(S)

CSpec == CInit /\ [][CNext]_cvars

=============================================================================
