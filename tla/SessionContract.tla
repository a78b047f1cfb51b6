--------------------------- MODULE SessionContract ---------------------------
(***************************************************************************)
(* What the session store promises about refresh tokens, whoever uses it:  *)
(* a session is opened once, holds at most one token, exchanges it for a   *)
(* new one only when that token is presented, and is revoked for good.     *)
(***************************************************************************)
EXTENDS Naturals

CONSTANT Sid

NoToken == 0

VARIABLES
    status, \* of each session
    token,  \* the token that would be accepted for it
    issued, \* how many tokens there have been
    spent   \* tokens that were presented and exchanged

vars == <<status, token, issued, spent>>

Init ==
    /\ status = [s \in Sid |-> "none"]
    /\ token = [s \in Sid |-> NoToken]
    /\ issued = 0
    /\ spent = {}

Open(s) ==
    /\ status[s] = "none"
    /\ status' = [status EXCEPT ![s] = "active"]
    /\ UNCHANGED <<token, issued, spent>>

Grant(s) ==
    /\ status[s] = "active" /\ token[s] = NoToken
    /\ issued' = issued + 1
    /\ token' = [token EXCEPT ![s] = issued + 1]
    /\ UNCHANGED <<status, spent>>

(* A token for a session that was revoked meanwhile is good for nothing. *)
Waste ==
    /\ issued' = issued + 1
    /\ UNCHANGED <<status, token, spent>>

Rotate(s) ==
    /\ status[s] = "active" /\ token[s] # NoToken
    /\ spent' = spent \cup {token[s]}
    /\ issued' = issued + 1
    /\ token' = [token EXCEPT ![s] = issued + 1]
    /\ UNCHANGED status

Revoke(S) ==
    /\ \A s \in S : status[s] = "active"
    /\ status' = [s \in Sid |-> IF s \in S THEN "revoked" ELSE status[s]]
    /\ token' = [s \in Sid |-> IF s \in S THEN NoToken ELSE token[s]]
    /\ UNCHANGED <<issued, spent>>

Next ==
    \/ \E s \in Sid : Open(s) \/ Grant(s) \/ Rotate(s)
    \/ \E S \in SUBSET Sid : Revoke(S)
    \/ Waste

Spec == Init /\ [][Next]_vars
=============================================================================
