----------------------------- MODULE Connections -----------------------------
(***************************************************************************)
(* WebSocket connections, the sessions they belong to, and presence        *)
(* (websocket/connection, websocket/state/sessionStore).                   *)
(*                                                                         *)
(* A session holds up to MaxSockets sockets, one per tab; one more evicts  *)
(* the oldest.  A socket that is closed stays CLOSING until its close      *)
(* event, which may come after its session was kicked, and even after the  *)
(* session has come back.  A user whose last OPEN socket is gone is shown  *)
(* offline after a grace period, or at once when the server removed it.    *)
(* Every handler here is synchronous, and one action.                      *)
(***************************************************************************)
EXTENDS Naturals, FiniteSets

CONSTANTS
    User,
    Sid,        \* session ids, of the access tokens
    NoSid,      \* the session of a socket that is not registered
    UserOf,     \* the user each session id was issued to
    MaxSockets, \* config.MAX_SOCKETS_PER_SESSION
    MaxConnections \* bound: connections in a behaviour

ASSUME UserAssumption   == UserOf \in [Sid -> User]
ASSUME SidAssumption    == NoSid \notin Sid
ASSUME MaxAssumption    == MaxSockets \in Nat \ {0}
ASSUME BoundAssumption  == MaxConnections \in Nat

(* WebSockets, numbered in the order they are registered in, which is that *)
(* of session.socketCreatedAt.                                             *)
Socket   == 1..MaxConnections
NoSocket == 0

VARIABLES
    ready,    \* readyState of each socket
    sid,      \* the session each socket was registered for
    known,    \* connectionStore: sockets that map to a user and a session
    stored,   \* sessionStore: the session ids it has
    sockets,  \* session.sockets
    primary,  \* session.primary
    presence, \* presenceStore
    timers,   \* users with a pending offline timer
    phase     \* serving, shutting down with clients to close, or stopped

sessionVars  == <<stored, sockets, primary>>
presenceVars == <<presence, timers>>
vars == <<ready, sid, known, sessionVars, presenceVars, phase>>

TypeOK ==
    /\ ready    \in [Socket -> {"none", "open", "closing", "closed"}]
    /\ sid      \in [Socket -> Sid \cup {NoSid}]
    /\ \A w \in Socket : ready[w] # "none" => sid[w] \in Sid
    /\ known    \subseteq Socket
    /\ stored   \subseteq Sid
    /\ sockets  \in [Sid -> SUBSET Socket]
    /\ primary  \in [Sid -> Socket \cup {NoSocket}]
    /\ presence \in [User -> {"none", "online", "offline"}]
    /\ timers   \subseteq User
    /\ phase    \in {"serving", "draining", "stopped"}

-----------------------------------------------------------------------------
(* Queries.  Each has the state it is asked in as parameters, since a      *)
(* handler asks in the middle of its changes.                              *)

Sessions(u) == {s \in Sid : UserOf[s] = u}

(* getSockets: the OPEN sockets of the user's sessions. *)
getSockets(u, attached, state) ==
    {w \in UNION {attached[s] : s \in Sessions(u)} : state[w] = "open"}

IsOldest(w, S) == w \in S /\ \A k \in S : w <= k
IsNewest(w, S) == w \in S /\ \A k \in S : k <= w

(* primary stays unless it leaves; then the newest of the others, if any.  *)
Reelect(s, rest, p) ==
    IF primary[s] \in rest THEN p = primary[s]
    ELSE IF rest = {} THEN p = NoSocket ELSE IsNewest(p, rest)

(* Mutant: a primary that leaves is not replaced. *)
markOfflineKeepsPrimary(w) ==
    /\ sockets' = [sockets EXCEPT ![sid[w]] = @ \ {w}]
    /\ UNCHANGED primary

(* sessionStore.markOffline: only a session that has this very socket      *)
(* changes.                                                                *)
markOffline(w) ==
    LET s == sid[w] IN
    IF w \in sockets[s]
    THEN \E p \in Socket \cup {NoSocket} :
            /\ Reelect(s, sockets[s] \ {w}, p)
            /\ sockets' = [sockets EXCEPT ![s] = @ \ {w}]
            /\ primary' = [primary EXCEPT ![s] = p]
    ELSE UNCHANGED <<sockets, primary>>

(* Mutant: a reconnect does not cancel the timer. *)
onConnectKeepsTimer(u) ==
    /\ presence' = [presence EXCEPT ![u] = "online"]
    /\ UNCHANGED timers

(* lifecycle: a connection shows the user online and cancels the timer,    *)
(* the last natural close starts it, and onDisconnect shows the user       *)
(* offline.                                                                *)
onConnect(u) ==
    /\ presence' = [presence EXCEPT ![u] = "online"]
    /\ timers' = timers \ {u}

onDisconnect(u) ==
    /\ presence' = [presence EXCEPT ![u] = "offline"]
    /\ UNCHANGED timers

requestDisconnect(u) ==
    /\ timers' = timers \cup {u}
    /\ UNCHANGED presence

-----------------------------------------------------------------------------
Init ==
    /\ ready = [w \in Socket |-> "none"]
    /\ sid = [w \in Socket |-> NoSid]
    /\ known = {}
    /\ stored = {}
    /\ sockets = [s \in Sid |-> {}]
    /\ primary = [s \in Sid |-> NoSocket]
    /\ presence = [u \in User |-> "none"]
    /\ timers = {}
    /\ phase = "serving"

setSocketSession(w, s) == sid' = [sid EXCEPT ![w] = s]

(* handleUpgrade and setupConnection: register creates the session or      *)
(* attaches the socket, and evicts the oldest of too many.  An upgrade     *)
(* that was under way when the shutdown began is registered, then closed;  *)
(* ws refuses one after wss.close.                                         *)
register(w, s) ==
    LET all  == sockets[s] \cup {w}
        opened == [ready EXCEPT ![w] = IF phase = "serving" THEN "open" ELSE "closing"]
    IN
    /\ ready[w] = "none"
    /\ \A k \in Socket : k < w => ready[k] # "none"
    /\ phase # "stopped"
    /\ setSocketSession(w, s)
    /\ stored' = stored \cup {s}
    /\ \/ /\ Cardinality(all) <= MaxSockets
          /\ ready' = opened
          /\ known' = known \cup {w}
          /\ sockets' = [sockets EXCEPT ![s] = all]
          /\ primary' = IF primary[s] = NoSocket THEN [primary EXCEPT ![s] = w] ELSE primary
       \/ /\ Cardinality(all) > MaxSockets
          /\ \E o \in all, p \in Socket \cup {NoSocket} :
                /\ IsOldest(o, all)
                /\ Reelect(s, all \ {o}, p)
                /\ ready' = [opened EXCEPT ![o] = IF @ = "open" THEN "closing" ELSE @]
                /\ known' = (known \cup {w}) \ {o}
                /\ sockets' = [sockets EXCEPT ![s] = all \ {o}]
                /\ primary' = [primary EXCEPT ![s] = p]
    /\ onConnect(UserOf[s])
    /\ UNCHANGED phase

(* The peer closes, or is silent for a whole heartbeat, or the server      *)
(* closes an abusive socket: the close event is still to come.             *)
StartClosing(w) ==
    /\ ready[w] = "open"
    /\ ready' = [ready EXCEPT ![w] = "closing"]
    /\ UNCHANGED <<sid, known, sessionVars, presenceVars, phase>>

(* Mutant: a close event counts only for a socket its session still has.   *)
CloseEventIfAttached(w) ==
    LET u == UserOf[sid[w]] IN
    /\ ready[w] = "closing"
    /\ ready' = [ready EXCEPT ![w] = "closed"]
    /\ known' = known \ {w}
    /\ markOffline(w)
    /\ IF w \in sockets[sid[w]] /\ getSockets(u, sockets', ready') = {}
       THEN requestDisconnect(u) ELSE UNCHANGED presenceVars
    /\ UNCHANGED <<sid, stored, phase>>

(* The close event: the socket leaves its session, and the last OPEN one   *)
(* of the user starts the grace period.                                    *)
CloseEvent(w) ==
    LET u == UserOf[sid[w]] IN
    /\ ready[w] = "closing"
    /\ ready' = [ready EXCEPT ![w] = "closed"]
    /\ known' = known \ {w}
    /\ markOffline(w)
    /\ IF getSockets(u, sockets', ready') = {}
       THEN requestDisconnect(u) ELSE UNCHANGED presenceVars
    /\ UNCHANGED <<sid, stored, phase>>

(* An error of the socket, or of its setup, closes it and removes its      *)
(* connection at once (removeConnection, cleanup), unless that was done.   *)
removeConnection(w) ==
    LET u == UserOf[sid[w]] IN
    /\ ready[w] \in {"open", "closing"}
    /\ w \in known
    /\ ready' = [ready EXCEPT ![w] = "closing"]
    /\ known' = known \ {w}
    /\ markOffline(w)
    /\ IF getSockets(u, sockets', ready') = {}
       THEN onDisconnect(u) ELSE UNCHANGED presenceVars
    /\ UNCHANGED <<sid, stored, phase>>

(* The timer of requestDisconnect. *)
GraceExpires(u) ==
    /\ u \in timers
    /\ timers' = timers \ {u}
    /\ presence' = IF getSockets(u, sockets, ready) = {}
                   THEN [presence EXCEPT ![u] = "offline"] ELSE presence
    /\ UNCHANGED <<ready, sid, known, sessionVars, phase>>

(* Logout, kick and ban close sockets without waiting for their events:    *)
(* removeSession those of one session, which is deleted,                   *)
Drop(gone) ==
    /\ ready' = [w \in Socket |-> IF w \in gone /\ ready[w] = "open"
                                  THEN "closing" ELSE ready[w]]
    /\ known' = known \ gone
    /\ sockets' = [s \in Sid |-> sockets[s] \ gone]
    /\ UNCHANGED <<sid, phase>>

removeSession(s) ==
    LET u == UserOf[s] IN
    /\ s \in stored
    /\ Drop(sockets[s])
    /\ stored' = stored \ {s}
    /\ primary' = [primary EXCEPT ![s] = NoSocket]
    /\ IF sockets[s] # {} /\ getSockets(u, sockets', ready') = {}
       THEN onDisconnect(u) ELSE UNCHANGED presenceVars

(* and remove those of the user; sessions without sockets stay stored.     *)
remove(u) ==
    LET used == {s \in Sessions(u) : sockets[s] # {}} IN
    /\ used # {}
    /\ Drop(UNION {sockets[s] : s \in used})
    /\ stored' = stored \ used
    /\ primary' = [s \in Sid |-> IF s \in used THEN NoSocket ELSE primary[s]]
    /\ onDisconnect(u)

(* shutdown stops upgrades and tells the clients; when what it sent has    *)
(* drained it closes them all and forgets the sessions (clear).            *)
Shutdown ==
    /\ phase = "serving"
    /\ phase' = IF \E w \in Socket : w \in UNION {sockets[s] : s \in Sid} /\ ready[w] = "open"
                THEN "draining" ELSE "stopped"
    /\ UNCHANGED <<ready, sid, known, sessionVars, presenceVars>>

clear ==
    /\ phase = "draining"
    /\ phase' = "stopped"
    /\ ready' = [w \in Socket |->
                   IF ready[w] = "open" /\ \E s \in Sid : w \in sockets[s]
                   THEN "closing" ELSE ready[w]]
    /\ stored' = {}
    /\ sockets' = [s \in Sid |-> {}]
    /\ primary' = [s \in Sid |-> NoSocket]
    /\ UNCHANGED <<sid, known, presenceVars>>

-----------------------------------------------------------------------------
Next ==
    \/ \E w \in Socket, s \in Sid : register(w, s)
    \/ \E w \in Socket : StartClosing(w) \/ CloseEvent(w) \/ removeConnection(w)
    \/ \E s \in Sid : removeSession(s)
    \/ \E u \in User : GraceExpires(u) \/ remove(u)
    \/ Shutdown
    \/ clear

(* A closing socket gets its close event (ws destroys one that does not    *)
(* answer), and timers fire.                                               *)
Fairness ==
    /\ \A w \in Socket : WF_vars(CloseEvent(w))
    /\ \A u \in User : WF_vars(GraceExpires(u))

Spec == Init /\ [][Next]_vars /\ Fairness

-----------------------------------------------------------------------------
(* Safety *)

(* Every OPEN socket is in its session, where delivery and kicks find it,  *)
(* and mapped to it; a session holds only its own live sockets, at most    *)
(* MaxSockets; its primary is one of them, if there is any.                *)
OpenIsAttached ==
    \A w \in Socket : ready[w] = "open" => w \in sockets[sid[w]] /\ w \in known

AttachedIsLive ==
    \A s \in Sid : \A w \in sockets[s] :
       sid[w] = s /\ s \in stored /\ ready[w] \in {"open", "closing"}

SessionsFit == \A s \in Sid : Cardinality(sockets[s]) <= MaxSockets

PrimaryIsAttached ==
    \A s \in Sid : IF sockets[s] = {} THEN primary[s] = NoSocket
                                      ELSE primary[s] \in sockets[s]

SessionsMatchSockets ==
    OpenIsAttached /\ AttachedIsLive /\ SessionsFit /\ PrimaryIsAttached

IsOpen(u) == \E w \in Socket : ready[w] = "open" /\ UserOf[sid[w]] = u

(* Whatever the order of close events, errors, kicks and reconnects: a     *)
(* user with an OPEN socket is online, with no timer running to change     *)
(* that, and a user without one who is still shown online has a close      *)
(* event or a timer ahead.                                                 *)
PresenceIsJustified ==
    \A u \in User :
       /\ IsOpen(u) => presence[u] = "online" /\ u \notin timers
       /\ presence[u] = "online" /\ ~IsOpen(u) =>
             \/ u \in timers
             \/ \E w \in Socket : ready[w] = "closing" /\ UserOf[sid[w]] = u

IInv ==
    /\ TypeOK
    /\ SessionsMatchSockets
    /\ PresenceIsJustified

-----------------------------------------------------------------------------
(* Liveness *)

(* Nobody is shown online for ever after the last socket has gone: the     *)
(* user goes offline or comes back.                                        *)
GoneIsNoticed ==
    \A u \in User : presence[u] = "online" /\ ~IsOpen(u)
                      ~> presence[u] = "offline" \/ IsOpen(u)

=============================================================================
