------------------------------ MODULE WebClient ------------------------------
(***************************************************************************)
(* One browser tab: the WebSocket client (transport/wsClient.js), the      *)
(* token refresh of the HTTP client (lib/http.js), and the effect and the  *)
(* sign-in calls that drive both (features/chat/adapters/                  *)
(* ChatAdapterContext.jsx, hooks/useAuth.js).                              *)
(*                                                                         *)
(* An action is one task of the page's event loop: a socket event, a timer *)
(* or a call, with everything it calls synchronously.  Sockets come from a *)
(* pool and go back to it when their close event has been handled.         *)
(***************************************************************************)
EXTENDS Naturals

CONSTANTS
    Socket,
    NoSocket,
    MaxLoops \* bound: refresh loops, armed or awaiting an answer

ASSUME SocketAssumption == NoSocket \notin Socket
ASSUME LoopAssumption == MaxLoops \in Nat \ {0}

VARIABLES
    ws,                \* the socket wsClient refers to
    sock,              \* sockets; one that is closing is named by its code
    hello,             \* sockets HELLO was sent on and not answered
    acked,             \* history: sockets whose HELLO was acknowledged
    lost,              \* history: open sockets nobody refers to any more
    ready,
    status,            \* connectionStatus
    reconnectTimer,
    authTimer,         \* authReconnectTimer: the code it will close with
    reconnectDisabled,
    down,              \* _shutdown
    pingOwner,         \* pingTimerOwner, and presenceTimerOwner
    pingStale,         \* connectionGeneration has moved on since it started
    auth,              \* isAuthenticated && !isLoading
    mounted,           \* the effect has run, and has subscribed
    cleanup,           \* its deferred disconnect is pending
    loop,              \* proactiveRefreshTimerId is an armed timer
    stray,             \* armed timers whose id was overwritten
    awaiting,          \* runs of the loop that await the refresh
    inFlight,          \* inFlightRefreshPromise
    refused,           \* refreshDisabledUntilLogin
    doubled            \* history: a loop was armed beside a running one

socketVars  == <<ws, sock, hello, acked, lost, ready, status>>
timerVars   == <<reconnectTimer, authTimer, pingOwner, pingStale>>
switchVars  == <<reconnectDisabled, down>>
effectVars  == <<auth, mounted, cleanup>>
refreshVars == <<loop, stray, awaiting, inFlight, refused, doubled>>
vars == <<socketVars, timerVars, switchVars, effectVars, refreshVars>>

(* Close codes, by what onclose makes of them; a code or reason of an auth *)
(* failure or a logout is "auth".                                          *)
Code == {"normal", "auth", "suspended", "notReady"}
Status == {"disconnected", "connecting", "connected"}

TypeOK ==
    /\ ws \in Socket \cup {NoSocket}
    /\ sock \in [Socket -> {"none", "connecting", "open"} \cup Code]
    /\ hello \subseteq Socket
    /\ acked \subseteq Socket
    /\ lost \subseteq Socket
    /\ ready \in BOOLEAN
    /\ status \in Status
    /\ reconnectTimer \in BOOLEAN
    /\ authTimer \in {"none", "normal", "auth"}
    /\ reconnectDisabled \in BOOLEAN
    /\ down \in BOOLEAN
    /\ pingOwner \in Socket \cup {NoSocket}
    /\ pingStale \in BOOLEAN
    /\ auth \in BOOLEAN
    /\ mounted \in BOOLEAN
    /\ cleanup \in BOOLEAN
    /\ loop \in BOOLEAN
    /\ stray \in 0..MaxLoops
    /\ awaiting \in 0..MaxLoops
    /\ inFlight \in BOOLEAN
    /\ refused \in BOOLEAN
    /\ doubled \in BOOLEAN

-----------------------------------------------------------------------------
(* Sockets. *)

Live(n) == n # NoSocket /\ sock[n] \in {"connecting", "open"}
Closing(n) == sock[n] \in Code
Free == {n \in Socket : sock[n] = "none" /\ n # pingOwner}

(* The sockets when the client has called close(code) on its own: one that *)
(* is not open yet just fails.                                             *)
closed(code) ==
    [n \in Socket |-> IF n # ws \/ ~Live(n) THEN sock[n]
                      ELSE IF sock[n] = "open" THEN code ELSE "normal"]

(* setStatus tells http.js of a disconnection, which stops its loop. *)
loopAfter(s) == loop /\ (s = "disconnected" => status = s)

(* connect() when it is not shut down, the module's socket is w and the    *)
(* sockets are S.                                                          *)
connect(w, S, s) ==
    /\ reconnectDisabled' = FALSE
    /\ IF w # NoSocket /\ S[w] \in {"connecting", "open"}
         THEN /\ ws' = w /\ sock' = S /\ status' = s
              /\ UNCHANGED pingStale
         ELSE \E n \in Free :
                 /\ ws' = n
                 /\ sock' = [S EXCEPT ![n] = "connecting"]
                 /\ status' = "connecting"
                 /\ pingStale' = (pingOwner' # NoSocket)

(* Mutant: a reconnect that is scheduled stays so. *)
disconnectLater(code) ==
    /\ reconnectDisabled' = TRUE
    /\ UNCHANGED reconnectTimer
    /\ authTimer' = "none"
    /\ pingOwner' = NoSocket
    /\ pingStale' = FALSE
    /\ sock' = closed(code)
    /\ ws' = NoSocket
    /\ ready' = FALSE
    /\ status' = "disconnected"
    /\ hello' = hello \ {ws}
    /\ UNCHANGED <<acked, lost>>

(* disconnect(), and most of shutdown(). *)
disconnect(code) ==
    /\ reconnectDisabled' = TRUE
    /\ reconnectTimer' = FALSE
    /\ authTimer' = "none"
    /\ pingOwner' = NoSocket
    /\ pingStale' = FALSE
    /\ sock' = closed(code)
    /\ ws' = NoSocket
    /\ ready' = FALSE
    /\ status' = "disconnected"
    /\ hello' = hello \ {ws}
    /\ UNCHANGED <<acked, lost>>

shutdown(code) ==
    /\ disconnect(code)
    /\ down' = TRUE

(* handleSessionExpired: the user is signed out as well. *)
handleSessionExpired ==
    /\ shutdown("auth")
    /\ loop' = FALSE
    /\ auth' = FALSE
    /\ UNCHANGED <<mounted, cleanup>>

(* scheduleWsReauthReconnect, which debounces: the last reason counts. *)
scheduleWsReauthReconnect(code) ==
    authTimer' = IF down \/ reconnectTimer THEN authTimer ELSE code

-----------------------------------------------------------------------------
Init ==
    /\ ws = NoSocket
    /\ sock = [n \in Socket |-> "none"]
    /\ hello = {} /\ acked = {} /\ lost = {}
    /\ ready = FALSE
    /\ status = "disconnected"
    /\ reconnectTimer = FALSE
    /\ authTimer = "none"
    /\ reconnectDisabled = FALSE
    /\ down = FALSE
    /\ pingOwner = NoSocket
    /\ pingStale = FALSE
    /\ auth = FALSE
    /\ mounted = FALSE
    /\ cleanup = FALSE
    /\ loop = FALSE
    /\ stray = 0
    /\ awaiting = 0
    /\ inFlight = FALSE
    /\ refused = FALSE
    /\ doubled = FALSE

-----------------------------------------------------------------------------
(* Socket events. *)

(* onopen sends HELLO on the socket wsClient refers to by then, if any. *)
Opens(n) ==
    /\ sock[n] = "connecting"
    /\ sock' = [sock EXCEPT ![n] = "open"]
    /\ hello' = IF ws # NoSocket /\ sock'[ws] = "open" THEN hello \cup {ws}
                                                       ELSE hello
    /\ UNCHANGED <<ws, acked, lost, ready, status, timerVars, switchVars,
                   effectVars, refreshVars>>

(* startPingKeepalive, for the socket wsClient refers to. *)
startPingKeepalive ==
    /\ pingOwner' = ws
    /\ pingStale' = FALSE

(* Mutant: the loop that is armed is left alone, and its id overwritten. *)
scheduleProactiveRefreshTwice ==
    /\ stray + awaiting < MaxLoops
    /\ loop' = TRUE
    /\ stray' = IF loop THEN stray + 1 ELSE stray
    /\ doubled' = (doubled \/ stray + awaiting > 0)

(* scheduleProactiveRefreshFromWs, when HELLO_ACK arrives. *)
scheduleProactiveRefresh ==
    /\ loop \/ stray + awaiting < MaxLoops
    /\ loop' = TRUE
    /\ doubled' = (doubled \/ stray + awaiting > 0)
    /\ UNCHANGED stray

HelloAck(n) ==
    /\ sock[n] = "open" /\ n \in hello
    /\ hello' = hello \ {n}
    /\ acked' = acked \cup {n}
    /\ ready' = TRUE
    /\ status' = "connected"
    /\ startPingKeepalive
    /\ scheduleProactiveRefresh
    /\ UNCHANGED <<ws, sock, lost, reconnectTimer, authTimer, switchVars,
                   effectVars, awaiting, inFlight, refused>>

(* HELLO_ALREADY_SENT: another tab of the session came in between.         *)
HelloRefused(n) ==
    /\ sock[n] = "open" /\ n \in hello
    /\ hello' = hello \ {n}
    /\ UNCHANGED <<ws, sock, acked, lost, ready, status, timerVars, switchVars,
                   effectVars, refreshVars>>

(* The server closes the socket, or the connection breaks or never comes   *)
(* about.                                                                  *)
ServerCloses(n, code) ==
    /\ Live(n)
    /\ code \in IF sock[n] = "open" THEN Code ELSE {"normal"}
    /\ sock' = [sock EXCEPT ![n] = code]
    /\ hello' = hello \ {n}
    /\ lost' = lost \ {n}
    /\ UNCHANGED <<ws, acked, ready, status, timerVars, switchVars,
                   effectVars, refreshVars>>

(* What onclose forgets.  It takes the socket wsClient refers to for the   *)
(* one that has closed.                                                    *)
forgets(n) ==
    /\ Closing(n)
    /\ sock' = [sock EXCEPT ![n] = "none"]
    /\ acked' = acked \ {n}
    /\ lost' = IF Live(ws) THEN lost \cup {ws} ELSE lost
    /\ ws' = NoSocket
    /\ ready' = FALSE
    /\ pingOwner' = IF ws \in {NoSocket, pingOwner} THEN NoSocket ELSE pingOwner
    /\ pingStale' = (pingOwner' # NoSocket)

(* Mutant: a session that is not ready yet is not tried again. *)
CloseEventGivesUp(n, code) ==
    /\ code \in {sock[n], "normal"}
    /\ forgets(n)
    /\ IF down \/ code \in {"suspended", "auth"}
         THEN /\ reconnectDisabled' = TRUE
              /\ reconnectTimer' = FALSE
         ELSE /\ UNCHANGED reconnectDisabled
              /\ reconnectTimer' = (reconnectTimer \/ (code = "normal" /\ ~reconnectDisabled))
    /\ down' = (down \/ code = "suspended")
    /\ status' = IF code = "notReady" /\ ~down THEN status ELSE "disconnected"
    /\ loop' = loopAfter(status')
    /\ UNCHANGED <<hello, authTimer, effectVars, stray, awaiting, inFlight,
                   refused, doubled>>

(* onclose.  A close the client has asked for may still end as a broken    *)
(* connection.                                                             *)
CloseEvent(n, code) ==
    /\ code \in {sock[n], "normal"}
    /\ forgets(n)
    /\ IF down \/ code \in {"suspended", "auth"}
         THEN /\ reconnectDisabled' = TRUE
              /\ reconnectTimer' = FALSE
         ELSE /\ UNCHANGED reconnectDisabled
              /\ reconnectTimer' = (reconnectTimer \/ ~reconnectDisabled)
    /\ down' = (down \/ code = "suspended")
    /\ status' = IF code = "notReady" /\ ~down THEN status ELSE "disconnected"
    /\ loop' = loopAfter(status')
    /\ UNCHANGED <<hello, authTimer, effectVars, stray, awaiting, inFlight,
                   refused, doubled>>

(* The account is suspended: the listener signs out, unless the client is  *)
(* shut down already.                                                      *)
Suspended(n) ==
    /\ sock[n] = "open" /\ mounted /\ ~down
    /\ shutdown("normal")
    /\ loop' = loopAfter("disconnected")
    /\ auth' = FALSE
    /\ UNCHANGED <<mounted, cleanup, stray, awaiting, inFlight, refused,
                   doubled>>

-----------------------------------------------------------------------------
(* Timers. *)

(* Mutant: the attempt is left to others. *)
ReconnectTimerIdle ==
    /\ reconnectTimer
    /\ reconnectTimer' = FALSE
    /\ UNCHANGED <<socketVars, authTimer, pingOwner, pingStale, switchVars,
                   effectVars, refreshVars>>

ReconnectTimer ==
    /\ reconnectTimer
    /\ reconnectTimer' = FALSE
    /\ UNCHANGED <<hello, acked, lost, ready, authTimer, pingOwner, down,
                   effectVars, refreshVars>>
    /\ connect(ws, sock, status)

(* Mutant: the socket is dropped without being closed. *)
AuthTimerDropsSocket ==
    /\ authTimer # "none"
    /\ authTimer' = "none"
    /\ IF Live(ws)
         THEN /\ ready' = FALSE /\ pingOwner' = NoSocket
              /\ loop' = loopAfter("disconnected")
              /\ hello' = hello \ {ws}
              /\ connect(NoSocket, sock, "disconnected")
         ELSE /\ UNCHANGED <<ready, pingOwner, loop, hello>>
              /\ IF down THEN UNCHANGED <<ws, sock, status, reconnectDisabled, pingStale>>
                         ELSE connect(ws, sock, status)
    /\ UNCHANGED <<acked, lost, reconnectTimer, down, effectVars, stray,
                   awaiting, inFlight, refused, doubled>>

(* The timer of scheduleWsReauthReconnect does not wait for the close of   *)
(* the socket it replaces.                                                 *)
AuthTimer ==
    /\ authTimer # "none"
    /\ authTimer' = "none"
    /\ IF Live(ws)
         THEN /\ ready' = FALSE /\ pingOwner' = NoSocket
              /\ loop' = loopAfter("disconnected")
              /\ hello' = hello \ {ws}
              /\ connect(NoSocket, closed(authTimer), "disconnected")
         ELSE /\ UNCHANGED <<ready, pingOwner, loop, hello>>
              /\ IF down THEN UNCHANGED <<ws, sock, status, reconnectDisabled, pingStale>>
                         ELSE connect(ws, sock, status)
    /\ UNCHANGED <<acked, lost, reconnectTimer, down, effectVars, stray,
                   awaiting, inFlight, refused, doubled>>

(* A keepalive that finds itself out of date stops. *)
PingTick ==
    /\ pingOwner # NoSocket
    /\ pingStale \/ ws # pingOwner \/ sock[pingOwner] # "open" \/ ~ready
    /\ pingOwner' = NoSocket
    /\ pingStale' = FALSE
    /\ UNCHANGED <<socketVars, reconnectTimer, authTimer, switchVars, effectVars,
                   refreshVars>>

-----------------------------------------------------------------------------
(* The user, the effect and the other tabs. *)

Login ==
    /\ ~auth /\ ~mounted
    /\ auth' = TRUE
    /\ refused' = FALSE
    /\ UNCHANGED <<socketVars, timerVars, switchVars, mounted, cleanup, loop,
                   stray, awaiting, inFlight, doubled>>

(* Logging out, or another account signed in in another tab. *)
Logout(code) ==
    /\ auth
    /\ shutdown(code)
    /\ loop' = loopAfter("disconnected")
    /\ auth' = FALSE
    /\ UNCHANGED <<mounted, cleanup, stray, awaiting, inFlight, refused,
                   doubled>>

EffectRuns ==
    /\ auth /\ ~mounted
    /\ mounted' = TRUE
    /\ cleanup' = FALSE
    /\ down' = FALSE
    /\ UNCHANGED <<hello, acked, lost, ready, reconnectTimer, authTimer,
                   pingOwner, auth, refreshVars>>
    /\ connect(ws, sock, status)

(* The cleanup unsubscribes now and disconnects a task later, unless the   *)
(* effect has run again by then.  The provider may be mounted again while  *)
(* the user stays signed in.                                               *)
EffectCleanup ==
    /\ mounted
    /\ mounted' = FALSE
    /\ cleanup' = TRUE
    /\ UNCHANGED <<socketVars, timerVars, switchVars, auth, refreshVars>>

DeferredDisconnect ==
    /\ cleanup
    /\ cleanup' = FALSE
    /\ disconnect("normal")
    /\ loop' = loopAfter("disconnected")
    /\ UNCHANGED <<down, auth, mounted, stray, awaiting, inFlight, refused,
                   doubled>>

(* A request here or in another tab has refreshed or failed to, or another *)
(* tab has logged out.                                                     *)
AuthChanged(code) ==
    /\ scheduleWsReauthReconnect(code)
    /\ UNCHANGED <<socketVars, reconnectTimer, pingOwner, pingStale, switchVars,
                   effectVars, refreshVars>>

-----------------------------------------------------------------------------
(* Refreshing the access token. *)

(* runWsRefreshLoop, from the timer whose id is kept or from one whose id  *)
(* was overwritten; either way the id is gone.                             *)
runWsRefreshLoop ==
    /\ \/ loop /\ UNCHANGED stray
       \/ stray > 0 /\ stray' = IF loop THEN stray ELSE stray - 1
    /\ loop' = FALSE
    /\ IF refused THEN UNCHANGED <<awaiting, inFlight>>
                  ELSE awaiting' = awaiting + 1 /\ inFlight' = TRUE
    /\ UNCHANGED <<socketVars, timerVars, switchVars, effectVars, refused,
                   doubled>>

(* Mutant: a refusal does not keep it from trying. *)
ensureRefreshAnyway ==
    /\ ~inFlight
    /\ inFlight' = TRUE
    /\ UNCHANGED <<socketVars, timerVars, switchVars, effectVars, loop, stray,
                   awaiting, refused, doubled>>

(* A request refreshes before it is sent or after a 401.                   *)
ensureRefreshBeforeRequest ==
    /\ ~refused /\ ~inFlight
    /\ inFlight' = TRUE
    /\ UNCHANGED <<socketVars, timerVars, switchVars, effectVars, loop, stray,
                   awaiting, refused, doubled>>

(* Every run of the loop that has waited arms a timer, and the last one's  *)
(* id is kept.                                                             *)
loopsGoOn ==
    /\ awaiting' = 0
    /\ loop' = (loop \/ awaiting > 0)
    /\ stray' = IF awaiting = 0 THEN stray
                ELSE stray + awaiting - (IF loop THEN 0 ELSE 1)

(* 401 or 403: the session has ended. *)
RefreshDenied ==
    /\ inFlight
    /\ inFlight' = FALSE
    /\ refused' = TRUE
    /\ awaiting' = 0
    /\ IF awaiting > 0
         THEN handleSessionExpired
         ELSE UNCHANGED <<socketVars, timerVars, switchVars, effectVars, loop>>
    /\ UNCHANGED <<stray, doubled>>

(* 200, or a failure that proves nothing.  A request that has waited tells *)
(* wsClient either way, as other tabs do (AuthChanged).                    *)
RefreshEnds ==
    /\ inFlight
    /\ inFlight' = FALSE
    /\ loopsGoOn
    /\ UNCHANGED <<socketVars, timerVars, switchVars, effectVars, refused, doubled>>

(* A request is answered 401 after a refusal, or once more after a refresh *)
(* that may have been long ago.                                            *)
apiFetch ==
    /\ handleSessionExpired
    /\ UNCHANGED <<stray, awaiting, inFlight, refused, doubled>>

Next ==
    \/ \E n \in Socket :
          \/ Opens(n) \/ HelloAck(n) \/ HelloRefused(n) \/ Suspended(n)
          \/ \E code \in Code : ServerCloses(n, code) \/ CloseEvent(n, code)
    \/ ReconnectTimer \/ AuthTimer \/ PingTick
    \/ Login \/ EffectRuns \/ EffectCleanup \/ DeferredDisconnect
    \/ \E code \in {"auth", "normal"} : Logout(code) \/ AuthChanged(code)
    \/ runWsRefreshLoop \/ ensureRefreshBeforeRequest \/ apiFetch
    \/ RefreshDenied \/ RefreshEnds

(* Close events come, and tasks and timers run.  Whether a socket opens is *)
(* up to the server.                                                       *)
Fairness ==
    /\ \A n \in Socket : WF_vars(\E code \in Code : CloseEvent(n, code))
    /\ WF_vars(ReconnectTimer)
    /\ WF_vars(EffectRuns)

Spec == Init /\ [][Next]_vars /\ Fairness

-----------------------------------------------------------------------------
(* Properties. *)

(* An open socket is the one wsClient refers to, or was abandoned by the   *)
(* close event of another one, which onclose takes for its own: no other   *)
(* path drops a socket without closing it.                                 *)
SocketsAreAccounted ==
    \A n \in Socket : Live(n) => n = ws \/ n \in lost

(* Once reconnecting is disabled no attempt is pending, and a client that  *)
(* is shut down holds no socket.                                           *)
OffIsOff ==
    /\ reconnectDisabled => ~reconnectTimer
    /\ down => reconnectDisabled /\ ws = NoSocket

(* A client that may reconnect is connected or about to try: there is a    *)
(* socket, a close event on its way, or a timer.                           *)
NeverStranded ==
    mounted /\ ~reconnectDisabled =>
       \/ Live(ws) \/ reconnectTimer
       \/ \E n \in Socket : Closing(n)

(* ready means that some socket was greeted and is not known to be gone.   *)
(* The connection in use, once greeted, is ready and kept alive.           *)
ReadyIsEarned ==
    /\ ready => \E n \in acked : sock[n] # "none"
    /\ ws \in acked /\ sock[ws] = "open" =>
          ready /\ pingOwner = ws /\ ~pingStale

(* Whoever waits for a refresh will hear of one that is under way, and     *)
(* after a refusal none is, until the next login.                          *)
WaitersAreServed ==
    /\ awaiting > 0 => inFlight
    /\ inFlight => ~refused

(* A second refresh loop comes only from a HELLO_ACK beside one that was   *)
(* out of its reach: running, or with its id overwritten.                  *)
OneLoop ==
    doubled \/ stray + awaiting + (IF loop THEN 1 ELSE 0) <= 1

(* A user who signs in, and stays signed in, is not left without an        *)
(* attempt to connect, unless a close forbids it.                          *)
KeepsTrying ==
    auth ~> (~auth \/ reconnectDisabled \/ \E n \in Socket : Live(n))

-----------------------------------------------------------------------------
(* The inductive invariant: beside the properties, how many loops there    *)
(* are, and that a socket is acknowledged only after it has opened.        *)
LoopsAreBounded == stray + awaiting + (IF loop THEN 1 ELSE 0) <= MaxLoops

AckedHaveOpened == \A n \in acked : sock[n] \notin {"none", "connecting"}

IInv ==
    /\ TypeOK
    /\ LoopsAreBounded
    /\ AckedHaveOpened
    /\ SocketsAreAccounted
    /\ OffIsOff
    /\ NeverStranded
    /\ ReadyIsEarned
    /\ WaitersAreServed
    /\ OneLoop
=============================================================================
