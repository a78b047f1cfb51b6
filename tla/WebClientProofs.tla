--------------------------- MODULE WebClientProofs ---------------------------
(***************************************************************************)
(* The inductive invariant of WebClient, for any number of sockets and any *)
(* bound on the refresh loops, and the safety properties it implies.  Each *)
(* action has a lemma with one step for each part of the invariant that it *)
(* can disturb.                                                            *)
(***************************************************************************)
EXTENDS WebClient, TLAPS

USE SocketAssumption, LoopAssumption

(* The part of the type invariant that connect and disconnect write. *)
SocketTypes ==
    /\ ws \in Socket \cup {NoSocket}
    /\ sock \in [Socket -> {"none", "connecting", "open"} \cup Code]
    /\ hello \subseteq Socket
    /\ status \in Status
    /\ ready \in BOOLEAN
    /\ reconnectDisabled \in BOOLEAN
    /\ pingOwner \in Socket \cup {NoSocket}
    /\ pingStale \in BOOLEAN

(* closed(code) is again a function from sockets to their states.          *)
LEMMA ClosedType ==
  ASSUME TypeOK, NEW code \in Code
  PROVE  closed(code) \in [Socket -> {"none", "connecting", "open"} \cup Code]
BY DEF TypeOK, closed, Code

(* connect leaves the variables it sets in their types.                    *)
LEMMA ConnectTypes ==
  ASSUME TypeOK, NEW w \in Socket \cup {NoSocket},
         NEW S \in [Socket -> {"none", "connecting", "open"} \cup Code],
         NEW s \in Status, connect(w, S, s),
         pingOwner' \in Socket \cup {NoSocket}, ready' \in BOOLEAN, hello' \subseteq Socket
  PROVE  SocketTypes'
BY DEF TypeOK, connect, Free, SocketTypes, Status

(* So does disconnect.                                                     *)
LEMMA DisconnectTypes ==
  ASSUME TypeOK, NEW code \in Code, disconnect(code)
  PROVE  SocketTypes'
<1>1. closed(code) \in [Socket -> {"none", "connecting", "open"} \cup Code]
  BY ClosedType
<1> QED BY <1>1 DEF TypeOK, disconnect, SocketTypes, Status

-----------------------------------------------------------------------------
(* One lemma for each action. *)

(* A socket that opens keeps the inductive invariant.                      *)
LEMMA OpensStep ==
  ASSUME IInv, NEW n \in Socket, Opens(n)
  PROVE  IInv'
<1>1. TypeOK'
  BY DEF IInv, TypeOK, Opens, Code, Status, socketVars, timerVars, switchVars,
         effectVars, refreshVars
<1>2. AckedHaveOpened'
  BY DEF IInv, TypeOK, AckedHaveOpened, Opens, socketVars, timerVars,
         switchVars, effectVars, refreshVars
<1>3. SocketsAreAccounted'
  BY DEF IInv, TypeOK, SocketsAreAccounted, Opens, Live, socketVars,
         timerVars, switchVars, effectVars, refreshVars
<1>4. NeverStranded'
  BY DEF IInv, TypeOK, NeverStranded, Opens, Live, Closing, Code, socketVars,
         timerVars, switchVars, effectVars, refreshVars
<1>5. ReadyIsEarned'
  BY DEF IInv, TypeOK, ReadyIsEarned, AckedHaveOpened, Opens, socketVars,
         timerVars, switchVars, effectVars, refreshVars
<1>6. LoopsAreBounded' /\ OffIsOff' /\ WaitersAreServed' /\ OneLoop'
  BY DEF IInv, LoopsAreBounded, OffIsOff, WaitersAreServed, OneLoop, Opens,
         socketVars, timerVars, switchVars, effectVars, refreshVars
<1> QED BY <1>1, <1>2, <1>3, <1>4, <1>5, <1>6 DEF IInv

(* A HELLO that is acknowledged keeps the inductive invariant.             *)
LEMMA HelloAckStep ==
  ASSUME IInv, NEW n \in Socket, HelloAck(n)
  PROVE  IInv'
<1>1. TypeOK'
  BY DEF IInv, TypeOK, HelloAck, startPingKeepalive, scheduleProactiveRefresh,
         Code, Status, socketVars, timerVars, switchVars, effectVars,
         refreshVars
<1>2. LoopsAreBounded'
  BY DEF IInv, TypeOK, LoopsAreBounded, HelloAck, startPingKeepalive,
         scheduleProactiveRefresh, socketVars, timerVars, switchVars,
         effectVars, refreshVars
<1>3. AckedHaveOpened'
  BY DEF IInv, TypeOK, AckedHaveOpened, HelloAck, startPingKeepalive,
         scheduleProactiveRefresh, socketVars, timerVars, switchVars,
         effectVars, refreshVars
<1>4. ReadyIsEarned'
  BY DEF IInv, TypeOK, ReadyIsEarned, HelloAck, startPingKeepalive,
         scheduleProactiveRefresh, socketVars, timerVars, switchVars,
         effectVars, refreshVars
<1>5. OneLoop'
  <2>1. CASE stray + awaiting > 0
    BY <2>1 DEF HelloAck, scheduleProactiveRefresh, OneLoop
  <2>2. CASE ~(stray + awaiting > 0)
    <3>1. stray' + awaiting' = 0 /\ loop'
      BY <2>2 DEF IInv, TypeOK, HelloAck, scheduleProactiveRefresh
    <3> QED BY <3>1 DEF OneLoop
  <2> QED BY <2>1, <2>2
<1>6. SocketsAreAccounted' /\ OffIsOff' /\ NeverStranded' /\ WaitersAreServed'
  BY DEF IInv, SocketsAreAccounted, OffIsOff, NeverStranded, WaitersAreServed,
         Live, Closing, Code, HelloAck, startPingKeepalive,
         scheduleProactiveRefresh, socketVars, timerVars, switchVars,
         effectVars, refreshVars
<1> QED BY <1>1, <1>2, <1>3, <1>4, <1>5, <1>6 DEF IInv

(* A HELLO that is refused keeps the inductive invariant.                  *)
LEMMA HelloRefusedStep ==
  ASSUME IInv, NEW n \in Socket, HelloRefused(n)
  PROVE  IInv'
<1>1. TypeOK'
  BY DEF IInv, TypeOK, HelloRefused, Code, Status, socketVars, timerVars,
         switchVars, effectVars, refreshVars
<1>2. LoopsAreBounded' /\ AckedHaveOpened' /\ SocketsAreAccounted' /\ OffIsOff' /\ NeverStranded' /\ ReadyIsEarned' /\ WaitersAreServed' /\ OneLoop'
  BY DEF IInv, LoopsAreBounded, AckedHaveOpened, SocketsAreAccounted,
         OffIsOff, NeverStranded, ReadyIsEarned, WaitersAreServed, OneLoop,
         Live, Closing, Code, HelloRefused, socketVars, timerVars, switchVars,
         effectVars, refreshVars
<1> QED BY <1>1, <1>2 DEF IInv

(* A close by the server keeps the inductive invariant.                    *)
LEMMA ServerClosesStep ==
  ASSUME IInv, NEW n \in Socket, NEW code \in Code, ServerCloses(n, code)
  PROVE  IInv'
<1>1. TypeOK'
  BY DEF IInv, TypeOK, ServerCloses, Code, Status, socketVars, timerVars,
         switchVars, effectVars, refreshVars
<1>2. AckedHaveOpened'
  BY DEF IInv, TypeOK, AckedHaveOpened, Code, ServerCloses, socketVars,
         timerVars, switchVars, effectVars, refreshVars
<1>3. SocketsAreAccounted'
  BY DEF IInv, TypeOK, SocketsAreAccounted, Code, ServerCloses, Live,
         socketVars, timerVars, switchVars, effectVars, refreshVars
<1>4. NeverStranded'
  BY DEF IInv, TypeOK, NeverStranded, ServerCloses, Live, Closing, Code,
         socketVars, timerVars, switchVars, effectVars, refreshVars
<1>5. ReadyIsEarned'
  BY DEF IInv, TypeOK, ReadyIsEarned, Code, ServerCloses, socketVars,
         timerVars, switchVars, effectVars, refreshVars
<1>6. LoopsAreBounded' /\ OffIsOff' /\ WaitersAreServed' /\ OneLoop'
  BY DEF IInv, LoopsAreBounded, OffIsOff, WaitersAreServed, OneLoop,
         ServerCloses, socketVars, timerVars, switchVars, effectVars,
         refreshVars
<1> QED BY <1>1, <1>2, <1>3, <1>4, <1>5, <1>6 DEF IInv

(* onclose, which takes any socket for its own, keeps the inductive        *)
(* invariant.                                                              *)
LEMMA CloseEventStep ==
  ASSUME IInv, NEW n \in Socket, NEW code \in Code, CloseEvent(n, code)
  PROVE  IInv'
<1>1. TypeOK'
  <2>1. /\ ws' \in Socket \cup {NoSocket} /\ pingOwner' \in Socket \cup {NoSocket}
        /\ sock' \in [Socket -> {"none", "connecting", "open"} \cup Code]
        /\ acked' \subseteq Socket /\ lost' \subseteq Socket
    BY DEF IInv, TypeOK, CloseEvent, forgets, Live
  <2>2. ready' \in BOOLEAN /\ pingStale' \in BOOLEAN /\ status' \in Status
    BY DEF IInv, TypeOK, CloseEvent, forgets, Status
  <2>3. /\ reconnectTimer' \in BOOLEAN /\ reconnectDisabled' \in BOOLEAN
        /\ down' \in BOOLEAN /\ loop' \in BOOLEAN
    BY DEF IInv, TypeOK, CloseEvent, loopAfter
  <2> QED BY <2>1, <2>2, <2>3 DEF IInv, TypeOK, CloseEvent, effectVars
<1>2. LoopsAreBounded'
  BY DEF IInv, TypeOK, LoopsAreBounded, CloseEvent, forgets, loopAfter,
         socketVars, timerVars, switchVars, effectVars, refreshVars
<1>3. AckedHaveOpened'
  BY DEF IInv, TypeOK, AckedHaveOpened, CloseEvent, forgets, loopAfter,
         socketVars, timerVars, switchVars, effectVars, refreshVars
<1>4. SocketsAreAccounted'
  BY DEF IInv, TypeOK, SocketsAreAccounted, CloseEvent, forgets, loopAfter,
         Live, socketVars, timerVars, switchVars, effectVars, refreshVars
<1>5. OffIsOff'
  BY DEF IInv, TypeOK, OffIsOff, CloseEvent, forgets, loopAfter, socketVars,
         timerVars, switchVars, effectVars, refreshVars
<1>6. NeverStranded'
  BY DEF IInv, TypeOK, NeverStranded, CloseEvent, forgets, loopAfter, Live,
         Closing, Code, socketVars, timerVars, switchVars, effectVars,
         refreshVars
<1>7. ReadyIsEarned'
  BY DEF IInv, TypeOK, ReadyIsEarned, CloseEvent, forgets, loopAfter,
         socketVars, timerVars, switchVars, effectVars, refreshVars
<1>8. OneLoop'
  BY DEF IInv, TypeOK, OneLoop, CloseEvent, forgets, loopAfter, socketVars,
         timerVars, switchVars, effectVars, refreshVars
<1>9. WaitersAreServed'
  BY DEF IInv, WaitersAreServed, CloseEvent, forgets, loopAfter, socketVars,
         timerVars, switchVars, effectVars, refreshVars
<1> QED BY <1>1, <1>2, <1>3, <1>4, <1>5, <1>6, <1>7, <1>8, <1>9 DEF IInv

(* The notice of a suspension keeps the inductive invariant.               *)
LEMMA SuspendedStep ==
  ASSUME IInv, NEW n \in Socket, Suspended(n)
  PROVE  IInv'
<1>1. TypeOK'
  BY DEF IInv, TypeOK, Suspended, shutdown, disconnect, closed, loopAfter,
         Code, Status, socketVars, timerVars, switchVars, effectVars,
         refreshVars
<1>2. LoopsAreBounded'
  BY DEF IInv, TypeOK, LoopsAreBounded, Suspended, shutdown, disconnect,
         closed, loopAfter, socketVars, timerVars, switchVars, effectVars,
         refreshVars
<1>3. AckedHaveOpened'
  BY DEF IInv, TypeOK, AckedHaveOpened, Suspended, shutdown, disconnect,
         closed, loopAfter, socketVars, timerVars, switchVars, effectVars,
         refreshVars
<1>4. SocketsAreAccounted'
  BY DEF IInv, TypeOK, SocketsAreAccounted, Suspended, shutdown, disconnect,
         closed, loopAfter, Live, socketVars, timerVars, switchVars,
         effectVars, refreshVars
<1>5. OffIsOff'
  BY DEF IInv, TypeOK, OffIsOff, Suspended, shutdown, disconnect, closed,
         loopAfter, socketVars, timerVars, switchVars, effectVars, refreshVars
<1>6. NeverStranded'
  BY DEF IInv, TypeOK, NeverStranded, Suspended, shutdown, disconnect, closed,
         loopAfter, Live, Closing, Code, socketVars, timerVars, switchVars,
         effectVars, refreshVars
<1>7. ReadyIsEarned'
  BY DEF IInv, TypeOK, ReadyIsEarned, Suspended, shutdown, disconnect, closed,
         loopAfter, socketVars, timerVars, switchVars, effectVars, refreshVars
<1>8. OneLoop'
  BY DEF IInv, TypeOK, OneLoop, Suspended, shutdown, disconnect, closed,
         loopAfter, socketVars, timerVars, switchVars, effectVars, refreshVars
<1>9. WaitersAreServed'
  BY DEF IInv, WaitersAreServed, Suspended, shutdown, disconnect, closed,
         loopAfter, socketVars, timerVars, switchVars, effectVars, refreshVars
<1> QED BY <1>1, <1>2, <1>3, <1>4, <1>5, <1>6, <1>7, <1>8, <1>9 DEF IInv

(* The reconnect timer keeps the inductive invariant.                      *)
LEMMA ReconnectTimerStep ==
  ASSUME IInv, ReconnectTimer
  PROVE  IInv'
<1>1. TypeOK'
  <2>1. status \in Status /\ ws \in Socket \cup {NoSocket}
    BY DEF IInv, TypeOK
  <2>2. pingOwner' = pingOwner
    BY DEF ReconnectTimer
  <2>3. SocketTypes'
    BY <2>1, <2>2, ConnectTypes DEF ReconnectTimer, IInv, TypeOK
  <2> QED BY <2>3 DEF SocketTypes, ReconnectTimer, IInv, TypeOK, effectVars, refreshVars
<1>2. AckedHaveOpened'
  BY DEF IInv, TypeOK, AckedHaveOpened, ReconnectTimer, connect, Free,
         socketVars, timerVars, switchVars, effectVars, refreshVars
<1>3. SocketsAreAccounted'
  BY DEF IInv, TypeOK, SocketsAreAccounted, ReconnectTimer, connect, Free,
         Live, socketVars, timerVars, switchVars, effectVars, refreshVars
<1>4. OffIsOff'
  BY DEF IInv, TypeOK, OffIsOff, ReconnectTimer, connect, Free, socketVars,
         timerVars, switchVars, effectVars, refreshVars
<1>5. NeverStranded'
  BY DEF IInv, TypeOK, NeverStranded, ReconnectTimer, connect, Free, Live,
         Closing, Code, socketVars, timerVars, switchVars, effectVars,
         refreshVars
<1>6. ReadyIsEarned'
  BY DEF IInv, TypeOK, ReadyIsEarned, ReconnectTimer, connect, Free,
         socketVars, timerVars, switchVars, effectVars, refreshVars
<1>7. LoopsAreBounded' /\ WaitersAreServed' /\ OneLoop'
  BY DEF IInv, LoopsAreBounded, WaitersAreServed, OneLoop, ReconnectTimer,
         connect, Free, socketVars, timerVars, switchVars, effectVars,
         refreshVars
<1> QED BY <1>1, <1>2, <1>3, <1>4, <1>5, <1>6, <1>7 DEF IInv

(* The timer that replaces the socket keeps the inductive invariant.       *)
LEMMA AuthTimerStep ==
  ASSUME IInv, AuthTimer
  PROVE  IInv'
<1>1. TypeOK'
  <2>1. /\ status \in Status /\ ws \in Socket \cup {NoSocket}
        /\ "disconnected" \in Status /\ authTimer \in Code
    BY DEF IInv, TypeOK, Status, AuthTimer, Code
  <2>2. closed(authTimer) \in [Socket -> {"none", "connecting", "open"} \cup Code]
    BY <2>1, ClosedType DEF IInv
  <2>3. CASE Live(ws)
    <3>1. /\ connect(NoSocket, closed(authTimer), "disconnected")
          /\ pingOwner' \in Socket \cup {NoSocket} /\ ready' \in BOOLEAN
          /\ hello' \subseteq Socket
      BY <2>3 DEF AuthTimer, IInv, TypeOK
    <3>2. SocketTypes'
      BY <2>1, <2>2, <3>1, ConnectTypes DEF IInv
    <3>3. loop' \in BOOLEAN
      BY <2>3 DEF AuthTimer, loopAfter, IInv, TypeOK
    <3>4. /\ authTimer' = "none"
          /\ UNCHANGED <<acked, lost, reconnectTimer, down, effectVars, stray,
                        awaiting, inFlight, refused, doubled>>
      BY DEF AuthTimer
    <3> QED BY <3>2, <3>3, <3>4 DEF SocketTypes, IInv, TypeOK, effectVars
  <2>4. CASE ~Live(ws) /\ down
    BY <2>4 DEF AuthTimer, IInv, TypeOK, effectVars
  <2>5. CASE ~Live(ws) /\ ~down
    <3>1. SocketTypes'
      BY <2>1, <2>5, ConnectTypes DEF AuthTimer, IInv, TypeOK
    <3> QED BY <2>5, <3>1 DEF SocketTypes, AuthTimer, IInv, TypeOK, effectVars
  <2> QED BY <2>3, <2>4, <2>5
<1>2. LoopsAreBounded'
  BY DEF IInv, TypeOK, LoopsAreBounded, AuthTimer, connect, closed, Free,
         loopAfter, socketVars, timerVars, switchVars, effectVars, refreshVars
<1>3. AckedHaveOpened'
  BY DEF IInv, TypeOK, AckedHaveOpened, AuthTimer, connect, closed, Free,
         loopAfter, socketVars, timerVars, switchVars, effectVars, refreshVars
<1>4. SocketsAreAccounted'
  BY DEF IInv, TypeOK, SocketsAreAccounted, AuthTimer, connect, closed, Free,
         loopAfter, Live, socketVars, timerVars, switchVars, effectVars,
         refreshVars
<1>5. OffIsOff'
  BY DEF IInv, TypeOK, OffIsOff, Live, AuthTimer, connect, closed, Free,
         loopAfter, socketVars, timerVars, switchVars, effectVars, refreshVars
<1>6. NeverStranded'
  BY DEF IInv, TypeOK, NeverStranded, AuthTimer, connect, closed, Free,
         loopAfter, Live, Closing, Code, socketVars, timerVars, switchVars,
         effectVars, refreshVars
<1>7. ReadyIsEarned'
  BY DEF IInv, TypeOK, ReadyIsEarned, AuthTimer, connect, closed, Free,
         loopAfter, socketVars, timerVars, switchVars, effectVars, refreshVars
<1>8. OneLoop'
  BY DEF IInv, TypeOK, OneLoop, AuthTimer, connect, closed, Free, loopAfter,
         socketVars, timerVars, switchVars, effectVars, refreshVars
<1>9. WaitersAreServed'
  BY DEF IInv, WaitersAreServed, AuthTimer, connect, closed, Free, loopAfter,
         socketVars, timerVars, switchVars, effectVars, refreshVars
<1> QED BY <1>1, <1>2, <1>3, <1>4, <1>5, <1>6, <1>7, <1>8, <1>9 DEF IInv

(* A keepalive that stops keeps the inductive invariant.                   *)
LEMMA PingTickStep ==
  ASSUME IInv, PingTick
  PROVE  IInv'
<1>1. TypeOK'
  <2>1. /\ pingOwner' \in Socket \cup {NoSocket}
        /\ pingStale' \in BOOLEAN
    BY DEF IInv, TypeOK, LoopsAreBounded, PingTick, Code, Status, socketVars,
           timerVars, switchVars, effectVars, refreshVars
  <2> QED BY <2>1 DEF IInv, TypeOK, PingTick, socketVars, timerVars,
           switchVars, effectVars, refreshVars
<1>2. ReadyIsEarned'
  BY DEF IInv, TypeOK, ReadyIsEarned, PingTick, socketVars, timerVars,
         switchVars, effectVars, refreshVars
<1>3. LoopsAreBounded' /\ AckedHaveOpened' /\ SocketsAreAccounted' /\ OffIsOff' /\ NeverStranded' /\ WaitersAreServed' /\ OneLoop'
  BY DEF IInv, LoopsAreBounded, AckedHaveOpened, SocketsAreAccounted,
         OffIsOff, NeverStranded, WaitersAreServed, OneLoop, Live, Closing,
         Code, PingTick, socketVars, timerVars, switchVars, effectVars,
         refreshVars
<1> QED BY <1>1, <1>2, <1>3 DEF IInv

(* Signing in keeps the inductive invariant.                               *)
LEMMA LoginStep ==
  ASSUME IInv, Login
  PROVE  IInv'
<1>1. TypeOK'
  <2>1. /\ auth' \in BOOLEAN
        /\ refused' \in BOOLEAN
    BY DEF IInv, TypeOK, LoopsAreBounded, Login, Code, Status, socketVars,
           timerVars, switchVars, effectVars, refreshVars
  <2> QED BY <2>1 DEF IInv, TypeOK, Login, socketVars, timerVars, switchVars,
           effectVars, refreshVars
<1>2. WaitersAreServed'
  BY DEF IInv, TypeOK, WaitersAreServed, Login, socketVars, timerVars,
         switchVars, effectVars, refreshVars
<1>3. LoopsAreBounded' /\ AckedHaveOpened' /\ SocketsAreAccounted' /\ OffIsOff' /\ NeverStranded' /\ ReadyIsEarned' /\ OneLoop'
  BY DEF IInv, LoopsAreBounded, AckedHaveOpened, SocketsAreAccounted,
         OffIsOff, NeverStranded, ReadyIsEarned, OneLoop, Live, Closing, Code,
         Login, socketVars, timerVars, switchVars, effectVars, refreshVars
<1> QED BY <1>1, <1>2, <1>3 DEF IInv

(* Signing out keeps the inductive invariant.                              *)
LEMMA LogoutStep ==
  ASSUME IInv, NEW code \in {"auth", "normal"}, Logout(code)
  PROVE  IInv'
<1>1. TypeOK'
  BY DEF IInv, TypeOK, Logout, shutdown, disconnect, closed, loopAfter, Code,
         Status, socketVars, timerVars, switchVars, effectVars, refreshVars
<1>2. LoopsAreBounded'
  BY DEF IInv, TypeOK, LoopsAreBounded, Logout, shutdown, disconnect, closed,
         loopAfter, socketVars, timerVars, switchVars, effectVars, refreshVars
<1>3. AckedHaveOpened'
  BY DEF IInv, TypeOK, AckedHaveOpened, Logout, shutdown, disconnect, closed,
         loopAfter, socketVars, timerVars, switchVars, effectVars, refreshVars
<1>4. SocketsAreAccounted'
  BY DEF IInv, TypeOK, SocketsAreAccounted, Logout, shutdown, disconnect,
         closed, loopAfter, Live, socketVars, timerVars, switchVars,
         effectVars, refreshVars
<1>5. OffIsOff'
  BY DEF IInv, TypeOK, OffIsOff, Logout, shutdown, disconnect, closed,
         loopAfter, socketVars, timerVars, switchVars, effectVars, refreshVars
<1>6. NeverStranded'
  BY DEF IInv, TypeOK, NeverStranded, Logout, shutdown, disconnect, closed,
         loopAfter, Live, Closing, Code, socketVars, timerVars, switchVars,
         effectVars, refreshVars
<1>7. ReadyIsEarned'
  BY DEF IInv, TypeOK, ReadyIsEarned, Logout, shutdown, disconnect, closed,
         loopAfter, socketVars, timerVars, switchVars, effectVars, refreshVars
<1>8. OneLoop'
  BY DEF IInv, TypeOK, OneLoop, Logout, shutdown, disconnect, closed,
         loopAfter, socketVars, timerVars, switchVars, effectVars, refreshVars
<1>9. WaitersAreServed'
  BY DEF IInv, WaitersAreServed, Logout, shutdown, disconnect, closed,
         loopAfter, socketVars, timerVars, switchVars, effectVars, refreshVars
<1> QED BY <1>1, <1>2, <1>3, <1>4, <1>5, <1>6, <1>7, <1>8, <1>9 DEF IInv

(* The effect keeps the inductive invariant.                               *)
LEMMA EffectRunsStep ==
  ASSUME IInv, EffectRuns
  PROVE  IInv'
<1>1. TypeOK'
  BY DEF IInv, TypeOK, EffectRuns, connect, Free, Code, Status, socketVars,
         timerVars, switchVars, effectVars, refreshVars
<1>2. AckedHaveOpened'
  BY DEF IInv, TypeOK, AckedHaveOpened, EffectRuns, connect, Free, socketVars,
         timerVars, switchVars, effectVars, refreshVars
<1>3. SocketsAreAccounted'
  BY DEF IInv, TypeOK, SocketsAreAccounted, EffectRuns, connect, Free, Live,
         socketVars, timerVars, switchVars, effectVars, refreshVars
<1>4. OffIsOff'
  BY DEF IInv, TypeOK, OffIsOff, EffectRuns, connect, Free, socketVars,
         timerVars, switchVars, effectVars, refreshVars
<1>5. NeverStranded'
  BY DEF IInv, TypeOK, NeverStranded, EffectRuns, connect, Free, Live,
         Closing, Code, socketVars, timerVars, switchVars, effectVars,
         refreshVars
<1>6. ReadyIsEarned'
  BY DEF IInv, TypeOK, ReadyIsEarned, EffectRuns, connect, Free, socketVars,
         timerVars, switchVars, effectVars, refreshVars
<1>7. LoopsAreBounded' /\ WaitersAreServed' /\ OneLoop'
  BY DEF IInv, LoopsAreBounded, WaitersAreServed, OneLoop, EffectRuns,
         connect, Free, socketVars, timerVars, switchVars, effectVars,
         refreshVars
<1> QED BY <1>1, <1>2, <1>3, <1>4, <1>5, <1>6, <1>7 DEF IInv

(* The effect's cleanup keeps the inductive invariant.                     *)
LEMMA EffectCleanupStep ==
  ASSUME IInv, EffectCleanup
  PROVE  IInv'
<1>1. TypeOK'
  <2>1. /\ mounted' \in BOOLEAN
        /\ cleanup' \in BOOLEAN
    BY DEF IInv, TypeOK, LoopsAreBounded, EffectCleanup, Code, Status,
           socketVars, timerVars, switchVars, effectVars, refreshVars
  <2> QED BY <2>1 DEF IInv, TypeOK, EffectCleanup, socketVars, timerVars,
           switchVars, effectVars, refreshVars
<1>2. NeverStranded'
  BY DEF IInv, TypeOK, NeverStranded, EffectCleanup, Live, Closing, Code,
         socketVars, timerVars, switchVars, effectVars, refreshVars
<1>3. LoopsAreBounded' /\ AckedHaveOpened' /\ SocketsAreAccounted' /\ OffIsOff' /\ ReadyIsEarned' /\ WaitersAreServed' /\ OneLoop'
  BY DEF IInv, LoopsAreBounded, AckedHaveOpened, SocketsAreAccounted,
         OffIsOff, ReadyIsEarned, WaitersAreServed, OneLoop, Live,
         EffectCleanup, socketVars, timerVars, switchVars, effectVars,
         refreshVars
<1> QED BY <1>1, <1>2, <1>3 DEF IInv

(* The disconnect it leaves for later keeps the inductive invariant.       *)
LEMMA DeferredDisconnectStep ==
  ASSUME IInv, DeferredDisconnect
  PROVE  IInv'
<1>1. TypeOK'
  BY DEF IInv, TypeOK, DeferredDisconnect, disconnect, closed, loopAfter,
         Code, Status, socketVars, timerVars, switchVars, effectVars,
         refreshVars
<1>2. LoopsAreBounded'
  BY DEF IInv, TypeOK, LoopsAreBounded, DeferredDisconnect, disconnect,
         closed, loopAfter, socketVars, timerVars, switchVars, effectVars,
         refreshVars
<1>3. AckedHaveOpened'
  BY DEF IInv, TypeOK, AckedHaveOpened, DeferredDisconnect, disconnect,
         closed, loopAfter, socketVars, timerVars, switchVars, effectVars,
         refreshVars
<1>4. SocketsAreAccounted'
  BY DEF IInv, TypeOK, SocketsAreAccounted, DeferredDisconnect, disconnect,
         closed, loopAfter, Live, socketVars, timerVars, switchVars,
         effectVars, refreshVars
<1>5. OffIsOff'
  BY DEF IInv, TypeOK, OffIsOff, DeferredDisconnect, disconnect, closed,
         loopAfter, socketVars, timerVars, switchVars, effectVars, refreshVars
<1>6. NeverStranded'
  BY DEF IInv, TypeOK, NeverStranded, DeferredDisconnect, disconnect, closed,
         loopAfter, Live, Closing, Code, socketVars, timerVars, switchVars,
         effectVars, refreshVars
<1>7. ReadyIsEarned'
  BY DEF IInv, TypeOK, ReadyIsEarned, DeferredDisconnect, disconnect, closed,
         loopAfter, socketVars, timerVars, switchVars, effectVars, refreshVars
<1>8. OneLoop'
  BY DEF IInv, TypeOK, OneLoop, DeferredDisconnect, disconnect, closed,
         loopAfter, socketVars, timerVars, switchVars, effectVars, refreshVars
<1>9. WaitersAreServed'
  BY DEF IInv, WaitersAreServed, DeferredDisconnect, disconnect, closed,
         loopAfter, socketVars, timerVars, switchVars, effectVars, refreshVars
<1> QED BY <1>1, <1>2, <1>3, <1>4, <1>5, <1>6, <1>7, <1>8, <1>9 DEF IInv

(* A changed token keeps the inductive invariant.                          *)
LEMMA AuthChangedStep ==
  ASSUME IInv, NEW code \in {"auth", "normal"}, AuthChanged(code)
  PROVE  IInv'
<1>1. TypeOK'
  BY DEF IInv, TypeOK, AuthChanged, scheduleWsReauthReconnect, Code, Status,
         socketVars, timerVars, switchVars, effectVars, refreshVars
<1>2. LoopsAreBounded' /\ AckedHaveOpened' /\ SocketsAreAccounted' /\ OffIsOff' /\ NeverStranded' /\ ReadyIsEarned' /\ WaitersAreServed' /\ OneLoop'
  BY DEF IInv, LoopsAreBounded, AckedHaveOpened, SocketsAreAccounted,
         OffIsOff, NeverStranded, ReadyIsEarned, WaitersAreServed, OneLoop,
         Live, Closing, Code, AuthChanged, scheduleWsReauthReconnect,
         socketVars, timerVars, switchVars, effectVars, refreshVars
<1> QED BY <1>1, <1>2 DEF IInv

(* A run of the refresh loop keeps the inductive invariant.                *)
LEMMA RunWsRefreshLoopStep ==
  ASSUME IInv, runWsRefreshLoop
  PROVE  IInv'
<1>1. TypeOK'
  <2>1. stray' \in 0..MaxLoops /\ awaiting' \in 0..MaxLoops
    <3>1. CASE loop
      BY <3>1 DEF IInv, TypeOK, LoopsAreBounded, runWsRefreshLoop
    <3>2. CASE ~loop
      BY <3>2 DEF IInv, TypeOK, LoopsAreBounded, runWsRefreshLoop
    <3> QED BY <3>1, <3>2
  <2>2. loop' \in BOOLEAN /\ inFlight' \in BOOLEAN
    BY DEF IInv, TypeOK, runWsRefreshLoop
  <2> QED BY <2>1, <2>2 DEF IInv, TypeOK, runWsRefreshLoop, socketVars, timerVars,
                            switchVars, effectVars
<1>2. LoopsAreBounded'
  BY DEF IInv, TypeOK, LoopsAreBounded, runWsRefreshLoop, socketVars,
         timerVars, switchVars, effectVars, refreshVars
<1>3. WaitersAreServed'
  BY DEF IInv, TypeOK, WaitersAreServed, runWsRefreshLoop, socketVars,
         timerVars, switchVars, effectVars, refreshVars
<1>4. OneLoop'
  BY DEF IInv, TypeOK, OneLoop, runWsRefreshLoop, socketVars, timerVars,
         switchVars, effectVars, refreshVars
<1>5. AckedHaveOpened' /\ SocketsAreAccounted' /\ OffIsOff' /\ NeverStranded' /\ ReadyIsEarned'
  BY DEF IInv, AckedHaveOpened, SocketsAreAccounted, OffIsOff, NeverStranded,
         ReadyIsEarned, Live, Closing, Code, runWsRefreshLoop, socketVars,
         timerVars, switchVars, effectVars, refreshVars
<1> QED BY <1>1, <1>2, <1>3, <1>4, <1>5 DEF IInv

(* A refresh before a request keeps the inductive invariant.               *)
LEMMA EnsureRefreshBeforeRequestStep ==
  ASSUME IInv, ensureRefreshBeforeRequest
  PROVE  IInv'
<1>1. TypeOK'
  BY DEF IInv, TypeOK, ensureRefreshBeforeRequest, Code, Status, socketVars,
         timerVars, switchVars, effectVars, refreshVars
<1>2. WaitersAreServed'
  BY DEF IInv, TypeOK, WaitersAreServed, ensureRefreshBeforeRequest,
         socketVars, timerVars, switchVars, effectVars, refreshVars
<1>3. LoopsAreBounded' /\ AckedHaveOpened' /\ SocketsAreAccounted' /\ OffIsOff' /\ NeverStranded' /\ ReadyIsEarned' /\ OneLoop'
  BY DEF IInv, LoopsAreBounded, AckedHaveOpened, SocketsAreAccounted,
         OffIsOff, NeverStranded, ReadyIsEarned, OneLoop, Live, Closing, Code,
         ensureRefreshBeforeRequest, socketVars, timerVars, switchVars,
         effectVars, refreshVars
<1> QED BY <1>1, <1>2, <1>3 DEF IInv

(* A refused refresh keeps the inductive invariant.                        *)
LEMMA RefreshDeniedStep ==
  ASSUME IInv, RefreshDenied
  PROVE  IInv'
<1>1. TypeOK'
  <2>1. CASE awaiting > 0
    <3>1. /\ disconnect("auth") /\ "auth" \in Code
          /\ loop' = FALSE /\ auth' = FALSE /\ down' = TRUE
          /\ UNCHANGED <<mounted, cleanup>>
      BY <2>1 DEF RefreshDenied, handleSessionExpired, shutdown, Code
    <3>2. SocketTypes'
      BY <3>1, DisconnectTypes DEF IInv
    <3>3. /\ reconnectTimer' = FALSE /\ authTimer' = "none"
          /\ UNCHANGED <<acked, lost>>
      BY <3>1 DEF disconnect
    <3>4. /\ inFlight' \in BOOLEAN /\ refused' \in BOOLEAN
          /\ UNCHANGED <<stray, doubled>>
      BY DEF RefreshDenied
    <3>5. awaiting' \in 0..MaxLoops
      BY DEF RefreshDenied
    <3>6. TypeOK
      BY DEF IInv
    <3> QED BY <3>1, <3>2, <3>3, <3>4, <3>5, <3>6 DEF SocketTypes, TypeOK
  <2>2. CASE ~(awaiting > 0)
    <3>1. UNCHANGED <<socketVars, timerVars, switchVars, effectVars, loop>>
      BY <2>2 DEF RefreshDenied
    <3>2. /\ inFlight' \in BOOLEAN /\ refused' \in BOOLEAN
          /\ UNCHANGED <<stray, doubled>>
      BY DEF RefreshDenied
    <3>3. awaiting' \in 0..MaxLoops
      BY DEF RefreshDenied
    <3>4. TypeOK
      BY DEF IInv
    <3> QED BY <3>1, <3>2, <3>3, <3>4 DEF TypeOK, socketVars, timerVars,
                                          switchVars, effectVars
  <2> QED BY <2>1, <2>2
<1>2. LoopsAreBounded'
  BY DEF IInv, TypeOK, LoopsAreBounded, RefreshDenied, handleSessionExpired,
         shutdown, disconnect, closed, socketVars, timerVars, switchVars,
         effectVars, refreshVars
<1>3. AckedHaveOpened'
  BY DEF IInv, TypeOK, AckedHaveOpened, RefreshDenied, handleSessionExpired,
         shutdown, disconnect, closed, socketVars, timerVars, switchVars,
         effectVars, refreshVars
<1>4. SocketsAreAccounted'
  BY DEF IInv, TypeOK, SocketsAreAccounted, RefreshDenied,
         handleSessionExpired, shutdown, disconnect, closed, Live, socketVars,
         timerVars, switchVars, effectVars, refreshVars
<1>5. OffIsOff'
  BY DEF IInv, TypeOK, OffIsOff, RefreshDenied, handleSessionExpired,
         shutdown, disconnect, closed, socketVars, timerVars, switchVars,
         effectVars, refreshVars
<1>6. NeverStranded'
  BY DEF IInv, TypeOK, NeverStranded, RefreshDenied, handleSessionExpired,
         shutdown, disconnect, closed, Live, Closing, Code, socketVars,
         timerVars, switchVars, effectVars, refreshVars
<1>7. ReadyIsEarned'
  BY DEF IInv, TypeOK, ReadyIsEarned, RefreshDenied, handleSessionExpired,
         shutdown, disconnect, closed, socketVars, timerVars, switchVars,
         effectVars, refreshVars
<1>8. WaitersAreServed'
  BY DEF IInv, TypeOK, WaitersAreServed, RefreshDenied, handleSessionExpired,
         shutdown, disconnect, closed, socketVars, timerVars, switchVars,
         effectVars, refreshVars
<1>9. OneLoop'
  BY DEF IInv, TypeOK, OneLoop, RefreshDenied, handleSessionExpired, shutdown,
         disconnect, closed, socketVars, timerVars, switchVars, effectVars,
         refreshVars
<1> QED BY <1>1, <1>2, <1>3, <1>4, <1>5, <1>6, <1>7, <1>8, <1>9 DEF IInv

(* A refresh that ends keeps the inductive invariant.                      *)
LEMMA RefreshEndsStep ==
  ASSUME IInv, RefreshEnds
  PROVE  IInv'
<1>1. TypeOK'
  <2>1. stray' \in 0..MaxLoops /\ awaiting' \in 0..MaxLoops
    <3>1. CASE loop
      BY <3>1 DEF IInv, TypeOK, LoopsAreBounded, RefreshEnds, loopsGoOn
    <3>2. CASE ~loop
      BY <3>2 DEF IInv, TypeOK, LoopsAreBounded, RefreshEnds, loopsGoOn
    <3> QED BY <3>1, <3>2
  <2>2. loop' \in BOOLEAN /\ inFlight' \in BOOLEAN
    BY DEF IInv, TypeOK, RefreshEnds, loopsGoOn
  <2> QED BY <2>1, <2>2 DEF IInv, TypeOK, RefreshEnds, socketVars, timerVars,
                            switchVars, effectVars
<1>2. LoopsAreBounded'
  BY DEF IInv, TypeOK, LoopsAreBounded, RefreshEnds, loopsGoOn, socketVars,
         timerVars, switchVars, effectVars, refreshVars
<1>3. WaitersAreServed'
  BY DEF IInv, TypeOK, WaitersAreServed, RefreshEnds, loopsGoOn, socketVars,
         timerVars, switchVars, effectVars, refreshVars
<1>4. OneLoop'
  BY DEF IInv, TypeOK, OneLoop, RefreshEnds, loopsGoOn, socketVars, timerVars,
         switchVars, effectVars, refreshVars
<1>5. AckedHaveOpened' /\ SocketsAreAccounted' /\ OffIsOff' /\ NeverStranded' /\ ReadyIsEarned'
  BY DEF IInv, AckedHaveOpened, SocketsAreAccounted, OffIsOff, NeverStranded,
         ReadyIsEarned, Live, Closing, Code, RefreshEnds, loopsGoOn,
         socketVars, timerVars, switchVars, effectVars, refreshVars
<1> QED BY <1>1, <1>2, <1>3, <1>4, <1>5 DEF IInv

(* A request that finds the session over keeps the inductive invariant.    *)
LEMMA ApiFetchStep ==
  ASSUME IInv, apiFetch
  PROVE  IInv'
<1>1. TypeOK'
  BY DEF IInv, TypeOK, apiFetch, handleSessionExpired, shutdown, disconnect,
         closed, Code, Status, socketVars, timerVars, switchVars, effectVars,
         refreshVars
<1>2. LoopsAreBounded'
  BY DEF IInv, TypeOK, LoopsAreBounded, apiFetch, handleSessionExpired,
         shutdown, disconnect, closed, socketVars, timerVars, switchVars,
         effectVars, refreshVars
<1>3. AckedHaveOpened'
  BY DEF IInv, TypeOK, AckedHaveOpened, apiFetch, handleSessionExpired,
         shutdown, disconnect, closed, socketVars, timerVars, switchVars,
         effectVars, refreshVars
<1>4. SocketsAreAccounted'
  BY DEF IInv, TypeOK, SocketsAreAccounted, apiFetch, handleSessionExpired,
         shutdown, disconnect, closed, Live, socketVars, timerVars,
         switchVars, effectVars, refreshVars
<1>5. OffIsOff'
  BY DEF IInv, TypeOK, OffIsOff, apiFetch, handleSessionExpired, shutdown,
         disconnect, closed, socketVars, timerVars, switchVars, effectVars,
         refreshVars
<1>6. NeverStranded'
  BY DEF IInv, TypeOK, NeverStranded, apiFetch, handleSessionExpired,
         shutdown, disconnect, closed, Live, Closing, Code, socketVars,
         timerVars, switchVars, effectVars, refreshVars
<1>7. ReadyIsEarned'
  BY DEF IInv, TypeOK, ReadyIsEarned, apiFetch, handleSessionExpired,
         shutdown, disconnect, closed, socketVars, timerVars, switchVars,
         effectVars, refreshVars
<1>8. OneLoop'
  BY DEF IInv, TypeOK, OneLoop, apiFetch, handleSessionExpired, shutdown,
         disconnect, closed, socketVars, timerVars, switchVars, effectVars,
         refreshVars
<1>9. WaitersAreServed'
  BY DEF IInv, WaitersAreServed, apiFetch, handleSessionExpired, shutdown,
         disconnect, closed, socketVars, timerVars, switchVars, effectVars,
         refreshVars
<1> QED BY <1>1, <1>2, <1>3, <1>4, <1>5, <1>6, <1>7, <1>8, <1>9 DEF IInv

-----------------------------------------------------------------------------
(* The initial state: nothing is connected. *)
LEMMA InitHolds == Init => IInv
<1> SUFFICES ASSUME Init PROVE IInv
  OBVIOUS
<1>1. TypeOK
  <2>1. /\ ws \in Socket \cup {NoSocket} /\ pingOwner \in Socket \cup {NoSocket}
        /\ sock \in [Socket -> {"none", "connecting", "open"} \cup Code]
        /\ hello \subseteq Socket /\ acked \subseteq Socket /\ lost \subseteq Socket
        /\ status \in Status /\ authTimer \in {"none", "normal", "auth"}
    BY DEF Init, Status
  <2>2. stray \in 0..MaxLoops /\ awaiting \in 0..MaxLoops
    BY DEF Init
  <2> QED BY <2>1, <2>2 DEF Init, TypeOK
<1>2. LoopsAreBounded /\ OneLoop
  BY DEF Init, LoopsAreBounded, OneLoop
<1>3. /\ AckedHaveOpened /\ SocketsAreAccounted /\ OffIsOff
      /\ NeverStranded /\ ReadyIsEarned
  BY DEF Init, AckedHaveOpened, SocketsAreAccounted, OffIsOff, NeverStranded,
         ReadyIsEarned, Live
<1>4. WaitersAreServed
  BY DEF Init, WaitersAreServed
<1> QED BY <1>1, <1>2, <1>3, <1>4 DEF IInv

(* A step that changes nothing. *)
LEMMA StutterStep ==
  ASSUME IInv, UNCHANGED vars
  PROVE  IInv'
<1>1. TypeOK'
  BY DEF IInv, TypeOK, vars, socketVars, timerVars, switchVars, effectVars,
         refreshVars
<1>2. LoopsAreBounded' /\ AckedHaveOpened' /\ WaitersAreServed' /\ OneLoop'
  BY DEF IInv, LoopsAreBounded, AckedHaveOpened, WaitersAreServed, OneLoop,
         vars, socketVars, refreshVars
<1>3. SocketsAreAccounted' /\ OffIsOff' /\ NeverStranded' /\ ReadyIsEarned'
  BY DEF IInv, SocketsAreAccounted, OffIsOff, NeverStranded, ReadyIsEarned,
         Live, Closing, vars, socketVars, timerVars, switchVars, effectVars
<1> QED BY <1>1, <1>2, <1>3 DEF IInv

(* The invariant is inductive: every step of Next is one of the actions    *)
(* above.                                                                  *)
THEOREM Invariance == Spec => []IInv
<1>1. IInv /\ [Next]_vars => IInv'
  <2>1. ASSUME IInv, NEW n \in Socket,
               Opens(n) \/ HelloAck(n) \/ HelloRefused(n) \/ Suspended(n)
        PROVE  IInv'
    BY <2>1, OpensStep, HelloAckStep, HelloRefusedStep, SuspendedStep
  <2>2. ASSUME IInv, NEW n \in Socket, NEW code \in Code,
               ServerCloses(n, code) \/ CloseEvent(n, code)
        PROVE  IInv'
    BY <2>2, ServerClosesStep, CloseEventStep
  <2>3. ASSUME IInv, ReconnectTimer \/ AuthTimer \/ PingTick
        PROVE  IInv'
    BY <2>3, ReconnectTimerStep, AuthTimerStep, PingTickStep
  <2>4. ASSUME IInv, Login \/ EffectRuns \/ EffectCleanup \/ DeferredDisconnect
        PROVE  IInv'
    BY <2>4, LoginStep, EffectRunsStep, EffectCleanupStep, DeferredDisconnectStep
  <2>5. ASSUME IInv, NEW code \in {"auth", "normal"},
               Logout(code) \/ AuthChanged(code)
        PROVE  IInv'
    BY <2>5, LogoutStep, AuthChangedStep
  <2>6. ASSUME IInv, runWsRefreshLoop \/ ensureRefreshBeforeRequest \/ apiFetch
        PROVE  IInv'
    BY <2>6, RunWsRefreshLoopStep, EnsureRefreshBeforeRequestStep, ApiFetchStep
  <2>7. ASSUME IInv, RefreshDenied \/ RefreshEnds
        PROVE  IInv'
    BY <2>7, RefreshDeniedStep, RefreshEndsStep
  <2>8. ASSUME IInv, Next
        PROVE  IInv'
    BY <2>8, <2>1, <2>2, <2>3, <2>4, <2>5, <2>6, <2>7 DEF Next
  <2> QED BY <2>8, StutterStep
<1> QED BY <1>1, InitHolds, PTL DEF Spec

-----------------------------------------------------------------------------
(* The client's state is well formed: no count of loops leaves its bound,  *)
(* and no socket is in a state onclose does not know.                      *)
THEOREM ClientTypeCorrect == Spec => []TypeOK
<1>1. IInv => TypeOK
  BY DEF IInv
<1> QED BY <1>1, Invariance, PTL

(* No open socket slips from the client unless onclose took it for another *)
(* one: every other path closes the socket it replaces.                    *)
THEOREM SocketsStayAccounted == Spec => []SocketsAreAccounted
<1>1. IInv => SocketsAreAccounted
  BY DEF IInv
<1> QED BY <1>1, Invariance, PTL

(* While reconnecting is disabled no attempt is pending, whatever timers   *)
(* and close events were on their way; a shut down client has no socket.   *)
THEOREM OffStaysOff == Spec => []OffIsOff
<1>1. IInv => OffIsOff
  BY DEF IInv
<1> QED BY <1>1, Invariance, PTL

(* A mounted client that may reconnect always has a socket, a close event  *)
(* to come or a timer that will bring it one.                              *)
THEOREM NobodyIsStranded == Spec => []NeverStranded
<1>1. IInv => NeverStranded
  BY DEF IInv
<1> QED BY <1>1, Invariance, PTL

(* ready never outlives the last greeted socket, and the greeted socket in *)
(* use is ready and kept alive.                                            *)
THEOREM ReadyStaysEarned == Spec => []ReadyIsEarned
<1>1. IInv => ReadyIsEarned
  BY DEF IInv
<1> QED BY <1>1, Invariance, PTL

(* Whoever awaits a refresh has one to hear of, and none runs once the     *)
(* session was refused.                                                    *)
THEOREM WaitersStayServed == Spec => []WaitersAreServed
<1>1. IInv => WaitersAreServed
  BY DEF IInv
<1> QED BY <1>1, Invariance, PTL

(* There is one refresh loop at most, unless a HELLO_ACK came beside one   *)
(* out of its reach.                                                       *)
THEOREM OneLoopStays == Spec => []OneLoop
<1>1. IInv => OneLoop
  BY DEF IInv
<1> QED BY <1>1, Invariance, PTL
=============================================================================
