----------------------------- MODULE AuthSessions -----------------------------
(***************************************************************************)
(* Login sessions, refresh tokens, revocation and bans                     *)
(* (auth/sessionStore.mongo.js, http/controllers/auth.controller.js,       *)
(* sessions.controller.js, admin.controller.js), the upgrades that trust   *)
(* them (websocket/connection/wsServer.js), and the kicks that follow a    *)
(* revocation on this instance and, over Redis, on the others              *)
(* (services/redisBus.js, redisBusHandlers.js).                            *)
(*                                                                         *)
(* Sessions are in MongoDB, sockets in the memory of one instance.  An     *)
(* action is one database operation and the code up to the next one; a     *)
(* kick, a registration and an answer are what follows the last of them.   *)
(* The tabs of a browser share its cookies.                                *)
(***************************************************************************)
EXTENDS Naturals, FiniteSets

CONSTANTS
    User,
    Sid,
    NoSid,
    UserOf,      \* whose session an id will be
    NoUser,
    Instance,
    NoInstance,
    Tab,
    Browser,
    BrowserOf,
    MaxTokens,   \* bound: refresh tokens issued
    MaxRequests, \* bound: requests, upgrades and admin operations
    MaxFaults    \* bound: failures, losses, restarts and expiries

ASSUME SidAssumption == UserOf \in [Sid -> User] /\ NoSid \notin Sid
ASSUME UserAssumption == NoUser \notin User
ASSUME InstanceAssumption == NoInstance \notin Instance
ASSUME TabAssumption == BrowserOf \in [Tab -> Browser]
ASSUME BoundAssumption ==
    MaxTokens \in Nat /\ MaxRequests \in Nat /\ MaxFaults \in Nat

NoToken == 0 \* refreshHash null; a token and its hash are one number

VARIABLES
    session,   \* the device_sessions collection
    expired,   \* tokens past their refreshExpiresAt
    minted,    \* how many tokens have been issued
    banned,    \* isBanned
    jar,       \* cookies of each browser: the session of the access token,
               \* and the refresh token
    req,       \* one HTTP request per tab
    up,        \* one WebSocket upgrade per tab
    admin,     \* one admin operation
    live,      \* sockets: tab, instance and session
    bus,       \* admin.kick events on their way to an instance
    spent,     \* history: tokens that were exchanged
    late,      \* history: sessions opened by users banned since they asked
    half,      \* history: users whose ban stopped before it revoked
    raced,     \* history: sockets registered after their revocation
    unkicked,  \* history: sessions no kick is sent for, per instance
    requests,
    faults

storeVars   == <<session, expired, minted, banned>>
socketVars  == <<live, raced>>
historyVars == <<spent, late, half>>
vars == <<storeVars, jar, req, up, admin, socketVars, bus, historyVars,
          unkicked, requests, faults>>

Status == {"none", "active", "revoked"}
Token == 0..minted

Kind == {"login", "refresh", "logout", "device", "all"}
Step == {"none", "isBanned", "create", "store",
         "lookup", "getSession", "checkBan", "end", "read", "rotate",
         "mayCall", "mayRevoke", "revoke", "kick",
         "granted", "refused", "cleared", "kept"}
Operation == {"ban", "one", "every"}

NoRequest == [pc |-> "none", kind |-> "login", user |-> NoUser, inst |-> NoInstance,
              own |-> NoSid, sid |-> NoSid, tok |-> NoToken, bad |-> FALSE]
NoUpgrade == [pc |-> "none", inst |-> NoInstance, sid |-> NoSid]
NoAdmin == [pc |-> "none", kind |-> "ban", user |-> NoUser, sid |-> NoSid,
            inst |-> NoInstance]
EmptyJar == [sid |-> NoSid, tok |-> NoToken]

(* bad: what a request has read of a ban or an expiry forbids it to go on. *)
Requests == [pc : Step, kind : Kind, user : User \cup {NoUser},
             inst : Instance \cup {NoInstance}, own : Sid \cup {NoSid},
             sid : Sid \cup {NoSid}, tok : Nat, bad : BOOLEAN]
Kick == [to : Instance, user : User, sid : Sid \cup {NoSid}]

(* The last conjunct: no two sessions would accept the same token.         *)
TypeOK ==
    /\ session \in [Sid -> [status : Status, hash : Nat]]
    /\ minted \in 0..MaxTokens
    /\ expired \subseteq Token
    /\ banned \subseteq User
    /\ jar \in [Browser -> [sid : Sid \cup {NoSid}, tok : Nat]]
    /\ \A b \in Browser : jar[b].tok \in Token
    /\ req \in [Tab -> Requests]
    /\ \A t \in Tab : req[t].tok \in Token
    /\ up \in [Tab -> [pc : {"none", "getSession", "isBanned", "register"},
                       inst : Instance \cup {NoInstance},
                       sid : Sid \cup {NoSid}]]
    /\ admin \in [pc : {"none", "set", "revoke", "kick"}, kind : Operation,
                  user : User \cup {NoUser}, sid : Sid \cup {NoSid},
                  inst : Instance \cup {NoInstance}]
    /\ live \subseteq Tab \X Instance \X Sid
    /\ bus \subseteq Kick
    /\ spent \subseteq Token
    /\ late \subseteq Sid
    /\ half \subseteq User
    /\ raced \subseteq live
    /\ unkicked \subseteq Sid \X Instance
    /\ requests \in 0..MaxRequests
    /\ faults \in 0..MaxFaults
    /\ \A s \in Sid : session[s].hash \in Token
    /\ \A r, s \in Sid : session[r].hash = session[s].hash /\ r # s =>
                             session[r].hash = NoToken

-----------------------------------------------------------------------------
(* The session store. *)

Active(s) == s # NoSid /\ session[s].status = "active"
SessionsOf(u) == {s \in Sid : UserOf[s] = u}

(* getSessionIdByRefreshHash *)
Accepts(s, tok) ==
    /\ Active(s)
    /\ session[s].hash = tok
    /\ tok # NoToken /\ tok \notin expired

revoked == [status |-> "revoked", hash |-> NoToken]

(* revokeSession of an id; revokeAllSessions, of the active ones of a user *)
revokeSession(S) ==
    session' = [s \in Sid |-> IF s \in S /\ session[s].status # "none"
                                THEN revoked ELSE session[s]]
revokeAllSessions(u) == revokeSession({s \in SessionsOf(u) : Active(s)})

(* issueRefresh, and its hash stored with the session. *)
issueRefresh(s) ==
    /\ minted < MaxTokens
    /\ minted' = minted + 1
    /\ session' = [session EXCEPT ![s].hash = minted + 1]

-----------------------------------------------------------------------------
(* Kicks.  A kick of a user has no session.                                *)

Covers(u, sid, s) == IF sid = NoSid THEN UserOf[s] = u ELSE s = sid
Covered(u, sid) == {s \in Sid : Covers(u, sid, s)}

(* connectionManager.remove, removeSession: the sockets of this instance.  *)
Drops(gone) ==
    /\ live' = live \ gone
    /\ raced' = raced \ gone

(* The sessions a kick is about. *)
Ended(u, sid) == {s \in Covered(u, sid) : session[s].status = "revoked"}

remove(i, u, sid) == Drops({l \in live : l[2] = i /\ l[3] \in Covered(u, sid)})

(* publishAdminKick to the other instances; without Redis it reaches none. *)
publishAdminKick(i, u, sid) ==
    bus' = bus \cup {[to |-> j, user |-> u, sid |-> sid] : j \in Instance \ {i}}

Forgets(S, I) == unkicked' = unkicked \cup (S \X I)

-----------------------------------------------------------------------------
Init ==
    /\ session = [s \in Sid |-> [status |-> "none", hash |-> NoToken]]
    /\ expired = {}
    /\ minted = 0
    /\ banned = {}
    /\ jar = [b \in Browser |-> EmptyJar]
    /\ req = [t \in Tab |-> NoRequest]
    /\ up = [t \in Tab |-> NoUpgrade]
    /\ admin = NoAdmin
    /\ live = {}
    /\ bus = {}
    /\ spent = {}
    /\ late = {}
    /\ half = {}
    /\ raced = {}
    /\ unkicked = {}
    /\ requests = 0
    /\ faults = 0

Arrives ==
    /\ requests < MaxRequests
    /\ requests' = requests + 1

Faulty ==
    /\ faults < MaxFaults
    /\ faults' = faults + 1

Cookies(t) == jar[BrowserOf[t]]

Becomes(t, pc) == req' = [req EXCEPT ![t].pc = pc]

elsewhere == <<jar, up, admin, bus, requests, faults>>

-----------------------------------------------------------------------------
(* POST /login. *)

Login(t, u, i) ==
    /\ req[t].pc = "none"
    /\ Arrives
    /\ req' = [req EXCEPT ![t] = [NoRequest EXCEPT !.pc = "isBanned", !.user = u,
                                                   !.inst = i]]
    /\ UNCHANGED <<storeVars, jar, up, admin, socketVars, bus, historyVars,
                   unkicked, faults>>

(* Mutant: the answer is not looked at. *)
LoginIgnoresBan(t) ==
    /\ req[t].pc = "isBanned"
    /\ req' = [req EXCEPT ![t].pc = "create", ![t].bad = req[t].user \in banned]
    /\ UNCHANGED <<storeVars, socketVars, historyVars, unkicked, elsewhere>>

LoginChecksBan(t) ==
    /\ req[t].pc = "isBanned"
    /\ req' = [req EXCEPT
                 ![t].pc = IF req[t].user \in banned THEN "kept" ELSE "create",
                 ![t].bad = req[t].user \in banned]
    /\ UNCHANGED <<storeVars, socketVars, historyVars, unkicked, elsewhere>>

createSession(t, s) ==
    /\ req[t].pc = "create"
    /\ session[s].status = "none" /\ UserOf[s] = req[t].user
    /\ session' = [session EXCEPT ![s].status = "active"]
    /\ late' = IF UserOf[s] \in banned /\ ~req[t].bad
                THEN late \cup {s} ELSE late
    /\ req' = [req EXCEPT ![t].pc = "store", ![t].sid = s]
    /\ UNCHANGED <<expired, minted, banned, socketVars, spent, half,
                   unkicked, elsewhere>>

(* Mutant: answered although nothing was stored. *)
storeRefreshHashSkipped(t) ==
    /\ req[t].pc = "store"
    /\ minted < MaxTokens
    /\ minted' = minted + 1
    /\ req' = [req EXCEPT ![t].pc = "granted", ![t].tok = minted + 1]
    /\ UNCHANGED <<session, expired, banned, socketVars, historyVars, unkicked,
                   elsewhere>>

(* Stored whether the session is revoked by now or not. *)
storeRefreshHash(t) ==
    /\ req[t].pc = "store"
    /\ issueRefresh(req[t].sid)
    /\ req' = [req EXCEPT ![t].pc = "granted", ![t].tok = minted']
    /\ UNCHANGED <<expired, banned, socketVars, historyVars, unkicked,
                   elsewhere>>

-----------------------------------------------------------------------------
(* POST /auth/refresh, with the token the browser held when it was sent.   *)

Refresh(t, i) ==
    /\ req[t].pc = "none"
    /\ Cookies(t).tok # NoToken
    /\ Arrives
    /\ req' = [req EXCEPT ![t] = [NoRequest EXCEPT !.pc = "lookup", !.kind = "refresh",
                         !.inst = i, !.sid = Cookies(t).sid, !.tok = Cookies(t).tok]]
    /\ UNCHANGED <<storeVars, jar, up, admin, socketVars, bus, historyVars,
                   unkicked, faults>>

RefreshLooksUp(t) ==
    /\ req[t].pc = "lookup"
    /\ \/ \E s \in Sid :
             /\ Accepts(s, req[t].tok)
             /\ req' = [req EXCEPT ![t].pc = "getSession", ![t].sid = s]
       \/ /\ \A s \in Sid : ~Accepts(s, req[t].tok)
          /\ Becomes(t, "refused")
    /\ UNCHANGED <<storeVars, socketVars, historyVars, unkicked, elsewhere>>

(* The expiry that is looked at later is the one read here, perhaps of a   *)
(* token that has replaced the presented one.                              *)
RefreshReadsSession(t) ==
    /\ req[t].pc = "getSession"
    /\ req' = [req EXCEPT
                 ![t].pc = IF Active(req[t].sid) THEN "checkBan" ELSE "refused",
                 ![t].bad = session[req[t].sid].hash \in expired]
    /\ UNCHANGED <<storeVars, socketVars, historyVars, unkicked, elsewhere>>

RefreshChecksBan(t) ==
    /\ req[t].pc = "checkBan"
    /\ Becomes(t, IF UserOf[req[t].sid] \in banned THEN "end"
                  ELSE IF req[t].bad THEN "refused" ELSE "read")
    /\ UNCHANGED <<storeVars, socketVars, historyVars, unkicked, elsewhere>>

(* The session of a banned user ends here, without a kick. *)
RefreshEndsSession(t) ==
    /\ req[t].pc = "end"
    /\ revokeSession({req[t].sid})
    /\ Forgets({req[t].sid}, Instance)
    /\ Becomes(t, "cleared")
    /\ UNCHANGED <<expired, minted, banned, socketVars, historyVars, elsewhere>>

(* rotateRefreshHash reads, *)
RotateReads(t) ==
    /\ req[t].pc = "read"
    /\ Becomes(t, IF Active(req[t].sid) /\ session[req[t].sid].hash = req[t].tok
                  THEN "rotate" ELSE "refused")
    /\ UNCHANGED <<storeVars, socketVars, historyVars, unkicked, elsewhere>>

(* Mutant: by session id alone. *)
RotateWritesAnyway(t) ==
    /\ req[t].pc = "rotate"
    /\ issueRefresh(req[t].sid)
    /\ spent' = spent \cup {req[t].tok}
    /\ req' = [req EXCEPT ![t].pc = "granted", ![t].tok = minted']
    /\ UNCHANGED <<expired, banned, socketVars, late, half, unkicked, elsewhere>>

(* and writes, if the hash is still the one it has read. *)
RotateWrites(t) ==
    /\ req[t].pc = "rotate"
    /\ \/ /\ session[req[t].sid].hash = req[t].tok
          /\ issueRefresh(req[t].sid)
          /\ spent' = spent \cup {req[t].tok}
          /\ req' = [req EXCEPT ![t].pc = "granted", ![t].tok = minted']
       \/ /\ session[req[t].sid].hash # req[t].tok
          /\ Becomes(t, "refused")
          /\ UNCHANGED <<session, minted, spent>>
    /\ UNCHANGED <<expired, banned, socketVars, late, half, unkicked, elsewhere>>

-----------------------------------------------------------------------------
(* Logging out: POST /logout ends the session of the access cookie and     *)
(* kicks nobody; POST /sessions/logout ends it or another one of the user  *)
(* and kicks its sockets; POST /sessions/logout-all, and DELETE /users/me, *)
(* all of them.  The kick is for this instance only.                       *)

Logout(t, i, kind, target) ==
    LET sid == Cookies(t).sid IN
    /\ req[t].pc = "none"
    /\ sid # NoSid
    /\ \/ kind = "logout" /\ target = sid
       \/ kind = "all" /\ target = NoSid
       \/ /\ kind = "device"
          /\ target \in SessionsOf(UserOf[sid])
          /\ session[target].status # "none"
    /\ Arrives
    /\ req' = [req EXCEPT ![t] =
                 [NoRequest EXCEPT !.pc = "mayCall", !.kind = kind, !.inst = i,
                                   !.user = UserOf[sid], !.own = sid, !.sid = target]]
    /\ UNCHANGED <<storeVars, jar, up, admin, socketVars, bus, historyVars,
                   unkicked, faults>>

(* authMiddleware, and requireAuth, which /logout goes without: with an    *)
(* access token that has expired, which may be so at any time, the request *)
(* is nobody's, and then /logout clears the cookies and revokes nothing.   *)
AuthMiddleware(t) ==
    /\ req[t].pc = "mayCall"
    /\ \/ Becomes(t, IF req[t].user \in banned THEN "kept"
                     ELSE IF req[t].kind = "logout" THEN "revoke" ELSE "mayRevoke")
       \/ Becomes(t, IF req[t].kind = "logout" THEN "cleared" ELSE "kept")
    /\ UNCHANGED <<storeVars, socketVars, historyVars, unkicked, elsewhere>>

RequireAuth(t) ==
    /\ req[t].pc = "mayRevoke"
    /\ Becomes(t, IF Active(req[t].own) THEN "revoke" ELSE "kept")
    /\ UNCHANGED <<storeVars, socketVars, historyVars, unkicked, elsewhere>>

LogoutRevokes(t) ==
    LET r == req[t] IN
    /\ r.pc = "revoke"
    /\ IF r.kind = "all" THEN revokeAllSessions(r.user) ELSE revokeSession({r.sid})
    /\ Forgets({s \in Covered(r.user, r.sid) : Active(s)},
               IF r.kind = "logout" THEN Instance ELSE Instance \ {r.inst})
    /\ Becomes(t, IF r.kind = "logout" THEN "cleared" ELSE "kick")
    /\ UNCHANGED <<expired, minted, banned, socketVars, historyVars, elsewhere>>

(* The cookies stay when another device was logged out. *)
LogoutKicks(t) ==
    LET r == req[t] IN
    /\ r.pc = "kick"
    /\ remove(r.inst, r.user, r.sid)
    /\ Becomes(t, IF r.sid \in {NoSid, r.own} THEN "cleared" ELSE "kept")
    /\ UNCHANGED <<storeVars, historyVars, unkicked, elsewhere>>

(* The answer reaches the browser. *)
Answered(t) ==
    /\ req[t].pc \in {"granted", "refused", "cleared", "kept"}
    /\ jar' = [jar EXCEPT ![BrowserOf[t]] =
                 CASE req[t].pc = "granted" -> [sid |-> req[t].sid, tok |-> req[t].tok]
                   [] req[t].pc = "kept"    -> @
                   [] OTHER                 -> EmptyJar]
    /\ req' = [req EXCEPT ![t] = NoRequest]
    /\ UNCHANGED <<storeVars, up, admin, socketVars, bus, historyVars,
                   unkicked, requests, faults>>

-----------------------------------------------------------------------------
(* Admin operations. *)

AdminStarts(kind, u, sid, i) ==
    /\ admin.pc = "none"
    /\ \/ kind = "one" /\ sid \in SessionsOf(u) /\ session[sid].status # "none"
       \/ kind # "one" /\ sid = NoSid
    /\ Arrives
    /\ admin' = [pc |-> IF kind = "ban" THEN "set" ELSE "revoke", kind |-> kind,
                 user |-> u, sid |-> sid, inst |-> i]
    /\ UNCHANGED <<storeVars, jar, req, up, socketVars, bus, historyVars,
                   unkicked, faults>>

setBanned ==
    /\ admin.pc = "set"
    /\ banned' = banned \cup {admin.user}
    /\ admin' = [admin EXCEPT !.pc = "revoke"]
    /\ UNCHANGED <<session, expired, minted, jar, req, up, socketVars, bus,
                   historyVars, unkicked, requests, faults>>

AdminRevokes ==
    /\ admin.pc = "revoke"
    /\ IF admin.kind = "one" THEN revokeSession({admin.sid})
                             ELSE revokeAllSessions(admin.user)
    /\ admin' = [admin EXCEPT !.pc = "kick"]
    /\ UNCHANGED <<expired, minted, banned, jar, req, up, socketVars, bus,
                   historyVars, unkicked, requests, faults>>

(* Mutant: sockets here, and no event. *)
AdminKicksHere ==
    /\ admin.pc = "kick"
    /\ remove(admin.inst, admin.user, admin.sid)
    /\ admin' = NoAdmin
    /\ UNCHANGED <<storeVars, jar, req, up, bus, historyVars, unkicked, requests,
                   faults>>

(* Sockets here, and an event for the others, which Redis may not take.    *)
AdminKicks ==
    /\ admin.pc = "kick"
    /\ remove(admin.inst, admin.user, admin.sid)
    /\ \/ /\ publishAdminKick(admin.inst, admin.user, admin.sid)
          /\ UNCHANGED <<unkicked, faults>>
       \/ /\ Faulty
          /\ Forgets(Ended(admin.user, admin.sid), Instance \ {admin.inst})
          /\ UNCHANGED bus
    /\ admin' = NoAdmin
    /\ UNCHANGED <<storeVars, jar, req, up, historyVars, requests>>

Unban(u) ==
    /\ u \in banned
    /\ Arrives
    /\ banned' = banned \ {u}
    /\ UNCHANGED <<session, expired, minted, jar, req, up, admin, socketVars,
                   bus, historyVars, unkicked, faults>>

(* onAdminKick, of a subscriber that is there. *)
OnAdminKick(k) ==
    /\ k \in bus
    /\ bus' = bus \ {k}
    /\ remove(k.to, k.user, k.sid)
    /\ UNCHANGED <<storeVars, jar, req, up, admin, historyVars, unkicked,
                   requests, faults>>

KickIsLost(k) ==
    /\ k \in bus
    /\ Faulty
    /\ bus' = bus \ {k}
    /\ Forgets(Ended(k.user, k.sid), {k.to})
    /\ UNCHANGED <<storeVars, jar, req, up, admin, socketVars, historyVars,
                   requests>>

-----------------------------------------------------------------------------
(* Upgrades. *)

HandleUpgrade(t, i) ==
    /\ up[t].pc = "none"
    /\ Cookies(t).sid # NoSid
    /\ \A l \in live : l[1] # t
    /\ Arrives
    /\ up' = [up EXCEPT ![t] = [pc |-> "getSession", inst |-> i, sid |-> Cookies(t).sid]]
    /\ UNCHANGED <<storeVars, jar, req, admin, socketVars, bus, historyVars,
                   unkicked, faults>>

UpgradeReadsSession(t) ==
    /\ up[t].pc = "getSession"
    /\ up' = [up EXCEPT ![t] = IF Active(@.sid) THEN [@ EXCEPT !.pc = "isBanned"]
                                                ELSE NoUpgrade]
    /\ UNCHANGED <<storeVars, jar, req, admin, socketVars, bus, historyVars,
                   unkicked, requests, faults>>

(* A failed query does not stop an upgrade. *)
UpgradeChecksBan(t) ==
    /\ up[t].pc = "isBanned"
    /\ \/ /\ UserOf[up[t].sid] \in banned
          /\ up' = [up EXCEPT ![t] = NoUpgrade]
          /\ UNCHANGED faults
       \/ /\ UserOf[up[t].sid] \notin banned
          /\ up' = [up EXCEPT ![t].pc = "register"]
          /\ UNCHANGED faults
       \/ /\ Faulty
          /\ up' = [up EXCEPT ![t].pc = "register"]
    /\ UNCHANGED <<storeVars, jar, req, admin, socketVars, bus, historyVars,
                   unkicked, requests>>

Registers(t) ==
    LET l == <<t, up[t].inst, up[t].sid>> IN
    /\ up[t].pc = "register"
    /\ live' = live \cup {l}
    /\ raced' = IF Active(up[t].sid) THEN raced ELSE raced \cup {l}
    /\ up' = [up EXCEPT ![t] = NoUpgrade]
    /\ UNCHANGED <<storeVars, jar, req, admin, bus, historyVars, unkicked,
                   requests, faults>>

Disconnect(t) ==
    /\ \E l \in live : l[1] = t
    /\ Drops({l \in live : l[1] = t})
    /\ UNCHANGED <<storeVars, jar, req, up, admin, bus, historyVars, unkicked,
                   requests, faults>>

-----------------------------------------------------------------------------
(* Faults. *)

Expire(tok) ==
    /\ tok \in 1..minted \ expired
    /\ Faulty
    /\ expired' = expired \cup {tok}
    /\ UNCHANGED <<session, minted, banned, jar, req, up, admin, socketVars,
                   bus, historyVars, unkicked, requests>>

(* What a request, or an admin operation, that stops does not kick. *)
Unsent(pc, u, sid) == IF pc = "kick" THEN Ended(u, sid) ELSE {}

(* An operation fails, or an answer is lost.  logout-all goes on when it   *)
(* cannot revoke.                                                          *)
RequestFails(t) ==
    /\ req[t].pc # "none"
    /\ Faulty
    /\ \/ /\ req' = [req EXCEPT ![t] = NoRequest]
          /\ Forgets(Unsent(req[t].pc, req[t].user, req[t].sid), Instance)
       \/ /\ req[t].pc = "revoke" /\ req[t].kind = "all"
          /\ Becomes(t, "kick")
          /\ UNCHANGED unkicked
    /\ UNCHANGED <<storeVars, jar, up, admin, socketVars, bus, historyVars,
                   requests>>

HalfDone == IF admin.kind = "ban" /\ admin.pc = "revoke"
            THEN half \cup {admin.user} ELSE half

AdminFails ==
    /\ admin.pc # "none"
    /\ Faulty
    /\ half' = HalfDone
    /\ Forgets(Unsent(admin.pc, admin.user, admin.sid), Instance)
    /\ admin' = NoAdmin
    /\ UNCHANGED <<storeVars, jar, req, up, socketVars, bus, spent, late,
                   requests>>

(* An instance loses its sockets, its requests and what Redis sends it     *)
(* meanwhile.                                                              *)
Crash(i) ==
    /\ Faulty
    /\ Drops({l \in live : l[2] = i})
    /\ req' = [t \in Tab |-> IF req[t].inst = i THEN NoRequest ELSE req[t]]
    /\ up' = [t \in Tab |-> IF up[t].inst = i THEN NoUpgrade ELSE up[t]]
    /\ bus' = {k \in bus : k.to # i}
    /\ \/ /\ admin.inst = i
          /\ admin' = NoAdmin
          /\ half' = HalfDone
          /\ Forgets(Unsent(admin.pc, admin.user, admin.sid), Instance)
       \/ /\ admin.inst # i
          /\ UNCHANGED <<admin, half, unkicked>>
    /\ UNCHANGED <<storeVars, jar, spent, late, requests>>

Next ==
    \/ \E t \in Tab :
          \/ \E i \in Instance :
                \/ \E u \in User : Login(t, u, i)
                \/ Refresh(t, i)
                \/ \E kind \in Kind, s \in Sid \cup {NoSid} : Logout(t, i, kind, s)
                \/ HandleUpgrade(t, i)
          \/ LoginChecksBan(t) \/ storeRefreshHash(t)
          \/ \E s \in Sid : createSession(t, s)
          \/ RefreshLooksUp(t) \/ RefreshReadsSession(t) \/ RefreshChecksBan(t)
          \/ RefreshEndsSession(t) \/ RotateReads(t) \/ RotateWrites(t)
          \/ AuthMiddleware(t) \/ RequireAuth(t) \/ LogoutRevokes(t)
          \/ LogoutKicks(t) \/ Answered(t)
          \/ UpgradeReadsSession(t) \/ UpgradeChecksBan(t) \/ Registers(t)
          \/ Disconnect(t) \/ RequestFails(t)
    \/ \E kind \in Operation, u \in User, s \in Sid \cup {NoSid}, i \in Instance :
          AdminStarts(kind, u, s, i)
    \/ setBanned \/ AdminRevokes \/ AdminKicks \/ AdminFails
    \/ \E u \in User : Unban(u)
    \/ \E k \in bus : OnAdminKick(k) \/ KickIsLost(k)
    \/ \E tok \in 1..MaxTokens : Expire(tok)
    \/ \E i \in Instance : Crash(i)

Spec == Init /\ [][Next]_vars

-----------------------------------------------------------------------------
(* Properties. *)

(* A kick for the session is still to come at an instance. *)
KickIsComing(s, i) ==
    \/ admin.pc = "kick" /\ Covers(admin.user, admin.sid, s)
    \/ \E t \in Tab : /\ req[t].pc = "kick" /\ req[t].inst = i
                      /\ Covers(req[t].user, req[t].sid, s)
    \/ \E k \in bus : k.to = i /\ Covers(k.user, k.sid, s)

(* Nobody keeps a socket of a revoked session by accident: a kick is still *)
(* to come, or was not sent to that instance or lost on the way, or the    *)
(* upgrade had read the session before it was revoked.                     *)
SocketsAreAuthorised ==
    \A l \in live :
       \/ Active(l[3])
       \/ KickIsComing(l[3], l[2])
       \/ <<l[3], l[2]>> \in unkicked
       \/ l \in raced

(* A ban ends every session there is: a banned user has an active one only *)
(* while the ban is being carried out, when it stopped half way, or from a *)
(* login that had asked before.                                            *)
BanEndsSessions ==
    \A s \in Sid :
       Active(s) /\ UserOf[s] \in banned =>
          \/ s \in late
          \/ UserOf[s] \in half
          \/ admin.pc = "revoke" /\ admin.kind = "ban" /\ admin.user = UserOf[s]

(* A browser is never left with a token the store has not heard of: its    *)
(* token is the current one of its session, was exchanged, or the session  *)
(* is revoked.                                                             *)
Known(s, tok) ==
    session[s].hash = tok \/ tok \in spent \/ session[s].status = "revoked"

CookieIsKnown ==
    \A b \in Browser : jar[b].tok # NoToken => Known(jar[b].sid, jar[b].tok)

(* Tokens and sessions are used as SessionContract promises: only the      *)
(* token presented is exchanged, and a revoked session stays revoked.      *)
Contract == INSTANCE SessionContract WITH
    status <- [s \in Sid |-> session[s].status],
    token  <- [s \in Sid |-> IF session[s].status = "active"
                             THEN session[s].hash ELSE NoToken],
    issued <- minted

ContractSpec == Contract!Spec

-----------------------------------------------------------------------------
(* The inductive invariant. *)

(* Whatever names a session names one that exists, and no token is issued  *)
(* for one that does not.                                                  *)
Exists(s) == s \in Sid => session[s].status # "none"

SessionsExist ==
    /\ \A s \in Sid : session[s].status = "none" => session[s].hash = NoToken
    /\ \A b \in Browser : /\ Exists(jar[b].sid)
                          /\ jar[b].tok # NoToken => jar[b].sid \in Sid
    /\ \A t \in Tab : Exists(req[t].sid) /\ Exists(req[t].own)
    /\ \A t \in Tab : up[t].pc # "none" => /\ up[t].inst \in Instance
                                          /\ up[t].sid \in Sid
                                          /\ Exists(up[t].sid)
    /\ \A l \in live : Exists(l[3])
    /\ Exists(admin.sid)

(* What a request has established where it stands. *)
LoginKnows(r) ==
    /\ r.pc \in {"isBanned", "create"} => r.user \in User
    /\ r.pc = "create" => ~r.bad
    /\ r.pc = "store" => /\ r.sid \in Sid
                         /\ Active(r.sid) => session[r.sid].hash = NoToken

RefreshKnows(r) ==
    /\ r.pc \in {"lookup", "getSession", "checkBan", "end", "read", "rotate"} =>
          r.tok # NoToken
    /\ r.pc \in {"getSession", "checkBan", "end", "read", "rotate"} => r.sid \in Sid
    /\ r.pc = "rotate" /\ session[r.sid].hash = r.tok => Active(r.sid)
    /\ r.pc = "granted" => r.sid \in Sid /\ r.tok # NoToken /\ Known(r.sid, r.tok)

LogoutKnows(r) ==
    r.pc \in {"mayCall", "mayRevoke", "revoke", "kick"} =>
       /\ r.user \in User /\ r.inst \in Instance /\ r.own \in Sid
       /\ IF r.kind = "all" THEN r.sid = NoSid
                            ELSE r.sid \in Sid /\ UserOf[r.sid] = r.user
       /\ r.pc = "kick" => r.kind # "logout"

StoresAreAlone ==
    \A t1, t2 \in Tab :
       req[t1].pc = "store" /\ req[t2].pc = "store" /\ t1 # t2 =>
          req[t1].sid # req[t2].sid

RequestsKnow ==
    /\ \A t \in Tab : LoginKnows(req[t]) /\ RefreshKnows(req[t]) /\ LogoutKnows(req[t])
    /\ StoresAreAlone

AdminKnows ==
    admin.pc # "none" =>
       /\ admin.user \in User /\ admin.inst \in Instance
       /\ IF admin.kind = "one" THEN admin.sid \in Sid ELSE admin.sid = NoSid
       /\ admin.pc = "set" => admin.kind = "ban"

IInv ==
    /\ TypeOK
    /\ SessionsExist
    /\ RequestsKnow
    /\ AdminKnows
    /\ SocketsAreAuthorised
    /\ BanEndsSessions
    /\ CookieIsKnown
=============================================================================
