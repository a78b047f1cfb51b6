------------------------- MODULE AuthSessionsProofs -------------------------
(***************************************************************************)
(* Theorems about AuthSessions, for any users, sessions, instances, tabs   *)
(* and bounds: its types and the freshness of tokens, that sockets are     *)
(* authorised, that a ban ends sessions, that cookies are known to the     *)
(* store, and that the store keeps SessionContract.                        *)
(***************************************************************************)
EXTENDS AuthSessions, TLAPS

USE SidAssumption, UserAssumption, InstanceAssumption, TabAssumption, BoundAssumption

-----------------------------------------------------------------------------
(* The parts of TypeOK that move together *)

Row == [status : Status, hash : Nat]

StoreOK ==
    /\ session \in [Sid -> Row]
    /\ minted \in 0..MaxTokens
    /\ expired \subseteq 0..minted
    /\ spent \subseteq 0..minted
    /\ \A s \in Sid : session[s].hash \in 0..minted
    /\ \A r, s \in Sid : session[r].hash = session[s].hash /\ r # s =>
                             session[r].hash = NoToken

RequestsOK == req \in [Tab -> Requests] /\ \A t \in Tab : req[t].tok \in 0..minted

JarOK == /\ jar \in [Browser -> [sid : Sid \cup {NoSid}, tok : Nat]]
         /\ \A b \in Browser : jar[b].tok \in 0..minted

UpOK == up \in [Tab -> [pc : {"none", "getSession", "isBanned", "register"},
                        inst : Instance \cup {NoInstance}, sid : Sid \cup {NoSid}]]

AdminOK == admin \in [pc : {"none", "set", "revoke", "kick"}, kind : Operation,
                      user : User \cup {NoUser}, sid : Sid \cup {NoSid},
                      inst : Instance \cup {NoInstance}]

SocketsOK == live \subseteq Tab \X Instance \X Sid /\ raced \subseteq live

RestOK ==
    /\ banned \subseteq User
    /\ late \subseteq Sid
    /\ half \subseteq User
    /\ unkicked \subseteq Sid \X Instance

CountsOK == requests \in 0..MaxRequests /\ faults \in 0..MaxFaults

LEMMA TypeParts ==
  TypeOK <=> /\ StoreOK /\ RequestsOK /\ JarOK /\ UpOK /\ AdminOK /\ SocketsOK
             /\ bus \subseteq Kick /\ RestOK /\ CountsOK
BY DEF TypeOK, StoreOK, Row, RequestsOK, JarOK, UpOK, AdminOK, SocketsOK, RestOK,
       CountsOK, Token

-----------------------------------------------------------------------------
(* What the operations of the store do *)

LEMMA Revoking ==
  ASSUME TypeOK, NEW S \in SUBSET Sid, revokeSession(S),
         UNCHANGED <<minted, expired, spent>>
  PROVE  /\ StoreOK'
         /\ \A s \in Sid : session'[s] = IF s \in S /\ session[s].status # "none"
                                         THEN revoked ELSE session[s]
         /\ revoked.status = "revoked" /\ revoked.hash = NoToken
<1>1. StoreOK
  BY TypeParts
<1>2. /\ revoked \in Row /\ revoked.status = "revoked" /\ revoked.hash = NoToken
      /\ NoToken \in 0..minted
  BY <1>1 DEF revoked, Row, Status, NoToken, StoreOK
<1>3. \A s \in Sid : session'[s] = IF s \in S /\ session[s].status # "none"
                                   THEN revoked ELSE session[s]
  BY DEF revokeSession
<1>4. session' \in [Sid -> Row]
  BY <1>1, <1>2 DEF revokeSession, StoreOK
<1>5. \A s \in Sid : session'[s].hash \in {session[s].hash, NoToken}
  BY <1>3, <1>2
<1>6. \A s \in Sid : session'[s].hash \in 0..minted'
  BY <1>5, <1>2, <1>1 DEF StoreOK
<1>7. \A r, s \in Sid : session'[r].hash = session'[s].hash /\ r # s =>
                            session'[r].hash = NoToken
  BY <1>5, <1>1 DEF StoreOK
<1> QED BY <1>1, <1>2, <1>3, <1>4, <1>6, <1>7 DEF StoreOK

LEMMA Issuing ==
  ASSUME TypeOK, NEW s \in Sid, issueRefresh(s), UNCHANGED expired,
         spent' \subseteq 0..minted
  PROVE  /\ StoreOK'
         /\ minted' = minted + 1
         /\ session'[s].hash = minted + 1 /\ session'[s].status = session[s].status
         /\ \A x \in Sid : x # s => session'[x] = session[x]
<1>1. StoreOK
  BY TypeParts
<1>2. /\ minted' = minted + 1 /\ minted' \in 0..MaxTokens
      /\ 0..minted \subseteq 0..minted' /\ minted + 1 \in 0..minted'
      /\ minted + 1 \notin 0..minted
  BY <1>1 DEF issueRefresh, StoreOK
<1>3. /\ session' \in [Sid -> Row]
      /\ session'[s].hash = minted + 1 /\ session'[s].status = session[s].status
      /\ \A x \in Sid : x # s => session'[x] = session[x]
  BY <1>1, <1>2 DEF issueRefresh, StoreOK, Row
<1>4. \A x \in Sid : session'[x].hash \in 0..minted'
  BY <1>1, <1>2, <1>3 DEF StoreOK
<1>5. \A r, x \in Sid : session'[r].hash = session'[x].hash /\ r # x =>
                            session'[r].hash = NoToken
  BY <1>1, <1>2, <1>3 DEF StoreOK
<1> QED BY <1>1, <1>2, <1>3, <1>4, <1>5 DEF StoreOK

(* Opening a session *)
Opens(s) ==
    /\ session[s].status = "none"
    /\ session' = [session EXCEPT ![s].status = "active"]

LEMMA Opening ==
  ASSUME TypeOK, NEW s \in Sid, Opens(s), UNCHANGED <<minted, expired, spent>>
  PROVE  /\ StoreOK'
         /\ session'[s].status = "active" /\ session'[s].hash = session[s].hash
         /\ \A x \in Sid : x # s => session'[x] = session[x]
<1>1. StoreOK
  BY TypeParts
<1>2. /\ session' \in [Sid -> Row]
      /\ session'[s].status = "active" /\ session'[s].hash = session[s].hash
      /\ \A x \in Sid : x # s => session'[x] = session[x]
  BY <1>1 DEF Opens, StoreOK, Row, Status
<1>3. \A x \in Sid : session'[x].hash = session[x].hash
  BY <1>2
<1> QED BY <1>1, <1>2, <1>3 DEF StoreOK

(* A request that moves on *)
LEMMA Moving ==
  ASSUME TypeOK, NEW t \in Tab, NEW pc \in Step, Becomes(t, pc), UNCHANGED minted
  PROVE  /\ RequestsOK'
         /\ req'[t] = [req[t] EXCEPT !.pc = pc]
         /\ req'[t].pc = pc /\ req'[t].kind = req[t].kind /\ req'[t].user = req[t].user
         /\ req'[t].inst = req[t].inst /\ req'[t].own = req[t].own
         /\ req'[t].sid = req[t].sid /\ req'[t].tok = req[t].tok /\ req'[t].bad = req[t].bad
         /\ \A x \in Tab : x # t => req'[x] = req[x]
<1>1. RequestsOK
  BY TypeParts
<1> QED BY <1>1 DEF Becomes, RequestsOK, Requests

LEMMA Setting ==
  ASSUME TypeOK, NEW t \in Tab, NEW r \in Requests, req' = [req EXCEPT ![t] = r],
         r.tok \in 0..minted', minted' >= minted, minted' \in Nat
  PROVE  RequestsOK' /\ req'[t] = r /\ \A x \in Tab : x # t => req'[x] = req[x]
<1>1. RequestsOK /\ minted \in Nat
  BY TypeParts DEF StoreOK
<1> QED BY <1>1 DEF RequestsOK

LEMMA NoRequestType ==
  NoRequest \in Requests /\ NoRequest.pc = "none" /\ NoRequest.tok = 0
  /\ NoRequest.sid = NoSid /\ NoRequest.own = NoSid
BY DEF NoRequest, Requests, Step, Kind, NoToken

LEMMA NoUpgradeType ==
  /\ NoUpgrade \in [pc : {"none", "getSession", "isBanned", "register"},
                    inst : Instance \cup {NoInstance}, sid : Sid \cup {NoSid}]
  /\ NoUpgrade.pc = "none"
BY DEF NoUpgrade

LEMMA NoAdminType ==
  /\ NoAdmin \in [pc : {"none", "set", "revoke", "kick"}, kind : Operation,
                  user : User \cup {NoUser}, sid : Sid \cup {NoSid},
                  inst : Instance \cup {NoInstance}]
  /\ NoAdmin.pc = "none" /\ NoAdmin.sid = NoSid
BY DEF NoAdmin, Operation

LEMMA Forgetting ==
  ASSUME RestOK, NEW S \in SUBSET Sid, NEW I \in SUBSET Instance, Forgets(S, I)
  PROVE  unkicked' \subseteq Sid \X Instance /\ unkicked \subseteq unkicked'
BY DEF RestOK, Forgets

LEMMA Dropping ==
  ASSUME SocketsOK, NEW gone, Drops(gone)
  PROVE  SocketsOK' /\ live' = live \ gone /\ raced' = raced \ gone
BY DEF SocketsOK, Drops

(* Two fields of a request at once *)
WithBad(r, pc, b) == [r EXCEPT !.pc = pc, !.bad = b]
WithSid(r, pc, s) == [r EXCEPT !.pc = pc, !.sid = s]
WithTok(r, pc, n) == [r EXCEPT !.pc = pc, !.tok = n]

SameCaller(q, r) == /\ q.own = r.own /\ q.user = r.user /\ q.kind = r.kind
                    /\ q.inst = r.inst

LEMMA Fields ==
  ASSUME NEW r \in Requests, NEW pc \in Step
  PROVE  /\ \A b \in BOOLEAN : LET q == WithBad(r, pc, b) IN
               /\ q \in Requests /\ q.pc = pc /\ q.bad = b /\ q.tok = r.tok
               /\ q.sid = r.sid /\ SameCaller(q, r)
         /\ \A s \in Sid : LET q == WithSid(r, pc, s) IN
               /\ q \in Requests /\ q.pc = pc /\ q.sid = s /\ q.tok = r.tok
               /\ SameCaller(q, r)
         /\ \A n \in Nat : LET q == WithTok(r, pc, n) IN
               /\ q \in Requests /\ q.pc = pc /\ q.tok = n /\ q.sid = r.sid
               /\ SameCaller(q, r)
BY DEF Requests, WithBad, WithSid, WithTok, SameCaller

LEMMA Granting ==
  ASSUME TypeOK, NEW t \in Tab, NEW n \in Nat, minted' = n, n >= minted,
         req' = [req EXCEPT ![t].pc = "granted", ![t].tok = n]
  PROVE  /\ RequestsOK'
         /\ req'[t].pc = "granted" /\ req'[t].tok = n /\ req'[t].sid = req[t].sid
         /\ req'[t].own = req[t].own
         /\ \A x \in Tab : x # t => req'[x] = req[x]
<1>1. RequestsOK /\ minted \in Nat /\ req[t] \in Requests
  BY TypeParts DEF StoreOK, RequestsOK
<1>2. LET q == WithTok(req[t], "granted", n) IN
         /\ q \in Requests /\ q.pc = "granted" /\ q.tok = n /\ q.sid = req[t].sid
         /\ SameCaller(q, req[t])
  <2>1. "granted" \in Step
    BY DEF Step
  <2> QED BY <1>1, <2>1, Fields
<1> DEFINE r == WithTok(req[t], "granted", n)
<1>3. req' = [req EXCEPT ![t] = r]
  BY <1>1 DEF RequestsOK, WithTok
<1> HIDE DEF r
<1>4. r.tok \in 0..minted' /\ minted' >= minted /\ minted' \in Nat
  BY <1>1, <1>2 DEF r
<1>5. RequestsOK'
  <2>1. r \in Requests
    BY <1>2 DEF r
  <2> QED BY <1>3, <1>4, <2>1, Setting
<1>6. req'[t] = r /\ \A x \in Tab : x # t => req'[x] = req[x]
  BY <1>3, <1>1 DEF RequestsOK
<1> QED BY <1>2, <1>5, <1>6 DEF r, SameCaller

-----------------------------------------------------------------------------
(* Types *)

frame == <<storeVars, jar, up, admin, socketVars, bus, historyVars, unkicked>>

LEMMA TypePartsNext ==
  TypeOK' <=> /\ StoreOK' /\ RequestsOK' /\ JarOK' /\ UpOK' /\ AdminOK' /\ SocketsOK'
              /\ (bus \subseteq Kick)' /\ RestOK' /\ CountsOK'
BY TypeParts, PTL

(* A part that only mentions unchanged variables stays. *)
LEMMA PartsStay ==
  ASSUME TypeOK
  PROVE  /\ UNCHANGED <<session, minted, expired, spent>> => StoreOK'
         /\ UNCHANGED <<req, minted>> => RequestsOK'
         /\ UNCHANGED <<jar, minted>> => JarOK'
         /\ jar' = jar /\ minted' = minted + 1 => JarOK'
         /\ UNCHANGED up => UpOK'
         /\ UNCHANGED admin => AdminOK'
         /\ UNCHANGED socketVars => SocketsOK'
         /\ UNCHANGED bus => (bus \subseteq Kick)'
         /\ UNCHANGED <<banned, late, half, unkicked>> => RestOK'
         /\ UNCHANGED <<requests, faults>> => CountsOK'
         /\ Arrives /\ UNCHANGED faults => CountsOK'
         /\ Faulty /\ UNCHANGED requests => CountsOK'
BY TypeParts DEF StoreOK, RequestsOK, JarOK, UpOK, AdminOK, socketVars, SocketsOK, RestOK,
   CountsOK, Arrives, Faulty

LEMMA Framed ==
  ASSUME TypeOK, UNCHANGED frame, RequestsOK', CountsOK'
  PROVE  TypeOK'
BY TypePartsNext, PartsStay DEF frame, storeVars, socketVars, historyVars

LEMMA LoginTypes ==
  ASSUME IInv, NEW t \in Tab
  PROVE  /\ \A u \in User, i \in Instance : Login(t, u, i) => TypeOK'
         /\ LoginChecksBan(t) => TypeOK'
         /\ \A s \in Sid : createSession(t, s) => TypeOK'
         /\ storeRefreshHash(t) => TypeOK'
<1>0. /\ TypeOK /\ RequestsOK /\ StoreOK /\ minted \in Nat /\ SocketsOK /\ RestOK
      /\ req \in [Tab -> Requests] /\ req[t] \in Requests /\ req[t].tok \in 0..minted
  BY TypeParts DEF StoreOK, IInv, RequestsOK
<1>1. ASSUME NEW u \in User, NEW i \in Instance, Login(t, u, i)
      PROVE  TypeOK'
  <2> DEFINE r == [NoRequest EXCEPT !.pc = "isBanned", !.user = u, !.inst = i]
  <2>1. r \in Requests /\ r.tok = 0
    BY DEF NoRequest, Requests, Step, Kind, NoToken
  <2>2. req' = [req EXCEPT ![t] = r] /\ minted' = minted
    BY <1>1 DEF Login, storeVars
  <2> HIDE DEF r
  <2>3. RequestsOK'
    <3>1. r.tok \in 0..minted' /\ minted' >= minted /\ minted' \in Nat
      BY <1>0, <2>1, <2>2
    <3> QED BY <1>0, <2>1, <2>2, <3>1, Setting
  <2>4. CountsOK'
    BY <1>0, <1>1, PartsStay DEF Login
  <2> QED BY <1>0, <1>1, <2>3, <2>4, Framed DEF Login, frame
<1>2. ASSUME LoginChecksBan(t)
      PROVE  TypeOK'
  <2> DEFINE pc == IF req[t].user \in banned THEN "kept" ELSE "create"
             bad == req[t].user \in banned
             r == WithBad(req[t], pc, bad)
  <2>1. r \in Requests /\ r.tok = req[t].tok
    <3>1. pc \in Step /\ bad \in BOOLEAN
      BY DEF Step
    <3> HIDE DEF pc, bad
    <3> QED BY <1>0, <3>1, Fields
  <2>2. req' = [req EXCEPT ![t] = r] /\ minted' = minted
    BY <1>0, <1>2 DEF LoginChecksBan, storeVars, WithBad
  <2> HIDE DEF r, pc, bad
  <2>3. RequestsOK'
    BY <1>0, <2>1, <2>2, Setting DEF RequestsOK
  <2> QED BY <1>0, <1>2, <2>3, Framed, PartsStay DEF LoginChecksBan, frame, elsewhere
<1>3. ASSUME NEW s \in Sid, createSession(t, s)
      PROVE  TypeOK'
  <2>1. PICK r : /\ r = WithSid(req[t], "store", s)
                 /\ r \in Requests /\ r.tok = req[t].tok
    BY <1>0, Fields DEF Step
  <2>2. req' = [req EXCEPT ![t] = r] /\ minted' = minted
    BY <1>0, <1>3, <2>1 DEF createSession, WithSid
  <2>3. RequestsOK'
    BY <1>0, <2>1, <2>2, Setting DEF RequestsOK
  <2>4. StoreOK'
    BY <1>0, <1>3, Opening DEF createSession, Opens
  <2>5. RestOK'
    BY <1>0, <1>3 DEF createSession, RestOK, elsewhere
  <2> QED BY <1>0, <1>3, <2>3, <2>4, <2>5, TypePartsNext, PartsStay
          DEF createSession, elsewhere
<1>4. ASSUME storeRefreshHash(t)
      PROVE  TypeOK'
  <2>1. minted' = minted + 1 /\ req[t].sid \in Sid
    BY <1>4 DEF IInv, storeRefreshHash, issueRefresh, RequestsKnow, LoginKnows
  <2>2. PICK n \in Nat : n = minted + 1
    BY <1>0
  <2>3. req' = [req EXCEPT ![t].pc = "granted", ![t].tok = n] /\ minted' = n /\ n >= minted
    BY <1>0, <1>4, <2>1, <2>2 DEF storeRefreshHash
  <2>4. RequestsOK'
    BY <1>0, <2>3, Granting
  <2>5. StoreOK'
    BY <1>0, <1>4, <2>1, Issuing DEF storeRefreshHash, historyVars, StoreOK
  <2> QED BY <1>0, <1>4, <2>1, <2>4, <2>5, TypePartsNext, PartsStay
          DEF storeRefreshHash, elsewhere, historyVars
<1> QED BY <1>1, <1>2, <1>3, <1>4

LEMMA MovedTypes ==
  ASSUME TypeOK, NEW t \in Tab, NEW pc \in Step, Becomes(t, pc), UNCHANGED frame,
         UNCHANGED <<requests, faults>>
  PROVE  TypeOK'
<1>1. RequestsOK'
  BY Moving DEF frame, storeVars
<1>2. CountsOK'
  BY PartsStay
<1> QED BY <1>1, <1>2, Framed

LEMMA RefreshTypes ==
  ASSUME IInv, NEW t \in Tab
  PROVE  /\ \A i \in Instance : Refresh(t, i) => TypeOK'
         /\ RefreshLooksUp(t) => TypeOK'
         /\ RefreshReadsSession(t) => TypeOK'
         /\ RefreshChecksBan(t) => TypeOK'
         /\ RefreshEndsSession(t) => TypeOK'
         /\ RotateReads(t) => TypeOK'
         /\ RotateWrites(t) => TypeOK'
<1>0. /\ TypeOK /\ RequestsOK /\ StoreOK /\ minted \in Nat /\ RestOK /\ JarOK
      /\ req \in [Tab -> Requests] /\ req[t] \in Requests /\ req[t].tok \in 0..minted
  BY TypeParts DEF StoreOK, IInv, RequestsOK
<1>s. /\ {"getSession", "refused", "checkBan", "end", "read", "rotate", "cleared",
          "granted"} \subseteq Step
      /\ Step # {}
  BY DEF Step
<1>1. ASSUME NEW i \in Instance, Refresh(t, i)
      PROVE  TypeOK'
  <2> DEFINE r == [NoRequest EXCEPT !.pc = "lookup", !.kind = "refresh", !.inst = i,
                                    !.sid = Cookies(t).sid, !.tok = Cookies(t).tok]
  <2>0. Cookies(t).sid \in Sid \cup {NoSid} /\ Cookies(t).tok \in 0..minted
        /\ Cookies(t).tok \in Nat
    BY <1>0 DEF JarOK, Cookies
  <2>1. r \in Requests /\ r.tok \in 0..minted
    BY <2>0 DEF NoRequest, Requests, Step, Kind, NoToken
  <2>2. req' = [req EXCEPT ![t] = r] /\ minted' = minted
    BY <1>1 DEF Refresh, storeVars
  <2> HIDE DEF r
  <2>3. RequestsOK'
    <3>1. r.tok \in 0..minted' /\ minted' >= minted /\ minted' \in Nat
      BY <1>0, <2>1, <2>2
    <3> QED BY <1>0, <2>1, <2>2, <3>1, Setting
  <2>4. CountsOK'
    BY <1>0, <1>1, PartsStay DEF Refresh
  <2> QED BY <1>0, <1>1, <2>3, <2>4, Framed DEF Refresh, frame
<1>2. ASSUME RefreshLooksUp(t)
      PROVE  TypeOK'
  <2>1. CASE \E s \in Sid : Accepts(s, req[t].tok)
                            /\ req' = [req EXCEPT ![t].pc = "getSession", ![t].sid = s]
    <3>1. PICK s \in Sid : req' = [req EXCEPT ![t].pc = "getSession", ![t].sid = s]
      BY <2>1
    <3> DEFINE r == WithSid(req[t], "getSession", s)
    <3>2. r \in Requests /\ r.tok = req[t].tok
      BY <1>0, <1>s, Fields
    <3>3. req' = [req EXCEPT ![t] = r] /\ minted' = minted
      BY <1>0, <1>2, <3>1 DEF RefreshLooksUp, storeVars, WithSid
    <3> HIDE DEF r
    <3>4. RequestsOK'
      <4>1. r.tok \in 0..minted' /\ minted' >= minted /\ minted' \in Nat
        BY <1>0, <3>2, <3>3
      <4> QED BY <1>0, <3>2, <3>3, <4>1, Setting
    <3> QED BY <1>0, <1>2, <3>4, Framed, PartsStay DEF RefreshLooksUp, frame, elsewhere
  <2>2. CASE Becomes(t, "refused")
    BY <1>0, <1>2, <1>s, <2>2, MovedTypes DEF RefreshLooksUp, frame, elsewhere
  <2> QED BY <1>2, <2>1, <2>2 DEF RefreshLooksUp
<1>3. ASSUME RefreshReadsSession(t)
      PROVE  TypeOK'
  <2> DEFINE pc == IF Active(req[t].sid) THEN "checkBan" ELSE "refused"
             bad == session[req[t].sid].hash \in expired
             r == WithBad(req[t], pc, bad)
  <2>1. r \in Requests /\ r.tok = req[t].tok
    <3>1. pc \in Step /\ bad \in BOOLEAN
      BY DEF Step
    <3> HIDE DEF pc, bad
    <3> QED BY <1>0, <3>1, Fields
  <2>2. req' = [req EXCEPT ![t] = r] /\ minted' = minted
    BY <1>0, <1>3 DEF RefreshReadsSession, storeVars, WithBad
  <2> HIDE DEF r, pc, bad
  <2>3. RequestsOK'
    <3>1. r.tok \in 0..minted' /\ minted' >= minted /\ minted' \in Nat
      BY <1>0, <2>1, <2>2
    <3> QED BY <1>0, <2>1, <2>2, <3>1, Setting
  <2> QED BY <1>0, <1>3, <2>3, Framed, PartsStay DEF RefreshReadsSession, frame, elsewhere
<1>4. ASSUME RefreshChecksBan(t)
      PROVE  TypeOK'
  <2>1. PICK pc \in Step : Becomes(t, pc)
    BY <1>4, <1>s DEF RefreshChecksBan
  <2> QED BY <1>0, <1>4, <2>1, MovedTypes DEF RefreshChecksBan, frame, elsewhere
<1>5. ASSUME RefreshEndsSession(t)
      PROVE  TypeOK'
  <2>1. req[t].sid \in Sid
    BY <1>5 DEF RefreshEndsSession, IInv, RequestsKnow, RefreshKnows
  <2>2. StoreOK'
    BY <1>0, <1>5, <2>1, Revoking DEF RefreshEndsSession, historyVars
  <2>3. RequestsOK'
    BY <1>0, <1>5, <1>s, Moving DEF RefreshEndsSession
  <2>4. RestOK'
    <3>1. unkicked' \subseteq Sid \X Instance
      BY <1>0, <1>5, <2>1, Forgetting DEF RefreshEndsSession
    <3> QED BY <1>0, <1>5, <3>1 DEF RefreshEndsSession, RestOK, historyVars
  <2> QED BY <1>0, <1>5, <2>2, <2>3, <2>4, TypePartsNext, PartsStay
          DEF RefreshEndsSession, elsewhere
<1>6. ASSUME RotateReads(t)
      PROVE  TypeOK'
  <2>1. PICK pc \in Step : Becomes(t, pc)
    BY <1>6, <1>s DEF RotateReads
  <2> QED BY <1>0, <1>6, <2>1, MovedTypes DEF RotateReads, frame, elsewhere
<1>7. ASSUME RotateWrites(t)
      PROVE  TypeOK'
  <2>1. req[t].sid \in Sid
    BY <1>7 DEF RotateWrites, IInv, RequestsKnow, RefreshKnows
  <2>2. CASE issueRefresh(req[t].sid) /\ spent' = spent \cup {req[t].tok}
             /\ req' = [req EXCEPT ![t].pc = "granted", ![t].tok = minted']
    <3>1. minted' = minted + 1
      BY <2>2 DEF issueRefresh
    <3>2. PICK n \in Nat : n = minted + 1
      BY <1>0
    <3>3. /\ req' = [req EXCEPT ![t].pc = "granted", ![t].tok = n]
          /\ minted' = n /\ n >= minted
      BY <1>0, <2>2, <3>1, <3>2
    <3>4. RequestsOK'
      BY <1>0, <3>3, Granting
    <3>5. StoreOK'
      <4>1. spent' \subseteq 0..minted
        BY <1>0, <2>2 DEF StoreOK
      <4> QED BY <1>0, <1>7, <2>1, <2>2, <4>1, Issuing DEF RotateWrites
    <3> QED BY <1>0, <1>7, <3>1, <3>4, <3>5, TypePartsNext, PartsStay
            DEF RotateWrites, elsewhere
  <2>3. CASE Becomes(t, "refused") /\ UNCHANGED <<session, minted, spent>>
    BY <1>0, <1>7, <1>s, <2>3, MovedTypes
       DEF RotateWrites, frame, elsewhere, storeVars, historyVars
  <2> QED BY <1>7, <2>2, <2>3 DEF RotateWrites
<1> QED BY <1>1, <1>2, <1>3, <1>4, <1>5, <1>6, <1>7

LEMMA LogoutTypes ==
  ASSUME IInv, NEW t \in Tab
  PROVE  /\ \A i \in Instance, kind \in Kind, target \in Sid \cup {NoSid} :
               Logout(t, i, kind, target) => TypeOK'
         /\ AuthMiddleware(t) => TypeOK'
         /\ RequireAuth(t) => TypeOK'
         /\ LogoutRevokes(t) => TypeOK'
         /\ LogoutKicks(t) => TypeOK'
         /\ Answered(t) => TypeOK'
<1>0. /\ TypeOK /\ RequestsOK /\ StoreOK /\ minted \in Nat /\ RestOK /\ JarOK /\ SocketsOK
      /\ req \in [Tab -> Requests] /\ req[t] \in Requests /\ req[t].tok \in 0..minted
  BY TypeParts DEF StoreOK, IInv, RequestsOK
<1>s. {"kept", "revoke", "mayRevoke", "cleared", "kick"} \subseteq Step
  BY DEF Step
<1>1. ASSUME NEW i \in Instance, NEW kind \in Kind, NEW target \in Sid \cup {NoSid},
             Logout(t, i, kind, target)
      PROVE  TypeOK'
  <2> DEFINE r == [NoRequest EXCEPT !.pc = "mayCall", !.kind = kind, !.inst = i,
                     !.user = UserOf[Cookies(t).sid], !.own = Cookies(t).sid,
                     !.sid = target]
  <2>0. Cookies(t).sid \in Sid /\ UserOf[Cookies(t).sid] \in User
    BY <1>0, <1>1 DEF JarOK, Cookies, Logout
  <2>1. r \in Requests /\ r.tok = 0
    BY <2>0 DEF NoRequest, Requests, Step, Kind, NoToken
  <2>2. req' = [req EXCEPT ![t] = r] /\ minted' = minted
    BY <1>1 DEF Logout, storeVars
  <2> HIDE DEF r
  <2>3. RequestsOK'
    <3>1. r.tok \in 0..minted' /\ minted' >= minted /\ minted' \in Nat
      BY <1>0, <2>1, <2>2
    <3> QED BY <1>0, <2>1, <2>2, <3>1, Setting
  <2>4. CountsOK'
    BY <1>0, <1>1, PartsStay DEF Logout
  <2> QED BY <1>0, <1>1, <2>3, <2>4, Framed DEF Logout, frame
<1>2. ASSUME AuthMiddleware(t)
      PROVE  TypeOK'
  <2>1. PICK pc \in Step : Becomes(t, pc)
    BY <1>2, <1>s DEF AuthMiddleware
  <2> QED BY <1>0, <1>2, <2>1, MovedTypes DEF AuthMiddleware, frame, elsewhere
<1>3. ASSUME RequireAuth(t)
      PROVE  TypeOK'
  <2>1. PICK pc \in Step : Becomes(t, pc)
    BY <1>3, <1>s DEF RequireAuth
  <2> QED BY <1>0, <1>3, <2>1, MovedTypes DEF RequireAuth, frame, elsewhere
<1>4. ASSUME LogoutRevokes(t)
      PROVE  TypeOK'
  <2>1. PICK S \in SUBSET Sid : revokeSession(S)
    <3>1. CASE req[t].kind = "all"
      BY <1>4, <3>1 DEF LogoutRevokes, revokeAllSessions, SessionsOf
    <3>2. CASE req[t].kind # "all"
      <4>1. req[t].sid \in Sid
        BY <1>4, <3>2 DEF LogoutRevokes, IInv, RequestsKnow, LogoutKnows
      <4> QED BY <1>4, <3>2, <4>1 DEF LogoutRevokes
    <3> QED BY <3>1, <3>2
  <2>2. StoreOK'
    BY <1>0, <1>4, <2>1, Revoking DEF LogoutRevokes, historyVars
  <2>3. PICK pc \in Step : Becomes(t, pc)
    BY <1>4, <1>s DEF LogoutRevokes
  <2>4. RequestsOK'
    BY <1>0, <1>4, <2>3, Moving DEF LogoutRevokes
  <2>5. RestOK'
    <3>1. unkicked' \subseteq Sid \X Instance
      <4>1. PICK S1 \in SUBSET Sid, I \in SUBSET Instance : Forgets(S1, I)
        BY <1>4 DEF LogoutRevokes, Covered
      <4> QED BY <1>0, <4>1, Forgetting
    <3> QED BY <1>0, <1>4, <3>1 DEF LogoutRevokes, RestOK, historyVars
  <2> QED BY <1>0, <1>4, <2>2, <2>4, <2>5, TypePartsNext, PartsStay
          DEF LogoutRevokes, elsewhere
<1>5. ASSUME LogoutKicks(t)
      PROVE  TypeOK'
  <2>1. PICK pc \in Step : Becomes(t, pc)
    BY <1>5, <1>s DEF LogoutKicks
  <2>2. RequestsOK'
    BY <1>0, <1>5, <2>1, Moving DEF LogoutKicks, storeVars
  <2>3. SocketsOK'
    BY <1>0, <1>5, Dropping DEF LogoutKicks, remove
  <2> QED BY <1>0, <1>5, <2>2, <2>3, TypePartsNext, PartsStay
          DEF LogoutKicks, elsewhere, storeVars, historyVars
<1>6. ASSUME Answered(t)
      PROVE  TypeOK'
  <2>1. RequestsOK'
    <3>1. /\ req' = [req EXCEPT ![t] = NoRequest] /\ NoRequest \in Requests
          /\ NoRequest.tok \in 0..minted' /\ minted' >= minted /\ minted' \in Nat
      BY <1>0, <1>6, NoRequestType DEF Answered, storeVars
    <3> QED BY <1>0, <3>1, Setting
  <2>2. JarOK'
    <3> DEFINE c == CASE req[t].pc = "granted" -> [sid |-> req[t].sid, tok |-> req[t].tok]
                      [] req[t].pc = "kept"    -> jar[BrowserOf[t]]
                      [] OTHER                 -> EmptyJar
    <3>1. jar' = [jar EXCEPT ![BrowserOf[t]] = c] /\ minted' = minted
      BY <1>6, <1>0 DEF Answered, storeVars, JarOK
    <3>2. BrowserOf[t] \in Browser /\ req[t].sid \in Sid \cup {NoSid} /\ req[t].tok \in Nat
      BY <1>0 DEF Requests
    <3>3. c \in [sid : Sid \cup {NoSid}, tok : Nat] /\ c.tok \in 0..minted
      <4>1. CASE req[t].pc = "granted"
        BY <1>0, <3>2, <4>1
      <4>2. CASE req[t].pc = "kept"
        BY <1>0, <3>2, <4>2 DEF JarOK
      <4>3. CASE req[t].pc \notin {"granted", "kept"}
        BY <1>0, <4>3 DEF EmptyJar, NoToken
      <4> QED BY <4>1, <4>2, <4>3
    <3> HIDE DEF c
    <3> QED BY <1>0, <3>1, <3>2, <3>3 DEF JarOK
  <2> QED BY <1>0, <1>6, <2>1, <2>2, TypePartsNext, PartsStay
          DEF Answered, storeVars, historyVars
<1> QED BY <1>1, <1>2, <1>3, <1>4, <1>5, <1>6

LEMMA AdminTypes ==
  ASSUME IInv
  PROVE  /\ \A kind \in Operation, u \in User, s \in Sid \cup {NoSid}, i \in Instance :
               AdminStarts(kind, u, s, i) => TypeOK'
         /\ setBanned => TypeOK'
         /\ AdminRevokes => TypeOK'
         /\ AdminKicks => TypeOK'
         /\ \A u \in User : Unban(u) => TypeOK'
         /\ \A k \in bus : OnAdminKick(k) => TypeOK'
         /\ \A k \in bus : KickIsLost(k) => TypeOK'
<1>0. /\ TypeOK /\ RequestsOK /\ StoreOK /\ minted \in Nat /\ RestOK /\ JarOK /\ SocketsOK
      /\ AdminOK /\ bus \subseteq Kick /\ AdminKnows
  BY TypeParts DEF StoreOK, IInv
<1>1. ASSUME NEW kind \in Operation, NEW u \in User, NEW s \in Sid \cup {NoSid},
             NEW i \in Instance, AdminStarts(kind, u, s, i)
      PROVE  TypeOK'
  <2>1. AdminOK'
    BY <1>1 DEF AdminStarts, AdminOK
  <2>2. CountsOK'
    BY <1>0, <1>1, PartsStay DEF AdminStarts
  <2> QED BY <1>0, <1>1, <2>1, <2>2, TypePartsNext, PartsStay
          DEF AdminStarts, storeVars, historyVars
<1>2. ASSUME setBanned
      PROVE  TypeOK'
  <2>1. AdminOK'
    BY <1>0, <1>2 DEF setBanned, AdminOK
  <2>2. RestOK'
    BY <1>0, <1>2 DEF setBanned, RestOK, historyVars, AdminKnows
  <2> QED BY <1>0, <1>2, <2>1, <2>2, TypePartsNext, PartsStay
          DEF setBanned, storeVars, historyVars
<1>3. ASSUME AdminRevokes
      PROVE  TypeOK'
  <2>1. AdminOK'
    BY <1>0, <1>3 DEF AdminRevokes, AdminOK
  <2>2. PICK S \in SUBSET Sid : revokeSession(S)
    BY <1>0, <1>3 DEF AdminRevokes, AdminKnows, revokeAllSessions, SessionsOf
  <2>3. StoreOK'
    BY <1>0, <1>3, <2>2, Revoking DEF AdminRevokes, historyVars
  <2> QED BY <1>0, <1>3, <2>1, <2>3, TypePartsNext, PartsStay
          DEF AdminRevokes, historyVars
<1>4. ASSUME AdminKicks
      PROVE  TypeOK'
  <2>1. AdminOK'
    BY <1>4, NoAdminType DEF AdminKicks, AdminOK
  <2>2. SocketsOK'
    BY <1>0, <1>4, Dropping DEF AdminKicks, remove
  <2>3. (bus \subseteq Kick)'
    BY <1>0, <1>4 DEF AdminKicks, publishAdminKick, Kick, AdminOK, AdminKnows
  <2>4. RestOK' /\ CountsOK'
    <3>1. unkicked' \subseteq Sid \X Instance /\ UNCHANGED <<banned, late, half>>
      <4>1. Ended(admin.user, admin.sid) \in SUBSET Sid
            /\ Instance \ {admin.inst} \in SUBSET Instance
        BY DEF Ended, Covered
      <4> QED BY <1>0, <1>4, <4>1, Forgetting DEF AdminKicks, RestOK, storeVars, historyVars
    <3>2. CountsOK'
      BY <1>0, <1>4, PartsStay DEF AdminKicks
    <3> QED BY <1>0, <3>1, <3>2 DEF RestOK
  <2> QED BY <1>0, <1>4, <2>1, <2>2, <2>3, <2>4, TypePartsNext, PartsStay
          DEF AdminKicks, storeVars, historyVars
<1>5. ASSUME NEW u \in User, Unban(u)
      PROVE  TypeOK'
  <2>1. RestOK' /\ CountsOK'
    BY <1>0, <1>5, PartsStay DEF Unban, RestOK, historyVars
  <2> QED BY <1>0, <1>5, <2>1, TypePartsNext, PartsStay DEF Unban, historyVars
<1>6. ASSUME NEW k \in bus, OnAdminKick(k)
      PROVE  TypeOK'
  <2>1. SocketsOK'
    BY <1>0, <1>6, Dropping DEF OnAdminKick, remove
  <2>2. (bus \subseteq Kick)'
    BY <1>0, <1>6 DEF OnAdminKick
  <2> QED BY <1>0, <1>6, <2>1, <2>2, TypePartsNext, PartsStay
          DEF OnAdminKick, storeVars, historyVars
<1>7. ASSUME NEW k \in bus, KickIsLost(k)
      PROVE  TypeOK'
  <2>1. (bus \subseteq Kick)'
    BY <1>0, <1>7 DEF KickIsLost
  <2>2. RestOK'
    <3>1. unkicked' \subseteq Sid \X Instance
      <4>1. Ended(k.user, k.sid) \in SUBSET Sid /\ {k.to} \in SUBSET Instance
        BY <1>0 DEF Ended, Covered, Kick
      <4> QED BY <1>0, <1>7, <4>1, Forgetting DEF KickIsLost
    <3> QED BY <1>0, <1>7, <3>1 DEF KickIsLost, RestOK, storeVars, historyVars
  <2>3. CountsOK'
    BY <1>0, <1>7, PartsStay DEF KickIsLost
  <2> QED BY <1>0, <1>7, <2>1, <2>2, <2>3, TypePartsNext, PartsStay
          DEF KickIsLost, storeVars, historyVars
<1> QED BY <1>1, <1>2, <1>3, <1>4, <1>5, <1>6, <1>7

LEMMA UpgradeTypes ==
  ASSUME IInv, NEW t \in Tab
  PROVE  /\ \A i \in Instance : HandleUpgrade(t, i) => TypeOK'
         /\ UpgradeReadsSession(t) => TypeOK'
         /\ UpgradeChecksBan(t) => TypeOK'
         /\ Registers(t) => TypeOK'
         /\ Disconnect(t) => TypeOK'
<1>0. TypeOK /\ StoreOK /\ JarOK /\ SocketsOK /\ UpOK
  BY TypeParts DEF IInv
<1>1. ASSUME NEW i \in Instance, HandleUpgrade(t, i)
      PROVE  TypeOK'
  <2>0. Cookies(t).sid \in Sid \cup {NoSid}
    BY <1>0 DEF JarOK, Cookies
  <2>1. UpOK'
    BY <1>0, <1>1, <2>0 DEF HandleUpgrade, UpOK
  <2>2. CountsOK'
    BY <1>0, <1>1, PartsStay DEF HandleUpgrade
  <2> QED BY <1>0, <1>1, <2>1, <2>2, TypePartsNext, PartsStay
          DEF HandleUpgrade, storeVars, historyVars
<1>2. ASSUME UpgradeReadsSession(t)
      PROVE  TypeOK'
  <2>1. UpOK'
    BY <1>0, <1>2, NoUpgradeType DEF UpgradeReadsSession, UpOK
  <2> QED BY <1>0, <1>2, <2>1, TypePartsNext, PartsStay
          DEF UpgradeReadsSession, storeVars, historyVars
<1>3. ASSUME UpgradeChecksBan(t)
      PROVE  TypeOK'
  <2>1. UpOK'
    BY <1>0, <1>3, NoUpgradeType DEF UpgradeChecksBan, UpOK
  <2>2. CountsOK'
    BY <1>0, <1>3, PartsStay DEF UpgradeChecksBan
  <2> QED BY <1>0, <1>3, <2>1, <2>2, TypePartsNext, PartsStay
          DEF UpgradeChecksBan, storeVars, historyVars
<1>4. ASSUME Registers(t)
      PROVE  TypeOK'
  <2>1. UpOK'
    BY <1>0, <1>4, NoUpgradeType DEF Registers, UpOK
  <2>2. SocketsOK'
    <3>1. up[t].inst \in Instance /\ up[t].sid \in Sid
      BY <1>4 DEF Registers, IInv, SessionsExist
    <3> QED BY <1>0, <1>4, <3>1 DEF Registers, SocketsOK
  <2> QED BY <1>0, <1>4, <2>1, <2>2, TypePartsNext, PartsStay
          DEF Registers, storeVars, historyVars
<1>5. ASSUME Disconnect(t)
      PROVE  TypeOK'
  <2>1. SocketsOK'
    BY <1>0, <1>5, Dropping DEF Disconnect
  <2> QED BY <1>0, <1>5, <2>1, TypePartsNext, PartsStay
          DEF Disconnect, storeVars, historyVars
<1> QED BY <1>1, <1>2, <1>3, <1>4, <1>5

LEMMA FaultTypes ==
  ASSUME IInv
  PROVE  /\ \A tok \in 1..MaxTokens : Expire(tok) => TypeOK'
         /\ \A t \in Tab : RequestFails(t) => TypeOK'
         /\ AdminFails => TypeOK'
         /\ \A i \in Instance : Crash(i) => TypeOK'
<1>0. /\ TypeOK /\ StoreOK /\ RequestsOK /\ SocketsOK /\ UpOK /\ RestOK /\ AdminOK
      /\ bus \subseteq Kick /\ AdminKnows /\ minted \in Nat
  BY TypeParts DEF IInv, StoreOK
<1>u. \A pc, u, sid : Unsent(pc, u, sid) \in SUBSET Sid
  BY DEF Unsent, Ended, Covered
<1>h. admin.pc # "none" => HalfDone \subseteq User
  BY <1>0 DEF HalfDone, AdminKnows, RestOK
<1>1. ASSUME NEW tok \in 1..MaxTokens, Expire(tok)
      PROVE  TypeOK'
  <2>1. StoreOK'
    BY <1>0, <1>1 DEF Expire, StoreOK, historyVars
  <2>2. CountsOK'
    BY <1>0, <1>1, PartsStay DEF Expire
  <2> QED BY <1>0, <1>1, <2>1, <2>2, TypePartsNext, PartsStay DEF Expire, historyVars
<1>2. ASSUME NEW t \in Tab, RequestFails(t)
      PROVE  TypeOK'
  <2>1. RequestsOK'
    <3>1. CASE req' = [req EXCEPT ![t] = NoRequest]
      <4>1. /\ NoRequest \in Requests /\ NoRequest.tok \in 0..minted'
            /\ minted' >= minted /\ minted' \in Nat
        BY <1>0, <1>2, NoRequestType DEF RequestFails, storeVars
      <4> QED BY <1>0, <3>1, <4>1, Setting
    <3>2. CASE Becomes(t, "kick")
      <4>1. "kick" \in Step
        BY DEF Step
      <4> QED BY <1>0, <1>2, <3>2, <4>1, Moving DEF RequestFails, storeVars
    <3> QED BY <1>2, <3>1, <3>2 DEF RequestFails
  <2>2. RestOK' /\ CountsOK'
    <3>1. unkicked' \subseteq Sid \X Instance
      BY <1>0, <1>2, <1>u, Forgetting DEF RequestFails, RestOK
    <3>2. CountsOK'
      BY <1>0, <1>2, PartsStay DEF RequestFails
    <3> QED BY <1>0, <1>2, <3>1, <3>2 DEF RequestFails, RestOK, storeVars, historyVars
  <2> QED BY <1>0, <1>2, <2>1, <2>2, TypePartsNext, PartsStay
          DEF RequestFails, storeVars, historyVars
<1>3. ASSUME AdminFails
      PROVE  TypeOK'
  <2>1. AdminOK'
    BY <1>3, NoAdminType DEF AdminFails, AdminOK
  <2>2. RestOK' /\ CountsOK'
    <3>1. unkicked' \subseteq Sid \X Instance
      BY <1>0, <1>3, <1>u, Forgetting DEF AdminFails
    <3>2. CountsOK'
      BY <1>0, <1>3, PartsStay DEF AdminFails
    <3> QED BY <1>0, <1>3, <1>h, <3>1, <3>2 DEF AdminFails, RestOK, storeVars
  <2> QED BY <1>0, <1>3, <2>1, <2>2, TypePartsNext, PartsStay DEF AdminFails, storeVars
<1>4. ASSUME NEW i \in Instance, Crash(i)
      PROVE  TypeOK'
  <2>1. RequestsOK'
    <3>1. \A t \in Tab : req'[t] \in {NoRequest, req[t]}
      BY <1>4 DEF Crash
    <3>2. req' \in [Tab -> Requests]
      BY <1>0, <1>4, NoRequestType DEF Crash, RequestsOK
    <3>3. \A t \in Tab : req'[t].tok \in 0..minted /\ minted' = minted
      BY <1>0, <1>4, <3>1, NoRequestType DEF Crash, RequestsOK, storeVars
    <3> QED BY <3>2, <3>3 DEF RequestsOK
  <2>2. UpOK'
    BY <1>0, <1>4, NoUpgradeType DEF Crash, UpOK
  <2>3. AdminOK'
    BY <1>0, <1>4, NoAdminType DEF Crash, AdminOK
  <2>4. SocketsOK' /\ (bus \subseteq Kick)' /\ CountsOK'
    <3>1. SocketsOK'
      BY <1>0, <1>4, Dropping DEF Crash
    <3>2. (bus \subseteq Kick)'
      BY <1>0, <1>4 DEF Crash
    <3>3. CountsOK'
      BY <1>0, <1>4, PartsStay DEF Crash
    <3> QED BY <3>1, <3>2, <3>3
  <2>5. RestOK'
    <3>1. unkicked' \subseteq Sid \X Instance
      BY <1>0, <1>4, <1>u, Forgetting DEF Crash, RestOK
    <3>2. half' \subseteq User
      BY <1>0, <1>4 DEF Crash, HalfDone, RestOK, AdminOK, AdminKnows
    <3> QED BY <1>0, <1>4, <3>1, <3>2 DEF Crash, RestOK, storeVars
  <2> QED BY <1>0, <1>4, <2>1, <2>2, <2>3, <2>4, <2>5, TypePartsNext, PartsStay
          DEF Crash, storeVars
<1> QED BY <1>1, <1>2, <1>3, <1>4

LEMMA TypeStep ==
  ASSUME IInv, Next
  PROVE  TypeOK'
BY LoginTypes, RefreshTypes, LogoutTypes, AdminTypes, UpgradeTypes, FaultTypes DEF Next

-----------------------------------------------------------------------------
(* The steps of the store *)

Stores(t) ==
    /\ req[t].pc = "store" /\ req[t].sid \in Sid
    /\ issueRefresh(req[t].sid)
    /\ req'[t].pc = "granted" /\ spent' = spent

Exchanges(t) ==
    /\ req[t].pc = "rotate" /\ req[t].sid \in Sid
    /\ session[req[t].sid].hash = req[t].tok /\ req[t].tok # NoToken
    /\ Active(req[t].sid)
    /\ issueRefresh(req[t].sid)
    /\ req'[t].pc = "granted"
    /\ spent' = spent \cup {req[t].tok}

(* What any step does to the sessions and the history of tokens *)
StoreMoves ==
    \/ UNCHANGED <<session, minted, spent>>
    \/ \E S \in SUBSET Sid : revokeSession(S) /\ UNCHANGED <<minted, expired, spent>>
    \/ \E s \in Sid : Opens(s) /\ UNCHANGED <<minted, expired, spent>>
    \/ \E t \in Tab : Stores(t) /\ UNCHANGED expired
    \/ \E t \in Tab : Exchanges(t) /\ UNCHANGED expired

LEMMA StoreStep ==
  ASSUME IInv, Next
  PROVE  StoreMoves
<1>0. TypeOK /\ RequestsOK /\ minted \in Nat /\ AdminKnows
  BY TypeParts DEF IInv, StoreOK
<1>1. ASSUME NEW t \in Tab, NEW i \in Instance,
             \/ \E u \in User : Login(t, u, i)
             \/ Refresh(t, i)
             \/ \E kind \in Kind, s \in Sid \cup {NoSid} : Logout(t, i, kind, s)
             \/ HandleUpgrade(t, i)
      PROVE  StoreMoves
  BY <1>1 DEF Login, Refresh, Logout, HandleUpgrade, storeVars, historyVars, StoreMoves
<1>2. ASSUME NEW t \in Tab,
             \/ LoginChecksBan(t) \/ RefreshLooksUp(t) \/ RefreshReadsSession(t)
             \/ RefreshChecksBan(t) \/ RotateReads(t) \/ AuthMiddleware(t)
             \/ RequireAuth(t) \/ LogoutKicks(t) \/ Answered(t)
             \/ UpgradeReadsSession(t) \/ UpgradeChecksBan(t) \/ Registers(t)
             \/ Disconnect(t) \/ RequestFails(t)
      PROVE  StoreMoves
  BY <1>2 DEF LoginChecksBan, RefreshLooksUp, RefreshReadsSession, RefreshChecksBan,
     RotateReads, AuthMiddleware, RequireAuth, LogoutKicks, Answered,
     UpgradeReadsSession, UpgradeChecksBan, Registers, Disconnect, RequestFails,
     storeVars, historyVars, StoreMoves
<1>3. ASSUME NEW t \in Tab, NEW s \in Sid, createSession(t, s)
      PROVE  StoreMoves
  BY <1>3 DEF createSession, Opens, StoreMoves
<1>4. ASSUME NEW t \in Tab, storeRefreshHash(t)
      PROVE  StoreMoves
  <2>1. req[t].pc = "store" /\ req[t].sid \in Sid
    BY <1>4 DEF storeRefreshHash, IInv, RequestsKnow, LoginKnows
  <2>2. PICK n \in Nat : n = minted + 1
    BY <1>0
  <2>3. /\ req' = [req EXCEPT ![t].pc = "granted", ![t].tok = n] /\ minted' = n
        /\ n >= minted
    BY <1>0, <1>4, <2>2 DEF storeRefreshHash, issueRefresh
  <2>4. req'[t].pc = "granted"
    BY <1>0, <2>3, Granting
  <2> QED BY <1>4, <2>1, <2>4 DEF storeRefreshHash, Stores, historyVars, StoreMoves
<1>5. ASSUME NEW t \in Tab, RefreshEndsSession(t)
      PROVE  StoreMoves
  <2>1. req[t].sid \in Sid
    BY <1>5 DEF RefreshEndsSession, IInv, RequestsKnow, RefreshKnows
  <2> QED BY <1>5, <2>1 DEF RefreshEndsSession, StoreMoves, historyVars
<1>6. ASSUME NEW t \in Tab, RotateWrites(t)
      PROVE  StoreMoves
  <2>1. CASE Becomes(t, "refused") /\ UNCHANGED <<session, minted, spent>>
    BY <2>1 DEF StoreMoves
  <2>2. CASE /\ session[req[t].sid].hash = req[t].tok
             /\ issueRefresh(req[t].sid)
             /\ spent' = spent \cup {req[t].tok}
             /\ req' = [req EXCEPT ![t].pc = "granted", ![t].tok = minted']
    <3>1. /\ req[t].pc = "rotate" /\ req[t].sid \in Sid /\ req[t].tok # NoToken
          /\ Active(req[t].sid)
      BY <1>6, <2>2 DEF RotateWrites, IInv, RequestsKnow, RefreshKnows
    <3>2. PICK n \in Nat : n = minted + 1
      BY <1>0
    <3>3. /\ req' = [req EXCEPT ![t].pc = "granted", ![t].tok = n] /\ minted' = n
          /\ n >= minted
      BY <1>0, <2>2, <3>2 DEF issueRefresh
    <3>4. req'[t].pc = "granted"
      BY <1>0, <3>3, Granting
    <3> QED BY <1>6, <2>2, <3>1, <3>4 DEF RotateWrites, Exchanges, StoreMoves
  <2> QED BY <1>6, <2>1, <2>2 DEF RotateWrites
<1>7. ASSUME NEW t \in Tab, LogoutRevokes(t)
      PROVE  StoreMoves
  <2>1. PICK S \in SUBSET Sid : revokeSession(S)
    <3>1. CASE req[t].kind = "all"
      BY <1>7, <3>1 DEF LogoutRevokes, revokeAllSessions, SessionsOf
    <3>2. CASE req[t].kind # "all"
      <4>1. req[t].sid \in Sid
        BY <1>7, <3>2 DEF LogoutRevokes, IInv, RequestsKnow, LogoutKnows
      <4> QED BY <1>7, <3>2, <4>1 DEF LogoutRevokes
    <3> QED BY <3>1, <3>2
  <2> QED BY <1>7, <2>1 DEF LogoutRevokes, StoreMoves, historyVars
<1>8. ASSUME AdminRevokes
      PROVE  StoreMoves
  <2>1. PICK S \in SUBSET Sid : revokeSession(S)
    BY <1>0, <1>8 DEF AdminRevokes, AdminKnows, revokeAllSessions, SessionsOf
  <2> QED BY <1>8, <2>1 DEF AdminRevokes, StoreMoves, historyVars
<1>9. ASSUME NEW kind \in Operation, NEW u \in User, NEW s \in Sid \cup {NoSid},
             NEW i \in Instance, AdminStarts(kind, u, s, i)
      PROVE  StoreMoves
  BY <1>9 DEF AdminStarts, storeVars, historyVars, StoreMoves
<1>10. ASSUME setBanned \/ AdminKicks \/ AdminFails \/ (\E u \in User : Unban(u))
              \/ (\E k \in bus : OnAdminKick(k) \/ KickIsLost(k))
       PROVE  StoreMoves
  BY <1>10 DEF setBanned, AdminKicks, AdminFails, Unban, OnAdminKick, KickIsLost,
     storeVars, historyVars, StoreMoves
<1>11. ASSUME (\E tok \in 1..MaxTokens : Expire(tok)) \/ (\E i \in Instance : Crash(i))
       PROVE  StoreMoves
  BY <1>11 DEF Expire, Crash, storeVars, historyVars, StoreMoves
<1> QED BY <1>1, <1>2, <1>3, <1>4, <1>5, <1>6, <1>7, <1>8, <1>9, <1>10, <1>11 DEF Next

(* A session that exists goes on existing, a revoked one stays revoked,    *)
(* and what the store has heard of stays known.                            *)
LEMMA StoreKeeps ==
  ASSUME IInv, StoreMoves, NEW s \in Sid
  PROVE  /\ Exists(s) => Exists(s)'
         /\ session[s].status = "revoked" => session'[s].status = "revoked"
         /\ \A tok \in 1..minted : Known(s, tok) => Known(s, tok)'
         /\ session[s].status = "active" => session'[s].status \in {"active", "revoked"}
<1>0. TypeOK /\ StoreOK /\ session \in [Sid -> Row]
  BY TypeParts DEF IInv, StoreOK
<1>1. CASE UNCHANGED <<session, minted, spent>>
  BY <1>0, <1>1 DEF Exists, Known
<1>2. ASSUME NEW S \in SUBSET Sid, revokeSession(S), UNCHANGED <<minted, expired, spent>>
      PROVE  /\ session[s].status # "none" => session'[s].status # "none"
             /\ session[s].status = "revoked" => session'[s].status = "revoked"
             /\ spent' = spent
             /\ session'[s].status = "revoked" \/ session'[s] = session[s]
  <2>1. /\ session'[s] = IF s \in S /\ session[s].status # "none" THEN revoked ELSE session[s]
        /\ revoked.status = "revoked"
    BY <1>0, <1>2, Revoking
  <2> QED BY <1>2, <2>1
<1>3. ASSUME NEW x \in Sid, Opens(x), UNCHANGED <<minted, expired, spent>>
      PROVE  /\ session[s].status # "none" => session'[s].status # "none"
             /\ session[s].status # "none" => session'[s].status = session[s].status
             /\ session'[s].hash = session[s].hash
             /\ spent' = spent
  <2>1. /\ session'[x].status = "active" /\ session'[x].hash = session[x].hash
        /\ \A y \in Sid : y # x => session'[y] = session[y]
    BY <1>0, <1>3, Opening
  <2> QED BY <1>3, <2>1 DEF Opens
<1>4. ASSUME NEW t \in Tab, Stores(t), UNCHANGED expired
      PROVE  /\ session'[s].status = session[s].status
             /\ spent' = spent
             /\ session'[s].hash = session[s].hash
                \/ ~Active(s) \/ session[s].hash = NoToken
  <2>1. spent' \subseteq 0..minted
    BY <1>0, <1>4 DEF Stores, StoreOK
  <2>2. /\ session'[req[t].sid].status = session[req[t].sid].status
        /\ \A y \in Sid : y # req[t].sid => session'[y] = session[y]
    BY <1>0, <1>4, <2>1, Issuing DEF Stores
  <2>3. Active(req[t].sid) => session[req[t].sid].hash = NoToken
    BY <1>4 DEF Stores, IInv, RequestsKnow, LoginKnows
  <2> QED BY <1>4, <2>2, <2>3 DEF Stores
<1>5. ASSUME NEW t \in Tab, Exchanges(t), UNCHANGED expired
      PROVE  /\ session'[s].status = session[s].status
             /\ spent \subseteq spent'
             /\ session'[s].hash = session[s].hash \/ session[s].hash \in spent'
  <2>1. spent' \subseteq 0..minted
    BY <1>0, <1>5 DEF Exchanges, StoreOK, RequestsOK, TypeOK, Token
  <2>2. /\ session'[req[t].sid].status = session[req[t].sid].status
        /\ \A y \in Sid : y # req[t].sid => session'[y] = session[y]
    BY <1>0, <1>5, <2>1, Issuing DEF Exchanges
  <2> QED BY <1>5, <2>2 DEF Exchanges
<1>6. s # NoSid /\ NoToken \notin 1..minted /\ minted \in Nat
  BY <1>0 DEF NoToken, StoreOK
<1>7. session[s].status \in Status
  BY <1>0 DEF Row
<1>8. CASE \E S \in SUBSET Sid : revokeSession(S) /\ UNCHANGED <<minted, expired, spent>>
  BY <1>2, <1>8 DEF Exists, Known
<1>9. CASE \E x \in Sid : Opens(x) /\ UNCHANGED <<minted, expired, spent>>
  BY <1>3, <1>9 DEF Exists, Known
<1>10. CASE \E t \in Tab : Stores(t) /\ UNCHANGED expired
  <2>1. /\ session'[s].status = session[s].status
        /\ spent' = spent
        /\ session'[s].hash = session[s].hash \/ ~Active(s) \/ session[s].hash = NoToken
    BY <1>4, <1>10
  <2>2. ASSUME NEW tok \in 1..minted, Known(s, tok)
        PROVE  Known(s, tok)'
    <3>1. CASE session'[s].hash = session[s].hash
      BY <2>1, <2>2, <3>1 DEF Known
    <3>2. CASE session[s].status = "revoked" \/ session[s].hash = NoToken
      BY <2>1, <2>2, <1>6, <3>2 DEF Known
    <3>3. CASE session[s].status = "none"
      <4>1. PICK t \in Tab : Stores(t) /\ UNCHANGED expired
        BY <1>10
      <4>2. spent' \subseteq 0..minted
        BY <1>0, <4>1 DEF Stores, StoreOK
      <4>3. \A y \in Sid : y # req[t].sid => session'[y] = session[y]
        BY <1>0, <4>1, <4>2, Issuing DEF Stores
      <4>4. s # req[t].sid
        BY <3>3, <4>1 DEF Stores, IInv, SessionsExist, Exists
      <4>5. session'[s].hash = session[s].hash
        BY <4>3, <4>4
      <4> QED BY <2>1, <2>2, <4>5 DEF Known
    <3> QED BY <1>6, <1>7, <2>1, <3>1, <3>2, <3>3 DEF Active, Status
  <2> QED BY <2>1, <2>2 DEF Exists
<1>11. CASE \E t \in Tab : Exchanges(t) /\ UNCHANGED expired
  <2>1. /\ session'[s].status = session[s].status
        /\ spent \subseteq spent'
        /\ session'[s].hash = session[s].hash \/ session[s].hash \in spent'
    BY <1>5, <1>11
  <2> QED BY <2>1 DEF Exists, Known
<1> QED BY <1>1, <1>8, <1>9, <1>10, <1>11 DEF StoreMoves

-----------------------------------------------------------------------------
(* What a request has established where it stands *)

RowKnows(t) ==
    /\ LoginKnows(req[t]) /\ RefreshKnows(req[t]) /\ LogoutKnows(req[t])
    /\ Exists(req[t].sid) /\ Exists(req[t].own)

(* A request that does not move loses nothing. *)
LEMMA RowStays ==
  ASSUME IInv, StoreMoves, NEW t \in Tab, req'[t] = req[t]
  PROVE  RowKnows(t)'
<1>0. /\ TypeOK /\ StoreOK /\ session \in [Sid -> Row] /\ req[t] \in Requests
      /\ req[t].tok \in 0..minted /\ minted \in Nat
  BY TypeParts DEF IInv, StoreOK, RequestsOK
<1>1. LoginKnows(req[t]) /\ RefreshKnows(req[t]) /\ LogoutKnows(req[t])
      /\ Exists(req[t].sid) /\ Exists(req[t].own)
  BY DEF IInv, RequestsKnow, SessionsExist
<1>2. Exists(req[t].sid)' /\ Exists(req[t].own)'
  <2>1. req[t].sid \in Sid => session'[req[t].sid].status # "none"
    BY <1>1, StoreKeeps DEF Exists
  <2>2. req[t].own \in Sid => session'[req[t].own].status # "none"
    BY <1>1, StoreKeeps DEF Exists
  <2> QED BY <2>1, <2>2 DEF Exists
<1>3. LogoutKnows(req[t])'
  BY <1>1 DEF LogoutKnows
<1>4. LoginKnows(req[t])'
  <2>1. ASSUME req[t].pc = "store"
        PROVE  Active(req[t].sid)' => session'[req[t].sid].hash = NoToken
    <3> DEFINE s == req[t].sid
    <3>0. /\ s \in Sid /\ (Active(s) => session[s].hash = NoToken)
          /\ session[s].status # "none" /\ s # NoSid
      BY <1>1, <2>1 DEF LoginKnows, Exists
    <3>0a. session'[s] = session[s] =>
              (session'[s].status = "active" => session'[s].hash = NoToken)
      BY <3>0 DEF Active
    <3>1. ASSUME NEW S \in SUBSET Sid, revokeSession(S),
                 UNCHANGED <<minted, expired, spent>>
          PROVE  session'[s].status = "active" => session'[s].hash = NoToken
      <4>1. /\ session'[s] = revoked \/ session'[s] = session[s]
            /\ revoked.hash = NoToken
        BY <1>0, <3>0, <3>1, Revoking
      <4> QED BY <3>0a, <4>1
    <3>2. ASSUME NEW x \in Sid, Opens(x), UNCHANGED <<minted, expired, spent>>
          PROVE  session'[s] = session[s]
      BY <1>0, <3>0, <3>2, Opening DEF Opens
    <3>3. ASSUME NEW x \in Tab, Stores(x), UNCHANGED expired
          PROVE  session'[s] = session[s]
      <4>1. x # t
        BY <2>1, <3>3 DEF Stores
      <4>2. req[x].sid # s
        BY <2>1, <3>3, <4>1 DEF Stores, IInv, RequestsKnow, StoresAreAlone
      <4>3. spent' \subseteq 0..minted
        BY <1>0, <3>3 DEF Stores, StoreOK
      <4> QED BY <1>0, <3>0, <3>3, <4>2, <4>3, Issuing DEF Stores
    <3>4. ASSUME NEW x \in Tab, Exchanges(x), UNCHANGED expired
          PROVE  session'[s] = session[s]
      <4>1. req[x].sid # s
        BY <3>0, <3>4 DEF Exchanges
      <4>2. spent' \subseteq 0..minted
        BY <1>0, <3>4 DEF Exchanges, StoreOK, TypeOK, Token
      <4> QED BY <1>0, <3>0, <3>4, <4>1, <4>2, Issuing DEF Exchanges
    <3> HIDE DEF s
    <3>5. session'[s].status = "active" => session'[s].hash = NoToken
      BY <3>0a, <3>1, <3>2, <3>3, <3>4 DEF StoreMoves
    <3> QED BY <3>5 DEF s, Active
  <2> QED BY <1>1, <2>1 DEF LoginKnows
<1>5. RefreshKnows(req[t])'
  <2>1. ASSUME req[t].pc = "rotate", session'[req[t].sid].hash = req[t].tok
        PROVE  Active(req[t].sid)'
    <3> DEFINE s == req[t].sid
    <3>0. /\ s \in Sid /\ (session[s].hash = req[t].tok => Active(s))
          /\ s # NoSid /\ req[t].tok # NoToken
      BY <1>1, <2>1 DEF RefreshKnows
    <3>0a. session'[s] = session[s] => session'[s].status = "active"
      BY <2>1, <3>0 DEF Active
    <3>1. ASSUME NEW S \in SUBSET Sid, revokeSession(S),
                 UNCHANGED <<minted, expired, spent>>
          PROVE  session'[s] = session[s]
      <4>1. /\ session'[s] = revoked \/ session'[s] = session[s]
            /\ revoked.hash = NoToken
        BY <1>0, <3>0, <3>1, Revoking
      <4> QED BY <2>1, <3>0, <4>1
    <3>2. ASSUME NEW x \in Sid, Opens(x), UNCHANGED <<minted, expired, spent>>
          PROVE  session'[s].status = "active"
      <4>1. session'[s] = session[s] \/ session'[s].status = "active"
        BY <1>0, <3>0, <3>2, Opening
      <4> QED BY <3>0a, <4>1
    <3>3. ASSUME NEW x \in Sid, issueRefresh(x), UNCHANGED expired, spent' \subseteq 0..minted
          PROVE  session'[s] = session[s]
      <4>1. session'[x].hash = minted + 1 /\ \A y \in Sid : y # x => session'[y] = session[y]
        BY <1>0, <3>3, Issuing
      <4> QED BY <1>0, <2>1, <3>0, <4>1
    <3>4. ASSUME NEW x \in Tab, Stores(x), UNCHANGED expired
          PROVE  session'[s] = session[s]
      <4>1. spent' \subseteq 0..minted
        BY <1>0, <3>4 DEF Stores, StoreOK
      <4> QED BY <3>3, <3>4, <4>1 DEF Stores
    <3>5. ASSUME NEW x \in Tab, Exchanges(x), UNCHANGED expired
          PROVE  session'[s] = session[s]
      <4>1. spent' \subseteq 0..minted
        BY <1>0, <3>5 DEF Exchanges, StoreOK, TypeOK, Token
      <4> QED BY <3>3, <3>5, <4>1 DEF Exchanges
    <3> HIDE DEF s
    <3>6. session'[s].status = "active"
      BY <3>0a, <3>1, <3>2, <3>4, <3>5 DEF StoreMoves
    <3> QED BY <3>0, <3>6 DEF s, Active
  <2>2. ASSUME req[t].pc = "granted"
        PROVE  Known(req[t].sid, req[t].tok)'
    <3>1. req[t].sid \in Sid /\ req[t].tok \in 1..minted /\ Known(req[t].sid, req[t].tok)
      BY <1>0, <1>1, <2>2 DEF RefreshKnows, NoToken
    <3>2. PICK s \in Sid : s = req[t].sid
      BY <3>1
    <3>3. PICK n \in 1..minted : n = req[t].tok
      BY <3>1
    <3>4. Known(s, n) /\ (Known(s, n) => Known(s, n)')
      BY <3>1, <3>2, <3>3, StoreKeeps
    <3> QED BY <3>2, <3>3, <3>4 DEF Known
  <2> QED BY <1>1, <2>1, <2>2 DEF RefreshKnows
<1> QED BY <1>2, <1>3, <1>4, <1>5 DEF RowKnows, LoginKnows, RefreshKnows, LogoutKnows,
        Active, Exists, Known

(* No token for a session that was not opened *)
LEMMA UnopenedStays ==
  ASSUME IInv, StoreMoves, NEW s \in Sid, session'[s].status = "none"
  PROVE  session'[s].hash = NoToken
<1>0. TypeOK /\ StoreOK /\ session \in [Sid -> Row]
  BY TypeParts DEF IInv, StoreOK
<1>1. session[s].status = "none"
  <2>1. session[s].status \in Status
    BY <1>0 DEF Row
  <2> QED BY <2>1, StoreKeeps DEF Status
<1>2. session[s].hash = NoToken
  BY <1>1 DEF IInv, SessionsExist
<1>3. ASSUME NEW S \in SUBSET Sid, revokeSession(S), UNCHANGED <<minted, expired, spent>>
      PROVE  session'[s] = session[s]
  BY <1>0, <1>1, <1>3, Revoking
<1>4. ASSUME NEW x \in Sid, Opens(x), UNCHANGED <<minted, expired, spent>>
      PROVE  session'[s].hash = session[s].hash
  BY <1>0, <1>4, Opening
<1>5. ASSUME NEW t \in Tab, Stores(t), UNCHANGED expired
      PROVE  session'[s] = session[s]
  <2>1. spent' \subseteq 0..minted /\ req[t].sid # s
    BY <1>0, <1>1, <1>5 DEF Stores, StoreOK, IInv, SessionsExist, Exists
  <2> QED BY <1>0, <1>5, <2>1, Issuing DEF Stores
<1>6. ASSUME NEW t \in Tab, Exchanges(t), UNCHANGED expired
      PROVE  session'[s] = session[s]
  <2>1. spent' \subseteq 0..minted /\ req[t].sid # s
    BY <1>0, <1>1, <1>6 DEF Exchanges, StoreOK, TypeOK, Token, Active
  <2> QED BY <1>0, <1>6, <2>1, Issuing DEF Exchanges
<1> QED BY <1>2, <1>3, <1>4, <1>5, <1>6 DEF StoreMoves

(* What a request has established where it goes *)
RowMoves(t) ==
    /\ RowKnows(t)'
    /\ req'[t].pc = "store" => \A x \in Tab : req[x].sid # req'[t].sid
    /\ \A x \in Tab : x # t => req'[x] = req[x]

LEMMA LoginMoves ==
  ASSUME IInv, StoreMoves, NEW t \in Tab
  PROVE  /\ \A u \in User, i \in Instance : Login(t, u, i) => RowMoves(t)
         /\ LoginChecksBan(t) => RowMoves(t)
         /\ \A s \in Sid : createSession(t, s) => RowMoves(t)
         /\ storeRefreshHash(t) => RowMoves(t)
<1>0. /\ TypeOK /\ RequestsOK /\ StoreOK /\ minted \in Nat
      /\ req \in [Tab -> Requests] /\ req[t] \in Requests /\ req[t].tok \in 0..minted
      /\ LoginKnows(req[t]) /\ Exists(req[t].sid) /\ Exists(req[t].own)
  BY TypeParts DEF StoreOK, IInv, RequestsOK, RequestsKnow, SessionsExist
<1>1. ASSUME NEW u \in User, NEW i \in Instance, Login(t, u, i)
      PROVE  RowMoves(t)
  <2> DEFINE r == [NoRequest EXCEPT !.pc = "isBanned", !.user = u, !.inst = i]
  <2>1. r.pc = "isBanned" /\ r.user = u /\ r.sid = NoSid /\ r.own = NoSid
    BY DEF NoRequest
  <2>2. req' = [req EXCEPT ![t] = r]
    BY <1>1 DEF Login
  <2> HIDE DEF r
  <2>3. req'[t] = r /\ \A x \in Tab : x # t => req'[x] = req[x]
    BY <1>0, <2>2
  <2>4. /\ req'[t].pc = "isBanned" /\ req'[t].user \in User
        /\ req'[t].sid = NoSid /\ req'[t].own = NoSid
    BY <2>1, <2>3
  <2> QED BY <2>3, <2>4 DEF RowMoves, RowKnows, LoginKnows, RefreshKnows, LogoutKnows, Exists
<1>2. ASSUME LoginChecksBan(t)
      PROVE  RowMoves(t)
  <2> DEFINE pc == IF req[t].user \in banned THEN "kept" ELSE "create"
             bad == req[t].user \in banned
             r == WithBad(req[t], pc, bad)
  <2>1. /\ r.pc = pc /\ r.bad = bad /\ r.sid = req[t].sid /\ r.own = req[t].own
        /\ r.user = req[t].user
    <3>1. pc \in Step /\ bad \in BOOLEAN
      BY DEF Step
    <3> HIDE DEF pc, bad
    <3> QED BY <1>0, <3>1, Fields DEF SameCaller
  <2>2. req' = [req EXCEPT ![t] = r] /\ session' = session
    BY <1>0, <1>2 DEF LoginChecksBan, storeVars, WithBad
  <2> HIDE DEF r
  <2>3. req'[t] = r /\ \A x \in Tab : x # t => req'[x] = req[x]
    BY <1>0, <2>2
  <2>4. /\ req'[t].pc = pc /\ req'[t].bad = bad /\ req'[t].sid = req[t].sid
        /\ req'[t].own = req[t].own /\ req'[t].user = req[t].user
    BY <2>1, <2>3
  <2>5. Exists(req[t].sid)' /\ Exists(req[t].own)'
    BY <1>0, <2>2, <2>4 DEF Exists
  <2>6. req[t].user \in User
    BY <1>0, <1>2 DEF LoginChecksBan, LoginKnows
  <2>7. pc = "kept" \/ (pc = "create" /\ ~bad)
    OBVIOUS
  <2> HIDE DEF pc, bad
  <2>8. LoginKnows(req[t])' /\ RefreshKnows(req[t])' /\ LogoutKnows(req[t])'
    BY <2>4, <2>6, <2>7 DEF LoginKnows, RefreshKnows, LogoutKnows
  <2> QED BY <2>3, <2>4, <2>5, <2>7, <2>8 DEF RowMoves, RowKnows
<1>3. ASSUME NEW s \in Sid, createSession(t, s)
      PROVE  RowMoves(t)
  <2> DEFINE r == WithSid(req[t], "store", s)
  <2>1. r.pc = "store" /\ r.sid = s /\ r.own = req[t].own
    <3>1. "store" \in Step
      BY DEF Step
    <3> QED BY <1>0, <3>1, Fields DEF SameCaller
  <2>2. req' = [req EXCEPT ![t] = r]
    BY <1>0, <1>3 DEF createSession, WithSid
  <2> HIDE DEF r
  <2>3. req'[t] = r /\ \A x \in Tab : x # t => req'[x] = req[x]
    BY <1>0, <2>2
  <2>4. req'[t].pc = "store" /\ req'[t].sid = s /\ req'[t].own = req[t].own
    BY <2>1, <2>3
  <2>5. session'[s].hash = NoToken /\ session'[s].status = "active"
    <3>1. Opens(s) /\ UNCHANGED <<minted, expired, spent>>
      BY <1>3 DEF createSession, Opens
    <3>2. session[s].hash = NoToken
      BY <3>1 DEF Opens, IInv, SessionsExist
    <3> QED BY <1>0, <3>1, <3>2, Opening
  <2>6. Exists(req[t].own)' /\ Exists(req[t].sid)'
    <3>1. req[t].own \in Sid => session'[req[t].own].status # "none"
      BY <1>0, StoreKeeps DEF Exists
    <3> QED BY <2>4, <2>5, <3>1 DEF Exists
  <2>7. \A x \in Tab : req[x].sid # s
    BY <1>3 DEF createSession, IInv, SessionsExist, Exists
  <2>8. LoginKnows(req[t])' /\ RefreshKnows(req[t])' /\ LogoutKnows(req[t])'
    BY <2>4, <2>5 DEF LoginKnows, RefreshKnows, LogoutKnows
  <2> QED BY <2>3, <2>4, <2>6, <2>7, <2>8 DEF RowMoves, RowKnows
<1>4. ASSUME storeRefreshHash(t)
      PROVE  RowMoves(t)
  <2>1. req[t].sid \in Sid
    BY <1>0, <1>4 DEF storeRefreshHash, LoginKnows
  <2>2. PICK n \in Nat : n = minted + 1
    BY <1>0
  <2>3. /\ req' = [req EXCEPT ![t].pc = "granted", ![t].tok = n] /\ minted' = n /\ n >= minted
    BY <1>0, <1>4, <2>2 DEF storeRefreshHash, issueRefresh
  <2>4. /\ req'[t].pc = "granted" /\ req'[t].tok = n /\ req'[t].sid = req[t].sid
        /\ req'[t].own = req[t].own
        /\ \A x \in Tab : x # t => req'[x] = req[x]
    BY <1>0, <2>3, Granting
  <2>5. session'[req[t].sid].hash = n
    <3>1. spent' \subseteq 0..minted
      BY <1>0, <1>4 DEF storeRefreshHash, historyVars, StoreOK
    <3> QED BY <1>0, <1>4, <2>1, <2>2, <3>1, Issuing DEF storeRefreshHash
  <2>6. Exists(req[t].own)' /\ Exists(req[t].sid)'
    <3>1. req[t].own \in Sid => session'[req[t].own].status # "none"
      BY <1>0, StoreKeeps DEF Exists
    <3>2. req[t].sid \in Sid => session'[req[t].sid].status # "none"
      BY <1>0, StoreKeeps DEF Exists
    <3> QED BY <2>4, <3>1, <3>2 DEF Exists
  <2>7. n # NoToken
    BY <1>0, <2>2 DEF NoToken
  <2>8. LoginKnows(req[t])' /\ RefreshKnows(req[t])' /\ LogoutKnows(req[t])'
    BY <2>1, <2>4, <2>5, <2>7 DEF LoginKnows, RefreshKnows, LogoutKnows, Known
  <2> QED BY <2>4, <2>6, <2>8 DEF RowMoves, RowKnows
<1> QED BY <1>1, <1>2, <1>3, <1>4

(* What is left of a request that only moves on *)
LEMMA MovedKeeps ==
  ASSUME IInv, StoreMoves, NEW t \in Tab, NEW pc \in Step, Becomes(t, pc), UNCHANGED minted
  PROVE  /\ req'[t].pc = pc /\ req'[t].kind = req[t].kind /\ req'[t].user = req[t].user
         /\ req'[t].inst = req[t].inst /\ req'[t].own = req[t].own
         /\ req'[t].sid = req[t].sid /\ req'[t].tok = req[t].tok
         /\ \A x \in Tab : x # t => req'[x] = req[x]
         /\ Exists(req[t].sid)' /\ Exists(req[t].own)'
<1>0. TypeOK /\ Exists(req[t].sid) /\ Exists(req[t].own)
  BY DEF IInv, SessionsExist
<1>1. /\ req'[t].pc = pc /\ req'[t].kind = req[t].kind /\ req'[t].user = req[t].user
      /\ req'[t].inst = req[t].inst /\ req'[t].own = req[t].own
      /\ req'[t].sid = req[t].sid /\ req'[t].tok = req[t].tok
      /\ \A x \in Tab : x # t => req'[x] = req[x]
  BY <1>0, Moving
<1>2. req[t].own \in Sid => session'[req[t].own].status # "none"
  BY <1>0, StoreKeeps DEF Exists
<1>3. req[t].sid \in Sid => session'[req[t].sid].status # "none"
  BY <1>0, StoreKeeps DEF Exists
<1>4. Exists(req[t].sid)' /\ Exists(req[t].own)'
  BY <1>1, <1>2, <1>3 DEF Exists
<1> QED BY <1>1, <1>4

(* Steps at which there is nothing left to know *)
LEMMA Settles ==
  ASSUME IInv, StoreMoves, NEW t \in Tab, NEW pc \in {"refused", "cleared", "kept"},
         Becomes(t, pc), UNCHANGED minted
  PROVE  RowMoves(t)
<1>1. pc \in Step
  BY DEF Step
<1>2. /\ req'[t].pc = pc
      /\ \A x \in Tab : x # t => req'[x] = req[x]
      /\ Exists(req[t].sid)' /\ Exists(req[t].own)'
  BY <1>1, MovedKeeps
<1> QED BY <1>2 DEF RowMoves, RowKnows, LoginKnows, RefreshKnows, LogoutKnows

(* A request that is over *)
LEMMA Clears ==
  ASSUME IInv, NEW t \in Tab, req' = [req EXCEPT ![t] = NoRequest]
  PROVE  RowMoves(t)
<1>1. req'[t] = NoRequest /\ \A x \in Tab : x # t => req'[x] = req[x]
  BY TypeParts DEF IInv, RequestsOK
<1>2. req'[t].pc = "none" /\ req'[t].sid = NoSid /\ req'[t].own = NoSid
  BY <1>1, NoRequestType
<1> QED BY <1>1, <1>2 DEF RowMoves, RowKnows, LoginKnows, RefreshKnows, LogoutKnows, Exists

LEMMA RefreshMoves ==
  ASSUME IInv, StoreMoves, NEW t \in Tab
  PROVE  /\ \A i \in Instance : Refresh(t, i) => RowMoves(t)
         /\ RefreshLooksUp(t) => RowMoves(t)
         /\ RefreshReadsSession(t) => RowMoves(t)
         /\ RefreshChecksBan(t) => RowMoves(t)
         /\ RefreshEndsSession(t) => RowMoves(t)
         /\ RotateReads(t) => RowMoves(t)
         /\ RotateWrites(t) => RowMoves(t)
<1>0. /\ TypeOK /\ RequestsOK /\ StoreOK /\ minted \in Nat /\ JarOK
      /\ req \in [Tab -> Requests] /\ req[t] \in Requests /\ req[t].tok \in 0..minted
      /\ RefreshKnows(req[t]) /\ Exists(req[t].sid) /\ Exists(req[t].own)
  BY TypeParts DEF StoreOK, IInv, RequestsOK, RequestsKnow, SessionsExist
<1>s. {"getSession", "refused", "checkBan", "end", "read", "rotate", "cleared",
       "granted"} \subseteq Step
  BY DEF Step
<1>1. ASSUME NEW i \in Instance, Refresh(t, i)
      PROVE  RowMoves(t)
  <2> DEFINE r == [NoRequest EXCEPT !.pc = "lookup", !.kind = "refresh", !.inst = i,
                                    !.sid = Cookies(t).sid, !.tok = Cookies(t).tok]
  <2>1. /\ r.pc = "lookup" /\ r.own = NoSid /\ r.sid = Cookies(t).sid
        /\ r.tok = Cookies(t).tok
    BY DEF NoRequest
  <2>2. req' = [req EXCEPT ![t] = r] /\ session' = session /\ Cookies(t).tok # NoToken
    BY <1>1 DEF Refresh, storeVars
  <2> HIDE DEF r
  <2>3. req'[t] = r /\ \A x \in Tab : x # t => req'[x] = req[x]
    BY <1>0, <2>2
  <2>4. /\ req'[t].pc = "lookup" /\ req'[t].own = NoSid /\ req'[t].sid = Cookies(t).sid
        /\ req'[t].tok # NoToken
    BY <2>1, <2>2, <2>3
  <2>5. Exists(req[t].own)' /\ Exists(req[t].sid)'
    BY <2>2, <2>4 DEF Exists, Cookies, IInv, SessionsExist
  <2>6. LoginKnows(req[t])' /\ RefreshKnows(req[t])' /\ LogoutKnows(req[t])'
    BY <2>4 DEF LoginKnows, RefreshKnows, LogoutKnows
  <2> QED BY <2>3, <2>4, <2>5, <2>6 DEF RowMoves, RowKnows
<1>2. ASSUME RefreshLooksUp(t)
      PROVE  RowMoves(t)
  <2>1. ASSUME NEW s \in Sid, Accepts(s, req[t].tok),
               req' = [req EXCEPT ![t].pc = "getSession", ![t].sid = s]
        PROVE  RowMoves(t)
    <3> DEFINE r == WithSid(req[t], "getSession", s)
    <3>1. r.pc = "getSession" /\ r.sid = s /\ r.tok = req[t].tok /\ r.own = req[t].own
      BY <1>0, <1>s, Fields DEF SameCaller
    <3>2. req' = [req EXCEPT ![t] = r] /\ session' = session
      BY <1>0, <1>2, <2>1 DEF RefreshLooksUp, storeVars, WithSid
    <3> HIDE DEF r
    <3>3. req'[t] = r /\ \A x \in Tab : x # t => req'[x] = req[x]
      BY <1>0, <3>2
    <3>4. /\ req'[t].pc = "getSession" /\ req'[t].sid = s /\ req'[t].own = req[t].own
          /\ req'[t].tok # NoToken
      BY <2>1, <3>1, <3>3 DEF Accepts
    <3>5. Exists(req[t].own)' /\ Exists(req[t].sid)'
      BY <1>0, <2>1, <3>2, <3>4 DEF Exists, Accepts, Active
    <3>6. LoginKnows(req[t])' /\ RefreshKnows(req[t])' /\ LogoutKnows(req[t])'
      BY <3>4 DEF LoginKnows, RefreshKnows, LogoutKnows
    <3> QED BY <3>3, <3>4, <3>5, <3>6 DEF RowMoves, RowKnows
  <2>2. CASE Becomes(t, "refused")
    BY <1>2, <2>2, Settles DEF RefreshLooksUp, storeVars
  <2> QED BY <1>2, <2>1, <2>2 DEF RefreshLooksUp
<1>3. ASSUME RefreshReadsSession(t)
      PROVE  RowMoves(t)
  <2> DEFINE pc == IF Active(req[t].sid) THEN "checkBan" ELSE "refused"
             bad == session[req[t].sid].hash \in expired
             r == WithBad(req[t], pc, bad)
  <2>1. r.pc = pc /\ r.tok = req[t].tok /\ r.sid = req[t].sid /\ r.own = req[t].own
    <3>1. pc \in Step /\ bad \in BOOLEAN
      BY DEF Step
    <3> HIDE DEF pc, bad
    <3> QED BY <1>0, <3>1, Fields DEF SameCaller
  <2>2. req' = [req EXCEPT ![t] = r] /\ session' = session
    BY <1>0, <1>3 DEF RefreshReadsSession, storeVars, WithBad
  <2>3. pc \in {"checkBan", "refused"}
    OBVIOUS
  <2> HIDE DEF r, pc, bad
  <2>4. req'[t] = r /\ \A x \in Tab : x # t => req'[x] = req[x]
    BY <1>0, <2>2
  <2>5. /\ req'[t].pc \in {"checkBan", "refused"} /\ req'[t].tok = req[t].tok
        /\ req'[t].sid = req[t].sid /\ req'[t].own = req[t].own
    BY <2>1, <2>3, <2>4
  <2>6. Exists(req[t].own)' /\ Exists(req[t].sid)'
    BY <1>0, <2>2, <2>5 DEF Exists
  <2>7. req[t].tok # NoToken /\ req[t].sid \in Sid
    BY <1>0, <1>3 DEF RefreshReadsSession, RefreshKnows
  <2>8. LoginKnows(req[t])' /\ RefreshKnows(req[t])' /\ LogoutKnows(req[t])'
    BY <2>5, <2>7 DEF LoginKnows, RefreshKnows, LogoutKnows
  <2> QED BY <2>4, <2>5, <2>6, <2>8 DEF RowMoves, RowKnows
<1>4. ASSUME RefreshChecksBan(t)
      PROVE  RowMoves(t)
  <2>1. PICK pc \in {"end", "refused", "read"} : Becomes(t, pc)
    BY <1>4 DEF RefreshChecksBan
  <2>2. /\ req'[t].pc \in {"end", "refused", "read"} /\ req'[t].sid = req[t].sid
        /\ req'[t].tok = req[t].tok
        /\ \A x \in Tab : x # t => req'[x] = req[x]
        /\ Exists(req[t].sid)' /\ Exists(req[t].own)'
    BY <1>4, <1>s, <2>1, MovedKeeps DEF RefreshChecksBan, storeVars
  <2>3. req[t].tok # NoToken /\ req[t].sid \in Sid
    BY <1>0, <1>4 DEF RefreshChecksBan, RefreshKnows
  <2>4. LoginKnows(req[t])' /\ RefreshKnows(req[t])' /\ LogoutKnows(req[t])'
    BY <2>2, <2>3 DEF LoginKnows, RefreshKnows, LogoutKnows
  <2> QED BY <2>2, <2>4 DEF RowMoves, RowKnows
<1>5. ASSUME RefreshEndsSession(t)
      PROVE  RowMoves(t)
  BY <1>5, Settles DEF RefreshEndsSession
<1>6. ASSUME RotateReads(t)
      PROVE  RowMoves(t)
  <2>1. CASE Becomes(t, "refused")
    BY <1>6, <2>1, Settles DEF RotateReads, storeVars
  <2>2. CASE Becomes(t, "rotate") /\ Active(req[t].sid)
    <3>1. /\ req'[t].pc = "rotate" /\ req'[t].sid = req[t].sid /\ req'[t].tok = req[t].tok
          /\ \A x \in Tab : x # t => req'[x] = req[x]
          /\ Exists(req[t].sid)' /\ Exists(req[t].own)'
      BY <1>6, <1>s, <2>2, MovedKeeps DEF RotateReads, storeVars
    <3>2. req[t].tok # NoToken /\ req[t].sid \in Sid /\ session' = session
      BY <1>0, <1>6 DEF RotateReads, RefreshKnows, storeVars
    <3>3. LoginKnows(req[t])' /\ RefreshKnows(req[t])' /\ LogoutKnows(req[t])'
      BY <2>2, <3>1, <3>2 DEF LoginKnows, RefreshKnows, LogoutKnows, Active
    <3> QED BY <3>1, <3>3 DEF RowMoves, RowKnows
  <2> QED BY <1>6, <2>1, <2>2 DEF RotateReads
<1>7. ASSUME RotateWrites(t)
      PROVE  RowMoves(t)
  <2>1. CASE Becomes(t, "refused") /\ UNCHANGED <<session, minted, spent>>
    BY <2>1, Settles
  <2>2. CASE /\ issueRefresh(req[t].sid)
             /\ spent' = spent \cup {req[t].tok}
             /\ req' = [req EXCEPT ![t].pc = "granted", ![t].tok = minted']
    <3>1. req[t].sid \in Sid
      BY <1>0, <1>7 DEF RotateWrites, RefreshKnows
    <3>2. PICK n \in Nat : n = minted + 1
      BY <1>0
    <3>3. /\ req' = [req EXCEPT ![t].pc = "granted", ![t].tok = n] /\ minted' = n
          /\ n >= minted
      BY <1>0, <2>2, <3>2 DEF issueRefresh
    <3>4. /\ req'[t].pc = "granted" /\ req'[t].tok = n /\ req'[t].sid = req[t].sid
          /\ req'[t].own = req[t].own
          /\ \A x \in Tab : x # t => req'[x] = req[x]
      BY <1>0, <3>3, Granting
    <3>5. session'[req[t].sid].hash = n
      <4>1. spent' \subseteq 0..minted
        BY <1>0, <2>2 DEF StoreOK
      <4> QED BY <1>0, <1>7, <2>2, <3>1, <3>2, <4>1, Issuing DEF RotateWrites
    <3>6. Exists(req[t].own)' /\ Exists(req[t].sid)'
      <4>1. req[t].own \in Sid => session'[req[t].own].status # "none"
        BY <1>0, StoreKeeps DEF Exists
      <4>2. req[t].sid \in Sid => session'[req[t].sid].status # "none"
        BY <1>0, StoreKeeps DEF Exists
      <4> QED BY <3>4, <4>1, <4>2 DEF Exists
    <3>7. n # NoToken
      BY <1>0, <3>2 DEF NoToken
    <3>8. LoginKnows(req[t])' /\ RefreshKnows(req[t])' /\ LogoutKnows(req[t])'
      BY <3>1, <3>4, <3>5, <3>7 DEF LoginKnows, RefreshKnows, LogoutKnows, Known
    <3> QED BY <3>4, <3>6, <3>8 DEF RowMoves, RowKnows
  <2> QED BY <1>7, <2>1, <2>2 DEF RotateWrites
<1> QED BY <1>1, <1>2, <1>3, <1>4, <1>5, <1>6, <1>7

LEMMA LogoutMoves ==
  ASSUME IInv, StoreMoves, NEW t \in Tab
  PROVE  /\ \A i \in Instance, kind \in Kind, target \in Sid \cup {NoSid} :
               Logout(t, i, kind, target) => RowMoves(t)
         /\ AuthMiddleware(t) => RowMoves(t)
         /\ RequireAuth(t) => RowMoves(t)
         /\ LogoutRevokes(t) => RowMoves(t)
         /\ LogoutKicks(t) => RowMoves(t)
         /\ Answered(t) => RowMoves(t)
         /\ RequestFails(t) => RowMoves(t)
<1>0. /\ TypeOK /\ RequestsOK /\ JarOK /\ LogoutKnows(req[t])
      /\ req \in [Tab -> Requests]
  BY TypeParts DEF IInv, RequestsOK, RequestsKnow
<1>s. {"kept", "revoke", "mayRevoke", "cleared", "kick"} \subseteq Step
  BY DEF Step
(* On to a step of the same logout *)
<1>k. ASSUME NEW pc \in {"mayRevoke", "revoke", "kick"}, Becomes(t, pc), UNCHANGED minted,
             req[t].pc \in {"mayCall", "mayRevoke", "revoke"},
             pc = "kick" => req[t].kind # "logout"
      PROVE  RowMoves(t)
  <2>1. /\ req'[t].pc = pc /\ req'[t].kind = req[t].kind /\ req'[t].user = req[t].user
        /\ req'[t].inst = req[t].inst /\ req'[t].own = req[t].own
        /\ req'[t].sid = req[t].sid
        /\ \A x \in Tab : x # t => req'[x] = req[x]
        /\ Exists(req[t].sid)' /\ Exists(req[t].own)'
    BY <1>k, <1>s, MovedKeeps
  <2>2. LogoutKnows(req[t])'
    BY <1>0, <1>k, <2>1 DEF LogoutKnows
  <2>3. LoginKnows(req[t])' /\ RefreshKnows(req[t])'
    BY <1>k, <2>1 DEF LoginKnows, RefreshKnows
  <2> QED BY <1>k, <2>1, <2>2, <2>3 DEF RowMoves, RowKnows
<1>1. ASSUME NEW i \in Instance, NEW kind \in Kind, NEW target \in Sid \cup {NoSid},
             Logout(t, i, kind, target)
      PROVE  RowMoves(t)
  <2> DEFINE own == Cookies(t).sid
             r == [NoRequest EXCEPT !.pc = "mayCall", !.kind = kind, !.inst = i,
                     !.user = UserOf[own], !.own = own, !.sid = target]
  <2>0. own \in Sid /\ UserOf[own] \in User /\ Exists(own)
    BY <1>0, <1>1 DEF JarOK, Cookies, Logout, IInv, SessionsExist
  <2>1. /\ r.pc = "mayCall" /\ r.kind = kind /\ r.inst = i /\ r.user = UserOf[own]
        /\ r.own = own /\ r.sid = target
    BY DEF NoRequest
  <2>2. req' = [req EXCEPT ![t] = r] /\ session' = session
    BY <1>1 DEF Logout, storeVars
  <2>3. IF kind = "all" THEN target = NoSid
        ELSE target \in Sid /\ UserOf[target] = UserOf[own] /\ Exists(target)
    BY <1>1, <2>0 DEF Logout, SessionsOf, Exists
  <2> HIDE DEF r, own
  <2>4. req'[t] = r /\ \A x \in Tab : x # t => req'[x] = req[x]
    BY <1>0, <2>2
  <2>5. /\ req'[t].pc = "mayCall" /\ req'[t].kind = kind /\ req'[t].inst = i
        /\ req'[t].user = UserOf[own] /\ req'[t].own = own /\ req'[t].sid = target
    BY <2>1, <2>4
  <2>6. Exists(req[t].own)' /\ Exists(req[t].sid)'
    BY <2>0, <2>2, <2>3, <2>5 DEF Exists
  <2>7. LoginKnows(req[t])' /\ RefreshKnows(req[t])' /\ LogoutKnows(req[t])'
    BY <2>0, <2>3, <2>5 DEF LoginKnows, RefreshKnows, LogoutKnows
  <2> QED BY <2>4, <2>5, <2>6, <2>7 DEF RowMoves, RowKnows
<1>2. ASSUME AuthMiddleware(t)
      PROVE  RowMoves(t)
  <2>1. /\ req[t].pc = "mayCall" /\ UNCHANGED minted
        /\ \/ Becomes(t, "kept") \/ Becomes(t, "cleared")
           \/ Becomes(t, "revoke") \/ Becomes(t, "mayRevoke")
    BY <1>2 DEF AuthMiddleware, storeVars
  <2> QED BY <1>k, <2>1, Settles
<1>3. ASSUME RequireAuth(t)
      PROVE  RowMoves(t)
  <2>1. /\ req[t].pc = "mayRevoke" /\ UNCHANGED minted
        /\ Becomes(t, "kept") \/ Becomes(t, "revoke")
    BY <1>3 DEF RequireAuth, storeVars
  <2> QED BY <1>k, <2>1, Settles
<1>4. ASSUME LogoutRevokes(t)
      PROVE  RowMoves(t)
  <2>1. /\ req[t].pc = "revoke" /\ UNCHANGED minted
        /\ Becomes(t, "cleared") \/ (Becomes(t, "kick") /\ req[t].kind # "logout")
    BY <1>4 DEF LogoutRevokes
  <2> QED BY <1>k, <2>1, Settles
<1>5. ASSUME LogoutKicks(t)
      PROVE  RowMoves(t)
  <2>1. UNCHANGED minted /\ (Becomes(t, "cleared") \/ Becomes(t, "kept"))
    BY <1>5 DEF LogoutKicks, storeVars
  <2> QED BY <2>1, Settles
<1>6. ASSUME Answered(t)
      PROVE  RowMoves(t)
  BY <1>6, Clears DEF Answered
<1>7. ASSUME RequestFails(t)
      PROVE  RowMoves(t)
  <2>1. CASE req' = [req EXCEPT ![t] = NoRequest]
    BY <2>1, Clears
  <2>2. CASE req[t].pc = "revoke" /\ req[t].kind = "all" /\ Becomes(t, "kick")
    <3>1. req[t].kind # "logout" /\ UNCHANGED minted
      BY <1>7, <2>2 DEF RequestFails, storeVars
    <3> QED BY <1>k, <2>2, <3>1
  <2> QED BY <1>7, <2>1, <2>2 DEF RequestFails
<1> QED BY <1>1, <1>2, <1>3, <1>4, <1>5, <1>6, <1>7

LEMMA RequestsStep ==
  ASSUME IInv, Next
  PROVE  /\ \A t \in Tab : RowKnows(t)'
         /\ StoresAreAlone'
<1>0. StoreMoves
  BY StoreStep
<1>1. ASSUME NEW t \in Tab, RowMoves(t)
      PROVE  (\A x \in Tab : RowKnows(x)') /\ StoresAreAlone'
  <2>1. \A x \in Tab : RowKnows(x)'
    <3> TAKE x \in Tab
    <3>1. CASE x = t
      BY <1>1, <3>1 DEF RowMoves
    <3>2. CASE x # t
      BY <1>0, <1>1, <3>2, RowStays DEF RowMoves
    <3> QED BY <3>1, <3>2
  <2>2. StoresAreAlone'
    BY <1>1 DEF RowMoves, StoresAreAlone, IInv, RequestsKnow
  <2> QED BY <2>1, <2>2
<1>2. ASSUME req' = req
      PROVE  (\A x \in Tab : RowKnows(x)') /\ StoresAreAlone'
  BY <1>0, <1>2, RowStays DEF StoresAreAlone, IInv, RequestsKnow
<1>3. ASSUME NEW i \in Instance, Crash(i)
      PROVE  (\A x \in Tab : RowKnows(x)') /\ StoresAreAlone'
  <2>1. \A x \in Tab : req'[x] = NoRequest \/ req'[x] = req[x]
    BY <1>3 DEF Crash
  <2>2. ASSUME NEW x \in Tab
        PROVE  RowKnows(x)'
    <3>1. CASE req'[x] = req[x]
      BY <1>0, <3>1, RowStays
    <3>2. CASE req'[x] = NoRequest
      <4>1. req'[x].pc = "none" /\ req'[x].sid = NoSid /\ req'[x].own = NoSid
        BY <3>2, NoRequestType
      <4> QED BY <4>1 DEF RowKnows, LoginKnows, RefreshKnows, LogoutKnows, Exists
    <3> QED BY <2>1, <3>1, <3>2
  <2>3. StoresAreAlone'
    BY <2>1, NoRequestType DEF StoresAreAlone, IInv, RequestsKnow
  <2> QED BY <2>2, <2>3
<1>4. ASSUME NEW t \in Tab, NEW i \in Instance,
             \/ \E u \in User : Login(t, u, i)
             \/ Refresh(t, i)
             \/ \E kind \in Kind, s \in Sid \cup {NoSid} : Logout(t, i, kind, s)
      PROVE  RowMoves(t)
  BY <1>0, <1>4, LoginMoves, RefreshMoves, LogoutMoves
<1>5. ASSUME NEW t \in Tab,
             \/ LoginChecksBan(t) \/ storeRefreshHash(t)
             \/ \E s \in Sid : createSession(t, s)
             \/ RefreshLooksUp(t) \/ RefreshReadsSession(t) \/ RefreshChecksBan(t)
             \/ RefreshEndsSession(t) \/ RotateReads(t) \/ RotateWrites(t)
             \/ AuthMiddleware(t) \/ RequireAuth(t) \/ LogoutRevokes(t)
             \/ LogoutKicks(t) \/ Answered(t) \/ RequestFails(t)
      PROVE  RowMoves(t)
  BY <1>0, <1>5, LoginMoves, RefreshMoves, LogoutMoves
<1>6. ASSUME NEW t \in Tab,
             \/ \E i \in Instance : HandleUpgrade(t, i)
             \/ UpgradeReadsSession(t) \/ UpgradeChecksBan(t) \/ Registers(t)
             \/ Disconnect(t)
      PROVE  req' = req
  BY <1>6 DEF HandleUpgrade, UpgradeReadsSession, UpgradeChecksBan, Registers, Disconnect
<1>7. ASSUME \/ \E kind \in Operation, u \in User, s \in Sid \cup {NoSid}, i \in Instance :
                   AdminStarts(kind, u, s, i)
             \/ setBanned \/ AdminRevokes \/ AdminKicks \/ AdminFails
             \/ \E u \in User : Unban(u)
             \/ \E k \in bus : OnAdminKick(k) \/ KickIsLost(k)
             \/ \E tok \in 1..MaxTokens : Expire(tok)
      PROVE  req' = req
  BY <1>7 DEF AdminStarts, setBanned, AdminRevokes, AdminKicks, AdminFails, Unban,
     OnAdminKick, KickIsLost, Expire
<1> QED BY <1>1, <1>2, <1>3, <1>4, <1>5, <1>6, <1>7 DEF Next

LEMMA RequestsKnowStep ==
  ASSUME IInv, Next
  PROVE  RequestsKnow'
BY RequestsStep DEF RequestsKnow, RowKnows

-----------------------------------------------------------------------------
(* What the steps of a request, of an upgrade and of an admin leave alone  *)

Asks(t) ==
    \E i \in Instance :
       \/ \E u \in User : Login(t, u, i)
       \/ Refresh(t, i)
       \/ \E kind \in Kind, s \in Sid \cup {NoSid} : Logout(t, i, kind, s)

Works(t) ==
    \/ LoginChecksBan(t) \/ storeRefreshHash(t)
    \/ RefreshLooksUp(t) \/ RefreshReadsSession(t) \/ RefreshChecksBan(t)
    \/ RotateReads(t) \/ RotateWrites(t)
    \/ AuthMiddleware(t) \/ RequireAuth(t)

Upgrades(t) ==
    \/ \E i \in Instance : HandleUpgrade(t, i)
    \/ UpgradeReadsSession(t) \/ UpgradeChecksBan(t)

Administers ==
    \/ \E kind \in Operation, u \in User, s \in Sid \cup {NoSid}, i \in Instance :
          AdminStarts(kind, u, s, i)
    \/ \E u \in User : Unban(u)

LEMMA NextIs ==
  ASSUME Next
  PROVE  \/ \E t \in Tab :
               \/ Asks(t) \/ Works(t) \/ (\E s \in Sid : createSession(t, s))
               \/ RefreshEndsSession(t) \/ LogoutRevokes(t) \/ LogoutKicks(t)
               \/ Answered(t) \/ RequestFails(t)
               \/ Upgrades(t) \/ Registers(t) \/ Disconnect(t)
         \/ Administers \/ setBanned \/ AdminRevokes \/ AdminKicks \/ AdminFails
         \/ \E k \in bus : OnAdminKick(k) \/ KickIsLost(k)
         \/ \E tok \in 1..MaxTokens : Expire(tok)
         \/ \E i \in Instance : Crash(i)
BY DEF Next, Asks, Works, Upgrades, Administers

LEMMA AsksFrame ==
  ASSUME NEW t \in Tab, Asks(t)
  PROVE  UNCHANGED <<session, banned, jar, up, admin, live, raced, bus, late, half, unkicked>>
         /\ req[t].pc = "none"
BY DEF Asks, Login, Refresh, Logout, storeVars, socketVars, historyVars

LEMMA WorksFrame ==
  ASSUME NEW t \in Tab, Works(t)
  PROVE  UNCHANGED <<banned, jar, up, admin, live, raced, bus, late, half, unkicked>>
         /\ req[t].pc \notin {"none", "kick"}
<1>1. CASE LoginChecksBan(t) \/ storeRefreshHash(t)
  BY <1>1 DEF LoginChecksBan, storeRefreshHash, storeVars, socketVars, historyVars, elsewhere
<1>2. CASE RefreshLooksUp(t) \/ RefreshReadsSession(t) \/ RefreshChecksBan(t)
  BY <1>2 DEF RefreshLooksUp, RefreshReadsSession, RefreshChecksBan, storeVars,
     socketVars, historyVars, elsewhere
<1>3. CASE RotateReads(t) \/ RotateWrites(t)
  BY <1>3 DEF RotateReads, RotateWrites, storeVars, socketVars, historyVars, elsewhere
<1>4. CASE AuthMiddleware(t) \/ RequireAuth(t)
  BY <1>4 DEF AuthMiddleware, RequireAuth, storeVars, socketVars, historyVars, elsewhere
<1> QED BY <1>1, <1>2, <1>3, <1>4 DEF Works

LEMMA RequestFrames ==
  ASSUME NEW t \in Tab
  PROVE  /\ \A s \in Sid : createSession(t, s) =>
               UNCHANGED <<banned, jar, up, admin, live, raced, bus, half, unkicked>>
         /\ RefreshEndsSession(t) =>
               UNCHANGED <<banned, jar, up, admin, live, raced, bus, late, half>>
         /\ LogoutRevokes(t) =>
               UNCHANGED <<banned, jar, up, admin, live, raced, bus, late, half>>
         /\ LogoutKicks(t) =>
               UNCHANGED <<session, banned, jar, up, admin, bus, late, half, unkicked>>
         /\ Answered(t) =>
               UNCHANGED <<session, banned, up, admin, live, raced, bus, late, half, unkicked>>
         /\ RequestFails(t) =>
               UNCHANGED <<session, banned, jar, up, admin, live, raced, bus, late, half>>
<1>1. \A s \in Sid : createSession(t, s) =>
         UNCHANGED <<banned, jar, up, admin, live, raced, bus, half, unkicked>>
  BY DEF createSession, socketVars, elsewhere
<1>2. RefreshEndsSession(t) =>
         UNCHANGED <<banned, jar, up, admin, live, raced, bus, late, half>>
  BY DEF RefreshEndsSession, socketVars, historyVars, elsewhere
<1>3. LogoutRevokes(t) =>
         UNCHANGED <<banned, jar, up, admin, live, raced, bus, late, half>>
  BY DEF LogoutRevokes, socketVars, historyVars, elsewhere
<1>4. LogoutKicks(t) =>
         UNCHANGED <<session, banned, jar, up, admin, bus, late, half, unkicked>>
  BY DEF LogoutKicks, storeVars, historyVars, elsewhere
<1>5. Answered(t) =>
         UNCHANGED <<session, banned, up, admin, live, raced, bus, late, half, unkicked>>
  BY DEF Answered, storeVars, socketVars, historyVars
<1>6. RequestFails(t) =>
         UNCHANGED <<session, banned, jar, up, admin, live, raced, bus, late, half>>
  BY DEF RequestFails, storeVars, socketVars, historyVars
<1> QED BY <1>1, <1>2, <1>3, <1>4, <1>5, <1>6

LEMMA UpgradeFrames ==
  ASSUME NEW t \in Tab
  PROVE  /\ Upgrades(t) =>
               UNCHANGED <<session, banned, jar, req, admin, live, raced, bus, late, half,
                           unkicked>>
         /\ Registers(t) =>
               UNCHANGED <<session, banned, jar, req, admin, bus, late, half, unkicked>>
         /\ Disconnect(t) =>
               UNCHANGED <<session, banned, jar, req, up, admin, bus, late, half, unkicked>>
<1>1. Upgrades(t) =>
         UNCHANGED <<session, banned, jar, req, admin, live, raced, bus, late, half, unkicked>>
  BY DEF Upgrades, HandleUpgrade, UpgradeReadsSession, UpgradeChecksBan, storeVars,
     socketVars, historyVars
<1>2. Registers(t) =>
         UNCHANGED <<session, banned, jar, req, admin, bus, late, half, unkicked>>
  BY DEF Registers, storeVars, historyVars
<1>3. Disconnect(t) =>
         UNCHANGED <<session, banned, jar, req, up, admin, bus, late, half, unkicked>>
  BY DEF Disconnect, storeVars, historyVars
<1> QED BY <1>1, <1>2, <1>3

LEMMA AdminFrames ==
  /\ Administers =>
        /\ UNCHANGED <<session, jar, req, up, live, raced, bus, late, half, unkicked>>
        /\ banned' \subseteq banned
        /\ admin' = admin \/ admin.pc = "none"
  /\ setBanned => UNCHANGED <<session, jar, req, up, live, raced, bus, late, half, unkicked>>
  /\ AdminRevokes =>
        UNCHANGED <<banned, jar, req, up, live, raced, bus, late, half, unkicked>>
  /\ AdminKicks => UNCHANGED <<session, banned, jar, req, up, late, half>>
  /\ AdminFails => UNCHANGED <<session, banned, jar, req, up, live, raced, bus, late>>
<1>1. Administers =>
        /\ UNCHANGED <<session, jar, req, up, live, raced, bus, late, half, unkicked>>
        /\ banned' \subseteq banned
        /\ admin' = admin \/ admin.pc = "none"
  BY DEF Administers, AdminStarts, Unban, storeVars, socketVars, historyVars
<1>2. setBanned => UNCHANGED <<session, jar, req, up, live, raced, bus, late, half, unkicked>>
  BY DEF setBanned, socketVars, historyVars
<1>3. AdminRevokes =>
        UNCHANGED <<banned, jar, req, up, live, raced, bus, late, half, unkicked>>
  BY DEF AdminRevokes, socketVars, historyVars
<1>4. AdminKicks => UNCHANGED <<session, banned, jar, req, up, late, half>>
  BY DEF AdminKicks, storeVars, historyVars
<1>5. AdminFails => UNCHANGED <<session, banned, jar, req, up, live, raced, bus, late>>
  BY DEF AdminFails, storeVars, socketVars
<1> QED BY <1>1, <1>2, <1>3, <1>4, <1>5

LEMMA OtherFrames ==
  /\ \A k \in bus : OnAdminKick(k) =>
        UNCHANGED <<session, banned, jar, req, up, admin, late, half, unkicked>>
  /\ \A k \in bus : KickIsLost(k) =>
        UNCHANGED <<session, banned, jar, req, up, admin, live, raced, late, half>>
  /\ \A tok \in 1..MaxTokens : Expire(tok) =>
        UNCHANGED <<session, banned, jar, req, up, admin, live, raced, bus, late, half,
                    unkicked>>
  /\ \A i \in Instance : Crash(i) => UNCHANGED <<session, banned, jar, late>>
<1>1. \A k \in bus : OnAdminKick(k) =>
        UNCHANGED <<session, banned, jar, req, up, admin, late, half, unkicked>>
  BY DEF OnAdminKick, storeVars, historyVars
<1>2. \A k \in bus : KickIsLost(k) =>
        UNCHANGED <<session, banned, jar, req, up, admin, live, raced, late, half>>
  BY DEF KickIsLost, storeVars, socketVars, historyVars
<1>3. \A tok \in 1..MaxTokens : Expire(tok) =>
        UNCHANGED <<session, banned, jar, req, up, admin, live, raced, bus, late, half,
                    unkicked>>
  BY DEF Expire, socketVars, historyVars
<1>4. \A i \in Instance : Crash(i) => UNCHANGED <<session, banned, jar, late>>
  BY DEF Crash, storeVars
<1> QED BY <1>1, <1>2, <1>3, <1>4

-----------------------------------------------------------------------------
(* Cookies *)

(* The cookies of a browser change with an answer to one of its tabs. *)
LEMMA JarStep ==
  ASSUME Next
  PROVE  \/ jar' = jar
         \/ \E t \in Tab : Answered(t)
BY NextIs, AsksFrame, WorksFrame, RequestFrames, UpgradeFrames, AdminFrames, OtherFrames

LEMMA AnsweredJar ==
  ASSUME IInv, NEW t \in Tab, Answered(t), NEW b \in Browser
  PROVE  /\ UNCHANGED <<session, spent>>
         /\ \/ jar'[b] = jar[b]
            \/ jar'[b].sid = NoSid /\ jar'[b].tok = NoToken
            \/ req[t].pc = "granted" /\ jar'[b].sid = req[t].sid /\ jar'[b].tok = req[t].tok
<1>1. JarOK /\ BrowserOf[t] \in Browser
  BY TypeParts DEF IInv
<1> QED BY <1>1 DEF Answered, JarOK, EmptyJar, storeVars, historyVars

LEMMA CookiesStep ==
  ASSUME IInv, Next, NEW b \in Browser
  PROVE  /\ Exists(jar[b].sid)'
         /\ jar'[b].tok # NoToken => jar'[b].sid \in Sid /\ Known(jar[b].sid, jar[b].tok)'
<1>0. /\ TypeOK /\ JarOK /\ minted \in Nat /\ Exists(jar[b].sid)
      /\ jar[b].tok # NoToken => jar[b].sid \in Sid /\ Known(jar[b].sid, jar[b].tok)
  BY TypeParts DEF IInv, StoreOK, SessionsExist, CookieIsKnown
<1>1. CASE jar' = jar
  <2>0. StoreMoves
    BY StoreStep
  <2>1. Exists(jar[b].sid)'
    <3>1. jar[b].sid \in Sid => session'[jar[b].sid].status # "none"
      BY <1>0, <2>0, StoreKeeps DEF Exists
    <3> QED BY <1>1, <3>1 DEF Exists
  <2>2. ASSUME jar[b].tok # NoToken
        PROVE  Known(jar[b].sid, jar[b].tok)'
    <3>1. PICK s \in Sid : s = jar[b].sid
      BY <1>0, <2>2
    <3>2. PICK n \in 1..minted : n = jar[b].tok
      BY <1>0, <2>2 DEF JarOK, NoToken
    <3>3. Known(s, n) /\ (Known(s, n) => Known(s, n)')
      BY <1>0, <2>0, <2>2, <3>1, <3>2, StoreKeeps
    <3> QED BY <1>1, <3>1, <3>2, <3>3 DEF Known
  <2> QED BY <1>0, <1>1, <2>1, <2>2
<1>2. ASSUME NEW t \in Tab, Answered(t)
      PROVE  /\ Exists(jar[b].sid)'
             /\ jar'[b].tok # NoToken => jar'[b].sid \in Sid /\ Known(jar[b].sid, jar[b].tok)'
  <2>1. /\ UNCHANGED <<session, spent>>
        /\ \/ jar'[b] = jar[b]
           \/ jar'[b].sid = NoSid /\ jar'[b].tok = NoToken
           \/ req[t].pc = "granted" /\ jar'[b].sid = req[t].sid /\ jar'[b].tok = req[t].tok
    BY <1>2, AnsweredJar
  <2>2. CASE jar'[b] = jar[b]
    BY <1>0, <2>1, <2>2 DEF Exists, Known
  <2>3. CASE jar'[b].sid = NoSid /\ jar'[b].tok = NoToken
    BY <2>3 DEF Exists
  <2>4. CASE req[t].pc = "granted" /\ jar'[b].sid = req[t].sid /\ jar'[b].tok = req[t].tok
    <3>1. /\ Exists(req[t].sid) /\ req[t].sid \in Sid /\ Known(req[t].sid, req[t].tok)
      BY <2>4 DEF IInv, SessionsExist, RequestsKnow, RefreshKnows
    <3> QED BY <2>1, <2>4, <3>1 DEF Exists, Known
  <2> QED BY <2>1, <2>2, <2>3, <2>4
<1> QED BY <1>1, <1>2, JarStep

LEMMA CookieIsKnownStep ==
  ASSUME IInv, Next
  PROVE  CookieIsKnown'
BY CookiesStep DEF CookieIsKnown

-----------------------------------------------------------------------------
(* Upgrades, sockets and admin operations name sessions that exist *)

LEMMA UpStep ==
  ASSUME IInv, Next, NEW t \in Tab
  PROVE  \/ up'[t].pc = "none"
         \/ up[t].pc # "none" /\ up'[t].inst = up[t].inst /\ up'[t].sid = up[t].sid
         \/ /\ up'[t].inst \in Instance /\ up'[t].sid \in Sid
            /\ Exists(up'[t].sid) /\ session' = session
<1>0. UpOK /\ JarOK
  BY TypeParts DEF IInv
<1>1. ASSUME NEW x \in Tab, NEW i \in Instance, HandleUpgrade(x, i)
      PROVE  \/ up'[t] = up[t]
             \/ /\ up'[t].inst \in Instance /\ up'[t].sid \in Sid
                /\ Exists(up'[t].sid) /\ session' = session
  <2>1. Cookies(x).sid \in Sid /\ Exists(Cookies(x).sid)
    BY <1>0, <1>1 DEF HandleUpgrade, JarOK, Cookies, IInv, SessionsExist
  <2> QED BY <1>0, <1>1, <2>1 DEF HandleUpgrade, UpOK, storeVars
<1>2. ASSUME NEW x \in Tab,
             UpgradeReadsSession(x) \/ UpgradeChecksBan(x) \/ Registers(x)
      PROVE  \/ up'[t] = up[t]
             \/ up'[t].pc = "none"
             \/ up[t].pc # "none" /\ up'[t].inst = up[t].inst /\ up'[t].sid = up[t].sid
  BY <1>0, <1>2, NoUpgradeType DEF UpgradeReadsSession, UpgradeChecksBan, Registers, UpOK
<1>3. ASSUME NEW i \in Instance, Crash(i)
      PROVE  up'[t] = up[t] \/ up'[t].pc = "none"
  BY <1>3, NoUpgradeType DEF Crash
<1>4. CASE up' = up
  BY <1>4
<1>5. \/ up' = up
      \/ \E x \in Tab : Upgrades(x) \/ Registers(x)
      \/ \E i \in Instance : Crash(i)
  BY NextIs, AsksFrame, WorksFrame, RequestFrames, UpgradeFrames, AdminFrames, OtherFrames
<1> QED BY <1>1, <1>2, <1>3, <1>4, <1>5 DEF Upgrades

LEMMA LiveStep ==
  ASSUME Next, NEW l \in live'
  PROVE  \/ l \in live
         \/ \E t \in Tab : Registers(t) /\ l = <<t, up[t].inst, up[t].sid>>
<1>1. \/ live' = live
      \/ \E t \in Tab : LogoutKicks(t) \/ Registers(t) \/ Disconnect(t)
      \/ AdminKicks \/ (\E k \in bus : OnAdminKick(k)) \/ (\E i \in Instance : Crash(i))
  BY NextIs, AsksFrame, WorksFrame, RequestFrames, UpgradeFrames, AdminFrames, OtherFrames
<1> QED BY <1>1 DEF LogoutKicks, Registers, Disconnect, AdminKicks, OnAdminKick, Crash,
           Drops, remove

LEMMA AdminStep ==
  ASSUME IInv, Next
  PROVE  /\ AdminKnows'
         /\ Exists(admin.sid)'
<1>0. AdminOK /\ AdminKnows /\ TypeOK /\ StoreMoves
  BY TypeParts, StoreStep DEF IInv
<1>1. CASE admin' = admin
  <2>1. admin.sid \in Sid => session'[admin.sid].status # "none"
    BY <1>0, StoreKeeps DEF Exists, IInv, SessionsExist
  <2> QED BY <1>0, <1>1, <2>1 DEF Exists, AdminKnows
<1>2. CASE admin' = NoAdmin
  BY <1>2, NoAdminType DEF AdminKnows, Exists
<1>3. ASSUME NEW kind \in Operation, NEW u \in User, NEW s \in Sid \cup {NoSid},
             NEW i \in Instance, AdminStarts(kind, u, s, i)
      PROVE  AdminKnows' /\ Exists(admin.sid)'
  BY <1>3 DEF AdminStarts, AdminKnows, Exists, Operation, SessionsOf, storeVars
<1>4. CASE setBanned
  BY <1>0, <1>4 DEF setBanned, AdminKnows, AdminOK, Exists, IInv, SessionsExist
<1>5. CASE AdminRevokes
  <2>1. admin.sid \in Sid => session'[admin.sid].status # "none"
    BY <1>0, StoreKeeps DEF Exists, IInv, SessionsExist
  <2> QED BY <1>0, <1>5, <2>1 DEF AdminRevokes, AdminKnows, AdminOK, Exists
<1>6. \/ admin' = admin \/ admin' = NoAdmin \/ setBanned \/ AdminRevokes
      \/ \E kind \in Operation, u \in User, s \in Sid \cup {NoSid}, i \in Instance :
            AdminStarts(kind, u, s, i)
  <2>1. \/ admin' = admin \/ Administers \/ setBanned \/ AdminRevokes \/ AdminKicks
        \/ AdminFails \/ \E i \in Instance : Crash(i)
    BY NextIs, AsksFrame, WorksFrame, RequestFrames, UpgradeFrames, AdminFrames, OtherFrames
  <2> QED BY <2>1 DEF Administers, Unban, AdminKicks, AdminFails, Crash
<1> QED BY <1>1, <1>2, <1>3, <1>4, <1>5, <1>6

LEMMA SessionsExistStep ==
  ASSUME IInv, Next
  PROVE  SessionsExist'
<1>0. StoreMoves
  BY StoreStep
<1>1. \A s \in Sid : session'[s].status = "none" => session'[s].hash = NoToken
  BY <1>0, UnopenedStays
<1>2. \A b \in Browser : Exists(jar[b].sid)' /\ (jar'[b].tok # NoToken => jar'[b].sid \in Sid)
  BY CookiesStep
<1>3. \A t \in Tab : Exists(req[t].sid)' /\ Exists(req[t].own)'
  BY RequestsStep DEF RowKnows
<1>4. ASSUME NEW t \in Tab, up'[t].pc # "none"
      PROVE  up'[t].inst \in Instance /\ up'[t].sid \in Sid /\ Exists(up[t].sid)'
  <2>1. CASE up[t].pc # "none" /\ up'[t].inst = up[t].inst /\ up'[t].sid = up[t].sid
    <3>1. up[t].inst \in Instance /\ up[t].sid \in Sid /\ Exists(up[t].sid)
      BY <2>1 DEF IInv, SessionsExist
    <3>2. session'[up[t].sid].status # "none"
      BY <1>0, <3>1, StoreKeeps DEF Exists
    <3> QED BY <2>1, <3>1, <3>2 DEF Exists
  <2>2. CASE /\ up'[t].inst \in Instance /\ up'[t].sid \in Sid
             /\ Exists(up'[t].sid) /\ session' = session
    BY <2>2 DEF Exists
  <2> QED BY <1>4, <2>1, <2>2, UpStep
<1>5. ASSUME NEW l \in live'
      PROVE  Exists(l[3])'
  <2>1. Exists(l[3])
    BY <1>5, LiveStep DEF Registers, IInv, SessionsExist
  <2>2. l[3] \in Sid => session'[l[3]].status # "none"
    BY <1>0, <2>1, StoreKeeps DEF Exists
  <2> QED BY <2>2 DEF Exists
<1>6. Exists(admin.sid)'
  BY AdminStep
<1> QED BY <1>1, <1>2, <1>3, <1>4, <1>5, <1>6 DEF SessionsExist

-----------------------------------------------------------------------------
(* What opens and what ends a session *)

LEMMA WorksStatus ==
  ASSUME IInv, NEW t \in Tab, Works(t), NEW s \in Sid
  PROVE  session'[s].status = session[s].status
<1>0. TypeOK /\ StoreOK /\ req[t].tok \in 0..minted
  BY TypeParts DEF IInv, RequestsOK
<1>1. ASSUME NEW x \in Sid, issueRefresh(x), UNCHANGED expired, spent' \subseteq 0..minted
      PROVE  session'[s].status = session[s].status
  <2>1. /\ session'[x].status = session[x].status
        /\ \A y \in Sid : y # x => session'[y] = session[y]
    BY <1>0, <1>1, Issuing
  <2> QED BY <2>1
<1>2. CASE storeRefreshHash(t)
  <2>1. req[t].sid \in Sid /\ spent' \subseteq 0..minted
    BY <1>0, <1>2 DEF storeRefreshHash, historyVars, StoreOK, IInv, RequestsKnow, LoginKnows
  <2> QED BY <1>1, <1>2, <2>1 DEF storeRefreshHash
<1>3. CASE RotateWrites(t)
  <2>1. CASE session' = session
    BY <2>1
  <2>2. CASE issueRefresh(req[t].sid) /\ spent' = spent \cup {req[t].tok}
    <3>1. req[t].sid \in Sid /\ spent' \subseteq 0..minted
      BY <1>0, <1>3, <2>2 DEF RotateWrites, StoreOK, IInv, RequestsKnow, RefreshKnows
    <3> QED BY <1>1, <1>3, <2>2, <3>1 DEF RotateWrites
  <2> QED BY <1>3, <2>1, <2>2 DEF RotateWrites
<1>4. CASE LoginChecksBan(t) \/ RefreshLooksUp(t) \/ RefreshReadsSession(t)
           \/ RefreshChecksBan(t) \/ RotateReads(t) \/ AuthMiddleware(t) \/ RequireAuth(t)
  BY <1>4 DEF LoginChecksBan, RefreshLooksUp, RefreshReadsSession, RefreshChecksBan,
     RotateReads, AuthMiddleware, RequireAuth, storeVars
<1> QED BY <1>2, <1>3, <1>4 DEF Works

LEMMA OnlyLoginOpens ==
  ASSUME IInv, Next, NEW s \in Sid, Active(s)'
  PROVE  Active(s) \/ \E t \in Tab : createSession(t, s)
<1>0. TypeOK /\ s # NoSid
  BY DEF IInv
<1>1. ASSUME NEW S \in SUBSET Sid, revokeSession(S)
      PROVE  session'[s].status # "active" \/ session'[s] = session[s]
  BY <1>1 DEF revokeSession, revoked
<1>2. ASSUME NEW t \in Tab, NEW x \in Sid, createSession(t, x)
      PROVE  x = s \/ session'[s] = session[s]
  BY <1>0, <1>2, Opening DEF createSession, Opens
<1>3. ASSUME NEW t \in Tab, RefreshEndsSession(t)
      PROVE  Active(s)
  <2>1. req[t].sid \in Sid
    BY <1>3 DEF RefreshEndsSession, IInv, RequestsKnow, RefreshKnows
  <2> QED BY <1>0, <1>1, <1>3, <2>1 DEF RefreshEndsSession, Active
<1>4. ASSUME NEW t \in Tab, LogoutRevokes(t)
      PROVE  Active(s)
  <2>1. CASE req[t].kind = "all"
    BY <1>0, <1>1, <1>4, <2>1 DEF LogoutRevokes, revokeAllSessions, SessionsOf, Active
  <2>2. CASE req[t].kind # "all"
    <3>1. req[t].sid \in Sid
      BY <1>4, <2>2 DEF LogoutRevokes, IInv, RequestsKnow, LogoutKnows
    <3> QED BY <1>0, <1>1, <1>4, <2>2, <3>1 DEF LogoutRevokes, Active
  <2> QED BY <2>1, <2>2
<1>5. ASSUME AdminRevokes
      PROVE  Active(s)
  <2>1. PICK S \in SUBSET Sid : revokeSession(S)
    BY <1>5 DEF AdminRevokes, IInv, AdminKnows, revokeAllSessions, SessionsOf
  <2> QED BY <1>0, <1>1, <2>1 DEF Active
<1>6. CASE session' = session
  BY <1>6 DEF Active
<1>7. ASSUME NEW t \in Tab, Works(t)
      PROVE  Active(s)
  BY <1>0, <1>7, WorksStatus DEF Active
<1>8. \/ session' = session
      \/ \E t \in Tab : \/ Works(t) \/ (\E x \in Sid : createSession(t, x))
                        \/ RefreshEndsSession(t) \/ LogoutRevokes(t)
      \/ AdminRevokes
  BY NextIs, AsksFrame, RequestFrames, UpgradeFrames, AdminFrames, OtherFrames
<1>9. ASSUME NEW t \in Tab, NEW x \in Sid, createSession(t, x)
      PROVE  Active(s) \/ createSession(t, s)
  BY <1>2, <1>9 DEF Active
<1> QED BY <1>3, <1>4, <1>5, <1>6, <1>7, <1>8, <1>9

(* What ends a session has a kick coming, or is noted as sending none.     *)
LEMMA WhatEnds ==
  ASSUME IInv, Next, NEW s \in Sid, Active(s), ~Active(s)'
  PROVE  \/ \E t \in Tab : RefreshEndsSession(t) /\ req[t].sid = s
         \/ \E t \in Tab : LogoutRevokes(t) /\ Covers(req[t].user, req[t].sid, s)
         \/ AdminRevokes /\ Covers(admin.user, admin.sid, s)
<1>0. TypeOK /\ s # NoSid /\ session[s].status = "active"
  BY DEF IInv, Active
<1>1. ASSUME NEW S \in SUBSET Sid, revokeSession(S)
      PROVE  s \in S
  <2>1. s \notin S => session'[s] = session[s]
    BY <1>1 DEF revokeSession
  <2> QED BY <1>0, <2>1 DEF Active
<1>2. ASSUME NEW t \in Tab, NEW x \in Sid, createSession(t, x)
      PROVE  FALSE
  <2>1. \/ x = s /\ session[x].status = "none"
        \/ session'[s] = session[s]
    BY <1>0, <1>2, Opening DEF createSession, Opens
  <2> QED BY <1>0, <2>1 DEF Active
<1>3. ASSUME NEW t \in Tab, RefreshEndsSession(t)
      PROVE  req[t].sid = s
  <2>1. req[t].sid \in Sid
    BY <1>3 DEF RefreshEndsSession, IInv, RequestsKnow, RefreshKnows
  <2> QED BY <1>1, <1>3, <2>1 DEF RefreshEndsSession
<1>4. ASSUME NEW t \in Tab, LogoutRevokes(t)
      PROVE  Covers(req[t].user, req[t].sid, s)
  <2>0. LogoutKnows(req[t]) /\ req[t].pc = "revoke"
    BY <1>4 DEF LogoutRevokes, IInv, RequestsKnow
  <2>1. CASE req[t].kind = "all"
    <3>1. revokeSession({x \in SessionsOf(req[t].user) : Active(x)})
      BY <1>4, <2>1 DEF LogoutRevokes, revokeAllSessions
    <3>2. s \in {x \in SessionsOf(req[t].user) : Active(x)}
      BY <1>1, <3>1 DEF SessionsOf
    <3> QED BY <2>0, <2>1, <3>2 DEF SessionsOf, LogoutKnows, Covers
  <2>2. CASE req[t].kind # "all"
    <3>1. req[t].sid \in Sid /\ revokeSession({req[t].sid})
      BY <1>4, <2>0, <2>2 DEF LogoutRevokes, LogoutKnows
    <3>2. s = req[t].sid
      BY <1>1, <3>1
    <3> QED BY <1>0, <3>2 DEF Covers
  <2> QED BY <2>1, <2>2
<1>5. ASSUME AdminRevokes
      PROVE  Covers(admin.user, admin.sid, s)
  <2>0. AdminKnows /\ admin.pc = "revoke"
    BY <1>5 DEF AdminRevokes, IInv
  <2>1. CASE admin.kind = "one"
    <3>1. admin.sid \in Sid /\ revokeSession({admin.sid})
      BY <1>5, <2>0, <2>1 DEF AdminRevokes, AdminKnows
    <3>2. s = admin.sid
      BY <1>1, <3>1
    <3> QED BY <1>0, <3>2 DEF Covers
  <2>2. CASE admin.kind # "one"
    <3>1. revokeSession({x \in SessionsOf(admin.user) : Active(x)})
      BY <1>5, <2>2 DEF AdminRevokes, revokeAllSessions
    <3>2. s \in {x \in SessionsOf(admin.user) : Active(x)}
      BY <1>1, <3>1 DEF SessionsOf
    <3> QED BY <2>0, <2>2, <3>2 DEF SessionsOf, AdminKnows, Covers
  <2> QED BY <2>1, <2>2
<1>6. session' # session
  BY DEF Active
<1>7. ASSUME NEW t \in Tab, Works(t)
      PROVE  FALSE
  BY <1>0, <1>7, WorksStatus DEF Active
<1>8. \/ \E t \in Tab : \/ Works(t) \/ (\E x \in Sid : createSession(t, x))
                        \/ RefreshEndsSession(t) \/ LogoutRevokes(t)
      \/ AdminRevokes
  BY <1>6, NextIs, AsksFrame, RequestFrames, UpgradeFrames, AdminFrames, OtherFrames
<1> QED BY <1>2, <1>3, <1>4, <1>5, <1>7, <1>8

-----------------------------------------------------------------------------
(* Bans *)

LEMMA HistoryGrows ==
  ASSUME IInv, Next
  PROVE  late \subseteq late' /\ half \subseteq half' /\ unkicked \subseteq unkicked'
<1>1. late \subseteq late'
  <2>1. late' = late \/ \E t \in Tab, s \in Sid : createSession(t, s)
    BY NextIs, AsksFrame, WorksFrame, RequestFrames, UpgradeFrames, AdminFrames, OtherFrames
  <2> QED BY <2>1 DEF createSession
<1>2. half \subseteq half'
  <2>1. half' = half \/ AdminFails \/ \E i \in Instance : Crash(i)
    BY NextIs, AsksFrame, WorksFrame, RequestFrames, UpgradeFrames, AdminFrames, OtherFrames
  <2> QED BY <2>1 DEF AdminFails, Crash, HalfDone
<1>3. unkicked \subseteq unkicked'
  <2>1. \/ unkicked' = unkicked
        \/ \E t \in Tab : RefreshEndsSession(t) \/ LogoutRevokes(t) \/ RequestFails(t)
        \/ AdminKicks \/ AdminFails \/ (\E k \in bus : KickIsLost(k))
        \/ \E i \in Instance : Crash(i)
    BY NextIs, AsksFrame, WorksFrame, RequestFrames, UpgradeFrames, AdminFrames, OtherFrames
  <2> QED BY <2>1 DEF RefreshEndsSession, LogoutRevokes, RequestFails, AdminKicks,
             AdminFails, KickIsLost, Crash, Forgets
<1> QED BY <1>1, <1>2, <1>3

LEMMA BanStep ==
  ASSUME IInv, Next
  PROVE  BanEndsSessions'
<1> DEFINE Excused(s) ==
      \/ s \in late
      \/ UserOf[s] \in half
      \/ admin.pc = "revoke" /\ admin.kind = "ban" /\ admin.user = UserOf[s]
<1>0. AdminOK /\ AdminKnows /\ TypeOK
  BY TypeParts DEF IInv
<1>1. ASSUME NEW s \in Sid, Active(s)', UserOf[s] \in banned'
      PROVE  Excused(s)'
  <2>1. ASSUME NEW t \in Tab, createSession(t, s)
        PROVE  Excused(s)'
    <3>1. UserOf[s] \in banned /\ ~req[t].bad
      BY <1>1, <2>1, RequestFrames DEF createSession, IInv, RequestsKnow, LoginKnows
    <3> QED BY <2>1, <3>1 DEF createSession
  <2>2. ASSUME Active(s), UserOf[s] \in banned
        PROVE  Excused(s)'
    <3>1. Excused(s)
      BY <2>2 DEF IInv, BanEndsSessions
    <3>2. CASE s \in late \/ UserOf[s] \in half
      BY <3>2, HistoryGrows
    <3>3. CASE admin.pc = "revoke" /\ admin.kind = "ban" /\ admin.user = UserOf[s]
      <4>1. CASE admin' = admin
        BY <3>3, <4>1
      <4>2. CASE AdminRevokes
        <5>1. revokeSession({x \in SessionsOf(admin.user) : Active(x)})
          BY <3>3, <4>2 DEF AdminRevokes, revokeAllSessions
        <5>2. session'[s].status = "revoked"
          BY <2>2, <3>3, <5>1 DEF revokeSession, SessionsOf, Active, revoked
        <5> QED BY <1>1, <5>2 DEF Active
      <4>3. CASE AdminFails
        BY <3>3, <4>3 DEF AdminFails, HalfDone
      <4>4. ASSUME NEW i \in Instance, Crash(i)
            PROVE  Excused(s)'
        BY <3>3, <4>4 DEF Crash, HalfDone
      <4>5. \/ admin' = admin \/ AdminRevokes \/ AdminFails
            \/ (\E i \in Instance : Crash(i)) \/ Administers \/ setBanned \/ AdminKicks
        BY NextIs, AsksFrame, WorksFrame, RequestFrames, UpgradeFrames, OtherFrames
      <4>6. ~setBanned /\ ~AdminKicks /\ (Administers => admin' = admin)
        BY <3>3, AdminFrames DEF setBanned, AdminKicks
      <4> QED BY <4>1, <4>2, <4>3, <4>4, <4>5, <4>6
    <3> QED BY <3>1, <3>2, <3>3
  <2>3. ASSUME UserOf[s] \notin banned
        PROVE  Excused(s)'
    <3>1. setBanned
      BY <1>1, <2>3, NextIs, AsksFrame, WorksFrame, RequestFrames, UpgradeFrames,
         AdminFrames, OtherFrames
    <3>2. UserOf[s] = admin.user /\ admin.kind = "ban"
      BY <1>0, <1>1, <2>3, <3>1 DEF setBanned, AdminKnows
    <3> QED BY <1>0, <3>1, <3>2 DEF setBanned, AdminOK
  <2> QED BY <1>1, <2>1, <2>2, <2>3, OnlyLoginOpens
<1> QED BY <1>1 DEF BanEndsSessions

-----------------------------------------------------------------------------
(* Sockets *)

Authorised(l) ==
    \/ Active(l[3])
    \/ KickIsComing(l[3], l[2])
    \/ <<l[3], l[2]>> \in unkicked
    \/ l \in raced

LEMMA RegisteredIsAuthorised ==
  ASSUME IInv, NEW t \in Tab, Registers(t), NEW l,
         l = <<t, up[t].inst, up[t].sid>>
  PROVE  Authorised(l)'
<1>1. l[3] = up[t].sid /\ session' = session
  BY UpgradeFrames
<1>2. CASE Active(up[t].sid)
  BY <1>1, <1>2 DEF Authorised, Active
<1>3. CASE ~Active(up[t].sid)
  BY <1>3 DEF Authorised, Registers
<1> QED BY <1>2, <1>3

(* A socket that was registered late stays so as long as it is there. *)
LEMMA RacedStays ==
  ASSUME Next, NEW l \in raced, l \in live'
  PROVE  l \in raced'
<1>1. \/ raced' = raced
      \/ \E t \in Tab : LogoutKicks(t) \/ Registers(t) \/ Disconnect(t)
      \/ AdminKicks \/ (\E k \in bus : OnAdminKick(k)) \/ (\E i \in Instance : Crash(i))
  BY NextIs, AsksFrame, WorksFrame, RequestFrames, UpgradeFrames, AdminFrames, OtherFrames
<1> QED BY <1>1 DEF LogoutKicks, Registers, Disconnect, AdminKicks, OnAdminKick, Crash,
           Drops, remove

(* What was active and is not any more *)
LEMMA EndedIsAuthorised ==
  ASSUME IInv, Next, NEW l \in live, Active(l[3]), ~Active(l[3])'
  PROVE  Authorised(l)'
<1>0. /\ SocketsOK /\ StoreOK /\ AdminOK /\ TypeOK /\ RequestsOK
      /\ l[3] \in Sid /\ l[2] \in Instance
  BY TypeParts DEF IInv, SocketsOK
<1>1. ASSUME NEW t \in Tab, RefreshEndsSession(t), req[t].sid = l[3]
      PROVE  Authorised(l)'
  BY <1>0, <1>1 DEF RefreshEndsSession, Forgets, Authorised
<1>2. ASSUME NEW t \in Tab, LogoutRevokes(t), Covers(req[t].user, req[t].sid, l[3])
      PROVE  Authorised(l)'
  <2>0. LogoutKnows(req[t]) /\ req[t].pc = "revoke" /\ l[3] \in Covered(req[t].user, req[t].sid)
    BY <1>0, <1>2 DEF LogoutRevokes, IInv, RequestsKnow, Covered
  <2>1. CASE req[t].kind = "logout" \/ l[2] # req[t].inst
    BY <1>0, <1>2, <2>0, <2>1 DEF LogoutRevokes, Forgets, Authorised
  <2>2. CASE req[t].kind # "logout" /\ l[2] = req[t].inst
    <3>1. Becomes(t, "kick") /\ UNCHANGED minted /\ "kick" \in Step
      BY <1>2, <2>2 DEF LogoutRevokes, Step
    <3>2. /\ req'[t].pc = "kick" /\ req'[t].inst = l[2] /\ req'[t].user = req[t].user
          /\ req'[t].sid = req[t].sid
      BY <1>0, <2>2, <3>1, Moving
    <3>3. KickIsComing(l[3], l[2])'
      BY <1>2, <3>2 DEF KickIsComing, Covers
    <3> QED BY <3>3 DEF Authorised
  <2> QED BY <2>1, <2>2
<1>3. ASSUME AdminRevokes, Covers(admin.user, admin.sid, l[3])
      PROVE  Authorised(l)'
  <2>1. admin'.pc = "kick" /\ admin'.user = admin.user /\ admin'.sid = admin.sid
    BY <1>0, <1>3 DEF AdminRevokes, AdminOK
  <2>2. KickIsComing(l[3], l[2])'
    BY <1>3, <2>1 DEF KickIsComing, Covers
  <2> QED BY <2>2 DEF Authorised
<1> QED BY <1>0, <1>1, <1>2, <1>3, WhatEnds

(* What was not active has been revoked, and a kick reaches it or is noted *)
(* as lost.                                                                *)
LEMMA AdminKickStays ==
  ASSUME IInv, Next, NEW l \in live, l \in live', session[l[3]].status = "revoked",
         admin.pc = "kick", Covers(admin.user, admin.sid, l[3])
  PROVE  Authorised(l)'
<1>0. /\ AdminOK /\ AdminKnows /\ SocketsOK /\ l[3] \in Sid /\ l[2] \in Instance
      /\ l[3] \in Covered(admin.user, admin.sid)
      /\ l[3] \in Ended(admin.user, admin.sid)
  BY TypeParts DEF IInv, SocketsOK, Covered, Ended
<1>1. CASE admin' = admin
  BY <1>1 DEF Authorised, KickIsComing, Covers
<1>2. CASE AdminKicks
  <2>1. l[2] # admin.inst
    BY <1>0, <1>2 DEF AdminKicks, remove, Drops
  <2>2. CASE publishAdminKick(admin.inst, admin.user, admin.sid)
    <3> DEFINE k == [to |-> l[2], user |-> admin.user, sid |-> admin.sid]
    <3>1. k \in bus' /\ k.to = l[2] /\ k.user = admin.user /\ k.sid = admin.sid
      BY <1>0, <2>1, <2>2 DEF publishAdminKick
    <3> HIDE DEF k
    <3>2. KickIsComing(l[3], l[2])'
      BY <3>1 DEF KickIsComing, Covers
    <3> QED BY <3>2 DEF Authorised
  <2>3. CASE Forgets(Ended(admin.user, admin.sid), Instance \ {admin.inst})
    BY <1>0, <2>1, <2>3 DEF Forgets, Authorised
  <2> QED BY <1>2, <2>2, <2>3 DEF AdminKicks
<1>3. CASE AdminFails
  BY <1>0, <1>3 DEF AdminFails, Unsent, Forgets, Authorised
<1>4. ASSUME NEW i \in Instance, Crash(i)
      PROVE  Authorised(l)' \/ admin' = admin
  BY <1>0, <1>4 DEF Crash, Unsent, Forgets, Authorised
<1>5. \/ admin' = admin \/ AdminFails \/ AdminKicks
      \/ (\E i \in Instance : Crash(i)) \/ Administers \/ setBanned \/ AdminRevokes
  BY NextIs, AsksFrame, WorksFrame, RequestFrames, UpgradeFrames, OtherFrames
<1>6. ~setBanned /\ ~AdminRevokes /\ (Administers => admin' = admin)
  BY AdminFrames DEF setBanned, AdminRevokes
<1> QED BY <1>1, <1>2, <1>3, <1>4, <1>5, <1>6

LEMMA RequestKickStays ==
  ASSUME IInv, Next, NEW l \in live, l \in live', session[l[3]].status = "revoked",
         NEW t \in Tab, req[t].pc = "kick", req[t].inst = l[2],
         Covers(req[t].user, req[t].sid, l[3])
  PROVE  Authorised(l)'
<1>0. /\ RequestsOK /\ TypeOK /\ SocketsOK /\ l[3] \in Sid /\ l[2] \in Instance
      /\ l[3] \in Covered(req[t].user, req[t].sid)
      /\ l[3] \in Ended(req[t].user, req[t].sid)
  BY TypeParts DEF IInv, SocketsOK, Covered, Ended
<1>1. CASE req'[t] = req[t]
  BY <1>1 DEF Authorised, KickIsComing, Covers
<1>2. CASE LogoutKicks(t)
  BY <1>0, <1>2 DEF LogoutKicks, remove, Drops
<1>3. CASE RequestFails(t)
  BY <1>0, <1>3 DEF RequestFails, Unsent, Forgets, Authorised
<1>4. ASSUME NEW i \in Instance, Crash(i)
      PROVE  req'[t] = req[t]
  BY <1>0, <1>4 DEF Crash, Drops
<1>5. ASSUME NEW x \in Tab, x # t,
             \/ Asks(x) \/ Works(x) \/ (\E s \in Sid : createSession(x, s))
             \/ RefreshEndsSession(x) \/ LogoutRevokes(x) \/ LogoutKicks(x)
             \/ Answered(x) \/ RequestFails(x)
      PROVE  req'[t] = req[t]
  <2>1. StoreMoves
    BY StoreStep
  <2>2. RowMoves(x)
    BY <1>5, <2>1, LoginMoves, RefreshMoves, LogoutMoves DEF Asks, Works
  <2> QED BY <1>5, <2>2 DEF RowMoves
<1>6. ~Asks(t) /\ ~Works(t)
  BY AsksFrame, WorksFrame
<1>7. /\ \A s \in Sid : ~createSession(t, s)
      /\ ~RefreshEndsSession(t) /\ ~LogoutRevokes(t) /\ ~Answered(t)
  BY DEF createSession, RefreshEndsSession, LogoutRevokes, Answered
<1>8. \/ req' = req
      \/ \E x \in Tab : \/ Asks(x) \/ Works(x) \/ (\E s \in Sid : createSession(x, s))
                        \/ RefreshEndsSession(x) \/ LogoutRevokes(x) \/ LogoutKicks(x)
                        \/ Answered(x) \/ RequestFails(x)
      \/ \E i \in Instance : Crash(i)
  BY NextIs, UpgradeFrames, AdminFrames, OtherFrames
<1> QED BY <1>1, <1>2, <1>3, <1>4, <1>5, <1>6, <1>7, <1>8

LEMMA BusKickStays ==
  ASSUME IInv, Next, NEW l \in live, l \in live', session[l[3]].status = "revoked",
         NEW k \in bus, k.to = l[2], Covers(k.user, k.sid, l[3])
  PROVE  Authorised(l)'
<1>0. /\ SocketsOK /\ l[3] \in Sid /\ l[2] \in Instance
      /\ l[3] \in Covered(k.user, k.sid) /\ l[3] \in Ended(k.user, k.sid)
  BY TypeParts DEF IInv, SocketsOK, Covered, Ended
<1>1. CASE k \in bus'
  BY <1>1 DEF Authorised, KickIsComing, Covers
<1>2. ASSUME NEW h \in bus, OnAdminKick(h)
      PROVE  k \in bus'
  BY <1>0, <1>2 DEF OnAdminKick, remove, Drops
<1>3. ASSUME NEW h \in bus, KickIsLost(h)
      PROVE  k \in bus' \/ Authorised(l)'
  BY <1>0, <1>3 DEF KickIsLost, Forgets, Authorised
<1>4. ASSUME NEW i \in Instance, Crash(i)
      PROVE  k \in bus'
  BY <1>0, <1>4 DEF Crash, Drops
<1>5. AdminKicks => k \in bus'
  BY DEF AdminKicks, publishAdminKick
<1>6. \/ bus' = bus \/ AdminKicks \/ (\E h \in bus : OnAdminKick(h) \/ KickIsLost(h))
      \/ \E i \in Instance : Crash(i)
  BY NextIs, AsksFrame, WorksFrame, RequestFrames, UpgradeFrames, AdminFrames, OtherFrames
<1> QED BY <1>1, <1>2, <1>3, <1>4, <1>5, <1>6

LEMMA SocketsStep ==
  ASSUME IInv, Next
  PROVE  SocketsAreAuthorised'
<1>1. ASSUME NEW l \in live'
      PROVE  Authorised(l)'
  <2>1. ASSUME NEW t \in Tab, Registers(t), l = <<t, up[t].inst, up[t].sid>>
        PROVE  Authorised(l)'
    BY <2>1, RegisteredIsAuthorised
  <2>2. ASSUME l \in live
        PROVE  Authorised(l)'
    <3>0. Authorised(l) /\ l[3] \in Sid /\ session \in [Sid -> Row] /\ Exists(l[3])
      BY <2>2, TypeParts DEF IInv, SocketsAreAuthorised, Authorised, SocketsOK, StoreOK,
         SessionsExist
    <3>1. CASE Active(l[3])
      <4>1. CASE Active(l[3])'
        BY <4>1 DEF Authorised
      <4>2. CASE ~Active(l[3])'
        BY <2>2, <3>1, <4>2, EndedIsAuthorised
      <4> QED BY <4>1, <4>2
    <3>2. CASE ~Active(l[3])
      <4>0. session[l[3]].status = "revoked"
        BY <3>0, <3>2 DEF Active, Exists, Row, Status
      <4>1. CASE KickIsComing(l[3], l[2])
        BY <1>1, <2>2, <4>0, <4>1, AdminKickStays, RequestKickStays, BusKickStays
           DEF KickIsComing
      <4>2. CASE <<l[3], l[2]>> \in unkicked
        BY <4>2, HistoryGrows DEF Authorised
      <4>3. CASE l \in raced
        BY <1>1, <4>3, RacedStays DEF Authorised
      <4> QED BY <3>0, <3>2, <4>1, <4>2, <4>3 DEF Authorised
    <3> QED BY <3>1, <3>2
  <2> QED BY <1>1, <2>1, <2>2, LiveStep
<1> QED BY <1>1 DEF SocketsAreAuthorised, Authorised

-----------------------------------------------------------------------------
(* The invariant *)

LEMMA IInvInit ==
  ASSUME Init
  PROVE  IInv
<1>1. TypeOK
  <2>1. StoreOK
    BY DEF Init, StoreOK, Row, Status, NoToken
  <2>2. RequestsOK
    BY NoRequestType DEF Init, RequestsOK
  <2>3. JarOK /\ UpOK /\ AdminOK
    BY NoUpgradeType, NoAdminType DEF Init, JarOK, UpOK, AdminOK, EmptyJar, NoToken
  <2>4. SocketsOK /\ bus \subseteq Kick /\ RestOK /\ CountsOK
    BY DEF Init, SocketsOK, RestOK, CountsOK
  <2> QED BY <2>1, <2>2, <2>3, <2>4, TypeParts
<1>2. /\ \A t \in Tab : req[t] = NoRequest
      /\ \A t \in Tab : up[t].pc = "none"
      /\ \A b \in Browser : jar[b].sid = NoSid /\ jar[b].tok = NoToken
      /\ \A s \in Sid : session[s].status = "none" /\ session[s].hash = NoToken
  BY NoUpgradeType DEF Init, EmptyJar
<1>3. SessionsExist
  BY <1>2, NoRequestType, NoAdminType DEF Init, SessionsExist, Exists
<1>4. RequestsKnow
  BY <1>2, NoRequestType DEF RequestsKnow, LoginKnows, RefreshKnows, LogoutKnows,
     StoresAreAlone
<1>5. AdminKnows
  BY NoAdminType DEF Init, AdminKnows
<1>6. SocketsAreAuthorised /\ BanEndsSessions /\ CookieIsKnown
  BY <1>2 DEF Init, SocketsAreAuthorised, BanEndsSessions, CookieIsKnown, Active
<1> QED BY <1>1, <1>3, <1>4, <1>5, <1>6 DEF IInv

LEMMA IInvStep ==
  IInv /\ [Next]_vars => IInv'
<1>1. ASSUME IInv, Next
      PROVE  IInv'
  BY <1>1, TypeStep, SessionsExistStep, RequestsKnowStep, AdminStep, SocketsStep, BanStep,
     CookieIsKnownStep DEF IInv
<1>2. ASSUME IInv, UNCHANGED vars
      PROVE  IInv'
  BY <1>2 DEF vars, storeVars, socketVars, historyVars, IInv, TypeOK, Token, SessionsExist,
     Exists, RequestsKnow, LoginKnows, RefreshKnows, LogoutKnows, StoresAreAlone, Known,
     Active, AdminKnows, SocketsAreAuthorised, KickIsComing, BanEndsSessions, CookieIsKnown
<1> QED BY <1>1, <1>2

LEMMA Invariance == Spec => []IInv
BY IInvInit, IInvStep, PTL DEF Spec

(* Every variable keeps its type, whatever fails; and no two sessions ever *)
(* accept the same refresh token, a new one being unlike all before.       *)
THEOREM AuthTypeCorrect == Spec => []TypeOK
<1>1. IInv => TypeOK
  BY DEF IInv
<1> QED BY <1>1, Invariance, PTL

(* No socket outlives its session but for the ways SocketsAreAuthorised    *)
(* names, for any number of instances, users and tabs.                     *)
THEOREM SocketsStayAuthorised == Spec => []SocketsAreAuthorised
<1>1. IInv => SocketsAreAuthorised
  BY DEF IInv
<1> QED BY <1>1, Invariance, PTL

(* A ban reaches every session: banUser, login and the instances between   *)
(* them leave only what BanEndsSessions names.                             *)
THEOREM BansReachSessions == Spec => []BanEndsSessions
<1>1. IInv => BanEndsSessions
  BY DEF IInv
<1> QED BY <1>1, Invariance, PTL

(* Whatever tabs, retries and refreshes cross, the token of a browser is   *)
(* one the store knows, has exchanged, or belongs to a revoked session.    *)
THEOREM CookiesStayKnown == Spec => []CookieIsKnown
<1>1. IInv => CookieIsKnown
  BY DEF IInv
<1> QED BY <1>1, Invariance, PTL

-----------------------------------------------------------------------------
(* SessionContract *)

status == [s \in Sid |-> session[s].status]
token == [s \in Sid |-> IF session[s].status = "active" THEN session[s].hash ELSE NoToken]

LEMMA ContractMoves ==
  ASSUME IInv, StoreMoves
  PROVE  [Contract!Next]_<<status, token, minted, spent>>
<1>0. /\ TypeOK /\ StoreOK /\ session \in [Sid -> Row] /\ RequestsOK
      /\ \A s \in Sid : s # NoSid
  BY TypeParts DEF IInv, StoreOK
<1>n. NoToken = 0 /\ Contract!NoToken = 0
  BY DEF NoToken, Contract!NoToken
<1>1. CASE UNCHANGED <<session, minted, spent>>
  BY <1>1 DEF status, token
<1>2. ASSUME NEW S \in SUBSET Sid, revokeSession(S), UNCHANGED <<minted, expired, spent>>
      PROVE  Contract!Next
  <2> DEFINE R == {s \in S : Active(s)}
  <2>1. /\ \A s \in Sid : session'[s] = IF s \in S /\ session[s].status # "none"
                                        THEN revoked ELSE session[s]
        /\ revoked.status = "revoked"
    BY <1>0, <1>2, Revoking
  <2>2. \A s \in Sid : session[s].status \in Status
    BY <1>0 DEF Row
  <2>3. PICK Q \in SUBSET Sid : Q = R
    OBVIOUS
  <2>4. \A s \in Q : status[s] = "active"
    BY <2>3 DEF Active, status
  <2>5. status' = [s \in Sid |-> IF s \in Q THEN "revoked" ELSE status[s]]
    BY <1>0, <2>1, <2>2, <2>3 DEF status, Active, Status
  <2>6. token' = [s \in Sid |-> IF s \in Q THEN NoToken ELSE token[s]]
    BY <1>0, <2>1, <2>2, <2>3 DEF token, Active, Status
  <2>7. Contract!Revoke(Q)
    BY <1>2, <1>n, <2>4, <2>5, <2>6 DEF Contract!Revoke, status, token
  <2> QED BY <2>7 DEF Contract!Next
<1>3. ASSUME NEW s \in Sid, Opens(s), UNCHANGED <<minted, expired, spent>>
      PROVE  Contract!Next
  <2>1. /\ session'[s].status = "active" /\ session'[s].hash = session[s].hash
        /\ \A x \in Sid : x # s => session'[x] = session[x]
    BY <1>0, <1>3, Opening
  <2>2. session[s].status = "none" /\ session[s].hash = NoToken
    BY <1>3 DEF Opens, IInv, SessionsExist
  <2>3. status' = [status EXCEPT ![s] = "active"] /\ status[s] = "none"
    BY <2>1, <2>2 DEF status
  <2>4. token' = token
    BY <2>1, <2>2 DEF token
  <2>5. Contract!Open(s)
    BY <1>3, <2>3, <2>4 DEF Contract!Open, status, token
  <2> QED BY <2>5 DEF Contract!Next
<1>4. ASSUME NEW t \in Tab, Stores(t), UNCHANGED expired
      PROVE  Contract!Next
  <2>1. PICK s \in Sid : s = req[t].sid
    BY <1>4 DEF Stores
  <2>2. spent' \subseteq 0..minted /\ spent' = spent
    BY <1>0, <1>4 DEF Stores, StoreOK
  <2>3. /\ minted' = minted + 1
        /\ session'[s].hash = minted + 1 /\ session'[s].status = session[s].status
        /\ \A x \in Sid : x # s => session'[x] = session[x]
    BY <1>0, <1>4, <2>1, <2>2, Issuing DEF Stores
  <2>4. status' = status
    BY <2>3 DEF status
  <2>5. CASE session[s].status = "active"
    <3>1. session[s].hash = NoToken
      BY <1>0, <1>4, <2>1, <2>5 DEF Stores, IInv, RequestsKnow, LoginKnows, Active
    <3>2. token' = [token EXCEPT ![s] = minted + 1] /\ token[s] = NoToken
      BY <2>3, <2>5, <3>1 DEF token
    <3>3. Contract!Grant(s)
      BY <1>n, <2>2, <2>3, <2>4, <2>5, <3>2 DEF Contract!Grant, status, token
    <3> QED BY <3>3 DEF Contract!Next
  <2>6. CASE session[s].status # "active"
    <3>1. token' = token
      BY <2>3, <2>6 DEF token
    <3>2. Contract!Waste
      BY <2>2, <2>3, <2>4, <3>1 DEF Contract!Waste, status, token
    <3> QED BY <3>2 DEF Contract!Next
  <2> QED BY <2>5, <2>6
<1>5. ASSUME NEW t \in Tab, Exchanges(t), UNCHANGED expired
      PROVE  Contract!Next
  <2>1. PICK s \in Sid : s = req[t].sid
    BY <1>5 DEF Exchanges
  <2>2. /\ session[s].status = "active" /\ session[s].hash # NoToken
        /\ spent' = spent \cup {session[s].hash} /\ spent' \subseteq 0..minted
    BY <1>0, <1>5, <2>1 DEF Exchanges, StoreOK, Active
  <2>3. /\ minted' = minted + 1
        /\ session'[s].hash = minted + 1 /\ session'[s].status = session[s].status
        /\ \A x \in Sid : x # s => session'[x] = session[x]
    BY <1>0, <1>5, <2>1, <2>2, Issuing DEF Exchanges
  <2>4. status' = status
    BY <2>3 DEF status
  <2>5. /\ token' = [token EXCEPT ![s] = minted + 1]
        /\ token[s] = session[s].hash /\ status[s] = "active"
    BY <2>2, <2>3 DEF token, status
  <2>6. Contract!Rotate(s)
    BY <1>n, <2>2, <2>3, <2>4, <2>5 DEF Contract!Rotate, status, token
  <2> QED BY <2>6 DEF Contract!Next
<1> QED BY <1>1, <1>2, <1>3, <1>4, <1>5 DEF StoreMoves

(* The store, used by logins, refreshes, logouts and admins at once and    *)
(* with failures between their operations, keeps SessionContract.          *)
THEOREM KeepsSessionContract == Spec => ContractSpec
<1>1. Init => Contract!Init
  BY DEF Init, Contract!Init, Contract!NoToken, NoToken
<1>2. IInv /\ [Next]_vars => [Contract!Next]_(Contract!vars)
  <2>1. ASSUME IInv, Next
        PROVE  [Contract!Next]_<<status, token, minted, spent>>
    BY <2>1, StoreStep, ContractMoves
  <2>2. ASSUME UNCHANGED vars
        PROVE  UNCHANGED <<status, token, minted, spent>>
    BY <2>2 DEF vars, storeVars, historyVars, status, token
  <2> QED BY <2>1, <2>2 DEF Contract!vars, status, token
<1> QED BY <1>1, <1>2, Invariance, PTL DEF Spec, ContractSpec, Contract!Spec
=============================================================================
