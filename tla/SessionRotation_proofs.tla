---- MODULE SessionRotation_proofs ----
(***************************************************************************)
(* Proofs about SessionRotation, for any sessions, tokens, devices and     *)
(* requests.                                                               *)
(*                                                                         *)
(* Transactions lock rows in different orders, and what each relies on is  *)
(* what it reads under a lock.  The inductive invariant says, for every    *)
(* place of a transaction, what it may rely on (Refreshing, Withdrawing,   *)
(* Rebinding, Unbinding); that others leave it alone follows from what     *)
(* they hold themselves (Respects), whatever the order they took it in.    *)
(***************************************************************************)
EXTENDS SessionRotation, FiniteSetTheorems, TLAPS

----------------------------------------------------------------------------
(* The inductive invariant *)

Wants(p, kind, x) == <<kind, x>> \in req[p].want
Has(p, kind, x) == <<kind, x>> \in req[p].held

(* Every token that was given out is of a session that was opened.         *)
TokenHolds(t) ==
  IF token[t].status = "none" THEN token[t].session = NoSession
  ELSE token[t].session \in Sessions /\ session[token[t].session].status # "none"

SessionHolds(s) ==
  /\ family[s] = "active" <=> session[s].status = "active"
  /\ session[s].status = "active" => \E t \in Tokens : CurrentOf(s) = {t}
  /\ session[s].status = "revoked" => Unrevoked({s}) = {}

(* A refresh: the token it has locked is the one it has read.              *)
Refreshing(p) ==
  /\ req[p].at \in {"previewed", "rotating", "rotate", "reuse"} =>
       /\ req[p].token \in Tokens /\ req[p].session \in Sessions
       /\ token[req[p].token].session = req[p].session
       /\ \A t \in Tokens : Wants(p, "token", t) => t = req[p].token
  /\ req[p].at \in {"rotating", "rotate", "reuse"} => Wants(p, "token", req[p].token)
  /\ req[p].at \in {"rotate", "reuse"} => Has(p, "token", req[p].token)
  /\ req[p].at = "rotate" => token[req[p].token].status = "current" /\ Wants(p, "session", req[p].session)
  /\ req[p].at \in {"rotated", "confirmed"} =>
       req[p].session \in Sessions /\ session[req[p].session].status # "none"

(* A revocation: once it has its sessions, it has all tokens they have,    *)
(* and no others.                                                          *)
Withdrawing(p) ==
  /\ req[p].at \in {"idle", "bind", "bindDevice", "device", "sessions"} =>
       \A t \in Tokens : ~Wants(p, "token", t)
  /\ req[p].at \in {"sessions", "families", "tokens"} =>
       \A s \in req[p].targets : session[s].status # "none" /\ Wants(p, "session", s)
  /\ req[p].at \in {"families", "tokens"} =>
       \A t \in Tokens : Wants(p, "token", t) => token[t].session \in req[p].targets
  /\ req[p].at = "tokens" => /\ \A s \in req[p].targets : Has(p, "session", s)
                             /\ \A t \in Unrevoked(req[p].targets) : Wants(p, "token", t)

(* What a binding has locked it has seen fit to be bound.                  *)
Rebinding(p) ==
  /\ req[p].at \in {"bind", "bindDevice"} \/ (req[p].op = "replace" /\ req[p].at # "idle") =>
       /\ req[p].session \in Sessions /\ session[req[p].session].status # "none"
       /\ req[p].device \in Devices /\ Wants(p, "session", req[p].session)
  /\ req[p].at = "bindDevice" \/ (req[p].op = "replace" /\ req[p].at \notin {"idle", "bind"}) =>
       /\ Has(p, "session", req[p].session) /\ session[req[p].session].epoch < MaxEpoch
       /\ Wants(p, "device", req[p].device)
  /\ req[p].op = "replace" => /\ req[p].at \in {"bind", "device", "sessions", "families", "tokens"}
                              /\ req[p].new \in Devices /\ device[req[p].new] = "none"
                              /\ req[p].session \notin req[p].targets
  /\ req[p].op # "replace" => req[p].new = NoDevice

(* Who takes a device away has it, and all sessions that are bound to it.  *)
TakesDevice(p) == req[p].op \in {"revokeDevice", "replace"}
Unbinding(p) ==
  /\ req[p].at = "device" => TakesDevice(p)
  /\ req[p].op = "revokeDevice" => req[p].session = NoSession
  /\ TakesDevice(p) /\ req[p].at \in {"device", "sessions", "families", "tokens"} =>
       req[p].device \in Devices /\ Wants(p, "device", req[p].device)
  /\ TakesDevice(p) /\ req[p].at \in {"sessions", "families", "tokens"} =>
       /\ Has(p, "device", req[p].device) /\ device[req[p].device] = "active"
       /\ \A s \in Bound(req[p].device) : s = req[p].session \/ s \in req[p].targets

RequestHolds(p) ==
  /\ req[p].at = "idle" => req[p] = Idle
  /\ req[p].held \subseteq req[p].want
  /\ Refreshing(p) /\ Withdrawing(p) /\ Rebinding(p) /\ Unbinding(p)

(* Nobody else is to make the same device.                                 *)
NewDevicesApart == \A p, q \in Requests : p # q /\ req[p].new # NoDevice => req[q].new # req[p].new

IInv == /\ TypeOK /\ DevicesFollow /\ NewDevicesApart
        /\ \A t \in Tokens : TokenHolds(t)
        /\ \A s \in Sessions : SessionHolds(s)
        /\ \A p \in Requests : RequestHolds(p)

----------------------------------------------------------------------------
(* Requests *)

(* An idle request holds and wants nothing.                                *)
LEMMA IdleRequest ==
  /\ Idle \in Request /\ Idle.op = "refresh" /\ Idle.at = "idle" /\ Idle.held = {} /\ Idle.want = {}
  /\ Idle.session = NoSession /\ Idle.token = NoToken /\ Idle.device = NoDevice /\ Idle.new = NoDevice
  /\ Idle.targets = {}
BY SessionsAssumption DEF Idle, Request, Ops, Places, Rows, Unbound

(* A request that is idle relies on nothing.                               *)
LEMMA IdleHolds ==
  ASSUME NEW p \in Requests, req'[p] = Idle
  PROVE  RequestHolds(p)'
<1>1. Refreshing(p)' /\ Withdrawing(p)'
  BY IdleRequest DEF Refreshing, Withdrawing, Wants
<1>2. Rebinding(p)' /\ Unbinding(p)'
  BY IdleRequest DEF Rebinding, Unbinding, TakesDevice
<1> QED BY <1>1, <1>2, IdleRequest DEF RequestHolds

(* What a transaction may do to the tables while others are under way:     *)
(* what exists it changes only under its locks, and then keeps what is     *)
(* never changed.                                                          *)
Respects(p) ==
  /\ \A t \in Tokens :
       IF token[t].status = "none"
       THEN token'[t] = token[t] \/ Has(p, "session", token'[t].session)
              \/ session[token'[t].session].status = "none"
       ELSE /\ token'[t] = token[t] \/ Has(p, "token", t)
            /\ token'[t].session = token[t].session /\ token'[t].status # "none"
            /\ token[t].status = "revoked" => token'[t].status = "revoked"
  /\ \A s \in Sessions :
       /\ session'[s] = session[s] \/ Has(p, "session", s) \/ session[s].status = "none"
       /\ session[s].status # "none" => session'[s].status # "none"
       /\ session'[s].status = "active" =>
            \/ session[s].status = "active" /\ session'[s].device = session[s].device
            \/ session'[s].device = NoDevice
            \/ Has(p, "device", session'[s].device)
            \/ device[session'[s].device] = "none"
  /\ \A d \in Devices :
       \/ device'[d] = device[d]
       \/ Has(p, "device", d) /\ device[d] # "none"
       \/ device[d] = "none" /\ \A q \in Requests \ {p} : req[q].new # d

(* Then everybody else may go on relying on what it has read.              *)
LEMMA OthersKept ==
  ASSUME IInv, NEW p \in Requests, NEW q \in Requests, q # p, Respects(p), req'[q] = req[q]
  PROVE  RequestHolds(q)'
<1>1. /\ RequestHolds(q) /\ \A row : row \in req[q].held => row \notin req[p].held
      /\ req[q] \in Request /\ req[q].targets \subseteq Sessions
  BY DEF IInv, TypeOK, Request
<1>2. \A t \in Tokens : token[t].session \in Sessions =>
        token[t].status # "none" /\ session[token[t].session].status # "none"
  BY SessionsAssumption DEF IInv, TokenHolds
<1>3. Refreshing(q)'
  <2>1. ASSUME req[q].at \in {"previewed", "rotating", "rotate", "reuse"}
        PROVE  /\ token'[req[q].token].session = req[q].session
               /\ req[q].at = "rotate" => token'[req[q].token].status = "current"
    BY <1>1, <1>2, <2>1 DEF RequestHolds, Refreshing, Respects, Has
  <2>2. ASSUME req[q].at \in {"rotated", "confirmed"}
        PROVE  session'[req[q].session].status # "none"
    BY <1>1, <2>2 DEF RequestHolds, Refreshing, Respects
  <2> QED BY <1>1, <2>1, <2>2 DEF RequestHolds, Refreshing, Wants, Has
<1>4. Withdrawing(q)'
  <2>1. ASSUME req[q].at \in {"sessions", "families", "tokens"}, NEW s \in req[q].targets
        PROVE  session'[s].status # "none"
    BY <1>1, <2>1 DEF RequestHolds, Withdrawing, Respects
  <2>2. ASSUME req[q].at \in {"families", "tokens"}, NEW t \in Tokens, Wants(q, "token", t)
        PROVE  token'[t].session \in req[q].targets
    BY <1>1, <1>2, <2>2 DEF RequestHolds, Withdrawing, Respects
  <2>3. ASSUME req[q].at = "tokens", NEW t \in Tokens, token'[t].session \in req[q].targets,
               token'[t].status # "revoked"
        PROVE  Wants(q, "token", t)
    <3>1. token[t].status # "none"
      <4>1. /\ token'[t].session \in Sessions /\ session[token'[t].session].status # "none"
            /\ Has(q, "session", token'[t].session)
        BY <1>1, <2>3 DEF RequestHolds, Withdrawing
      <4>2. ~Has(p, "session", token'[t].session)
        BY <1>1, <4>1 DEF Has
      <4>3. token[t].status = "none" => token[t].session = NoSession
        BY DEF IInv, TokenHolds
      <4>4. token[t].status = "none" => token'[t] = token[t] \/ Has(p, "session", token'[t].session)
                                          \/ session[token'[t].session].status = "none"
        BY DEF Respects
      <4> QED BY <4>1, <4>2, <4>3, <4>4, SessionsAssumption
    <3>2. t \in Unrevoked(req[q].targets)
      BY <2>3, <3>1 DEF Respects, Unrevoked
    <3> QED BY <1>1, <2>3, <3>2 DEF RequestHolds, Withdrawing
  <2> QED BY <1>1, <2>1, <2>2, <2>3 DEF RequestHolds, Withdrawing, Wants, Has, Unrevoked
<1>5. Rebinding(q)'
  <2>1. ASSUME req[q].session \in Sessions, session[req[q].session].status # "none"
        PROVE  /\ session'[req[q].session].status # "none"
               /\ Has(q, "session", req[q].session) => session'[req[q].session] = session[req[q].session]
    BY <1>1, <2>1 DEF Respects, Has
  <2>2. ASSUME req[q].new \in Devices, device[req[q].new] = "none"
        PROVE  device'[req[q].new] = "none"
    BY <2>2 DEF Respects
  <2> QED BY <1>1, <2>1, <2>2 DEF RequestHolds, Rebinding, Wants, Has
<1>6. Unbinding(q)'
  <2>1. ASSUME req[q].device \in Devices, Has(q, "device", req[q].device), device[req[q].device] = "active",
               NEW s \in Bound(req[q].device)'
        PROVE  s \in Bound(req[q].device)
    <3>1. s \in Sessions /\ session'[s].status = "active" /\ session'[s].device = req'[q].device
      BY <2>1 DEF Bound, Active
    <3>2. session'[s].device = req[q].device /\ req[q].device # NoDevice /\ ~Has(p, "device", req[q].device)
      BY <1>1, <2>1, <3>1, SessionsAssumption DEF Has
    <3>3. session[s].status = "active" /\ session[s].device = session'[s].device
      BY <2>1, <3>1, <3>2 DEF Respects
    <3> QED BY <3>1, <3>2, <3>3 DEF Bound, Active
  <2>2. ASSUME req[q].device \in Devices, Has(q, "device", req[q].device), device[req[q].device] = "active"
        PROVE  device'[req[q].device] = "active"
    BY <1>1, <2>2 DEF Respects, Has
  <2> QED BY <1>1, <2>1, <2>2 DEF RequestHolds, Unbinding, TakesDevice, Wants, Has
<1> QED BY <1>1, <1>3, <1>4, <1>5, <1>6 DEF RequestHolds

(* A transaction that only reads or locks leaves the tables alone.         *)
LEMMA TablesKept ==
  ASSUME NEW p \in Requests, UNCHANGED Tables
  PROVE  Respects(p)
BY DEF Respects, Tables

(* A step that changes one request and no table.                           *)
LEMMA Sends ==
  ASSUME IInv, NEW p \in Requests, NEW x \in Request, req' = [req EXCEPT ![p] = x], UNCHANGED Tables,
         \A q \in Requests \ {p} : x.held \cap req[q].held = {} /\ (x.new # NoDevice => req[q].new # x.new),
         RequestHolds(p)'
  PROVE  IInv'
<1>1. /\ req \in [Requests -> Request] /\ req'[p] = x /\ req' \in [Requests -> Request]
      /\ \A q \in Requests \ {p} : req'[q] = req[q]
      /\ UNCHANGED <<session, family, token, device>>
  BY DEF IInv, TypeOK, Tables
<1>2. ASSUME NEW q \in Requests PROVE RequestHolds(q)'
  BY <1>1, TablesKept, OthersKept
<1>3. TypeOK' /\ NewDevicesApart'
  <2>1. ASSUME NEW q \in Requests, NEW r \in Requests, q # r
        PROVE  req'[q].held \cap req'[r].held = {} /\ (req'[q].new # NoDevice => req'[r].new # req'[q].new)
    BY <1>1, <2>1 DEF IInv, TypeOK, NewDevicesApart
  <2>2. TypeOK'
    BY <1>1, <2>1 DEF IInv, TypeOK
  <2> QED BY <2>1, <2>2 DEF NewDevicesApart
<1>4. /\ DevicesFollow' /\ (\A t \in Tokens : TokenHolds(t)') /\ (\A s \in Sessions : SessionHolds(s)')
  BY <1>1 DEF IInv, DevicesFollow, Active, TokenHolds, SessionHolds, CurrentOf, Unrevoked
<1> QED BY <1>2, <1>3, <1>4 DEF IInv

(* A transaction that is rolled back, or has found nothing to do.          *)
LEMMA AbortPreserves ==
  ASSUME IInv, NEW p \in Requests, Ends(p), UNCHANGED Tables
  PROVE  IInv'
<1>1. req' = [req EXCEPT ![p] = Idle] /\ req'[p] = Idle
  BY DEF Ends, IInv, TypeOK
<1> QED BY <1>1, IdleRequest, IdleHolds, Sends

(* A request begins, or begins anew, without a lock.                       *)
LEMMA BeginPreserves ==
  ASSUME IInv, NEW p \in Requests, NEW x \in Request, req' = [req EXCEPT ![p] = x], UNCHANGED Tables,
         x.held = {}, \A q \in Requests \ {p} : x.new # NoDevice => req[q].new # x.new,
         RequestHolds(p)'
  PROVE  IInv'
BY Sends

----------------------------------------------------------------------------
(* Requests that begin *)

(* Rows that are wanted are rows.                                          *)
LEMMA WantedRows ==
  /\ \A S \in SUBSET Sessions : Of("session", S) \in SUBSET Rows /\ Of("family", S) \in SUBSET Rows
  /\ \A T \in SUBSET Tokens : Of("token", T) \in SUBSET Rows
  /\ \A D \in SUBSET Devices : Of("device", D) \in SUBSET Rows
  /\ \A kind, name, x, S : <<kind, x>> \in Of(name, S) <=> kind = name /\ x \in S
BY DEF Of, Rows

(* A revocation, of sessions that were opened.                             *)
LEMMA RevocationBegins ==
  ASSUME IInv, NEW p \in Requests, NEW op \in {"revoke", "revokeUser", "create"}, NEW S \in SUBSET Sessions,
         \A s \in S : session[s].status # "none", UNCHANGED Tables,
         req' = [req EXCEPT ![p] = [Idle EXCEPT !.op = op, !.at = "sessions", !.targets = S,
                                                !.want = Of("session", S)]]
  PROVE  IInv'
<1> DEFINE x == [Idle EXCEPT !.op = op, !.at = "sessions", !.targets = S, !.want = Of("session", S)]
<1>1. /\ x \in Request /\ x.op = op /\ x.at = "sessions" /\ x.held = {} /\ x.want = Of("session", S)
      /\ x.new = NoDevice /\ x.targets = S
  BY IdleRequest, WantedRows, SessionsAssumption DEF Idle, Request, Ops, Places, Unbound
<1> HIDE DEF x
<1>2. req'[p] = x /\ req' = [req EXCEPT ![p] = x] /\ UNCHANGED <<session, token, device>>
  BY DEF x, IInv, TypeOK, Tables
<1>3. Refreshing(p)' /\ Withdrawing(p)'
  BY <1>1, <1>2, WantedRows DEF Refreshing, Withdrawing, Wants
<1>4. Rebinding(p)' /\ Unbinding(p)'
  BY <1>1, <1>2 DEF Rebinding, Unbinding, TakesDevice
<1>5. RequestHolds(p)'
  BY <1>1, <1>2, <1>3, <1>4 DEF RequestHolds
<1> QED BY <1>1, <1>2, <1>5, BeginPreserves

(* One session's.                                                          *)
LEMMA RevokingPreserves ==
  ASSUME IInv, NEW p \in Requests, NEW s \in Sessions, session[s].status # "none", UNCHANGED Tables,
         req' = [req EXCEPT ![p] = Revoking(s)]
  PROVE  IInv'
<1> DEFINE S == {s}
<1>1. S \in SUBSET Sessions /\ \A u \in S : session[u].status # "none"
  OBVIOUS
<1>2. req' = [req EXCEPT ![p] = [Idle EXCEPT !.op = "revoke", !.at = "sessions", !.targets = S,
                                             !.want = Of("session", S)]]
  BY DEF Revoking
<1> HIDE DEF S
<1> QED BY <1>1, <1>2, RevocationBegins

(* What is active was opened.                                              *)
LEMMA RevocationsBegin ==
  ASSUME IInv, NEW p \in Requests,
         \/ \E s \in Sessions : Revoke(p, s)
         \/ \E S \in SUBSET Sessions : RevokeUser(p, S) \/ Create(p, S)
  PROVE  IInv'
<1>1. CASE \E s \in Sessions : Revoke(p, s)
  <2> PICK s \in Sessions : Revoke(p, s)
    BY <1>1
  <2> QED BY RevokingPreserves DEF Revoke, Begins
<1>2. CASE \E S \in SUBSET Sessions : RevokeUser(p, S)
  <2> PICK S \in SUBSET Sessions : RevokeUser(p, S)
    BY <1>2
  <2>1. (\A s \in S : session[s].status # "none") /\ UNCHANGED Tables
    BY DEF RevokeUser, Begins, Active
  <2> QED BY <2>1, RevocationBegins DEF RevokeUser, Begins
<1>3. CASE \E S \in SUBSET Sessions : Create(p, S)
  <2> PICK S \in SUBSET Sessions : Create(p, S)
    BY <1>3
  <2>1. (\A s \in S : session[s].status # "none") /\ UNCHANGED Tables
    BY DEF Create, Begins, Active
  <2> QED BY <2>1, RevocationBegins DEF Create, Begins
<1> QED BY <1>1, <1>2, <1>3

(* A refresh reads its token and the session of it.                        *)
LEMMA PreviewPreserves ==
  ASSUME IInv, NEW p \in Requests, NEW t \in Tokens, PreviewRefresh(p, t)
  PROVE  IInv'
<1> DEFINE s == token[t].session
<1>1. /\ UNCHANGED <<session, token, device>> /\ UNCHANGED Tables /\ s \in Sessions
      /\ session \in [Sessions -> Session] /\ req \in [Requests -> Request]
  BY DEF PreviewRefresh, Begins, Tables, IInv, TokenHolds, TypeOK
<1>2. Binding(s) \in [device : Devices \cup {NoDevice}, epoch : 0 .. MaxEpoch]
  BY <1>1 DEF Binding, Session
<1> HIDE DEF s
<1>3. PICK x \in Request : /\ req' = [req EXCEPT ![p] = x] /\ x.op = "refresh" /\ x.held = {}
                           /\ x.new = NoDevice /\ x.session = s /\ x.token = t
                           /\ \/ x.at = "previewed" /\ x.want = {}
                              \/ x.at = "rotating" /\ x.want = Of("token", {t})
  <2>1. CASE req' = [req EXCEPT ![p] = [Idle EXCEPT !.at = "previewed", !.token = t, !.session = s,
                                                    !.seen = Binding(s)]]
    <3> DEFINE x == [Idle EXCEPT !.at = "previewed", !.token = t, !.session = s, !.seen = Binding(s)]
    <3>1. /\ x \in Request /\ x.op = "refresh" /\ x.held = {} /\ x.new = NoDevice /\ x.session = s
          /\ x.token = t /\ x.at = "previewed" /\ x.want = {}
      BY <1>1, <1>2, IdleRequest DEF Idle, Request, Places
    <3> HIDE DEF x
    <3> QED BY <2>1, <3>1 DEF x
  <2>2. CASE req' = [req EXCEPT ![p] = [Idle EXCEPT !.at = "rotating", !.token = t, !.session = s,
                                                    !.want = Of("token", {t})]]
    <3> DEFINE x == [Idle EXCEPT !.at = "rotating", !.token = t, !.session = s, !.want = Of("token", {t})]
    <3>1. Of("token", {t}) \in SUBSET Rows
      BY WantedRows
    <3>2. /\ x \in Request /\ x.op = "refresh" /\ x.held = {} /\ x.new = NoDevice /\ x.session = s
          /\ x.token = t /\ x.at = "rotating" /\ x.want = Of("token", {t})
      BY <1>1, <3>1, IdleRequest DEF Idle, Request, Places
    <3> HIDE DEF x
    <3> QED BY <2>2, <3>2 DEF x
  <2> QED BY <2>1, <2>2 DEF PreviewRefresh, Begins, s
<1>4. req'[p] = x
  BY <1>1, <1>3
<1>5. Refreshing(p)' /\ Withdrawing(p)'
  BY <1>1, <1>3, <1>4, WantedRows DEF Refreshing, Withdrawing, Wants, s
<1>6. Rebinding(p)' /\ Unbinding(p)'
  BY <1>3, <1>4 DEF Rebinding, Unbinding, TakesDevice
<1>7. RequestHolds(p)'
  BY <1>3, <1>4, <1>5, <1>6 DEF RequestHolds
<1> QED BY <1>1, <1>3, <1>7, BeginPreserves

(* A device's revocation, a binding or a replacement begins with a lock.   *)
LEMMA DevicesBegin ==
  ASSUME IInv, NEW p \in Requests,
         \/ \E d \in Devices : RevokeDevice(p, d)
         \/ \E s \in Sessions, d \in Devices : BindDevice(p, s, d)
         \/ \E s \in Sessions, d, n \in Devices : ReplaceKey(p, s, d, n)
  PROVE  IInv'
<1>1. req \in [Requests -> Request] /\ UNCHANGED <<session, token, device>> /\ UNCHANGED Tables
  BY DEF IInv, TypeOK, RevokeDevice, BindDevice, ReplaceKey, Begins, Tables
<1>2. PICK x \in Request :
        /\ req' = [req EXCEPT ![p] = x] /\ x.held = {} /\ x.device \in Devices /\ x.targets = {}
        /\ \/ /\ x.op = "revokeDevice" /\ x.at = "device" /\ x.session = NoSession /\ x.new = NoDevice
              /\ x.want = Of("device", {x.device})
           \/ /\ x.op \in {"bind", "replace"} /\ x.at = "bind" /\ x.session \in Sessions
              /\ session[x.session].status # "none" /\ x.want = Of("session", {x.session})
              /\ x.op = "bind" => x.new = NoDevice
              /\ x.op = "replace" => /\ x.new \in Devices /\ device[x.new] = "none"
                                     /\ \A q \in Requests : req[q].new # x.new
  <2>1. CASE \E d \in Devices : RevokeDevice(p, d)
    <3> PICK d \in Devices : RevokeDevice(p, d)
      BY <2>1
    <3> DEFINE x == [Idle EXCEPT !.op = "revokeDevice", !.at = "device", !.device = d, !.want = Of("device", {d})]
    <3>1. Of("device", {d}) \in SUBSET Rows
      BY WantedRows
    <3>2. /\ x \in Request /\ x.held = {} /\ x.device = d /\ x.targets = {} /\ x.op = "revokeDevice"
          /\ x.at = "device" /\ x.session = NoSession /\ x.new = NoDevice /\ x.want = Of("device", {d})
      BY <3>1, IdleRequest DEF Idle, Request, Places, Ops
    <3>3. req' = [req EXCEPT ![p] = x]
      BY DEF RevokeDevice, Begins
    <3> HIDE DEF x
    <3> QED BY <3>2, <3>3
  <2>2. CASE \E s \in Sessions, d \in Devices : BindDevice(p, s, d)
    <3> PICK s \in Sessions, d \in Devices : BindDevice(p, s, d)
      BY <2>2
    <3> DEFINE x == [Idle EXCEPT !.op = "bind", !.at = "bind", !.session = s, !.device = d,
                                 !.want = Of("session", {s})]
    <3>1. Of("session", {s}) \in SUBSET Rows
      BY WantedRows
    <3>2. /\ x \in Request /\ x.held = {} /\ x.device = d /\ x.targets = {} /\ x.op = "bind"
          /\ x.at = "bind" /\ x.session = s /\ x.new = NoDevice /\ x.want = Of("session", {s})
      BY <3>1, IdleRequest DEF Idle, Request, Places, Ops
    <3>3. req' = [req EXCEPT ![p] = x] /\ session[s].status # "none"
      BY DEF BindDevice, Begins
    <3> HIDE DEF x
    <3> QED BY <3>2, <3>3
  <2>3. CASE \E s \in Sessions, d, n \in Devices : ReplaceKey(p, s, d, n)
    <3> PICK s \in Sessions, d \in Devices, n \in Devices : ReplaceKey(p, s, d, n)
      BY <2>3
    <3> DEFINE x == [Idle EXCEPT !.op = "replace", !.at = "bind", !.session = s, !.device = d, !.new = n,
                                 !.want = Of("session", {s})]
    <3>1. Of("session", {s}) \in SUBSET Rows
      BY WantedRows
    <3>2. /\ x \in Request /\ x.held = {} /\ x.device = d /\ x.targets = {} /\ x.op = "replace"
          /\ x.at = "bind" /\ x.session = s /\ x.new = n /\ x.want = Of("session", {s})
      BY <3>1, IdleRequest DEF Idle, Request, Places, Ops
    <3>3. /\ req' = [req EXCEPT ![p] = x] /\ session[s].status # "none" /\ device[n] = "none"
          /\ \A q \in Requests : req[q].new # n
      BY DEF ReplaceKey, Begins
    <3> HIDE DEF x
    <3> QED BY <3>2, <3>3
  <2> QED BY <2>1, <2>2, <2>3
<1>3. req'[p] = x
  BY <1>1, <1>2
<1>4. Refreshing(p)' /\ Withdrawing(p)'
  BY <1>1, <1>2, <1>3, WantedRows DEF Refreshing, Withdrawing, Wants
<1>5. Rebinding(p)' /\ Unbinding(p)'
  BY <1>1, <1>2, <1>3, WantedRows DEF Rebinding, Unbinding, TakesDevice, Wants
<1>6. RequestHolds(p)'
  BY <1>2, <1>3, <1>4, <1>5 DEF RequestHolds
<1> QED BY <1>1, <1>2, <1>6, BeginPreserves

----------------------------------------------------------------------------
(* Transactions that go on, the tables as they were *)

(* The request keeps its locks and what it has read, and wants more rows.  *)
Moves(p, op, place, rows, S) ==
  /\ req' = [req EXCEPT ![p] = req'[p]] /\ req'[p] \in Request
  /\ req'[p].op = op /\ req'[p].at = place /\ req'[p].want = req[p].want \cup rows
  /\ req'[p].targets = S /\ req'[p].held = req[p].held
  /\ req'[p].session = req[p].session /\ req'[p].token = req[p].token
  /\ req'[p].device = req[p].device /\ req'[p].new = req[p].new

(* A transaction that goes on, relying on what its place allows.           *)
LEMMA MovesPreserves ==
  ASSUME IInv, NEW p \in Requests, UNCHANGED Tables, NEW op, NEW place, NEW rows, NEW S,
         Moves(p, op, place, rows, S), place # "idle",
         Refreshing(p)', Withdrawing(p)', Rebinding(p)', Unbinding(p)'
  PROVE  IInv'
<1>1. \A q \in Requests \ {p} : /\ req'[p].held \cap req[q].held = {}
                                /\ req'[p].new # NoDevice => req[q].new # req'[p].new
  BY DEF Moves, IInv, TypeOK, NewDevicesApart
<1>2. RequestHolds(p)'
  BY DEF Moves, RequestHolds, IInv
<1> QED BY <1>1, <1>2, Sends DEF Moves

(* A transaction that goes on and wants more rows.                         *)
LEMMA MovesForm ==
  ASSUME IInv, NEW p \in Requests, NEW op \in Ops, NEW place \in Places, NEW rows \in SUBSET Rows,
         NEW S \in SUBSET Sessions,
         req' = [req EXCEPT ![p].op = op, ![p].at = place, ![p].targets = S, ![p].want = @ \cup rows]
  PROVE  Moves(p, op, place, rows, S)
<1> DEFINE x == [req[p] EXCEPT !.op = op, !.at = place, !.targets = S, !.want = @ \cup rows]
<1>1. req \in [Requests -> Request] /\ req[p] \in Request
  BY DEF IInv, TypeOK
<1>2. x \in Request /\ x.op = op /\ x.at = place /\ x.want = req[p].want \cup rows /\ x.targets = S
      /\ x.held = req[p].held /\ x.session = req[p].session /\ x.token = req[p].token
      /\ x.device = req[p].device /\ x.new = req[p].new
  BY <1>1 DEF Request
<1>3. req' = [req EXCEPT ![p] = x]
  BY <1>1
<1> HIDE DEF x
<1>4. req'[p] = x
  BY <1>1, <1>3
<1> QED BY <1>2, <1>3, <1>4 DEF Moves

(* The same, of a transaction that keeps its operation and its targets.    *)
LEMMA GoesMoves ==
  ASSUME IInv, NEW p \in Requests, NEW place \in Places, NEW rows \in SUBSET Rows, Goes(p, place, rows)
  PROVE  Moves(p, req[p].op, place, rows, req[p].targets)
<1>1. req \in [Requests -> Request] /\ req[p] \in Request /\ req[p].op \in Ops /\ req[p].targets \in SUBSET Sessions
  BY DEF IInv, TypeOK, Request
<1>2. req' = [req EXCEPT ![p].op = req[p].op, ![p].at = place, ![p].targets = req[p].targets,
                         ![p].want = @ \cup rows]
  BY <1>1 DEF Goes, Request
<1> QED BY <1>1, <1>2, MovesForm

(* A row that is free is locked.                                           *)
LEMMA AcquirePreserves ==
  ASSUME IInv, NEW p \in Requests, Acquire(p)
  PROVE  IInv'
<1>1. PICK row \in req[p].want \ req[p].held :
        /\ \A q \in Requests : row \notin req[q].held
        /\ req' = [req EXCEPT ![p].held = @ \cup {row}]
  BY DEF Acquire
<1> DEFINE x == [req[p] EXCEPT !.held = @ \cup {row}]
<1>2. /\ req \in [Requests -> Request] /\ req[p] \in Request /\ RequestHolds(p)
      /\ UNCHANGED Tables /\ UNCHANGED <<session, token, device>>
  BY DEF IInv, TypeOK, Acquire, Tables
<1>3. /\ x \in Request /\ x.op = req[p].op /\ x.at = req[p].at /\ x.want = req[p].want /\ x.targets = req[p].targets
      /\ x.held = req[p].held \cup {row} /\ x.session = req[p].session /\ x.token = req[p].token
      /\ x.device = req[p].device /\ x.new = req[p].new
  BY <1>2 DEF Request
<1>4. req' = [req EXCEPT ![p] = x]
  BY <1>1, <1>2
<1>5. req[p].at # "idle"
  BY <1>1, <1>2, IdleRequest DEF RequestHolds
<1> HIDE DEF x
<1>6. req'[p] = x
  BY <1>2, <1>4
<1>7. \A q \in Requests \ {p} : x.held \cap req[q].held = {} /\ (x.new # NoDevice => req[q].new # x.new)
  BY <1>1, <1>3 DEF IInv, TypeOK, NewDevicesApart
<1>8. Refreshing(p)' /\ Withdrawing(p)'
  BY <1>2, <1>3, <1>6 DEF RequestHolds, Refreshing, Withdrawing, Wants, Has, Unrevoked
<1>9. Rebinding(p)' /\ Unbinding(p)'
  BY <1>2, <1>3, <1>6 DEF RequestHolds, Rebinding, Unbinding, Wants, Has, TakesDevice, Bound, Active
<1>10. RequestHolds(p)'
  BY <1>1, <1>2, <1>3, <1>5, <1>6, <1>8, <1>9 DEF RequestHolds
<1> QED BY <1>2, <1>3, <1>4, <1>7, <1>10, Sends

----------------------------------------------------------------------------
(* A refresh that goes on *)

(* Its device proved, it asks for its token.                               *)
LEMMA ProveDevicePreserves ==
  ASSUME IInv, NEW p \in Requests, ProveDevice(p)
  PROVE  IInv'
<1> DEFINE rows == Of("token", {req[p].token})
<1>1. /\ req[p].at = "previewed" /\ UNCHANGED Tables /\ UNCHANGED <<session, token, device>>
      /\ Goes(p, "rotating", rows) \/ Ends(p)
  BY DEF ProveDevice, Tables
<1>2. RequestHolds(p) /\ req[p].token \in Tokens
  BY <1>1 DEF IInv, RequestHolds, Refreshing
<1>3. CASE Goes(p, "rotating", rows)
  <2>1. rows \in SUBSET Rows /\ "rotating" \in Places
    BY <1>2, WantedRows DEF Places
  <2>2. \A kind, x : <<kind, x>> \in rows <=> kind = "token" /\ x = req[p].token
    BY WantedRows
  <2> HIDE DEF rows
  <2>3. Moves(p, req[p].op, "rotating", rows, req[p].targets)
    BY <1>3, <2>1, GoesMoves
  <2>4. Refreshing(p)' /\ Withdrawing(p)'
    BY <1>1, <1>2, <2>2, <2>3 DEF Moves, RequestHolds, Refreshing, Withdrawing, Wants, Has
  <2>5. Rebinding(p)' /\ Unbinding(p)'
    BY <1>1, <1>2, <2>3 DEF Moves, RequestHolds, Rebinding, Unbinding, TakesDevice
  <2> QED BY <1>1, <2>3, <2>4, <2>5, MovesPreserves
<1> QED BY <1>1, <1>3, AbortPreserves

(* It has its token, and asks for the session or, for a reuse, the family. *)
LEMMA ReadTokenPreserves ==
  ASSUME IInv, NEW p \in Requests, ReadToken(p)
  PROVE  IInv'
<1> DEFINE s == req[p].session
           rows(kind) == Of(kind, {s})
<1>1. /\ Holds(p, "rotating") /\ UNCHANGED Tables /\ UNCHANGED <<session, token, device>>
      /\ \/ Goes(p, "reuse", rows("family"))
         \/ token[req[p].token].status = "current" /\ Goes(p, "rotate", rows("session"))
         \/ Ends(p)
  BY DEF ReadToken, Tables
<1>2. /\ RequestHolds(p) /\ req[p].at = "rotating" /\ s \in Sessions /\ Has(p, "token", req[p].token)
  BY <1>1 DEF IInv, RequestHolds, Refreshing, Holds, Wants, Has
<1>3. ASSUME NEW place \in {"reuse", "rotate"}, NEW kind \in {"family", "session"}, Goes(p, place, rows(kind)),
             place = "rotate" => kind = "session" /\ token[req[p].token].status = "current"
      PROVE  IInv'
  <2>1. rows(kind) \in SUBSET Rows /\ place \in Places
    BY <1>2, WantedRows DEF Places
  <2>2. \A k, x : <<k, x>> \in rows(kind) <=> k = kind /\ x = s
    BY WantedRows
  <2>3. Moves(p, req[p].op, place, rows(kind), req[p].targets)
    BY <1>3, <2>1, GoesMoves
  <2> HIDE DEF rows
  <2>4. Refreshing(p)' /\ Withdrawing(p)'
    BY <1>1, <1>2, <1>3, <2>2, <2>3 DEF Moves, RequestHolds, Refreshing, Withdrawing, Wants, Has
  <2>5. Rebinding(p)' /\ Unbinding(p)'
    BY <1>1, <1>2, <2>3 DEF Moves, RequestHolds, Rebinding, Unbinding, TakesDevice
  <2> QED BY <1>1, <2>3, <2>4, <2>5, MovesPreserves
<1> QED BY <1>1, <1>3, AbortPreserves

(* What is refused, at whichever moment, has its session revoked.          *)
LEMMA RefusePreserves ==
  ASSUME IInv, NEW p \in Requests, UNCHANGED Tables,
         req[p].at \in {"previewed", "rotated", "confirmed"},
         req' = [req EXCEPT ![p] = Revoking(req[p].session)]
  PROVE  IInv'
<1>1. req[p].session \in Sessions /\ session[req[p].session].status # "none"
  BY SessionsAssumption DEF IInv, RequestHolds, Refreshing, TokenHolds
<1> QED BY <1>1, RevokingPreserves

(* The last readings.                                                      *)
LEMMA AnswerPreserves ==
  ASSUME IInv, NEW p \in Requests, Confirm(p) \/ Answer(p)
  PROVE  IInv'
<1>1. CASE Confirm(p)
  <2>1. /\ req[p].at = "rotated" /\ UNCHANGED Tables /\ UNCHANGED <<session, token, device>>
        /\ Goes(p, "confirmed", {}) \/ Ends(p)
    BY <1>1 DEF Confirm, Tables
  <2>2. RequestHolds(p)
    BY DEF IInv
  <2>3. CASE Goes(p, "confirmed", {})
    <3>1. Moves(p, req[p].op, "confirmed", {}, req[p].targets)
      BY <2>3, GoesMoves DEF Places
    <3>2. Refreshing(p)' /\ Withdrawing(p)'
      BY <2>1, <2>2, <3>1 DEF Moves, RequestHolds, Refreshing, Withdrawing, Wants, Has
    <3>3. Rebinding(p)' /\ Unbinding(p)'
      BY <2>1, <2>2, <3>1 DEF Moves, RequestHolds, Rebinding, Unbinding, TakesDevice
    <3> QED BY <2>1, <3>1, <3>2, <3>3, MovesPreserves
  <2> QED BY <2>1, <2>3, AbortPreserves
<1>2. CASE Answer(p)
  BY <1>2, RefusePreserves, AbortPreserves DEF Answer
<1> QED BY <1>1, <1>2

----------------------------------------------------------------------------
(* A revocation that goes on *)

(* The device is locked, and active: its sessions are those to revoke.     *)
LEMMA LockSessionsPreserves ==
  ASSUME IInv, NEW p \in Requests, LockSessions(p)
  PROVE  IInv'
<1> DEFINE S == Bound(req[p].device) \ {req[p].session}
           rows == Of("session", S)
<1>1. /\ Holds(p, "device") /\ UNCHANGED Tables /\ UNCHANGED <<session, token, device>>
      /\ \/ /\ device[req[p].device] = "active"
            /\ req' = [req EXCEPT ![p].at = "sessions", ![p].targets = S, ![p].want = @ \cup rows]
         \/ Ends(p)
  BY DEF LockSessions, Tables
<1>2. /\ RequestHolds(p) /\ req[p].at = "device" /\ req[p].want \subseteq req[p].held
      /\ req \in [Requests -> Request] /\ req[p].op \in Ops
  BY <1>1 DEF IInv, Holds, TypeOK, Request
<1>3. CASE /\ device[req[p].device] = "active"
           /\ req' = [req EXCEPT ![p].at = "sessions", ![p].targets = S, ![p].want = @ \cup rows]
  <2>1. rows \in SUBSET Rows /\ "sessions" \in Places /\ S \in SUBSET Sessions
    BY WantedRows DEF Places, Bound, Active
  <2>2. \A k, x : <<k, x>> \in rows <=> k = "session" /\ x \in S
    BY WantedRows
  <2>3. \A s \in S : session[s].status # "none"
    BY DEF Bound, Active
  <2>4. \A s : s \in Bound(req[p].device) => s = req[p].session \/ s \in S
    OBVIOUS
  <2>5. req[p].session \notin S
    OBVIOUS
  <2> HIDE DEF rows, S
  <2>6. Moves(p, req[p].op, "sessions", rows, S)
    <3>1. req' = [req EXCEPT ![p].op = req[p].op, ![p].at = "sessions", ![p].targets = S, ![p].want = @ \cup rows]
      BY <1>2, <1>3 DEF Request
    <3> QED BY <1>2, <2>1, <3>1, MovesForm
  <2>7. Refreshing(p)' /\ Withdrawing(p)'
    BY <1>1, <1>2, <2>2, <2>3, <2>6 DEF Moves, RequestHolds, Refreshing, Withdrawing, Wants, Has
  <2>8. Rebinding(p)'
    BY <1>1, <1>2, <2>5, <2>6 DEF Moves, RequestHolds, Rebinding, Wants, Has
  <2>9. Unbinding(p)'
    <3>1. TakesDevice(p) /\ req[p].device \in Devices /\ Has(p, "device", req[p].device)
      BY <1>1, <1>2 DEF RequestHolds, Unbinding, Wants, Has
    <3>2. Bound(req[p].device)' = Bound(req[p].device) /\ req'[p].device = req[p].device
      BY <1>1, <2>6 DEF Bound, Active, Moves
    <3>3. \A s \in Bound(req[p].device)' : s = req'[p].session \/ s \in req'[p].targets
      BY <1>1, <2>4, <2>6 DEF Moves, Bound, Active
    <3>4. device'[req'[p].device] = "active"
      BY <1>1, <1>3, <3>2
    <3> QED BY <1>2, <2>6, <3>1, <3>3, <3>4 DEF Moves, RequestHolds, Unbinding, TakesDevice, Wants, Has
  <2> QED BY <1>1, <2>6, <2>7, <2>8, <2>9, MovesPreserves
<1> QED BY <1>1, <1>3, AbortPreserves

(* Read again under the lock: what a device binds is among what is left.   *)
LEMMA LockFamiliesPreserves ==
  ASSUME IInv, NEW p \in Requests, LockFamilies(p)
  PROVE  IInv'
<1> DEFINE S == IF req[p].op \in {"revoke", "create"} THEN req[p].targets ELSE req[p].targets \cap Active
           rows == Of("family", S)
<1>1. /\ Holds(p, "sessions") /\ UNCHANGED Tables /\ UNCHANGED <<session, token, device>>
      /\ req' = [req EXCEPT ![p].at = "families", ![p].targets = S, ![p].want = @ \cup rows]
  BY DEF LockFamilies, Tables
<1>2. /\ RequestHolds(p) /\ req[p].at = "sessions" /\ req[p].want \subseteq req[p].held
      /\ req \in [Requests -> Request] /\ req[p].op \in Ops /\ req[p].targets \in SUBSET Sessions
  BY <1>1 DEF IInv, Holds, TypeOK, Request
<1>3. rows \in SUBSET Rows /\ "families" \in Places /\ S \in SUBSET Sessions
  <2>1. S \in SUBSET Sessions
    BY <1>2
  <2> QED BY <2>1, WantedRows DEF Places
<1>4. \A k, x : <<k, x>> \in rows <=> k = "family" /\ x \in S
  BY WantedRows
<1>5. S \subseteq req[p].targets /\ \A d : \A s \in Bound(d) : TakesDevice(p) => (s \in req[p].targets => s \in S)
  BY DEF Bound, TakesDevice
<1> HIDE DEF rows, S
<1>6. Moves(p, req[p].op, "families", rows, S)
  <2>1. req' = [req EXCEPT ![p].op = req[p].op, ![p].at = "families", ![p].targets = S, ![p].want = @ \cup rows]
    BY <1>1, <1>2 DEF Request
  <2> QED BY <1>2, <1>3, <2>1, MovesForm
<1>7. Refreshing(p)' /\ Withdrawing(p)'
  BY <1>1, <1>2, <1>4, <1>5, <1>6 DEF Moves, RequestHolds, Refreshing, Withdrawing, Wants, Has
<1>8. Rebinding(p)'
  BY <1>1, <1>2, <1>5, <1>6 DEF Moves, RequestHolds, Rebinding, Wants, Has
<1>9. Unbinding(p)'
  <2>1. TakesDevice(p) => \A s \in Bound(req[p].device)' : s = req'[p].session \/ s \in req'[p].targets
    <3>1. TakesDevice(p) => \A s \in Bound(req[p].device) : s = req[p].session \/ s \in S
      BY <1>2, <1>5 DEF RequestHolds, Unbinding
    <3> QED BY <1>1, <1>6, <3>1 DEF Moves, Bound, Active
  <2> QED BY <1>1, <1>2, <1>6, <2>1 DEF Moves, RequestHolds, Unbinding, TakesDevice, Wants, Has
<1> QED BY <1>1, <1>6, <1>7, <1>8, <1>9, MovesPreserves

(* A reuse has its family, and asks for the session.                       *)
LEMMA CompromisePreserves ==
  ASSUME IInv, NEW p \in Requests, Compromise(p)
  PROVE  IInv'
<1> DEFINE S == {req[p].session}
           rows == Of("session", S)
<1>1. /\ Holds(p, "reuse") /\ UNCHANGED Tables /\ UNCHANGED <<session, token, device>>
      /\ req' = [req EXCEPT ![p].op = "reuse", ![p].at = "families", ![p].targets = S, ![p].want = @ \cup rows]
  BY DEF Compromise, Tables
<1>2. /\ RequestHolds(p) /\ req[p].at = "reuse" /\ req[p].token \in Tokens /\ req[p].session \in Sessions
      /\ token[req[p].token].session = req[p].session
      /\ \A t \in Tokens : Wants(p, "token", t) => t = req[p].token
  BY <1>1 DEF IInv, Holds, RequestHolds, Refreshing
<1>3. rows \in SUBSET Rows /\ "families" \in Places /\ S \in SUBSET Sessions /\ "reuse" \in Ops
  <2>1. S \in SUBSET Sessions
    BY <1>2
  <2> QED BY <2>1, WantedRows DEF Places, Ops
<1>4. \A k, x : <<k, x>> \in rows <=> k = "session" /\ x = req[p].session
  BY WantedRows
<1>5. session[req[p].session].status # "none"
  BY <1>2, SessionsAssumption DEF IInv, TokenHolds
<1>6. Moves(p, "reuse", "families", rows, S)
  BY <1>1, <1>3, MovesForm
<1>7. \A s : s \in S <=> s = req[p].session
  OBVIOUS
<1> HIDE DEF rows, S
<1>8. Refreshing(p)' /\ Withdrawing(p)'
  BY <1>1, <1>2, <1>4, <1>5, <1>6, <1>7 DEF Moves, RequestHolds, Refreshing, Withdrawing, Wants, Has
<1>9. Rebinding(p)' /\ Unbinding(p)'
  BY <1>1, <1>2, <1>6 DEF Moves, RequestHolds, Rebinding, Unbinding, TakesDevice
<1> QED BY <1>1, <1>6, <1>8, <1>9, MovesPreserves

(* It has its sessions, and asks for every token they have.                *)
LEMMA LockTokensPreserves ==
  ASSUME IInv, NEW p \in Requests, LockTokens(p)
  PROVE  IInv'
<1> DEFINE T == Unrevoked(req[p].targets)
           rows == Of("token", T)
<1>1. /\ Holds(p, "families") /\ UNCHANGED Tables /\ UNCHANGED <<session, token, device>>
      /\ Goes(p, "tokens", rows)
  BY DEF LockTokens, Tables
<1>2. /\ RequestHolds(p) /\ req[p].at = "families" /\ req[p].want \subseteq req[p].held
  BY <1>1 DEF IInv, Holds
<1>3. rows \in SUBSET Rows /\ "tokens" \in Places
  BY WantedRows DEF Places, Unrevoked
<1>4. \A k, x : <<k, x>> \in rows <=> k = "token" /\ x \in T
  BY WantedRows
<1>5. T = Unrevoked(req[p].targets)
  OBVIOUS
<1> HIDE DEF rows, T
<1>6. Moves(p, req[p].op, "tokens", rows, req[p].targets)
  BY <1>1, <1>3, GoesMoves
<1>7. Refreshing(p)'
  BY <1>1, <1>2, <1>4, <1>6 DEF Moves, RequestHolds, Refreshing
<1>8. Withdrawing(p)'
  <2>1. Unrevoked(req[p].targets)' = T
    BY <1>1, <1>5, <1>6 DEF Moves, Unrevoked
  <2>2. \A t \in T : token[t].session \in req[p].targets
    BY <1>5 DEF Unrevoked
  <2> QED BY <1>1, <1>2, <1>4, <1>6, <2>1, <2>2 DEF Moves, RequestHolds, Withdrawing, Wants, Has
<1>9. Rebinding(p)'
  BY <1>1, <1>2, <1>6 DEF Moves, RequestHolds, Rebinding, Wants, Has
<1>10. Unbinding(p)'
  BY <1>1, <1>2, <1>6 DEF Moves, RequestHolds, Unbinding, TakesDevice, Wants, Has, Bound, Active
<1> QED BY <1>1, <1>6, <1>7, <1>8, <1>9, <1>10, MovesPreserves

(* A binding has its session, and asks for the device.                     *)
LEMMA LockDevicePreserves ==
  ASSUME IInv, NEW p \in Requests, LockDevice(p)
  PROVE  IInv'
<1> DEFINE place == IF req[p].op = "replace" THEN "device" ELSE "bindDevice"
           rows == Of("device", {req[p].device})
<1>1. /\ Holds(p, "bind") /\ UNCHANGED Tables /\ UNCHANGED <<session, token, device>>
      /\ session[req[p].session].epoch < MaxEpoch
      /\ Goes(p, place, rows) \/ Ends(p)
  BY DEF LockDevice, Tables
<1>2. /\ RequestHolds(p) /\ req[p].at = "bind" /\ req[p].want \subseteq req[p].held
      /\ req[p].device \in Devices /\ req[p].session \in Sessions /\ Has(p, "session", req[p].session)
  BY <1>1 DEF IInv, Holds, RequestHolds, Rebinding, Wants, Has
<1>3. CASE Goes(p, place, rows)
  <2>1. rows \in SUBSET Rows /\ place \in Places
    BY <1>2, WantedRows DEF Places
  <2>2. \A k, x : <<k, x>> \in rows <=> k = "device" /\ x = req[p].device
    BY WantedRows
  <2>3. /\ place \in {"device", "bindDevice"}
        /\ place = "device" => req[p].op = "replace"
        /\ req[p].op = "replace" => place = "device"
    OBVIOUS
  <2> HIDE DEF rows, place
  <2>4. Moves(p, req[p].op, place, rows, req[p].targets)
    BY <1>3, <2>1, GoesMoves
  <2>5. Refreshing(p)' /\ Withdrawing(p)'
    BY <1>1, <1>2, <2>2, <2>3, <2>4 DEF Moves, RequestHolds, Refreshing, Withdrawing, Wants, Has
  <2>6. Rebinding(p)'
    BY <1>1, <1>2, <2>2, <2>3, <2>4 DEF Moves, RequestHolds, Rebinding, Wants, Has
  <2>7. Unbinding(p)'
    BY <1>1, <1>2, <2>2, <2>3, <2>4 DEF Moves, RequestHolds, Unbinding, TakesDevice, Wants, Has
  <2> QED BY <1>1, <2>3, <2>4, <2>5, <2>6, <2>7, MovesPreserves
<1> QED BY <1>1, <1>3, AbortPreserves

----------------------------------------------------------------------------
(* Transactions that commit *)

(* A commit gives its locks back; whoever does not commit is left alone    *)
(* when the commit respects what the others have locked.                   *)
LEMMA CommitPreserves ==
  ASSUME IInv, NEW p \in Requests, Respects(p), NEW x \in Request, req' = [req EXCEPT ![p] = x],
         x.held = {}, x.new = NoDevice, RequestHolds(p)',
         session' \in [Sessions -> Session], token' \in [Tokens -> Token],
         family' \in [Sessions -> {"none", "active", "revoked", "compromised"}],
         device' \in [Devices -> {"none", "active", "revoked"}],
         DevicesFollow', \A t \in Tokens : TokenHolds(t)', \A s \in Sessions : SessionHolds(s)'
  PROVE  IInv'
<1>1. /\ req \in [Requests -> Request] /\ req'[p] = x /\ req' \in [Requests -> Request]
      /\ \A q \in Requests \ {p} : req'[q] = req[q]
  BY DEF IInv, TypeOK
<1>2. ASSUME NEW q \in Requests PROVE RequestHolds(q)'
  BY <1>1, OthersKept
<1>3. ASSUME NEW q \in Requests, NEW r \in Requests, q # r
      PROVE  req'[q].held \cap req'[r].held = {} /\ (req'[q].new # NoDevice => req'[r].new # req'[q].new)
  BY <1>1, <1>3 DEF IInv, TypeOK, NewDevicesApart
<1>4. TypeOK'
  BY <1>1, <1>3 DEF TypeOK
<1>5. NewDevicesApart'
  BY <1>3 DEF NewDevicesApart
<1> QED BY <1>2, <1>4, <1>5 DEF IInv

(* A commit preserves the invariant when it respects the others' locks and *)
(* leaves the tables in order.                                             *)
LEMMA EndPreserves ==
  ASSUME IInv, NEW p \in Requests, Respects(p), Ends(p),
         session' \in [Sessions -> Session], token' \in [Tokens -> Token],
         family' \in [Sessions -> {"none", "active", "revoked", "compromised"}],
         device' \in [Devices -> {"none", "active", "revoked"}],
         DevicesFollow', \A t \in Tokens : TokenHolds(t)', \A s \in Sessions : SessionHolds(s)'
  PROVE  IInv'
<1>1. req' = [req EXCEPT ![p] = Idle] /\ req'[p] = Idle
  BY DEF Ends, IInv, TypeOK
<1> QED BY <1>1, IdleRequest, IdleHolds, CommitPreserves

(* The session's current token is consumed, another one takes its place.   *)
LEMMA RotatePreserves ==
  ASSUME IInv, NEW p \in Requests, NEW t \in Tokens, Rotate(p, t)
  PROVE  IInv'
<1> DEFINE s == req[p].session
           old == req[p].token
<1>1. CASE ~Expected(p)
  <2>1. Ends(p) /\ UNCHANGED Tables
    BY <1>1 DEF Rotate, Tables
  <2> QED BY <2>1, AbortPreserves
<1>2. CASE Expected(p)
  <2>1. /\ Holds(p, "rotate") /\ session[s].status = "active" /\ token[t].status = "none"
        /\ token' = [token EXCEPT ![old].status = "consumed", ![t] = [status |-> "current", session |-> s]]
        /\ req' = [req EXCEPT ![p].at = "rotated", ![p].token = t, ![p].held = {}, ![p].want = {}]
        /\ UNCHANGED <<session, family, device>>
    BY <1>2 DEF Rotate, Expected
  <2>2. /\ req[p].at = "rotate" /\ RequestHolds(p) /\ old \in Tokens /\ s \in Sessions
        /\ token[old].session = s /\ token[old].status = "current" /\ Has(p, "token", old)
        /\ Has(p, "session", s) /\ old # t
    BY <2>1 DEF IInv, Holds, RequestHolds, Refreshing, Wants, Has
  <2>3. token \in [Tokens -> Token] /\ req \in [Requests -> Request] /\ req[p] \in Request
    BY DEF IInv, TypeOK
  <2>4. /\ token'[t].status = "current" /\ token'[t].session = s
        /\ token'[old].status = "consumed" /\ token'[old].session = s
        /\ \A u \in Tokens \ {t, old} : token'[u] = token[u]
    BY <2>1, <2>2, <2>3 DEF Token
  <2>5. token' \in [Tokens -> Token]
    BY <2>1, <2>2, <2>3 DEF Token
  <2> HIDE DEF s, old
  <2>6. Respects(p)
    <3>1. ASSUME NEW u \in Tokens, token[u].status = "none"
          PROVE  token'[u] = token[u] \/ Has(p, "session", token'[u].session)
      BY <2>2, <2>4, <3>1
    <3>2. ASSUME NEW u \in Tokens, token[u].status # "none"
          PROVE  /\ token'[u] = token[u] \/ Has(p, "token", u)
                 /\ token'[u].session = token[u].session /\ token'[u].status # "none"
                 /\ token[u].status = "revoked" => token'[u].status = "revoked"
      BY <2>1, <2>2, <2>4, <3>2
    <3> QED BY <2>1, <3>1, <3>2 DEF Respects
  <2>7. ASSUME NEW u \in Tokens PROVE TokenHolds(u)'
    <3>1. TokenHolds(u)
      BY DEF IInv
    <3>2. CASE u \in {t, old}
      BY <2>1, <2>2, <2>4, <3>2 DEF TokenHolds
    <3>3. CASE u \notin {t, old}
      <4>1. token'[u] = token[u]
        BY <2>4, <3>3
      <4> QED BY <2>1, <3>1, <4>1 DEF TokenHolds
    <3> QED BY <3>2, <3>3
  <2>8. ASSUME NEW r \in Sessions PROVE SessionHolds(r)'
    <3>1. SessionHolds(r) /\ token[t].session = NoSession
      BY <2>1 DEF IInv, TokenHolds
    <3>2. CASE r = s
      <4>1. CurrentOf(s) = {old}
        <5>1. PICK u \in Tokens : CurrentOf(s) = {u}
          BY <2>1, <3>1, <3>2 DEF SessionHolds
        <5>2. old \in CurrentOf(s)
          BY <2>2 DEF CurrentOf
        <5> QED BY <5>1, <5>2
      <4>2. CurrentOf(r)' = {t}
        <5>1. \A u \in Tokens : u \in CurrentOf(r)' <=> u = t
          <6>1. \A u \in Tokens : token[u].session = s /\ token[u].status = "current" => u = old
            BY <4>1 DEF CurrentOf
          <6> QED BY <2>2, <2>4, <3>2, <6>1 DEF CurrentOf
        <5>2. \A u \in CurrentOf(r)' : u \in Tokens
          BY DEF CurrentOf
        <5> QED BY <5>1, <5>2
      <4> QED BY <2>1, <3>1, <3>2, <4>2 DEF SessionHolds
    <3>3. CASE r # s
      <4>1. CurrentOf(r)' = CurrentOf(r) /\ Unrevoked({r})' = Unrevoked({r})
        <5>1. \A u \in Tokens : token'[u].session = r <=> token[u].session = r
          BY <2>2, <2>4, <3>1, <3>3, SessionsAssumption
        <5>2. \A u \in Tokens : token[u].session = r => token'[u] = token[u]
          BY <2>2, <2>4, <3>1, <3>3, SessionsAssumption
        <5> QED BY <5>1, <5>2 DEF CurrentOf, Unrevoked
      <4> QED BY <2>1, <3>1, <4>1 DEF SessionHolds
    <3> QED BY <3>2, <3>3
  <2>9. DevicesFollow'
    BY <2>1 DEF IInv, DevicesFollow, Active
  <2> DEFINE x == [req[p] EXCEPT !.at = "rotated", !.token = t, !.held = {}, !.want = {}]
  <2>10. /\ x \in Request /\ x.at = "rotated" /\ x.held = {} /\ x.want = {} /\ x.op = req[p].op
         /\ x.session = req[p].session /\ x.new = req[p].new
    BY <2>3 DEF Request, Places
  <2>11. req' = [req EXCEPT ![p] = x]
    BY <2>1, <2>3
  <2> HIDE DEF x
  <2>12. req'[p] = x
    BY <2>3, <2>11
  <2>13. x.new = NoDevice /\ x.op # "replace"
    BY <2>2, <2>10 DEF RequestHolds, Rebinding
  <2>14. RequestHolds(p)'
    <3>1. Refreshing(p)' /\ Withdrawing(p)'
      BY <2>1, <2>2, <2>10, <2>12 DEF Refreshing, Withdrawing, Wants, s
    <3>2. Rebinding(p)' /\ Unbinding(p)'
      BY <2>2, <2>10, <2>12, <2>13 DEF RequestHolds, Rebinding, Unbinding, TakesDevice
    <3> QED BY <2>10, <2>12, <3>1, <3>2 DEF RequestHolds
  <2>15. /\ session' \in [Sessions -> Session] /\ device' \in [Devices -> {"none", "active", "revoked"}]
         /\ family' \in [Sessions -> {"none", "active", "revoked", "compromised"}]
    BY <2>1 DEF IInv, TypeOK
  <2> QED BY <2>5, <2>6, <2>7, <2>8, <2>9, <2>10, <2>11, <2>13, <2>14, <2>15, CommitPreserves
<1> QED BY <1>1, <1>2

(* What a revocation has locked are all tokens of its sessions, and only   *)
(* those: it leaves the other sessions' alone.                             *)
LEMMA WithdrawnTokens ==
  ASSUME IInv, NEW p \in Requests, Holds(p, "tokens")
  PROVE  /\ Withdrawn(p) \in [Tokens -> Token]
         /\ \A t \in Tokens :
              /\ Withdrawn(p)[t].session = token[t].session
              /\ token[t].session \in req[p].targets => Withdrawn(p)[t].status = "revoked" /\ token[t].status # "none"
              /\ token[t].session \notin req[p].targets => Withdrawn(p)[t] = token[t]
              /\ Withdrawn(p)[t] # token[t] => Has(p, "token", t)
<1>1. /\ RequestHolds(p) /\ req[p].at = "tokens" /\ req[p].want \subseteq req[p].held
      /\ token \in [Tokens -> Token] /\ req[p].targets \subseteq Sessions
  BY DEF Holds, IInv, TypeOK, Request
<1>2. Withdrawn(p) \in [Tokens -> Token]
  BY <1>1 DEF Withdrawn, Token
<1>3. ASSUME NEW t \in Tokens
      PROVE  Withdrawn(p)[t] = IF Has(p, "token", t) THEN [token[t] EXCEPT !.status = "revoked"] ELSE token[t]
  BY DEF Withdrawn, Has
<1>4. ASSUME NEW t \in Tokens
      PROVE  /\ Has(p, "token", t) => token[t].session \in req[p].targets
             /\ token[t].session \in req[p].targets =>
                  (Has(p, "token", t) \/ token[t].status = "revoked") /\ token[t].status # "none"
  BY <1>1, SessionsAssumption DEF RequestHolds, Withdrawing, Unrevoked, Wants, Has, IInv, TokenHolds
<1>5. ASSUME NEW t \in Tokens
      PROVE  /\ [token[t] EXCEPT !.status = "revoked"].session = token[t].session
             /\ [token[t] EXCEPT !.status = "revoked"].status = "revoked"
  BY <1>1 DEF Token
<1> QED BY <1>2, <1>3, <1>4, <1>5

(* A revocation ends the sessions it is for, and no other.                 *)
LEMMA EndedSessions ==
  ASSUME IInv, NEW p \in Requests, Holds(p, "tokens")
  PROVE  /\ Ended(p) \in [Sessions -> Session]
         /\ req[p].targets \in SUBSET Sessions
         /\ \A s \in req[p].targets : /\ Ended(p)[s].status = "revoked" /\ session[s].status # "none"
                                      /\ Has(p, "session", s)
         /\ \A s \in Sessions \ req[p].targets : Ended(p)[s] = session[s]
<1>1. /\ RequestHolds(p) /\ req[p].at = "tokens"
      /\ session \in [Sessions -> Session] /\ req[p].targets \in SUBSET Sessions
  BY DEF Holds, IInv, TypeOK, Request
<1> QED BY <1>1 DEF Ended, Session, RequestHolds, Withdrawing

(* The sessions that a revocation leaves, and those it ends.               *)
LEMMA RevocationKeepsSessions ==
  ASSUME IInv, NEW p \in Requests, Holds(p, "tokens"), NEW s \in Sessions,
         IF s \in req[p].targets THEN session'[s].status = "revoked" /\ family'[s] # "active"
                                 ELSE session'[s].status = session[s].status /\ family'[s] = family[s],
         \A t \in Tokens : \/ token'[t] = Withdrawn(p)[t]
                           \/ token[t].status = "none" /\ token'[t].session # s
  PROVE  SessionHolds(s)'
<1>1. SessionHolds(s) /\ \A t \in Tokens : token[t].status = "none" => token[t].session # s
  BY SessionsAssumption DEF IInv, TokenHolds
<1>2. CASE s \in req[p].targets
  <2>1. \A t \in Tokens : token'[t].session = s => token'[t].status = "revoked"
    BY <1>2, WithdrawnTokens
  <2> QED BY <1>2, <2>1 DEF SessionHolds, Unrevoked
<1>3. CASE s \notin req[p].targets
  <2>1. \A t \in Tokens : /\ token'[t].session = s <=> token[t].session = s
                          /\ token[t].session = s => token'[t] = token[t]
    BY <1>1, <1>3, WithdrawnTokens
  <2>2. CurrentOf(s)' = CurrentOf(s) /\ Unrevoked({s})' = Unrevoked({s})
    BY <2>1 DEF CurrentOf, Unrevoked
  <2> QED BY <1>1, <1>3, <2>2 DEF SessionHolds
<1> QED BY <1>2, <1>3

(* A revocation, for whatever reason: what it has locked it ends.          *)
LEMMA CommitRevokePreserves ==
  ASSUME IInv, NEW p \in Requests, CommitRevoke(p)
  PROVE  IInv'
<1> DEFINE how == IF req[p].op = "reuse" THEN "compromised" ELSE "revoked"
<1>1. /\ Holds(p, "tokens") /\ session' = Ended(p) /\ token' = Withdrawn(p) /\ family' = Closed(p, how)
      /\ device' = IF req[p].op = "revokeDevice" THEN [device EXCEPT ![req[p].device] = "revoked"] ELSE device
      /\ Ends(p) /\ req[p].op # "replace"
  BY DEF CommitRevoke
<1>2. /\ RequestHolds(p) /\ req[p].at = "tokens" /\ req[p].targets \in SUBSET Sessions
      /\ device \in [Devices -> {"none", "active", "revoked"}]
      /\ family \in [Sessions -> {"none", "active", "revoked", "compromised"}]
  BY <1>1 DEF Holds, IInv, TypeOK, Request
<1>3. /\ how # "active"
      /\ \A s \in Sessions : family'[s] = IF s \in req[p].targets THEN how ELSE family[s]
      /\ family' \in [Sessions -> {"none", "active", "revoked", "compromised"}]
  BY <1>1, <1>2 DEF Closed
<1>4. /\ device' \in [Devices -> {"none", "active", "revoked"}]
      /\ \A d \in Devices : \/ device'[d] = device[d]
                            \/ /\ req[p].op = "revokeDevice" /\ d = req[p].device
                               /\ Has(p, "device", d) /\ device[d] = "active"
  BY <1>1, <1>2 DEF RequestHolds, Unbinding, TakesDevice
<1> HIDE DEF how
<1>5. Respects(p)
  BY <1>1, <1>4, WithdrawnTokens, EndedSessions DEF Respects, IInv, TokenHolds
<1>6. DevicesFollow'
  <2> SUFFICES ASSUME NEW s \in Sessions, session'[s].status = "active", session'[s].device # NoDevice
               PROVE  device'[session'[s].device] = "active"
    BY DEF DevicesFollow, Active
  <2>1. s \notin req[p].targets /\ session'[s] = session[s]
    BY <1>1, EndedSessions
  <2>2. device[session[s].device] = "active" /\ session[s].device \in Devices
    BY <2>1, <1>1 DEF IInv, DevicesFollow, Active, TypeOK, Session
  <2>3. CASE req[p].op = "revokeDevice" /\ session[s].device = req[p].device
    <3>1. s \in Bound(req[p].device) /\ req[p].session = NoSession
      BY <1>2, <2>1, <2>3 DEF Bound, Active, RequestHolds, Unbinding
    <3> QED BY <1>2, <2>1, <2>3, <3>1, SessionsAssumption DEF RequestHolds, Unbinding, TakesDevice
  <2> QED BY <1>4, <2>1, <2>2, <2>3
<1>7. ASSUME NEW t \in Tokens PROVE TokenHolds(t)'
  BY <1>1, <1>5, WithdrawnTokens DEF Respects, IInv, TokenHolds
<1>8. ASSUME NEW s \in Sessions PROVE SessionHolds(s)'
  BY <1>1, <1>3, EndedSessions, RevocationKeepsSessions
<1> QED BY <1>1, <1>3, <1>4, <1>5, <1>6, <1>7, <1>8, WithdrawnTokens, EndedSessions, EndPreserves


(* A session is opened with its token; those beyond the limit are ended.   *)
LEMMA CommitCreatePreserves ==
  ASSUME IInv, NEW p \in Requests, NEW s \in Sessions, NEW t \in Tokens, CommitCreate(p, s, t)
  PROVE  IInv'
<1>1. /\ Holds(p, "tokens") /\ Ends(p) /\ UNCHANGED device
      /\ session[s].status = "none" /\ token[t].status = "none"
      /\ session' = [Ended(p) EXCEPT ![s] = [status |-> "active", device |-> NoDevice, epoch |-> 1]]
      /\ token' = [Withdrawn(p) EXCEPT ![t] = [status |-> "current", session |-> s]]
      /\ family' = [Closed(p, "revoked") EXCEPT ![s] = "active"]
  BY DEF CommitCreate
<1>2. /\ session' \in [Sessions -> Session]
      /\ session'[s].status = "active" /\ session'[s].device = NoDevice
      /\ \A r \in Sessions \ {s} : session'[r] = Ended(p)[r]
  <2>1. Ended(p) \in [Sessions -> Session]
    BY <1>1, EndedSessions
  <2> QED BY <1>1, <2>1, SessionsAssumption DEF Session
<1>3. /\ token' \in [Tokens -> Token]
      /\ token'[t].status = "current" /\ token'[t].session = s
      /\ \A u \in Tokens \ {t} : token'[u] = Withdrawn(p)[u]
  <2>1. Withdrawn(p) \in [Tokens -> Token]
    BY <1>1, WithdrawnTokens
  <2> QED BY <1>1, <2>1 DEF Token
<1>4. /\ family' \in [Sessions -> {"none", "active", "revoked", "compromised"}]
      /\ family'[s] = "active"
      /\ \A r \in Sessions \ {s} : family'[r] = IF r \in req[p].targets THEN "revoked" ELSE family[r]
  BY <1>1 DEF Closed, IInv, TypeOK
<1>5. s \notin req[p].targets /\ token[t].session = NoSession
  BY <1>1, EndedSessions DEF IInv, TokenHolds
<1>6. Respects(p)
  <2>1. ASSUME NEW u \in Tokens, token[u].status = "none"
        PROVE  token'[u] = token[u] \/ session[token'[u].session].status = "none"
    <3>1. CASE u = t
      BY <1>1, <1>3, <3>1
    <3>2. CASE u # t
      <4>1. token[u].session \notin req[p].targets
        BY <1>1, <2>1, WithdrawnTokens
      <4> QED BY <1>1, <1>3, <3>2, <4>1, WithdrawnTokens
    <3> QED BY <3>1, <3>2
  <2>2. ASSUME NEW u \in Tokens, token[u].status # "none"
        PROVE  /\ token'[u] = token[u] \/ Has(p, "token", u)
               /\ token'[u].session = token[u].session /\ token'[u].status # "none"
               /\ token[u].status = "revoked" => token'[u].status = "revoked"
    BY <1>1, <1>3, <2>2, WithdrawnTokens
  <2>3. ASSUME NEW r \in Sessions
        PROVE  /\ session'[r] = session[r] \/ Has(p, "session", r) \/ session[r].status = "none"
               /\ session[r].status # "none" => session'[r].status # "none"
               /\ session'[r].status = "active" =>
                    \/ session[r].status = "active" /\ session'[r].device = session[r].device
                    \/ session'[r].device = NoDevice
    BY <1>1, <1>2, EndedSessions
  <2> QED BY <1>1, <2>1, <2>2, <2>3 DEF Respects
<1>7. DevicesFollow'
  <2> SUFFICES ASSUME NEW r \in Sessions, session'[r].status = "active", session'[r].device # NoDevice
               PROVE  device[session'[r].device] = "active"
    BY <1>1 DEF DevicesFollow, Active
  <2>1. session'[r] = session[r]
    BY <1>1, <1>2, EndedSessions
  <2> QED BY <2>1 DEF IInv, DevicesFollow, Active
<1>8. ASSUME NEW u \in Tokens PROVE TokenHolds(u)'
  <2>1. CASE u = t
    BY <1>2, <1>3, <2>1 DEF TokenHolds
  <2>2. CASE u # t
    BY <1>1, <1>3, <1>6, <2>2, WithdrawnTokens DEF Respects, IInv, TokenHolds
  <2> QED BY <2>1, <2>2
<1>9. ASSUME NEW r \in Sessions PROVE SessionHolds(r)'
  <2>1. CASE r = s
    <3>1. \A u \in Tokens : u # t => token'[u].session # s
      BY <1>1, <1>3, WithdrawnTokens, SessionsAssumption DEF IInv, TokenHolds
    <3>2. CurrentOf(r)' = {t}
      <4>1. \A u \in Tokens : u \in CurrentOf(r)' <=> u = t
        BY <1>3, <2>1, <3>1 DEF CurrentOf
      <4>2. \A u \in CurrentOf(r)' : u \in Tokens
        BY DEF CurrentOf
      <4> QED BY <4>1, <4>2
    <3> QED BY <1>2, <1>4, <2>1, <3>2 DEF SessionHolds
  <2>2. CASE r # s
    <3>1. \A u \in Tokens : \/ token'[u] = Withdrawn(p)[u]
                            \/ token[u].status = "none" /\ token'[u].session # r
      BY <1>1, <1>3, <2>2
    <3>2. IF r \in req[p].targets THEN session'[r].status = "revoked" /\ family'[r] # "active"
                                  ELSE session'[r].status = session[r].status /\ family'[r] = family[r]
      BY <1>1, <1>2, <1>4, <2>2, EndedSessions
    <3> QED BY <1>1, <3>1, <3>2, RevocationKeepsSessions
  <2> QED BY <2>1, <2>2
<1>10. device' \in [Devices -> {"none", "active", "revoked"}]
  BY <1>1 DEF IInv, TypeOK
<1> QED BY <1>1, <1>2, <1>3, <1>4, <1>6, <1>7, <1>8, <1>9, <1>10, EndPreserves

(* A session is bound to a device that is locked and active.               *)
LEMMA CommitBindPreserves ==
  ASSUME IInv, NEW p \in Requests, CommitBind(p)
  PROVE  IInv'
<1> DEFINE s == req[p].session
           d == req[p].device
<1>1. /\ Holds(p, "bindDevice") /\ Ends(p) /\ UNCHANGED <<family, token, device>>
      /\ session' = IF device[d] = "active" THEN [session EXCEPT ![s] = BoundTo(s, d)] ELSE session
  BY DEF CommitBind
<1>2. CASE device[d] # "active"
  <2>1. UNCHANGED Tables
    BY <1>1, <1>2 DEF Tables
  <2> QED BY <1>1, <2>1, AbortPreserves
<1>3. CASE device[d] = "active"
  <2>1. /\ s \in Sessions /\ d \in Devices /\ Has(p, "session", s) /\ Has(p, "device", d)
        /\ session[s].status # "none" /\ session[s].epoch < MaxEpoch
    BY <1>1 DEF IInv, Holds, RequestHolds, Rebinding, Wants, Has
  <2>2. session \in [Sessions -> Session] /\ session[s].epoch + 1 \in 0 .. MaxEpoch
    BY <2>1, SessionsAssumption DEF IInv, TypeOK, Session
  <2>3. BoundTo(s, d) \in Session /\ BoundTo(s, d).device = d /\ BoundTo(s, d).status = session[s].status
    BY <2>1, <2>2 DEF BoundTo, Session
  <2> HIDE DEF s, d
  <2>4. /\ session' \in [Sessions -> Session] /\ session'[s].device = d
        /\ \A r \in Sessions : session'[r].status = session[r].status /\ (r # s => session'[r] = session[r])
    BY <1>1, <1>3, <2>1, <2>2, <2>3
  <2>5. Respects(p)
    BY <1>1, <2>1, <2>4 DEF Respects
  <2>6. DevicesFollow'
    BY <1>1, <1>3, <2>4 DEF IInv, DevicesFollow, Active
  <2>7. \A t \in Tokens : TokenHolds(t)'
    BY <1>1, <2>4 DEF IInv, TokenHolds
  <2>8. \A r \in Sessions : SessionHolds(r)'
    BY <1>1, <2>4 DEF IInv, SessionHolds, CurrentOf, Unrevoked
  <2>9. /\ token' \in [Tokens -> Token] /\ device' \in [Devices -> {"none", "active", "revoked"}]
        /\ family' \in [Sessions -> {"none", "active", "revoked", "compromised"}]
    BY <1>1 DEF IInv, TypeOK
  <2> QED BY <1>1, <2>4, <2>5, <2>6, <2>7, <2>8, <2>9, EndPreserves
<1> QED BY <1>2, <1>3

(* A key gives way to a new one: every session it bound is ended, but one. *)
LEMMA CommitReplacePreserves ==
  ASSUME IInv, NEW p \in Requests, CommitReplace(p)
  PROVE  IInv'
<1> DEFINE s == req[p].session
           d == req[p].device
           n == req[p].new
<1>1. /\ Holds(p, "tokens") /\ Ends(p) /\ req[p].op = "replace"
      /\ session' = [Ended(p) EXCEPT ![s] = BoundTo(s, n)]
      /\ token' = Withdrawn(p) /\ family' = Closed(p, "revoked")
      /\ device' = [device EXCEPT ![d] = "revoked", ![n] = "active"]
  BY DEF CommitReplace
<1>2. /\ RequestHolds(p) /\ req[p].at = "tokens" /\ req[p].want \subseteq req[p].held
      /\ device \in [Devices -> {"none", "active", "revoked"}]
      /\ family \in [Sessions -> {"none", "active", "revoked", "compromised"}]
  BY <1>1 DEF Holds, IInv, TypeOK
<1>3. /\ s \in Sessions /\ Has(p, "session", s) /\ session[s].status # "none" /\ session[s].epoch < MaxEpoch
      /\ s \notin req[p].targets /\ n \in Devices /\ device[n] = "none"
  BY <1>1, <1>2 DEF RequestHolds, Rebinding, Wants, Has
<1>4. /\ d \in Devices /\ device[d] = "active" /\ Has(p, "device", d)
      /\ \A r \in Bound(d) : r = s \/ r \in req[p].targets
  BY <1>1, <1>2 DEF RequestHolds, Unbinding, TakesDevice
<1>5. \A q \in Requests \ {p} : req[q].new # n
  BY <1>3, SessionsAssumption DEF IInv, NewDevicesApart
<1>6. BoundTo(s, n) \in Session /\ BoundTo(s, n).device = n /\ BoundTo(s, n).status = session[s].status
  <2>1. session \in [Sessions -> Session] /\ session[s].epoch + 1 \in 0 .. MaxEpoch
    BY <1>3, SessionsAssumption DEF IInv, TypeOK, Session
  <2> QED BY <1>3, <2>1 DEF BoundTo, Session
<1> HIDE DEF s, d, n
<1>7. /\ session' \in [Sessions -> Session] /\ session'[s].device = n /\ session'[s].status = session[s].status
      /\ \A r \in Sessions \ {s} : session'[r] = Ended(p)[r]
  <2>1. Ended(p) \in [Sessions -> Session]
    BY <1>1, EndedSessions
  <2> QED BY <1>1, <1>3, <1>6, <2>1
<1>8. /\ device' \in [Devices -> {"none", "active", "revoked"}]
      /\ device'[n] = "active" /\ \A e \in Devices \ {d, n} : device'[e] = device[e]
  BY <1>1, <1>2, <1>3, <1>4
<1>9. /\ family' \in [Sessions -> {"none", "active", "revoked", "compromised"}]
      /\ \A r \in Sessions : family'[r] = IF r \in req[p].targets THEN "revoked" ELSE family[r]
  BY <1>1, <1>2 DEF Closed
<1>10. Respects(p)
  <2>1. ASSUME NEW u \in Tokens
        PROVE  IF token[u].status = "none" THEN token'[u] = token[u]
               ELSE /\ token'[u] = token[u] \/ Has(p, "token", u)
                    /\ token'[u].session = token[u].session /\ token'[u].status # "none"
                    /\ token[u].status = "revoked" => token'[u].status = "revoked"
    BY <1>1, WithdrawnTokens
  <2>2. ASSUME NEW r \in Sessions
        PROVE  /\ session'[r] = session[r] \/ Has(p, "session", r)
               /\ session[r].status # "none" => session'[r].status # "none"
               /\ session'[r].status = "active" =>
                    \/ session[r].status = "active" /\ session'[r].device = session[r].device
                    \/ device[session'[r].device] = "none"
    BY <1>1, <1>3, <1>7, EndedSessions
  <2>3. ASSUME NEW e \in Devices
        PROVE  \/ device'[e] = device[e]
               \/ Has(p, "device", e) /\ device[e] # "none"
               \/ device[e] = "none" /\ \A q \in Requests \ {p} : req[q].new # e
    BY <1>3, <1>4, <1>5, <1>8
  <2> QED BY <2>1, <2>2, <2>3 DEF Respects
<1>11. DevicesFollow'
  <2> SUFFICES ASSUME NEW r \in Sessions, session'[r].status = "active", session'[r].device # NoDevice
               PROVE  device'[session'[r].device] = "active"
    BY DEF DevicesFollow, Active
  <2>1. CASE r = s
    BY <1>7, <1>8, <2>1
  <2>2. CASE r # s
    <3>1. r \notin req[p].targets /\ session'[r] = session[r]
      BY <1>1, <1>7, <2>2, EndedSessions
    <3>2. device[session[r].device] = "active" /\ session[r].device \in Devices
      BY <3>1 DEF IInv, DevicesFollow, Active, TypeOK, Session
    <3>3. session[r].device # d
      BY <1>4, <2>2, <3>1 DEF Bound, Active
    <3> QED BY <1>3, <1>8, <3>1, <3>2, <3>3
  <2> QED BY <2>1, <2>2
<1>12. ASSUME NEW t \in Tokens PROVE TokenHolds(t)'
  BY <1>1, <1>10, WithdrawnTokens DEF Respects, IInv, TokenHolds
<1>13. ASSUME NEW r \in Sessions PROVE SessionHolds(r)'
  <2>1. IF r \in req[p].targets THEN session'[r].status = "revoked" /\ family'[r] # "active"
                                ELSE session'[r].status = session[r].status /\ family'[r] = family[r]
    BY <1>1, <1>3, <1>7, <1>9, EndedSessions
  <2> QED BY <1>1, <2>1, RevocationKeepsSessions
<1> QED BY <1>1, <1>7, <1>8, <1>9, <1>10, <1>11, <1>12, <1>13, WithdrawnTokens, EndPreserves

(* A device that is enrolled is nobody's yet.                              *)
LEMMA EnrolPreserves ==
  ASSUME IInv, NEW d \in Devices, Enrol(d)
  PROVE  IInv'
<1>1. /\ device[d] = "none" /\ (\A p \in Requests : req[p].new # d)
      /\ device' = [device EXCEPT ![d] = "active"] /\ UNCHANGED <<session, family, token, req>>
  BY DEF Enrol
<1>2. /\ device' \in [Devices -> {"none", "active", "revoked"}]
      /\ \A e \in Devices \ {d} : device'[e] = device[e]
  BY <1>1 DEF IInv, TypeOK
<1>3. TypeOK' /\ NewDevicesApart' /\ (\A t \in Tokens : TokenHolds(t)') /\ (\A s \in Sessions : SessionHolds(s)')
  BY <1>1, <1>2 DEF IInv, TypeOK, NewDevicesApart, TokenHolds, SessionHolds, CurrentOf, Unrevoked
<1>4. DevicesFollow'
  BY <1>1, <1>2 DEF IInv, DevicesFollow, Active, TypeOK, Session
<1>5. ASSUME NEW p \in Requests PROVE RequestHolds(p)'
  <2>1. RequestHolds(p)
    BY DEF IInv
  <2>2. Refreshing(p)' /\ Withdrawing(p)'
    BY <1>1, <2>1 DEF RequestHolds, Refreshing, Withdrawing, Wants, Has, Unrevoked
  <2>3. Rebinding(p)'
    BY <1>1, <1>2, <2>1 DEF RequestHolds, Rebinding, Wants, Has
  <2>4. Unbinding(p)'
    BY <1>1, <1>2, <2>1 DEF RequestHolds, Unbinding, TakesDevice, Wants, Has, Bound, Active
  <2> QED BY <1>1, <2>1, <2>2, <2>3, <2>4 DEF RequestHolds
<1> QED BY <1>3, <1>4, <1>5 DEF IInv

----------------------------------------------------------------------------
(* The theorems *)

(* Nothing exists, and nobody asks for anything.                           *)
LEMMA InitIInv == Init => IInv
<1> SUFFICES ASSUME Init PROVE IInv
  OBVIOUS
<1>1. TypeOK
  BY IdleRequest, SessionsAssumption DEF Init, TypeOK, Session, Token
<1>2. DevicesFollow /\ NewDevicesApart /\ (\A t \in Tokens : TokenHolds(t))
  BY IdleRequest DEF Init, DevicesFollow, Active, NewDevicesApart, TokenHolds
<1>3. \A s \in Sessions : SessionHolds(s)
  BY DEF Init, SessionHolds
<1>4. ASSUME NEW p \in Requests PROVE RequestHolds(p)
  <2>1. req[p] = Idle
    BY DEF Init
  <2>2. Refreshing(p) /\ Withdrawing(p)
    BY <2>1, IdleRequest DEF Refreshing, Withdrawing, Wants
  <2>3. Rebinding(p) /\ Unbinding(p)
    BY <2>1, IdleRequest DEF Rebinding, Unbinding, TakesDevice
  <2> QED BY <2>1, <2>2, <2>3, IdleRequest DEF RequestHolds
<1> QED BY <1>1, <1>2, <1>3, <1>4 DEF IInv

(* Every step keeps the inductive invariant.                               *)
LEMMA NextIInv == IInv /\ [Next]_vars => IInv'
<1> SUFFICES ASSUME IInv, [Next]_vars PROVE IInv'
  OBVIOUS
<1>1. ASSUME NEW p \in Requests, Step(p) PROVE IInv'
  BY <1>1, AcquirePreserves, ProveDevicePreserves, ReadTokenPreserves, AnswerPreserves, RotatePreserves,
     LockSessionsPreserves, LockFamiliesPreserves, CompromisePreserves, LockTokensPreserves,
     LockDevicePreserves, CommitRevokePreserves, CommitBindPreserves, CommitReplacePreserves,
     CommitCreatePreserves DEF Step
<1>2. ASSUME NEW p \in Requests, Abort(p) \/ Refuse(p) PROVE IInv'
  BY <1>2, AbortPreserves, RefusePreserves DEF Abort, Refuse
<1>3. ASSUME NEW p \in Requests,
             \/ \E t \in Tokens : PreviewRefresh(p, t)
             \/ \E s \in Sessions : Revoke(p, s)
             \/ \E S \in SUBSET Sessions : RevokeUser(p, S) \/ Create(p, S)
      PROVE  IInv'
  BY <1>3, PreviewPreserves, RevocationsBegin
<1>4. ASSUME NEW p \in Requests,
             \/ \E d \in Devices : RevokeDevice(p, d)
             \/ \E s \in Sessions, d \in Devices : BindDevice(p, s, d)
             \/ \E s \in Sessions, d, n \in Devices : ReplaceKey(p, s, d, n)
      PROVE  IInv'
  BY <1>4, DevicesBegin
<1>5. CASE UNCHANGED vars
  <2>1. (\A t \in Tokens : TokenHolds(t)') /\ (\A s \in Sessions : SessionHolds(s)') /\ NewDevicesApart'
    BY <1>5 DEF vars, IInv, TokenHolds, SessionHolds, CurrentOf, Unrevoked, NewDevicesApart
  <2>2. ASSUME NEW p \in Requests PROVE RequestHolds(p)'
    BY <1>5 DEF vars, IInv, RequestHolds, Refreshing, Withdrawing, Rebinding, Unbinding, TakesDevice, Wants, Has,
                Unrevoked, Bound, Active
  <2> QED BY <1>5, <2>1, <2>2 DEF vars, IInv, TypeOK, DevicesFollow, Active
<1> QED BY <1>1, <1>2, <1>3, <1>4, <1>5, EnrolPreserves DEF Next

(* The inductive invariant holds in every reachable state.                 *)
THEOREM Invariance == Spec => []IInv
<1> QED BY InitIInv, NextIInv, PTL DEF Spec

(* Every table and every request has its type, and no row is held twice.   *)
THEOREM TypeCorrect == Spec => []TypeOK
<1>1. IInv => TypeOK
  BY DEF IInv
<1> QED BY <1>1, Invariance, PTL

(* Whatever transactions overlapped: a session is active exactly when its  *)
(* family is, and then one of its tokens is current; a revoked session has *)
(* no token that would be answered, or taken for a reuse.                  *)
THEOREM TokensStayWithSessions == Spec => []TokensFollow
<1>1. IInv => TokensFollow
  <2> SUFFICES ASSUME IInv, NEW s \in Sessions, session[s].status = "active" PROVE Cardinality(CurrentOf(s)) = 1
    BY DEF IInv, SessionHolds, TokensFollow
  <2>1. PICK t \in Tokens : CurrentOf(s) = {t}
    BY DEF IInv, SessionHolds
  <2> QED BY <2>1, FS_Singleton
<1> QED BY <1>1, Invariance, PTL

(* No active session is bound to a device that is not active.              *)
THEOREM DevicesStay == Spec => []DevicesFollow
<1>1. IInv => DevicesFollow
  BY DEF IInv
<1> QED BY <1>1, Invariance, PTL


----------------------------------------------------------------------------
(* The tables implement families of tokens *)

Good == [s \in Sessions |-> IF CurrentOf(s) = {} THEN NoToken ELSE CHOOSE t \in CurrentOf(s) : TRUE]
Spent == {t \in Tokens : token[t].status \in {"consumed", "revoked"}}

Current(s, t) == token[t].session = s /\ token[t].status = "current"

(* The token a session accepts is the one that is current.                 *)
LEMMA GoodIsCurrent ==
  ASSUME IInv
  PROVE  /\ Good = [s \in Sessions |-> Good[s]]
         /\ \A s \in Sessions : \/ Good[s] = NoToken /\ CurrentOf(s) = {}
                                \/ Good[s] \in Tokens /\ CurrentOf(s) = {Good[s]}
         /\ \A s \in Sessions, t \in Tokens :
              Good[s] = t <=> token[t].session = s /\ token[t].status = "current"
         /\ \A s \in Sessions : session[s].status # "active" => Good[s] = NoToken
<1>1. Good = [s \in Sessions |-> Good[s]]
  BY DEF Good
<1>2. ASSUME NEW s \in Sessions PROVE session[s].status # "active" => CurrentOf(s) = {}
  BY DEF IInv, TypeOK, Session, TokenHolds, SessionHolds, CurrentOf, Unrevoked
<1>3. ASSUME NEW s \in Sessions
      PROVE  \/ Good[s] = NoToken /\ CurrentOf(s) = {}
             \/ Good[s] \in Tokens /\ CurrentOf(s) = {Good[s]}
  <2>1. CASE CurrentOf(s) = {}
    BY <2>1 DEF Good
  <2>2. CASE CurrentOf(s) # {}
    <3>1. PICK t \in Tokens : CurrentOf(s) = {t}
      BY <1>2, <2>2 DEF IInv, SessionHolds
    <3>2. Good[s] = CHOOSE u \in CurrentOf(s) : TRUE
      BY <2>2 DEF Good
    <3> QED BY <3>1, <3>2
  <2> QED BY <2>1, <2>2
<1>4. ASSUME NEW s \in Sessions, NEW t \in Tokens
      PROVE  Good[s] = t <=> token[t].session = s /\ token[t].status = "current"
  <2>1. t \in CurrentOf(s) <=> token[t].session = s /\ token[t].status = "current"
    BY DEF CurrentOf
  <2> QED BY <1>3, <2>1, SessionsAssumption
<1>5. ASSUME NEW s \in Sessions, session[s].status # "active" PROVE Good[s] = NoToken
  BY <1>2, <1>3, <1>5
<1> QED BY <1>1, <1>3, <1>4, <1>5

GoodTokens == \A s \in Sessions : /\ Good[s] \in Tokens \cup {NoToken}
                                  /\ \A t \in Tokens : Good[s] = t <=> Current(s, t)

(* And after a step.                                                       *)
LEMMA GoodIsCurrentNext == IInv' => GoodTokens'
<1>1. IInv => GoodTokens
  BY GoodIsCurrent DEF Current, GoodTokens
<1> QED BY <1>1, PTL

(* The sessions that a revocation ends, of those it was asked to.          *)
Ending(p) == {s \in req[p].targets : Good[s] # NoToken}
After(p) == [s \in Sessions |-> IF s \in Ending(p) THEN NoToken ELSE Good[s]]

(* A revocation gives up exactly the tokens its sessions accepted.         *)
LEMMA EndsFamilies ==
  ASSUME IInv, IInv', NEW p \in Requests, Holds(p, "tokens"), NEW new \in SUBSET Tokens,
         \A t \in Tokens \ new : token'[t] = Withdrawn(p)[t],
         \A t \in new : token[t].status = "none" /\ token'[t].status = "current"
  PROVE  /\ Ending(p) \in SUBSET Sessions /\ \A s \in Ending(p) : Good[s] # NoToken
         /\ Spent' = Spent \cup {Good[s] : s \in Ending(p)}
         /\ \A s \in Sessions : (\A t \in new : token'[t].session # s) => Good'[s] = After(p)[s]
<1>1. req[p].targets \in SUBSET Sessions
  BY EndedSessions
<1>2. Ending(p) \in SUBSET Sessions /\ \A s \in Ending(p) : Good[s] # NoToken /\ Good[s] \in Tokens
  BY <1>1, GoodIsCurrent DEF Ending
<1>3. ASSUME NEW t \in Tokens \ new
      PROVE  /\ token'[t].session = token[t].session
             /\ IF token[t].session \in req[p].targets
                THEN token'[t].status = "revoked" /\ token[t].status # "none"
                ELSE token'[t].status = token[t].status
  BY WithdrawnTokens
<1>4. ASSUME NEW t \in Tokens
      PROVE  t \in {Good[s] : s \in Ending(p)} <=> token[t].session \in req[p].targets /\ token[t].status = "current"
  <2>1. ASSUME NEW s \in Ending(p), t = Good[s]
        PROVE  token[t].session \in req[p].targets /\ token[t].status = "current"
    BY <1>1, <2>1, GoodIsCurrent DEF Ending
  <2>2. ASSUME token[t].session \in req[p].targets, token[t].status = "current"
        PROVE  \E s \in Ending(p) : t = Good[s]
    <3>1. Good[token[t].session] = t
      BY <1>1, <2>2, GoodIsCurrent
    <3> QED BY <2>2, <3>1, SessionsAssumption DEF Ending
  <2> QED BY <2>1, <2>2
<1>5. Spent' = Spent \cup {Good[s] : s \in Ending(p)}
  <2>1. ASSUME NEW t \in Tokens
        PROVE  t \in Spent' <=> t \in Spent \/ t \in {Good[s] : s \in Ending(p)}
    <3>1. token[t].status \in {"none", "current", "consumed", "revoked"}
      BY DEF IInv, TypeOK, Token
    <3>2. t \in Spent' <=> token'[t].status \in {"consumed", "revoked"}
      BY DEF Spent
    <3>3. t \in Spent <=> token[t].status \in {"consumed", "revoked"}
      BY DEF Spent
    <3>4. CASE t \in new
      BY <1>4, <3>2, <3>3, <3>4
    <3>5. CASE t \notin new
      BY <1>3, <1>4, <3>1, <3>2, <3>3, <3>5
    <3> QED BY <3>4, <3>5
  <2>2. Spent \subseteq Tokens /\ Spent' \subseteq Tokens /\ {Good[s] : s \in Ending(p)} \subseteq Tokens
    BY <1>2 DEF Spent
  <2> QED BY <2>1, <2>2
<1>6. ASSUME NEW s \in Sessions, \A t \in new : token'[t].session # s
      PROVE  Good'[s] = After(p)[s]
  <2>1. After(p)[s] = IF s \in Ending(p) THEN NoToken ELSE Good[s]
    BY DEF After
  <2>2. After(p)[s] \in Tokens \cup {NoToken}
    BY <2>1, GoodIsCurrent
  <2>3. ASSUME NEW t \in Tokens
        PROVE  t = After(p)[s] <=> token'[t].session = s /\ token'[t].status = "current"
    <3>1. Good[s] = t <=> token[t].session = s /\ token[t].status = "current"
      BY GoodIsCurrent
    <3>2. CASE t \in new
      <4>1. Good[s] # t
        BY <3>1, <3>2
      <4> QED BY <1>6, <2>1, <3>2, <4>1, SessionsAssumption
    <3>3. CASE t \notin new
      <4>1. /\ token'[t].session = token[t].session
            /\ IF token[t].session \in req[p].targets
               THEN token'[t].status = "revoked" /\ token[t].status # "none"
               ELSE token'[t].status = token[t].status
        BY <1>3, <3>3
      <4>2. s \in Ending(p) => s \in req[p].targets
        BY DEF Ending
      <4>3. s \in req[p].targets /\ s \notin Ending(p) => Good[s] = NoToken
        BY DEF Ending
      <4> QED BY <2>1, <3>1, <4>1, <4>2, <4>3, SessionsAssumption
    <3> QED BY <3>2, <3>3
  <2> DEFINE g == After(p)[s]
  <2>4. \A t \in Tokens : t = Good'[s] <=> token'[t].session = s /\ token'[t].status = "current"
    <3>1. \A t \in Tokens : Good'[s] = t <=> token'[t].session = s /\ token'[t].status = "current"
      BY GoodIsCurrentNext DEF Current, GoodTokens
    <3> QED BY <3>1
  <2>5. Good'[s] \in Tokens \cup {NoToken}
    BY GoodIsCurrentNext DEF GoodTokens
  <2> QED BY <2>2, <2>3, <2>4, <2>5, SessionsAssumption
<1> QED BY <1>2, <1>5, <1>6


(* A token that was never given out is fresh.                              *)
LEMMA NoneIsFresh ==
  ASSUME IInv, NEW t \in Tokens, token[t].status = "none"
  PROVE  t \notin Spent /\ \A s \in Sessions : Good[s] # t
BY GoodIsCurrent DEF Spent

(* A rotation hands the session its next token, and gives up the last.     *)
LEMMA RotationRotates ==
  ASSUME IInv, IInv', NEW p \in Requests, NEW t \in Tokens, Rotate(p, t)
  PROVE  UNCHANGED token \/ \E s \in Sessions : Families!Rotate(s, t)
<1> PICK s \in Sessions \cup {NoSession}, old \in Tokens \cup {NoToken} : s = req[p].session /\ old = req[p].token
  BY DEF IInv, TypeOK, Request
<1>1. CASE ~Expected(p)
  BY <1>1 DEF Rotate
<1>2. CASE Expected(p)
  <2>1. /\ Holds(p, "rotate") /\ token[t].status = "none"
        /\ token' = [token EXCEPT ![old].status = "consumed", ![t] = [status |-> "current", session |-> s]]
    BY <1>2 DEF Rotate
  <2>2. /\ old \in Tokens /\ s \in Sessions /\ token[old].session = s /\ token[old].status = "current" /\ old # t
    BY <2>1 DEF IInv, Holds, RequestHolds, Refreshing
  <2>3. /\ token'[t].status = "current" /\ token'[t].session = s
        /\ token'[old].status = "consumed" /\ token'[old].session = s
        /\ \A u \in Tokens \ {t, old} : token'[u] = token[u]
    BY <2>1, <2>2 DEF IInv, TypeOK, Token
  <2>4. Good[s] = old /\ s \in Sessions
    BY <2>2, GoodIsCurrent
  <2>5. \A r \in Sessions : Good'[r] = IF r = s THEN t ELSE Good[r]
    <3>1. ASSUME NEW r \in Sessions, r # s PROVE Good'[r] = Good[r]
      <4>1. /\ Good[r] \in Tokens \cup {NoToken} /\ \A u \in Tokens : Good[r] = u <=> Current(r, u)
        BY GoodIsCurrent DEF Current
      <4>2. /\ Good'[r] \in Tokens \cup {NoToken} /\ \A u \in Tokens : Good'[r] = u <=> Current(r, u)'
        BY GoodIsCurrentNext DEF GoodTokens
      <4>3. \A u \in Tokens : Current(r, u)' <=> Current(r, u)
        BY <2>1, <2>2, <2>3, <3>1 DEF Current
      <4> QED BY <4>1, <4>2, <4>3, SessionsAssumption
    <3>2. Good'[s] = t
      <4>1. Current(s, t)'
        BY <2>3 DEF Current
      <4> QED BY <2>4, <4>1, GoodIsCurrentNext DEF GoodTokens
    <3> QED BY <3>1, <3>2
  <2>6. Good' = [Good EXCEPT ![s] = t]
    <3>1. Good' = [r \in Sessions |-> Good'[r]] /\ Good = [r \in Sessions |-> Good[r]]
      BY DEF Good
    <3> QED BY <2>4, <2>5, <3>1
  <2>7. Spent' = Spent \cup {Good[s]}
    <3>1. \A u \in Tokens : u \in Spent' <=> u \in Spent \/ u = old
      BY <2>1, <2>2, <2>3 DEF Spent
    <3>2. Spent \subseteq Tokens /\ Spent' \subseteq Tokens
      BY DEF Spent
    <3> QED BY <2>2, <2>4, <3>1, <3>2
  <2>8. Good[s] # NoToken /\ t \notin Spent /\ \A r \in Sessions : Good[r] # t
    BY <2>1, <2>2, <2>4, NoneIsFresh, SessionsAssumption
  <2>9. Families!Rotate(s, t)
    BY <2>6, <2>7, <2>8 DEF Families!Rotate, Families!Fresh, Good, Spent
  <2> QED BY <2>4, <2>9
<1> QED BY <1>1, <1>2


(* A revocation ends sessions; the one that opens has a fresh token.       *)
LEMMA RevocationEnds ==
  ASSUME IInv, IInv', NEW p \in Requests, CommitRevoke(p) \/ CommitReplace(p)
  PROVE  \E ended \in SUBSET Sessions : Families!End(ended)
<1>1. Holds(p, "tokens") /\ token' = Withdrawn(p)
  BY DEF CommitRevoke, CommitReplace
<1> PICK ended : ended = Ending(p)
  OBVIOUS
<1>2. /\ ended \in SUBSET Sessions /\ \A s \in ended : Good[s] # NoToken
      /\ Spent' = Spent \cup {Good[s] : s \in ended}
      /\ \A s \in Sessions : Good'[s] = IF s \in ended THEN NoToken ELSE Good[s]
  <2> DEFINE new == {}
  <2>1. new \in SUBSET Tokens /\ \A t : t \notin new
    OBVIOUS
  <2> HIDE DEF new
  <2> QED BY <1>1, <2>1, EndsFamilies DEF After
<1>3. Good' = [s \in Sessions |-> IF s \in ended THEN NoToken ELSE Good[s]]
  BY <1>2 DEF Good
<1>4. Families!End(ended)
  BY <1>2, <1>3 DEF Families!End, Families!Ends, Families!Without, Good, Spent
<1> QED BY <1>2, <1>4

(* A log-in opens one session with one token, and ends those over the limit. *)
LEMMA CreationOpens ==
  ASSUME IInv, IInv', NEW p \in Requests, NEW s \in Sessions, NEW t \in Tokens, CommitCreate(p, s, t)
  PROVE  \E ended \in SUBSET Sessions : Families!Open(ended, s, t)
<1>1. /\ Holds(p, "tokens") /\ session[s].status = "none" /\ token[t].status = "none"
      /\ token' = [Withdrawn(p) EXCEPT ![t] = [status |-> "current", session |-> s]]
  BY DEF CommitCreate
<1>2. /\ token'[t].status = "current" /\ token'[t].session = s
      /\ \A u \in Tokens \ {t} : token'[u] = Withdrawn(p)[u]
  <2>1. Withdrawn(p) \in [Tokens -> Token]
    BY <1>1, WithdrawnTokens
  <2> QED BY <1>1, <2>1
<1>3. Good[s] = NoToken /\ s \notin Ending(p) /\ t \notin Spent /\ \A r \in Sessions : Good[r] # t
  BY <1>1, GoodIsCurrent, NoneIsFresh DEF Ending
<1> PICK ended : ended = Ending(p)
  OBVIOUS
<1>4. /\ ended \in SUBSET Sessions /\ \A r \in ended : Good[r] # NoToken
      /\ Spent' = Spent \cup {Good[r] : r \in ended}
      /\ \A r \in Sessions : r # s => Good'[r] = IF r \in ended THEN NoToken ELSE Good[r]
  <2> DEFINE new == {t}
  <2>1. new \in SUBSET Tokens /\ \A u : u \in new <=> u = t
    OBVIOUS
  <2> HIDE DEF new
  <2> QED BY <1>1, <1>2, <2>1, EndsFamilies DEF After
<1>5. Good'[s] = t
  <2>1. Current(s, t)'
    BY <1>2 DEF Current
  <2> QED BY <2>1, GoodIsCurrentNext DEF GoodTokens
<1>6. Good' = [[r \in Sessions |-> IF r \in ended THEN NoToken ELSE Good[r]] EXCEPT ![s] = t]
  <2>1. Good' = [r \in Sessions |-> Good'[r]]
    BY DEF Good
  <2> QED BY <1>4, <1>5, <2>1
<1>7. Families!Open(ended, s, t)
  BY <1>3, <1>4, <1>6 DEF Families!Open, Families!Ends, Families!Without, Families!Fresh, Good, Spent
<1> QED BY <1>4, <1>7

(* A session hands on one token at a time, and a token that was given up   *)
(* is never good again: every commit is a step of the families' or none,   *)
(* whatever other transactions hold and have read.                         *)
THEOREM TokensAreFamilies == Spec => ImplementsTokenFamilies
<1>1. Init => Families!Init
  <2> SUFFICES ASSUME Init PROVE Families!Init
    OBVIOUS
  <2>1. \A s \in Sessions : CurrentOf(s) = {}
    BY SessionsAssumption DEF Init, CurrentOf
  <2>2. Good = [s \in Sessions |-> NoToken]
    BY <2>1 DEF Good
  <2>3. Spent = {}
    BY DEF Init, Spent
  <2> QED BY <2>2, <2>3 DEF Families!Init, Good, Spent
<1>2. IInv /\ IInv' /\ [Next]_vars => [Families!Next]_(Families!vars)
  <2> SUFFICES ASSUME IInv, IInv', [Next]_vars PROVE [Families!Next]_(Families!vars)
    OBVIOUS
  <2>1. CASE UNCHANGED token
    <3>1. Good' = Good /\ Spent' = Spent
      BY <2>1 DEF Good, Spent, CurrentOf
    <3> QED BY <3>1 DEF Families!vars, Good, Spent
  <2>2. CASE \E p \in Requests, t \in Tokens : Rotate(p, t)
    BY <2>1, <2>2, RotationRotates DEF Families!Next
  <2>3. CASE \E p \in Requests : CommitRevoke(p) \/ CommitReplace(p)
    BY <2>3, RevocationEnds DEF Families!Next
  <2>4. CASE \E p \in Requests, s \in Sessions, t \in Tokens : CommitCreate(p, s, t)
    BY <2>4, CreationOpens DEF Families!Next
  <2>5. \/ UNCHANGED token
        \/ \E p \in Requests, t \in Tokens : Rotate(p, t)
        \/ \E p \in Requests : CommitRevoke(p) \/ CommitReplace(p)
        \/ \E p \in Requests, s \in Sessions, t \in Tokens : CommitCreate(p, s, t)
    <3>1. ASSUME NEW p \in Requests, Step(p)
          PROVE  \/ UNCHANGED token
                 \/ \E t \in Tokens : Rotate(p, t)
                 \/ CommitRevoke(p) \/ CommitReplace(p)
                 \/ \E s \in Sessions, t \in Tokens : CommitCreate(p, s, t)
      BY <3>1 DEF Step, Acquire, ProveDevice, ReadToken, Confirm, Answer, LockSessions, LockFamilies, Compromise,
                  LockTokens, LockDevice, CommitBind, Tables
    <3>2. ASSUME NEW p \in Requests,
                 \/ Abort(p) \/ Refuse(p)
                 \/ \E t \in Tokens : PreviewRefresh(p, t)
                 \/ \E s \in Sessions : Revoke(p, s)
                 \/ \E S \in SUBSET Sessions : RevokeUser(p, S) \/ Create(p, S)
                 \/ \E d \in Devices : RevokeDevice(p, d)
                 \/ \E s \in Sessions, d \in Devices : BindDevice(p, s, d)
                 \/ \E s \in Sessions, d, n \in Devices : ReplaceKey(p, s, d, n)
          PROVE  UNCHANGED token
      BY <3>2 DEF Abort, Refuse, PreviewRefresh, Revoke, RevokeUser, Create, RevokeDevice, BindDevice, ReplaceKey,
                  Begins, Tables
    <3> QED BY <3>1, <3>2 DEF Next, Enrol, vars
  <2> QED BY <2>1, <2>2, <2>3, <2>4, <2>5
<1> QED BY <1>1, <1>2, Invariance, PTL DEF Spec, ImplementsTokenFamilies, Families!Spec
====
