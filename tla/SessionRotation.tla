---- MODULE SessionRotation ----
(***************************************************************************)
(* Sessions, refresh tokens and the devices sessions are bound to          *)
(* (httpapi/auth_core_postgres_111.go, auth_accounts.go,                   *)
(* session_management_postgres_118.go, repository/devices.go).             *)
(*                                                                         *)
(* Every operation is a transaction that locks rows one after the other,   *)
(* and they do not lock in one order: a rotation takes its token and then  *)
(* the session, a revocation the session and then its tokens, a device's   *)
(* revocation the device and then sessions, a binding the session and then *)
(* the device.  A transaction reads what is committed, keeps what it wrote *)
(* to itself until it commits, and may be rolled back at any time: by      *)
(* PostgreSQL, which ends deadlocks so, or by its five seconds' deadline.  *)
(* What only its owner writes under a lock it holds to the end is written  *)
(* here at the commit.  The sessions are those of one user.                *)
(***************************************************************************)
EXTENDS Naturals, FiniteSets

CONSTANTS
  Sessions, Tokens, Devices,
  Requests,             \* requests that replicas of the API serve
  NoSession, NoToken, NoDevice,
  MaxSessions,          \* maxSessionsPerUser
  MaxEpoch              \* bound of the model on the bindings of a session

ASSUME SessionsAssumption ==
  /\ NoSession \notin Sessions /\ NoToken \notin Tokens /\ NoDevice \notin Devices
  /\ MaxSessions \in Nat \ {0} /\ MaxEpoch \in Nat \ {0}

VARIABLES
  session,  \* auth_sessions
  family,   \* refresh_token_families: one for each session
  token,    \* refresh_tokens
  device,   \* trusted_devices
  req       \* the requests and the rows their transactions hold

vars == <<session, family, token, device, req>>

Rows == ({"session", "family"} \X Sessions) \cup ({"token"} \X Tokens) \cup ({"device"} \X Devices)
Of(kind, S) == {kind} \X S

Session == [status : {"none", "active", "revoked"}, device : Devices \cup {NoDevice}, epoch : 0 .. MaxEpoch]
Token == [status : {"none", "current", "consumed", "revoked"}, session : Sessions \cup {NoSession}]
Ops == {"refresh", "reuse", "revoke", "revokeUser", "create", "bind", "revokeDevice", "replace"}
Places == {"idle", "previewed", "rotating", "rotate", "rotated", "confirmed", "reuse", "bind",
           "bindDevice", "device", "sessions", "families", "tokens"}
Request == [op : Ops, at : Places, held : SUBSET Rows, want : SUBSET Rows,
            session : Sessions \cup {NoSession}, token : Tokens \cup {NoToken},
            device : Devices \cup {NoDevice}, new : Devices \cup {NoDevice},
            seen : [device : Devices \cup {NoDevice}, epoch : 0 .. MaxEpoch],
            targets : SUBSET Sessions]

Unbound == [device |-> NoDevice, epoch |-> 0]
Idle == [op |-> "refresh", at |-> "idle", held |-> {}, want |-> {}, session |-> NoSession,
         token |-> NoToken, device |-> NoDevice, new |-> NoDevice, seen |-> Unbound, targets |-> {}]

Init == /\ session = [s \in Sessions |-> [status |-> "none", device |-> NoDevice, epoch |-> 0]]
        /\ family = [s \in Sessions |-> "none"]
        /\ token = [t \in Tokens |-> [status |-> "none", session |-> NoSession]]
        /\ device = [d \in Devices |-> "none"]
        /\ req = [p \in Requests |-> Idle]

----------------------------------------------------------------------------
(* Transactions *)

Tables == <<session, family, token, device>>
Active == {s \in Sessions : session[s].status = "active"}
Binding(s) == [device |-> session[s].device, epoch |-> session[s].epoch]
Unrevoked(S) == {t \in Tokens : token[t].session \in S /\ token[t].status # "revoked"}

(* The transaction waits for every row of a statement before the next. *)
Holds(p, place) == req[p].at = place /\ req[p].want \subseteq req[p].held

Acquire(p) ==
  /\ \E row \in req[p].want \ req[p].held :
       /\ \A q \in Requests : row \notin req[q].held
       /\ req' = [req EXCEPT ![p].held = @ \cup {row}]
  /\ UNCHANGED Tables

Goes(p, place, rows) == req' = [req EXCEPT ![p].at = place, ![p].want = @ \cup rows]
Ends(p) == req' = [req EXCEPT ![p] = Idle]

(* A transaction is rolled back, or the replica dies, or the client is     *)
(* gone before it had the answer.                                          *)
Abort(p) == req[p].at # "idle" /\ Ends(p) /\ UNCHANGED Tables
Deadline(p) == req[p].at \notin {"previewed", "rotated", "confirmed"} /\ Abort(p)

Begins(p, r) == req[p].at = "idle" /\ req' = [req EXCEPT ![p] = r] /\ UNCHANGED Tables

----------------------------------------------------------------------------
(* authRefresh *)

(* Reads only.  A consumed token goes to rotate, without a binding to keep. *)
PreviewRefresh(p, t) ==
  LET s == token[t].session IN
  \/ /\ token[t].status = "current" /\ session[s].status = "active"
     /\ Begins(p, [Idle EXCEPT !.at = "previewed", !.token = t, !.session = s, !.seen = Binding(s)])
  \/ /\ token[t].status = "consumed"
     /\ Begins(p, [Idle EXCEPT !.at = "rotating", !.token = t, !.session = s,
                               !.want = Of("token", {t})])

(* The proof of the device, whose row is read apart. *)
ProveDevice(p) ==
  /\ req[p].at = "previewed"
  /\ IF req[p].seen.device = NoDevice \/ device[req[p].seen.device] = "active"
     THEN Goes(p, "rotating", Of("token", {req[p].token})) ELSE Ends(p)
  /\ UNCHANGED Tables

(* Mutant: the token is rotated without its session. *)
ReadTokenAlone(p) ==
  /\ Holds(p, "rotating")
  /\ CASE token[req[p].token].status = "consumed" -> Goes(p, "reuse", Of("family", {req[p].session}))
       [] token[req[p].token].status = "current" -> Goes(p, "rotate", {})
       [] OTHER -> Ends(p)
  /\ UNCHANGED Tables

(* Mutant: the status that the preview read is trusted. *)
ReadTokenNot(p) ==
  /\ Holds(p, "rotating")
  /\ Goes(p, "rotate", Of("session", {req[p].session}))
  /\ UNCHANGED Tables

ReadToken(p) ==
  /\ Holds(p, "rotating")
  /\ CASE token[req[p].token].status = "consumed" -> Goes(p, "reuse", Of("family", {req[p].session}))
       [] token[req[p].token].status = "current" -> Goes(p, "rotate", Of("session", {req[p].session}))
       [] OTHER -> Ends(p)
  /\ UNCHANGED Tables

Expected(p) == session[req[p].session].status = "active" /\ Binding(req[p].session) = req[p].seen

(* (An inactive session would be swept here; TokensFollow says that a      *)
(* session whose token is current is active.)                              *)
Rotate(p, t) ==
  /\ Holds(p, "rotate")
  /\ IF Expected(p)
     THEN /\ token[t].status = "none"
          /\ token' = [token EXCEPT ![req[p].token].status = "consumed",
                                    ![t] = [status |-> "current", session |-> req[p].session]]
          /\ req' = [req EXCEPT ![p].at = "rotated", ![p].token = t, ![p].held = {}, ![p].want = {}]
     ELSE Ends(p) /\ UNCHANGED token
  /\ UNCHANGED <<session, family, device>>

Revoking(s) == [Idle EXCEPT !.op = "revoke", !.at = "sessions", !.targets = {s},
                            !.want = Of("session", {s})]

(* Risk, protection or the user's status refuse what was rotated, or what  *)
(* was only previewed.                                                     *)
Refuse(p) ==
  /\ req[p].at \in {"previewed", "rotated", "confirmed"}
  /\ req' = [req EXCEPT ![p] = Revoking(req[p].session)]
  /\ UNCHANGED Tables

(* The last reading of the binding, and of the device. *)
Confirm(p) ==
  /\ req[p].at = "rotated"
  /\ IF Expected(p) THEN Goes(p, "confirmed", {}) ELSE Ends(p)
  /\ UNCHANGED Tables

Answer(p) ==
  /\ req[p].at = "confirmed"
  /\ IF req[p].seen.device = NoDevice \/ device[req[p].seen.device] = "active"
     THEN Ends(p) ELSE req' = [req EXCEPT ![p] = Revoking(req[p].session)]
  /\ UNCHANGED Tables

----------------------------------------------------------------------------
(* Revocations *)

(* revoke: one session, whatever its status. *)
Revoke(p, s) ==
  /\ session[s].status # "none"
  /\ Begins(p, Revoking(s))

(* revokeUser, revokeOthers118, revokeFiltered118: the active ones. *)
RevokeUser(p, S) ==
  /\ S # {} /\ S \subseteq Active
  /\ Begins(p, [Idle EXCEPT !.op = "revokeUser", !.at = "sessions", !.targets = S,
                            !.want = Of("session", S)])

(* createWithAuth: beyond the limit, the sessions seen longest ago give    *)
(* way, those of them that other transactions have committed.              *)
Excess(n) == IF n > MaxSessions THEN n - MaxSessions ELSE 0

Create(p, stale) ==
  /\ stale \subseteq Active /\ Cardinality(stale) = Excess(Cardinality(Active) + 1)
  /\ Begins(p, [Idle EXCEPT !.op = "create", !.at = "sessions", !.targets = stale,
                            !.want = Of("session", stale)])

RevokeDevice(p, d) ==
  /\ device[d] = "active"
  /\ Begins(p, [Idle EXCEPT !.op = "revokeDevice", !.at = "device", !.device = d,
                            !.want = Of("device", {d})])

Bound(d) == {s \in Active : session[s].device = d}

(* The device is held: its sessions next (the key's replacement keeps its own). *)
LockSessions(p) ==
  /\ Holds(p, "device")
  /\ LET S == Bound(req[p].device) \ {req[p].session} IN
     IF device[req[p].device] = "active"
     THEN req' = [req EXCEPT ![p].at = "sessions", ![p].targets = S,
                             ![p].want = @ \cup Of("session", S)]
     ELSE Ends(p)
  /\ UNCHANGED Tables

(* Read again under the lock, what is no longer active is left out. *)
LockFamilies(p) ==
  /\ Holds(p, "sessions")
  /\ LET S == IF req[p].op \in {"revoke", "create"} THEN req[p].targets ELSE req[p].targets \cap Active
     IN req' = [req EXCEPT ![p].at = "families", ![p].targets = S, ![p].want = @ \cup Of("family", S)]
  /\ UNCHANGED Tables

(* compromiseFamilyTx111 takes the family first. *)
Compromise(p) ==
  /\ Holds(p, "reuse")
  /\ req' = [req EXCEPT ![p].op = "reuse", ![p].at = "families", ![p].targets = {req[p].session},
                        ![p].want = @ \cup Of("session", {req[p].session})]
  /\ UNCHANGED Tables

(* The tokens an UPDATE sees are those committed when it starts. *)
LockTokens(p) ==
  /\ Holds(p, "families")
  /\ Goes(p, "tokens", Of("token", Unrevoked(req[p].targets)))
  /\ UNCHANGED Tables

Ended(p) == [s \in Sessions |-> IF s \in req[p].targets THEN [session[s] EXCEPT !.status = "revoked"]
                                                        ELSE session[s]]
Closed(p, how) == [s \in Sessions |-> IF s \in req[p].targets THEN how ELSE family[s]]
Withdrawn(p) == [t \in Tokens |-> IF <<"token", t>> \in req[p].held
                                  THEN [token[t] EXCEPT !.status = "revoked"] ELSE token[t]]

CommitRevoke(p) ==
  /\ Holds(p, "tokens") /\ req[p].op \in {"revoke", "revokeUser", "reuse", "revokeDevice"}
  /\ session' = Ended(p) /\ token' = Withdrawn(p)
  /\ family' = Closed(p, IF req[p].op = "reuse" THEN "compromised" ELSE "revoked")
  /\ device' = IF req[p].op = "revokeDevice" THEN [device EXCEPT ![req[p].device] = "revoked"] ELSE device
  /\ Ends(p)

CommitCreate(p, s, t) ==
  /\ Holds(p, "tokens") /\ req[p].op = "create"
  /\ session[s].status = "none" /\ token[t].status = "none"
  /\ session' = [Ended(p) EXCEPT ![s] = [status |-> "active", device |-> NoDevice, epoch |-> 1]]
  /\ token' = [Withdrawn(p) EXCEPT ![t] = [status |-> "current", session |-> s]]
  /\ family' = [Closed(p, "revoked") EXCEPT ![s] = "active"]
  /\ Ends(p)
  /\ UNCHANGED device

----------------------------------------------------------------------------
(* Devices *)

(* A device is enrolled by a transaction of its own, and then bound. *)
Enrol(d) ==
  /\ device[d] = "none" /\ \A p \in Requests : req[p].new # d
  /\ device' = [device EXCEPT ![d] = "active"]
  /\ UNCHANGED <<session, family, token, req>>

BindDevice(p, s, d) ==
  /\ session[s].status = "active" /\ device[d] # "none"
  /\ Begins(p, [Idle EXCEPT !.op = "bind", !.at = "bind", !.session = s, !.device = d,
                            !.want = Of("session", {s})])

(* ReplaceTrustedDeviceKey: an active device, the session's own or (to       *)
(* recover) that of other sessions, gives way to a new one.                *)
ReplaceKey(p, s, d, n) ==
  /\ session[s].status = "active" /\ session[s].device \in {d, NoDevice} /\ device[d] # "none"
  /\ device[n] = "none" /\ \A q \in Requests : req[q].new # n
  /\ Begins(p, [Idle EXCEPT !.op = "replace", !.at = "bind", !.session = s, !.device = d, !.new = n,
                            !.want = Of("session", {s})])

Rebindable(p) ==
  LET s == session[req[p].session] IN
  /\ s.status = "active"
  /\ s.device = NoDevice \/ (req[p].op = "replace" /\ s.device = req[p].device)

LockDevice(p) ==
  /\ Holds(p, "bind") /\ session[req[p].session].epoch < MaxEpoch
  /\ IF Rebindable(p)
     THEN Goes(p, IF req[p].op = "replace" THEN "device" ELSE "bindDevice", Of("device", {req[p].device}))
     ELSE Ends(p)
  /\ UNCHANGED Tables

(* The session as it is bound to d, one epoch on. *)
BoundTo(s, d) == [session[s] EXCEPT !.device = d, !.epoch = @ + 1]

(* Mutant: the device that was found active before the lock is bound. *)
CommitBindAny(p) ==
  /\ Holds(p, "bindDevice")
  /\ session' = [session EXCEPT ![req[p].session] = BoundTo(req[p].session, req[p].device)]
  /\ Ends(p)
  /\ UNCHANGED <<family, token, device>>

CommitBind(p) ==
  /\ Holds(p, "bindDevice")
  /\ session' = IF device[req[p].device] = "active"
                THEN [session EXCEPT ![req[p].session] = BoundTo(req[p].session, req[p].device)]
                ELSE session
  /\ Ends(p)
  /\ UNCHANGED <<family, token, device>>

CommitReplace(p) ==
  /\ Holds(p, "tokens") /\ req[p].op = "replace"
  /\ session' = [Ended(p) EXCEPT ![req[p].session] = BoundTo(req[p].session, req[p].new)]
  /\ token' = Withdrawn(p) /\ family' = Closed(p, "revoked")
  /\ device' = [device EXCEPT ![req[p].device] = "revoked", ![req[p].new] = "active"]
  /\ Ends(p)

----------------------------------------------------------------------------
Step(p) ==
  \/ Acquire(p) \/ ProveDevice(p) \/ ReadToken(p) \/ Confirm(p) \/ Answer(p)
  \/ \E t \in Tokens : Rotate(p, t)
  \/ LockSessions(p) \/ LockFamilies(p) \/ Compromise(p) \/ LockTokens(p) \/ LockDevice(p)
  \/ CommitRevoke(p) \/ CommitBind(p) \/ CommitReplace(p)
  \/ \E s \in Sessions, t \in Tokens : CommitCreate(p, s, t)

Next ==
  \/ \E p \in Requests :
       \/ Step(p) \/ Abort(p) \/ Refuse(p)
       \/ \E t \in Tokens : PreviewRefresh(p, t)
       \/ \E s \in Sessions : Revoke(p, s)
       \/ \E S \in SUBSET Sessions : RevokeUser(p, S) \/ Create(p, S)
       \/ \E d \in Devices : RevokeDevice(p, d)
       \/ \E s \in Sessions, d \in Devices : BindDevice(p, s, d)
       \/ \E s \in Sessions, d, n \in Devices : ReplaceKey(p, s, d, n)
  \/ \E d \in Devices : Enrol(d)

(* A request goes on; a transaction that does not is ended by its deadline. *)
Fairness == \A p \in Requests : WF_vars(Step(p)) /\ WF_vars(Deadline(p))

Spec == Init /\ [][Next]_vars
FairSpec == Spec /\ Fairness

----------------------------------------------------------------------------
(* Properties *)

TypeOK == /\ session \in [Sessions -> Session]
          /\ family \in [Sessions -> {"none", "active", "revoked", "compromised"}]
          /\ token \in [Tokens -> Token]
          /\ device \in [Devices -> {"none", "active", "revoked"}]
          /\ req \in [Requests -> Request]
          /\ \A p, q \in Requests : p # q => req[p].held \cap req[q].held = {}

(* Whatever transactions overlapped: a session is active exactly when its  *)
(* family is, and then one of its tokens is current; once it is revoked    *)
(* none of its tokens is left that would be answered, or taken for a reuse.*)
CurrentOf(s) == {t \in Tokens : token[t].session = s /\ token[t].status = "current"}

TokensFollow == \A s \in Sessions :
  /\ family[s] = "active" <=> session[s].status = "active"
  /\ session[s].status = "active" => Cardinality(CurrentOf(s)) = 1
  /\ session[s].status = "revoked" => Unrevoked({s}) = {}

(* No active session is bound to a device that is not active: a binding    *)
(* that began before a revocation of the device does not outlive it.       *)
DevicesFollow == \A s \in Active :
  session[s].device # NoDevice => device[session[s].device] = "active"

(* A session hands on one token at a time, and a token that was given up   *)
(* is never good again.                                                    *)
Families == INSTANCE TokenFamilies WITH
  good <- [s \in Sessions |-> IF CurrentOf(s) = {} THEN NoToken ELSE CHOOSE t \in CurrentOf(s) : TRUE],
  spent <- {t \in Tokens : token[t].status \in {"consumed", "revoked"}}
ImplementsTokenFamilies == Families!Spec

(* Whoever waits for whom: every request comes to an end. *)
EveryRequestEnds == \A p \in Requests : req[p].at # "idle" ~> req[p].at = "idle"

(* The policy a client is told: a user has at most maxSessionsPerUser      *)
(* active sessions.                                                        *)
SessionLimit == Cardinality(Active) <= MaxSessions
====
