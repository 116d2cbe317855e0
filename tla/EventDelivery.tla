---- MODULE EventDelivery ----
(***************************************************************************)
(* How an event reaches the extensions that subscribed to it.              *)
(*                                                                         *)
(* A publication leaves rows in event_outbox (repository/durable.go); a    *)
(* drainer of some replica claims them and appends each to                 *)
(* extension_event_log, once however often it is tried; other events are   *)
(* appended by the request that caused them.  The transaction that appends *)
(* an event inserts a delivery for each subscription                       *)
(* (repository/extension_events.go).  The worker of some replica's bus     *)
(* (eventbus/bus.go) leases one delivery, calls the extension, and settles *)
(* the delivery.  Drainers and workers may stop anywhere, leases run out,  *)
(* extensions are paused.                                                  *)
(*                                                                         *)
(* Of times only their order matters: a lease is live or has run out, a    *)
(* delay has passed or not.  A lease is named by its attempt.  The bus is  *)
(* configured: without one the drainers acknowledge what nobody receives.  *)
(***************************************************************************)
EXTENDS Naturals, FiniteSets

CONSTANTS
  Events,          \* what happens, each with its own type and idempotency key
  OutboxEvents,    \* those that are announced through the outbox
  Keys, KeyOf,     \* the ordering key of an event
  Subs,            \* asynchronous subscriptions to all of them; an id is used once
  Drainers,        \* goroutines that run drainOutbox0213
  Workers,         \* goroutines that run the bus's processBatch
  Request, NoOne, NoEvent, NoSub,
  OutboxAttempts,  \* max_attempts of an outbox row (12 in the code)
  MaxAttempts,     \* attempts before a failing delivery is given up (8)
  ClaimLimit,      \* outbox rows one claim may take (32)
  MaxFaults        \* bound of the model on crashes and on calls settled too late

ASSUME DeliveryAssumption ==
  /\ OutboxEvents \subseteq Events /\ IsFiniteSet(Events)
  /\ KeyOf \in [Events -> Keys]
  /\ NoEvent \notin Events /\ NoSub \notin Subs
  /\ Request \notin Drainers /\ NoOne \notin Drainers \cup {Request}
  /\ OutboxAttempts \in Nat \ {0} /\ MaxAttempts \in Nat \ {0}
  /\ ClaimLimit \in Nat \ {0} /\ MaxFaults \in Nat

VARIABLES
  outbox,    \* event_outbox
  drainer,   \* what a drainer has claimed and what it is doing
  append,    \* the transaction that is appending an event, seen by nobody else
  forgotten, \* events whose request could not append them and gave up
  sequence,  \* extension_event_log: the sequence of an event, 0 before it is there
  last,      \* the BIGSERIAL's last value, which aborted transactions use up too
  delivery,  \* extension_event_deliveries (and _dead_letters: status "dead")
  worker,    \* the bus worker's place in processBatch
  sub,       \* extension_event_subscriptions, "paused" while the extension's
             \* installation is not enabled
  faults,    \* the crashes and the calls settled too late so far
  overtaken  \* history: events that were committed after one of their key
             \* with a larger sequence

outboxVars == <<outbox, drainer>>
logVars == <<append, forgotten, sequence, last, overtaken>>
busVars == <<delivery, worker>>
vars == <<outboxVars, logVars, busVars, sub, faults>>

OutboxRow == [status: {"absent", "pending", "waiting", "running", "delivered", "dead"},
              attempt: 0 .. OutboxAttempts, live: BOOLEAN]
Claim == [batch: SUBSET OutboxEvents, at: {"idle", "next", "appending", "appended", "failed"},
          event: OutboxEvents \cup {NoEvent}, token: [OutboxEvents -> 0 .. OutboxAttempts]]
Append == [by: Drainers \cup {Request, NoOne}, sequence: Nat, to: SUBSET Subs]
Delivery == [status: {"none", "pending", "waiting", "processing", "delivered", "dead"},
             attempt: Nat, live: BOOLEAN]
Call == [at: {"idle", "calling", "accepted", "refused", "rejected"},
         event: Events \cup {NoEvent}, sub: Subs \cup {NoSub}, token: Nat]

NoClaim == [batch |-> {}, at |-> "idle", event |-> NoEvent, token |-> [e \in OutboxEvents |-> 0]]
NoAppend == [by |-> NoOne, sequence |-> 0, to |-> {}]
NoDelivery == [status |-> "none", attempt |-> 0, live |-> FALSE]
NoCall == [at |-> "idle", event |-> NoEvent, sub |-> NoSub, token |-> 0]

Init == /\ outbox = [e \in OutboxEvents |-> [status |-> "absent", attempt |-> 0, live |-> FALSE]]
        /\ drainer = [d \in Drainers |-> NoClaim]
        /\ append = [e \in Events |-> NoAppend]
        /\ forgotten = {} /\ sequence = [e \in Events |-> 0] /\ last = 0
        /\ delivery = [e \in Events |-> [s \in Subs |-> NoDelivery]]
        /\ worker = [w \in Workers |-> NoCall]
        /\ sub = [s \in Subs |-> "absent"] /\ faults = 0 /\ overtaken = {}

----------------------------------------------------------------------------
(* The outbox *)

(* The end of CommitDurablePublish. *)
Announce(e) ==
  /\ outbox[e].status = "absent"
  /\ outbox' = [outbox EXCEPT ![e].status = "pending"]
  /\ UNCHANGED <<drainer, logVars, busVars, sub, faults>>

Unfinished(e) == outbox[e].status = "running" /\ ~outbox[e].live

(* Mutant: a row whose last drainer died is left as it is. *)
RetiredNone == {}

Retired == {e \in OutboxEvents : Unfinished(e) /\ outbox[e].attempt >= OutboxAttempts}

Claimable == {e \in OutboxEvents : /\ outbox[e].status = "pending" \/ Unfinished(e)
                                   /\ outbox[e].attempt < OutboxAttempts}

ClaimOutboxEvents(d, batch) ==
  /\ drainer[d].at = "idle"
  /\ batch \subseteq Claimable
  /\ Cardinality(batch) <= ClaimLimit
  /\ batch = Claimable \/ Cardinality(batch) = ClaimLimit
  /\ Retired \cup batch # {}
  /\ outbox' = [e \in OutboxEvents |->
       IF e \in Retired THEN [outbox[e] EXCEPT !.status = "dead"]
       ELSE IF e \in batch THEN [status |-> "running", attempt |-> outbox[e].attempt + 1, live |-> TRUE]
       ELSE outbox[e]]
  /\ drainer' = [drainer EXCEPT ![d] =
       IF batch = {} THEN NoClaim
       ELSE [NoClaim EXCEPT !.batch = batch, !.at = "next",
               !.token = [e \in OutboxEvents |-> IF e \in batch THEN outbox[e].attempt + 1 ELSE 0]]]
  /\ UNCHANGED <<logVars, busVars, sub, faults>>

(* The 60 seconds, which a claim's events share, are over. *)
OutboxLapses(e) ==
  /\ outbox[e].status = "running" /\ outbox[e].live
  /\ outbox' = [outbox EXCEPT ![e].live = FALSE]
  /\ UNCHANGED <<drainer, logVars, busVars, sub, faults>>

(* The delay of FailOutboxEvent has passed. *)
OutboxDue(e) ==
  /\ outbox[e].status = "waiting"
  /\ outbox' = [outbox EXCEPT ![e].status = "pending"]
  /\ UNCHANGED <<drainer, logVars, busVars, sub, faults>>

(* Mutant: the token is compared, the expiry of the lease is not. *)
OwnsLapsed(d, e) == outbox[e].status = "running" /\ outbox[e].attempt = drainer[d].token[e]

Owns(d, e) ==
  /\ outbox[e].status = "running" /\ outbox[e].live
  /\ outbox[e].attempt = drainer[d].token[e]

(* The drainer goes on with the rest of its batch. *)
Remaining(d) == LET rest == drainer[d].batch \ {drainer[d].event} IN
  IF rest = {} THEN NoClaim
  ELSE [drainer[d] EXCEPT !.batch = rest, !.at = "next", !.event = NoEvent]

(* A claim that was lost ends the whole batch. *)
CompleteOutboxEvent(d) ==
  LET e == drainer[d].event IN
  /\ drainer[d].at = "appended"
  /\ IF Owns(d, e) THEN /\ outbox' = [outbox EXCEPT ![e].status = "delivered"]
                        /\ drainer' = [drainer EXCEPT ![d] = Remaining(d)]
                   ELSE /\ drainer' = [drainer EXCEPT ![d] = NoClaim]
                        /\ UNCHANGED outbox
  /\ UNCHANGED <<logVars, busVars, sub, faults>>

FailOutboxEvent(d) ==
  LET e == drainer[d].event
      over == outbox[e].attempt >= OutboxAttempts
  IN
  /\ drainer[d].at = "failed"
  /\ outbox' = IF Owns(d, e) THEN [outbox EXCEPT ![e].status = IF over THEN "dead" ELSE "waiting"]
               ELSE outbox
  /\ drainer' = [drainer EXCEPT ![d] = Remaining(d)]
  /\ UNCHANGED <<logVars, busVars, sub, faults>>

----------------------------------------------------------------------------
(* PublishExtensionEvent: one serializable transaction.  The unique index  *)
(* on (event_type, idempotency_key) makes whoever appends the same event   *)
(* wait for the transaction that is doing so.  The sequence is taken by    *)
(* the INSERT, not by the commit.                                          *)

Logged(e) == sequence[e] # 0
Subscribed == {s \in Subs : sub[s] \in {"active", "paused"}}

BeginAppend(e, by) ==
  /\ ~Logged(e) /\ append[e].by = NoOne
  /\ append' = [append EXCEPT ![e] = [by |-> by, sequence |-> last + 1, to |-> Subscribed]]
  /\ last' = last + 1

EndAppend(e) ==
  /\ append' = [append EXCEPT ![e] = NoAppend]
  /\ sequence' = [sequence EXCEPT ![e] = append[e].sequence]
  /\ delivery' = [delivery EXCEPT ![e] = [s \in Subs |->
       IF s \in append[e].to THEN [NoDelivery EXCEPT !.status = "pending"] ELSE NoDelivery]]
  /\ overtaken' = IF \E f \in Events : /\ KeyOf[f] = KeyOf[e]
                                       /\ sequence[f] > append[e].sequence
                  THEN overtaken \cup {e} ELSE overtaken

AbortAppend(e) == append' = [append EXCEPT ![e] = NoAppend]

(* deliverOutboxEvent0213: the event is appended, found in the log, or the *)
(* transaction (or what precedes it) fails.                                *)
DrainerAppends(d, e) ==
  /\ drainer[d].at = "next" /\ e \in drainer[d].batch
  /\ BeginAppend(e, d)
  /\ drainer' = [drainer EXCEPT ![d].at = "appending", ![d].event = e]
  /\ UNCHANGED <<outbox, forgotten, sequence, overtaken, busVars, sub, faults>>

DrainerFinds(d, e) ==
  /\ drainer[d].at = "next" /\ e \in drainer[d].batch /\ Logged(e)
  /\ drainer' = [drainer EXCEPT ![d].at = "appended", ![d].event = e]
  /\ UNCHANGED <<outbox, logVars, busVars, sub, faults>>

DrainerFails(d, e) ==
  /\ drainer[d].at = "next" /\ e \in drainer[d].batch
  /\ drainer' = [drainer EXCEPT ![d].at = "failed", ![d].event = e]
  /\ UNCHANGED <<outbox, logVars, busVars, sub, faults>>

DrainerCommits(d) ==
  /\ drainer[d].at = "appending"
  /\ EndAppend(drainer[d].event)
  /\ drainer' = [drainer EXCEPT ![d].at = "appended"]
  /\ UNCHANGED <<outbox, forgotten, last, worker, sub, faults>>

(* Mutant: the error of the bus is dropped. *)
DrainerIgnores(d) ==
  /\ drainer[d].at = "appending"
  /\ AbortAppend(drainer[d].event)
  /\ drainer' = [drainer EXCEPT ![d].at = "appended"]
  /\ UNCHANGED <<outbox, forgotten, sequence, last, overtaken, busVars, sub, faults>>

DrainerAborts(d) ==
  /\ drainer[d].at = "appending"
  /\ AbortAppend(drainer[d].event)
  /\ drainer' = [drainer EXCEPT ![d].at = "failed"]
  /\ UNCHANGED <<outbox, forgotten, sequence, last, overtaken, busVars, sub, faults>>

(* The process dies, or its context is cancelled: an open transaction is   *)
(* rolled back.                                                            *)
DrainerCrashes(d) ==
  /\ drainer[d].at # "idle" /\ faults < MaxFaults
  /\ IF drainer[d].at = "appending" THEN AbortAppend(drainer[d].event) ELSE UNCHANGED append
  /\ drainer' = [drainer EXCEPT ![d] = NoClaim]
  /\ faults' = faults + 1
  /\ UNCHANGED <<outbox, forgotten, sequence, last, overtaken, busVars, sub>>

(* logEventError0206: a request announces its event itself, and forgets    *)
(* about it when that fails.                                               *)
RequestAppends(e) ==
  /\ e \notin OutboxEvents \cup forgotten /\ BeginAppend(e, Request)
  /\ UNCHANGED <<forgotten, sequence, overtaken, outboxVars, busVars, sub, faults>>

RequestCommits(e) ==
  /\ append[e].by = Request
  /\ EndAppend(e)
  /\ UNCHANGED <<forgotten, last, outboxVars, worker, sub, faults>>

RequestAborts(e) ==
  /\ append[e].by = Request
  /\ AbortAppend(e) /\ forgotten' = forgotten \cup {e}
  /\ UNCHANGED <<sequence, last, overtaken, outboxVars, busVars, sub, faults>>

----------------------------------------------------------------------------
(* Subscriptions *)

Subscribe(s) ==
  /\ sub[s] = "absent"
  /\ sub' = [sub EXCEPT ![s] = "active"]
  /\ UNCHANGED <<outboxVars, logVars, busVars, faults>>

(* The subscription's deliveries are deleted with it; a transaction that   *)
(* has inserted one holds the row.                                         *)
Unsubscribe(s) ==
  /\ s \in Subscribed /\ \A e \in Events : s \notin append[e].to
  /\ sub' = [sub EXCEPT ![s] = "gone"]
  /\ delivery' = [e \in Events |-> [delivery[e] EXCEPT ![s] = NoDelivery]]
  /\ UNCHANGED <<outboxVars, logVars, worker, faults>>

PauseOrResume(s) ==
  /\ s \in Subscribed
  /\ sub' = [sub EXCEPT ![s] = IF @ = "active" THEN "paused" ELSE "active"]
  /\ UNCHANGED <<outboxVars, logVars, busVars, faults>>

----------------------------------------------------------------------------
(* The bus *)

Over(e, s) == delivery[e][s].status \in {"none", "delivered", "dead"}

(* The event comes before f in the log, under the same key. *)
Before(e, f) == Logged(e) /\ Logged(f) /\ KeyOf[e] = KeyOf[f] /\ sequence[e] < sequence[f]

(* Mutant: only deliveries that are running are waited for. *)
NobodyBusyBefore(e, s) == \A f \in Events : Before(f, e) => delivery[f][s].status # "processing"

(* NOT EXISTS an earlier delivery of the key that is not over. *)
InTurn(e, s) == \A f \in Events : Before(f, e) => Over(f, s)

(* Mutant: a delivery whose worker died is left as it is. *)
ReadyAnew(e, s) == sub[s] = "active" /\ delivery[e][s].status = "pending" /\ InTurn(e, s)

Ready(e, s) ==
  /\ sub[s] = "active"
  /\ \/ delivery[e][s].status = "pending"
     \/ delivery[e][s].status = "processing" /\ ~delivery[e][s].live
  /\ InTurn(e, s)

(* The ready deliveries are looked through by sequence, but a row that      *)
(* another transaction has locked is passed over: any ready one may be it. *)
LeaseDelivery(w, e, s) ==
  LET n == delivery[e][s].attempt + 1 IN
  /\ worker[w].at = "idle"
  /\ Ready(e, s)
  /\ delivery' = [delivery EXCEPT ![e][s] = [status |-> "processing", attempt |-> n, live |-> TRUE]]
  /\ worker' = [worker EXCEPT ![w] = [at |-> "calling", event |-> e, sub |-> s, token |-> n]]
  /\ UNCHANGED <<outboxVars, logVars, sub, faults>>

Leases(w, e, s) == worker[w].event = e /\ worker[w].sub = s /\ worker[w].token = delivery[e][s].attempt

(* Mutant: a call may take longer than its lease. *)
AnyCall(e, s) == {}

CallsOn(e, s) == {w \in Workers : worker[w].at = "calling" /\ Leases(w, e, s)}

(* A call has nine tenths of the lease's time, then it is cancelled: a     *)
(* lease runs out when its worker is gone, or is late to settle.  (The     *)
(* clocks of the replicas are taken to agree within the last tenth.)       *)
DeliveryLapses(e, s) ==
  /\ delivery[e][s].status = "processing" /\ delivery[e][s].live
  /\ CallsOn(e, s) = {}
  /\ IF \E w \in Workers : Leases(w, e, s)
     THEN faults < MaxFaults /\ faults' = faults + 1
     ELSE UNCHANGED faults
  /\ delivery' = [delivery EXCEPT ![e][s].live = FALSE]
  /\ UNCHANGED <<outboxVars, logVars, worker, sub>>

(* The delay of RetryExtensionEventDelivery has passed. *)
DeliveryDue(e, s) ==
  /\ delivery[e][s].status = "waiting"
  /\ delivery' = [delivery EXCEPT ![e][s].status = "pending"]
  /\ UNCHANGED <<outboxVars, logVars, worker, sub, faults>>

(* DeliverExtensionEvent ends: accepted, an error, or an error that says   *)
(* it is no use trying again; the extension may have taken the event all   *)
(* the same.                                                               *)
CallEnds(w, answer) ==
  /\ worker[w].at = "calling"
  /\ worker' = [worker EXCEPT ![w].at = answer]
  /\ UNCHANGED <<outboxVars, logVars, delivery, sub, faults>>

(* Mutant: the delivery is found by its id alone. *)
HoldsAnyway(w) == TRUE

(* Each settling asks for the token, none for the expiry. *)
Holds(w) == /\ delivery[worker[w].event][worker[w].sub].status = "processing"
            /\ Leases(w, worker[w].event, worker[w].sub)

Settle(w, answer, status) ==
  /\ worker[w].at = answer
  /\ delivery' = IF Holds(w)
                 THEN [delivery EXCEPT ![worker[w].event][worker[w].sub] =
                         [@ EXCEPT !.status = status, !.live = FALSE]]
                 ELSE delivery
  /\ worker' = [worker EXCEPT ![w] = NoCall]
  /\ UNCHANGED <<outboxVars, logVars, sub, faults>>

CompleteDelivery(w) == Settle(w, "accepted", "delivered")

RetryDelivery(w) == worker[w].token < MaxAttempts /\ Settle(w, "refused", "waiting")

DeadLetter(w) ==
  \/ worker[w].token >= MaxAttempts /\ Settle(w, "refused", "dead")
  \/ Settle(w, "rejected", "dead")

WorkerCrashes(w) ==
  /\ worker[w].at # "idle" /\ faults < MaxFaults
  /\ worker' = [worker EXCEPT ![w] = NoCall]
  /\ faults' = faults + 1
  /\ UNCHANGED <<outboxVars, logVars, delivery, sub>>

----------------------------------------------------------------------------
Drain(d) ==
  \/ \E batch \in SUBSET OutboxEvents : ClaimOutboxEvents(d, batch)
  \/ \E e \in OutboxEvents : DrainerAppends(d, e)
  \/ \E e \in OutboxEvents : DrainerFinds(d, e)
  \/ \E e \in OutboxEvents : DrainerFails(d, e)
  \/ DrainerCommits(d) \/ DrainerAborts(d)
  \/ CompleteOutboxEvent(d) \/ FailOutboxEvent(d)

Calls(w) ==
  \/ \E answer \in {"accepted", "refused", "rejected"} : CallEnds(w, answer)
  \/ CompleteDelivery(w) \/ RetryDelivery(w) \/ DeadLetter(w)

Poll(w) == \E e \in Events, s \in Subs : LeaseDelivery(w, e, s)

Time ==
  \/ \E e \in OutboxEvents : OutboxLapses(e)
  \/ \E e \in OutboxEvents : OutboxDue(e)
  \/ \E e \in Events, s \in Subs : DeliveryLapses(e, s)
  \/ \E e \in Events, s \in Subs : DeliveryDue(e, s)

Callers ==
  \/ \E e \in OutboxEvents : Announce(e)
  \/ \E e \in Events : RequestAppends(e)
  \/ \E e \in Events : RequestCommits(e)
  \/ \E e \in Events : RequestAborts(e)
  \/ \E s \in Subs : Subscribe(s)
  \/ \E s \in Subs : Unsubscribe(s)
  \/ \E s \in Subs : PauseOrResume(s)

Crashes ==
  \/ \E d \in Drainers : DrainerCrashes(d)
  \/ \E w \in Workers : WorkerCrashes(w)

Next == \/ \E d \in Drainers : Drain(d)
        \/ \E w \in Workers : Poll(w) \/ Calls(w)
        \/ Time \/ Callers \/ Crashes

Spec == Init /\ [][Next]_vars

(* Every replica polls, a call is cancelled after its time, a transaction  *)
(* ends, leases and delays run out: as long as drainers, workers, requests *)
(* or the clock have something to do, one of their kind does it.  Nothing  *)
(* is assumed of operators, nor that anything succeeds.                    *)
Fairness ==
  /\ WF_vars(\E d \in Drainers : Drain(d))
  /\ WF_vars(\E w \in Workers : Poll(w) \/ Calls(w))
  /\ WF_vars(\E e \in Events : RequestCommits(e) \/ RequestAborts(e))
  /\ WF_vars(Time)

LiveSpec == Spec /\ Fairness

----------------------------------------------------------------------------
(* Properties *)

TypeOK == /\ outbox \in [OutboxEvents -> OutboxRow]
          /\ drainer \in [Drainers -> Claim]
          /\ append \in [Events -> Append] /\ forgotten \subseteq Events \ OutboxEvents
          /\ sequence \in [Events -> Nat] /\ last \in Nat
          /\ delivery \in [Events -> [Subs -> Delivery]]
          /\ worker \in [Workers -> Call]
          /\ sub \in [Subs -> {"absent", "active", "paused", "gone"}]
          /\ faults \in 0 .. MaxFaults
          /\ overtaken \subseteq Events

(* What the outbox takes for delivered is in the log, however many         *)
(* drainers tried it, crashed while appending it, or came back too late.   *)
DeliveredIsLogged == \A e \in OutboxEvents : outbox[e].status = "delivered" => Logged(e)

(* A subscriber is not handed an event while an earlier one of the same    *)
(* key is unfinished, whatever is retried, lapses, pauses or is given up   *)
(* in between; except for one that was committed after a later one.        *)
Started(e, s) == delivery[e][s].attempt > 0
KeptInOrder ==
  \A s \in Subs : \A e, f \in Events :
    Before(e, f) /\ e \notin overtaken /\ Started(f, s) => Over(e, s)

(* java-events-hooks.md calls the bus the source of truth for the order of *)
(* events.                                                                 *)
AlwaysInOrder ==
  \A s \in Subs : \A e, f \in Events : Before(e, f) /\ Started(f, s) => Over(e, s)

(* Two workers never call an extension at once about one event, even if    *)
(* they are of different replicas (the comment at processBatch): a lease   *)
(* is taken for one delivery and outlives its call.  Nor about two events  *)
(* of one key.                                                             *)
OneCallAtATime ==
  \A v, w \in Workers :
    /\ v # w /\ worker[v].at = "calling" /\ worker[w].at = "calling"
    /\ worker[v].sub = worker[w].sub
    => /\ worker[v].event # worker[w].event
       /\ \/ KeyOf[worker[v].event] # KeyOf[worker[w].event]
          \/ {worker[v].event, worker[w].event} \cap overtaken # {}

(* A late worker takes nothing back: a delivery that is over stays as it   *)
(* is while its subscription lives, whoever comes back with an old token.  *)
OverStaysOver ==
  [][\A e \in Events, s \in Subs :
       delivery[e][s].status \in {"delivered", "dead"} /\ sub'[s] # "gone"
         => delivery'[e][s] = delivery[e][s]]_vars

(* partition-safety.md: a drainer whose claim ran out before its ACK marks *)
(* nothing; the row is claimed anew, or given up after its last attempt.   *)
LapsedClaimSettlesNothing ==
  [][\A e \in OutboxEvents : Unfinished(e) /\ outbox'[e] # outbox[e] =>
       \/ outbox'[e].status = "running" /\ outbox'[e].attempt = outbox[e].attempt + 1
       \/ outbox'[e].status = "dead" /\ outbox[e].attempt = OutboxAttempts]_vars

(* Every row of the outbox ends delivered or dead, every delivery to an    *)
(* extension that stays enabled ends delivered or dead (or deleted).       *)
EveryOutboxEventEnds ==
  \A e \in OutboxEvents : outbox[e].status = "pending" ~> outbox[e].status \in {"delivered", "dead"}
EveryDeliveryEnds ==
  \A e \in Events, s \in Subs : <>[](sub[s] = "active") => []<>Over(e, s)
====
