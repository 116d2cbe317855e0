---- MODULE EventDelivery_proofs ----
(***************************************************************************)
(* Proofs about EventDelivery, for any events, subscriptions, drainers,    *)
(* workers and numbers of attempts.                                        *)
(*                                                                         *)
(* That no event is handed over before an earlier one of its key is over   *)
(* follows from the order in which deliveries are leased and sequences     *)
(* committed.  That an extension is called by one worker at a time needs   *)
(* more: whoever calls has the delivery's live lease (WorkersHold), no two *)
(* have the same token, and no two events the same sequence (LogHolds).    *)
(* Of a subscription that was deleted while it was called nothing of this  *)
(* is left, but nobody is sent to it any more.                             *)
(***************************************************************************)
EXTENDS EventDelivery, TLAPS

----------------------------------------------------------------------------
(* The inductive invariant *)

(* A drainer that appends has the event's transaction, and what it has     *)
(* appended is in the log.                                                 *)
DrainersHold == \A d \in Drainers :
  /\ drainer[d].at \in {"appending", "appended", "failed"} => drainer[d].event \in OutboxEvents
  /\ drainer[d].at = "appending" => append[drainer[d].event].by = d
  /\ drainer[d].at = "appended" => Logged(drainer[d].event)

(* The sequence an event has, or will have if its transaction commits.     *)
Given(e) == IF append[e].by = NoOne THEN sequence[e] ELSE append[e].sequence

LogHolds ==
  /\ \A e \in Events : /\ append[e].by # NoOne => ~Logged(e) /\ append[e].sequence > 0
                       /\ append[e].by = Request => e \notin OutboxEvents
                       /\ Given(e) <= last /\ append[e].to \subseteq Subscribed
  /\ \A e, f \in Events : e # f /\ Given(e) > 0 => Given(e) # Given(f)

(* There are deliveries of events in the log, to subscriptions.            *)
DeliveriesHold == \A e \in Events, s \in Subs :
  ~Logged(e) \/ s \notin Subscribed => delivery[e][s] = NoDelivery

(* Who calls has the live lease of the delivery, unless its subscription   *)
(* was deleted meanwhile; and nobody else has its token.                   *)
WorkerHolds(w) ==
  worker[w].at # "idle" =>
    /\ worker[w].event \in Events /\ worker[w].sub \in Subs /\ worker[w].token > 0
    /\ sub[worker[w].sub] # "absent"
    /\ worker[w].sub \in Subscribed =>
         /\ worker[w].token <= delivery[worker[w].event][worker[w].sub].attempt
         /\ worker[w].at = "calling" =>
              /\ Leases(w, worker[w].event, worker[w].sub)
              /\ delivery[worker[w].event][worker[w].sub].status = "processing"
              /\ delivery[worker[w].event][worker[w].sub].live
Apart(v, w) ==
  v # w /\ worker[v].at # "idle" /\ worker[w].at # "idle"
        /\ worker[v].event = worker[w].event /\ worker[v].sub = worker[w].sub
    => worker[v].token # worker[w].token
WorkersHold == \A v, w \in Workers : WorkerHolds(w) /\ Apart(v, w)

IInv == /\ TypeOK /\ DrainersHold /\ LogHolds /\ DeliveriesHold /\ WorkersHold
        /\ DeliveredIsLogged /\ KeptInOrder /\ OneCallAtATime

----------------------------------------------------------------------------
(* The outbox *)

(* What touches neither log nor bus leaves what is known of them.          *)
LEMMA BusKept ==
  ASSUME IInv, UNCHANGED <<append, sequence, last, overtaken, delivery, worker, sub>>
  PROVE  LogHolds' /\ DeliveriesHold' /\ WorkersHold' /\ KeptInOrder' /\ OneCallAtATime'
<1>1. UNCHANGED <<Subscribed>> /\ \A e \in Events : UNCHANGED <<Logged(e), Given(e)>>
  BY DEF Subscribed, Logged, Given
<1>2. LogHolds' /\ DeliveriesHold'
  BY <1>1 DEF IInv, LogHolds, DeliveriesHold
<1>3. WorkersHold'
  BY <1>1 DEF IInv, WorkersHold, WorkerHolds, Apart, Leases
<1>4. KeptInOrder' /\ OneCallAtATime'
  BY <1>1 DEF IInv, KeptInOrder, Before, Started, Over, OneCallAtATime
<1> QED BY <1>2, <1>3, <1>4

(* One drainer goes to a place, with an event.                             *)
Claims(d, place, e) ==
  /\ drainer' \in [Drainers -> Claim] /\ drainer'[d].at = place /\ drainer'[d].event = e
  /\ \A f \in Drainers \ {d} : drainer'[f] = drainer[f]

(* The fields of a claim, and of no claim.                                 *)
LEMMA ClaimFields ==
  /\ NoClaim \in Claim /\ NoClaim.at = "idle" /\ NoClaim.event = NoEvent
  /\ \A x \in Claim : x.batch \in SUBSET OutboxEvents /\ x.token \in [OutboxEvents -> 0 .. OutboxAttempts]
  /\ NoEvent \notin OutboxEvents /\ OutboxEvents \subseteq Events
<1>1. 0 \in 0 .. OutboxAttempts
  BY DeliveryAssumption
<1> QED BY <1>1, DeliveryAssumption DEF NoClaim, Claim

(* The places and events a drainer goes to.                                *)
LEMMA ClaimMoves ==
  ASSUME TypeOK, NEW d \in Drainers, NEW e \in OutboxEvents,
         NEW place \in {"idle", "next", "appending", "appended", "failed"}
  PROVE  /\ drainer' = [drainer EXCEPT ![d].at = place, ![d].event = e] => Claims(d, place, e)
         /\ drainer' = [drainer EXCEPT ![d].at = place] => Claims(d, place, drainer[d].event)
         /\ drainer' = [drainer EXCEPT ![d] = NoClaim] => Claims(d, "idle", NoEvent)
         /\ drainer' = [drainer EXCEPT ![d] = Remaining(d)]
              => Claims(d, "idle", NoEvent) \/ Claims(d, "next", NoEvent)
<1>1. drainer \in [Drainers -> Claim]
  BY DEF TypeOK
<1>2. drainer' = [drainer EXCEPT ![d].at = place, ![d].event = e] => Claims(d, place, e)
  <2> DEFINE y == [drainer[d] EXCEPT !.at = place, !.event = e]
  <2>1. y \in Claim /\ y.at = place /\ y.event = e
    BY <1>1 DEF Claim
  <2>2. [drainer EXCEPT ![d].at = place, ![d].event = e] = [drainer EXCEPT ![d] = y]
    BY <1>1
  <2> HIDE DEF y
  <2> QED BY <1>1, <2>1, <2>2 DEF Claims
<1>3. drainer' = [drainer EXCEPT ![d].at = place] => Claims(d, place, drainer[d].event)
  BY <1>1 DEF Claims, Claim
<1>4. drainer' = [drainer EXCEPT ![d] = NoClaim] => Claims(d, "idle", NoEvent)
  BY <1>1, ClaimFields DEF Claims
<1>5. drainer' = [drainer EXCEPT ![d] = Remaining(d)]
        => Claims(d, "idle", NoEvent) \/ Claims(d, "next", NoEvent)
  <2> DEFINE rest == drainer[d].batch \ {drainer[d].event}
             left == [drainer[d] EXCEPT !.batch = rest, !.at = "next", !.event = NoEvent]
  <2>1. rest \in SUBSET OutboxEvents /\ drainer[d] \in Claim
    BY <1>1, ClaimFields
  <2>2. left \in Claim /\ left.at = "next" /\ left.event = NoEvent
    BY <2>1 DEF Claim
  <2>3. Remaining(d) \in {NoClaim, left}
    BY DEF Remaining
  <2> HIDE DEF left
  <2> QED BY <1>1, <1>4, <2>2, <2>3 DEF Claims
<1> QED BY <1>2, <1>3, <1>4, <1>5

(* A drainer that appends nothing, and what it says of the outbox.         *)
LEMMA DrainPreserves ==
  ASSUME IInv, NEW d \in Drainers, NEW place, NEW e, Claims(d, place, e),
         UNCHANGED <<logVars, busVars, sub, faults>>,
         outbox' \in [OutboxEvents -> OutboxRow],
         \A f \in OutboxEvents : outbox'[f].status = "delivered" => outbox[f].status = "delivered" \/ Logged(f),
         place # "appending", place \in {"appended", "failed"} => e \in OutboxEvents,
         place = "appended" => Logged(e)
  PROVE  IInv'
<1>1. UNCHANGED <<append, forgotten, sequence, last, overtaken, delivery, worker, sub, faults>>
  BY DEF logVars, busVars
<1>2. TypeOK'
  BY <1>1 DEF IInv, TypeOK, Claims
<1>3. DrainersHold'
  <2> SUFFICES ASSUME NEW f \in Drainers
               PROVE  /\ drainer'[f].at \in {"appending", "appended", "failed"} => drainer'[f].event \in OutboxEvents
                      /\ drainer'[f].at = "appending" => append[drainer'[f].event].by = f
                      /\ drainer'[f].at = "appended" => sequence[drainer'[f].event] # 0
    BY <1>1 DEF DrainersHold, Logged
  <2> QED BY DEF IInv, DrainersHold, Logged, Claims
<1>4. DeliveredIsLogged'
  BY <1>1 DEF IInv, DeliveredIsLogged, Logged
<1> QED BY <1>1, <1>2, <1>3, <1>4, BusKept DEF IInv

(* What happens to the outbox alone.                                       *)
LEMMA OutboxPreserves ==
  ASSUME IInv, UNCHANGED <<drainer, logVars, busVars, sub, faults>>,
         outbox' \in [OutboxEvents -> OutboxRow],
         \A f \in OutboxEvents : outbox'[f].status = "delivered" => outbox[f].status = "delivered"
  PROVE  IInv'
<1>1. UNCHANGED <<append, forgotten, sequence, last, overtaken, delivery, worker, sub, faults>>
  BY DEF logVars, busVars
<1>2. TypeOK' /\ DrainersHold' /\ DeliveredIsLogged'
  BY <1>1 DEF IInv, TypeOK, DrainersHold, DeliveredIsLogged, Logged
<1> QED BY <1>1, <1>2, BusKept DEF IInv

(* A row of the outbox gets another status, or its lease runs out.         *)
RowIs(e, status) ==
  /\ outbox' \in [OutboxEvents -> OutboxRow] /\ outbox'[e].status = status
  /\ \A f \in OutboxEvents \ {e} : outbox'[f] = outbox[f]

(* A change of one outbox row leaves the others.                           *)
LEMMA RowMoves ==
  ASSUME TypeOK, NEW e \in OutboxEvents, NEW status \in {"pending", "waiting", "delivered", "dead"}
  PROVE  /\ outbox' = [outbox EXCEPT ![e].status = status] => RowIs(e, status)
         /\ outbox' = [outbox EXCEPT ![e].live = FALSE] => RowIs(e, outbox[e].status)
BY DEF TypeOK, OutboxRow, RowIs

(* Time passes for an outbox row: its claim lapses, its delay is over.     *)
LEMMA TimePassesOutbox ==
  ASSUME IInv, NEW e \in OutboxEvents, Announce(e) \/ OutboxLapses(e) \/ OutboxDue(e)
  PROVE  IInv'
<1>1. /\ RowIs(e, "pending") \/ RowIs(e, outbox[e].status)
      /\ UNCHANGED <<drainer, logVars, busVars, sub, faults>>
  BY RowMoves DEF Announce, OutboxDue, OutboxLapses, IInv
<1> QED BY <1>1, OutboxPreserves DEF RowIs

(* A claim takes events nobody has, and gives up those tried too often.    *)
LEMMA ClaimPreserves ==
  ASSUME IInv, NEW d \in Drainers, NEW batch \in SUBSET OutboxEvents, ClaimOutboxEvents(d, batch)
  PROVE  IInv'
<1> DEFINE tokens == [e \in OutboxEvents |-> IF e \in batch THEN outbox[e].attempt + 1 ELSE 0]
           claim == IF batch = {} THEN NoClaim
                    ELSE [NoClaim EXCEPT !.batch = batch, !.at = "next", !.token = tokens]
<1>1. /\ UNCHANGED <<logVars, busVars, sub, faults>> /\ batch \subseteq Claimable
      /\ drainer' = [drainer EXCEPT ![d] = claim]
  BY DEF ClaimOutboxEvents
<1>2. \A e \in OutboxEvents :
        \/ outbox'[e] = outbox[e]
        \/ outbox'[e] = [outbox[e] EXCEPT !.status = "dead"]
        \/ e \in batch /\ outbox'[e] = [status |-> "running", attempt |-> outbox[e].attempt + 1, live |-> TRUE]
  BY DEF ClaimOutboxEvents
<1>3. outbox' = [e \in OutboxEvents |-> outbox'[e]]
  BY DEF ClaimOutboxEvents
<1>4. \A e \in batch : outbox[e].attempt + 1 \in 0 .. OutboxAttempts
  BY <1>1, DeliveryAssumption DEF IInv, TypeOK, OutboxRow, Claimable
<1>5. ASSUME NEW e \in OutboxEvents
      PROVE  outbox'[e] \in OutboxRow /\ (outbox'[e].status = "delivered" => outbox[e].status = "delivered")
  <2>1. outbox[e] \in OutboxRow
    BY DEF IInv, TypeOK
  <2>2. CASE outbox'[e] = outbox[e]
    BY <2>1, <2>2
  <2>3. CASE outbox'[e] = [outbox[e] EXCEPT !.status = "dead"]
    BY <2>1, <2>3 DEF OutboxRow
  <2>4. CASE e \in batch /\ outbox'[e] = [status |-> "running", attempt |-> outbox[e].attempt + 1, live |-> TRUE]
    BY <1>4, <2>4 DEF OutboxRow
  <2> QED BY <1>2, <2>2, <2>3, <2>4
<1>6. outbox' \in [OutboxEvents -> OutboxRow]
  BY <1>3, <1>5
<1>7. tokens \in [OutboxEvents -> 0 .. OutboxAttempts]
  BY <1>4, DeliveryAssumption
<1> HIDE DEF tokens
<1>8. claim \in Claim /\ claim.event = NoEvent /\ claim.at \in {"idle", "next"}
  <2>1. [NoClaim EXCEPT !.batch = batch, !.at = "next", !.token = tokens] \in Claim
    BY <1>7, ClaimFields DEF Claim
  <2> QED BY <2>1, ClaimFields DEF NoClaim
<1> HIDE DEF claim
<1>9. Claims(d, claim.at, NoEvent)
  BY <1>1, <1>8 DEF Claims, IInv, TypeOK
<1> QED BY <1>1, <1>5, <1>6, <1>8, <1>9, DrainPreserves

(* Completing marks what was appended, and only what is still claimed.     *)
LEMMA SettleOutboxPreserves ==
  ASSUME IInv, NEW d \in Drainers, CompleteOutboxEvent(d) \/ FailOutboxEvent(d)
  PROVE  IInv'
<1> DEFINE e == drainer[d].event
<1>1. /\ e \in OutboxEvents /\ UNCHANGED <<logVars, busVars, sub, faults>>
      /\ CompleteOutboxEvent(d) => Logged(e)
  BY DEF CompleteOutboxEvent, FailOutboxEvent, IInv, DrainersHold
<1>2. drainer' \in {[drainer EXCEPT ![d] = Remaining(d)], [drainer EXCEPT ![d] = NoClaim]}
  BY DEF CompleteOutboxEvent, FailOutboxEvent
<1>3. Claims(d, "idle", NoEvent) \/ Claims(d, "next", NoEvent)
  BY <1>1, <1>2, ClaimMoves DEF IInv
<1>4. outbox' = outbox \/ \E status \in {"delivered", "waiting", "dead"} :
        outbox' = [outbox EXCEPT ![e].status = status] /\ (status = "delivered" => Logged(e))
  BY <1>1 DEF CompleteOutboxEvent, FailOutboxEvent
<1>5. outbox' = outbox \/ \E status \in {"delivered", "waiting", "dead"} :
        RowIs(e, status) /\ (status = "delivered" => Logged(e))
  <2> HIDE DEF e
  <2> QED BY <1>1, <1>4, RowMoves DEF IInv
<1>6. /\ outbox' \in [OutboxEvents -> OutboxRow]
      /\ \A f \in OutboxEvents : outbox'[f].status = "delivered" => outbox[f].status = "delivered" \/ Logged(f)
  BY <1>1, <1>5 DEF IInv, TypeOK, RowIs
<1> QED BY <1>1, <1>3, <1>6, DrainPreserves

(* The event is in the log already, or what precedes the append has failed.*)
LEMMA DrainerFindsPreserves ==
  ASSUME IInv, NEW d \in Drainers, NEW e \in OutboxEvents, DrainerFinds(d, e) \/ DrainerFails(d, e)
  PROVE  IInv'
<1>1. /\ UNCHANGED <<outbox, logVars, busVars, sub, faults>> /\ outbox \in [OutboxEvents -> OutboxRow]
      /\ (Claims(d, "appended", e) /\ Logged(e)) \/ Claims(d, "failed", e)
  BY ClaimMoves DEF DrainerFinds, DrainerFails, IInv, TypeOK
<1> QED BY <1>1, DrainPreserves

----------------------------------------------------------------------------
(* Keeping order, and one call at a time *)

(* Nothing starts, and what was over stays so.                             *)
LEMMA OrderKept ==
  ASSUME KeptInOrder, UNCHANGED sequence, overtaken \subseteq overtaken',
         \A e \in Events, s \in Subs : (Over(e, s) => Over(e, s)') /\ (Started(e, s)' => Started(e, s))
  PROVE  KeptInOrder'
BY DEF KeptInOrder, Before, Logged

(* Nobody is called anew.                                                  *)
LEMMA CallsKept ==
  ASSUME OneCallAtATime, overtaken \subseteq overtaken',
         \A w \in Workers : worker'[w].at = "calling" =>
           worker[w].at = "calling" /\ worker'[w].event = worker[w].event /\ worker'[w].sub = worker[w].sub
  PROVE  OneCallAtATime'
<1> SUFFICES ASSUME NEW v \in Workers, NEW w \in Workers, v # w,
                    worker'[v].at = "calling", worker'[w].at = "calling", worker'[v].sub = worker'[w].sub
             PROVE  /\ worker'[v].event # worker'[w].event
                    /\ \/ KeyOf[worker'[v].event] # KeyOf[worker'[w].event]
                       \/ {worker'[v].event, worker'[w].event} \cap overtaken' # {}
  BY DEF OneCallAtATime
<1>1. /\ worker[v].at = "calling" /\ worker[w].at = "calling" /\ worker[v].sub = worker[w].sub
      /\ worker'[v].event = worker[v].event /\ worker'[w].event = worker[w].event
  OBVIOUS
<1>2. /\ worker[v].event # worker[w].event
      /\ \/ KeyOf[worker[v].event] # KeyOf[worker[w].event]
         \/ {worker[v].event, worker[w].event} \cap overtaken # {}
  BY <1>1 DEF OneCallAtATime
<1> QED BY <1>1, <1>2

----------------------------------------------------------------------------
(* The log *)

(* The fields of a transaction that appends, and of none.                  *)
LEMMA AppendFields ==
  /\ NoAppend \in Append /\ NoAppend.by = NoOne /\ NoAppend.sequence = 0 /\ NoAppend.to = {}
  /\ \A x \in Append : x.sequence \in Nat /\ x.to \in SUBSET Subs
  /\ NoDelivery \in Delivery
BY DEF NoAppend, Append, NoDelivery, Delivery

(* A transaction begins with a sequence nobody has.                        *)
LEMMA BeginKeeps ==
  ASSUME IInv, NEW e \in Events, NEW by \in Drainers \cup {Request}, BeginAppend(e, by),
         by = Request => e \notin OutboxEvents,
         UNCHANGED <<forgotten, sequence, overtaken, busVars, sub, faults>>
  PROVE  /\ append' \in [Events -> Append] /\ last' \in Nat /\ append[e].by = NoOne
         /\ append'[e].by = by /\ \A f \in Events \ {e} : append'[f] = append[f]
         /\ LogHolds' /\ DeliveriesHold' /\ WorkersHold' /\ KeptInOrder' /\ OneCallAtATime'
<1> DEFINE x == [by |-> by, sequence |-> last + 1, to |-> Subscribed]
<1>1. /\ ~Logged(e) /\ append[e].by = NoOne /\ last' = last + 1 /\ by # NoOne
      /\ append' = [append EXCEPT ![e] = x] /\ UNCHANGED <<sequence, overtaken, delivery, worker, sub>>
      /\ append \in [Events -> Append] /\ last \in Nat /\ sequence \in [Events -> Nat]
  BY DeliveryAssumption DEF BeginAppend, busVars, IInv, TypeOK
<1>2. x \in Append /\ x.by = by /\ x.sequence = last + 1 /\ x.to = Subscribed
  BY <1>1 DEF Append, Subscribed
<1> HIDE DEF x
<1>3. /\ append' \in [Events -> Append] /\ last' \in Nat /\ append'[e] = x
      /\ \A f \in Events \ {e} : append'[f] = append[f]
  BY <1>1, <1>2
<1>4. Given(e)' = last + 1 /\ (\A f \in Events \ {e} : Given(f)' = Given(f)) /\ \A f \in Events : Given(f) \in Nat
  BY <1>1, <1>2, <1>3, AppendFields DEF Given
<1>5. LogHolds'
  <2>1. ASSUME NEW f \in Events
        PROVE  /\ append'[f].by # NoOne => ~Logged(f)' /\ append'[f].sequence > 0
               /\ append'[f].by = Request => f \notin OutboxEvents
               /\ Given(f)' <= last' /\ append'[f].to \subseteq Subscribed'
    BY <1>1, <1>2, <1>3, <1>4 DEF IInv, LogHolds, Logged, Subscribed
  <2>2. ASSUME NEW f \in Events, NEW g \in Events, f # g, Given(f)' > 0
        PROVE  Given(f)' # Given(g)'
    BY <1>1, <1>4, <2>2 DEF IInv, LogHolds
  <2> QED BY <2>1, <2>2 DEF LogHolds
<1>6. DeliveriesHold' /\ WorkersHold'
  <2>1. DeliveriesHold'
    BY <1>1 DEF IInv, DeliveriesHold, Logged, Subscribed
  <2>2. WorkersHold'
    BY <1>1 DEF IInv, WorkersHold, WorkerHolds, Apart, Leases, Subscribed
  <2> QED BY <2>1, <2>2
<1>7. KeptInOrder' /\ OneCallAtATime'
  BY <1>1, OrderKept, CallsKept DEF IInv, Over, Started
<1> QED BY <1>1, <1>2, <1>3, <1>5, <1>6, <1>7

(* It commits: those who had subscribed when it began get a delivery.      *)
LEMMA EndKeeps ==
  ASSUME IInv, NEW e \in Events, EndAppend(e), append[e].by # NoOne,
         UNCHANGED <<forgotten, last, worker, sub, faults>>
  PROVE  /\ append' \in [Events -> Append] /\ sequence' \in [Events -> Nat]
         /\ delivery' \in [Events -> [Subs -> Delivery]] /\ overtaken' \subseteq Events
         /\ \A f \in Events \ {e} : append'[f] = append[f]
         /\ Logged(e)' /\ \A f \in Events : Logged(f) => Logged(f)'
         /\ LogHolds' /\ DeliveriesHold' /\ WorkersHold' /\ KeptInOrder' /\ OneCallAtATime'
<1> DEFINE n == append[e].sequence
           row == [s \in Subs |-> IF s \in append[e].to THEN [NoDelivery EXCEPT !.status = "pending"]
                                  ELSE NoDelivery]
<1>1. /\ append' = [append EXCEPT ![e] = NoAppend] /\ sequence' = [sequence EXCEPT ![e] = n]
      /\ delivery' = [delivery EXCEPT ![e] = row]
      /\ overtaken' = IF \E f \in Events : KeyOf[f] = KeyOf[e] /\ sequence[f] > n
                      THEN overtaken \cup {e} ELSE overtaken
      /\ append \in [Events -> Append] /\ sequence \in [Events -> Nat]
      /\ delivery \in [Events -> [Subs -> Delivery]] /\ overtaken \subseteq Events
      /\ ~Logged(e) /\ n > 0 /\ n \in Nat /\ append[e].to \subseteq Subscribed
  BY AppendFields DEF EndAppend, IInv, TypeOK, LogHolds
<1>2. /\ row \in [Subs -> Delivery]
      /\ \A s \in Subs : /\ row[s].attempt = 0 /\ row[s].status \in {"none", "pending"}
                         /\ s \notin Subscribed => row[s] = NoDelivery
  <2>1. [NoDelivery EXCEPT !.status = "pending"] \in Delivery
    BY DEF NoDelivery, Delivery
  <2> QED BY <1>1, <2>1, AppendFields DEF NoDelivery
<1> HIDE DEF n, row
<1>3. /\ append' \in [Events -> Append] /\ sequence' \in [Events -> Nat]
      /\ delivery' \in [Events -> [Subs -> Delivery]] /\ overtaken' \subseteq Events
      /\ append'[e] = NoAppend /\ sequence'[e] = n /\ delivery'[e] = row
      /\ \A f \in Events \ {e} : append'[f] = append[f] /\ sequence'[f] = sequence[f] /\ delivery'[f] = delivery[f]
      /\ overtaken \subseteq overtaken' /\ overtaken' \subseteq overtaken \cup {e}
  BY <1>1, <1>2, AppendFields
<1>4. UNCHANGED Subscribed /\ Logged(e)' /\ \A f \in Events : Logged(f) => Logged(f)'
  BY <1>1, <1>3 DEF Subscribed, Logged
<1>5. LogHolds'
  <2>1. \A f \in Events : Given(f)' = Given(f)
    BY <1>1, <1>3, AppendFields DEF Given, n
  <2>2. NoOne # Request /\ \A f \in Events : append'[f].by # NoOne => f # e
    BY <1>3, AppendFields, DeliveryAssumption
  <2> QED BY <1>3, <1>4, <2>1, <2>2, AppendFields DEF IInv, LogHolds, Logged
<1>6. DeliveriesHold'
  BY <1>2, <1>3, <1>4 DEF IInv, DeliveriesHold, Logged
<1>7. WorkersHold'
  <2>1. ASSUME NEW w \in Workers, worker[w].at # "idle", worker[w].sub \in Subscribed
        PROVE  worker[w].event # e
    <3>1. /\ worker[w].event \in Events /\ worker[w].sub \in Subs /\ worker[w].token > 0 /\ worker[w].token \in Nat
          /\ worker[w].token <= delivery[worker[w].event][worker[w].sub].attempt
      BY <2>1 DEF IInv, WorkersHold, WorkerHolds, TypeOK, Call
    <3>2. delivery[e][worker[w].sub].attempt = 0
      BY <1>1, <3>1 DEF IInv, DeliveriesHold, NoDelivery
    <3> QED BY <3>1, <3>2
  <2>2. ASSUME NEW w \in Workers PROVE WorkerHolds(w)'
    BY <1>3, <1>4, <2>1 DEF IInv, WorkersHold, WorkerHolds, Leases
  <2> QED BY <2>2 DEF IInv, WorkersHold, Apart
<1>8. KeptInOrder'
  <2> SUFFICES ASSUME NEW s \in Subs, NEW f \in Events, NEW g \in Events,
                      Before(f, g)', f \notin overtaken', Started(g, s)'
               PROVE  Over(f, s)'
    BY DEF KeptInOrder
  <2>1. g # e
    BY <1>2, <1>3 DEF Started
  <2>2. f # e
    BY <1>1, <1>3, <2>1 DEF Before
  <2>3. Before(f, g) /\ f \notin overtaken /\ Started(g, s)
    BY <1>3, <2>1, <2>2 DEF Before, Logged, Started
  <2> QED BY <1>3, <2>2, <2>3 DEF IInv, KeptInOrder, Over
<1>9. OneCallAtATime'
  BY <1>3, CallsKept DEF IInv
<1> QED BY <1>3, <1>4, <1>5, <1>6, <1>7, <1>8, <1>9

(* It is rolled back: only the sequence is lost.                           *)
LEMMA AbortKeeps ==
  ASSUME IInv, NEW e \in Events, AbortAppend(e), append[e].by # NoOne,
         UNCHANGED <<sequence, last, overtaken, busVars, sub>>
  PROVE  /\ append' \in [Events -> Append] /\ \A f \in Events \ {e} : append'[f] = append[f]
         /\ LogHolds' /\ DeliveriesHold' /\ WorkersHold' /\ KeptInOrder' /\ OneCallAtATime'
<1>1. /\ append' = [append EXCEPT ![e] = NoAppend] /\ UNCHANGED <<sequence, last, overtaken, delivery, worker, sub>>
      /\ append \in [Events -> Append] /\ ~Logged(e) /\ last \in Nat
  BY DEF AbortAppend, busVars, IInv, TypeOK, LogHolds
<1>2. /\ append' \in [Events -> Append] /\ append'[e] = NoAppend
      /\ \A f \in Events \ {e} : append'[f] = append[f]
  BY <1>1, AppendFields
<1>3. LogHolds'
  <2>1. Given(e)' = 0 /\ \A f \in Events \ {e} : Given(f)' = Given(f)
    BY <1>1, <1>2, AppendFields DEF Given, Logged
  <2>2. NoOne # Request
    BY DeliveryAssumption
  <2> QED BY <1>1, <1>2, <2>1, <2>2, AppendFields DEF IInv, LogHolds, Logged, Subscribed
<1>4. DeliveriesHold' /\ WorkersHold'
  <2>1. DeliveriesHold'
    BY <1>1 DEF IInv, DeliveriesHold, Logged, Subscribed
  <2>2. WorkersHold'
    BY <1>1 DEF IInv, WorkersHold, WorkerHolds, Apart, Leases, Subscribed
  <2> QED BY <2>1, <2>2
<1>5. KeptInOrder' /\ OneCallAtATime'
  BY <1>1, OrderKept, CallsKept DEF IInv, Over, Started
<1> QED BY <1>2, <1>3, <1>4, <1>5

(* What is known of the drainers, when one of them has moved.              *)
LEMMA DrainersKept ==
  ASSUME DrainersHold, NEW d \in Drainers, NEW place, NEW e, Claims(d, place, e),
         place \in {"appending", "appended", "failed"} => e \in OutboxEvents,
         place = "appending" => append'[e].by = d,
         place = "appended" => Logged(e)',
         \A f \in Events : Logged(f) => Logged(f)',
         \A f \in Drainers \ {d} : drainer[f].at = "appending" => append'[drainer[f].event].by = f
  PROVE  DrainersHold'
<1> SUFFICES ASSUME NEW f \in Drainers
             PROVE  /\ drainer'[f].at \in {"appending", "appended", "failed"} => drainer'[f].event \in OutboxEvents
                    /\ drainer'[f].at = "appending" => append'[drainer'[f].event].by = f
                    /\ drainer'[f].at = "appended" => sequence'[drainer'[f].event] # 0
  BY DEF DrainersHold, Logged
<1>1. CASE f = d
  BY <1>1 DEF Claims, Logged
<1>2. CASE f # d
  <2>1. drainer'[f] = drainer[f]
    BY <1>2 DEF Claims
  <2>2. drainer[f].at = "appended" => drainer[f].event \in Events /\ Logged(drainer[f].event)
    BY ClaimFields DEF DrainersHold
  <2> QED BY <1>2, <2>1, <2>2 DEF DrainersHold, Logged
<1> QED BY <1>1, <1>2

(* A drainer's transaction.                                                *)
LEMMA DrainerAppendsPreserves ==
  ASSUME IInv, NEW d \in Drainers, NEW e \in OutboxEvents, DrainerAppends(d, e)
  PROVE  IInv'
<1>1. /\ e \in Events /\ BeginAppend(e, d) /\ Claims(d, "appending", e)
      /\ UNCHANGED <<outbox, forgotten, sequence, overtaken, busVars, sub, faults>>
  BY ClaimMoves, ClaimFields DEF DrainerAppends, IInv
<1>2. /\ append' \in [Events -> Append] /\ last' \in Nat /\ append[e].by = NoOne /\ append'[e].by = d
      /\ \A f \in Events \ {e} : append'[f] = append[f]
      /\ LogHolds' /\ DeliveriesHold' /\ WorkersHold' /\ KeptInOrder' /\ OneCallAtATime'
  BY <1>1, BeginKeeps, DeliveryAssumption
<1>3. \A f \in Drainers \ {d} : drainer[f].at = "appending" => append'[drainer[f].event].by = f
  <2> SUFFICES ASSUME NEW f \in Drainers, drainer[f].at = "appending"
               PROVE  append'[drainer[f].event].by = f
    OBVIOUS
  <2>1. drainer[f].event \in Events /\ append[drainer[f].event].by = f /\ f # NoOne
    BY ClaimFields, DeliveryAssumption DEF IInv, DrainersHold
  <2> QED BY <1>2, <2>1
<1>4. DrainersHold' /\ DeliveredIsLogged'
  <2>1. DrainersHold'
    BY <1>1, <1>2, <1>3, DrainersKept DEF IInv, Logged
  <2> QED BY <1>1, <2>1 DEF IInv, DeliveredIsLogged, Logged
<1>5. TypeOK'
  BY <1>1, <1>2 DEF IInv, TypeOK, busVars, Claims
<1> QED BY <1>2, <1>4, <1>5 DEF IInv

(* A drainer's append commits: the event is logged, with its deliveries.   *)
LEMMA DrainerCommitsPreserves ==
  ASSUME IInv, NEW d \in Drainers, DrainerCommits(d)
  PROVE  IInv'
<1> PICK e \in OutboxEvents : e = drainer[d].event
  BY DEF DrainerCommits, IInv, DrainersHold
<1>1. /\ e \in Events /\ e \in OutboxEvents /\ append[e].by = d /\ d # NoOne /\ EndAppend(e)
      /\ Claims(d, "appended", e)
      /\ UNCHANGED <<outbox, forgotten, last, worker, sub, faults>>
  BY ClaimMoves, ClaimFields, DeliveryAssumption DEF DrainerCommits, IInv, DrainersHold
<1>2. /\ append' \in [Events -> Append] /\ sequence' \in [Events -> Nat]
      /\ delivery' \in [Events -> [Subs -> Delivery]] /\ overtaken' \subseteq Events
      /\ \A f \in Events \ {e} : append'[f] = append[f]
      /\ Logged(e)' /\ \A f \in Events : Logged(f) => Logged(f)'
      /\ LogHolds' /\ DeliveriesHold' /\ WorkersHold' /\ KeptInOrder' /\ OneCallAtATime'
  BY <1>1, EndKeeps
<1>3. \A f \in Drainers \ {d} : drainer[f].at = "appending" => append'[drainer[f].event].by = f
  <2> SUFFICES ASSUME NEW f \in Drainers \ {d}, drainer[f].at = "appending"
               PROVE  append'[drainer[f].event].by = f
    OBVIOUS
  <2>1. drainer[f].event \in Events /\ append[drainer[f].event].by = f
    BY ClaimFields DEF IInv, DrainersHold
  <2> QED BY <1>1, <1>2, <2>1
<1>4. DrainersHold' /\ DeliveredIsLogged'
  <2>1. DrainersHold'
    BY <1>1, <1>2, <1>3, DrainersKept DEF IInv
  <2>2. DeliveredIsLogged'
    BY <1>1, <1>2, ClaimFields DEF IInv, DeliveredIsLogged
  <2> QED BY <2>1, <2>2
<1>5. TypeOK'
  BY <1>1, <1>2 DEF IInv, TypeOK, Claims
<1> QED BY <1>2, <1>4, <1>5 DEF IInv

(* A transaction that fails, or whose process dies, is rolled back.        *)
LEMMA DrainerAbortsPreserves ==
  ASSUME IInv, NEW d \in Drainers, DrainerAborts(d) \/ DrainerCrashes(d)
  PROVE  IInv'
<1> DEFINE e == drainer[d].event
<1>1. /\ drainer[d].at = "appending" => e \in Events /\ e \in OutboxEvents /\ append[e].by = d /\ d # NoOne
      /\ IF drainer[d].at = "appending" THEN AbortAppend(e) ELSE UNCHANGED append
      /\ (Claims(d, "failed", e) /\ drainer[d].at = "appending") \/ Claims(d, "idle", NoEvent)
      /\ UNCHANGED <<outbox, forgotten, sequence, last, overtaken, busVars, sub>> /\ faults' \in 0 .. MaxFaults
  <2>1. drainer[d].at = "appending" => e \in Events /\ e \in OutboxEvents /\ append[e].by = d /\ d # NoOne
    BY ClaimFields, DeliveryAssumption DEF IInv, DrainersHold
  <2>2. CASE DrainerAborts(d)
    BY <2>1, <2>2, ClaimMoves DEF DrainerAborts, IInv, TypeOK
  <2>3. CASE DrainerCrashes(d)
    <3>1. drainer' = [drainer EXCEPT ![d] = NoClaim] => Claims(d, "idle", NoEvent)
      BY ClaimFields DEF Claims, IInv, TypeOK
    <3> QED BY <2>1, <2>3, <3>1, DeliveryAssumption DEF DrainerCrashes, IInv, TypeOK
  <2> QED BY <2>2, <2>3
<1> HIDE DEF e
<1>2. /\ append' \in [Events -> Append]
      /\ \A f \in Events : append'[f] = append[f] \/ (drainer[d].at = "appending" /\ f = e)
      /\ LogHolds' /\ DeliveriesHold' /\ WorkersHold' /\ KeptInOrder' /\ OneCallAtATime'
  <2>1. CASE drainer[d].at = "appending"
    BY <1>1, <2>1, AbortKeeps
  <2>2. CASE drainer[d].at # "appending"
    BY <1>1, <2>2, BusKept DEF IInv, TypeOK, busVars
  <2> QED BY <2>1, <2>2
<1>3. \A f \in Drainers \ {d} : drainer[f].at = "appending" => append'[drainer[f].event].by = f
  <2> SUFFICES ASSUME NEW f \in Drainers \ {d}, drainer[f].at = "appending"
               PROVE  append'[drainer[f].event].by = f
    OBVIOUS
  <2>1. drainer[f].event \in Events /\ append[drainer[f].event].by = f
    BY ClaimFields DEF IInv, DrainersHold
  <2> QED BY <1>1, <1>2, <2>1
<1>4. DrainersHold' /\ DeliveredIsLogged'
  <2>1. \A f \in Events : Logged(f) => Logged(f)'
    BY <1>1 DEF Logged
  <2>2. DrainersHold'
    BY <1>1, <1>2, <1>3, <2>1, DrainersKept DEF IInv
  <2> QED BY <1>1, <2>2 DEF IInv, DeliveredIsLogged, Logged
<1>5. TypeOK'
  BY <1>1, <1>2 DEF IInv, TypeOK, Claims, busVars
<1> QED BY <1>2, <1>4, <1>5 DEF IInv

(* A request's own transaction: it is no drainer.                          *)
LEMMA RequestPreserves ==
  ASSUME IInv, NEW e \in Events, RequestAppends(e) \/ RequestCommits(e) \/ RequestAborts(e)
  PROVE  IInv'
<1>1. Request # NoOne /\ Request \notin Drainers
  BY DeliveryAssumption
<1>2. ASSUME \A f \in Events \ {e} : append'[f] = append[f], append[e].by \in {NoOne, Request},
             drainer' = drainer, \A f \in Events : Logged(f) => Logged(f)'
      PROVE  DrainersHold'
  <2>1. ASSUME NEW d \in Drainers, drainer[d].at = "appending"
        PROVE  append'[drainer[d].event].by = d
    <3>1. drainer[d].event \in Events /\ append[drainer[d].event].by = d /\ d # NoOne /\ d # Request
      BY <1>1, <2>1, ClaimFields, DeliveryAssumption DEF IInv, DrainersHold
    <3> QED BY <1>2, <3>1
  <2>2. ASSUME NEW d \in Drainers, drainer[d].at = "appended"
        PROVE  Logged(drainer[d].event)'
    BY <1>2, <2>2, ClaimFields DEF IInv, DrainersHold
  <2> QED BY <1>2, <2>1, <2>2 DEF IInv, DrainersHold, Logged
<1>3. CASE RequestAppends(e)
  <2>1. /\ BeginAppend(e, Request)
        /\ e \notin OutboxEvents
        /\ UNCHANGED <<forgotten, sequence, overtaken, outboxVars, busVars, sub, faults>>
    BY <1>3 DEF RequestAppends
  <2>2. /\ append' \in [Events -> Append] /\ last' \in Nat /\ append[e].by = NoOne
        /\ \A f \in Events \ {e} : append'[f] = append[f]
        /\ LogHolds' /\ DeliveriesHold' /\ WorkersHold' /\ KeptInOrder' /\ OneCallAtATime'
    BY <2>1, BeginKeeps
  <2>3. DrainersHold' /\ DeliveredIsLogged' /\ TypeOK'
    <3>1. DrainersHold'
      BY <1>2, <2>1, <2>2 DEF outboxVars, Logged
    <3> QED BY <2>1, <2>2, <3>1 DEF IInv, DeliveredIsLogged, TypeOK, outboxVars, busVars, Logged
  <2> QED BY <2>2, <2>3 DEF IInv
<1>4. CASE RequestCommits(e)
  <2>1. /\ EndAppend(e) /\ append[e].by = Request
        /\ UNCHANGED <<forgotten, last, outboxVars, worker, sub, faults>>
    BY <1>4 DEF RequestCommits
  <2>2. /\ append' \in [Events -> Append] /\ sequence' \in [Events -> Nat]
        /\ delivery' \in [Events -> [Subs -> Delivery]] /\ overtaken' \subseteq Events
        /\ \A f \in Events \ {e} : append'[f] = append[f]
        /\ \A f \in Events : Logged(f) => Logged(f)'
        /\ LogHolds' /\ DeliveriesHold' /\ WorkersHold' /\ KeptInOrder' /\ OneCallAtATime'
    BY <1>1, <2>1, EndKeeps
  <2>3. DrainersHold' /\ DeliveredIsLogged'
    <3>1. DrainersHold'
      BY <1>2, <2>1, <2>2 DEF outboxVars
    <3>2. DeliveredIsLogged'
      BY <2>1, <2>2, ClaimFields DEF IInv, DeliveredIsLogged, outboxVars
    <3> QED BY <3>1, <3>2
  <2>4. TypeOK'
    BY <2>1, <2>2 DEF IInv, TypeOK, outboxVars
  <2> QED BY <2>2, <2>3, <2>4 DEF IInv
<1>5. CASE RequestAborts(e)
  <2>1. /\ AbortAppend(e) /\ append[e].by = Request /\ forgotten' = forgotten \cup {e}
        /\ UNCHANGED <<sequence, last, overtaken, outboxVars, busVars, sub, faults>>
    BY <1>5 DEF RequestAborts
  <2>2. /\ append' \in [Events -> Append] /\ \A f \in Events \ {e} : append'[f] = append[f]
        /\ LogHolds' /\ DeliveriesHold' /\ WorkersHold' /\ KeptInOrder' /\ OneCallAtATime'
    BY <1>1, <2>1, AbortKeeps
  <2>3. DrainersHold' /\ DeliveredIsLogged'
    <3>1. DrainersHold'
      BY <1>2, <2>1, <2>2 DEF outboxVars, Logged
    <3> QED BY <2>1, <3>1 DEF IInv, DeliveredIsLogged, outboxVars, Logged
  <2>4. TypeOK'
    BY <2>1, <2>2 DEF IInv, TypeOK, LogHolds, outboxVars, busVars
  <2> QED BY <2>2, <2>3, <2>4 DEF IInv
<1> QED BY <1>3, <1>4, <1>5

----------------------------------------------------------------------------
(* Subscriptions *)

(* A subscription comes, is paused or resumed, or goes with its deliveries;*)
(* whoever is calling it then is left alone.                               *)
LEMMA SubscriptionsPreserve ==
  ASSUME IInv, NEW s \in Subs, Subscribe(s) \/ PauseOrResume(s) \/ Unsubscribe(s)
  PROVE  IInv'
<1>1. /\ UNCHANGED <<outbox, drainer, append, forgotten, sequence, last, overtaken, worker, faults>>
      /\ sub \in [Subs -> {"absent", "active", "paused", "gone"}]
      /\ sub' \in [Subs -> {"absent", "active", "paused", "gone"}] /\ sub'[s] # "absent"
      /\ \A t \in Subs \ {s} : sub'[t] = sub[t]
  BY DEF Subscribe, PauseOrResume, Unsubscribe, IInv, TypeOK, outboxVars, logVars, busVars, Subscribed
<1>2. /\ delivery' \in [Events -> [Subs -> Delivery]]
      /\ \A e \in Events, t \in Subs : delivery'[e][t] = delivery[e][t] \/ (t = s /\ delivery'[e][t] = NoDelivery)
      /\ s \notin Subscribed' => /\ \A e \in Events : delivery'[e][s] = NoDelivery /\ s \notin append[e].to
      /\ s \notin Subscribed => sub[s] = "absent" /\ delivery' = delivery
  <2>1. CASE Subscribe(s) \/ PauseOrResume(s)
    BY <1>1, <2>1 DEF Subscribe, PauseOrResume, IInv, TypeOK, busVars, Subscribed
  <2>2. CASE Unsubscribe(s)
    <3>1. delivery' = [e \in Events |-> [delivery[e] EXCEPT ![s] = NoDelivery]]
          /\ s \in Subscribed /\ (\A e \in Events : s \notin append[e].to)
          /\ delivery \in [Events -> [Subs -> Delivery]]
      BY <2>2 DEF Unsubscribe, IInv, TypeOK
    <3> QED BY <3>1, AppendFields
  <2> QED BY <2>1, <2>2
<1>3. /\ \A t \in Subs \ {s} : t \in Subscribed' <=> t \in Subscribed
      /\ \A e \in Events : Logged(e)' = Logged(e) /\ Given(e)' = Given(e)
      /\ append \in [Events -> Append]
  BY <1>1 DEF Subscribed, Logged, Given, IInv, TypeOK
<1>4. LogHolds' /\ DeliveriesHold'
  <2>1. ASSUME NEW e \in Events PROVE append[e].to \subseteq Subscribed'
    <3>1. append[e].to \subseteq Subscribed /\ append[e].to \subseteq Subs
      BY <1>3, AppendFields DEF IInv, LogHolds
    <3> QED BY <1>2, <1>3, <3>1
  <2>2. LogHolds'
    BY <1>1, <1>3, <2>1 DEF IInv, LogHolds
  <2>3. DeliveriesHold'
    BY <1>2, <1>3 DEF IInv, DeliveriesHold
  <2> QED BY <2>2, <2>3
<1>5. WorkersHold'
  <2>1. ASSUME NEW w \in Workers PROVE WorkerHolds(w)'
    <3> SUFFICES ASSUME worker[w].at # "idle" PROVE WorkerHolds(w)'
      BY <1>1 DEF WorkerHolds
    <3>1. WorkerHolds(w)
      BY DEF IInv, WorkersHold
    <3>2. CASE worker[w].sub # s
      BY <1>1, <1>2, <1>3, <3>1, <3>2 DEF WorkerHolds, Leases
    <3>3. CASE worker[w].sub = s /\ s \in Subscribed /\ s \in Subscribed'
      <4>1. delivery' = delivery
        BY <3>3 DEF Subscribe, PauseOrResume, Unsubscribe, busVars, Subscribed, IInv, TypeOK
      <4> QED BY <1>1, <3>1, <3>3, <4>1 DEF WorkerHolds, Leases
    <3>4. CASE worker[w].sub = s /\ s \notin Subscribed'
      BY <1>1, <3>1, <3>4 DEF WorkerHolds
    <3>5. s \notin Subscribed => worker[w].sub # s
      BY <1>2, <3>1 DEF WorkerHolds
    <3> QED BY <3>2, <3>3, <3>4, <3>5
  <2> QED BY <1>1, <2>1 DEF IInv, WorkersHold, Apart
<1>6. KeptInOrder' /\ OneCallAtATime'
  <2>1. \A e \in Events, t \in Subs : (Over(e, t) => Over(e, t)') /\ (Started(e, t)' => Started(e, t))
    BY <1>2 DEF Over, Started, NoDelivery
  <2> QED BY <1>1, <2>1, OrderKept, CallsKept DEF IInv
<1>7. TypeOK' /\ DrainersHold' /\ DeliveredIsLogged'
  <2>1. TypeOK'
    BY <1>1, <1>2 DEF IInv, TypeOK
  <2> QED BY <1>1, <2>1 DEF IInv, DrainersHold, DeliveredIsLogged, Logged
<1> QED BY <1>4, <1>5, <1>6, <1>7 DEF IInv

----------------------------------------------------------------------------
(* The bus *)

(* Steps of the bus that lease nothing: a delivery keeps its attempt and   *)
(* is over once it is, a worker goes on with what it has or drops it, and  *)
(* the delivery of who is still calling is as it was.                      *)
Same(w) == /\ worker'[w].event = worker[w].event /\ worker'[w].sub = worker[w].sub
           /\ worker'[w].token = worker[w].token
(* What the steps of the bus have in common: what is over stays over, and  *)
(* each call is somebody's lease.                                          *)
LEMMA BusPreserves ==
  ASSUME IInv, UNCHANGED <<outboxVars, logVars, sub>>, faults' \in 0 .. MaxFaults,
         delivery' \in [Events -> [Subs -> Delivery]], worker' \in [Workers -> Call],
         \A e \in Events, s \in Subs : /\ Over(e, s) => Over(e, s)'
                                       /\ delivery'[e][s].attempt = delivery[e][s].attempt
                                       /\ delivery[e][s] = NoDelivery => delivery'[e][s] = NoDelivery,
         \A w \in Workers : worker'[w].at # "idle" =>
           worker[w].at # "idle" /\ Same(w) /\ (worker'[w].at = "calling" => worker[w].at = "calling"),
         \A w \in Workers, e \in Events, s \in Subs :
           worker'[w].at = "calling" /\ worker[w].event = e /\ worker[w].sub = s /\ s \in Subscribed
             => delivery'[e][s] = delivery[e][s]
  PROVE  IInv'
<1>1. UNCHANGED <<outbox, drainer, append, forgotten, sequence, last, overtaken, sub, Subscribed>>
  BY DEF outboxVars, logVars, Subscribed
<1>2. LogHolds' /\ DeliveriesHold'
  <2>1. LogHolds'
    BY <1>1 DEF IInv, LogHolds, Given, Logged
  <2> QED BY <1>1, <2>1 DEF IInv, DeliveriesHold, Logged
<1>3. WorkersHold'
  <2>1. ASSUME NEW w \in Workers PROVE WorkerHolds(w)'
    <3> SUFFICES ASSUME worker'[w].at # "idle" PROVE WorkerHolds(w)'
      BY DEF WorkerHolds
    <3>1. WorkerHolds(w) /\ worker[w].at # "idle" /\ Same(w)
      BY DEF IInv, WorkersHold
    <3> QED BY <1>1, <3>1 DEF WorkerHolds, Leases, Same
  <2>2. ASSUME NEW v \in Workers, NEW w \in Workers PROVE Apart(v, w)'
    BY DEF IInv, WorkersHold, Apart, Same
  <2> QED BY <2>1, <2>2 DEF WorkersHold
<1>4. KeptInOrder' /\ OneCallAtATime'
  <2>1. \A e \in Events, s \in Subs : Started(e, s)' => Started(e, s)
    BY DEF Started
  <2>2. KeptInOrder'
    BY <1>1, <2>1, OrderKept DEF IInv
  <2>3. OneCallAtATime'
    BY <1>1, CallsKept DEF IInv, Same
  <2> QED BY <2>2, <2>3
<1>5. TypeOK' /\ DrainersHold' /\ DeliveredIsLogged'
  <2>1. TypeOK'
    BY <1>1 DEF IInv, TypeOK
  <2> QED BY <1>1, <2>1 DEF IInv, DrainersHold, DeliveredIsLogged, Logged
<1> QED BY <1>2, <1>3, <1>4, <1>5 DEF IInv

(* One delivery is changed.                                                *)
Puts(e, s, x) ==
  /\ delivery' \in [Events -> [Subs -> Delivery]] /\ delivery'[e][s] = x
  /\ \A f \in Events, t \in Subs : f # e \/ t # s => delivery'[f][t] = delivery[f][t]

(* A change of one delivery leaves the others.                             *)
LEMMA DeliveryMoves ==
  ASSUME TypeOK, NEW e \in Events, NEW s \in Subs, NEW x \in Delivery
  PROVE  delivery' = [delivery EXCEPT ![e][s] = x] => Puts(e, s, x)
<1>1. delivery \in [Events -> [Subs -> Delivery]]
  BY DEF TypeOK
<1> QED BY <1>1 DEF Puts

(* One worker is sent elsewhere.                                           *)
LEMMA NoCallIsACall == NoCall \in Call /\ NoCall.at = "idle"
BY DEF NoCall, Call

(* A lease runs out when nobody is calling any more, a delay when it has   *)
(* passed.                                                                 *)
LEMMA TimePassesBus ==
  ASSUME IInv, NEW e \in Events, NEW s \in Subs, DeliveryLapses(e, s) \/ DeliveryDue(e, s)
  PROVE  IInv'
<1>1. /\ UNCHANGED <<outboxVars, logVars, worker, sub>> /\ faults' \in 0 .. MaxFaults
      /\ delivery[e][s] \in Delivery /\ worker \in [Workers -> Call]
      /\ delivery[e][s].status \in {"processing", "waiting"}
  BY DeliveryAssumption DEF DeliveryLapses, DeliveryDue, IInv, TypeOK
<1>2. PICK x \in Delivery : /\ delivery' = [delivery EXCEPT ![e][s] = x]
                            /\ x.attempt = delivery[e][s].attempt
  <2>1. CASE DeliveryLapses(e, s)
    <3>1. [delivery[e][s] EXCEPT !.live = FALSE] \in Delivery
      BY <1>1 DEF Delivery
    <3>2. delivery' = [delivery EXCEPT ![e][s] = [delivery[e][s] EXCEPT !.live = FALSE]]
      BY <2>1 DEF DeliveryLapses
    <3> QED BY <1>1, <3>1, <3>2 DEF Delivery
  <2>2. CASE DeliveryDue(e, s)
    <3>1. [delivery[e][s] EXCEPT !.status = "pending"] \in Delivery
      BY <1>1 DEF Delivery
    <3>2. delivery' = [delivery EXCEPT ![e][s] = [delivery[e][s] EXCEPT !.status = "pending"]]
      BY <2>2 DEF DeliveryDue
    <3> QED BY <1>1, <3>1, <3>2 DEF Delivery
  <2> QED BY <2>1, <2>2
<1>3. Puts(e, s, x)
  BY <1>2, DeliveryMoves DEF IInv
<1>4. ASSUME NEW w \in Workers, worker[w].at = "calling", worker[w].event = e, worker[w].sub = s,
             s \in Subscribed
      PROVE  FALSE
  <2>1. /\ Leases(w, e, s) /\ delivery[e][s].status = "processing"
    BY <1>4 DEF IInv, WorkersHold, WorkerHolds
  <2>2. w \in CallsOn(e, s)
    BY <1>4, <2>1 DEF CallsOn
  <2> QED BY <2>1, <2>2 DEF DeliveryLapses, DeliveryDue
<1>5. \A f \in Events, t \in Subs : /\ Over(f, t) => Over(f, t)'
                                    /\ delivery'[f][t].attempt = delivery[f][t].attempt
                                    /\ delivery[f][t] = NoDelivery => delivery'[f][t] = NoDelivery
  BY <1>1, <1>2, <1>3 DEF Puts, Over, NoDelivery
<1>6. \A w \in Workers, f \in Events, t \in Subs :
        worker'[w].at = "calling" /\ worker[w].event = f /\ worker[w].sub = t /\ t \in Subscribed
          => delivery'[f][t] = delivery[f][t]
  BY <1>1, <1>3, <1>4 DEF Puts
<1> QED BY <1>1, <1>3, <1>5, <1>6, BusPreserves DEF Puts, Same

(* A call comes back, or its worker dies.                                  *)
LEMMA CallsPreserve ==
  ASSUME IInv, NEW w \in Workers, NEW answer \in {"accepted", "refused", "rejected"},
         CallEnds(w, answer) \/ WorkerCrashes(w)
  PROVE  IInv'
<1>1. /\ UNCHANGED <<outboxVars, logVars, delivery, sub>> /\ faults' \in 0 .. MaxFaults
      /\ worker[w].at # "idle" /\ worker \in [Workers -> Call]
      /\ delivery \in [Events -> [Subs -> Delivery]]
  BY DeliveryAssumption DEF CallEnds, WorkerCrashes, IInv, TypeOK
<1>2. /\ worker' \in [Workers -> Call] /\ worker'[w].at # "calling"
      /\ worker'[w].at # "idle" => Same(w)
      /\ \A v \in Workers \ {w} : worker'[v] = worker[v]
  <2>1. CASE CallEnds(w, answer)
    BY <1>1, <2>1 DEF CallEnds, Call, Same
  <2>2. CASE WorkerCrashes(w)
    BY <1>1, <2>2, NoCallIsACall DEF WorkerCrashes
  <2> QED BY <2>1, <2>2
<1>3. \A v \in Workers : worker'[v].at # "idle" =>
        worker[v].at # "idle" /\ Same(v) /\ (worker'[v].at = "calling" => worker[v].at = "calling")
  BY <1>1, <1>2 DEF Same
<1>4. \A f \in Events, t \in Subs : Over(f, t) => Over(f, t)'
  BY <1>1 DEF Over
<1> QED BY <1>1, <1>2, <1>3, <1>4, BusPreserves

(* Who settles a delivery has its token, so nobody is calling with it.     *)
LEMMA SettlePreserves ==
  ASSUME IInv, NEW w \in Workers, CompleteDelivery(w) \/ RetryDelivery(w) \/ DeadLetter(w)
  PROVE  IInv'
<1> DEFINE e == worker[w].event
           s == worker[w].sub
<1>1. PICK status \in {"delivered", "waiting", "dead"}, answer \in {"accepted", "refused", "rejected"} :
        Settle(w, answer, status)
  BY DEF CompleteDelivery, RetryDelivery, DeadLetter
<1>2. /\ UNCHANGED <<outboxVars, logVars, sub, faults>> /\ worker[w].at = answer
      /\ worker' = [worker EXCEPT ![w] = NoCall] /\ worker \in [Workers -> Call]
      /\ delivery \in [Events -> [Subs -> Delivery]] /\ faults \in 0 .. MaxFaults
  BY <1>1 DEF Settle, IInv, TypeOK
<1>3. e \in Events /\ s \in Subs /\ worker[w].at \notin {"idle", "calling"}
  BY <1>2 DEF IInv, WorkersHold, WorkerHolds
<1>4. /\ worker' \in [Workers -> Call] /\ worker'[w].at = "idle"
      /\ \A v \in Workers \ {w} : worker'[v] = worker[v]
  BY <1>2, NoCallIsACall
<1>5. \A v \in Workers : worker'[v].at # "idle" =>
        worker[v].at # "idle" /\ Same(v) /\ (worker'[v].at = "calling" => worker[v].at = "calling")
  BY <1>4 DEF Same
<1>6. CASE ~Holds(w)
  <2>1. delivery' = delivery
    BY <1>1, <1>6 DEF Settle
  <2>2. \A f \in Events, t \in Subs : Over(f, t) => Over(f, t)'
    BY <2>1 DEF Over
  <2> QED BY <1>2, <1>4, <1>5, <2>1, <2>2, BusPreserves
<1>7. CASE Holds(w)
  <2>1. delivery[e][s].status = "processing" /\ Leases(w, e, s)
    BY <1>7 DEF Holds
  <2>2. PICK x \in Delivery : /\ delivery' = [delivery EXCEPT ![e][s] = x]
                              /\ x.attempt = delivery[e][s].attempt
    <3>1. /\ [delivery[e][s] EXCEPT !.status = status, !.live = FALSE] \in Delivery
          /\ [delivery[e][s] EXCEPT !.status = status, !.live = FALSE].attempt = delivery[e][s].attempt
      <4>1. delivery[e][s] \in Delivery
        BY <1>2, <1>3
      <4>2. \A y \in Delivery : /\ [y EXCEPT !.status = status, !.live = FALSE] \in Delivery
                               /\ [y EXCEPT !.status = status, !.live = FALSE].attempt = y.attempt
        BY DEF Delivery
      <4> QED BY <4>1, <4>2
    <3>2. delivery' = [delivery EXCEPT ![e][s] = [delivery[e][s] EXCEPT !.status = status, !.live = FALSE]]
      BY <1>1, <1>7 DEF Settle
    <3> QED BY <3>1, <3>2
  <2>3. Puts(e, s, x)
    BY <1>3, <2>2, DeliveryMoves DEF IInv
  <2>4. ASSUME NEW v \in Workers, v # w, worker[v].at = "calling", worker[v].event = e, worker[v].sub = s,
               s \in Subscribed
        PROVE  FALSE
    <3>1. Leases(v, e, s)
      BY <2>4 DEF IInv, WorkersHold, WorkerHolds
    <3>2. Apart(v, w)
      BY DEF IInv, WorkersHold
    <3> QED BY <1>3, <2>1, <2>4, <3>1, <3>2 DEF Apart, Leases
  <2>5. \A f \in Events, t \in Subs : /\ Over(f, t) => Over(f, t)'
                                      /\ delivery'[f][t].attempt = delivery[f][t].attempt
                                      /\ delivery[f][t] = NoDelivery => delivery'[f][t] = NoDelivery
    BY <2>1, <2>2, <2>3 DEF Puts, Over, NoDelivery
  <2>6. \A v \in Workers, f \in Events, t \in Subs :
          worker'[v].at = "calling" /\ worker[v].event = f /\ worker[v].sub = t /\ t \in Subscribed
            => delivery'[f][t] = delivery[f][t]
    BY <1>4, <2>3, <2>4 DEF Puts
  <2> QED BY <1>2, <1>4, <1>5, <2>3, <2>5, <2>6, BusPreserves DEF Puts
<1> QED BY <1>6, <1>7

(* A delivery is leased when nobody else has a live lease of it and every  *)
(* earlier one of the key is over.                                         *)
LEMMA LeasePreserves ==
  ASSUME IInv, NEW w \in Workers, NEW e \in Events, NEW s \in Subs, LeaseDelivery(w, e, s)
  PROVE  IInv'
<1> DEFINE n == delivery[e][s].attempt + 1
           x == [status |-> "processing", attempt |-> n, live |-> TRUE]
           y == [at |-> "calling", event |-> e, sub |-> s, token |-> n]
<1>1. /\ UNCHANGED <<outbox, drainer, append, forgotten, sequence, last, overtaken, sub, faults, Subscribed>>
      /\ worker[w].at = "idle" /\ Ready(e, s) /\ InTurn(e, s) /\ sub[s] = "active" /\ s \in Subscribed
      /\ delivery' = [delivery EXCEPT ![e][s] = x] /\ worker' = [worker EXCEPT ![w] = y]
      /\ delivery \in [Events -> [Subs -> Delivery]] /\ worker \in [Workers -> Call]
      /\ sequence \in [Events -> Nat] /\ append \in [Events -> Append]
  BY DEF LeaseDelivery, outboxVars, logVars, Subscribed, Ready, IInv, TypeOK
<1>2. n \in Nat /\ n > 0 /\ delivery[e][s].attempt \in Nat /\ n > delivery[e][s].attempt
  <2>1. delivery[e][s] \in Delivery
    BY <1>1
  <2> QED BY <2>1 DEF Delivery
<1>3. /\ delivery[e][s].status \in {"pending", "processing"}
      /\ delivery[e][s].status = "processing" => ~delivery[e][s].live
      /\ ~Over(e, s) /\ Logged(e)
  BY <1>1 DEF Ready, Over, IInv, DeliveriesHold, NoDelivery
<1>4. x \in Delivery /\ y \in Call
  BY <1>2 DEF Delivery, Call
<1> HIDE DEF n
<1>5. /\ delivery' \in [Events -> [Subs -> Delivery]] /\ delivery'[e][s] = x
      /\ \A f \in Events, t \in Subs : f # e \/ t # s => delivery'[f][t] = delivery[f][t]
  BY <1>1, <1>4, DeliveryMoves DEF Puts, IInv
<1>6. /\ worker' \in [Workers -> Call] /\ worker'[w] = y
      /\ \A v \in Workers \ {w} : worker'[v] = worker[v]
  BY <1>1, <1>4
<1>7. LogHolds' /\ DeliveriesHold'
  <2>1. LogHolds'
    BY <1>1 DEF IInv, LogHolds, Given, Logged
  <2>2. DeliveriesHold'
    BY <1>1, <1>3, <1>5 DEF IInv, DeliveriesHold, Logged
  <2> QED BY <2>1, <2>2
<1>8. ASSUME NEW v \in Workers \ {w}, worker[v].at # "idle", worker[v].event = e, worker[v].sub = s
      PROVE  worker[v].at # "calling" /\ worker[v].token < n
  <2>1. WorkerHolds(v) /\ worker[v].token \in Nat
    BY <1>1 DEF IInv, WorkersHold, Call
  <2>2. worker[v].at # "calling" /\ worker[v].token <= delivery[e][s].attempt
    BY <1>1, <1>3, <1>8, <2>1 DEF WorkerHolds
  <2> QED BY <1>2, <2>1, <2>2
<1>9. WorkersHold'
  <2>1. ASSUME NEW v \in Workers PROVE WorkerHolds(v)'
    <3>1. CASE v = w
      BY <1>1, <1>2, <1>5, <1>6, <3>1 DEF WorkerHolds, Leases
    <3>2. CASE v # w /\ worker[v].at # "idle" /\ worker[v].event = e /\ worker[v].sub = s
      <4>1. WorkerHolds(v) /\ worker[v].at # "calling" /\ worker[v].token <= n /\ worker'[v] = worker[v]
        BY <1>2, <1>6, <1>8, <3>2 DEF IInv, WorkersHold, TypeOK, Call
      <4> QED BY <1>1, <1>5, <3>2, <4>1 DEF WorkerHolds
    <3>3. CASE v # w /\ ~(worker[v].at # "idle" /\ worker[v].event = e /\ worker[v].sub = s)
      <4>1. WorkerHolds(v) /\ worker'[v] = worker[v]
        BY <1>6, <3>3 DEF IInv, WorkersHold
      <4> QED BY <1>1, <1>5, <3>3, <4>1 DEF WorkerHolds, Leases
    <3> QED BY <3>1, <3>2, <3>3
  <2>2. ASSUME NEW u \in Workers, NEW v \in Workers PROVE Apart(u, v)'
    <3>1. Apart(u, v)
      BY DEF IInv, WorkersHold
    <3>2. \A z \in Workers \ {w} : worker[z].token \in Nat
      BY <1>1 DEF Call
    <3> QED BY <1>2, <1>6, <1>8, <3>1, <3>2 DEF Apart
  <2> QED BY <2>1, <2>2 DEF WorkersHold
<1>10. KeptInOrder'
  <2> SUFFICES ASSUME NEW t \in Subs, NEW f \in Events, NEW g \in Events,
                      Before(f, g)', f \notin overtaken', Started(g, t)'
               PROVE  Over(f, t)'
    BY DEF KeptInOrder
  <2>1. Before(f, g) /\ f \notin overtaken /\ f # g
    BY <1>1 DEF Before, Logged
  <2>2. CASE g = e /\ t = s
    BY <1>1, <1>5, <2>1, <2>2 DEF InTurn, Over
  <2>3. CASE ~(g = e /\ t = s)
    <3>1. Started(g, t)
      BY <1>5, <2>3 DEF Started
    <3>2. Over(f, t)
      BY <2>1, <3>1 DEF IInv, KeptInOrder
    <3> QED BY <1>3, <1>5, <3>2 DEF Over
  <2> QED BY <2>2, <2>3
<1>11. ASSUME NEW v \in Workers \ {w}, worker[v].at = "calling", worker[v].sub = s
       PROVE  /\ worker[v].event # e
              /\ KeyOf[worker[v].event] # KeyOf[e] \/ {worker[v].event, e} \cap overtaken # {}
  <2> DEFINE f == worker[v].event
  <2>1. /\ f \in Events /\ delivery[f][s].status = "processing" /\ delivery[f][s].attempt = worker[v].token
        /\ worker[v].token > 0
    BY <1>1, <1>11 DEF IInv, WorkersHold, WorkerHolds, Leases
  <2>2. f # e /\ ~Over(f, s) /\ Started(f, s) /\ Logged(f)
    BY <1>8, <1>11, <2>1 DEF Over, Started, IInv, DeliveriesHold, NoDelivery
  <2>3. sequence[f] # sequence[e] /\ sequence[f] \in Nat /\ sequence[e] \in Nat
    <3>1. Given(f) = sequence[f] /\ Given(e) = sequence[e] /\ Given(f) > 0
      BY <1>1, <1>3, <2>1, <2>2 DEF IInv, LogHolds, Given, Logged
    <3> QED BY <1>1, <2>1, <2>2, <3>1 DEF IInv, LogHolds
  <2>4. CASE KeyOf[f] = KeyOf[e] /\ sequence[f] < sequence[e]
    BY <1>1, <1>3, <2>1, <2>2, <2>4 DEF InTurn, Before
  <2>5. CASE KeyOf[f] = KeyOf[e] /\ sequence[e] < sequence[f]
    <3>1. Before(e, f)
      BY <1>3, <2>2, <2>5 DEF Before
    <3>2. e \in overtaken
      BY <1>3, <2>1, <2>2, <3>1 DEF IInv, KeptInOrder
    <3> QED BY <2>2, <3>2
  <2> QED BY <2>2, <2>3, <2>4, <2>5
<1>12. OneCallAtATime'
  <2> SUFFICES ASSUME NEW u \in Workers, NEW v \in Workers, u # v,
                      worker'[u].at = "calling", worker'[v].at = "calling", worker'[u].sub = worker'[v].sub
               PROVE  /\ worker'[u].event # worker'[v].event
                      /\ \/ KeyOf[worker'[u].event] # KeyOf[worker'[v].event]
                         \/ {worker'[u].event, worker'[v].event} \cap overtaken' # {}
    BY DEF OneCallAtATime
  <2>1. CASE u = w
    BY <1>1, <1>6, <1>11, <2>1
  <2>2. CASE v = w
    BY <1>1, <1>6, <1>11, <2>2
  <2>3. CASE u # w /\ v # w
    BY <1>1, <1>6, <2>3 DEF IInv, OneCallAtATime
  <2> QED BY <2>1, <2>2, <2>3
<1>13. TypeOK' /\ DrainersHold' /\ DeliveredIsLogged'
  <2>1. TypeOK'
    BY <1>1, <1>5, <1>6 DEF IInv, TypeOK
  <2> QED BY <1>1, <2>1 DEF IInv, DrainersHold, DeliveredIsLogged, Logged
<1> QED BY <1>7, <1>9, <1>10, <1>12, <1>13 DEF IInv

----------------------------------------------------------------------------
(* The invariant holds in every state. *)

(* It holds of an empty log.                                               *)
LEMMA InitIInv == Init => IInv
<1> SUFFICES ASSUME Init PROVE IInv
  OBVIOUS
<1>1. TypeOK
  <2>1. outbox \in [OutboxEvents -> OutboxRow]
    BY DeliveryAssumption DEF Init, OutboxRow
  <2>2. drainer \in [Drainers -> Claim] /\ append \in [Events -> Append] /\ worker \in [Workers -> Call]
    BY ClaimFields, AppendFields, NoCallIsACall DEF Init
  <2>3. delivery \in [Events -> [Subs -> Delivery]] /\ sequence \in [Events -> Nat] /\ faults \in 0 .. MaxFaults
    BY AppendFields, DeliveryAssumption DEF Init
  <2> QED BY <2>1, <2>2, <2>3 DEF Init, TypeOK
<1>2. DrainersHold /\ LogHolds /\ DeliveriesHold /\ DeliveredIsLogged
  <2>1. LogHolds
    BY AppendFields, DeliveryAssumption DEF Init, LogHolds, Given
  <2> QED BY <2>1, ClaimFields DEF Init, DrainersHold, DeliveriesHold, DeliveredIsLogged
<1>3. WorkersHold /\ KeptInOrder /\ OneCallAtATime
  BY NoCallIsACall, AppendFields
     DEF Init, WorkersHold, WorkerHolds, Apart, KeptInOrder, OneCallAtATime, Before, Logged
<1> QED BY <1>1, <1>2, <1>3 DEF IInv

(* Every step of drainers, requests, workers, operators and the clock.     *)
LEMMA NextIInv == IInv /\ [Next]_vars => IInv'
<1> SUFFICES ASSUME IInv, [Next]_vars PROVE IInv'
  OBVIOUS
<1>1. CASE UNCHANGED vars
  <2>1. UNCHANGED <<outbox, drainer, append, forgotten, sequence, last, overtaken, delivery, worker, sub, faults>>
    BY <1>1 DEF vars, outboxVars, logVars, busVars
  <2>2. TypeOK' /\ DrainersHold' /\ DeliveredIsLogged'
    BY <2>1 DEF IInv, TypeOK, DrainersHold, DeliveredIsLogged, Logged
  <2> QED BY <2>1, <2>2, BusKept DEF IInv
<1>2. CASE \E d \in Drainers : Drain(d) \/ DrainerCrashes(d)
  BY <1>2, ClaimPreserves, DrainerAppendsPreserves, DrainerFindsPreserves, DrainerCommitsPreserves,
     DrainerAbortsPreserves, SettleOutboxPreserves DEF Drain
<1>3. CASE \E w \in Workers : Calls(w) \/ WorkerCrashes(w)
  BY <1>3, CallsPreserve, SettlePreserves DEF Calls
<1>4. CASE \E w \in Workers : Poll(w)
  BY <1>4, LeasePreserves DEF Poll
<1>5. CASE Time
  BY <1>5, TimePassesOutbox, TimePassesBus DEF Time
<1>6. CASE Callers
  BY <1>6, TimePassesOutbox, RequestPreserves, SubscriptionsPreserve DEF Callers
<1> QED BY <1>1, <1>2, <1>3, <1>4, <1>5, <1>6 DEF Next, Crashes

(* What is known of leases, tokens and sequences in every state.           *)
THEOREM Invariance == Spec => []IInv
BY InitIInv, NextIInv, PTL DEF Spec

(* Outbox, log and deliveries are of the shapes the code gives them.       *)
THEOREM TypeCorrect == Spec => []TypeOK
<1>1. IInv => TypeOK
  BY DEF IInv
<1> QED BY Invariance, <1>1, PTL

(* The outbox takes nothing for delivered that is not in the log, whatever *)
(* crashes or comes too late.                                              *)
THEOREM DeliveredMeansLogged == Spec => []DeliveredIsLogged
<1>1. IInv => DeliveredIsLogged
  BY DEF IInv
<1> QED BY Invariance, <1>1, PTL

(* No subscriber is handed an event while an earlier one of the same key   *)
(* is unfinished, except for one that was committed after a later one.     *)
THEOREM OrderIsKept == Spec => []KeptInOrder
<1>1. IInv => KeptInOrder
  BY DEF IInv
<1> QED BY Invariance, <1>1, PTL

(* No two workers, of whatever replicas, call an extension at once about   *)
(* one event, nor about two of one key.                                    *)
THEOREM OneWorkerCalls == Spec => []OneCallAtATime
<1>1. IInv => OneCallAtATime
  BY DEF IInv
<1> QED BY Invariance, <1>1, PTL

----------------------------------------------------------------------------
(* What a step may never do. *)

(* A delivery that is over is left as it is by everybody.                  *)
THEOREM WhatIsOverStays == Spec => OverStaysOver
<1> DEFINE Kept(e, s) == delivery[e][s].status \in {"delivered", "dead"} /\ sub'[s] # "gone"
                           => delivery'[e][s] = delivery[e][s]
<1>1. ASSUME IInv, [Next]_vars, NEW e \in Events, NEW s \in Subs PROVE Kept(e, s)
  <2> SUFFICES ASSUME delivery[e][s].status \in {"delivered", "dead"}, sub'[s] # "gone",
                      delivery' # delivery
               PROVE  delivery'[e][s] = delivery[e][s]
    OBVIOUS
  <2>1. /\ delivery \in [Events -> [Subs -> Delivery]] /\ Logged(e) /\ s \in Subscribed
    BY <1>1 DEF IInv, TypeOK, DeliveriesHold, NoDelivery
  <2>2. CASE \E f \in Events : EndAppend(f) /\ append[f].by # NoOne
    BY <1>1, <2>1, <2>2 DEF EndAppend, IInv, LogHolds
  <2>3. CASE \E f \in Events, t \in Subs : DeliveryLapses(f, t) \/ DeliveryDue(f, t)
    <3> PICK f \in Events, t \in Subs : DeliveryLapses(f, t) \/ DeliveryDue(f, t)
      BY <2>3
    <3>1. f # e \/ t # s
      BY DEF DeliveryLapses, DeliveryDue
    <3> QED BY <2>1, <3>1 DEF DeliveryLapses, DeliveryDue
  <2>4. CASE \E w \in Workers, f \in Events, t \in Subs : LeaseDelivery(w, f, t)
    <3> PICK w \in Workers, f \in Events, t \in Subs : LeaseDelivery(w, f, t)
      BY <2>4
    <3>1. f # e \/ t # s
      BY DEF LeaseDelivery, Ready
    <3> QED BY <2>1, <3>1 DEF LeaseDelivery
  <2>5. CASE \E w \in Workers : CompleteDelivery(w) \/ RetryDelivery(w) \/ DeadLetter(w)
    <3>1. PICK w \in Workers, answer \in {"accepted", "refused", "rejected"},
               status \in {"delivered", "waiting", "dead"} : Settle(w, answer, status)
      BY <2>5 DEF CompleteDelivery, RetryDelivery, DeadLetter
    <3>2. worker[w].event \in Events /\ worker[w].sub \in Subs
      BY <1>1, <3>1 DEF Settle, IInv, WorkersHold, WorkerHolds
    <3>3. Holds(w) => worker[w].event # e \/ worker[w].sub # s
      BY DEF Holds
    <3> QED BY <2>1, <3>1, <3>2, <3>3 DEF Settle
  <2>6. CASE \E t \in Subs : Unsubscribe(t)
    <3> PICK t \in Subs : Unsubscribe(t)
      BY <2>6
    <3>1. t # s
      BY <1>1 DEF Unsubscribe, IInv, TypeOK
    <3> QED BY <2>1, <3>1 DEF Unsubscribe
  <2>7. ASSUME NEW d \in Drainers, DrainerCommits(d)
        PROVE  \E f \in Events : EndAppend(f) /\ append[f].by # NoOne
    BY <1>1, <2>7, ClaimFields, DeliveryAssumption DEF DrainerCommits, IInv, DrainersHold
  <2>8. ASSUME NEW f \in Events, RequestCommits(f)
        PROVE  EndAppend(f) /\ append[f].by # NoOne
    BY <2>8, DeliveryAssumption DEF RequestCommits
  <2>9. ~UNCHANGED delivery
    OBVIOUS
  <2> QED BY <1>1, <2>2, <2>3, <2>4, <2>5, <2>6, <2>7, <2>8, <2>9
          DEF Next, Drain, Poll, Calls, Time, Callers, Crashes, vars, busVars, ClaimOutboxEvents, DrainerAppends,
              DrainerFinds, DrainerFails, DrainerAborts, CompleteOutboxEvent, FailOutboxEvent, OutboxLapses,
              OutboxDue, Announce, RequestAppends, RequestAborts, Subscribe, PauseOrResume, DrainerCrashes,
              WorkerCrashes, CallEnds
<1>2. IInv /\ [Next]_vars => [\A e \in Events, s \in Subs : Kept(e, s)]_vars
  BY <1>1
<1> QED BY Invariance, <1>2, PTL DEF Spec, OverStaysOver

(* A row whose claim ran out is claimed anew or given up: the drainer that *)
(* comes back too late marks nothing.                                      *)
THEOREM LateDrainersMarkNothing == Spec => LapsedClaimSettlesNothing
<1> DEFINE Settled(e) == Unfinished(e) /\ outbox'[e] # outbox[e] =>
             \/ outbox'[e].status = "running" /\ outbox'[e].attempt = outbox[e].attempt + 1
             \/ outbox'[e].status = "dead" /\ outbox[e].attempt = OutboxAttempts
<1>1. ASSUME IInv, [Next]_vars, NEW e \in OutboxEvents PROVE Settled(e)
  <2> SUFFICES ASSUME Unfinished(e), outbox'[e] # outbox[e]
               PROVE  \/ outbox'[e].status = "running" /\ outbox'[e].attempt = outbox[e].attempt + 1
                      \/ outbox'[e].status = "dead" /\ outbox[e].attempt = OutboxAttempts
    OBVIOUS
  <2>1. outbox \in [OutboxEvents -> OutboxRow] /\ outbox[e].status = "running" /\ ~outbox[e].live
    BY <1>1 DEF IInv, TypeOK, Unfinished
  <2>2. CASE \E d \in Drainers, batch \in SUBSET OutboxEvents : ClaimOutboxEvents(d, batch)
    <3>1. \/ e \in Retired /\ outbox'[e] = [outbox[e] EXCEPT !.status = "dead"]
          \/ outbox'[e] = [status |-> "running", attempt |-> outbox[e].attempt + 1, live |-> TRUE]
      BY <2>2 DEF ClaimOutboxEvents
    <3>2. e \in Retired => outbox[e].attempt = OutboxAttempts
      BY <2>1, DeliveryAssumption DEF Retired, OutboxRow
    <3> QED BY <2>1, <3>1, <3>2 DEF OutboxRow
  <2>3. CASE \E f \in OutboxEvents : OutboxLapses(f) \/ OutboxDue(f) \/ Announce(f)
    <3> PICK f \in OutboxEvents : OutboxLapses(f) \/ OutboxDue(f) \/ Announce(f)
      BY <2>3
    <3>1. f # e
      BY <2>1 DEF OutboxLapses, OutboxDue, Announce
    <3> QED BY <2>1, <3>1 DEF OutboxLapses, OutboxDue, Announce
  <2>4. CASE \E d \in Drainers : CompleteOutboxEvent(d) \/ FailOutboxEvent(d)
    <3> PICK d \in Drainers : CompleteOutboxEvent(d) \/ FailOutboxEvent(d)
      BY <2>4
    <3>1. Owns(d, drainer[d].event) => drainer[d].event # e
      BY <2>1 DEF Owns
    <3> QED BY <2>1, <3>1 DEF CompleteOutboxEvent, FailOutboxEvent
  <2>5. ~UNCHANGED outbox
    OBVIOUS
  <2> QED BY <1>1, <2>2, <2>3, <2>4, <2>5
          DEF Next, Drain, Poll, Calls, Time, Callers, Crashes, vars, outboxVars, DrainerAppends, DrainerFinds,
              DrainerFails, DrainerCommits, DrainerAborts, DrainerCrashes, RequestAppends, RequestCommits,
              RequestAborts, Subscribe, Unsubscribe, PauseOrResume, LeaseDelivery, DeliveryLapses, DeliveryDue,
              CallEnds, CompleteDelivery, RetryDelivery, DeadLetter, Settle, WorkerCrashes
<1>2. IInv /\ [Next]_vars => [\A e \in OutboxEvents : Settled(e)]_vars
  BY <1>1
<1> QED BY Invariance, <1>2, PTL DEF Spec, LapsedClaimSettlesNothing
====
