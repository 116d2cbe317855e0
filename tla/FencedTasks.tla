---- MODULE FencedTasks ----
(***************************************************************************)
(* What the durable job table promises to the rest of the system, without  *)
(* tokens, clocks, attempts or SQL: a task is held by at most one holder   *)
(* at a time, every grant carries a strictly larger epoch than all earlier *)
(* ones, a task that is held is settled by the caller who holds it and by  *)
(* nobody with an older epoch, and a finished task is never reopened.  The *)
(* system may abandon a task at any moment, and an operator may reopen it; *)
(* its epochs go on from where they stopped.                               *)
(*                                                                         *)
(* Who settles is the caller, not the table: "by" is the epoch the caller  *)
(* has shown, which the record keeps until the next grant.                 *)
(***************************************************************************)
EXTENDS Naturals

CONSTANT Tasks
VARIABLE task   \* task[t] = [phase, holder, epoch, by]; 0 is nobody

Phases == {"none", "open", "finished", "abandoned"}

FreshTask == [phase |-> "none", holder |-> 0, epoch |-> 0, by |-> 0]

(* One task's possible changes, old record t to new record u. *)
Submit(t, u) == /\ t.phase = "none"
                /\ u = [t EXCEPT !.phase = "open"]

Grant(t, u) == /\ t.phase = "open" /\ t.holder = 0
               /\ u = [t EXCEPT !.holder = t.epoch + 1, !.epoch = t.epoch + 1, !.by = 0]

(* The holder's time runs out. *)
Lapse(t, u) == /\ t.phase = "open" /\ t.holder # 0
               /\ u = [t EXCEPT !.holder = 0]

(* Somebody settles the task: gives it back, finishes it or abandons it.   *)
(* It was the holder.                                                      *)
Settle(t, u) == /\ t.phase = "open" /\ t.holder # 0
                /\ \E phase \in {"open", "finished", "abandoned"} :
                     u = [t EXCEPT !.phase = phase, !.holder = 0, !.by = t.holder]

(* An operator, a revocation, or no attempt is left. *)
Abandon(t, u) == /\ t.phase = "open"
                 /\ u = [t EXCEPT !.phase = "abandoned", !.holder = 0]

Reopen(t, u) == /\ t.phase = "abandoned"
                /\ u = [t EXCEPT !.phase = "open"]

Step(t, u) == \/ Submit(t, u) \/ Grant(t, u) \/ Lapse(t, u)
              \/ Settle(t, u) \/ Abandon(t, u) \/ Reopen(t, u)

Init == task = [t \in Tasks |-> FreshTask]

(* A database transaction may move several tasks at once. *)
Next == /\ DOMAIN task' = Tasks
        /\ \A t \in Tasks : task'[t] = task[t] \/ Step(task[t], task'[t])

Spec == Init /\ [][Next]_task
====
