---- MODULE DurableJobs_proofs ----
(***************************************************************************)
(* Proofs about DurableJobs, for any number of jobs, keys and users and    *)
(* any lease length, attempt budget and batch size.                        *)
(*                                                                         *)
(* RowsAgree is not inductive as it stands: it needs to know that an       *)
(* attempt a revocation has marked stays the open attempt it was, and that *)
(* a running job whose attempt is marked is doomed once the second         *)
(* statement has run (MarksHold).  Of the same invariant it follows that   *)
(* keys stand for one job, that only a revocation leaves an attempt        *)
(* running, and that rows are FencedTasks.                                 *)
(***************************************************************************)
EXTENDS DurableJobs, SequenceTheorems, TLAPS

----------------------------------------------------------------------------
(* Attempt logs *)

Log == Seq(AttemptStatuses)

(* Closing an attempt changes at most that entry, and only if it is open. *)
LEMMA CloseAttemptShape ==
  ASSUME NEW log \in Log, NEW n, NEW outcome \in AttemptStatuses
  PROVE  /\ CloseAttempt(log, n, outcome) \in Log
         /\ Len(CloseAttempt(log, n, outcome)) = Len(log)
         /\ DOMAIN CloseAttempt(log, n, outcome) = 1 .. Len(log)
         /\ \A i \in 1 .. Len(log) :
              CloseAttempt(log, n, outcome)[i] =
                IF i = n /\ log[i] = "running" THEN outcome ELSE log[i]
<1> DEFINE c == CloseAttempt(log, n, outcome)
<1>1. Len(log) \in Nat /\ DOMAIN log = 1 .. Len(log) /\ \A i \in 1 .. Len(log) : log[i] \in AttemptStatuses
  BY DEF Log
<1>2. c \in [1 .. Len(log) -> AttemptStatuses]
  BY <1>1 DEF CloseAttempt
<1>3. c \in Log
  BY <1>1, <1>2, SeqDef DEF Log
<1>4. Len(c) = Len(log)
  BY <1>1, <1>2, <1>3 DEF Log
<1> QED
  BY <1>1, <1>2, <1>3, <1>4 DEF CloseAttempt

(* A new attempt leaves the entries before it as they are. *)
LEMMA AppendShape ==
  ASSUME NEW log \in Log
  PROVE  /\ Append(log, "running") \in Log
         /\ Len(Append(log, "running")) = Len(log) + 1
         /\ Append(log, "running")[Len(log) + 1] = "running"
         /\ \A i \in 1 .. Len(log) : Append(log, "running")[i] = log[i]
BY DEF Log, AttemptStatuses

----------------------------------------------------------------------------
(* What one row and its log may become *)

Agrees(row, log) == RowAgrees(row, log) /\ SuccessAgrees(row, log)

(* Closing the last, running attempt of a row whose lease is taken off.    *)
LEMMA UnleasedAgrees ==
  ASSUME NEW row \in JobRow, NEW log \in Log, NEW n \in Nat, NEW w \in Nat, NEW b \in Nat,
         NEW status \in Terminal \cup {"pending"}, NEW outcome \in AttemptStatuses,
         Agrees(row, log), row.status = "running", n = row.attempt,
         outcome # "running", status = "pending" => row.attempt < row.max,
         outcome = "succeeded" <=> status = "succeeded"
  PROVE  /\ [Unleased(row, status) EXCEPT !.wait = w, !.by = b] \in JobRow
         /\ Agrees([Unleased(row, status) EXCEPT !.wait = w, !.by = b],
                   CloseAttempt(log, n, outcome))
<1> DEFINE u == [Unleased(row, status) EXCEPT !.wait = w, !.by = b]
           c == CloseAttempt(log, n, outcome)
<1>1. u \in JobRow
  BY DEF JobRow, Unleased, Statuses, Terminal
<1>2. /\ u.status = status /\ u.token = 0 /\ u.lease = 0 /\ u.wait = w
      /\ u.attempt = row.attempt /\ u.fence = row.fence /\ u.max = row.max
  BY DEF JobRow, Unleased
<1>3. /\ Len(c) = Len(log) /\ Len(log) \in Nat
      /\ \A i \in 1 .. Len(log) : c[i] = IF i = n /\ log[i] = "running" THEN outcome ELSE log[i]
  BY CloseAttemptShape DEF Log
<1>4. RowAgrees(u, c)
  BY <1>2, <1>3 DEF RowAgrees, Agrees, Terminal
<1>5. SuccessAgrees(u, c)
  <2>1. /\ row.attempt = Len(log) /\ Len(log) > 0 /\ log[Len(log)] = "running"
        /\ \A i \in 1 .. Len(log) : log[i] # "succeeded"
    BY DEF Agrees, RowAgrees, SuccessAgrees
  <2> QED
    BY <1>2, <1>3, <2>1 DEF SuccessAgrees
<1> QED
  BY <1>1, <1>4, <1>5 DEF Agrees

(* Recovered closes what it should, and leaves no success behind. *)
LEMMA RecoveredShape ==
  ASSUME NEW j \in Jobs, job[j] \in JobRow, attempts[j] \in Log,
         NEW outcome \in {"failed", "dead"}
  PROVE  /\ Recovered(j, outcome) \in Log
         /\ Len(Recovered(j, outcome)) = Len(attempts[j])
         /\ \A i \in 1 .. Len(attempts[j]) :
              Recovered(j, outcome)[i] =
                IF Expired(j) /\ i = job[j].attempt /\ attempts[j][i] = "running"
                THEN outcome ELSE attempts[j][i]
<1>1. outcome \in AttemptStatuses
  BY DEF AttemptStatuses
<1> QED
  BY <1>1, CloseAttemptShape DEF Recovered

(* Leasing a row under a new attempt makes a running row that agrees.      *)
LEMMA LeasedAgrees ==
  ASSUME NEW row \in JobRow, NEW old \in Log, NEW log \in Log,
         Agrees(row, old), Len(log) = Len(old),
         \A i \in 1 .. Len(old) : log[i] = "succeeded" => old[i] = "succeeded",
         row.status \in {"pending", "running"}, row.wait = 0, row.attempt < row.max
  PROVE  /\ Leased(row, Len(old) + 1) \in JobRow
         /\ Agrees(Leased(row, Len(old) + 1), Append(log, "running"))
<1> DEFINE u == Leased(row, Len(old) + 1)
           a == Append(log, "running")
<1>0. Len(old) \in Nat
  BY DEF Log
<1>1. u \in JobRow
  <2>1. LeaseTTL \in Nat /\ "running" \in Statuses
    BY ConstantsAssumption DEF Statuses
  <2>2. row.fence + 1 \in Nat /\ row.attempt + 1 \in Nat /\ Len(old) + 1 \in Nat
    BY <1>0 DEF JobRow
  <2> HIDE DEF Log
  <2> QED
    BY <2>1, <2>2, ZenonT(30) DEF JobRow, Leased
<1>2. /\ u.status = "running" /\ u.token = Len(old) + 1 /\ u.wait = 0
      /\ u.attempt = row.attempt + 1 /\ u.fence = row.fence + 1 /\ u.max = row.max
  BY DEF JobRow, Leased
<1>3. /\ Len(a) = Len(old) + 1 /\ a[Len(old) + 1] = "running"
      /\ \A i \in 1 .. Len(old) : a[i] = log[i]
  BY AppendShape
<1>4. RowAgrees(u, a)
  BY <1>0, <1>2, <1>3 DEF RowAgrees, Agrees, JobRow
<1>5. SuccessAgrees(u, a)
  <2>1. \A i \in 1 .. Len(old) : log[i] # "succeeded"
    BY DEF Agrees, SuccessAgrees
  <2> QED
    BY <1>0, <1>2, <1>3, <2>1 DEF SuccessAgrees
<1> QED
  BY <1>1, <1>4, <1>5 DEF Agrees

----------------------------------------------------------------------------
(* The inductive invariant *)

KeysKnown == \A j \in Jobs : job[j].status # "absent" => job[j].key \in Keys

(* A row that was never inserted has no attempts. *)
AbsentIsFresh == \A j \in Jobs : job[j].status = "absent" => Len(attempts[j]) = 0

IInv == TypeOK /\ AbsentIsFresh /\ RowsAgree /\ SuccessIsRecorded /\ KeysKnown /\ MarksHold

(* A step that leaves the triggers alone either changes nothing of a job   *)
(* that the triggers' marks depend on,                                     *)
Kept(j) == /\ job'[j].status = job[j].status /\ job'[j].key = job[j].key
           /\ job'[j].attempt = job[j].attempt /\ attempts'[j] = attempts[j]

(* or moves a job that is not doomed and keeps its marked attempts open.   *)
Moved(j) == /\ j \notin doomed
            /\ job'[j].status # "absent" /\ job'[j].key \in Keys
            /\ job[j].status # "absent" => job'[j].key = job[j].key
            /\ \A n \in Nat : <<j, n>> \in marked =>
                 /\ n \in 1 .. Len(attempts'[j]) /\ attempts'[j][n] = "running"
                 /\ ~ (job'[j].status = "running" /\ n = job'[j].attempt)

(* A step preserves the invariant that makes every row agree with its log  *)
(* and keeps or moves each job.                                            *)
LEMMA JobStepPreserves ==
  ASSUME IInv, UNCHANGED cascadeVars,
         job' \in [Jobs -> JobRow], attempts' \in [Jobs -> Log], idem' \in [Keys -> IdemRecord],
         \A j \in Jobs : Agrees(job'[j], attempts'[j]) /\ (Kept(j) \/ Moved(j))
  PROVE  IInv'
<1>1. TypeOK'
  BY DEF IInv, TypeOK, cascadeVars, Log
<1>2. RowsAgree' /\ SuccessIsRecorded'
  BY DEF RowsAgree, SuccessIsRecorded, Agrees
<1>3. KeysKnown' /\ AbsentIsFresh'
  BY DEF KeysKnown, AbsentIsFresh, IInv, Kept, Moved
<1>4. MarksHold'
  <2> USE DEF cascadeVars
  <2>1. \A j \in doomed' : /\ job'[j].status \in {"pending", "running"}
                           /\ cascade'[ActorOf[job'[j].key]] = "jobs"
    BY DEF IInv, TypeOK, MarksHold, Kept, Moved
  <2>2. ASSUME NEW m \in marked'
        PROVE  /\ m[2] \in 1 .. Len(attempts'[m[1]]) /\ attempts'[m[1]][m[2]] = "running"
               /\ job'[m[1]].status # "absent" /\ cascade'[ActorOf[job'[m[1]].key]] # "idle"
               /\ (/\ job'[m[1]].status = "running" /\ m[2] = job'[m[1]].attempt
                   /\ cascade'[ActorOf[job'[m[1]].key]] = "jobs") => m[1] \in doomed'
    <3>1. PICK j \in Jobs, n \in Nat : m = <<j, n>>
      BY DEF IInv, TypeOK
    <3>2. /\ n \in 1 .. Len(attempts[j]) /\ attempts[j][n] = "running"
          /\ job[j].status # "absent" /\ cascade[ActorOf[job[j].key]] # "idle"
          /\ (/\ job[j].status = "running" /\ n = job[j].attempt
              /\ cascade[ActorOf[job[j].key]] = "jobs") => j \in doomed
      BY <2>2, <3>1 DEF IInv, MarksHold
    <3>3. CASE Kept(j)
      BY <3>1, <3>2, <3>3 DEF Kept
    <3>4. CASE Moved(j)
      BY <2>2, <3>1, <3>2, <3>4 DEF Moved
    <3> QED
      BY <3>3, <3>4
  <2> QED
    BY <2>1, <2>2 DEF MarksHold
<1> QED
  BY <1>1, <1>2, <1>3, <1>4 DEF IInv

(* The marks of a job whose last attempt is free are of earlier attempts.  *)
LEMMA FreeMarks ==
  ASSUME IInv, NEW j \in Jobs, NEW n \in Nat, <<j, n>> \in marked
  PROVE  /\ n \in 1 .. Len(attempts[j]) /\ attempts[j][n] = "running"
         /\ AttemptFree(j) => n # job[j].attempt
<1> DEFINE m == <<j, n>>
<1>1. m \in marked /\ m[1] = j /\ m[2] = n
  OBVIOUS
<1>2. n \in 1 .. Len(attempts[j]) /\ attempts[j][n] = "running"
  BY <1>1 DEF IInv, MarksHold
<1> QED
  BY <1>2 DEF AttemptFree

----------------------------------------------------------------------------
(* Each action preserves the invariant *)

(* Settling an attempt keeps the invariant: the row leaves running, its    *)
(* attempt is closed, and no revocation had marked either.                 *)
LEMMA SettlePreserves ==
  ASSUME IInv, NEW j \in Jobs, NEW t, NEW status \in Terminal \cup {"pending"},
         NEW outcome \in AttemptStatuses, NEW delay \in Nat,
         Settle(j, t, status, outcome, delay), idem' \in [Keys -> IdemRecord],
         outcome # "running", status = "pending" => job[j].attempt < job[j].max,
         outcome = "succeeded" <=> status = "succeeded"
  PROVE  IInv'
<1> DEFINE u == [Unleased(job[j], status) EXCEPT !.wait = delay, !.by = t]
           c == CloseAttempt(attempts[j], job[j].attempt, outcome)
<1>1. /\ job[j] \in JobRow /\ attempts[j] \in Log /\ job[j].attempt \in Nat
      /\ Agrees(job[j], attempts[j]) /\ job[j].status = "running" /\ t \in Nat
  BY DEF IInv, TypeOK, Log, RowsAgree, SuccessIsRecorded, Agrees, Settle, Holds, JobRow
<1>2. u \in JobRow /\ Agrees(u, c)
  BY <1>1, UnleasedAgrees
<1>3. /\ c \in Log /\ Len(c) = Len(attempts[j])
      /\ \A i \in 1 .. Len(attempts[j]) : i # job[j].attempt => c[i] = attempts[j][i]
  BY <1>1, CloseAttemptShape
<1>4. /\ job' = [job EXCEPT ![j] = u] /\ attempts' = [attempts EXCEPT ![j] = c]
      /\ UNCHANGED cascadeVars /\ RowFree(j) /\ AttemptFree(j)
  BY DEF Settle
<1>5. /\ job' \in [Jobs -> JobRow] /\ attempts' \in [Jobs -> Log]
      /\ job'[j] = u /\ attempts'[j] = c
      /\ \A i \in Jobs \ {j} : job'[i] = job[i] /\ attempts'[i] = attempts[i]
  BY <1>2, <1>3, <1>4 DEF IInv, TypeOK, Log
<1>6. Moved(j)
  <2>1. u.status = status /\ u.key = job[j].key
    BY <1>1 DEF Unleased, JobRow
  <2>2. \A n \in Nat : <<j, n>> \in marked => n \in 1 .. Len(c) /\ c[n] = "running"
    BY <1>3, <1>4, FreeMarks
  <2> QED
    BY <1>1, <1>4, <1>5, <2>1, <2>2 DEF Moved, RowFree, IInv, KeysKnown, Terminal
<1>7. \A i \in Jobs : Agrees(job'[i], attempts'[i]) /\ (Kept(i) \/ Moved(i))
  <2>1. ASSUME NEW i \in Jobs \ {j} PROVE Agrees(job'[i], attempts'[i]) /\ Kept(i)
    BY <1>5 DEF IInv, RowsAgree, SuccessIsRecorded, Agrees, Kept
  <2> QED
    BY <1>2, <1>5, <1>6, <2>1
<1> QED
  BY <1>4, <1>5, <1>7, JobStepPreserves

(* Taking over or leasing a job moves it as Moved says, under a fresh      *)
(* attempt that nothing has marked.                                        *)
LEMMA LeaseMoves ==
  ASSUME IInv, NEW j \in Jobs, Leasable(j), job[j].attempt < job[j].max,
         job'[j] = Leased(job[j], Len(attempts[j]) + 1),
         attempts'[j] = Append(Recovered(j, "failed"), "running")
  PROVE  /\ job'[j] \in JobRow /\ attempts'[j] \in Log
         /\ Agrees(job'[j], attempts'[j]) /\ Moved(j)
<1> DEFINE r == Recovered(j, "failed")
<1>1. /\ job[j] \in JobRow /\ attempts[j] \in Log /\ Agrees(job[j], attempts[j])
      /\ job[j].status \in {"pending", "running"} /\ job[j].wait = 0 /\ RowFree(j)
  BY DEF IInv, TypeOK, Log, RowsAgree, SuccessIsRecorded, Agrees, Leasable, Expired
<1>2. /\ r \in Log /\ Len(r) = Len(attempts[j]) /\ Len(attempts[j]) \in Nat
      /\ \A i \in 1 .. Len(attempts[j]) :
           r[i] = IF Expired(j) /\ i = job[j].attempt /\ attempts[j][i] = "running"
                  THEN "failed" ELSE attempts[j][i]
  BY <1>1, RecoveredShape DEF Log
<1>3. /\ attempts'[j] \in Log /\ Len(attempts'[j]) = Len(attempts[j]) + 1
      /\ \A i \in 1 .. Len(attempts[j]) : attempts'[j][i] = r[i]
  BY <1>2, AppendShape
<1>4. job'[j] \in JobRow /\ Agrees(job'[j], attempts'[j])
  <2>1. \A i \in 1 .. Len(attempts[j]) : r[i] = "succeeded" => attempts[j][i] = "succeeded"
    BY <1>2
  <2> QED
    BY <1>1, <1>2, <2>1, LeasedAgrees
<1>5. /\ job'[j].status = "running" /\ job'[j].key = job[j].key
      /\ job'[j].attempt = job[j].attempt + 1 /\ job[j].attempt = Len(attempts[j])
  BY <1>1 DEF Leased, JobRow, Agrees, RowAgrees
<1>6. \A n \in Nat : <<j, n>> \in marked =>
        /\ n \in 1 .. Len(attempts'[j]) /\ attempts'[j][n] = "running"
        /\ n # job'[j].attempt
  <2>1. ASSUME NEW n \in Nat, <<j, n>> \in marked
        PROVE  n \in 1 .. Len(attempts[j]) /\ r[n] = "running"
    BY <1>2, <2>1, FreeMarks DEF Leasable
  <2> QED
    BY <1>2, <1>3, <1>5, <2>1
<1> QED
  BY <1>1, <1>3, <1>4, <1>5, <1>6 DEF Moved, RowFree, IInv, KeysKnown

(* So does retiring one that has no attempts left. *)
LEMMA RetireMoves ==
  ASSUME IInv, NEW j \in Jobs, Expired(j), RowFree(j), AttemptFree(j),
         NEW outcome \in {"failed", "dead"},
         job'[j] = Unleased(job[j], "dead"), attempts'[j] = Recovered(j, outcome)
  PROVE  /\ job'[j] \in JobRow /\ attempts'[j] \in Log
         /\ Agrees(job'[j], attempts'[j]) /\ Moved(j)
<1>1. /\ job[j] \in JobRow /\ attempts[j] \in Log /\ Agrees(job[j], attempts[j])
      /\ job[j].status = "running" /\ job[j].attempt \in Nat /\ job[j].wait \in Nat
      /\ job[j].by \in Nat
  BY DEF IInv, TypeOK, Log, RowsAgree, SuccessIsRecorded, Agrees, Expired, JobRow
<1>2. attempts'[j] = CloseAttempt(attempts[j], job[j].attempt, outcome)
  BY DEF Recovered
<1>3. job'[j] = [Unleased(job[j], "dead") EXCEPT !.wait = job[j].wait, !.by = job[j].by]
  BY <1>1 DEF Unleased, JobRow
<1>4. outcome \in AttemptStatuses /\ "dead" \in Terminal \cup {"pending"}
  BY DEF AttemptStatuses, Terminal
<1>5. job'[j] \in JobRow /\ Agrees(job'[j], attempts'[j])
  <2> DEFINE u == [Unleased(job[j], "dead") EXCEPT !.wait = job[j].wait, !.by = job[j].by]
             c == CloseAttempt(attempts[j], job[j].attempt, outcome)
  <2>1. u \in JobRow /\ Agrees(u, c)
    BY <1>1, <1>4, UnleasedAgrees
  <2> QED BY <1>2, <1>3, <2>1
<1>6. /\ attempts'[j] \in Log /\ Len(attempts'[j]) = Len(attempts[j])
      /\ \A i \in 1 .. Len(attempts[j]) :
           i # job[j].attempt => attempts'[j][i] = attempts[j][i]
  BY <1>1, <1>2, <1>4, CloseAttemptShape
<1>7. Moved(j)
  <2>1. job'[j].status = "dead" /\ job'[j].key = job[j].key
    BY <1>1 DEF Unleased, JobRow
  <2>2. \A n \in Nat : <<j, n>> \in marked =>
          n \in 1 .. Len(attempts'[j]) /\ attempts'[j][n] = "running"
    BY <1>6, FreeMarks
  <2> QED
    BY <1>1, <2>1, <2>2 DEF Moved, RowFree, IInv, KeysKnown
<1> QED
  BY <1>5, <1>6, <1>7

(* A transaction that moves some jobs and keeps the rest. *)
LEMMA MovesPreserve ==
  ASSUME IInv, UNCHANGED cascadeVars, idem' \in [Keys -> IdemRecord],
         NEW M \in SUBSET Jobs, DOMAIN job' = Jobs, DOMAIN attempts' = Jobs,
         job' = [j \in Jobs |-> job'[j]], attempts' = [j \in Jobs |-> attempts'[j]],
         \A j \in M : /\ job'[j] \in JobRow /\ attempts'[j] \in Log
                      /\ Agrees(job'[j], attempts'[j]) /\ Moved(j),
         \A j \in Jobs \ M : job'[j] = job[j] /\ attempts'[j] = attempts[j]
  PROVE  IInv'
<1>1. \A j \in Jobs : /\ job'[j] \in JobRow /\ attempts'[j] \in Log
                      /\ Agrees(job'[j], attempts'[j]) /\ (Kept(j) \/ Moved(j))
  BY DEF IInv, TypeOK, Log, RowsAgree, SuccessIsRecorded, Agrees, Kept
<1>2. job' \in [Jobs -> JobRow] /\ attempts' \in [Jobs -> Log]
  BY <1>1
<1> QED
  BY <1>1, <1>2, JobStepPreserves

(* LeaseDurableJob, whichever way it ends, keeps the invariant. *)
LEMMA LeasePreserves ==
  ASSUME IInv, NEW j \in Jobs, LeaseDurableJob(j) \/ ExhaustDurableJob(j)
  PROVE  IInv'
<1>1. job \in [Jobs -> JobRow] /\ attempts \in [Jobs -> Log] /\ idem \in [Keys -> IdemRecord]
  BY DEF IInv, TypeOK, Log
<1>2. CASE LeaseDurableJob(j)
  <2>1. /\ Leasable(j) /\ job[j].attempt < job[j].max
        /\ job'[j] = Leased(job[j], Len(attempts[j]) + 1)
        /\ attempts'[j] = Append(Recovered(j, "failed"), "running")
    BY <1>1, <1>2 DEF LeaseDurableJob
  <2>2. /\ job'[j] \in JobRow /\ attempts'[j] \in Log
        /\ Agrees(job'[j], attempts'[j]) /\ Moved(j)
    BY <2>1, LeaseMoves
  <2>3. /\ UNCHANGED <<idem, cascadeVars>>
        /\ job' = [i \in Jobs |-> job'[i]] /\ attempts' = [i \in Jobs |-> attempts'[i]]
        /\ DOMAIN job' = Jobs /\ DOMAIN attempts' = Jobs
        /\ \A i \in Jobs \ {j} : job'[i] = job[i] /\ attempts'[i] = attempts[i]
    BY <1>1, <1>2 DEF LeaseDurableJob
  <2> QED
    BY <1>1, <2>2, <2>3, MovesPreserve, {j} \in SUBSET Jobs
<1>3. CASE ExhaustDurableJob(j)
  <2>1. Expired(j) /\ RowFree(j) /\ AttemptFree(j)
    BY <1>3 DEF ExhaustDurableJob, Leasable, IInv, TypeOK, JobRow, RowsAgree, RowAgrees
  <2>2. job'[j] = Unleased(job[j], "dead") /\ attempts'[j] = Recovered(j, "failed")
    BY <1>1, <1>3 DEF ExhaustDurableJob
  <2>3. /\ job'[j] \in JobRow /\ attempts'[j] \in Log
        /\ Agrees(job'[j], attempts'[j]) /\ Moved(j)
    BY <2>1, <2>2, RetireMoves
  <2>4. /\ UNCHANGED <<idem, cascadeVars>>
        /\ job' = [i \in Jobs |-> job'[i]] /\ attempts' = [i \in Jobs |-> attempts'[i]]
        /\ DOMAIN job' = Jobs /\ DOMAIN attempts' = Jobs
        /\ \A i \in Jobs \ {j} : job'[i] = job[i] /\ attempts'[i] = attempts[i]
    BY <1>1, <1>3 DEF ExhaustDurableJob
  <2> QED
    BY <1>1, <2>3, <2>4, MovesPreserve, {j} \in SUBSET Jobs
<1> QED
  BY <1>2, <1>3

(* LeaseDurableJobs keeps it: each job of the transaction moves by itself. *)
LEMMA BatchPreserves ==
  ASSUME IInv, NEW batch \in SUBSET Jobs, LeaseDurableJobs(batch)
  PROVE  IInv'
<1> DEFINE M == Retirable \cup batch
<1>1. idem' \in [Keys -> IdemRecord] /\ UNCHANGED cascadeVars /\ batch \subseteq Due
  BY DEF IInv, TypeOK, LeaseDurableJobs
<1>2. ASSUME NEW j \in Retirable
      PROVE  /\ job'[j] \in JobRow /\ attempts'[j] \in Log
             /\ Agrees(job'[j], attempts'[j]) /\ Moved(j)
  <2>1. j \in Jobs /\ Expired(j) /\ RowFree(j) /\ AttemptFree(j)
    BY DEF LeaseDurableJobs, Retirable
  <2>2. job'[j] = Unleased(job[j], "dead") /\ attempts'[j] = Recovered(j, "dead")
    BY <2>1 DEF LeaseDurableJobs
  <2> QED
    BY <2>1, <2>2, RetireMoves
<1>3. ASSUME NEW j \in batch \ Retirable
      PROVE  /\ job'[j] \in JobRow /\ attempts'[j] \in Log
             /\ Agrees(job'[j], attempts'[j]) /\ Moved(j)
  <2>1. j \in Jobs /\ Leasable(j) /\ job[j].attempt < job[j].max
    BY <1>1 DEF LeaseDurableJobs, Due, Leasable
  <2>2. /\ job'[j] = Leased(job[j], Len(attempts[j]) + 1)
        /\ attempts'[j] = Append(Recovered(j, "failed"), "running")
    BY <2>1 DEF LeaseDurableJobs
  <2> QED
    BY <2>1, <2>2, LeaseMoves
<1>4. M \in SUBSET Jobs
  BY DEF Retirable
<1>5. /\ job' = [j \in Jobs |-> job'[j]] /\ attempts' = [j \in Jobs |-> attempts'[j]]
      /\ DOMAIN job' = Jobs /\ DOMAIN attempts' = Jobs
      /\ \A j \in Jobs \ M : job'[j] = job[j] /\ attempts'[j] = attempts[j]
  BY DEF LeaseDurableJobs
<1> QED
  BY <1>1, <1>2, <1>3, <1>4, <1>5, MovesPreserve

(* A job that is not running may change its row alone. *)
LEMMA RowPreserves ==
  ASSUME IInv, UNCHANGED <<attempts, cascadeVars>>, idem' \in [Keys -> IdemRecord],
         NEW j \in Jobs, RowFree(j), NEW row \in JobRow, job' = [job EXCEPT ![j] = row],
         Agrees(row, attempts[j]), row.status \notin {"absent", "running"}, row.key \in Keys,
         job[j].status # "absent" => row.key = job[j].key
  PROVE  IInv'
<1>1. job \in [Jobs -> JobRow] /\ attempts \in [Jobs -> Log]
  BY DEF IInv, TypeOK, Log
<1>2. /\ job'[j] = row /\ job' \in [Jobs -> JobRow] /\ attempts' \in [Jobs -> Log]
      /\ attempts' = attempts /\ \A i \in Jobs \ {j} : job'[i] = job[i]
  BY <1>1
<1>3. Moved(j)
  BY <1>2, FreeMarks DEF Moved, RowFree
<1>4. \A i \in Jobs : Agrees(job'[i], attempts'[i]) /\ (Kept(i) \/ Moved(i))
  BY <1>2, <1>3 DEF IInv, RowsAgree, SuccessIsRecorded, Agrees, Kept
<1> QED
  BY <1>2, <1>4, JobStepPreserves

(* EnqueueDurableJob keeps it: the new job has no attempts and no marks. *)
LEMMA EnqueuePreserves ==
  ASSUME IInv, NEW k \in Keys, NEW p \in Payloads, NEW skew \in Delays, EnqueueDurableJob(k, p, skew)
  PROVE  IInv'
<1>1. PICK j \in Jobs :
        /\ job[j].status = "absent"
        /\ job' = [job EXCEPT ![j] = [AbsentRow EXCEPT !.status = "pending", !.key = k,
                                        !.payload = p, !.max = MaxAttempts, !.wait = skew]]
        /\ idem' = [idem EXCEPT ![k] = [payload |-> p, job |-> j]]
  BY DEF EnqueueDurableJob
<1> DEFINE row == [AbsentRow EXCEPT !.status = "pending", !.key = k,
                                    !.payload = p, !.max = MaxAttempts, !.wait = skew]
<1>2. MaxAttempts \in Nat /\ MaxAttempts > 0 /\ skew \in Nat
  BY ConstantsAssumption
<1>3. /\ row \in JobRow /\ row.status = "pending" /\ row.key = k /\ row.max = MaxAttempts
      /\ row.attempt = 0 /\ row.fence = 0 /\ row.token = 0 /\ row.lease = 0
  BY <1>2 DEF AbsentRow, JobRow, Statuses
<1>4. RowFree(j)
  BY <1>1 DEF IInv, MarksHold, RowFree
<1>5. idem' \in [Keys -> IdemRecord]
  BY <1>1 DEF IInv, TypeOK, IdemRecord
<1>6. Agrees(row, attempts[j])
  <2>1. Agrees(job[j], attempts[j]) /\ attempts[j] \in Log /\ job[j] \in JobRow
    BY DEF IInv, RowsAgree, SuccessIsRecorded, Agrees, TypeOK, Log
  <2>2. Len(attempts[j]) = 0
    BY <1>1, <2>1 DEF IInv, AbsentIsFresh
  <2> QED
    BY <1>2, <1>3, <2>1, <2>2 DEF Agrees, RowAgrees, SuccessAgrees
<1>7. UNCHANGED <<attempts, cascadeVars>>
  BY DEF EnqueueDurableJob
<1> QED
  BY <1>1, <1>3, <1>4, <1>5, <1>6, <1>7, RowPreserves

(* CancelOperationJob keeps it: the job was pending and had no lease. *)
LEMMA CancelPreserves ==
  ASSUME IInv, NEW j \in Jobs, CancelOperationJob(j)
  PROVE  IInv'
<1> DEFINE row == [job[j] EXCEPT !.status = "failed"]
<1>1. /\ job[j] \in JobRow /\ Agrees(job[j], attempts[j]) /\ job[j].status = "pending"
      /\ job[j].key \in Keys
  BY DEF IInv, TypeOK, RowsAgree, SuccessIsRecorded, Agrees, CancelOperationJob, KeysKnown
<1>2. /\ row \in JobRow /\ row.status = "failed" /\ row.key = job[j].key
      /\ row.attempt = job[j].attempt /\ row.fence = job[j].fence /\ row.max = job[j].max
      /\ row.token = job[j].token /\ row.lease = job[j].lease
  BY <1>1 DEF JobRow, Statuses, Terminal
<1>3. Agrees(row, attempts[j])
  BY <1>1, <1>2 DEF Agrees, RowAgrees, SuccessAgrees
<1>4. /\ UNCHANGED <<attempts, cascadeVars>> /\ idem' \in [Keys -> IdemRecord]
      /\ job' = [job EXCEPT ![j] = row] /\ RowFree(j)
  BY DEF CancelOperationJob, IInv, TypeOK
<1> QED
  BY <1>1, <1>2, <1>3, <1>4, RowPreserves

(* RetryOperationJob keeps it: the budget it grants leaves an attempt.     *)
LEMMA RetryPreserves ==
  ASSUME IInv, NEW j \in Jobs, RetryOperationJob(j)
  PROVE  IInv'
<1> DEFINE max == Larger(job[j].max, job[j].attempt + RetryGrant)
           row == [job[j] EXCEPT !.status = "pending", !.wait = 0, !.max = max]
<1>1. /\ job[j] \in JobRow /\ Agrees(job[j], attempts[j])
      /\ job[j].status \in {"failed", "dead", "revoked"} /\ job[j].key \in Keys
  BY DEF IInv, TypeOK, RowsAgree, SuccessIsRecorded, Agrees, RetryOperationJob, KeysKnown
<1>2. max \in Nat /\ max > job[j].attempt
  BY <1>1, ConstantsAssumption DEF JobRow, Larger
<1>3. /\ row \in JobRow /\ row.status = "pending" /\ row.key = job[j].key
      /\ row.attempt = job[j].attempt /\ row.fence = job[j].fence /\ row.max = max
      /\ row.token = job[j].token /\ row.lease = job[j].lease
  BY <1>1, <1>2 DEF JobRow, Statuses
<1>4. Agrees(row, attempts[j])
  <2>1. job[j].attempt \in Nat
    BY <1>1 DEF JobRow
  <2> QED
    BY <1>1, <1>2, <1>3, <2>1 DEF Agrees, RowAgrees, SuccessAgrees
<1>5. /\ UNCHANGED <<attempts, cascadeVars>> /\ idem' \in [Keys -> IdemRecord]
      /\ RowFree(j)
  BY DEF RetryOperationJob, IInv, TypeOK
<1>6. job' = [job EXCEPT ![j] = row]
  BY DEF RetryOperationJob
<1> QED
  BY <1>1, <1>3, <1>4, <1>5, <1>6, RowPreserves

(* The four calls that settle an attempt keep it. *)
LEMMA WorkerPreserves ==
  ASSUME IInv, NEW j \in Jobs, NEW t,
         \/ \E delay \in Delays : FailDurableJob(j, t, delay)
         \/ \E s \in {"revoked", "failed", "dead"} : TerminateDurableJob(j, t, s)
         \/ CompleteOperationJob(j, t)
         \/ SucceedPublish(j, t)
  PROVE  IInv'
<1>1. /\ job[j] \in JobRow /\ job[j].attempt \in Nat /\ job[j].max \in Nat /\ job[j].wait \in Nat
      /\ idem \in [Keys -> IdemRecord]
  BY DEF IInv, TypeOK, JobRow
<1>2. /\ {"revoked", "failed", "dead", "succeeded", "pending"} \subseteq Terminal \cup {"pending"}
      /\ {"revoked", "failed", "dead", "succeeded"} \subseteq AttemptStatuses \ {"running"}
  BY DEF Terminal, AttemptStatuses
<1>3. ASSUME NEW delay \in Delays, FailDurableJob(j, t, delay) PROVE IInv'
  <2>1. UNCHANGED idem /\ delay \in Nat
    BY <1>3, ConstantsAssumption DEF FailDurableJob
  <2>2. CASE job[j].attempt >= job[j].max
    <3>1. Settle(j, t, "dead", "dead", delay)
      BY <1>3, <2>2 DEF FailDurableJob
    <3> QED
      BY <1>1, <1>2, <2>1, <3>1, SettlePreserves
  <2>3. CASE ~ (job[j].attempt >= job[j].max)
    <3>1. Settle(j, t, "pending", "failed", delay) /\ job[j].attempt < job[j].max
      BY <1>1, <1>3, <2>3 DEF FailDurableJob
    <3> QED
      BY <1>1, <1>2, <2>1, <3>1, SettlePreserves
  <2> QED
    BY <2>2, <2>3
<1>4. ASSUME NEW s \in {"revoked", "failed", "dead"}, TerminateDurableJob(j, t, s) PROVE IInv'
  <2>1. UNCHANGED idem /\ Settle(j, t, s, s, job[j].wait)
    BY <1>4 DEF TerminateDurableJob
  <2> QED
    BY <1>1, <1>2, <2>1, SettlePreserves
<1>5. CASE CompleteOperationJob(j, t)
  <2>1. UNCHANGED idem /\ Settle(j, t, "succeeded", "succeeded", job[j].wait)
    BY <1>5 DEF CompleteOperationJob
  <2> QED
    BY <1>1, <1>2, <2>1, SettlePreserves
<1>6. CASE SucceedPublish(j, t)
  <2>1. Settle(j, t, "succeeded", "succeeded", job[j].wait)
    BY <1>6 DEF SucceedPublish
  <2>2. idem' \in [Keys -> IdemRecord]
    BY <1>1, <1>6 DEF SucceedPublish, IdemRecord
  <2> QED
    BY <1>1, <1>2, <2>1, <2>2, SettlePreserves
<1> QED
  BY <1>3, <1>4, <1>5, <1>6

(* The clock changes no status, attempt or token, and a job that waits for *)
(* nothing goes on waiting for nothing.                                    *)
LEMMA TickPreserves ==
  ASSUME IInv, Tick
  PROVE  IInv'
<1>1. \A n \in Nat : Countdown(n) \in Nat
  BY DEF Countdown
<1>2. Countdown(0) = 0
  BY DEF Countdown
<1>3. ASSUME NEW j \in Jobs
      PROVE  /\ job'[j] \in JobRow /\ attempts'[j] = attempts[j]
             /\ Agrees(job'[j], attempts'[j]) /\ Kept(j)
  <2> DEFINE row == [job[j] EXCEPT !.lease = Countdown(@), !.wait = Countdown(@)]
  <2>1. job[j] \in JobRow /\ Agrees(job[j], attempts[j])
    BY DEF IInv, TypeOK, RowsAgree, SuccessIsRecorded, Agrees
  <2>2. job'[j] = row /\ attempts'[j] = attempts[j]
    BY DEF Tick
  <2>3. Countdown(job[j].lease) \in Nat /\ Countdown(job[j].wait) \in Nat
    BY <1>1, <2>1 DEF JobRow
  <2> HIDE DEF row
  <2>4. /\ row \in JobRow
        /\ row.status = job[j].status /\ row.key = job[j].key /\ row.token = job[j].token
        /\ row.attempt = job[j].attempt /\ row.fence = job[j].fence /\ row.max = job[j].max
        /\ row.lease = Countdown(job[j].lease) /\ row.wait = Countdown(job[j].wait)
    BY <2>1, <2>3 DEF JobRow, row
  <2>5. Agrees(row, attempts[j])
    BY <1>2, <2>1, <2>4 DEF Agrees, RowAgrees, SuccessAgrees
  <2> QED
    BY <2>2, <2>4, <2>5 DEF Kept
<1>4. /\ UNCHANGED cascadeVars /\ job' \in [Jobs -> JobRow] /\ attempts' \in [Jobs -> Log]
      /\ idem' \in [Keys -> IdemRecord]
  <2>1. job' = [j \in Jobs |-> job'[j]]
    BY DEF Tick
  <2>2. job' \in [Jobs -> JobRow]
    BY <1>3, <2>1
  <2> QED
    BY <2>2 DEF Tick, IInv, TypeOK, Log
<1> QED
  BY <1>3, <1>4, JobStepPreserves

(* The first UPDATE of a revocation keeps it: what it marks is open, and   *)
(* its user's cascade is at the statement that excuses the job.            *)
LEMMA RevokeAttemptsPreserves ==
  ASSUME IInv, NEW a \in Actors, RevokeAttempts(a)
  PROVE  IInv'
<1>1. /\ UNCHANGED <<job, attempts, idem, doomed>>
      /\ cascade[a] = "idle" /\ cascade' = [cascade EXCEPT ![a] = "attempts"]
      /\ marked' = marked \cup UNION {OpenAttempts(j) : j \in ActiveJobsOf(a)}
  BY DEF RevokeAttempts, jobVars
<1>2. cascade \in [Actors -> {"idle", "attempts", "jobs"}]
  BY DEF IInv, TypeOK
<1>3. ASSUME NEW m \in marked' \ marked
      PROVE  /\ m \in Jobs \X Nat /\ job[m[1]].status # "absent" /\ ActorOf[job[m[1]].key] = a
             /\ m[2] \in 1 .. Len(attempts[m[1]]) /\ attempts[m[1]][m[2]] = "running"
  <2>1. PICK j \in ActiveJobsOf(a) : m \in OpenAttempts(j)
    BY <1>1
  <2>2. j \in Jobs /\ attempts[j] \in Seq(AttemptStatuses) /\ job[j].status # "absent"
        /\ ActorOf[job[j].key] = a
    BY DEF ActiveJobsOf, IInv, TypeOK
  <2>3. PICK n \in DOMAIN attempts[j] : m = <<j, n>> /\ attempts[j][n] = "running"
    BY <2>1 DEF OpenAttempts
  <2>4. n \in 1 .. Len(attempts[j]) /\ n \in Nat
    BY <2>2, <2>3
  <2> QED
    BY <2>2, <2>3, <2>4
<1>4. TypeOK'
  BY <1>1, <1>2, <1>3 DEF IInv, TypeOK
<1>5. MarksHold'
  <2>1. \A b \in Actors : (cascade'[b] = "jobs" <=> cascade[b] = "jobs")
                          /\ (cascade[b] # "idle" => cascade'[b] # "idle")
    BY <1>1, <1>2
  <2>2. \A j \in Jobs : job[j].status # "absent" => ActorOf[job[j].key] \in Actors
    BY ConstantsAssumption DEF IInv, KeysKnown
  <2>3. \A j \in doomed' : /\ job'[j].status \in {"pending", "running"}
                           /\ cascade'[ActorOf[job'[j].key]] = "jobs"
    BY <1>1, <2>1, <2>2 DEF IInv, TypeOK, MarksHold
  <2>4. ASSUME NEW m \in marked'
        PROVE  /\ m[2] \in 1 .. Len(attempts'[m[1]]) /\ attempts'[m[1]][m[2]] = "running"
               /\ job'[m[1]].status # "absent" /\ cascade'[ActorOf[job'[m[1]].key]] # "idle"
               /\ (/\ job'[m[1]].status = "running" /\ m[2] = job'[m[1]].attempt
                   /\ cascade'[ActorOf[job'[m[1]].key]] = "jobs") => m[1] \in doomed'
    <3>1. m[1] \in Jobs
      BY <1>4 DEF TypeOK
    <3>2. CASE m \in marked
      BY <1>1, <2>1, <2>2, <3>1, <3>2 DEF IInv, MarksHold
    <3>3. CASE m \notin marked
      BY <1>1, <1>2, <1>3, <3>3
    <3> QED
      BY <3>2, <3>3
  <2> QED
    BY <2>3, <2>4 DEF MarksHold
<1> QED
  BY <1>1, <1>4, <1>5 DEF IInv, RowsAgree, SuccessIsRecorded, KeysKnown, AbsentIsFresh

(* The second UPDATE keeps it: every job of the user that runs is doomed.  *)
LEMMA RevokeJobsPreserves ==
  ASSUME IInv, NEW a \in Actors, RevokeJobs(a)
  PROVE  IInv'
<1>1. /\ UNCHANGED <<job, attempts, idem, marked>>
      /\ cascade[a] = "attempts" /\ cascade' = [cascade EXCEPT ![a] = "jobs"]
      /\ doomed' = doomed \cup ActiveJobsOf(a)
  BY DEF RevokeJobs, jobVars
<1>2. cascade \in [Actors -> {"idle", "attempts", "jobs"}]
  BY DEF IInv, TypeOK
<1>3. TypeOK'
  BY <1>1, <1>2 DEF IInv, TypeOK, ActiveJobsOf
<1>4. MarksHold'
  <2>1. /\ cascade'[a] = "jobs" /\ \A b \in Actors \ {a} : cascade'[b] = cascade[b]
    BY <1>1, <1>2
  <2>2. \A j \in Jobs : job[j].status # "absent" => ActorOf[job[j].key] \in Actors
    BY ConstantsAssumption DEF IInv, KeysKnown
  <2>3. \A j \in doomed' : /\ job'[j].status \in {"pending", "running"}
                           /\ cascade'[ActorOf[job'[j].key]] = "jobs"
    BY <1>1, <2>1, <2>2 DEF IInv, TypeOK, MarksHold, ActiveJobsOf
  <2>4. ASSUME NEW m \in marked'
        PROVE  /\ m[2] \in 1 .. Len(attempts'[m[1]]) /\ attempts'[m[1]][m[2]] = "running"
               /\ job'[m[1]].status # "absent" /\ cascade'[ActorOf[job'[m[1]].key]] # "idle"
               /\ (/\ job'[m[1]].status = "running" /\ m[2] = job'[m[1]].attempt
                   /\ cascade'[ActorOf[job'[m[1]].key]] = "jobs") => m[1] \in doomed'
    <3>1. m[1] \in Jobs
      BY <1>3 DEF TypeOK
    <3>2. CASE ActorOf[job[m[1]].key] = a
      BY <1>1, <2>1, <3>1, <3>2 DEF IInv, MarksHold, ActiveJobsOf
    <3>3. CASE ActorOf[job[m[1]].key] # a
      BY <1>1, <2>1, <2>2, <3>1, <3>3 DEF IInv, MarksHold
    <3> QED
      BY <3>2, <3>3
  <2> QED
    BY <2>3, <2>4 DEF MarksHold
<1> QED
  BY <1>1, <1>3, <1>4 DEF IInv, RowsAgree, SuccessIsRecorded, KeysKnown, AbsentIsFresh

(* When a revocation's transaction ends, the marks of the other users hold *)
(* on, if the jobs of those users are as they were.                        *)
LEMMA EndCascadeKeepsMarks ==
  ASSUME IInv, NEW a \in Actors, EndCascade(a),
         job' \in [Jobs -> JobRow], attempts' \in [Jobs -> Log],
         \A j \in Jobs : job'[j].key = job[j].key,
         \A j \in Jobs : /\ job[j].status # "absent" /\ ActorOf[job[j].key] # a
                        => job'[j] = job[j] /\ attempts'[j] = attempts[j]
  PROVE  MarksHold'
<1>1. /\ cascade \in [Actors -> {"idle", "attempts", "jobs"}]
      /\ cascade' = [cascade EXCEPT ![a] = "idle"]
      /\ \A b \in Actors \ {a} : cascade'[b] = cascade[b]
  BY DEF EndCascade, IInv, TypeOK
<1>2. \A j \in Jobs : job[j].status # "absent" => ActorOf[job[j].key] \in Actors
  BY ConstantsAssumption DEF IInv, KeysKnown
<1>3. ASSUME NEW j \in doomed'
      PROVE  /\ job'[j].status \in {"pending", "running"}
             /\ cascade'[ActorOf[job'[j].key]] = "jobs"
  <2>1. j \in doomed /\ j \in Jobs /\ ActorOf[job[j].key] # a
    BY DEF EndCascade, JobsOf, IInv, TypeOK
  <2> QED
    BY <1>1, <1>2, <2>1 DEF IInv, MarksHold
<1>4. ASSUME NEW m \in marked'
      PROVE  /\ m[2] \in 1 .. Len(attempts'[m[1]]) /\ attempts'[m[1]][m[2]] = "running"
             /\ job'[m[1]].status # "absent" /\ cascade'[ActorOf[job'[m[1]].key]] # "idle"
             /\ (/\ job'[m[1]].status = "running" /\ m[2] = job'[m[1]].attempt
                 /\ cascade'[ActorOf[job'[m[1]].key]] = "jobs") => m[1] \in doomed'
  <2>1. m \in marked /\ m[1] \in Jobs /\ ActorOf[job[m[1]].key] # a
    BY DEF EndCascade, AttemptsOf, IInv, TypeOK
  <2>2. m[1] \in doomed => m[1] \in doomed'
    BY <2>1 DEF EndCascade, JobsOf
  <2> QED
    BY <1>1, <1>2, <2>1, <2>2 DEF IInv, MarksHold
<1> QED
  BY <1>3, <1>4 DEF MarksHold

(* The commit of a revocation keeps it.  A running job whose attempt the   *)
(* first UPDATE marked was doomed by the second: that is what MarksHold is *)
(* needed for.                                                             *)
LEMMA RevokeCommitPreserves ==
  ASSUME IInv, NEW a \in Actors, RevokeCommit(a)
  PROVE  IInv'
<1>1. /\ cascade[a] = "jobs" /\ EndCascade(a) /\ UNCHANGED idem
      /\ job' = [j \in Jobs |-> IF j \in JobsOf(a) THEN Unleased(job[j], "revoked") ELSE job[j]]
      /\ attempts' = [j \in Jobs |-> [n \in DOMAIN attempts[j] |->
                        IF <<j, n>> \in AttemptsOf(a) THEN "revoked" ELSE attempts[j][n]]]
  BY DEF RevokeCommit
<1>2. ASSUME NEW j \in Jobs
      PROVE  /\ attempts'[j] \in Log /\ Len(attempts'[j]) = Len(attempts[j])
             /\ Len(attempts[j]) \in Nat
             /\ \A n \in 1 .. Len(attempts[j]) : attempts'[j][n] =
                   IF <<j, n>> \in AttemptsOf(a) THEN "revoked" ELSE attempts[j][n]
  <2> DEFINE c == [n \in DOMAIN attempts[j] |->
                     IF <<j, n>> \in AttemptsOf(a) THEN "revoked" ELSE attempts[j][n]]
  <2>1. attempts[j] \in Seq(AttemptStatuses) /\ attempts'[j] = c /\ "revoked" \in AttemptStatuses
    BY <1>1 DEF IInv, TypeOK, AttemptStatuses
  <2>2. /\ Len(attempts[j]) \in Nat /\ DOMAIN attempts[j] = 1 .. Len(attempts[j])
        /\ \A n \in 1 .. Len(attempts[j]) : attempts[j][n] \in AttemptStatuses
    BY <2>1
  <2>3. c \in [1 .. Len(attempts[j]) -> AttemptStatuses]
    BY <2>1, <2>2
  <2>4. c \in Seq(AttemptStatuses)
    BY <2>2, <2>3, SeqDef
  <2>5. Len(c) = Len(attempts[j])
    BY <2>2, <2>3, <2>4
  <2> QED
    BY <2>1, <2>2, <2>4, <2>5 DEF Log
<1>3. ASSUME NEW j \in Jobs
      PROVE  /\ job'[j] \in JobRow /\ job'[j].key = job[j].key
             /\ job'[j].status = "absent" <=> job[j].status = "absent"
             /\ Agrees(job'[j], attempts'[j])
  <2>1. job[j] \in JobRow /\ Agrees(job[j], attempts[j])
    BY DEF IInv, TypeOK, RowsAgree, SuccessIsRecorded, Agrees
  <2>2. CASE j \in JobsOf(a)
    <3>1. job[j].status \in {"pending", "running"}
      BY <2>2 DEF JobsOf, IInv, MarksHold
    <3>2. /\ job'[j] \in JobRow /\ job'[j].key = job[j].key /\ job'[j].status = "revoked"
          /\ job'[j].token = 0 /\ job'[j].lease = 0 /\ job'[j].attempt = job[j].attempt
          /\ job'[j].fence = job[j].fence /\ job'[j].max = job[j].max
      BY <1>1, <2>1, <2>2 DEF Unleased, JobRow, Statuses, Terminal
    <3>3. \A n \in 1 .. Len(attempts[j]) : attempts'[j][n] # "succeeded"
      BY <1>2, <2>1, <3>1 DEF Agrees, SuccessAgrees
    <3> QED
      BY <1>2, <2>1, <3>1, <3>2, <3>3 DEF Agrees, RowAgrees, SuccessAgrees
  <2>3. CASE j \notin JobsOf(a)
    <3>1. job'[j] = job[j]
      BY <1>1, <2>3
    <3>2. job[j].status = "running" => <<j, job[j].attempt>> \notin AttemptsOf(a)
      <4>1. SUFFICES ASSUME job[j].status = "running", <<j, job[j].attempt>> \in AttemptsOf(a)
                     PROVE  FALSE
        OBVIOUS
      <4> DEFINE m == <<j, job[j].attempt>>
      <4>2. m \in marked /\ m[1] = j /\ m[2] = job[j].attempt /\ ActorOf[job[j].key] = a
        BY <4>1 DEF AttemptsOf
      <4>3. j \in doomed
        BY <1>1, <4>1, <4>2 DEF IInv, MarksHold
      <4> QED
        BY <2>3, <4>2, <4>3 DEF JobsOf
    <3>3. RowAgrees(job'[j], attempts'[j])
      BY <1>2, <2>1, <3>1, <3>2 DEF Agrees, RowAgrees
    <3>4. \A n \in 1 .. Len(attempts[j]) :
            attempts[j][n] = "succeeded" <=> attempts'[j][n] = "succeeded"
      <4>1. ASSUME NEW n \in 1 .. Len(attempts[j]), <<j, n>> \in AttemptsOf(a)
            PROVE  attempts[j][n] = "running"
        <5> DEFINE m == <<j, n>>
        <5>1. m \in marked /\ m[1] = j /\ m[2] = n
          BY <4>1 DEF AttemptsOf
        <5> QED
          BY <5>1 DEF IInv, MarksHold
      <4> QED
        BY <1>2, <4>1
    <3>5. SuccessAgrees(job'[j], attempts'[j])
      <4>1. Len(attempts[j]) > 0 => Len(attempts[j]) \in 1 .. Len(attempts[j])
        BY <1>2
      <4> QED
        BY <1>2, <2>1, <3>1, <3>4, <4>1 DEF Agrees, SuccessAgrees
    <3> QED
      BY <2>1, <3>1, <3>3, <3>5 DEF Agrees
  <2> QED
    BY <2>2, <2>3
<1>4. /\ job' \in [Jobs -> JobRow] /\ attempts' \in [Jobs -> Log]
  <2>1. job' = [j \in Jobs |-> job'[j]] /\ attempts' = [j \in Jobs |-> attempts'[j]]
    BY <1>1
  <2> QED
    BY <1>2, <1>3, <2>1
<1>5. TypeOK'
  BY <1>1, <1>4 DEF IInv, TypeOK, EndCascade, Log
<1>6. ASSUME NEW j \in Jobs, ActorOf[job[j].key] # a
      PROVE  job'[j] = job[j] /\ attempts'[j] = attempts[j]
  <2>1. j \notin JobsOf(a)
    BY <1>6 DEF JobsOf
  <2>2. \A n \in 1 .. Len(attempts[j]) : <<j, n>> \notin AttemptsOf(a)
    <3>1. \A m \in AttemptsOf(a) : ActorOf[job[m[1]].key] = a
      BY DEF AttemptsOf
    <3> QED
      BY <1>6, <3>1
  <2>3. attempts'[j] \in Seq(AttemptStatuses) /\ attempts[j] \in Seq(AttemptStatuses)
    BY <1>2 DEF IInv, TypeOK, Log
  <2>4. \A n \in 1 .. Len(attempts[j]) : attempts'[j][n] = attempts[j][n]
    BY <1>2, <2>2
  <2>5. attempts'[j] = attempts[j]
    BY <1>2, <2>3, <2>4, SeqEqual
  <2> QED
    BY <1>1, <2>1, <2>5
<1>7. MarksHold'
  BY <1>1, <1>3, <1>4, <1>6, EndCascadeKeepsMarks
<1> QED
  BY <1>2, <1>3, <1>5, <1>7
  DEF IInv, RowsAgree, SuccessIsRecorded, Agrees, KeysKnown, AbsentIsFresh

(* A revocation that fails leaves the rows as they were. *)
LEMMA RevokeAbortPreserves ==
  ASSUME IInv, NEW a \in Actors, RevokeAbort(a)
  PROVE  IInv'
<1>1. EndCascade(a) /\ UNCHANGED <<job, attempts, idem>>
  BY DEF RevokeAbort, jobVars
<1>2. job' \in [Jobs -> JobRow] /\ attempts' \in [Jobs -> Log]
  BY <1>1 DEF IInv, TypeOK, Log
<1>3. MarksHold'
  BY <1>1, <1>2, EndCascadeKeepsMarks
<1>4. TypeOK'
  BY <1>1 DEF IInv, TypeOK, EndCascade
<1> QED
  BY <1>1, <1>3, <1>4 DEF IInv, RowsAgree, SuccessIsRecorded, KeysKnown, AbsentIsFresh

----------------------------------------------------------------------------
(* Theorems *)

(* Nothing is marked at first and no job is there. *)
LEMMA InitIInv == Init => IInv
<1> SUFFICES ASSUME Init PROVE IInv
  OBVIOUS
<1>1. TypeOK
  BY DEF Init, TypeOK, AbsentRow, JobRow, Statuses, NoRecord, IdemRecord
<1>2. \A j \in Jobs : /\ job[j] = AbsentRow /\ attempts[j] = <<>>
                      /\ RowAgrees(AbsentRow, <<>>) /\ SuccessAgrees(AbsentRow, <<>>)
  BY DEF Init, AbsentRow, RowAgrees, SuccessAgrees
<1>3. MarksHold
  BY DEF Init, MarksHold
<1> QED
  BY <1>1, <1>2, <1>3 DEF IInv, RowsAgree, SuccessIsRecorded, KeysKnown, AbsentIsFresh, AbsentRow

(* Every step of the system keeps the invariant. *)
LEMMA NextIInv == IInv /\ [Next]_vars => IInv'
<1> SUFFICES ASSUME IInv, [Next]_vars PROVE IInv'
  OBVIOUS
<1>1. CASE Caller
  BY <1>1, EnqueuePreserves, CancelPreserves, RetryPreserves DEF Caller
<1>2. CASE Worker
  BY <1>2, LeasePreserves, BatchPreserves, WorkerPreserves DEF Worker
<1>3. CASE Triggers
  BY <1>3, RevokeAttemptsPreserves, RevokeJobsPreserves, RevokeCommitPreserves,
     RevokeAbortPreserves DEF Triggers
<1>4. CASE Tick
  BY <1>4, TickPreserves
<1>5. CASE UNCHANGED vars
  BY <1>5 DEF vars, IInv, TypeOK, AbsentIsFresh, RowsAgree, SuccessIsRecorded, KeysKnown, MarksHold
<1> QED
  BY <1>1, <1>2, <1>3, <1>4, <1>5 DEF Next

(* The inductive invariant holds of every behaviour. *)
THEOREM Invariance == Spec => []IInv
BY InitIInv, NextIInv, PTL DEF Spec

(* Every variable has its type, whatever callers, workers and triggers do. *)
THEOREM TypeCorrect == Spec => []TypeOK
<1>1. IInv => TypeOK
  BY DEF IInv
<1> QED
  BY <1>1, Invariance, PTL

(* The job row and its attempts always tell one story. *)
THEOREM RowsAlwaysAgree == Spec => []RowsAgree
<1>1. IInv => RowsAgree
  BY DEF IInv
<1> QED
  BY <1>1, Invariance, PTL

(* A job succeeds at most once, in its last attempt. *)
THEOREM SuccessAlwaysRecorded == Spec => []SuccessIsRecorded
<1>1. IInv => SuccessIsRecorded
  BY DEF IInv
<1> QED
  BY <1>1, Invariance, PTL

(* Workers that race a revocation cannot slip between its two statements.  *)
THEOREM MarksAlwaysHold == Spec => []MarksHold
<1>1. IInv => MarksHold
  BY DEF IInv
<1> QED
  BY <1>1, Invariance, PTL


----------------------------------------------------------------------------
(* What a step makes of one job *)

SameIdentity(j) == job'[j].key = job[j].key /\ job'[j].payload = job[j].payload

(* It leaves it, but for the clock and for attempts that a revocation ends; *)
Stays(j) == /\ SameIdentity(j)
            /\ job'[j].status = job[j].status /\ job'[j].fence = job[j].fence
            /\ job'[j].attempt = job[j].attempt /\ job'[j].by = job[j].by
            /\ job'[j].lease = job[j].lease \/ job'[j].lease = Countdown(job[j].lease)
            /\ attempts'[j] = attempts[j] \/ \E a \in Actors : RevokeCommit(a)

(* leases it or takes it over, under a new attempt;                        *)
Granted(j) == /\ SameIdentity(j)
              /\ job[j].status = "pending" \/ Expired(j)
              /\ job'[j].status = "running" /\ job'[j].fence = job[j].fence + 1
              /\ job'[j].lease > 0 /\ job'[j].attempt = job[j].attempt + 1 /\ job'[j].by = 0
              /\ attempts'[j] = Append(Recovered(j, "failed"), "running")

(* settles its attempt, which takes an unexpired lease and its token but   *)
(* for the last attempt of a job that is given up;                         *)
Settled(j) == /\ SameIdentity(j)
              /\ job[j].status = "running"
              /\ job'[j].status \in Terminal \cup {"pending"} /\ job'[j].fence = job[j].fence
              /\ \/ job[j].lease > 0 /\ job'[j].by = job[j].fence
                 \/ job'[j].status = "dead" /\ job'[j].by = job[j].by
              /\ job'[j].attempt = job[j].attempt
              /\ \E outcome \in AttemptStatuses \ {"running"} :
                   attempts'[j] = CloseAttempt(attempts[j], job[j].attempt, outcome)

(* does what an operator asks, or what a revocation has come to do.        *)
Directed(j) == /\ SameIdentity(j)
               /\ job'[j].fence = job[j].fence /\ job'[j].by = job[j].by
               /\ \/ /\ job[j].status = "pending" /\ job'[j].status = "failed"
                     /\ attempts'[j] = attempts[j]
                  \/ /\ job[j].status \in {"failed", "dead", "revoked"} /\ job'[j].status = "pending"
                     /\ attempts'[j] = attempts[j]
                  \/ /\ job[j].status \in {"pending", "running"} /\ job'[j].status = "revoked"
                     /\ \E a \in Actors : RevokeCommit(a)

Goes(j) == Stays(j) \/ Granted(j) \/ Settled(j) \/ Directed(j)

(* A row that is as it was has gone nowhere.                               *)
LEMMA SameStays ==
  ASSUME NEW j, job'[j] = job[j], attempts'[j] = attempts[j]
  PROVE  Stays(j)
BY DEF Stays, SameIdentity

(* A row that loses its lease keeps everything but the lease.              *)
LEMMA UnleasedFields ==
  ASSUME NEW row \in JobRow, NEW status, NEW w, NEW b
  PROVE  /\ Unleased(row, status).status = status /\ Unleased(row, status).fence = row.fence
         /\ Unleased(row, status).attempt = row.attempt /\ Unleased(row, status).key = row.key
         /\ Unleased(row, status).payload = row.payload /\ Unleased(row, status).by = row.by
         /\ LET u == [Unleased(row, status) EXCEPT !.wait = w, !.by = b]
            IN  /\ u.status = status /\ u.fence = row.fence /\ u.attempt = row.attempt /\ u.by = b
                /\ u.key = row.key /\ u.payload = row.payload
BY DEF Unleased, JobRow

(* Leasing a job that is due grants its task under a new epoch.            *)
LEMMA LeaseGrants ==
  ASSUME IInv, NEW j \in Jobs, job[j].status = "pending" \/ Expired(j),
         job'[j] = Leased(job[j], Len(attempts[j]) + 1),
         attempts'[j] = Append(Recovered(j, "failed"), "running")
  PROVE  Granted(j)
<1>1. job[j] \in JobRow /\ LeaseTTL > 0
  BY ConstantsAssumption DEF IInv, TypeOK
<1>2. /\ job'[j].status = "running" /\ job'[j].fence = job[j].fence + 1 /\ job'[j].lease = LeaseTTL
      /\ job'[j].attempt = job[j].attempt + 1 /\ job'[j].by = 0 /\ SameIdentity(j)
  BY <1>1 DEF Leased, JobRow, SameIdentity
<1> QED BY <1>1, <1>2 DEF Granted

(* Retiring a job that has no attempt left settles its task.               *)
LEMMA RetireSettles ==
  ASSUME IInv, NEW j \in Jobs, Expired(j), NEW outcome \in {"failed", "dead"},
         job'[j] = Unleased(job[j], "dead"), attempts'[j] = Recovered(j, outcome)
  PROVE  Settled(j)
<1>1. job[j] \in JobRow /\ outcome \in AttemptStatuses \ {"running"} /\ "dead" \in Terminal
  BY DEF IInv, TypeOK, AttemptStatuses, Terminal
<1>2. attempts'[j] = CloseAttempt(attempts[j], job[j].attempt, outcome)
  BY DEF Recovered
<1> QED BY <1>1, <1>2, UnleasedFields DEF Settled, SameIdentity, Expired

(* LeaseDurableJob and LeaseDurableJobs grant or retire, each row by itself. *)
LEMMA LeaseGoes ==
  ASSUME IInv, NEW j \in Jobs, LeaseDurableJob(j) \/ ExhaustDurableJob(j)
  PROVE  idem' = idem /\ \A i \in Jobs : Goes(i)
<1>1. job \in [Jobs -> JobRow] /\ attempts \in [Jobs -> Log]
  BY DEF IInv, TypeOK, Log
<1>2. idem' = idem /\ \A i \in Jobs \ {j} : job'[i] = job[i] /\ attempts'[i] = attempts[i]
  BY <1>1 DEF LeaseDurableJob, ExhaustDurableJob
<1>3. CASE LeaseDurableJob(j)
  <2>1. /\ job[j].status = "pending" \/ Expired(j)
        /\ job'[j] = Leased(job[j], Len(attempts[j]) + 1)
        /\ attempts'[j] = Append(Recovered(j, "failed"), "running")
    BY <1>1, <1>3 DEF LeaseDurableJob, Leasable
  <2> QED BY <1>2, <2>1, LeaseGrants, SameStays DEF Goes
<1>4. CASE ExhaustDurableJob(j)
  <2>1. Expired(j)
    BY <1>4 DEF ExhaustDurableJob, Leasable, IInv, TypeOK, JobRow, RowsAgree, RowAgrees
  <2>2. job'[j] = Unleased(job[j], "dead") /\ attempts'[j] = Recovered(j, "failed")
    BY <1>1, <1>4 DEF ExhaustDurableJob
  <2> QED BY <1>2, <2>1, <2>2, RetireSettles, SameStays DEF Goes
<1> QED BY <1>3, <1>4

(* A batch lease moves tasks on, and touches no key.                       *)
LEMMA BatchGoes ==
  ASSUME IInv, NEW batch \in SUBSET Jobs, LeaseDurableJobs(batch)
  PROVE  idem' = idem /\ \A i \in Jobs : Goes(i)
<1>1. idem' = idem /\ batch \subseteq Due
  BY DEF LeaseDurableJobs
<1>2. ASSUME NEW j \in Jobs PROVE Goes(j)
  <2>1. CASE j \in Retirable
    <3>1. job'[j] = Unleased(job[j], "dead") /\ attempts'[j] = Recovered(j, "dead") /\ Expired(j)
      BY <2>1 DEF LeaseDurableJobs, Retirable
    <3> QED BY <3>1, RetireSettles DEF Goes
  <2>2. CASE j \in batch \ Retirable
    <3>1. /\ job'[j] = Leased(job[j], Len(attempts[j]) + 1)
          /\ attempts'[j] = Append(Recovered(j, "failed"), "running")
          /\ job[j].status = "pending" \/ Expired(j)
      BY <1>1, <2>2 DEF LeaseDurableJobs, Due
    <3> QED BY <3>1, LeaseGrants DEF Goes
  <2>3. CASE j \notin Retirable \cup batch
    <3>1. job'[j] = job[j] /\ attempts'[j] = attempts[j]
      BY <2>3 DEF LeaseDurableJobs
    <3> QED BY <3>1, SameStays DEF Goes
  <2> QED BY <2>1, <2>2, <2>3
<1> QED BY <1>1, <1>2

(* The four calls of a worker settle its attempt.                          *)
LEMMA SettleGoes ==
  ASSUME IInv, NEW j \in Jobs, NEW t, NEW status \in Terminal \cup {"pending"},
         NEW outcome \in AttemptStatuses \ {"running"}, NEW delay, Settle(j, t, status, outcome, delay)
  PROVE  \A i \in Jobs : Goes(i)
<1>1. job \in [Jobs -> JobRow] /\ attempts \in [Jobs -> Log]
  BY DEF IInv, TypeOK, Log
<1>2. /\ job'[j] = [Unleased(job[j], status) EXCEPT !.wait = delay, !.by = t]
      /\ attempts'[j] = CloseAttempt(attempts[j], job[j].attempt, outcome)
      /\ \A i \in Jobs \ {j} : job'[i] = job[i] /\ attempts'[i] = attempts[i]
      /\ job[j].status = "running" /\ job[j].lease > 0
      /\ job[j].token = t
  BY <1>1 DEF Settle, Holds
<1>4. job[j].fence = t
  BY <1>2 DEF IInv, RowsAgree, RowAgrees
<1>3. Settled(j)
  BY <1>1, <1>2, <1>4, UnleasedFields DEF Settled, SameIdentity
<1> QED BY <1>2, <1>3, SameStays DEF Goes

(* A settling by a worker moves one task on, under its current lease.      *)
LEMMA WorkerGoes ==
  ASSUME IInv, NEW j \in Jobs, NEW t,
         \/ \E delay \in Delays : FailDurableJob(j, t, delay)
         \/ \E s \in {"revoked", "failed", "dead"} : TerminateDurableJob(j, t, s)
         \/ CompleteOperationJob(j, t)
         \/ SucceedPublish(j, t)
  PROVE  (\A i \in Jobs : Goes(i)) /\ (idem' = idem \/ SucceedPublish(j, t))
<1>1. /\ {"revoked", "failed", "dead", "succeeded", "pending"} \subseteq Terminal \cup {"pending"}
      /\ {"revoked", "failed", "dead", "succeeded"} \subseteq AttemptStatuses \ {"running"}
  BY DEF Terminal, AttemptStatuses
<1>2. ASSUME NEW delay \in Delays, FailDurableJob(j, t, delay)
      PROVE  (\A i \in Jobs : Goes(i)) /\ idem' = idem
  BY <1>1, <1>2, SettleGoes DEF FailDurableJob
<1>3. ASSUME NEW s \in {"revoked", "failed", "dead"}, TerminateDurableJob(j, t, s)
      PROVE  (\A i \in Jobs : Goes(i)) /\ idem' = idem
  BY <1>1, <1>3, SettleGoes DEF TerminateDurableJob
<1>4. CASE CompleteOperationJob(j, t)
  BY <1>1, <1>4, SettleGoes DEF CompleteOperationJob
<1>5. CASE SucceedPublish(j, t)
  BY <1>1, <1>5, SettleGoes DEF SucceedPublish
<1> QED BY <1>2, <1>3, <1>4, <1>5

(* The operator's calls change a job's status, and its budget.             *)
LEMMA OperatorGoes ==
  ASSUME IInv, NEW j \in Jobs, CancelOperationJob(j) \/ RetryOperationJob(j)
  PROVE  idem' = idem /\ \A i \in Jobs : Goes(i)
<1>1. job \in [Jobs -> JobRow] /\ attempts' = attempts /\ idem' = idem
  BY DEF IInv, TypeOK, CancelOperationJob, RetryOperationJob
<1>2. \A i \in Jobs \ {j} : job'[i] = job[i]
  BY <1>1 DEF CancelOperationJob, RetryOperationJob
<1>3. CASE CancelOperationJob(j)
  <2>1. /\ job[j].status = "pending" /\ job'[j] = [job[j] EXCEPT !.status = "failed"]
    BY <1>1, <1>3 DEF CancelOperationJob
  <2>2. /\ job'[j].status = "failed" /\ job'[j].fence = job[j].fence /\ job'[j].by = job[j].by
        /\ SameIdentity(j)
    BY <1>1, <2>1 DEF SameIdentity, JobRow
  <2>3. Directed(j)
    BY <1>1, <2>1, <2>2 DEF Directed
  <2> QED BY <1>1, <1>2, <2>3, SameStays DEF Goes
<1>4. CASE RetryOperationJob(j)
  <2>1. /\ job[j].status \in {"failed", "dead", "revoked"}
        /\ \E max : job'[j] = [job[j] EXCEPT !.status = "pending", !.wait = 0, !.max = max]
    BY <1>1, <1>4 DEF RetryOperationJob
  <2>2. /\ job'[j].status = "pending" /\ job'[j].fence = job[j].fence /\ job'[j].by = job[j].by
        /\ SameIdentity(j)
    BY <1>1, <2>1 DEF SameIdentity, JobRow
  <2>3. Directed(j)
    BY <1>1, <2>1, <2>2 DEF Directed
  <2> QED BY <1>1, <1>2, <2>3, SameStays DEF Goes
<1> QED BY <1>3, <1>4

(* The triggers revoke the jobs they have doomed.                          *)
LEMMA TriggerGoes ==
  ASSUME IInv, NEW a \in Actors,
         RevokeAttempts(a) \/ RevokeJobs(a) \/ RevokeCommit(a) \/ RevokeAbort(a)
  PROVE  idem' = idem /\ \A i \in Jobs : Goes(i)
<1>1. CASE UNCHANGED jobVars
  BY <1>1, SameStays DEF jobVars, Goes
<1>2. CASE RevokeCommit(a)
  <2>1. /\ idem' = idem
        /\ job' = [j \in Jobs |-> IF j \in JobsOf(a) THEN Unleased(job[j], "revoked") ELSE job[j]]
    BY <1>2 DEF RevokeCommit
  <2>2. ASSUME NEW j \in Jobs PROVE Goes(j)
    <3>1. CASE j \in JobsOf(a)
      <4>1. job[j].status \in {"pending", "running"} /\ job[j] \in JobRow
        BY <3>1 DEF JobsOf, IInv, MarksHold, TypeOK
      <4>2. /\ job'[j].status = "revoked" /\ job'[j].fence = job[j].fence /\ job'[j].by = job[j].by
            /\ SameIdentity(j)
        BY <2>1, <3>1, <4>1, UnleasedFields DEF SameIdentity
      <4> QED BY <1>2, <4>1, <4>2 DEF Directed, Goes
    <3>2. CASE j \notin JobsOf(a)
      BY <1>2, <2>1, <3>2 DEF Stays, SameIdentity, Goes
    <3> QED BY <3>1, <3>2
  <2> QED BY <2>1, <2>2
<1> QED BY <1>1, <1>2 DEF RevokeAttempts, RevokeJobs, RevokeAbort, jobVars

(* The clock takes time from every lease.                                  *)
LEMMA TickGoes ==
  ASSUME IInv, Tick
  PROVE  idem' = idem /\ \A i \in Jobs : Goes(i)
<1>1. ASSUME NEW j \in Jobs PROVE Goes(j)
  <2>1. job[j] \in JobRow
    BY DEF IInv, TypeOK
  <2>2. /\ job'[j] = [job[j] EXCEPT !.lease = Countdown(@), !.wait = Countdown(@)]
        /\ attempts'[j] = attempts[j]
    BY DEF Tick
  <2>3. /\ SameIdentity(j) /\ job'[j].status = job[j].status /\ job'[j].fence = job[j].fence
        /\ job'[j].attempt = job[j].attempt /\ job'[j].by = job[j].by
        /\ job'[j].lease = Countdown(job[j].lease)
    BY <2>1, <2>2 DEF SameIdentity, JobRow
  <2> QED BY <2>2, <2>3 DEF Stays, Goes
<1> QED BY <1>1 DEF Tick

(* So every step but a new request makes one of the four of every job, and *)
(* only the end of a publish touches an idempotency record.                *)
LEMMA StepGoes ==
  ASSUME IInv, [Next]_vars,
         \A k \in Keys, p \in Payloads, skew \in Delays : ~EnqueueDurableJob(k, p, skew)
  PROVE  /\ \A i \in Jobs : Goes(i)
         /\ idem' = idem \/ \E j \in Jobs, t \in Nat : SucceedPublish(j, t)
<1>1. CASE UNCHANGED vars
  BY <1>1, SameStays DEF vars, Goes
<1>2. CASE Caller
  BY <1>2, OperatorGoes DEF Caller
<1>3. CASE Worker
  <2>1. ASSUME NEW j \in Jobs, NEW t \in Issued(j) PROVE t \in Nat
    BY <2>1 DEF Issued, IInv, TypeOK
  <2> QED BY <1>3, <2>1, LeaseGoes, BatchGoes, WorkerGoes DEF Worker
<1>4. CASE Triggers
  BY <1>4, TriggerGoes DEF Triggers
<1>5. CASE Tick
  BY <1>5, TickGoes
<1> QED BY <1>1, <1>2, <1>3, <1>4, <1>5 DEF Next

----------------------------------------------------------------------------
(* Idempotency keys *)

(* A job that is there was asked for something.                            *)
PayloadsKnown == \A j \in Jobs : job[j].status # "absent" => job[j].payload \in Payloads

(* No step but a new request gives a job another key or another payload.   *)
LEMMA GoesOn ==
  ASSUME NEW j, Goes(j)
  PROVE  SameIdentity(j) /\ (job'[j].status = "absent" <=> job[j].status = "absent")
BY DEF Goes, Stays, Granted, Settled, Directed, Expired, Terminal

(* No step but enqueueing gives a job a key or a payload.                  *)
LEMMA KeysStay ==
  ASSUME IInv, PayloadsKnown, OneJobPerKey, [Next]_vars,
         \A k \in Keys, p \in Payloads, skew \in Delays : ~EnqueueDurableJob(k, p, skew)
  PROVE  PayloadsKnown' /\ OneJobPerKey'
<1>1. \A j \in Jobs : /\ job'[j].key = job[j].key /\ job'[j].payload = job[j].payload
                      /\ job'[j].status = "absent" <=> job[j].status = "absent"
  BY StepGoes, GoesOn DEF SameIdentity
<1>2. \A k \in Keys : /\ idem'[k].payload = idem[k].payload
                      /\ idem'[k].job \in {idem[k].job, NoJob}
  <2>1. CASE idem' = idem
    BY <2>1
  <2>2. ASSUME NEW i \in Jobs, idem' = [idem EXCEPT ![job[i].key].job = NoJob]
        PROVE  \A k \in Keys : /\ idem'[k].payload = idem[k].payload
                               /\ idem'[k].job \in {idem[k].job, NoJob}
    BY <2>2 DEF IInv, TypeOK, IdemRecord
  <2> QED BY <2>1, <2>2, StepGoes DEF SucceedPublish
<1>3. \A j \in Jobs : job[j].status # "absent" => job[j].key \in Keys
  BY DEF IInv, KeysKnown
<1> QED BY <1>1, <1>2, <1>3 DEF PayloadsKnown, OneJobPerKey

(* A key that is free to be used has no job: a job's record has a payload. *)
LEMMA KeysAreNew ==
  ASSUME IInv, PayloadsKnown, OneJobPerKey, NEW k \in Keys, NEW p \in Payloads, NEW skew \in Delays,
         EnqueueDurableJob(k, p, skew)
  PROVE  PayloadsKnown' /\ OneJobPerKey'
<1>1. idem[k].payload = NoPayload
  BY DEF EnqueueDurableJob, EnqueueAnswer
<1>2. \A j \in Jobs : job[j].status # "absent" => job[j].key # k
  BY <1>1, ConstantsAssumption DEF PayloadsKnown, OneJobPerKey
<1>3. PICK j \in Jobs :
        /\ job[j].status = "absent"
        /\ job' = [job EXCEPT ![j] = [AbsentRow EXCEPT !.status = "pending", !.key = k,
                                        !.payload = p, !.max = MaxAttempts, !.wait = skew]]
        /\ idem' = [idem EXCEPT ![k] = [payload |-> p, job |-> j]]
  BY DEF EnqueueDurableJob
<1>4. job \in [Jobs -> JobRow] /\ idem \in [Keys -> IdemRecord]
  BY DEF IInv, TypeOK
<1>5. /\ job'[j].status = "pending" /\ job'[j].key = k /\ job'[j].payload = p
      /\ \A i \in Jobs \ {j} : job'[i] = job[i]
      /\ idem'[k] = [payload |-> p, job |-> j] /\ \A q \in Keys \ {k} : idem'[q] = idem[q]
  BY <1>3, <1>4 DEF AbsentRow
<1>6. \A i \in Jobs : job[i].status # "absent" => job[i].key \in Keys /\ i # j
  BY <1>3 DEF IInv, KeysKnown
<1> QED BY <1>2, <1>5, <1>6 DEF PayloadsKnown, OneJobPerKey

(* However often a request is repeated, fails, is retried or succeeds, its *)
(* key stands for one job and for what that job was created with           *)
(* (EnqueueDurableJob, and the records CommitDurablePublish overwrites).   *)
THEOREM KeysStandForOneJob == Spec => []OneJobPerKey
<1>1. Init => PayloadsKnown /\ OneJobPerKey
  <2> SUFFICES ASSUME Init PROVE \A j \in Jobs : job[j].status = "absent"
    BY DEF PayloadsKnown, OneJobPerKey
  <2> QED BY DEF Init, AbsentRow
<1>2. IInv /\ PayloadsKnown /\ OneJobPerKey /\ [Next]_vars => (PayloadsKnown /\ OneJobPerKey)'
  BY KeysStay, KeysAreNew
<1> QED BY <1>1, <1>2, Invariance, PTL DEF Spec

----------------------------------------------------------------------------
(* Orphans *)

(* Whoever grants, takes over or settles leaves no attempt open but the    *)
(* one it runs and those that nobody ran before.                           *)
LEMMA NoNewOrphans ==
  ASSUME IInv, NEW j \in Jobs, Goes(j), \A a \in Actors : ~RevokeCommit(a),
         NEW n \in DOMAIN attempts'[j], attempts'[j][n] = "running",
         job'[j].status # "running" \/ n # job'[j].attempt
  PROVE  /\ n \in DOMAIN attempts[j] /\ attempts[j][n] = "running"
         /\ job[j].status # "running" \/ n # job[j].attempt
<1>1. /\ job[j] \in JobRow /\ attempts[j] \in Log /\ RowAgrees(job[j], attempts[j])
      /\ Len(attempts[j]) \in Nat /\ DOMAIN attempts[j] = 1 .. Len(attempts[j])
  BY DEF IInv, TypeOK, RowsAgree, Log
<1>2. CASE Stays(j) \/ Directed(j)
  BY <1>2 DEF Stays, Directed
<1>3. CASE Settled(j)
  <2>1. PICK outcome \in AttemptStatuses \ {"running"} :
          attempts'[j] = CloseAttempt(attempts[j], job[j].attempt, outcome)
    BY <1>3 DEF Settled
  <2> QED BY <1>1, <2>1, CloseAttemptShape
<1>4. CASE Granted(j)
  <2> DEFINE r == Recovered(j, "failed")
  <2>1. /\ r \in Log /\ Len(r) = Len(attempts[j])
        /\ \A i \in 1 .. Len(attempts[j]) :
             r[i] = IF Expired(j) /\ i = job[j].attempt /\ attempts[j][i] = "running"
                    THEN "failed" ELSE attempts[j][i]
    BY <1>1, RecoveredShape
  <2>2. /\ attempts'[j] = Append(r, "running") /\ job'[j].status = "running"
        /\ job'[j].attempt = Len(r) + 1 /\ job[j].attempt = Len(r)
    BY <1>1, <1>4, <2>1 DEF Granted, RowAgrees
  <2> HIDE DEF r
  <2>3. /\ DOMAIN Append(r, "running") = 1 .. Len(r) + 1
        /\ \A i \in 1 .. Len(r) : Append(r, "running")[i] = r[i]
    BY <2>1 DEF Log
  <2>4. n \in 1 .. Len(r) /\ r[n] = "running"
    BY <1>1, <2>1, <2>2, <2>3
  <2> QED BY <1>1, <1>4, <2>1, <2>4 DEF Granted
<1> QED BY <1>2, <1>3, <1>4 DEF Goes

(* No step but a revocation's commit leaves an attempt running that nobody *)
(* runs (leaseDurableJobTx0213 and finishJobAttempt0213 close theirs).     *)
THEOREM OrphansAreRevoked == Spec => OnlyRevocationOrphans
<1>1. IInv /\ [Next]_vars => Orphans' \subseteq Orphans \/ \E a \in Actors : RevokeCommit(a)
  <2> SUFFICES ASSUME IInv, [Next]_vars, \A a \in Actors : ~RevokeCommit(a), NEW m \in Orphans'
               PROVE  m \in Orphans
    OBVIOUS
  <2>1. PICK j \in Jobs : m \in OpenAttempts(j)'
    BY DEF Orphans
  <2>2. PICK n \in DOMAIN attempts'[j] : m = <<j, n>> /\ attempts'[j][n] = "running"
    BY <2>1 DEF OpenAttempts
  <2>3. job'[j].status # "running" \/ n # job'[j].attempt
    BY <2>2 DEF Orphans
  <2>4. /\ n \in DOMAIN attempts[j] /\ attempts[j][n] = "running"
        /\ job[j].status # "running" \/ n # job[j].attempt
    <3>1. CASE \E k \in Keys, p \in Payloads, skew \in Delays : EnqueueDurableJob(k, p, skew)
      <4>1. attempts' = attempts /\ job \in [Jobs -> JobRow]
        BY <3>1 DEF EnqueueDurableJob, IInv, TypeOK
      <4>2. job[j].status = "running" => job'[j] = job[j]
        BY <3>1, <4>1 DEF EnqueueDurableJob
      <4> QED BY <2>2, <2>3, <4>1, <4>2
    <3>2. CASE \A k \in Keys, p \in Payloads, skew \in Delays : ~EnqueueDurableJob(k, p, skew)
      <4>1. Goes(j)
        BY <3>2, StepGoes
      <4> QED BY <2>2, <2>3, <4>1, NoNewOrphans
    <3> QED BY <3>1, <3>2
  <2> QED BY <2>2, <2>4 DEF Orphans, OpenAttempts
<1>2. IInv /\ [Next]_vars => [Orphans' \subseteq Orphans \/ \E a \in Actors : RevokeCommit(a)]_vars
  BY <1>1
<1> QED BY <1>2, Invariance, PTL DEF Spec, OnlyRevocationOrphans

----------------------------------------------------------------------------
(* Fenced tasks *)

(* What a step makes of a job is a step of its task, or none.              *)
TaskGoes(j) == \/ TaskOf(job'[j]) = TaskOf(job[j])
               \/ Abstract!Step(TaskOf(job[j]), TaskOf(job'[j]))

(* The task a row stands for.                                              *)
LEMMA TaskFields ==
  ASSUME NEW row \in JobRow
  PROVE  /\ row.status = "absent" => TaskOf(row).phase = "none"
         /\ row.status \in {"pending", "running"} => TaskOf(row).phase = "open"
         /\ row.status = "succeeded" => TaskOf(row).phase = "finished"
         /\ row.status \in {"failed", "dead", "revoked"} => TaskOf(row).phase = "abandoned"
         /\ row.status = "running" /\ row.lease > 0 => TaskOf(row).holder = row.fence
         /\ row.status # "running" \/ row.lease = 0 => TaskOf(row).holder = 0
         /\ TaskOf(row).epoch = row.fence /\ TaskOf(row).by = row.by
         /\ TaskOf(row) = [phase |-> TaskOf(row).phase, holder |-> TaskOf(row).holder,
                           epoch |-> row.fence, by |-> row.by]
BY DEF TaskOf, JobRow, Statuses, Terminal

(* A row that goes on is a step of its task, or a stutter.                 *)
LEMMA GoesAsTask ==
  ASSUME IInv, NEW j \in Jobs, Goes(j), job'[j] \in JobRow
  PROVE  TaskGoes(j)
<1> DEFINE t == TaskOf(job[j])
           u == TaskOf(job'[j])
<1>1. /\ job[j] \in JobRow /\ RowAgrees(job[j], attempts[j]) /\ job[j].fence \in Nat /\ job[j].lease \in Nat
      /\ job[j].status \in Statuses
      /\ job[j].status = "running" => job[j].fence > 0
  BY DEF IInv, TypeOK, RowsAgree, RowAgrees, JobRow
<1>2. /\ t = [phase |-> t.phase, holder |-> t.holder, epoch |-> job[j].fence, by |-> job[j].by]
      /\ u = [phase |-> u.phase, holder |-> u.holder, epoch |-> job'[j].fence, by |-> job'[j].by]
  BY <1>1, TaskFields
<1>3. CASE Stays(j)
  <2>1. /\ job'[j].status = job[j].status /\ job'[j].fence = job[j].fence
        /\ job'[j].by = job[j].by
        /\ (job'[j].lease = job[j].lease \/ job'[j].lease = Countdown(job[j].lease))
    BY <1>3 DEF Stays
  <2>2. u.phase = t.phase
    BY <1>1, <2>1 DEF TaskOf
  <2>3. CASE u.holder = t.holder
    BY <1>2, <2>1, <2>2, <2>3 DEF TaskGoes
  <2>4. CASE u.holder # t.holder
    <3>1. job[j].status = "running" /\ t.phase = "open" /\ t.holder # 0 /\ u.holder = 0
      BY <1>1, <2>1, <2>4 DEF TaskOf, Countdown
    <3>2. Abstract!Lapse(t, u)
      BY <1>2, <2>1, <2>2, <3>1 DEF Abstract!Lapse
    <3> QED BY <3>2 DEF TaskGoes, Abstract!Step
  <2> QED BY <2>3, <2>4
<1>4. CASE Granted(j)
  <2>1. t.phase = "open" /\ t.holder = 0 /\ u.phase = "open" /\ u.holder = t.epoch + 1
        /\ u.epoch = t.epoch + 1 /\ u.by = 0
    BY <1>1, <1>4, TaskFields DEF Granted, Expired
  <2>2. Abstract!Grant(t, u)
    BY <1>2, <2>1 DEF Abstract!Grant
  <2> QED BY <2>2 DEF TaskGoes, Abstract!Step
<1>5. CASE Settled(j)
  <2>1. /\ t.phase = "open" /\ u.holder = 0 /\ u.epoch = t.epoch
        /\ u.by = job'[j].by /\ t.by = job[j].by
    BY <1>1, <1>5, TaskFields DEF Settled, Terminal
  <2>2. CASE job[j].lease > 0 /\ job'[j].by = job[j].fence
    <3>1. t.holder = job[j].fence /\ t.holder # 0
      BY <1>1, <1>5, <2>2, TaskFields DEF Settled
    <3>2. u.phase \in {"open", "finished", "abandoned"}
      BY <1>5, TaskFields DEF Settled, Terminal
    <3>3. u = [t EXCEPT !.phase = u.phase, !.holder = 0, !.by = t.holder]
      BY <1>2, <2>1, <2>2, <3>1
    <3>4. Abstract!Settle(t, u)
      BY <2>1, <3>1, <3>2, <3>3 DEF Abstract!Settle
    <3> QED BY <3>4 DEF TaskGoes, Abstract!Step
  <2>3. CASE job'[j].status = "dead" /\ job'[j].by = job[j].by
    <3>1. u.phase = "abandoned"
      BY <2>3, TaskFields
    <3>2. Abstract!Abandon(t, u)
      BY <1>2, <2>1, <2>3, <3>1 DEF Abstract!Abandon
    <3> QED BY <3>2 DEF TaskGoes, Abstract!Step
  <2> QED BY <1>5, <2>2, <2>3 DEF Settled
<1>6. CASE Directed(j)
  <2>1. u.holder = 0 /\ u.epoch = t.epoch /\ u.by = t.by
    BY <1>1, <1>6, TaskFields DEF Directed
  <2>2. CASE t.phase = "open"
    <3>1. job'[j].status \in {"failed", "revoked"}
      BY <1>1, <1>6, <2>2, TaskFields DEF Directed
    <3>2. Abstract!Abandon(t, u)
      BY <1>2, <2>1, <2>2, <3>1, TaskFields DEF Abstract!Abandon
    <3> QED BY <3>2 DEF TaskGoes, Abstract!Step
  <2>3. CASE t.phase # "open"
    <3>1. job[j].status \in {"failed", "dead", "revoked"} /\ job'[j].status = "pending"
      BY <1>1, <1>6, <2>3, TaskFields DEF Directed
    <3>2. t.phase = "abandoned" /\ t.holder = 0 /\ u.phase = "open"
      BY <1>1, <3>1, TaskFields
    <3>3. Abstract!Reopen(t, u)
      BY <1>2, <2>1, <3>2 DEF Abstract!Reopen
    <3> QED BY <3>3 DEF TaskGoes, Abstract!Step
  <2> QED BY <2>2, <2>3
<1> QED BY <1>3, <1>4, <1>5, <1>6 DEF Goes

(* Nobody has settled a job that is not there.                             *)
AbsentUnsettled == \A j \in Jobs : job[j].status = "absent" => job[j].by = 0

(* Every step keeps that: a row becomes absent in none of them.            *)
LEMMA AbsentStays ==
  ASSUME IInv, AbsentUnsettled, [Next]_vars
  PROVE  AbsentUnsettled'
<1>1. CASE \E k \in Keys, p \in Payloads, skew \in Delays : EnqueueDurableJob(k, p, skew)
  BY <1>1 DEF EnqueueDurableJob, IInv, TypeOK, AbsentUnsettled, AbsentRow
<1>2. CASE \A k \in Keys, p \in Payloads, skew \in Delays : ~EnqueueDurableJob(k, p, skew)
  <2>1. \A j \in Jobs : Goes(j)
    BY <1>2, StepGoes
  <2> QED BY <2>1 DEF Goes, Stays, Granted, Settled, Directed, Terminal, AbsentUnsettled
<1> QED BY <1>1, <1>2

(* A new request submits one task.                                         *)
LEMMA EnqueueAsTask ==
  ASSUME IInv, AbsentUnsettled, NEW k \in Keys, NEW p \in Payloads, NEW skew \in Delays, EnqueueDurableJob(k, p, skew),
         NEW i \in Jobs
  PROVE  TaskGoes(i)
<1>1. PICK j \in Jobs :
        /\ job[j].status = "absent"
        /\ job' = [job EXCEPT ![j] = [AbsentRow EXCEPT !.status = "pending", !.key = k,
                                        !.payload = p, !.max = MaxAttempts, !.wait = skew]]
  BY DEF EnqueueDurableJob
<1>2. job \in [Jobs -> JobRow] /\ job[j] \in JobRow
  BY DEF IInv, TypeOK
<1>3. CASE i # j
  BY <1>1, <1>2, <1>3 DEF TaskGoes
<1>4. CASE i = j
  <2> DEFINE t == TaskOf(job[j])
             u == TaskOf(job'[j])
  <2>1. job'[j].status = "pending" /\ job'[j].fence = 0 /\ job'[j].by = 0
    BY <1>1, <1>2 DEF AbsentRow
  <2>2. job[j].fence = 0 /\ job[j].by = 0
    BY <1>1 DEF IInv, RowsAgree, RowAgrees, AbsentIsFresh, AbsentUnsettled
  <2>3. /\ t = [phase |-> "none", holder |-> 0, epoch |-> 0, by |-> 0]
        /\ u = [phase |-> "open", holder |-> 0, epoch |-> 0, by |-> 0]
    BY <1>1, <2>1, <2>2 DEF TaskOf
  <2>4. Abstract!Submit(t, u)
    BY <2>3 DEF Abstract!Submit
  <2> QED BY <1>4, <2>4 DEF TaskGoes, Abstract!Step
<1> QED BY <1>3, <1>4

(* The job table implements fenced tasks: a holder at a time, epochs that  *)
(* only grow, no task settled under a lease but by the caller who shows    *)
(* its token, and none that is finished twice.                             *)
THEOREM TasksAreFenced == Spec => ImplementsFencedTasks
<1> DEFINE tasks == [j \in Jobs |-> TaskOf(job[j])]
<1>1. Init => Abstract!Init /\ AbsentUnsettled
  <2> SUFFICES ASSUME Init PROVE Abstract!Init /\ AbsentUnsettled
    OBVIOUS
  <2>1. TaskOf(AbsentRow) = [phase |-> "none", holder |-> 0, epoch |-> 0, by |-> 0]
    BY DEF TaskOf, AbsentRow
  <2>2. AbsentUnsettled
    BY DEF Init, AbsentRow, AbsentUnsettled
  <2> QED BY <2>1, <2>2 DEF Init, Abstract!Init, Abstract!FreshTask
<1>2. IInv /\ AbsentUnsettled /\ [Next]_vars => [Abstract!Next]_tasks
  <2> SUFFICES ASSUME IInv, AbsentUnsettled, [Next]_vars PROVE Abstract!Next
    OBVIOUS
  <2>1. ASSUME NEW j \in Jobs PROVE TaskGoes(j)
    <3>1. IInv'
      BY NextIInv
    <3>2. job'[j] \in JobRow
      BY <3>1 DEF IInv, TypeOK
    <3> QED BY <3>2, EnqueueAsTask, GoesAsTask, StepGoes
  <2> QED BY <2>1 DEF TaskGoes, Abstract!Next
<1>3. IInv /\ AbsentUnsettled /\ [Next]_vars => AbsentUnsettled'
  BY AbsentStays
<1> QED BY <1>1, <1>2, <1>3, Invariance, PTL DEF Spec, ImplementsFencedTasks, Abstract!Spec
====
