---- MODULE BridgeCommands_proofs ----
(***************************************************************************)
(* Proofs about BridgeCommands, for any finite set of commands, any number *)
(* of replicas and of restarts of the server.                              *)
(*                                                                         *)
(* The three invariants that the runs check say what the tables, the       *)
(* agent's journal and the world have in common once a command is over.    *)
(* They are not inductive: what is under way matters too.  A command that  *)
(* is in the journal, with the agent or in a replica's answer has been     *)
(* leased (JournalFollows, AgentFollows, RequestsFollow); a receipt under  *)
(* way is for what the journal says is done; and what the agent holds was  *)
(* leased after a poll that found every receipt of its runtime settled, so *)
(* it comes after all that is done (ServesInOrder).                        *)
(***************************************************************************)
EXTENDS BridgeCommands, FiniteSetTheorems, WellFoundedInduction, TLAPS

----------------------------------------------------------------------------
(* The inductive invariant *)

Delivered(c) == cmd[c].status \in {"leased"} \cup Outcomes
Inserted == {c \in Commands : cmd[c].status # "none"}

(* The sequence has been used once for each row. *)
NumbersAgree == next = Cardinality(Inserted)

(* The registered runtime is no later than the one that runs, and commands *)
(* are for it or for one before.                                           *)
RuntimesGrow == /\ node <= agent.runtime
                /\ \A c \in Commands : cmd[c].runtime <= node

(* What has an outcome is over for the API's clock as well. *)
OutcomesAreOver ==
  \A c \in Commands : cmd[c].status \in Outcomes \cup {"expired"} => ~cmd[c].live

(* Only what was leased is in the journal; its result is what happened; an *)
(* outcome "executed" is the journal's.                                    *)
JournalFollows == \A c \in Commands :
  /\ effects[c] <= 1
  /\ journal[c].phase = "none" => effects[c] = 0
  /\ journal[c].phase # "none" => Delivered(c)
  /\ journal[c].phase = "done" <=> journal[c].result \in Outcomes
  /\ journal[c].result = "executed" => effects[c] = 1
  /\ cmd[c].status = "executed" => journal[c].result = "executed"

(* A settled receipt is the row's outcome. *)
Recorded(c) == /\ journal[c].phase = "done"
               /\ cmd[c].cause = "agent" /\ cmd[c].status = journal[c].result
SettledIsRecorded == \A c \in Commands : journal[c].acked => Recorded(c)

(* What the agent has in hand was leased, begun once, and at most done     *)
(* once.                                                                   *)
AgentFollows ==
  /\ agent.at \in {"got", "begun", "ran"} => agent.cmd \in Commands /\ Delivered(agent.cmd)
  /\ agent.at = "begun" => journal[agent.cmd].phase = "executing" /\ effects[agent.cmd] = 0
  /\ agent.at = "ran" => journal[agent.cmd].phase = "executing" /\ effects[agent.cmd] = 1

(* What a replica is about to answer was leased for the runtime that asks, *)
(* after its position; what it records is done and, once it is recorded,   *)
(* the row's outcome.                                                      *)
RequestFollows(r) ==
  /\ req[r].at \in {"ack", "complete", "recorded"} =>
       req[r].cmd \in Commands /\ journal[req[r].cmd].phase = "done"
  /\ req[r].at = "recorded" => Recorded(req[r].cmd)
  /\ req[r].at = "granted" =>
       /\ req[r].cmd \in Commands /\ Delivered(req[r].cmd)
       /\ cmd[req[r].cmd].runtime = req[r].runtime /\ cmd[req[r].cmd].seq > req[r].after
RequestsFollow == \A r \in Replicas : RequestFollows(r)

(* The agent waits for the request it has made, and while it asks for a    *)
(* command, or holds one it has not run, all that is done is settled and   *)
(* not after its position.                                                 *)
PositionCovers ==
  \A c \in Commands : journal[c].acked /\ cmd[c].runtime = agent.runtime => cmd[c].seq <= agent.acked
AsksInOrder == agent.at = "waits" =>
  /\ agent.on \in Replicas
  /\ req[agent.on].at # "free" /\ req[agent.on].runtime = agent.runtime
  /\ req[agent.on].at \in {"poll", "pick", "granted"} =>
       Receipts = {} /\ req[agent.on].after = agent.acked
HoldsInOrder == agent.at \in {"got", "begun"} =>
  /\ Receipts = {}
  /\ cmd[agent.cmd].runtime = agent.runtime /\ cmd[agent.cmd].seq > agent.acked
ServesInOrder == PositionCovers /\ AsksInOrder /\ HoldsInOrder

IInv == /\ TypeOK /\ NumbersAgree /\ RuntimesGrow /\ OutcomesAreOver
        /\ JournalFollows /\ SettledIsRecorded
        /\ AgentFollows /\ RequestsFollow /\ ServesInOrder

----------------------------------------------------------------------------
(* Numbers and the first of a set *)

(* A set of numbers that is not empty has a least one.                     *)
LEMMA LeastNumber ==
  ASSUME NEW T \in SUBSET Nat, T # {}
  PROVE  \E m \in T : \A n \in T : m <= n
<1> DEFINE U == {0 .. m : m \in T}
           R == StrictSubsetOrdering(Nat)
<1>1. U \subseteq FiniteSubsetsOf(Nat) /\ U # {}
  <2>1. ASSUME NEW m \in T PROVE 0 .. m \in SUBSET Nat /\ IsFiniteSet(0 .. m)
    BY FS_Interval
  <2> QED BY <2>1 DEF FiniteSubsetsOf
<1>2. PICK x \in U : \A y \in U : <<y, x>> \notin R
  <2>1. IsWellFoundedOn(R, FiniteSubsetsOf(Nat))
    BY FS_StrictSubsetOrderingWellFounded
  <2> HIDE DEF R, U
  <2> QED BY <1>1, <2>1, WFMin
<1>3. PICK m \in T : x = 0 .. m
  BY <1>2
<1>4. ASSUME NEW n \in T, n < m PROVE FALSE
  <2>1. 0 .. n \subseteq 0 .. m
    BY <1>4
  <2>2. m \in 0 .. m /\ m \notin 0 .. n
    BY <1>4
  <2>3. <<0 .. n, x>> \in R
    BY <2>1, <2>2, <1>3 DEF StrictSubsetOrdering
  <2> QED BY <2>3, <1>2
<1> QED BY <1>4

(* What a replica or the agent takes first is one of those it may take.    *)
LEMMA FirstIsOne ==
  ASSUME TypeOK, NEW S \in SUBSET Commands, S # {}
  PROVE  First(S) \in S
<1> DEFINE T == {cmd[c].seq : c \in S}
<1>1. T \in SUBSET Nat /\ T # {}
  <2>1. ASSUME NEW c \in S PROVE cmd[c].seq \in Nat
    BY DEF TypeOK, Command
  <2> QED BY <2>1
<1>2. PICK m \in T : \A n \in T : m <= n
  BY <1>1, LeastNumber
<1> QED BY <1>2 DEF First

----------------------------------------------------------------------------
(* The API's tables *)

(* What becomes of a row as far as the rest of the system can tell: once   *)
(* leased it is leased or over, under its number and runtime, an outcome   *)
(* stays, and "executed" comes from the journal.                           *)
RowsMove == \A c \in Commands :
  /\ Delivered(c) => /\ Delivered(c)'
                     /\ cmd'[c].seq = cmd[c].seq /\ cmd'[c].runtime = cmd[c].runtime
  /\ cmd[c].status \in Outcomes => cmd'[c].status = cmd[c].status /\ cmd'[c].cause = cmd[c].cause
  /\ cmd'[c].status = "executed" => journal[c].result = "executed"

(* The journal does not notice rows that move.                             *)
LEMMA JournalOutlivesRows ==
  ASSUME IInv, RowsMove, journal' = journal, effects' = effects
  PROVE  JournalFollows' /\ SettledIsRecorded'
<1>1. JournalFollows'
  BY DEF IInv, RowsMove, JournalFollows, Delivered
<1>2. SettledIsRecorded'
  BY DEF IInv, RowsMove, JournalFollows, SettledIsRecorded, Recorded
<1> QED BY <1>1, <1>2

(* Nor does the agent, whether or not it gives up what it is at: the       *)
(* receipts it has to send are the same.                                   *)
AgentRests == agent'.at = "idle" /\ agent'.runtime = agent.runtime /\ agent'.acked = agent.acked

(* Rows that only move on leave what the agent holds and owes as it was.   *)
LEMMA AgentOutlivesRows ==
  ASSUME IInv, RowsMove, journal' = journal, effects' = effects, agent' = agent \/ AgentRests
  PROVE  AgentFollows' /\ Receipts' = Receipts /\ PositionCovers' /\ HoldsInOrder'
<1> USE DEF AgentRests
<1>1. AgentFollows'
  BY DEF IInv, RowsMove, AgentFollows
<1>2. Receipts' = Receipts
  BY DEF IInv, RowsMove, JournalFollows, Receipts
<1>3. PositionCovers'
  BY DEF IInv, RowsMove, ServesInOrder, PositionCovers, SettledIsRecorded, Recorded, JournalFollows
<1>4. HoldsInOrder'
  BY <1>2 DEF IInv, RowsMove, ServesInOrder, HoldsInOrder, AgentFollows
<1> QED BY <1>1, <1>2, <1>3, <1>4

(* Nor does a replica whose request stays where it is.                     *)
LEMMA RequestsOutliveRows ==
  ASSUME IInv, RowsMove, journal' = journal, NEW r \in Replicas, req'[r] = req[r]
  PROVE  RequestFollows(r)'
<1>1. RequestFollows(r)
  BY DEF IInv, RequestsFollow
<1>2. req[r].at \in {"ack", "complete", "recorded"} =>
        req[r].cmd \in Commands /\ journal'[req[r].cmd].phase = "done"
  BY <1>1 DEF RequestFollows
<1>3. req[r].at = "recorded" => Recorded(req[r].cmd)'
  BY <1>1 DEF IInv, RequestFollows, RowsMove, Recorded, JournalFollows
<1>4. req[r].at = "granted" =>
        /\ Delivered(req[r].cmd)'
        /\ cmd'[req[r].cmd].runtime = req[r].runtime /\ cmd'[req[r].cmd].seq > req[r].after
  BY <1>1 DEF RequestFollows, RowsMove
<1> QED BY <1>1, <1>2, <1>3, <1>4 DEF RequestFollows

(* A step of the tables alone.                                             *)
LEMMA RowsPreserve ==
  ASSUME IInv, RowsMove, TypeOK', OutcomesAreOver', NumbersAgree',
         \A c \in Commands : cmd'[c].runtime <= node,
         UNCHANGED <<node, journal, effects, agent, req>>
  PROVE  IInv'
<1>1. RuntimesGrow'
  BY DEF IInv, RuntimesGrow
<1>2. RequestsFollow'
  BY RequestsOutliveRows DEF RequestsFollow
<1>3. ServesInOrder'
  BY AgentOutlivesRows DEF IInv, ServesInOrder, AsksInOrder
<1> QED
  BY <1>1, <1>2, <1>3, JournalOutlivesRows, AgentOutlivesRows DEF IInv

(* A row that keeps its status keeps the count.                            *)
LEMMA NumbersStay ==
  ASSUME IInv, next' = next, \A c \in Commands : cmd'[c].status = "none" <=> cmd[c].status = "none"
  PROVE  NumbersAgree'
<1>1. Inserted' = Inserted
  BY DEF Inserted
<1> QED BY <1>1 DEF IInv, NumbersAgree

(* A new row is neither with the agent nor in its journal.                 *)
LEMMA InsertPreserves ==
  ASSUME IInv, NEW c \in Commands, Insert(c)
  PROVE  IInv'
<1> DEFINE row == [status |-> "inserted", seq |-> next + 1, runtime |-> node, live |-> TRUE, cause |-> "none"]
<1>1. /\ cmd' = [cmd EXCEPT ![c] = row] /\ next' = next + 1 /\ cmd[c].status = "none"
      /\ UNCHANGED <<node, gate, journal, effects, agent, req>>
  BY DEF Insert
<1>2. TypeOK /\ cmd \in [Commands -> Command] /\ node \in 1 .. MaxRuntime
  BY DEF IInv, TypeOK
<1>3. Inserted' = Inserted \cup {c} /\ c \notin Inserted
  BY <1>1, <1>2 DEF Inserted, Command
<1>4. NumbersAgree' /\ next' \in 0 .. Cardinality(Commands)
  <2>1. IsFiniteSet(Inserted) /\ IsFiniteSet(Inserted') /\ Inserted' \in SUBSET Commands
    BY <1>3, BridgeAssumption, FS_Subset DEF Inserted
  <2>2. Cardinality(Inserted') = Cardinality(Inserted) + 1
    BY <1>3, <2>1, FS_AddElement
  <2>3. Cardinality(Inserted') <= Cardinality(Commands) /\ Cardinality(Commands) \in Nat
    BY <2>1, BridgeAssumption, FS_Subset, FS_CardinalityType
  <2> QED BY <1>1, <2>2, <2>3, <1>2 DEF IInv, NumbersAgree, TypeOK
<1>5. TypeOK'
  <2>1. row \in Command
    BY <1>1, <1>2, <1>4 DEF Command
  <2> QED BY <1>1, <1>2, <1>4, <2>1 DEF TypeOK
<1>6. RowsMove /\ OutcomesAreOver' /\ \A d \in Commands : cmd'[d].runtime <= node
  BY <1>1, <1>2 DEF IInv, RowsMove, OutcomesAreOver, JournalFollows, RuntimesGrow, Delivered, Outcomes, Command
<1> QED BY <1>1, <1>4, <1>5, <1>6, RowsPreserve

(* What was inserted is shown; nobody has it yet.                          *)
LEMMA CommitPreserves ==
  ASSUME IInv, NEW c \in Commands, Commit(c)
  PROVE  IInv'
<1>1. cmd \in [Commands -> Command]
  BY DEF IInv, TypeOK
<1>2. TypeOK'
  BY <1>1 DEF IInv, TypeOK, Commit, Command
<1>3. RowsMove /\ OutcomesAreOver' /\ \A d \in Commands : cmd'[d].runtime <= node
  BY <1>1 DEF IInv, Commit, RowsMove, OutcomesAreOver, JournalFollows, RuntimesGrow, Delivered, Outcomes, Command
<1>4. NumbersAgree'
  BY <1>1, NumbersStay DEF Commit
<1> QED BY <1>2, <1>3, <1>4, RowsPreserve DEF Commit

(* Time passes for a row that has not got an outcome.                      *)
LEMMA LapsePreserves ==
  ASSUME IInv, NEW c \in Commands, Lapse(c)
  PROVE  IInv'
<1>1. cmd \in [Commands -> Command]
  BY DEF IInv, TypeOK
<1>2. TypeOK'
  BY <1>1 DEF IInv, TypeOK, Lapse, Command
<1>3. RowsMove /\ OutcomesAreOver' /\ \A d \in Commands : cmd'[d].runtime <= node
  BY <1>1 DEF IInv, Lapse, RowsMove, OutcomesAreOver, JournalFollows, RuntimesGrow, Delivered, Outcomes, Command
<1>4. NumbersAgree'
  BY <1>1, NumbersStay DEF Lapse
<1> QED BY <1>2, <1>3, <1>4, RowsPreserve DEF Lapse

(* A gate that is lost with Redis touches no command.                      *)
LEMMA GateLostPreserves ==
  ASSUME IInv, NEW c \in Commands, GateLost(c)
  PROVE  IInv'
<1>1. TypeOK'
  BY DEF IInv, TypeOK, GateLost
<1>2. RowsMove
  BY DEF IInv, GateLost, RowsMove, JournalFollows, Delivered
<1>3. OutcomesAreOver' /\ NumbersAgree' /\ \A d \in Commands : cmd'[d].runtime <= node
  BY NumbersStay DEF IInv, GateLost, OutcomesAreOver, RuntimesGrow
<1> QED BY <1>1, <1>2, <1>3, RowsPreserve DEF GateLost

(* Rows that are brought up to date: a lapsed lease is over, without the   *)
(* agent's word, and what nobody has leased in time has expired.           *)
LEMMA ReconciledShape ==
  ASSUME IInv, NEW S \in SUBSET Commands, NEW cause \in {"poll", "read"}
  PROVE  /\ Reconciled(S, cause) \in [Commands -> Command]
         /\ \A c \in Commands : LET row == Reconciled(S, cause)[c] IN
              /\ row.seq = cmd[c].seq /\ row.runtime = cmd[c].runtime
              /\ row.status = "none" <=> cmd[c].status = "none"
              /\ row.status \in Outcomes \cup {"expired"} => ~row.live
              /\ row # cmd[c] =>
                   \/ cmd[c].status = "leased" /\ row.status = "indeterminate"
                   \/ cmd[c].status = "pending" /\ ~cmd[c].live /\ row.status = "expired"
<1>1. cmd \in [Commands -> Command] /\ OutcomesAreOver
  BY DEF IInv, TypeOK
<1>2. ASSUME NEW c \in Commands
      PROVE  /\ [cmd[c] EXCEPT !.status = "indeterminate", !.cause = cause, !.live = FALSE] \in Command
             /\ [cmd[c] EXCEPT !.status = "expired"] \in Command
  BY <1>1 DEF Command, Outcomes
<1> QED BY <1>1, <1>2 DEF Reconciled, Stale, Overdue, OutcomesAreOver, Outcomes, Command

(* Reconciling moves rows on, and only to outcomes that are over.          *)
LEMMA ReconciledMoves ==
  ASSUME IInv, NEW S \in SUBSET Commands, NEW cause \in {"poll", "read"}, cmd' = Reconciled(S, cause)
  PROVE  /\ cmd' \in [Commands -> Command] /\ RowsMove /\ OutcomesAreOver'
         /\ \A c \in Commands : /\ cmd'[c].runtime = cmd[c].runtime
                                /\ cmd'[c].status = "none" <=> cmd[c].status = "none"
<1>1. RowsMove
  BY ReconciledShape DEF IInv, RowsMove, JournalFollows, Delivered, Outcomes
<1> QED BY <1>1, ReconciledShape DEF OutcomesAreOver

(* An operator's read reconciles what it shows.                            *)
LEMMA OperatorReadsPreserves ==
  ASSUME IInv, NEW S \in SUBSET Commands, OperatorReads(S)
  PROVE  IInv'
<1>1. /\ cmd' \in [Commands -> Command] /\ RowsMove /\ OutcomesAreOver'
      /\ \A c \in Commands : /\ cmd'[c].runtime = cmd[c].runtime
                             /\ cmd'[c].status = "none" <=> cmd[c].status = "none"
  BY ReconciledMoves DEF OperatorReads, Read
<1>2. UNCHANGED <<next, node, gate, journal, effects, agent, req>>
  BY DEF OperatorReads
<1>3. TypeOK' /\ NumbersAgree'
  BY <1>1, <1>2, NumbersStay DEF IInv, TypeOK
<1>4. \A c \in Commands : cmd'[c].runtime <= node
  BY <1>1 DEF IInv, RuntimesGrow
<1> QED BY <1>1, <1>2, <1>3, <1>4, RowsPreserve

----------------------------------------------------------------------------
(* Replicas *)

(* A replica is free again, and the agent, if it has waited for it, begins *)
(* anew: whatever the tables did in the same step.                         *)
LEMMA FreesPreserve ==
  ASSUME IInv, NEW r \in Replicas, RowsMove, Frees(r), NoAnswer(r),
         journal' = journal, effects' = effects
  PROVE  /\ agent' \in Agent /\ req' \in [Replicas -> Request] /\ agent'.runtime = agent.runtime
         /\ AgentFollows' /\ RequestsFollow' /\ ServesInOrder'
<1>1. agent \in Agent /\ req \in [Replicas -> Request]
  BY DEF IInv, TypeOK
<1>2. req' \in [Replicas -> Request] /\ req'[r] = Free /\ \A q \in Replicas \ {r} : req'[q] = req[q]
  <2>1. Free \in Request
    BY BridgeAssumption, FS_CardinalityType DEF Free, Request
  <2> QED BY <1>1, <2>1 DEF Frees
<1>3. agent' \in Agent /\ agent'.runtime = agent.runtime /\ ((agent' = agent /\ ~Waits(r)) \/ AgentRests)
  BY <1>1 DEF NoAnswer, Agent, AgentRests
<1>4. RequestsFollow'
  <2>1. RequestFollows(r)'
    BY <1>2 DEF RequestFollows, Free
  <2>2. ASSUME NEW q \in Replicas \ {r} PROVE RequestFollows(q)'
    BY <1>2, RequestsOutliveRows
  <2> QED BY <2>1, <2>2 DEF RequestsFollow
<1>5. AgentFollows' /\ Receipts' = Receipts /\ PositionCovers' /\ HoldsInOrder'
  BY <1>3, AgentOutlivesRows
<1>6. AsksInOrder'
  BY <1>2, <1>3, <1>5 DEF IInv, ServesInOrder, AsksInOrder, Waits, AgentRests
<1> QED BY <1>2, <1>3, <1>4, <1>5, <1>6 DEF ServesInOrder

(* A request that is lost leaves what the API has committed.               *)
LEMMA FailsPreserves ==
  ASSUME IInv, NEW r \in Replicas, Fails(r)
  PROVE  IInv'
<1>1. RowsMove
  BY DEF IInv, Fails, RowsMove, JournalFollows, Delivered
<1>2. /\ agent' \in Agent /\ req' \in [Replicas -> Request] /\ agent'.runtime = agent.runtime
      /\ AgentFollows' /\ RequestsFollow' /\ ServesInOrder'
  BY <1>1, FreesPreserve DEF Fails
<1>3. TypeOK' /\ NumbersAgree' /\ RuntimesGrow' /\ OutcomesAreOver'
  BY <1>2, NumbersStay DEF IInv, Fails, TypeOK, RuntimesGrow, OutcomesAreOver
<1> QED BY <1>1, <1>2, <1>3, JournalOutlivesRows DEF IInv, Fails

(* The step of one replica's request, and of nothing of the others'.       *)
LEMMA OtherRequestsFollow ==
  ASSUME IInv, RowsMove, journal' = journal, NEW r \in Replicas, RequestFollows(r)',
         \A q \in Replicas \ {r} : req'[q] = req[q]
  PROVE  RequestsFollow'
<1>1. ASSUME NEW q \in Replicas \ {r} PROVE RequestFollows(q)'
  BY RequestsOutliveRows
<1> QED BY <1>1 DEF RequestsFollow

(* A poll for the lease the channel has.                                   *)
LEMMA PollLookPreserves ==
  ASSUME IInv, NEW r \in Replicas, PollLook(r)
  PROVE  IInv'
<1>1. /\ req[r].at = "poll" /\ node = req[r].runtime
      /\ UNCHANGED <<next, node, gate, journal, effects, agent>>
  BY DEF PollLook
<1>2. /\ cmd \in [Commands -> Command] /\ req \in [Replicas -> Request] /\ TypeOK
      /\ Cardinality(Commands) \in Nat
  BY BridgeAssumption, FS_CardinalityType DEF IInv, TypeOK
<1>3. /\ cmd' \in [Commands -> Command] /\ RowsMove /\ OutcomesAreOver'
      /\ \A c \in Commands : /\ cmd'[c].runtime = cmd[c].runtime
                             /\ cmd'[c].status = "none" <=> cmd[c].status = "none"
  <2>1. CASE cmd' = Reconciled(Commands, "poll")
    BY <2>1, ReconciledMoves
  <2>2. CASE cmd' = cmd
    BY <2>2, <1>2 DEF IInv, RowsMove, JournalFollows, Delivered, OutcomesAreOver
  <2> QED BY <2>1, <2>2 DEF PollLook
<1>4. /\ req' \in [Replicas -> Request] /\ \A q \in Replicas \ {r} : req'[q] = req[q]
      /\ req'[r].at \in {"pick", "granted"} /\ req'[r].runtime = req[r].runtime
      /\ req'[r].after = req[r].after
      /\ req'[r].at = "granted" => Granted(r) # {} /\ req'[r].cmd = First(Granted(r))
  <2>1. CASE Granted(r) # {}
    <3>1. First(Granted(r)) \in Commands
      BY <1>2, <2>1, FirstIsOne DEF Granted
    <3>2. req' = [req EXCEPT ![r].at = "granted", ![r].cmd = First(Granted(r))]
      BY <2>1 DEF PollLook
    <3> QED BY <1>2, <2>1, <3>1, <3>2 DEF Request
  <2>2. CASE Granted(r) = {}
    BY <1>2, <2>2 DEF PollLook, Goes, Request
  <2> QED BY <2>1, <2>2
<1>5. RequestFollows(r)'
  <2>1. CASE req'[r].at = "granted"
    <3>1. req'[r].cmd \in Granted(r)
      BY <1>2, <1>4, <2>1, FirstIsOne DEF Granted
    <3>2. /\ req'[r].cmd \in Commands /\ Delivered(req'[r].cmd)
          /\ cmd[req'[r].cmd].runtime = req'[r].runtime /\ cmd[req'[r].cmd].seq > req'[r].after
      BY <3>1, <1>4 DEF Granted, Delivered
    <3> QED BY <2>1, <3>2, <1>3 DEF RequestFollows, RowsMove
  <2>2. CASE req'[r].at = "pick"
    BY <2>2 DEF RequestFollows
  <2> QED BY <1>4, <2>1, <2>2
<1>6. RequestsFollow'
  BY <1>1, <1>3, <1>4, <1>5, OtherRequestsFollow
<1>7. JournalFollows' /\ SettledIsRecorded'
  BY <1>1, <1>3, JournalOutlivesRows
<1>8. AgentFollows' /\ Receipts' = Receipts /\ PositionCovers' /\ HoldsInOrder'
  BY <1>1, <1>3, AgentOutlivesRows
<1>9. AsksInOrder'
  BY <1>1, <1>4, <1>8 DEF IInv, ServesInOrder, AsksInOrder
<1>10. TypeOK' /\ NumbersAgree' /\ RuntimesGrow'
  BY <1>1, <1>2, <1>3, <1>4, NumbersStay DEF IInv, TypeOK, RuntimesGrow
<1> QED BY <1>3, <1>6, <1>7, <1>8, <1>9, <1>10 DEF IInv, ServesInOrder

(* A poll that takes the next command, or finds none.                      *)
LEMMA PollPickPreserves ==
  ASSUME IInv, NEW r \in Replicas, PollPick(r)
  PROVE  IInv'
<1>1. req[r].at = "pick" /\ UNCHANGED <<next, node, gate, journal, effects>>
  BY DEF PollPick
<1>2. /\ cmd \in [Commands -> Command] /\ req \in [Replicas -> Request] /\ TypeOK
      /\ Cardinality(Commands) \in Nat
  BY BridgeAssumption, FS_CardinalityType DEF IInv, TypeOK
<1>3. CASE Offered(r) = {}
  <2>1. Frees(r) /\ NoAnswer(r) /\ cmd' = cmd
    BY <1>3 DEF PollPick
  <2>2. RowsMove
    BY <2>1 DEF IInv, RowsMove, JournalFollows, Delivered
  <2>3. /\ agent' \in Agent /\ req' \in [Replicas -> Request] /\ agent'.runtime = agent.runtime
        /\ AgentFollows' /\ RequestsFollow' /\ ServesInOrder'
    BY <1>1, <2>1, <2>2, FreesPreserve
  <2>4. TypeOK' /\ NumbersAgree' /\ RuntimesGrow' /\ OutcomesAreOver'
    BY <1>1, <2>1, <2>3, NumbersStay DEF IInv, TypeOK, RuntimesGrow, OutcomesAreOver
  <2> QED BY <1>1, <2>2, <2>3, <2>4, JournalOutlivesRows DEF IInv
<1>4. CASE Offered(r) # {}
  <2> DEFINE c == First(Offered(r))
             R == Reconciled(Commands, "poll")
  <2>1. c \in Offered(r)
    BY <1>2, <1>4, FirstIsOne DEF Offered
  <2>2. /\ cmd' = [R EXCEPT ![c].status = "leased"]
        /\ req' = [req EXCEPT ![r].at = "granted", ![r].cmd = c]
        /\ agent' = agent
    BY <1>4 DEF PollPick
  <2>3. /\ c \in Commands /\ cmd[c].status = "pending" /\ cmd[c].live
        /\ cmd[c].runtime = req[r].runtime /\ cmd[c].seq > req[r].after
    BY <2>1 DEF Offered
  <2> HIDE DEF c
  <2>4. R[c] = cmd[c] /\ R \in [Commands -> Command]
    BY <2>3, ReconciledShape
  <2>5. /\ cmd' \in [Commands -> Command] /\ cmd'[c] = [cmd[c] EXCEPT !.status = "leased"]
        /\ \A d \in Commands \ {c} : cmd'[d] = R[d]
    BY <2>2, <2>3, <2>4 DEF Command
  <2>6. /\ RowsMove /\ OutcomesAreOver'
        /\ \A d \in Commands : /\ cmd'[d].runtime = cmd[d].runtime
                               /\ cmd'[d].status = "none" <=> cmd[d].status = "none"
    <3>1. \A d \in Commands \ {c} :
             /\ cmd'[d].seq = cmd[d].seq /\ cmd'[d].runtime = cmd[d].runtime
             /\ cmd'[d].status = "none" <=> cmd[d].status = "none"
             /\ cmd'[d].status \in Outcomes \cup {"expired"} => ~cmd'[d].live
             /\ cmd'[d] # cmd[d] =>
                  \/ cmd[d].status = "leased" /\ cmd'[d].status = "indeterminate"
                  \/ cmd[d].status = "pending" /\ ~cmd[d].live /\ cmd'[d].status = "expired"
      BY <2>5, ReconciledShape
    <3>2. /\ cmd'[c].status = "leased" /\ cmd'[c].runtime = cmd[c].runtime /\ cmd'[c].seq = cmd[c].seq
      BY <2>3, <2>5, <1>2 DEF Command
    <3> HIDE DEF R
    <3>3. RowsMove
      BY <2>3, <3>1, <3>2 DEF IInv, RowsMove, JournalFollows, Delivered, Outcomes
    <3>4. OutcomesAreOver'
      BY <3>1, <3>2 DEF OutcomesAreOver, Outcomes
    <3> QED BY <2>3, <3>1, <3>2, <3>3, <3>4
  <2>7. /\ req' \in [Replicas -> Request] /\ \A q \in Replicas \ {r} : req'[q] = req[q]
        /\ req'[r].at = "granted" /\ req'[r].cmd = c
        /\ req'[r].runtime = req[r].runtime /\ req'[r].after = req[r].after
    BY <1>2, <2>2, <2>3 DEF Request
  <2>8. RequestFollows(r)'
    BY <1>2, <2>3, <2>5, <2>7 DEF RequestFollows, Delivered, Command
  <2>9. RequestsFollow'
    BY <1>1, <2>6, <2>7, <2>8, OtherRequestsFollow
  <2>10. JournalFollows' /\ SettledIsRecorded'
    BY <1>1, <2>6, JournalOutlivesRows
  <2>11. AgentFollows' /\ Receipts' = Receipts /\ PositionCovers' /\ HoldsInOrder'
    BY <1>1, <2>2, <2>6, AgentOutlivesRows
  <2>12. AsksInOrder'
    BY <1>1, <2>2, <2>7, <2>11 DEF IInv, ServesInOrder, AsksInOrder
  <2>13. TypeOK' /\ NumbersAgree' /\ RuntimesGrow'
    BY <1>1, <2>2, <2>5, <2>6, <2>7, NumbersStay DEF IInv, TypeOK, RuntimesGrow
  <2> QED BY <2>6, <2>9, <2>10, <2>11, <2>12, <2>13 DEF IInv, ServesInOrder
<1> QED BY <1>3, <1>4

(* The answer to a poll: the agent gets the command if it still waits.     *)
LEMMA PollAnswerPreserves ==
  ASSUME IInv, NEW r \in Replicas, PollAnswer(r)
  PROVE  IInv'
<1> DEFINE c == req[r].cmd
<1>1. req[r].at = "granted" /\ Frees(r) /\ UNCHANGED <<cmd, next, node, journal, effects>>
  BY DEF PollAnswer
<1>2. TypeOK /\ req \in [Replicas -> Request] /\ agent \in Agent
  BY DEF IInv, TypeOK
<1>3. RowsMove /\ OutcomesAreOver'
  BY <1>1 DEF IInv, RowsMove, JournalFollows, Delivered, OutcomesAreOver
<1>4. /\ c \in Commands /\ Delivered(c)
      /\ cmd[c].runtime = req[r].runtime /\ cmd[c].seq > req[r].after
  BY <1>1 DEF IInv, RequestsFollow, RequestFollows
<1>5. req' \in [Replicas -> Request] /\ req'[r] = Free /\ \A q \in Replicas \ {r} : req'[q] = req[q]
  <2>1. Free \in Request
    BY BridgeAssumption, FS_CardinalityType DEF Free, Request
  <2> QED BY <1>1, <1>2, <2>1 DEF Frees
<1>6. RequestsFollow'
  <2>1. RequestFollows(r)'
    BY <1>5 DEF RequestFollows, Free
  <2> QED BY <1>1, <1>3, <1>5, <2>1, OtherRequestsFollow
<1>7. JournalFollows' /\ SettledIsRecorded'
  BY <1>1, <1>3, JournalOutlivesRows
<1>8. agent' \in Agent /\ agent'.runtime = agent.runtime /\ AgentFollows' /\ ServesInOrder'
  <2>1. CASE ~Waits(r)
    <3>1. agent' = agent
      BY <2>1 DEF PollAnswer
    <3>2. AgentFollows' /\ Receipts' = Receipts /\ PositionCovers' /\ HoldsInOrder'
      BY <1>1, <1>3, <3>1, AgentOutlivesRows
    <3>3. AsksInOrder'
      BY <1>5, <2>1, <3>1, <3>2 DEF IInv, ServesInOrder, AsksInOrder, Waits
    <3> QED BY <1>2, <3>1, <3>2, <3>3 DEF ServesInOrder
  <2>2. CASE Waits(r)
    <3>1. agent' = [agent EXCEPT !.at = "got", !.on = NoReplica, !.cmd = c]
      BY <2>2 DEF PollAnswer
    <3>2. agent' \in Agent
      BY <1>2, <1>4, <3>1 DEF Agent
    <3>3. /\ agent'.at = "got" /\ agent'.cmd = c
          /\ agent'.runtime = agent.runtime /\ agent'.acked = agent.acked
      BY <1>2, <3>1 DEF Agent
    <3>4. Receipts = {} /\ req[r].after = agent.acked /\ req[r].runtime = agent.runtime
      BY <1>1, <2>2 DEF IInv, ServesInOrder, AsksInOrder, Waits
    <3>5. AgentFollows'
      BY <1>1, <1>4, <3>3 DEF AgentFollows, Delivered
    <3>6. Receipts' = Receipts /\ PositionCovers'
      BY <1>1, <3>3 DEF IInv, Receipts, ServesInOrder, PositionCovers
    <3>7. AsksInOrder' /\ HoldsInOrder'
      BY <1>1, <1>4, <3>3, <3>4, <3>6 DEF AsksInOrder, HoldsInOrder
    <3> QED BY <3>2, <3>3, <3>5, <3>6, <3>7 DEF ServesInOrder
  <2> QED BY <2>1, <2>2
<1>9. TypeOK' /\ NumbersAgree' /\ RuntimesGrow'
  <2>1. gate' \subseteq Commands
    BY <1>2, <1>4 DEF PollAnswer, TypeOK
  <2> QED BY <1>1, <1>2, <1>5, <1>8, <2>1, NumbersStay DEF IInv, TypeOK, RuntimesGrow
<1> QED BY <1>3, <1>6, <1>7, <1>8, <1>9 DEF IInv

(* A receipt goes on to its next place.                                    *)
LEMMA GoesPreserve ==
  ASSUME IInv, RowsMove, journal' = journal, effects' = effects, agent' = agent,
         NEW r \in Replicas, NEW place \in {"complete", "recorded"}, Goes(r, place),
         req[r].at \in {"ack", "complete"}, place = "recorded" => Recorded(req[r].cmd)'
  PROVE  req' \in [Replicas -> Request] /\ AgentFollows' /\ RequestsFollow' /\ ServesInOrder'
<1>1. req \in [Replicas -> Request]
  BY DEF IInv, TypeOK
<1>2. /\ req' \in [Replicas -> Request] /\ \A q \in Replicas \ {r} : req'[q] = req[q]
      /\ req'[r].at = place /\ req'[r].cmd = req[r].cmd /\ req'[r].runtime = req[r].runtime
  BY <1>1 DEF Goes, Request
<1>3. req[r].cmd \in Commands /\ journal'[req[r].cmd].phase = "done"
  BY DEF IInv, RequestsFollow, RequestFollows
<1>4. RequestFollows(r)'
  BY <1>2, <1>3 DEF RequestFollows
<1>5. RequestsFollow'
  BY <1>2, <1>4, OtherRequestsFollow
<1>6. AgentFollows' /\ Receipts' = Receipts /\ PositionCovers' /\ HoldsInOrder'
  BY AgentOutlivesRows
<1>7. AsksInOrder'
  BY <1>2, <1>6 DEF IInv, ServesInOrder, AsksInOrder
<1> QED BY <1>2, <1>5, <1>6, <1>7 DEF ServesInOrder

(* A receipt: the row is read and brought up to date.                      *)
LEMMA AckReadPreserves ==
  ASSUME IInv, NEW r \in Replicas, AckRead(r)
  PROVE  IInv'
<1> DEFINE c == req[r].cmd
<1>1. /\ req[r].at = "ack" /\ cmd' = Reconciled({c}, "read")
      /\ UNCHANGED <<next, node, gate, journal, effects>>
      /\ (Goes(r, "complete") /\ agent' = agent) \/ (Frees(r) /\ NoAnswer(r))
  BY DEF AckRead, Read
<1>2. TypeOK /\ req \in [Replicas -> Request]
  BY DEF IInv, TypeOK
<1>3. c \in Commands /\ journal[c].phase = "done"
  BY <1>1 DEF IInv, RequestsFollow, RequestFollows
<1>4. /\ cmd' \in [Commands -> Command] /\ RowsMove /\ OutcomesAreOver'
      /\ \A d \in Commands : /\ cmd'[d].runtime = cmd[d].runtime
                             /\ cmd'[d].status = "none" <=> cmd[d].status = "none"
  BY <1>1, <1>3, ReconciledMoves
<1>5. /\ agent' \in Agent /\ req' \in [Replicas -> Request] /\ agent'.runtime = agent.runtime
      /\ AgentFollows' /\ RequestsFollow' /\ ServesInOrder'
  <2>1. CASE Frees(r) /\ NoAnswer(r)
    BY <1>1, <1>4, <2>1, FreesPreserve
  <2>2. CASE Goes(r, "complete") /\ agent' = agent
    BY <1>1, <1>2, <1>4, <2>2, GoesPreserve DEF TypeOK
  <2> QED BY <1>1, <2>1, <2>2
<1>6. TypeOK' /\ NumbersAgree' /\ RuntimesGrow'
  BY <1>1, <1>4, <1>5, NumbersStay DEF IInv, TypeOK, RuntimesGrow
<1> QED BY <1>1, <1>4, <1>5, <1>6, JournalOutlivesRows DEF IInv

(* A receipt is recorded over a lease, or agrees with what was recorded,   *)
(* or is refused.                                                          *)
LEMMA AckCompletePreserves ==
  ASSUME IInv, NEW r \in Replicas, AckComplete(r)
  PROVE  IInv'
<1> DEFINE c == req[r].cmd
<1>1. req[r].at = "complete" /\ UNCHANGED <<next, node, gate, journal, effects>>
  BY DEF AckComplete
<1>2. TypeOK /\ cmd \in [Commands -> Command] /\ req \in [Replicas -> Request]
  BY DEF IInv, TypeOK
<1>3. c \in Commands /\ journal[c].phase = "done" /\ journal[c].result \in Outcomes
  BY <1>1 DEF IInv, RequestsFollow, RequestFollows, JournalFollows
<1>4. /\ cmd' \in [Commands -> Command] /\ RowsMove /\ OutcomesAreOver'
      /\ \A d \in Commands : /\ cmd'[d].runtime = cmd[d].runtime
                             /\ cmd'[d].status = "none" <=> cmd[d].status = "none"
  <2>1. CASE cmd' = cmd
    BY <1>2, <2>1 DEF IInv, RowsMove, JournalFollows, Delivered, OutcomesAreOver
  <2>2. CASE /\ cmd[c].status = "leased"
             /\ cmd' = [cmd EXCEPT ![c].status = journal[c].result, ![c].cause = "agent", ![c].live = FALSE]
    BY <1>2, <1>3, <2>2
       DEF IInv, Command, RowsMove, JournalFollows, Delivered, OutcomesAreOver, Outcomes
  <2> QED BY <2>1, <2>2 DEF AckComplete
<1>5. /\ agent' \in Agent /\ req' \in [Replicas -> Request] /\ agent'.runtime = agent.runtime
      /\ AgentFollows' /\ RequestsFollow' /\ ServesInOrder'
  <2>1. CASE Frees(r) /\ NoAnswer(r)
    BY <1>1, <1>4, <2>1, FreesPreserve
  <2>2. CASE Goes(r, "recorded") /\ agent' = agent
    <3>1. Recorded(c)'
      <4> c' = c
        BY <1>2, <2>2 DEF Goes, Request
      <4>1. CASE /\ cmd[c].status = "leased"
                 /\ cmd' = [cmd EXCEPT ![c].status = journal[c].result, ![c].cause = "agent", ![c].live = FALSE]
        BY <1>1, <1>2, <1>3, <4>1 DEF Recorded, Command
      <4>2. CASE cmd' = cmd /\ Agrees(c)
        BY <1>1, <1>3, <4>2 DEF Recorded, Agrees
      <4>3. ~ (Frees(r) /\ NoAnswer(r))
        BY <1>2, <2>2 DEF Frees, Goes, Free, Request
      <4> QED BY <4>1, <4>2, <4>3 DEF AckComplete
    <3> QED BY <1>1, <1>2, <1>4, <2>2, <3>1, GoesPreserve DEF TypeOK
  <2> QED BY <2>1, <2>2 DEF AckComplete
<1>6. TypeOK' /\ NumbersAgree' /\ RuntimesGrow'
  BY <1>1, <1>4, <1>5, NumbersStay DEF IInv, TypeOK, RuntimesGrow
<1> QED BY <1>1, <1>4, <1>5, <1>6, JournalOutlivesRows DEF IInv

(* The answer to a receipt: the agent, if it still waits for it, settles   *)
(* the entry and moves its position up to the command's number.            *)
LEMMA AckAnswerPreserves ==
  ASSUME IInv, NEW r \in Replicas, AckAnswer(r)
  PROVE  IInv'
<1> DEFINE c == req[r].cmd
<1>1. req[r].at = "recorded" /\ Frees(r) /\ UNCHANGED <<cmd, next, node, effects>>
  BY DEF AckAnswer
<1>2. /\ TypeOK /\ req \in [Replicas -> Request] /\ agent \in Agent /\ journal \in [Commands -> Entry]
      /\ cmd \in [Commands -> Command] /\ Cardinality(Commands) \in Nat
  BY BridgeAssumption, FS_CardinalityType DEF IInv, TypeOK
<1>3. c \in Commands /\ Recorded(c)
  BY <1>1 DEF IInv, RequestsFollow, RequestFollows
<1>4. RowsMove /\ OutcomesAreOver'
  BY <1>1 DEF IInv, RowsMove, JournalFollows, Delivered, OutcomesAreOver
<1>5. req' \in [Replicas -> Request] /\ req'[r] = Free /\ \A q \in Replicas \ {r} : req'[q] = req[q]
  <2>1. Free \in Request
    BY BridgeAssumption, FS_CardinalityType DEF Free, Request
  <2> QED BY <1>1, <1>2, <2>1 DEF Frees
<1>6. /\ journal' \in [Commands -> Entry]
      /\ \A d \in Commands : /\ journal'[d].phase = journal[d].phase /\ journal'[d].result = journal[d].result
                             /\ journal'[d].acked => journal[d].acked \/ d = c
  <2>1. CASE journal' = journal
    BY <1>2, <2>1
  <2>2. CASE journal' = [journal EXCEPT ![c].acked = TRUE]
    BY <1>2, <1>3, <2>2 DEF Entry
  <2> QED BY <2>1, <2>2 DEF AckAnswer
<1>7. JournalFollows' /\ SettledIsRecorded'
  BY <1>1, <1>3, <1>6 DEF IInv, JournalFollows, SettledIsRecorded, Recorded, Delivered
<1>8. RequestsFollow'
  <2>1. ASSUME NEW q \in Replicas PROVE RequestFollows(q)'
    BY <1>1, <1>5, <1>6 DEF IInv, RequestsFollow, RequestFollows, Recorded, Free, Delivered
  <2> QED BY <2>1 DEF RequestsFollow
<1>9. agent' \in Agent /\ agent'.runtime = agent.runtime /\ AgentFollows' /\ ServesInOrder'
  <2>1. CASE ~Waits(r)
    <3>1. agent' = agent /\ journal' = journal
      BY <2>1 DEF AckAnswer
    <3>2. AgentFollows' /\ Receipts' = Receipts /\ PositionCovers' /\ HoldsInOrder'
      BY <1>1, <1>4, <3>1, AgentOutlivesRows
    <3>3. AsksInOrder'
      BY <1>5, <2>1, <3>1, <3>2 DEF IInv, ServesInOrder, AsksInOrder, Waits
    <3> QED BY <1>2, <3>1, <3>2, <3>3 DEF ServesInOrder
  <2>2. CASE Waits(r)
    <3>1. agent' = [agent EXCEPT !.at = "idle", !.on = NoReplica, !.acked = Advanced(@, cmd[c].seq)]
      BY <2>2 DEF AckAnswer
    <3>2. /\ agent.acked \in 0 .. Cardinality(Commands) /\ cmd[c].seq \in 0 .. Cardinality(Commands)
          /\ Advanced(agent.acked, cmd[c].seq) \in 0 .. Cardinality(Commands)
          /\ agent.acked <= Advanced(agent.acked, cmd[c].seq) /\ cmd[c].seq <= Advanced(agent.acked, cmd[c].seq)
      BY <1>2, <1>3 DEF Advanced, Agent, Command
    <3>3. /\ agent' \in Agent /\ agent'.at = "idle" /\ agent'.runtime = agent.runtime
          /\ agent'.acked = Advanced(agent.acked, cmd[c].seq)
      BY <1>2, <3>1, <3>2 DEF Agent
    <3>4. PositionCovers'
      BY <1>1, <1>2, <1>6, <3>2, <3>3 DEF IInv, ServesInOrder, PositionCovers, Command
    <3> QED BY <3>3, <3>4 DEF AgentFollows, ServesInOrder, AsksInOrder, HoldsInOrder
  <2> QED BY <2>1, <2>2
<1>10. TypeOK' /\ NumbersAgree' /\ RuntimesGrow'
  <2>1. gate' \subseteq Commands
    BY <1>2 DEF AckAnswer, TypeOK
  <2> QED BY <1>1, <1>2, <1>5, <1>6, <1>9, <2>1, NumbersStay DEF IInv, TypeOK, RuntimesGrow
<1> QED BY <1>4, <1>7, <1>8, <1>9, <1>10 DEF IInv

----------------------------------------------------------------------------
(* The agent *)

(* The agent asks a free replica: to take a receipt, or for a command when *)
(* it has none to send.                                                    *)
LEMMA SendsPreserves ==
  ASSUME IInv, NEW r \in Replicas, NEW request \in Request, Sends(r, request),
         request.runtime = agent.runtime,
         \/ request.at = "ack" /\ request.cmd \in Receipts
         \/ request.at = "poll" /\ Receipts = {} /\ request.after = agent.acked
  PROVE  IInv'
<1>1. /\ agent.at = "idle" /\ req' = [req EXCEPT ![r] = request]
      /\ agent' = [agent EXCEPT !.at = "waits", !.on = r]
      /\ UNCHANGED <<cmd, next, node, gate, journal, effects>>
  BY DEF Sends
<1>2. TypeOK /\ req \in [Replicas -> Request] /\ agent \in Agent
  BY DEF IInv, TypeOK
<1>3. RowsMove /\ OutcomesAreOver'
  BY <1>1 DEF IInv, RowsMove, JournalFollows, Delivered, OutcomesAreOver
<1>4. req' \in [Replicas -> Request] /\ req'[r] = request /\ \A q \in Replicas \ {r} : req'[q] = req[q]
  BY <1>1, <1>2
<1>5. /\ agent' \in Agent /\ agent'.at = "waits" /\ agent'.on = r
      /\ agent'.runtime = agent.runtime /\ agent'.acked = agent.acked
  BY <1>1, <1>2 DEF Agent
<1>6. RequestsFollow'
  <2>1. RequestFollows(r)'
    BY <1>1, <1>4 DEF RequestFollows, Receipts
  <2> QED BY <1>1, <1>3, <1>4, <2>1, OtherRequestsFollow
<1>7. AgentFollows' /\ ServesInOrder'
  <2>1. Receipts' = Receipts
    BY <1>1, <1>5 DEF Receipts
  <2>2. PositionCovers'
    BY <1>1, <1>5 DEF IInv, ServesInOrder, PositionCovers
  <2>3. AsksInOrder'
    BY <1>4, <1>5, <2>1 DEF AsksInOrder
  <2> QED BY <1>5, <2>2, <2>3 DEF AgentFollows, ServesInOrder, HoldsInOrder
<1>8. TypeOK' /\ NumbersAgree' /\ RuntimesGrow'
  BY <1>1, <1>2, <1>4, <1>5, NumbersStay DEF IInv, TypeOK, RuntimesGrow
<1> QED BY <1>1, <1>3, <1>6, <1>7, <1>8, JournalOutlivesRows DEF IInv

(* The receipt the agent sends is the first it owes.                       *)
LEMMA AgentAcksPreserves ==
  ASSUME IInv, NEW r \in Replicas, AgentAcks(r)
  PROVE  IInv'
<1> DEFINE request == [at |-> "ack", cmd |-> First(Receipts), runtime |-> agent.runtime, after |-> 0]
<1>1. First(Receipts) \in Receipts
  BY FirstIsOne DEF IInv, AgentAcks, Receipts
<1>2. request \in Request
  BY <1>1, BridgeAssumption, FS_CardinalityType DEF IInv, TypeOK, Agent, Request, Receipts
<1>3. Sends(r, request)
  BY DEF AgentAcks
<1> QED BY <1>1, <1>2, <1>3, SendsPreserves

(* A poll asks for what comes after the receipts that were settled.        *)
LEMMA AgentPollsPreserves ==
  ASSUME IInv, NEW r \in Replicas, AgentPolls(r)
  PROVE  IInv'
<1> DEFINE request == [at |-> "poll", cmd |-> NoCommand, runtime |-> agent.runtime, after |-> agent.acked]
<1>1. request \in Request
  BY DEF IInv, TypeOK, Agent, Request
<1>2. Receipts = {} /\ Sends(r, request)
  BY DEF AgentPolls
<1> QED BY <1>1, <1>2, SendsPreserves

(* The agent gives up what it is at, and nothing else happens.             *)
LEMMA RestsPreserves ==
  ASSUME IInv, Rests, UNCHANGED <<cmd, next, node, gate, journal, effects, req>>
  PROVE  IInv'
<1>1. TypeOK /\ agent \in Agent
  BY DEF IInv, TypeOK
<1>2. agent' \in Agent /\ AgentRests
  BY <1>1 DEF Rests, Agent, AgentRests
<1>3. RowsMove /\ OutcomesAreOver' /\ RequestsFollow'
  BY DEF IInv, RowsMove, JournalFollows, Delivered, OutcomesAreOver, RequestsFollow, RequestFollows, Recorded
<1>4. AgentFollows' /\ ServesInOrder'
  BY <1>2, <1>3, AgentOutlivesRows DEF ServesInOrder, AsksInOrder, AgentRests
<1>5. TypeOK' /\ NumbersAgree' /\ RuntimesGrow'
  BY <1>1, <1>2, NumbersStay DEF IInv, TypeOK, RuntimesGrow, AgentRests
<1> QED BY <1>3, <1>4, <1>5, JournalOutlivesRows DEF IInv

(* What a step of the journal, of the effects and of the agent for the     *)
(* command it has in hand has to keep.  The requests under way are for     *)
(* commands that are done, which this one is not.                          *)
JournalMoves(c) ==
  /\ journal[c].phase # "done" /\ ~journal'[c].acked
  /\ journal' \in [Commands -> Entry] /\ effects' \in [Commands -> Nat]
  /\ \A d \in Commands \ {c} : journal'[d] = journal[d] /\ effects'[d] = effects[d]
  /\ journal'[c].phase # "none" /\ effects'[c] <= 1
  /\ journal'[c].phase = "done" <=> journal'[c].result \in Outcomes
  /\ journal'[c].result = "executed" => effects'[c] = 1

(* What the steps that write the agent's journal have in common.           *)
LEMMA JournalPreserves ==
  ASSUME IInv, NEW c \in Commands, Delivered(c), JournalMoves(c),
         agent' \in Agent, agent'.runtime = agent.runtime, agent'.acked = agent.acked,
         agent'.at # "waits", AgentFollows', HoldsInOrder',
         UNCHANGED <<cmd, next, node, gate, req>>
  PROVE  IInv'
<1>1. JournalFollows' /\ SettledIsRecorded'
  BY DEF IInv, JournalFollows, SettledIsRecorded, JournalMoves, Recorded, Delivered, Outcomes
<1>2. RequestsFollow'
  BY DEF IInv, RequestsFollow, RequestFollows, JournalMoves, Recorded, Delivered
<1>3. PositionCovers' /\ AsksInOrder'
  BY DEF IInv, ServesInOrder, PositionCovers, AsksInOrder, JournalMoves
<1>4. TypeOK' /\ NumbersAgree' /\ RuntimesGrow' /\ OutcomesAreOver'
  BY NumbersStay DEF IInv, TypeOK, RuntimesGrow, OutcomesAreOver, JournalMoves
<1> QED BY <1>1, <1>2, <1>3, <1>4 DEF IInv, ServesInOrder

(* A delivery: a command that is new is begun, one that was begun and not  *)
(* ended is given up, one that is done is not touched.                     *)
LEMMA ReceivesPreserves ==
  ASSUME IInv, Receives
  PROVE  IInv'
<1> DEFINE c == agent.cmd
<1>1. agent.at = "got" /\ UNCHANGED <<cmd, next, node, gate, effects, req>>
  BY DEF Receives
<1>2. /\ TypeOK /\ agent \in Agent /\ journal \in [Commands -> Entry] /\ effects \in [Commands -> Nat]
      /\ c \in Commands /\ Delivered(c)
  BY <1>1 DEF IInv, TypeOK, AgentFollows
<1>3. /\ JournalFollows /\ ~(journal[c].phase # "done" /\ journal[c].acked)
      /\ journal[c].phase \in {"none", "executing", "done"}
  BY <1>2 DEF IInv, SettledIsRecorded, Recorded, Entry
<1>4. CASE journal[c].phase = "none"
  <2>1. Noted(c, "executing", "none") /\ agent' = [agent EXCEPT !.at = "begun"]
    BY <1>4 DEF Receives
  <2>2. /\ agent' \in Agent /\ agent'.at = "begun" /\ agent'.cmd = c
        /\ agent'.runtime = agent.runtime /\ agent'.acked = agent.acked
    BY <1>2, <2>1 DEF Agent
  <2>3. /\ journal' \in [Commands -> Entry] /\ \A d \in Commands \ {c} : journal'[d] = journal[d]
        /\ journal'[c].phase = "executing" /\ journal'[c].result = "none"
        /\ journal'[c].acked = journal[c].acked
    BY <1>2, <2>1 DEF Noted, Entry, Outcomes
  <2>4. JournalMoves(c)
    BY <1>1, <1>2, <1>3, <1>4, <2>3 DEF JournalMoves, JournalFollows, Outcomes
  <2>5. AgentFollows'
    BY <1>1, <1>2, <1>3, <1>4, <2>2, <2>3 DEF AgentFollows, JournalFollows, Delivered
  <2>6. HoldsInOrder'
    <3>1. Receipts = {} /\ cmd[c].runtime = agent.runtime /\ cmd[c].seq > agent.acked
      BY <1>1 DEF IInv, ServesInOrder, HoldsInOrder
    <3>2. Receipts' = {}
      BY <1>1, <2>2, <2>3, <3>1 DEF Receipts
    <3> QED BY <1>1, <2>2, <3>1, <3>2 DEF HoldsInOrder
  <2> QED BY <1>1, <1>2, <2>2, <2>4, <2>5, <2>6, JournalPreserves
<1>5. CASE journal[c].phase = "executing"
  <2>1. Noted(c, "done", "indeterminate") /\ Rests
    BY <1>5 DEF Receives
  <2>2. /\ agent' \in Agent /\ agent'.at = "idle"
        /\ agent'.runtime = agent.runtime /\ agent'.acked = agent.acked
    BY <1>2, <2>1 DEF Rests, Agent
  <2>3. /\ journal' \in [Commands -> Entry] /\ \A d \in Commands \ {c} : journal'[d] = journal[d]
        /\ journal'[c].phase = "done" /\ journal'[c].result = "indeterminate"
        /\ journal'[c].acked = journal[c].acked
    BY <1>2, <2>1 DEF Noted, Entry, Outcomes
  <2>4. JournalMoves(c)
    BY <1>1, <1>2, <1>3, <1>5, <2>3 DEF JournalMoves, JournalFollows, Outcomes
  <2> QED BY <1>1, <1>2, <2>2, <2>4, JournalPreserves DEF AgentFollows, HoldsInOrder
<1>6. CASE journal[c].phase = "done"
  <2>1. journal' = journal /\ Rests
    BY <1>6 DEF Receives
  <2> QED BY <1>1, <2>1, RestsPreserves
<1> QED BY <1>3, <1>4, <1>5, <1>6

(* The effect: it is the first, for the agent has just begun.              *)
LEMMA TakesEffectPreserves ==
  ASSUME IInv, TakesEffect
  PROVE  IInv'
<1> DEFINE c == agent.cmd
<1>1. /\ agent.at = "begun" /\ UNCHANGED <<cmd, next, node, gate, journal, req>>
      /\ effects' = [effects EXCEPT ![c] = @ + 1] /\ agent' = [agent EXCEPT !.at = "ran"]
  BY DEF TakesEffect
<1>2. /\ TypeOK /\ agent \in Agent /\ journal \in [Commands -> Entry] /\ effects \in [Commands -> Nat]
      /\ c \in Commands /\ Delivered(c) /\ journal[c].phase = "executing" /\ effects[c] = 0
  BY <1>1 DEF IInv, TypeOK, AgentFollows
<1>3. /\ agent' \in Agent /\ agent'.at = "ran" /\ agent'.cmd = c
      /\ agent'.runtime = agent.runtime /\ agent'.acked = agent.acked
  BY <1>1, <1>2 DEF Agent
<1>4. /\ effects' \in [Commands -> Nat] /\ effects'[c] = 1
      /\ \A d \in Commands \ {c} : effects'[d] = effects[d]
  BY <1>1, <1>2
<1>5. JournalMoves(c)
  BY <1>1, <1>2, <1>4 DEF IInv, JournalMoves, JournalFollows, SettledIsRecorded, Recorded
<1>6. AgentFollows' /\ HoldsInOrder'
  BY <1>1, <1>2, <1>3, <1>4 DEF AgentFollows, HoldsInOrder, Delivered
<1> QED BY <1>1, <1>2, <1>3, <1>5, <1>6, JournalPreserves

(* The end of a command: "executed" only after its effect.                 *)
LEMMA CompletesPreserves ==
  ASSUME IInv, Completes
  PROVE  IInv'
<1> DEFINE c == agent.cmd
<1>1. agent.at \in {"begun", "ran"} /\ Rests /\ UNCHANGED <<cmd, next, node, gate, effects, req>>
  BY DEF Completes
<1>2. PICK result \in Outcomes : (result = "executed" => agent.at = "ran") /\ Noted(c, "done", result)
  BY DEF Completes
<1>3. /\ TypeOK /\ agent \in Agent /\ journal \in [Commands -> Entry] /\ effects \in [Commands -> Nat]
      /\ c \in Commands /\ Delivered(c) /\ journal[c].phase = "executing"
      /\ agent.at = "ran" => effects[c] = 1
  BY <1>1 DEF IInv, TypeOK, AgentFollows
<1>4. /\ agent' \in Agent /\ agent'.at = "idle"
      /\ agent'.runtime = agent.runtime /\ agent'.acked = agent.acked
  BY <1>1, <1>3 DEF Rests, Agent
<1>5. /\ journal' \in [Commands -> Entry] /\ \A d \in Commands \ {c} : journal'[d] = journal[d]
      /\ journal'[c].phase = "done" /\ journal'[c].result = result
      /\ journal'[c].acked = journal[c].acked
  BY <1>2, <1>3 DEF Noted, Entry
<1>6. JournalMoves(c)
  BY <1>1, <1>2, <1>3, <1>5 DEF IInv, JournalMoves, JournalFollows, SettledIsRecorded, Recorded
<1> QED BY <1>1, <1>3, <1>4, <1>6, JournalPreserves DEF AgentFollows, HoldsInOrder

(* A new runtime has no commands yet.                                      *)
LEMMA RestartsPreserves ==
  ASSUME IInv, Restarts
  PROVE  IInv'
<1>1. /\ agent.runtime < MaxRuntime /\ UNCHANGED <<cmd, next, node, gate, journal, effects, req>>
      /\ agent' = [runtime |-> agent.runtime + 1, acked |-> 0, on |-> NoReplica, at |-> "idle", cmd |-> NoCommand]
  BY DEF Restarts
<1>2. TypeOK /\ agent \in Agent /\ agent.runtime \in 1 .. MaxRuntime /\ cmd \in [Commands -> Command]
  BY DEF IInv, TypeOK, Agent
<1>3. agent' \in Agent
  BY <1>1, <1>2, BridgeAssumption, FS_CardinalityType DEF Agent
<1>4. RowsMove /\ OutcomesAreOver' /\ RequestsFollow'
  BY <1>1 DEF IInv, RowsMove, JournalFollows, Delivered, OutcomesAreOver, RequestsFollow, RequestFollows, Recorded
<1>5. AgentFollows' /\ AsksInOrder' /\ HoldsInOrder'
  BY <1>1 DEF AgentFollows, AsksInOrder, HoldsInOrder
<1>6. PositionCovers' /\ RuntimesGrow'
  BY <1>1, <1>2 DEF IInv, TypeOK, PositionCovers, RuntimesGrow, Command
<1>7. TypeOK' /\ NumbersAgree'
  BY <1>1, <1>2, <1>3, NumbersStay DEF IInv, TypeOK
<1> QED BY <1>1, <1>4, <1>5, <1>6, <1>7, JournalOutlivesRows DEF IInv, ServesInOrder

(* A runtime registers; commands of the runtime before stay what they were. *)
LEMMA RegistersPreserves ==
  ASSUME IInv, Registers
  PROVE  IInv'
<1>1. node' = agent.runtime /\ UNCHANGED <<cmd, next, gate, journal, effects, agent, req>>
  BY DEF Registers
<1>2. TypeOK /\ agent.runtime \in 1 .. MaxRuntime /\ node \in 1 .. MaxRuntime /\ cmd \in [Commands -> Command]
  BY DEF IInv, TypeOK, Agent
<1>3. RowsMove /\ OutcomesAreOver' /\ RequestsFollow'
  BY <1>1 DEF IInv, RowsMove, JournalFollows, Delivered, OutcomesAreOver, RequestsFollow, RequestFollows, Recorded
<1>4. AgentFollows' /\ ServesInOrder'
  BY <1>1, <1>3, AgentOutlivesRows DEF IInv, ServesInOrder, AsksInOrder
<1>5. RuntimesGrow'
  BY <1>1, <1>2 DEF IInv, RuntimesGrow, Command
<1>6. TypeOK' /\ NumbersAgree'
  BY <1>1, <1>2, NumbersStay DEF IInv, TypeOK
<1> QED BY <1>1, <1>3, <1>4, <1>5, <1>6, JournalOutlivesRows DEF IInv

----------------------------------------------------------------------------
(* The theorems *)

(* It all holds of an empty table and a new runtime.                       *)
LEMMA InitIInv == Init => IInv
<1> SUFFICES ASSUME Init PROVE IInv
  OBVIOUS
<1>1. Cardinality(Commands) \in Nat /\ IsFiniteSet(Commands)
  BY BridgeAssumption, FS_CardinalityType
<1>2. Free \in Request
  BY <1>1, BridgeAssumption DEF Free, Request
<1>3. TypeOK
  BY <1>1, <1>2, BridgeAssumption DEF Init, TypeOK, Command, Entry, Agent, Outcomes
<1>4. NumbersAgree
  <2>1. Inserted = {}
    BY DEF Init, Inserted
  <2> QED BY <2>1, FS_EmptySet DEF Init, NumbersAgree
<1>5. RuntimesGrow /\ OutcomesAreOver /\ JournalFollows /\ SettledIsRecorded
  BY DEF Init, RuntimesGrow, OutcomesAreOver, JournalFollows, SettledIsRecorded, Outcomes
<1>6. AgentFollows /\ RequestsFollow /\ ServesInOrder
  BY DEF Init, AgentFollows, RequestsFollow, RequestFollows, ServesInOrder, PositionCovers,
         AsksInOrder, HoldsInOrder, Free
<1> QED BY <1>3, <1>4, <1>5, <1>6 DEF IInv

(* Every action preserves the invariant.                                   *)
LEMMA NextIInv == IInv /\ [Next]_vars => IInv'
<1> SUFFICES ASSUME IInv, [Next]_vars PROVE IInv'
  OBVIOUS
<1>1. ASSUME NEW c \in Commands, Insert(c) \/ Commit(c) \/ Lapse(c) \/ GateLost(c) PROVE IInv'
  BY <1>1, InsertPreserves, CommitPreserves, LapsePreserves, GateLostPreserves
<1>2. ASSUME NEW S \in (SUBSET Commands) \ {{}}, OperatorReads(S) PROVE IInv'
  BY <1>2, OperatorReadsPreserves
<1>3. ASSUME NEW r \in Replicas, AgentAcks(r) \/ AgentPolls(r) \/ Fails(r) PROVE IInv'
  BY <1>3, AgentAcksPreserves, AgentPollsPreserves, FailsPreserves
<1>4. ASSUME NEW r \in Replicas, PollLook(r) \/ PollPick(r) \/ PollAnswer(r) PROVE IInv'
  BY <1>4, PollLookPreserves, PollPickPreserves, PollAnswerPreserves
<1>5. ASSUME NEW r \in Replicas, AckRead(r) \/ AckComplete(r) \/ AckAnswer(r) PROVE IInv'
  BY <1>5, AckReadPreserves, AckCompletePreserves, AckAnswerPreserves
<1>6. CASE Stops \/ Refuses
  BY <1>6, RestsPreserves DEF Stops, Refuses
<1>7. CASE Receives \/ TakesEffect \/ Completes
  BY <1>7, ReceivesPreserves, TakesEffectPreserves, CompletesPreserves
<1>8. CASE Restarts \/ Registers
  BY <1>8, RestartsPreserves, RegistersPreserves
<1>9. CASE UNCHANGED vars
  BY <1>9 DEF vars, IInv, TypeOK, NumbersAgree, Inserted, RuntimesGrow, OutcomesAreOver, JournalFollows,
              SettledIsRecorded, Recorded, AgentFollows, RequestsFollow, RequestFollows, ServesInOrder,
              PositionCovers, AsksInOrder, HoldsInOrder, Receipts, Delivered
<1> QED BY <1>1, <1>2, <1>3, <1>4, <1>5, <1>6, <1>7, <1>8, <1>9 DEF Next

(* The inductive invariant holds in every reachable state.                 *)
THEOREM Invariance == Spec => []IInv
<1>1. Init => IInv
  BY InitIInv
<1>2. IInv /\ [Next]_vars => IInv'
  BY NextIInv
<1> QED BY <1>1, <1>2, PTL DEF Spec

(* Every variable keeps its type; no number of the sequence is used twice. *)
THEOREM TypeCorrect == Spec => []TypeOK
BY Invariance, PTL DEF IInv

(* A command takes effect at most once, whatever is lost, delivered again  *)
(* or stopped half-way (startControlChannel, BridgeControlJournal.begin).  *)
THEOREM EffectsAtMostOnce == Spec => []AtMostOnce
<1>1. IInv => AtMostOnce
  BY DEF IInv, JournalFollows, AtMostOnce
<1> QED BY <1>1, Invariance, PTL

(* What an operator reads as executed was, and what it reads as expired    *)
(* never was (ListServerBridgeControlCommands, the poll's UPDATEs).        *)
THEOREM TruthIsTold == Spec => []OperatorsAreToldTheTruth
<1>1. IInv => OperatorsAreToldTheTruth
  <2> SUFFICES ASSUME IInv, NEW c \in Commands
               PROVE  /\ cmd[c].status = "executed" => effects[c] = 1
                      /\ cmd[c].status = "expired" => effects[c] = 0 /\ journal[c].phase = "none"
    BY DEF OperatorsAreToldTheTruth
  <2>1. journal[c].phase \in {"none", "executing", "done"}
    BY DEF IInv, TypeOK, Entry
  <2> QED BY <2>1 DEF IInv, JournalFollows, Delivered, Outcomes
<1> QED BY <1>1, Invariance, PTL

(* The agent drops a receipt only when the API keeps what it says          *)
(* (CompleteServerBridgeControlCommand, acknowledge).                      *)
THEOREM SettledAreKept == Spec => []SettledReceiptsAreKept
<1>1. IInv => SettledReceiptsAreKept
  BY DEF IInv, SettledIsRecorded, Recorded, SettledReceiptsAreKept
<1> QED BY <1>1, Invariance, PTL

(* Whatever numbers became visible late or were skipped by a replica, no   *)
(* command takes effect once a later one of its runtime is done: the agent *)
(* holds only what comes after everything it has settled.                  *)
THEOREM NothingDoneLate == Spec => NothingIsDoneLate
<1> DEFINE InOrder == \A c \in Commands : effects'[c] > effects[c] =>
             \A d \in Commands : journal[d].phase = "done" /\ cmd[d].runtime = cmd[c].runtime
                                   => cmd[d].seq < cmd[c].seq
<1>1. IInv /\ [Next]_vars => InOrder
  <2> SUFFICES ASSUME IInv, [Next]_vars, NEW c \in Commands, effects'[c] > effects[c],
                      NEW d \in Commands, journal[d].phase = "done", cmd[d].runtime = cmd[c].runtime
               PROVE  cmd[d].seq < cmd[c].seq
    OBVIOUS
  <2>1. effects \in [Commands -> Nat] /\ cmd \in [Commands -> Command] /\ agent \in Agent
    BY DEF IInv, TypeOK
  <2>2. effects' # effects
    BY <2>1
  <2>3. TakesEffect
    BY <2>2 DEF Next, vars, Insert, Commit, Lapse, GateLost, OperatorReads, AgentAcks, AgentPolls, Sends,
                Fails, PollLook, PollPick, PollAnswer, AckRead, AckComplete, AckAnswer,
                Stops, Refuses, Receives, Completes, Restarts, Registers
  <2>4. agent.at = "begun" /\ c = agent.cmd
    BY <2>1, <2>3 DEF TakesEffect
  <2>5. Receipts = {} /\ cmd[c].runtime = agent.runtime /\ cmd[c].seq > agent.acked
    BY <2>4 DEF IInv, ServesInOrder, HoldsInOrder
  <2>6. journal[d].acked
    BY <2>5 DEF IInv, TypeOK, Entry, Receipts
  <2>7. cmd[d].seq <= agent.acked
    BY <2>5, <2>6 DEF IInv, ServesInOrder, PositionCovers
  <2>8. cmd[c].seq \in Nat /\ cmd[d].seq \in Nat /\ agent.acked \in Nat
    BY <2>1 DEF Command, Agent
  <2> QED BY <2>5, <2>7, <2>8
<1>2. IInv /\ [Next]_vars => [InOrder]_vars
  BY <1>1
<1> QED BY <1>2, Invariance, PTL DEF Spec, NothingIsDoneLate

(* An outcome an operator was told is never changed: no code path writes   *)
(* to such a row, so the trigger of 0110_bridge_confirmed_execution.sql,   *)
(* which would refuse it, is never reached.                                *)
THEOREM OutcomesNeverChange == Spec => OutcomesStay
<1> DEFINE Stay == \A c \in Commands : cmd[c].status \in Outcomes \cup {"expired"} => cmd'[c] = cmd[c]
<1>1. IInv /\ [Next]_vars => Stay
  <2> SUFFICES ASSUME IInv, [Next]_vars, NEW d \in Commands, cmd[d].status \in Outcomes \cup {"expired"}
               PROVE  cmd'[d] = cmd[d]
    OBVIOUS
  <2>1. cmd \in [Commands -> Command] /\ ~cmd[d].live /\ TypeOK
    BY DEF IInv, TypeOK, OutcomesAreOver
  <2>2. ASSUME NEW S \in SUBSET Commands, NEW cause \in {"poll", "read"}
        PROVE  Reconciled(S, cause)[d] = cmd[d]
    BY ReconciledShape DEF Outcomes
  <2>3. ASSUME NEW c \in Commands, Insert(c) \/ Commit(c) \/ Lapse(c) PROVE cmd'[d] = cmd[d]
    BY <2>1, <2>3 DEF Insert, Commit, Lapse, Outcomes
  <2>4. ASSUME NEW S \in (SUBSET Commands) \ {{}}, OperatorReads(S) PROVE cmd'[d] = cmd[d]
    BY <2>2, <2>4 DEF OperatorReads, Read
  <2>5. ASSUME NEW r \in Replicas, PollLook(r) PROVE cmd'[d] = cmd[d]
    BY <2>2, <2>5 DEF PollLook
  <2>6. ASSUME NEW r \in Replicas, PollPick(r) PROVE cmd'[d] = cmd[d]
    <3>1. CASE cmd' = cmd
      BY <3>1
    <3>2. CASE Offered(r) # {}
      <4>1. First(Offered(r)) \in Offered(r)
        BY <2>1, <3>2, FirstIsOne DEF Offered
      <4>2. First(Offered(r)) # d
        BY <4>1 DEF Offered, Outcomes
      <4>3. cmd' = [Reconciled(Commands, "poll") EXCEPT ![First(Offered(r))].status = "leased"]
        BY <2>6, <3>2 DEF PollPick
      <4>4. Reconciled(Commands, "poll") \in [Commands -> Command]
        BY ReconciledShape
      <4> QED BY <2>2, <4>2, <4>3, <4>4
    <3> QED BY <2>6, <3>1, <3>2 DEF PollPick
  <2>7. ASSUME NEW r \in Replicas, AckRead(r) PROVE cmd'[d] = cmd[d]
    <3>1. req[r].cmd \in Commands
      BY <2>7 DEF IInv, RequestsFollow, RequestFollows, AckRead
    <3> QED BY <2>2, <2>7, <3>1 DEF AckRead, Read
  <2>8. ASSUME NEW r \in Replicas, AckComplete(r) PROVE cmd'[d] = cmd[d]
    BY <2>1, <2>8 DEF AckComplete, Outcomes
  <2>9. CASE cmd' = cmd
    BY <2>9
  <2>10. Next => \/ cmd' = cmd
                 \/ \E c \in Commands : Insert(c) \/ Commit(c) \/ Lapse(c)
                 \/ \E S \in (SUBSET Commands) \ {{}} : OperatorReads(S)
                 \/ \E r \in Replicas : PollLook(r) \/ PollPick(r) \/ AckRead(r) \/ AckComplete(r)
    BY DEF Next, GateLost, AgentAcks, AgentPolls, Sends, Fails, PollAnswer, AckAnswer,
           Stops, Refuses, Receives, TakesEffect, Completes, Restarts, Registers
  <2> QED BY <2>3, <2>4, <2>5, <2>6, <2>7, <2>8, <2>9, <2>10 DEF vars
<1> QED BY <1>1, Invariance, PTL DEF Spec, OutcomesStay
====
