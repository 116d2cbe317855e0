---- MODULE BridgeCommands ----
(***************************************************************************)
(* Commands from operators to a game server, over the bridge's control     *)
(* channel (httpapi/server_bridge_control.go,                              *)
(* repository/server_bridge_v2.go, and the agent's BridgeControlJournal    *)
(* and LauncherApiClient in plugins/bridge-common).                        *)
(*                                                                         *)
(* A command has an effect outside of any transaction.  PostgreSQL hands   *)
(* it out once, the agent notes on disk that it begins and how it ended,   *)
(* and its receipt is sent until the API has taken it.  Requests of the    *)
(* agent are served by replicas; the agent may give one up and ask another *)
(* replica while the first still works.  Time is what ends a command's     *)
(* delivery: `live' is FALSE once its lease, or its own term, is over.     *)
(* One node is modelled; its channel is the runtime's, with it replaced.   *)
(***************************************************************************)
EXTENDS Naturals, FiniteSets

CONSTANTS Commands, Replicas, NoCommand, NoReplica,
          MaxRuntime            \* bound of the model on restarts of the server

ASSUME BridgeAssumption ==
  /\ IsFiniteSet(Commands)
  /\ NoCommand \notin Commands /\ NoReplica \notin Replicas /\ MaxRuntime \in Nat \ {0}

VARIABLES
  cmd,      \* server_bridge_control_commands_v3
  next,     \* the last number of delivery_sequence
  node,     \* the runtime registered in server_bridge_nodes_v2
  gate,     \* the commands whose lease is in Redis
  journal,  \* the agent's journal, on disk
  effects,  \* how often each command took effect (history)
  agent,    \* the agent's process
  req       \* the request each replica serves

vars == <<cmd, next, node, gate, journal, effects, agent, req>>

Outcomes == {"executed", "indeterminate"}
Command == [status : {"none", "inserted", "pending", "leased", "expired"} \cup Outcomes,
            seq : 0 .. Cardinality(Commands), runtime : 0 .. MaxRuntime, live : BOOLEAN,
            cause : {"none", "agent", "poll", "read"}]
Entry == [phase : {"none", "executing", "done"}, result : {"none"} \cup Outcomes, acked : BOOLEAN]
Agent == [runtime : 1 .. MaxRuntime, acked : 0 .. Cardinality(Commands), on : Replicas \cup {NoReplica},
          at : {"idle", "waits", "got", "begun", "ran"}, cmd : Commands \cup {NoCommand}]
Request == [at : {"free", "poll", "pick", "granted", "ack", "complete", "recorded"},
            cmd : Commands \cup {NoCommand}, runtime : 0 .. MaxRuntime, after : 0 .. Cardinality(Commands)]

Free == [at |-> "free", cmd |-> NoCommand, runtime |-> 0, after |-> 0]

Init == /\ cmd = [c \in Commands |-> [status |-> "none", seq |-> 0, runtime |-> 0, live |-> FALSE, cause |-> "none"]]
        /\ next = 0 /\ node = 1 /\ gate = {}
        /\ journal = [c \in Commands |-> [phase |-> "none", result |-> "none", acked |-> FALSE]]
        /\ effects = [c \in Commands |-> 0]
        /\ agent = [runtime |-> 1, acked |-> 0, on |-> NoReplica, at |-> "idle", cmd |-> NoCommand]
        /\ req = [r \in Replicas |-> Free]

First(S) == CHOOSE c \in S : \A d \in S : cmd[c].seq <= cmd[d].seq

----------------------------------------------------------------------------
(* The API's tables *)

(* CreateServerBridgeControlCommand takes its number when it inserts and   *)
(* shows the row when it commits; the node's row is locked for share.      *)
Insert(c) ==
  /\ cmd[c].status = "none"
  /\ next' = next + 1
  /\ cmd' = [cmd EXCEPT ![c] = [status |-> "inserted", seq |-> next', runtime |-> node, live |-> TRUE, cause |-> "none"]]
  /\ UNCHANGED <<node, gate, journal, effects, agent, req>>
Commit(c) ==
  /\ cmd[c].status = "inserted"
  /\ cmd' = [cmd EXCEPT ![c].status = "pending"]
  /\ UNCHANGED <<next, node, gate, journal, effects, agent, req>>

Lapse(c) ==
  /\ cmd[c].live
  /\ cmd' = [cmd EXCEPT ![c].live = FALSE]
  /\ UNCHANGED <<next, node, gate, journal, effects, agent, req>>
GateLost(c) ==
  /\ c \in gate
  /\ gate' = gate \ {c}
  /\ UNCHANGED <<cmd, next, node, journal, effects, agent, req>>

Stale(c) == cmd[c].status = "leased" /\ (~cmd[c].live \/ cmd[c].runtime # node)
Overdue(c) == cmd[c].status = "pending" /\ ~cmd[c].live

(* Mutant: a lapsed lease is offered again. *)
ReconciledAgain(S, cause) ==
  [c \in Commands |-> IF c \in S /\ Stale(c) THEN [cmd[c] EXCEPT !.status = "pending", !.live = TRUE]
                      ELSE IF c \in S /\ Overdue(c) THEN [cmd[c] EXCEPT !.status = "expired"] ELSE cmd[c]]

(* The two UPDATEs that bring rows up to date, in a poll and in a read. *)
Reconciled(S, cause) ==
  [c \in Commands |-> IF c \in S /\ Stale(c)
                      THEN [cmd[c] EXCEPT !.status = "indeterminate", !.cause = cause, !.live = FALSE]
                      ELSE IF c \in S /\ Overdue(c) THEN [cmd[c] EXCEPT !.status = "expired"] ELSE cmd[c]]

Read(S) == cmd' = Reconciled(S, "read")
OperatorReads(S) == Read(S) /\ cmd' # cmd /\ UNCHANGED <<next, node, gate, journal, effects, agent, req>>

----------------------------------------------------------------------------
(* Replicas.  The agent that waits for an answer and has none, or an error *)
(* or nothing to do, begins anew after its interval.                       *)

Waits(r) == agent.at = "waits" /\ agent.on = r
NoAnswer(r) == agent' = IF Waits(r) THEN [agent EXCEPT !.at = "idle", !.on = NoReplica] ELSE agent
Frees(r) == req' = [req EXCEPT ![r] = Free]
Goes(r, place) == req' = [req EXCEPT ![r].at = place]

(* Timeouts, lost answers, a replica that dies: what is committed stays. *)
Fails(r) ==
  /\ req[r].at # "free"
  /\ Frees(r) /\ NoAnswer(r)
  /\ UNCHANGED <<cmd, next, node, gate, journal, effects>>

Granted(r) == {c \in Commands : /\ cmd[c].status = "leased" /\ cmd[c].live
                                /\ cmd[c].runtime = req[r].runtime /\ cmd[c].seq > req[r].after}
Offered(r) == {c \in Commands : /\ cmd[c].status = "pending" /\ cmd[c].live
                                /\ cmd[c].runtime = req[r].runtime /\ cmd[c].seq > req[r].after}

(* LeaseServerBridgeControlCommand.  The lease the channel has is answered *)
(* again; otherwise the transaction goes on to take the next command.      *)
PollLook(r) ==
  /\ req[r].at = "poll" /\ node = req[r].runtime
  /\ IF Granted(r) # {}
     THEN /\ cmd' = Reconciled(Commands, "poll")
          /\ req' = [req EXCEPT ![r].at = "granted", ![r].cmd = First(Granted(r))]
     ELSE Goes(r, "pick") /\ UNCHANGED cmd
  /\ UNCHANGED <<next, node, gate, journal, effects, agent>>

(* With nothing to lease the transaction is rolled back, and with it what  *)
(* it brought up to date.                                                  *)
PollPick(r) ==
  /\ req[r].at = "pick"
  /\ IF Offered(r) # {}
     THEN LET c == First(Offered(r)) IN
          /\ cmd' = [Reconciled(Commands, "poll") EXCEPT ![c].status = "leased"]
          /\ req' = [req EXCEPT ![r].at = "granted", ![r].cmd = c]
          /\ UNCHANGED agent
     ELSE Frees(r) /\ NoAnswer(r) /\ UNCHANGED cmd
  /\ UNCHANGED <<next, node, gate, journal, effects>>

PollAnswer(r) ==
  /\ req[r].at = "granted"
  /\ gate' = gate \cup {req[r].cmd}
  /\ agent' = IF Waits(r) THEN [agent EXCEPT !.at = "got", !.on = NoReplica, !.cmd = req[r].cmd] ELSE agent
  /\ Frees(r)
  /\ UNCHANGED <<cmd, next, node, journal, effects>>

(* The handler of receipts reads the command, which brings it up to date,  *)
(* and asks Redis unless the command has an outcome.                       *)
AckRead(r) ==
  LET c == req[r].cmd IN
  /\ req[r].at = "ack" /\ node = req[r].runtime
  /\ Read({c})
  /\ IF cmd'[c].status \in Outcomes \/ c \in gate
     THEN Goes(r, "complete") /\ UNCHANGED agent
     ELSE Frees(r) /\ NoAnswer(r)
  /\ UNCHANGED <<next, node, gate, journal, effects>>

(* Mutant: a receipt for a command that has an outcome is acknowledged,    *)
(* whatever the outcome is.                                                *)
AgreesAlways(c) == TRUE

(* The outcome is this receipt's, taken before. *)
Agrees(c) == cmd[c].cause = "agent" /\ cmd[c].status = journal[c].result

(* CompleteServerBridgeControlCommand.  A late receipt, which a poll gave  *)
(* up, is one UPDATE away from being recorded; the trigger on the table    *)
(* refuses it, as it refuses every change of an outcome.                   *)
AckComplete(r) ==
  LET c == req[r].cmd IN
  /\ req[r].at = "complete"
  /\ \/ /\ cmd[c].status = "leased"
        /\ cmd' = [cmd EXCEPT ![c].status = journal[c].result, ![c].cause = "agent", ![c].live = FALSE]
        /\ Goes(r, "recorded") /\ UNCHANGED agent
     \/ /\ cmd[c].status \in Outcomes /\ UNCHANGED cmd
        /\ IF Agrees(c) THEN Goes(r, "recorded") /\ UNCHANGED agent ELSE Frees(r) /\ NoAnswer(r)
  /\ UNCHANGED <<next, node, gate, journal, effects>>

Advanced(position, seq) == IF seq > position THEN seq ELSE position

AckAnswer(r) ==
  LET c == req[r].cmd IN
  /\ req[r].at = "recorded"
  /\ gate' = gate \ {c}
  /\ Frees(r)
  /\ IF Waits(r)
     THEN /\ journal' = [journal EXCEPT ![c].acked = TRUE]
          /\ agent' = [agent EXCEPT !.at = "idle", !.on = NoReplica,
                                    !.acked = Advanced(@, cmd[c].seq)]
     ELSE UNCHANGED <<journal, agent>>
  /\ UNCHANGED <<cmd, next, node, effects>>

----------------------------------------------------------------------------
(* The agent: one thread, which sends its receipts before it asks for more *)

Receipts == {c \in Commands : /\ cmd[c].runtime = agent.runtime
                              /\ journal[c].phase = "done" /\ ~journal[c].acked}

Sends(r, request) ==
  /\ agent.at = "idle" /\ req[r].at = "free"
  /\ req' = [req EXCEPT ![r] = request]
  /\ agent' = [agent EXCEPT !.at = "waits", !.on = r]
  /\ UNCHANGED <<cmd, next, node, gate, journal, effects>>
AgentAcks(r) == /\ Receipts # {}
                /\ Sends(r, [at |-> "ack", cmd |-> First(Receipts), runtime |-> agent.runtime, after |-> 0])
(* Mutant: the agent polls before its receipts are settled. *)
AgentPollsEarly(r) ==
  Sends(r, [at |-> "poll", cmd |-> NoCommand, runtime |-> agent.runtime, after |-> agent.acked])

AgentPolls(r) == /\ Receipts = {}
                 /\ Sends(r, [at |-> "poll", cmd |-> NoCommand, runtime |-> agent.runtime, after |-> agent.acked])

(* The agent turns to another endpoint, its executor is stopped by an      *)
(* Error, or the plugin is reloaded; the process, and its runtime, stay.   *)
Rests == agent' = [agent EXCEPT !.at = "idle", !.on = NoReplica, !.cmd = NoCommand]
Stops == agent.at # "idle" /\ Rests /\ UNCHANGED <<cmd, next, node, gate, journal, effects, req>>

(* A delivery that the agent's clock finds expired is refused. *)
Refuses == agent.at = "got" /\ Rests /\ UNCHANGED <<cmd, next, node, gate, journal, effects, req>>

Noted(c, phase, result) == journal' = [journal EXCEPT ![c].phase = phase, ![c].result = result]

(* Mutant: what was begun before is begun again. *)
ReceivesAnew ==
  /\ agent.at = "got"
  /\ Noted(agent.cmd, "executing", "none") /\ agent' = [agent EXCEPT !.at = "begun"]
  /\ UNCHANGED <<cmd, next, node, gate, effects, req>>

(* BridgeControlJournal.begin is on disk before anything is done.          *)
Receives ==
  LET c == agent.cmd IN
  /\ agent.at = "got"
  /\ CASE journal[c].phase = "none" -> Noted(c, "executing", "none") /\ agent' = [agent EXCEPT !.at = "begun"]
       [] journal[c].phase = "executing" -> Noted(c, "done", "indeterminate") /\ Rests
       [] journal[c].phase = "done" -> UNCHANGED journal /\ Rests
  /\ UNCHANGED <<cmd, next, node, gate, effects, req>>

TakesEffect ==
  /\ agent.at = "begun"
  /\ effects' = [effects EXCEPT ![agent.cmd] = @ + 1]
  /\ agent' = [agent EXCEPT !.at = "ran"]
  /\ UNCHANGED <<cmd, next, node, gate, journal, req>>

(* The executor returns, or throws, with or without an effect. *)
Completes ==
  /\ agent.at \in {"begun", "ran"}
  /\ \E result \in Outcomes : /\ result = "executed" => agent.at = "ran"
                              /\ Noted(agent.cmd, "done", result)
  /\ Rests
  /\ UNCHANGED <<cmd, next, node, gate, effects, req>>

(* The server is started anew, and registers by its heartbeat, which waits *)
(* for the transactions that share the node's row.                         *)
Restarts ==
  /\ agent.runtime < MaxRuntime
  /\ agent' = [runtime |-> agent.runtime + 1, acked |-> 0, on |-> NoReplica, at |-> "idle", cmd |-> NoCommand]
  /\ UNCHANGED <<cmd, next, node, gate, journal, effects, req>>
Registers ==
  /\ node # agent.runtime
  /\ \A r \in Replicas : req[r].at # "pick"
  /\ \A c \in Commands : cmd[c].status # "inserted"
  /\ node' = agent.runtime
  /\ UNCHANGED <<cmd, next, gate, journal, effects, agent, req>>

----------------------------------------------------------------------------
Next == \/ \E c \in Commands : Insert(c) \/ Commit(c) \/ Lapse(c) \/ GateLost(c)
        \/ \E S \in (SUBSET Commands) \ {{}} : OperatorReads(S)
        \/ \E r \in Replicas : \/ AgentAcks(r) \/ AgentPolls(r) \/ Fails(r)
                               \/ PollLook(r) \/ PollPick(r) \/ PollAnswer(r)
                               \/ AckRead(r) \/ AckComplete(r) \/ AckAnswer(r)
        \/ Stops \/ Refuses \/ Receives \/ TakesEffect \/ Completes \/ Restarts \/ Registers

Spec == Init /\ [][Next]_vars

(* Handlers and the agent go on, handlers that cannot answer an error, and *)
(* leases run out.                                                         *)
FairSpec == /\ Spec
            /\ \A c \in Commands : WF_vars(Lapse(c))
            /\ \A r \in Replicas : /\ WF_vars(PollLook(r) \/ PollPick(r) \/ PollAnswer(r))
                                   /\ WF_vars(AckRead(r) \/ AckComplete(r) \/ AckAnswer(r))
                                   /\ WF_vars(node # req[r].runtime /\ Fails(r))
            /\ WF_vars(\E r \in Replicas : AgentAcks(r))
            /\ WF_vars(Receives \/ TakesEffect \/ Completes)

----------------------------------------------------------------------------
TypeOK == /\ cmd \in [Commands -> Command] /\ next \in 0 .. Cardinality(Commands)
          /\ node \in 1 .. MaxRuntime /\ gate \subseteq Commands
          /\ journal \in [Commands -> Entry] /\ effects \in [Commands -> Nat]
          /\ agent \in Agent /\ req \in [Replicas -> Request]

(* A command takes effect at most once, whatever is lost, delivered again  *)
(* or stopped half-way (the promise of startControlChannel).               *)
AtMostOnce == \A c \in Commands : effects[c] <= 1

(* What an operator is told to have been executed was; and a command told  *)
(* to have expired before its delivery never was, and never will be.       *)
OperatorsAreToldTheTruth ==
  \A c \in Commands : /\ cmd[c].status = "executed" => effects[c] = 1
                      /\ cmd[c].status = "expired" => effects[c] = 0 /\ journal[c].phase = "none"

(* The agent forgets a receipt only when the API keeps what it says. *)
SettledReceiptsAreKept ==
  \A c \in Commands : journal[c].acked => cmd[c].cause = "agent" /\ cmd[c].status = journal[c].result

(* Once a command has an outcome for operators it keeps it: the trigger of *)
(* 0110_bridge_confirmed_execution.sql.                                    *)
OutcomesStay ==
  [][\A c \in Commands : cmd[c].status \in Outcomes \cup {"expired"} => cmd'[c] = cmd[c]]_vars

(* No command takes effect once a later one of its runtime is done,        *)
(* although a number is taken before its command is visible, and replicas  *)
(* skip what another has locked: what was overtaken is not done late.      *)
NothingIsDoneLate ==
  [][\A c \in Commands : effects'[c] > effects[c] =>
       \A d \in Commands : journal[d].phase = "done" /\ cmd[d].runtime = cmd[c].runtime => cmd[d].seq < cmd[c].seq]_vars

(* The comment in CompleteServerBridgeControlCommand: an agent's receipt   *)
(* for what it has durably finished is kept though it comes after the end  *)
(* of the lease.  So, when answers are no longer lost, every receipt is    *)
(* settled, unless the server is replaced.                                 *)
Undisturbed ==
  [][/\ \A r \in Replicas : Fails(r) => node # req[r].runtime \/ PollPick(r) \/ AckRead(r) \/ AckComplete(r)
     /\ ~(agent.at = "waits" /\ Stops)]_vars
ReceiptsSettle ==
  <>Undisturbed => \A c \in Commands : c \in Receipts ~> c \notin Receipts
====
