---- MODULE DownloadJournal ----
(***************************************************************************)
(* The journal of a launcher's download (runtime durable_downloads.rs):    *)
(* two files that take turns, written by the task that downloads (start,   *)
(* resume) and by the user's presses of pause and cancel (control), which  *)
(* run beside it and hold no lock while they touch the files.  The process *)
(* may die between any two operations on a file.                           *)
(*                                                                         *)
(* One installation directory, so one registered task at a time.  A        *)
(* temporary file that is written first changes nothing until it is        *)
(* renamed; signatures and plans are taken to be good.                     *)
(* The names of its specification are its own: the proofs about the        *)
(* launcher extend this module beside ClientRelease.                       *)
(***************************************************************************)
EXTENDS Naturals

CONSTANTS
  Jobs,     \* operations the user starts, each once
  Presses,  \* calls of control
  Actions,  \* what they may ask for: "pause", "cancel"
  NoJob,
  MaxGeneration, \* bound of the model
  MaxFaults     \* bound of the model

ASSUME JournalAssumption ==
  /\ NoJob \notin Jobs /\ Actions \subseteq {"pause", "cancel"}
  /\ "task" \notin Presses
  /\ MaxGeneration \in Nat /\ MaxFaults \in Nat

VARIABLES
  slot,      \* download-job-0.json and download-job-1.json
  task,      \* the registered call of start or resume
  directive, \* what the task's watch channel holds
  press,     \* calls of control
  begun,     \* history: jobs that have been started
  current,   \* history: the job that was written to be installed last
  over,      \* history: jobs that are finished or asked to be cancelled
  kept,      \* history: jobs whose cancelling control has confirmed
  overlapped, \* history: two have been at the files at once
  faults

journalVars == <<slot, task, directive, press, begun, current, over, kept, overlapped, faults>>
histories == <<begun, current, over, kept>>

Slots == {0, 1}
Empty == [generation |-> 0, job |-> NoJob, status |-> "none"]
NoTask == [at |-> "idle", saved |-> Empty, next |-> "idle"]
NoPress == [at |-> "none", action |-> "none", saved |-> Empty]

JournalInit ==
  /\ slot = [i \in Slots |-> Empty]
  /\ task = NoTask /\ directive = "running"
  /\ press = [p \in Presses |-> NoPress]
  /\ begun = {} /\ current = NoJob /\ over = {} /\ kept = {} /\ overlapped = FALSE
  /\ faults = 0

----------------------------------------------------------------------------
(* The files *)

(* Mutant: the older generation is read. *)
OldestRead ==
  CASE slot[0] = Empty -> slot[1]
    [] slot[1] = Empty -> slot[0]
    [] OTHER -> IF slot[0].generation <= slot[1].generation THEN slot[0] ELSE slot[1]

(* The files are read one after the other, here in one step: a reader that *)
(* another overtakes between them finds an older generation, which is      *)
(* rewritten as the newer would be, or nothing, and then writes nothing.   *)
Read == IF slot[0].generation >= slot[1].generation THEN slot[0] ELSE slot[1]

SlotOf(saved) == saved.generation % 2

(* write: the target is removed if it is there, and the new file renamed.  *)
RemoveTarget(saved) == slot' = [slot EXCEPT ![SlotOf(saved)] = Empty]
RenameTo(saved) == slot' = [slot EXCEPT ![SlotOf(saved)] = saved]

Rewritten(job, status) == [generation |-> Read.generation + 1, job |-> job, status |-> status]

----------------------------------------------------------------------------
(* start, resume *)

Moves(place) == task' = [task EXCEPT !.at = place]

Begin(job) ==
  /\ task.at = "idle" /\ Read.generation < MaxGeneration
  /\ task' = [at |-> "remove", saved |-> Rewritten(job, "running"), next |-> "installing"]
  /\ directive' = "running"
  /\ UNCHANGED <<slot, press, current, over, kept, faults>>

(* A job that is already saved is replaced. *)
Start(j) == j \notin begun /\ Begin(j) /\ begun' = begun \cup {j}

Resume == Read # Empty /\ Begin(Read.job) /\ UNCHANGED begun

(* The two steps of write; then on to the download, or to the end. *)
TaskRemoves ==
  /\ task.at = "remove" /\ RemoveTarget(task.saved) /\ Moves("rename")
  /\ UNCHANGED <<directive, press, histories, faults>>

TaskRenames ==
  /\ task.at = "rename" /\ RenameTo(task.saved)
  /\ task' = IF task.next = "idle" THEN NoTask ELSE [task EXCEPT !.at = task.next]
  /\ current' = IF task.next = "installing" THEN task.saved.job ELSE current
  /\ UNCHANGED <<directive, press, begun, over, kept, faults>>

(* Mutant: whatever stops the task, the journal is erased. *)
ReturnsErasing(outcome) ==
  /\ task.at = "installing"
  /\ CASE directive = "cancel" -> Moves("erase0") /\ UNCHANGED over
       [] directive = "pause" -> Moves("erase0") /\ UNCHANGED over
       [] directive = "running" /\ outcome = "complete" ->
            Moves("erase0") /\ over' = over \cup {task.saved.job}
       [] directive = "running" /\ outcome = "partial" -> Moves("readPending") /\ UNCHANGED over
       [] OTHER -> task' = NoTask /\ UNCHANGED over
  /\ UNCHANGED <<slot, directive, press, begun, current, kept, faults>>

(* transactional_release::install returns: everything is there, some files *)
(* failed, or an error; and perform looks at the directive, once.          *)
InstallReturns(outcome) ==
  /\ task.at = "installing"
  /\ CASE directive = "cancel" -> Moves("erase0") /\ UNCHANGED over
       [] directive = "pause" -> Moves("readPaused") /\ UNCHANGED over
       [] directive = "running" /\ outcome = "complete" ->
            Moves("erase0") /\ over' = over \cup {task.saved.job}
       [] directive = "running" /\ outcome = "partial" -> Moves("readPending") /\ UNCHANGED over
       [] OTHER -> task' = NoTask /\ UNCHANGED over
  /\ UNCHANGED <<slot, directive, press, begun, current, kept, faults>>

(* The journal is read again and what is there, if anything, is written    *)
(* back with another status.                                               *)
TaskReads(place, status) ==
  /\ task.at = place /\ Read.generation < MaxGeneration
  /\ task' = IF Read = Empty THEN NoTask
             ELSE [at |-> "remove", saved |-> Rewritten(Read.job, status), next |-> "idle"]
  /\ UNCHANGED <<slot, directive, press, histories, faults>>

TaskErases ==
  /\ \/ task.at = "erase0" /\ slot' = [slot EXCEPT ![0] = Empty] /\ Moves("erase1")
     \/ task.at = "erase1" /\ slot' = [slot EXCEPT ![1] = Empty] /\ task' = NoTask
  /\ UNCHANGED <<directive, press, histories, faults>>

(* Any operation on the disk may fail; the call returns an error. *)
TaskFails ==
  /\ task.at \in {"remove", "rename"}
  /\ faults < MaxFaults /\ faults' = faults + 1
  /\ task' = NoTask
  /\ UNCHANGED <<slot, directive, press, histories>>

----------------------------------------------------------------------------
(* control *)

(* The task is told at once; the files come later.  The user presses what  *)
(* is offered, for the job that is shown.                                  *)
Press(p, action) ==
  /\ press[p].at = "none" /\ Read # Empty
  /\ directive' = IF task.at = "idle" THEN directive ELSE action
  /\ press' = [press EXCEPT ![p] = [at |-> IF action = "cancel" THEN "erase0" ELSE "read",
                                    action |-> action, saved |-> Read]]
  /\ over' = IF action = "cancel" THEN over \cup {Read.job} ELSE over
  /\ UNCHANGED <<slot, task, begun, current, kept, faults>>

PressMoves(p, place) == press' = [press EXCEPT ![p].at = place]

PressErases(p) ==
  /\ \/ /\ press[p].at = "erase0"
        /\ slot' = [slot EXCEPT ![0] = Empty] /\ PressMoves(p, "erase1") /\ UNCHANGED kept
     \/ /\ press[p].at = "erase1"
        /\ slot' = [slot EXCEPT ![1] = Empty] /\ PressMoves(p, "done")
        /\ kept' = kept \cup {press[p].saved.job}
  /\ UNCHANGED <<task, directive, begun, current, over, faults>>

PressReads(p) ==
  /\ press[p].at = "read" /\ Read.generation < MaxGeneration
  /\ press' = IF Read = Empty THEN [press EXCEPT ![p].at = "done"]
              ELSE [press EXCEPT ![p].at = "remove", ![p].saved = Rewritten(Read.job, "paused")]
  /\ UNCHANGED <<slot, task, directive, histories, faults>>

PressRemoves(p) ==
  /\ press[p].at = "remove" /\ RemoveTarget(press[p].saved) /\ PressMoves(p, "rename")
  /\ UNCHANGED <<task, directive, histories, faults>>

PressRenames(p) ==
  /\ press[p].at = "rename" /\ RenameTo(press[p].saved) /\ PressMoves(p, "done")
  /\ UNCHANGED <<task, directive, histories, faults>>

PressFails(p) ==
  /\ press[p].at \in {"remove", "rename"} /\ PressMoves(p, "done")
  /\ faults < MaxFaults /\ faults' = faults + 1
  /\ UNCHANGED <<slot, task, directive, histories>>

----------------------------------------------------------------------------
(* The launcher dies; the files stay. *)
Crash ==
  /\ faults < MaxFaults
  /\ faults' = faults + 1
  /\ task' = NoTask /\ directive' = "running"
  /\ press' = [p \in Presses |-> IF press[p].at = "none" THEN NoPress
                                 ELSE [press[p] EXCEPT !.at = "done"]]
  /\ UNCHANGED <<slot, histories>>

Task ==
  \/ TaskRemoves \/ TaskRenames \/ TaskErases \/ TaskFails
  \/ \E outcome \in {"complete", "partial", "error"} : InstallReturns(outcome)
  \/ TaskReads("readPaused", "paused") \/ TaskReads("readPending", "pending")

Control(p) ==
  \/ \E action \in Actions : Press(p, action)
  \/ PressErases(p) \/ PressReads(p) \/ PressRemoves(p) \/ PressRenames(p) \/ PressFails(p)

AtTheFiles ==
  {p \in Presses : press[p].at \notin {"none", "done"}}
    \cup (IF task.at \in {"idle", "installing"} THEN {} ELSE {"task"})

JournalNext ==
  /\ \/ \E j \in Jobs : Start(j)
     \/ Resume \/ Task \/ Crash
     \/ \E p \in Presses : Control(p)
  /\ overlapped' = (overlapped \/ \E a, b \in AtTheFiles' : a # b)

JournalSpec == JournalInit /\ [][JournalNext]_journalVars

----------------------------------------------------------------------------
(* Properties *)

SavedJobs == [generation : 1 .. MaxGeneration, job : Jobs, status : {"running", "paused", "pending"}]
Writing == {"remove", "rename"}
Erasing == {"erase0", "erase1"}
Calls == [at : {"none", "read", "done"} \cup Writing \cup Erasing,
          action : Actions \cup {"none"}, saved : SavedJobs \cup {Empty}]

(* Each file holds generations of its own parity: what is read last and    *)
(* what is written next are never the same file, unless two write at once. *)
JournalTypeOK ==
  /\ slot \in [Slots -> SavedJobs \cup {Empty}]
  /\ \A i \in Slots : slot[i] # Empty => SlotOf(slot[i]) = i
  /\ task \in [at : {"idle", "installing", "readPaused", "readPending"} \cup Writing \cup Erasing,
               saved : SavedJobs \cup {Empty}, next : {"idle", "installing"}]
  /\ directive \in {"running", "pause", "cancel"}
  /\ press \in [Presses -> Calls]
  /\ current \in Jobs \cup {NoJob}
  /\ kept \subseteq over /\ over \subseteq begun /\ begun \subseteq Jobs
  /\ overlapped \in BOOLEAN /\ faults \in 0 .. MaxFaults

(* The job that was started or resumed last can be resumed, wherever the   *)
(* process dies or the disk fails, until it is finished or cancelled (the  *)
(* comment at durable_downloads.rs:3): if it is lost, then to a press that *)
(* was at the files together with the task or another press.               *)
JobSurvives ==
  ~overlapped /\ current # NoJob /\ current \notin over => Read.job = current

Quiet == task.at = "idle" /\ \A p \in Presses : press[p].at \in {"none", "done"}

(* When presses of pause and the task, which read and write the files over *)
(* one another, have done and nothing has failed, the job is still there.  *)
JobSurvivesAtRest ==
  Quiet /\ faults = 0 /\ begun = {current} /\ current \notin over => Read.job = current

(* A cancel that is confirmed stays: the job is not offered again (the     *)
(* comment at durable_downloads.rs:230).                                   *)
CancelIsKept == Read.job \notin kept
====
