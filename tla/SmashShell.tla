----------------------------- MODULE SmashShell -----------------------------
(***************************************************************************)
(* Job control of SmashShell: the main loop and its commands               *)
(* (Commands.cpp), the handlers of ctrl-C, ctrl-Z and SIGALRM that run on  *)
(* the same thread between any two of its steps (signals.cpp), and the     *)
(* child processes as the kernel shows them to waitpid and kill.           *)
(*                                                                         *)
(* A command up to the point where main blocks or exposes the foreground   *)
(* process to the handlers is one action; the steps in between, where a    *)
(* handler meets half-written state, are actions of their own.  Command    *)
(* texts are left out, so the commands are those that run, list, resume    *)
(* and signal processes, and "some other command".                         *)
(***************************************************************************)
EXTENDS JobsList, FiniteSets

CONSTANTS Pids,       \* the processes the shell may create
          NoProcess,  \* current_process = -1, "every process" to kill()
          NoTimer,    \* no alarm() is pending
          Delays      \* the durations given to the timeout command

ASSUME PidsAssumption == IsFiniteSet(Pids) /\ NoProcess \notin Pids

ASSUME DelaysAssumption == Delays \subseteq Nat \ {0} /\ NoTimer \notin Nat

VARIABLES
  job_list,         \* JobsList.job_list
  max_job_id,       \* JobsList.max_job_id
  current_process,  \* the foreground process, or NoProcess
  job_id_fg,        \* the identifier of the job fg brought last
  last_cmd_fg,      \* the last command was fg
  fg_alarm,         \* the foreground command has a timeout
  current_duration, \* duration of the timeout being executed
  alarms,           \* AlarmList.alarms: processes and seconds they have left
  pc,               \* where main is
  job,              \* the entry fg reads, and whose process main waits for
  handler,          \* ctrlZHandler: idle, or what it does next
  target,           \* ctrlZHandler: the process it passes to addJob
  timer,            \* kernel: seconds to SIGALRM, or NoTimer
  proc,             \* kernel: each process; "stopping" until wait reports it
  firstId,          \* history: the identifier a process got first, or 0
  timed,            \* history: processes started under timeout
  hidden,           \* history: stopped, but neither by ctrl-Z nor by SIGTSTP
  raced             \* history: ctrl-Z found fg between lines 574 and 575,
                    \* or ctrl-C took ctrlZHandler's process before it read it

list    == <<job_list, max_job_id>>
shell   == <<current_process, job_id_fg, last_cmd_fg, fg_alarm, current_duration>>
clocks  == <<alarms, timer>>
history == <<firstId, timed, hidden, raced>>
vars    == <<list, shell, clocks, pc, job, handler, target, proc, history>>

NoJob == JobEntry(0, NoProcess, FALSE)

Live(p) == proc[p] \in {"running", "stopping", "stopped"}

Init ==
  /\ job_list = << >>
  /\ max_job_id = 1
  /\ current_process = NoProcess
  /\ job_id_fg = -1
  /\ last_cmd_fg = FALSE
  /\ fg_alarm = FALSE
  /\ current_duration = 0
  /\ alarms = {}
  /\ pc = "prompt"
  /\ job = NoJob
  /\ handler = "idle"
  /\ target = NoProcess
  /\ timer = NoTimer
  /\ proc = [p \in Pids |-> "none"]
  /\ firstId = [p \in Pids |-> 0]
  /\ timed = {}
  /\ hidden = {}
  /\ raced = FALSE

-----------------------------------------------------------------------------
(* kill: what a signal makes of a process, which processes get it (-1 is   *)
(* every process the user owns), and the processes after it.  A process    *)
(* may ignore SIGINT, which is a choice of the actions that send it.       *)
AfterSignal(state, sig) ==
  CASE sig = "KILL" /\ state \in {"running", "stopping", "stopped"} -> "zombie"
    [] sig = "STOP" /\ state = "running" -> "stopping"
    [] sig = "CONT" /\ state \in {"stopping", "stopped"} -> "running"
    [] OTHER -> state

Receivers(pid) == IF pid = NoProcess THEN Pids ELSE {pid}

Signalled(procs, receivers, sig) ==
  [p \in Pids |-> IF p \in receivers THEN AfterSignal(procs[p], sig) ELSE procs[p]]

(* removeFinishedJobs: the list without the jobs that have ended, and the  *)
(* processes once waitpid has taken those.                                 *)
Purged == unfinished(job_list, proc)

Reaped ==
  [p \in Pids |-> IF p \in ListedPids(job_list) /\ proc[p] = "zombie"
                  THEN "reaped" ELSE proc[p]]

(* removeFinishedJobs, when a command then does no more to the list.       *)
SetList(entries) == job_list' = entries /\ max_job_id' = nextJobId(Purged)

(* addJob, with an identifier of its own or with the one it had before.    *)
addJob(p, isStopped) ==
  /\ job_list' = Append(Purged, JobEntry(nextJobId(Purged), p, isStopped))
  /\ max_job_id' = nextJobId(Purged) + 1
  /\ firstId' = [q \in Pids |-> IF q = p /\ firstId[q] = 0 THEN nextJobId(Purged)
                                ELSE firstId[q]]

addJobAgain(p) ==
  /\ SetList(insertById(Purged, JobEntry(job_id_fg, p, TRUE)))
  /\ UNCHANGED firstId

-----------------------------------------------------------------------------
(* A command line has been read.  executeCommand removes the finished      *)
(* jobs, CreateCommand notes whether the command is fg.                    *)
AtPrompt(isFg) ==
  /\ pc = "prompt"
  /\ handler = "idle"
  /\ last_cmd_fg' = isFg

(* jobs, and the commands that do nothing to jobs: chprompt, showpid, cd,  *)
(* and those refused because of their arguments.                           *)
OtherCommand ==
  /\ \E isFg \in BOOLEAN : AtPrompt(isFg)
  /\ SetList(Purged)
  /\ proc' = Reaped
  /\ UNCHANGED <<current_process, job_id_fg, fg_alarm, current_duration, clocks, pc,
                 job, handler, target, history>>

Unused == {p \in Pids : proc[p] = "none"}

(* ExternalCommand.execute in the parent, for a line that ends in &.       *)
RunInBackground ==
  /\ AtPrompt(FALSE)
  /\ \E p \in Unused :
       /\ addJob(p, FALSE)
       /\ proc' = [Reaped EXCEPT ![p] = "running"]
  /\ UNCHANGED <<current_process, job_id_fg, fg_alarm, current_duration, clocks, pc,
                 job, handler, target, timed, hidden, raced>>

RunInForeground ==
  /\ AtPrompt(FALSE)
  /\ SetList(Purged)
  /\ \E p \in Unused :
       /\ proc' = [Reaped EXCEPT ![p] = "running"]
       /\ current_process' = p
       /\ job' = JobEntry(0, p, FALSE)
  /\ pc' = "waiting"
  /\ UNCHANGED <<job_id_fg, fg_alarm, current_duration, clocks, handler, target,
                 history>>

(* timeout: alarm() replaces the alarm that is pending; then the command   *)
(* is executed as if it had been typed, in the two ways of the above.      *)
Timeout ==
  /\ AtPrompt(FALSE)
  /\ SetList(Purged)
  /\ proc' = Reaped
  /\ \E d \in Delays : timer' = d /\ current_duration' = d
  /\ pc' = "timed"
  /\ UNCHANGED <<current_process, job_id_fg, fg_alarm, alarms, job, handler, target,
                 history>>

AtTimed == pc = "timed" /\ handler = "idle"

TimedInBackground ==
  /\ AtTimed
  /\ \E p \in Unused :
       /\ addJob(p, FALSE)
       /\ proc' = [Reaped EXCEPT ![p] = "running"]
       /\ alarms' = alarms \cup {[pid |-> p, left |-> current_duration]}
       /\ timed' = timed \cup {p}
  /\ current_duration' = 0
  /\ pc' = "prompt"
  /\ UNCHANGED <<current_process, job_id_fg, last_cmd_fg, fg_alarm, timer, job,
                 handler, target, hidden, raced>>

TimedInForeground ==
  /\ AtTimed
  /\ SetList(Purged)
  /\ \E p \in Unused :
       /\ proc' = [Reaped EXCEPT ![p] = "running"]
       /\ current_process' = p
       /\ job' = JobEntry(0, p, FALSE)
       /\ timed' = timed \cup {p}
  /\ fg_alarm' = TRUE
  /\ pc' = "waiting"
  /\ UNCHANGED <<job_id_fg, last_cmd_fg, current_duration, clocks, handler, target,
                 firstId, hidden, raced>>

-----------------------------------------------------------------------------
(* An argument of fg, bg or kill finds the first entry with its number,    *)
(* which is not negative.                                                  *)
Named(i) == Purged[i].job_id >= 0 /\ i = getJobById(Purged, Purged[i].job_id)

(* Mutation: fg does not resume a stopped job.                             *)
ResumedNever(entry) == {}

(* fg resumes a job only if its entry is marked as stopped.                *)
Resumed(entry) == IF entry.isStopped THEN {entry.job_pid} ELSE {}

(* fg with an identifier publishes the process before it removes the       *)
(* entry.                                                                  *)
ForegroundById ==
  /\ AtPrompt(TRUE)
  /\ \E i \in DOMAIN Purged :
       /\ Named(i)
       /\ job' = Purged[i]
       /\ job_id_fg' = Purged[i].job_id
       /\ current_process' = Purged[i].job_pid
       /\ proc' = Signalled(Reaped, Resumed(Purged[i]), "CONT")
       /\ hidden' = hidden \ Resumed(Purged[i])
  /\ SetList(Purged)
  /\ pc' = "fg_remove"
  /\ UNCHANGED <<fg_alarm, current_duration, clocks, handler, target, firstId, timed,
                 raced>>

ForegroundRemove ==
  /\ pc = "fg_remove"
  /\ handler = "idle"
  /\ job_list' = removeJobById(job_list, job.job_id)
  /\ pc' = "waiting"
  /\ UNCHANGED <<max_job_id, shell, clocks, job, handler, target, proc, history>>

(* fg without one removes the entry first and goes on reading through the  *)
(* pointer: into the slot the erased entry had, where the vector has moved *)
(* the next entry, if there is one.                                        *)
ForegroundLast ==
  /\ AtPrompt(TRUE)
  /\ Purged # << >>
  /\ LET i    == getLastJob(Purged)
         rest == removeJobById(Purged, Purged[i].job_id)
         slot == IF i <= Len(rest) THEN rest[i] ELSE Purged[i]
     IN  /\ SetList(rest)
         /\ proc' = Signalled(Reaped, Resumed(Purged[i]), "CONT")
         /\ hidden' = hidden \ Resumed(Purged[i])
         /\ job' = slot
         /\ current_process' = slot.job_pid
  /\ pc' = "fg_id"
  /\ UNCHANGED <<job_id_fg, fg_alarm, current_duration, clocks, handler, target,
                 firstId, timed, raced>>

ForegroundSetId ==
  /\ pc = "fg_id"
  /\ handler = "idle"
  /\ job_id_fg' = job.job_id
  /\ pc' = "waiting"
  /\ UNCHANGED <<list, current_process, last_cmd_fg, fg_alarm, current_duration,
                 clocks, job, handler, target, proc, history>>

(* waitpid with WUNTRACED reports an end or a stop once; for a process     *)
(* waited for before it fails.                                             *)
WaitReturns ==
  /\ pc = "waiting"
  /\ handler = "idle"
  /\ proc[job.job_pid] \in {"zombie", "stopping", "reaped"}
  /\ proc' = [proc EXCEPT ![job.job_pid] = IF @ = "stopping" THEN "stopped" ELSE "reaped"]
  /\ pc' = "cleanup"
  /\ UNCHANGED <<list, shell, clocks, job, handler, target, history>>

(* The end of executeCommand: fg_alarm stays as it is.                     *)
Cleanup ==
  /\ pc = "cleanup"
  /\ handler = "idle"
  /\ current_process' = NoProcess
  /\ current_duration' = 0
  /\ job' = NoJob
  /\ pc' = "prompt"
  /\ UNCHANGED <<list, job_id_fg, last_cmd_fg, fg_alarm, clocks, handler, target,
                 proc, history>>

-----------------------------------------------------------------------------
(* bg, for the entry with the given identifier or the last stopped one.    *)
Background ==
  /\ AtPrompt(FALSE)
  /\ \E i \in DOMAIN Purged :
       /\ Named(i) \/ (i = getLastStoppedJob(Purged) /\ Purged[i].job_id # -1)
       /\ Purged[i].isStopped
       /\ SetList([Purged EXCEPT ![i].isStopped = FALSE])
       /\ proc' = Signalled(Reaped, {Purged[i].job_pid}, "CONT")
       /\ hidden' = hidden \ {Purged[i].job_pid}
  /\ UNCHANGED <<current_process, job_id_fg, fg_alarm, current_duration, clocks, pc,
                 job, handler, target, firstId, timed, raced>>

(* kill: SIGTSTP and SIGCONT change the mark of the entry, SIGSTOP stops   *)
(* the process all the same.                                               *)
Kill ==
  /\ AtPrompt(FALSE)
  /\ \E i \in DOMAIN Purged, sig \in {"KILL", "STOP", "TSTP", "CONT"} :
       LET p == Purged[i].job_pid
       IN  /\ Named(i)
           /\ proc' = Signalled(Reaped, {p}, IF sig = "TSTP" THEN "STOP" ELSE sig)
           /\ SetList([Purged EXCEPT ![i].isStopped =
                         sig = "TSTP" \/ (@ /\ sig # "CONT")])
           /\ hidden' = IF sig = "STOP" THEN hidden \cup {p}
                        ELSE IF sig = "CONT" THEN hidden \ {p} ELSE hidden
  /\ UNCHANGED <<current_process, job_id_fg, fg_alarm, current_duration, clocks, pc,
                 job, handler, target, firstId, timed, raced>>

(* quit, and quit kill, which sends SIGKILL to every listed job.           *)
Quit ==
  /\ AtPrompt(FALSE)
  /\ SetList(Purged)
  /\ \/ proc' = Reaped /\ pc' = "exited"
     \/ proc' = Signalled(Reaped, ListedPids(Purged), "KILL") /\ pc' = "killed"
  /\ UNCHANGED <<current_process, job_id_fg, fg_alarm, current_duration, clocks, job,
                 handler, target, history>>

-----------------------------------------------------------------------------
(* Signals reach the shell while it lives, ctrl-Z and ctrl-C with a        *)
(* foreground process (without one they do nothing).                       *)
Running == pc \notin {"exited", "killed"}

(* ctrlZHandler checks current_process, which ctrl-C may change before the *)
(* handler reads it again: as the process to list (line 28 or 30) and as   *)
(* the one to stop (line 32).                                              *)
CtrlZ ==
  /\ Running
  /\ handler = "idle"
  /\ current_process # NoProcess
  /\ handler' = "create"
  /\ UNCHANGED <<list, shell, clocks, pc, job, target, proc, history>>

CtrlZRead ==
  /\ handler = "create"
  /\ target' = current_process
  /\ handler' = "add"
  /\ UNCHANGED <<list, shell, clocks, pc, job, proc, history>>

(* Mutation: last_cmd_fg is read after CreateCommand, which resets it.     *)
CtrlZAddForgetsFg ==
  /\ handler = "add"
  /\ last_cmd_fg' = FALSE
  /\ addJob(target, TRUE)
  /\ proc' = Reaped
  /\ handler' = (IF target = NoProcess THEN "astray" ELSE "kill")
  /\ target' = NoProcess
  /\ raced' = (raced \/ pc = "fg_id" \/ target = NoProcess)
  /\ UNCHANGED <<current_process, job_id_fg, fg_alarm, current_duration, clocks, pc,
                 job, timed, hidden>>

(* addJob, with the last_cmd_fg that was read before CreateCommand reset   *)
(* it; main, the only other one to use it, stands still from the check on. *)
(* An entry of no process makes removeFinishedJobs wait for any child: the *)
(* shell is not followed beyond it.                                        *)
CtrlZAdd ==
  /\ handler = "add"
  /\ last_cmd_fg' = FALSE
  /\ IF last_cmd_fg THEN addJobAgain(target) ELSE addJob(target, TRUE)
  /\ proc' = Reaped
  /\ handler' = (IF target = NoProcess THEN "astray" ELSE "kill")
  /\ target' = NoProcess
  /\ raced' = (raced \/ pc = "fg_id" \/ target = NoProcess)
  /\ UNCHANGED <<current_process, job_id_fg, fg_alarm, current_duration, clocks, pc,
                 job, timed, hidden>>

CtrlZKill ==
  /\ handler = "kill"
  /\ proc' = Signalled(proc, Receivers(current_process), "STOP")
  /\ hidden' = hidden \cup {p \in Pids : current_process = NoProcess /\ proc[p] = "running"}
  /\ current_process' = NoProcess
  /\ handler' = "idle"
  /\ UNCHANGED <<list, job_id_fg, last_cmd_fg, fg_alarm, current_duration, clocks, pc,
                 job, target, firstId, timed, raced>>

(* One step: a ctrl-Z that interrupts this handler either comes to the     *)
(* same as one before or after it, or makes it send SIGINT to every child, *)
(* as if they had ended by themselves.                                     *)
CtrlC ==
  /\ Running
  /\ current_process # NoProcess
  /\ \E ends \in SUBSET {current_process} :
       proc' = [p \in Pids |-> IF p \in ends /\ proc[p] = "running" THEN "zombie"
                               ELSE proc[p]]
  /\ current_process' = NoProcess
  /\ UNCHANGED <<list, job_id_fg, last_cmd_fg, fg_alarm, current_duration, clocks, pc,
                 job, handler, target, history>>

(* alarmHandler: the foreground process if fg_alarm is set, otherwise      *)
(* delete_alarms sends SIGINT to the processes whose time is over.         *)
Alarm ==
  /\ Running
  /\ timer = 0
  /\ timer' = NoTimer
  /\ \/ /\ fg_alarm
        /\ proc' = Signalled(proc, Receivers(current_process), "KILL")
        /\ fg_alarm' = FALSE
        /\ UNCHANGED alarms
     \/ /\ ~ fg_alarm
        /\ LET over == {entry \in alarms : entry.left = 0}
           IN  /\ alarms' = alarms \ over
               /\ \E ends \in SUBSET {entry.pid : entry \in over} :
                    proc' = [p \in Pids |-> IF p \in ends /\ proc[p] = "running"
                                            THEN "zombie" ELSE proc[p]]
        /\ UNCHANGED fg_alarm
  /\ UNCHANGED <<list, current_process, job_id_fg, last_cmd_fg, current_duration, pc,
                 job, handler, target, history>>

(* A second passes: not while SIGALRM is due, and not between alarm() and  *)
(* the fork of the command it is for.                                      *)
Tick ==
  /\ Running
  /\ pc # "timed"
  /\ timer # 0
  /\ timer # NoTimer \/ \E entry \in alarms : entry.left > 0
  /\ timer' = IF timer = NoTimer THEN NoTimer ELSE timer - 1
  /\ alarms' = {[entry EXCEPT !.left = IF @ = 0 THEN 0 ELSE @ - 1] : entry \in alarms}
  /\ UNCHANGED <<list, shell, pc, job, handler, target, proc, history>>

(* The children: one ends, or stops without the shell, as a process in the *)
(* background does that reads the terminal.                                *)
ChildEnds ==
  /\ \E p \in Pids : proc[p] = "running" /\ proc' = [proc EXCEPT ![p] = "zombie"]
  /\ UNCHANGED <<list, shell, clocks, pc, job, handler, target, history>>

ChildStops ==
  /\ \E p \in Pids : /\ proc[p] = "running"
                     /\ proc' = [proc EXCEPT ![p] = "stopping"]
                     /\ hidden' = hidden \cup {p}
  /\ UNCHANGED <<list, shell, clocks, pc, job, handler, target, firstId, timed,
                 raced>>

-----------------------------------------------------------------------------
Next ==
  \/ OtherCommand \/ RunInBackground \/ RunInForeground
  \/ Timeout \/ TimedInBackground \/ TimedInForeground
  \/ ForegroundById \/ ForegroundRemove \/ ForegroundLast \/ ForegroundSetId
  \/ WaitReturns \/ Cleanup
  \/ Background \/ Kill \/ Quit
  \/ CtrlZ \/ CtrlZRead \/ CtrlZAdd \/ CtrlZKill \/ CtrlC \/ Alarm
  \/ Tick \/ ChildEnds \/ ChildStops

Spec == Init /\ [][Next]_vars

-----------------------------------------------------------------------------
(* Identifiers of jobs; -1, the initial job_id_fg, after a race only.      *)
JobIds == (Nat \ {0}) \cup {-1}

(* What an entry may name: a process, and none if ctrl-C came between the  *)
(* check and the use of current_process in ctrlZHandler.                   *)
Listable == IF handler = "astray" THEN Pids \cup {NoProcess} ELSE Pids

(* The types of the variables.                                             *)
TypeOK ==
  /\ job_list \in Seq([job_id : JobIds, job_pid : Listable, isStopped : BOOLEAN])
  /\ max_job_id \in Nat \ {0}
  /\ current_process \in Pids \cup {NoProcess}
  /\ job_id_fg \in JobIds
  /\ {last_cmd_fg, fg_alarm, raced} \subseteq BOOLEAN
  /\ current_duration \in Delays \cup {0}
  /\ alarms \subseteq [pid : Pids, left : Nat]
  /\ pc \in {"prompt", "timed", "fg_remove", "fg_id", "waiting", "cleanup", "exited",
             "killed"}
  /\ job \in [job_id : JobIds \cup {0}, job_pid : Pids \cup {NoProcess}, isStopped : BOOLEAN]
  /\ handler \in {"idle", "create", "add", "kill", "astray"}
  /\ handler = "astray" => raced
  /\ target \in Pids \cup {NoProcess}
  /\ timer \in Nat \cup {NoTimer}
  /\ proc \in [Pids -> {"none", "running", "stopping", "stopped", "zombie", "reaped"}]
  /\ firstId \in [Pids -> JobIds \cup {0}]
  /\ timed \subseteq Pids
  /\ hidden \subseteq Pids

(* The list is in the order of the identifiers, which are unique, although *)
(* fg takes entries out of the middle and ctrl-Z puts them back: the       *)
(* pointer that fg reads after its erase then stands for the erased entry. *)
(* Left out: the moment in which fg has published a job it has not yet     *)
(* removed, and what follows a race: ctrl-Z at lines 574-575, or ctrl-C    *)
(* inside ctrlZHandler that makes it list a job of no process.             *)
JobIdsIncreasing ==
  pc # "fg_remove" /\ ~ raced =>
    \A i, j \in DOMAIN job_list : i < j => job_list[i].job_id < job_list[j].job_id

(* Both at once: entries are jobs, in the order of their identifiers, but  *)
(* for the one of no process.                                              *)
ListInOrder == TypeOK /\ JobIdsIncreasing

(* From the description of job identifiers: a job keeps the first one it   *)
(* got.  ctrl-Z between lines 574 and 575 gives it another job's.          *)
JobIdNeverChanges ==
  \A entry \in ToSet(job_list) :
    entry.job_pid \in Pids => entry.job_id = firstId[entry.job_pid]

(* A job that goes to the foreground and comes back keeps its identifier:  *)
(* the same, without a race.                                               *)
JobKeepsItsId == ~ raced => JobIdNeverChanges

(* A process that can be stopped or killed from the keyboard is not in the *)
(* list at the same time, and none is in the list twice; until a race has  *)
(* listed one under another's identifier, or no process at all.            *)
ForegroundIsNotListed ==
  pc # "fg_remove" /\ handler # "kill" /\ ~ raced =>
    /\ current_process \notin ListedPids(job_list)
    /\ Cardinality(ListedPids(job_list)) = Len(job_list)

(* At the prompt every live child is in the list, where jobs, fg, bg and   *)
(* kill find it, and quit kill leaves none alive; except a child that was  *)
(* stopped by SIGSTOP, by itself or by a ctrl-Z that ctrl-C interrupted.   *)
(* After a race a job can be lost: the entry fg removes may be another's.*)
NoJobLost ==
  ~ raced =>
    /\ pc = "prompt" =>
         \A p \in Pids : Live(p) => p \in ListedPids(job_list) \cup hidden
    /\ pc = "killed" => \A p \in Pids : Live(p) => p \in hidden

(* Main does not wait for a process that is stopped and whose stop has     *)
(* been reported: fg resumes each job that its entry shows as stopped.     *)
WaitCanEnd ==
  pc = "waiting" /\ ~ raced => proc[job.job_pid] # "stopped"

(* From the description of the timeout command: when the time is up the    *)
(* shell kills the process of the command that was given the timeout.      *)
TimeoutHitsTheTimed ==
  [][timer = 0 /\ timer' = NoTimer =>
       \A p \in Pids : Live(p) /\ ~ Live(p)' => p \in timed]_vars

(* From the same description: as long as a process runs in the background  *)
(* under a timeout, an alarm is on its way that will end it.               *)
TimeoutIsPending ==
  \A entry \in alarms : Live(entry.pid) => timer # NoTimer
=============================================================================
