------------------------------ MODULE JobsList ------------------------------
(***************************************************************************)
(* The jobs list of SmashShell (class JobsList of Commands.cpp), as the    *)
(* operators the commands and the ctrl-Z handler apply to it.  The vector  *)
(* is the sequence of its entries; the command text and the time of an     *)
(* entry are left out.                                                     *)
(***************************************************************************)
EXTENDS Integers, Sequences, SequencesExt, FiniteSetsExt

JobEntry(job_id, job_pid, isStopped) ==
  [job_id |-> job_id, job_pid |-> job_pid, isStopped |-> isStopped]

ListedPids(list) == {job.job_pid : job \in ToSet(list)}

(* The positions, in a list, of the first entry with an identifier, of the *)
(* last entry in order marked as stopped, and of the first entry with the  *)
(* largest identifier.  0 stands for nullptr.                              *)
getJobById(list, jobId) == SelectInSeq(list, LAMBDA job : job.job_id = jobId)

getLastStoppedJob(list) ==
  LET last == SelectLastInSeq(list, LAMBDA job : job.isStopped)
  IN  IF last = 0 THEN 0 ELSE getJobById(list, list[last].job_id)

getLastJob(list) ==
  SelectInSeq(list, LAMBDA job : \A other \in ToSet(list) : other.job_id <= job.job_id)

removeJobById(list, jobId) ==
  LET i == getJobById(list, jobId)
  IN  IF i = 0 THEN list ELSE RemoveAt(list, i)

(* Mutation: curr_max instead of curr_max + 1.                             *)
nextJobIdIsTheMax(list) == Max({0} \cup {job.job_id : job \in ToSet(list)})

(* max_job_id as removeFinishedJobs leaves it.                             *)
nextJobId(list) == Max({0} \cup {job.job_id : job \in ToSet(list)}) + 1

(* The loop of removeFinishedJobs: what is left of the first n entries     *)
(* when those of some processes are erased.                                *)
Without(list, pids) ==
  LET kept[n \in 0 .. Len(list)] ==
        IF n = 0 THEN << >>
        ELSE IF list[n].job_pid \in pids THEN kept[n - 1]
        ELSE Append(kept[n - 1], list[n])
  IN  kept[Len(list)]

(* Mutation: waitpid is called with WUNTRACED too, so that a job that has  *)
(* just stopped is taken for a finished one.                               *)
unfinishedAndRunning(list, proc) ==
  Without(list, {p \in DOMAIN proc : proc[p] \in {"zombie", "reaped", "stopping"}})

(* removeFinishedJobs drops the entries for whose process waitpid answers  *)
(* with the pid (it has ended) or with -1 (it was waited for before).      *)
unfinished(list, proc) ==
  Without(list, {p \in DOMAIN proc : proc[p] \in {"zombie", "reaped"}})

(* Mutation: the job that ctrl-Z brings back goes to the end of the list.  *)
insertAtEnd(list, job) == Append(list, job)

(* The entry goes before the first one with a larger identifier.           *)
insertById(list, job) ==
  LET i == SelectInSeq(list, LAMBDA other : other.job_id > job.job_id)
  IN  IF i = 0 THEN Append(list, job) ELSE InsertAt(list, i, job)
=============================================================================
