----------------------------- MODULE ShellPipes ------------------------------
(***************************************************************************)
(* Pipes and redirection of SmashShell (Commands.cpp 794-1015): the        *)
(* descriptors each process holds, the sons a pipe forks, which go on as   *)
(* shells of their own, and the programs they run.  A process steps from   *)
(* one system call that others can notice, or that can block, to the next. *)
(*                                                                         *)
(* A line is a sequence of commands and operators, ">" standing for "> f"  *)
(* and for ">> f".  No signals come: such lines are not meant to be        *)
(* stopped or killed.  Only open() fails.                                  *)
(***************************************************************************)
EXTENDS Integers, Sequences, SequencesExt

CONSTANTS Lines,        \* what the user may type
          Descriptors,  \* bound: descriptors of a process
          Capacity,     \* what fits into a pipe
          MaxWrites     \* bound: writes of a program that reads nothing

VARIABLES line,     \* the line that is executed, << >> at the prompt
          process,  \* process id -> [fds, todo]; 1 is the shell, todo of the dead << >>
          buffer    \* pipe -> number of unread writes

vars == <<line, process, buffer>>

Closed   == <<"closed", 0>>
Terminal == <<"terminal", 0>>
File     == <<"file", 0>>
ReadEnd(n)  == <<"read", n>>
WriteEnd(n) == <<"write", n>>

Standard == [d \in Descriptors |-> IF d \in 0 .. 2 THEN Terminal ELSE Closed]

Lowest(fds) == CHOOSE d \in Descriptors :
                 fds[d] = Closed /\ \A e \in Descriptors : fds[e] = Closed => d <= e

Without(fds, S) == [d \in Descriptors |-> IF d \in S THEN Closed ELSE fds[d]]

(* What a process has before it.                                           *)
Execute(i, j)       == [do |-> "execute", from |-> i, to |-> j]
Restore(copy, file) == [do |-> "restore", copy |-> copy, file |-> file]
Connect(r, w, end, onto) == [do |-> "connect", ends |-> {r, w}, end |-> end, onto |-> onto]
ForkSecond(r, w, i, j, first) ==
  [do |-> "fork", read |-> r, write |-> w, from |-> i, to |-> j, first |-> first]
WaitFor(q)          == [do |-> "wait", pid |-> q]
Command(i, left)    == [do |-> "command", word |-> i, left |-> left]

Is(p, do) == process[p].todo # << >> /\ Head(process[p].todo).do = do

Now(p) == Head(process[p].todo)

Then(p, fds, steps) == [fds |-> fds, todo |-> steps \o Tail(process[p].todo)]

Step(p, fds, steps) == process' = [process EXCEPT ![p] = Then(p, fds, steps)]

(* p goes on with fds, and a new process begins with a copy of what p has. *)
Fork(p, fds, steps, copied, sonSteps) ==
  process' = Append([process EXCEPT ![p] = Then(p, fds, steps)],
                    [fds |-> copied, todo |-> sonSteps])

NewPid == Len(process) + 1

Holders(end) ==
  {p \in DOMAIN process : process[p].todo # << >> /\ \E d \in Descriptors : process[p].fds[d] = end}

-----------------------------------------------------------------------------
(* CreateCommand looks for ">" first, then for a pipe; "|&" anywhere is    *)
(* the operator that splits.                                               *)
Places(i, j, op) == {k \in i .. j : line[k] = op}

First(S) == CHOOSE k \in S : \A m \in S : k <= m

IsRedirection(i, j) == Places(i, j, ">") # {}

IsPipe(i, j) == ~ IsRedirection(i, j) /\ Places(i, j, "|") \cup Places(i, j, "|&") # {}

SplitAt(i, j) ==
  First(IF Places(i, j, "|&") # {} THEN Places(i, j, "|&") ELSE Places(i, j, "|"))

(* Mutation: |& takes the standard output too.                             *)
OntoOutputAlways(op) == 1

Onto(op) == IF op = "|" THEN 1 ELSE 2

Init == line = << >> /\ process = <<[fds |-> Standard, todo |-> << >>]>> /\ buffer = << >>

Enter ==
  /\ line = << >> /\ line' \in Lines
  /\ process' = [process EXCEPT ![1].todo = <<Execute(1, Len(line'))>>]
  /\ UNCHANGED buffer

(* Back in main: every process was waited for.                             *)
Prompt ==
  /\ line # << >> /\ \A p \in DOMAIN process : process[p].todo = << >>
  /\ line' = << >> /\ process' = <<process[1]>> /\ buffer' = << >>

Redirect(p) ==
  LET i == Now(p).from
      k == First(Places(i, Now(p).to, ">"))
      fds  == process[p].fds
      copy == Lowest(fds)
      half == [fds EXCEPT ![copy] = fds[1], ![1] = Closed]
  IN  /\ IsRedirection(i, Now(p).to)
      /\ \/ Step(p, [half EXCEPT ![Lowest(half)] = File],
                 <<Execute(i, k - 1), Restore(copy, Lowest(half))>>)
         \/ Step(p, half, <<Restore(copy, -1)>>)
      /\ UNCHANGED buffer

RestoreOutput(p) ==
  LET copy   == Now(p).copy
      closed == Without(process[p].fds, {Now(p).file})
  IN  /\ Step(p, Without([closed EXCEPT ![1] = closed[copy]], {copy}), << >>)
      /\ UNCHANGED buffer

Pipe(p) ==
  LET i == Now(p).from
      j == Now(p).to
      k == SplitAt(i, j)
      n == Len(buffer) + 1
      r == Lowest(process[p].fds)
      half == [process[p].fds EXCEPT ![r] = ReadEnd(n)]
      w == Lowest(half)
      both == [half EXCEPT ![w] = WriteEnd(n)]
  IN  /\ IsPipe(i, j)
      /\ buffer' = Append(buffer, 0)
      /\ Fork(p, both, <<ForkSecond(r, w, k + 1, j, NewPid)>>,
              both, <<Connect(r, w, w, Onto(line[k])), Execute(i, k - 1)>>)

(* Mutation: the shell keeps the end for writing.                          *)
SecondSonKeepsEnd(p) ==
  LET s   == Now(p)
      fds == process[p].fds
  IN  /\ Fork(p, Without(fds, {s.read}), <<WaitFor(s.first), WaitFor(NewPid)>>,
              fds, <<Connect(s.read, s.write, s.read, 0), Execute(s.from, s.to)>>)
      /\ UNCHANGED buffer

(* The second fork, and the shell closes its ends.                         *)
SecondSon(p) ==
  LET s   == Now(p)
      fds == process[p].fds
  IN  /\ Fork(p, Without(fds, {s.read, s.write}), <<WaitFor(s.first), WaitFor(NewPid)>>,
              fds, <<Connect(s.read, s.write, s.read, 0), Execute(s.from, s.to)>>)
      /\ UNCHANGED buffer

ConnectSon(p) ==
  LET s == Now(p)
      fds == process[p].fds
  IN  /\ Step(p, Without([fds EXCEPT ![s.onto] = fds[s.end]], s.ends), << >>)
      /\ UNCHANGED buffer

(* A program is forked and waited for; a built-in command is run in place. *)
RunCommand(p) ==
  LET i == Now(p).from IN
  /\ i = Now(p).to
  /\ IF line[i] = "builtin" THEN Step(p, process[p].fds, <<Command(i, 1)>>)
     ELSE \E left \in (IF line[i] = "filter" THEN {0} ELSE 0 .. MaxWrites) :
            Fork(p, process[p].fds, <<WaitFor(NewPid)>>, process[p].fds, <<Command(i, left)>>)
  /\ UNCHANGED buffer

Wait(p) ==
  /\ process[Now(p).pid].todo = << >>
  /\ Step(p, process[p].fds, << >>) /\ UNCHANGED buffer

-----------------------------------------------------------------------------
(* The commands themselves.  A filter passes on what it reads.             *)
SetLeft(p, left) == process' = [process EXCEPT ![p].todo[1].left = left]

Write(p) ==
  \E s \in {1, 2} : LET to == process[p].fds[s] IN
    /\ Now(p).left > 0
    /\ IF to[1] # "write" THEN SetLeft(p, Now(p).left - 1) /\ UNCHANGED buffer
       ELSE IF Holders(ReadEnd(to[2])) = {}
            THEN process' = [process EXCEPT ![p].todo = << >>] /\ UNCHANGED buffer  \* SIGPIPE
            ELSE /\ buffer[to[2]] < Capacity
                 /\ buffer' = [buffer EXCEPT ![to[2]] = @ + 1]
                 /\ SetLeft(p, Now(p).left - 1)

Reads(p) == line[Now(p).word] = "filter" /\ process[p].fds[0][1] = "read"

Read(p) ==
  LET n == process[p].fds[0][2] IN
  /\ Reads(p) /\ Now(p).left = 0 /\ buffer[n] > 0
  /\ buffer' = [buffer EXCEPT ![n] = @ - 1]
  /\ SetLeft(p, 1)

EndOfCommand(p) ==
  LET n == process[p].fds[0][2] IN
  /\ Now(p).left = 0
  /\ Reads(p) => buffer[n] = 0 /\ Holders(WriteEnd(n)) = {}
  /\ Step(p, process[p].fds, << >>) /\ UNCHANGED buffer

ProcessStep(p) ==
  \/ Is(p, "execute") /\ (Redirect(p) \/ Pipe(p) \/ RunCommand(p))
  \/ Is(p, "restore") /\ RestoreOutput(p)
  \/ Is(p, "fork") /\ SecondSon(p)
  \/ Is(p, "connect") /\ ConnectSon(p)
  \/ Is(p, "wait") /\ Wait(p)
  \/ Is(p, "command") /\ (Write(p) \/ Read(p) \/ EndOfCommand(p))

Next ==
  \/ Enter
  \/ Prompt
  \/ (\E p \in DOMAIN process : ProcessStep(p)) /\ UNCHANGED line

Spec == Init /\ [][Next]_vars

-----------------------------------------------------------------------------
(* What a part of a line means: which of its commands reads and writes     *)
(* where.  n is the number of the next pipe.                               *)
RECURSIVE Meaning(_, _, _, _)
Meaning(i, j, streams, n) ==
  IF IsRedirection(i, j) THEN Meaning(i, First(Places(i, j, ">")) - 1, [streams EXCEPT ![2] = File], n)
  ELSE IF IsPipe(i, j)
       THEN LET k == SplitAt(i, j)
                s == IF line[k] = "|" THEN 2 ELSE 3
            IN  Meaning(i, k - 1, [streams EXCEPT ![s] = WriteEnd(n)], n + 1)
                  \cup Meaning(k + 1, j, [streams EXCEPT ![1] = ReadEnd(n)], n + 1)
       ELSE {<<i, streams>>}

(* Each command has the streams its line gives it, whatever was opened,    *)
(* copied and closed on the way, also in shells within shells; and after   *)
(* every line, also one whose file cannot be opened, the shell has its own *)
(* three descriptors and no other.                                         *)
StreamsAreRight ==
  /\ \A p \in DOMAIN process : Is(p, "command") =>
       LET fds == process[p].fds
       IN  <<Now(p).word, <<fds[0], fds[1], fds[2]>>>>
             \in Meaning(1, Len(line), <<Terminal, Terminal, Terminal>>, 1)
  /\ line = << >> => process = <<[fds |-> Standard, todo |-> << >>]>>

(* A line ends if its commands do: while it is executed some process can   *)
(* go on.  No end of a pipe is left open where it keeps a reader waiting   *)
(* for the end of its input, or a writer for somebody who reads.           *)
NobodyWaitsForever == line # << >> => ENABLED Next
=============================================================================
