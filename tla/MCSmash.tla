------------------------------- MODULE MCSmash -------------------------------
(***************************************************************************)
(* Instances of the two parts of SmashShell for one run of TLC: job        *)
(* control, and the processes and descriptors of pipes and redirections.   *)
(* An initial state chooses one, the other stays in its initial state.     *)
(***************************************************************************)
EXTENDS MCSmashShell

VARIABLES part, line, process, buffer

pipeVars == <<line, process, buffer>>

Operators == {"|", "|&"}
Commands  == {"builtin", "source", "filter"}

(* One command, two in all combinations, or a source and two that follow,  *)
(* each line with and without a redirection at its end.                    *)
Plain ==
  {<<a>> : a \in Commands}
    \cup {<<a, op, b>> : a, b \in Commands, op \in Operators}
    \cup {<<"source", op1, a, op2, b>> :
            a, b \in {"filter", "builtin"}, op1, op2 \in Operators}

Pipes == INSTANCE ShellPipes WITH
  Lines <- Plain \cup {Append(l, ">") : l \in Plain},
  Descriptors <- 0 .. 7, Capacity <- 1, MaxWrites <- 2

SmashInit == part \in {"jobs", "pipes"} /\ Init /\ Pipes!Init

SmashNext ==
  \/ part = "jobs" /\ Next /\ UNCHANGED <<part, pipeVars>>
  \/ part = "pipes" /\ Pipes!Next /\ UNCHANGED <<part, vars>>

SmashSpec == SmashInit /\ [][SmashNext]_<<part, vars, pipeVars>>

-----------------------------------------------------------------------------
(* Each command of a line has the streams the line gives it, and the shell *)
(* has its own back afterwards.                                            *)
StreamsAreRight == Pipes!StreamsAreRight

(* No line keeps the shell waiting because an end of a pipe is still open. *)
NobodyWaitsForever == part = "pipes" => Pipes!NobodyWaitsForever
=============================================================================
