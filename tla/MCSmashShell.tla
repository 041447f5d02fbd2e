---------------------------- MODULE MCSmashShell ----------------------------
(***************************************************************************)
(* Instance of SmashShell for TLC.                                         *)
(***************************************************************************)
EXTENDS SmashShell, TLC

(* Bounds: a shell that has used a timeout creates one process less, and   *)
(* nothing is claimed of what follows a race.                              *)
WithinBounds ==
  /\ (timer = NoTimer /\ timed = {}) \/ Unused # {}
  /\ ~ raced

PidSymmetry == Permutations(Pids)
=============================================================================
