------------------------------ MODULE CallCounter ------------------------------
(***************************************************************************)
(* hw4.c: a debugger that counts the runs of one function of the program   *)
(* it traces.  It has one breakpoint at a time: at the function, or, while *)
(* a run lasts, at the address that run returns to, where the depth of the *)
(* stack tells the end of the run from returns of calls inside it.         *)
(*                                                                         *)
(* The traced program is any series of calls and returns between the sites *)
(* below; it gets no signals of others and calls the function through its  *)
(* procedure linkage table where the function is relocatable.  It is not   *)
(* followed into the middle of an instruction.  A step of the debugger is  *)
(* what it does between two waits.                                         *)
(***************************************************************************)
EXTENDS Integers, Sequences, SequencesExt

CONSTANTS Sites,     \* the addresses calls return to
          In,        \* [Sites -> function that holds the site]
          Callee,    \* [Sites -> function called from it], "f" is counted
          Word,      \* address -> the addresses in the 8 bytes from it on
          MaxDepth,  \* bound: calls within calls
          MaxRuns    \* bound: runs that end

CounterAssumption ==
  /\ Sites \cap {"f", "stub", "inside", "none"} = {}
  /\ \A a \in Sites \cup {"f", "stub"} : a \in Word[a]

VARIABLES
  relocatable,
  stack,     \* return addresses; its length stands for rsp
  at, past,  \* rip is past bytes behind the address at
  got,       \* what the function's entry in the global offset table holds
  text,      \* the addresses that hold 0xCC
  status,    \* "running", "stepping", "stopped" or "exited"
  finished,  \* history: runs of the function that ended, those inside one left out
  mingled,   \* history: a run had its two breakpoints within one word
  waits,     \* which wait the debugger is in: "function", "return", "step"
  func_addr, first_command, return_address, return_data, stack_address, counter

program  == <<relocatable, stack, at, got, finished>>
debugger == <<waits, func_addr, first_command, return_address, return_data, stack_address, counter,
              mingled>>
vars     == <<program, past, text, status, debugger>>

(* A word is saved as the set of traps in it.                              *)
Peek(code, address) == code \cap Word[address]

putBreakpoint(code, address) == code \cup {address}

removeBreakpoint(code, address, data) == (code \ Word[address]) \cup data

Init ==
  /\ relocatable \in BOOLEAN
  /\ stack = << >> /\ at = "inside" /\ past = 0 /\ finished = 0
  /\ got = "stub"
  /\ func_addr = (IF relocatable THEN got ELSE "f")
  /\ text = {func_addr} /\ first_command = {}
  /\ status = "running" /\ waits = "function"
  /\ return_address = "none" /\ return_data = {} /\ stack_address = 0 /\ counter = 0
  /\ mingled = FALSE

-----------------------------------------------------------------------------
(* The traced program: one instruction.                                    *)
Function(s) == IF s = << >> THEN "main" ELSE Callee[Last(s)]

CallSite(s) ==
  /\ In[s] = Function(stack) /\ Len(stack) < MaxDepth
  /\ stack' = Append(stack, s)
  /\ at' = IF Callee[s] # "f" THEN "inside" ELSE IF relocatable THEN got ELSE "f"
  /\ UNCHANGED <<got, finished>>

Return ==
  /\ stack # << >> /\ finished < MaxRuns
  /\ stack' = Front(stack) /\ at' = Last(stack)
  /\ finished' = IF Function(stack) = "f" /\ \A i \in 1 .. Len(stack) - 1 : Callee[stack[i]] # "f"
                 THEN finished + 1 ELSE finished
  /\ UNCHANGED got

Walk == at # "inside" /\ at' = "inside" /\ UNCHANGED <<stack, got, finished>>

Resolve == got' = "f" /\ at' = "f" /\ UNCHANGED <<stack, finished>>

Instruction ==
  /\ IF at = "stub" THEN Resolve ELSE Return \/ Walk \/ \E s \in Sites : CallSite(s)
  /\ status' = (IF status = "stepping" THEN "stopped" ELSE "running")
  /\ UNCHANGED <<relocatable, past, text, debugger>>

Trap ==
  /\ status' = "stopped" /\ past' = 1
  /\ UNCHANGED <<program, text, debugger>>

Run == status \in {"running", "stepping"} /\ past = 0 /\ IF at \in text THEN Trap ELSE Instruction

Exit ==
  /\ status \in {"running", "stepping"} /\ past = 0 /\ at \notin text
  /\ status' = "exited" /\ UNCHANGED <<program, past, text, debugger>>

-----------------------------------------------------------------------------
(* Mutation: every return to the address ends the run.                     *)
backToTheCaleeAlways == TRUE

backToTheCalee == Len(stack) = stack_address

(* One of the two lies in the word that is saved at the other one.         *)
Mingle(a, b) == a \in Word[b] \/ b \in Word[a]

Stopped(where) == status = "stopped" /\ waits = where

AtFunction ==
  LET to == Last(stack) IN
  /\ Stopped("function")
  /\ stack_address' = Len(stack) - 1
  /\ return_address' = to
  /\ return_data' = Peek(text, to)
  /\ text' = removeBreakpoint(putBreakpoint(text, to), func_addr, first_command)
  /\ past' = past - 1 /\ status' = "running" /\ waits' = "return"
  /\ mingled' = (mingled \/ Mingle(to, func_addr))
  /\ UNCHANGED <<program, func_addr, first_command, counter>>

InsideTheRun ==
  /\ Stopped("return") /\ ~ backToTheCalee
  /\ text' = removeBreakpoint(text, return_address, return_data)
  /\ past' = past - 1 /\ status' = "stepping" /\ waits' = "step"
  /\ UNCHANGED <<program, func_addr, first_command, return_address, return_data,
                 stack_address, counter, mingled>>

AfterTheStep ==
  /\ Stopped("step")
  /\ return_data' = Peek(text, return_address)
  /\ text' = putBreakpoint(text, return_address)
  /\ status' = "running" /\ waits' = "return"
  /\ UNCHANGED <<program, past, func_addr, first_command, return_address, stack_address, counter,
                 mingled>>

(* The first run has made the linker write the function's own address.     *)
EndOfRun ==
  LET code == removeBreakpoint(text, return_address, return_data) IN
  /\ Stopped("return") /\ backToTheCalee
  /\ counter' = counter + 1
  /\ func_addr' = (IF counter' = 1 /\ relocatable THEN got ELSE func_addr)
  /\ first_command' = Peek(code, func_addr')
  /\ text' = putBreakpoint(code, func_addr')
  /\ past' = past - 1 /\ status' = "running" /\ waits' = "function"
  /\ UNCHANGED <<program, return_address, return_data, stack_address, mingled>>

Next == Run \/ Exit \/ AtFunction \/ InsideTheRun \/ AfterTheStep \/ EndOfRun

Spec == Init /\ [][Next]_vars

-----------------------------------------------------------------------------
(* Each run of the function is counted once when it ends, however calls    *)
(* and returns are nested and whichever sites they share, and the program  *)
(* goes on at the instruction that the breakpoint covered.  The claim ends *)
(* when a run starts that returns into the word at the function or from    *)
(* whose return address the word reaches the function, as where a function *)
(* is laid out right behind its caller's last call: the debugger then      *)
(* saves its own trap as code, or erases it.                               *)
RunsAreCounted ==
  ~ mingled =>
    /\ at = "inside" => counter = finished
    /\ status # "stopped" => past = 0
=============================================================================
