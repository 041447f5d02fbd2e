-------------------------- MODULE CallCounterProofs --------------------------
(***************************************************************************)
(* The debugger of hw4.c counts right, whatever the traced program's sites *)
(* and functions are, however deep its calls go and wherever its code      *)
(* lies, up to the first run whose two breakpoints are within one word.    *)
(***************************************************************************)
EXTENDS CallCounter, SequenceLemmas

Addresses == Sites \cup {"f", "stub"}

Typed ==
  /\ CounterAssumption
  /\ relocatable \in BOOLEAN /\ got \in {"stub", "f"}
  /\ stack \in Seq(Sites) /\ at \in Addresses \cup {"inside"}
  /\ finished \in Nat /\ counter \in Nat

(* The function's address, once the linker has been asked for it.          *)
Linked ==
  /\ func_addr = IF relocatable /\ counter = 0 THEN "stub" ELSE "f"
  /\ relocatable /\ counter # 0 => got = "f"
  /\ first_command = {}

IsRun(i) == Callee[stack[i]] = "f"

Outside == \A i \in 1 .. Len(stack) : ~ IsRun(i)

(* The k-th call on the stack is the run that is counted.                  *)
Outermost(k) ==
  /\ k \in 1 .. Len(stack) /\ IsRun(k)
  /\ \A i \in 1 .. k - 1 : ~ IsRun(i)

(* The trap is at the function, which is not entered yet.                  *)
AwaitsRun ==
  /\ waits = "function" /\ text = {func_addr} /\ counter = finished
  /\ relocatable /\ counter = 0 => got = "stub"
  /\ \/ /\ Outside /\ at \in Sites \cup {"inside"}
        /\ status \in {"running", "exited"} /\ past = 0
     \/ /\ Outermost(Len(stack)) /\ at = func_addr
        /\ \/ status = "running" /\ past = 0
           \/ status = "stopped" /\ past = 1

(* A run goes on, or it has just returned to where it was called.          *)
Inside ==
  /\ counter = finished
  /\ Outermost(stack_address + 1) /\ stack[stack_address + 1] = return_address

Back ==
  /\ finished = counter + 1
  /\ Len(stack) = stack_address /\ Outside /\ at = return_address

(* The trap is at the return address, but for the step that leaves it.     *)
AwaitsReturn ==
  /\ return_address \in Sites /\ return_data = {} /\ stack_address \in Nat
  /\ relocatable => got = "f" \/ at = "stub"
  /\ Inside \/ Back
  /\ \/ /\ waits = "return" /\ text = {return_address}
        /\ \/ status \in {"running", "exited"} /\ past = 0
           \/ status = "stopped" /\ past = 1 /\ at = return_address
     \/ /\ waits = "step" /\ text = {} /\ past = 0
        /\ \/ status \in {"stepping", "exited"} /\ Inside /\ at = return_address
           \/ status = "stopped"

Inv == Typed /\ Linked /\ (AwaitsRun \/ AwaitsReturn)

Sound == mingled \/ Inv

-----------------------------------------------------------------------------
(* The stack before and after a call or a return.                          *)
LEMMA Called ==
  ASSUME stack \in Seq(Sites), NEW s \in Sites, stack' = Append(stack, s)
  PROVE  /\ stack' \in Seq(Sites) /\ Len(stack') = Len(stack) + 1
         /\ \A i \in 1 .. Len(stack) : stack'[i] = stack[i]
         /\ stack'[Len(stack) + 1] = s
  BY AppendProperties

LEMMA TopOfStack ==
  ASSUME stack \in Seq(Sites), stack # << >>
  PROVE  /\ Len(stack) \in Nat \ {0}
         /\ Last(stack) = stack[Len(stack)]
         /\ Last(stack) \in Sites
         /\ Function(stack) = Callee[stack[Len(stack)]]
<1>1. Len(stack) \in Nat \ {0}
  BY EmptySeq, LenProperties
<1>2. Last(stack) = stack[Len(stack)]
  BY DEF Last
<1>3. stack[Len(stack)] \in Sites
  BY <1>1, ElementOfSeq
<1>4. QED
  BY <1>1, <1>2, <1>3 DEF Function

LEMMA Returned ==
  ASSUME stack \in Seq(Sites), stack # << >>, stack' = Front(stack)
  PROVE  /\ stack' \in Seq(Sites) /\ Len(stack') = Len(stack) - 1
         /\ \A i \in 1 .. Len(stack) - 1 : stack'[i] = stack[i]
<1>1. PICK n : n = Len(stack)
  OBVIOUS
<1>2. n \in Nat \ {0} /\ stack' = SubSeq(stack, 1, n - 1)
  BY <1>1, TopOfStack DEF Front
<1>3. \A i \in 1 .. n - 1 : stack[i] \in Sites
  BY <1>1, <1>2, ElementOfSeq
<1>4. 1 \in Int /\ n - 1 \in Int /\ 1 <= n
  BY <1>2
<1>5. /\ SubSeq(stack, 1, n - 1) \in Seq(Sites)
      /\ Len(SubSeq(stack, 1, n - 1)) = n - 1
      /\ \A i \in 1 .. n - 1 : SubSeq(stack, 1, n - 1)[i] = stack[i]
  BY <1>2, <1>3, <1>4, SubSeqProperties
<1>6. QED
  BY <1>1, <1>2, <1>5

(* A breakpoint is put and taken away without a trace in the other one, if *)
(* neither is in the other's word, and names of addresses differ.          *)
LEMMA OneWordEach ==
  ASSUME CounterAssumption
  PROVE  /\ \A x \in {"f", "stub"}, s \in Sites : ~ Mingle(s, x) =>
              /\ Peek({x}, s) = {}
              /\ removeBreakpoint(putBreakpoint({x}, s), x, {}) = {s}
         /\ \A x \in Addresses : removeBreakpoint({x}, x, {}) = {}
         /\ \A x : Peek({}, x) = {} /\ putBreakpoint({}, x) = {x}
         /\ \A x \in Sites : x \notin {"f", "stub", "inside"}
  BY DEF CounterAssumption, Addresses, Peek, removeBreakpoint, putBreakpoint, Mingle

-----------------------------------------------------------------------------
(* The traced program.                                                     *)
LEMMA TrapStep ==
  ASSUME Inv, status \in {"running", "stepping"}, at \in text, Trap
  PROVE  Inv'
<1> USE DEF Inv
<1>1. Typed' /\ Linked'
  BY DEF Typed, Linked, Trap, program, debugger
<1>2. CASE AwaitsRun
  <2>1. at = func_addr /\ status = "running"
    BY <1>2, OneWordEach DEF AwaitsRun, Typed, Linked
  <2>2. AwaitsRun'
    BY <1>2, <2>1, OneWordEach DEF AwaitsRun, Typed, Linked, Trap, program, debugger,
       Outside, Outermost, IsRun
  <2>3. QED
    BY <1>1, <2>2
<1>3. CASE AwaitsReturn
  <2>1. waits = "return" /\ at = return_address /\ text = {return_address}
    BY <1>3 DEF AwaitsReturn
  <2>2. (Inside <=> Inside') /\ (Back <=> Back')
    BY DEF Trap, program, debugger, Inside, Back, Outside, Outermost, IsRun
  <2>3. AwaitsReturn'
    BY <1>3, <2>1, <2>2 DEF AwaitsReturn, Trap, program, debugger
  <2>4. QED
    BY <1>1, <2>3
<1>4. QED
  BY <1>2, <1>3

(* The program outside the function: it stays there or starts a run.       *)
LEMMA InstructionOutside ==
  ASSUME Inv, AwaitsRun, status \in {"running", "stepping"}, at \notin text, Instruction
  PROVE  Inv'
<1>0. /\ Typed /\ Linked /\ stack \in Seq(Sites) /\ Len(stack) \in Nat
      /\ at # "stub" /\ status = "running" /\ past = 0 /\ Outside
  <2>1. Outside /\ at \in Sites \cup {"inside"} /\ status = "running" /\ past = 0
    BY DEF AwaitsRun, Inv
  <2>2. QED
    BY <2>1, OneWordEach, LenProperties DEF Inv, Typed
<1>1. /\ status' = "running" /\ past' = 0
      /\ UNCHANGED <<relocatable, text, waits, func_addr, first_command, counter>>
  BY <1>0 DEF Instruction, debugger
<1>2. CASE Return
  <2>1. finished' = finished
    BY <1>0, <1>2, TopOfStack DEF Return, Outside, IsRun
  <2>2. Outside' /\ at' \in Sites /\ stack' \in Seq(Sites) /\ got' = got
    BY <1>0, <1>2, TopOfStack, Returned DEF Return, Outside, IsRun
  <2>3. Typed' /\ Linked'
    BY <1>0, <1>1, <2>1, <2>2 DEF Typed, Linked, Addresses
  <2>4. AwaitsRun'
    BY <1>0, <1>1, <2>1, <2>2 DEF AwaitsRun
  <2>5. QED
    BY <2>3, <2>4 DEF Inv
<1>3. CASE Walk
  <2>1. Outside' /\ at' = "inside"
    BY <1>0, <1>3 DEF Walk, Outside, IsRun
  <2>2. Typed' /\ Linked'
    BY <1>0, <1>1, <1>3, <2>1 DEF Typed, Linked, Walk
  <2>3. AwaitsRun'
    BY <1>0, <1>1, <1>3, <2>1 DEF AwaitsRun, Walk
  <2>4. QED
    BY <2>2, <2>3 DEF Inv
<1>4. ASSUME NEW s \in Sites, CallSite(s)
      PROVE  Inv'
  <2>1. /\ stack' \in Seq(Sites) /\ Len(stack') = Len(stack) + 1
        /\ \A i \in 1 .. Len(stack) : stack'[i] = stack[i]
        /\ stack'[Len(stack) + 1] = s
        /\ got' = got /\ finished' = finished
    BY <1>0, <1>4, Called DEF CallSite
  <2>2. CASE Callee[s] # "f"
    <3>1. Outside' /\ at' = "inside"
      BY <1>0, <1>4, <2>1, <2>2 DEF CallSite, Outside, IsRun
    <3>2. Typed' /\ Linked'
      BY <1>0, <1>1, <2>1, <3>1 DEF Typed, Linked
    <3>3. AwaitsRun'
      BY <1>0, <1>1, <2>1, <3>1 DEF AwaitsRun
    <3>4. QED
      BY <3>2, <3>3 DEF Inv
  <2>3. CASE Callee[s] = "f"
    <3>1. Outermost(Len(stack))'
      BY <1>0, <2>1, <2>3 DEF Outside, Outermost, IsRun
    <3>2. at' = func_addr
      BY <1>0, <1>4, <2>3 DEF CallSite, Linked, AwaitsRun, Typed
    <3>3. Typed' /\ Linked'
      BY <1>0, <1>1, <2>1, <3>2 DEF Typed, Linked, Addresses
    <3>4. AwaitsRun'
      BY <1>0, <1>1, <2>1, <3>1, <3>2 DEF AwaitsRun
    <3>5. QED
      BY <3>3, <3>4 DEF Inv
  <2>4. QED
    BY <2>2, <2>3
<1>5. QED
  BY <1>0, <1>2, <1>3, <1>4 DEF Instruction

(* The program inside a run: only the return of that run ends it.          *)
LEMMA InstructionInside ==
  ASSUME Inv, AwaitsReturn, status \in {"running", "stepping"}, at \notin text, Instruction
  PROVE  Inv'
<1>0. /\ Typed /\ Linked /\ stack \in Seq(Sites) /\ Len(stack) \in Nat
      /\ past = 0 /\ Inside /\ stack_address \in Nat
      /\ return_address \in Sites /\ return_data = {}
      /\ relocatable => got = "f" \/ at = "stub"
      /\ \/ waits = "return" /\ text = {return_address} /\ status = "running"
         \/ waits = "step" /\ text = {} /\ status = "stepping"
  BY LenProperties DEF Inv, Typed, AwaitsReturn, Back
<1>1. /\ status' = (IF waits = "return" THEN "running" ELSE "stopped")
      /\ UNCHANGED <<relocatable, past, text, waits, func_addr, first_command,
                     return_address, return_data, stack_address, counter>>
  BY <1>0 DEF Instruction, debugger
<1>2. ASSUME Typed', Linked', Inside' \/ Back', relocatable => got' = "f" \/ at' = "stub"
      PROVE  Inv'
  <2>1. AwaitsReturn'
    BY <1>0, <1>1, <1>2 DEF AwaitsReturn
  <2>2. QED
    BY <1>2, <2>1 DEF Inv
<1>3. CASE at = "stub"
  <2>1. got' = "f" /\ at' = "f" /\ UNCHANGED <<stack, finished>>
    BY <1>3 DEF Instruction, Resolve
  <2>2. Typed' /\ Linked'
    BY <1>0, <1>1, <2>1 DEF Typed, Linked, Addresses
  <2>3. Inside'
    BY <1>0, <1>1, <2>1 DEF Inside, Outermost, IsRun
  <2>4. QED
    BY <1>2, <2>1, <2>2, <2>3
<1>4. CASE at # "stub" /\ Walk
  <2>1. Typed' /\ Linked'
    BY <1>0, <1>1, <1>4 DEF Typed, Linked, Walk
  <2>2. Inside'
    BY <1>0, <1>1, <1>4 DEF Inside, Outermost, IsRun, Walk
  <2>3. QED
    BY <1>0, <1>2, <1>4, <2>1, <2>2 DEF Walk
<1>5. ASSUME at # "stub", NEW s \in Sites, CallSite(s)
      PROVE  Inv'
  <2>1. /\ stack' \in Seq(Sites) /\ Len(stack') = Len(stack) + 1
        /\ \A i \in 1 .. Len(stack) : stack'[i] = stack[i]
        /\ got' = got /\ finished' = finished
        /\ at' \in {"inside", "f", got}
    BY <1>0, <1>5, Called DEF CallSite
  <2>2. Typed' /\ Linked'
    BY <1>0, <1>1, <2>1 DEF Typed, Linked, Addresses
  <2>3. Inside'
    BY <1>0, <1>1, <2>1 DEF Inside, Outermost, IsRun
  <2>4. QED
    BY <1>0, <1>2, <1>5, <2>1, <2>2, <2>3
<1>6. CASE at # "stub" /\ Return
  <2>1. /\ stack' \in Seq(Sites) /\ Len(stack') = Len(stack) - 1
        /\ \A i \in 1 .. Len(stack) - 1 : stack'[i] = stack[i]
        /\ at' = stack[Len(stack)] /\ at' \in Sites
        /\ Function(stack) = Callee[stack[Len(stack)]]
        /\ got' = got /\ finished' \in {finished, finished + 1}
    BY <1>0, <1>6, TopOfStack, Returned DEF Return
  <2>2. Typed' /\ Linked'
    BY <1>0, <1>1, <2>1 DEF Typed, Linked, Addresses
  <2>3. /\ stack_address + 1 \in 1 .. Len(stack)
        /\ IsRun(stack_address + 1) /\ \A i \in 1 .. stack_address : ~ IsRun(i)
    BY <1>0 DEF Inside, Outermost
  <2>4. CASE Len(stack) = stack_address + 1
    <3>1. finished' = finished + 1
      <4>1. \A i \in 1 .. Len(stack) - 1 : Callee[stack[i]] # "f"
        BY <1>0, <2>3, <2>4 DEF IsRun
      <4>2. Function(stack) = "f"
        BY <2>1, <2>3, <2>4 DEF IsRun
      <4>3. QED
        BY <1>6, <4>1, <4>2 DEF Return
    <3>2. Back'
      <4>1. Len(stack') = stack_address
        BY <1>0, <2>1, <2>4
      <4>2. Outside'
        BY <1>0, <2>1, <2>3, <2>4 DEF Outside, IsRun
      <4>3. at' = return_address
        BY <1>0, <2>1, <2>4 DEF Inside
      <4>4. QED
        BY <1>0, <1>1, <3>1, <4>1, <4>2, <4>3 DEF Back, Inside
    <3>3. QED
      BY <1>0, <1>2, <1>6, <2>1, <2>2, <3>2
  <2>5. CASE Len(stack) # stack_address + 1
    <3>1. stack_address + 1 \in 1 .. Len(stack) - 1
      BY <1>0, <2>3, <2>5
    <3>2. finished' = finished
      BY <1>6, <2>3, <3>1 DEF Return, IsRun
    <3>3. Outermost(stack_address + 1)'
      BY <1>0, <1>1, <2>1, <2>3, <3>1 DEF Outermost, IsRun
    <3>4. Inside'
      BY <1>0, <1>1, <2>1, <3>1, <3>2, <3>3 DEF Inside
    <3>5. QED
      BY <1>0, <1>2, <1>6, <2>1, <2>2, <3>4
  <2>6. QED
    BY <2>4, <2>5
<1>7. QED
  BY <1>3, <1>4, <1>5, <1>6 DEF Instruction

LEMMA ExitStep ==
  ASSUME Inv, Exit
  PROVE  Inv'
<1> USE DEF Inv
<1>1. Typed' /\ Linked'
  BY DEF Typed, Linked, Exit, program, debugger
<1>2. (Inside <=> Inside') /\ (Back <=> Back')
  BY DEF Exit, program, debugger, Inside, Back, Outside, Outermost, IsRun
<1>3. CASE AwaitsRun
  <2>1. AwaitsRun'
    BY <1>3 DEF AwaitsRun, Exit, program, debugger, Outside, Outermost, IsRun
  <2>2. QED
    BY <1>1, <2>1
<1>4. CASE AwaitsReturn
  <2>1. AwaitsReturn'
    BY <1>2, <1>4 DEF AwaitsReturn, Exit, program, debugger
  <2>2. QED
    BY <1>1, <2>1
<1>5. QED
  BY <1>3, <1>4

-----------------------------------------------------------------------------
(* The debugger.                                                           *)
LEMMA AtFunctionStep ==
  ASSUME Inv, AtFunction, ~ mingled'
  PROVE  Inv'
<1>1. /\ Typed /\ Linked /\ AwaitsRun /\ Outermost(Len(stack)) /\ past = 1
      /\ at = func_addr /\ func_addr \in {"f", "stub"} /\ stack \in Seq(Sites)
  BY DEF Inv, AtFunction, Stopped, AwaitsRun, AwaitsReturn, Linked, Typed
<1>2. stack # << >>
  BY <1>1, EmptySeq DEF Outermost
<1>3. /\ Len(stack) \in Nat \ {0} /\ Last(stack) = stack[Len(stack)]
      /\ Last(stack) \in Sites /\ Callee[Last(stack)] = "f"
  BY <1>1, <1>2, TopOfStack DEF Outermost, IsRun
<1>4. /\ text = {func_addr} /\ first_command = {} /\ counter = finished
  BY <1>1 DEF AwaitsRun, Linked
<1>5. return_data' = {} /\ text' = {return_address'} /\ return_address' = Last(stack)
  <2>1. ~ Mingle(Last(stack), func_addr)
    BY DEF AtFunction
  <2>2. QED
    BY <1>1, <1>3, <1>4, <2>1, OneWordEach DEF AtFunction, Typed
<1>6. /\ UNCHANGED <<relocatable, stack, at, got, finished, func_addr, first_command, counter>>
      /\ stack_address' = Len(stack) - 1 /\ past' = 0 /\ status' = "running" /\ waits' = "return"
  BY <1>1 DEF AtFunction, program
<1>7. Typed' /\ Linked'
  BY <1>1, <1>6 DEF Typed, Linked
<1>8. Inside'
  <2>1. stack_address' + 1 = Len(stack) /\ stack_address' \in Nat
    BY <1>3, <1>6
  <2>2. Outermost(stack_address + 1)'
    BY <1>1, <1>6, <2>1 DEF Outermost, IsRun
  <2>3. QED
    BY <1>3, <1>4, <1>5, <1>6, <2>1, <2>2 DEF Inside
<1>9. relocatable => got = "f" \/ at = "stub"
  BY <1>1 DEF Linked
<1>10. AwaitsReturn'
  BY <1>3, <1>5, <1>6, <1>8, <1>9 DEF AwaitsReturn
<1>11. QED
  BY <1>7, <1>10 DEF Inv

(* Where the debugger finds the program when it waits for the return.      *)
LEMMA StoppedAtReturn ==
  ASSUME Inv, Stopped("return")
  PROVE  /\ Typed /\ Linked /\ AwaitsReturn /\ past = 1
         /\ return_address \in Sites /\ return_data = {} /\ text = {return_address}
         /\ stack_address \in Nat /\ at = return_address
         /\ relocatable => got = "f"
         /\ (backToTheCalee => Back) /\ (~ backToTheCalee => Inside)
<1>1. /\ Typed /\ Linked /\ AwaitsReturn /\ past = 1
      /\ return_address \in Sites /\ return_data = {} /\ text = {return_address}
      /\ stack_address \in Nat /\ at = return_address
  BY DEF Inv, Stopped, AwaitsRun, AwaitsReturn
<1>2. relocatable => got = "f"
  BY <1>1, OneWordEach DEF AwaitsReturn, Typed
<1>3. (backToTheCalee => Back) /\ (~ backToTheCalee => Inside)
  <2>1. Inside => Len(stack) # stack_address
    BY <1>1, LenProperties DEF Inside, Outermost, Typed
  <2>2. Inside \/ Back
    BY <1>1 DEF AwaitsReturn
  <2>3. QED
    BY <2>1, <2>2 DEF backToTheCalee, Back
<1>4. QED
  BY <1>1, <1>2, <1>3

LEMMA InsideTheRunStep ==
  ASSUME Inv, InsideTheRun
  PROVE  Inv'
<1>1. /\ Typed /\ Linked /\ AwaitsReturn /\ past = 1 /\ Inside /\ (relocatable => got = "f")
      /\ return_address \in Sites /\ return_data = {} /\ text = {return_address}
      /\ stack_address \in Nat /\ at = return_address
  BY StoppedAtReturn DEF InsideTheRun
<1>2. /\ UNCHANGED <<relocatable, stack, at, got, finished, func_addr, first_command,
                     return_address, return_data, stack_address, counter>>
      /\ past' = 0 /\ status' = "stepping" /\ waits' = "step"
  BY <1>1 DEF InsideTheRun, program
<1>3. text' = {}
  BY <1>1, OneWordEach DEF InsideTheRun, Typed, Addresses
<1>4. Typed' /\ Linked'
  BY <1>1, <1>2 DEF Typed, Linked
<1>5. Inside'
  BY <1>1, <1>2 DEF Inside, Outermost, IsRun
<1>6. AwaitsReturn'
  BY <1>1, <1>2, <1>3, <1>5 DEF AwaitsReturn
<1>7. QED
  BY <1>4, <1>6 DEF Inv

LEMMA AfterTheStepStep ==
  ASSUME Inv, AfterTheStep
  PROVE  Inv'
<1>1. /\ Typed /\ Linked /\ AwaitsReturn /\ past = 0 /\ text = {}
      /\ return_address \in Sites /\ return_data = {} /\ stack_address \in Nat
      /\ relocatable => got = "f" \/ at = "stub"
  BY DEF Inv, AfterTheStep, Stopped, AwaitsRun, AwaitsReturn
<1>2. /\ UNCHANGED <<relocatable, stack, at, got, finished, past, func_addr, first_command,
                     return_address, stack_address, counter>>
      /\ status' = "running" /\ waits' = "return"
  BY DEF AfterTheStep, program
<1>3. return_data' = {} /\ text' = {return_address}
  BY <1>1, OneWordEach DEF AfterTheStep, Typed
<1>4. Typed' /\ Linked'
  BY <1>1, <1>2 DEF Typed, Linked
<1>5. (Inside => Inside') /\ (Back => Back')
  BY <1>2 DEF Inside, Back, Outside, Outermost, IsRun
<1>6. Inside \/ Back
  BY <1>1 DEF AwaitsReturn
<1>7. AwaitsReturn'
  BY <1>1, <1>2, <1>3, <1>5, <1>6 DEF AwaitsReturn
<1>8. QED
  BY <1>4, <1>7 DEF Inv

LEMMA EndOfRunStep ==
  ASSUME Inv, EndOfRun
  PROVE  Inv'
<1>1. /\ Typed /\ Linked /\ past = 1 /\ Back /\ (relocatable => got = "f")
      /\ return_address \in Sites /\ return_data = {} /\ text = {return_address}
      /\ at = return_address /\ counter \in Nat
  BY StoppedAtReturn DEF EndOfRun, Typed
<1>2. /\ UNCHANGED <<relocatable, stack, at, got, finished>>
      /\ counter' = counter + 1
      /\ func_addr' = (IF counter' = 1 /\ relocatable THEN got ELSE func_addr)
      /\ past' = 0 /\ status' = "running" /\ waits' = "function"
  BY <1>1 DEF EndOfRun, program
<1>3. removeBreakpoint(text, return_address, return_data) = {}
  BY <1>1, OneWordEach DEF Typed, Addresses
<1>4. first_command' = {} /\ text' = {func_addr'}
  BY <1>1, <1>3, OneWordEach DEF EndOfRun, Typed
<1>5. func_addr' = "f" /\ counter' # 0 /\ counter' \in Nat
  BY <1>1, <1>2 DEF Linked
<1>6. Typed' /\ Linked'
  BY <1>1, <1>2, <1>4, <1>5 DEF Typed, Linked
<1>7. Outside' /\ counter' = finished'
  BY <1>1, <1>2 DEF Back, Outside, IsRun
<1>8. AwaitsRun'
  BY <1>1, <1>2, <1>4, <1>5, <1>7 DEF AwaitsRun
<1>9. QED
  BY <1>6, <1>8 DEF Inv

-----------------------------------------------------------------------------
(* Breakpoints within one word stay so.                                    *)
LEMMA MingledStays ==
  ASSUME [Next]_vars, mingled
  PROVE  mingled'
<1>1. mingled' = mingled \/ AtFunction
  BY DEF Next, Run, Trap, Instruction, Exit, InsideTheRun, AfterTheStep, EndOfRun, vars, debugger
<1>2. QED
  BY <1>1 DEF AtFunction

LEMMA AlwaysSound == CounterAssumption /\ Spec => []Sound
<1>1. CounterAssumption /\ Init => Sound
  <2> SUFFICES ASSUME CounterAssumption, Init
               PROVE  Inv
    BY DEF Sound
  <2>1. stack = << >> /\ stack \in Seq(Sites) /\ Len(stack) = 0
    BY EmptySeq DEF Init
  <2>2. Typed /\ Linked
    BY <2>1 DEF Init, Typed, Linked
  <2>3. AwaitsRun
    BY <2>1 DEF Init, AwaitsRun, Outside, IsRun
  <2>4. QED
    BY <2>2, <2>3 DEF Inv
<1>2. Sound /\ [Next]_vars => Sound'
  <2> SUFFICES ASSUME Inv, [Next]_vars, ~ mingled'
               PROVE  Inv'
    BY MingledStays DEF Sound
  <2>1. CASE Run
    BY <2>1, TrapStep, InstructionOutside, InstructionInside DEF Run, Inv
  <2>2. CASE Exit
    BY <2>2, ExitStep
  <2>3. CASE AtFunction
    BY <2>3, AtFunctionStep
  <2>4. CASE InsideTheRun
    BY <2>4, InsideTheRunStep
  <2>5. CASE AfterTheStep
    BY <2>5, AfterTheStepStep
  <2>6. CASE EndOfRun
    BY <2>6, EndOfRunStep
  <2>7. CASE UNCHANGED vars
    <3>1. Typed' /\ Linked'
      BY <2>7 DEF Inv, Typed, Linked, vars, program, debugger
    <3>2. (Inside <=> Inside') /\ (Back <=> Back')
      BY <2>7 DEF vars, program, debugger, Inside, Back, Outside, Outermost, IsRun
    <3>3. AwaitsRun => AwaitsRun'
      BY <2>7 DEF AwaitsRun, vars, program, debugger, Outside, Outermost, IsRun
    <3>4. AwaitsReturn => AwaitsReturn'
      BY <2>7, <3>2 DEF AwaitsReturn, vars, program, debugger
    <3>5. QED
      BY <3>1, <3>3, <3>4 DEF Inv
  <2>8. QED
    BY <2>1, <2>2, <2>3, <2>4, <2>5, <2>6, <2>7 DEF Next
<1>3. QED
  BY <1>1, <1>2, PTL DEF Spec

(* hw4.c: each outermost run of the function is counted once when it has   *)
(* returned, however calls nest and wherever the code lies, and the        *)
(* program resumes where it stopped, until the first run whose return      *)
(* address and function share a word.                                      *)
THEOREM RunsCounted == CounterAssumption /\ Spec => []RunsAreCounted
<1>1. Sound => RunsAreCounted
  <2> SUFFICES ASSUME Inv
               PROVE  RunsAreCounted
    BY DEF Sound, RunsAreCounted
  <2>1. CASE AwaitsRun
    BY <2>1 DEF AwaitsRun, RunsAreCounted
  <2>2. CASE AwaitsReturn
    <3>1. Back => at # "inside"
      BY <2>2, OneWordEach DEF AwaitsReturn, Back, Inv, Typed
    <3>2. Inside \/ Back
      BY <2>2 DEF AwaitsReturn
    <3>3. at = "inside" => counter = finished
      BY <3>1, <3>2 DEF Inside
    <3>4. status # "stopped" => past = 0
      BY <2>2 DEF AwaitsReturn
    <3>5. QED
      BY <3>3, <3>4 DEF RunsAreCounted
  <2>3. QED
    BY <2>1, <2>2 DEF Inv
<1>2. QED
  BY <1>1, AlwaysSound, PTL
=============================================================================
