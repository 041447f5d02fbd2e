---------------------------- MODULE InstructionSet ----------------------------
(***************************************************************************)
(* What a program sees of the processor of simuletion3: each instruction   *)
(* takes effect at once on the program counter, the registers and the data *)
(* memory.  SW2 is the instruction added to the set: it stores the         *)
(* negative of a register.                                                 *)
(***************************************************************************)
EXTENDS Integers, FiniteSets

CONSTANTS DPWIDTH,  \* bits of a word
          JumpsBy   \* the immediate that jal adds

VARIABLES pc, rf, dmem, instr

vars == <<pc, rf, dmem>>

Trunc(n) == n % 2 ^ DPWIDTH

Signed(x) == IF x >= 2 ^ (DPWIDTH - 1) THEN x - 2 ^ DPWIDTH ELSE x

(* The operations that need no bits; a shift by a whole word gives 0.      *)
alu(alusel, x, y) ==
  CASE alusel = "ADD"  -> Trunc(x + y)
    [] alusel = "SUB"  -> Trunc(x - y)
    [] alusel = "SLT"  -> IF Signed(x) < Signed(y) THEN 1 ELSE 0
    [] alusel = "SLTU" -> IF x < y THEN 1 ELSE 0
    [] alusel = "SLL"  -> IF y >= DPWIDTH THEN 0 ELSE Trunc(x * 2 ^ y)
    [] OTHER           -> IF y >= DPWIDTH THEN 0 ELSE x \div 2 ^ y

(* Words are stored at every fourth address, and addresses wrap around.    *)
At(addr) == (addr \div 4) % Cardinality(DOMAIN dmem)

Reg(r) == IF r = 0 THEN 0 ELSE rf[r]

Write(r, data) == rf' = IF r = 0 THEN rf ELSE [rf EXCEPT ![r] = data]

Store(addr, data) == dmem' = [dmem EXCEPT ![At(addr)] = data]

Advance == pc' = Trunc(pc + 4)

Next ==
  LET x == Reg(instr.rs1)
      y == Reg(instr.rs2)
      Is(op) == instr.op = op
  IN  \/ /\ Is("LW") /\ Advance /\ UNCHANGED dmem
         /\ Write(instr.rd, dmem[At(Trunc(x + instr.imm.IMM_L))])
      \/ Is("SW") /\ Advance /\ UNCHANGED rf /\ Store(Trunc(x + instr.imm.IMM_S), y)
      \/ Is("SW2") /\ Advance /\ UNCHANGED rf /\ Store(Trunc(x + instr.imm.IMM_S), Trunc(-y))
      \/ Is("ALU") /\ Advance /\ UNCHANGED dmem /\ Write(instr.rd, alu(instr.alusel, x, y))
      \/ /\ Is("BEQ") /\ UNCHANGED <<rf, dmem>>
         /\ pc' = Trunc(pc + IF x = y THEN instr.imm.IMM_B ELSE 4)
      \/ /\ Is("JAL") /\ Write(instr.rd, Trunc(pc + 4)) /\ UNCHANGED dmem
         /\ pc' = Trunc(pc + instr.imm[JumpsBy])
      \/ Is("none") /\ Advance /\ UNCHANGED <<rf, dmem>>

Spec == pc = 0 /\ [][Next]_vars
=============================================================================
