------------------------------ MODULE Processor -------------------------------
(***************************************************************************)
(* rv_ctl and rv_dp of simuletion3: the state machine that takes three to  *)
(* five cycles for an instruction, and the data path whose registers it    *)
(* steers.  A step is a rising edge of clk, after the reset.  Any program  *)
(* may be in the instruction memory; an instruction is a record of its     *)
(* fields, imm holding what the immediate selector makes of it.            *)
(***************************************************************************)
EXTENDS Integers, FiniteSets

CONSTANTS Instructions,
          DPWIDTH,          \* bits of a word
          FirstRegisters, FirstMemory,
          MaxInstructions   \* bound: instructions fetched

VARIABLES current,
          pc, pcc, ir, a, b, aluout, mdr,  \* registers of the data path
          rf, dmem,
          fetched  \* instructions so far

vars == <<current, pc, pcc, ir, a, b, aluout, mdr, rf, dmem, fetched>>

(* JAL_EXEC selects IMM_J, but for the sum of the next cycle: pc takes     *)
(* what the adder made in DECODE, with the bits of a branch's distance.    *)
Set == INSTANCE InstructionSet WITH
  instr <- ir, JumpsBy <- "IMM_B", pc <- IF current = "FETCH" THEN pc ELSE pcc

-----------------------------------------------------------------------------
next_state ==
  CASE current = "FETCH" -> "DECODE"
    [] current = "DECODE" ->
         (CASE ir.op \in {"LW", "SW", "SW2"} -> "LSW_ADDR"
            [] ir.op = "ALU" -> "RTYPE_ALU"
            [] ir.op = "BEQ" -> "BEQ_EXEC"
            [] ir.op = "JAL" -> "JAL_EXEC"
            [] OTHER -> "FETCH")
    [] current = "LSW_ADDR" ->
         (CASE ir.op = "LW" -> "LW_MEM" [] ir.op = "SW2" -> "SW2_CALC" [] OTHER -> "SW_MEM")
    [] current = "LW_MEM" -> "LW_WB"
    [] current = "SW2_CALC" -> "SW2_MEM"
    [] current = "RTYPE_ALU" -> "RTYPE_WB"
    [] OTHER -> "FETCH"

Defaults ==
  [pcsourse |-> "PC_INC", pcwrite |-> FALSE, pccen |-> FALSE, irwrite |-> FALSE,
   wbsel |-> "WB_PC", regwen |-> FALSE, immsel |-> "IMM_B", asel |-> "ALUA_REG",
   bsel |-> "ALUB_REG", alusel |-> "ADD", mdrwrite |-> FALSE, memrw |-> FALSE,
   bff |-> "REGULAR_B"]

(* Mutation: the negative is computed and does not reach b.                *)
Sw2CalcControlsWithoutBff == [Defaults EXCEPT !.immsel = "IMM_S", !.bsel = "ALUB_IMM"]

(* The address goes to aluout, whose negative from LSW_ADDR goes to b.     *)
Sw2CalcControls == [Defaults EXCEPT !.immsel = "IMM_S", !.bsel = "ALUB_IMM", !.bff = "SUB_B"]

(* What is not named has its default.  zero is that of the cycle itself.   *)
Controls(zero) ==
  CASE current = "FETCH" -> [Defaults EXCEPT !.pccen = TRUE, !.pcwrite = TRUE, !.irwrite = TRUE]
    [] current = "DECODE" -> [Defaults EXCEPT !.asel = "ALUA_PCC", !.bsel = "ALUB_IMM"]
    [] current = "LSW_ADDR" /\ ir.op = "SW2" ->
         [Defaults EXCEPT !.immsel = "IMM_S", !.asel = "ALUA_CONST", !.alusel = "SUB"]
    [] current = "LSW_ADDR" /\ ir.op # "SW2" ->
         [Defaults EXCEPT !.immsel = IF ir.op = "LW" THEN "IMM_L" ELSE "IMM_S", !.bsel = "ALUB_IMM"]
    [] current = "LW_MEM" -> [Defaults EXCEPT !.mdrwrite = TRUE]
    [] current = "LW_WB" -> [Defaults EXCEPT !.wbsel = "WB_MDR", !.regwen = TRUE]
    [] current = "SW2_CALC" -> Sw2CalcControls
    [] current \in {"SW_MEM", "SW2_MEM"} -> [Defaults EXCEPT !.memrw = TRUE]
    [] current = "RTYPE_ALU" -> [Defaults EXCEPT !.alusel = ir.alusel]
    [] current = "RTYPE_WB" -> [Defaults EXCEPT !.wbsel = "WB_ALUOUT", !.regwen = TRUE]
    [] current = "BEQ_EXEC" ->
         [Defaults EXCEPT !.alusel = "SUB", !.pcsourse = "PC_ALU", !.pcwrite = zero]
    [] OTHER ->
         [Defaults EXCEPT !.immsel = "IMM_J", !.asel = "ALUA_PCC", !.bsel = "ALUB_IMM",
                          !.pcsourse = "PC_ALU", !.pcwrite = TRUE, !.regwen = TRUE]

(* alusel and the operands do not depend on zero.                          *)
alu_result ==
  LET c == Controls(FALSE)
      alu_a == CASE c.asel = "ALUA_REG" -> a [] c.asel = "ALUA_CONST" -> 0 [] OTHER -> pcc
      alu_b == IF c.bsel = "ALUB_REG" THEN b ELSE ir.imm[c.immsel]
  IN  Set!alu(c.alusel, alu_a, alu_b)

-----------------------------------------------------------------------------
Nothing == [op |-> "none", rd |-> 0, rs1 |-> 0, rs2 |-> 0, alusel |-> "ADD",
            imm |-> [IMM_B |-> 0, IMM_J |-> 0, IMM_S |-> 0, IMM_L |-> 0]]

Init ==
  /\ current = "FETCH" /\ pc = 0 /\ pcc = 0 /\ ir = Nothing
  /\ a = 0 /\ b = 0 /\ aluout = 0 /\ mdr = 0
  /\ rf = FirstRegisters /\ dmem = FirstMemory /\ fetched = 0

Edge(fetch) ==
  LET c == Controls(alu_result = 0)
      datad == CASE c.wbsel = "WB_MDR" -> mdr [] c.wbsel = "WB_ALUOUT" -> aluout [] OTHER -> pc
  IN  /\ current' = next_state
      /\ pc' = IF ~ c.pcwrite THEN pc
               ELSE IF c.pcsourse = "PC_ALU" THEN aluout ELSE Set!Trunc(pc + 4)
      /\ pcc' = IF c.pccen THEN pc ELSE pcc
      /\ ir' = IF c.irwrite THEN fetch ELSE ir
      /\ rf' = IF c.regwen /\ ir.rd # 0 THEN [rf EXCEPT ![ir.rd] = datad] ELSE rf
      /\ a' = Set!Reg(ir.rs1)
      /\ b' = IF c.bff = "REGULAR_B" THEN Set!Reg(ir.rs2) ELSE aluout
      /\ aluout' = alu_result
      /\ mdr' = IF c.mdrwrite THEN dmem[Set!At(aluout)] ELSE mdr
      /\ dmem' = IF c.memrw THEN [dmem EXCEPT ![Set!At(aluout)] = b] ELSE dmem

Fetch ==
  /\ current = "FETCH" /\ fetched < MaxInstructions /\ fetched' = fetched + 1
  /\ \E i \in Instructions : Edge(i)

Execute == current # "FETCH" /\ UNCHANGED fetched /\ Edge(ir)

Next == Fetch \/ Execute

Spec == Init /\ [][Next]_vars

-----------------------------------------------------------------------------
(* Whatever was left in the stage registers by the instructions before,    *)
(* each instruction has the effect the instruction set gives it, and has   *)
(* it in its last cycle.                                                   *)
ImplementsInstructionSet == Set!Spec
=============================================================================
