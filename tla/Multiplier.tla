------------------------------ MODULE Multiplier ------------------------------
(***************************************************************************)
(* mult32x32 and mult32x32_fast: a state machine that has the products of  *)
(* the operands' words added up, one per cycle; the fast one leaves out    *)
(* those of a high word that is 0.  Words have W bits, 16 in the circuits. *)
(* A step is a rising edge of clk with the inputs of the cycle it begins.  *)
(*                                                                         *)
(* Whoever drives a circuit keeps the operands from start to the end of    *)
(* busy, and does not take start back at the very edge that ends busy:     *)
(* clr_prod, a latch, could catch it.                                      *)
(***************************************************************************)
EXTENDS Integers

CONSTANTS W, Operands

VARIABLES fast,           \* which of the two circuits
          current_state, product,
          clr_prod, a_msw_is_0, b_msw_is_0,  \* latches
          start, a, b,    \* inputs
          given           \* history: the operands of the last start, or << >>

vars == <<fast, current_state, product, clr_prod, a_msw_is_0, b_msw_is_0, start, a, b, given>>

Word(x, sel) == IF sel = 0 THEN x % 2 ^ W ELSE x \div 2 ^ W

(* A term is <<a_sel, b_sel, shift_sel>>; upd_prod is off where it is      *)
(* << >>.                                                                  *)
mux4(term) ==
  IF term = << >> THEN 0
  ELSE Word(a, term[1]) * Word(b, term[2]) * 2 ^ (W * term[3])

Control(term, next_state) == [term |-> term, next_state |-> next_state]

(* Mutation: a high word of a that is 0 ends the multiplication.           *)
MachineForgetsB ==
  LET a_is_short == fast /\ a_msw_is_0
      b_is_short == fast /\ b_msw_is_0
  IN  CASE current_state = "idle_st" ->
             Control(<< >>, IF start THEN "new_multiply" ELSE "idle_st")
        [] current_state = "new_multiply" -> Control(<<0, 0, 0>>, "a0b0")
        [] current_state = "a0b0" /\ a_is_short -> Control(<< >>, "idle_st")
        [] current_state = "a0b0" /\ ~ a_is_short -> Control(<<1, 0, 1>>, "a1b0")
        [] current_state = "a1b0" /\ b_is_short -> Control(<< >>, "idle_st")
        [] current_state = "a1b0" /\ ~ b_is_short -> Control(<<0, 1, 1>>, "a0b1")
        [] OTHER -> Control(<<1, 1, 2>>, "idle_st")

(* What the machine selects in its state, and the state after the cycle.   *)
Machine ==
  LET a_is_short == fast /\ a_msw_is_0
      b_is_short == fast /\ b_msw_is_0
  IN  CASE current_state = "idle_st" ->
             Control(<< >>, IF start THEN "new_multiply" ELSE "idle_st")
        [] current_state = "new_multiply" -> Control(<<0, 0, 0>>, "a0b0")
        [] current_state = "a0b0" /\ a_is_short /\ b_is_short -> Control(<< >>, "idle_st")
        [] current_state = "a0b0" /\ a_is_short /\ ~ b_is_short -> Control(<<0, 1, 1>>, "a0b1")
        [] current_state = "a0b0" /\ ~ a_is_short -> Control(<<1, 0, 1>>, "a1b0")
        [] current_state = "a1b0" /\ b_is_short -> Control(<< >>, "idle_st")
        [] current_state = "a1b0" /\ ~ b_is_short -> Control(<<0, 1, 1>>, "a0b1")
        [] OTHER -> Control(<<1, 1, 2>>, "idle_st")

-----------------------------------------------------------------------------
Init ==
  /\ fast \in BOOLEAN
  /\ current_state = "idle_st" /\ product = 0
  /\ start = FALSE /\ a = 0 /\ b = 0
  /\ clr_prod = FALSE /\ a_msw_is_0 = TRUE /\ b_msw_is_0 = TRUE
  /\ given = << >>

(* clr_prod is given a value in idle_st only when start is on; the others  *)
(* follow their operand while a_sel and b_sel are 0.                       *)
Latches ==
  /\ clr_prod' = (current_state' = "idle_st" /\ (start' \/ clr_prod))
  /\ IF current_state' \in {"idle_st", "new_multiply"}
     THEN a_msw_is_0' = (a' < 2 ^ W) /\ b_msw_is_0' = (b' < 2 ^ W)
     ELSE UNCHANGED <<a_msw_is_0, b_msw_is_0>>

Inputs ==
  /\ start' \in BOOLEAN
  /\ start /\ current_state # "idle_st" /\ current_state' = "idle_st" => start'
  /\ IF current_state' = "idle_st" THEN a' \in Operands /\ b' \in Operands ELSE UNCHANGED <<a, b>>

Edge ==
  /\ current_state' = Machine.next_state
  /\ product' = IF clr_prod THEN 0 ELSE (product + mux4(Machine.term)) % 2 ^ (4 * W)
  /\ given' = IF current_state = "idle_st" /\ start THEN <<a, b>> ELSE given
  /\ Inputs /\ Latches /\ UNCHANGED fast

Reset ==
  /\ current_state' = "idle_st" /\ product' = 0 /\ given' = << >>
  /\ start' \in BOOLEAN /\ UNCHANGED <<fast, a, b>> /\ Latches

Next == Edge \/ Reset

Spec == Init /\ [][Next]_vars

-----------------------------------------------------------------------------
(* Once a circuit is no longer busy it shows the product of the operands   *)
(* it was started with, until it is started again or reset: no term is     *)
(* missing, added twice or left over, whichever were skipped.              *)
ProductIsRight ==
  current_state = "idle_st" /\ given # << >> => product = given[1] * given[2]
=============================================================================
