-------------------------- MODULE MCSmallPrograms --------------------------
(***************************************************************************)
(* Instances of small programs for one run of TLC: chess tournaments,      *)
(* three games, two multipliers, a processor, a debugger and the workers   *)
(* of the web server with a request.  An initial state chooses one, the    *)
(* others stay in their initial state.                                     *)
(***************************************************************************)
EXTENDS MCChessSystem

CONSTANT EMPTY

VARIABLES program,
          board,                                 \* GridGame
          squares, moves, ended,                 \* AvoidanceGame
          board_size, places, hist, steps, turn, over, \* SnakeGame
          fast, current_state, product, clr_prod, a_msw_is_0, b_msw_is_0,
          start, opa, opb, given,                \* Multiplier
          current, pc, pcc, ir, a, b, aluout, mdr, rf, dmem, fetched,  \* Processor
          relocatable, stack, at, past, got, text, condition, finished, waits, func_addr,
          first_command, return_address, return_data, stack_address, counter,
          mingled,                               \* CallCounter
          conns, sock, waiting, worker, counts, children  \* RequestHandling

gameVars  == <<board, squares, moves, ended, board_size, places, hist, steps, turn, over>>
unseenInGrid      == <<squares, moves, ended, board_size, places, hist, steps, turn, over>>
unseenInAvoidance == <<board, board_size, places, hist, steps, turn, over>>
unseenInSnakes    == <<board, squares, moves, ended>>
multiplierVars == <<fast, current_state, product, clr_prod, a_msw_is_0, b_msw_is_0,
                    start, opa, opb, given>>
processorVars == <<current, pc, pcc, ir, a, b, aluout, mdr, rf, dmem, fetched>>
debuggerVars == <<relocatable, stack, at, past, got, text, condition, finished, waits, func_addr,
                  first_command, return_address, return_data, stack_address, counter, mingled>>
requestVars == <<conns, sock, waiting, worker, counts, children>>
machineVars == <<multiplierVars, processorVars, debuggerVars>>

(* One character of each kind, the soldier alone in its team.              *)
OneOfEachKind ==
  {[type |-> "SOLDIER", team |-> "CROSSFITTERS", health |-> 1, ammo |-> 1, range |-> 2, power |-> 2],
   [type |-> "SNIPER", team |-> "POWERLIFTERS", health |-> 1, ammo |-> 1, range |-> 2, power |-> 1],
   [type |-> "MEDIC", team |-> "POWERLIFTERS", health |-> 2, ammo |-> 0, range |-> 1, power |-> 1]}

Grid == INSTANCE GridGame WITH
  Rows <- 2, Cols <- 2, Roster <- OneOfEachKind, MaxPieces <- 3, MaxStrikes <- 4,
  MaxPower <- 2, MaxHealth <- 2, ReloadAt <- 0

(* The first move is to the middle of a side.                              *)
Avoidance == INSTANCE AvoidanceGame WITH
  Size <- 3, FirstMoves <- {<<0, 1>>}, MaxUndo <- 9, board <- squares

(* A board as wide as the array and a smaller one.  Food in the middle     *)
(* rows, where both snakes pass, and at the end of the array's row 0.      *)
Snakes == INSTANCE SnakeGame WITH
  N <- 5, Sizes <- {4, 5}, MaxSteps <- 6, FoodAt <- {5, 7, 11}, MaxTurns <- 13,
  board <- places

ASSUME Snakes!SnakeAssumption

(* Operands with and without a high word.                                  *)
Circuits == INSTANCE Multiplier WITH
  W <- 2, Operands <- {0, 1, 3, 4, 7, 12, 15}, a <- opa, b <- opb

Fields(op, rd, rs1, rs2, alusel, distance) ==
  [op |-> op, rd |-> rd, rs1 |-> rs1, rs2 |-> rs2, alusel |-> alusel,
   imm |-> [IMM_B |-> distance, IMM_J |-> 12, IMM_S |-> 4, IMM_L |-> 4]]

(* Each kind of instruction, with the registers in both orders where that  *)
(* matters, and register 0.                                                *)
Instructions ==
  {Fields("LW", 1, 2, 0, "ADD", 0), Fields("SW", 0, 2, 1, "ADD", 0),
   Fields("SW2", 0, 2, 1, "ADD", 0), Fields("SW2", 0, 1, 2, "ADD", 0),
   Fields("ALU", 1, 1, 2, "ADD", 0), Fields("ALU", 2, 1, 2, "SUB", 0),
   Fields("ALU", 1, 1, 2, "SLT", 0), Fields("ALU", 1, 1, 2, "SLTU", 0),
   Fields("ALU", 1, 2, 1, "SLL", 0), Fields("ALU", 2, 2, 1, "SRL", 0),
   Fields("ALU", 0, 1, 1, "ADD", 0), Fields("BEQ", 1, 1, 2, "ADD", 28),
   Fields("BEQ", 0, 0, 0, "ADD", 8), Fields("JAL", 1, 0, 0, "ADD", 8),
   Fields("none", 0, 0, 0, "ADD", 0)}

Machine == INSTANCE Processor WITH
  DPWIDTH <- 5, FirstRegisters <- <<3, 29>>, FirstMemory <- [w \in 0 .. 1 |-> 7 + w],
  MaxInstructions <- 3

(* main calls f and g, f itself and g, g calls f.  main's first two calls  *)
(* return to addresses within one word, and f lies right behind its third. *)
Sites == {"main1", "main2", "main3", "f1", "f2", "g1"}

Debugger == INSTANCE CallCounter WITH
  In <- [s \in Sites |-> IF s \in {"main1", "main2", "main3"} THEN "main" ELSE IF s = "g1" THEN "g" ELSE "f"],
  Callee <- [s \in Sites |-> IF s \in {"main2", "f2"} THEN "g" ELSE "f"],
  Word <- [address \in Sites \cup {"f", "stub"} |->
             CASE address = "main1" -> {"main1", "main2"}
               [] address = "main3" -> {"main3", "f"}
               [] OTHER             -> {address}],
  MaxDepth <- 4, MaxRuns <- 3, status <- condition

ASSUME Debugger!CounterAssumption

(* A file, a CGI program, and one that must not be run.                    *)
Asks(cgi, allowed) == [get |-> TRUE, found |-> TRUE, cgi |-> cgi, allowed |-> allowed]

Workers == INSTANCE RequestHandling WITH
  Threads <- {1, 2}, Descriptors <- 4 .. 6, MaxConns <- 3,
  Requests <- {Asks(FALSE, TRUE), Asks(TRUE, TRUE), Asks(TRUE, FALSE)}

ASSUME Workers!RequestAssumption

Runs(p) == program = p

ProgramsInit ==
  /\ program \in {"chess", "grid", "avoidance", "snake", "multiplier", "processor", "debugger",
                "requests"}
  /\ Init /\ Grid!Init /\ Avoidance!Init /\ Snakes!Init
  /\ Circuits!Init /\ Machine!Init /\ Debugger!Init
  /\ Workers!Init
  /\ Runs("snake") \/ (board_size = 4 /\ places[7] = "F")
  /\ Runs("multiplier") \/ fast
  /\ Runs("debugger") \/ relocatable

GamesNext ==
  \/ Runs("chess") /\ Next /\ UNCHANGED gameVars
  \/ Runs("grid") /\ Grid!Next /\ UNCHANGED <<vars, unseenInGrid>>
  \/ Runs("avoidance") /\ Avoidance!Next /\ UNCHANGED <<vars, unseenInAvoidance>>
  \/ Runs("snake") /\ Snakes!Next /\ UNCHANGED <<vars, unseenInSnakes>>

MachinesNext ==
  \/ Runs("multiplier") /\ Circuits!Next /\ UNCHANGED <<processorVars, debuggerVars, requestVars>>
  \/ Runs("processor") /\ Machine!Next /\ UNCHANGED <<multiplierVars, debuggerVars, requestVars>>
  \/ Runs("debugger") /\ Debugger!Next /\ UNCHANGED <<multiplierVars, processorVars, requestVars>>
  \/ Runs("requests") /\ Workers!Next /\ UNCHANGED machineVars

ProgramsNext ==
  \/ GamesNext /\ UNCHANGED <<program, machineVars, requestVars>>
  \/ MachinesNext /\ UNCHANGED <<program, vars, gameVars>>

ProgramsSpec ==
  ProgramsInit /\ [][ProgramsNext]_<<program, vars, gameVars, machineVars, requestVars>>

(* No rule of the grid tells its rows from its columns or one end from the *)
(* other, and none of chess one tournament's number from another's: states *)
(* that differ in that alone are explored once.                            *)
Boards ==
  {[c \in (1 .. 2) \X (1 .. 2) |->
      LET row    == IF mirrored[1] THEN 3 - c[1] ELSE c[1]
          column == IF mirrored[2] THEN 3 - c[2] ELSE c[2]
      IN  board[IF turned THEN <<column, row>> ELSE <<row, column>>]] :
     mirrored \in BOOLEAN \X BOOLEAN, turned \in BOOLEAN}

Renumbered == [t \in {3 - u : u \in Tournaments} |-> chess_tournament_table[3 - t]]

UpToSymmetry ==
  <<program, {chess_tournament_table, Renumbered}, players_list, status, history,
    {board} \cup IF Runs("grid") THEN Boards ELSE {},
    squares, moves, ended, board_size, places, hist, steps, turn, over, machineVars,
    requestVars>>

-----------------------------------------------------------------------------
(* The grid: no fighter is hurt beyond death or acts against its schedule. *)
CharactersFit == Runs("grid") => Grid!CharactersFit

(* Nobody on a team is hurt by one of it.                                  *)
OnlyEnemiesAreHurt == Grid!OnlyEnemiesAreHurt

(* The avoidance game: what is on the board and what ended the game are    *)
(* those of the moves left.                                                *)
MovesDecide ==
  Runs("avoidance") => Avoidance!BoardShowsMoves /\ Avoidance!LinesEndTheGame

(* The snakes: the board shows them, and a head that left it is lost.      *)
SnakesStayWhole ==
  Runs("snake") => Snakes!BoardShowsSnakes /\ Snakes!LeavesOnlyOverTheCorner

(* The multipliers show the product whichever terms were skipped.          *)
ProductIsRight == Runs("multiplier") => Circuits!ProductIsRight

(* The processor does what the instruction set says.                       *)
ImplementsInstructionSet == Machine!ImplementsInstructionSet

(* The debugger counts each run of the function once, and the program goes *)
(* on as if it had not been stopped.                                       *)
RunsAreCounted == Runs("debugger") => Debugger!RunsAreCounted

(* Every client gets its whole answer and sees its end, and the counts in  *)
(* the headers are those of the worker's answers.                          *)
RequestsAreAnswered == Runs("requests") => Workers!RequestsAreAnswered
=============================================================================
