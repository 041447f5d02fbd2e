-------------------------- MODULE MCDataStructures ---------------------------
(***************************************************************************)
(* Instances of the sequential data structures, and of the two company     *)
(* systems above some of them, for one run of TLC: an initial state        *)
(* chooses which program runs, the others stay in theirs.                  *)
(***************************************************************************)
EXTENDS CompaniesComplex

CONSTANT NULL

VARIABLES program,
          avl, avlResult,          \* AvlTree
          ranked, rankedResult,    \* RankedTree
          table, tableResult,      \* HashTable
          manager, managerResult,  \* CompanyManager
          max_size, size, head, tail, value, next, call, returned, fault,  \* LinkedQueue
          heap, held, released, calls  \* HeapManager

avlVars     == <<avl, avlResult>>
rankedVars  == <<ranked, rankedResult>>
tableVars   == <<table, tableResult>>
managerVars == <<manager, managerResult>>
queueVars   == <<max_size, size, head, tail, value, next, call, returned, fault>>
heapVars    == <<heap, held, released, calls>>

(* The bounds of the programs: see the README.                             *)
Avl == INSTANCE AvlTree WITH
  Keys <- 1 .. 5, Trees <- {"t1", "t2"}, tree <- avl, result <- avlResult

Ranked == INSTANCE RankedTree WITH
  Keys <- 1 .. 5, Trees <- {"t1", "t2"}, MaxGrade <- 2, tree <- ranked, result <- rankedResult

Hash == INSTANCE HashTable WITH
  Keys <- 1 .. 6, Tables <- {"t1", "t2"}, FIRST_SIZE <- 4, result <- tableResult

Manager == INSTANCE CompanyManager WITH
  Companies <- {1, 2}, Employees <- {1, 2}, Values <- {1, 10}, Increases <- {10},
  Salaries <- {1, 2}, Factors <- {2, 3}, MaxValue <- 17, MaxSalary <- 3, MaxGrade <- 1,
  system <- manager, result <- managerResult

Queue == INSTANCE LinkedQueue WITH
  Nodes <- {"n1", "n2", "n3", "n4"}, Values <- {7, 8, 9}, MaxSizes <- {1, 2, 3},
  result <- returned

Heap == INSTANCE HeapManager WITH
  Sizes <- {1, 4, 30}, MMAP_MIN_SIZE <- 30, MaxBreak <- 14, PageEnd <- 20,
  MmapPlaces <- {100}, MaxCalls <- 6

ASSUME BoundsAssumption ==
  /\ Avl!AvlAssumption /\ Ranked!RankedAssumption /\ Hash!TableAssumption
  /\ Manager!ManagerAssumption /\ Queue!LinkedQueueAssumption
  /\ Heap!HeapAssumption

Programs == {"avl.h", "ranked.h", "hashTable.h", "library1.cpp", "library2.cpp",
             "queue.c", "malloc_hardcore.cpp"}

Runs(p) == program = p

RunInit ==
  /\ program \in Programs
  /\ Avl!Init /\ Ranked!Init /\ Hash!Init /\ Manager!Init /\ ComplexInit
  /\ Queue!Init /\ (Runs("queue.c") \/ max_size = 1) /\ Heap!Init

(* Bound: company 4 takes part only while nobody is employed, which is   *)
(* enough for paths of three companies to be shortened.                    *)
FewAtOnce ==
  \/ DOMAIN system'.all = {}
  \/ arr'[4] = Unodes[4] /\ \A e \in DOMAIN cell' : cell'[e] # 4

RunNext ==
  \/ /\ Runs("avl.h") /\ Avl!Next
     /\ UNCHANGED <<program, rankedVars, tableVars, managerVars, vars, queueVars, heapVars>>
  \/ /\ Runs("ranked.h") /\ Ranked!Next
     /\ UNCHANGED <<program, avlVars, tableVars, managerVars, vars, queueVars, heapVars>>
  \/ /\ Runs("hashTable.h") /\ Hash!Next
     /\ UNCHANGED <<program, avlVars, rankedVars, managerVars, vars, queueVars, heapVars>>
  \/ /\ Runs("library1.cpp") /\ Manager!Next
     /\ UNCHANGED <<program, avlVars, rankedVars, tableVars, vars, queueVars, heapVars>>
  \/ /\ Runs("library2.cpp") /\ ComplexNext /\ FewAtOnce
     /\ UNCHANGED <<program, avlVars, rankedVars, tableVars, managerVars, queueVars, heapVars>>
  \/ /\ Runs("queue.c") /\ Queue!Next
     /\ UNCHANGED <<program, avlVars, rankedVars, tableVars, managerVars, vars, heapVars>>
  \/ /\ Runs("malloc_hardcore.cpp") /\ Heap!Next
     /\ UNCHANGED <<program, avlVars, rankedVars, tableVars, managerVars, vars, queueVars>>

RunSpec ==
  RunInit /\ [][RunNext]_<<program, avlVars, rankedVars, tableVars, managerVars, vars, queueVars,
                          heapVars>>

(* What was returned is compared in each step and steers none, and the two  *)
(* trees or tables of a program differ in their name only: states that     *)
(* differ in these alone are explored once.                                *)
EitherWay(f) == {f, [x \in {"t1", "t2"} |-> IF x = "t1" THEN f["t2"] ELSE f["t1"]]}

UpToNames ==
  <<program, EitherWay(avl), EitherWay(ranked), EitherWay(table), manager, arr, system, comp,
    cell, max_size, size, head, tail, value, next, fault, heapVars>>

-----------------------------------------------------------------------------
(* The shapes the code relies on: links, counters and max_node of the AVL  *)
(* trees, sizes and sums in the ranked trees, the queue's list from head   *)
(* to tail, each key of a hash table in the bucket where find looks for    *)
(* it, and the company manager's copies of an employee, which agree.       *)
LinksAreSound ==
  /\ Runs("avl.h") => Avl!WellLinked
  /\ Runs("queue.c") => Queue!ListShape /\ Queue!NoNodeLeaks
  /\ Runs("ranked.h") => Ranked!Augmented
  /\ Runs("hashTable.h") => Hash!EveryKeyIsFound
  /\ Runs("library1.cpp") => Manager!StructuresAgree

(* What trees answer is what the keys in them say, and what the company    *)
(* manager answers is true of its employees.                               *)
QueriesAgree ==
  /\ Runs("avl.h") => Avl!QueriesAgree
  /\ Runs("ranked.h") => Ranked!QueriesAgree
  /\ Runs("library1.cpp") => Manager!AnswersAgree

(* The heap's statistics are those of the memory it was given.             *)
BytesAreAccounted == Runs("malloc_hardcore.cpp") => Heap!BytesAreAccounted

(* To their callers trees and tables are sets and the linked queue is the  *)
(* sequence the web server takes it for, and the company manager is the    *)
(* registry it promises to be: Abstract!Spec or Registry!Spec of each.     *)
ImplementsContracts ==
  /\ Avl!Abstract!Init /\ Ranked!Abstract!Init /\ Hash!Abstract!Init
  /\ Queue!Abstract!Init /\ Manager!Registry!Init
  /\ [][Runs("avl.h") => Avl!Abstract!Next]_(Avl!Abstract!vars)
  /\ [][Runs("ranked.h") => Ranked!Abstract!Next]_(Ranked!Abstract!vars)
  /\ [][Runs("hashTable.h") => Hash!Abstract!Next]_(Hash!Abstract!vars)
  /\ [][Runs("queue.c") => Queue!Abstract!Next]_(Queue!Abstract!vars)
  /\ [][Runs("library1.cpp") => Manager!Registry!Next]_(Manager!Registry!vars)
=============================================================================
