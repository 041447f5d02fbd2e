# A verification development for CS_Bsc_Technion

The repository is a collection of programs: operating-system projects in C and
C++, data structures, games, assembly and hardware descriptions. They do not
call each other. This directory models those whose behaviour is hard to test:
TLA+ modules, TLC configurations that check them on small instances, and proofs
checked by TLAPS that hold for every value of the constants. `PROJECT.json` is
the index: components, runs, mutants, the source lines behind every definition,
hazards, findings and theorems.

Contents: 1 inventory, 2 plan, 3 the web server, 4 SmashShell, 5 the chess system,
6 company manager, 7 company complex, 8 heap manager, 9 games, 10 debugger and
hardware, 11 the runs, 12 what was found, 13 what is proved, 14 what is only
model-checked, 15 what is not modelled.

## 1. Inventory

Paths are relative to `src/`; `OS` stands for `Opereting Systems C++`.

### Multi-threaded web server (`OS/Creation of Multi-thread WebServer using Locks/webserver-files`)

* **`server.c`** has a main thread that accepts connections and a fixed pool of
  workers. State: `wait_queue` (accepted, not taken), `worker_queue` (taken, not
  finished), one mutex, the condition variables `cond` (workers wait for work)
  and `cond_block` (main waits for room), and an overload policy: `block`, `dt`
  (drop the new connection), `dh` (drop the oldest waiting one), `random` (drop
  half of those that wait).
* **`queue.c`** is a bounded singly linked list of descriptors with arrival times.
* **`request.c`** serves one request: parse, static file or CGI child, statistics
  headers. **`segel.c`** wraps system calls and ends the process on any error.
  `client.c` and `output.c` are the other ends of the socket and of the pipe.
* Interaction: main hands a descriptor to a worker through `wait_queue`; the
  worker reports back through `worker_queue` and `cond_block`; the kernel reuses
  descriptor numbers as soon as they are closed.
* Hard: every interleaving at the mutex; lost wakeups; a descriptor closed before
  its entry leaves `worker_queue`; early `continue`s inside a critical section;
  an overload test by equality over two queues; a client that never finishes.
* Correct means: mutual exclusion; at most `queue_size` connections; every open
  descriptor has one owner who closes it once; no connection waits while a worker
  sleeps; every request is answered or dropped; a policy drops only what it says.

### SmashShell (`OS/Build a Shell - SmashShell`)

* **`Commands.cpp`** holds the jobs list (identifiers, processes, stopped marks),
  the alarm list, the foreground process with its former identifier, and the
  commands; **`signals.cpp`** the handlers of ctrl-C, ctrl-Z and SIGALRM;
  **`smash.cpp`** the loop. One thread, but the handlers run between any two of
  its instructions and share all the globals; children run, stop and end freely.
* Hard: a handler between two assignments; a pointer into a vector read after an
  erase; one `alarm()` timer for many timeouts; `kill(-1)`.
* Correct means: identifiers stay unique, ordered and unchanged; no live child is
  lost; main never waits for a process nobody will resume; a timeout ends the
  command it was given to, and no other.
* Pipes and redirections fork sons that go on as shells and rewire descriptors:
  every end of a pipe is copied into several processes, and a copy that stays
  open keeps a reader waiting. `cd`, `chprompt` and the parser work on strings.

### Heap manager (`OS/Implantetion of Malloc - ...`)

`malloc_hardcore.cpp` keeps every block in a list by size and in a chain by
address, with a splitting `smalloc`, a merging `sfree`, a `srealloc` of eight
cases, a growing last block ("wilderness"), mmap for large blocks and four
counters. Hard: two linked structures and the counters must agree after every
sequence of calls. Correct means: blocks do not overlap, no free neighbours
remain, the lists and the counters agree with the blocks. `malloc_basic.cpp` is
an earlier stage.

### Chess tournaments and map (`Systems Programming .../Project C -chessSystem and Map`)

`chessSystem.c` keeps a map of tournaments, each with a map of games, and a map of
players with their wins, losses, draws and time. Removing a player awards games
to opponents; removing a tournament takes its points back; ending one computes
the winner. Hard: player records and games are kept apart, and an id may be
removed and come back. `map.c` is a sorted linked list with one iterator.

### Data structures (`Data Structures`)

*Company complex* (`library2.cpp`, `uf.h`, `hashTable.h`, `ranked.h`): companies in
a union-find whose nodes carry value offsets, employees in two hash tables and two
ranked AVL trees at once. *Company manager* (`library1.cpp`, `avl.h`): employees in
several AVL trees, with a copy of their data in each. Hard: one employee in several
structures, all or none of which must change; offsets under union and path
compression; stored heights, sizes and sums under rotations and the swap of a node
with its successor. Correct means: a tree or table is a set, a system is one
registry of companies and employees, and every query tells what is stored.

### Debugger and other low-level code (`Computer organization ...`)

`Build a Dibagger/hw4.c` counts the calls of one function in another program: it
writes breakpoints into it with ptrace and tells a recursive return from the outer
one by the stack pointer. The ELF reader, the assembly exercises and the
invalid-opcode handler keep no state.

### Hardware (`Numerical Systems ...`)

A four-step 32x32 multiplier (state machine, datapath, a variant that skips zero
halves), a multicycle RISC-V processor (state machine and datapath), and gates. Hard:
latches and stage registers that the next cycle overwrites.

### Smaller programs

Kernel system calls for process weights (`hw2.c`), a turn-based grid game and a
sorted list (`C++ - Object Oriented ...`), Snake, an X_O game, C exercises and a
grade calculator in Python.

## 2. Plan

Order: programs with concurrency first, then those with several structures that
must agree, then the rest.

1. *(done)* Web server and its queue; contracts of both; refinements.
2. *(done)* SmashShell: jobs, commands and signal handlers; pipes and redirections.
3. *(done)* Chess system: player records against the games, re-used ids, the winner.
4. *(done)* Company manager: AVL trees pointer by pointer, the four copies of an
   employee, a registry of companies as the abstract specification.
5. *(done)* Company complex: the union-find refines a ledger of acquisitions; hash
   tables and ranked trees refine sets; the whole refines a registry.
6. *(done)* Heap manager: blocks, both lists, the wilderness, mmap.
7. *(done)* Debugger; multipliers; processor against its instruction set; three games.
8. *(done)* Request handling of the web server: statistics and the CGI child.
9. *(done: proofs)* All safety properties of the web server, its refinement of
   `ServerContract` and the answers of its workers; that the linked queue is a sequence;
   all safety properties of the shell's job control and of the chess system; the count
   of the debugger; the company complex and its union-find; the company manager.

Every program gets a module with one action per operation; constants with named
assumptions; and a place in an `MC` module. Modules meant for proofs declare no
RECURSIVE operator; the tree modules and `ShellPipes` do, and are only checked.
Several sequential programs share a run: an `MC` module instantiates each, its initial
state chooses one, and the others stay in their initial state.

## 3. The web server

| module | what it is |
| --- | --- |
| `RequestQueue` | `queue.c` as operators on sequences: what `server.c` relies on |
| `WebServer` | `server.c`: main, the workers, mutex, condition variables, descriptors |
| `ServerContract` | what the server promises about each connection, without threads |
| `WebServerRefinement` | the refinement mapping from `WebServer` to `ServerContract` |
| `LinkedQueue` | `queue.c` as written: nodes, `head`, `tail`, `size`, malloc and free |
| `QueueContract` | a queue as a state machine over the operators of `RequestQueue` |
| `WebServerProofs`, `LinkedQueueProofs`, `RequestHandlingProofs` | lemmas and theorems |
| `SequenceLemmas` | lemmas on the community modules' operators, used by all proofs |
| `RequestHandling` | `request.c`: the cases of a request, statistics, CGI children |
| `MCWebServer`, `MCDataStructures`, `MCSmallPrograms` | instances for TLC |

**State.** `wait_queue`, `worker_queue` and `mutex` are the globals of `server.c`;
`policy` and `queue_max_size` are arguments; `pc` says where a thread is and `job`
what its locals hold; `toDrop` counts the loop of policy `random`. `sock` is the
kernel's descriptor table, `client` what each client does, `clock` numbers the
connections and stands for arrival times. `status` is the process.

**Actions.** A thread is interruptible where it takes the mutex, blocks or makes a
system call outside it; the code in between is one action. `MainAccept`,
`MainLock`, the decision under the mutex (`MainHasRoom`, `MainBlock`,
`MainDropNew`, `MainDropHead`, `MainStartRandom`, `MainDropRandom`,
`MainUnknownPolicy`), `MainEnqueue` with its signal; `WorkerLock`, `WorkerSleep`,
`WorkerTake`, `WorkerHandle` (all of `requestHandle`), `WorkerClose`,
`WorkerLockDone`, `WorkerRemove` with its signal. `WorkerIoError` and
`MainAcceptFails` are the wrappers that end the process, `WorkerFaults` the NULL
dereference of `dequeueByIndex`, `SpuriousWakeup` what POSIX allows.
A woken thread competes for the mutex with all others. `accept` may return any
descriptor that is not in use.

**Clients.** A client asks; or stays silent, which also stands for one that closes
early, since `requestReadhdrs` loops at end of file; or resets the connection, on
which a wrapper ends the process.

**The contract.** `ServerContract` gives each connection a stage (arrived, waiting,
serving, leaving, served, refused) and says: at most `capacity` inside, service in
arrival order, at most as many served as there are workers, a refusal only when
the server is full and only of the connection the policy names, `random` refuses
half of the waiting, rounded up, and main then admits the new one. The stage of a
connection is read off the queue or thread that has it.

**Queue.** `LinkedQueue` and `QueueContract` both record the last call with its
argument and its result, so the refinement compares every operation with its own
counterpart, faults included. It justifies the sequences of `WebServer`. The refinement is
checked on a small instance and proved for every one (section 13).

**Requests.** In `WebServer` a request is one action. `RequestHandling` looks inside:
a request is counted in the arrays of its thread, then the header shows the counts,
then comes the file, the text of the error, or the output of a CGI child. `fork` gives
the child a copy of every client descriptor that is open, and nothing closes them; a
client sees the end of its answer when the last copy is gone. `RequestsAreAnswered`
says that each client gets one whole answer, that the counts in the headers are those
of the thread's answers, and that when all workers wait for work every client has seen
the end, which rests on `waitpid`. A client that another worker has answered may see it
only when the CGI program of a third one ends: the code has this delay, and no document
speaks of it. The claim is checked on a small instance and proved for every one.

| run | bounds | what it shows |
| --- | --- | --- |
| `web_server_safety` | 3 workers, 4 connections and descriptors, `queue_size` 2 and 3, one reset, the four policies and an unknown one | `TypeOK`, `LockDiscipline`, `CapacityBound`, `SocketOwnership`, `EveryJobHasItsEntry`, `NoLostWakeup` |
| `web_server_contract` | 2 workers, 3 connections and descriptors, one silent client, `queue_size` 1 and 2, fair threads | `EveryRequestResolved`, `MainReturnsToAccept`, `ImplementsContract` |
| `data_structures` (queue) | 4 nodes, 3 values, `max_size` 1 to 3 | `LinksAreSound`, `ImplementsContracts` |
| `small_programs` (requests) | 2 workers, 3 connections and descriptors; a file, a CGI program, a forbidden one | `RequestsAreAnswered` |

*Bounds.* `MaxConns` is a bound of the model; the server has none. Four connections
fill a queue of size 2 or 3, overflow it and reuse descriptors while three workers
are at different points; `accept` fails when open connections and the files workers send
take all descriptors. An
unknown policy is in the safety run because the code runs with it (it enqueues
into a full queue, which drops the connection silently), and is the only way to
reach `WorkerFaults`; the properties that need a policy say so. The safety run has
no silent client, who is only a worker that takes no step; the other has one.
Workers are interchangeable: the safety run uses that symmetry.

*Fairness.* Each thread that can take a step of its own takes one (WF: the
scheduler runs all threads), and a thread that finds the mutex free again and
again gets it (SF on acquisition: an assumption about the lock, which POSIX does
not state but every thread here depends on, since they share one mutex). There is
none on connections, clients or spurious wakeups. Liveness is claimed unless
silent clients are as many as the workers or the places: then the server is stuck
by design, which `Overwhelmed` names; or the server ran out of descriptors and exited.

*Deadlock* is not checked: the model stops when the connections are used up or the
process has ended. That nobody waits for ever is `EveryRequestResolved`.

## 4. SmashShell

**Job control.** `JobsList` has the list operations (`getJobById`, `getLastJob`,
`getLastStoppedJob`, `insertById`, `unfinished`, `nextJobId`, ...; `Without` is the loop
that erases entries), `SmashShell` the state machine, `SmashShellProofs` the theorems,
`MCSmashShell` the instance; `MCSmash` adds the pipes below.

**State.** `job_list`, `max_job_id`, `current_process`, `job_id_fg`, `last_cmd_fg`,
`fg_alarm`, `current_duration` and `alarms` are the globals of the shell; `pc` and `job`
are main's position and the entry it reads, `handler` is what the handler of ctrl-Z does
next and `target` the process it has read for `addJob`. `proc` and `timer` are the
kernel: what `waitpid` and `alarm` know. `firstId`, `timed`, `hidden` and `raced` are
history, read by properties only.

**Grain.** A command is one action up to the point where main blocks or has made a
process visible to the handlers. There the actions split: between publishing and
removing an entry (`fg_remove`), between publishing the process and its identifier
(`fg_id`), while waiting, before the cleanup, and between `alarm()` and `fork`.
Handlers run at any of these. ctrl-Z has four steps, since ctrl-C and the alarm are not
blocked and may come between: the check of `current_process` (`CtrlZ`, line 25), reading
it for `addJob` (`CtrlZRead`, 28 or 30), `addJob` (`CtrlZAdd`), and reading it again for
`kill` (`CtrlZKill`, 32). ctrl-C before the last makes it stop every child. ctrl-C
between the first two makes it list a job with pid -1: the handler is then `"astray"`,
and the shell is not followed beyond it, as `removeFinishedJobs` would wait for any child
in its name; children and signals go on.

**Choices of the environment.** A process may ignore SIGINT; it may end or stop by
itself at any time. SIGTSTP is assumed not to be ignored, `fork` not to fail,
process numbers not to be reused. `kill(-1)` reaches every child. No second begins
between `alarm()` and the `fork` that follows.

**Pipes and redirections.** `ShellPipes` has the descriptor table of every process, the
pipes with what is unread in them, and for each process the list of steps before it:
execute a part of the line, put standard output back, connect a son to its end, fork the
second son, wait. A son goes on as a shell of its own, so a part of a line that has
another pipe forks again. The programs are kept simple: a source writes up to two pieces
to its output or error stream, a filter passes on what it reads until the end of its
input, a built-in command writes at most once; a pipe holds one piece. `StreamsAreRight`
compares the streams of every command that runs with what its line means, and the
shell's descriptors after every line with those it had; `NobodyWaitsForever` says that a
line is never stuck, which it would be if a process kept an end of a pipe. Only `open`
fails. The model has no signals: the task description excludes stopping such lines.

| run | bounds | what it shows |
| --- | --- | --- |
| `smash_jobs` | 3 processes (2 once a timeout is used), durations of 1 second | `ListInOrder`, `JobKeepsItsId`, `ForegroundIsNotListed`, `NoJobLost`, `WaitCanEnd` |
| the same run | lines of one and two commands in all combinations, of three that begin with a source; with `\|`, `\|&`, and a redirection or none; 8 descriptors | `StreamsAreRight`, `NobodyWaitsForever` |
| `smash_stale_fg_alarm` | as the first, unconstrained | `TimeoutHitsTheTimed` is violated |
| `smash_second_timeout` | durations 1 and 2 | `TimeoutIsPending` is violated |
| `smash_fg_race` | as the first | `JobIdNeverChanges` is violated |

*Bounds.* Three processes allow a job to be taken out of the middle of the list and
put back between two others, which is the interesting case of `insertById`, and a
foreground process beside two jobs. `WithinBounds` keeps the timed behaviours to two
processes: an alarm concerns the timed process and one that is not. It also stops at
a state after a race (`raced`: ctrl-Z inside `fg`, section 12, or the entry of no process
above). After the first one `fg` resumes a process and waits for another, and the
properties, which are claimed up to a race, fail.

Three commands make a shell within a shell, whose sons hold ends of two pipes.

*Deadlock* is not checked: the shell may quit, and the processes are used up. For lines
with pipes `NobodyWaitsForever` says it.

## 5. The chess system

`ChessRanking` has what `chessSystem.c` computes from games and totals: the histogram
and the winner of a tournament, levels and their printed order, the statistics' loop.
`ChessSystem` is the state machine, `MCChessSystem` the instance; `ChessSystemProofs`
has the lemmas and theorems.

**State.** `chess_tournament_table` and `players_list` are the two maps, as functions
from the identifiers in them; each tournament holds the map of its games. A game has a
player and a deleted mark on each side, and its result is the winning side or "draw".
`status` is the process. `removed` and `returned` are history, read by properties only.

**Actions.** One per operation that changes something, with the conditions under which
the code accepts the call as guards; a refused call changes nothing. The loops that
credit and debit players game by game are sums (`Tally`); the loops whose order decides
something (`checkWinner`, `printLevelsToFile`) are recursive functions over it; `ByKey` is
a set in the order that the code meets its elements.
`chessSaveTournamentStatistics` changes no table, but may read past the games.

| run | bounds | what it shows |
| --- | --- | --- |
| `small_programs` (chess) | 2 tournaments, 3 games at a time, 3 players, at most 1 or 2 games each, one player may be removed any number of times | `TypeOK`, `RecordsMatchGames`, `GamesLegal`, `PlayersCounted`, `OpponentWins`, `WinnerIsBest`, `LevelsInOrder`, `EndedIsFinal` |
| `chess_statistics` | 1 tournament, 2 games, times 0 and 2 | `StatisticsNeverFault` is violated |
| `chess_ties` | 1 tournament, 4 games, 5 players | `TiesAreBroken` is violated |

*Bounds.* Three games in two tournaments let a player reach the maximum of one and play
on in the other, a removed player's games be awarded in a running tournament and kept in
an ended one, and the player come back and meet them. In `small_programs` player 2 is second
in every pairing and "second" wins only by award: the other side is symmetric. All its
games last 2 seconds, so that the run is about the tables; 0 is in `chess_statistics`.

A player who was removed and comes back meets the corrections of his old games: totals
may become negative and the tournament count him twice. No comment says what they should
be, so `RecordsMatchGames` and `PlayersCounted` leave him out; the printed order of
levels is checked with his totals as they are.

Tournaments differ in their number only, which the run's view makes use of.

## 6. The company manager

| module | what it is |
| --- | --- |
| `AvlTree` | `avl.h` pointer by pointer: sons, parent, stored height, counter, `max_node` |
| `OrderedSets` | what a tree or table promises: a set of keys |
| `CompanyManager` | `library1.cpp`: companies, settled companies, four trees with copies |
| `CompanyRegistry` | what the program promises: one table of companies, one of employees |

`AvlTree` follows `insert`, `deleteN` with its swap, the four rotations, `merge` by
sorted arrays, and the three walks. `CompanyManager` takes a tree for the set that
`AvlTree` is shown to implement, and keeps every copy apart: an employee's salary and
grade in four trees, the company's value in two, the shared `companyID` cell. The
refinement `CompanyManager` -> `CompanyRegistry` reads the registry off one copy;
the module's `StructuresAgree`, a part of `LinksAreSound`, says that the others say the
same; its `AnswersAgree`, a part of `QueriesAgree`, that the queries tell the truth:
`EarnersAgree` of the highest earner and the counts, `ListsAgree` of the lists by falling
salary. All but `ListsAgree` is proved in `CompaniesProofs` too (section 13).

*Bounds.* Two trees with keys 1 to 5 reach each case of removal and rotation, and
merges of all shapes; the two trees differ in name only, which the view uses. Two
companies and two employees, salaries up to 3, grades up to 1, values up to 17, factors
1 and 3/2. `avl_balance` needs 7 keys.

## 7. The company complex

| module | what it is |
| --- | --- |
| `UnionFind` | `uf.h`, `unode.h`: parents, sizes, value offsets, path compression |
| `AcquisitionLedger` | what acquisitions do to each company's value |
| `HashTable` | `hashTable.h`: chains, growth, the copies between arrays, merging |
| `RankedTree` | `ranked.h`: AVL tree with the number and sum of what is below a node |
| `CompaniesComplex` | `library2.cpp` on the real union-find and on sets for the others |
| `ComplexRegistry` | what the program promises |
| `CompaniesProofs` | lemmas and theorems on the forest, the complex and the manager |

The registry's values, worths and groups are read off the forest; a group's employees
off the cells. `StructuresAgree` says that tables, trees, totals and cells describe the
same employees, `ImplementsRegistry` that every call does to values and employees what
the registry promises, or is refused and does nothing. `AnswersAgree` compares the two
queries that walk a ranked tree with the employees themselves, paid or not.
`SizesAreRight` says that the forest's sizes count what hangs from each node although
paths are shortened, and that no path is longer than the logarithm of its group.
`LinksAreSound` has the shape of trees and tables: subtree sizes and sums under any
series of calls, each key of a table in the bucket where `find` looks.

*Bounds.* Four companies make paths of three that compression shortens; company 4 takes
part only while nobody is employed (`FewAtOnce`). Two employees, salaries up to 2, grades
up to 1. Hash tables of 4 places with keys 1 to 6 double and are copied. Values are
integers: the code's doubles round, which the model does not show.

The branch of `hashTable.h` that copies a half empty table never makes it smaller than
its first size, and as it doubles first, never smaller at all.

## 8. The heap manager

`HeapManager` is `malloc_hardcore.cpp` in units of the metadata: memory as blocks with
the fields of their metadata, the list by size, the neighbours by address,
`last_alloc_Meta`, the break, mapped blocks and two counters. `smalloc`, `scalloc`,
`sfree` (also of a block already freed) and all cases of `srealloc` are actions; a
fault is a state of its own. `BytesAreAccounted` says that counted blocks and bytes
are what the system gave.

*Bounds.* Requests of 1 and 4 units, and of 30, which are mapped; up to 14 units of heap
and 6 calls. Behaviours stop where two of the callers' blocks overlap: `heap_overlap`
shows that four calls suffice. Callers write nothing, so that what an overlap destroys
is not explored.

Facts that contradict no document and are modelled as they are: a split puts the second
part one unit too far (line 376); `srealloc` leaves the block it merged marked free (632);
its case of both neighbours copies into the block behind (660); a block is linked before
one of equal size without the link forwards (239-247); after `munmap` `last_alloc_Meta`
still names the block (110, 368) and the next request faults; `sfree` of a free block
frees it again, though the comment at line 592 says it returns.

## 9. Games

* **`GridGame`** (`partB`): characters of three kinds; `CharactersFit` (the dead are gone,
  no ammunition below zero, the sniper's power is doubled in each third attack and no
  other), `OnlyEnemiesAreHurt` (an attack hurts enemies of one attacker, and a team wins
  only if it is the attacker's). A 2 by 2 board with one character of each kind, the
  soldier alone; the board's symmetries are in the view. A copy of a game loses the
  count of a sniper's attacks (`Game.cpp:103`), so the schedule is claimed up to a copy.
* **`AvoidanceGame`** (`hw3q1.c`): the board is that of the moves left after any undo, and
  the game ends when a line is complete. A 3 by 3 board, the first move to the middle
  of a side. The code misses the rising diagonal (line 235), and prints a tie for a line
  completed by the last move (263): the property says what it does look for.
* **`SnakeGame`**: `SnakesStayWhole`: board, food and both histories show two disjoint
  paths. An array of side 5, with boards of side 4 and 5, up to 6 steps without food, 13
  turns. A head may leave over the corner (0, 0), whose word in front of the array a
  former move has written (line 321). `LeavesOnlyOverTheCorner`: on a narrower board it
  then has no legal move. On a board as wide as the array (25) "down" leads to the other
  end of row 0: for `checkSnakeLen` that snake has no length, and `updateSnakeHist`
  reads in front of the histogram (line 284). The game is not followed beyond that move
  (`MoveAstray`). A board is full only after more turns than these. The hunger counter
  of player 1 is read and written at `snakes[player - 1]`, that of player 0 (188, 583).

## 10. Debugger and hardware

* **`CallCounter`** (`hw4.c`): the traced program is any nesting of calls between six
  sites in three functions; the debugger has one breakpoint at a time. `RunsAreCounted`:
  the counter is the number of finished outermost runs, and the program goes on where the
  breakpoint covered an instruction. Depth 4, three runs, the function relocatable or
  not, two of the sites within one word. No signals come. Nothing is assumed of the
  layout: while two breakpoints are exchanged, the word saved at one may hold the trap at
  the other. That is so where the function begins less than 8 bytes behind an address it
  returns to (the call at the end of the caller right in front of it), or the reverse.
  There the code fails (section 12), so the claim reaches up to the first such run
  (`mingled`), and one of the six sites is of that kind. Proved in `CallCounterProofs`
  (section 13).
* **`Multiplier`**: both circuits at a word width of 2 with operands that have a high word
  and not; reset and start at any edge. `ProductIsRight`: once not busy the product shown
  is right, whatever terms were skipped. The driver keeps the operands while busy and
  does not take `start` back at the edge that ends busy: `clr_prod` is a latch.
* **`Processor`** refines **`InstructionSet`**: three to five cycles that share stage
  registers do one instruction. Words of 5 bits, three instructions from 15 (each kind,
  both orders of registers, register 0), jumps that wrap. Two facts the instruction set
  is told: JAL jumps by the distance of a branch (`rv_ctl.sv:198`, `rv_dp.sv:58`), and
  SRA shifts in zeros (`rv_dp.sv:165`).

## 11. The runs

| run | properties |
| --- | --- |
| `web_server_safety`, `web_server_contract` | section 3 |
| `smash_jobs` and three that show violations | section 4 |
| `chess_statistics`, `chess_ties` (violations) | section 12 |
| `data_structures` | `LinksAreSound`, `QueriesAgree`, `SizesAreRight`, `StructuresAgree`, `AnswersAgree`, `BytesAreAccounted`, `ImplementsContracts`, `ImplementsRegistry` |
| `avl_balance`, `heap_overlap` (violations) | section 12 |
| `small_programs` | chess, `RequestsAreAnswered`, games, hardware, debugger |

`ImplementsContracts` has the abstract specifications of the trees, the tables, the queue
and the company manager, each claimed of the program's own steps.

`data_structures` runs seven programs, `small_programs` eight, `smash_jobs` the two parts
of the shell. Each property is about the program that the initial state has chosen.

*Views.* `UpToNames` leaves out the results of calls: each is compared within its step and
steers nothing. Both views identify states that a renaming carries into each other: two
trees or tables, two tournaments, the corners of the grid. No action or property tells
those apart.

*Deadlock* is not checked in the runs of many programs: bounded calls, games and programs
end.

*Against the code.* The number of states that `AvlTree`, `RankedTree`, `HashTable` and
`HeapManager` reach under these bounds (before the views) is that of a search over the
repository's own C++ code driven by the same calls.

## 12. What was found

1. **A stale `fg_alarm`** (`signals.cpp:45`, run `smash_stale_fg_alarm`). The flag
   set for a foreground command with a timeout is cleared only by an alarm. If the
   command ends, is stopped or interrupted before, the alarm kills whichever
   command is then in the foreground, or with none, `kill(-1)`, every process of
   the user. The task description has the alarm kill the command it was set for.
2. **One timer for all timeouts** (`Commands.cpp:1049`, run `smash_second_timeout`).
   The next `timeout` replaces the pending `alarm()`; nobody sets it again for the
   commands that remain in the list, and they are never killed.
3. **ctrl-Z inside `fg`** (`Commands.cpp:574`, run `smash_fg_race`). The process is
   published one statement before its identifier: ctrl-Z in between puts the job
   back under another number, although a job is to keep its first one.
4. **Statistics after a game of 0 seconds** (`chessSystem.c:1143`, run
   `chess_statistics`). The first game is counted as read only if it took longer than 0
   seconds; otherwise the loop reads one game too many and dereferences NULL. The
   comment of `chessAddGame` allows such games.
5. **A tie decided by the wrong wins** (`chessSystem.c:845`, run `chess_ties`). A winner
   preferred for fewer losses leaves the wins of the one before to compare with.

6. **AVL trees lose their balance** (`avl.h:370`, run `avl_balance`). A removal computes
   heights it does not store; later calls balance with the stale ones.
7. **Two callers get one block** (`malloc_hardcore.cpp:500`, run `heap_overlap`). The
   wilderness block is given away while it stays marked free.

Facts that contradict no document and are modelled as they are: an unknown policy
makes the web server drop connections without closing them; any I/O error of one
client ends the whole server; a client that closes inside its header keeps a worker
busy for ever. A ctrl-Z on a job whose text
holds '>' makes the handler build a redirection, which moves the shell's standard output
and truncates the file (`signals.cpp:27`). A ctrl-C inside the handler of ctrl-Z makes it
list pid -1, or send SIGSTOP to every process (`signals.cpp:28`, `32`). The debugger saves
its own trap as code where its two breakpoints are within 8 bytes, and resumes the program
in the middle of an instruction (`hw4.c:288`). A snake that left a board of side 25 over
the corner may come back over the other end of the row, with a histogram of no length
(`Snake Game.c:284`). `|&` anywhere in a line is where it is split.
Sections 6 to 10 have more.

## 13. What is proved

The proofs hold for every value of the constants under the named assumptions of the
modules: of `WebServer`, a finite, non-empty set of workers, apart from main
(`ThreadsAssumption`), and the types of the numbers (`NumbersAssumption`); of
`SmashShell`, that the processes are finitely many (`PidsAssumption`) and durations are
positive numbers (`DelaysAssumption`); of `LinkedQueue`, that `NULL` and the model's
mark for a bad address are no addresses and sizes are natural numbers
(`LinkedQueueAssumption`, a hypothesis of its theorems); of `RequestHandling`, what a
request is (`RequestAssumption`, also a hypothesis); of `CallCounter`, that an address
is in the word that begins there and the names differ (`CounterAssumption`, also a
hypothesis); of `ChessSystem`, the types of the arguments of its calls and that nobody
plays against himself, which the code refuses (`ChessAssumption`); of `UnionFind`, that
the number of companies is natural and factors are positive, as `AcquireCompany` demands
(`UnionFindAssumption`); of `CompaniesComplex`, that identifiers, salaries and grades
are natural numbers (`ComplexAssumption`); of `CompanyManager`, that identifiers, values
and salaries are positive and no factor is below 1, as the calls demand
(`ManagerAssumption`, also a hypothesis). How many identifiers, games, players and
employees there are is left open.

| theorem | module | says |
| --- | --- | --- |
| `TypeCorrect` | `WebServerProofs` | `Spec => []TypeOK` |
| `MutualExclusion` | | `Spec => []LockDiscipline` |
| `BoundedServer` | | `Spec => []CapacityBound` |
| `WakeupsSuffice` | | `Spec => []NoLostWakeup` |
| `EntriesMatchJobs` | | `Spec => []EveryJobHasItsEntry` |
| `SocketsOwned` | | `Spec => []SocketOwnership` |
| `ServerKeepsContract` | | `Spec` with a known policy implements `ServerContract` |
| `ListStaysWhole` | `LinkedQueueProofs` | `LinkedQueueAssumption /\ Spec => [](ListShape /\ NoNodeLeaks)` |
| `ListIsSequence` | | `LinkedQueueAssumption /\ Spec => ImplementsSequence` |
| `AnswersCounted` | `RequestHandlingProofs` | `RequestAssumption /\ Spec => []RequestsAreAnswered` |
| `JobsStayInOrder` | `SmashShellProofs` | `Spec => []ListInOrder` |
| `IdsAreKept` | | `Spec => []JobKeepsItsId` |
| `OneHandOnAProcess` | | `Spec => []ForegroundIsNotListed` |
| `JobsAreKept` | | `Spec => []NoJobLost` |
| `WaitsEnd` | | `Spec => []WaitCanEnd` |
| `TablesTyped` | `ChessSystemProofs` | `Spec => []TypeOK` |
| `RecordsStayRight` | | `Spec => []RecordsMatchGames` |
| `GamesStayLegal` | | `Spec => []GamesLegal` |
| `PlayersStayCounted` | | `Spec => []PlayersCounted` |
| `OpponentsWin` | | `Spec => []OpponentWins` |
| `WinnersAreBest` | | `Spec => []WinnerIsBest` |
| `EndedStaysFinal` | | `Spec => EndedIsFinal` |
| `LevelsFallInOrder` | | `Spec => []LevelsInOrder` |
| `ForestKeepsLedger` | `CompaniesProofs` | `Spec => ImplementsLedger` |
| `PathsStayShort` | | `Spec => []SizesAreRight` |
| `ComplexPathsStayShort` | | `ComplexSpec => []SizesAreRight` |
| `BooksAgree` | | `ComplexSpec => []StructuresAgree` |
| `ComplexIsRegistry` | | `ComplexSpec => ImplementsRegistry` |
| `AnswersAreRight` | | `ComplexSpec => []AnswersAgree` |
| `ManagerCopiesAgree` | | `Lib!ManagerAssumption /\ Lib!Spec => []Lib!StructuresAgree` |
| `ManagerIsRegistry` | | `Lib!ManagerAssumption /\ Lib!Spec => Lib!ImplementsRegistry` |
| `EarnersAreRight` | | `Lib!ManagerAssumption /\ Lib!Spec => []Lib!EarnersAgree` |
| `RunsCounted` | `CallCounterProofs` | `CounterAssumption /\ Spec => []RunsAreCounted` |

### The web server

*Types.* `TypeOK` is not inductive: that a thread which enqueues, handles or removes
has a connection in its locals, and that the loop of policy `random` never meets an
empty queue, is what makes `Jobs` and the division safe. `Typed` adds this.

*Mutual exclusion* is inductive given `Typed`: each action that leaves a critical
section frees the mutex, each that enters one found it free.

*Capacity.* The overload test is an equality, so the bound holds only because no
step skips it: `Room` says that the total is at most `queue_size`, and below it
whenever main is about to enqueue. A worker's move from one queue to the other keeps
the total (`TakeMoves`): the second queue has room, since together they fit.

*Wakeups.* `NoLostWakeup` counts the workers on their way to the queue against the
connections in it. Taking one lowers both counts; a signal raises the count of
workers when a connection is added; a worker goes to sleep only when the queue is
empty. The lemma is stated for all workers, by cardinalities of finite sets.

*Entries.* For each descriptor, `worker_queue` has as many entries as there are workers
with a job of that number. The lemmas on the operators of `RequestQueue` say how the set
of positions with a value changes under append and removal; the search therefore
succeeds and the index is inside the list, so `WorkerFaults` cannot happen under a known
policy. This is the argument behind `server.c:184-190`, where a descriptor may be
accepted again before the entry of its former connection is gone.

*Sockets.* The places that own a connection are the waiting queue and the threads
before their close; the invariant says that no two of them have the same descriptor and
that the descriptors they have are exactly the open ones. A worker that has closed its
own keeps the number in its local and in `worker_queue`, where it owns nothing, so
`accept` may return it again.

*The contract.* Each step of the server is shown to be a step of `ServerContract` or a
stutter, under an invariant that adds to the ones above that a connection is
answered exactly between its handling and the removal of its entry, that
`worker_queue` has one entry per worker at work, and that iterations of the drop loop
are left only inside it. The lemmas say what a step does to the stage of each
connection; the hard ones are the loop of policy `random`, whose iterations must add up
to half of the waiting connections, rounded up, and the moves between the queues, which
must keep the order of arrival and the number of connections inside. The contract's
numbers are cardinalities of sets of connections, the server's are lengths of lists; a
bijection relates them. The hypothesis names the known policies because the code checks
no policy, and with an unknown one it refuses connections no contract names.

*The linked list.* The invariant says that some sequence of distinct nodes (`Chain`) is
what the pointers spell out: `head` its first, `next` of each the following one, `tail`
its last, and no other node allocated. The walk from `head` is then that sequence, `NULL`
and a fault, so the index at which `dequeueByIndex` faults is the size. Appending and
removing at any place keep a chain, and the values on the new one are the same operation
on the old values. `ListShape` alone would not do: it says nothing of what `next` holds
off the walk, nor of nodes that leak. `data_structures` checks the same refinement on its
instance, under the same names.

*Requests.* `Inv` says where a connection is, in the queue or with one worker, and by that
place how much of its answer it has (`Due`): nothing before its header, then the header,
then both parts, where for a CGI request the child's having written counts. A worker waits
for its own child and no other, so a child never writes to a descriptor that was closed and
given away, and an idle server has no children, whose inherited copies would keep a
connection open. For the counts, a thread's arrays are the cardinalities of the sets of its
answers, and no header shows more than its thread has counted: a new header therefore shows
more than all before it, and the answers up to an old one stay the same set.

### The shell

The properties describe the states without a race (`raced`, section 4), and no two of
them are inductive alone. `Sound` is `Astray` once `ctrlZHandler` has listed an entry of
no process, which only types survive; else it is `Typed` and, unless a race has happened,
`Good`, the conjunction of

| part | says |
| --- | --- |
| `Consistent` | the list is in order, names a process once and marks those whose stop was reported; a stopped process is marked or was stopped behind the list's back; a running one is listed or in the foreground |
| `Genuine` | an entry has the identifier its process got first; a process that does not exist has none |
| `Awaited` | main waits for a process that exists and is not known to be stopped |
| `HalfTaken` | what `fg` has published and not yet removed, or removed and not yet published |
| `NotYetBack` | a foreground process that ctrl-Z can still stop is not in the list, and `job_id_fg` is its identifier |
| `MarkedWhenBack` | one that ctrl-Z has put back is marked before its process is stopped |
| `KilledAll` | after `quit kill` only processes stopped behind the back of the list live |

`Consistent` speaks of the list as it is once `fg` has removed the entry it has
published: if ctrl-Z comes before that removal, the job is put back in front of its old
entry's successor, so that `fg` erases by identifier the old entry and the new, marked one
stays (`PutBackKeeps`).

The list operations are loops over a list (`Without` erases the finished entries,
`insertById` finds the place for an entry that comes back). What they return is proved
for every list, by the least position at which the claim would fail. The erasing loop is
a recursive function; its theorem gives a strictly increasing map from the positions of
the result to those of the list, from which order, uniqueness and the entries kept
follow. Each action then has a lemma, and each conjunct it can disturb a step in it; ctrl-C,
ctrl-Z and the alarm may come at every position of main and of the handler of ctrl-Z:
`CanBeStopped` speaks of the process that handler will list, its `target` once it has
read it and `current_process` before. After a race the proof claims types only, as the
properties do.

### The chess system

`Inv` is the conjunction of the properties and of what they need:

* `Typed`, and `History`: who is marked in a game was removed, who plays in a game is
  listed or was removed, and who is listed again has come back. Without it nothing says
  that a player who is new to the table has no old games.
* *Records.* A record is compared with `Tally` over all games of all tournaments. The
  lemmas on sums (`SequenceLemmas`, `ChessSystemProofs`) split it: sums over finite sets
  do not depend on an order (proved from `MapThenSumSet`'s definition), the tally of two
  disjoint collections is the sum of theirs, and renaming games changes nothing. Each
  operation then adds, takes back or corrects one part, and the rest stays as it was.
  Removing a tournament takes back the results the games have then, also those awarded
  since.
* *Counts.* `newPlayers` looks at a player's unmarked games only. By `History` a listed
  player who never was removed has no other, so he is new exactly if he has none.
* *Winner.* Among those counted, somebody has a point as soon as there are any:
  `OpponentWins` is needed here, because a game with one mark is won by the other side.
  So the loop of `checkWinner`, which starts from 0 points, does prefer a column, and
  the invariant of the loop (the preferred column has the most points so far and, among
  those, the fewest losses) passes to the end over the rest of the histogram, which is
  zeros. The wins it remembers may be another column's, which is why ties on wins are not
  part of the claim (section 12).
* *Ended tournaments.* `concerns` passes them over, and no other operation accepts one.
* *Levels.* Quotients compared by cross products are ordered because the denominators
  are positive, whatever signs the totals have. The invariant of `printLevelsToFile`'s
  loop: the lines are in order, and while some are missing those printed are the ones
  above the current level, so that each round adds a line and the last one completes them.
  `FewListed` (finitely many players are listed) is what the loop needs of the system.

The six kinds of step (`Effect`: a tournament is added, ended or removed, a game is
added, a player is removed, nothing changes) are proved of the operations once, and each
conjunct has one lemma per kind.

### The union-find

*The ledger.* `Root`, `Offset` and `Path` are recursive functions over nodes whose
parents might go round in a circle. `Shape` rules that out: it has witnesses for the
root of each node and for the sum of the values on its way, and a height that falls from
a node to its parent. By the node of least height at which they would differ, the
recursive functions are those witnesses (`RootIs`, `OffsetIs`, `PathIsWay`).
`find_assist` keeps all three witnesses: a node moved to its root takes the sum it
passed as its value, and the root is lower than the node. A union changes the root and
the offset of one of the two groups by the same rule for all its nodes and lifts their
heights above those of the other, whichever root wins: `UnionMerges` shows that in both
branches of `uf.h:102` the acquirer's group gains `factor` times the worth of the other
and the acquired keep their values. From there a step of the forest is a step of
`AcquisitionLedger` or a stutter.

*Sizes.* `SizesAreRight` bounds paths by sizes, and is not inductive: a shortened path says
nothing about how the next union may lengthen it again. `Sized` adds, as witnesses, the set
of nodes on each way and a *rank*, which rises from a node to its parent. A union raises the
rank of the winner above the loser's if need be; by union by size a root of rank `n` has
at least `2^n` nodes, since the rank grows only where the size at least doubles.
Shortening a path leaves the ranks alone, so the bound on roots stays and a path, along
which the rank rises, is never longer than the rank of its root. For the counts, a node on
the shortened path loses exactly the nodes that came through the one before it
(`FindBelow`), which is what `shrink` subtracts.

### The company complex

*Books.* `StructuresAgree` compares the four descriptions of the employees. The invariant
`Inv` says the same as equations: the system is `SystemOf` its table, and the company at
each root is `CompanyOf` its part of that table, the employees whose cell names it. Each
call is then one change to a table, and lemmas tell what it does to roster, number and
grades of the unpaid (`BooksWith`, `BooksWithout`, `BooksReplaced`, `BooksTogether`), for
the system's table and for the company's part alike. `ClampAtZero`, with which the code
keeps its totals from below zero, is shown never to clamp. An acquisition joins two
parts, whichever Company object goes on; the other is no root's any more and may keep its
old totals.

*The registry.* Values, worths and groups change as in the ledger. The cell of an employee
may name another root after an acquisition, but its group as a set of companies is the
joined one exactly for those who worked in either, and `adjustCompanyID` writes the cells
of those the invariant says it must. Each call has a lemma that ends in the registry's
action of that name, refusals included.

*Queries.* A query reads the tree for those with a salary and adds the totals when the
range begins at 0. Under `Inv` tree and totals split the group's employees in two, so
sums and numbers add up; that every employee is one the calls may name (`Known`) is
invariant too.

### The company manager

*Copies.* `Lib` is `CompanyManager`, instanced beside the complex under names of its
own. The invariant `ManagerInv` says that all of `System` is made of three tables, the
values, the employees' data and the `companyID` cells (`HoldingOf`): the salary tree is
the roster of the data, a company is settled exactly while a cell names it, and its own
trees and value are what its part of the tables says. `StructuresAgree` follows from it.
The code changes the copies one after the other and stops with FAILURE at the first tree
that lacks the key; the lemmas on the calls (`RemoveEmployee`, `PromoteEmployee` in four
steps, `AcquireCompany` with the merged trees) follow it from step to step and show that
under the invariant no tree lacks it, so that no call stops half way, and that what is
left is `HoldingOf` of three tables with one change each. From there a call is the
registry's action of that name.

*Earners.* `findMaxNode` gives the largest key of a company's salary tree under
`operator<`, which with employees of equal salary is the one with the smaller
identifier. That there is one needs that the tree is not empty, which a settled
company's is not, that its salaries are bounded and that identifiers are natural
numbers: `Kept` adds the last two to the invariant. The counts range over the company's
own id tree, by `ManagerInv` its staff.

### The debugger

`Sound` is `mingled \/ Inv`: a run with both breakpoints in one word is noted once and
for all, and in its absence each breakpoint leaves the other's word alone. `Inv` has two
phases. In `AwaitsRun` the only trap is at the function, and nothing on the stack is a
run of it, unless one is about to begin under the trap. In `AwaitsReturn` the only trap
is where the outermost run returns to, but for the step that leaves it; either that run
goes on (`Inside`: it is the call just above `stack_address`, no run is below it) or it
has just returned there (`Back`). Since the stack is deeper in the first case and as
deep as `stack_address` in the second, the test of `backToTheCalee` tells them apart,
whatever sites recursive calls return to. With lazy linking, the entry of the table is
still the stub's when the first run is awaited and the function's own when it returns,
because the run has to leave the stub first.

## 14. What is only model-checked

* Sections 8 and 9, the trees and hash tables of sections 6 and 7, the hardware of section
  10 and the pipes of section 4.
* `ListsAgree` of the company manager: sorting by `SortSeq` is opaque to the prover.
* Liveness: fairness is out of the prover's reach.
* What recursive definitions compute: the trees' walks, the meaning of a line. Induction
  over data and RECURSIVE operators are out of the prover's reach.

## 15. What is not modelled

* Texts: requests, command lines, prompts, file names, headers. Argument checks.
* `cd`, `chprompt` and the parser of the shell; `client.c`; the wrappers' messages.
* What the shell does after it has listed a job of no process, the snake game after
  a snake came back over place 0, the debugger once the program is in the middle of an
  instruction.
* A failing `fork`, whose -1 would become the foreground process; reuse of process
  numbers; a second that begins between taking the time of an alarm and setting it;
  signals to a line with a pipe.
* Rounding of the company complex's doubles; overflow of `int`; failed allocations.
* The heap's counts of free blocks and bytes, which steer nothing, and
  `malloc_basic.cpp`, an earlier stage without splitting or merging.
* The sorted list and exam details, `mult16x16.s`, the ALU's bitwise operations and gates.
* The kernel's process weights (three walks over the kernel's own process tree). The
  kernel headers in that directory are not this repository's code.
* The C exercises, the ELF reader, the assembly exercises and the grade calculator compute
  once on their input, so tests reach what they do.
