--------------------------- MODULE CompaniesComplex ---------------------------
(***************************************************************************)
(* library2.cpp on the union-find of uf.h: an employee is in the system's  *)
(* hash table and in that of the company at the root of its group; one     *)
(* with a salary is also in the two salary trees, one without is only      *)
(* counted, with its grade, in the system's and the company's totals.      *)
(* All copies share one companyID cell.  A hash table and a tree are taken *)
(* for what HashTable and RankedTree are shown to implement, and one that  *)
(* was not created yet for an empty one.  Calls with invalid arguments and *)
(* failed allocations are left out.                                        *)
(***************************************************************************)
EXTENDS UnionFind, FiniteSetsExt

CONSTANTS Employees,
          MaxSalary, MaxGrade  \* bounds of the salaries and grades explored

ASSUME ComplexAssumption ==
  Employees \subseteq Nat /\ MaxSalary \in Nat /\ MaxGrade \in Nat

VARIABLES system,  \* [all, tree, emps, grades]: class System
          comp,    \* [Ids -> [ht, tree, emps, grades]]: class Company
          cell,    \* employee -> what its companyID points to
          result   \* of the last call, "NONE" before the first

vars == <<arr, system, comp, cell, result>>

-----------------------------------------------------------------------------
With(f, x, v) == [y \in DOMAIN f \cup {x} |-> IF y = x THEN v ELSE f[y]]

Without(f, x) == [y \in DOMAIN f \ {x} |-> f[y]]

(* A key of the salary trees, a copy of the employee.                      *)
Key(e, data) == [id |-> e, salary |-> data.salary, grade |-> data.grade]

ClampAtZero(n) == IF n < 0 THEN 0 ELSE n

(* increaseEmps and increaseGrades; decreaseEmps and decreaseGrades.       *)
CountIn(where, grade) == [where EXCEPT !.emps = @ + 1, !.grades = @ + grade]

CountOut(where, grade) ==
  [where EXCEPT !.emps = ClampAtZero(@ - 1), !.grades = ClampAtZero(@ - grade)]

Paid(where, old, new) == [where EXCEPT !.tree = (@ \ {old}) \cup {new}]

Return(sys, comps, cells, res) ==
  system' = sys /\ comp' = comps /\ cell' = cells /\ result' = res

Refuse(res) == Return(system, comp, cell, res)

-----------------------------------------------------------------------------
(* The company is found, and its path shortened, even for a known employee.*)
AddEmployee(e, c, grade) ==
  LET r    == Root(arr, c)
      own  == comp[r]
      data == [salary |-> 0, grade |-> grade]
  IN  /\ arr' = find_assist(arr, c)
      /\ IF e \in DOMAIN system.all
         THEN Refuse("FAILURE")
         ELSE Return(CountIn([system EXCEPT !.all = With(@, e, data)], grade),
                     [comp EXCEPT ![r] = CountIn([own EXCEPT !.ht = With(@, e, data)], grade)],
                     With(cell, e, r), "SUCCESS")

RemoveEmployee(e) ==
  /\ UNCHANGED arr
  /\ IF e \notin DOMAIN system.all
     THEN Refuse("FAILURE")
     ELSE LET data == system.all[e]
              own  == comp[cell[e]]
              Left(where) ==
                IF data.salary > 0 THEN [where EXCEPT !.tree = @ \ {Key(e, data)}]
                ELSE CountOut(where, data.grade)
          IN  Return([Left(system) EXCEPT !.all = Without(@, e)],
                     [comp EXCEPT ![cell[e]] = [Left(own) EXCEPT !.ht = Without(@, e)]],
                     Without(cell, e), "SUCCESS")

(* The first raise takes the employee from the totals into the trees.      *)
EmployeeSalaryIncrease(e, raise) ==
  /\ UNCHANGED arr
  /\ IF e \notin DOMAIN system.all
     THEN Refuse("FAILURE")
     ELSE LET old == system.all[e]
              new == [old EXCEPT !.salary = @ + raise]
              own == comp[cell[e]]
              Moved(where) ==
                IF old.salary = 0
                THEN CountOut([where EXCEPT !.tree = @ \cup {Key(e, new)}], old.grade)
                ELSE Paid(where, Key(e, old), Key(e, new))
          IN  Return([Moved(system) EXCEPT !.all[e] = new],
                     [comp EXCEPT ![cell[e]] = [Moved(own) EXCEPT !.ht[e].salary = new.salary]],
                     cell, "SUCCESS")

(* Mutation: the system's total does not follow.                           *)
PromoteInCompanyOnly(e, bump) ==
  /\ UNCHANGED arr
  /\ IF e \notin DOMAIN system.all
     THEN Refuse("FAILURE")
     ELSE LET old == system.all[e]
              new == [old EXCEPT !.grade = @ + bump]
              own == comp[cell[e]]
              Bumped(where) == IF old.salary = 0 THEN [where EXCEPT !.grades = @ + bump]
                               ELSE Paid(where, Key(e, old), Key(e, new))
          IN  Return([system EXCEPT !.all[e] = new],
                     [comp EXCEPT ![cell[e]] = [Bumped(own) EXCEPT !.ht[e] = new]],
                     cell, "SUCCESS")

PromoteEmployee(e, bump) ==
  /\ UNCHANGED arr
  /\ IF e \notin DOMAIN system.all
     THEN Refuse("FAILURE")
     ELSE LET old == system.all[e]
              new == [old EXCEPT !.grade = @ + bump]
              own == comp[cell[e]]
              Bumped(where) == IF old.salary = 0 THEN [where EXCEPT !.grades = @ + bump]
                               ELSE Paid(where, Key(e, old), Key(e, new))
          IN  Return([Bumped(system) EXCEPT !.all[e] = new],
                     [comp EXCEPT ![cell[e]] = [Bumped(own) EXCEPT !.ht[e] = new]],
                     cell, "SUCCESS")

(* adjustCompanyID writes the cells of everybody in the merged table.      *)
adjustCompanyID(ht, target, new) ==
  [e \in DOMAIN cell |-> IF e \in DOMAIN ht /\ cell[e] = target THEN new ELSE cell[e]]

(* Mutation: the cells of the acquired keep the old company.               *)
AcquireWithoutCells(own, target, acquirer, trg) ==
  LET ht     == [e \in DOMAIN own.ht \cup DOMAIN target.ht |->
                   IF e \in DOMAIN own.ht THEN own.ht[e] ELSE target.ht[e]]
      merged == [ht |-> ht, tree |-> own.tree \cup target.tree,
                 emps |-> own.emps + target.emps, grades |-> own.grades + target.grades]
  IN  Return(system,
             [comp EXCEPT ![acquirer] = merged, ![trg].ht = << >>, ![trg].tree = {}],
             cell, "SUCCESS")

(* The trees, tables and totals of two companies become one's; the totals  *)
(* of the other stay behind in an object nobody finds any more.            *)
TakeOver(own, target, acquirer, trg) ==
  LET ht     == [e \in DOMAIN own.ht \cup DOMAIN target.ht |->
                   IF e \in DOMAIN own.ht THEN own.ht[e] ELSE target.ht[e]]
      merged == [ht |-> ht, tree |-> own.tree \cup target.tree,
                 emps |-> own.emps + target.emps, grades |-> own.grades + target.grades]
  IN  Return(system,
             [comp EXCEPT ![acquirer] = merged, ![trg].ht = << >>, ![trg].tree = {}],
             adjustCompanyID(ht, trg, acquirer), "SUCCESS")

(* The Company object that goes on is the one of the union's root.         *)
AcquireCompany(a, t, factor) ==
  /\ Acquire(a, t, factor)
  /\ IF Root(arr, a) = Root(arr, t)
     THEN Refuse("INVALID_INPUT")
     ELSE LET acquirer == Root(arr', a)
              trg == CHOOSE r \in {Root(arr, a), Root(arr, t)} : r # acquirer
          IN  IF comp[trg].ht = << >>
              THEN Return(system, comp, cell, "SUCCESS")
              ELSE TakeOver(comp[acquirer], comp[trg], acquirer, trg)

-----------------------------------------------------------------------------
SumGrades(S) == MapThenSumSet(LAMBDA k : k.grade, S)

(* SumOfBumpGradeBetweenTopWorkersByGroup of a tree.                       *)
SumOfTop(tree, m) ==
  SumGrades({k \in tree : Cardinality({j \in tree : \/ j.salary > k.salary
                                                    \/ j.salary = k.salary /\ j.id > k.id}) < m})

(* AverageBumpGradeBetweenSalaryByGroup: <<sum of grades, employees>>.     *)
AverageOf(where, lo, hi) ==
  LET in == {k \in where.tree : lo <= k.salary /\ k.salary <= hi}
  IN  <<SumGrades(in) + IF lo = 0 THEN where.grades ELSE 0,
        Cardinality(in) + IF lo = 0 THEN where.emps ELSE 0>>

-----------------------------------------------------------------------------
ComplexInit ==
  /\ Init
  /\ system = [all |-> << >>, tree |-> {}, emps |-> 0, grades |-> 0]
  /\ comp = [i \in Ids |-> [ht |-> << >>, tree |-> {}, emps |-> 0, grades |-> 0]]
  /\ cell = << >> /\ result = "NONE"

SalaryOf(e) == IF e \in DOMAIN system.all THEN system.all[e].salary ELSE 0
GradeOf(e)  == IF e \in DOMAIN system.all THEN system.all[e].grade ELSE 0

EmployeeCalls ==
  \E e \in Employees :
    \/ \E c \in Ids, grade \in 0 .. MaxGrade : AddEmployee(e, c, grade)
    \/ RemoveEmployee(e)
    \/ \E raise \in 1 .. MaxSalary - SalaryOf(e) : EmployeeSalaryIncrease(e, raise)
    \/ \E bump \in 1 .. MaxGrade - GradeOf(e) : PromoteEmployee(e, bump)

Acquisitions == \E a, t \in Ids, factor \in Factors : AcquireCompany(a, t, factor)

ComplexNext == EmployeeCalls \/ Acquisitions

ComplexSpec == ComplexInit /\ [][ComplexNext]_vars

-----------------------------------------------------------------------------
Roster(ht) == {Key(e, ht[e]) : e \in {d \in DOMAIN ht : ht[d].salary > 0}}

Unpaid(ht) == {d \in DOMAIN ht : ht[d].salary = 0}

(* A table, its tree and its totals describe the same employees.           *)
Agrees(ht, where) ==
  /\ where.tree = Roster(ht)
  /\ where.emps = Cardinality(Unpaid(ht))
  /\ where.grades = SumGrades({Key(e, ht[e]) : e \in Unpaid(ht)})

(* Every copy of an employee says the same, whoever acquired whom: the     *)
(* table, tree and totals of the system agree, and the company at the root *)
(* of each group holds exactly the employees whose cell names it.          *)
StructuresAgree ==
  /\ Agrees(system.all, system)
  /\ DOMAIN cell = DOMAIN system.all
  /\ \A e \in DOMAIN cell : is_root(arr, cell[e])
  /\ \A r \in Ids : is_root(arr, r) =>
       /\ comp[r].ht = [e \in {d \in DOMAIN cell : cell[d] = r} |-> system.all[e]]
       /\ Agrees(comp[r].ht, comp[r])

Registry == INSTANCE ComplexRegistry WITH
  value <- [i \in Ids |-> CompanyValue(arr, i)],
  worth <- [i \in Ids |-> arr[Root(arr, i)].union_value],
  group <- [i \in Ids |-> Group(arr, Root(arr, i))],
  employee <- [e \in DOMAIN cell |->
                 [group |-> Group(arr, cell[e]),
                  salary |-> system.all[e].salary, grade |-> system.all[e].grade]]

(* Tables, trees, totals, cells and forest together keep one registry of   *)
(* values and employees, and refuse what it refuses.                       *)
ImplementsRegistry == Registry!RegistrySpec

(* What the queries answer for a company is about the whole group it is    *)
(* in, paid or not.                                                        *)
AnswersAgree ==
  \A c \in Ids : \A lo \in 0 .. MaxSalary : \A hi \in lo .. MaxSalary :
    LET r     == Root(arr, c)
        asked == {e \in DOMAIN cell : /\ c \in Group(arr, cell[e])
                                      /\ lo <= system.all[e].salary
                                      /\ system.all[e].salary <= hi}
        keys  == {Key(e, system.all[e]) : e \in asked}
    IN  /\ AverageOf(comp[r], lo, hi) = <<SumGrades(keys), Cardinality(asked)>>
        /\ lo = 1 /\ hi = MaxSalary => SumOfTop(comp[r].tree, Cardinality(asked)) = SumGrades(keys)
=============================================================================
