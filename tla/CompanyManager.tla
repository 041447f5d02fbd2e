--------------------------- MODULE CompanyManager ----------------------------
(***************************************************************************)
(* library1.cpp: every employee is kept four times, in the system's id     *)
(* tree and salary tree and in the two trees of its company, each with its *)
(* own copy of salary and grade; the copies share one companyID cell.  A   *)
(* company's value is kept twice, in companies and, while it has           *)
(* employees, in settledCompanies.  A tree is taken for the set module     *)
(* AvlTree is shown to implement; calls with invalid arguments and failed  *)
(* allocations are left out.                                               *)
(***************************************************************************)
EXTENDS Integers, Sequences, FiniteSets, SequencesExt

CONSTANTS Companies, Employees, Values, Increases, Salaries,
          Factors,   \* of AcquireCompany, in halves
          MaxValue, MaxSalary, MaxGrade  \* bounds of the explored calls

ManagerAssumption ==
  /\ Companies \cup Employees \cup Values \cup Increases \cup Salaries \subseteq Nat \ {0}
  /\ Factors \subseteq Nat /\ \A f \in Factors : f >= 2

VARIABLES system,  \* the trees of System
          result   \* what the last call returned

vars == <<system, result>>

Without(f, x) == [y \in DOMAIN f \ {x} |-> f[y]]

With(f, x, v) == [y \in DOMAIN f \cup {x} |-> IF y = x THEN v ELSE f[y]]

(* The data of an employee in an id tree, and its key in a salary tree.    *)
Employee(salary, grade) == [salary |-> salary, grade |-> grade]

Key(e, emp) == [id |-> e, salary |-> emp.salary, grade |-> emp.grade]

Company(v) == [value |-> v, idTree |-> << >>, salaryTree |-> {}]

Success(s) == [system |-> s, result |-> "SUCCESS"]
Failure(s) == [system |-> s, result |-> "FAILURE"]

-----------------------------------------------------------------------------
AddCompany(s, c, v) ==
  IF c \in DOMAIN s.companies THEN Failure(s)
  ELSE Success([s EXCEPT !.companies = With(@, c, v)])

(* The company becomes settled with its first employee.                    *)
AddEmployee(s, e, c, emp) ==
  IF e \in DOMAIN s.idTree \/ (c \notin DOMAIN s.settled /\ c \notin DOMAIN s.companies)
  THEN Failure(s)
  ELSE LET comp == IF c \in DOMAIN s.settled THEN s.settled[c]
                   ELSE Company(s.companies[c])
       IN  Success([s EXCEPT
             !.settled = With(@, c, [comp EXCEPT !.idTree = With(@, e, emp),
                                                 !.salaryTree = @ \cup {Key(e, emp)}]),
             !.idTree = With(@, e, emp),
             !.salaryTree = @ \cup {Key(e, emp)},
             !.companyID = With(@, e, c)])

RemoveCompany(s, c) ==
  IF c \notin DOMAIN s.companies \/ c \in DOMAIN s.settled THEN Failure(s)
  ELSE Success([s EXCEPT !.companies = Without(@, c)])

(* The key sought in the salary trees is made of the id tree's copy; the   *)
(* call stops with FAILURE at the tree that does not hold it.              *)
RemoveEmployee(s, e) ==
  IF e \notin DOMAIN s.idTree THEN Failure(s)
  ELSE LET key  == Key(e, s.idTree[e])
           c    == s.companyID[e]
           s1   == [s EXCEPT !.idTree = Without(@, e)]
           s2   == [s1 EXCEPT !.salaryTree = @ \ {key}]
           s3   == [s2 EXCEPT !.settled[c].idTree = Without(@, e)]
           s4   == [s3 EXCEPT !.settled[c].salaryTree = @ \ {key}]
           last == DOMAIN s4.settled[c].idTree = {}
           s5   == IF last THEN [s4 EXCEPT !.settled = Without(@, c)] ELSE s4
       IN  IF key \notin s.salaryTree THEN Failure(s1)
           ELSE IF e \notin DOMAIN s.settled[c].idTree THEN Failure(s2)
           ELSE IF key \notin s.settled[c].salaryTree THEN Failure(s3)
           ELSE Success([s5 EXCEPT !.companyID = Without(@, e)])

IncreaseCompanyValue(s, c, v) ==
  IF c \notin DOMAIN s.companies THEN Failure(s)
  ELSE LET new == s.companies[c] + v
           s1  == [s EXCEPT !.companies[c] = new]
       IN  Success(IF c \in DOMAIN s.settled THEN [s1 EXCEPT !.settled[c].value = new]
                   ELSE s1)

(* The id trees' copies are changed in place, the salary trees' keys are   *)
(* removed and inserted.                                                   *)
PromoteEmployee(s, e, raise, bump) ==
  IF e \notin DOMAIN s.idTree THEN Failure(s)
  ELSE LET old == s.idTree[e]
           new == Employee(old.salary + raise, old.grade + bump)
           c   == s.companyID[e]
           s1  == [s EXCEPT !.idTree[e] = new]
           s2  == [s1 EXCEPT !.salaryTree = (@ \ {Key(e, old)}) \cup {Key(e, new)}]
           s3  == [s2 EXCEPT !.settled[c].salaryTree =
                                (@ \ {Key(e, old)}) \cup {Key(e, new)}]
           own == s3.settled[c].idTree[e]
       IN  IF Key(e, old) \notin s.salaryTree THEN Failure(s1)
           ELSE IF Key(e, old) \notin s.settled[c].salaryTree THEN Failure(s2)
           ELSE Success([s3 EXCEPT !.settled[c].idTree[e] =
                                      Employee(own.salary + raise, new.grade)])

(* RemoveEmployee, then AddEmployee with the salary and grade read before. *)
HireEmployee(s, e, c) ==
  IF e \notin DOMAIN s.idTree \/ c \notin DOMAIN s.companies \/ s.companyID[e] = c
  THEN Failure(s)
  ELSE LET removed == RemoveEmployee(s, e)
       IN  IF removed.result # "SUCCESS" THEN removed
           ELSE AddEmployee(removed.system, e, c, s.idTree[e])

(* mergeCompanies: the acquirer's trees are replaced by merged copies.     *)
mergeCompanies(comp, target, v) ==
  [value |-> v,
   salaryTree |-> comp.salaryTree \cup target.salaryTree,
   idTree |-> [e \in DOMAIN comp.idTree \cup DOMAIN target.idTree |->
                 IF e \in DOMAIN comp.idTree THEN comp.idTree[e] ELSE target.idTree[e]]]

(* adjustCompanyID writes through the cells the copies share.              *)
adjustCompanyID(cells, idTree, target, new) ==
  [e \in DOMAIN cells |-> IF e \in DOMAIN idTree /\ cells[e] = target THEN new ELSE cells[e]]

AcquireCompany(s, a, t, factor) ==
  IF ~ {a, t} \subseteq DOMAIN s.companies THEN Failure(s)
  ELSE IF s.companies[a] < 10 * s.companies[t] THEN Failure(s)
  ELSE LET new    == ((s.companies[a] + s.companies[t]) * factor) \div 2
           own    == IF a \in DOMAIN s.settled THEN s.settled[a] ELSE Company(new)
           merged == mergeCompanies(own, s.settled[t], new)
           valued == [s EXCEPT !.companies = Without([@ EXCEPT ![a] = new], t)]
       IN  Success(IF t \in DOMAIN s.settled
                   THEN [valued EXCEPT
                           !.settled = Without(With(@, a, merged), t),
                           !.companyID = adjustCompanyID(@, merged.idTree, t, a)]
                   ELSE IF a \in DOMAIN s.settled
                   THEN [valued EXCEPT !.settled[a].value = new]
                   ELSE valued)

-----------------------------------------------------------------------------
(* The order of class Employee: by salary, and the smaller id is greater.  *)
LessEarner(e1, e2) == e1.salary < e2.salary \/ (e1.salary = e2.salary /\ e1.id > e2.id)

getMaxNode(tree) == CHOOSE e \in tree : \A d \in tree : d = e \/ LessEarner(d, e)

GetHighestEarner(s, c) == getMaxNode(s.settled[c].salaryTree).id

(* inOrderAssist and the reversal in place.                                *)
GetAllEmployeesBySalary(tree) ==
  LET sorted == SetToSortSeq(tree, LessEarner)
  IN  Reverse([i \in 1 .. Len(sorted) |-> sorted[i].id])

(* The settled companies with the smallest ids, in their order.            *)
GetHighestEarnerInEachCompany(s, n) ==
  LET ids == SetToSortSeq(DOMAIN s.settled, LAMBDA c1, c2 : c1 < c2)
  IN  [i \in 1 .. n |-> GetHighestEarner(s, ids[i])]

GetNumEmployeesMatching(idTree, lo, hi, minSalary, minGrade) ==
  LET in == {e \in DOMAIN idTree : lo <= e /\ e <= hi}
  IN  <<Cardinality(in), Cardinality({e \in in : /\ idTree[e].salary >= minSalary
                                                 /\ idTree[e].grade >= minGrade})>>

-----------------------------------------------------------------------------
Init ==
  /\ system = [companies |-> << >>, settled |-> << >>, idTree |-> << >>,
               salaryTree |-> {}, companyID |-> << >>]
  /\ result = "SUCCESS"

Return(outcome) == system' = outcome.system /\ result' = outcome.result

Worth(c) == IF c \in DOMAIN system.companies THEN system.companies[c] ELSE 0

CompanyCalls ==
  \E c \in Companies :
    \/ \E v \in Values : Return(AddCompany(system, c, v))
    \/ Return(RemoveCompany(system, c))
    \/ \E v \in Increases : Worth(c) + v <= MaxValue /\ Return(IncreaseCompanyValue(system, c, v))

EmployeeCalls ==
  \E e \in Employees :
    \/ \E c \in Companies, salary \in Salaries, grade \in 0 .. MaxGrade :
         Return(AddEmployee(system, e, c, Employee(salary, grade)))
    \/ Return(RemoveEmployee(system, e))
    \/ \E raise \in Salaries, bump \in 0 .. 1 :
         /\ e \in DOMAIN system.idTree => /\ system.idTree[e].salary + raise <= MaxSalary
                                          /\ system.idTree[e].grade + bump <= MaxGrade
         /\ Return(PromoteEmployee(system, e, raise, bump))
    \/ \E c \in Companies : Return(HireEmployee(system, e, c))

Acquisitions ==
  \E a, t \in Companies, f \in Factors :
    /\ a # t
    /\ (Worth(a) + Worth(t)) * f <= 2 * MaxValue
    /\ Return(AcquireCompany(system, a, t, f))

Next == CompanyCalls \/ EmployeeCalls \/ Acquisitions

Spec == Init /\ [][Next]_vars

-----------------------------------------------------------------------------
Roster(idTree) == {Key(e, idTree[e]) : e \in DOMAIN idTree}

Staff(c) == {e \in DOMAIN system.idTree : system.companyID[e] = c}

(* The four copies of every employee and the two of every value agree: the *)
(* salary trees hold the id trees' employees, a company is settled exactly *)
(* while somebody's cell names it, and its trees hold exactly those.       *)
StructuresAgree ==
  /\ system.salaryTree = Roster(system.idTree)
  /\ DOMAIN system.companyID = DOMAIN system.idTree
  /\ DOMAIN system.settled = {system.companyID[e] : e \in DOMAIN system.idTree}
  /\ DOMAIN system.settled \subseteq DOMAIN system.companies
  /\ \A c \in DOMAIN system.settled : LET comp == system.settled[c] IN
       /\ comp.value = system.companies[c]
       /\ comp.idTree = [e \in Staff(c) |-> system.idTree[e]]
       /\ comp.salaryTree = Roster(comp.idTree)

Pay(e) == system.idTree[e].salary

(* What the queries read in a company's own trees is what the system's id  *)
(* tree and the companyID cells say of its staff: nobody of it earns more  *)
(* than the employee GetHighestEarner names, or as much with a smaller id, *)
(* and the counts are of its staff.                                        *)
HighestAgrees(c) ==
  LET best == GetHighestEarner(system, c)
  IN  /\ best \in Staff(c)
      /\ \A e \in Staff(c) \ {best} :
           Pay(e) < Pay(best) \/ (Pay(e) = Pay(best) /\ best < e)

NumbersAgree(c) ==
  \A lo, hi \in Employees, m \in Salaries, g \in 0 .. MaxGrade :
    LET in == {e \in Staff(c) : lo <= e /\ e <= hi}
    IN  GetNumEmployeesMatching(system.settled[c].idTree, lo, hi, m, g)
          = <<Cardinality(in),
              Cardinality({e \in in : Pay(e) >= m /\ system.idTree[e].grade >= g})>>

EarnersAgree == \A c \in DOMAIN system.settled : HighestAgrees(c) /\ NumbersAgree(c)

(* The same of the lists: a company's employees by falling salary, and the *)
(* highest earners of the first n companies in the order of those.         *)
ListsAgree ==
  /\ \A c \in DOMAIN system.settled :
       LET order == GetAllEmployeesBySalary(system.settled[c].salaryTree)
       IN  /\ {order[i] : i \in DOMAIN order} = Staff(c)
           /\ Len(order) = Cardinality(Staff(c))
           /\ \A i, j \in DOMAIN order : i < j =>
                Pay(order[i]) > Pay(order[j])
                  \/ (Pay(order[i]) = Pay(order[j]) /\ order[i] < order[j])
           /\ order[1] = GetHighestEarner(system, c)
  /\ \A n \in 1 .. Cardinality(DOMAIN system.settled) :
       LET earners == GetHighestEarnerInEachCompany(system, n)
       IN  \A i, j \in 1 .. n : i < j =>
             system.companyID[earners[i]] < system.companyID[earners[j]]

AnswersAgree == EarnersAgree /\ ListsAgree

Registry == INSTANCE CompanyRegistry WITH
  value <- system.companies,
  employee <- [e \in DOMAIN system.idTree |->
                 [company |-> system.companyID[e],
                  salary |-> system.idTree[e].salary, grade |-> system.idTree[e].grade]]

(* Through all the copies the program keeps one registry: each call        *)
(* changes what it promises, or is refused and changes nothing.            *)
ImplementsRegistry == Registry!Spec
=============================================================================
