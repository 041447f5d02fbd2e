--------------------------- MODULE CompanyRegistry ---------------------------
(***************************************************************************)
(* What the company manager of library1.cpp promises: companies with a     *)
(* value, employees with a company, a salary and a grade.                  *)
(***************************************************************************)
EXTENDS Integers

CONSTANTS Companies, Employees, Values, Increases, Salaries, Factors, MaxValue, MaxSalary, MaxGrade

VARIABLES value,     \* company -> value
          employee,  \* employee -> [company, salary, grade]
          result

vars == <<value, employee, result>>

Without(f, x) == [y \in DOMAIN f \ {x} |-> f[y]]

With(f, x, v) == [y \in DOMAIN f \cup {x} |-> IF y = x THEN v ELSE f[y]]

Init == value = << >> /\ employee = << >> /\ result = "SUCCESS"

Done    == result' = "SUCCESS"
Refused == result' = "FAILURE" /\ UNCHANGED <<value, employee>>

Staffed(c) == \E e \in DOMAIN employee : employee[e].company = c

AddCompany(c, v) ==
  /\ c \notin DOMAIN value
  /\ value' = With(value, c, v)
  /\ Done /\ UNCHANGED employee

RemoveCompany(c) ==
  /\ c \in DOMAIN value /\ ~ Staffed(c)
  /\ value' = Without(value, c)
  /\ Done /\ UNCHANGED employee

AddEmployee(e, c, s, g) ==
  /\ e \notin DOMAIN employee /\ c \in DOMAIN value
  /\ employee' = With(employee, e, [company |-> c, salary |-> s, grade |-> g])
  /\ Done /\ UNCHANGED value

RemoveEmployee(e) ==
  /\ e \in DOMAIN employee
  /\ employee' = Without(employee, e)
  /\ Done /\ UNCHANGED value

IncreaseCompanyValue(c, v) ==
  /\ c \in DOMAIN value
  /\ value' = [value EXCEPT ![c] = @ + v]
  /\ Done /\ UNCHANGED employee

PromoteEmployee(e, s, bump) ==
  /\ e \in DOMAIN employee
  /\ employee' = [employee EXCEPT ![e].salary = @ + s, ![e].grade = @ + bump]
  /\ Done /\ UNCHANGED value

HireEmployee(e, c) ==
  /\ e \in DOMAIN employee /\ c \in DOMAIN value /\ employee[e].company # c
  /\ employee' = [employee EXCEPT ![e].company = c]
  /\ Done /\ UNCHANGED value

(* factor is counted in halves.                                            *)
AcquireCompany(a, t, factor) ==
  /\ a # t /\ {a, t} \subseteq DOMAIN value
  /\ value[a] >= 10 * value[t]
  /\ value' = Without([value EXCEPT ![a] = ((@ + value[t]) * factor) \div 2], t)
  /\ employee' = [e \in DOMAIN employee |->
                    IF employee[e].company = t THEN [employee[e] EXCEPT !.company = a]
                    ELSE employee[e]]
  /\ Done

Next ==
  \/ \E c \in Companies : \/ \E v \in Values : AddCompany(c, v)
                          \/ \E v \in Increases : IncreaseCompanyValue(c, v)
                          \/ RemoveCompany(c)
  \/ \E e \in Employees :
       \/ \E c \in Companies : \/ HireEmployee(e, c)
                               \/ \E s \in Salaries, g \in 0 .. MaxGrade : AddEmployee(e, c, s, g)
       \/ \E s \in Salaries, bump \in 0 .. 1 : PromoteEmployee(e, s, bump)
       \/ RemoveEmployee(e)
  \/ \E a, t \in Companies, f \in Factors : AcquireCompany(a, t, f)
  \/ Refused

Spec == Init /\ [][Next]_vars
=============================================================================
