--------------------------- MODULE ComplexRegistry ----------------------------
(***************************************************************************)
(* What the companies complex of library2.cpp promises: the ledger of      *)
(* acquisitions, and employees who belong to a group of companies, start   *)
(* without salary and follow their group into the one that acquires it.    *)
(***************************************************************************)
EXTENDS AcquisitionLedger

CONSTANTS Employees, MaxSalary, MaxGrade

VARIABLES employee,  \* employee -> [group, salary, grade]
          result   \* of the last call, "NONE" before the first

registry == <<value, worth, group, employee, result>>

RegistryInit == Init /\ employee = << >> /\ result = "NONE"

AddEmployee(e, c, grade) ==
  /\ e \notin DOMAIN employee
  /\ employee' = [d \in DOMAIN employee \cup {e} |->
                    IF d = e THEN [group |-> group[c], salary |-> 0, grade |-> grade]
                    ELSE employee[d]]

RemoveEmployee(e) ==
  /\ e \in DOMAIN employee
  /\ employee' = [d \in DOMAIN employee \ {e} |-> employee[d]]

EmployeeSalaryIncrease(e, raise) ==
  /\ e \in DOMAIN employee
  /\ employee' = [employee EXCEPT ![e].salary = @ + raise]

PromoteEmployee(e, bump) ==
  /\ e \in DOMAIN employee
  /\ employee' = [employee EXCEPT ![e].grade = @ + bump]

AcquireCompany(a, t, factor) ==
  /\ Acquire(a, t, factor)
  /\ employee' = [e \in DOMAIN employee |->
                    IF employee[e].group \in {group[a], group[t]}
                    THEN [employee[e] EXCEPT !.group = group[a] \cup group[t]]
                    ELSE employee[e]]

Done == result' = "SUCCESS"

Refused(r) == result' = r /\ UNCHANGED <<vars, employee>>

EmployeeCalls ==
  \E e \in Employees :
    \/ RemoveEmployee(e)
    \/ \E raise \in 1 .. MaxSalary : EmployeeSalaryIncrease(e, raise)
    \/ \E bump \in 1 .. MaxGrade : PromoteEmployee(e, bump)
    \/ \E c \in Ids, grade \in 0 .. MaxGrade : AddEmployee(e, c, grade)

RegistryNext ==
  \/ \E r \in {"FAILURE", "INVALID_INPUT"} : Refused(r)
  \/ Done /\ UNCHANGED vars /\ EmployeeCalls
  \/ Done /\ \E a, t \in Ids, factor \in Factors : AcquireCompany(a, t, factor)

RegistrySpec == RegistryInit /\ [][RegistryNext]_registry
=============================================================================
