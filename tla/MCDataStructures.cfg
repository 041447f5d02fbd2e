SPECIFICATION RunSpec
CONSTANTS
  NULL = NULL
  K = 4
  Factors = {1}
  Employees = {1, 2}
  MaxSalary = 2
  MaxGrade = 1
VIEW UpToNames
CHECK_DEADLOCK FALSE
INVARIANTS
  LinksAreSound
  QueriesAgree
  SizesAreRight
  StructuresAgree
  AnswersAgree
  BytesAreAccounted
PROPERTIES
  ImplementsContracts
  ImplementsRegistry
