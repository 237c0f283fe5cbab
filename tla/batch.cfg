CONSTANTS
  MaxStatements = 3
  Results <- MCResults
  ConditionLists <- MCConditionLists
  NoConditions = NoConditions
  Vendors = {"drda", "mysql", "postgres", "sqlite"}
SPECIFICATION Spec
CHECK_DEADLOCK FALSE
INVARIANTS TypeOK SuccessIsDurable FailureLeavesNothing
PROPERTIES ImplementsUnitOfWork
