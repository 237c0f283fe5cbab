CONSTANTS
  MaxStatements = 2
  Results <- MCResults
  ConditionLists <- MCConditionLists
  NoConditions = NoConditions
  Vendors = {"drda", "mysql", "postgres", "sqlite"}
SPECIFICATION Spec
CHECK_DEADLOCK FALSE
INVARIANTS RolledBackOnAnyError
