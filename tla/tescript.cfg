CONSTANTS
  None = None
  Runs <- MCRuns
  Started <- MCStarted
  Script <- MCScript
  Group <- MCGroup
  GroupsOf <- MCGroupsOf
  Outcomes = {"true", "error"}
SPECIFICATION Spec
CHECK_DEADLOCK FALSE
INVARIANTS OneContinuation LocationsHold LockIsOwned RunsAsWritten
PROPERTIES ScriptsEnd ScreenUnlocks
