CONSTANTS
  s1 = s1
  s2 = s2
  None = None
  Callers = {s1, s2, closer}
  Statements = {s1, s2}
  Closer = closer
  Sections <- MCSections
  Bodies <- Requests
  Long = {"open"}
  Replies <- ReplyType
  Cases <- MCCases
  MaxRows = 1
  Undecodable = {"open", "continue"}
SPECIFICATION Spec
CHECK_DEADLOCK FALSE
INVARIANT SectionIsFree
