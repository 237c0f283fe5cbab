CONSTANTS
  r1 = r1  r2 = r2  i1 = i1  i2 = i2  i3 = i3  i4 = i4
  NoId = NoId
  NoSession = NoSession
  Requests = {r1, r2}
  Names = {d1}
  AutoConnect = {}
  Ids = {i1, i2, i3, i4}
  Kinds = {"connect", "disconnect", "check", "use"}
  SignonTimeout = FALSE
  IdleLimit = 1
  MaxTime = 2
  Overlapping = {"connect", "disconnect", "check", "use"}
SPECIFICATION Spec
PROPERTIES IdleSessionServesNothing
SYMMETRY Symmetric
