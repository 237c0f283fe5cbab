CONSTANTS
  r1 = r1  r2 = r2  i1 = i1  i2 = i2  i3 = i3  i4 = i4
  NoId = NoId
  NoSession = NoSession
  Requests = {r1, r2}
  Names = {d1}
  AutoConnect = {}
  Ids = {i1, i2, i3, i4}
  Kinds = {"connect", "disconnect", "check"}
  SignonTimeout = TRUE
  IdleLimit = 0
  MaxTime = 0
  Overlapping = {"check"}
SPECIFICATION Spec
INVARIANTS DisconnectSticks
SYMMETRY Symmetric
