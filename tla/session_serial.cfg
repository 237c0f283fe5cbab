CONSTANTS
  r1 = r1  r2 = r2  i1 = i1  i2 = i2  i3 = i3  i4 = i4
  NoId = NoId
  NoSession = NoSession
  Requests = {r1}
  Names = {d1, d2}
  AutoConnect = {d2}
  Ids = {i1, i2, i3}
  Kinds = {"connect", "disconnect", "remove", "check", "use", "logout"}
  SignonTimeout = FALSE
  IdleLimit = 1
  MaxTime = 3
  Overlapping = {}
SPECIFICATION Spec
INVARIANTS TypeOK DisconnectSticks LogonSticks
