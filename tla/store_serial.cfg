CONSTANTS
  d1 = d1  d2 = d2  old = old  c1 = c1  c2 = c2
  NoEntry = NoEntry
  NoInode = NoInode
  Truncated = Truncated
  Garbled = Garbled
  Descriptions = {d1, d2}
  Initial <- MCInitial
  Details = {old, new}
  Callers = {c1}
  Inodes  = {i1, i2, i3}
  Overlap = FALSE
SPECIFICATION Spec
INVARIANTS TypeOK NeverBroken AdministratorPasswordKept
PROPERTIES RepliesAreTrue ImplementsSavedConnections StoreNeverVanishes
