CONSTANTS
  d1 = d1  d2 = d2  old = old  c1 = c1  c2 = c2
  NoEntry = NoEntry
  NoInode = NoInode
  Truncated = Truncated
  Garbled = Garbled
  Descriptions = {d1, d2}
  Initial <- MCInitial
  Details = {old}
  Callers = {c1, c2}
  Inodes  = {i1, i2, i3}
  Overlap = TRUE
SPECIFICATION Spec
INVARIANTS NeverBroken
SYMMETRY Symmetric
