CONSTANTS
  p1 = p1
  p2 = p2
  p3 = p3
  old = old
  NoFile = NoFile
  Proc = {p1, p2}
  Older = {old}
  Existing <- New
  Orders = {FALSE}
  Faults = {}
SPECIFICATION Spec
INVARIANT Appends
