CONSTANTS
  p1 = p1
  p2 = p2
  f1 = f1
  f2 = f2
  old = old
  NoFile = NoFile
  Proc = {p1, p2}
  File = {f1, f2}
  Jobs <- JobsTwo
  Before <- BeforeOne
  Cap = 2
  Faults = {"input", "encode", "open", "write", "close", "kill"}
SPECIFICATION Spec
INVARIANT Aligned
INVARIANT WholeOrToldSo
INVARIANT TailOnly
INVARIANT OldKept
