CONSTANTS
  p1 = p1
  p2 = p2
  f1 = f1
  f2 = f2
  old = old
  NoFile = NoFile
  Proc = {p1}
  File = {f1}
  Jobs <- JobsLone
  Before <- BeforeOne
  Cap = 2
  Faults = {"encode", "open", "write"}
SPECIFICATION Spec
INVARIANT PrintedIsWhole
