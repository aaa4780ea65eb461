CONSTANTS
  A = A
  B = B
  D = D
  x = x
  y = y
  Plain <- Letters
  Amp = Amp
  Bad = Bad
  Regular <- Names
  BadName <- NotNames
  Comment = Comment
  History = History
  Blank = Blank
  Continue = Continue
  None = None
  Headers <- Short
  Contacts <- ContactTexts
  LongString = 2
SPECIFICATION Spec
INVARIANT Wiped
