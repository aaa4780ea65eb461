CONSTANTS
  A = A
  B = B
  D = D
  x = x
  y = y
  Plain <- Letters
  Amp = Amp
  Bad = Bad
  Regular <- Names
  BadName <- NotNames
  Comment = Comment
  History = History
  Blank = Blank
  Continue = Continue
  None = None
  Headers <- Long
  Contacts <- ContactTexts
  LongString = 2
SPECIFICATION Spec
INVARIANT CardsKept
INVARIANT InPlace
INVARIANT WellFormed
INVARIANT RefusedForCause
