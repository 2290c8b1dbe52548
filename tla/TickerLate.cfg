CONSTANTS
  HalfBuffer = 4
  MaxPattern = 2
  Period <- DividingPeriod
  MaxLag = 3
  Punctual = FALSE
  Blank = Blank

SPECIFICATION Spec

INVARIANTS
  RestartClean
  WholeFrames

PROPERTY Resumes
