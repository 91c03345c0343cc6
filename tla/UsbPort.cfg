SPECIFICATION FairSpec
CONSTANTS
  Order <- OneMedium
  Folder <- ItsFolder
  MaxSize = 2
  Capacity = 2
INVARIANTS
  NothingLeaks
  NeverMixed
  SessionSurvives
  DataIsComplete
  StopIsFinal
PROPERTY CommandEnds
