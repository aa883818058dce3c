SPECIFICATION FairSpec
CONSTANTS
  Submission = {s1}
  Refresh = {f1, f2}
  NoOrder = none
  MaxFaults = 1
  MaxDrops = 1
  MaxMoves = 1
CONSTRAINT MCOneFault
CHECK_DEADLOCK FALSE
INVARIANTS TypeOK RetriesMakeOneOrder ShownIsTrue LoadingHasCall
PROPERTIES OnlyOverlapGoesBack CallsEndOrAwaitBody
