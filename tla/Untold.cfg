SPECIFICATION PhoneFairSpec
CONSTANTS
  Kinds = {"start"}
  Endings = {"timed_out"}
  PageSize = 5
  MaxUpdates = 1
  MaxFinished = 1
  MaxFaults = 0
PROPERTY EveryRunIsTold
