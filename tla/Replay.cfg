SPECIFICATION PhoneSpec
CONSTANTS
  Kinds = {"run", "confirm"}
  Endings = {"done"}
  PageSize = 5
  MaxUpdates = 3
  MaxFinished = 0
  MaxFaults = 1
INVARIANT ConfirmedByOperator
