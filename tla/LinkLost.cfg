SPECIFICATION Spec
CONSTANTS
  N = 3
  Outside = Outside
  Ranks = {1, 2}
  Decompositions <- MCDecompositions
  Documents <- MCDocuments
CHECK_DEADLOCK FALSE
INVARIANT InputsAwaited
