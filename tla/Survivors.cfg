SPECIFICATION ExecutionSpec
CONSTANTS
 Windows = FALSE
 Offspring = {k1, k2}
CHECK_DEADLOCK FALSE
INVARIANT ProvenGone
