CONSTANTS
  Questions = {q1, q2}
  Adapter <- MCAdapter
  None = None
  MaxTime = 6
  SharedBlocks = TRUE
SPECIFICATION Spec
INVARIANT DisputesJoin
\* Every question ends resolved, and the blocks run out.
CHECK_DEADLOCK FALSE
