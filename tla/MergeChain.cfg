SPECIFICATION Spec
CONSTANTS
  Graphs <- MCChain
  Mergers = {m1}
INVARIANT AllChangesMerged
CHECK_DEADLOCK FALSE
