SPECIFICATION Spec
CONSTANTS
  Graphs <- MCFour
  Mergers = {m1}
INVARIANT AllChangesMerged
CHECK_DEADLOCK FALSE
