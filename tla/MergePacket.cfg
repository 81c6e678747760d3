SPECIFICATION Spec
CONSTANTS
  Graphs <- MCGraphs
  Mergers = {m1, m2}
INVARIANTS TypeOK NullDominates AllChangesMerged MajorWins Agreement LeafWritesKept
PROPERTIES Termination Advances
CHECK_DEADLOCK FALSE
