SPECIFICATION Spec
CONSTANTS
  Nodes <- MCNodes
  Requests = {r1, r2}
  Calls <- MCCalls
  Values <- MCValues
  Reruns <- MCReruns
  MaxMoves = 3
  PanelCalls = 1
  Overlap = FALSE
  None = None
  n1 = n1
  n2 = n2
  v = v
  w = w
CHECK_DEADLOCK FALSE
SYMMETRY Interchangeable
INVARIANTS StoriesInOrder EndsRecorded DraftsKept
