SPECIFICATION ModelsSpec
CONSTANTS
  Plans <- MCPlans
  Timeout = 2
  LlmPlans <- MCLlmPlans
  Items <- MCItems
  MaxAttempts = 2
  MaxRounds = 1
  MaxRuns = 3
  Interval = 1
  Delay = 1
  None = None
  TypeTags <- MCTypeTags
  Scripts <- MCScripts
  Libraries <- MCLibraries
  Default = "default"
  Within <- MCWithin
  Limit = 2
  Absent = Absent
  g1 = g1
  g2 = g2
  p1 = p1
  p2 = p2
  u1 = u1
  i1 = i1
  i2 = i2
CHECK_DEADLOCK FALSE
INVARIANTS ModelsTypeOK ImagesComplete TimeoutIsLate
INVARIANTS ReviewFits ResultsComplete
INVARIANTS BestMatch
PROPERTIES CallsEnd
