CONSTANTS
  t1 = t1
  t2 = t2
  x1 = x1
  x2 = x2
  s1 = s1
  o1 = o1
  o2 = o2
  o3 = o3
  None = None
  Threads <- MCThreads
  Axes <- MCAxes
  Sizes <- MCSizes
  Objects <- MCObjects
  FacesCap = 2
  InstancesCap = 1
  MaxAnalyses = 2
SYMMETRY Interchangeable
SPECIFICATION Spec
INVARIANTS TypeOK ReadsTheFaceItAskedFor EveryReferenceIsHeld AnswersTheKey
