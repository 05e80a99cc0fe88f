CONSTANTS
  t1 = t1
  t2 = t2
  r1 = r1
  r2 = r2
  v1 = v1
  v2 = v2
  NoThread = NoThread
  None = None
  Threads <- MCThreads
  Reals <- MCReals
  Views <- MCViews
  Collection1 = v1
  MaxHeld = 1
SPECIFICATION Spec
SYMMETRY Symmetry
INVARIANTS TypeOK LocksInOrder ReferencesAddUp OneListForAll
