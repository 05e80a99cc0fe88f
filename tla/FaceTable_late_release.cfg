CONSTANTS
  t1 = t1
  t2 = t2
  f1 = f1
  f2 = f2
  l1 = l1
  l2 = l2
  Threads <- MCThreads
  Faces <- MCFaces
  Libs <- MCLibs
  MaxRefs = 2
SPECIFICATION Spec
PROPERTY LiveFaceKeepsEntry
