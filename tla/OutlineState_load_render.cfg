CONSTANTS
  f1 = f1
  f2 = f2
  o1 = o1
  o2 = o2
  g1 = g1
  g2 = g2
  b1 = b1
  b2 = b2
  b3 = b3
  None = None
  Faces <- MCFaces
  Outlines <- MCOutlines
  Glyphs <- MCGlyphs
  Reshapes <- MCReshapes
  Buffers <- MCBuffers
  ShiftsCap = 1
  OwnersCap = 1
SPECIFICATION Spec
PROPERTY LoadRenderTakesDelta
