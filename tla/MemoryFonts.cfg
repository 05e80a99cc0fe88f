CONSTANTS
  a1 = a1
  a2 = a2
  c1 = c1
  c2 = c2
  c3 = c3
  d1 = d1
  d2 = d2
  x1 = x1
  x2 = x2
  None = None
  Faces <- MCFaces
  Fonts <- MCFonts
  Digest <- MCDigest
  Files <- MCFiles
  MaxId = 2
  MaxStreams = 1
SYMMETRY Interchangeable
SPECIFICATION Spec
INVARIANTS TypeOK StreamsReadLiveBytes BytesHeldForAReader UsesCountFaces ReadsItsOwnFont KeyNamesItsFont
