SPECIFICATION Spec
CONSTANTS
  p1 = p1  p2 = p2  p3 = p3
  r1 = r1  r2 = r2
  c1 = c1  c2 = c2
  n1 = n1  n2 = n2  n3 = n3
  None = None
  Upload = Upload
  Procs <- ThreeProcs
  Rows <- TwoRows
  Cols <- OneCol
  Vals <- OneVal
  Names <- TwoNames
  Kinds <- AllKinds
  Skippers <- NoSkipper
  Meetings = TRUE
  MaxVersion = 1
SYMMETRY Symmetry
INVARIANT LiveFilesOnDisk
CHECK_DEADLOCK FALSE
