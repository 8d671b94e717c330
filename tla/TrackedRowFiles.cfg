SPECIFICATION FairSpec
CONSTANTS
  p1 = p1  p2 = p2  p3 = p3
  r1 = r1  r2 = r2
  c1 = c1  c2 = c2
  n1 = n1  n2 = n2  n3 = n3
  None = None
  Upload = Upload
  Procs <- TwoProcs
  Rows <- TwoRows
  Cols <- OneCol
  Vals <- OneVal
  Names <- ThreeNames
  Kinds <- AllKinds
  Skippers <- NoSkipper
  Meetings = FALSE
  MaxVersion = 1
INVARIANTS TypeOK LiveFilesOnDisk OneOwnerPerFile NoOrphans
PROPERTY CallsReturn
\* Primary keys and versions are used up in the end.
CHECK_DEADLOCK FALSE
