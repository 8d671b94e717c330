SPECIFICATION Spec
CONSTANTS
  p1 = p1  p2 = p2  p3 = p3
  r1 = r1  r2 = r2
  c1 = c1  c2 = c2
  n1 = n1  n2 = n2  n3 = n3
  None = None
  Upload = Upload
  Procs <- ThreeProcs
  Rows <- OneRow
  Cols <- TwoCols
  Vals <- Binary
  Names <- NoNames
  Kinds <- Edits
  Skippers <- NoSkipper
  Meetings = TRUE
  MaxVersion = 3
SYMMETRY Symmetry
INVARIANTS AuditChain Erasure
PROPERTY ImplementsAuditedRows
\* The bound on versions ends a behaviour.
CHECK_DEADLOCK FALSE
