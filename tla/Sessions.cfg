SPECIFICATION Spec
CONSTANTS
  u1 = u1  u2 = u2
  s1 = s1  s2 = s2
  p1 = p1  p2 = p2
  None = None
  Users <- TwoUsers
  Admins <- OneAdmin
  Sids <- TwoSids
  Requests <- TwoRequests
  Kinds <- AllKinds
  Disorder = TRUE
  Window = 4
  MaxTime = 9
SYMMETRY Symmetry
CONSTRAINT CrowdedEarly
INVARIANTS LagBounded HalfWindowGuaranteed DriftOnlyUndercounts
PROPERTIES EndedStaysEnded LogoutFindsSteady
\* All session keys are drawn and the clock stands at its bound.
CHECK_DEADLOCK FALSE
