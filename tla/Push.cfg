SPECIFICATION Spec
CONSTANTS
  s1 = s1  s2 = s2
  u1 = u1  u2 = u2
  n1 = n1
  e1 = e1  e2 = e2
  p1 = p1  p2 = p2
  None = None
  Sessions <- TwoSessions
  Owner <- OwnersOfTwo
  Users <- TwoUsers
  Notes <- OneNote
  Recipient <- ForTheFirst
  Endpoints <- TwoEndpoints
  Requests <- TwoRequests
  MaxRows = 2
SYMMETRY Symmetry
INVARIANTS HangsOnSession KeepsAnEndpoint
\* Every session has ended and every endpoint has been dropped.
CHECK_DEADLOCK FALSE
