SPECIFICATION Spec
CONSTANTS
  a1 = a1  a2 = a2
  e1 = e1  e2 = e2
  h1 = h1  h2 = h2
  None = None
  Accounts <- TwoAccounts
  Editors <- TwoEditors
  Shells <- TwoShells
  SignupFirst = TRUE
  Forms <- ThreeForms
  MaxEdits = 2
  MaxAtWork = 2
SYMMETRY Symmetry
INVARIANTS BornAudited TrailTells
PROPERTY OnlyStaleSavesLockOut
\* All accounts exist and have had all their edits.
CHECK_DEADLOCK FALSE
