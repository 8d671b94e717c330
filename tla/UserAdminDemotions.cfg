SPECIFICATION Spec
CONSTANTS
  a1 = a1  a2 = a2
  e1 = e1  e2 = e2
  h1 = h1  h2 = h2
  None = None
  Accounts <- TwoAccounts
  Editors <- TwoEditors
  Shells <- OneShell
  SignupFirst = FALSE
  Forms <- ThreeForms
  MaxEdits = 2
  MaxAtWork = 2
SYMMETRY Symmetry
INVARIANT NotLockedOut
\* All accounts exist and have had all their edits.
CHECK_DEADLOCK FALSE
