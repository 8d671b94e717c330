SPECIFICATION Spec
CONSTANTS
  c0 = c0  c1 = c1  c2 = c2
  b1 = b1  f1 = f1  d1 = d1  d2 = d2
  None = None
  Backend <- OneBackend
  Frontend <- OneFrontend
  Docs <- OneDoc
  Contents <- TwoContents
  Original = c0
  SharedEdits = FALSE
  CommitsAnyTime = TRUE
  ProbeFails = FALSE
INVARIANT DeployTakesEffect
