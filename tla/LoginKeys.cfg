SPECIFICATION FairSpec
CONSTANTS
  k1 = k1  k2 = k2
  p1 = p1  p2 = p2
  b1 = b1
  None = None
  MinLifetime = 2
  Keys <- TwoKeys
  Requests <- TwoRequests
  Browsers <- OneBrowser
  Lifetimes <- AskedFor
  MaxTime = 4
INVARIANTS LoggedInOnce SpentMeansLoggedIn
PROPERTIES ImplementsOneTimeKeys DeadlineKept RequestsReturn
\* Every key has been used or swept and the clock stands at its bound.
CHECK_DEADLOCK FALSE
