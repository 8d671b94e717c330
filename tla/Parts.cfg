SPECIFICATION Spec
CONSTANTS
  x = x  y = y  z = z
  None = None
  MaxRows = 3  MaxReseeds = 1  PageSize = 1  KindOf <- MixedKinds  AllKinds = z
  Slugs <- Two  Crons <- One  MaxSeeds = 3
  DefaultWindow = 2  LastTime = 3  MaxUploads = 3
  Creators <- Two  MaxTodos = 2
  Names <- Two  Contents <- OneTwo
  Errors <- Two  RateLimit = 2  WindowSecs = 2  LastSecond = 4  MaxHits = 4
  PerPage = 1  Orphans = 1  MaxRowIds = 3  MaxStamp = 2
  Classes <- OneTwoThree  Fns <- Two  MaxCalls = 2
  Paths <- Two  Texts <- OtherTwo  MaxEdits = 5
  Renders <- Two  MaxBuilds = 3
INVARIANTS
  NothingHidden ReadIsTrue NewestFirstOnce PagesHangTogether ToldOnlyOfTodos
  TestsRunOnTheirSchema WindowKeepsItsEnd AnsweredNotResent WalkMissesNothing
  DependenciesFirst ListedOpens PagesLoad
PROPERTIES PickKept ExpiryKept
\* Rows, clocks and edits run out.
CHECK_DEADLOCK FALSE
