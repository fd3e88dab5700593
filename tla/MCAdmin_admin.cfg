SPECIFICATION A_FairSpec
CONSTANTS
  t1 = t1  t2 = t2  w1 = w1  w2 = w2
  alice = alice  root = root  p1 = p1  p2 = p2
  None = None
  Tokens = {t1}
  Workers = {w1}
  Names = {alice, root}
  Passwords = {p1, p2}
  TTL = 0
  MaxTime = 0
  UseBearer = FALSE
  Methods <- AllMethods
  Paths <- AllPaths
  Handlers <- AllHandlers
  RulePaths <- AllRulePaths
  SeedUsers <- AdminAndAlice
  Requests <- AdminRequests
  AppRoutes <- AdminPrivate
  AppPrefixes <- NoRules
  AppRules <- PageRules
  LateRoutes <- None_
  LatePrefixes <- None_
  LateRoles <- None_
  LateRules <- LatePages
INVARIANTS
  HistoryTypeOK
  AnswersTrue
  MostSpecificDecides
PROPERTIES
  EveryRequestAnswered
  IsPolicyMap
