SPECIFICATION H_Spec
CONSTANTS
  t1 = t1  t2 = t2  w1 = w1  w2 = w2
  alice = alice  root = root  p1 = p1  p2 = p2
  None = None
  Tokens = {t1}
  Workers = {w1}
  Names = {alice}
  Passwords = {p1}
  TTL = 0
  MaxTime = 1
  UseBearer = FALSE
  Methods <- AllMethods
  Paths <- AllPaths
  Handlers <- AllHandlers
  RulePaths <- AllRulePaths
  SeedUsers <- OneUser
  Requests <- ConfigRequests
  AppRoutes <- AdminPrivate
  AppPrefixes <- NoRules
  AppRules <- PageRules
  LateRoutes <- OtherPrivate
  LatePrefixes <- ProtectedOnly
  LateRoles <- CheckRoles
  LateRules <- LateSecret
INVARIANTS
  DecisionJustified
  RoleFitsHandler
