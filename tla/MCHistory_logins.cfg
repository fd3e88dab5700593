SPECIFICATION H_Spec
CONSTANTS
  t1 = t1  t2 = t2  w1 = w1  w2 = w2
  alice = alice  root = root  p1 = p1  p2 = p2
  None = None
  Tokens = {t1, t2}
  Workers = {w1, w2}
  Names = {alice, root}
  Passwords = {p1, p2}
  TTL = 0
  MaxTime = 0
  UseBearer = FALSE
  Methods <- AllMethods
  Paths <- AllPaths
  Handlers <- AllHandlers
  RulePaths <- AllRulePaths
  SeedUsers <- AdminAndAlice
  Requests <- LoginRequests
  AppRoutes <- None_
  AppPrefixes <- NoRules
  AppRules <- PageRules
  LateRoutes <- None_
  LatePrefixes <- None_
  LateRoles <- None_
  LateRules <- None_
SYMMETRY TokenSymmetry
INVARIANTS
  LoginFromOneRecord
  AnswersTrue
PROPERTIES
  OnlyAdminsManage
