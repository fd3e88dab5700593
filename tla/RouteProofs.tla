---------------------------- MODULE RouteProofs ----------------------------
(***************************************************************************)
(* An application handler runs for nobody but callers that satisfy a role  *)
(* registered together with it, and what administrators manage is changed  *)
(* by nobody else: the theorems, for every set of workers, tokens, users,  *)
(* requests and routes.                                                    *)
(*                                                                         *)
(* Both rest on what dispatch() copies under its one lock: the copy is a   *)
(* route the table held during this very request (Fits), and what it holds *)
(* was registered, with that role or one set since (lookup returns no      *)
(* other: LookupHolds).  That a management handler keeps its role is not   *)
(* the engine's doing alone: set_api_role() takes any path.                *)
(*                                                                         *)
(* At the end, what the proofs about rules rest on: no two rules of the    *)
(* list have the same prefix (OnePerPrefix), which set() and remove() keep *)
(* and nothing else touches.                                               *)
(***************************************************************************)
EXTENDS EngineProofs, WellFoundedInduction, SequenceTheorems, FiniteSetTheorems

-----------------------------------------------------------------------------
(* The first and the last of a set of places. *)

Below == {pair \in Nat \X Nat : pair[1] < pair[2]}

LEMMA BelowIsWellFounded == IsWellFoundedOn(Below, Nat)
BY NatLessThanWellFounded DEF OpToRel, Below

LEMMA LeastOf ==
  ASSUME NEW S \in SUBSET Nat, S # {}
  PROVE  \E m \in S : \A n \in S : m <= n
<1>1. PICK m \in S : \A n \in S : ~(<<n, m>> \in Below)
  BY BelowIsWellFounded, WFMin
<1>2. ASSUME NEW n \in S PROVE m <= n
  <2>1. m \in Nat /\ n \in Nat
    OBVIOUS
  <2>2. ~(<<n, m>> \in Below)
    BY <1>1
  <2>3. ~(n < m)
    BY <2>1, <2>2 DEF Below
  <2> QED BY <2>1, <2>3
<1> QED BY <1>2

LEMMA GreatestOf ==
  ASSUME NEW S \in SUBSET Nat, S # {}, NEW bound \in Nat, \A n \in S : n <= bound
  PROVE  \E m \in S : \A n \in S : n <= m
<1> DEFINE distances == {bound - n : n \in S}
<1>1. distances \in SUBSET Nat /\ distances # {}
  <2>1. \A n \in S : bound - n \in Nat
    OBVIOUS
  <2> QED BY <2>1
<1>2. PICK d \in distances : \A e \in distances : d <= e
  <2> HIDE DEF distances
  <2> QED BY <1>1, LeastOf
<1>3. PICK m \in S : d = bound - m
  OBVIOUS
<1>4. ASSUME NEW n \in S PROVE n <= m
  <2>1. d <= bound - n
    BY <1>2
  <2> QED BY <1>3, <2>1
<1> QED BY <1>4

\* SelectInSeq and SelectLastInSeq end on these.
LEMMA MinIsLeast ==
  ASSUME NEW S \in SUBSET Nat, S # {}
  PROVE  Min(S) \in S /\ \A n \in S : Min(S) <= n
<1>1. \E m \in S : \A n \in S : m <= n
  BY LeastOf
<1> QED BY <1>1 DEF Min

\* Among places with lengths, the longest have a first one.
LEMMA LongestHasFirst ==
  ASSUME NEW places \in SUBSET Nat, places # {}, NEW length \in [places -> Nat],
         NEW bound \in Nat, \A i \in places : length[i] <= bound,
         NEW longest, longest = {i \in places : \A j \in places : length[j] <= length[i]}
  PROVE  \E first \in longest : \A j \in longest : first <= j
<1> DEFINE lengths == {length[i] : i \in places}
<1>1. PICK m \in lengths : \A n \in lengths : n <= m
  <2>1. lengths \in SUBSET Nat /\ lengths # {} /\ \A n \in lengths : n <= bound
    OBVIOUS
  <2> HIDE DEF lengths
  <2> QED BY <2>1, GreatestOf
<1>2. PICK i \in places : m = length[i]
  OBVIOUS
<1>3. \A j \in places : length[j] \in lengths
  OBVIOUS
<1>4. i \in longest
  <2> HIDE DEF lengths
  <2> QED BY <1>1, <1>2, <1>3
<1> QED BY <1>4, LeastOf

-----------------------------------------------------------------------------
(* The router's lookup. *)

\* The path of a request is a path.
LEMMA PathIsSequence ==
  ASSUME NEW target \in Paths
  PROVE  path_of(target) \in Seq(STRING)
<1> DEFINE marks == {i \in 1..Len(target) : target[i] = "?"}
           q == SelectInSeq(target, LAMBDA piece : piece = "?")
<1>1. target \in Seq(STRING)
  BY RouteAssumption
<1>2. q = IF marks # {} THEN Min(marks) ELSE 0
  BY Zenon DEF SelectInSeq
<1>3. CASE marks = {}
  BY <1>1, <1>2, <1>3 DEF path_of
<1>4. CASE marks # {}
  <2>1. marks \in SUBSET Nat /\ q = Min(marks)
    BY <1>1, <1>2, <1>4
  <2>2. q \in marks
    <3> HIDE DEF q, marks
    <3> QED BY <1>4, <2>1, MinIsLeast
  <2>3. q \in 1..Len(target)
    BY <2>2
  <2>4. path_of(target) = SubSeq(target, 1, q - 1)
    <3>1. q # 0
      BY <2>3
    <3> QED BY <3>1 DEF path_of
  <2> HIDE DEF q
  <2> QED BY <1>1, <2>3, <2>4, SubSeqProperties
<1> QED BY <1>3, <1>4

\* dispatch() finds no route, an exact one, or the handler and role of one of the
\* prefix routes.
LEMMA LookupHolds ==
  ASSUME RT_TypeOK, NEW method, NEW path \in Seq(STRING)
  PROVE  \/ lookup(method, path) = None
         \/ \E key \in DOMAIN routes : lookup(method, path) = routes[key]
         \/ \E i \in DOMAIN prefix_routes :
              lookup(method, path) = [handler |-> prefix_routes[i].handler,
                                      min_role |-> prefix_routes[i].min_role]
<1> DEFINE match == {i \in DOMAIN prefix_routes :
                       /\ prefix_routes[i].method = method
                       /\ IsPrefix(prefix_routes[i].prefix, path)}
           longest == {i \in match : \A j \in match :
                         Len(prefix_routes[j].prefix) <= Len(prefix_routes[i].prefix)}
           place == CHOOSE i \in longest : \A j \in longest : i <= j
<1>1. lookup(method, path) =
        IF <<method, path>> \in DOMAIN routes THEN routes[<<method, path>>]
        ELSE IF match = {} THEN None
        ELSE [handler |-> prefix_routes[place].handler,
              min_role |-> prefix_routes[place].min_role]
  BY DEF lookup
<1>2. ASSUME match # {} PROVE place \in DOMAIN prefix_routes
  <2> DEFINE length == [i \in match |-> Len(prefix_routes[i].prefix)]
  <2>1. match \in SUBSET Nat /\ match \subseteq DOMAIN prefix_routes
    BY DEF RT_TypeOK
  <2>2. \A i \in match : length[i] \in Nat /\ length[i] <= Len(path)
    <3> SUFFICES ASSUME NEW i \in match PROVE length[i] \in Nat /\ length[i] <= Len(path)
      OBVIOUS
    <3>1. prefix_routes[i] \in PrefixRoute
      BY DEF RT_TypeOK
    <3>2. prefix_routes[i].prefix \in Seq(STRING)
      BY <3>1, RouteAssumption DEF PrefixRoute
    <3> QED BY <3>2, LenProperties DEF IsPrefix
  <2>3. longest = {i \in match : \A j \in match : length[j] <= length[i]}
    OBVIOUS
  <2>4. length \in [match -> Nat] /\ Len(path) \in Nat
    BY <2>2, LenProperties
  <2> HIDE DEF match, length
  <2>5. \E first \in longest : \A j \in longest : first <= j
    <3> HIDE DEF longest
    <3> QED BY <1>2, <2>1, <2>2, <2>3, <2>4, LongestHasFirst
  <2>6. place \in longest
    <3> HIDE DEF longest
    <3> QED BY <2>5
  <2> QED BY <2>1, <2>6
<1> HIDE DEF match, place
<1> QED BY <1>1, <1>2

LEMMA LookupType ==
  ASSUME RT_TypeOK, NEW method, NEW path \in Seq(STRING)
  PROVE  lookup(method, path) \in Route \cup {None}
<1>1. \A key \in DOMAIN routes : routes[key] \in Route
  BY DEF RT_TypeOK
<1>2. \A i \in DOMAIN prefix_routes :
        [handler |-> prefix_routes[i].handler, min_role |-> prefix_routes[i].min_role] \in Route
  <2> SUFFICES ASSUME NEW i \in DOMAIN prefix_routes
               PROVE  [handler |-> prefix_routes[i].handler,
                       min_role |-> prefix_routes[i].min_role] \in Route
    OBVIOUS
  <2>1. prefix_routes[i] \in PrefixRoute
    BY DEF RT_TypeOK
  <2> QED BY <2>1 DEF PrefixRoute, Route
<1> QED BY <1>1, <1>2, LookupHolds

-----------------------------------------------------------------------------
(* The route a worker goes by. *)

Satisfied(w) ==
  \/ route[w].min_role = NoRole
  \/ entry[w] # None /\ role_satisfies(entry[w].role, route[w].min_role)

\* A copied route was held by the table during the request, and a handler runs only
\* for a caller who satisfies the copied role.
Fits(w) ==
  /\ pc[w] \in {"gate", "handle"} => route[w] \in seen[w].routes \ {None}
  /\ pc[w] = "handle" => Satisfied(w)

RouteInv ==
  /\ RT_TypeOK
  /\ route \in [Workers -> Route \cup {None}]
  /\ \A w \in Workers : Fits(w)

\* A worker whose route another step does not concern.
LEMMA StillFits ==
  ASSUME Inv, RouteInv, Observe, NEW v \in Workers,
         pc'[v] \in {"gate", "handle"} =>
           pc'[v] = pc[v] /\ req'[v] = req[v] /\ route'[v] = route[v] /\ entry'[v] = entry[v]
  PROVE  Fits(v)'
<1>1. CASE pc'[v] \notin {"gate", "handle"}
  BY <1>1 DEF Fits
<1>2. CASE pc'[v] \in {"gate", "handle"}
  <2>1. req'[v] # None
    BY <1>2 DEF Inv, Types
  <2>2. seen[v].routes \subseteq seen'[v].routes
    BY <2>1 DEF Observe
  <2> QED BY <1>2, <2>2 DEF RouteInv, Fits, Satisfied
<1> QED BY <1>1, <1>2

\* Steps of a worker, and of the application, that leave the routes alone and send
\* nobody on to a gate or a handler.
LEMMA ElsewhereStep ==
  ASSUME Inv, RouteInv, Observe, UNCHANGED RT_vars, route' \in [Workers -> Route \cup {None}],
         \A v \in Workers : pc'[v] \in {"gate", "handle"} =>
           pc'[v] = pc[v] /\ req'[v] = req[v] /\ route'[v] = route[v] /\ entry'[v] = entry[v]
  PROVE  RouteInv'
<1>1. RT_TypeOK'
  BY DEF RouteInv, RT_TypeOK, RT_vars
<1> QED BY <1>1, StillFits DEF RouteInv

LEMMA RouteLookup ==
  ASSUME Inv, RouteInv, Observe, NEW w \in Workers, Lookup(w)
  PROVE  RouteInv'
<1> DEFINE r == lookup(req[w].method, path_of(req[w].target))
<1>1. /\ UNCHANGED <<routes, prefix_routes, req, entry>> /\ pc[w] = "lookup"
      /\ \E stage \in Stage : pc' = [pc EXCEPT ![w] = stage]
  BY DEF Lookup, UNCHANGED_stores, UNCHANGED_request, RT_vars, answer, answer_with, goto, Stage
<1>2. req[w] # None /\ req[w].target \in Paths
  BY <1>1, EngineAssumption DEF Inv, Types, Request
<1>3. r \in Route \cup {None}
  BY <1>2, PathIsSequence, LookupType DEF RouteInv
<1>4. /\ \A v \in Workers \ {w} : pc'[v] = pc[v] /\ route'[v] = route[v]
      /\ route' \in [Workers -> Route \cup {None}]
  BY <1>1, <1>3 DEF Lookup, RouteInv, Inv, Types
<1>5. RT_TypeOK'
  BY <1>1 DEF RouteInv, RT_TypeOK
<1>6. r \in seen'[w].routes
  <2>1. route_of(w)' = r
    BY <1>1 DEF route_of, lookup
  <2> QED BY <1>1, <1>2, <2>1 DEF Observe
<1>7. Fits(w)'
  <2>1. CASE r = None
    BY <1>1, <2>1 DEF Lookup, answer, answer_with, goto, Fits, Inv, Types
  <2>2. CASE r # None
    <3>1. /\ route'[w] = r
          /\ pc'[w] = IF r.min_role = NoRole THEN "handle" ELSE "gate"
      BY <1>1, <2>2 DEF Lookup, goto, RouteInv, Inv, Types
    <3> HIDE DEF r
    <3> QED BY <1>6, <2>2, <3>1 DEF Fits, Satisfied
  <2> QED BY <2>1, <2>2
<1> QED BY <1>1, <1>4, <1>5, <1>7, StillFits DEF RouteInv

LEMMA RouteGate ==
  ASSUME Inv, RouteInv, Observe, NEW w \in Workers, Gate(w)
  PROVE  RouteInv'
<1>1. /\ UNCHANGED <<routes, prefix_routes, req, route>> /\ pc[w] = "gate"
      /\ \E stage \in Stage : pc' = [pc EXCEPT ![w] = stage]
      /\ \A v \in Workers \ {w} : entry'[v] = entry[v]
  BY DEF Gate, UNCHANGED_stores, UNCHANGED_request, RT_vars, answer, answer_with, goto, Stage,
         Inv, Types
<1>2. pc'[w] # "gate"
  BY <1>1 DEF Gate, answer, answer_with, goto, Inv, Types
<1>3. pc'[w] = "handle" => entry'[w] # None /\ role_satisfies(entry'[w].role, route[w].min_role)
  BY <1>1 DEF Gate, answer, answer_with, goto, Inv, Types
<1>4. Fits(w)'
  <2>1. seen[w].routes \subseteq seen'[w].routes
    BY <1>1 DEF Observe, Inv, Types
  <2> QED BY <1>1, <1>2, <1>3, <2>1 DEF RouteInv, Fits, Satisfied
<1>5. RT_TypeOK'
  BY <1>1 DEF RouteInv, RT_TypeOK
<1>6. \A v \in Workers \ {w} : pc'[v] = pc[v]
  BY <1>1 DEF Inv, Types
<1> QED BY <1>1, <1>4, <1>5, <1>6, StillFits DEF RouteInv

LEMMA RouteUnrecorded ==
  ASSUME Inv, RouteInv, Observe, NEW w \in Workers, Unrecorded(w)
  PROVE  RouteInv'
<1> USE DEF UNCHANGED_stores, UNCHANGED_request, UNCHANGED_copies, RT_vars,
            answer, answer_with, goto, only_answers, handling
<1>1. ASSUME UNCHANGED <<routes, prefix_routes, req>>,
             NEW stage \in Stage \ {"gate", "handle"}, pc' = [pc EXCEPT ![w] = stage],
             \A v \in Workers \ {w} : entry'[v] = entry[v],
             UNCHANGED route
      PROVE  RouteInv'
  BY <1>1, ElsewhereStep DEF RouteInv, Inv, Types
<1> USE DEF Stage
<1>2. CASE LoginFetch(w)
  BY <1>1, <1>2 DEF LoginFetch
<1>3. CASE Validate(w)
  <2>1. \A v \in Workers \ {w} : entry'[v] = entry[v]
    BY <1>3 DEF Validate, Inv, Types
  <2> QED BY <1>1, <1>3, <2>1 DEF Validate
<1>4. CASE Authorize(w)
  BY <1>1, <1>4 DEF Authorize
<1>5. CASE AdminAclList(w) \/ AdminUserList(w) \/ AdminAclSet(w) \/ AdminAclRemove(w) \/ AppHandler(w)
  BY <1>1, <1>5 DEF AdminAclList, AdminUserList, AdminAclSet, AdminAclRemove, AppHandler
<1>6. CASE AdminUserAdd(w)
  BY <1>1, <1>6 DEF AdminUserAdd
<1>7. CASE AdminUserRemove(w) \/ AdminUserRole(w)
  BY <1>1, <1>7 DEF AdminUserRemove, AdminUserRole
<1>8. CASE Deliver(w)
  <2>1. route' \in [Workers -> Route \cup {None}] /\ UNCHANGED RT_vars
    BY <1>8 DEF Deliver, RouteInv
  <2>2. \A v \in Workers : pc'[v] \in {"gate", "handle"} =>
          pc'[v] = pc[v] /\ req'[v] = req[v] /\ route'[v] = route[v] /\ entry'[v] = entry[v]
    BY <1>8 DEF Deliver, RouteInv, Inv, Types
  <2> QED BY <2>1, <2>2, ElsewhereStep
<1> QED BY <1>2, <1>3, <1>4, <1>5, <1>6, <1>7, <1>8, RouteLookup, RouteGate DEF Unrecorded

LEMMA GetIsMethod == "GET" \in Methods
<1>1. Call("GET", <<"/auth-check">>, "check", NoRole) \in AuthEndpoints
  BY DEF AuthEndpoints
<1> QED BY <1>1, EndpointAssumption DEF Call

\* What an application registers, or changes, stays a route.
LEMMA RouteConfigured ==
  ASSUME RT_TypeOK, Configure
  PROVE  RT_TypeOK'
<1>1. CASE AddApi
  <2>1. PICK c \in LateRoutes : add_route(c.method, c.path, c.handler, c.min_role)
    BY <1>1 DEF AddApi
  <2>2. /\ c.method \in Methods /\ c.path \in Paths
        /\ [handler |-> c.handler, min_role |-> c.min_role] \in Route
    BY EngineAssumption DEF RouteCall, Route
  <2>3. DOMAIN routes' = DOMAIN routes \cup {<<c.method, c.path>>}
    BY <2>1 DEF add_route
  <2>4. \A key \in DOMAIN routes' : routes'[key] \in Route
    BY <2>1, <2>2 DEF add_route, RT_TypeOK
  <2>5. routes' = [key \in DOMAIN routes' |-> routes'[key]]
    BY <2>1 DEF add_route
  <2> QED BY <2>1, <2>2, <2>3, <2>4, <2>5 DEF add_route, RT_TypeOK
<1>2. CASE ServeProtectedFiles
  <2>1. PICK prefix \in LatePrefixes : add_prefix_route("GET", prefix, "file", NoRole)
    BY <1>2 DEF ServeProtectedFiles
  <2> DEFINE new == [method |-> "GET", prefix |-> prefix, handler |-> "file", min_role |-> NoRole]
             i == SelectInSeq(prefix_routes, LAMBDA r : r.method = "GET" /\ r.prefix = prefix)
             places == {j \in 1..Len(prefix_routes) :
                          prefix_routes[j].method = "GET" /\ prefix_routes[j].prefix = prefix}
  <2>2. new \in PrefixRoute
    BY GetIsMethod, EngineAssumption
       DEF PrefixRoute, AppHandlers, EngineHandlers, OptionalRole
  <2>3. /\ UNCHANGED routes
        /\ prefix_routes' = IF i = 0 THEN Append(prefix_routes, new)
                            ELSE [prefix_routes EXCEPT ![i] = new]
    BY <2>1 DEF add_prefix_route
  <2>4. i \in {0} \cup 1..Len(prefix_routes)
    <3>1. i = IF places # {} THEN Min(places) ELSE 0
      BY Zenon DEF SelectInSeq
    <3>2. places \in SUBSET Nat /\ places \subseteq 1..Len(prefix_routes)
      BY DEF RT_TypeOK
    <3> HIDE DEF places
    <3> QED BY <3>1, <3>2, MinIsLeast
  <2> HIDE DEF new, i
  <2>5. prefix_routes' \in Seq(PrefixRoute)
    BY <2>2, <2>3, <2>4, ExceptSeq, AppendProperties DEF RT_TypeOK
  <2> QED BY <2>3, <2>5 DEF RT_TypeOK
<1>3. CASE SetApiRole
  <2>1. PICK c \in LateRoles : set_route_role(c[1], c[2])
    BY <1>3 DEF SetApiRole
  <2>2. c[2] \in OptionalRole
    BY EngineAssumption
  <2>3. DOMAIN routes' = DOMAIN routes /\ UNCHANGED prefix_routes
    BY <2>1 DEF set_route_role
  <2>4. \A key \in DOMAIN routes' : routes'[key] \in Route
    BY <2>1, <2>2 DEF set_route_role, RT_TypeOK, Route
  <2>5. routes' = [key \in DOMAIN routes' |-> routes'[key]]
    BY <2>1 DEF set_route_role
  <2> QED BY <2>3, <2>4, <2>5 DEF RT_TypeOK
<1>4. CASE \E r \in LateRules : ProtectPath(r) \/ UnprotectPath(r)
  BY <1>4 DEF ProtectPath, UnprotectPath, RT_vars, RT_TypeOK
<1> QED BY <1>1, <1>2, <1>3, <1>4 DEF Configure

LEMMA RouteNext ==
  ASSUME Inv, RouteInv, [H_Next]_hvars
  PROVE  RouteInv'
<1>1. ASSUME NEW w \in Workers, H_Begin(w) \/ H_LoginIssue(w) \/ H_Logout(w)
      PROVE  RouteInv'
  <2>1. Observe /\ UNCHANGED <<routes, prefix_routes, route, entry>>
    BY <1>1 DEF H_Begin, H_LoginIssue, H_Logout, Begin, LoginIssue, Logout,
                UNCHANGED_stores, UNCHANGED_copies, RT_vars, only_answers
  <2>2. \E stage \in Stage \ {"gate", "handle"} : pc' = [pc EXCEPT ![w] = stage]
    BY <1>1 DEF H_Begin, H_LoginIssue, H_Logout, Begin, LoginIssue, Logout,
                answer, answer_with, goto, Stage
  <2>3. \A v \in Workers \ {w} : req'[v] = req[v]
    BY <1>1 DEF H_Begin, H_LoginIssue, H_Logout, Begin, LoginIssue, Logout,
                UNCHANGED_request, only_answers, Inv, Types
  <2> QED BY <2>1, <2>2, <2>3, ElsewhereStep DEF RouteInv, RT_vars, Inv, Types
<1>2. ASSUME NEW w \in Workers, Unrecorded(w), Observe PROVE RouteInv'
  BY <1>2, RouteUnrecorded
<1>3. ASSUME Configure, Observe PROVE RouteInv'
  <2>1. UNCHANGED worker_vars
    BY <1>3 DEF Configure, AddApi, ServeProtectedFiles, SetApiRole, ProtectPath, UnprotectPath
  <2> QED BY <1>3, <2>1, RouteConfigured, StillFits DEF RouteInv, worker_vars
<1>4. ASSUME Clock, Observe PROVE RouteInv'
  BY <1>4, ElsewhereStep DEF Clock, worker_vars, RouteInv
<1>5. ASSUME UNCHANGED hvars PROVE RouteInv'
  BY <1>5 DEF hvars, vars, RouteInv, RT_TypeOK, Fits, Satisfied
<1> QED BY <1>1, <1>2, <1>3, <1>4, <1>5 DEF H_Next

\* Every route in the table the engine starts with is that of a call for its method and
\* path.
LEMMA StartTable ==
  ASSUME routes = RouteMap(StartRoutes)
  PROVE  /\ routes = [key \in DOMAIN routes |-> routes[key]]
         /\ \A key \in DOMAIN routes : \E c \in StartRoutes :
              /\ key = <<c.method, c.path>>
              /\ routes[key] = [handler |-> c.handler, min_role |-> c.min_role]
<1> DEFINE held(key) == CHOOSE c \in StartRoutes : <<c.method, c.path>> = key
           keys == {<<c.method, c.path>> : c \in StartRoutes}
<1>1. routes = [key \in keys |->
                  [handler |-> held(key).handler, min_role |-> held(key).min_role]]
  BY DEF RouteMap
<1>2. \A key \in keys : held(key) \in StartRoutes /\ key = <<held(key).method, held(key).path>>
  <2> SUFFICES ASSUME NEW key \in keys
               PROVE  held(key) \in StartRoutes /\ key = <<held(key).method, held(key).path>>
    OBVIOUS
  <2>1. \E c \in StartRoutes : <<c.method, c.path>> = key
    OBVIOUS
  <2> QED BY <2>1
<1> HIDE DEF held
<1> QED BY <1>1, <1>2

LEMMA StartTypes ==
  ASSUME NEW c \in StartRoutes
  PROVE  /\ c.method \in Methods /\ c.path \in Paths
         /\ [handler |-> c.handler, min_role |-> c.min_role] \in Route
<1>1. CASE c \in AppRoutes
  BY <1>1, EngineAssumption DEF RouteCall, Route
<1>2. CASE c \in AuthEndpoints \cup AdminEndpoints
  <2>1. c.handler \in EngineHandlers /\ c.min_role \in OptionalRole
    BY <1>2 DEF AuthEndpoints, AdminEndpoints, Call, EngineHandlers, OptionalRole, Role,
                Guest, Admin, NoRole
  <2> QED BY <1>2, <2>1, EndpointAssumption, EngineAssumption DEF Route
<1> QED BY <1>1, <1>2 DEF StartRoutes

LEMMA RouteInit == H_Init => RouteInv
<1> SUFFICES ASSUME H_Init PROVE RouteInv
  OBVIOUS
<1>1. routes = RouteMap(StartRoutes) /\ prefix_routes = AppPrefixes
  BY DEF H_Init, Init
<1>2. AppPrefixes \in Seq(PrefixRoute)
  <2>2. FileRoute \subseteq PrefixRoute
    BY GetIsMethod, EngineAssumption DEF FileRoute, PrefixRoute, EngineHandlers, OptionalRole
  <2> QED BY <2>2, EngineAssumption
<1>3. RT_TypeOK
  <2>1. /\ routes = [key \in DOMAIN routes |-> routes[key]]
        /\ \A key \in DOMAIN routes : \E c \in StartRoutes :
             /\ key = <<c.method, c.path>>
             /\ routes[key] = [handler |-> c.handler, min_role |-> c.min_role]
    BY <1>1, StartTable
  <2>2. \A key \in DOMAIN routes : key \in Methods \X Paths /\ routes[key] \in Route
    BY <2>1, StartTypes
  <2> QED BY <1>1, <1>2, <2>1, <2>2 DEF RT_TypeOK
<1>4. \A w \in Workers : Fits(w)
  BY DEF H_Init, Init, Fits
<1> QED BY <1>3, <1>4 DEF H_Init, Init, RouteInv

LEMMA RouteInvariant == H_Spec => []RouteInv
<1>1. Inv /\ RouteInv /\ [H_Next]_hvars => RouteInv'
  BY RouteNext
<1> QED BY <1>1, RouteInit, SessionInvariant, PTL DEF H_Spec

\* An application handler runs only for a caller who satisfies a role that the table
\* held together with that handler during the request, whatever is registered, replaced
\* or given another role meanwhile (Router::dispatch, add_route, set_route_role).
THEOREM RoleFitsHandlerAlways == H_Spec => []RoleFitsHandler
<1>1. RouteInv => RoleFitsHandler
  BY DEF RouteInv, Fits, Satisfied, RoleFitsHandler
<1> QED BY <1>1, RouteInvariant, PTL

-----------------------------------------------------------------------------
(* Who manages users and rules. *)

Managing == {"acl_set", "acl_remove", "user_add", "user_remove", "user_role"}

AdminPaths == {c.path : c \in AdminEndpoints}

\* The application does not itself give the path of a management endpoint another role.
ManagementIsLeft == \A c \in LateRoles : c[1] \in AdminPaths => c[2] = Admin

\* The handlers that manage are in the table, and copied out of it, with Admin only.
AdminInv ==
  /\ \A key \in DOMAIN routes :
       routes[key].handler \in Managing => routes[key].min_role = Admin /\ key[2] \in AdminPaths
  /\ \A i \in DOMAIN prefix_routes : prefix_routes[i].handler \notin Managing
  /\ \A w \in Workers :
       route[w] # None /\ route[w].handler \in Managing => route[w].min_role = Admin

LEMMA AdminLookup ==
  ASSUME Inv, RouteInv, AdminInv, NEW w \in Workers, Lookup(w)
  PROVE  AdminInv'
<1> DEFINE r == lookup(req[w].method, path_of(req[w].target))
<1>1. UNCHANGED <<routes, prefix_routes, req>> /\ pc[w] = "lookup"
  BY DEF Lookup, UNCHANGED_stores, UNCHANGED_request, RT_vars
<1>2. path_of(req[w].target) \in Seq(STRING)
  <2>1. req[w] # None /\ req[w].target \in Paths
    BY <1>1, EngineAssumption DEF Inv, Types, Request
  <2> QED BY <2>1, PathIsSequence
<1>3. r # None /\ r.handler \in Managing => r.min_role = Admin
  <2>1. \A key \in DOMAIN routes : routes[key].handler \in Managing => routes[key].min_role = Admin
    BY DEF AdminInv
  <2>2. \A i \in DOMAIN prefix_routes : prefix_routes[i].handler \notin Managing
    BY DEF AdminInv
  <2>3. RT_TypeOK
    BY DEF RouteInv
  <2> QED BY <1>2, <2>1, <2>2, <2>3, LookupHolds
<1>4. route' = route \/ (r # None /\ route' = [route EXCEPT ![w] = r])
  BY DEF Lookup
<1> HIDE DEF r
<1> QED BY <1>1, <1>3, <1>4 DEF AdminInv, RouteInv

LEMMA AdminConfigured ==
  ASSUME ManagementIsLeft, RT_TypeOK, AdminInv, Configure
  PROVE  AdminInv'
<1>0. UNCHANGED route
  BY DEF Configure, AddApi, ServeProtectedFiles, SetApiRole, ProtectPath, UnprotectPath, worker_vars
<1>1. CASE AddApi
  <2>1. PICK c \in LateRoutes : add_route(c.method, c.path, c.handler, c.min_role)
    BY <1>1 DEF AddApi
  <2>2. c.handler \notin Managing
    BY EngineAssumption DEF RouteCall, AppHandlers, Managing
  <2> QED BY <1>0, <2>1, <2>2 DEF add_route, AdminInv
<1>2. CASE ServeProtectedFiles
  <2>1. PICK prefix \in LatePrefixes : add_prefix_route("GET", prefix, "file", NoRole)
    BY <1>2 DEF ServeProtectedFiles
  <2> DEFINE new == [method |-> "GET", prefix |-> prefix, handler |-> "file", min_role |-> NoRole]
             i == SelectInSeq(prefix_routes, LAMBDA r : r.method = "GET" /\ r.prefix = prefix)
  <2>2. new.handler \notin Managing
    BY DEF Managing
  <2>3. /\ UNCHANGED routes
        /\ prefix_routes' = IF i = 0 THEN Append(prefix_routes, new)
                            ELSE [prefix_routes EXCEPT ![i] = new]
    BY <2>1 DEF add_prefix_route
  <2> HIDE DEF new, i
  <2>4. \A j \in DOMAIN prefix_routes' : prefix_routes'[j] = new \/
          (j \in DOMAIN prefix_routes /\ prefix_routes'[j] = prefix_routes[j])
    <3>1. CASE i = 0
      <4>1. prefix_routes \in Seq(PrefixRoute)
        BY DEF RT_TypeOK
      <4> QED BY <2>3, <3>1, <4>1
    <3>2. CASE i # 0
      BY <2>3, <3>2
    <3> QED BY <3>1, <3>2
  <2> QED BY <1>0, <2>2, <2>3, <2>4 DEF AdminInv
<1>3. CASE SetApiRole
  <2>1. PICK c \in LateRoles : set_route_role(c[1], c[2])
    BY <1>3 DEF SetApiRole
  <2>2. c[1] \in AdminPaths => c[2] = Admin
    BY DEF ManagementIsLeft
  <2>3. \A key \in DOMAIN routes : key \in Methods \X Paths /\ routes[key] \in Route
    BY DEF RT_TypeOK
  <2> QED BY <1>0, <2>1, <2>2, <2>3 DEF set_route_role, AdminInv, Route
<1>4. CASE \E r \in LateRules : ProtectPath(r) \/ UnprotectPath(r)
  BY <1>0, <1>4 DEF ProtectPath, UnprotectPath, RT_vars, AdminInv
<1> QED BY <1>1, <1>2, <1>3, <1>4 DEF Configure

LEMMA AdminNext ==
  ASSUME ManagementIsLeft, Inv, RouteInv, AdminInv, [H_Next]_hvars
  PROVE  AdminInv'
<1>1. ASSUME UNCHANGED <<routes, prefix_routes, route>> PROVE AdminInv'
  BY <1>1 DEF AdminInv
<1>2. ASSUME NEW w \in Workers, H_Begin(w) \/ H_LoginIssue(w) \/ H_Logout(w)
      PROVE  AdminInv'
  BY <1>1, <1>2 DEF H_Begin, H_LoginIssue, H_Logout, Begin, LoginIssue, Logout,
                    UNCHANGED_stores, UNCHANGED_copies, RT_vars, only_answers
<1>3. ASSUME NEW w \in Workers, Unrecorded(w) PROVE AdminInv'
  <2> USE DEF UNCHANGED_stores, UNCHANGED_copies, RT_vars, only_answers
  <2>1. CASE Gate(w) \/ LoginFetch(w) \/ Validate(w) \/ Authorize(w)
    BY <1>1, <2>1 DEF Gate, LoginFetch, Validate, Authorize
  <2>2. CASE \/ AdminAclList(w) \/ AdminUserList(w) \/ AdminAclSet(w) \/ AdminAclRemove(w) \/ AppHandler(w)
             \/ AdminUserAdd(w) \/ AdminUserRemove(w) \/ AdminUserRole(w)
    BY <1>1, <2>2 DEF AdminAclList, AdminUserList, AdminAclSet, AdminAclRemove, AppHandler,
                      AdminUserAdd, AdminUserRemove, AdminUserRole
  <2>3. CASE Deliver(w)
    BY <2>3 DEF Deliver, AdminInv, RouteInv
  <2> QED BY <1>3, <2>1, <2>2, <2>3, AdminLookup DEF Unrecorded
<1>4. ASSUME Configure PROVE AdminInv'
  BY <1>4, AdminConfigured DEF RouteInv
<1>5. ASSUME Clock \/ UNCHANGED hvars PROVE AdminInv'
  BY <1>1, <1>5 DEF Clock, RT_vars, worker_vars, hvars, vars
<1> QED BY <1>2, <1>3, <1>4, <1>5 DEF H_Next

LEMMA AdminInit == H_Init => AdminInv
<1> SUFFICES ASSUME H_Init PROVE AdminInv
  OBVIOUS
<1>1. \A c \in StartRoutes : c.handler \in Managing => c.min_role = Admin /\ c.path \in AdminPaths
  <2> SUFFICES ASSUME NEW c \in StartRoutes, c.handler \in Managing
               PROVE  c.min_role = Admin /\ c.path \in AdminPaths
    OBVIOUS
  <2>1. c \notin AppRoutes
    BY EngineAssumption DEF RouteCall, AppHandlers, Managing
  <2>2. c \notin AuthEndpoints
    BY DEF AuthEndpoints, Call, Managing
  <2>3. c \in AdminEndpoints
    BY <2>1, <2>2 DEF StartRoutes
  <2>4. c.min_role = Admin
    BY <2>3 DEF AdminEndpoints, Call
  <2> QED BY <2>3, <2>4 DEF AdminPaths
<1>2. \A key \in DOMAIN routes :
        routes[key].handler \in Managing => routes[key].min_role = Admin /\ key[2] \in AdminPaths
  BY <1>1, StartTable DEF H_Init, Init
<1>3. \A i \in DOMAIN prefix_routes : prefix_routes[i].handler \notin Managing
  <2>1. prefix_routes \in Seq(FileRoute)
    BY EngineAssumption DEF H_Init, Init
  <2>2. \A i \in DOMAIN prefix_routes : prefix_routes[i] \in FileRoute
    BY <2>1
  <2> QED BY <2>2 DEF FileRoute, Managing
<1> QED BY <1>2, <1>3 DEF H_Init, Init, AdminInv

\* A management handler that is at work works for an administrator.
LEMMA ManagerIsAdmin ==
  ASSUME Inv, RouteInv, AdminInv, NEW w \in Workers, pc[w] = "handle", route[w].handler \in Managing
  PROVE  entry[w] # None /\ entry[w].role = Admin /\ ~over[w]
<1>1. route[w] # None
  BY DEF RouteInv, Fits
<1>2. route[w].min_role = Admin
  BY <1>1 DEF AdminInv
<1>3. entry[w] # None /\ entry[w].role >= Admin
  BY <1>2 DEF RouteInv, Fits, Satisfied, Admin, NoRole, role_satisfies
<1>4. entry[w].role \in Role
  BY <1>3 DEF Inv, Types, TokenEntry
<1>5. ~over[w]
  BY <1>3 DEF Inv, SessionEndIsFinal
<1> QED BY <1>3, <1>4, <1>5 DEF Role, Admin, Guest

\* Users and rules are managed by administrators only, in a request of a session that
\* was good when it came in, as long as the application does not itself lower the role
\* of a management endpoint, which set_api_role() lets it do (enable_admin_endpoints,
\* Router::dispatch).
THEOREM OnlyAdminsManageAlways == ASSUME ManagementIsLeft PROVE H_Spec => OnlyAdminsManage
<1> DEFINE admins ==
      \E w \in Workers : pc'[w] # pc[w] /\ entry[w] # None
                         /\ entry[w].role = Admin /\ ~over[w]
<1>1. ASSUME Inv, RouteInv, AdminInv, H_Next
      PROVE  /\ users' # users => admins
             /\ entries' # entries => pc' = pc \/ admins
  <2>1. ASSUME NEW w \in Workers, H_Begin(w) \/ H_LoginIssue(w) \/ H_Logout(w)
        PROVE  UNCHANGED <<users, entries>>
    BY <2>1 DEF H_Begin, H_LoginIssue, H_Logout, Begin, LoginIssue, Logout, UNCHANGED_stores
  <2>2. ASSUME NEW w \in Workers,
               AdminUserAdd(w) \/ AdminUserRemove(w) \/ AdminUserRole(w)
                 \/ AdminAclSet(w) \/ AdminAclRemove(w)
        PROVE  admins
    <3>1. pc[w] = "handle" /\ route[w].handler \in Managing
      BY <2>2 DEF AdminUserAdd, AdminUserRemove, AdminUserRole, AdminAclSet, AdminAclRemove,
                  handling, Managing
    <3>2. pc'[w] = "respond"
      <4> USE DEF answer, answer_with, goto, Inv, Types
      <4>1. CASE AdminUserAdd(w)
        BY <1>1, <4>1 DEF AdminUserAdd
      <4>2. CASE AdminUserRemove(w) \/ AdminUserRole(w)
        BY <1>1, <4>2 DEF AdminUserRemove, AdminUserRole
      <4>3. CASE AdminAclSet(w) \/ AdminAclRemove(w)
        BY <1>1, <4>3 DEF AdminAclSet, AdminAclRemove
      <4> QED BY <2>2, <4>1, <4>2, <4>3
    <3> QED BY <1>1, <3>1, <3>2, ManagerIsAdmin
  <2>3. ASSUME NEW w \in Workers,
               Lookup(w) \/ Gate(w) \/ LoginFetch(w) \/ Validate(w) \/ Authorize(w)
                 \/ AdminAclList(w) \/ AdminUserList(w) \/ AppHandler(w) \/ Deliver(w)
        PROVE  UNCHANGED <<users, entries>>
    BY <2>3 DEF Lookup, Gate, LoginFetch, Validate, Authorize, AdminAclList, AdminUserList, AppHandler, Deliver,
                UNCHANGED_stores
  <2>4. ASSUME Configure \/ Clock PROVE UNCHANGED users /\ pc' = pc
    BY <2>4 DEF Configure, AddApi, ServeProtectedFiles, SetApiRole, ProtectPath, UnprotectPath,
                Clock, worker_vars
  <2> QED BY <1>1, <2>1, <2>2, <2>3, <2>4 DEF H_Next, Unrecorded
<1>2. ManagementIsLeft /\ Inv /\ RouteInv /\ AdminInv /\ [H_Next]_hvars => AdminInv'
  BY AdminNext
<1>3. Inv /\ RouteInv /\ AdminInv /\ [H_Next]_hvars =>
        [/\ users' # users => admins
         /\ entries' # entries => pc' = pc \/ admins]_hvars
  BY <1>1
<1> HIDE DEF ManagementIsLeft
<1> QED BY <1>2, <1>3, AdminInit, RouteInvariant, SessionInvariant, PTL
        DEF H_Spec, OnlyAdminsManage

-----------------------------------------------------------------------------
(* Lists of rules. *)

\* No two rules of a list have the same prefix.
OnePerPrefix(list) ==
  \A i, j \in DOMAIN list : list[i].path_prefix = list[j].path_prefix => i = j

RuleList(list) == list \in Seq(AclEntry) /\ OnePerPrefix(list)

LEMMA RuleTypes ==
  ASSUME NEW list \in Seq(AclEntry)
  PROVE  /\ DOMAIN list = 1..Len(list) /\ Len(list) \in Nat
         /\ \A i \in DOMAIN list :
              /\ list[i] \in AclEntry /\ list[i].path_prefix \in RulePaths /\ list[i].min_role \in Role
              /\ list[i].path_prefix \in Seq(STRING) /\ Len(list[i].path_prefix) \in Nat
<1>1. DOMAIN list = 1..Len(list) /\ Len(list) \in Nat /\ \A i \in DOMAIN list : list[i] \in AclEntry
  OBVIOUS
<1>2. \A e \in AclEntry : e.path_prefix \in RulePaths /\ e.min_role \in Role
  BY DEF AclEntry
<1>3. \A p \in RulePaths : p \in Seq(STRING) /\ Len(p) \in Nat
  BY PrefixAssumption, LenProperties
<1> QED BY <1>1, <1>2, <1>3

\* set() leaves one rule for the prefix, with the new role, and the other rules alone.
LEMMA SetRules ==
  ASSUME RuleList(entries), NEW p \in RulePaths, NEW r \in Role, acl_set(p, r)
  PROVE  /\ RuleList(entries')
         /\ \A i \in DOMAIN entries' :
              entries'[i].path_prefix = p => entries'[i].min_role = r
         /\ \E i \in DOMAIN entries' : entries'[i] = [path_prefix |-> p, min_role |-> r]
         /\ \A q \in RulePaths \ {p} : \A s :
              (\E i \in DOMAIN entries' : entries'[i].path_prefix = q /\ entries'[i].min_role = s)
                <=> \E i \in DOMAIN entries : entries[i].path_prefix = q /\ entries[i].min_role = s
<1> DEFINE places == {i \in 1..Len(entries) : entries[i].path_prefix = p}
           first == SelectInSeq(entries, LAMBDA e : e.path_prefix = p)
           new == [path_prefix |-> p, min_role |-> r]
<1>t. /\ entries \in Seq(AclEntry) /\ new \in AclEntry
      /\ new.path_prefix = p /\ new.min_role = r
      /\ DOMAIN entries = 1..Len(entries) /\ Len(entries) \in Nat
      /\ \A i \in DOMAIN entries : entries[i] \in AclEntry
      /\ OnePerPrefix(entries)
  <2>1. new \in AclEntry
    BY DEF AclEntry
  <2>2. entries \in Seq(AclEntry) /\ OnePerPrefix(entries)
    BY DEF RuleList
  <2> QED BY <2>1, <2>2, RuleTypes
<1>1. first = IF places # {} THEN Min(places) ELSE 0
  BY Zenon DEF SelectInSeq
<1>2. entries' = IF first = 0 THEN Append(entries, new) ELSE [entries EXCEPT ![first].min_role = r]
  BY DEF acl_set
<1> HIDE DEF first, new
<1>3. CASE places = {}
  <2>1. entries' = Append(entries, new)
    BY <1>1, <1>2, <1>3
  <2>2. \A i \in DOMAIN entries : entries[i].path_prefix # p
    BY <1>t, <1>3
  <2>3. /\ entries' \in Seq(AclEntry) /\ DOMAIN entries' = 1..(Len(entries) + 1)
        /\ entries'[Len(entries) + 1] = new
        /\ \A i \in DOMAIN entries : entries'[i] = entries[i]
    BY <1>t, <2>1, AppendProperties
  <2>4. DOMAIN entries' = DOMAIN entries \cup {Len(entries) + 1}
        /\ Len(entries) + 1 \notin DOMAIN entries
    BY <1>t, <2>3
  <2> QED BY <1>t, <2>2, <2>3, <2>4 DEF RuleList, OnePerPrefix, new
<1>4. CASE places # {}
  <2>1. first \in DOMAIN entries /\ entries[first].path_prefix = p
    <3>1. places \in SUBSET Nat
      BY <1>t
    <3>2. first \in places
      <4> HIDE DEF places
      <4> QED BY <1>1, <1>4, <3>1, MinIsLeast
    <3> QED BY <1>t, <3>2
  <2>2. entries' = [entries EXCEPT ![first].min_role = r]
    <3>1. first # 0
      BY <1>t, <2>1
    <3> QED BY <1>2, <3>1
  <2>3. [entries[first] EXCEPT !.min_role = r] = new
    BY <1>t, <2>1 DEF AclEntry, new
  <2>4. entries' = [entries EXCEPT ![first] = new]
    BY <2>2, <2>3
  <2>5. /\ entries' \in Seq(AclEntry) /\ DOMAIN entries' = DOMAIN entries
        /\ entries'[first] = new
        /\ \A i \in DOMAIN entries \ {first} : entries'[i] = entries[i]
    BY <1>t, <2>1, <2>4, ExceptSeq
  <2>6. \A i \in DOMAIN entries \ {first} : entries[i].path_prefix # p
    BY <1>t, <2>1 DEF OnePerPrefix
  <2>7. RuleList(entries')
    BY <1>t, <2>1, <2>5, <2>6 DEF RuleList, OnePerPrefix
  <2> QED BY <1>t, <2>1, <2>5, <2>6, <2>7 DEF new
<1> QED BY <1>3, <1>4

\* remove() leaves no rule for the prefix, and the other rules alone.
LEMMA RemoveRules ==
  ASSUME RuleList(entries), NEW p \in RulePaths, acl_remove(p)
  PROVE  /\ RuleList(entries')
         /\ \A i \in DOMAIN entries' : entries'[i].path_prefix # p
         /\ \A q \in RulePaths \ {p} : \A s :
              (\E i \in DOMAIN entries' : entries'[i].path_prefix = q /\ entries'[i].min_role = s)
                <=> \E i \in DOMAIN entries : entries[i].path_prefix = q /\ entries[i].min_role = s
<1> DEFINE kept == {i \in DOMAIN entries : entries[i].path_prefix # p}
           places == 1..Cardinality(kept)
<1>1. PICK order \in [places -> kept] :
        /\ \A m, n \in places : m < n => order[m] < order[n]
        /\ entries' = [n \in places |-> entries[order[n]]]
  BY DEF acl_remove
<1>2. /\ entries \in Seq(AclEntry) /\ DOMAIN entries = 1..Len(entries) /\ Len(entries) \in Nat
      /\ \A i \in DOMAIN entries : entries[i] \in AclEntry
      /\ OnePerPrefix(entries)
  BY DEF RuleList
<1>3. IsFiniteSet(kept) /\ Cardinality(kept) \in Nat /\ kept \subseteq 1..Len(entries)
  <2>1. IsFiniteSet(1..Len(entries)) /\ kept \in SUBSET (1..Len(entries))
    BY <1>2, FS_Interval
  <2> HIDE DEF kept
  <2> QED BY <2>1, FS_Subset, FS_CardinalityType
<1>4. \A m, n \in places : order[m] = order[n] => m = n
  <2> SUFFICES ASSUME NEW m \in places, NEW n \in places, m # n PROVE order[m] # order[n]
    OBVIOUS
  <2>1. m \in Nat /\ n \in Nat /\ order[m] \in kept /\ order[n] \in kept
    BY <1>1, <1>3
  <2>2. order[m] \in Nat /\ order[n] \in Nat
    BY <1>3, <2>1
  <2>3. m < n \/ n < m
    BY <2>1
  <2> QED BY <1>1, <2>2, <2>3
<1>5. \A i \in kept : \E n \in places : order[n] = i
  <2>1. order \in Injection(places, kept)
    <3> HIDE DEF kept, places
    <3> QED BY <1>1, <1>4 DEF Injection, IsInjective
  <2>2. Cardinality(places) = Cardinality(kept)
    <3> HIDE DEF kept
    <3> QED BY <1>3, FS_Interval
  <2>3. order \in Surjection(places, kept)
    <3> HIDE DEF kept, places
    <3> QED BY <1>3, <2>1, <2>2, FS_Injection
  <2> HIDE DEF kept, places
  <2> QED BY <2>3 DEF Surjection
<1>6. /\ DOMAIN entries' = places
      /\ \A n \in places : entries'[n] = entries[order[n]] /\ order[n] \in kept
  <2> HIDE DEF kept, places
  <2> QED BY <1>1
<1>7. entries' \in Seq(AclEntry)
  <2>1. \A n \in places : entries[order[n]] \in AclEntry
    BY <1>2, <1>6
  <2> HIDE DEF kept
  <2> QED BY <1>1, <1>3, <2>1
<1>8. \A i \in kept : i \in DOMAIN entries /\ entries[i].path_prefix # p
  OBVIOUS
<1>9. \A i \in DOMAIN entries : entries[i].path_prefix # p => i \in kept
  OBVIOUS
<1> HIDE DEF kept, places
<1>10. RuleList(entries')
  BY <1>2, <1>4, <1>6, <1>7, <1>8 DEF RuleList, OnePerPrefix
<1>11. ASSUME NEW q \in RulePaths \ {p}, NEW s
       PROVE  (\E i \in DOMAIN entries' : entries'[i].path_prefix = q /\ entries'[i].min_role = s)
                <=> \E i \in DOMAIN entries : entries[i].path_prefix = q /\ entries[i].min_role = s
  <2>1. ASSUME NEW i \in DOMAIN entries, entries[i].path_prefix = q, entries[i].min_role = s
        PROVE  \E n \in DOMAIN entries' : entries'[n].path_prefix = q /\ entries'[n].min_role = s
    <3>1. PICK n \in places : order[n] = i
      BY <1>5, <1>9, <2>1
    <3> QED BY <1>6, <2>1, <3>1
  <2>2. ASSUME NEW n \in DOMAIN entries', entries'[n].path_prefix = q, entries'[n].min_role = s
        PROVE  \E i \in DOMAIN entries : entries[i].path_prefix = q /\ entries[i].min_role = s
    BY <1>6, <1>8, <2>2
  <2> QED BY <2>1, <2>2
<1> QED BY <1>6, <1>8, <1>10, <1>11

\* Who changes the list: a management call or the application's.
LEMMA RulesChange ==
  ASSUME [Next]_vars
  PROVE  \/ UNCHANGED entries
         \/ \E w \in Workers : AdminAclSet(w) \/ AdminAclRemove(w)
         \/ \E r \in LateRules : ProtectPath(r) \/ UnprotectPath(r)
<1> USE DEF UNCHANGED_stores
<1>1. ASSUME NEW w \in Workers, Begin(w) \/ Lookup(w) \/ Gate(w) \/ Deliver(w)
      PROVE  UNCHANGED entries
  BY <1>1 DEF Begin, Lookup, Gate, Deliver
<1>2. ASSUME NEW w \in Workers, Handler(w)
      PROVE  UNCHANGED entries \/ AdminAclSet(w) \/ AdminAclRemove(w)
  BY <1>2 DEF Handler, LoginFetch, LoginIssue, Logout, Validate, Authorize, AdminAclList,
              AdminUserList, AppHandler, AdminUserAdd, AdminUserRemove, AdminUserRole
<1>3. ASSUME Configure \/ Clock
      PROVE  UNCHANGED entries \/ \E r \in LateRules : ProtectPath(r) \/ UnprotectPath(r)
  BY <1>3 DEF Configure, AddApi, ServeProtectedFiles, SetApiRole, Clock
<1>4. UNCHANGED vars => UNCHANGED entries
  BY DEF vars
<1> QED BY <1>1, <1>2, <1>3, <1>4 DEF Next, Serve

\* A worker that is not idle holds one of the requests.
RequestsHeld ==
  /\ pc \in [Workers -> Stage]
  /\ DOMAIN req = Workers /\ DOMAIN reply = Workers
  /\ \A w \in Workers : pc[w] # "idle" => req[w] \in Requests

RulesInv == RuleList(entries) /\ RequestsHeld

LEMMA RequestsStep ==
  ASSUME RequestsHeld, [Next]_vars
  PROVE  RequestsHeld'
<1> USE DEF RequestsHeld
<1>1. ASSUME NEW w \in Workers, Begin(w) PROVE RequestsHeld'
  BY <1>1 DEF Begin, goto, Stage
<1>2. ASSUME NEW w \in Workers, Lookup(w) \/ Gate(w) \/ Handler(w) PROVE RequestsHeld'
  <2>1. UNCHANGED req /\ pc[w] # "idle" /\ DOMAIN reply' = DOMAIN reply
        /\ \E stage \in Stage : pc' = [pc EXCEPT ![w] = stage]
    <3> USE DEF UNCHANGED_request, only_answers, answer, answer_with, goto, handling, Stage
    <3>1. CASE Lookup(w) \/ Gate(w)
      BY <3>1 DEF Lookup, Gate
    <3>2. CASE LoginFetch(w) \/ LoginIssue(w) \/ Logout(w)
      BY <3>2 DEF LoginFetch, LoginIssue, Logout
    <3>3. CASE Validate(w) \/ Authorize(w)
      BY <3>3 DEF Validate, Authorize
    <3>4. CASE AdminAclList(w) \/ AdminUserList(w) \/ AdminAclSet(w) \/ AdminAclRemove(w)
      BY <3>4 DEF AdminAclList, AdminUserList, AdminAclSet, AdminAclRemove
    <3>5. CASE AdminUserAdd(w) \/ AppHandler(w)
      BY <3>5 DEF AdminUserAdd, AppHandler
    <3>6. CASE AdminUserRemove(w) \/ AdminUserRole(w)
      BY <3>6 DEF AdminUserRemove, AdminUserRole
    <3> QED BY <1>2, <3>1, <3>2, <3>3, <3>4, <3>5, <3>6 DEF Handler
  <2> QED BY <2>1
<1>3. ASSUME NEW w \in Workers, Deliver(w) PROVE RequestsHeld'
  BY <1>3 DEF Deliver, goto, Stage
<1>4. ASSUME Configure \/ Clock \/ UNCHANGED vars PROVE RequestsHeld'
  BY <1>4 DEF Configure, AddApi, ServeProtectedFiles, SetApiRole, ProtectPath, UnprotectPath,
              Clock, worker_vars, vars
<1> QED BY <1>1, <1>2, <1>3, <1>4 DEF Next, Serve

LEMMA RulesNext ==
  ASSUME RulesInv, [Next]_vars
  PROVE  RulesInv'
<1>1. ASSUME NEW w \in Workers, AdminAclSet(w) \/ AdminAclRemove(w) PROVE RuleList(entries')
  <2>1. req[w] \in Request
    BY <1>1, EngineAssumption DEF RulesInv, RequestsHeld, AdminAclSet, AdminAclRemove, handling
  <2>2. /\ req[w].prefix # None => req[w].prefix \in RulePaths
        /\ req[w].role # NoRole => req[w].role \in Role
    BY <2>1 DEF Request, OptionalRole
  <2>3. ASSUME UNCHANGED entries PROVE RuleList(entries')
    BY <2>3 DEF RulesInv
  <2> QED BY <1>1, <2>2, <2>3, SetRules, RemoveRules DEF RulesInv, AdminAclSet, AdminAclRemove
<1>2. ASSUME NEW r \in LateRules, ProtectPath(r) \/ UnprotectPath(r) PROVE RuleList(entries')
  <2>1. r.path_prefix \in RulePaths /\ r.min_role \in Role
    BY EngineAssumption DEF AclEntry
  <2> QED BY <1>2, <2>1, SetRules, RemoveRules DEF RulesInv, ProtectPath, UnprotectPath
<1>3. UNCHANGED entries => RuleList(entries')
  BY DEF RulesInv
<1>4. RequestsHeld'
  BY RequestsStep DEF RulesInv
<1> QED BY <1>1, <1>2, <1>3, <1>4, RulesChange DEF RulesInv

LEMMA RulesInit == Init => RulesInv
<1>1. Init => RuleList(entries)
  BY EngineAssumption DEF Init, RuleList, OnePerPrefix
<1>2. Init => RequestsHeld
  BY DEF Init, RequestsHeld, Stage
<1> QED BY <1>1, <1>2 DEF RulesInv

\* The histories only watch.
LEMMA HistoryWatches ==
  ASSUME [H_Next]_hvars
  PROVE  [Next]_vars
BY DEF H_Next, H_Begin, H_LoginIssue, H_Logout, Unrecorded, hvars, Next, Serve, Handler

\* In the engine, with its histories, there is always at most one rule for a prefix.
LEMMA RulesInvariant == H_Spec => []RulesInv
<1>1. H_Init => RulesInv
  BY RulesInit DEF H_Init
<1>2. RulesInv /\ [H_Next]_hvars => RulesInv'
  BY HistoryWatches, RulesNext
<1> QED BY <1>1, <1>2, PTL DEF H_Spec

=============================================================================
