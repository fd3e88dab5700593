----------------------------- MODULE RouteTable -----------------------------
(***************************************************************************)
(* The router's tables and its lookup (src/Router.cpp).  routes is the     *)
(* std::map of exact routes, prefix_routes the vector consulted when no    *)
(* exact route matches.  Each operator is one critical section of the      *)
(* router's shared_mutex.                                                  *)
(***************************************************************************)
EXTENDS Vocabulary, SequencesExt

CONSTANTS
  Methods,     \* HTTP verbs
  Paths,       \* request paths and route keys, sequences of pieces
  Handlers     \* what a handler may be

Route == [handler : Handlers, min_role : OptionalRole]
PrefixRoute == [method : Methods, prefix : Paths, handler : Handlers, min_role : OptionalRole]

ASSUME RouteAssumption ==
  /\ None \notin Route
  /\ Paths \subseteq Seq(STRING)

VARIABLES
  routes,          \* <<method, path>> -> Route, on the keys present
  prefix_routes    \* PrefixRoute entries in insertion order

RT_vars == <<routes, prefix_routes>>

RT_TypeOK ==
  /\ DOMAIN routes \subseteq Methods \X Paths
  /\ routes \in [DOMAIN routes -> Route]
  /\ prefix_routes \in Seq(PrefixRoute)

\* add_route(): insert or replace handler and role together.
add_route(method, path, handler, min_role) ==
  /\ routes' = [key \in DOMAIN routes \cup {<<method, path>>} |->
                  IF key = <<method, path>>
                    THEN [handler |-> handler, min_role |-> min_role]
                    ELSE routes[key]]
  /\ UNCHANGED prefix_routes

\* add_prefix_route(): replace the entry of this (method, prefix), or append.
add_prefix_route(method, prefix, handler, min_role) ==
  LET i == SelectInSeq(prefix_routes,
             LAMBDA r : r.method = method /\ r.prefix = prefix)
      new == [method |-> method, prefix |-> prefix,
              handler |-> handler, min_role |-> min_role]
  IN /\ prefix_routes' = IF i = 0 THEN Append(prefix_routes, new)
                                  ELSE [prefix_routes EXCEPT ![i] = new]
     /\ UNCHANGED routes

\* set_route_role(): every method registered at exactly this path.  Prefix
\* routes keep theirs.
set_route_role(path, min_role) ==
  /\ routes' = [key \in DOMAIN routes |->
                  IF key[2] = path
                    THEN [routes[key] EXCEPT !.min_role = min_role]
                    ELSE routes[key]]
  /\ UNCHANGED prefix_routes

\* The locked part of dispatch(): the exact route, else the longest matching
\* prefix route (the first one registered among equals), else None.
lookup(method, path) ==
  LET match == {i \in DOMAIN prefix_routes :
                  /\ prefix_routes[i].method = method
                  /\ IsPrefix(prefix_routes[i].prefix, path)}
      longest == {i \in match : \A j \in match :
                    Len(prefix_routes[j].prefix) <= Len(prefix_routes[i].prefix)}
      first == prefix_routes[CHOOSE i \in longest : \A j \in longest : i <= j]
  IN IF <<method, path>> \in DOMAIN routes THEN routes[<<method, path>>]
     ELSE IF match = {} THEN None
     ELSE [handler |-> first.handler, min_role |-> first.min_role]

=============================================================================
