------------------------------- MODULE Engine -------------------------------
(***************************************************************************)
(* The request pipeline of the engine: worker threads that take requests   *)
(* through Router::dispatch (src/Router.cpp), the authentication handlers  *)
(* (src/AuthHandler.cpp) and the admin endpoints (src/WebEngine.cpp), over *)
(* the token store, the user store, the access list and the route table.   *)
(*                                                                         *)
(* A step of a worker is one critical section of one of those stores, so   *)
(* two workers interleave exactly where the code holds no lock.  What the  *)
(* code copies out of a store and uses after unlocking is a variable of    *)
(* the worker: route (handler and min_role), entry (the session entry),    *)
(* record (the user record a login verifies against).                      *)
(***************************************************************************)
EXTENDS TokenStore, UserStore, Acl, RouteTable

CONSTANTS
  Workers,      \* threads running the io_context
  Requests,     \* what clients ask, without their credentials
  UseBearer,    \* whether clients send Authorization headers, too
  AppRoutes,    \* routes the application registers before run()
  AppPrefixes,  \* prefix routes it registers before run(), in order
  AppRules,     \* the list its calls of protect_path() before run() leave
  LateRoutes,   \* routes it may register, or replace, while serving
  LatePrefixes, \* prefixes it may pass to serve_protected_files() while serving
  LateRoles,    \* <<path, min_role>> it may pass to set_api_role() while serving
  LateRules     \* rules it may set, or whose prefix it may unprotect, while serving

Request == [method : Methods,
            target : Paths,                         \* path, then "?" and the query
            uri : Paths \cup {None},                \* X-Original-URI
            username : Names \cup {None},           \* fields of the JSON body, None
            password : Passwords \cup {None},       \*   when absent, empty or not
            prefix : RulePaths \cup {None},         \*   parseable
            role : OptionalRole]

AppHandlers == {"app", "app2"}

EngineHandlers == {"login", "logout", "check", "file", "acl_list", "acl_set", "acl_remove",
                   "user_list", "user_add", "user_remove", "user_role"}

RouteCall == [method : Methods, path : Paths, handler : AppHandlers, min_role : OptionalRole]

\* What serve_protected_files() registers.
FileRoute == [method : {"GET"}, prefix : Paths, handler : {"file"}, min_role : {NoRole}]

ASSUME EngineAssumption ==
  /\ Requests \subseteq Request
  /\ UseBearer \in BOOLEAN
  /\ Handlers = AppHandlers \cup EngineHandlers
  /\ AppRoutes \subseteq RouteCall
  /\ LateRoutes \subseteq RouteCall
  /\ AppPrefixes \in Seq(FileRoute)
  /\ AppRules \in Seq(AclEntry)
  /\ \A i, j \in DOMAIN AppRules : AppRules[i].path_prefix = AppRules[j].path_prefix => i = j
  /\ LatePrefixes \subseteq Paths
  /\ LateRoles \subseteq Paths \X OptionalRole
  /\ LateRules \subseteq AclEntry
  /\ None \notin Request \cup Paths \cup RulePaths

VARIABLES
  pc,           \* where each worker is
  req,          \* Session::req_
  cookie,       \* the token in the request's session cookie
  bearer,       \* the token in its Authorization header
  route,        \* handler and min_role copied out of the table by dispatch()
  entry,        \* the entry validated_token() returned last
  record,       \* the user record authenticate() copied
  reply         \* the response: status, session cookie it sets, list in its body

worker_vars == <<pc, req, cookie, bearer, route, entry, record, reply>>
vars == <<store, issued, now, users, entries, routes, prefix_routes,
          pc, req, cookie, bearer, route, entry, record, reply>>

Stage == {"idle", "lookup", "gate", "handle", "verify", "authorize", "respond"}
Status == {200, 302, 400, 401, 403, 404, 500}

\* What a list call answers: the users' roles, or the rules in their order.
Listing == [Names -> OptionalRole] \cup Seq(AclEntry)

Response == [status : Status, session : Tokens \cup {None}, body : Listing \cup {None}]

ASSUME ResponseAssumption == None \notin Response

W_TypeOK ==
  /\ pc \in [Workers -> Stage]
  /\ req \in [Workers -> Requests \cup {None}]
  /\ cookie \in [Workers -> Tokens \cup {None}]
  /\ bearer \in [Workers -> Tokens \cup {None}]
  /\ route \in [Workers -> Route \cup {None}]
  /\ entry \in [Workers -> TokenEntry \cup {None}]
  /\ record \in [Workers -> UserRecord \cup {None}]
  /\ reply \in [Workers -> Response \cup {None}]

TypeOK == TS_TypeOK /\ US_TypeOK /\ Acl_TypeOK /\ RT_TypeOK /\ W_TypeOK

-----------------------------------------------------------------------------
(* Configuration before run(). *)

Call(method, path, handler, min_role) ==
  [method |-> method, path |-> path, handler |-> handler, min_role |-> min_role]

\* enable_auth_endpoints()
AuthEndpoints ==
  {Call("POST", <<"/api/", "login">>, "login", NoRole),
   Call("POST", <<"/api/", "logout">>, "logout", NoRole),
   Call("GET", <<"/auth-check">>, "check", NoRole)}

\* enable_admin_endpoints()
AdminEndpoints_UnroledPatch ==
  {Call("POST", <<"/api/", "admin/acl">>, "acl_set", Admin),
   Call("DELETE", <<"/api/", "admin/acl">>, "acl_remove", Admin),
   Call("POST", <<"/api/", "admin/users">>, "user_add", Admin),
   Call("DELETE", <<"/api/", "admin/users">>, "user_remove", Admin),
   Call("PATCH", <<"/api/", "admin/users">>, "user_role", NoRole)}

AdminEndpoints ==
  {Call("GET", <<"/api/", "admin/acl">>, "acl_list", Admin),
   Call("POST", <<"/api/", "admin/acl">>, "acl_set", Admin),
   Call("DELETE", <<"/api/", "admin/acl">>, "acl_remove", Admin),
   Call("GET", <<"/api/", "admin/users">>, "user_list", Admin),
   Call("POST", <<"/api/", "admin/users">>, "user_add", Admin),
   Call("DELETE", <<"/api/", "admin/users">>, "user_remove", Admin),
   Call("PATCH", <<"/api/", "admin/users">>, "user_role", Admin)}

StartRoutes == AuthEndpoints \cup AdminEndpoints \cup AppRoutes

ASSUME EndpointAssumption ==
  \A c \in AuthEndpoints \cup AdminEndpoints : c.method \in Methods /\ c.path \in Paths

\* The map that registering every call of a set leaves.
RouteMap(calls) ==
  [key \in {<<c.method, c.path>> : c \in calls} |->
     LET c == CHOOSE c \in calls : <<c.method, c.path>> = key
     IN [handler |-> c.handler, min_role |-> c.min_role]]

Init ==
  /\ TS_Init
  /\ US_Init
  /\ entries = AppRules
  /\ routes = RouteMap(StartRoutes)
  /\ prefix_routes = AppPrefixes
  /\ pc = [w \in Workers |-> "idle"]
  /\ req = [w \in Workers |-> None]
  /\ cookie = [w \in Workers |-> None]
  /\ bearer = [w \in Workers |-> None]
  /\ route = [w \in Workers |-> None]
  /\ entry = [w \in Workers |-> None]
  /\ record = [w \in Workers |-> None]
  /\ reply = [w \in Workers |-> None]

-----------------------------------------------------------------------------
(* Helpers of the steps. *)

\* The request target up to the query string.
path_of(target) ==
  LET q == SelectInSeq(target, LAMBDA piece : piece = "?")
  IN IF q = 0 THEN target ELSE SubSeq(target, 1, q - 1)

\* extract_token(): the session cookie first, then the bearer token.
extract_token(c, b) == IF c # None THEN c ELSE b

\* validated_token()
validated_token(w) == validate(extract_token(cookie[w], bearer[w]))

goto(w, stage) ==
  /\ pc[w] # stage
  /\ pc' = [pc EXCEPT ![w] = stage]

\* The response is complete; write it next.
answer_with(w, status, session, body) ==
  /\ goto(w, "respond")
  /\ reply' = [reply EXCEPT ![w] = [status |-> status, session |-> session, body |-> body]]

answer(w, status) == answer_with(w, status, None, None)

handling(w, handler) == pc[w] = "handle" /\ route[w].handler = handler

UNCHANGED_stores == UNCHANGED <<TS_vars, users, entries, RT_vars>>
UNCHANGED_request == UNCHANGED <<req, cookie, bearer>>
UNCHANGED_copies == UNCHANGED <<route, entry, record>>

\* A handler's effect on the stores goes with a step that only answers.
only_answers(w) == UNCHANGED_request /\ UNCHANGED_copies

-----------------------------------------------------------------------------
(* Session::do_read and Router::dispatch. *)

\* Session cookies clients hold: every one that a delivered response carried.
Delivered == issued \ {reply[w].session : w \in {v \in Workers : reply[v] # None}}

\* A request has been read.  A client presents a session it was given (perhaps
\* ended since) or none; a string that was never a session acts as an ended one.
Begin(w) ==
  /\ pc[w] = "idle"
  /\ goto(w, "lookup")
  /\ \E r \in Requests, c, b \in Delivered \cup {None} :
       /\ b # None => UseBearer
       /\ req' = [req EXCEPT ![w] = r]
       /\ cookie' = [cookie EXCEPT ![w] = c]
       /\ bearer' = [bearer EXCEPT ![w] = b]
  /\ UNCHANGED_stores /\ UNCHANGED_copies /\ UNCHANGED reply

\* The locked part of dispatch(): copy handler and role of the matching route.
Lookup(w) ==
  /\ pc[w] = "lookup"
  /\ LET r == lookup(req[w].method, path_of(req[w].target))
     IN \/ /\ r = None
           /\ answer(w, 404)
           /\ UNCHANGED route
        \/ /\ r # None
           /\ goto(w, IF r.min_role = NoRole THEN "handle" ELSE "gate")
           /\ route' = [route EXCEPT ![w] = r]
           /\ UNCHANGED reply
  /\ UNCHANGED_stores /\ UNCHANGED_request /\ UNCHANGED <<entry, record>>

\* Enforcement of the copied min_role; the caller becomes ctx.user.
Gate_RoleNow(w) ==
  /\ pc[w] = "gate"
  /\ LET e == validated_token(w)
         need == lookup(req[w].method, path_of(req[w].target)).min_role
     IN \/ e = None /\ answer(w, 401) /\ UNCHANGED entry
        \/ /\ e # None /\ ~role_satisfies(e.role, need)
           /\ answer(w, 403) /\ UNCHANGED entry
        \/ /\ e # None /\ role_satisfies(e.role, need)
           /\ goto(w, "handle")
           /\ entry' = [entry EXCEPT ![w] = e]
           /\ UNCHANGED reply
  /\ UNCHANGED_stores /\ UNCHANGED_request /\ UNCHANGED <<route, record>>

Gate(w) ==
  /\ pc[w] = "gate"
  /\ LET e == validated_token(w)
     IN \/ e = None /\ answer(w, 401) /\ UNCHANGED entry
        \/ /\ e # None /\ ~role_satisfies(e.role, route[w].min_role)
           /\ answer(w, 403) /\ UNCHANGED entry
        \/ /\ e # None /\ role_satisfies(e.role, route[w].min_role)
           /\ goto(w, "handle")
           /\ entry' = [entry EXCEPT ![w] = e]
           /\ UNCHANGED reply
  /\ UNCHANGED_stores /\ UNCHANGED_request /\ UNCHANGED <<route, record>>

-----------------------------------------------------------------------------
(* The authentication handlers. *)

\* handle_login() up to the unlock in authenticate(): copy the user's record.
LoginFetch(w) ==
  /\ handling(w, "login")
  /\ LET u == req[w].username
         known == u # None /\ users[u] # None
     IN \/ /\ ~known
           /\ answer(w, 401)
           /\ UNCHANGED record
        \/ /\ known
           /\ goto(w, "verify")
           /\ record' = [record EXCEPT ![w] = users[u]]
           /\ UNCHANGED reply
  /\ UNCHANGED_stores /\ UNCHANGED_request /\ UNCHANGED <<route, entry>>

\* The rest of it: verify the password against the copy, then mint a session
\* carrying the copied role.  RAND_bytes may fail, which dispatch() answers with
\* 500; in the model it must once every token of Tokens has been minted.
LoginIssue_RoleNow(w) ==
  /\ pc[w] = "verify"
  /\ users[req[w].username] # None
  /\ \/ /\ ~pbkdf2_verify(req[w].password, record[w])
        /\ answer(w, 401)
        /\ UNCHANGED TS_vars
     \/ /\ pbkdf2_verify(req[w].password, record[w])
        /\ \E token \in Tokens \ issued :
             /\ issue(token, req[w].username, users[req[w].username].role)
             /\ answer_with(w, 200, token, None)
  /\ UNCHANGED <<users, entries, RT_vars>> /\ only_answers(w)

LoginIssue_Uncaught(w) ==
  /\ pc[w] = "verify"
  /\ \/ /\ ~pbkdf2_verify(req[w].password, record[w])
        /\ answer(w, 401)
        /\ UNCHANGED TS_vars
     \/ /\ pbkdf2_verify(req[w].password, record[w])
        /\ goto(w, "idle")
        /\ UNCHANGED <<TS_vars, reply>>
     \/ /\ pbkdf2_verify(req[w].password, record[w])
        /\ \E token \in Tokens :
             /\ issue(token, req[w].username, record[w].role)
             /\ answer_with(w, 200, token, None)
  /\ UNCHANGED <<users, entries, RT_vars>> /\ only_answers(w)

LoginIssue(w) ==
  /\ pc[w] = "verify"
  /\ \/ /\ ~pbkdf2_verify(req[w].password, record[w])
        /\ answer(w, 401)
        /\ UNCHANGED TS_vars
     \/ /\ pbkdf2_verify(req[w].password, record[w])
        /\ answer(w, 500)
        /\ UNCHANGED TS_vars
     \/ /\ pbkdf2_verify(req[w].password, record[w])
        /\ \E token \in Tokens :
             /\ issue(token, req[w].username, record[w].role)
             /\ answer_with(w, 200, token, None)
  /\ UNCHANGED <<users, entries, RT_vars>> /\ only_answers(w)

\* handle_logout() looks at the cookie only.
Logout(w) ==
  /\ handling(w, "logout")
  /\ \/ cookie[w] = None /\ UNCHANGED TS_vars
     \/ cookie[w] # None /\ revoke(cookie[w])
  /\ answer(w, 200)
  /\ UNCHANGED <<users, entries, RT_vars>> /\ only_answers(w)

\* handle_check() and handle_protected_file() up to the access list: validate
\* the session.  /auth-check consults the list only when it is given a URI.
Validate(w) ==
  /\ handling(w, "check") \/ handling(w, "file")
  /\ LET e == validated_token(w)
     IN \/ /\ e = None
           /\ answer(w, IF route[w].handler = "file" THEN 302 ELSE 401)
           /\ UNCHANGED entry
        \/ /\ e # None
           /\ route[w].handler = "check" /\ req[w].uri = None
           /\ answer(w, 200)
           /\ entry' = [entry EXCEPT ![w] = e]
        \/ /\ e # None
           /\ route[w].handler = "file" \/ req[w].uri # None
           /\ goto(w, "authorize")
           /\ entry' = [entry EXCEPT ![w] = e]
           /\ UNCHANGED reply
  /\ UNCHANGED_stores /\ UNCHANGED_request /\ UNCHANGED <<route, record>>

\* The path the access list decides on: X-Original-URI as it came, or the
\* request path.
guarded_path(w) ==
  IF route[w].handler = "check" THEN req[w].uri ELSE path_of(req[w].target)

\* The rest of both: consult the access list, and map the path to a file, which
\* may not exist.
Authorize(w) ==
  /\ pc[w] = "authorize"
  /\ \/ ~authorize(entry[w].role, guarded_path(w)) /\ answer(w, 403)
     \/ /\ authorize(entry[w].role, guarded_path(w))
        /\ route[w].handler = "check"
        /\ answer(w, 200)
     \/ /\ authorize(entry[w].role, guarded_path(w))
        /\ route[w].handler = "file"
        /\ \/ ".." \in Range(guarded_path(w)) /\ answer(w, 403)
           \/ ".." \notin Range(guarded_path(w)) /\ answer(w, 404)
           \/ ".." \notin Range(guarded_path(w)) /\ answer(w, 200)
  /\ UNCHANGED_stores /\ only_answers(w)

-----------------------------------------------------------------------------
(* The admin endpoints. *)

\* A list is copied out under its store's lock and goes into the response.
AdminAclList(w) ==
  /\ handling(w, "acl_list")
  /\ answer_with(w, 200, None, entries)
  /\ UNCHANGED_stores /\ only_answers(w)

AdminUserList(w) ==
  /\ handling(w, "user_list")
  /\ answer_with(w, 200, None, list_users)
  /\ UNCHANGED_stores /\ only_answers(w)

AdminAclSet(w) ==
  /\ handling(w, "acl_set")
  /\ \/ /\ req[w].prefix = None \/ req[w].role = NoRole
        /\ answer(w, 400)
        /\ UNCHANGED entries
     \/ /\ req[w].prefix # None /\ req[w].role # NoRole
        /\ acl_set(req[w].prefix, req[w].role)
        /\ answer(w, 200)
  /\ UNCHANGED <<TS_vars, users, RT_vars>> /\ only_answers(w)

AdminAclRemove(w) ==
  /\ handling(w, "acl_remove")
  /\ \/ req[w].prefix = None /\ answer(w, 400) /\ UNCHANGED entries
     \/ req[w].prefix # None /\ acl_remove(req[w].prefix) /\ answer(w, 200)
  /\ UNCHANGED <<TS_vars, users, RT_vars>> /\ only_answers(w)

\* Salting the new password calls RAND_bytes, which may fail before the upsert.
AdminUserAdd_RoleUnchecked(w) ==
  /\ handling(w, "user_add")
  /\ LET good == req[w].username # None /\ req[w].password # None
     IN \/ ~good /\ answer(w, 400) /\ UNCHANGED users
        \/ good /\ answer(w, 500) /\ UNCHANGED users
        \/ /\ good
           /\ seed_user(req[w].username, req[w].password, req[w].role)
           /\ answer(w, 200)
  /\ UNCHANGED <<TS_vars, entries, RT_vars>> /\ only_answers(w)

AdminUserAdd(w) ==
  /\ handling(w, "user_add")
  /\ LET good == req[w].username # None /\ req[w].password # None /\ req[w].role # NoRole
     IN \/ ~good /\ answer(w, 400) /\ UNCHANGED users
        \/ good /\ answer(w, 500) /\ UNCHANGED users
        \/ /\ good
           /\ seed_user(req[w].username, req[w].password, req[w].role)
           /\ answer(w, 200)
  /\ UNCHANGED <<TS_vars, entries, RT_vars>> /\ only_answers(w)

AdminUserRemove(w) ==
  /\ handling(w, "user_remove")
  /\ LET u == req[w].username
     IN \/ u = None /\ answer(w, 400) /\ UNCHANGED users
        \/ u # None /\ no_such_user(u) /\ answer(w, 404)
        \/ u # None /\ remove_user(u) /\ answer(w, 200)
  /\ UNCHANGED <<TS_vars, entries, RT_vars>> /\ only_answers(w)

AdminUserRole(w) ==
  /\ handling(w, "user_role")
  /\ LET u == req[w].username
         good == u # None /\ req[w].role # NoRole
     IN \/ ~good /\ answer(w, 400) /\ UNCHANGED users
        \/ good /\ no_such_user(u) /\ answer(w, 404)
        \/ good /\ set_user_role(u, req[w].role) /\ answer(w, 200)
  /\ UNCHANGED <<TS_vars, entries, RT_vars>> /\ only_answers(w)

-----------------------------------------------------------------------------
(* The application: its handlers, and its configuration calls while serving. *)

\* A handler returns, or throws and dispatch() answers 500.
AppHandler(w) ==
  /\ pc[w] = "handle" /\ route[w].handler \in AppHandlers
  /\ answer(w, 200) \/ answer(w, 500)
  /\ UNCHANGED_stores /\ only_answers(w)

AddApi ==
  /\ \E c \in LateRoutes : add_route(c.method, c.path, c.handler, c.min_role)
  /\ UNCHANGED <<TS_vars, users, entries, worker_vars>>

\* serve_protected_files(): a public route whose handler checks for itself.
ServeProtectedFiles ==
  /\ \E prefix \in LatePrefixes : add_prefix_route("GET", prefix, "file", NoRole)
  /\ UNCHANGED <<TS_vars, users, entries, worker_vars>>

SetApiRole ==
  /\ \E c \in LateRoles : set_route_role(c[1], c[2])
  /\ UNCHANGED <<TS_vars, users, entries, worker_vars>>

ProtectPath(r) ==
  /\ acl_set(r.path_prefix, r.min_role)
  /\ UNCHANGED <<TS_vars, users, RT_vars, worker_vars>>

UnprotectPath(r) ==
  /\ acl_remove(r.path_prefix)
  /\ UNCHANGED <<TS_vars, users, RT_vars, worker_vars>>

-----------------------------------------------------------------------------

\* Session::do_write has sent the response; the next do_read starts afresh.
Deliver(w) ==
  /\ pc[w] = "respond"
  /\ goto(w, "idle")
  /\ req' = [req EXCEPT ![w] = None]
  /\ cookie' = [cookie EXCEPT ![w] = None]
  /\ bearer' = [bearer EXCEPT ![w] = None]
  /\ route' = [route EXCEPT ![w] = None]
  /\ entry' = [entry EXCEPT ![w] = None]
  /\ record' = [record EXCEPT ![w] = None]
  /\ reply' = [reply EXCEPT ![w] = None]
  /\ UNCHANGED_stores

Handler(w) ==
  \/ LoginFetch(w) \/ LoginIssue(w) \/ Logout(w) \/ Validate(w) \/ Authorize(w)
  \/ AdminAclList(w) \/ AdminAclSet(w) \/ AdminAclRemove(w) \/ AdminUserList(w)
  \/ AdminUserAdd(w) \/ AdminUserRemove(w) \/ AdminUserRole(w) \/ AppHandler(w)

\* What a worker does once it has a request: never blocked, never waiting.
Serve(w) == Lookup(w) \/ Gate(w) \/ Handler(w) \/ Deliver(w)

Configure ==
  \/ AddApi \/ ServeProtectedFiles \/ SetApiRole
  \/ \E r \in LateRules : ProtectPath(r) \/ UnprotectPath(r)

Clock == Tick /\ UNCHANGED <<users, entries, RT_vars, worker_vars>>

Next ==
  \/ \E w \in Workers : Begin(w) \/ Serve(w)
  \/ Configure
  \/ Clock

Spec == Init /\ [][Next]_vars

\* The operating system schedules every worker; nothing obliges clients to send
\* requests, the application to reconfigure, or a login to meet a RAND failure.
Fairness == \A w \in Workers : WF_vars(Serve(w))

-----------------------------------------------------------------------------

\* Every request that was read gets a response, whatever its handler met: no
\* exception or early return leaves dispatch() without one (Router.hpp).
EveryRequestAnswered == \A w \in Workers : pc[w] = "lookup" ~> pc[w] = "respond"

=============================================================================
