--------------------------- MODULE EngineHistory ---------------------------
(***************************************************************************)
(* What the engine must never do, whatever the interleaving.  The engine   *)
(* runs unchanged; history variables record, beside it, what its copies    *)
(* forget: which sessions have ended, and every value the stores had while *)
(* a request was being served.                                             *)
(***************************************************************************)
EXTENDS Engine

VARIABLES
  opened,    \* when each session was opened, None before
  ended,     \* the sessions whose holder has logged out
  over,      \* the session a worker's request presents was over on arrival
  seen       \* the states of the stores since a worker's request arrived

hvars == <<vars, opened, ended, over, seen>>

history == <<opened, ended, over, seen>>

\* No session, one that was logged out, or one past its lifetime.
SessionOver(token) ==
  \/ token = None
  \/ token \in ended
  \/ now > opened[token] + TTL

Window == [users : SUBSET [Names -> UserRecord \cup {None}],
           rules : SUBSET Seq(AclEntry),
           routes : SUBSET (Route \cup {None})]

H_TypeOK ==
  /\ opened \in [Tokens -> Nat \cup {None}]
  /\ ended \in SUBSET Tokens
  /\ over \in [Workers -> BOOLEAN]
  /\ seen \in [Workers -> Window]

H_Init ==
  /\ Init
  /\ opened = [t \in Tokens |-> None]
  /\ ended = {}
  /\ over = [w \in Workers |-> FALSE]
  /\ seen = [w \in Workers |-> [users |-> {}, rules |-> {}, routes |-> {}]]

\* The route the table holds for a worker's request.
route_of(w) == lookup(req[w].method, path_of(req[w].target))

\* Every worker with a request notes the new state; an idle one forgets.
Observe ==
  seen' = [w \in Workers |->
    IF req'[w] = None THEN [users |-> {}, rules |-> {}, routes |-> {}]
    ELSE [users |-> seen[w].users \cup {users'},
          rules |-> seen[w].rules \cup {entries'},
          routes |-> seen[w].routes \cup {route_of(w)'}]]

H_Begin(w) ==
  /\ Begin(w)
  /\ over' = [over EXCEPT ![w] = SessionOver(extract_token(cookie'[w], bearer'[w]))]
  /\ UNCHANGED <<opened, ended>>
  /\ Observe

H_LoginIssue(w) ==
  /\ LoginIssue(w)
  /\ opened' = [t \in Tokens |-> IF t \in issued' \ issued THEN now ELSE opened[t]]
  /\ UNCHANGED <<ended, over>>
  /\ Observe

H_Logout(w) ==
  /\ Logout(w)
  /\ ended' = ended \cup ({cookie[w]} \ {None})
  /\ UNCHANGED <<opened, over>>
  /\ Observe

Unrecorded(w) ==
  \/ Lookup(w) \/ Gate(w) \/ LoginFetch(w) \/ Validate(w) \/ Authorize(w)
  \/ AdminAclList(w) \/ AdminAclSet(w) \/ AdminAclRemove(w) \/ AdminUserList(w)
  \/ AdminUserAdd(w) \/ AdminUserRemove(w) \/ AdminUserRole(w) \/ AppHandler(w)
  \/ Deliver(w)

H_Next ==
  \/ \E w \in Workers : H_Begin(w) \/ H_LoginIssue(w) \/ H_Logout(w)
  \/ /\ (\E w \in Workers : Unrecorded(w)) \/ Configure \/ Clock
     /\ UNCHANGED <<opened, ended, over>>
     /\ Observe

H_Spec == H_Init /\ [][H_Next]_hvars

H_FairSpec == H_Spec /\ Fairness

-----------------------------------------------------------------------------
(* Sessions. *)

\* The model's types, histories included.
HistoryTypeOK == TypeOK /\ H_TypeOK

\* A request that arrives after its session's logout was handled, or after the
\* session's lifetime, is not admitted, however the check and the store's
\* changes interleave (validate, revoke and issue of TokenStore; the cookie or
\* bearer choice of extract_token).
SessionEndIsFinal == \A w \in Workers : entry[w] # None => ~over[w]

\* Where the abstract sessions are in the engine's state.
session_of(t) ==
  IF t \notin issued THEN [state |-> "unborn", user |-> None]
  ELSE IF store[t] = None \/ now > store[t].expires_at
    THEN [state |-> "ended", user |-> None]
  ELSE [state |-> "open",
        user |-> [username |-> store[t].username, role |-> store[t].role]]

user_of(e) ==
  IF e = None THEN None ELSE [username |-> e.username, role |-> e.role]

Promise == INSTANCE Sessions
  WITH session  <- [t \in Tokens |-> session_of(t)],
       presents <- [w \in Workers |-> extract_token(cookie[w], bearer[w])],
       user     <- [w \in Workers |-> user_of(entry[w])]

\* The engine implements the abstract sessions: none is reopened or changes its
\* user or role, and every admission happens while the session is open and under
\* its own user (TokenStore, Router::dispatch and AuthHandler together).
SessionsKept == Promise!Spec

-----------------------------------------------------------------------------
(* Logins. *)

\* The session a login opens carries a role its user had, at one instant of the
\* request, together with the password that was given: the copy authenticate()
\* takes under the lock is not mixed with a later record (TestAuthProvider.hpp).
LoginFromOneRecord ==
  \A w \in Workers :
    reply[w] # None /\ reply[w].session # None /\ store[reply[w].session] # None =>
      \E us \in seen[w].users :
        /\ us[req[w].username] # None
        /\ us[req[w].username] = [password |-> req[w].password,
                                 role |-> store[reply[w].session].role]

-----------------------------------------------------------------------------
(* Routes and rules. *)

\* An application handler runs only for a caller who satisfies a role that the
\* table held together with that handler during the request: replacing a route,
\* or its role, never lends one registration's handler another's role (dispatch
\* copies both under one lock).
RoleFitsHandler ==
  \A w \in Workers :
    pc[w] = "handle" /\ route[w].handler \in AppHandlers =>
      \E r \in seen[w].routes \ {None} :
        /\ r.handler = route[w].handler
        /\ \/ r.min_role = NoRole
           \/ entry[w] # None /\ role_satisfies(entry[w].role, r.min_role)

\* The rule that decides for a path: that of the most specific prefix, Admin when
\* there is none.
Permits(rules, role, path) ==
  LET applies == {rules[i] : i \in {j \in DOMAIN rules : IsPrefix(rules[j].path_prefix, path)}}
  IN \/ role = Admin
     \/ \E e \in applies : /\ role >= e.min_role
                           /\ \A f \in applies : IsPrefix(f.path_prefix, e.path_prefix)

\* What /auth-check or a protected file's handler decides about an admitted
\* user, approval or refusal, is what the rules in force at some instant of the
\* request say (Acl::authorize, protect_path and /api/admin/acl together), unless
\* the session ended on the way (401, or 302 to the login page); and without an
\* admitted user nothing is approved.
Justified(w) ==
  LET granted == reply[w].status \in {200, 404}
  IN /\ granted => entry[w] # None
     /\ \/ entry[w] = None
        \/ reply[w].status \in {401, 302}
        \/ guarded_path(w) = None
        \/ ".." \in Range(guarded_path(w)) /\ ~granted
        \/ \E rules \in seen[w].rules :
             granted <=> Permits(rules, entry[w].role, guarded_path(w))

DecisionJustified ==
  \A w \in Workers :
    pc[w] = "respond" /\ route[w] # None /\ route[w].handler \in {"check", "file"} => Justified(w)

\* The answer to a management call is true of the stores at some instant of the
\* request: the change it reports had been made, the user it could not find was
\* not there, the list it returns was the whole list.
Reported(w) ==
  LET answered(handler, status) ==
        route[w].handler = handler /\ reply[w].status = status
      u == req[w].username
      ruled(rules) == {rules[i] : i \in {j \in DOMAIN rules : rules[j].path_prefix = req[w].prefix}}
  IN /\ answered("user_add", 200) => \E us \in seen[w].users :
          us[u] = [password |-> req[w].password, role |-> req[w].role]
     /\ answered("user_role", 200) => \E us \in seen[w].users :
          us[u] # None /\ us[u].role = req[w].role
     /\ answered("user_remove", 200) \/ answered("user_remove", 404)
          \/ answered("user_role", 404) => \E us \in seen[w].users : us[u] = None
     /\ answered("acl_set", 200) => \E rules \in seen[w].rules :
          ruled(rules) = {[path_prefix |-> req[w].prefix, min_role |-> req[w].role]}
     /\ answered("acl_remove", 200) => \E rules \in seen[w].rules : ruled(rules) = {}
     /\ answered("acl_list", 200) => reply[w].body \in seen[w].rules
     /\ answered("user_list", 200) => \E us \in seen[w].users : reply[w].body = roles_of(us)

AnswersTrue == \A w \in Workers : pc[w] = "respond" /\ entry[w] # None => Reported(w)

\* Users change only in a request that was admitted, before its session was over,
\* as an Admin's; so do rules, unless the application changes them
\* (enable_admin_endpoints registers every management call with Role::Admin).
OnlyAdminsManage ==
  [][/\ users' # users =>
          \E w \in Workers : pc'[w] # pc[w] /\ entry[w] # None
                             /\ entry[w].role = Admin /\ ~over[w]
     /\ entries' # entries =>
          \/ pc' = pc
          \/ \E w \in Workers : pc'[w] # pc[w] /\ entry[w] # None
                                /\ entry[w].role = Admin /\ ~over[w]]_hvars

\* What WebEngine.hpp says of a route with a role: the caller presents a session
\* "for a user whose role satisfies it".  Some record the user had during the
\* request does.
AdmittedUserHasRole ==
  \A w \in Workers :
    pc[w] = "handle" /\ entry[w] # None =>
      \E us \in seen[w].users :
        /\ us[entry[w].username] # None
        /\ role_satisfies(us[entry[w].username].role, route[w].min_role)

=============================================================================
