------------------------------ MODULE MCEngine ------------------------------
(***************************************************************************)
(* Small instances of the engine.  Each run (MCHistory, MCAdmin) lets one  *)
(* kind of configuration change and holds the rest still.                  *)
(***************************************************************************)
EXTENDS Engine, TLC

CONSTANTS t1, t2, w1, w2, alice, root, p1, p2

TokenSymmetry == Permutations(Tokens)

Login == <<"/api/", "login">>
Logout_ == <<"/api/", "logout">>
Private == <<"/api/", "private">>
AclPath == <<"/api/", "admin/acl">>
UsersPath == <<"/api/", "admin/users">>
AuthCheck == <<"/auth-check">>
Protected == <<"/protected/">>
Page == <<"/protected/", "page">>
Secret == <<"/protected/", "secret/", "page">>
SecretDir == <<"/protected/", "secret/">>
Escape == <<"/protected/", "..", "page">>
Queried == <<"/protected/", "page", "?", "query">>
Unknown == <<"/nowhere">>

AllPaths == {Login, Logout_, Private, AclPath, UsersPath, AuthCheck, Protected, Page,
             Secret, SecretDir, Escape, Queried, Unknown}
AllMethods == {"GET", "POST", "DELETE", "PATCH"}
AllHandlers == AppHandlers \cup EngineHandlers
AllRulePaths == {Protected, SecretDir}

Plain(method, target) ==
  [method |-> method, target |-> target, uri |-> None, username |-> None,
   password |-> None, prefix |-> None, role |-> NoRole]

LoginAs(u, p) == [Plain("POST", Login) EXCEPT !.username = u, !.password = p]
Check(uri) == [Plain("GET", AuthCheck) EXCEPT !.uri = uri]

User_(p, r) == [password |-> p, role |-> r]
Rule(prefix, r) == [path_prefix |-> prefix, min_role |-> r]
FilePrefix == [method |-> "GET", prefix |-> Protected, handler |-> "file", min_role |-> NoRole]

None_ == {}
NoRules == <<>>

\* sessions
OneUser == [n \in Names |-> User_(p1, User)]
SessionRequests == {LoginAs(alice, p1), Plain("POST", Logout_), Check(None), Plain("GET", Private)}
PrivateForUser == {Call("GET", Private, "app", User)}
PageRules == <<Rule(Protected, Viewer)>>
FilePrefixes == <<FilePrefix>>

\* logins: users log in, and are listed and changed, and a rule is set
AdminAndAlice == [n \in Names |-> IF n = root THEN User_(p1, Admin) ELSE User_(p1, User)]
UserRequests ==
  {[Plain("POST", UsersPath) EXCEPT !.username = alice, !.password = p2, !.role = Viewer],
   [Plain("DELETE", UsersPath) EXCEPT !.username = alice],
   [Plain("PATCH", UsersPath) EXCEPT !.username = alice, !.role = Admin]}
LoginRequests ==
  {LoginAs(root, p1), LoginAs(alice, p1), Plain("GET", UsersPath),
   [Plain("POST", AclPath) EXCEPT !.prefix = SecretDir, !.role = Viewer]}
  \cup UserRequests

\* admin: every management call, well-formed or not, by one client at a time, while the
\* application sets and removes rules on the same prefixes
AdminRequests ==
  {LoginAs(root, p1), LoginAs(root, p2), LoginAs(None, None), LoginAs(alice, p1), Check(Secret),
   Plain("POST", Logout_), Plain("GET", Private), Plain("GET", Unknown)}
  \cup {Plain(m, AclPath) : m \in {"GET", "POST", "DELETE"}}
  \cup {Plain(m, UsersPath) : m \in AllMethods}
  \cup {[Plain("POST", AclPath) EXCEPT !.prefix = SecretDir, !.role = Guest],
        [Plain("DELETE", AclPath) EXCEPT !.prefix = Protected],
        [Plain("DELETE", AclPath) EXCEPT !.prefix = SecretDir],
        [Plain("POST", UsersPath) EXCEPT !.username = alice, !.password = p2]}
  \cup UserRequests

\* config: the application changes rules and routes
ConfigRequests ==
  {LoginAs(alice, p1), Check(Secret), Plain("GET", Queried), Plain("GET", Escape),
   Plain("GET", Private)}
LateSecret == {Rule(SecretDir, Viewer), Rule(Protected, Admin)}
LatePages == {Rule(Protected, Admin)}
AdminPrivate == {Call("GET", Private, "app", Admin)}
OtherPrivate == {Call("GET", Private, "app2", Viewer)}
CheckRoles == {<<AuthCheck, Viewer>>}
ProtectedOnly == {Protected}

=============================================================================
