------------------------------- MODULE Roles -------------------------------
(***************************************************************************)
(* Access levels (webengine/Role.hpp).  Their numeric values are           *)
(* meaningful: a role satisfies a requirement when its value is at least   *)
(* the required one.                                                       *)
(***************************************************************************)
EXTENDS Integers

Guest  == 0
Viewer == 1
User   == 2
Admin  == 3

Role == Guest..Admin

\* std::nullopt where a std::optional<Role> is expected: a public route, or a
\* request body without a (valid) role.
NoRole == -1

OptionalRole == Role \cup {NoRole}

role_satisfies(have, need) == have >= need

=============================================================================
