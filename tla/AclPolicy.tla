----------------------------- MODULE AclPolicy -----------------------------
(***************************************************************************)
(* The access list, whoever changes it, against the map from prefixes to   *)
(* roles it stands for.  The engine runs unchanged; a variable notes the   *)
(* last set() or remove() of the list, a management call's or the          *)
(* application's, with the prefix and role it was called with.             *)
(***************************************************************************)
EXTENDS Engine

VARIABLE call

RuleCall == [prefix : RulePaths, role : OptionalRole]

\* The step makes the call c: remove() when c has no role, else set().
CallsSet(c) ==
  \/ \E w \in Workers : /\ AdminAclSet(w) /\ reply'[w].status = 200
                        /\ c = [prefix |-> req[w].prefix, role |-> req[w].role]
  \/ \E r \in LateRules : /\ ProtectPath(r)
                          /\ c = [prefix |-> r.path_prefix, role |-> r.min_role]

CallsRemove(c) ==
  \/ \E w \in Workers : /\ AdminAclRemove(w) /\ reply'[w].status = 200
                        /\ c = [prefix |-> req[w].prefix, role |-> NoRole]
  \/ \E r \in LateRules : /\ UnprotectPath(r)
                          /\ c = [prefix |-> r.path_prefix, role |-> NoRole]

Calls(c) == CallsSet(c) \/ CallsRemove(c)

NoteCall ==
  \/ \E c \in RuleCall : Calls(c) /\ call' = c
  \/ (\A c \in RuleCall : ~Calls(c)) /\ UNCHANGED call

R_Next == Next /\ NoteCall

R_Spec == Init /\ call = None /\ [][R_Next]_<<vars, call>>

-----------------------------------------------------------------------------

\* Two entries for one prefix: no role of the map.
Twice == -2

\* The role the list gives a prefix.
role_of(p) ==
  LET at == {i \in DOMAIN entries : entries[i].path_prefix = p}
  IN IF at = {} THEN NoRole
     ELSE IF \E i, j \in at : i # j THEN Twice
     ELSE entries[CHOOSE i \in at : TRUE].min_role

Policy == INSTANCE PolicyMap WITH policy <- [p \in RulePaths |-> role_of(p)]

\* The list behaves as the map: set() leaves the role it is called with as the one
\* role of its prefix, whatever an earlier set() of it said, remove() leaves none,
\* neither touches another prefix, and nothing but their calls changes the list
\* (Acl::set and Acl::remove, called by /api/admin/acl, protect_path and
\* unprotect_path).
IsPolicyMap == Policy!Spec

\* authorize() passes exactly the roles the map requires for a path.
Decides(path) == \A role \in Role : authorize(role, path) <=> role >= Policy!Needed(path)

\* On every path of a request the most specific rule decides, wherever in the
\* list it stands, and a path without one needs Admin.
MostSpecificDecides == \A path \in Paths : Decides(path)

=============================================================================
