-------------------------------- MODULE Acl --------------------------------
(***************************************************************************)
(* The path-prefix access list (src/Acl.hpp).  A path is a sequence of     *)
(* pieces; longer in characters is then longer in pieces for two prefixes  *)
(* of the same path, which is all authorize() compares.  Each operator is  *)
(* one critical section of the list's shared_mutex.                        *)
(***************************************************************************)
EXTENDS Roles, SequencesExt

CONSTANT RulePaths   \* the paths that may carry a rule

ASSUME PrefixAssumption == RulePaths \subseteq Seq(STRING) \ {<<>>}

AclEntry == [path_prefix : RulePaths, min_role : Role]

VARIABLE entries    \* entries_, in insertion order

Acl_TypeOK == entries \in Seq(AclEntry)

\* The index the loop of authorize() ends on: the first of the longest matching
\* entries, 0 when none matches.
best_FirstMatch(path) ==
  SelectInSeq(entries, LAMBDA e : IsPrefix(e.path_prefix, path))

best(path) ==
  LET match == {i \in DOMAIN entries : IsPrefix(entries[i].path_prefix, path)}
      longest == {i \in match : \A j \in match :
                    Len(entries[j].path_prefix) <= Len(entries[i].path_prefix)}
  IN IF match = {} THEN 0 ELSE CHOOSE i \in longest : \A j \in longest : i <= j

\* authorize(): nothing matches -> Admin only.
authorize_DefaultViewer(role, path) ==
  LET i == best(path)
  IN role_satisfies(role, IF i = 0 THEN Viewer ELSE entries[i].min_role)

authorize(role, path) ==
  LET i == best(path)
  IN role_satisfies(role, IF i = 0 THEN Admin ELSE entries[i].min_role)

\* set(): overwrite the role of the entry with this prefix, or append one.
acl_set_AppendsAlways(prefix, min_role) ==
  entries' = IF \E e \in Range(entries) : e.path_prefix = prefix /\ e.min_role = min_role
               THEN entries
               ELSE Append(entries, [path_prefix |-> prefix, min_role |-> min_role])

acl_set(prefix, min_role) ==
  LET i == SelectInSeq(entries, LAMBDA e : e.path_prefix = prefix)
  IN entries' = IF i = 0
                  THEN Append(entries, [path_prefix |-> prefix, min_role |-> min_role])
                  ELSE [entries EXCEPT ![i].min_role = min_role]

\* remove(): erase every entry with this prefix, the others keep their order.
acl_remove_LastOnly(prefix) ==
  entries' = IF entries # <<>> /\ Last(entries).path_prefix = prefix
               THEN Front(entries) ELSE entries

acl_remove(prefix) ==
  LET kept == {i \in DOMAIN entries : entries[i].path_prefix # prefix}
      places == 1..Cardinality(kept)
  IN \E order \in [places -> kept] :
       /\ \A m, n \in places : m < n => order[m] < order[n]
       /\ entries' = [n \in places |-> entries[order[n]]]

=============================================================================
