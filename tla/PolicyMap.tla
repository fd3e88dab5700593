----------------------------- MODULE PolicyMap -----------------------------
(***************************************************************************)
(* What an access list is: a map from path prefixes to the least role that *)
(* may pass, with at most one role for each prefix.  A call of set() or    *)
(* remove() changes the role of the prefix it names, to the role it names  *)
(* or to none, and nothing else changes anything.  The role a path needs   *)
(* is found by cutting the path shorter until a prefix in the map is met.  *)
(***************************************************************************)
EXTENDS Naturals, Sequences

CONSTANTS RulePaths, Role, NoRole, Admin, None

VARIABLES
  policy,   \* the role of each prefix, NoRole when it has none
  call      \* the last call: its prefix and role, NoRole for a remove()

\* Whatever was set before.
Init ==
  /\ policy \in [RulePaths -> Role \cup {NoRole}]
  /\ call = None

Set(p, r) ==
  /\ call' = [prefix |-> p, role |-> r]
  /\ policy' = [policy EXCEPT ![p] = r]

Remove(p) ==
  /\ call' = [prefix |-> p, role |-> NoRole]
  /\ policy' = [policy EXCEPT ![p] = NoRole]

Next == \E p \in RulePaths : Remove(p) \/ \E r \in Role : Set(p, r)

Spec == Init /\ [][Next]_<<policy, call>>

\* The role needed to pass at `path`: Admin when no prefix of it has a rule.
Needed(path) ==
  LET cut[n \in 0..Len(path)] ==
        LET prefix == SubSeq(path, 1, n)
        IN IF prefix \in RulePaths /\ policy[prefix] # NoRole THEN policy[prefix]
           ELSE IF n = 0 THEN Admin
           ELSE cut[n - 1]
  IN cut[Len(path)]

=============================================================================
