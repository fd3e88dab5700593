----------------------------- MODULE RuleProofs -----------------------------
(***************************************************************************)
(* The access list and what is decided by it: the theorems, for every set  *)
(* of workers, users, requests, routes and rules.                          *)
(*                                                                         *)
(* Everything rests on one fact, that no two rules of the list have the    *)
(* same prefix (OnePerPrefix of RouteProofs).  The rule authorize() ends   *)
(* on is then the only one of the most specific prefix, so that the        *)
(* decision is what the rules say (AuthorizeIsPermits), and the list is a  *)
(* map, which each call changes as the map's operation would, with the     *)
(* prefix and role it is called with (AclIsPolicyMap).  What carries a     *)
(* decision, the report of a change or a list to the moment the answer is  *)
(* sent is that a request remembers what it has seen (Holds, StillHolds).  *)
(***************************************************************************)
EXTENDS LoginProofs, AclPolicy

-----------------------------------------------------------------------------
(* The rule authorize() decides by. *)

LEMMA PrefixPointwise ==
  ASSUME NEW s \in Seq(STRING), NEW t \in Seq(STRING)
  PROVE  IsPrefix(s, t) <=> Len(s) <= Len(t) /\ \A i \in 1..Len(s) : s[i] = t[i]
<1>1. /\ Len(s) \in Nat /\ Len(t) \in Nat
      /\ SubSeq(s, 1, Len(s)) = s
      /\ \A i \in 1..Len(s) : s[i] \in STRING
      /\ \A i \in 1..Len(t) : t[i] \in STRING
  BY LenProperties, SubSeqFull
<1>2. ASSUME Len(s) <= Len(t)
      PROVE  /\ SubSeq(t, 1, Len(s)) \in Seq(STRING)
             /\ Len(SubSeq(t, 1, Len(s))) = Len(s)
             /\ \A i \in 1..Len(s) : SubSeq(t, 1, Len(s))[i] = t[i]
  <2>1. \A i \in 1..Len(s) : t[i] \in STRING
    BY <1>1, <1>2
  <2>2. /\ SubSeq(t, 1, Len(s)) \in Seq(STRING)
        /\ Len(SubSeq(t, 1, Len(s))) = IF 1 <= Len(s) THEN Len(s) - 1 + 1 ELSE 0
        /\ \A i \in 1..(Len(s) - 1 + 1) : SubSeq(t, 1, Len(s))[i] = t[1 + i - 1]
    BY <1>1, <2>1, SubSeqProperties
  <2> QED BY <1>1, <2>2
<1>3. ASSUME Len(s) <= Len(t), \A i \in 1..Len(s) : s[i] = t[i]
      PROVE  s = SubSeq(t, 1, Len(s))
  BY <1>2, <1>3, SeqEqual
<1> QED BY <1>1, <1>2, <1>3 DEF IsPrefix

\* Of two prefixes of a path the shorter is a prefix of the longer.
LEMMA PrefixesOfOne ==
  ASSUME NEW path \in Seq(STRING), NEW p \in Seq(STRING), NEW q \in Seq(STRING),
         IsPrefix(p, path), IsPrefix(q, path), Len(p) <= Len(q)
  PROVE  IsPrefix(p, q) /\ (Len(p) = Len(q) => p = q)
<1>1. /\ Len(p) \in Nat /\ Len(q) \in Nat
      /\ \A i \in 1..Len(p) : p[i] = path[i]
      /\ \A i \in 1..Len(q) : q[i] = path[i]
  BY LenProperties, PrefixPointwise
<1>2. \A i \in 1..Len(p) : p[i] = q[i]
  BY <1>1
<1> QED BY <1>1, <1>2, PrefixPointwise, SeqEqual

\* The search ends on the rule whose prefix extends every other that applies, or on
\* none because none applies.
LEMMA BestRule ==
  ASSUME RuleList(entries), NEW path \in Seq(STRING)
  PROVE  \/ /\ best(path) = 0
            /\ \A j \in DOMAIN entries : ~IsPrefix(entries[j].path_prefix, path)
         \/ /\ best(path) # 0 /\ best(path) \in DOMAIN entries
            /\ IsPrefix(entries[best(path)].path_prefix, path)
            /\ \A j \in DOMAIN entries : IsPrefix(entries[j].path_prefix, path) =>
                 IsPrefix(entries[j].path_prefix, entries[best(path)].path_prefix)
<1> DEFINE match == {i \in DOMAIN entries : IsPrefix(entries[i].path_prefix, path)}
           longest == {i \in match : \A j \in match :
                         Len(entries[j].path_prefix) <= Len(entries[i].path_prefix)}
           place == CHOOSE i \in longest : \A j \in longest : i <= j
           length == [i \in match |-> Len(entries[i].path_prefix)]
<1>1. best(path) = IF match = {} THEN 0 ELSE place
  BY DEF best
<1>2. /\ DOMAIN entries = 1..Len(entries) /\ Len(entries) \in Nat
      /\ \A i \in DOMAIN entries : entries[i].path_prefix \in Seq(STRING)
                                  /\ Len(entries[i].path_prefix) \in Nat
  BY RuleTypes DEF RuleList
<1>3. CASE match = {}
  BY <1>1, <1>3
<1>4. CASE match # {}
  <2>1. \A i \in match : length[i] \in Nat /\ length[i] <= Len(path)
    BY <1>2 DEF IsPrefix
  <2>2. longest = {i \in match : \A j \in match : length[j] <= length[i]}
    OBVIOUS
  <2>t. match \in SUBSET Nat /\ length \in [match -> Nat] /\ Len(path) \in Nat
    BY <1>2, <2>1, LenProperties
  <2>3. place \in longest
    <3> HIDE DEF match, length, longest
    <3>1. \E first \in longest : \A j \in longest : first <= j
      BY <1>4, <2>1, <2>2, <2>t, LongestHasFirst
    <3> QED BY <3>1
  <2>4. place \in match /\ \A j \in match : Len(entries[j].path_prefix) <= Len(entries[place].path_prefix)
    <3> HIDE DEF place
    <3> QED BY <2>3
  <2>5. best(path) = place
    BY <1>1, <1>4
  <2> HIDE DEF place
  <2>6. place # 0 /\ place \in DOMAIN entries /\ IsPrefix(entries[place].path_prefix, path)
    BY <1>2, <2>4
  <2>7. \A j \in DOMAIN entries : IsPrefix(entries[j].path_prefix, path) =>
          IsPrefix(entries[j].path_prefix, entries[place].path_prefix)
    BY <1>2, <2>4, <2>6, PrefixesOfOne
  <2> QED BY <2>5, <2>6, <2>7
<1> QED BY <1>3, <1>4

\* authorize() is what the rules say: the most specific one decides, and Admin passes.
LEMMA AuthorizeIsPermits ==
  ASSUME RuleList(entries), NEW path \in Seq(STRING), NEW role \in Role
  PROVE  authorize(role, path) <=> Permits(entries, role, path)
<1> DEFINE applies == {entries[i] : i \in {j \in DOMAIN entries : IsPrefix(entries[j].path_prefix, path)}}
           b == best(path)
<1>1. /\ \A i \in DOMAIN entries : entries[i].path_prefix \in Seq(STRING)
                                  /\ entries[i].min_role \in Role
                                  /\ Len(entries[i].path_prefix) \in Nat
      /\ OnePerPrefix(entries)
  BY RuleTypes DEF RuleList
<1>2. authorize(role, path) <=> (role >= (IF b = 0 THEN Admin ELSE entries[b].min_role))
  BY DEF authorize, role_satisfies
<1>3. Permits(entries, role, path) <=>
        (\/ role = Admin
         \/ \E e \in applies : /\ role >= e.min_role
                               /\ \A f \in applies : IsPrefix(f.path_prefix, e.path_prefix))
  BY DEF Permits
<1>4. \A r \in Role : r \in Int /\ (r >= Admin <=> r = Admin) /\ Admin >= r
  BY DEF Role, Admin, Guest
<1>5. CASE b = 0
  <2>1. applies = {}
    BY <1>5, BestRule
  <2> QED BY <1>2, <1>3, <1>4, <1>5, <2>1
<1>6. CASE b # 0
  <2>1. /\ b \in DOMAIN entries /\ IsPrefix(entries[b].path_prefix, path)
        /\ \A j \in DOMAIN entries : IsPrefix(entries[j].path_prefix, path) =>
             IsPrefix(entries[j].path_prefix, entries[b].path_prefix)
    BY <1>6, BestRule
  <2> HIDE DEF b
  <2>2. entries[b] \in applies /\ \A f \in applies : IsPrefix(f.path_prefix, entries[b].path_prefix)
    BY <2>1
  <2>3. ASSUME NEW e \in applies, \A f \in applies : IsPrefix(f.path_prefix, e.path_prefix)
        PROVE  e = entries[b]
    <3>1. PICK i \in DOMAIN entries : e = entries[i] /\ IsPrefix(entries[i].path_prefix, path)
      OBVIOUS
    <3>2. /\ IsPrefix(entries[b].path_prefix, entries[i].path_prefix)
          /\ IsPrefix(entries[i].path_prefix, entries[b].path_prefix)
      BY <2>1, <2>2, <2>3, <3>1
    <3>3. Len(entries[b].path_prefix) = Len(entries[i].path_prefix)
      BY <1>1, <2>1, <3>1, <3>2 DEF IsPrefix
    <3>4. entries[i].path_prefix = entries[b].path_prefix
      BY <1>1, <2>1, <3>1, <3>3, PrefixesOfOne
    <3> QED BY <1>1, <2>1, <3>1, <3>4 DEF OnePerPrefix
  <2>4. (\E e \in applies : /\ role >= e.min_role
                            /\ \A f \in applies : IsPrefix(f.path_prefix, e.path_prefix))
          <=> role >= entries[b].min_role
    <3> HIDE DEF applies
    <3> QED BY <2>2, <2>3
  <2> HIDE DEF applies
  <2> QED BY <1>1, <1>2, <1>3, <1>4, <1>6, <2>1, <2>4
<1> QED BY <1>5, <1>6

-----------------------------------------------------------------------------
(* What a worker holds from its request to its answer. *)

Deciding == {"check", "file"}

Listers == {"acl_list", "user_list"}

Holds(w) ==
  /\ pc[w] \in {"idle", "lookup"} => route[w] = None
  /\ pc[w] \in {"idle", "lookup", "gate"} => entry[w] = None
  /\ pc[w] = "verify" => route[w].handler = "login"
  /\ pc[w] = "authorize" => /\ entry[w] # None /\ route[w].handler \in Deciding
                            /\ route[w].handler = "check" => req[w].uri # None
  /\ pc[w] = "respond" =>
       /\ route[w] # None /\ route[w].handler \in Deciding => Justified(w)
       /\ entry[w] # None => Reported(w)

DecisionInv == RuleList(entries) /\ \A w \in Workers : Holds(w)

\* What a request has seen it goes on having seen.
LEMMA SeenStays ==
  ASSUME Observe, NEW v \in Workers, req'[v] # None
  PROVE  /\ seen[v].users \subseteq seen'[v].users /\ users' \in seen'[v].users
         /\ seen[v].rules \subseteq seen'[v].rules /\ entries' \in seen'[v].rules
BY DEF Observe

LEMMA StillHolds ==
  ASSUME Inv, DecisionInv, Observe, NEW v \in Workers,
         pc'[v] = pc[v], req'[v] = req[v], route'[v] = route[v],
         entry'[v] = entry[v], reply'[v] = reply[v]
  PROVE  Holds(v)'
<1>1. Holds(v)
  BY DEF DecisionInv
<1>2. CASE pc[v] # "respond"
  BY <1>1, <1>2 DEF Holds
<1>3. CASE pc[v] = "respond"
  <2>1. seen[v].users \subseteq seen'[v].users /\ seen[v].rules \subseteq seen'[v].rules
    BY <1>3, SeenStays DEF Inv, Types
  <2>2. guarded_path(v)' = guarded_path(v)
    BY DEF guarded_path
  <2>3. Justified(v) => Justified(v)'
    BY <2>1, <2>2 DEF Justified
  <2>4. Reported(v) => Reported(v)'
    BY <2>1 DEF Reported
  <2> QED BY <1>1, <1>3, <2>3, <2>4 DEF Holds
<1> QED BY <1>2, <1>3

\* A worker goes on to another stage.
LEMMA GoesOnStep ==
  ASSUME Inv, DecisionInv, Observe, NEW w \in Workers, NEW stage \in Stage \ {"respond"},
         pc' = [pc EXCEPT ![w] = stage], UNCHANGED <<entries, reply>>,
         \A v \in Workers \ {w} : req'[v] = req[v] /\ route'[v] = route[v] /\ entry'[v] = entry[v],
         stage \in {"idle", "lookup"} => route'[w] = None,
         stage \in {"idle", "lookup", "gate"} => entry'[w] = None,
         stage = "verify" => route'[w].handler = "login",
         stage = "authorize" => /\ entry'[w] # None /\ route'[w].handler \in Deciding
                                /\ route'[w].handler = "check" => req'[w].uri # None
  PROVE  DecisionInv'
<1>1. pc'[w] = stage /\ \A v \in Workers \ {w} : pc'[v] = pc[v]
  BY DEF Inv, Types
<1>2. Holds(w)'
  BY <1>1 DEF Holds
<1>3. RuleList(entries)'
  BY DEF DecisionInv
<1> QED BY <1>1, <1>2, <1>3, StillHolds DEF DecisionInv

\* A worker answers.
LEMMA AnswerStep ==
  ASSUME Inv, LoginInv, DecisionInv, Observe, NEW w \in Workers, NEW status, NEW session,
         NEW body, answer_with(w, status, session, body), UNCHANGED <<req, route>>, RuleList(entries'),
         \A v \in Workers \ {w} : entry'[v] = entry[v],
         (/\ pc'[w] = "respond" /\ reply'[w].status = status
          /\ route[w] # None /\ route[w].handler \in Deciding) => Justified(w)',
         (pc'[w] = "respond" /\ reply'[w].status = status /\ entry'[w] # None) => Reported(w)'
  PROVE  DecisionInv'
<1>1. /\ pc'[w] = "respond" /\ reply'[w].status = status
      /\ \A v \in Workers \ {w} : pc'[v] = pc[v] /\ reply'[v] = reply[v]
  BY DEF answer_with, goto, Inv, Types, LoginInv, RepliesAtEnd
<1>2. Holds(w)'
  BY <1>1 DEF Holds
<1> QED BY <1>1, <1>2, StillHolds DEF DecisionInv

\* Answers of handlers that report no change and consult no rules.
LEMMA PlainAnswer ==
  ASSUME Inv, LoginInv, DecisionInv, Observe, NEW w \in Workers, NEW status, NEW session,
         NEW body, answer_with(w, status, session, body), UNCHANGED <<req, route, entry, entries>>,
         route[w].handler \notin Deciding, route[w].handler \notin Managing \cup Listers
  PROVE  DecisionInv'
<1>1. Reported(w)'
  BY DEF Reported, Managing, Listers
<1>2. RuleList(entries')
  BY DEF DecisionInv
<1> QED BY <1>1, <1>2, AnswerStep

-----------------------------------------------------------------------------
(* The steps of a worker. *)

\* Before a handler runs: no entry goes with an answer.
LEMMA DispatchDecides ==
  ASSUME Inv, LoginInv, DecisionInv, Observe, NEW w \in Workers, Lookup(w) \/ Gate(w)
  PROVE  DecisionInv'
<1> USE DEF UNCHANGED_stores, UNCHANGED_request
<1>1. RuleList(entries) /\ Holds(w)
  BY DEF DecisionInv
<1>2. CASE Lookup(w)
  <2>1. pc[w] = "lookup" /\ UNCHANGED <<req, entries, entry>>
    BY <1>2 DEF Lookup
  <2>2. entry[w] = None /\ route[w] = None
    BY <1>1, <2>1 DEF Holds
  <2>3. CASE answer(w, 404) /\ UNCHANGED route
    BY <1>1, <2>1, <2>2, <2>3, AnswerStep DEF answer
  <2>4. ASSUME NEW r, NEW stage \in {"gate", "handle"},
               goto(w, stage), route' = [route EXCEPT ![w] = r], UNCHANGED reply
        PROVE  DecisionInv'
    <3>1. stage \in Stage \ {"respond"} /\ stage \notin {"idle", "lookup", "verify", "authorize"}
      BY DEF Stage
    <3>2. \A v \in Workers \ {w} : req'[v] = req[v] /\ route'[v] = route[v] /\ entry'[v] = entry[v]
      BY <2>1, <2>4
    <3>3. pc' = [pc EXCEPT ![w] = stage] /\ entry'[w] = None /\ UNCHANGED <<entries, reply>>
      BY <2>1, <2>2, <2>4 DEF goto
    <3> QED BY <3>1, <3>2, <3>3, GoesOnStep
  <2> QED BY <1>2, <2>3, <2>4 DEF Lookup
<1>3. CASE Gate(w)
  <2>1. pc[w] = "gate" /\ UNCHANGED <<req, route, entries>>
    BY <1>3 DEF Gate
  <2>2. entry[w] = None
    BY <1>1, <2>1 DEF Holds
  <2>3. ASSUME NEW status \in {401, 403}, answer(w, status), UNCHANGED entry
        PROVE  DecisionInv'
    <3>1. reply'[w].status = status => Justified(w)'
      BY <2>2, <2>3 DEF Justified
    <3> QED BY <1>1, <2>1, <2>2, <2>3, <3>1, AnswerStep DEF answer
  <2>4. ASSUME NEW e, goto(w, "handle"), entry' = [entry EXCEPT ![w] = e], UNCHANGED reply
        PROVE  DecisionInv'
    <3>1. "handle" \in Stage \ {"respond"} /\ "handle" \notin {"idle", "lookup", "gate", "verify", "authorize"}
      BY DEF Stage
    <3>2. \A v \in Workers \ {w} : req'[v] = req[v] /\ route'[v] = route[v] /\ entry'[v] = entry[v]
      BY <2>1, <2>4
    <3> QED BY <2>1, <2>4, <3>1, <3>2, GoesOnStep DEF goto
  <2> QED BY <1>3, <2>3, <2>4 DEF Gate
<1> QED BY <1>2, <1>3

LEMMA LoginDecides ==
  ASSUME Inv, LoginInv, DecisionInv, Observe, NEW w \in Workers,
         LoginFetch(w) \/ LoginIssue(w) \/ Logout(w)
  PROVE  DecisionInv'
<1>1. /\ UNCHANGED <<req, route, entry, entries>>
      /\ pc[w] \in {"handle", "verify"}
  BY DEF LoginFetch, LoginIssue, Logout, handling, only_answers,
         UNCHANGED_stores, UNCHANGED_request, UNCHANGED_copies
<1>2. route[w].handler \in {"login", "logout"}
  BY DEF LoginFetch, LoginIssue, Logout, handling, DecisionInv, Holds
<1>3. \/ \E status, session, body : answer_with(w, status, session, body)
      \/ goto(w, "verify") /\ route[w].handler = "login" /\ UNCHANGED reply
  BY DEF LoginFetch, LoginIssue, Logout, handling, answer
<1>4. CASE goto(w, "verify") /\ route[w].handler = "login" /\ UNCHANGED reply
  <2>1. "verify" \in Stage \ {"respond"} /\ "verify" \notin {"idle", "lookup", "gate", "authorize"}
    BY DEF Stage
  <2>2. pc' = [pc EXCEPT ![w] = "verify"]
    BY <1>4 DEF goto
  <2> QED BY <1>1, <1>4, <2>1, <2>2, GoesOnStep
<1>5. route[w].handler \notin Deciding /\ route[w].handler \notin Managing \cup Listers
  BY <1>2 DEF Deciding, Managing, Listers
<1> QED BY <1>1, <1>3, <1>4, <1>5, PlainAnswer

LEMMA PlainDecides ==
  ASSUME Inv, LoginInv, DecisionInv, Observe, NEW w \in Workers, AppHandler(w)
  PROVE  DecisionInv'
<1>1. UNCHANGED <<req, route, entry, entries>> /\ \E status : answer_with(w, status, None, None)
  BY DEF AppHandler, answer, only_answers, UNCHANGED_stores, UNCHANGED_request, UNCHANGED_copies
<1>2. route[w].handler \notin Deciding /\ route[w].handler \notin Managing \cup Listers
  BY DEF AppHandler, AppHandlers, handling, Deciding, Managing, Listers
<1> QED BY <1>1, <1>2, PlainAnswer

\* A list is the whole of what its store holds at that instant.
LEMMA ListDecides ==
  ASSUME Inv, LoginInv, DecisionInv, Observe, NEW w \in Workers,
         AdminAclList(w) \/ AdminUserList(w)
  PROVE  DecisionInv'
<1>1. /\ pc[w] = "handle" /\ route[w].handler \in Listers
      /\ UNCHANGED <<users, req, route, entry, entries>>
  BY DEF AdminAclList, AdminUserList, handling, Listers, only_answers,
         UNCHANGED_stores, UNCHANGED_request, UNCHANGED_copies
<1>2. users \in seen'[w].users /\ entries \in seen'[w].rules
  BY <1>1, SeenStays DEF Inv, Types
<1>3. PICK list :
        /\ answer_with(w, 200, None, list)
        /\ route[w].handler = "acl_list" => list = entries
        /\ route[w].handler = "user_list" => list = roles_of(users)
  BY DEF AdminAclList, AdminUserList, handling, list_users
<1>4. reply'[w].body = list
  BY <1>1, <1>3 DEF answer_with, LoginInv, RepliesAtEnd
<1>5. Reported(w)'
  BY <1>1, <1>2, <1>3, <1>4 DEF Reported, Listers
<1>6. route[w].handler \notin Deciding /\ RuleList(entries')
  BY <1>1 DEF Deciding, Listers, DecisionInv
<1> QED BY <1>1, <1>3, <1>5, <1>6, AnswerStep

\* The session is looked at first: without one the answer is a refusal.
LEMMA ValidateDecides ==
  ASSUME Inv, LoginInv, DecisionInv, Observe, NEW w \in Workers, Validate(w)
  PROVE  DecisionInv'
<1>1. /\ pc[w] = "handle" /\ route[w].handler \in Deciding
      /\ UNCHANGED <<req, route, entries>>
      /\ \A v \in Workers \ {w} : entry'[v] = entry[v]
  BY DEF Validate, handling, Deciding, UNCHANGED_stores, UNCHANGED_request, Inv, Types
<1>2. RuleList(entries')
  BY <1>1 DEF DecisionInv
<1>3. Reported(w)'
  BY <1>1 DEF Reported, Deciding
<1>4. ASSUME NEW status \in {302, 401}, answer(w, status) PROVE DecisionInv'
  <2>1. reply'[w].status = status => Justified(w)'
    BY <1>4 DEF Justified
  <2> QED BY <1>1, <1>2, <1>3, <1>4, <2>1, AnswerStep DEF answer
<1> DEFINE e == validated_token(w)
<1>5. ASSUME e # None, entry' = [entry EXCEPT ![w] = e] PROVE entry'[w] # None
  BY <1>5 DEF Inv, Types
<1>6. ASSUME e # None, entry' = [entry EXCEPT ![w] = e],
             route[w].handler = "check", req[w].uri = None, answer(w, 200)
      PROVE  DecisionInv'
  <2>1. guarded_path(w)' = None
    BY <1>1, <1>6 DEF guarded_path
  <2>2. Justified(w)'
    BY <1>5, <1>6, <2>1 DEF Justified
  <2> QED BY <1>1, <1>2, <1>3, <1>6, <2>2, AnswerStep DEF answer
<1>7. ASSUME e # None, entry' = [entry EXCEPT ![w] = e], goto(w, "authorize"), UNCHANGED reply,
             route[w].handler = "file" \/ req[w].uri # None
      PROVE  DecisionInv'
  <2>1. "authorize" \in Stage \ {"respond"} /\ "authorize" \notin {"idle", "lookup", "gate", "verify"}
    BY DEF Stage
  <2>2. pc' = [pc EXCEPT ![w] = "authorize"]
    BY <1>7 DEF goto
  <2> QED BY <1>1, <1>5, <1>7, <2>1, <2>2, GoesOnStep
<1> HIDE DEF e
<1> QED BY <1>4, <1>6, <1>7 DEF Validate, e

\* The list is consulted last: the answer is what its rules say at that instant.
LEMMA AuthorizeDecides ==
  ASSUME Inv, LoginInv, DecisionInv, Observe, NEW w \in Workers, Authorize(w)
  PROVE  DecisionInv'
<1> DEFINE path == guarded_path(w)
           role == entry[w].role
<1>1. pc[w] = "authorize" /\ UNCHANGED <<req, route, entry, entries>>
  BY DEF Authorize, only_answers, UNCHANGED_stores, UNCHANGED_request, UNCHANGED_copies
<1>2. /\ RuleList(entries) /\ entry[w] # None /\ route[w].handler \in Deciding
      /\ route[w].handler = "check" => req[w].uri # None
  BY <1>1 DEF DecisionInv, Holds
<1>3. path \in Seq(STRING) /\ role \in Role
  <2>1. req[w] \in Request
    BY <1>1, EngineAssumption DEF Inv, Types
  <2>2. path_of(req[w].target) \in Seq(STRING)
    BY <2>1, PathIsSequence DEF Request
  <2>3. req[w].uri \in Seq(STRING) \cup {None}
    BY <2>1, RouteAssumption DEF Request
  <2>4. role \in Role
    BY <1>2 DEF Inv, Types, TokenEntry
  <2> QED BY <1>2, <2>2, <2>3, <2>4 DEF guarded_path
<1>4. authorize(role, path) <=> Permits(entries, role, path)
  BY <1>2, <1>3, AuthorizeIsPermits
<1>5. guarded_path(w)' = path
  BY <1>1 DEF guarded_path
<1>6. entries \in seen'[w].rules
  BY <1>1, SeenStays DEF Inv, Types
<1>7. Reported(w)'
  BY <1>1, <1>2 DEF Reported, Deciding
<1>8. ASSUME NEW status \in {200, 403, 404}, answer(w, status),
             \/ (status \in {200, 404}) <=> authorize(role, path)
             \/ status = 403 /\ ".." \in Range(path)
      PROVE  DecisionInv'
  <2>1. reply'[w].status = status => Justified(w)'
    BY <1>1, <1>2, <1>4, <1>5, <1>6, <1>8 DEF Justified
  <2> QED BY <1>1, <1>2, <1>7, <1>8, <2>1, AnswerStep DEF answer
<1>9. \E status \in {200, 403, 404} :
        /\ answer(w, status)
        /\ \/ (status \in {200, 404}) <=> authorize(role, path)
           \/ status = 403 /\ ".." \in Range(path)
  BY DEF Authorize
<1> QED BY <1>8, <1>9

\* A management call that changes a store reports what is there once it has.
LEMMA ManageDecides ==
  ASSUME Inv, LoginInv, DecisionInv, Observe, NEW w \in Workers,
         \/ AdminAclSet(w) \/ AdminAclRemove(w)
         \/ AdminUserAdd(w) \/ AdminUserRemove(w) \/ AdminUserRole(w)
  PROVE  DecisionInv'
<1> DEFINE h == route[w].handler
           u == req[w].username
<1>1. /\ pc[w] = "handle" /\ h \in Managing /\ UNCHANGED <<req, route, entry>>
      /\ RuleList(entries) /\ users \in [Names -> UserRecord \cup {None}]
  BY DEF AdminAclSet, AdminAclRemove, AdminUserAdd, AdminUserRemove, AdminUserRole, handling,
         Managing, only_answers, UNCHANGED_request, UNCHANGED_copies, DecisionInv, Inv, Types
<1>2. /\ u \in Names \cup {None} /\ req[w].password \in Passwords \cup {None}
      /\ req[w].prefix \in RulePaths \cup {None} /\ req[w].role \in OptionalRole
  <2>1. req[w] \in Request
    BY <1>1, EngineAssumption DEF Inv, Types
  <2> QED BY <2>1 DEF Request
<1>3. users' \in seen'[w].users /\ entries' \in seen'[w].rules
  BY <1>1, SeenStays DEF Inv, Types
<1>4. h \notin Deciding
  BY <1>1 DEF Managing, Deciding
\* A call that is refused, or fails, reports nothing.
<1>5. ASSUME NEW status \in {400, 500}, answer(w, status), UNCHANGED entries
      PROVE  DecisionInv'
  <2>1. reply'[w].status = status => Reported(w)'
    BY <1>5 DEF Reported
  <2> QED BY <1>1, <1>4, <1>5, <2>1, AnswerStep DEF answer
<1>6. CASE AdminAclSet(w)
  <2>1. ASSUME req[w].prefix # None, req[w].role # NoRole,
               acl_set(req[w].prefix, req[w].role), answer(w, 200)
        PROVE  DecisionInv'
    <3> DEFINE new == [path_prefix |-> req[w].prefix, min_role |-> req[w].role]
    <3>1. req[w].prefix \in RulePaths /\ req[w].role \in Role
      BY <1>2, <2>1 DEF OptionalRole
    <3>2. /\ RuleList(entries')
          /\ \A i \in DOMAIN entries' :
               entries'[i].path_prefix = req[w].prefix => entries'[i].min_role = req[w].role
          /\ \E i \in DOMAIN entries' : entries'[i] = new
      BY <1>1, <2>1, <3>1, SetRules
    <3>3. \A i \in DOMAIN entries' : entries'[i].path_prefix = req[w].prefix => entries'[i] = new
      <4>1. \A i \in DOMAIN entries' : entries'[i] \in AclEntry
        BY <3>2, RuleTypes DEF RuleList
      <4> QED BY <3>2, <4>1 DEF AclEntry
    <3>4. {entries'[i] : i \in {j \in DOMAIN entries' : entries'[j].path_prefix = req[w].prefix}} = {new}
      <4>1. new.path_prefix = req[w].prefix
        OBVIOUS
      <4> HIDE DEF new
      <4> QED BY <3>2, <3>3, <4>1
    <3>5. Reported(w)'
      BY <1>1, <1>3, <1>6, <3>4 DEF Reported, AdminAclSet, handling
    <3> QED BY <1>1, <1>4, <2>1, <3>2, <3>5, AnswerStep DEF answer
  <2> QED BY <1>5, <1>6, <2>1 DEF AdminAclSet
<1>7. CASE AdminAclRemove(w)
  <2>1. ASSUME req[w].prefix # None, acl_remove(req[w].prefix), answer(w, 200)
        PROVE  DecisionInv'
    <3>1. req[w].prefix \in RulePaths
      BY <1>2, <2>1
    <3>2. /\ RuleList(entries')
          /\ \A i \in DOMAIN entries' : entries'[i].path_prefix # req[w].prefix
      BY <1>1, <2>1, <3>1, RemoveRules
    <3>3. Reported(w)'
      BY <1>1, <1>3, <1>7, <3>2 DEF Reported, AdminAclRemove, handling
    <3> QED BY <1>1, <1>4, <2>1, <3>2, <3>3, AnswerStep DEF answer
  <2> QED BY <1>5, <1>7, <2>1 DEF AdminAclRemove
<1>8. ASSUME NEW status, answer(w, status), UNCHANGED entries,
             reply'[w].status = status => Reported(w)'
      PROVE  DecisionInv'
  BY <1>1, <1>4, <1>8, AnswerStep DEF answer
<1>9. CASE AdminUserAdd(w)
  <2>1. ASSUME u # None, seed_user(u, req[w].password, req[w].role), answer(w, 200), UNCHANGED entries
        PROVE  DecisionInv'
    <3>1. users'[u] = [password |-> req[w].password, role |-> req[w].role]
      BY <1>1, <1>2, <2>1 DEF seed_user
    <3>2. Reported(w)'
      BY <1>1, <1>3, <1>9, <3>1 DEF Reported, AdminUserAdd, handling
    <3> QED BY <1>8, <2>1, <3>2
  <2> QED BY <1>5, <1>9, <2>1 DEF AdminUserAdd
<1>10. ASSUME AdminUserRemove(w) \/ AdminUserRole(w), NEW status \in {200, 404},
              answer(w, status), UNCHANGED entries, users'[u] = None,
              h = "user_role" => status = 404
       PROVE  DecisionInv'
  <2>1. h \in {"user_remove", "user_role"}
    BY <1>10 DEF AdminUserRemove, AdminUserRole, handling
  <2>2. reply'[w].status = status => Reported(w)'
    BY <1>1, <1>3, <1>10, <2>1 DEF Reported
  <2> QED BY <1>8, <1>10, <2>2
<1>11. CASE AdminUserRemove(w)
  <2>1. ASSUME u # None, no_such_user(u) \/ remove_user(u) PROVE users'[u] = None
    BY <1>1, <1>2, <2>1 DEF no_such_user, remove_user
  <2>2. h # "user_role" /\ UNCHANGED entries
    BY <1>11 DEF AdminUserRemove, handling
  <2> QED BY <1>5, <1>10, <1>11, <2>1, <2>2 DEF AdminUserRemove
<1>12. CASE AdminUserRole(w)
  <2>0. UNCHANGED entries /\ h = "user_role"
    BY <1>12 DEF AdminUserRole, handling
  <2>1. ASSUME u # None, no_such_user(u), answer(w, 404) PROVE DecisionInv'
    BY <1>10, <1>12, <2>0, <2>1 DEF no_such_user
  <2>2. ASSUME u # None, req[w].role # NoRole, set_user_role(u, req[w].role), answer(w, 200)
        PROVE  DecisionInv'
    <3>1. users[u] # None /\ users[u] \in UserRecord /\ u \in Names
      BY <1>1, <1>2, <2>2 DEF set_user_role
    <3>2. users'[u] = [users[u] EXCEPT !.role = req[w].role]
      BY <1>1, <2>2, <3>1 DEF set_user_role
    <3>3. users'[u] \in UserRecord /\ users'[u].role = req[w].role
      BY <1>2, <2>2, <3>1, <3>2 DEF UserRecord, OptionalRole
    <3>4. users'[u] # None
      BY <3>3, UserAssumption
    <3>5. reply'[w].status = 200 => Reported(w)'
      BY <1>1, <1>3, <2>0, <3>3, <3>4 DEF Reported
    <3> QED BY <1>8, <2>0, <2>2, <3>5
  <2> QED BY <1>5, <1>12, <2>0, <2>1, <2>2 DEF AdminUserRole
<1> QED BY <1>6, <1>7, <1>9, <1>11, <1>12

-----------------------------------------------------------------------------

LEMMA BeginDecides ==
  ASSUME Inv, DecisionInv, NEW w \in Workers, H_Begin(w)
  PROVE  DecisionInv'
<1>1. /\ Observe /\ pc[w] = "idle"
      /\ pc' = [pc EXCEPT ![w] = "lookup"]
      /\ UNCHANGED <<entries, route, entry, reply>>
      /\ \A v \in Workers \ {w} : req'[v] = req[v]
  BY DEF H_Begin, Begin, goto, UNCHANGED_stores, UNCHANGED_copies, Inv, Types
<1>2. route[w] = None /\ entry[w] = None
  BY <1>1 DEF DecisionInv, Holds
<1>3. "lookup" \in Stage \ {"respond"} /\ "lookup" \notin {"verify", "authorize"}
  BY DEF Stage
<1> QED BY <1>1, <1>2, <1>3, GoesOnStep

LEMMA DeliverDecides ==
  ASSUME Inv, RouteInv, LoginInv, DecisionInv, Observe, NEW w \in Workers, Deliver(w)
  PROVE  DecisionInv'
<1>1. /\ UNCHANGED entries
      /\ pc' = [pc EXCEPT ![w] = "idle"]
      /\ req' = [req EXCEPT ![w] = None]
      /\ route' = [route EXCEPT ![w] = None]
      /\ entry' = [entry EXCEPT ![w] = None]
      /\ reply' = [reply EXCEPT ![w] = None]
  BY DEF Deliver, goto, UNCHANGED_stores
<1>2. /\ \A v \in Workers \ {w} : /\ pc'[v] = pc[v] /\ req'[v] = req[v] /\ route'[v] = route[v]
                                 /\ entry'[v] = entry[v] /\ reply'[v] = reply[v]
      /\ pc'[w] = "idle" /\ route'[w] = None /\ entry'[w] = None
  BY <1>1 DEF Inv, Types, RouteInv, LoginInv, RepliesAtEnd
<1>3. Holds(w)'
  BY <1>2 DEF Holds
<1> QED BY <1>1, <1>2, <1>3, StillHolds DEF DecisionInv

\* What the application protects, or no longer does, leaves a list of rules.
LEMMA ConfigureRules ==
  ASSUME RuleList(entries), Configure
  PROVE  RuleList(entries')
<1>1. ASSUME NEW r \in LateRules PROVE r.path_prefix \in RulePaths /\ r.min_role \in Role
  BY EngineAssumption DEF AclEntry
<1>2. CASE \E r \in LateRules : ProtectPath(r)
  BY <1>1, <1>2, SetRules DEF ProtectPath
<1>3. CASE \E r \in LateRules : UnprotectPath(r)
  BY <1>1, <1>3, RemoveRules DEF UnprotectPath
<1>4. CASE UNCHANGED entries
  BY <1>4
<1> QED BY <1>2, <1>3, <1>4 DEF Configure, AddApi, ServeProtectedFiles, SetApiRole

LEMMA DecisionNext ==
  ASSUME Inv, RouteInv, LoginInv, DecisionInv, [H_Next]_hvars
  PROVE  DecisionInv'
<1>1. ASSUME NEW w \in Workers, H_Begin(w) PROVE DecisionInv'
  BY <1>1, BeginDecides
<1>2. ASSUME NEW w \in Workers, H_LoginIssue(w) \/ H_Logout(w) PROVE DecisionInv'
  BY <1>2, LoginDecides DEF H_LoginIssue, H_Logout
<1>3. ASSUME NEW w \in Workers, Unrecorded(w), Observe PROVE DecisionInv'
  BY <1>3, DispatchDecides, LoginDecides, PlainDecides, ListDecides, ValidateDecides, AuthorizeDecides,
     ManageDecides, DeliverDecides DEF Unrecorded
<1>4. ASSUME UNCHANGED worker_vars, Observe, RuleList(entries') PROVE DecisionInv'
  BY <1>4, StillHolds DEF worker_vars, DecisionInv
<1>5. ASSUME Configure, Observe PROVE DecisionInv'
  <2>1. UNCHANGED worker_vars
    BY <1>5 DEF Configure, AddApi, ServeProtectedFiles, SetApiRole, ProtectPath, UnprotectPath
  <2> QED BY <1>4, <1>5, <2>1, ConfigureRules DEF DecisionInv
<1>6. ASSUME Clock, Observe PROVE DecisionInv'
  BY <1>4, <1>6 DEF Clock, DecisionInv
<1>7. ASSUME UNCHANGED hvars PROVE DecisionInv'
  <2> SUFFICES ASSUME NEW v \in Workers PROVE Holds(v)'
    BY <1>7 DEF hvars, vars, DecisionInv
  <2>1. guarded_path(v)' = guarded_path(v)
    BY <1>7 DEF hvars, vars, guarded_path
  <2>2. Justified(v)' <=> Justified(v)
    BY <1>7, <2>1 DEF hvars, vars, Justified
  <2>3. Reported(v)' <=> Reported(v)
    BY <1>7 DEF hvars, vars, Reported
  <2> QED BY <1>7, <2>2, <2>3 DEF hvars, vars, DecisionInv, Holds
<1> QED BY <1>1, <1>2, <1>3, <1>5, <1>6, <1>7 DEF H_Next

LEMMA DecisionInit ==
  ASSUME H_Init
  PROVE  DecisionInv
<1>1. RuleList(entries)
  BY EngineAssumption DEF H_Init, Init, RuleList, OnePerPrefix
<1> QED BY <1>1 DEF H_Init, Init, DecisionInv, Holds

LEMMA DecisionInvariant == H_Spec => []DecisionInv
<1>1. H_Init => DecisionInv
  BY DecisionInit
<1>2. Inv /\ RouteInv /\ LoginInv /\ DecisionInv /\ [H_Next]_hvars => DecisionInv'
  BY DecisionNext
<1> QED BY <1>1, <1>2, SessionInvariant, RouteInvariant, LoginInvariant, PTL DEF H_Spec

\* What /auth-check or a protected file's handler answers an admitted user is what the
\* rules of one instant of the request say, however they change under it, unless the
\* session ended on the way (Acl::authorize, handle_check, handle_protected_file).
THEOREM DecisionJustifiedAlways == H_Spec => []DecisionJustified
<1>1. DecisionInv => DecisionJustified
  BY DEF DecisionInv, Holds, Deciding, DecisionJustified
<1> QED BY <1>1, DecisionInvariant, PTL

\* A management call reports what was so at one instant of its request: the change it
\* made, the user it did not find, or the whole list of users or of rules (the handlers
\* of enable_admin_endpoints).
THEOREM AnswersTrueAlways == H_Spec => []AnswersTrue
<1>1. DecisionInv => AnswersTrue
  BY DEF DecisionInv, Holds, AnswersTrue
<1> QED BY <1>1, DecisionInvariant, PTL

-----------------------------------------------------------------------------
(* Types. *)

\* The route a worker's request stands for is one of the table's.
RoutesFound == \A w \in Workers : req[w] # None => route_of(w) \in Route \cup {None}

LEMMA RouteOfType ==
  ASSUME Inv, RouteInv
  PROVE  RoutesFound
<1> SUFFICES ASSUME NEW w \in Workers, req[w] # None
             PROVE  route_of(w) \in Route \cup {None}
  BY DEF RoutesFound
<1>1. req[w] \in Request
  BY EngineAssumption DEF Inv, Types
<1>2. path_of(req[w].target) \in Seq(STRING)
  BY <1>1, PathIsSequence DEF Request
<1> QED BY <1>2, LookupType DEF RouteInv, route_of

\* What the requests have seen of the stores.
SeenType == seen \in [Workers -> Window]

LEMMA SeenTypeNext ==
  ASSUME SeenType, [H_Next]_hvars,
         Inv', RoutesFound', DecisionInv'
  PROVE  SeenType'
<1>1. CASE UNCHANGED hvars
  BY <1>1 DEF hvars, SeenType
<1>2. CASE Observe
  <2> SUFFICES ASSUME NEW w \in Workers PROVE seen'[w] \in Window
    BY <1>2 DEF Observe, SeenType
  <2>1. seen[w] \in Window
    BY DEF SeenType
  <2>2. users' \in [Names -> UserRecord \cup {None}] /\ entries' \in Seq(AclEntry)
    BY DEF Inv, Types, DecisionInv, RuleList
  <2>3. req'[w] # None => route_of(w)' \in Route \cup {None}
    BY DEF RoutesFound
  <2> QED BY <1>2, <2>1, <2>2, <2>3 DEF Observe, Window
<1> QED BY <1>1, <1>2 DEF H_Next, H_Begin, H_LoginIssue, H_Logout

\* The model's types, histories included.
THEOREM HistoryTypeOKAlways == H_Spec => []HistoryTypeOK
<1>1. H_Init => SeenType
  BY DEF H_Init, SeenType, Window
<1>2. Inv /\ RouteInv => RoutesFound
  BY RouteOfType
<1>3. SeenType /\ [H_Next]_hvars /\ Inv' /\ RoutesFound' /\ DecisionInv' => SeenType'
  BY SeenTypeNext
<1>4. Inv /\ RouteInv /\ LoginInv /\ DecisionInv /\ SeenType => HistoryTypeOK
  <2>1. Inv => TS_TypeOK /\ US_TypeOK
    BY DEF Inv, Types, StoreAgrees, TS_TypeOK, US_TypeOK
  <2>2. DecisionInv => Acl_TypeOK
    BY DEF DecisionInv, RuleList, Acl_TypeOK
  <2>3. Inv /\ RouteInv /\ LoginInv => RT_TypeOK /\ W_TypeOK
    BY DEF Inv, Types, RouteInv, LoginInv, RepliesAtEnd, W_TypeOK
  <2>4. Inv /\ SeenType => H_TypeOK
    BY DEF Inv, Types, SeenType, H_TypeOK
  <2> QED BY <2>1, <2>2, <2>3, <2>4 DEF HistoryTypeOK, TypeOK
<1> QED BY <1>1, <1>2, <1>3, <1>4, SessionInvariant, RouteInvariant, LoginInvariant,
           DecisionInvariant, PTL DEF H_Spec

-----------------------------------------------------------------------------
(* The list as a map from prefixes to roles. *)

\* role_of is the role of the one rule a prefix has.
RolesListed ==
  \A p \in RulePaths :
    /\ \A i \in DOMAIN entries : entries[i].path_prefix = p => role_of(p) = entries[i].min_role
    /\ (\A i \in DOMAIN entries : entries[i].path_prefix # p) => role_of(p) = NoRole

LEMMA RoleListed == RuleList(entries) => RolesListed
<1> SUFFICES ASSUME RuleList(entries), NEW p \in RulePaths
             PROVE  /\ \A i \in DOMAIN entries :
                         entries[i].path_prefix = p => role_of(p) = entries[i].min_role
                    /\ (\A i \in DOMAIN entries : entries[i].path_prefix # p) => role_of(p) = NoRole
  BY DEF RolesListed
<1> DEFINE at == {i \in DOMAIN entries : entries[i].path_prefix = p}
           one == CHOOSE i \in at : TRUE
<1>1. role_of(p) = IF at = {} THEN NoRole
                   ELSE IF \E i, j \in at : i # j THEN Twice
                   ELSE entries[one].min_role
  BY DEF role_of
<1>2. \A i, j \in at : i = j
  BY DEF RuleList, OnePerPrefix
<1>3. at # {} => one \in at
  OBVIOUS
<1>4. ASSUME NEW i \in DOMAIN entries, entries[i].path_prefix = p
      PROVE  role_of(p) = entries[i].min_role
  <2>1. i \in at
    BY <1>4
  <2> HIDE DEF at, one
  <2>2. one = i
    BY <1>2, <1>3, <2>1
  <2> QED BY <1>1, <1>2, <2>1, <2>2
<1>5. ASSUME \A i \in DOMAIN entries : entries[i].path_prefix # p
      PROVE  role_of(p) = NoRole
  <2>1. at = {}
    BY <1>5
  <2> HIDE DEF at, one
  <2> QED BY <1>1, <2>1
<1> QED BY <1>4, <1>5

LEMMA RoleOfType ==
  ASSUME RuleList(entries), RolesListed, NEW p \in RulePaths
  PROVE  role_of(p) \in Role \cup {NoRole}
<1>1. \A i \in DOMAIN entries : entries[i].min_role \in Role
  BY RuleTypes DEF RuleList
<1> QED BY <1>1 DEF RolesListed

\* set() and remove() are the map's.
LEMMA SetIsPolicySet ==
  ASSUME RuleList(entries), RolesListed, RolesListed', NEW p \in RulePaths, NEW r \in Role,
         acl_set(p, r), call' = [prefix |-> p, role |-> r]
  PROVE  Policy!Set(p, r)
<1>1. /\ \A i \in DOMAIN entries' : entries'[i].path_prefix = p => entries'[i].min_role = r
      /\ \E i \in DOMAIN entries' : entries'[i] = [path_prefix |-> p, min_role |-> r]
      /\ \A q \in RulePaths \ {p} : \A s :
           (\E i \in DOMAIN entries' : entries'[i].path_prefix = q /\ entries'[i].min_role = s)
             <=> \E i \in DOMAIN entries : entries[i].path_prefix = q /\ entries[i].min_role = s
  BY SetRules
<1>2. role_of(p)' = r
  <2>1. PICK i \in DOMAIN entries' : entries'[i] = [path_prefix |-> p, min_role |-> r]
    BY <1>1
  <2>2. entries'[i].path_prefix = p /\ entries'[i].min_role = r
    BY <2>1
  <2> QED BY <2>2 DEF RolesListed
<1>3. ASSUME NEW q \in RulePaths \ {p} PROVE role_of(q)' = role_of(q)
  BY <1>1 DEF RolesListed
<1>4. [q \in RulePaths |-> role_of(q)]' = [[q \in RulePaths |-> role_of(q)] EXCEPT ![p] = r]
  BY <1>2, <1>3
<1> QED BY <1>4 DEF Policy!Set

LEMMA RemoveIsPolicyRemove ==
  ASSUME RuleList(entries), RolesListed, RolesListed', NEW p \in RulePaths,
         acl_remove(p), call' = [prefix |-> p, role |-> NoRole]
  PROVE  Policy!Remove(p)
<1>1. /\ \A i \in DOMAIN entries' : entries'[i].path_prefix # p
      /\ \A q \in RulePaths \ {p} : \A s :
           (\E i \in DOMAIN entries' : entries'[i].path_prefix = q /\ entries'[i].min_role = s)
             <=> \E i \in DOMAIN entries : entries[i].path_prefix = q /\ entries[i].min_role = s
  BY RemoveRules
<1>2. role_of(p)' = NoRole
  BY <1>1 DEF RolesListed
<1>3. ASSUME NEW q \in RulePaths \ {p} PROVE role_of(q)' = role_of(q)
  BY <1>1 DEF RolesListed
<1>4. [q \in RulePaths |-> role_of(q)]' = [[q \in RulePaths |-> role_of(q)] EXCEPT ![p] = NoRole]
  BY <1>2, <1>3
<1> QED BY <1>4 DEF Policy!Remove

\* A management call that answers 200 makes the call its request names; one that does
\* not leaves the list alone.
LEMMA ManagementCalls ==
  ASSUME RulesInv, NEW w \in Workers, AdminAclSet(w) \/ AdminAclRemove(w)
  PROVE  \/ UNCHANGED entries
         \/ \E c \in RuleCall : Calls(c)
<1>1. req[w] \in Request /\ pc[w] = "handle"
  BY EngineAssumption DEF RulesInv, RequestsHeld, AdminAclSet, AdminAclRemove, handling
<1>2. /\ req[w].prefix # None => req[w].prefix \in RulePaths
      /\ req[w].role \in OptionalRole /\ NoRole \in OptionalRole
  BY <1>1 DEF Request, OptionalRole
<1>3. answer(w, 200) => reply'[w].status = 200
  BY DEF answer, answer_with, RulesInv, RequestsHeld
<1>4. CASE AdminAclSet(w)
  <2> DEFINE c == [prefix |-> req[w].prefix, role |-> req[w].role]
  <2>1. ASSUME req[w].prefix # None, answer(w, 200) PROVE c \in RuleCall /\ CallsSet(c)
    BY <1>2, <1>3, <1>4, <2>1 DEF RuleCall, CallsSet
  <2> QED BY <1>4, <2>1 DEF AdminAclSet, Calls
<1>5. CASE AdminAclRemove(w)
  <2> DEFINE c == [prefix |-> req[w].prefix, role |-> NoRole]
  <2>1. ASSUME req[w].prefix # None, answer(w, 200) PROVE c \in RuleCall /\ CallsRemove(c)
    BY <1>2, <1>3, <1>5, <2>1 DEF RuleCall, CallsRemove
  <2> QED BY <1>5, <2>1 DEF AdminAclRemove, Calls
<1> QED BY <1>4, <1>5

\* So does the application, and nobody else changes the list.
LEMMA OnlyCallsChange ==
  ASSUME RulesInv, [Next]_vars, \A c \in RuleCall : ~Calls(c)
  PROVE  UNCHANGED entries
<1>1. ASSUME NEW r \in LateRules, ProtectPath(r) \/ UnprotectPath(r)
      PROVE  \E c \in RuleCall : Calls(c)
  <2>1. r.path_prefix \in RulePaths /\ r.min_role \in OptionalRole /\ NoRole \in OptionalRole
    BY EngineAssumption DEF AclEntry, OptionalRole
  <2>2. CASE ProtectPath(r)
    <3> DEFINE c == [prefix |-> r.path_prefix, role |-> r.min_role]
    <3>1. c \in RuleCall /\ CallsSet(c)
      BY <2>1, <2>2 DEF RuleCall, CallsSet
    <3> QED BY <3>1 DEF Calls
  <2>3. CASE UnprotectPath(r)
    <3> DEFINE c == [prefix |-> r.path_prefix, role |-> NoRole]
    <3>1. c \in RuleCall /\ CallsRemove(c)
      BY <2>1, <2>3 DEF RuleCall, CallsRemove
    <3> QED BY <3>1 DEF Calls
  <2> QED BY <1>1, <2>2, <2>3
<1> QED BY <1>1, ManagementCalls, RulesChange

\* The call a step makes is the map's, with the same prefix and role.
LEMMA CallIsPolicyStep ==
  ASSUME RulesInv, RolesListed, RolesListed', NEW c \in RuleCall, Calls(c), call' = c
  PROVE  Policy!Next
<1>1. c.prefix \in RulePaths /\ c = [prefix |-> c.prefix, role |-> c.role] /\ RuleList(entries)
  BY DEF RuleCall, RulesInv
<1>2. \A r \in LateRules : r.min_role \in Role
  BY EngineAssumption DEF AclEntry
<1>3. CASE CallsSet(c)
  <2>1. c.role \in Role /\ acl_set(c.prefix, c.role)
    <3>1. ASSUME NEW w \in Workers, AdminAclSet(w), reply'[w].status = 200,
                 c = [prefix |-> req[w].prefix, role |-> req[w].role]
          PROVE  c.role \in Role /\ acl_set(c.prefix, c.role)
      <4>1. req[w] \in Request
        BY <3>1, EngineAssumption DEF RulesInv, RequestsHeld, AdminAclSet, handling
      <4>2. ~answer(w, 400)
        BY <3>1 DEF answer, answer_with, RulesInv, RequestsHeld
      <4>3. req[w].role # NoRole /\ acl_set(req[w].prefix, req[w].role)
        BY <3>1, <4>2 DEF AdminAclSet
      <4> QED BY <3>1, <4>1, <4>3 DEF Request, OptionalRole
    <3>2. ASSUME NEW r \in LateRules, ProtectPath(r),
                 c = [prefix |-> r.path_prefix, role |-> r.min_role]
          PROVE  c.role \in Role /\ acl_set(c.prefix, c.role)
      BY <1>2, <3>2 DEF ProtectPath
    <3> QED BY <1>3, <3>1, <3>2 DEF CallsSet
  <2>2. Policy!Set(c.prefix, c.role)
    BY <1>1, <2>1, SetIsPolicySet
  <2> QED BY <1>1, <2>1, <2>2 DEF Policy!Next
<1>4. CASE CallsRemove(c)
  <2>1. c.role = NoRole /\ acl_remove(c.prefix)
    <3>1. ASSUME NEW w \in Workers, AdminAclRemove(w), reply'[w].status = 200,
                 c = [prefix |-> req[w].prefix, role |-> NoRole]
          PROVE  c.role = NoRole /\ acl_remove(c.prefix)
      <4>1. ~answer(w, 400)
        BY <3>1 DEF answer, answer_with, RulesInv, RequestsHeld
      <4> QED BY <3>1, <4>1 DEF AdminAclRemove
    <3>2. ASSUME NEW r \in LateRules, UnprotectPath(r),
                 c = [prefix |-> r.path_prefix, role |-> NoRole]
          PROVE  c.role = NoRole /\ acl_remove(c.prefix)
      BY <3>2 DEF UnprotectPath
    <3> QED BY <1>4, <3>1, <3>2 DEF CallsRemove
  <2>2. Policy!Remove(c.prefix)
    BY <1>1, <2>1, RemoveIsPolicyRemove
  <2> QED BY <1>1, <2>2 DEF Policy!Next
<1> QED BY <1>3, <1>4 DEF Calls

LEMMA PolicyStep ==
  ASSUME RulesInv, RolesListed, RolesListed', [R_Next]_<<vars, call>>
  PROVE  [Policy!Next]_<<[p \in RulePaths |-> role_of(p)], call>>
<1>1. ASSUME UNCHANGED <<entries, call>>
      PROVE  UNCHANGED <<[p \in RulePaths |-> role_of(p)], call>>
  <2>1. \A p \in RulePaths : role_of(p)' = role_of(p)
    BY <1>1 DEF RolesListed
  <2> QED BY <1>1, <2>1
<1>2. CASE UNCHANGED <<vars, call>>
  BY <1>1, <1>2 DEF vars
<1>3. CASE \E c \in RuleCall : Calls(c) /\ call' = c
  BY <1>3, CallIsPolicyStep
<1>4. CASE Next /\ (\A c \in RuleCall : ~Calls(c)) /\ UNCHANGED call
  BY <1>1, <1>4, OnlyCallsChange
<1> QED BY <1>2, <1>3, <1>4 DEF R_Next, NoteCall

\* Nothing of this needs the histories.
LEMMA RulesAlways == R_Spec => []RulesInv
<1>1. RulesInv /\ [R_Next]_<<vars, call>> => RulesInv'
  BY RulesNext DEF R_Next
<1> QED BY <1>1, RulesInit, PTL DEF R_Spec

\* The access list is a map from prefixes to roles: each call of set() leaves the role
\* it names as the one role of its prefix, each call of remove() leaves none, no other
\* prefix changes, and nothing changes it but these calls, whoever makes them and in
\* whatever order (Acl::set, Acl::remove, and their callers).
THEOREM AclIsPolicyMap == R_Spec => IsPolicyMap
<1>1. RulesInv /\ RolesListed /\ call = None => Policy!Init
  BY RoleOfType DEF Policy!Init, RulesInv
<1>2. /\ RulesInv /\ RolesListed /\ RolesListed' /\ [R_Next]_<<vars, call>>
      => [Policy!Next]_<<[p \in RulePaths |-> role_of(p)], call>>
  BY PolicyStep
<1>3. RulesInv => RolesListed
  BY RoleListed DEF RulesInv
<1> QED BY <1>1, <1>2, <1>3, RulesAlways, PTL DEF R_Spec, IsPolicyMap, Policy!Spec

-----------------------------------------------------------------------------
(* Cutting a path shorter until a rule is met.                             *)
(*                                                                         *)
(* Needed is a recursive function of the lengths of a path's prefixes.     *)
(* That it exists, and what it is, is shown by looking at the least length *)
(* at which it would fail, since such facts hold of sets of numbers        *)
(* (LeastOf) and need no induction rule.                                   *)

\* given[n] is the role of the prefix of length n, NoRole when it has none.
IsCut(given, last, cut) ==
  cut = [n \in 0..last |-> IF given[n] # NoRole THEN given[n]
                           ELSE IF n = 0 THEN Admin ELSE cut[n - 1]]

LEMMA CutExists ==
  ASSUME NEW given, NEW last \in Nat
  PROVE  \E cut : IsCut(given, last, cut)
<1> USE DEF IsCut
<1> DEFINE Exists(m) == \E cut : IsCut(given, m, cut)
           bad == {m \in Nat : ~Exists(m)}
<1>1. Exists(0)
  <2> DEFINE f == [n \in 0..0 |-> IF given[n] # NoRole THEN given[n] ELSE Admin]
  <2>1. f = [n \in 0..0 |-> IF given[n] # NoRole THEN given[n]
                            ELSE IF n = 0 THEN Admin ELSE f[n - 1]]
    OBVIOUS
  <2> HIDE DEF f
  <2> QED BY <2>1
<1>2. ASSUME NEW m \in Nat, Exists(m) PROVE Exists(m + 1)
  <2>1. PICK g : g = [n \in 0..m |-> IF given[n] # NoRole THEN given[n]
                                     ELSE IF n = 0 THEN Admin ELSE g[n - 1]]
    BY <1>2
  <2> DEFINE f == [n \in 0..(m + 1) |-> IF given[n] # NoRole THEN given[n]
                                        ELSE IF n = 0 THEN Admin ELSE g[n - 1]]
  <2>2. \A n \in 0..m : f[n] = g[n]
    <3>1. \A n \in 0..m : n \in 0..(m + 1)
      OBVIOUS
    <3> QED BY <2>1, <3>1
  <2>3. \A n \in 0..(m + 1) : n # 0 => n - 1 \in 0..m
    OBVIOUS
  <2>4. f = [n \in 0..(m + 1) |-> IF given[n] # NoRole THEN given[n]
                                  ELSE IF n = 0 THEN Admin ELSE f[n - 1]]
    <3>1. \A n \in 0..(m + 1) : n # 0 => f[n - 1] = g[n - 1]
      BY <2>2, <2>3
    <3> QED BY <3>1
  <2> HIDE DEF f
  <2> QED BY <2>4
<1>3. bad = {}
  <2> SUFFICES ASSUME bad # {} PROVE FALSE
    OBVIOUS
  <2>1. PICK m \in bad : \A n \in bad : m <= n
    <3>1. bad \in SUBSET Nat
      OBVIOUS
    <3> HIDE DEF bad
    <3> QED BY <3>1, LeastOf
  <2> HIDE DEF Exists
  <2>2. m # 0 /\ m \in Nat
    BY <1>1
  <2>3. m - 1 \in Nat /\ m - 1 \notin bad
    BY <2>1, <2>2
  <2>4. Exists(m - 1)
    BY <2>3
  <2>5. Exists((m - 1) + 1)
    BY <1>2, <2>3, <2>4
  <2> QED BY <2>2, <2>5
<1>4. Exists(last)
  <2> HIDE DEF Exists
  <2> QED BY <1>3
<1> QED BY <1>4

\* The value at the end: that of the last length with a role.
LEMMA CutEnds ==
  ASSUME NEW given, NEW last \in Nat, NEW cut, IsCut(given, last, cut)
  PROVE  /\ (\A n \in 0..last : given[n] = NoRole) => cut[last] = Admin
         /\ \A top \in 0..last :
              given[top] # NoRole /\ (\A n \in 0..last : n > top => given[n] = NoRole)
                => cut[last] = given[top]
<1>0. /\ 0 \in 0..last
      /\ \A n \in 0..last : n # 0 => n - 1 \in 0..last
      /\ \A n \in 0..last : given[n] # NoRole => cut[n] = given[n]
      /\ \A n \in 0..last : given[n] = NoRole /\ n # 0 => cut[n] = cut[n - 1]
      /\ given[0] = NoRole => cut[0] = Admin
  BY DEF IsCut
<1>1. ASSUME NEW start \in 0..last, NEW value, cut[start] = value,
             \A n \in 0..last : n > start => given[n] = NoRole
      PROVE  cut[last] = value
  <2> DEFINE bad == {n \in 0..last : n >= start /\ cut[n] # value}
  <2> SUFFICES ASSUME bad # {} PROVE FALSE
    OBVIOUS
  <2>1. PICK m \in bad : \A n \in bad : m <= n
    <3>1. bad \in SUBSET Nat
      OBVIOUS
    <3> HIDE DEF bad
    <3> QED BY <3>1, LeastOf
  <2>2. m \in 0..last /\ m > start
    BY <1>1
  <2>3. m - 1 \in 0..last /\ m - 1 >= start /\ cut[m] = cut[m - 1]
    BY <1>0, <1>1, <2>2
  <2>4. m - 1 \in bad
    BY <2>3
  <2> QED BY <2>1, <2>2, <2>4
<1>2. ASSUME \A n \in 0..last : given[n] = NoRole PROVE cut[last] = Admin
  BY <1>0, <1>1, <1>2
<1>3. ASSUME NEW top \in 0..last, given[top] # NoRole,
             \A n \in 0..last : n > top => given[n] = NoRole
      PROVE  cut[last] = given[top]
  BY <1>0, <1>1, <1>3
<1> QED BY <1>2, <1>3

\* For every path, authorize() passes the roles the map requires.
LEMMA AuthorizeIsNeeded ==
  ASSUME RuleList(entries), RolesListed, NEW path \in Seq(STRING), NEW role \in Role
  PROVE  authorize(role, path) <=> role >= Policy!Needed(path)
<1> DEFINE cutTo(n) == SubSeq(path, 1, n)
           policy == [p \in RulePaths |-> role_of(p)]
           given == [n \in 0..Len(path) |->
                       IF cutTo(n) \in RulePaths /\ policy[cutTo(n)] # NoRole
                         THEN policy[cutTo(n)] ELSE NoRole]
           search == CHOOSE cut : cut = [n \in 0..Len(path) |->
                       IF cutTo(n) \in RulePaths /\ policy[cutTo(n)] # NoRole
                         THEN policy[cutTo(n)]
                       ELSE IF n = 0 THEN Admin ELSE cut[n - 1]]
           b == best(path)
<1>1. Policy!Needed(path) = search[Len(path)]
  BY Zenon DEF Policy!Needed
<1>2. Len(path) \in Nat
  BY LenProperties
<1>3. IsCut(given, Len(path), search)
  <2>1. PICK cut : IsCut(given, Len(path), cut)
    <3> HIDE DEF given
    <3> QED BY <1>2, CutExists
  <2>2. \A f : [n \in 0..Len(path) |-> IF given[n] # NoRole THEN given[n]
                                       ELSE IF n = 0 THEN Admin ELSE f[n - 1]]
             = [n \in 0..Len(path) |->
                  IF cutTo(n) \in RulePaths /\ policy[cutTo(n)] # NoRole
                    THEN policy[cutTo(n)]
                  ELSE IF n = 0 THEN Admin ELSE f[n - 1]]
    <3> HIDE DEF policy, cutTo
    <3> QED OBVIOUS
  <2>3. search = [n \in 0..Len(path) |->
                    IF cutTo(n) \in RulePaths /\ policy[cutTo(n)] # NoRole
                      THEN policy[cutTo(n)]
                    ELSE IF n = 0 THEN Admin ELSE search[n - 1]]
    <3> HIDE DEF policy, cutTo, given
    <3> QED BY <2>1, <2>2 DEF IsCut
  <2> HIDE DEF policy, cutTo, given, search
  <2> QED BY <2>2, <2>3 DEF IsCut
<1>4. /\ DOMAIN entries = 1..Len(entries)
      /\ \A i \in DOMAIN entries :
           /\ entries[i].path_prefix \in RulePaths /\ entries[i].min_role \in Role
           /\ entries[i].path_prefix \in Seq(STRING) /\ Len(entries[i].path_prefix) \in Nat
  BY RuleTypes DEF RuleList
<1>5. \A n \in 0..Len(path) : cutTo(n) \in Seq(STRING) /\ Len(cutTo(n)) = n /\ IsPrefix(cutTo(n), path)
  <2> SUFFICES ASSUME NEW n \in 0..Len(path)
               PROVE  cutTo(n) \in Seq(STRING) /\ Len(cutTo(n)) = n /\ IsPrefix(cutTo(n), path)
    OBVIOUS
  <2>1. \A i \in 1..n : path[i] \in STRING
    BY <1>2
  <2>2. /\ cutTo(n) \in Seq(STRING)
        /\ Len(cutTo(n)) = IF 1 <= n THEN n - 1 + 1 ELSE 0
        /\ \A i \in 1..(n - 1 + 1) : cutTo(n)[i] = path[1 + i - 1]
    BY <1>2, <2>1, SubSeqProperties
  <2>3. Len(cutTo(n)) = n /\ \A i \in 1..n : cutTo(n)[i] = path[i]
    BY <1>2, <2>2
  <2>4. Len(cutTo(n)) <= Len(path) /\ \A i \in 1..Len(cutTo(n)) : cutTo(n)[i] = path[i]
    BY <1>2, <2>3
  <2> HIDE DEF cutTo
  <2> QED BY <2>2, <2>3, <2>4, PrefixPointwise
\* A length has a role when a rule's prefix, which applies, has this length.
<1>6. \A n \in 0..Len(path) : given[n] # NoRole =>
        \E i \in DOMAIN entries : entries[i].path_prefix = cutTo(n)
  BY DEF RolesListed
<1>7. \A i \in DOMAIN entries : IsPrefix(entries[i].path_prefix, path) =>
        /\ Len(entries[i].path_prefix) \in 0..Len(path)
        /\ cutTo(Len(entries[i].path_prefix)) = entries[i].path_prefix
        /\ given[Len(entries[i].path_prefix)] = entries[i].min_role
  <2> SUFFICES ASSUME NEW i \in DOMAIN entries, IsPrefix(entries[i].path_prefix, path)
               PROVE  /\ Len(entries[i].path_prefix) \in 0..Len(path)
                      /\ cutTo(Len(entries[i].path_prefix)) = entries[i].path_prefix
                      /\ given[Len(entries[i].path_prefix)] = entries[i].min_role
    OBVIOUS
  <2>1. Len(entries[i].path_prefix) \in 0..Len(path)
    BY <1>2, <1>4 DEF IsPrefix
  <2>2. cutTo(Len(entries[i].path_prefix)) = entries[i].path_prefix
    BY <1>4, SubSeqFull DEF IsPrefix
  <2>3. policy[entries[i].path_prefix] = entries[i].min_role
    BY <1>4 DEF RolesListed
  <2>4. entries[i].min_role # NoRole
    BY <1>4 DEF Role, NoRole, Guest, Admin
  <2> HIDE DEF policy, cutTo
  <2> QED BY <1>4, <2>1, <2>2, <2>3, <2>4
<1> HIDE DEF given, search, cutTo
<1>8. CASE b = 0
  <2>1. \A j \in DOMAIN entries : ~IsPrefix(entries[j].path_prefix, path)
    BY <1>8, BestRule
  <2>2. \A n \in 0..Len(path) : given[n] = NoRole
    BY <1>5, <1>6, <2>1
  <2>3. search[Len(path)] = Admin
    BY <1>2, <1>3, <2>2, CutEnds
  <2> QED BY <1>1, <1>8, <2>3 DEF authorize, role_satisfies
<1>9. CASE b # 0
  <2>1. /\ b \in DOMAIN entries /\ IsPrefix(entries[b].path_prefix, path)
        /\ \A j \in DOMAIN entries : IsPrefix(entries[j].path_prefix, path) =>
             IsPrefix(entries[j].path_prefix, entries[b].path_prefix)
    BY <1>9, BestRule
  <2> DEFINE top == Len(entries[b].path_prefix)
  <2> HIDE DEF b
  <2>2. top \in 0..Len(path) /\ given[top] = entries[b].min_role /\ given[top] # NoRole
    <3>1. entries[b].min_role # NoRole
      BY <1>4, <2>1 DEF Role, NoRole, Guest, Admin
    <3> QED BY <1>7, <2>1, <3>1
  <2>3. \A n \in 0..Len(path) : n > top => given[n] = NoRole
    <3> SUFFICES ASSUME NEW n \in 0..Len(path), n > top, given[n] # NoRole PROVE FALSE
      OBVIOUS
    <3>1. PICK i \in DOMAIN entries : entries[i].path_prefix = cutTo(n)
      BY <1>6
    <3>2. Len(entries[i].path_prefix) = n /\ IsPrefix(entries[i].path_prefix, path)
      BY <1>5, <3>1
    <3>3. n <= top
      BY <2>1, <3>2 DEF IsPrefix
    <3> QED BY <1>2, <2>2, <3>3
  <2>4. search[Len(path)] = entries[b].min_role
    <3> HIDE DEF top
    <3> QED BY <1>2, <1>3, <2>2, <2>3, CutEnds
  <2>5. authorize(role, path) <=> role >= entries[b].min_role
    BY <1>9 DEF authorize, role_satisfies, b
  <2> QED BY <1>1, <2>4, <2>5
<1> QED BY <1>8, <1>9

\* The most specific rule decides, and a path without one needs Admin (Acl::authorize), on
\* the paths of requests, as a run checks, and on every other.
THEOREM MostSpecificAlways ==
  R_Spec => []MostSpecificDecides /\ [](\A path \in Seq(STRING) : Decides(path))
<1>1. RulesInv => \A path \in Seq(STRING) : Decides(path)
  BY AuthorizeIsNeeded, RoleListed DEF Decides, RulesInv
<1>2. (\A path \in Seq(STRING) : Decides(path)) => MostSpecificDecides
  BY RouteAssumption DEF MostSpecificDecides
<1> QED BY <1>1, <1>2, RulesAlways, PTL

=============================================================================
