---------------------------- MODULE LoginProofs ----------------------------
(***************************************************************************)
(* A login mints its session from one record of its user: the theorem, for *)
(* every set of workers, tokens, users, requests, routes and rules.        *)
(*                                                                         *)
(* The answer that hands out the session comes a step after the record was *)
(* copied, and other workers go on while it is on its way.  What carries   *)
(* the property over is that the copy was in the user store during this    *)
(* very request (CopyWasSeen), and that the token of an answer under way   *)
(* has been minted, so that nobody else's login can put another entry      *)
(* under it (RepliesAtEnd).                                                *)
(***************************************************************************)
EXTENDS RouteProofs

\* The copy authenticate() verifies against is a record of the user's.
CopyWasSeen ==
  \A w \in Workers :
    pc[w] = "verify" => \E us \in seen[w].users : us[req[w].username] = record[w]

\* Only a request that is being answered has a reply; its session has been minted.
RepliesAtEnd ==
  /\ reply \in [Workers -> Response \cup {None}]
  /\ \A w \in Workers :
       reply[w] # None =>
         /\ pc[w] = "respond"
         /\ reply[w].session # None => reply[w].session \in issued

LoginInv == CopyWasSeen /\ RepliesAtEnd /\ LoginFromOneRecord

\* What a client's session must come from: a record with this password.
FromRecord(w, t) ==
  store[t] # None =>
    \E us \in seen[w].users :
      /\ us[req[w].username] # None
      /\ us[req[w].username] = [password |-> req[w].password, role |-> store[t].role]

\* Sessions of before lose their entries or keep them.
Settled == issued \subseteq issued' /\ \A t \in issued : store'[t] \in {store[t], None}

\* A request under way forgets nothing it has seen.
LEMMA SeenGrows ==
  ASSUME NEW v \in Workers, Observe, req'[v] # None
  PROVE  seen'[v].users = seen[v].users \cup {users'}
BY DEF Observe

\* A worker another one's step does not concern.
LEMMA Bystander ==
  ASSUME Inv, LoginInv, Observe, Settled, NEW v \in Workers,
         pc'[v] = pc[v], req'[v] = req[v], record'[v] = record[v], reply'[v] = reply[v]
  PROVE  /\ pc'[v] = "verify" => \E us \in seen'[v].users : us[req'[v].username] = record'[v]
         /\ reply'[v] # None =>
              /\ pc'[v] = "respond"
              /\ reply'[v].session # None =>
                   reply'[v].session \in issued' /\ FromRecord(v, reply[v].session)'
<1>1. pc[v] \in {"verify", "respond"} => seen[v].users \subseteq seen'[v].users
  BY SeenGrows DEF Inv, Types
<1>2. pc'[v] = "verify" => \E us \in seen'[v].users : us[req'[v].username] = record'[v]
  BY <1>1 DEF LoginInv, CopyWasSeen
<1>3. ASSUME reply'[v] # None, reply'[v].session # None
      PROVE  reply'[v].session \in issued' /\ FromRecord(v, reply[v].session)'
  <2> DEFINE t == reply[v].session
  <2>1. t \in issued /\ pc[v] = "respond"
    BY <1>3 DEF LoginInv, RepliesAtEnd
  <2>2. FromRecord(v, t)
    BY <1>3 DEF LoginInv, LoginFromOneRecord, FromRecord
  <2>3. store'[t] # None => store'[t] = store[t] /\ store[t] # None
    BY <2>1 DEF Settled
  <2> QED BY <1>1, <1>3, <2>1, <2>2, <2>3 DEF Settled, FromRecord
<1> QED BY <1>2, <1>3 DEF LoginInv, RepliesAtEnd

\* A step of w within a request: it goes on, or it answers.
LEMMA WorkerStep ==
  ASSUME Inv, LoginInv, Observe, Settled, NEW w \in Workers,
         NEW stage \in Stage \ {"idle"}, NEW answered \in Response \cup {None},
         pc[w] \notin {"idle", "respond"}, pc' = [pc EXCEPT ![w] = stage],
         UNCHANGED req,
         \A v \in Workers \ {w} : record'[v] = record[v],
         stage = "verify" => record'[w] = users'[req[w].username],
         IF answered = None THEN reply' = reply
         ELSE stage = "respond" /\ reply' = [reply EXCEPT ![w] = answered],
         answered # None /\ answered.session # None =>
           answered.session \in issued' /\ FromRecord(w, answered.session)'
  PROVE  LoginInv'
<1>0. pc \in [Workers -> Stage] /\ reply \in [Workers -> Response \cup {None}]
  BY DEF Inv, Types, LoginInv, RepliesAtEnd
<1>1. \A v \in Workers \ {w} : pc'[v] = pc[v] /\ reply'[v] = reply[v]
  BY <1>0
<1>2. pc'[w] = stage /\ reply'[w] = answered /\ reply' \in [Workers -> Response \cup {None}]
  BY <1>0 DEF LoginInv, RepliesAtEnd
<1>3. CopyWasSeen'
  <2> SUFFICES ASSUME NEW v \in Workers, pc'[v] = "verify"
               PROVE  \E us \in seen'[v].users : us[req'[v].username] = record'[v]
    BY DEF CopyWasSeen
  <2>1. CASE v = w
    <3>1. req'[w] # None
      BY DEF Inv, Types
    <3> QED BY <2>1, <3>1, <1>2, SeenGrows
  <2> QED BY <2>1, <1>1, Bystander
<1>4. \A v \in Workers : reply'[v] # None =>
        /\ pc'[v] = "respond"
        /\ reply'[v].session # None =>
             reply'[v].session \in issued' /\ FromRecord(v, reply[v].session)'
  <2> TAKE v \in Workers
  <2>1. CASE v = w
    BY <2>1, <1>2 DEF FromRecord
  <2>2. CASE v # w
    BY <2>2, <1>1, Bystander
  <2> QED BY <2>1, <2>2
<1> QED BY <1>2, <1>3, <1>4 DEF LoginInv, RepliesAtEnd, LoginFromOneRecord, FromRecord

-----------------------------------------------------------------------------

\* Steps that hand out no session.
LEMMA NoSessionStep ==
  ASSUME Inv, LoginInv, Observe, UNCHANGED <<req, store, issued>>, NEW w \in Workers,
         NEW stage \in Stage \ {"idle"}, NEW status \in Status,
         pc[w] \notin {"idle", "respond"}, pc' = [pc EXCEPT ![w] = stage],
         \A v \in Workers \ {w} : record'[v] = record[v],
         stage = "verify" => record'[w] = users'[req[w].username],
         \/ UNCHANGED reply
         \/ /\ stage = "respond"
            /\ reply' = [reply EXCEPT ![w] = [status |-> status, session |-> None, body |-> None]]
  PROVE  LoginInv'
<1>1. Settled
  BY DEF Settled
<1>2. CASE UNCHANGED reply
  BY <1>1, <1>2, WorkerStep
<1>3. CASE /\ stage = "respond"
           /\ reply' = [reply EXCEPT ![w] = [status |-> status, session |-> None, body |-> None]]
  <2>1. [status |-> status, session |-> None, body |-> None] \in Response
    BY DEF Response
  <2> QED BY <1>1, <1>3, <2>1, ResponseAssumption, WorkerStep
<1> QED BY <1>2, <1>3

\* A list is in the answer, and no session.
LEMMA ListStep ==
  ASSUME Inv, RulesInv, LoginInv, Observe, NEW w \in Workers,
         AdminAclList(w) \/ AdminUserList(w)
  PROVE  LoginInv'
<1>1. PICK list \in Listing :
        /\ pc[w] \notin {"idle", "respond"} /\ UNCHANGED <<req, store, issued, record>>
        /\ pc' = [pc EXCEPT ![w] = "respond"]
        /\ reply' = [reply EXCEPT ![w] = [status |-> 200, session |-> None, body |-> list]]
  <2> USE DEF UNCHANGED_stores, UNCHANGED_request, UNCHANGED_copies, TS_vars,
              answer_with, goto, only_answers, handling
  <2>1. entries \in Listing
    BY DEF RulesInv, RuleList, Listing
  <2>2. list_users \in Listing
    <3>1. \A n \in Names : users[n] = None \/ users[n] \in UserRecord
      BY DEF Inv, Types
    <3>2. \A n \in Names : users[n] # None => users[n].role \in OptionalRole
      BY <3>1 DEF UserRecord, OptionalRole
    <3> QED BY <3>2 DEF list_users, roles_of, Listing, OptionalRole
  <2>3. CASE AdminAclList(w)
    BY <2>1, <2>3 DEF AdminAclList
  <2>4. CASE AdminUserList(w)
    BY <2>2, <2>4 DEF AdminUserList
  <2> QED BY <2>3, <2>4
<1> DEFINE answered == [status |-> 200, session |-> None, body |-> list]
<1>2. answered \in Response /\ "respond" \in Stage \ {"idle"}
  BY DEF Response, Status, Stage
<1>3. Settled
  BY <1>1 DEF Settled
<1> QED BY <1>1, <1>2, <1>3, ResponseAssumption, WorkerStep

LEMMA LoginUnrecorded ==
  ASSUME Inv, RulesInv, LoginInv, Observe, NEW w \in Workers, Unrecorded(w)
  PROVE  LoginInv'
<1> USE DEF UNCHANGED_stores, UNCHANGED_request, UNCHANGED_copies, TS_vars,
            answer, answer_with, goto, only_answers, handling
<1>1. CASE \/ Lookup(w) \/ Gate(w) \/ Validate(w) \/ Authorize(w)
           \/ AdminAclSet(w) \/ AdminAclRemove(w)
           \/ AdminUserAdd(w) \/ AdminUserRemove(w) \/ AdminUserRole(w) \/ AppHandler(w)
  <2>1. /\ UNCHANGED <<req, store, issued, record>>
        /\ pc[w] \notin {"idle", "respond"}
        /\ \E stage \in Stage \ {"idle", "verify"}, status \in Status :
             /\ pc' = [pc EXCEPT ![w] = stage]
             /\ \/ UNCHANGED reply
                \/ /\ stage = "respond"
                   /\ reply' = [reply EXCEPT ![w] = [status |-> status, session |-> None, body |-> None]]
    <3> USE DEF Stage, Status
    <3>1. CASE Lookup(w) \/ Gate(w)
      BY <3>1 DEF Lookup, Gate
    <3>2. CASE Validate(w)
      BY <3>2 DEF Validate
    <3>3. CASE Authorize(w)
      BY <3>3 DEF Authorize
    <3>4. CASE AdminAclSet(w) \/ AdminAclRemove(w) \/ AppHandler(w)
      BY <3>4 DEF AdminAclSet, AdminAclRemove, AppHandler
    <3>5. CASE AdminUserAdd(w)
      BY <3>5 DEF AdminUserAdd
    <3>6. CASE AdminUserRemove(w)
      BY <3>6 DEF AdminUserRemove
    <3>7. CASE AdminUserRole(w)
      BY <3>7 DEF AdminUserRole
    <3> QED BY <1>1, <3>1, <3>2, <3>3, <3>4, <3>5, <3>6, <3>7
  <2> QED BY <2>1, NoSessionStep
<1>2. CASE LoginFetch(w)
  <2>1. /\ UNCHANGED <<req, store, issued, users>>
        /\ pc[w] \notin {"idle", "respond"}
    BY <1>2 DEF LoginFetch
  <2>2. CASE pc' = [pc EXCEPT ![w] = "respond"] /\ UNCHANGED record
             /\ reply' = [reply EXCEPT ![w] = [status |-> 401, session |-> None, body |-> None]]
    <3>1. "respond" \in Stage \ {"idle"} /\ "respond" # "verify" /\ 401 \in Status
      BY DEF Stage, Status
    <3> QED BY <2>1, <2>2, <3>1, NoSessionStep
  <2>3. CASE /\ pc' = [pc EXCEPT ![w] = "verify"] /\ UNCHANGED reply
             /\ record' = [record EXCEPT ![w] = users[req[w].username]]
    <3>1. /\ record'[w] = users'[req[w].username]
          /\ \A v \in Workers \ {w} : record'[v] = record[v]
      BY <2>1, <2>3 DEF Inv, Types
    <3>2. "verify" \in Stage \ {"idle"} /\ 200 \in Status
      BY DEF Stage, Status
    <3> QED BY <2>1, <2>3, <3>1, <3>2, NoSessionStep
  <2> QED BY <1>2, <2>2, <2>3 DEF LoginFetch
<1>3. CASE Deliver(w)
  <2>1. /\ UNCHANGED <<store, issued>>
        /\ pc' = [pc EXCEPT ![w] = "idle"]
        /\ req' = [req EXCEPT ![w] = None]
        /\ record' = [record EXCEPT ![w] = None]
        /\ reply' = [reply EXCEPT ![w] = None]
    BY <1>3 DEF Deliver
  <2>2. Settled
    BY <2>1 DEF Settled
  <2>3. reply' \in [Workers -> Response \cup {None}]
    BY <2>1 DEF LoginInv, RepliesAtEnd
  <2>4. reply'[w] = None /\ pc'[w] = "idle"
    BY <2>1 DEF Inv, Types, LoginInv, RepliesAtEnd
  <2>5. \A v \in Workers \ {w} :
          pc'[v] = pc[v] /\ req'[v] = req[v] /\ record'[v] = record[v] /\ reply'[v] = reply[v]
    BY <2>1 DEF Inv, Types, LoginInv, RepliesAtEnd
  <2> QED BY <2>2, <2>3, <2>4, <2>5, Bystander
          DEF LoginInv, CopyWasSeen, RepliesAtEnd, LoginFromOneRecord, FromRecord
<1> QED BY <1>1, <1>2, <1>3, ListStep DEF Unrecorded

\* The session is minted with the copy's role once the copy's password has matched.
LEMMA LoginIssued ==
  ASSUME Inv, LoginInv, NEW w \in Workers, H_LoginIssue(w)
  PROVE  LoginInv'
<1>1. /\ pc[w] = "verify" /\ Observe
      /\ pc' = [pc EXCEPT ![w] = "respond"]
      /\ UNCHANGED <<users, req, record>>
  BY DEF H_LoginIssue, LoginIssue, answer, answer_with, goto, only_answers,
         UNCHANGED_request, UNCHANGED_copies
<1>2. "respond" \in Stage \ {"idle"} /\ 401 \in Status /\ 500 \in Status
  BY DEF Stage, Status
<1>3. ASSUME UNCHANGED TS_vars, NEW status \in Status, answer(w, status)
      PROVE  LoginInv'
  <2>1. /\ UNCHANGED <<store, issued>>
        /\ reply' = [reply EXCEPT ![w] = [status |-> status, session |-> None, body |-> None]]
    BY <1>3 DEF TS_vars, answer, answer_with
  <2> QED BY <1>1, <1>2, <2>1, NoSessionStep
<1>4. ASSUME NEW token \in Tokens,
             pbkdf2_verify(req[w].password, record[w]),
             issue(token, req[w].username, record[w].role), answer_with(w, 200, token, None)
      PROVE  LoginInv'
  <2> DEFINE answered == [status |-> 200, session |-> token, body |-> None]
  <2>1. /\ token \notin issued /\ issued' = issued \cup {token}
        /\ \A t \in issued : store'[t] = store[t]
        /\ store'[token].role = record[w].role
    BY <1>4 DEF issue, Inv, Types
  <2>2. Settled
    BY <2>1 DEF Settled
  <2>3. answered \in Response /\ reply' = [reply EXCEPT ![w] = answered]
    BY <1>4 DEF Response, Status, answer_with
  <2>4. FromRecord(w, token)'
    <3>1. PICK us \in seen[w].users : us[req[w].username] = record[w]
      BY <1>1 DEF LoginInv, CopyWasSeen
    <3>2. record[w] # None /\ record[w] \in UserRecord
      BY <1>1 DEF Inv, Types
    <3>3. record[w] = [password |-> req[w].password, role |-> store'[token].role]
      BY <1>4, <2>1, <3>2 DEF UserRecord, pbkdf2_verify
    <3>4. us \in seen'[w].users
      BY <1>1, SeenGrows DEF Inv, Types
    <3> QED BY <1>1, <3>1, <3>2, <3>3, <3>4 DEF FromRecord
  <2> QED BY <1>1, <1>2, <2>1, <2>2, <2>3, <2>4, ResponseAssumption, WorkerStep
<1> QED BY <1>2, <1>3, <1>4 DEF H_LoginIssue, LoginIssue

\* Nothing a worker holds changes.
LEMMA NobodysStep ==
  ASSUME Inv, LoginInv, Observe, Settled, UNCHANGED worker_vars
  PROVE  LoginInv'
BY Bystander
   DEF worker_vars, LoginInv, CopyWasSeen, RepliesAtEnd, LoginFromOneRecord, FromRecord

LEMMA LoginInvNext ==
  ASSUME Inv, RulesInv, LoginInv, [H_Next]_hvars
  PROVE  LoginInv'
<1>1. ASSUME NEW w \in Workers, H_Begin(w) PROVE LoginInv'
  <2>1. /\ pc[w] = "idle" /\ Observe
        /\ UNCHANGED <<store, issued, record, reply>>
        /\ pc' = [pc EXCEPT ![w] = "lookup"]
        /\ \E r : req' = [req EXCEPT ![w] = r]
    BY <1>1 DEF H_Begin, Begin, goto, UNCHANGED_stores, UNCHANGED_copies, TS_vars
  <2>2. Settled
    BY <2>1 DEF Settled
  <2>3. reply'[w] = None /\ pc'[w] = "lookup"
    BY <2>1 DEF Inv, Types, LoginInv, RepliesAtEnd
  <2>4. \A v \in Workers \ {w} : pc'[v] = pc[v] /\ req'[v] = req[v]
    BY <2>1 DEF Inv, Types
  <2> QED BY <2>1, <2>2, <2>3, <2>4, Bystander
          DEF LoginInv, CopyWasSeen, RepliesAtEnd, LoginFromOneRecord, FromRecord
<1>2. ASSUME NEW w \in Workers, H_LoginIssue(w) PROVE LoginInv'
  BY <1>2, LoginIssued
<1>3. ASSUME NEW w \in Workers, H_Logout(w) PROVE LoginInv'
  <2>1. /\ pc[w] = "handle" /\ Observe
        /\ pc' = [pc EXCEPT ![w] = "respond"]
        /\ UNCHANGED <<issued, users, req, record>>
        /\ reply' = [reply EXCEPT ![w] = [status |-> 200, session |-> None, body |-> None]]
    BY <1>3 DEF H_Logout, Logout, handling, answer, answer_with, goto, only_answers,
                UNCHANGED_request, UNCHANGED_copies, revoke, TS_vars
  <2>2. Settled
    BY <1>3 DEF H_Logout, Logout, revoke, TS_vars, Settled, Inv, Types
  <2>3. [status |-> 200, session |-> None, body |-> None] \in Response /\ "respond" \in Stage \ {"idle"}
    BY DEF Response, Status, Stage
  <2> QED BY <2>1, <2>2, <2>3, ResponseAssumption, WorkerStep
<1>4. ASSUME NEW w \in Workers, Unrecorded(w), Observe PROVE LoginInv'
  BY <1>4, LoginUnrecorded
<1>5. ASSUME Configure \/ Clock, Observe PROVE LoginInv'
  <2>1. UNCHANGED <<store, issued, worker_vars>>
    BY <1>5 DEF Configure, AddApi, ServeProtectedFiles, SetApiRole, ProtectPath,
                UnprotectPath, Clock, Tick, TS_vars
  <2> QED BY <1>5, <2>1, NobodysStep DEF Settled
<1>6. ASSUME UNCHANGED hvars PROVE LoginInv'
  BY <1>6 DEF hvars, vars, LoginInv, CopyWasSeen, RepliesAtEnd, LoginFromOneRecord
<1> QED BY <1>1, <1>2, <1>3, <1>4, <1>5, <1>6 DEF H_Next

LEMMA LoginInvariant == H_Spec => []LoginInv
<1>1. H_Init => LoginInv
  BY DEF H_Init, Init, LoginInv, CopyWasSeen, RepliesAtEnd, LoginFromOneRecord
<1>2. Inv /\ RulesInv /\ LoginInv /\ [H_Next]_hvars => LoginInv'
  BY LoginInvNext
<1> QED BY <1>1, <1>2, SessionInvariant, RulesInvariant, PTL DEF H_Spec

\* The session a login opens carries the role of a record its user had during the
\* request, and the password given was that record's (authenticate, handle_login).
THEOREM LoginFromOneRecordAlways == H_Spec => []LoginFromOneRecord
<1>1. LoginInv => LoginFromOneRecord
  BY DEF LoginInv
<1> QED BY <1>1, LoginInvariant, PTL

=============================================================================
