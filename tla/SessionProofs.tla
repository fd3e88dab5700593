--------------------------- MODULE SessionProofs ---------------------------
(***************************************************************************)
(* The engine implements the abstract sessions: every step of it is, in    *)
(* the state that session_of, extract_token and user_of read off its       *)
(* variables, a step of Sessions or none.  For every set of workers,       *)
(* tokens, users, requests, routes and rules, and every lifetime.          *)
(*                                                                         *)
(* A request may be validated twice, by dispatch() and by its handler, and *)
(* only the first admits it: the second has to find the same user.  It     *)
(* does because the entry copied at the first is still the one stored      *)
(* under the token the request presents, unless that was revoked (Copied). *)
(***************************************************************************)
EXTENDS EngineProofs

\* A worker without a request presents nothing.
IdlePresentsNothing ==
  \A w \in Workers : pc[w] = "idle" => cookie[w] = None /\ bearer[w] = None

presented(w) == extract_token(cookie[w], bearer[w])

\* The copied entry is the stored one for as long as there is one.
Copied ==
  \A w \in Workers :
    entry[w] # None => presented(w) \in issued /\ store[presented(w)] \in {None, entry[w]}

KeptInv == IdlePresentsNothing /\ Copied

\* A step that is one of the abstract sessions'.
Kept == [Promise!Next]_(Promise!vars)

-----------------------------------------------------------------------------

\* Where nothing that the abstract state is read off changes, neither does that state.
LEMMA SameSessions ==
  ASSUME UNCHANGED <<store, issued, now>>
  PROVE  \A t \in Tokens : session_of(t)' = session_of(t)
BY DEF session_of

LEMMA QuietStep ==
  ASSUME KeptInv, UNCHANGED <<store, issued, now, cookie, bearer, entry>>,
         \A v \in Workers : pc'[v] = "idle" => pc[v] = "idle"
  PROVE  KeptInv' /\ Kept
<1>1. KeptInv'
  BY DEF KeptInv, IdlePresentsNothing, Copied, presented, extract_token
<1>2. UNCHANGED Promise!vars
  BY SameSessions DEF Promise!vars, extract_token, user_of
<1> QED BY <1>1, <1>2 DEF Kept

\* A validated session is open, and its token was minted.
LEMMA ValidIsOpen ==
  ASSUME Inv, NEW w \in Workers, validated_token(w) # None
  PROVE  /\ presented(w) \in Tokens /\ presented(w) \in issued
         /\ validated_token(w) = store[presented(w)]
         /\ session_of(presented(w)).state = "open"
         /\ session_of(presented(w)).user = user_of(validated_token(w))
<1>1. /\ presented(w) \in Tokens /\ store[presented(w)] # None
      /\ ~(store[presented(w)].expires_at < now)
      /\ validated_token(w) = store[presented(w)]
  BY DEF validated_token, validate, presented
<1>2. presented(w) \in issued
  BY <1>1 DEF Inv, StoreAgrees
<1>3. store[presented(w)].expires_at \in Nat /\ now \in Nat
  BY <1>1 DEF Inv, Types, TokenEntry
<1>4. ~(now > store[presented(w)].expires_at)
  BY <1>1, <1>3
<1> QED BY <1>1, <1>2, <1>4 DEF session_of, user_of

\* dispatch() or a handler admits the caller: the first admits the session's user, the
\* second finds that same user.
LEMMA Admission ==
  ASSUME Inv, KeptInv, NEW w \in Workers, validated_token(w) # None,
         UNCHANGED <<store, issued, now, cookie, bearer>>,
         entry' = [entry EXCEPT ![w] = validated_token(w)],
         \A v \in Workers : pc'[v] = "idle" => pc[v] = "idle"
  PROVE  KeptInv' /\ Kept
<1> DEFINE t == presented(w)
<1>0. t \in Tokens /\ t # None
  BY ValidIsOpen, TokenAssumption
<1>1. /\ entry \in [Workers -> TokenEntry \cup {None}]
      /\ entry'[w] = validated_token(w)
      /\ \A v \in Workers \ {w} : entry'[v] = entry[v]
  BY DEF Inv, Types
<1>2. KeptInv'
  BY <1>1, ValidIsOpen DEF KeptInv, IdlePresentsNothing, Copied, presented, extract_token
<1>3. CASE entry[w] # None
  <2>1. entry'[w] = entry[w]
    BY <1>1, <1>3, ValidIsOpen DEF KeptInv, Copied
  <2>2. entry' = entry
    BY <1>1, <2>1
  <2> QED BY <2>2, QuietStep
<1>4. CASE entry[w] = None
  <2>1. Promise!Admit(w)
    <3>1. user_of(entry[w]) = None
      BY <1>4 DEF user_of
    <3>2. [v \in Workers |-> user_of(entry'[v])]
            = [[v \in Workers |-> user_of(entry[v])] EXCEPT ![w] = user_of(validated_token(w))]
      BY <1>1
    <3>3. [v \in Workers |-> user_of(entry[v])]' = [v \in Workers |-> user_of(entry'[v])]
      BY DEF user_of
    <3>4. UNCHANGED <<[u \in Tokens |-> session_of(u)],
                      [v \in Workers |-> extract_token(cookie[v], bearer[v])]>>
      BY SameSessions DEF extract_token
    <3> QED BY <1>0, <3>1, <3>2, <3>3, <3>4, ValidIsOpen DEF Promise!Admit, presented
  <2> QED BY <1>2, <2>1 DEF Kept, Promise!Next
<1> QED BY <1>3, <1>4

\* A request arrives with a session, or with none.
LEMMA Arrival ==
  ASSUME Inv, KeptInv, NEW w \in Workers, H_Begin(w)
  PROVE  KeptInv' /\ Kept
<1>1. /\ UNCHANGED <<store, issued, now, entry>>
      /\ pc[w] = "idle"
      /\ pc' = [pc EXCEPT ![w] = "lookup"]
  BY DEF H_Begin, Begin, goto, UNCHANGED_stores, UNCHANGED_copies, TS_vars
<1>2. PICK c \in Delivered \cup {None}, b \in Delivered \cup {None} :
        /\ cookie' = [cookie EXCEPT ![w] = c]
        /\ bearer' = [bearer EXCEPT ![w] = b]
  BY DEF H_Begin, Begin
<1> DEFINE t == extract_token(c, b)
<1>3. t \in issued \cup {None}
  BY <1>2 DEF Delivered, extract_token
<1>4. entry[w] = None /\ cookie[w] = None /\ bearer[w] = None
  BY <1>1 DEF Inv, IdleIsFresh, KeptInv, IdlePresentsNothing
<1>5. /\ cookie'[w] = c /\ bearer'[w] = b /\ pc'[w] = "lookup"
      /\ \A v \in Workers \ {w} : cookie'[v] = cookie[v] /\ bearer'[v] = bearer[v] /\ pc'[v] = pc[v]
  BY <1>1, <1>2 DEF Inv, Types
<1>6. KeptInv'
  BY <1>1, <1>4, <1>5 DEF KeptInv, IdlePresentsNothing, Copied, presented, extract_token
<1>7. [v \in Workers |-> extract_token(cookie[v], bearer[v])]'
        = [[v \in Workers |-> extract_token(cookie[v], bearer[v])] EXCEPT ![w] = t]
  BY <1>5 DEF extract_token
<1>8. UNCHANGED <<[u \in Tokens |-> session_of(u)], [v \in Workers |-> user_of(entry[v])]>>
  BY <1>1, SameSessions DEF user_of
<1>9. extract_token(cookie[w], bearer[w]) = None /\ user_of(entry[w]) = None
  BY <1>4 DEF extract_token, user_of
<1>10. CASE t = None
  <2>1. UNCHANGED Promise!vars
    BY <1>7, <1>8, <1>9, <1>10 DEF Promise!vars
  <2> QED BY <1>6, <2>1 DEF Kept
<1>11. CASE t # None
  <2>1. t \in Tokens /\ session_of(t).state # "unborn"
    BY <1>3, <1>11 DEF Inv, Types, session_of
  <2>2. Promise!Arrive(w, t)
    BY <1>7, <1>8, <1>9, <2>1 DEF Promise!Arrive
  <2> QED BY <1>6, <2>1, <2>2 DEF Kept, Promise!Next
<1> QED BY <1>10, <1>11

\* The answer has been sent.
LEMMA Departure ==
  ASSUME Inv, KeptInv, NEW w \in Workers, Deliver(w)
  PROVE  KeptInv' /\ Kept
<1>1. /\ UNCHANGED <<store, issued, now>>
      /\ cookie'[w] = None /\ bearer'[w] = None /\ entry'[w] = None
      /\ \A v \in Workers \ {w} : /\ cookie'[v] = cookie[v] /\ bearer'[v] = bearer[v]
                                  /\ entry'[v] = entry[v] /\ pc'[v] = pc[v]
  BY DEF Deliver, goto, UNCHANGED_stores, TS_vars, Inv, Types
<1>2. KeptInv'
  BY <1>1 DEF KeptInv, IdlePresentsNothing, Copied, presented, extract_token
<1>3. [v \in Workers |-> extract_token(cookie[v], bearer[v])]'
        = [[v \in Workers |-> extract_token(cookie[v], bearer[v])] EXCEPT ![w] = None]
  BY <1>1 DEF extract_token
<1>4. [v \in Workers |-> user_of(entry[v])]'
        = [[v \in Workers |-> user_of(entry[v])] EXCEPT ![w] = None]
  BY <1>1 DEF user_of
<1>5. UNCHANGED [u \in Tokens |-> session_of(u)]
  BY <1>1, SameSessions
<1>6. Promise!Leave(w)
  BY <1>3, <1>4, <1>5 DEF Promise!Leave
<1> QED BY <1>2, <1>6 DEF Kept, Promise!Next

\* A login mints a token nobody presents.
LEMMA Opening ==
  ASSUME Inv, KeptInv, NEW w \in Workers, H_LoginIssue(w)
  PROVE  KeptInv' /\ Kept
<1>1. /\ pc[w] = "verify"
      /\ pc' = [pc EXCEPT ![w] = "respond"]
      /\ UNCHANGED <<cookie, bearer, entry>>
  BY DEF H_LoginIssue, LoginIssue, answer, answer_with, goto, only_answers,
         UNCHANGED_request, UNCHANGED_copies
<1>2. CASE UNCHANGED TS_vars
  <2>1. \A v \in Workers : pc'[v] = "idle" => pc[v] = "idle"
    BY <1>1 DEF Inv, Types
  <2> QED BY <1>1, <1>2, <2>1, QuietStep DEF TS_vars
<1>3. CASE \E token \in Tokens : issue(token, req[w].username, record[w].role)
  <2>1. PICK token \in Tokens : issue(token, req[w].username, record[w].role)
    BY <1>3
  <2> DEFINE new == [username |-> req[w].username, role |-> record[w].role,
                     expires_at |-> now + TTL]
             u == [username |-> req[w].username, role |-> record[w].role]
  <2>2. /\ token \notin issued
        /\ store' = [store EXCEPT ![token] = new]
        /\ issued' = issued \cup {token}
        /\ now' = now
    BY <2>1 DEF issue
  <2>3. u \in Promise!User /\ new \in TokenEntry
    <3>1. req[w] \in Request /\ req[w].username \in Names
      BY <1>1, EngineAssumption DEF Inv, Types, Request
    <3>2. record[w] \in UserRecord
      BY <1>1 DEF Inv, Types
    <3> QED BY <3>1, <3>2, TokenAssumption
            DEF UserRecord, Promise!User, TokenEntry, Inv, Types
  <2>4. store'[token] = new /\ \A t \in Tokens \ {token} : store'[t] = store[t]
    BY <2>2 DEF Inv, Types
  <2>5. KeptInv'
    <3>1. IdlePresentsNothing'
      BY <1>1 DEF KeptInv, IdlePresentsNothing, Inv, Types
    <3>2. Copied'
      BY <1>1, <2>2, <2>4 DEF KeptInv, Copied, presented, extract_token, Inv, Types
    <3> QED BY <3>1, <3>2 DEF KeptInv
  <2>6. session_of(token).state = "unborn"
    BY <2>2 DEF session_of
  <2>7. session_of(token)' = [state |-> "open", user |-> u]
    <3>1. new # None /\ new.expires_at = now + TTL /\ new.username = u.username
          /\ new.role = u.role
      BY <2>3, EntryAssumption
    <3>2. ~(now > now + TTL)
      BY TokenAssumption DEF Inv, Types
    <3>3. token \in issued'
      BY <2>2
    <3> HIDE DEF new
    <3>4. u = [username |-> new.username, role |-> new.role]
      BY <3>1
    <3> HIDE DEF u
    <3> QED BY <2>2, <2>4, <3>1, <3>2, <3>3, <3>4 DEF session_of
  <2> HIDE DEF new, u
  <2>8. \A t \in Tokens \ {token} : session_of(t)' = session_of(t)
    BY <2>2, <2>4 DEF session_of
  <2>9. Promise!Open(token, u)
    <3>1. [t \in Tokens |-> session_of(t)]'
            = [[t \in Tokens |-> session_of(t)] EXCEPT ![token] = [state |-> "open", user |-> u]]
      BY <2>7, <2>8
    <3>2. UNCHANGED <<[v \in Workers |-> extract_token(cookie[v], bearer[v])],
                      [v \in Workers |-> user_of(entry[v])]>>
      BY <1>1 DEF extract_token, user_of
    <3> QED BY <2>6, <3>1, <3>2 DEF Promise!Open
  <2> QED BY <2>3, <2>5, <2>9 DEF Kept, Promise!Next
<1> QED BY <1>2, <1>3 DEF H_LoginIssue, LoginIssue

\* Sessions end together, and nobody's request changes.
LEMMA Ending ==
  ASSUME UNCHANGED <<cookie, bearer, entry>>,
         NEW ending \in SUBSET Tokens,
         \A t \in ending : /\ session_of(t).state = "open"
                           /\ session_of(t)' = [state |-> "ended", user |-> None],
         \A t \in Tokens \ ending : session_of(t)' = session_of(t)
  PROVE  Kept
<1>1. [t \in Tokens |-> session_of(t)]'
        = [t \in Tokens |-> IF t \in ending THEN [state |-> "ended", user |-> None]
                            ELSE [s \in Tokens |-> session_of(s)][t]]
  OBVIOUS
<1>2. UNCHANGED <<[v \in Workers |-> extract_token(cookie[v], bearer[v])],
                  [v \in Workers |-> user_of(entry[v])]>>
  BY DEF extract_token, user_of
<1>3. Promise!End(ending)
  BY <1>1, <1>2 DEF Promise!End
<1> QED BY <1>3 DEF Kept, Promise!Next

LEMMA LoggingOut ==
  ASSUME Inv, KeptInv, NEW w \in Workers, H_Logout(w)
  PROVE  KeptInv' /\ Kept
<1>1. /\ pc' = [pc EXCEPT ![w] = "respond"]
      /\ UNCHANGED <<issued, now, cookie, bearer, entry>>
  BY DEF H_Logout, Logout, handling, answer, answer_with, goto, only_answers,
         UNCHANGED_request, UNCHANGED_copies, revoke, TS_vars
<1>2. \A t \in Tokens : store'[t] = IF t = cookie[w] THEN None ELSE store[t]
  BY TokenAssumption DEF H_Logout, Logout, revoke, TS_vars
<1>3. KeptInv'
  BY <1>1, <1>2 DEF KeptInv, IdlePresentsNothing, Copied, presented, extract_token, Inv, Types
<1> DEFINE ending == {t \in {cookie[w]} \cap Tokens : session_of(t).state = "open"}
<1>4. \A t \in Tokens :
        session_of(t)' = IF t \notin issued THEN [state |-> "unborn", user |-> None]
                         ELSE IF t = cookie[w] THEN [state |-> "ended", user |-> None]
                         ELSE session_of(t)
  BY <1>1, <1>2 DEF session_of
<1>5. \A t \in ending : session_of(t)' = [state |-> "ended", user |-> None]
  BY <1>4 DEF session_of
<1>6. \A t \in Tokens \ ending : session_of(t)' = session_of(t)
  BY <1>4 DEF session_of
<1> HIDE DEF ending
<1>7. ending \in SUBSET Tokens /\ \A t \in ending : session_of(t).state = "open"
  BY DEF ending
<1> QED BY <1>1, <1>3, <1>5, <1>6, <1>7, Ending

LEMMA Passing ==
  ASSUME Inv, KeptInv, Clock
  PROVE  KeptInv' /\ Kept
<1>1. now' = now + 1 /\ UNCHANGED <<store, issued, pc, cookie, bearer, entry>>
  BY DEF Clock, Tick, worker_vars
<1>2. KeptInv'
  BY <1>1 DEF KeptInv, IdlePresentsNothing, Copied, presented, extract_token
<1> DEFINE ending == {t \in Tokens : /\ session_of(t).state = "open"
                                     /\ session_of(t)' = [state |-> "ended", user |-> None]}
<1>3. \A t \in Tokens \ ending : session_of(t)' = session_of(t)
  <2> SUFFICES ASSUME NEW t \in Tokens \ ending PROVE session_of(t)' = session_of(t)
    OBVIOUS
  <2>1. CASE t \notin issued \/ store[t] = None
    BY <1>1, <2>1 DEF session_of
  <2>2. CASE t \in issued /\ store[t] # None
    <3>1. store[t].expires_at \in Nat /\ now \in Nat
      BY <2>2 DEF Inv, Types, TokenEntry
    <3>2. CASE now > store[t].expires_at
      BY <1>1, <2>2, <3>1, <3>2 DEF session_of
    <3>3. CASE ~(now > store[t].expires_at) /\ ~(now + 1 > store[t].expires_at)
      BY <1>1, <2>2, <3>3 DEF session_of
    <3>4. CASE ~(now > store[t].expires_at) /\ now + 1 > store[t].expires_at
      BY <1>1, <2>2, <3>4 DEF session_of
    <3> QED BY <3>2, <3>3, <3>4
  <2> QED BY <2>1, <2>2
<1> HIDE DEF ending
<1>4. ending \in SUBSET Tokens
      /\ \A t \in ending : /\ session_of(t).state = "open"
                           /\ session_of(t)' = [state |-> "ended", user |-> None]
  BY DEF ending
<1> QED BY <1>1, <1>2, <1>3, <1>4, Ending

LEMMA Others ==
  ASSUME Inv, KeptInv, NEW w \in Workers, Unrecorded(w)
  PROVE  KeptInv' /\ Kept
<1> USE DEF UNCHANGED_stores, UNCHANGED_request, UNCHANGED_copies, TS_vars,
            answer, answer_with, goto, only_answers, handling
<1>1. ASSUME NEW stage \in Stage \ {"idle"}, pc' = [pc EXCEPT ![w] = stage],
             UNCHANGED <<store, issued, now, cookie, bearer>>,
             \/ UNCHANGED entry
             \/ validated_token(w) # None /\ entry' = [entry EXCEPT ![w] = validated_token(w)]
      PROVE  KeptInv' /\ Kept
  <2>1. \A v \in Workers : pc'[v] = "idle" => pc[v] = "idle"
    BY <1>1 DEF Inv, Types
  <2> QED BY <1>1, <2>1, QuietStep, Admission
<1>2. CASE Lookup(w)
  BY <1>1, <1>2 DEF Lookup, Stage
<1>3. CASE Gate(w)
  BY <1>1, <1>3 DEF Gate, Stage
<1>4. CASE LoginFetch(w)
  BY <1>1, <1>4 DEF LoginFetch, Stage
<1>5. CASE Validate(w)
  BY <1>1, <1>5 DEF Validate, Stage
<1>6. CASE Authorize(w)
  BY <1>1, <1>6 DEF Authorize, Stage
<1>7. CASE AdminAclList(w) \/ AdminUserList(w) \/ AdminAclSet(w) \/ AdminAclRemove(w) \/ AppHandler(w)
  BY <1>1, <1>7 DEF AdminAclList, AdminUserList, AdminAclSet, AdminAclRemove, AppHandler, Stage
<1>8. CASE AdminUserAdd(w) \/ AdminUserRemove(w) \/ AdminUserRole(w)
  BY <1>1, <1>8 DEF AdminUserAdd, AdminUserRemove, AdminUserRole, Stage
<1>9. CASE Deliver(w)
  BY <1>9, Departure
<1> QED BY <1>2, <1>3, <1>4, <1>5, <1>6, <1>7, <1>8, <1>9 DEF Unrecorded

-----------------------------------------------------------------------------

LEMMA KeptInit == H_Init => KeptInv /\ Promise!Init
<1> SUFFICES ASSUME H_Init PROVE KeptInv /\ Promise!Init
  OBVIOUS
<1> USE DEF H_Init, Init, TS_Init
<1>1. KeptInv
  BY DEF KeptInv, IdlePresentsNothing, Copied
<1>2. \A t \in Tokens : session_of(t) = [state |-> "unborn", user |-> None]
  BY DEF session_of
<1>3. \A w \in Workers : extract_token(cookie[w], bearer[w]) = None /\ user_of(entry[w]) = None
  BY DEF extract_token, user_of
<1> QED BY <1>1, <1>2, <1>3 DEF Promise!Init

LEMMA KeptNext ==
  ASSUME Inv, KeptInv, [H_Next]_hvars
  PROVE  KeptInv' /\ Kept
<1>1. ASSUME Configure \/ UNCHANGED hvars PROVE KeptInv' /\ Kept
  <2>1. UNCHANGED <<store, issued, now, pc, cookie, bearer, entry>>
    BY <1>1 DEF Configure, AddApi, ServeProtectedFiles, SetApiRole, ProtectPath,
                UnprotectPath, hvars, vars, TS_vars, worker_vars
  <2> QED BY <2>1, QuietStep
<1> QED BY <1>1, Arrival, Opening, LoggingOut, Others, Passing DEF H_Next

\* Whatever is interleaved, a session is opened once, for one user with one role, ends
\* for good, and a request is admitted as that user while the session it presents is
\* open (TokenStore, Router::dispatch and AuthHandler implement Sessions).
THEOREM EngineKeepsSessions == H_Spec => SessionsKept
<1>1. Inv /\ KeptInv /\ [H_Next]_hvars => KeptInv' /\ [Promise!Next]_(Promise!vars)
  BY KeptNext DEF Kept
<1> QED BY <1>1, KeptInit, SessionInvariant, PTL DEF H_Spec, SessionsKept, Promise!Spec

=============================================================================
