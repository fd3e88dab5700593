---------------------------- MODULE EngineProofs ----------------------------
(***************************************************************************)
(* A request that arrives after its session is over is not admitted: the   *)
(* theorem, for every set of workers, tokens, users, requests, routes and  *)
(* rules, and every lifetime.                                              *)
(*                                                                         *)
(* SessionEndIsFinal is not inductive: that an admission is impossible     *)
(* later has to be known from the arrival on.  The strengthening, Inv,     *)
(* says that the token such a request presents validates to nothing        *)
(* (OverStaysInvalid); that is stable because a token is never minted      *)
(* twice (PresentedIsIssued), time only advances, and the store's entries  *)
(* agree with the history (StoreAgrees).                                   *)
(***************************************************************************)
EXTENDS EngineHistory, TLAPS

\* The types the argument needs.
Types ==
  /\ store \in [Tokens -> TokenEntry \cup {None}]
  /\ issued \in SUBSET Tokens
  /\ now \in Nat
  /\ users \in [Names -> UserRecord \cup {None}]
  /\ pc \in [Workers -> Stage]
  /\ req \in [Workers -> Requests \cup {None}]
  /\ cookie \in [Workers -> Tokens \cup {None}]
  /\ bearer \in [Workers -> Tokens \cup {None}]
  /\ entry \in [Workers -> TokenEntry \cup {None}]
  /\ record \in [Workers -> UserRecord \cup {None}]
  /\ opened \in [Tokens -> Nat \cup {None}]
  /\ ended \in SUBSET Tokens
  /\ over \in [Workers -> BOOLEAN]
  /\ \A w \in Workers :
       /\ pc[w] # "idle" => req[w] # None
       /\ pc[w] = "verify" => req[w].username # None /\ record[w] # None

\* The store against the history.
StoreAgrees ==
  \A t \in Tokens :
    /\ t \in issued => opened[t] \in Nat
    /\ store[t] # None => t \in issued /\ store[t].expires_at = opened[t] + TTL
    /\ t \in ended => t \in issued /\ store[t] = None

PresentedIsIssued ==
  \A w \in Workers : cookie[w] \in issued \cup {None} /\ bearer[w] \in issued \cup {None}

OverStaysInvalid ==
  \A w \in Workers : pc[w] # "idle" /\ over[w] => validated_token(w) = None

IdleIsFresh == \A w \in Workers : pc[w] = "idle" => entry[w] = None

Inv == /\ Types /\ StoreAgrees /\ PresentedIsIssued
       /\ OverStaysInvalid /\ IdleIsFresh /\ SessionEndIsFinal

-----------------------------------------------------------------------------
(* Steps that leave the token store alone. *)

\* The variables of the session argument a step outside it leaves alone.
StoreUnchanged == UNCHANGED <<store, issued, now, opened, ended, over, cookie, bearer>>

\* Lookup, and the steps of handlers that neither validate a session nor touch
\* the token store: they change at most users, pc and record.
LEMMA OtherStep ==
  ASSUME Inv, NEW w \in Workers,
         StoreUnchanged, UNCHANGED <<req, entry>>,
         pc[w] # "idle",
         NEW stage \in Stage \ {"idle"}, pc' = [pc EXCEPT ![w] = stage],
         users' \in [Names -> UserRecord \cup {None}],
         record' \in [Workers -> UserRecord \cup {None}],
         \A v \in Workers \ {w} : record'[v] = record[v],
         stage = "verify" => req[w].username # None /\ record'[w] # None
  PROVE  Inv'
<1> USE DEF Inv
<1>1. Types'
  BY DEF Types, StoreUnchanged, Stage
<1>2. StoreAgrees' /\ PresentedIsIssued'
  BY DEF StoreAgrees, PresentedIsIssued, StoreUnchanged
<1>3. OverStaysInvalid'
  BY DEF OverStaysInvalid, StoreUnchanged, validated_token, validate, extract_token, Types
<1>4. IdleIsFresh' /\ SessionEndIsFinal'
  BY DEF IdleIsFresh, SessionEndIsFinal, StoreUnchanged, Types
<1> QED BY <1>1, <1>2, <1>3, <1>4


\* Gate and Validate: they may also answer, and admit only a caller whose session
\* validates.
LEMMA AdmitStep ==
  ASSUME Inv, NEW w \in Workers,
         StoreUnchanged, UNCHANGED <<users, req, record>>,
         pc[w] \in {"gate", "handle"},
         NEW stage \in {"handle", "authorize", "respond"}, pc' = [pc EXCEPT ![w] = stage],
         \/ UNCHANGED entry
         \/ validated_token(w) # None /\ entry' = [entry EXCEPT ![w] = validated_token(w)]
  PROVE  Inv'
<1>1. Types'
  BY EntryAssumption DEF Inv, Types, StoreUnchanged, Stage, validated_token, validate
<1>2. StoreAgrees' /\ PresentedIsIssued'
  BY DEF Inv, StoreAgrees, PresentedIsIssued, StoreUnchanged
<1>3. OverStaysInvalid'
  BY DEF Inv, OverStaysInvalid, StoreUnchanged, validated_token, validate, extract_token, Types
<1>4. IdleIsFresh'
  BY DEF Inv, IdleIsFresh, Types
<1>5. SessionEndIsFinal'
  BY DEF Inv, OverStaysInvalid, SessionEndIsFinal, StoreUnchanged, Types
<1> QED BY <1>1, <1>2, <1>3, <1>4, <1>5 DEF Inv

\* Configuration calls of the application.
LEMMA ConfigureStep ==
  ASSUME Inv, UNCHANGED <<TS_vars, users, worker_vars, opened, ended, over>>
  PROVE  Inv'
<1>1. Types'
  BY DEF Inv, Types, TS_vars, worker_vars
<1>2. StoreAgrees' /\ PresentedIsIssued'
  BY DEF Inv, StoreAgrees, PresentedIsIssued, TS_vars, worker_vars
<1>3. OverStaysInvalid'
  BY DEF Inv, OverStaysInvalid, TS_vars, worker_vars, validated_token, validate, extract_token
<1>4. IdleIsFresh' /\ SessionEndIsFinal'
  BY DEF Inv, IdleIsFresh, SessionEndIsFinal, worker_vars
<1> QED BY <1>1, <1>2, <1>3, <1>4 DEF Inv

-----------------------------------------------------------------------------
(* Steps that begin and end a request. *)

\* A session that is over validates to nothing.
LEMMA OverIsInvalid ==
  ASSUME Types, StoreAgrees, NEW t \in issued \cup {None}, SessionOver(t)
  PROVE  validate(t) = None
<1>1. CASE t = None
  BY <1>1, TokenAssumption DEF validate
<1>2. CASE t \in ended
  BY <1>2 DEF StoreAgrees, validate, Types
<1>3. CASE t \in issued /\ now > opened[t] + TTL
  BY <1>3, TokenAssumption DEF StoreAgrees, validate, Types
<1> QED BY <1>1, <1>2, <1>3 DEF SessionOver

LEMMA BeginStep ==
  ASSUME Inv, NEW w \in Workers, H_Begin(w)
  PROVE  Inv'
<1> DEFINE token == extract_token(cookie'[w], bearer'[w])
<1>1. /\ UNCHANGED <<store, issued, now, users, entry, record, opened, ended>>
      /\ pc[w] = "idle"
      /\ pc' = [pc EXCEPT ![w] = "lookup"]
      /\ over' = [over EXCEPT ![w] = SessionOver(token)]
  BY DEF H_Begin, Begin, goto, UNCHANGED_stores, UNCHANGED_copies, TS_vars
<1>2. PICK r \in Requests, c \in Delivered \cup {None}, b \in Delivered \cup {None} :
        /\ req' = [req EXCEPT ![w] = r]
        /\ cookie' = [cookie EXCEPT ![w] = c]
        /\ bearer' = [bearer EXCEPT ![w] = b]
  BY DEF H_Begin, Begin
<1>3. c \in issued \cup {None} /\ b \in issued \cup {None}
  BY <1>2 DEF Delivered
<1>4. SessionOver(token) \in BOOLEAN
  BY DEF SessionOver
<1>5. Types'
  BY <1>1, <1>2, <1>3, <1>4, EngineAssumption DEF Inv, Types, Stage
<1>6. StoreAgrees' /\ PresentedIsIssued'
  BY <1>1, <1>2, <1>3 DEF Inv, StoreAgrees, PresentedIsIssued, Types
<1>7. OverStaysInvalid'
  <2> SUFFICES ASSUME NEW v \in Workers, pc'[v] # "idle", over'[v]
               PROVE  validated_token(v)' = None
    BY DEF OverStaysInvalid
  <2>1. CASE v # w
    BY <2>1, <1>1, <1>2 DEF Inv, OverStaysInvalid, validated_token, validate, extract_token, Types
  <2>2. CASE v = w
    <3>1. SessionOver(token)
      BY <2>2, <1>1, <1>4 DEF Inv, Types
    <3>2. token \in issued \cup {None}
      BY <1>2, <1>3 DEF Inv, Types, extract_token
    <3>3. validate(token) = None
      BY <3>1, <3>2, OverIsInvalid DEF Inv
    <3> QED BY <2>2, <3>3, <1>1 DEF validated_token, validate
  <2> QED BY <2>1, <2>2
<1>8. IdleIsFresh'
  BY <1>1 DEF Inv, IdleIsFresh, Types
<1>9. SessionEndIsFinal'
  BY <1>1, <1>4 DEF Inv, SessionEndIsFinal, IdleIsFresh, Types
<1> QED BY <1>5, <1>6, <1>7, <1>8, <1>9 DEF Inv

LEMMA DeliverStep ==
  ASSUME Inv, NEW w \in Workers, Deliver(w), UNCHANGED <<opened, ended, over>>
  PROVE  Inv'
<1>1. /\ UNCHANGED <<store, issued, now, users>>
      /\ pc' = [pc EXCEPT ![w] = "idle"]
      /\ req' = [req EXCEPT ![w] = None]
      /\ cookie' = [cookie EXCEPT ![w] = None]
      /\ bearer' = [bearer EXCEPT ![w] = None]
      /\ entry' = [entry EXCEPT ![w] = None]
      /\ record' = [record EXCEPT ![w] = None]
  BY DEF Deliver, goto, UNCHANGED_stores, TS_vars
<1>2. Types'
  BY <1>1 DEF Inv, Types, Stage
<1>3. StoreAgrees' /\ PresentedIsIssued'
  BY <1>1 DEF Inv, StoreAgrees, PresentedIsIssued, Types
<1>4. OverStaysInvalid'
  BY <1>1 DEF Inv, OverStaysInvalid, validated_token, validate, extract_token, Types
<1>5. IdleIsFresh' /\ SessionEndIsFinal'
  BY <1>1 DEF Inv, IdleIsFresh, SessionEndIsFinal, Types
<1> QED BY <1>2, <1>3, <1>4, <1>5 DEF Inv

-----------------------------------------------------------------------------
(* Steps that change the token store. *)

\* Minting a session: the token is new, so no request in flight presents it.
LEMMA LoginIssueStep ==
  ASSUME Inv, NEW w \in Workers, H_LoginIssue(w)
  PROVE  Inv'
<1>1. /\ pc[w] = "verify"
      /\ pc' = [pc EXCEPT ![w] = "respond"]
      /\ UNCHANGED <<users, req, cookie, bearer, entry, record, ended, over>>
      /\ opened' = [t \in Tokens |-> IF t \in issued' \ issued THEN now ELSE opened[t]]
  BY DEF H_LoginIssue, LoginIssue, answer, answer_with, goto, only_answers,
         UNCHANGED_request, UNCHANGED_copies
<1>2. CASE UNCHANGED TS_vars
  <2>1. UNCHANGED opened
    BY <1>1, <1>2 DEF Inv, Types, TS_vars
  <2> QED BY <1>1, <1>2, <2>1, OtherStep DEF StoreUnchanged, TS_vars, Stage, Inv, Types
<1>3. CASE \E token \in Tokens : issue(token, req[w].username, record[w].role)
  <2>1. PICK token \in Tokens : issue(token, req[w].username, record[w].role)
    BY <1>3
  <2> DEFINE new == [username |-> req[w].username, role |-> record[w].role,
                     expires_at |-> now + TTL]
  <2>2. /\ token \notin issued
        /\ store' = [store EXCEPT ![token] = new]
        /\ issued' = issued \cup {token}
        /\ now' = now
    BY <2>1 DEF issue
  <2>3. new \in TokenEntry
    <3>1. req[w] \in Request /\ req[w].username \in Names
      BY <1>1, EngineAssumption DEF Inv, Types, Request
    <3>2. record[w] \in UserRecord
      BY <1>1 DEF Inv, Types
    <3> QED BY <3>1, <3>2, TokenAssumption DEF Inv, Types, TokenEntry, UserRecord
  <2>4. opened' = [opened EXCEPT ![token] = now]
    BY <1>1, <2>2 DEF Inv, Types
  <2>5. Types'
    BY <1>1, <2>2, <2>3, <2>4 DEF Inv, Types, Stage
  <2>6. StoreAgrees' /\ PresentedIsIssued'
    BY <1>1, <2>2, <2>4 DEF Inv, StoreAgrees, PresentedIsIssued, Types
  <2>7. OverStaysInvalid'
    <3> SUFFICES ASSUME NEW v \in Workers, pc'[v] # "idle", over'[v]
                 PROVE  validated_token(v)' = None
      BY DEF OverStaysInvalid
    <3>1. pc[v] # "idle" /\ over[v]
      BY <1>1 DEF Inv, Types
    <3>2. extract_token(cookie[v], bearer[v]) # token
      BY <2>2, TokenAssumption DEF Inv, PresentedIsIssued, extract_token
    <3> QED BY <1>1, <2>2, <3>1, <3>2
            DEF Inv, OverStaysInvalid, validated_token, validate, extract_token, Types
  <2>8. IdleIsFresh' /\ SessionEndIsFinal'
    BY <1>1 DEF Inv, IdleIsFresh, SessionEndIsFinal, Types
  <2> QED BY <2>5, <2>6, <2>7, <2>8 DEF Inv
<1> QED BY <1>2, <1>3 DEF H_LoginIssue, LoginIssue

LEMMA LogoutStep ==
  ASSUME Inv, NEW w \in Workers, H_Logout(w)
  PROVE  Inv'
<1>1. /\ pc[w] = "handle"
      /\ pc' = [pc EXCEPT ![w] = "respond"]
      /\ UNCHANGED <<issued, now, users, req, cookie, bearer, entry, record, opened, over>>
      /\ ended' = ended \cup ({cookie[w]} \ {None})
  BY DEF H_Logout, Logout, handling, answer, answer_with, goto, only_answers,
         UNCHANGED_request, UNCHANGED_copies, revoke, TS_vars
<1>2. \A t \in Tokens : store'[t] = IF t = cookie[w] THEN None ELSE store[t]
  BY TokenAssumption DEF H_Logout, Logout, revoke, TS_vars
<1>3. store' \in [Tokens -> TokenEntry \cup {None}]
  BY DEF H_Logout, Logout, revoke, TS_vars, Inv, Types
<1>4. Types'
  BY <1>1, <1>3 DEF Inv, Types, Stage
<1>5. StoreAgrees' /\ PresentedIsIssued'
  BY <1>1, <1>2 DEF Inv, StoreAgrees, PresentedIsIssued, Types
<1>6. OverStaysInvalid'
  BY <1>1, <1>2 DEF Inv, OverStaysInvalid, validated_token, validate, extract_token, Types
<1>7. IdleIsFresh' /\ SessionEndIsFinal'
  BY <1>1 DEF Inv, IdleIsFresh, SessionEndIsFinal, Types
<1> QED BY <1>4, <1>5, <1>6, <1>7 DEF Inv

\* Time advances: what was invalid stays invalid.
LEMMA ClockStep ==
  ASSUME Inv, Clock, UNCHANGED <<opened, ended, over>>
  PROVE  Inv'
<1>1. now' = now + 1 /\ UNCHANGED <<store, issued, users, worker_vars>>
  BY DEF Clock, Tick
<1>2. Types'
  BY <1>1 DEF Inv, Types, worker_vars
<1>3. StoreAgrees' /\ PresentedIsIssued'
  BY <1>1 DEF Inv, StoreAgrees, PresentedIsIssued, worker_vars
<1>4. OverStaysInvalid'
  <2> SUFFICES ASSUME NEW v \in Workers, pc[v] # "idle", over[v]
               PROVE  validated_token(v)' = None
    BY <1>1 DEF OverStaysInvalid, worker_vars
  <2> DEFINE t == extract_token(cookie[v], bearer[v])
  <2>1. validate(t) = None
    BY DEF Inv, OverStaysInvalid, validated_token
  <2>2. validated_token(v)' = IF t \in Tokens /\ store[t] # None /\ ~(store[t].expires_at < now + 1)
                                THEN store[t] ELSE None
    BY <1>1 DEF validated_token, validate, extract_token, worker_vars
  <2>3. ASSUME t \in Tokens, store[t] # None PROVE store[t].expires_at < now + 1
    <3>1. store[t].expires_at \in Nat
      BY <2>3 DEF Inv, Types, TokenEntry
    <3>2. store[t].expires_at < now
      BY <2>1, <2>3 DEF validate
    <3> QED BY <3>1, <3>2 DEF Inv, Types
  <2> QED BY <2>2, <2>3
<1>5. IdleIsFresh' /\ SessionEndIsFinal'
  BY <1>1 DEF Inv, IdleIsFresh, SessionEndIsFinal, worker_vars
<1> QED BY <1>2, <1>3, <1>4, <1>5 DEF Inv


-----------------------------------------------------------------------------
(* The steps of a worker that no history records. *)

LEMMA UnrecordedStep ==
  ASSUME Inv, NEW w \in Workers, Unrecorded(w), UNCHANGED <<opened, ended, over>>
  PROVE  Inv'
<1> USE DEF UNCHANGED_stores, UNCHANGED_request, UNCHANGED_copies, TS_vars, StoreUnchanged,
            answer, answer_with, goto, only_answers, handling
<1>t. /\ users \in [Names -> UserRecord \cup {None}]
      /\ record \in [Workers -> UserRecord \cup {None}]
      /\ req[w] \in Requests \cup {None}
      /\ \A v \in Workers : pc[v] # "idle" => req[v] # None
  BY DEF Inv, Types
<1>r. pc[w] # "idle" => req[w] \in Request
  BY <1>t, EngineAssumption
<1>1. CASE Lookup(w)
  BY <1>1, <1>t, OtherStep DEF Lookup, Stage
<1>2. CASE Gate(w)
  <2>1. \E stage \in {"handle", "authorize", "respond"} : pc' = [pc EXCEPT ![w] = stage]
    BY <1>2 DEF Gate
  <2>2. \/ UNCHANGED entry
        \/ validated_token(w) # None /\ entry' = [entry EXCEPT ![w] = validated_token(w)]
    BY <1>2 DEF Gate
  <2>3. pc[w] = "gate" /\ StoreUnchanged /\ UNCHANGED <<users, req, record>>
    BY <1>2 DEF Gate
  <2> QED BY <2>1, <2>2, <2>3, AdmitStep
<1>3. CASE LoginFetch(w)
  <2>1. CASE pc' = [pc EXCEPT ![w] = "respond"] /\ UNCHANGED record
    BY <1>3, <2>1, <1>t, OtherStep DEF LoginFetch, Stage
  <2>2. CASE /\ pc' = [pc EXCEPT ![w] = "verify"]
             /\ req[w].username # None /\ users[req[w].username] # None
             /\ record' = [record EXCEPT ![w] = users[req[w].username]]
    <3>1. req[w].username \in Names
      BY <1>3, <1>r, <2>2 DEF LoginFetch, Request
    <3>2. users[req[w].username] \in UserRecord
      BY <3>1, <2>2, <1>t
    <3>3. record' \in [Workers -> UserRecord \cup {None}] /\ record'[w] # None
      BY <3>2, <2>2, <1>t
    <3> QED BY <1>3, <2>2, <3>3, <1>t, OtherStep DEF LoginFetch, Stage
  <2> QED BY <1>3, <2>1, <2>2 DEF LoginFetch
<1>4. CASE Validate(w)
  <2>1. \E stage \in {"handle", "authorize", "respond"} : pc' = [pc EXCEPT ![w] = stage]
    BY <1>4 DEF Validate
  <2>2. \/ UNCHANGED entry
        \/ validated_token(w) # None /\ entry' = [entry EXCEPT ![w] = validated_token(w)]
    BY <1>4 DEF Validate
  <2>3. pc[w] = "handle" /\ StoreUnchanged /\ UNCHANGED <<users, req, record>>
    BY <1>4 DEF Validate
  <2> QED BY <2>1, <2>2, <2>3, AdmitStep
<1>5. CASE Authorize(w)
  BY <1>5, <1>t, OtherStep DEF Authorize, Stage
<1>6. CASE AdminAclList(w) \/ AdminUserList(w) \/ AdminAclSet(w) \/ AdminAclRemove(w) \/ AppHandler(w)
  BY <1>6, <1>t, OtherStep DEF AdminAclList, AdminUserList, AdminAclSet, AdminAclRemove, AppHandler, Stage
<1>7. CASE AdminUserAdd(w)
  <2>1. users' \in [Names -> UserRecord \cup {None}]
    BY <1>7, <1>t, <1>r DEF AdminUserAdd, seed_user, Request, UserRecord, OptionalRole
  <2> QED BY <1>7, <1>t, <2>1, OtherStep DEF AdminUserAdd, Stage
<1>8. CASE AdminUserRemove(w)
  <2>1. users' \in [Names -> UserRecord \cup {None}]
    BY <1>8, <1>t, <1>r DEF AdminUserRemove, no_such_user, remove_user
  <2> QED BY <1>8, <1>t, <2>1, OtherStep DEF AdminUserRemove, Stage
<1>9. CASE AdminUserRole(w)
  <2>1. users' \in [Names -> UserRecord \cup {None}]
    BY <1>9, <1>t, <1>r
       DEF AdminUserRole, no_such_user, set_user_role, Request, UserRecord, OptionalRole
  <2> QED BY <1>9, <1>t, <2>1, OtherStep DEF AdminUserRole, Stage
<1>10. CASE Deliver(w)
  BY <1>10, DeliverStep
<1> QED BY <1>1, <1>2, <1>3, <1>4, <1>5, <1>6, <1>7, <1>8, <1>9, <1>10 DEF Unrecorded

-----------------------------------------------------------------------------

LEMMA InvInit ==
  ASSUME H_Init
  PROVE  Inv
<1> USE DEF H_Init, Init, TS_Init, US_Init
<1>1. Types
  BY UserAssumption DEF Types, Stage
<1>2. StoreAgrees /\ PresentedIsIssued
  BY DEF StoreAgrees, PresentedIsIssued
<1>3. OverStaysInvalid /\ IdleIsFresh /\ SessionEndIsFinal
  BY DEF OverStaysInvalid, IdleIsFresh, SessionEndIsFinal
<1> QED BY <1>1, <1>2, <1>3 DEF Inv

LEMMA InvNext ==
  ASSUME Inv, [H_Next]_hvars
  PROVE  Inv'
<1>1. ASSUME NEW w \in Workers, H_Begin(w) PROVE Inv'
  BY <1>1, BeginStep
<1>2. ASSUME NEW w \in Workers, H_LoginIssue(w) PROVE Inv'
  BY <1>2, LoginIssueStep
<1>3. ASSUME NEW w \in Workers, H_Logout(w) PROVE Inv'
  BY <1>3, LogoutStep
<1>4. ASSUME NEW w \in Workers, Unrecorded(w), UNCHANGED <<opened, ended, over>> PROVE Inv'
  BY <1>4, UnrecordedStep
<1>5. ASSUME Configure, UNCHANGED <<opened, ended, over>> PROVE Inv'
  <2>1. UNCHANGED <<TS_vars, users, worker_vars>>
    BY <1>5 DEF Configure, AddApi, ServeProtectedFiles, SetApiRole, ProtectPath, UnprotectPath
  <2> QED BY <1>5, <2>1, ConfigureStep
<1>6. ASSUME Clock, UNCHANGED <<opened, ended, over>> PROVE Inv'
  BY <1>6, ClockStep
<1>7. ASSUME UNCHANGED hvars PROVE Inv'
  <2>1. UNCHANGED <<TS_vars, users, worker_vars, opened, ended, over>>
    BY <1>7 DEF hvars, vars, TS_vars, worker_vars
  <2> QED BY <2>1, ConfigureStep
<1> QED BY <1>1, <1>2, <1>3, <1>4, <1>5, <1>6, <1>7 DEF H_Next

\* Inv holds in every state the engine can reach.
THEOREM SessionInvariant == H_Spec => []Inv
<1>1. H_Init => Inv
  BY InvInit
<1>2. Inv /\ [H_Next]_hvars => Inv'
  BY InvNext
<1> QED BY <1>1, <1>2, PTL DEF H_Spec

\* No request is admitted whose session was over when it arrived: logged out,
\* past its lifetime, or none (TokenStore, Router::dispatch, AuthHandler).
THEOREM SessionEndIsFinalAlways == H_Spec => []SessionEndIsFinal
<1>1. Inv => SessionEndIsFinal
  BY DEF Inv
<1> QED BY <1>1, SessionInvariant, PTL

=============================================================================
