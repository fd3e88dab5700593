------------------------------ MODULE Sessions ------------------------------
(***************************************************************************)
(* What the engine promises about sessions, with no store, no clock and no *)
(* routing: a session is opened once, for one user with one role; it ends  *)
(* once and for all; and a request is admitted, as the session's user, at  *)
(* an instant at which the session it presents is open.                    *)
(***************************************************************************)
CONSTANTS Tokens, Names, Role, Workers, None

User == [username : Names, role : Role]

VARIABLES
  session,    \* token -> its state, and its user while it is open
  presents,   \* the token of the request each worker serves, or None
  user        \* the user that request was admitted as, or None

vars == <<session, presents, user>>

Init ==
  /\ session = [t \in Tokens |-> [state |-> "unborn", user |-> None]]
  /\ presents = [w \in Workers |-> None]
  /\ user = [w \in Workers |-> None]

Open(t, u) ==
  /\ session[t].state = "unborn"
  /\ session' = [session EXCEPT ![t] = [state |-> "open", user |-> u]]
  /\ UNCHANGED <<presents, user>>

\* Several may end at once, as the clock advances.
End(ending) ==
  /\ \A t \in ending : session[t].state = "open"
  /\ session' = [t \in Tokens |->
                   IF t \in ending THEN [state |-> "ended", user |-> None]
                                   ELSE session[t]]
  /\ UNCHANGED <<presents, user>>

Arrive(w, t) ==
  /\ presents[w] = None /\ user[w] = None
  /\ session[t].state # "unborn"
  /\ presents' = [presents EXCEPT ![w] = t]
  /\ UNCHANGED <<session, user>>

Admit(w) ==
  /\ presents[w] # None /\ user[w] = None
  /\ session[presents[w]].state = "open"
  /\ user' = [user EXCEPT ![w] = session[presents[w]].user]
  /\ UNCHANGED <<session, presents>>

Leave(w) ==
  /\ presents' = [presents EXCEPT ![w] = None]
  /\ user' = [user EXCEPT ![w] = None]
  /\ UNCHANGED session

Next ==
  \/ \E t \in Tokens, u \in User : Open(t, u)
  \/ \E ending \in SUBSET Tokens : End(ending)
  \/ \E w \in Workers : (\E t \in Tokens : Arrive(w, t)) \/ Admit(w) \/ Leave(w)

Spec == Init /\ [][Next]_vars

=============================================================================
