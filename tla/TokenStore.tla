----------------------------- MODULE TokenStore -----------------------------
(***************************************************************************)
(* The in-memory session-token store (src/TokenStore.hpp).                 *)
(*                                                                         *)
(* Every method is one critical section of the store's shared_mutex, hence *)
(* one atomic operation here.  An entry is removed by revoke() only: an    *)
(* expired one stays in the map and validate() refuses it.                 *)
(*                                                                         *)
(* A token is 256 bits of CSPRNG output.  The model takes the generator's  *)
(* uniqueness as given: `issued` remembers every token ever minted, and a  *)
(* new one is chosen outside it.                                           *)
(***************************************************************************)
EXTENDS Vocabulary

CONSTANTS
  Tokens,      \* what RAND_bytes can produce
  TTL,         \* lifetime of a session (8 hours in the code)
  MaxTime      \* bound on the clock

ASSUME TokenAssumption ==
  /\ TTL \in Nat
  /\ MaxTime \in Nat
  /\ None \notin Tokens

VARIABLES
  store,       \* store_: token -> entry, None where the map has no such key
  issued,      \* every token minted so far (uniqueness of the CSPRNG)
  now          \* steady_clock::now()

TS_vars == <<store, issued, now>>

TokenEntry == [username : Names, role : Role, expires_at : Nat]

ASSUME EntryAssumption == None \notin TokenEntry

TS_TypeOK ==
  /\ store \in [Tokens -> TokenEntry \cup {None}]
  /\ issued \in SUBSET Tokens
  /\ now \in Nat
  /\ \A t \in Tokens : store[t] # None => t \in issued

TS_Init ==
  /\ store = [t \in Tokens |-> None]
  /\ issued = {}
  /\ now = 0

\* issue(): the caller has already drawn `token` from the generator.
issue_NotUnique(token, username, role) ==
  /\ store' = [store EXCEPT ![token] =
                 [username |-> username, role |-> role, expires_at |-> now + TTL]]
  /\ issued' = issued \cup {token}
  /\ now' = now

issue(token, username, role) ==
  /\ token \in Tokens \ issued
  /\ store' = [store EXCEPT ![token] =
                 [username |-> username, role |-> role, expires_at |-> now + TTL]]
  /\ issued' = issued \cup {token}
  /\ now' = now

\* validate(): the entry of a known, unexpired token, or None.  The boundary is
\* inclusive: an entry is still good at the very instant expires_at.
validate_NoExpiry(token) ==
  IF token \in Tokens THEN store[token] ELSE None

validate(token) ==
  IF /\ token \in Tokens
     /\ store[token] # None
     /\ ~(store[token].expires_at < now)
    THEN store[token] ELSE None

\* revoke(): erasing an absent key is a no-op.
revoke(token) ==
  /\ store' = [t \in Tokens |-> IF t = token THEN None ELSE store[t]]
  /\ UNCHANGED <<issued, now>>

\* The monotonic clock, bounded by MaxTime.
Tick ==
  /\ now < MaxTime
  /\ now' = now + 1
  /\ UNCHANGED <<store, issued>>

=============================================================================
