----------------------------- MODULE UserStore -----------------------------
(***************************************************************************)
(* The in-memory user directory behind the AuthProvider interface          *)
(* (include/webengine/TestAuthProvider.hpp).  Each operator is one         *)
(* critical section of the provider's shared_mutex; authenticate() is not  *)
(* among them because it is two steps (copy the record under the lock,     *)
(* verify the password outside it), see LoginFetch and LoginIssue of       *)
(* Engine.  A salted hash is represented by the password it was made from: *)
(* pbkdf2_verify() accepts that password and no other.                     *)
(***************************************************************************)
EXTENDS Vocabulary

CONSTANTS
  Passwords,   \* non-empty passwords
  SeedUsers    \* the accounts the provider's constructor seeds

UserRecord == [password : Passwords, role : Role]

ASSUME UserAssumption ==
  /\ None \notin Passwords
  /\ None \notin UserRecord
  /\ SeedUsers \in [Names -> UserRecord \cup {None}]

VARIABLE users  \* users_: name -> record, None where the map has no such key

US_TypeOK == users \in [Names -> UserRecord \cup {None}]

US_Init == users = SeedUsers

seed_user_OnlyNew(username, password, role) ==
  users' = [users EXCEPT ![username] =
    IF users[username] = None THEN [password |-> password, role |-> role] ELSE @]

\* seed_user(), and add_user() which calls it: insert or overwrite.
seed_user(username, password, role) ==
  users' = [users EXCEPT ![username] = [password |-> password, role |-> role]]

\* remove_user() returns true.
remove_user(username) ==
  /\ users[username] # None
  /\ users' = [users EXCEPT ![username] = None]

\* set_user_role() returns true.
set_user_role(username, role) ==
  /\ users[username] # None
  /\ users' = [users EXCEPT ![username].role = role]

\* remove_user() and set_user_role() return false: the user does not exist.
no_such_user(username) ==
  /\ users[username] = None
  /\ UNCHANGED users

\* list_users(): the users there are, each with its role; NoRole stands for no user.
roles_of(us) == [n \in Names |-> IF us[n] = None THEN NoRole ELSE us[n].role]

list_users == roles_of(users)

pbkdf2_verify(password, record) == record.password = password

=============================================================================
