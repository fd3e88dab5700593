------------------------------ MODULE MCAdmin ------------------------------
(***************************************************************************)
(* The instance of MCEngine in which an administrator makes every call,    *)
(* while the application changes the rules, too; with the histories and    *)
(* the note of the last change of the access list.                         *)
(***************************************************************************)
EXTENDS EngineHistory, AclPolicy, MCEngine

A_Next == H_Next /\ NoteCall

A_FairSpec == H_Init /\ call = None /\ [][A_Next]_<<hvars, call>> /\ Fairness

=============================================================================
