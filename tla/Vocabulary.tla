----------------------------- MODULE Vocabulary -----------------------------
(***************************************************************************)
(* The sets shared by the components.                                      *)
(***************************************************************************)
EXTENDS Roles

CONSTANTS
  Names,       \* non-empty user names
  None         \* std::nullopt: no entry, no user, no route, no header, no field

ASSUME VocabularyAssumption == None \notin Names

=============================================================================
