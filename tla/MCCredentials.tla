------------------------------ MODULE MCCredentials ------------------------------
(* Credentials with the contexts and passwords given in the configurations.  *)
(* Contexts, passwords and types of keys are interchangeable, and only       *)
(* invariants are checked.                                                   *)
EXTENDS Credentials, TLC

Symmetry == Permutations(Ctx) \cup Permutations(Password) \cup Permutations(KeyType)
=============================================================================
