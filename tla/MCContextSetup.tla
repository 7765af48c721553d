--------------------------------- MODULE MCContextSetup ---------------------------------
(* ContextSetup with the threads given in the configurations. *)
EXTENDS ContextSetup
=============================================================================
