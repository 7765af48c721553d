------------------------------ MODULE MCLifecycle ------------------------------
(* Lifecycle with the small sets of handles given in Lifecycle.cfg.       *)
(* Handles are model values; there is no symmetry, because the run checks *)
(* action and refinement properties.                                      *)
EXTENDS Lifecycle
=============================================================================
