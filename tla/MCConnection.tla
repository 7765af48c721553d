------------------------------ MODULE MCConnection ------------------------------
(* Connection with the connections given in the configurations, which are   *)
(* interchangeable.                                                         *)
EXTENDS Connection, TLC

ConnSymmetry == Permutations(Conn)
=============================================================================
