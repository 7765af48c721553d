------------------------------ MODULE MCCertVerify ------------------------------
(* CertVerify with the bounds given in the configurations. *)
EXTENDS CertVerify
=============================================================================
