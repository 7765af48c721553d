------------------------------ MODULE MCOcspFetch ------------------------------
(* OcspFetch with the buffers of the code scaled down, see OcspFetch.cfg. *)
EXTENDS OcspFetch
=============================================================================
