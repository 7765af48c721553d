------------------------------- MODULE MCSSLConf -------------------------------
(* SSLConf with ints of 8 bits and 10 microseconds in a millisecond, which  *)
(* keeps the proportions of the code: a number of milliseconds that fits an *)
(* int may not fit it in microseconds.                                      *)
EXTENDS SSLConf
=============================================================================
