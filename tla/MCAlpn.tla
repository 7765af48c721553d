-------------------------------- MODULE MCAlpn --------------------------------
(* Alpn with a first buffer of 4 bytes instead of 128, length bytes of 4     *)
(* values instead of 256 and names of at most 8 bytes instead of 65535: a    *)
(* short name, one that fills the buffer exactly, the empty one, one that is *)
(* longer than the buffer and has the length byte of the short one, and one  *)
(* over the limit.                                                           *)
EXTENDS Alpn

MCName == {"empty", "short", "exact", "truncated", "oversized"}
MCSize == [n \in MCName |-> CASE n = "empty" -> 0 [] n = "short" -> 1
                              [] n = "exact" -> 3 [] n = "truncated" -> 5
                              [] n = "oversized" -> 9]
=============================================================================
