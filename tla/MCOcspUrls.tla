------------------------------ MODULE MCOcspUrls ------------------------------
(* OcspUrls with bytes of 12 values.  The other OIDs have the length of the  *)
(* one of OCSP, or begin with it; the texts are empty, look like an access   *)
(* description, and need two bytes for the length of the sequence.           *)
EXTENDS OcspUrls

MCOcspOid == <<7, 1>>
MCOtherOid == {<<7, 2>>, <<7, 1, 1>>}
MCText == {<<>>, <<3, 2, 2>>, [i \in 1..45 |-> 4]}

(* Every value of up to four of the bytes that the decoder tells apart; an   *)
(* access description whose lengths are too short, right or too long, cut    *)
(* off anywhere; and sequences of length 0, which enclose nothing and are    *)
(* all the same entered.                                                     *)
MCRaw ==
  UNION {[1..n -> {0, 1, 2, 3, 4, 7, 8}] : n \in 0..4}
    \cup {SubSeq(<<3, s, 2, o, 7, 1, 4, t, 5>>, 1, n) :
            s \in {0, 2, 5, 8}, o \in {1, 2, 5}, t \in {0, 1, 2, 5, 7}, n \in 5..9}
    \cup {[i \in 1..n |-> IF i % 2 = 1 THEN 3 ELSE 0] : n \in 5..10}
=============================================================================
