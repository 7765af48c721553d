-------------------------------- MODULE OcspUrls --------------------------------
(***************************************************************************)
(* How the responders of a certificate are found: decode_OCSP_url and its  *)
(* helpers (sslutils.c) walk the DER encoding of the Authority Information *)
(* Access extension,                                                       *)
(*                                                                         *)
(*   SEQUENCE OF SEQUENCE { accessMethod OID, accessLocation GeneralName } *)
(*                                                                         *)
(* and collect the URIs of the access descriptions that have the OID of    *)
(* OCSP.  parse_ASN1_Sequence calls itself; `stack' holds the activations, *)
(* each with its local variables asn1 and len, the running one last.  No   *)
(* activation knows where its sequence ends: it reads on to the byte 0     *)
(* behind the whole value.                                                 *)
(*                                                                         *)
(* A byte is a number below Base, its high bit is the test for at least    *)
(* HighBit.  The encoder stands for the authority that issued the          *)
(* certificate (external).  The decoder gets the value of the extension as *)
(* it stands in the certificate, which nothing has decoded before: it may  *)
(* be no encoding at all (form "raw").  No length is compared with the     *)
(* length of the value, so a turn of the loop may read behind the copy,    *)
(* after which the model says nothing (response "undefined").  Memory is   *)
(* always available.                                                       *)
(***************************************************************************)
EXTENDS Integers, SequencesExt

CONSTANTS
  Base, HighBit,   \* number of values of a byte, and its high bit
  OCSP_OID,        \* the bytes of the OID of OCSP
  OtherOID,        \* the bytes of other OIDs
  Text,            \* the bytes of the URIs and of other names
  Raw,             \* values that the encoder need not have written
  MaxItems         \* bound: access descriptions in an extension

(* The tags, and the one of an element that is foreign to the extension. *)
ASN1_SEQUENCE == 3
ASN1_OID == 2
ASN1_STRING == 4
OtherName == 5
Foreign == 1

ASSUME OcspUrlsAssumption ==
  /\ HighBit \in Nat /\ HighBit > 5 /\ Base = 2 * HighBit
  /\ OCSP_OID \in Seq(1..(Base - 1)) /\ OCSP_OID \notin OtherOID
  /\ OtherOID \subseteq Seq(1..(Base - 1))
  /\ Text \subseteq Seq(1..(Base - 1))
  /\ Raw \subseteq Seq(0..(Base - 1))
  /\ MaxItems \in Nat

Item == [tag : {ASN1_SEQUENCE}, oid : {OCSP_OID} \cup OtherOID,
         name : {ASN1_STRING, OtherName}, text : Text]
          \cup [tag : {Foreign}, oid : {OCSP_OID}, name : {OtherName}, text : Text]

(* The encoding of the length of the extension: the one that DER demands,   *)
(* or one that only BER allows.                                             *)
Form == {"der", "two_bytes", "four_bytes", "indefinite"}

VARIABLES
  items, form,  \* what the certificate says, and how
  data,         \* the value of the extension, with a byte 0 behind it
  stack,        \* activations of parse_ASN1_Sequence
  err,          \* what the activations return
  urls,         \* the array of URLs
  response      \* result of decode_OCSP_url: "pending", "NULL", "urls" or "undefined"

urlVars == <<items, form, data, stack, err, urls, response>>

-----------------------------------------------------------------------------
(* The encoder *)

Length(n) ==
  IF n < HighBit THEN <<n>>
  ELSE IF n < Base THEN <<HighBit + 1, n>>
  ELSE IF n < Base * Base THEN <<HighBit + 2, n \div Base, n % Base>>
  ELSE <<HighBit + 3, (n \div Base) \div Base, (n \div Base) % Base, n % Base>>

LengthAs(f, n) ==
  CASE f = "der"        -> Length(n)
    [] f = "two_bytes"  -> <<HighBit + 2, n \div Base, n % Base>>
    [] f = "four_bytes" -> <<HighBit + 4, 0, (n \div Base) \div Base, (n \div Base) % Base, n % Base>>
    [] f = "indefinite" -> <<HighBit>>

Element(tag, content) == <<tag>> \o Length(Len(content)) \o content

EncodeItem(i) ==
  IF i.tag = Foreign THEN Element(Foreign, i.text)
  ELSE Element(ASN1_SEQUENCE, Element(ASN1_OID, i.oid) \o Element(i.name, i.text))

(* The encodings of the first k descriptions, one after the other. *)
Contents(is) ==
  LET first[k \in 0..Len(is)] ==
        IF k = 0 THEN <<>> ELSE first[k - 1] \o EncodeItem(is[k])
  IN  first

Encode(is, f) ==
  LET content == Contents(is)[Len(is)]
  IN  <<ASN1_SEQUENCE>> \o LengthAs(f, Len(content)) \o content

(* Longer contents would need four bytes for the length, 16 MB in the code. *)
MaxContent(f) == IF f = "two_bytes" THEN Base * Base ELSE Base * Base * Base

-----------------------------------------------------------------------------
(* The decoder *)

(* decode_OCSP_url copies the value and puts a byte 0 behind the copy. *)
Encoded ==
  /\ items \in UNION {[1..n -> Item] : n \in 0..MaxItems}
  /\ form \in Form
  /\ Len(Contents(items)[Len(items)]) < MaxContent(form)
  /\ data = Append(Encode(items, form), 0)
Arbitrary ==
  /\ items = <<>> /\ form = "raw"
  /\ \E v \in Raw : data = Append(v, 0)
UrlInit ==
  /\ Encoded \/ Arbitrary
  /\ stack = <<[asn1 |-> 1, len |-> 0]>>
  /\ err = FALSE /\ urls = <<>> /\ response = "pending"

(* The number in i bytes from p on, the most significant first. *)
Bytes(p, i) ==
  LET one == data[p]
      two == one * Base + data[p + 1]
  IN  CASE i = 1 -> one [] i = 2 -> two [] i = 3 -> two * Base + data[p + 2]

(* parse_asn1_length for the tag at p: the length, and where the data is. *)
parse_asn1_length_Indefinite(p) ==
  LET first == data[p + 1]
      i == first - HighBit
  IN  IF first < HighBit THEN [err |-> FALSE, len |-> first, asn1 |-> p + 2]
      ELSE IF i > 3 THEN [err |-> TRUE, len |-> 0, asn1 |-> p + 1]
      ELSE [err |-> FALSE, len |-> IF i = 0 THEN -1 ELSE Bytes(p + 2, i), asn1 |-> p + 2 + i]
parse_asn1_length_LowFirst(p) ==
  LET first == data[p + 1]
      i == first - HighBit
  IN  IF first < HighBit THEN [err |-> FALSE, len |-> first, asn1 |-> p + 2]
      ELSE IF i = 0 \/ i > 3 THEN [err |-> TRUE, len |-> 0, asn1 |-> p + 1]
      ELSE [err |-> FALSE, asn1 |-> p + 2 + i,
            len |-> IF i = 2 THEN data[p + 3] * Base + data[p + 2] ELSE Bytes(p + 2, i)]
parse_asn1_length(p) ==
  LET first == data[p + 1]
      i == first - HighBit
  IN  IF first < HighBit THEN [err |-> FALSE, len |-> first, asn1 |-> p + 2]
      ELSE IF i = 0 \/ i > 3 THEN [err |-> TRUE, len |-> 0, asn1 |-> p + 1]
      ELSE [err |-> FALSE, len |-> Bytes(p + 2, i), asn1 |-> p + 2 + i]

Copy(p, len) == SubSeq(data, p, p + len - 1)

(* parse_ocsp_url at p: a name that is not a URI is no error. *)
parse_ocsp_url(p) ==
  LET l == parse_asn1_length(p)
  IN  IF data[p] # ASN1_STRING THEN UNCHANGED <<err, urls>>
      ELSE /\ err' = l.err
           /\ urls' = IF l.err THEN urls ELSE Append(urls, Copy(l.asn1, l.len))

parse_ASN1_OID_Prefix(p) ==
  LET l == parse_asn1_length(p)
  IN  IF ~l.err /\ l.asn1 + l.len <= Len(data) /\ IsPrefix(OCSP_OID, Copy(l.asn1, l.len))
        THEN parse_ocsp_url(l.asn1 + l.len)
        ELSE err' = l.err /\ UNCHANGED urls
parse_ASN1_OID(p) ==
  LET l == parse_asn1_length(p)
  IN  IF ~l.err /\ l.len = Len(OCSP_OID) /\ Copy(l.asn1, l.len) = OCSP_OID
        THEN parse_ocsp_url(l.asn1 + l.len)
        ELSE err' = l.err /\ UNCHANGED urls

Running == stack # <<>>
Top == Last(stack)

(* What the functions above read is in the copy: the bytes of a length, the *)
(* content that is compared or copied, the name behind the OID of OCSP, and *)
(* all that one turn of the loop reads.                                     *)
LengthInside(p) ==
  /\ p + 1 <= Len(data)
  /\ data[p + 1] - HighBit \in 1..3 => p + 1 + (data[p + 1] - HighBit) <= Len(data)
ContentInside(p) ==
  LET l == parse_asn1_length(p) IN l.err \/ l.asn1 + l.len <= Len(data) + 1
NameInside(p) ==
  p <= Len(data) /\ (data[p] = ASN1_STRING => LengthInside(p) /\ ContentInside(p))
OIDInside(p) ==
  LET l == parse_asn1_length(p)
  IN  /\ LengthInside(p)
      /\ ~l.err /\ l.len = Len(OCSP_OID) =>
           /\ ContentInside(p)
           /\ Copy(l.asn1, l.len) = OCSP_OID => NameInside(l.asn1 + l.len)
TurnInside ==
  /\ Top.asn1 <= Len(data)
  /\ data[Top.asn1] = ASN1_SEQUENCE => LengthInside(Top.asn1)
  /\ data[Top.asn1] = ASN1_OID => OIDInside(Top.asn1)

Turn == Running /\ ~err /\ TurnInside

(* What the calling activation does with the result: it skips the sequence *)
(* it has just handed over.                                                *)
Return ==
  stack' = LET s == Front(stack)
           IN  IF s = <<>> THEN s
               ELSE [s EXCEPT ![Len(s)].asn1 = @ + s[Len(s)].len]

(* The loop meets a sequence: it calls itself for the content. *)
EnterSequence ==
  /\ Turn /\ data[Top.asn1] = ASN1_SEQUENCE
  /\ LET l == parse_asn1_length(Top.asn1)
     IN  /\ err' = l.err
         /\ stack' = IF l.err THEN stack
                     ELSE Front(stack) \o <<[asn1 |-> l.asn1, len |-> l.len],
                                            [asn1 |-> l.asn1, len |-> 0]>>
  /\ UNCHANGED <<items, form, data, urls, response>>

(* The loop meets an OID: this activation is done. *)
ReadOID ==
  /\ Turn /\ data[Top.asn1] = ASN1_OID
  /\ parse_ASN1_OID(Top.asn1)
  /\ Return
  /\ UNCHANGED <<items, form, data, response>>

(* The loop meets another tag. *)
Unexpected ==
  /\ Turn /\ data[Top.asn1] \notin {0, ASN1_SEQUENCE, ASN1_OID}
  /\ err' = TRUE
  /\ UNCHANGED <<items, form, data, stack, urls, response>>

(* The loop ends at the byte 0, or with an error. *)
LeaveSequence_OnlyAtZero ==
  /\ Running
  /\ TurnInside /\ data[Top.asn1] = 0
  /\ Return
  /\ UNCHANGED <<items, form, data, err, urls, response>>
LeaveSequence ==
  /\ Running
  /\ err \/ (TurnInside /\ data[Top.asn1] = 0)
  /\ Return
  /\ UNCHANGED <<items, form, data, err, urls, response>>

(* A turn of the loop reads behind the copy: anything may follow. *)
ReadOutside ==
  /\ Running /\ ~err /\ ~TurnInside
  /\ stack' = <<>> /\ response' = "undefined"
  /\ UNCHANGED <<items, form, data, err, urls>>

decode_OCSP_url ==
  /\ ~Running /\ response = "pending"
  /\ response' = IF err \/ urls = <<>> THEN "NULL" ELSE "urls"
  /\ UNCHANGED <<items, form, data, stack, err, urls>>

WalkNext == EnterSequence \/ ReadOID \/ Unexpected \/ LeaveSequence \/ decode_OCSP_url
UrlNext == WalkNext \/ ReadOutside

(* The walk is one thread's sequential code: it goes on while it can. *)
UrlSpec == UrlInit /\ [][UrlNext]_urlVars
FairUrlSpec == UrlSpec /\ WF_urlVars(UrlNext)

-----------------------------------------------------------------------------
UrlTypeOK ==
  /\ stack \in Seq([asn1 : Nat \ {0}, len : Nat])
  /\ err \in BOOLEAN
  /\ urls \in Seq(Seq(0..(Base - 1)))
  /\ response \in {"pending", "NULL", "urls", "undefined"}

(* The descriptions that name a responder, and the extensions that have an *)
(* element that is no description or a length that the decoder is written  *)
(* to refuse.                                                              *)
Wanted == {k \in DOMAIN items : items[k].oid = OCSP_OID /\ items[k].name = ASN1_STRING}
Refused == \/ form \in {"four_bytes", "indefinite"}
           \/ \E k \in DOMAIN items : items[k].tag = Foreign

(* The array has the URIs of the descriptions K, each once and in order. *)
Lists(K) ==
  /\ Len(urls) = Cardinality(K)
  /\ \A k \in K : urls[Cardinality({j \in K : j <= k})] = items[k].text

(* Of an extension that the encoder wrote, decode_OCSP_url returns exactly   *)
(* the OCSP URIs, in their order, although the activations overlap, names    *)
(* contain bytes that are tags, other descriptions stand between and lengths *)
(* have one to four bytes; and nothing at all rather than a part when it     *)
(* fails.                                                                    *)
DecodesUrls ==
  form # "raw" =>
    /\ response = "urls" => ~Refused /\ Wanted # {} /\ Lists(Wanted)
    /\ response = "NULL" => Refused \/ Wanted = {}

(* A caller never resumes behind the byte 0. *)
ResumesInside ==
  \A k \in DOMAIN stack : stack[k].asn1 + (IF k < Len(stack) THEN stack[k].len ELSE 0) <= Len(data)

(* Of an extension that the encoder wrote, the walk reads no byte behind the *)
(* copy, although it checks none of the lengths, no caller resumes there,    *)
(* and the recursion of parse_ASN1_Sequence is as deep as the extension is   *)
(* nested.  Of any other value, whatever its bytes, the recursion uses two   *)
(* bytes for each call, so the C stack is bounded by the length of the value *)
(* up to the moment when the walk reads behind it.                           *)
WalkBounded ==
  /\ form # "raw" => response # "undefined" /\ ResumesInside /\ Len(stack) <= 3
  /\ 2 * (Len(stack) - 1) <= Len(data)

(* The walk of every value comes to an end, or leaves the copy: overlapping *)
(* sequences and sequences of length 0 may be read again, never for ever.   *)
Decoded == <>(response # "pending")
=============================================================================
