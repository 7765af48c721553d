--------------------------------- MODULE Alpn ---------------------------------
(***************************************************************************)
(* Protocol negotiation of one context: SSLContext.setAlpnProtos with      *)
(* initProtocols, which encodes the names into a growing buffer            *)
(* (sslcontext.c), and the callback of a server context, select_next_proto *)
(* (sslutils.c).                                                           *)
(*                                                                         *)
(* A name stands for its bytes and has a length.  In the buffer a name     *)
(* takes one byte for the length and the bytes of the name.  initProtocols *)
(* accepts names of up to MaxProtoSize bytes, far more than a byte counts: *)
(* the length byte of a long name is what the cast leaves of its length,   *)
(* and a reader that skips so many bytes stops inside the name.            *)
(*                                                                         *)
(* OpenSSL (external) calls the callback with a well-formed list of the    *)
(* client's names, also after SSLContext.free while connections of the     *)
(* context are left.  The library takes no lock here: callers configure or *)
(* free a context only while no callback of it runs.                       *)
(*                                                                         *)
(* A call that fails before it has changed anything (no names, no memory   *)
(* for the first buffer) is a stuttering step.  A write behind the buffer  *)
(* shows as len > size; the model goes on as if it did no damage.          *)
(***************************************************************************)
EXTENDS Integers, SequencesExt, FiniteSetsExt

CONSTANTS
  Name,         \* protocol names
  Size,         \* their lengths in bytes
  ByteValues,   \* 256: a length byte holds a length modulo this
  MaxProtoSize, \* MAX_ALPN_PROTO_SIZE, 65535
  InitialSize,  \* first size of the buffer in initProtocols
  Stray,        \* lengths that may be read inside a long name or behind the list
  MaxNames,     \* bound: names passed to setAlpnProtos
  MaxOffer      \* bound: names a client offers

ASSUME AlpnAssumption ==
  /\ Size \in [Name -> Nat]
  /\ ByteValues \in Nat \ {0} /\ MaxProtoSize \in Nat
  /\ InitialSize \in Nat \ {0}
  /\ Stray \subseteq 0..(ByteValues - 1)
  /\ MaxNames \in Nat /\ MaxOffer \in Nat

Behaviour == {"NO_ADVERTISE", "CHOOSE_MY_LAST_PROTOCOL"}
Lists == BoundedSeq(Name, MaxNames) \ {<<>>}
Offers == BoundedSeq({n \in Name : Size[n] > 0 /\ Size[n] < ByteValues}, MaxOffer) \ {<<>>}
Nothing == "nothing"

VARIABLES
  mode,        \* tcn_ssl_ctxt_t.mode: a combined context acts as a server
  freed,       \* SSLContext.free has run
  protoData,   \* the names in alpn_proto_data
  protoLen,    \* alpn_proto_len
  behaviour,   \* alpn_selector_failure_behavior
  installed,   \* the select callback of the SSL_CTX is set
  advertised,  \* the client's list in the SSL_CTX
  pc,          \* "idle", "build" (initProtocols) or "select" (select_next_proto)
  arg,         \* selectorFailureBehavior of the call in progress
  todo,        \* names initProtocols has not looked at
  built,       \* names it has written
  len, size,   \* p_data_len and p_data_size
  offer,       \* the client's names
  i,           \* the counter i of select_next_proto
  k,           \* names that its pointer has passed
  adrift,      \* it is inside the name it passed last
  last         \* history: the selection that ended with the last step

ctxVars   == <<mode, freed, protoData, protoLen, behaviour, installed, advertised>>
buildVars == <<arg, todo, built, len, size>>
selVars   == <<offer, i, k, adrift>>
vars      == <<ctxVars, pc, buildVars, selVars, last>>

Selection == [list : Seq(Name), behaviour : Behaviour, offer : Seq(Name), result : Name \cup {Nothing}]
NoSelection == [list |-> <<>>, behaviour |-> "NO_ADVERTISE", offer |-> <<>>, result |-> Nothing]

TypeOK ==
  /\ mode \in {"server", "client"} /\ freed \in BOOLEAN
  /\ protoData \in Seq(Name) /\ protoLen \in Nat
  /\ behaviour \in Behaviour /\ installed \in BOOLEAN
  /\ advertised \in Seq(Name)
  /\ pc \in {"idle", "build", "select"}
  /\ arg \in Behaviour /\ todo \in Seq(Name) /\ built \in Seq(Name)
  /\ len \in Nat /\ size \in Nat
  /\ offer \in Seq(Name) /\ i \in Nat
  /\ k \in Nat /\ (pc = "select" => k <= Len(protoData))
  /\ adrift \in BOOLEAN
  /\ last \in Selection

Init ==
  /\ mode \in {"server", "client"} /\ freed = FALSE
  /\ protoData = <<>> /\ protoLen = 0
  /\ behaviour = "NO_ADVERTISE" /\ installed = FALSE /\ advertised = <<>>
  /\ pc = "idle" /\ arg = "NO_ADVERTISE"
  /\ todo = <<>> /\ built = <<>> /\ len = 0 /\ size = 0
  /\ offer = <<>> /\ i = 0 /\ k = 0 /\ adrift = FALSE
  /\ last = NoSelection

(* The local variables of a call are gone when it returns. *)
LeaveBuild ==
  /\ pc' = "idle" /\ arg' = "NO_ADVERTISE"
  /\ todo' = <<>> /\ built' = <<>> /\ len' = 0 /\ size' = 0
LeaveSelect == pc' = "idle" /\ offer' = <<>> /\ i' = 0 /\ k' = 0 /\ adrift' = FALSE

-----------------------------------------------------------------------------
(* setAlpnProtos *)

SetAlpnProtos(names, failure) ==
  /\ pc = "idle" /\ ~freed
  /\ pc' = "build"
  /\ arg' = failure /\ todo' = names
  /\ built' = <<>> /\ len' = 0 /\ size' = InitialSize
  /\ last' = NoSelection
  /\ UNCHANGED <<ctxVars, selVars>>

(* The size of the buffer in which n more bytes are written: it is doubled *)
(* once when they do not fit.                                              *)
Room(n) == IF len + n > size THEN 2 * size ELSE size

(* The length byte, and the names whose length it does not hold. *)
LengthByte(n) == Size[n] % ByteValues
IsLong(n) == Size[n] >= ByteValues

(* One turn of the loop; empty and oversized names are skipped. *)
Accepted(n) == Size[n] > 0 /\ Size[n] <= MaxProtoSize
AddProtocol ==
  /\ pc = "build" /\ todo # <<>>
  /\ todo' = Tail(todo)
  /\ LET n == Head(todo)
     IN  IF Accepted(n)
           THEN /\ len' = len + 1 + Size[n]
                /\ size' = Room(1 + Size[n])
                /\ built' = Append(built, n)
           ELSE UNCHANGED <<built, len, size>>
  /\ UNCHANGED <<ctxVars, pc, arg, selVars, last>>

(* No memory for the larger buffer: the length of the list becomes 0, the *)
(* old list stays allocated.                                              *)
ReallocFails ==
  /\ pc = "build" /\ todo # <<>>
  /\ Accepted(Head(todo)) /\ len + 1 + Size[Head(todo)] > size
  /\ LeaveBuild
  /\ protoLen' = 0
  /\ UNCHANGED <<mode, freed, protoData, behaviour, installed, advertised, selVars, last>>

(* OpenSSL takes a client's list, or may refuse one that is malformed. *)
Advertise(names) ==
  \/ advertised' = names
  \/ (\E n \in ToSet(names) : IsLong(n)) /\ UNCHANGED advertised

(* The new list replaces the old one and is handed to OpenSSL. *)
FinishProtocols_KeepsLength ==
  /\ pc = "build" /\ todo = <<>>
  /\ LeaveBuild
  /\ protoData' = built /\ protoLen' = IF protoLen = 0 THEN len ELSE protoLen
  /\ behaviour' = arg
  /\ IF mode = "client"
       THEN Advertise(built) /\ UNCHANGED installed
       ELSE installed' = TRUE /\ UNCHANGED advertised
  /\ UNCHANGED <<mode, freed, selVars, last>>
FinishProtocols ==
  /\ pc = "build" /\ todo = <<>>
  /\ LeaveBuild
  /\ protoData' = built /\ protoLen' = len
  /\ behaviour' = arg
  /\ IF mode = "client"
       THEN Advertise(built) /\ UNCHANGED installed
       ELSE installed' = TRUE /\ UNCHANGED advertised
  /\ UNCHANGED <<mode, freed, selVars, last>>

(* The part of ssl_context_cleanup that concerns the list; the SSL_CTX, if *)
(* connections keep it alive, keeps the callback.                          *)
SSLContextFree ==
  /\ pc = "idle" /\ ~freed
  /\ freed' = TRUE
  /\ protoData' = <<>> /\ protoLen' = 0
  /\ last' = NoSelection
  /\ UNCHANGED <<mode, behaviour, installed, advertised, pc, buildVars, selVars>>

-----------------------------------------------------------------------------
(* select_next_proto *)

BeginSelect_SkipsFirst(names) ==
  /\ pc = "idle" /\ installed
  /\ pc' = "select"
  /\ offer' = names /\ i' = 0 /\ k' = 1 /\ adrift' = FALSE
  /\ last' = NoSelection
  /\ UNCHANGED <<ctxVars, buildVars>>
BeginSelect(names) ==
  /\ pc = "idle" /\ installed
  /\ pc' = "select"
  /\ offer' = names /\ i' = 0 /\ k' = 0 /\ adrift' = FALSE
  /\ last' = NoSelection
  /\ UNCHANGED <<ctxVars, buildVars>>

(* The callback returns; result is what the handshake goes on with. *)
Selected(result) ==
  /\ LeaveSelect
  /\ last' = [list |-> IF protoLen = 0 THEN <<>> ELSE protoData,
              behaviour |-> behaviour, offer |-> offer, result |-> result]

(* The outer loop compares the next name of the list with every name of *)
(* the offer.  The counter moves by the length byte only, the pointer   *)
(* also past the byte itself.                                           *)
TryProtocol_ClientFirst ==
  /\ pc = "select" /\ i < protoLen /\ k < Len(protoData) /\ ~adrift
  /\ IF Head(offer) \in ToSet(protoData)
       THEN Selected(Head(offer))
       ELSE /\ i' = i + LengthByte(protoData[k + 1])
            /\ k' = k + 1
            /\ adrift' = IsLong(protoData[k + 1])
            /\ UNCHANGED <<pc, offer, last>>
  /\ UNCHANGED <<ctxVars, buildVars>>
TryProtocol ==
  /\ pc = "select" /\ i < protoLen /\ k < Len(protoData) /\ ~adrift
  /\ LET target == protoData[k + 1]
     IN  IF target \in ToSet(offer)
           THEN Selected(target)
           ELSE /\ i' = i + LengthByte(target)
                /\ k' = k + 1
                /\ adrift' = IsLong(target)
                /\ UNCHANGED <<pc, offer, last>>
  /\ UNCHANGED <<ctxVars, buildVars>>

(* An offered name may be the start of a long name, as far as the length *)
(* byte of the long one goes.                                            *)
MatchPrefix ==
  /\ pc = "select" /\ i < protoLen /\ k < Len(protoData) /\ ~adrift
  /\ IsLong(protoData[k + 1])
  /\ \E n \in ToSet(offer) : Size[n] = LengthByte(protoData[k + 1]) /\ Selected(n)
  /\ UNCHANGED <<ctxVars, buildVars>>

(* Inside a long name, or behind the end of the list while the counter is   *)
(* still below protoLen, the loop goes on with whatever bytes are there,     *)
(* which may even equal an offered name.                                     *)
ReadStray(length) ==
  /\ pc = "select" /\ i < protoLen
  /\ adrift \/ k = Len(protoData)
  /\ \/ \E n \in ToSet(offer) : Size[n] = length /\ Selected(n)
     \/ i' = i + length /\ UNCHANGED <<pc, offer, k, adrift, last>>
  /\ UNCHANGED <<ctxVars, buildVars>>

(* No match: p and proto_len are those of the last name in the offer. *)
NoMatch ==
  /\ pc = "select" /\ i >= protoLen
  /\ Selected(IF protoLen > 0 /\ behaviour = "CHOOSE_MY_LAST_PROTOCOL"
                THEN Last(offer) ELSE Nothing)
  /\ UNCHANGED <<ctxVars, buildVars>>

Next ==
  \/ \E names \in Lists, failure \in Behaviour : SetAlpnProtos(names, failure)
  \/ AddProtocol \/ ReallocFails \/ FinishProtocols
  \/ SSLContextFree
  \/ \E names \in Offers : BeginSelect(names)
  \/ TryProtocol \/ MatchPrefix \/ NoMatch
  \/ \E length \in Stray : ReadStray(length)

Spec == Init /\ [][Next]_vars

-----------------------------------------------------------------------------
(* As long as every name fits the first buffer with its length byte, the   *)
(* names written by initProtocols never exceed the buffer, although it is  *)
(* doubled at most once per name.                                          *)
WritesInBounds ==
  pc = "build" /\ (\A n \in ToSet(built) : 1 + Size[n] <= InitialSize) => len <= size

(* The bytes that a list of names takes; byte 0 of a name is its length. *)
Bytes(names) == UNION {{j} \X (0..Size[names[j]]) : j \in DOMAIN names}
WireLen(names) == Cardinality(Bytes(names))

(* The length the callback works with is that of the list it reads, or 0:  *)
(* whatever setAlpnProtos and free did, and wherever they failed, no old   *)
(* length is combined with a new list.                                     *)
LengthOfList == protoLen \in {0, WireLen(protoData)}

(* The list that a selection reads is whole: built inside its buffer, and   *)
(* read with its own length.                                               *)
ListSound == WritesInBounds /\ LengthOfList

(* The positions in the list of the names that the client offered. *)
Matches(s) == {j \in DOMAIN s.list : s.list[j] \in ToSet(s.offer)}

(* "protocols in priority order" (SSLContext.java:444): of the names that  *)
(* both sides have, the first one of the context's list is selected,       *)
(* provided that no name before it is longer than a length byte can say    *)
(* (initProtocols accepts those, and select_next_proto loses its place in  *)
(* the list behind one).  Nothing is ever selected that the client did not *)
(* offer, wherever the bytes were read.                                    *)
SelectsPreferred ==
  /\ \A m \in Matches(last) :
       (\A j \in 1..(m - 1) : j \notin Matches(last) /\ ~IsLong(last.list[j]))
         => last.result = last.list[m]
  /\ last.result \in ToSet(last.offer) \cup {Nothing}

(* "There were no match but we just select our last protocol and hope the  *)
(* other peer support it" (sslutils.c:479): without a match nothing is     *)
(* selected, or with CHOOSE_MY_LAST_PROTOCOL the last name of the          *)
(* context's own list.                                                     *)
NoMatchDocumented ==
  Matches(last) = {} =>
    \/ last.result = Nothing
    \/ /\ last.behaviour = "CHOOSE_MY_LAST_PROTOCOL"
       /\ last.list # <<>> /\ last.result = Last(last.list)
=============================================================================
