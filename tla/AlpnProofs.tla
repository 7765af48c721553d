------------------------------ MODULE AlpnProofs ------------------------------
(***************************************************************************)
(* Proofs about Alpn for every set of names and lengths, every first size  *)
(* of the buffer and every number of names in a list or an offer.          *)
(*                                                                         *)
(* The counter of select_next_proto and the length of the list are sums    *)
(* over the names; they are treated as numbers of bytes, that is, of       *)
(* elements of a set.  The counter leaves out one byte of each name, so it *)
(* is below the length of the list as long as a name is left (PassedLess): *)
(* no name is missed, and the names tried before do not match (SelectInv). *)
(* Behind a name that is too long for its length byte the counter and the  *)
(* pointer mean nothing; what is known then is that such a name came first.*)
(***************************************************************************)
EXTENDS Alpn, FiniteSetTheorems, SequenceTheorems, TLAPS

(* The bytes that the counter has counted behind m names of a list. *)
Passed(names, m) == UNION {{j} \X (1..Size[names[j]]) : j \in 1..m}

ListInv ==
  /\ mode \in {"server", "client"} /\ freed \in BOOLEAN
  /\ protoData \in Seq(Name) /\ protoLen \in Nat
  /\ behaviour \in Behaviour /\ installed \in BOOLEAN
  /\ advertised \in Seq(Name)
  /\ IsFiniteSet(Bytes(protoData)) /\ LengthOfList

BuildInv ==
  /\ pc \in {"idle", "build", "select"}
  /\ arg \in Behaviour /\ todo \in Seq(Name) /\ built \in Seq(Name)
  /\ len \in Nat /\ size \in Nat
  /\ IsFiniteSet(Bytes(built)) /\ len = WireLen(built)
  /\ pc = "build" => size >= InitialSize
  /\ WritesInBounds

SelectInv ==
  /\ offer \in Seq(Name) /\ i \in Nat /\ k \in Nat /\ adrift \in BOOLEAN
  /\ pc = "select" =>
       /\ offer # <<>> /\ k <= Len(protoData)
       /\ \A n \in ToSet(offer) : ~IsLong(n)
       /\ \A j \in 1..k : protoData[j] \notin ToSet(offer)
       /\ ~adrift => /\ IsFiniteSet(Passed(protoData, k))
                     /\ k < Len(protoData) => i = Cardinality(Passed(protoData, k))
       /\ adrift => k \in 1..Len(protoData) /\ IsLong(protoData[k])

LastInv == last \in Selection /\ SelectsPreferred

AlpnInv == ListInv /\ BuildInv /\ SelectInv /\ LastInv

-----------------------------------------------------------------------------
(* Numbers of bytes                                                        *)

LEMMA SizeType ==
  ASSUME AlpnAssumption, NEW n \in Name
  PROVE  Size[n] \in Nat
BY DEF AlpnAssumption

(* What is left of a length in one byte; it is the length unless the name  *)
(* is long.                                                                *)
LEMMA LengthByteOf ==
  ASSUME AlpnAssumption, NEW n \in Name
  PROVE  LengthByte(n) \in Nat /\ (~IsLong(n) => LengthByte(n) = Size[n])
<1>1. Size[n] \in Nat /\ ByteValues \in Nat /\ ByteValues # 0 BY SizeType DEF AlpnAssumption
<1>2. Size[n] % ByteValues \in Nat /\ (Size[n] < ByteValues => Size[n] % ByteValues = Size[n])
  BY <1>1
<1>3. QED BY <1>1, <1>2 DEF LengthByte, IsLong

LEMMA NameBytes ==
  ASSUME NEW j, NEW a \in {0, 1}, NEW b \in Nat
  PROVE  IsFiniteSet({j} \X (a..b)) /\ Cardinality({j} \X (a..b)) = b - a + 1
<1>1. IsFiniteSet({j}) /\ Cardinality({j}) = 1 BY FS_Singleton
<1>2. IsFiniteSet(a..b) /\ Cardinality(a..b) = b - a + 1 BY FS_Interval
<1>3. IsFiniteSet({j} \X (a..b)) /\ Cardinality({j} \X (a..b)) = 1 * (b - a + 1)
  BY <1>1, <1>2, FS_Product
<1>4. QED BY <1>3

(* The bytes of disjoint parts add up.                                     *)
LEMMA DisjointBytes ==
  ASSUME NEW S, NEW T, IsFiniteSet(S), IsFiniteSet(T), S \cap T = {}
  PROVE  IsFiniteSet(S \cup T) /\ Cardinality(S \cup T) = Cardinality(S) + Cardinality(T)
<1>1. Cardinality(S) \in Nat /\ Cardinality(T) \in Nat BY FS_CardinalityType
<1>2. Cardinality(S \cap T) = 0 BY FS_EmptySet
<1>3. /\ IsFiniteSet(S \cup T)
      /\ Cardinality(S \cup T) = Cardinality(S) + Cardinality(T) - Cardinality(S \cap T)
  BY FS_Union, Zenon
<1>4. QED BY <1>1, <1>2, <1>3

LEMMA EmptyBytes ==
  /\ IsFiniteSet(Bytes(<<>>)) /\ WireLen(<<>>) = 0
  /\ \A names : IsFiniteSet(Passed(names, 0)) /\ Cardinality(Passed(names, 0)) = 0
<1>1. Bytes(<<>>) = {} BY DEF Bytes
<1>2. \A names : Passed(names, 0) = {} BY DEF Passed
<1>3. QED BY <1>1, <1>2, FS_EmptySet DEF WireLen

(* initProtocols counts the bytes of the names that it writes.             *)
LEMMA BytesAppend ==
  ASSUME AlpnAssumption, NEW names \in Seq(Name), NEW n \in Name, IsFiniteSet(Bytes(names))
  PROVE  /\ IsFiniteSet(Bytes(Append(names, n)))
         /\ WireLen(Append(names, n)) = WireLen(names) + 1 + Size[n]
<1> DEFINE more == Append(names, n)
           m == Len(names) + 1
           new == {m} \X (0..Size[n])
<1>0. Size[n] \in Nat BY SizeType
<1>1. /\ DOMAIN more = 1..m /\ DOMAIN names = 1..Len(names) /\ Len(names) \in Nat
      /\ \A j \in 1..Len(names) : more[j] = names[j]
      /\ more[m] = n
  BY AppendProperties, LenProperties
<1> HIDE DEF more
<1>2. Bytes(more) = Bytes(names) \cup new
  <2>1. ASSUME NEW x \in Bytes(more) PROVE x \in Bytes(names) \cup new
    <3>1. PICK j \in 1..m : x \in {j} \X (0..Size[more[j]]) BY <1>1 DEF Bytes
    <3>2. QED BY <1>1, <3>1 DEF Bytes
  <2>2. ASSUME NEW x \in Bytes(names) PROVE x \in Bytes(more)
    <3>1. PICK j \in 1..Len(names) : x \in {j} \X (0..Size[names[j]]) BY <1>1 DEF Bytes
    <3>2. j \in DOMAIN more /\ x \in {j} \X (0..Size[more[j]]) BY <1>1, <3>1
    <3>3. QED BY <3>2 DEF Bytes
  <2>3. ASSUME NEW x \in new PROVE x \in Bytes(more)
    <3>1. m \in DOMAIN more /\ x \in {m} \X (0..Size[more[m]]) BY <1>1
    <3>2. QED BY <3>1 DEF Bytes
  <2>4. QED BY <2>1, <2>2, <2>3
<1>3. Bytes(names) \cap new = {}
  <2>1. ASSUME NEW x \in Bytes(names), x \in new PROVE FALSE
    <3>1. PICK j \in 1..Len(names) : x \in {j} \X (0..Size[names[j]]) BY <1>1 DEF Bytes
    <3>2. x[1] = j /\ x[1] = m BY <2>1, <3>1
    <3>3. QED BY <1>1, <3>2
  <2>2. QED BY <2>1
<1>4. IsFiniteSet(new) /\ Cardinality(new) = Size[n] + 1
  <2>1. IsFiniteSet(new) /\ Cardinality(new) = Size[n] - 0 + 1 BY <1>0, NameBytes
  <2>2. QED BY <1>0, <2>1
<1>5. Cardinality(Bytes(names)) \in Nat BY FS_CardinalityType
<1> HIDE DEF new
<1>6. /\ IsFiniteSet(Bytes(names) \cup new)
      /\ Cardinality(Bytes(names) \cup new) = Cardinality(Bytes(names)) + Cardinality(new)
  BY <1>3, <1>4, DisjointBytes
<1>7. QED BY <1>0, <1>2, <1>4, <1>5, <1>6 DEF WireLen, more

(* The counter of select_next_proto moves by the length of the name.       *)
LEMMA PassedNext ==
  ASSUME AlpnAssumption, NEW names \in Seq(Name), NEW m \in Nat, m < Len(names),
         IsFiniteSet(Passed(names, m))
  PROVE  /\ IsFiniteSet(Passed(names, m + 1))
         /\ Cardinality(Passed(names, m + 1)) = Cardinality(Passed(names, m)) + Size[names[m + 1]]
<1> DEFINE n == Size[names[m + 1]]
           new == {m + 1} \X (1..n)
<1>0. n \in Nat
  <2>1. m + 1 \in 1..Len(names) BY LenProperties
  <2>2. names[m + 1] \in Name BY <2>1, ElementOfSeq
  <2>3. QED BY <2>2, SizeType
<1>1. Passed(names, m + 1) = Passed(names, m) \cup new
  <2>1. 1..(m + 1) = (1..m) \cup {m + 1} OBVIOUS
  <2>2. QED BY <2>1 DEF Passed
<1>2. Passed(names, m) \cap new = {}
  <2>1. ASSUME NEW x \in Passed(names, m), x \in new PROVE FALSE
    <3>1. PICK j \in 1..m : x \in {j} \X (1..Size[names[j]]) BY DEF Passed
    <3>2. x[1] = j /\ x[1] = m + 1 BY <2>1, <3>1
    <3>3. QED BY <3>2
  <2>2. QED BY <2>1
<1>3. IsFiniteSet(new) /\ Cardinality(new) = n
  <2>1. IsFiniteSet(new) /\ Cardinality(new) = n - 1 + 1 BY <1>0, NameBytes
  <2>2. QED BY <1>0, <2>1
<1> HIDE DEF new, n
<1>4. /\ IsFiniteSet(Passed(names, m) \cup new)
      /\ Cardinality(Passed(names, m) \cup new)
           = Cardinality(Passed(names, m)) + Cardinality(new)
  BY <1>2, <1>3, DisjointBytes, Zenon
<1>5. QED BY <1>1, <1>3, <1>4 DEF n

(* As long as a name is left, the counter is below the length of the list. *)
LEMMA PassedLess ==
  ASSUME AlpnAssumption, NEW names \in Seq(Name), NEW m \in Nat, m < Len(names),
         IsFiniteSet(Bytes(names))
  PROVE  Cardinality(Passed(names, m)) < WireLen(names)
<1>1. DOMAIN names = 1..Len(names) /\ Len(names) \in Nat BY LenProperties
<1>2. Passed(names, m) \subseteq Bytes(names)
  <2>1. ASSUME NEW x \in Passed(names, m) PROVE x \in Bytes(names)
    <3>1. PICK j \in 1..m : x \in {j} \X (1..Size[names[j]]) BY DEF Passed
    <3>2. j \in DOMAIN names /\ x \in {j} \X (0..Size[names[j]]) BY <1>1, <3>1
    <3>3. QED BY <3>2 DEF Bytes
  <2>2. QED BY <2>1
<1>3. <<1, 0>> \in Bytes(names)
  <2>1. 1 \in DOMAIN names BY <1>1
  <2>2. Size[names[1]] \in Nat
    <3>1. names[1] \in Name BY <1>1, <2>1, ElementOfSeq
    <3>2. QED BY <3>1, SizeType
  <2>3. <<1, 0>> \in {1} \X (0..Size[names[1]]) BY <2>2
  <2>4. QED BY <2>1, <2>3 DEF Bytes
<1>4. <<1, 0>> \notin Passed(names, m)
  <2>1. ASSUME <<1, 0>> \in Passed(names, m) PROVE FALSE
    <3>1. PICK j \in 1..m : <<1, 0>> \in {j} \X (1..Size[names[j]]) BY <2>1 DEF Passed
    <3>2. QED BY <3>1
  <2>2. QED BY <2>1
<1>5. /\ Cardinality(Passed(names, m)) <= Cardinality(Bytes(names))
      /\ Cardinality(Passed(names, m)) # Cardinality(Bytes(names))
      /\ Cardinality(Passed(names, m)) \in Nat /\ Cardinality(Bytes(names)) \in Nat
  BY <1>2, <1>3, <1>4, FS_Subset, FS_CardinalityType
<1>6. QED BY <1>5 DEF WireLen

-----------------------------------------------------------------------------
(* Lists and offers are sequences of names.                                *)
LEMMA ListsAreSequences ==
  ASSUME AlpnAssumption
  PROVE  /\ \A s \in Lists : s \in Seq(Name)
         /\ \A s \in Offers : /\ s \in Seq(Name) /\ s # <<>>
                              /\ \A n \in ToSet(s) : ~IsLong(n)
<1>1. ASSUME NEW S, NEW m \in Nat, NEW s \in BoundedSeq(S, m) PROVE s \in Seq(S)
  <2>1. PICK j \in 0..m : s \in [1..j -> S] BY DEF BoundedSeq, SeqOf
  <2>2. j \in Nat BY <1>1
  <2>3. QED BY <2>1, <2>2, SeqDef
<1>2. \A s \in Lists : s \in Seq(Name) BY <1>1 DEF Lists, AlpnAssumption
<1>3. ASSUME NEW s \in Offers
      PROVE  s \in Seq(Name) /\ s # <<>> /\ \A n \in ToSet(s) : ~IsLong(n)
  <2> DEFINE carried == {n \in Name : Size[n] > 0 /\ Size[n] < ByteValues}
  <2>1. s \in Seq(carried) BY <1>1 DEF Offers, AlpnAssumption
  <2>2. ASSUME NEW n \in ToSet(s) PROVE ~IsLong(n)
    <3>1. n \in carried BY <2>1, LenProperties, ElementOfSeq DEF ToSet
    <3>2. Size[n] \in Nat /\ ByteValues \in Nat BY <3>1, SizeType DEF AlpnAssumption
    <3>3. QED BY <3>1, <3>2 DEF IsLong
  <2>3. s \in Seq(Name) BY <2>1, SeqMonotonic
  <2>4. QED BY <2>2, <2>3 DEF Offers
<1>4. QED BY <1>2, <1>3

-----------------------------------------------------------------------------
(* A step that leaves a group of variables alone keeps its part.           *)
LEMMA ListFrame ==
  ASSUME ListInv, UNCHANGED ctxVars
  PROVE  ListInv'
BY DEF ListInv, LengthOfList, WireLen, Bytes, ctxVars

LEMMA BuildFrame ==
  ASSUME BuildInv, UNCHANGED buildVars, pc # "build", pc' \in {"idle", "select"}
  PROVE  BuildInv'
BY DEF BuildInv, WritesInBounds, WireLen, Bytes, buildVars

LEMMA SelectFrame ==
  ASSUME SelectInv, UNCHANGED selVars, pc' # "select"
  PROVE  SelectInv'
BY DEF SelectInv, selVars

LEMMA LastFrame ==
  ASSUME LastInv, UNCHANGED last
  PROVE  LastInv'
BY DEF LastInv, SelectsPreferred, Matches, IsLong

(* A history without a selection.                                          *)
LEMMA NoSelectionHistory ==
  ASSUME last' = NoSelection
  PROVE  LastInv'
<1>1. NoSelection \in Selection
  BY DEF NoSelection, Selection, Behaviour
<1>2. Matches(NoSelection) = {} /\ NoSelection.result = Nothing
  BY DEF Matches, NoSelection
<1>3. QED BY <1>1, <1>2 DEF LastInv, SelectsPreferred, Matches, IsLong

LEMMA LeaveBuildKeeps ==
  ASSUME AlpnAssumption, LeaveBuild
  PROVE  BuildInv'
<1>1. IsFiniteSet(Bytes(built')) /\ len' = WireLen(built') BY EmptyBytes DEF LeaveBuild
<1>2. QED BY <1>1 DEF LeaveBuild, BuildInv, WritesInBounds, Behaviour, WireLen, Bytes

LEMMA LeaveSelectKeeps ==
  ASSUME LeaveSelect
  PROVE  SelectInv'
<1>1. adrift' \in BOOLEAN BY DEF LeaveSelect
<1>2. offer' \in Seq(Name) /\ i' \in Nat /\ k' \in Nat /\ pc' # "select" BY DEF LeaveSelect
<1>3. QED BY <1>1, <1>2 DEF SelectInv

-----------------------------------------------------------------------------
LEMMA InitAlpn ==
  ASSUME AlpnAssumption, Init
  PROVE  AlpnInv
<1>1. ListInv
  <2>1. IsFiniteSet(Bytes(protoData)) BY EmptyBytes DEF Init
  <2>2. LengthOfList BY DEF Init, LengthOfList
  <2>3. <<>> \in Seq(Name) OBVIOUS
  <2>4. QED BY <2>1, <2>2, <2>3 DEF Init, ListInv, Behaviour
<1>2. BuildInv BY EmptyBytes DEF Init, BuildInv, WritesInBounds, Behaviour
<1>3. SelectInv
  <2>1. adrift \in BOOLEAN BY DEF Init
  <2>2. offer \in Seq(Name) /\ i \in Nat /\ k \in Nat /\ pc # "select" BY DEF Init
  <2>3. QED BY <2>1, <2>2 DEF SelectInv
<1>4. LastInv
  <2>1. NoSelection \in Selection BY DEF NoSelection, Selection, Behaviour
  <2>2. NoSelection.list = <<>> /\ NoSelection.result = Nothing BY DEF NoSelection
  <2>3. last = NoSelection BY DEF Init
  <2>4. Matches(last) = {} /\ last.result = Nothing BY <2>2, <2>3 DEF Matches
  <2>5. QED BY <2>1, <2>3, <2>4 DEF LastInv, SelectsPreferred
<1>5. QED BY <1>1, <1>2, <1>3, <1>4 DEF AlpnInv

LEMMA SetAlpnProtosKeeps ==
  ASSUME AlpnAssumption, AlpnInv, NEW names \in Lists, NEW failure \in Behaviour,
         SetAlpnProtos(names, failure)
  PROVE  AlpnInv'
<1>0. ListInv /\ BuildInv /\ SelectInv /\ LastInv BY DEF AlpnInv
<1>1. BuildInv'
  <2>1. names \in Seq(Name) BY ListsAreSequences
  <2>2. IsFiniteSet(Bytes(built')) /\ len' = WireLen(built') /\ len' = 0
    BY EmptyBytes DEF SetAlpnProtos
  <2>3. QED BY <2>1, <2>2
            DEF SetAlpnProtos, BuildInv, WritesInBounds, AlpnAssumption, WireLen, Bytes
<1>2. QED BY <1>0, <1>1, ListFrame, SelectFrame, NoSelectionHistory DEF SetAlpnProtos, AlpnInv

(* Names that fit the first buffer fit: doubled once, it has room for one  *)
(* more of them.                                                           *)
LEMMA AddProtocolKeeps ==
  ASSUME AlpnAssumption, AlpnInv, AddProtocol
  PROVE  AlpnInv'
<1>0. ListInv /\ BuildInv /\ SelectInv /\ LastInv BY DEF AlpnInv
<1> DEFINE n == Head(todo)
<1>1. n \in Name /\ todo' \in Seq(Name)
  BY <1>0, HeadTailProperties DEF AddProtocol, BuildInv
<1>2. BuildInv'
  <2>1. CASE ~Accepted(n)
    BY <1>0, <1>1, <2>1 DEF AddProtocol, BuildInv, WritesInBounds, WireLen, Bytes
  <2>2. CASE Accepted(n)
    <3>1. Size[n] \in Nat BY <1>1, SizeType
    <3>2. /\ len' = len + 1 + Size[n] /\ size' = Room(1 + Size[n])
          /\ built' = Append(built, n) /\ pc = "build" /\ pc' = "build"
      BY <2>2 DEF AddProtocol
    <3>3. IsFiniteSet(Bytes(built')) /\ len' = WireLen(built') /\ built' \in Seq(Name)
      BY <1>0, <1>1, <3>2, BytesAppend, AppendProperties DEF BuildInv
    <3>4. /\ len \in Nat /\ size \in Nat /\ size >= InitialSize /\ InitialSize \in Nat
          /\ size' \in {size, 2 * size}
      BY <1>0, <3>2 DEF BuildInv, AlpnAssumption, Room
    <3>5. len' \in Nat /\ size' \in Nat /\ size' >= InitialSize
      BY <3>1, <3>2, <3>4
    <3>6. WritesInBounds'
      <4>1. SUFFICES ASSUME \A x \in ToSet(built') : 1 + Size[x] <= InitialSize
                     PROVE  len' <= size'
        BY DEF WritesInBounds
      <4>2. n \in ToSet(built') /\ \A x \in ToSet(built) : x \in ToSet(built')
        <5>1. /\ DOMAIN built = 1..Len(built) /\ Len(built) \in Nat
              /\ DOMAIN built' = 1..(Len(built) + 1)
              /\ \A j \in 1..Len(built) : built'[j] = built[j]
              /\ built'[Len(built) + 1] = n
          BY <1>0, <1>1, <3>2, AppendProperties, LenProperties DEF BuildInv
        <5>2. QED BY <5>1 DEF ToSet
      <4>3. len <= size BY <1>0, <3>2, <4>1, <4>2 DEF BuildInv, WritesInBounds
      <4>4. 1 + Size[n] <= InitialSize BY <4>1, <4>2
      <4>5. CASE len + (1 + Size[n]) > size
        <5>1. size' = 2 * size BY <3>2, <4>5 DEF Room
        <5>2. QED BY <3>1, <3>2, <3>4, <4>3, <4>4, <5>1
      <4>6. CASE ~(len + (1 + Size[n]) > size)
        <5>1. size' = size BY <3>2, <4>6 DEF Room
        <5>2. QED BY <3>1, <3>2, <3>4, <4>6, <5>1
      <4>7. QED BY <4>5, <4>6
    <3>7. QED BY <1>0, <1>1, <3>2, <3>3, <3>5, <3>6 DEF BuildInv, AddProtocol, WireLen, Bytes
  <2>3. QED BY <2>1, <2>2
<1>3. QED BY <1>0, <1>2, ListFrame, SelectFrame, LastFrame DEF AddProtocol, AlpnInv

LEMMA ReallocFailsKeeps ==
  ASSUME AlpnAssumption, AlpnInv, ReallocFails
  PROVE  AlpnInv'
<1>0. ListInv /\ BuildInv /\ SelectInv /\ LastInv BY DEF AlpnInv
<1>1. ListInv' BY <1>0 DEF ReallocFails, ListInv, LengthOfList, Bytes, WireLen
<1>2. pc' # "select" BY DEF ReallocFails, LeaveBuild
<1>3. QED BY <1>0, <1>1, <1>2, LeaveBuildKeeps, SelectFrame, LastFrame DEF ReallocFails, AlpnInv

LEMMA FinishProtocolsKeeps ==
  ASSUME AlpnAssumption, AlpnInv, FinishProtocols
  PROVE  AlpnInv'
<1>0. ListInv /\ BuildInv /\ SelectInv /\ LastInv BY DEF AlpnInv
<1>1. ListInv'
  BY <1>0 DEF FinishProtocols, Advertise, ListInv, BuildInv, LengthOfList, Bytes, WireLen
<1>2. pc' # "select" BY DEF FinishProtocols, LeaveBuild
<1>3. QED BY <1>0, <1>1, <1>2, LeaveBuildKeeps, SelectFrame, LastFrame
          DEF FinishProtocols, AlpnInv

LEMMA SSLContextFreeKeeps ==
  ASSUME AlpnAssumption, AlpnInv, SSLContextFree
  PROVE  AlpnInv'
<1>0. ListInv /\ BuildInv /\ SelectInv /\ LastInv BY DEF AlpnInv
<1>1. ListInv'
  <2>1. IsFiniteSet(Bytes(protoData')) BY EmptyBytes DEF SSLContextFree
  <2>2. QED BY <1>0, <2>1 DEF SSLContextFree, ListInv, LengthOfList, Bytes, WireLen
<1>2. QED BY <1>0, <1>1, BuildFrame, SelectFrame, NoSelectionHistory DEF SSLContextFree, AlpnInv

-----------------------------------------------------------------------------
(* select_next_proto                                                       *)

LEMMA BeginSelectKeeps ==
  ASSUME AlpnAssumption, AlpnInv, NEW names \in Offers, BeginSelect(names)
  PROVE  AlpnInv'
<1>0. ListInv /\ BuildInv /\ SelectInv /\ LastInv BY DEF AlpnInv
<1>1. SelectInv'
  <2>1. names \in Seq(Name) /\ names # <<>> /\ \A n \in ToSet(names) : ~IsLong(n)
    BY ListsAreSequences
  <2>2. protoData' = protoData /\ k' = 0 /\ i' = 0 /\ adrift' = FALSE /\ offer' = names
    BY DEF BeginSelect, ctxVars
  <2>3. IsFiniteSet(Passed(protoData, 0)) /\ Cardinality(Passed(protoData, 0)) = 0
    BY EmptyBytes
  <2>4. Len(protoData) \in Nat BY <1>0, LenProperties DEF ListInv
  <2>5. ~adrift' /\ adrift' \in BOOLEAN BY <2>2, Zenon
  <2>6. protoData' = protoData /\ k' = 0 /\ i' = 0 /\ offer' = names BY <2>2
  <2>7. QED BY <2>1, <2>3, <2>4, <2>5, <2>6 DEF SelectInv, Passed, IsLong
<1>2. QED BY <1>0, <1>1, ListFrame, BuildFrame, NoSelectionHistory DEF BeginSelect, AlpnInv

(* The callback returns name n of the offer, or nothing; no name of the    *)
(* list before place m matches, and the one at m, if there is one, is n or *)
(* a long name that does not match.                                        *)
LEMMA SelectedHistory ==
  ASSUME ListInv, SelectInv, pc = "select", NEW n \in ToSet(offer) \cup {Nothing}, Selected(n),
         NEW m \in 1..(Len(protoData) + 1),
         protoLen # 0 => \A j \in 1..(m - 1) : protoData[j] \notin ToSet(offer),
         protoLen # 0 /\ m <= Len(protoData) =>
           \/ protoData[m] = n /\ n \in ToSet(offer)
           \/ protoData[m] \notin ToSet(offer) /\ IsLong(protoData[m])
  PROVE  LastInv'
<1> DEFINE list == IF protoLen = 0 THEN <<>> ELSE protoData
           M == {j \in DOMAIN list : list[j] \in ToSet(offer)}
<1>1. last' = [list |-> list, behaviour |-> behaviour, offer |-> offer, result |-> n]
  BY DEF Selected
<1>2. ToSet(offer) \subseteq Name
  BY LenProperties, ElementOfSeq DEF SelectInv, ToSet
<1>3. list \in Seq(Name) BY DEF ListInv
<1> HIDE DEF list
<1>4. last' \in Selection
  BY <1>1, <1>2, <1>3 DEF Selection, ListInv, SelectInv
<1>5. /\ Matches(last)' = M /\ last'.result = n /\ last'.list = list /\ last'.offer = offer
  BY <1>1 DEF Matches
<1>6. ASSUME NEW x \in M, \A j \in 1..(x - 1) : j \notin M /\ ~IsLong(list[j])
      PROVE  n = list[x]
  <2>1. protoLen # 0 /\ list = protoData BY <1>6 DEF list
  <2>2. DOMAIN list = 1..Len(protoData) /\ Len(protoData) \in Nat
    BY <2>1, LenProperties DEF ListInv
  <2>3. x \in 1..Len(protoData) /\ protoData[x] \in ToSet(offer) BY <2>1, <2>2
  <2>4. x >= m /\ m \in 1..Len(protoData) BY <2>1, <2>2, <2>3
  <2>5. ~(m < x)
    <3>1. SUFFICES ASSUME m \in 1..(x - 1) PROVE FALSE BY <2>3, <2>4
    <3>2. m \notin M /\ ~IsLong(protoData[m]) BY <1>6, <2>1, <3>1
    <3>3. QED BY <2>1, <2>2, <2>4, <3>2
  <2>6. x = m BY <2>3, <2>4, <2>5
  <2>7. QED BY <2>1, <2>3, <2>4, <2>6
<1> HIDE DEF M
<1>7. SelectsPreferred' BY <1>5, <1>6 DEF SelectsPreferred, IsLong
<1>8. QED BY <1>4, <1>7 DEF LastInv

LEMMA TryProtocolKeeps ==
  ASSUME AlpnAssumption, AlpnInv, TryProtocol
  PROVE  AlpnInv'
<1>0. ListInv /\ BuildInv /\ SelectInv /\ LastInv BY DEF AlpnInv
<1> DEFINE target == protoData[k + 1]
<1>1. /\ k \in Nat /\ Len(protoData) \in Nat /\ k + 1 \in 1..Len(protoData) /\ ~adrift
      /\ protoData \in Seq(Name) /\ protoLen \in Nat /\ protoLen # 0 /\ pc = "select"
  BY <1>0, LenProperties DEF TryProtocol, ListInv, SelectInv
<1>2. /\ target \in Name /\ Size[target] \in Nat /\ LengthByte(target) \in Nat
      /\ ~IsLong(target) => LengthByte(target) = Size[target]
  BY <1>1, ElementOfSeq, SizeType, LengthByteOf
<1>3. CASE target \in ToSet(offer)
  <2>1. Selected(target) BY <1>3 DEF TryProtocol
  <2>2. k + 1 \in 1..(Len(protoData) + 1) /\ \A j \in 1..((k + 1) - 1) : protoData[j] \notin ToSet(offer)
    BY <1>0, <1>1 DEF SelectInv
  <2>3. LastInv' BY <1>0, <1>1, <1>3, <2>1, <2>2, SelectedHistory
  <2>4. SelectInv' BY <2>1, LeaveSelectKeeps DEF Selected
  <2>5. pc' = "idle" BY <2>1 DEF Selected, LeaveSelect
  <2>6. QED BY <1>0, <1>1, <2>3, <2>4, <2>5, ListFrame, BuildFrame DEF TryProtocol, AlpnInv
<1>4. CASE target \notin ToSet(offer)
  <2>1. /\ i' = i + LengthByte(target) /\ k' = k + 1 /\ adrift' = IsLong(target)
        /\ UNCHANGED <<pc, offer, last, protoData>>
    BY <1>4 DEF TryProtocol, ctxVars
  <2>2. SelectInv'
    <3>1. /\ offer \in Seq(Name) /\ i \in Nat /\ offer # <<>>
          /\ \A n \in ToSet(offer) : ~IsLong(n)
          /\ \A j \in 1..k : protoData[j] \notin ToSet(offer)
          /\ IsFiniteSet(Passed(protoData, k))
          /\ i = Cardinality(Passed(protoData, k))
      BY <1>0, <1>1 DEF SelectInv
    <3>2. \A j \in 1..(k + 1) : protoData[j] \notin ToSet(offer)
      BY <1>1, <1>4, <3>1
    <3>3. /\ IsFiniteSet(Passed(protoData, k + 1))
          /\ Cardinality(Passed(protoData, k + 1)) = i + Size[target]
      BY <1>1, <3>1, PassedNext
    <3>4. adrift' \in BOOLEAN BY <2>1 DEF IsLong
    <3>5. adrift' => k' \in 1..Len(protoData') /\ IsLong(protoData'[k']) BY <1>1, <2>1
    <3>6. ~adrift' => i' = Cardinality(Passed(protoData, k + 1)) BY <1>2, <2>1, <3>3
    <3> HIDE DEF target
    <3>7. (offer \in Seq(Name) /\ i \in Nat /\ k \in Nat)' BY <1>1, <1>2, <2>1, <3>1
    <3>8. (offer # <<>> /\ k <= Len(protoData))' BY <1>1, <2>1, <3>1
    <3>9. (\A n \in ToSet(offer) : ~IsLong(n))' BY <2>1, <3>1 DEF IsLong
    <3>10. (\A j \in 1..k : protoData[j] \notin ToSet(offer))' BY <2>1, <3>2
    <3>11. Passed(protoData, k)' = Passed(protoData, k + 1) BY <2>1 DEF Passed
    <3>12. (adrift => k \in 1..Len(protoData) /\ IsLong(protoData[k]))'
      BY <3>5 DEF IsLong
    <3>13. QED
      BY <3>3, <3>4, <3>6, <3>7, <3>8, <3>9, <3>10, <3>11, <3>12 DEF SelectInv
  <2>3. QED BY <1>0, <1>1, <2>1, <2>2, ListFrame, BuildFrame, LastFrame DEF TryProtocol, AlpnInv
<1>5. QED BY <1>3, <1>4

(* A match with the start of a long name, or with stray bytes behind one:  *)
(* the client offered it, and a long name came before any real match.      *)
LEMMA StraySelected ==
  ASSUME AlpnAssumption, AlpnInv, pc = "select", NEW n \in ToSet(offer), Selected(n),
         UNCHANGED <<ctxVars, buildVars>>,
         \/ adrift \/ k = Len(protoData)
         \/ k < Len(protoData) /\ IsLong(protoData[k + 1])
  PROVE  AlpnInv'
<1>0. ListInv /\ BuildInv /\ SelectInv /\ LastInv BY DEF AlpnInv
<1>1. /\ k \in Nat /\ Len(protoData) \in Nat /\ k <= Len(protoData)
      /\ \A j \in 1..k : protoData[j] \notin ToSet(offer)
      /\ \A x \in ToSet(offer) : ~IsLong(x)
  BY <1>0, LenProperties DEF ListInv, SelectInv
<1>2. LastInv'
  <2>1. CASE adrift
    <3>1. k \in 1..(Len(protoData) + 1) /\ IsLong(protoData[k]) /\ protoData[k] \notin ToSet(offer)
      BY <1>0, <1>1, <2>1 DEF SelectInv
    <3>2. \A j \in 1..(k - 1) : protoData[j] \notin ToSet(offer) BY <1>1
    <3>3. QED BY <1>0, <3>1, <3>2, SelectedHistory
  <2>2. CASE k = Len(protoData)
    <3>1. k + 1 \in 1..(Len(protoData) + 1) /\ (k + 1) - 1 = k /\ ~(k + 1 <= Len(protoData))
      BY <1>1, <2>2
    <3>2. QED BY <1>0, <1>1, <3>1, SelectedHistory
  <2>3. CASE k < Len(protoData) /\ IsLong(protoData[k + 1])
    <3>1. k + 1 \in 1..(Len(protoData) + 1) /\ (k + 1) - 1 = k BY <1>1, <2>3
    <3>2. protoData[k + 1] \notin ToSet(offer) BY <1>1, <2>3
    <3>3. QED BY <1>0, <1>1, <2>3, <3>1, <3>2, SelectedHistory
  <2>4. QED BY <2>1, <2>2, <2>3
<1>3. SelectInv' BY LeaveSelectKeeps DEF Selected
<1>4. pc' = "idle" BY DEF Selected, LeaveSelect
<1>5. QED BY <1>0, <1>2, <1>3, <1>4, ListFrame, BuildFrame DEF AlpnInv

LEMMA MatchPrefixKeeps ==
  ASSUME AlpnAssumption, AlpnInv, MatchPrefix
  PROVE  AlpnInv'
<1>1. PICK n \in ToSet(offer) : Selected(n) BY DEF MatchPrefix
<1>2. QED BY <1>1, StraySelected DEF MatchPrefix

LEMMA ReadStrayKeeps ==
  ASSUME AlpnAssumption, AlpnInv, NEW length \in Stray, ReadStray(length)
  PROVE  AlpnInv'
<1>0. ListInv /\ BuildInv /\ SelectInv /\ LastInv BY DEF AlpnInv
<1>1. pc = "select" /\ (adrift \/ k = Len(protoData)) BY DEF ReadStray
<1>2. CASE \E n \in ToSet(offer) : Selected(n)
  <2>1. PICK n \in ToSet(offer) : Selected(n) BY <1>2
  <2>2. QED BY <1>1, <2>1, StraySelected DEF ReadStray
<1>3. CASE i' = i + length /\ UNCHANGED <<pc, offer, k, adrift, last>>
  <2>1. length \in Nat BY DEF AlpnAssumption
  <2>2. Len(protoData) \in Nat BY <1>0, LenProperties DEF ListInv
  <2>3. SelectInv'
    BY <1>0, <1>1, <1>3, <2>1, <2>2 DEF SelectInv, Passed, IsLong, ReadStray, ctxVars
  <2>4. QED BY <1>0, <1>1, <1>3, <2>3, ListFrame, BuildFrame, LastFrame DEF ReadStray, AlpnInv
<1>4. QED BY <1>2, <1>3 DEF ReadStray

(* The loop ends only behind the last name of the list, or adrift.         *)
LEMMA NoMatchKeeps ==
  ASSUME AlpnAssumption, AlpnInv, NoMatch
  PROVE  AlpnInv'
<1>0. ListInv /\ BuildInv /\ SelectInv /\ LastInv BY DEF AlpnInv
<1> DEFINE n == IF protoLen > 0 /\ behaviour = "CHOOSE_MY_LAST_PROTOCOL"
                  THEN Last(offer) ELSE Nothing
<1>1. Selected(n) /\ pc = "select" /\ i >= protoLen BY DEF NoMatch
<1>2. /\ k \in Nat /\ i \in Nat /\ Len(protoData) \in Nat /\ k <= Len(protoData)
      /\ offer \in Seq(Name) /\ offer # <<>>
      /\ \A j \in 1..k : protoData[j] \notin ToSet(offer)
      /\ protoData \in Seq(Name) /\ IsFiniteSet(Bytes(protoData))
      /\ ~adrift /\ k < Len(protoData) => i = Cardinality(Passed(protoData, k))
      /\ adrift => k \in 1..Len(protoData) /\ IsLong(protoData[k])
  BY <1>0, <1>1, LenProperties DEF ListInv, SelectInv
<1>3. Last(offer) \in ToSet(offer)
  BY <1>2, EmptySeq, LenProperties DEF Last, ToSet
<1>4. protoLen # 0 /\ ~adrift => k = Len(protoData)
  <2>1. SUFFICES ASSUME protoLen # 0, ~adrift, k < Len(protoData) PROVE FALSE BY <1>2
  <2>2. protoLen = WireLen(protoData) BY <1>0, <2>1 DEF ListInv, LengthOfList
  <2>3. i < protoLen BY <1>2, <2>1, <2>2, PassedLess
  <2>4. QED BY <1>0, <1>1, <1>2, <2>3 DEF ListInv
<1> HIDE DEF n
<1>5. n \in ToSet(offer) \cup {Nothing} BY <1>3 DEF n
<1>6. LastInv'
  <2> DEFINE m == IF adrift THEN k ELSE Len(protoData) + 1
  <2>1. m \in 1..(Len(protoData) + 1) BY <1>2
  <2>2. protoLen # 0 => \A j \in 1..(m - 1) : protoData[j] \notin ToSet(offer)
    BY <1>2, <1>4
  <2>3. m <= Len(protoData) => protoData[m] \notin ToSet(offer) /\ IsLong(protoData[m])
    BY <1>2
  <2> HIDE DEF m
  <2>4. QED BY <1>0, <1>1, <1>5, <2>1, <2>2, <2>3, SelectedHistory
<1>7. SelectInv' BY <1>1, LeaveSelectKeeps DEF Selected
<1>8. pc' = "idle" BY <1>1 DEF Selected, LeaveSelect
<1>9. QED BY <1>0, <1>1, <1>6, <1>7, <1>8, ListFrame, BuildFrame DEF NoMatch, AlpnInv

LEMMA NextAlpn ==
  ASSUME AlpnAssumption, AlpnInv, [Next]_vars
  PROVE  AlpnInv'
<1>1. CASE UNCHANGED vars
  <2>1. BuildInv' BY <1>1 DEF AlpnInv, BuildInv, WritesInBounds, WireLen, Bytes, vars, buildVars
  <2>2. SelectInv' BY <1>1 DEF AlpnInv, SelectInv, Passed, IsLong, vars, selVars, ctxVars
  <2>3. QED BY <1>1, <2>1, <2>2, ListFrame, LastFrame DEF AlpnInv, vars
<1>2. ASSUME NEW names \in Lists, NEW failure \in Behaviour, SetAlpnProtos(names, failure)
      PROVE  AlpnInv'
  BY <1>2, SetAlpnProtosKeeps
<1>3. CASE AddProtocol BY <1>3, AddProtocolKeeps
<1>4. CASE ReallocFails BY <1>4, ReallocFailsKeeps
<1>5. CASE FinishProtocols BY <1>5, FinishProtocolsKeeps
<1>6. CASE SSLContextFree BY <1>6, SSLContextFreeKeeps
<1>7. ASSUME NEW names \in Offers, BeginSelect(names) PROVE AlpnInv'
  BY <1>7, BeginSelectKeeps
<1>8. CASE TryProtocol BY <1>8, TryProtocolKeeps
<1>9. CASE NoMatch BY <1>9, NoMatchKeeps
<1>10. ASSUME NEW length \in Stray, ReadStray(length) PROVE AlpnInv'
  BY <1>10, ReadStrayKeeps
<1>11. CASE MatchPrefix BY <1>11, MatchPrefixKeeps
<1>12. QED BY <1>1, <1>2, <1>3, <1>4, <1>5, <1>6, <1>7, <1>8, <1>9, <1>10, <1>11 DEF Next

-----------------------------------------------------------------------------
(* The inductive invariant of protocol negotiation.                        *)
THEOREM AlpnInvariance == Spec => []AlpnInv
<1>1. Init => AlpnInv BY InitAlpn, AlpnAssumption
<1>2. AlpnInv /\ [Next]_vars => AlpnInv' BY NextAlpn, AlpnAssumption
<1>3. QED BY <1>1, <1>2, PTL DEF Spec

(* Every variable keeps its type; select_next_proto never takes a name     *)
(* from behind the list.                                                   *)
THEOREM AlpnTypeCorrect == Spec => []TypeOK
<1>1. AlpnInv => TypeOK
  BY DEF AlpnInv, ListInv, BuildInv, SelectInv, LastInv, TypeOK
<1>2. QED BY <1>1, AlpnInvariance, PTL

(* initProtocols writes inside its buffer as long as each name fits the    *)
(* first one, and a callback never meets a list with another one's length. *)
THEOREM AlpnListSound == Spec => []ListSound
<1>1. AlpnInv => ListSound BY DEF AlpnInv, ListInv, BuildInv, ListSound
<1>2. QED BY <1>1, AlpnInvariance, PTL

(* Of the names that both sides have, select_next_proto selects the first  *)
(* of the context's list, although its counter runs behind its pointer, as *)
(* long as no name before it is too long for a length byte; whatever bytes *)
(* it reads, it never selects what the client did not offer.               *)
THEOREM AlpnPreferred == Spec => []SelectsPreferred
<1>1. AlpnInv => SelectsPreferred BY DEF AlpnInv, LastInv
<1>2. QED BY <1>1, AlpnInvariance, PTL
=============================================================================
