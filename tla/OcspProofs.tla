------------------------------ MODULE OcspProofs ------------------------------
(***************************************************************************)
(* Proofs about what is between a certificate and an OCSP answer: the      *)
(* exchange with a responder (OcspFetch), for every size of the buffers,   *)
(* of the request and of the limit on the response, and the decoder of the *)
(* responders' URLs (OcspUrls), for extensions of any length with texts    *)
(* and OIDs of any length, in bytes of any width.                          *)
(*                                                                         *)
(* The encoding of an extension is defined by recursion on the number of   *)
(* its descriptions, so a part of the proofs is by induction: it comes     *)
(* from the fact that < is well-founded on Nat, about sets of numbers.     *)
(***************************************************************************)
EXTENDS OcspFetch, OcspUrls, FiniteSetTheorems, SequenceTheorems, WellFoundedInduction, TLAPS

-----------------------------------------------------------------------------
(* The exchange with a responder *)

(* Every byte of the request is in the BIO, in the current chunk or sent.  *)
SendInv ==
  /\ sent + remain + left = ReqLen
  /\ pc = "receive" => remain = 0 /\ left = 0

(* While a response is read, the buffer is never full and at least as      *)
(* large as a chunk: doubling it once makes room for any chunk.            *)
BufferInv ==
  /\ pc \in {"start", "connect", "send"} => totalread = 0
  /\ pc = "receive" => BufferSize <= buflen /\ totalread < buflen
  /\ MemoryBounded

ResourceInv ==
  /\ pc = "start" => ~bioReq /\ ~mp
  /\ pc \in {"start", "connect", "done"} => ~sock
  /\ pc = "done" => ~bioReq /\ ~mp

FetchInv == TypeOK /\ SendInv /\ BufferInv /\ ResourceInv

(* The exchange starts with the whole request unsent and nothing allocated. *)
LEMMA InitFetch == Init => FetchInv
<1> SUFFICES ASSUME Init PROVE FetchInv OBVIOUS
<1>1. TypeOK BY SizesAssumption DEF Init, TypeOK
<1>2. SendInv /\ BufferInv
  BY SizesAssumption DEF Init, SendInv, BufferInv, MemoryBounded
<1>3. ResourceInv BY DEF Init, ResourceInv
<1>4. QED BY <1>1, <1>2, <1>3 DEF FetchInv

(* The steps up to the connection.                                         *)
LEMMA StartStep ==
  ASSUME FetchInv, BadRequest \/ SerializeRequest \/ ConnectFails \/ Connect
  PROVE  FetchInv'
<1>1. /\ UNCHANGED <<sendVars, recvVars, result>>
      /\ pc \in {"start", "connect"} /\ pc' \in {"connect", "send", "done"}
  BY DEF BadRequest, SerializeRequest, ConnectFails, Connect
<1>2. SendInv' /\ BufferInv'
  BY <1>1 DEF FetchInv, SendInv, BufferInv, MemoryBounded, sendVars, recvVars
<1>3. ResourceInv'
  BY DEF FetchInv, TypeOK, ResourceInv, BadRequest, SerializeRequest, ConnectFails, Connect,
         FreeBio, resVars
<1>4. TypeOK'
  BY <1>1 DEF FetchInv, TypeOK, BadRequest, SerializeRequest, ConnectFails, Connect,
         FreeBio, resVars, sendVars, recvVars
<1>5. QED BY <1>2, <1>3, <1>4 DEF FetchInv

(* The steps of ocsp_send_req: bytes move, none is lost or sent twice.     *)
LEMMA SendStep ==
  ASSUME FetchInv,
         NextChunk \/ (\E wlen \in 1..SendBuffer : Send(wlen)) \/ SendFails \/ StartReceive
  PROVE  FetchInv'
<1> USE SizesAssumption DEF FetchInv
<1>1. CASE NextChunk
  <2>1. /\ remain = 0 /\ left > 0 /\ pc = "send"
        /\ remain' = IF left < SendBuffer THEN left ELSE SendBuffer
        /\ left' = left - remain'
        /\ UNCHANGED <<pc, resVars, sent, recvVars, result>>
    BY <1>1 DEF NextChunk
  <2>2. TypeOK' BY <2>1 DEF TypeOK, resVars, recvVars
  <2>3. SendInv' BY <2>1, <2>2 DEF TypeOK, SendInv
  <2>4. BufferInv' /\ ResourceInv'
    BY <2>1 DEF BufferInv, MemoryBounded, ResourceInv, resVars, recvVars
  <2>5. QED BY <2>2, <2>3, <2>4
<1>2. CASE \E wlen \in 1..SendBuffer : Send(wlen)
  <2>1. PICK wlen \in 1..SendBuffer : Send(wlen) BY <1>2
  <2>2. TypeOK' BY <2>1 DEF Send, TypeOK, resVars, recvVars
  <2>3. SendInv' BY <2>1, <2>2 DEF Send, TypeOK, SendInv
  <2>4. BufferInv' /\ ResourceInv'
    BY <2>1 DEF Send, BufferInv, MemoryBounded, ResourceInv, resVars, recvVars
  <2>5. QED BY <2>2, <2>3, <2>4
<1>3. CASE SendFails
  BY <1>3 DEF SendFails, TypeOK, SendInv, BufferInv, MemoryBounded, ResourceInv,
              resVars, sendVars, recvVars
<1>4. CASE StartReceive
  <2>1. TypeOK' BY <1>4 DEF StartReceive, TypeOK, resVars, sendVars
  <2>2. SendInv' BY <1>4 DEF StartReceive, SendInv, sendVars
  <2>3. BufferInv' BY <1>4 DEF StartReceive, BufferInv, MemoryBounded, TypeOK
  <2>4. ResourceInv' BY <1>4 DEF StartReceive, ResourceInv, resVars
  <2>5. QED BY <2>1, <2>2, <2>3, <2>4
<1>5. QED BY <1>1, <1>2, <1>3, <1>4

(* The steps of ocsp_get_resp and the end of the exchange.                 *)
LEMMA ReceiveStep ==
  ASSUME FetchInv,
         (\E readlen \in 1..BufferSize : Receive(readlen))
           \/ EndOfResponse \/ ReceiveFails \/ Close
  PROVE  FetchInv'
<1> USE SizesAssumption DEF FetchInv
<1>1. CASE \E readlen \in 1..BufferSize : Receive(readlen)
  <2>1. PICK readlen \in 1..BufferSize : Receive(readlen) BY <1>1
  <2>2. CASE totalread + readlen > MaxResponse
    BY <2>1, <2>2 DEF Receive, TypeOK, SendInv, BufferInv, MemoryBounded, ResourceInv,
                      resVars, sendVars, recvVars
  <2>3. CASE totalread + readlen <= MaxResponse
    <3>1. /\ pc = "receive" /\ pc' = pc
          /\ buflen' = Grown(readlen) /\ totalread' = totalread + readlen
          /\ UNCHANGED <<resVars, sendVars, result>>
      BY <2>1, <2>3 DEF Receive, TypeOK
    <3>2. TypeOK' BY <3>1 DEF Grown, TypeOK, resVars, sendVars
    <3>3. BufferInv' BY <2>3, <3>1 DEF Grown, BufferInv, MemoryBounded, TypeOK
    <3>4. SendInv' /\ ResourceInv' BY <3>1 DEF SendInv, ResourceInv, sendVars, resVars
    <3>5. QED BY <3>2, <3>3, <3>4
  <2>4. QED BY <2>2, <2>3 DEF TypeOK
<1>2. CASE EndOfResponse \/ ReceiveFails
  BY <1>2 DEF EndOfResponse, ReceiveFails, TypeOK, SendInv, BufferInv, MemoryBounded,
              ResourceInv, resVars, sendVars, recvVars
<1>3. CASE Close
  BY <1>3 DEF Close, FreeBio, TypeOK, SendInv, BufferInv, MemoryBounded,
              ResourceInv, resVars, sendVars, recvVars
<1>4. QED BY <1>1, <1>2, <1>3

(* FetchInv holds in every state of an exchange.                           *)
THEOREM FetchInvariance == Spec => []FetchInv
<1>1. FetchInv /\ [Next]_vars => FetchInv'
  <2> SUFFICES ASSUME FetchInv, [Next]_vars PROVE FetchInv' OBVIOUS
  <2>1. CASE UNCHANGED vars
    BY <2>1 DEF vars, resVars, sendVars, recvVars, FetchInv, TypeOK, SendInv, BufferInv,
                MemoryBounded, ResourceInv
  <2>2. QED BY <2>1, StartStep, SendStep, ReceiveStep DEF Next
<1>2. QED BY <1>1, InitFetch, PTL DEF Spec

(* The sizes are naturals throughout an exchange.                          *)
THEOREM FetchTypeCorrect == Spec => []TypeOK
BY FetchInvariance, PTL DEF FetchInv

(* ocsp_get_resp never writes outside its buffer, whatever BUFFER_SIZE and *)
(* OCSP_MAX_RESPONSE_SIZE are, and its memory stays bounded.               *)
THEOREM CopySafe == Spec => []BufferSafe
<1>1. FetchInv => BufferSafe
  <2> SUFFICES ASSUME FetchInv PROVE CopyInBounds BY DEF FetchInv, BufferInv, BufferSafe
  <2>1. ASSUME pc = "receive", NEW readlen \in 1..BufferSize
        PROVE  totalread + readlen <= Grown(readlen)
    BY <2>1, SizesAssumption DEF FetchInv, BufferInv, TypeOK, Grown
  <2>2. QED BY <2>1 DEF CopyInBounds
<1>2. QED BY <1>1, FetchInvariance, PTL

(* The responder has the whole request before an answer is read.           *)
THEOREM ExchangeComplete == Spec => []RequestSent
<1>1. FetchInv => RequestSent
  BY DEF FetchInv, SendInv, RequestSent, TypeOK
<1>2. QED BY <1>1, FetchInvariance, PTL

(* On every path of get_ocsp_response the exchange leaves no socket, pool  *)
(* or BIO behind.                                                          *)
THEOREM ExchangeReleases == Spec => []NothingHeld
<1>1. FetchInv => NothingHeld
  BY DEF FetchInv, ResourceInv, NothingHeld, TypeOK
<1>2. QED BY <1>1, FetchInvariance, PTL

(* What an exchange still has to do: bytes in the BIO count twice, because *)
(* they go through the chunk, and so do steps to the next stage.           *)
Stages(p) ==
  CASE p = "start" -> 5 [] p = "connect" -> 4 [] p = "send" -> 3
    [] p = "receive" -> 2 [] p = "close" -> 1 [] p = "done" -> 0
FetchLeft == Stages(pc) + (2 * left) + remain + (MaxResponse - totalread)

(* Every step of get_ocsp_response, of any size of the peer's choosing, uses *)
(* up some of a budget that is fixed when it starts: an exchange has at most *)
(* 2 * ReqLen + MaxResponse + 5 steps.                                       *)
THEOREM ExchangeBounded ==
  Spec => [](FetchLeft \in 0..((2 * ReqLen) + MaxResponse + 5)) /\ [][FetchLeft' < FetchLeft]_vars
<1> USE SizesAssumption
<1>1. FetchInv => FetchLeft \in 0..((2 * ReqLen) + MaxResponse + 5)
  <2> SUFFICES ASSUME FetchInv PROVE FetchLeft \in 0..((2 * ReqLen) + MaxResponse + 5) OBVIOUS
  <2>1. Stages(pc) \in 0..5 BY DEF FetchInv, TypeOK, Stages
  <2>2. QED BY <2>1 DEF FetchInv, TypeOK, SendInv, BufferInv, MemoryBounded, FetchLeft
<1>2. FetchInv /\ Next => FetchLeft' < FetchLeft
  <2> SUFFICES ASSUME FetchInv, Next PROVE FetchLeft' < FetchLeft OBVIOUS
  <2> USE DEF FetchInv, TypeOK, FetchLeft
  <2>1. CASE NextChunk
    <3>1. remain = 0 /\ remain' \in 1..left /\ left' = left - remain' /\ pc' = pc /\ totalread' = totalread
      BY <2>1 DEF NextChunk, recvVars
    <3>2. Stages(pc') = Stages(pc) /\ Stages(pc) \in Nat BY <3>1 DEF Stages
    <3>3. QED BY <3>1, <3>2
  <2>2. CASE \E wlen \in 1..SendBuffer : Send(wlen)
    <3>1. PICK wlen \in 1..SendBuffer : Send(wlen) BY <2>2
    <3>2. /\ wlen \in 1..remain /\ remain' = remain - wlen /\ left' = left
          /\ pc' = pc /\ totalread' = totalread
      BY <3>1 DEF Send, recvVars
    <3>3. Stages(pc') = Stages(pc) /\ Stages(pc) \in Nat BY <3>2 DEF Stages
    <3>4. QED BY <3>2, <3>3
  <2>3. CASE \E readlen \in 1..BufferSize : Receive(readlen)
    <3>1. PICK readlen \in 1..BufferSize : Receive(readlen) BY <2>3
    <3>2. CASE totalread + readlen > MaxResponse
      BY <3>1, <3>2 DEF Receive, sendVars, recvVars, Stages
    <3>3. CASE totalread + readlen <= MaxResponse
      BY <3>1, <3>3 DEF Receive, sendVars, recvVars, Stages
    <3>4. QED BY <3>2, <3>3
  <2>4. CASE BadRequest \/ SerializeRequest \/ ConnectFails \/ Connect
    BY <2>4 DEF BadRequest, SerializeRequest, ConnectFails, Connect, sendVars, recvVars, Stages
  <2>5. CASE SendFails \/ EndOfResponse \/ ReceiveFails \/ Close
    BY <2>5 DEF SendFails, EndOfResponse, ReceiveFails, Close, sendVars, recvVars, Stages
  <2>6. CASE StartReceive
    BY <2>6 DEF StartReceive, sendVars, BufferInv, Stages
  <2>7. QED BY <2>1, <2>2, <2>3, <2>4, <2>5, <2>6 DEF Next
<1>3. QED BY <1>1, <1>2, FetchInvariance, PTL DEF Spec

-----------------------------------------------------------------------------
(* Induction *)

(* A set of naturals has a smallest element. *)
LEMMA SmallestNat ==
  ASSUME NEW T \in SUBSET Nat, T # {}
  PROVE  \E x \in T : \A y \in T : ~(y < x)
<1> DEFINE R == {ss \in Nat \X Nat : ss[1] < ss[2]}
<1>1. IsWellFoundedOn(R, Nat) BY NatLessThanWellFounded DEF OpToRel
<1>2. \A y, x \in Nat : <<y, x>> \in R <=> y < x OBVIOUS
<1> HIDE DEF R
<1>3. \E x \in T : \A y \in T : ~(<<y, x>> \in R) BY <1>1, WFMin, Zenon
<1>4. QED BY <1>2, <1>3

(* Induction, about a set instead of a predicate. *)
LEMMA SetInduction ==
  ASSUME NEW S, 0 \in S, \A n \in Nat : n \in S => n + 1 \in S
  PROVE  Nat \subseteq S
<1> SUFFICES ASSUME ~(Nat \subseteq S) PROVE FALSE OBVIOUS
<1>1. PICK x \in Nat \ S : \A y \in Nat \ S : ~(y < x) BY SmallestNat
<1>2. x # 0 /\ x - 1 \in Nat /\ x - 1 < x /\ (x - 1) + 1 = x BY <1>1
<1>3. x - 1 \in S BY <1>1, <1>2
<1>4. QED BY <1>1, <1>2, <1>3

-----------------------------------------------------------------------------
(* f gives the encodings of the first k of is, for every k up to n. *)
Builds(f, is, n) ==
  f = [k \in 0..n |-> IF k = 0 THEN <<>> ELSE f[k - 1] \o EncodeItem(is[k])]

LEMMA BuildsStep ==
  ASSUME NEW f, NEW is, NEW n \in Nat, Builds(f, is, n)
  PROVE  f[0] = <<>> /\ \A k \in 1..n : f[k] = f[k - 1] \o EncodeItem(is[k])
<1> DEFINE g == [k \in 0..n |-> IF k = 0 THEN <<>> ELSE f[k - 1] \o EncodeItem(is[k])]
<1>1. f = g BY DEF Builds
<1>2. g[0] = <<>> OBVIOUS
<1>3. ASSUME NEW k \in 1..n PROVE g[k] = f[k - 1] \o EncodeItem(is[k])
  <2>1. k \in 0..n /\ k # 0 OBVIOUS
  <2>2. QED BY <2>1
<1> HIDE DEF g
<1>4. QED BY <1>1, <1>2, <1>3

(* There is such a function for every number of descriptions. *)
LEMMA BuildsExists ==
  ASSUME NEW is, NEW n \in Nat
  PROVE  \E f : Builds(f, is, n)
<1> DEFINE S == {m \in Nat : \E f : Builds(f, is, m)}
<1>1. 0 \in S
  <2>1. Builds([k \in 0..0 |-> <<>>], is, 0) BY DEF Builds
  <2>2. QED BY <2>1
<1>2. ASSUME NEW m \in Nat, m \in S PROVE m + 1 \in S
  <2>1. PICK f : Builds(f, is, m) BY <1>2
  <2> DEFINE g == [k \in 0..(m + 1) |-> IF k \in 0..m THEN f[k] ELSE f[m] \o EncodeItem(is[m + 1])]
  <2>2. \A k \in 0..m : g[k] = f[k] OBVIOUS
  <2>3. \A k \in 1..m : f[k] = f[k - 1] \o EncodeItem(is[k]) BY <2>1, BuildsStep
  <2>4. f[0] = <<>> BY <2>1, BuildsStep
  <2>5. g[m + 1] = f[m] \o EncodeItem(is[m + 1])
    <3>1. m + 1 \in 0..(m + 1) /\ m + 1 \notin 0..m OBVIOUS
    <3>2. QED BY <3>1
  <2>6. ASSUME NEW k \in 0..(m + 1)
        PROVE  g[k] = IF k = 0 THEN <<>> ELSE g[k - 1] \o EncodeItem(is[k])
    <3> HIDE DEF g
    <3>1. CASE k = 0 BY <2>2, <2>4, <3>1
    <3>2. CASE k \in 1..m
      <4>1. k \in 0..m /\ k - 1 \in 0..m /\ k # 0 BY <3>2
      <4>2. QED BY <2>2, <2>3, <3>2, <4>1
    <3>3. CASE k = m + 1
      <4>1. k # 0 /\ k - 1 = m /\ m \in 0..m BY <3>3
      <4>2. QED BY <2>2, <2>5, <3>3, <4>1
    <3>4. QED BY <3>1, <3>2, <3>3
  <2>7. Builds(g, is, m + 1) BY <2>6 DEF Builds
  <2> HIDE DEF g
  <2>8. m + 1 \in Nat OBVIOUS
  <2>9. QED BY <2>7, <2>8
<1> HIDE DEF S
<1>3. Nat \subseteq S BY <1>1, <1>2, SetInduction
<1>4. QED BY <1>3 DEF S

(* So the recursive definition of Contents has a meaning. *)
LEMMA ContentsBuild ==
  ASSUME NEW is, Len(is) \in Nat
  PROVE  Builds(Contents(is), is, Len(is))
<1>1. \E f : Builds(f, is, Len(is)) BY BuildsExists
<1>2. Contents(is) = CHOOSE f : Builds(f, is, Len(is)) BY DEF Contents, Builds
<1>3. QED BY <1>1, <1>2

LEMMA ContentsStep ==
  ASSUME NEW is, Len(is) \in Nat
  PROVE  /\ Contents(is)[0] = <<>>
         /\ \A k \in 1..Len(is) : Contents(is)[k] = Contents(is)[k - 1] \o EncodeItem(is[k])
<1>1. PICK f : f = Contents(is) OBVIOUS
<1>2. PICK n \in Nat : n = Len(is) OBVIOUS
<1>3. Builds(f, is, n) BY <1>1, <1>2, ContentsBuild
<1>4. f[0] = <<>> /\ \A k \in 1..n : f[k] = f[k - 1] \o EncodeItem(is[k]) BY <1>3, BuildsStep
<1>5. QED BY <1>1, <1>2, <1>4

-----------------------------------------------------------------------------
(* Sequence d has the elements of s from position p on. *)
At(d, p, s) ==
  /\ p \in Nat \ {0} /\ p + Len(s) <= Len(d) + 1
  /\ \A j \in 1..Len(s) : d[p + j - 1] = s[j]

(* What stands as a whole stands in its parts. *)
LEMMA AtParts ==
  ASSUME NEW d \in Seq(Int), NEW p, NEW s \in Seq(Int), NEW t \in Seq(Int), At(d, p, s \o t)
  PROVE  At(d, p, s) /\ At(d, p + Len(s), t)
<1>1. Len(s) \in Nat /\ Len(t) \in Nat /\ Len(d) \in Nat /\ Len(s \o t) = Len(s) + Len(t)
  BY ConcatProperties, LenProperties
<1>2. \A i \in 1..(Len(s) + Len(t)) : (s \o t)[i] = IF i <= Len(s) THEN s[i] ELSE t[i - Len(s)]
  BY ConcatProperties
<1>3. p \in Nat \ {0} /\ p + Len(s) + Len(t) <= Len(d) + 1 BY <1>1 DEF At
<1>4. \A j \in 1..(Len(s) + Len(t)) : d[p + j - 1] = (s \o t)[j] BY <1>1 DEF At
<1>5. \A j \in 1..Len(s) : j \in 1..(Len(s) + Len(t)) /\ j <= Len(s) BY <1>1
<1>6. \A j \in 1..Len(s) : d[p + j - 1] = s[j] BY <1>2, <1>4, <1>5
<1>7. At(d, p, s)
  <2>1. p + Len(s) <= Len(d) + 1 BY <1>1, <1>3
  <2>2. QED BY <1>3, <1>6, <2>1 DEF At
<1>8. ASSUME NEW j \in 1..Len(t) PROVE d[(p + Len(s)) + j - 1] = t[j]
  <2>1. /\ j + Len(s) \in 1..(Len(s) + Len(t)) /\ ~(j + Len(s) <= Len(s))
        /\ (j + Len(s)) - Len(s) = j /\ (p + Len(s)) + j - 1 = p + (j + Len(s)) - 1
    BY <1>1, <1>3
  <2>2. QED BY <1>2, <1>4, <2>1
<1>9. At(d, p + Len(s), t) BY <1>1, <1>3, <1>8 DEF At
<1>10. QED BY <1>7, <1>9

(* What stands in the first or the second of two sequences stands in both. *)
LEMMA AtFirst ==
  ASSUME NEW s \in Seq(Int), NEW t \in Seq(Int), NEW p, NEW u \in Seq(Int), At(s, p, u)
  PROVE  At(s \o t, p, u)
<1>1. Len(s) \in Nat /\ Len(t) \in Nat /\ Len(u) \in Nat /\ Len(s \o t) = Len(s) + Len(t)
  BY ConcatProperties, LenProperties
<1>2. \A i \in 1..(Len(s) + Len(t)) : (s \o t)[i] = IF i <= Len(s) THEN s[i] ELSE t[i - Len(s)]
  BY ConcatProperties
<1>3. p \in Nat \ {0} /\ p + Len(u) <= Len(s) + 1 BY DEF At
<1>4. ASSUME NEW j \in 1..Len(u) PROVE (s \o t)[p + j - 1] = u[j]
  <2>1. j \in Nat /\ 1 <= j /\ j <= Len(u) BY <1>1
  <2>2. p + j - 1 \in 1..(Len(s) + Len(t)) /\ p + j - 1 <= Len(s) BY <1>1, <1>3, <2>1
  <2>3. QED BY <1>2, <2>2 DEF At
<1>5. p + Len(u) <= Len(s \o t) + 1 BY <1>1, <1>3
<1>6. QED BY <1>3, <1>4, <1>5 DEF At

LEMMA AtSecond ==
  ASSUME NEW s \in Seq(Int), NEW t \in Seq(Int), NEW p, NEW u \in Seq(Int), At(t, p, u)
  PROVE  At(s \o t, Len(s) + p, u)
<1>1. Len(s) \in Nat /\ Len(t) \in Nat /\ Len(u) \in Nat /\ Len(s \o t) = Len(s) + Len(t)
  BY ConcatProperties, LenProperties
<1>2. \A i \in 1..(Len(s) + Len(t)) : (s \o t)[i] = IF i <= Len(s) THEN s[i] ELSE t[i - Len(s)]
  BY ConcatProperties
<1>3. p \in Nat \ {0} /\ p + Len(u) <= Len(t) + 1 BY DEF At
<1>4. ASSUME NEW j \in 1..Len(u) PROVE (s \o t)[(Len(s) + p) + j - 1] = u[j]
  <2>1. j \in Nat /\ 1 <= j /\ j <= Len(u) BY <1>1
  <2>2. /\ (Len(s) + p) + j - 1 = Len(s) + (p + j - 1)
        /\ Len(s) + (p + j - 1) \in 1..(Len(s) + Len(t))
        /\ ~(Len(s) + (p + j - 1) <= Len(s)) /\ (Len(s) + (p + j - 1)) - Len(s) = p + j - 1
    BY <1>1, <1>3, <2>1
  <2>3. (s \o t)[Len(s) + (p + j - 1)] = t[p + j - 1] BY <1>2, <2>2
  <2>4. QED BY <2>2, <2>3 DEF At
<1>5. Len(s) + p \in Nat \ {0} /\ (Len(s) + p) + Len(u) <= Len(s \o t) + 1 BY <1>1, <1>3
<1>6. QED BY <1>4, <1>5 DEF At

LEMMA AtWhole == ASSUME NEW s \in Seq(Int) PROVE At(s, 1, s)
<1>1. Len(s) \in Nat BY LenProperties
<1>2. \A j \in 1..Len(s) : 1 + j - 1 = j BY <1>1
<1>3. QED BY <1>1, <1>2 DEF At

-----------------------------------------------------------------------------
(* The encoder *)

(* The digits of a length in base b. *)
LEMMA DivMod ==
  ASSUME NEW n \in Nat, NEW b \in Nat \ {0}
  PROVE  n = ((n \div b) * b) + (n % b) /\ n \div b \in Nat /\ n % b \in Nat
<1>1. n % b \in Nat OBVIOUS
<1>2. n \div b \in Nat OBVIOUS
<1>3. n = ((n \div b) * b) + (n % b) OBVIOUS
<1>4. QED BY <1>1, <1>2, <1>3

LEMMA LengthType ==
  ASSUME OcspUrlsAssumption, NEW n \in Nat
  PROVE  Length(n) \in Seq(Int) /\ Len(Length(n)) \in 1..4
<1>1. HighBit \in Nat /\ Base \in Nat \ {0} BY DEF OcspUrlsAssumption
<1>2. /\ n \div Base \in Nat /\ n % Base \in Nat
      /\ (n \div Base) \div Base \in Nat /\ (n \div Base) % Base \in Nat
  BY <1>1, DivMod
<1> HIDE DEF OcspUrlsAssumption
<1>3. QED BY <1>1, <1>2 DEF Length

LEMMA ElementType ==
  ASSUME OcspUrlsAssumption, NEW tag \in Int, NEW content \in Seq(Int)
  PROVE  /\ Element(tag, content) \in Seq(Int)
         /\ Len(Element(tag, content)) = 1 + Len(Length(Len(content))) + Len(content)
<1>1. Len(content) \in Nat BY LenProperties
<1>2. Length(Len(content)) \in Seq(Int) BY <1>1, LengthType
<1>3. <<tag>> \in Seq(Int) /\ Len(<<tag>>) = 1 OBVIOUS
<1>4. /\ <<tag>> \o Length(Len(content)) \in Seq(Int)
      /\ Len(<<tag>> \o Length(Len(content))) = 1 + Len(Length(Len(content)))
  BY <1>2, <1>3, ConcatProperties
<1>5. QED BY <1>4, ConcatProperties DEF Element

(* The bytes of the texts and OIDs of a description. *)
LEMMA ItemParts ==
  ASSUME OcspUrlsAssumption, NEW i \in Item
  PROVE  /\ i.oid \in Seq(Int) /\ i.text \in Seq(Int) /\ i.name \in {ASN1_STRING, OtherName}
         /\ i.tag \in {ASN1_SEQUENCE, Foreign} /\ i.text \in Text
         /\ i.tag = Foreign => i.name # ASN1_STRING
<1>1. /\ i.oid \in {OCSP_OID} \cup OtherOID /\ i.text \in Text
      /\ i.name \in {ASN1_STRING, OtherName} /\ i.tag \in {ASN1_SEQUENCE, Foreign}
      /\ i.tag = Foreign => i.name # ASN1_STRING
  BY DEF Item, ASN1_SEQUENCE, Foreign, OtherName, ASN1_STRING
<1>2. i.oid \in Seq(1..(Base - 1)) /\ i.text \in Seq(1..(Base - 1))
  BY <1>1 DEF OcspUrlsAssumption
<1>3. 1..(Base - 1) \subseteq Int BY DEF OcspUrlsAssumption
<1>4. i.oid \in Seq(Int) /\ i.text \in Seq(Int) BY <1>2, <1>3, SeqMonotonic
<1>5. QED BY <1>1, <1>4

LEMMA TagsAreInt ==
  /\ ASN1_SEQUENCE \in Int /\ ASN1_OID \in Int /\ ASN1_STRING \in Int
  /\ OtherName \in Int /\ Foreign \in Int
BY DEF ASN1_SEQUENCE, ASN1_OID, ASN1_STRING, OtherName, Foreign

(* Encodings are sequences of numbers. *)
LEMMA ItemType ==
  ASSUME OcspUrlsAssumption, NEW i \in Item
  PROVE  EncodeItem(i) \in Seq(Int)
<1>1. i.oid \in Seq(Int) /\ i.text \in Seq(Int) /\ i.name \in Int BY ItemParts, TagsAreInt
<1>2. Element(ASN1_OID, i.oid) \in Seq(Int) /\ Element(i.name, i.text) \in Seq(Int)
  BY <1>1, ElementType, TagsAreInt
<1>3. Element(ASN1_OID, i.oid) \o Element(i.name, i.text) \in Seq(Int)
  BY <1>2, ConcatProperties
<1>4. /\ Element(Foreign, i.text) \in Seq(Int)
      /\ Element(ASN1_SEQUENCE, Element(ASN1_OID, i.oid) \o Element(i.name, i.text)) \in Seq(Int)
  BY <1>1, <1>3, ElementType, TagsAreInt
<1>5. QED BY <1>4 DEF EncodeItem

(* The first m encodings stand one after the other. *)
LaidOut(is, m) ==
  /\ Contents(is)[m] \in Seq(Int)
  /\ \A k \in 1..m :
       /\ Contents(is)[k - 1] \in Seq(Int)
       /\ Len(Contents(is)[k]) = Len(Contents(is)[k - 1]) + Len(EncodeItem(is[k]))
       /\ At(Contents(is)[m], Len(Contents(is)[k - 1]) + 1, EncodeItem(is[k]))

(* It is so for every number of descriptions, by induction. *)
LEMMA ContentsLaidOut ==
  ASSUME OcspUrlsAssumption, NEW is \in Seq(Item)
  PROVE  Contents(is)[0] = <<>> /\ \A m \in 0..Len(is) : LaidOut(is, m)
<1> DEFINE c == Contents(is)
           n == Len(is)
           S == {m \in Nat : m <= n => LaidOut(is, m)}
<1>1. n \in Nat /\ \A k \in 1..n : is[k] \in Item BY LenProperties, ElementOfSeq
<1>2. c[0] = <<>> /\ \A k \in 1..n : c[k] = c[k - 1] \o EncodeItem(is[k])
  BY <1>1, ContentsStep
<1>3. \A k \in 1..n : EncodeItem(is[k]) \in Seq(Int) BY <1>1, ItemType
<1>4. 0 \in S
  <2>1. c[0] \in Seq(Int) BY <1>2
  <2>2. \A k \in 1..0 : FALSE OBVIOUS
  <2>3. LaidOut(is, 0) BY <2>1, <2>2 DEF LaidOut
  <2>4. QED BY <2>3
<1> HIDE DEF c, n
<1>5. ASSUME NEW m \in Nat, m \in S, m + 1 <= n PROVE LaidOut(is, m + 1)
  <2>1. LaidOut(is, m) BY <1>1, <1>5
  <2>2. m + 1 \in 1..n /\ (m + 1) - 1 = m BY <1>1, <1>5
  <2>3. c[m + 1] = c[m] \o EncodeItem(is[m + 1]) BY <1>2, <2>2
  <2>4. c[m] \in Seq(Int) /\ EncodeItem(is[m + 1]) \in Seq(Int) BY <1>3, <2>1, <2>2 DEF LaidOut, c
  <2>5. c[m + 1] \in Seq(Int) /\ Len(c[m + 1]) = Len(c[m]) + Len(EncodeItem(is[m + 1]))
    BY <2>3, <2>4, ConcatProperties
  <2>6. ASSUME NEW k \in 1..m
        PROVE  /\ c[k - 1] \in Seq(Int) /\ Len(c[k]) = Len(c[k - 1]) + Len(EncodeItem(is[k]))
               /\ At(c[m + 1], Len(c[k - 1]) + 1, EncodeItem(is[k]))
    <3>1. /\ c[k - 1] \in Seq(Int) /\ Len(c[k]) = Len(c[k - 1]) + Len(EncodeItem(is[k]))
          /\ At(c[m], Len(c[k - 1]) + 1, EncodeItem(is[k]))
      BY <2>1 DEF LaidOut, c
    <3>2. k \in 1..n BY <1>1, <2>2
    <3>3. EncodeItem(is[k]) \in Seq(Int) BY <1>3, <3>2
    <3>4. At(c[m + 1], Len(c[k - 1]) + 1, EncodeItem(is[k])) BY <2>3, <2>4, <3>1, <3>3, AtFirst
    <3>5. QED BY <3>1, <3>4
  <2>7. At(c[m + 1], Len(c[m]) + 1, EncodeItem(is[m + 1]))
    <3>1. At(EncodeItem(is[m + 1]), 1, EncodeItem(is[m + 1])) BY <2>4, AtWhole
    <3>2. QED BY <2>3, <2>4, <3>1, AtSecond
  <2>8. ASSUME NEW k \in 1..(m + 1)
        PROVE  /\ c[k - 1] \in Seq(Int) /\ Len(c[k]) = Len(c[k - 1]) + Len(EncodeItem(is[k]))
               /\ At(c[m + 1], Len(c[k - 1]) + 1, EncodeItem(is[k]))
    <3>1. CASE k \in 1..m BY <2>6, <3>1
    <3>2. CASE k = m + 1 BY <2>2, <2>4, <2>5, <2>7, <3>2
    <3>3. k \in 1..m \/ k = m + 1 OBVIOUS
    <3>4. QED BY <3>1, <3>2, <3>3, Zenon
  <2>9. QED BY <2>5, <2>8 DEF LaidOut, c
<1>6. \A m \in Nat : m \in S => m + 1 \in S BY <1>5
<1> HIDE DEF S
<1>7. Nat \subseteq S BY <1>4, <1>6, SetInduction
<1>8. \A m \in 0..n : m \in Nat /\ m <= n BY <1>1
<1>9. \A m \in 0..n : LaidOut(is, m) BY <1>7, <1>8 DEF S
<1>10. QED BY <1>2, <1>9 DEF c, n

-----------------------------------------------------------------------------
(* The decoder reads what the encoder wrote *)

(* What parse_asn1_length makes of the first byte after the tag. *)
LEMMA ShortLength ==
  ASSUME NEW p, NEW n \in Nat, data[p + 1] = n, n < HighBit
  PROVE  parse_asn1_length(p) = [err |-> FALSE, len |-> n, asn1 |-> p + 2]
BY DEF parse_asn1_length

LEMMA LongLength ==
  ASSUME NEW p, HighBit \in Nat, NEW i \in 1..3, data[p + 1] = HighBit + i
  PROVE  parse_asn1_length(p) = [err |-> FALSE, len |-> Bytes(p + 2, i), asn1 |-> p + 2 + i]
<1>1. ~(HighBit + i < HighBit) /\ (HighBit + i) - HighBit = i /\ ~(i = 0 \/ i > 3) OBVIOUS
<1>2. PICK f : f = data[p + 1] OBVIOUS
<1>3. ~(f < HighBit) /\ f - HighBit = i BY <1>1, <1>2
<1>4. QED BY <1>1, <1>2, <1>3 DEF parse_asn1_length

LEMMA RefusedLength ==
  ASSUME NEW p, HighBit \in Nat, NEW i \in Nat, i = 0 \/ i > 3, data[p + 1] = HighBit + i
  PROVE  parse_asn1_length(p) = [err |-> TRUE, len |-> 0, asn1 |-> p + 1]
<1>1. ~(HighBit + i < HighBit) /\ (HighBit + i) - HighBit = i OBVIOUS
<1>2. PICK f : f = data[p + 1] OBVIOUS
<1>3. ~(f < HighBit) /\ f - HighBit = i BY <1>1, <1>2
<1>4. QED BY <1>2, <1>3 DEF parse_asn1_length

LEMMA BytesAre ==
  ASSUME NEW p
  PROVE  /\ Bytes(p, 1) = data[p]
         /\ Bytes(p, 2) = (data[p] * Base) + data[p + 1]
         /\ Bytes(p, 3) = (((data[p] * Base) + data[p + 1]) * Base) + data[p + 2]
<1>1. 1 # 2 /\ 1 # 3 /\ 2 # 3 OBVIOUS
<1>2. QED BY <1>1 DEF Bytes

(* A length in two or three bytes after the first. *)
LEMMA ReadsBytes ==
  ASSUME OcspUrlsAssumption, NEW p \in Nat \ {0}, NEW n \in Nat
  PROVE  /\ At(data, p + 1, <<HighBit + 2, n \div Base, n % Base>>) =>
              parse_asn1_length(p) = [err |-> FALSE, len |-> n, asn1 |-> p + 4]
         /\ At(data, p + 1, <<HighBit + 3, (n \div Base) \div Base, (n \div Base) % Base, n % Base>>) =>
              parse_asn1_length(p) = [err |-> FALSE, len |-> n, asn1 |-> p + 5]
<1>1. HighBit \in Nat /\ Base \in Nat \ {0} BY DEF OcspUrlsAssumption
<1>2. PICK q \in Nat : q = n \div Base BY <1>1, DivMod
<1>3. PICK m \in Nat : m = n % Base BY <1>1, DivMod
<1>4. n = (q * Base) + m BY <1>1, <1>2, <1>3, DivMod
<1>5. PICK x \in Nat : x = q \div Base BY <1>1, DivMod
<1>6. PICK y \in Nat : y = q % Base BY <1>1, DivMod
<1>7. q = (x * Base) + y BY <1>1, <1>5, <1>6, DivMod
<1>8. ASSUME At(data, p + 1, <<HighBit + 2, q, m>>)
      PROVE  parse_asn1_length(p) = [err |-> FALSE, len |-> n, asn1 |-> p + 4]
  <2> DEFINE s == <<HighBit + 2, q, m>>
  <2>1. /\ 1 \in 1..Len(s) /\ 2 \in 1..Len(s) /\ 3 \in 1..Len(s)
        /\ s[1] = HighBit + 2 /\ s[2] = q /\ s[3] = m
    OBVIOUS
  <2>2. \A j \in 1..Len(s) : data[(p + 1) + j - 1] = s[j] BY <1>8 DEF At
  <2> HIDE DEF s
  <2>3. data[p + 1] = HighBit + 2 /\ data[p + 2] = q /\ data[p + 3] = m
    <3>1. (p + 1) + 1 - 1 = p + 1 /\ (p + 1) + 2 - 1 = p + 2 /\ (p + 1) + 3 - 1 = p + 3 OBVIOUS
    <3>2. QED BY <2>1, <2>2, <3>1
  <2>4. Bytes(p + 2, 2) = n
    <3>1. (p + 2) + 1 = p + 3 OBVIOUS
    <3>2. Bytes(p + 2, 2) = (data[p + 2] * Base) + data[p + 3] BY <3>1, BytesAre
    <3>3. QED BY <1>4, <2>3, <3>2
  <2>5. p + 2 + 2 = p + 4 /\ 2 \in 1..3 OBVIOUS
  <2>6. QED BY <1>1, <2>3, <2>4, <2>5, LongLength
<1>9. ASSUME At(data, p + 1, <<HighBit + 3, x, y, m>>)
      PROVE  parse_asn1_length(p) = [err |-> FALSE, len |-> n, asn1 |-> p + 5]
  <2> DEFINE s == <<HighBit + 3, x, y, m>>
  <2>1. /\ 1 \in 1..Len(s) /\ 2 \in 1..Len(s) /\ 3 \in 1..Len(s) /\ 4 \in 1..Len(s)
        /\ s[1] = HighBit + 3 /\ s[2] = x /\ s[3] = y /\ s[4] = m
    OBVIOUS
  <2>2. \A j \in 1..Len(s) : data[(p + 1) + j - 1] = s[j] BY <1>9 DEF At
  <2> HIDE DEF s
  <2>3. data[p + 1] = HighBit + 3 /\ data[p + 2] = x /\ data[p + 3] = y /\ data[p + 4] = m
    <3>1. /\ (p + 1) + 1 - 1 = p + 1 /\ (p + 1) + 2 - 1 = p + 2
          /\ (p + 1) + 3 - 1 = p + 3 /\ (p + 1) + 4 - 1 = p + 4
      OBVIOUS
    <3>2. QED BY <2>1, <2>2, <3>1
  <2>4. Bytes(p + 2, 3) = n
    <3>1. (p + 2) + 1 = p + 3 /\ (p + 2) + 2 = p + 4 OBVIOUS
    <3>2. Bytes(p + 2, 3) = (((data[p + 2] * Base) + data[p + 3]) * Base) + data[p + 4]
      BY <3>1, BytesAre
    <3>3. Bytes(p + 2, 3) = (((x * Base) + y) * Base) + m BY <2>3, <3>2
    <3>4. QED BY <1>4, <1>7, <3>3
  <2>5. p + 2 + 3 = p + 5 /\ 3 \in 1..3 OBVIOUS
  <2>6. QED BY <1>1, <2>3, <2>4, <2>5, LongLength
<1>10. QED BY <1>2, <1>3, <1>5, <1>6, <1>8, <1>9

(* Every length the encoder writes is read back, in one to four bytes. *)
LEMMA ReadsLength ==
  ASSUME OcspUrlsAssumption, NEW p \in Nat \ {0}, NEW n \in Nat, At(data, p + 1, Length(n))
  PROVE  parse_asn1_length(p) = [err |-> FALSE, len |-> n, asn1 |-> p + 1 + Len(Length(n))]
<1>1. HighBit \in Nat /\ HighBit > 5 /\ Base \in Nat \ {0} BY DEF OcspUrlsAssumption
<1>2. CASE n < HighBit
  <2>1. Length(n) = <<n>> BY <1>2 DEF Length
  <2>2. data[p + 1] = n
    <3>1. Len(<<n>>) = 1 /\ <<n>>[1] = n /\ 1 \in 1..1 /\ (p + 1) + 1 - 1 = p + 1 OBVIOUS
    <3>2. QED BY <2>1, <3>1 DEF At
  <2>3. p + 1 + 1 = p + 2 /\ Len(<<n>>) = 1 OBVIOUS
  <2>4. QED BY <1>2, <2>1, <2>2, <2>3, ShortLength
<1>3. CASE ~(n < HighBit) /\ n < Base
  <2>1. Length(n) = <<HighBit + 1, n>> BY <1>3 DEF Length
  <2>2. data[p + 1] = HighBit + 1 /\ data[p + 2] = n
    <3> DEFINE s == <<HighBit + 1, n>>
    <3>1. 1 \in 1..Len(s) /\ 2 \in 1..Len(s) /\ s[1] = HighBit + 1 /\ s[2] = n OBVIOUS
    <3>2. (p + 1) + 1 - 1 = p + 1 /\ (p + 1) + 2 - 1 = p + 2 OBVIOUS
    <3>3. \A j \in 1..Len(s) : data[(p + 1) + j - 1] = s[j] BY <2>1 DEF At
    <3> HIDE DEF s
    <3>4. QED BY <3>1, <3>2, <3>3
  <2>3. Bytes(p + 2, 1) = n BY <2>2, BytesAre
  <2>4. p + 1 + 2 = p + 3 /\ p + 2 + 1 = p + 3 /\ Len(<<HighBit + 1, n>>) = 2 /\ 1 \in 1..3
    OBVIOUS
  <2>5. QED BY <1>1, <2>1, <2>2, <2>3, <2>4, LongLength
<1>4. CASE ~(n < HighBit) /\ ~(n < Base) /\ n < Base * Base
  <2>1. Length(n) = <<HighBit + 2, n \div Base, n % Base>> BY <1>4 DEF Length
  <2>2. Len(Length(n)) = 3 /\ p + 1 + 3 = p + 4 BY <2>1
  <2>3. QED BY <2>1, <2>2, ReadsBytes
<1>5. CASE ~(n < HighBit) /\ ~(n < Base) /\ ~(n < Base * Base)
  <2>1. Length(n) = <<HighBit + 3, (n \div Base) \div Base, (n \div Base) % Base, n % Base>>
    BY <1>5 DEF Length
  <2>2. Len(Length(n)) = 4 /\ p + 1 + 4 = p + 5 BY <2>1
  <2>3. QED BY <2>1, <2>2, ReadsBytes
<1>6. QED BY <1>2, <1>3, <1>4, <1>5

(* An element is read back: its tag, its length, and where its content is. *)
LEMMA ReadsElement ==
  ASSUME OcspUrlsAssumption, data \in Seq(Int), NEW p, NEW tag \in Int, NEW content \in Seq(Int),
         At(data, p, Element(tag, content))
  PROVE  /\ p \in Nat \ {0} /\ data[p] = tag
         /\ \E q \in Nat \ {0} :
              /\ p + 2 <= q /\ q + Len(content) = p + Len(Element(tag, content))
              /\ q + Len(content) <= Len(data) + 1
              /\ parse_asn1_length(p) = [err |-> FALSE, len |-> Len(content), asn1 |-> q]
              /\ At(data, q, content)
<1>1. PICK n \in Nat : n = Len(content) BY LenProperties
<1>2. PICK l : l = Length(n) OBVIOUS
<1>3. l \in Seq(Int) /\ Len(l) \in 1..4 BY <1>1, <1>2, LengthType
<1>4. p \in Nat \ {0} BY DEF At
<1>5. <<tag>> \in Seq(Int) /\ Len(<<tag>>) = 1 /\ <<tag>>[1] = tag OBVIOUS
<1>6. <<tag>> \o l \in Seq(Int) /\ Len(<<tag>> \o l) = 1 + Len(l) BY <1>3, <1>5, ConcatProperties
<1>7. At(data, p, (<<tag>> \o l) \o content) BY <1>1, <1>2 DEF Element
<1>8. At(data, p, <<tag>> \o l) /\ At(data, p + Len(<<tag>> \o l), content) BY <1>6, <1>7, AtParts
<1>9. At(data, p, <<tag>>) /\ At(data, p + 1, l) BY <1>3, <1>5, <1>8, AtParts
<1>10. data[p] = tag
  <2>1. 1 \in 1..1 /\ p + 1 - 1 = p BY <1>4
  <2>2. QED BY <1>5, <1>9, <2>1 DEF At
<1>11. parse_asn1_length(p) = [err |-> FALSE, len |-> n, asn1 |-> p + 1 + Len(l)]
  BY <1>2, <1>4, <1>9, ReadsLength
<1>12. Len(Element(tag, content)) = 1 + Len(l) + n BY <1>1, <1>2, ElementType
<1>13. PICK q \in Nat \ {0} : q = p + 1 + Len(l) BY <1>3, <1>4
<1>14. p + Len(<<tag>> \o l) = q BY <1>3, <1>4, <1>6, <1>13
<1>15. p + 2 <= q /\ q + n = p + Len(Element(tag, content))
  <2>1. PICK y \in 1..4 : y = Len(l) BY <1>3
  <2>2. q = p + 1 + y /\ Len(Element(tag, content)) = 1 + y + n BY <1>12, <1>13, <2>1
  <2>3. p + 2 <= p + 1 + y /\ (p + 1 + y) + n = p + (1 + y + n) BY <1>4
  <2>4. QED BY <2>2, <2>3
<1>16. q + n <= Len(data) + 1 BY <1>1, <1>8, <1>14 DEF At
<1>17. QED BY <1>1, <1>4, <1>8, <1>10, <1>11, <1>13, <1>14, <1>15, <1>16

(* What stands at p is what the decoder copies from there. *)
LEMMA CopiesAt ==
  ASSUME data \in Seq(Int), NEW p, NEW s \in Seq(Int), At(data, p, s)
  PROVE  Copy(p, Len(s)) = s
<1>1. PICK n \in Nat : n = Len(s) BY LenProperties
<1>2. p \in Nat \ {0} /\ p + n <= Len(data) + 1 BY <1>1 DEF At
<1>3. \A j \in 1..n : data[p + j - 1] = s[j] BY <1>1 DEF At
<1>4. Len(data) \in Nat BY LenProperties
<1>5. \A i \in p..(p + n - 1) : i \in 1..Len(data) BY <1>2, <1>4
<1>6. \A i \in p..(p + n - 1) : data[i] \in Int BY <1>5, ElementOfSeq
<1>7. PICK m \in Int : m = p + n - 1 BY <1>2
<1>8. m - p + 1 = n /\ (p <= m <=> n # 0) /\ p \in Int BY <1>2, <1>7
<1>9. PICK c : c = SubSeq(data, p, m) OBVIOUS
<1>10. /\ c \in Seq(Int) /\ Len(c) = (IF p <= m THEN m - p + 1 ELSE 0)
       /\ \A i \in 1..(m - p + 1) : c[i] = data[p + i - 1]
  BY <1>6, <1>7, <1>8, <1>9, SubSeqProperties
<1>11. Len(c) = n BY <1>8, <1>10
<1>12. \A i \in 1..n : c[i] = s[i] BY <1>3, <1>8, <1>10
<1>13. c = s BY <1>1, <1>10, <1>11, <1>12, SeqEqual
<1>14. QED BY <1>1, <1>7, <1>9, <1>13 DEF Copy

(* The activation for a description finds the OID o at q, and behind it a  *)
(* name with tag and text.                                                 *)
OidAt(q, o, name, text) ==
  /\ data[q] = ASN1_OID
  /\ \E r, s, t \in Nat \ {0} :
       /\ s = r + Len(o) /\ q + 2 <= r /\ s <= Len(data)
       /\ s + 2 <= t /\ t + Len(text) <= Len(data) + 1
       /\ parse_asn1_length(q) = [err |-> FALSE, len |-> Len(o), asn1 |-> r]
       /\ Copy(r, Len(o)) = o
       /\ data[s] = name
       /\ parse_asn1_length(s) = [err |-> FALSE, len |-> Len(text), asn1 |-> t]
       /\ Copy(t, Len(text)) = text

(* Description i stands from a to before b. *)
Described(i, a, b) ==
  IF i.tag = Foreign THEN data[a] = Foreign
  ELSE /\ data[a] = ASN1_SEQUENCE
       /\ \E q \in Nat \ {0} :
            /\ a + 2 <= q /\ q < b
            /\ parse_asn1_length(a) = [err |-> FALSE, len |-> b - q, asn1 |-> q]
            /\ OidAt(q, i.oid, i.name, i.text)

(* Every description the encoder writes is found as one. *)
LEMMA ReadsItem ==
  ASSUME OcspUrlsAssumption, data \in Seq(Int), NEW i \in Item, NEW a, At(data, a, EncodeItem(i))
  PROVE  Described(i, a, a + Len(EncodeItem(i)))
<1>1. i.oid \in Seq(Int) /\ i.text \in Seq(Int) /\ i.name \in Int BY ItemParts, TagsAreInt
<1>2. CASE i.tag = Foreign
  <2>1. At(data, a, Element(Foreign, i.text)) BY <1>2 DEF EncodeItem
  <2>2. data[a] = Foreign BY <1>1, <2>1, ReadsElement, TagsAreInt
  <2>3. QED BY <1>2, <2>2 DEF Described
<1>3. CASE i.tag # Foreign
  <2>1. PICK o : o = Element(ASN1_OID, i.oid) OBVIOUS
  <2>2. PICK u : u = Element(i.name, i.text) OBVIOUS
  <2>3. o \in Seq(Int) /\ u \in Seq(Int) BY <1>1, <2>1, <2>2, ElementType, TagsAreInt
  <2>4. o \o u \in Seq(Int) /\ Len(o \o u) = Len(o) + Len(u) BY <2>3, ConcatProperties
  <2>5. EncodeItem(i) = Element(ASN1_SEQUENCE, o \o u) BY <1>3, <2>1, <2>2 DEF EncodeItem
  <2>6. /\ a \in Nat \ {0} /\ data[a] = ASN1_SEQUENCE
        /\ \E q \in Nat \ {0} :
             /\ a + 2 <= q /\ q + Len(o \o u) = a + Len(EncodeItem(i))
             /\ parse_asn1_length(a) = [err |-> FALSE, len |-> Len(o \o u), asn1 |-> q]
             /\ At(data, q, o \o u)
    <3>1. PICK c \in Seq(Int) : c = o \o u BY <2>4
    <3>2. At(data, a, Element(ASN1_SEQUENCE, c)) /\ EncodeItem(i) = Element(ASN1_SEQUENCE, c)
      BY <2>5, <3>1
    <3>3. /\ a \in Nat \ {0} /\ data[a] = ASN1_SEQUENCE
          /\ \E q \in Nat \ {0} :
               /\ a + 2 <= q /\ q + Len(c) = a + Len(Element(ASN1_SEQUENCE, c))
               /\ q + Len(c) <= Len(data) + 1
               /\ parse_asn1_length(a) = [err |-> FALSE, len |-> Len(c), asn1 |-> q]
               /\ At(data, q, c)
      BY <3>2, ReadsElement, TagsAreInt
    <3>4. QED BY <3>1, <3>2, <3>3
  <2>7. PICK q \in Nat \ {0} :
             /\ a + 2 <= q /\ q + Len(o \o u) = a + Len(EncodeItem(i))
             /\ parse_asn1_length(a) = [err |-> FALSE, len |-> Len(o \o u), asn1 |-> q]
             /\ At(data, q, o \o u)
    BY <2>6
  <2>8. At(data, q, o) /\ At(data, q + Len(o), u) BY <2>3, <2>7, AtParts
  <2>9. /\ data[q] = ASN1_OID
        /\ \E r \in Nat \ {0} :
              /\ r + Len(i.oid) = q + Len(o) /\ q + 2 <= r
              /\ parse_asn1_length(q) = [err |-> FALSE, len |-> Len(i.oid), asn1 |-> r]
              /\ At(data, r, i.oid)
    <3>1. PICK c \in Seq(Int) : c = i.oid BY <1>1
    <3>2. At(data, q, Element(ASN1_OID, c)) BY <2>1, <2>8, <3>1
    <3>3. /\ data[q] = ASN1_OID
          /\ \E r \in Nat \ {0} :
                /\ q + 2 <= r /\ r + Len(c) = q + Len(Element(ASN1_OID, c))
                /\ r + Len(c) <= Len(data) + 1
                /\ parse_asn1_length(q) = [err |-> FALSE, len |-> Len(c), asn1 |-> r]
                /\ At(data, r, c)
      BY <3>2, ReadsElement, TagsAreInt
    <3>4. QED BY <2>1, <3>1, <3>3
  <2>10. PICK r \in Nat \ {0} :
              /\ r + Len(i.oid) = q + Len(o) /\ q + 2 <= r
              /\ parse_asn1_length(q) = [err |-> FALSE, len |-> Len(i.oid), asn1 |-> r]
              /\ At(data, r, i.oid)
    BY <2>9
  <2>11. PICK s : s = q + Len(o) OBVIOUS
  <2>12. /\ s \in Nat \ {0} /\ data[s] = i.name
         /\ \E t \in Nat \ {0} :
              /\ s + 2 <= t /\ t + Len(i.text) <= Len(data) + 1
              /\ parse_asn1_length(s) = [err |-> FALSE, len |-> Len(i.text), asn1 |-> t]
              /\ At(data, t, i.text)
    BY <1>1, <2>2, <2>8, <2>11, ReadsElement
  <2>13. PICK t \in Nat \ {0} :
              /\ s + 2 <= t /\ t + Len(i.text) <= Len(data) + 1
              /\ parse_asn1_length(s) = [err |-> FALSE, len |-> Len(i.text), asn1 |-> t]
              /\ At(data, t, i.text)
    BY <2>12
  <2>14. Copy(r, Len(i.oid)) = i.oid /\ Copy(t, Len(i.text)) = i.text
    BY <1>1, <2>10, <2>13, CopiesAt
  <2>15. OidAt(q, i.oid, i.name, i.text)
    <3>1. s <= Len(data)
      <4>1. Len(i.text) \in Nat /\ Len(data) \in Nat BY <1>1, LenProperties
      <4>2. QED BY <2>12, <2>13, <4>1
    <3>2. QED BY <2>9, <2>10, <2>11, <2>12, <2>13, <2>14, <3>1 DEF OidAt
  <2>16. PICK b : b = a + Len(EncodeItem(i)) OBVIOUS
  <2>17. PICK n \in Nat \ {0} : n = Len(o \o u)
    <3>1. Len(i.oid) \in Nat /\ Len(u) \in Nat BY <1>1, <2>3, LenProperties
    <3>2. Len(Length(Len(i.oid))) \in 1..4 BY <3>1, LengthType
    <3>3. Len(o) = 1 + Len(Length(Len(i.oid))) + Len(i.oid) BY <1>1, <2>1, ElementType, TagsAreInt
    <3>4. PICK x \in Nat, y \in Nat, z \in 1..4 :
            x = Len(i.oid) /\ y = Len(u) /\ z = Len(Length(Len(i.oid)))
      BY <3>1, <3>2
    <3>5. Len(o) + Len(u) = (1 + z + x) + y BY <3>3, <3>4, Zenon
    <3>6. (1 + z + x) + y \in Nat \ {0} OBVIOUS
    <3>7. QED BY <2>4, <3>5, <3>6
  <2>18. b = q + n BY <2>7, <2>16, <2>17
  <2>19. q < b /\ b - q = n BY <2>18
  <2>20. parse_asn1_length(a) = [err |-> FALSE, len |-> b - q, asn1 |-> q] BY <2>7, <2>17, <2>19
  <2>21. Described(i, a, b) BY <1>3, <2>6, <2>7, <2>15, <2>19, <2>20 DEF Described
  <2>22. QED BY <2>16, <2>21
<1>4. QED BY <1>2, <1>3

-----------------------------------------------------------------------------
(* The layout of the copy *)

(* Description k stands from at[k] to before at[k + 1], behind the last one *)
(* is the byte 0, and the first length leads to at[1] if it is not refused. *)
Parses(at) ==
  /\ items \in Seq(Item) /\ form \in Form /\ data \in Seq(Int) /\ Len(data) \in Nat
  /\ at \in [1..(Len(items) + 1) -> 3..Len(data)]
  /\ at[Len(items) + 1] = Len(data) /\ data[Len(data)] = 0
  /\ data[1] = ASN1_SEQUENCE
  /\ parse_asn1_length(1) = IF form \in {"four_bytes", "indefinite"}
                              THEN [err |-> TRUE, len |-> 0, asn1 |-> 2]
                              ELSE [err |-> FALSE, len |-> Len(data) - at[1], asn1 |-> at[1]]
  /\ \A k \in 1..Len(items) : Described(items[k], at[k], at[k + 1])

LEMMA LengthAsType ==
  ASSUME OcspUrlsAssumption, NEW f \in Form, NEW n \in Nat
  PROVE  LengthAs(f, n) \in Seq(Int) /\ Len(LengthAs(f, n)) \in 1..5
<1>1. HighBit \in Nat /\ Base \in Nat \ {0} BY DEF OcspUrlsAssumption
<1>2. /\ n \div Base \in Nat /\ n % Base \in Nat
      /\ (n \div Base) \div Base \in Nat /\ (n \div Base) % Base \in Nat
  BY <1>1, DivMod
<1>3. CASE f = "der"
  <2>1. LengthAs(f, n) = Length(n) BY <1>3 DEF LengthAs
  <2>2. Length(n) \in Seq(Int) /\ Len(Length(n)) \in 1..4 BY LengthType
  <2>3. QED BY <2>1, <2>2
<1>4. CASE f = "two_bytes"
  <2>1. LengthAs(f, n) = <<HighBit + 2, n \div Base, n % Base>> BY <1>4 DEF LengthAs
  <2>2. QED BY <1>1, <1>2, <2>1
<1>5. CASE f = "four_bytes"
  <2>1. LengthAs(f, n) = <<HighBit + 4, 0, (n \div Base) \div Base, (n \div Base) % Base, n % Base>>
    BY <1>5 DEF LengthAs
  <2>2. QED BY <1>1, <1>2, <2>1
<1>6. CASE f = "indefinite"
  <2>1. LengthAs(f, n) = <<HighBit>> BY <1>6 DEF LengthAs
  <2>2. QED BY <1>1, <2>1
<1>7. QED BY <1>3, <1>4, <1>5, <1>6 DEF Form

(* The length of the extension is read back or refused, by its form. *)
LEMMA ReadsHeader ==
  ASSUME OcspUrlsAssumption, NEW f \in Form, NEW n \in Nat, At(data, 2, LengthAs(f, n))
  PROVE  parse_asn1_length(1) = IF f \in {"four_bytes", "indefinite"}
                                  THEN [err |-> TRUE, len |-> 0, asn1 |-> 2]
                                  ELSE [err |-> FALSE, len |-> n, asn1 |-> 2 + Len(LengthAs(f, n))]
<1>1. HighBit \in Nat /\ Base \in Nat \ {0} BY DEF OcspUrlsAssumption
<1>2. 1 \in Nat \ {0} /\ 1 + 1 = 2 OBVIOUS
<1>3. CASE f = "der"
  <2>1. LengthAs(f, n) = Length(n) BY <1>3 DEF LengthAs
  <2>2. parse_asn1_length(1) = [err |-> FALSE, len |-> n, asn1 |-> 1 + 1 + Len(Length(n))]
    BY <1>2, <2>1, ReadsLength
  <2>3. QED BY <1>3, <2>1, <2>2
<1>4. CASE f = "two_bytes"
  <2>1. LengthAs(f, n) = <<HighBit + 2, n \div Base, n % Base>> BY <1>4 DEF LengthAs
  <2>2. parse_asn1_length(1) = [err |-> FALSE, len |-> n, asn1 |-> 1 + 4]
    BY <1>2, <2>1, ReadsBytes
  <2>3. 2 + Len(LengthAs(f, n)) = 1 + 4 BY <2>1
  <2>4. QED BY <1>4, <2>2, <2>3
<1>5. CASE f \in {"four_bytes", "indefinite"}
  <2>1. \E i \in Nat : (i = 0 \/ i > 3) /\ LengthAs(f, n)[1] = HighBit + i /\ 1 \in 1..Len(LengthAs(f, n))
    <3>1. CASE f = "four_bytes"
      <4>1. LengthAs(f, n) = <<HighBit + 4, 0, (n \div Base) \div Base, (n \div Base) % Base, n % Base>>
        BY <3>1 DEF LengthAs
      <4>2. LengthAs(f, n)[1] = HighBit + 4 /\ 1 \in 1..Len(LengthAs(f, n)) /\ 4 > 3 BY <4>1
      <4>3. QED BY <4>2
    <3>2. CASE f = "indefinite"
      <4>1. LengthAs(f, n) = <<HighBit>> BY <3>2 DEF LengthAs
      <4>2. LengthAs(f, n)[1] = HighBit + 0 /\ 1 \in 1..Len(LengthAs(f, n)) BY <1>1, <4>1
      <4>3. QED BY <4>2
    <3>3. QED BY <1>5, <3>1, <3>2
  <2>2. PICK i \in Nat : (i = 0 \/ i > 3) /\ LengthAs(f, n)[1] = HighBit + i /\ 1 \in 1..Len(LengthAs(f, n))
    BY <2>1
  <2>3. data[1 + 1] = HighBit + i
    <3>1. \A j \in 1..Len(LengthAs(f, n)) : data[2 + j - 1] = LengthAs(f, n)[j] BY DEF At
    <3>2. 2 + 1 - 1 = 1 + 1 OBVIOUS
    <3>3. QED BY <2>2, <3>1, <3>2
  <2>4. parse_asn1_length(1) = [err |-> TRUE, len |-> 0, asn1 |-> 1 + 1]
    BY <1>1, <2>2, <2>3, RefusedLength
  <2>5. QED BY <1>2, <1>5, <2>4
<1>6. QED BY <1>3, <1>4, <1>5 DEF Form

(* The walk starts on a copy with this layout. *)
LEMMA InitParses ==
  ASSUME OcspUrlsAssumption, Encoded
  PROVE  \E at : Parses(at)
<1>1. items \in Seq(Item) /\ form \in Form
  <2>1. PICK m \in 0..MaxItems : items \in [1..m -> Item] BY DEF Encoded
  <2>2. m \in Nat BY DEF OcspUrlsAssumption
  <2>3. QED BY <2>1, <2>2 DEF Encoded
<1>2. PICK n \in Nat : n = Len(items) BY <1>1, LenProperties
<1>3. PICK c : c = Contents(items) OBVIOUS
<1>4. c[0] = <<>> /\ \A m \in 0..n : LaidOut(items, m) BY <1>1, <1>2, <1>3, ContentsLaidOut
<1>5. LaidOut(items, n) BY <1>2, <1>4
<1>6. /\ c[n] \in Seq(Int)
      /\ \A k \in 1..n : /\ c[k - 1] \in Seq(Int)
                         /\ Len(c[k]) = Len(c[k - 1]) + Len(EncodeItem(items[k]))
                         /\ At(c[n], Len(c[k - 1]) + 1, EncodeItem(items[k]))
  BY <1>3, <1>5 DEF LaidOut
<1>7. PICK L \in Nat : L = Len(c[n]) BY <1>6, LenProperties
<1>8. PICK l : l = LengthAs(form, L) OBVIOUS
<1>9. l \in Seq(Int) /\ Len(l) \in 1..5 BY <1>1, <1>7, <1>8, LengthAsType
<1>10. PICK h : h = <<ASN1_SEQUENCE>> \o l OBVIOUS
<1>11. <<ASN1_SEQUENCE>> \in Seq(Int) /\ Len(<<ASN1_SEQUENCE>>) = 1 BY TagsAreInt
<1>12. h \in Seq(Int) /\ Len(h) = 1 + Len(l) BY <1>9, <1>10, <1>11, ConcatProperties
<1>13. data = Append(h \o c[n], 0) BY <1>2, <1>3, <1>7, <1>8, <1>10 DEF Encoded, Encode
<1>14. PICK H \in Nat : H = Len(h) BY <1>12, LenProperties
<1>15. PICK enc : enc = h \o c[n] OBVIOUS
<1>16. enc \in Seq(Int) /\ Len(enc) = H + L
  <2>1. c[n] \in Seq(Int) BY <1>6
  <2>2. PICK w \in Seq(Int) : w = c[n] BY <2>1
  <2>3. h \in Seq(Int) BY <1>12
  <2>4. h \o w \in Seq(Int) /\ Len(h \o w) = Len(h) + Len(w)
    <3>1. w \in Seq(Int) BY <2>2
    <3>2. QED BY <2>3, <3>1, ConcatProperties
  <2>5. QED BY <1>7, <1>14, <1>15, <2>2, <2>4
<1>17. /\ data = enc \o <<0>> /\ <<0>> \in Seq(Int) /\ data \in Seq(Int)
       /\ Len(data) = H + L + 1 /\ data[H + L + 1] = 0
  <2>1. data = Append(enc, 0) /\ 0 \in Int BY <1>13, <1>15
  <2>2. data = enc \o <<0>> BY <1>16, <2>1, AppendIsConcat
  <2>3. data \in Seq(Int) /\ Len(data) = Len(enc) + 1 /\ data[Len(enc) + 1] = 0
    BY <1>16, <2>1, AppendProperties
  <2>4. QED BY <1>16, <2>2, <2>3
<1>18. PICK x \in Nat : x = Len(l) + 2 BY <1>9
<1>19. H + 1 = x /\ Len(data) = x + L /\ data[Len(data)] = 0
  BY <1>9, <1>12, <1>17, <1>18, <1>14
<1>20. At(data, 1, h)
  <2>1. At(h, 1, h) BY <1>12, AtWhole
  <2>2. At(enc, 1, h) BY <1>6, <1>12, <1>15, <2>1, AtFirst
  <2>3. QED BY <1>12, <1>16, <1>17, <2>2, AtFirst
<1>21. At(data, 1, <<ASN1_SEQUENCE>>) /\ At(data, 2, l)
  <2>1. 1 + Len(<<ASN1_SEQUENCE>>) = 2 BY <1>11
  <2>2. At(data, 1, <<ASN1_SEQUENCE>> \o l) BY <1>10, <1>20
  <2>3. PICK g \in Seq(Int) : g = <<ASN1_SEQUENCE>> BY <1>11
  <2>4. At(data, 1, g) /\ At(data, 1 + Len(g), l) BY <1>9, <1>17, <2>2, <2>3, AtParts
  <2>5. QED BY <2>1, <2>3, <2>4
<1>22. data[1] = ASN1_SEQUENCE
  <2>1. 1 \in 1..1 /\ 1 + 1 - 1 = 1 /\ <<ASN1_SEQUENCE>>[1] = ASN1_SEQUENCE OBVIOUS
  <2>2. QED BY <1>11, <1>21, <2>1 DEF At
<1>23. parse_asn1_length(1) = IF form \in {"four_bytes", "indefinite"}
                                THEN [err |-> TRUE, len |-> 0, asn1 |-> 2]
                                ELSE [err |-> FALSE, len |-> L, asn1 |-> 2 + Len(l)]
  BY <1>1, <1>7, <1>8, <1>21, ReadsHeader
<1> DEFINE at == [k \in 1..(n + 1) |-> x + Len(c[k - 1])]
<1>24. ASSUME NEW k \in 1..n
       PROVE  /\ x + Len(c[k - 1]) \in 3..Len(data)
              /\ Described(items[k], x + Len(c[k - 1]), x + Len(c[k]))
  <2>1. PICK a \in Nat : a = Len(c[k - 1]) BY <1>6, LenProperties
  <2>2. items[k] \in Item BY <1>1, <1>2, ElementOfSeq
  <2>3. PICK e \in Seq(Int) : e = EncodeItem(items[k]) BY <2>2, ItemType
  <2>4. At(c[n], a + 1, e) BY <1>6, <2>1, <2>3
  <2>5. At(enc, H + (a + 1), e) BY <1>6, <1>12, <1>14, <1>15, <2>3, <2>4, AtSecond
  <2>6. H + (a + 1) = x + a
    <3>1. H + 1 = x BY <1>19
    <3>2. QED BY <3>1
  <2>7. At(data, x + a, e) BY <1>16, <1>17, <2>3, <2>5, <2>6, AtFirst
  <2>8. Described(items[k], x + a, (x + a) + Len(e)) BY <1>17, <2>2, <2>3, <2>7, ReadsItem
  <2>9. PICK y \in Nat : y = Len(e) BY <2>3, LenProperties
  <2>10. (x + a) + y = x + (a + y) /\ Len(c[k]) = a + y
    <3>1. (x + a) + y = x + (a + y) OBVIOUS
    <3>2. Len(c[k]) = Len(c[k - 1]) + Len(EncodeItem(items[k])) BY <1>6
    <3>3. QED BY <2>1, <2>3, <2>9, <3>1, <3>2
  <2>11. x + a \in 3..Len(data)
    <3>1. a + 1 + y <= L + 1 BY <1>7, <2>4, <2>9 DEF At
    <3>2. PICK z \in 1..5 : z = Len(l) BY <1>9
    <3>3. x = z + 2 BY <1>18, <3>2
    <3>4. x + a >= 3 /\ x + a <= x + L BY <3>1, <3>3
    <3>5. QED BY <1>19, <3>4
  <2>12. QED BY <2>1, <2>8, <2>9, <2>10, <2>11
<1>25. x + Len(c[n]) = Len(data) /\ Len(data) \in 3..Len(data) /\ Len(data) \in Nat
  <2>1. PICK N \in Nat : N = x + L OBVIOUS
  <2>2. N >= 3 /\ N \in 3..N
    <3>1. x >= 3
      <4>1. PICK z \in 1..5 : z = Len(l) BY <1>9
      <4>2. x = z + 2 BY <1>18, <4>1
      <4>3. QED BY <4>2
    <3>2. QED BY <2>1, <3>1
  <2>3. N = Len(data) BY <1>19, <2>1
  <2>4. QED BY <1>7, <2>1, <2>2, <2>3
<1>26. ASSUME NEW k \in 1..(n + 1) PROVE at[k] = x + Len(c[k - 1]) /\ at[k] \in 3..Len(data)
  <2>1. at[k] = x + Len(c[k - 1]) OBVIOUS
  <2> HIDE DEF at
  <2>2. k \in 1..n \/ k - 1 = n OBVIOUS
  <2>3. CASE k \in 1..n BY <1>24, <2>1, <2>3
  <2>4. CASE k - 1 = n BY <1>25, <2>1, <2>4
  <2>5. QED BY <2>1, <2>2, <2>3, <2>4
<1>27. at \in [1..(n + 1) -> 3..Len(data)]
  <2>1. DOMAIN at = 1..(n + 1) /\ at = [k \in 1..(n + 1) |-> at[k]] OBVIOUS
  <2> HIDE DEF at
  <2>2. QED BY <1>26, <2>1
<1> HIDE DEF at
<1>28. at[n + 1] = Len(data)
  <2>1. n + 1 \in 1..(n + 1) /\ (n + 1) - 1 = n OBVIOUS
  <2>2. QED BY <1>25, <1>26, <2>1
<1>29. at[1] = 2 + Len(l) /\ Len(data) - at[1] = L
  <2>1. 1 \in 1..(n + 1) /\ 1 - 1 = 0 /\ Len(<<>>) = 0 OBVIOUS
  <2>2. at[1] = x + 0 BY <1>4, <1>26, <2>1
  <2>3. QED BY <1>9, <1>18, <1>19, <2>2
<1>30. \A k \in 1..n : Described(items[k], at[k], at[k + 1])
  <2>1. \A k \in 1..n : k \in 1..(n + 1) /\ k + 1 \in 1..(n + 1) /\ (k + 1) - 1 = k OBVIOUS
  <2>2. QED BY <1>24, <1>26, <2>1
<1>31. Parses(at)
  BY <1>1, <1>2, <1>17, <1>19, <1>22, <1>23, <1>25, <1>27, <1>28, <1>29, <1>30 DEF Parses
<1>32. QED BY <1>31

-----------------------------------------------------------------------------
(* The array of URLs grows by one description at a time *)

UpTo(k) == {j \in Wanted : j <= k}

LEMMA UpToFinite ==
  ASSUME items \in Seq(Item), NEW k \in Nat
  PROVE  /\ UpTo(k) \subseteq Nat /\ IsFiniteSet(UpTo(k)) /\ Cardinality(UpTo(k)) \in Nat
<1>1. Len(items) \in Nat /\ DOMAIN items = 1..Len(items) BY LenProperties
<1>2. IsFiniteSet(1..Len(items)) BY <1>1, FS_Interval
<1>3. UpTo(k) \subseteq 1..Len(items) BY <1>1 DEF UpTo, Wanted
<1>4. IsFiniteSet(UpTo(k)) BY <1>2, <1>3, FS_Subset
<1>5. QED BY <1>1, <1>3, <1>4, FS_CardinalityType

(* A description that names no responder adds nothing. *)
LEMMA ListsSkip ==
  ASSUME items \in Seq(Item), NEW k \in Nat \ {0}, k \notin Wanted
  PROVE  UpTo(k) = UpTo(k - 1)
<1>1. Len(items) \in Nat /\ DOMAIN items = 1..Len(items) BY LenProperties
<1>2. \A j \in Wanted : j \in Nat /\ j # k BY <1>1 DEF Wanted
<1>3. \A j \in Wanted : j <= k <=> j <= k - 1 BY <1>2
<1>4. QED BY <1>3 DEF UpTo

(* One that does is appended with its text. *)
LEMMA ListsAppend ==
  ASSUME items \in Seq(Item), NEW k \in Nat \ {0}, k \in Wanted,
         NEW S, urls \in Seq(S), items[k].text \in S,
         Lists(UpTo(k - 1)), urls' = Append(urls, items[k].text), items' = items
  PROVE  Lists(UpTo(k))'
<1> DEFINE K == UpTo(k - 1)
           M == UpTo(k)
<1>1. k - 1 \in Nat OBVIOUS
<1>2. K \subseteq Nat /\ IsFiniteSet(K) /\ Cardinality(K) \in Nat BY <1>1, UpToFinite
<1>3. \A j \in Wanted : j \in Nat
  <2>1. Len(items) \in Nat /\ DOMAIN items = 1..Len(items) BY LenProperties
  <2>2. QED BY <2>1 DEF Wanted
<1>4. M = K \cup {k} /\ k \notin K /\ \A j \in K : j \in Nat /\ j < k
  <2>1. \A j \in Wanted : j <= k <=> j <= k - 1 \/ j = k BY <1>3
  <2>2. \A j \in Wanted : j <= k - 1 => j < k BY <1>3
  <2>3. ~(k <= k - 1) OBVIOUS
  <2>4. QED BY <1>3, <2>1, <2>2, <2>3 DEF UpTo
<1>5. M' = M BY DEF UpTo, Wanted
<1>6. Len(urls) = Cardinality(K) /\ \A j \in K : urls[Cardinality({i \in K : i <= j})] = items[j].text
  BY DEF Lists
<1> HIDE DEF K, M
<1>7. PICK c \in Nat : c = Cardinality(K) BY <1>2
<1>8. Cardinality(M) = c + 1 BY <1>2, <1>4, <1>7, FS_AddElement
<1>9. Len(urls') = c + 1 BY <1>6, <1>7, AppendProperties
<1>10. urls'[c + 1] = items[k].text BY <1>6, <1>7, AppendProperties
<1>11. \A i \in 1..c : urls'[i] = urls[i] BY <1>6, <1>7, AppendProperties
<1>12. ASSUME NEW j \in M PROVE urls'[Cardinality({i \in M : i <= j})] = items[j].text
  <2>1. CASE j = k
    <3>1. \A i \in M : i <= k BY <1>4
    <3>2. {i \in M : i <= j} = M BY <2>1, <3>1
    <3>3. QED BY <1>8, <1>10, <2>1, <3>2
  <2>2. CASE j \in K
    <3>1. ~(k <= j) BY <1>4, <2>2
    <3>2. PICK I : I = {i \in K : i <= j} OBVIOUS
    <3>3. {i \in M : i <= j} = I BY <1>4, <3>1, <3>2
    <3>4. I \subseteq K /\ j \in I BY <1>2, <2>2, <3>2
    <3>5. IsFiniteSet(I) /\ Cardinality(I) <= c BY <1>2, <1>7, <3>4, FS_Subset
    <3>6. Cardinality(I) \in Nat BY <3>5, FS_CardinalityType
    <3>7. Cardinality(I) # 0 BY <3>4, <3>5, FS_EmptySet
    <3>8. Cardinality(I) \in 1..c BY <3>5, <3>6, <3>7
    <3>9. urls[Cardinality(I)] = items[j].text BY <1>6, <2>2, <3>2
    <3>10. QED BY <1>11, <3>3, <3>8, <3>9
  <2>3. QED BY <1>4, <2>1, <2>2
<1>13. /\ Len(urls') = Cardinality(M')
       /\ \A j \in M' : urls'[Cardinality({i \in M' : i <= j})] = items'[j].text
  BY <1>5, <1>8, <1>9, <1>12
<1>14. QED BY <1>13 DEF Lists, M

(* The list of the first descriptions is kept by a step that leaves it alone. *)
LEMMA ListsKept ==
  ASSUME NEW k, UNCHANGED <<items, urls>>, Lists(UpTo(k))
  PROVE  Lists(UpTo(k))'
<1>1. UpTo(k)' = UpTo(k) BY DEF UpTo, Wanted
<1>2. PICK M : M = UpTo(k) OBVIOUS
<1>3. /\ Len(urls) = Cardinality(M)
      /\ \A j \in M : urls[Cardinality({i \in M : i <= j})] = items[j].text
  BY <1>2 DEF Lists
<1>4. QED BY <1>1, <1>2, <1>3 DEF Lists

(* At the start none is listed, behind the last one all are. *)
LEMMA ListsEnds ==
  ASSUME items \in Seq(Item)
  PROVE  /\ UpTo(0) = {} /\ UpTo(Len(items)) = Wanted
         /\ urls = <<>> => Lists(UpTo(0))
         /\ Lists(Wanted) => (urls = <<>> => Wanted = {}) /\ (Wanted = {} => Len(urls) = 0)
<1>1. Len(items) \in Nat /\ DOMAIN items = 1..Len(items) BY LenProperties
<1>2. \A j \in Wanted : j \in Nat /\ ~(j <= 0) /\ j <= Len(items) BY <1>1 DEF Wanted
<1>3. UpTo(0) = {} /\ UpTo(Len(items)) = Wanted BY <1>2 DEF UpTo
<1>4. Cardinality({}) = 0 /\ Len(<<>>) = 0 BY FS_EmptySet
<1>5. urls = <<>> => Lists(UpTo(0)) BY <1>3, <1>4 DEF Lists
<1>6. IsFiniteSet(Wanted) BY <1>1, <1>3, UpToFinite
<1>7. Lists(Wanted) => Len(urls) = Cardinality(Wanted) BY DEF Lists
<1>8. QED BY <1>3, <1>4, <1>5, <1>6, <1>7, FS_EmptySet

-----------------------------------------------------------------------------
(* The walk *)

(* Nothing before description k is a reason to refuse the extension. *)
Accepted(k) ==
  /\ form \notin {"four_bytes", "indefinite"}
  /\ \A j \in 1..(k - 1) : items[j].tag # Foreign

Activation(a, l) == [asn1 |-> a, len |-> l]

(* The loop of the first activation has not begun. *)
Starting == /\ stack = <<Activation(1, 0)>> /\ err = FALSE
            /\ urls = <<>> /\ response = "pending"

(* The second activation is at description k, or behind the last one. *)
Between(at, k) ==
  /\ k \in 1..(Len(items) + 1) /\ Accepted(k) /\ Lists(UpTo(k - 1))
  /\ err = FALSE /\ response = "pending"
  /\ \E l \in Nat : stack = <<Activation(at[1], Len(data) - at[1]), Activation(at[k], l)>>

(* The third one is at the OID of description k. *)
Inside(at, k) ==
  /\ k \in 1..Len(items) /\ Accepted(k + 1) /\ Lists(UpTo(k - 1))
  /\ err = FALSE /\ response = "pending"
  /\ \E q \in Nat \ {0} :
       /\ at[k] < q /\ q < at[k + 1] /\ OidAt(q, items[k].oid, items[k].name, items[k].text)
       /\ stack = <<Activation(at[1], Len(data) - at[1]), Activation(q, at[k + 1] - q),
                    Activation(q, 0)>>

(* The first one is behind the extension. *)
Ending(at) ==
  /\ Accepted(Len(items) + 1) /\ Lists(Wanted) /\ err = FALSE /\ response = "pending"
  /\ stack = <<Activation(Len(data), Len(data) - at[1])>>

(* The activations return an error, from the first or the second one on. *)
Failing(at) ==
  /\ Refused /\ err = TRUE /\ response = "pending"
  /\ \/ stack = <<Activation(1, 0)>>
     \/ stack = <<Activation(Len(data), Len(data) - at[1])>>
     \/ \E k \in 1..Len(items), l \in Nat :
          stack = <<Activation(at[1], Len(data) - at[1]), Activation(at[k], l)>>

(* decode_OCSP_url has, or will have, its result. *)
Ended ==
  /\ stack = <<>>
  /\ \/ err = TRUE /\ Refused /\ response \in {"pending", "NULL"}
     \/ /\ err = FALSE /\ ~Refused /\ Lists(Wanted)
        /\ \/ response = "pending"
           \/ response = "urls" /\ Wanted # {}
           \/ response = "NULL" /\ Wanted = {}

Walk(at) == \/ Starting \/ Ending(at) \/ Failing(at) \/ Ended
            \/ \E k \in 1..(Len(items) + 1) : Between(at, k) \/ Inside(at, k)

EncodedInv == /\ urls \in Seq(Seq(0..(Base - 1)))
              /\ \E at : Parses(at) /\ Walk(at)

(* Who is on top, and what is left after a return. *)
LEMMA Tops ==
  /\ \A a : Last(<<a>>) = a /\ Front(<<a>>) = <<>>
  /\ \A a, b : Last(<<a, b>>) = b /\ Front(<<a, b>>) = <<a>>
  /\ \A a, b, c : Last(<<a, b, c>>) = c /\ Front(<<a, b, c>>) = <<a, b>>
<1>1. ASSUME NEW a PROVE Last(<<a>>) = a /\ Front(<<a>>) = <<>>
  <2>1. Last(<<a>>) = a BY DEF Last
  <2>2. SubSeq(<<a>>, 1, 0) = <<>> BY SubSeqEmpty
  <2>3. QED BY <2>1, <2>2 DEF Front
<1>2. ASSUME NEW a, NEW b PROVE Last(<<a, b>>) = b /\ Front(<<a, b>>) = <<a>>
  <2>1. Last(<<a, b>>) = b BY DEF Last
  <2>2. SubSeq(<<a, b>>, 1, 1) = <<a>>
    <3>1. PICK u : u = <<a, b>> OBVIOUS
    <3>2. u[1] = a /\ \A i \in 1..1 : u[i] \in {a} BY <3>1
    <3>3. PICK v : v = SubSeq(u, 1, 1) OBVIOUS
    <3>4. v \in Seq({a}) /\ Len(v) = 1 /\ v[1] = u[1]
      <4>1. /\ v \in Seq({a}) /\ Len(v) = (IF 1 <= 1 THEN 1 - 1 + 1 ELSE 0)
            /\ \A i \in 1..(1 - 1 + 1) : v[i] = u[1 + i - 1]
        BY <3>2, <3>3, SubSeqProperties
      <4>2. v[1] = u[1 + 1 - 1] BY <4>1
      <4>3. QED BY <4>1, <4>2
    <3>5. <<a>> \in Seq({a}) /\ Len(<<a>>) = 1 /\ <<a>>[1] = a OBVIOUS
    <3>6. \A i \in 1..1 : i = 1 OBVIOUS
    <3>7. \A i \in 1..Len(v) : v[i] = <<a>>[i] BY <3>2, <3>4, <3>5, <3>6
    <3>8. v = <<a>> BY <3>4, <3>5, <3>7, SeqEqual
    <3>9. QED BY <3>1, <3>3, <3>8
  <2>3. QED BY <2>1, <2>2 DEF Front
<1>3. ASSUME NEW a, NEW b, NEW c PROVE Last(<<a, b, c>>) = c /\ Front(<<a, b, c>>) = <<a, b>>
  <2>1. Last(<<a, b, c>>) = c BY DEF Last
  <2>2. SubSeq(<<a, b, c>>, 1, 2) = <<a, b>>
    <3>1. PICK u : u = <<a, b, c>> OBVIOUS
    <3>2. u[1] = a /\ u[2] = b /\ \A i \in 1..2 : u[i] \in {a, b} BY <3>1
    <3>3. PICK v : v = SubSeq(u, 1, 2) OBVIOUS
    <3>4. v \in Seq({a, b}) /\ Len(v) = 2 /\ v[1] = u[1] /\ v[2] = u[2]
      <4>1. /\ v \in Seq({a, b}) /\ Len(v) = (IF 1 <= 2 THEN 2 - 1 + 1 ELSE 0)
            /\ \A i \in 1..(2 - 1 + 1) : v[i] = u[1 + i - 1]
        BY <3>2, <3>3, SubSeqProperties
      <4>2. v[1] = u[1 + 1 - 1] /\ v[2] = u[1 + 2 - 1] BY <4>1
      <4>3. QED BY <4>1, <4>2
    <3>5. PICK w : w = <<a, b>> OBVIOUS
    <3>6. w \in Seq({a, b}) /\ Len(w) = 2 /\ w[1] = a /\ w[2] = b BY <3>5
    <3>7. \A i \in 1..2 : i = 1 \/ i = 2 OBVIOUS
    <3>8. \A i \in 1..Len(v) : v[i] = w[i] BY <3>2, <3>4, <3>6, <3>7
    <3>9. v = w BY <3>4, <3>6, <3>8, SeqEqual
    <3>10. QED BY <3>1, <3>3, <3>5, <3>9
  <2>3. QED BY <2>1, <2>2 DEF Front
<1>4. QED BY <1>1, <1>2, <1>3

LEMMA Pushed == \A a, b, c : <<a>> \o <<b, c>> = <<a, b, c>>
<1> SUFFICES ASSUME NEW a, NEW b, NEW c PROVE <<a>> \o <<b, c>> = <<a, b, c>> OBVIOUS
<1>1. PICK S : S = {a, b, c} OBVIOUS
<1>2. PICK s, t, u : s = <<a>> /\ t = <<b, c>> /\ u = <<a, b, c>> OBVIOUS
<1>3. /\ s \in Seq(S) /\ t \in Seq(S) /\ u \in Seq(S) /\ Len(s) = 1 /\ Len(t) = 2 /\ Len(u) = 3
      /\ s[1] = a /\ t[1] = b /\ t[2] = c /\ u[1] = a /\ u[2] = b /\ u[3] = c
  BY <1>1, <1>2
<1>4. PICK v : v = s \o t OBVIOUS
<1>5. /\ v \in Seq(S) /\ Len(v) = 1 + 2
      /\ \A i \in 1..(1 + 2) : v[i] = IF i <= 1 THEN s[i] ELSE t[i - 1]
  <2>1. /\ s \o t \in Seq(S) /\ Len(s \o t) = Len(s) + Len(t)
        /\ \A i \in 1..(Len(s) + Len(t)) : (s \o t)[i] = IF i <= Len(s) THEN s[i] ELSE t[i - Len(s)]
    <3>1. s \in Seq(S) /\ t \in Seq(S) BY <1>3
    <3>2. QED BY <3>1, ConcatProperties, Zenon
  <2>2. QED BY <1>3, <1>4, <2>1
<1>6. \A i \in 1..3 : i = 1 \/ i = 2 \/ i = 3 OBVIOUS
<1>7. v[1] = a /\ v[2] = b /\ v[3] = c
  <2>1. v[1] = s[1] /\ v[2] = t[2 - 1] /\ v[3] = t[3 - 1] BY <1>5
  <2>2. QED BY <1>3, <2>1
<1>8. \A i \in 1..Len(v) : v[i] = u[i] BY <1>3, <1>5, <1>6, <1>7
<1>9. v = u BY <1>3, <1>5, <1>8, SeqEqual
<1>10. QED BY <1>2, <1>4, <1>9

(* A caller resumes behind the sequence that it has handed over. *)
LEMMA Returns ==
  ASSUME Return
  PROVE  /\ \A a : stack = <<a>> => stack' = <<>>
         /\ \A x, l, b : x \in Int /\ l \in Int /\ stack = <<Activation(x, l), b>> =>
              stack' = <<Activation(x + l, l)>>
         /\ \A a, x, l, c : x \in Int /\ l \in Int /\ stack = <<a, Activation(x, l), c>> =>
              stack' = <<a, Activation(x + l, l)>>
<1>1. ASSUME NEW a, stack = <<a>> PROVE stack' = <<>>
  <2>1. Front(stack) = <<>> BY <1>1, Tops
  <2>2. QED BY <2>1 DEF Return
<1>2. ASSUME NEW x \in Int, NEW l \in Int, NEW b, stack = <<Activation(x, l), b>>
      PROVE  stack' = <<Activation(x + l, l)>>
  <2>1. PICK s : s = <<Activation(x, l)>> OBVIOUS
  <2>2. Front(stack) = s BY <1>2, <2>1, Tops
  <2>3. s # <<>> /\ Len(s) = 1 /\ s[1].asn1 = x /\ s[1].len = l BY <2>1 DEF Activation
  <2>4. stack' = [s EXCEPT ![1].asn1 = x + l] BY <2>2, <2>3 DEF Return
  <2>5. QED BY <2>1, <2>4 DEF Activation
<1>3. ASSUME NEW a, NEW x, NEW l, NEW c, x \in Int, l \in Int, stack = <<a, Activation(x, l), c>>
      PROVE  stack' = <<a, Activation(x + l, l)>>
  <2>1. PICK s : s = <<a, Activation(x, l)>> OBVIOUS
  <2>2. Front(stack) = s BY <1>3, <2>1, Tops
  <2>3. s # <<>> /\ Len(s) = 2 /\ s[2].asn1 = x /\ s[2].len = l BY <2>1 DEF Activation
  <2>4. stack' = [s EXCEPT ![2].asn1 = x + l] BY <2>2, <2>3 DEF Return
  <2>5. QED BY <2>1, <2>4 DEF Activation
<1>4. QED BY <1>1, <1>2, <1>3

(* The walk changes neither the extension nor its copy. *)
LEMMA Frozen ==
  ASSUME items' = items, form' = form, data' = data
  PROVE  /\ \A at : Parses(at) => Parses(at)'
         /\ \A k : Accepted(k) => Accepted(k)'
         /\ \A q, o, name, text : OidAt(q, o, name, text) => OidAt(q, o, name, text)'
         /\ Wanted' = Wanted /\ (Refused' <=> Refused)
<1>1. \A p : parse_asn1_length(p)' = parse_asn1_length(p)
  <2>1. \A p, i : Bytes(p, i)' = Bytes(p, i) BY DEF Bytes
  <2>2. QED BY <2>1 DEF parse_asn1_length
<1>2. \A p, l : Copy(p, l)' = Copy(p, l) BY DEF Copy
<1>3. ASSUME NEW q, NEW o, NEW name, NEW text, OidAt(q, o, name, text)
      PROVE  OidAt(q, o, name, text)'
  BY <1>1, <1>2, <1>3 DEF OidAt
<1>4. ASSUME NEW i, NEW a, NEW b, Described(i, a, b) PROVE Described(i, a, b)'
  BY <1>1, <1>3, <1>4 DEF Described
<1>5. ASSUME NEW at, Parses(at) PROVE Parses(at)'
  BY <1>1, <1>4, <1>5 DEF Parses
<1>6. ASSUME NEW k, Accepted(k) PROVE Accepted(k)' BY <1>6 DEF Accepted
<1>7. Wanted' = Wanted BY DEF Wanted
<1>8. Refused' <=> Refused BY DEF Refused
<1>9. QED BY <1>3, <1>5, <1>6, <1>7, <1>8

LEMMA AllFrozen == ASSUME WalkNext PROVE items' = items /\ form' = form /\ data' = data
BY DEF WalkNext, EnterSequence, ReadOID, Unexpected, LeaveSequence, decode_OCSP_url

(* The positions of the descriptions are in the copy, behind the first byte. *)
LEMMA Positions ==
  ASSUME NEW at, Parses(at)
  PROVE  /\ items \in Seq(Item) /\ Len(items) \in Nat /\ Len(data) \in Nat
         /\ \A k \in 1..(Len(items) + 1) :
              /\ at[k] \in Nat \ {0} /\ 1 < at[k] /\ 3 <= at[k]
              /\ at[k] <= Len(data) /\ Len(data) - at[k] \in Nat
         /\ 1 \in 1..(Len(items) + 1)
<1>1. items \in Seq(Item) /\ Len(data) \in Nat /\ at \in [1..(Len(items) + 1) -> 3..Len(data)]
  BY DEF Parses
<1>2. Len(items) \in Nat BY <1>1, LenProperties
<1>3. ASSUME NEW k \in 1..(Len(items) + 1)
      PROVE  /\ at[k] \in Nat \ {0} /\ 1 < at[k] /\ 3 <= at[k]
             /\ at[k] <= Len(data) /\ Len(data) - at[k] \in Nat
  <2>1. at[k] \in 3..Len(data) BY <1>1
  <2>2. PICK x \in 3..Len(data) : x = at[k] BY <2>1
  <2>3. QED BY <1>1, <2>2
<1>4. QED BY <1>1, <1>2, <1>3

(* Which steps are possible when the top activation reads byte b. *)
LEMMA NextByByte ==
  ASSUME WalkNext, stack # <<>>, err = FALSE, NEW b, data[Top.asn1] = b
  PROVE  \/ b = ASN1_SEQUENCE /\ EnterSequence
         \/ b = ASN1_OID /\ ReadOID
         \/ b \notin {0, ASN1_SEQUENCE, ASN1_OID} /\ Unexpected
         \/ b = 0 /\ LeaveSequence
BY DEF WalkNext, EnterSequence, ReadOID, Unexpected, LeaveSequence, decode_OCSP_url, Running, Turn

LEMMA Tags ==
  /\ ASN1_SEQUENCE # ASN1_OID /\ ASN1_SEQUENCE # 0 /\ ASN1_OID # 0
  /\ Foreign \notin {0, ASN1_SEQUENCE, ASN1_OID} /\ ASN1_STRING # OtherName
BY DEF ASN1_SEQUENCE, ASN1_OID, Foreign, ASN1_STRING, OtherName

(* The first length is refused, or leads to the first description. *)
LEMMA StartingStep ==
  ASSUME OcspUrlsAssumption, NEW at, Parses(at), Starting, WalkNext
  PROVE  urls' = urls /\ ((Failing(at)' /\ stack' = stack) \/ Between(at, 1)')
<1>1. items' = items /\ form' = form /\ data' = data BY AllFrozen
<1>2. Top = Activation(1, 0) /\ stack # <<>> /\ err = FALSE /\ Front(stack) = <<>>
  BY Tops DEF Starting, Top
<1>3. Top.asn1 = 1 BY <1>2 DEF Activation
<1>4. data[Top.asn1] = ASN1_SEQUENCE BY <1>3 DEF Parses
<1>5. EnterSequence BY <1>2, <1>4, NextByByte, Tags
<1>6. PICK l : l = parse_asn1_length(1) OBVIOUS
<1>7. /\ err' = l.err /\ urls' = urls /\ response' = "pending"
      /\ stack' = IF l.err THEN stack
                  ELSE <<>> \o <<Activation(l.asn1, l.len), Activation(l.asn1, 0)>>
  BY <1>2, <1>3, <1>5, <1>6 DEF EnterSequence, Starting, Activation
<1>8. CASE form \in {"four_bytes", "indefinite"}
  <2>1. l.err = TRUE BY <1>6, <1>8 DEF Parses
  <2>2. err' = TRUE /\ stack' = <<Activation(1, 0)>> BY <1>7, <2>1 DEF Starting
  <2>3. Refused' BY <1>1, <1>8 DEF Refused
  <2>4. QED BY <1>7, <2>2, <2>3 DEF Failing, Starting
<1>9. CASE form \notin {"four_bytes", "indefinite"}
  <2>1. l = [err |-> FALSE, len |-> Len(data) - at[1], asn1 |-> at[1]] BY <1>6, <1>9 DEF Parses
  <2>2. err' = FALSE BY <1>7, <2>1
  <2>3. stack' = <<>> \o <<Activation(at[1], Len(data) - at[1]), Activation(at[1], 0)>>
    BY <1>7, <2>1
  <2>4. stack' = <<Activation(at[1], Len(data) - at[1]), Activation(at[1], 0)>> BY <2>3
  <2>5. Accepted(1)'
    <3>1. \A j \in 1..(1 - 1) : FALSE OBVIOUS
    <3>2. QED BY <1>1, <1>9, <3>1 DEF Accepted
  <2>6. Lists(UpTo(0))'
    <3>1. items \in Seq(Item) BY Positions
    <3>2. Lists(UpTo(0)) BY <3>1, ListsEnds DEF Starting
    <3>3. QED BY <1>1, <1>7, <3>2, ListsKept
  <2>7. 1 - 1 = 0 /\ 0 \in Nat OBVIOUS
  <2>8. 1 \in 1..(Len(items) + 1) BY Positions
  <2>9. Between(at, 1)' BY <1>1, <1>7, <2>2, <2>4, <2>5, <2>6, <2>7, <2>8 DEF Between
  <2>10. QED BY <1>7, <2>9
<1>10. QED BY <1>8, <1>9

(* At a description the walk enters it or fails, behind the last it returns. *)
LEMMA BetweenStep ==
  ASSUME OcspUrlsAssumption, NEW at, Parses(at), NEW k, Between(at, k), WalkNext
  PROVE  /\ urls' = urls
         /\ (Failing(at)' /\ stack' = stack) \/ Inside(at, k)' \/ (Ending(at)' /\ k = Len(items) + 1)
<1>1. items' = items /\ form' = form /\ data' = data BY AllFrozen
<1>2. PICK n \in Nat : n = Len(items) BY Positions
<1>3. /\ k \in 1..(n + 1) /\ Accepted(k) /\ Lists(UpTo(k - 1)) /\ err = FALSE /\ response = "pending"
  BY <1>2 DEF Between
<1>4. PICK l \in Nat : stack = <<Activation(at[1], Len(data) - at[1]), Activation(at[k], l)>>
  BY DEF Between
<1>5. PICK first : first = Activation(at[1], Len(data) - at[1]) OBVIOUS
<1>6. Top = Activation(at[k], l) /\ stack # <<>> /\ Front(stack) = <<first>>
  BY <1>4, <1>5, Tops DEF Top
<1>7. Top.asn1 = at[k] BY <1>6 DEF Activation
<1>8. k \in 1..n \/ k = n + 1 BY <1>3
<1>9. CASE k = n + 1
  <2>1. data[Top.asn1] = 0 BY <1>2, <1>7, <1>9 DEF Parses
  <2>2. LeaveSequence BY <1>3, <1>6, <2>1, NextByByte, Tags
  <2>3. Return /\ urls' = urls /\ err' = FALSE /\ response' = "pending"
    BY <1>3, <2>2 DEF LeaveSequence
  <2>4. PICK x \in Int, m \in Int : x = at[1] /\ m = Len(data) - at[1] /\ x + m = Len(data)
    <3>1. PICK x \in Int, d \in Int : x = at[1] /\ d = Len(data)
      <4>1. at[1] \in Nat \ {0} /\ Len(data) \in Nat BY Positions
      <4>2. QED BY <4>1
    <3>2. d - x \in Int /\ x + (d - x) = d OBVIOUS
    <3>3. QED BY <3>1, <3>2
  <2>5. stack' = <<Activation(x + m, m)>> BY <1>4, <2>3, <2>4, Returns
  <2>6. Lists(Wanted)'
    <3>1. k - 1 = n BY <1>9
    <3>2. UpTo(n) = Wanted BY <1>2, Positions, ListsEnds
    <3>3. UpTo(n)' = UpTo(n) /\ Wanted' = Wanted BY <1>1 DEF UpTo, Wanted
    <3>4. Lists(UpTo(n))' BY <1>1, <1>3, <2>3, <3>1, ListsKept
    <3>5. UpTo(n)' = Wanted' BY <3>2, <3>3
    <3>6. QED BY <3>4, <3>5 DEF Lists
  <2>7. Accepted(Len(items) + 1)' BY <1>1, <1>2, <1>3, <1>9, Frozen DEF Accepted
  <2>8. Ending(at)' BY <1>1, <2>3, <2>4, <2>5, <2>6, <2>7 DEF Ending
  <2>9. QED BY <1>2, <1>9, <2>3, <2>8
<1>10. CASE k \in 1..n /\ items[k].tag = Foreign
  <2>1. Described(items[k], at[k], at[k + 1]) BY <1>2, <1>10 DEF Parses
  <2>2. data[Top.asn1] = Foreign BY <1>7, <1>10, <2>1 DEF Described
  <2>3. Unexpected BY <1>3, <1>6, <2>2, NextByByte, Tags
  <2>4. err' = TRUE /\ urls' = urls /\ response' = "pending" /\ stack' = stack
    BY <1>3, <2>3 DEF Unexpected
  <2>5. k \in DOMAIN items BY <1>2, <1>10, Positions, LenProperties
  <2>6. Refused' BY <1>1, <1>10, <2>5 DEF Refused
  <2>7. Failing(at)' BY <1>1, <1>2, <1>4, <1>10, <2>4, <2>6 DEF Failing
  <2>8. QED BY <2>4, <2>7
<1>11. CASE k \in 1..n /\ items[k].tag # Foreign
  <2>1. Described(items[k], at[k], at[k + 1]) BY <1>2, <1>11 DEF Parses
  <2>2. data[Top.asn1] = ASN1_SEQUENCE BY <1>7, <1>11, <2>1 DEF Described
  <2>3. PICK q \in Nat \ {0} :
          /\ at[k] < q /\ q < at[k + 1]
          /\ parse_asn1_length(at[k]) = [err |-> FALSE, len |-> at[k + 1] - q, asn1 |-> q]
          /\ OidAt(q, items[k].oid, items[k].name, items[k].text)
    <3>1. k \in 1..(n + 1) BY <1>11
    <3>2. PICK a \in Nat : a = at[k] BY <1>2, <3>1, Positions
    <3>3. PICK q \in Nat \ {0} :
            /\ a + 2 <= q /\ q < at[k + 1]
            /\ parse_asn1_length(a) = [err |-> FALSE, len |-> at[k + 1] - q, asn1 |-> q]
            /\ OidAt(q, items[k].oid, items[k].name, items[k].text)
      BY <1>11, <2>1, <3>2 DEF Described
    <3>4. a < q BY <3>3
    <3>5. QED BY <3>2, <3>3, <3>4
  <2>4. EnterSequence BY <1>3, <1>6, <2>2, NextByByte, Tags
  <2>5. PICK r : r = parse_asn1_length(Top.asn1) OBVIOUS
  <2>6. r.err = FALSE /\ r.len = at[k + 1] - q /\ r.asn1 = q BY <1>7, <2>3, <2>5
  <2>7. err' = FALSE /\ urls' = urls /\ response' = "pending"
    BY <1>3, <2>4, <2>5, <2>6 DEF EnterSequence
  <2>8. stack' = <<first>> \o <<Activation(q, at[k + 1] - q), Activation(q, 0)>>
    BY <1>6, <2>4, <2>5, <2>6 DEF EnterSequence, Activation
  <2>9. stack' = <<first, Activation(q, at[k + 1] - q), Activation(q, 0)>> BY <2>8, Pushed
  <2>10. Accepted(k + 1)'
    <3>1. \A j \in 1..((k + 1) - 1) : j \in 1..(k - 1) \/ j = k BY <1>3
    <3>2. QED BY <1>1, <1>3, <1>11, <3>1 DEF Accepted
  <2>11. Lists(UpTo(k - 1))' BY <1>1, <1>3, <2>7, ListsKept
  <2>12. OidAt(q, items[k].oid, items[k].name, items[k].text)'
    <3>1. PICK i : i = items[k] OBVIOUS
    <3>2. OidAt(q, i.oid, i.name, i.text)' BY <1>1, <2>3, <3>1, Frozen
    <3>3. i = items'[k] BY <1>1, <3>1
    <3>4. QED BY <3>2, <3>3
  <2>13. Inside(at, k)'
    BY <1>1, <1>2, <1>5, <1>11, <2>3, <2>7, <2>9, <2>10, <2>11, <2>12 DEF Inside
  <2>14. QED BY <2>7, <2>13
<1>12. QED BY <1>8, <1>9, <1>10, <1>11

(* In a description the URI is appended exactly if it names a responder. *)
LEMMA InsideStep ==
  ASSUME OcspUrlsAssumption, NEW at, Parses(at), NEW k, Inside(at, k), WalkNext,
         urls \in Seq(Seq(0..(Base - 1)))
  PROVE  urls' \in Seq(Seq(0..(Base - 1))) /\ Between(at, k + 1)'
<1>1. items' = items /\ form' = form /\ data' = data BY AllFrozen
<1>2. PICK n \in Nat : n = Len(items) BY Positions
<1>3. /\ k \in 1..n /\ Accepted(k + 1) /\ Lists(UpTo(k - 1)) /\ err = FALSE /\ response = "pending"
  BY <1>2 DEF Inside
<1>4. PICK first : first = Activation(at[1], Len(data) - at[1]) OBVIOUS
<1>5. PICK q \in Nat \ {0} :
        /\ q < at[k + 1] /\ OidAt(q, items[k].oid, items[k].name, items[k].text)
        /\ stack = <<first, Activation(q, at[k + 1] - q), Activation(q, 0)>>
  BY <1>4 DEF Inside
<1>6. Top = Activation(q, 0) /\ stack # <<>> BY <1>5, Tops DEF Top
<1>7. Top.asn1 = q BY <1>6 DEF Activation
<1>8. data[Top.asn1] = ASN1_OID BY <1>5, <1>7 DEF OidAt
<1>9. ReadOID BY <1>3, <1>6, <1>8, NextByByte, Tags
<1>10. parse_ASN1_OID(q) /\ Return /\ response' = "pending" BY <1>3, <1>7, <1>9 DEF ReadOID
<1>11. PICK i : i = items[k] OBVIOUS
<1>12. i \in Item /\ k \in DOMAIN items BY <1>2, <1>3, <1>11, Positions, ElementOfSeq, LenProperties
<1>13. PICK r, s, t \in Nat \ {0} :
         /\ s = r + Len(i.oid)
         /\ parse_asn1_length(q) = [err |-> FALSE, len |-> Len(i.oid), asn1 |-> r]
         /\ Copy(r, Len(i.oid)) = i.oid
         /\ data[s] = i.name
         /\ parse_asn1_length(s) = [err |-> FALSE, len |-> Len(i.text), asn1 |-> t]
         /\ Copy(t, Len(i.text)) = i.text
  BY <1>5, <1>11 DEF OidAt
<1>14. /\ i.oid = OCSP_OID => parse_ocsp_url(s)
       /\ i.oid # OCSP_OID => err' = FALSE /\ urls' = urls
  <2>1. PICK l : l = parse_asn1_length(q) OBVIOUS
  <2>2. l.err = FALSE /\ l.len = Len(i.oid) /\ l.asn1 = r BY <1>13, <2>1
  <2>3. (~l.err /\ l.len = Len(OCSP_OID) /\ Copy(l.asn1, l.len) = OCSP_OID) <=> i.oid = OCSP_OID
    BY <1>13, <2>2
  <2>4. l.asn1 + l.len = s BY <1>13, <2>2
  <2>5. IF ~l.err /\ l.len = Len(OCSP_OID) /\ Copy(l.asn1, l.len) = OCSP_OID
          THEN parse_ocsp_url(l.asn1 + l.len)
          ELSE err' = l.err /\ UNCHANGED urls
    BY <1>10, <2>1, Zenon DEF parse_ASN1_OID
  <2>6. QED BY <2>2, <2>3, <2>4, <2>5
<1>15. /\ i.name = ASN1_STRING /\ parse_ocsp_url(s) => err' = FALSE /\ urls' = Append(urls, i.text)
       /\ i.name # ASN1_STRING /\ parse_ocsp_url(s) => err' = FALSE /\ urls' = urls
  <2>1. PICK l : l = parse_asn1_length(s) OBVIOUS
  <2>2. l.err = FALSE /\ l.len = Len(i.text) /\ l.asn1 = t BY <1>13, <2>1
  <2>3. Copy(l.asn1, l.len) = i.text BY <1>13, <2>2
  <2>4. parse_ocsp_url(s) =>
          IF data[s] # ASN1_STRING THEN UNCHANGED <<err, urls>>
          ELSE err' = l.err /\ urls' = IF l.err THEN urls ELSE Append(urls, Copy(l.asn1, l.len))
    BY <2>1, Zenon DEF parse_ocsp_url
  <2>5. QED BY <1>3, <1>13, <2>2, <2>3, <2>4
<1>16. k \in Wanted <=> i.oid = OCSP_OID /\ i.name = ASN1_STRING BY <1>11, <1>12 DEF Wanted
<1>17. /\ err' = FALSE
       /\ k \in Wanted => urls' = Append(urls, i.text)
       /\ k \notin Wanted => urls' = urls
  BY <1>14, <1>15, <1>16
<1>18. i.text \in Seq(0..(Base - 1))
  <2>1. i.text \in Seq(1..(Base - 1)) BY <1>12, ItemParts DEF OcspUrlsAssumption
  <2>2. 1..(Base - 1) \subseteq 0..(Base - 1) BY DEF OcspUrlsAssumption
  <2>3. QED BY <2>1, <2>2, SeqMonotonic
<1>19. k \in Nat \ {0} /\ (k + 1) - 1 = k /\ k + 1 \in 1..(n + 1) BY <1>3
<1>20. urls' \in Seq(Seq(0..(Base - 1))) /\ Lists(UpTo(k))'
  <2>1. items \in Seq(Item) BY Positions
  <2>2. CASE k \in Wanted
    <3>1. urls' \in Seq(Seq(0..(Base - 1)))
      <4>1. PICK S : S = Seq(0..(Base - 1)) OBVIOUS
      <4>2. urls \in Seq(S) /\ i.text \in S BY <1>18, <4>1
      <4>3. Append(urls, i.text) \in Seq(S) BY <4>2, AppendProperties
      <4>4. QED BY <1>17, <2>2, <4>1, <4>3
    <3>2. Lists(UpTo(k))' BY <1>1, <1>3, <1>11, <1>17, <1>18, <1>19, <2>1, <2>2, ListsAppend
    <3>3. QED BY <3>1, <3>2
  <2>3. CASE k \notin Wanted
    <3>1. UpTo(k) = UpTo(k - 1) BY <1>19, <2>1, <2>3, ListsSkip
    <3>2. Lists(UpTo(k))' BY <1>1, <1>3, <1>17, <2>3, <3>1, ListsKept
    <3>3. QED BY <1>17, <2>3, <3>2
  <2>4. QED BY <2>2, <2>3
<1>21. PICK b \in Nat : b = at[k + 1] BY <1>2, <1>19, Positions
<1>22. b - q \in Nat /\ q + (b - q) = b /\ q \in Int /\ b - q \in Int
  <2>1. q < b BY <1>5, <1>21
  <2>2. QED BY <2>1
<1>23. stack' = <<first, Activation(at[k + 1], b - q)>>
  <2>1. stack = <<first, Activation(q, b - q), Activation(q, 0)>> BY <1>5, <1>21
  <2>2. stack' = <<first, Activation(q + (b - q), b - q)>> BY <1>10, <1>22, <2>1, Returns
  <2>3. QED BY <1>21, <1>22, <2>2
<1>24. Accepted(k + 1)' BY <1>1, <1>3, Frozen
<1>25. Between(at, k + 1)'
  BY <1>1, <1>2, <1>4, <1>10, <1>17, <1>19, <1>20, <1>22, <1>23, <1>24 DEF Between
<1>26. QED BY <1>20, <1>25

(* Behind the extension the first activation returns. *)
LEMMA EndingStep ==
  ASSUME OcspUrlsAssumption, NEW at, Parses(at), Ending(at), WalkNext
  PROVE  urls' = urls /\ Ended' /\ err' = err /\ response' = response
<1>1. items' = items /\ form' = form /\ data' = data BY AllFrozen
<1>2. PICK n \in Nat : n = Len(items) BY Positions
<1>3. Top = Activation(Len(data), Len(data) - at[1]) /\ stack # <<>> /\ err = FALSE
  BY Tops DEF Ending, Top
<1>4. data[Top.asn1] = 0 BY <1>3 DEF Parses, Activation
<1>5. LeaveSequence BY <1>3, <1>4, NextByByte, Tags
<1>6. Return /\ urls' = urls /\ err' = FALSE /\ response' = "pending"
  BY <1>3, <1>5 DEF LeaveSequence, Ending
<1>7. stack' = <<>> BY <1>6, Returns DEF Ending
<1>8. ~Refused'
  <2>1. DOMAIN items = 1..n /\ (n + 1) - 1 = n BY <1>2, Positions, LenProperties
  <2>2. ~Refused BY <1>2, <2>1 DEF Ending, Accepted, Refused
  <2>3. QED BY <1>1, <2>2 DEF Refused
<1>9. Lists(Wanted)' BY <1>1, <1>6 DEF Ending, Lists, Wanted
<1>10. QED BY <1>3, <1>6, <1>7, <1>8, <1>9 DEF Ended, Ending

(* An error is handed on until no activation is left. *)
LEMMA FailingStep ==
  ASSUME OcspUrlsAssumption, NEW at, Parses(at), Failing(at), WalkNext
  PROVE  /\ urls' = urls /\ err' = err /\ response' = response
         /\ \/ Ended' /\ \E a : stack = <<a>>
            \/ Failing(at)' /\ Len(stack) = 2 /\ stack' = <<Activation(Len(data), Len(data) - at[1])>>
<1>1. items' = items /\ form' = form /\ data' = data BY AllFrozen
<1>2. Refused' BY <1>1, Frozen DEF Failing
<1>3. stack # <<>> /\ err = TRUE /\ response = "pending"
  <2>1. \A a, b : <<a>> # <<>> /\ <<a, b>> # <<>> OBVIOUS
  <2>2. QED BY <2>1, Zenon DEF Failing
<1>4. LeaveSequence
  BY <1>3 DEF WalkNext, EnterSequence, ReadOID, Unexpected, decode_OCSP_url, Running, Turn
<1>5. Return /\ urls' = urls /\ err' = TRUE /\ response' = "pending" BY <1>3, <1>4 DEF LeaveSequence
<1>6. CASE \E a : stack = <<a>>
  <2>1. stack' = <<>> BY <1>5, <1>6, Returns
  <2>2. QED BY <1>2, <1>3, <1>5, <1>6, <2>1 DEF Ended
<1>7. CASE \E k \in 1..Len(items), l \in Nat :
             stack = <<Activation(at[1], Len(data) - at[1]), Activation(at[k], l)>>
  <2>1. PICK x \in Int, d \in Int : x = at[1] /\ d = Len(data)
    <3>1. at[1] \in Nat \ {0} /\ Len(data) \in Nat BY Positions
    <3>2. QED BY <3>1
  <2>2. d - x \in Int /\ x + (d - x) = d OBVIOUS
  <2>3. PICK b : stack = <<Activation(x, d - x), b>> BY <1>7, <2>1
  <2>4. stack' = <<Activation(x + (d - x), d - x)>> BY <1>5, <2>2, <2>3, Returns
  <2>5. stack' = <<Activation(Len(data), Len(data) - at[1])>> BY <2>1, <2>2, <2>4
  <2>6. QED BY <1>1, <1>2, <1>3, <1>5, <2>3, <2>5 DEF Failing
<1>8. QED BY <1>6, <1>7 DEF Failing

(* The result is NULL exactly if the extension was refused or names nobody. *)
LEMMA EndedStep ==
  ASSUME OcspUrlsAssumption, NEW at, Parses(at), Ended, WalkNext,
         urls \in Seq(Seq(0..(Base - 1)))
  PROVE  /\ urls' = urls /\ Ended' /\ err' = err
         /\ response = "pending" /\ response' # "pending"
<1>1. items' = items /\ form' = form /\ data' = data BY AllFrozen
<1>2. stack = <<>> BY DEF Ended
<1>3. decode_OCSP_url
  BY <1>2 DEF WalkNext, EnterSequence, ReadOID, Unexpected, LeaveSequence, Running, Turn
<1>4. /\ stack' = <<>> /\ urls' = urls /\ err' = err /\ response = "pending"
      /\ response' = IF err \/ urls = <<>> THEN "NULL" ELSE "urls"
  BY <1>2, <1>3 DEF decode_OCSP_url
<1>5. Wanted' = Wanted /\ (Refused' <=> Refused) BY <1>1, Frozen
<1>6. CASE err = TRUE BY <1>4, <1>5, <1>6 DEF Ended
<1>7. CASE err = FALSE
  <2>1. ~Refused /\ Lists(Wanted) BY <1>7 DEF Ended
  <2>2. Lists(Wanted)' BY <1>1, <1>4, <2>1 DEF Lists, Wanted
  <2>3. (urls = <<>> => Wanted = {}) /\ (Wanted = {} => Len(urls) = 0)
    BY <2>1, Positions, ListsEnds
  <2>4. CASE urls = <<>> BY <1>4, <1>5, <1>7, <2>1, <2>2, <2>3, <2>4 DEF Ended
  <2>5. CASE urls # <<>> 
    <3>1. Wanted # {} BY <2>3, <2>5, EmptySeq
    <3>2. QED BY <1>4, <1>5, <1>7, <2>1, <2>2, <2>5, <3>1 DEF Ended
  <2>6. QED BY <2>4, <2>5
<1>8. QED BY <1>6, <1>7 DEF Ended

(* Every step on an encoding keeps EncodedInv. *)
LEMMA EncodedStep == ASSUME EncodedInv, WalkNext PROVE EncodedInv'
<1> USE OcspUrlsAssumption
<1>1. urls \in Seq(Seq(0..(Base - 1))) BY DEF EncodedInv
<1>2. PICK at : Parses(at) /\ Walk(at) BY DEF EncodedInv
<1>3. Parses(at)' BY <1>2, AllFrozen, Frozen
<1>4. PICK n \in Nat : n = Len(items) /\ n = Len(items') BY <1>2, Positions, AllFrozen
<1>5. CASE Starting
  <2>1. urls' = urls /\ (Failing(at)' \/ Between(at, 1)') BY <1>2, <1>5, StartingStep
  <2>2. 1 \in 1..(n + 1) OBVIOUS
  <2>3. Walk(at)' BY <1>4, <2>1, <2>2 DEF Walk
  <2>4. QED BY <1>1, <1>3, <2>1, <2>3 DEF EncodedInv
<1>6. CASE \E k \in 1..(n + 1) : Between(at, k)
  <2>1. PICK k \in 1..(n + 1) : Between(at, k) BY <1>6
  <2>2. urls' = urls /\ (Failing(at)' \/ Inside(at, k)' \/ Ending(at)') BY <1>2, <2>1, BetweenStep
  <2>3. Walk(at)' BY <1>4, <2>2 DEF Walk
  <2>4. QED BY <1>1, <1>3, <2>2, <2>3 DEF EncodedInv
<1>7. CASE \E k \in 1..(n + 1) : Inside(at, k)
  <2>1. PICK k \in 1..(n + 1) : Inside(at, k) BY <1>7
  <2>2. urls' \in Seq(Seq(0..(Base - 1))) /\ Between(at, k + 1)' BY <1>1, <1>2, <2>1, InsideStep
  <2>3. k + 1 \in 1..(n + 1)
    <3>1. k \in 1..n BY <1>4, <2>1 DEF Inside
    <3>2. QED BY <3>1
  <2>4. Walk(at)' BY <1>4, <2>2, <2>3 DEF Walk
  <2>5. QED BY <1>3, <2>2, <2>4 DEF EncodedInv
<1>8. CASE Ending(at)
  <2>1. urls' = urls /\ Ended' BY <1>2, <1>8, EndingStep
  <2>2. Walk(at)' BY <2>1 DEF Walk
  <2>3. QED BY <1>1, <1>3, <2>1, <2>2 DEF EncodedInv
<1>9. CASE Failing(at)
  <2>1. urls' = urls /\ (Failing(at)' \/ Ended') BY <1>2, <1>9, FailingStep
  <2>2. Walk(at)' BY <2>1 DEF Walk
  <2>3. QED BY <1>1, <1>3, <2>1, <2>2 DEF EncodedInv
<1>10. CASE Ended
  <2>1. urls' = urls /\ Ended' BY <1>1, <1>2, <1>10, EndedStep
  <2>2. Walk(at)' BY <2>1 DEF Walk
  <2>3. QED BY <1>1, <1>3, <2>1, <2>2 DEF EncodedInv
<1>11. QED BY <1>2, <1>4, <1>5, <1>6, <1>7, <1>8, <1>9, <1>10 DEF Walk

LEMMA EncodedStutter == ASSUME EncodedInv, UNCHANGED urlVars PROVE EncodedInv'
<1>1. /\ items' = items /\ form' = form /\ data' = data /\ stack' = stack
      /\ err' = err /\ urls' = urls /\ response' = response
  BY DEF urlVars
<1>2. PICK at : Parses(at) /\ Walk(at) BY DEF EncodedInv
<1>3. Parses(at)' BY <1>1, <1>2, Frozen
<1>4. Walk(at)'
  <2>1. \A K : Lists(K)' <=> Lists(K) BY <1>1 DEF Lists
  <2>2. \A k : UpTo(k)' = UpTo(k) BY <1>1 DEF UpTo, Wanted
  <2>3. \A k : Lists(UpTo(k)) => Lists(UpTo(k))' BY <1>1, ListsKept
  <2>4. Wanted' = Wanted /\ (Refused' <=> Refused) BY <1>1, Frozen
  <2>5. Lists(Wanted) => Lists(Wanted)' BY <1>1 DEF Lists, Wanted
  <2>6. Starting => Starting' BY <1>1 DEF Starting
  <2>7. Ending(at) => Ending(at)' BY <1>1, <2>5 DEF Ending, Accepted
  <2>8. Failing(at) => Failing(at)' BY <1>1, <2>4 DEF Failing
  <2>9. Ended => Ended' BY <1>1, <2>4, <2>5 DEF Ended
  <2>10. \A k : Between(at, k) => Between(at, k)' BY <1>1, <2>3 DEF Between, Accepted
  <2>11. ASSUME NEW k, Inside(at, k) PROVE Inside(at, k)'
    <3>1. PICK i : i = items[k] OBVIOUS
    <3>2. i = items'[k] BY <1>1, <3>1
    <3>3. \A q : OidAt(q, i.oid, i.name, i.text) => OidAt(q, i.oid, i.name, i.text)' BY <1>1, Frozen
    <3>4. \A q : OidAt(q, items[k].oid, items[k].name, items[k].text) =>
                   OidAt(q, items[k].oid, items[k].name, items[k].text)'
      BY <3>1, <3>2, <3>3
    <3>5. QED BY <1>1, <2>3, <2>11, <3>4 DEF Inside, Accepted
  <2>12. Len(items') = Len(items) BY <1>1
  <2>13. QED BY <1>2, <2>6, <2>7, <2>8, <2>9, <2>10, <2>11, <2>12 DEF Walk
<1>5. QED BY <1>1, <1>3, <1>4 DEF EncodedInv

-----------------------------------------------------------------------------
(* The walk stays in the copy of an encoding *)

(* Where the data of a length starts tells that its bytes are in the copy. *)
LEMMA LengthIsInside ==
  ASSUME OcspUrlsAssumption, data \in Seq(Int), NEW p \in Nat \ {0}, NEW q \in Nat, NEW n,
         parse_asn1_length(p) = [err |-> FALSE, len |-> n, asn1 |-> q],
         p + 2 <= q, q <= Len(data) + 1
  PROVE  LengthInside(p)
<1>1. HighBit \in Nat /\ Len(data) \in Nat BY LenProperties DEF OcspUrlsAssumption
<1>2. p + 1 <= Len(data) BY <1>1
<1>3. PICK f \in Int : f = data[p + 1]
  <2>1. p + 1 \in 1..Len(data) BY <1>1, <1>2
  <2>2. QED BY <2>1, ElementOfSeq
<1>4. ASSUME f - HighBit \in 1..3 PROVE p + 1 + (f - HighBit) <= Len(data)
  <2>1. PICK i \in 1..3 : i = f - HighBit BY <1>4
  <2>2. f = HighBit + i BY <1>1, <2>1
  <2>3. parse_asn1_length(p) = [err |-> FALSE, len |-> Bytes(p + 2, i), asn1 |-> p + 2 + i]
    BY <1>1, <1>3, <2>2, LongLength
  <2>4. q = p + 2 + i BY <2>3
  <2>5. QED BY <1>1, <2>1, <2>4
<1>5. QED BY <1>2, <1>3, <1>4 DEF LengthInside

(* A refused length is refused by its first byte. *)
LEMMA RefusedIsInside ==
  ASSUME OcspUrlsAssumption, data \in Seq(Int), NEW p \in Nat \ {0}, p + 1 <= Len(data),
         parse_asn1_length(p).err = TRUE
  PROVE  LengthInside(p)
<1>1. HighBit \in Nat BY DEF OcspUrlsAssumption
<1>2. ASSUME data[p + 1] - HighBit \in 1..3 PROVE FALSE
  <2>1. PICK i \in 1..3 : i = data[p + 1] - HighBit BY <1>2
  <2>2. data[p + 1] = HighBit + i
    <3>1. Len(data) \in Nat BY LenProperties
    <3>2. p + 1 \in 1..Len(data) BY <3>1
    <3>3. data[p + 1] \in Int BY <3>2, ElementOfSeq
    <3>4. QED BY <1>1, <2>1, <3>3
  <2>3. parse_asn1_length(p) = [err |-> FALSE, len |-> Bytes(p + 2, i), asn1 |-> p + 2 + i]
    BY <1>1, <2>2, LongLength
  <2>4. QED BY <2>3
<1>3. QED BY <1>2 DEF LengthInside

(* The OID of a description, and the name behind it, are in the copy. *)
LEMMA OidIsInside ==
  ASSUME OcspUrlsAssumption, data \in Seq(Int), NEW q \in Nat \ {0}, NEW i \in Item,
         OidAt(q, i.oid, i.name, i.text)
  PROVE  OIDInside(q)
<1>1. PICK r, s, t \in Nat \ {0} :
        /\ s = r + Len(i.oid) /\ q + 2 <= r /\ s <= Len(data)
        /\ s + 2 <= t /\ t + Len(i.text) <= Len(data) + 1
        /\ parse_asn1_length(q) = [err |-> FALSE, len |-> Len(i.oid), asn1 |-> r]
        /\ parse_asn1_length(s) = [err |-> FALSE, len |-> Len(i.text), asn1 |-> t]
  BY DEF OidAt
<1>2. PICK m \in Nat, n \in Nat, d \in Nat : m = Len(i.oid) /\ n = Len(i.text) /\ d = Len(data)
  BY ItemParts, LenProperties
<1>3. r <= d + 1 /\ t <= d + 1 /\ r + m <= d + 1 /\ t + n <= d + 1
  <2>1. s = r + m /\ s <= d /\ t + n <= d + 1 BY <1>1, <1>2
  <2>2. QED BY <2>1
<1>4. LengthInside(q) BY <1>1, <1>2, <1>3, LengthIsInside
<1>5. LengthInside(s) BY <1>1, <1>2, <1>3, LengthIsInside
<1>6. ContentInside(q) /\ ContentInside(s) BY <1>1, <1>2, <1>3 DEF ContentInside
<1>7. NameInside(s) BY <1>1, <1>5, <1>6 DEF NameInside
<1>8. parse_asn1_length(q).asn1 + parse_asn1_length(q).len = s BY <1>1
<1>9. QED BY <1>4, <1>6, <1>7, <1>8 DEF OIDInside

(* On an encoding every turn of the loop reads inside the copy. *)
LEMMA TurnsInside ==
  ASSUME OcspUrlsAssumption, NEW at, Parses(at), Walk(at), Running, ~err
  PROVE  TurnInside
<1>1. PICK d \in Nat : d = Len(data) BY Positions
<1>2. data \in Seq(Int) BY DEF Parses
<1>3. /\ items \in Seq(Item) /\ Len(items) \in Nat /\ 1 \in 1..(Len(items) + 1)
      /\ \A k \in 1..(Len(items) + 1) : at[k] \in Nat \ {0} /\ 3 <= at[k] /\ at[k] <= d
  BY <1>1, Positions
<1>4. CASE Starting
  <2>1. Top.asn1 = 1 BY <1>4, Tops DEF Starting, Top, Activation
  <2>2. PICK x \in Nat : x = at[1] /\ 3 <= x /\ x <= d BY <1>3
  <2>3. LengthInside(1)
    <3>1. CASE form \in {"four_bytes", "indefinite"}
      <4>1. parse_asn1_length(1).err = TRUE /\ 1 + 1 <= Len(data) BY <1>1, <2>2, <3>1 DEF Parses
      <4>2. 1 \in Nat \ {0} OBVIOUS
      <4>3. QED BY <1>2, <4>1, <4>2, RefusedIsInside
    <3>2. CASE form \notin {"four_bytes", "indefinite"}
      <4>1. parse_asn1_length(1) = [err |-> FALSE, len |-> Len(data) - at[1], asn1 |-> x]
        BY <2>2, <3>2 DEF Parses
      <4>2. 1 + 2 <= x /\ x <= Len(data) + 1 BY <1>1, <2>2
      <4>3. QED BY <1>2, <4>1, <4>2, LengthIsInside
    <3>3. QED BY <3>1, <3>2
  <2>4. data[1] = ASN1_SEQUENCE /\ 1 <= Len(data) BY <1>1, <2>2 DEF Parses
  <2>5. QED BY <2>1, <2>3, <2>4, Tags DEF TurnInside
<1>5. CASE Ending(at)
  <2>1. Top.asn1 = d BY <1>1, <1>5, Tops DEF Ending, Top, Activation
  <2>2. data[d] = 0 BY <1>1 DEF Parses
  <2>3. QED BY <1>1, <2>1, <2>2, Tags DEF TurnInside
<1>6. ASSUME NEW k, Between(at, k) PROVE TurnInside
  <2>1. k \in 1..(Len(items) + 1) BY <1>6 DEF Between
  <2>2. Top.asn1 = at[k] BY <1>6, Tops DEF Between, Top, Activation
  <2>3. PICK a \in Nat \ {0} : a = at[k] /\ a <= d BY <1>3, <2>1
  <2>4. CASE k = Len(items) + 1
    <3>1. data[a] = 0 BY <2>3, <2>4 DEF Parses
    <3>2. QED BY <1>1, <2>2, <2>3, <3>1, Tags DEF TurnInside
  <2>5. CASE k # Len(items) + 1
    <3>1. k \in 1..Len(items) /\ k + 1 \in 1..(Len(items) + 1) BY <1>3, <2>1, <2>5
    <3>2. PICK b \in Nat : b = at[k + 1] /\ b <= d BY <1>3, <3>1
    <3>3. Described(items[k], a, b) BY <2>3, <3>1, <3>2 DEF Parses
    <3>4. CASE items[k].tag = Foreign
      <4>1. data[a] = Foreign BY <3>3, <3>4 DEF Described
      <4>2. QED BY <1>1, <2>2, <2>3, <4>1, Tags DEF TurnInside
    <3>5. CASE items[k].tag # Foreign
      <4>1. data[a] = ASN1_SEQUENCE BY <3>3, <3>5 DEF Described
      <4>2. PICK q \in Nat \ {0} :
              /\ a + 2 <= q /\ q < b
              /\ parse_asn1_length(a) = [err |-> FALSE, len |-> b - q, asn1 |-> q]
        BY <3>3, <3>5 DEF Described
      <4>3. q <= Len(data) + 1 BY <1>1, <3>2, <4>2
      <4>4. LengthInside(a) BY <1>2, <4>2, <4>3, LengthIsInside
      <4>5. QED BY <1>1, <2>2, <2>3, <4>1, <4>4, Tags DEF TurnInside
    <3>6. QED BY <3>4, <3>5
  <2>6. QED BY <2>4, <2>5
<1>7. ASSUME NEW k, Inside(at, k) PROVE TurnInside
  <2>1. k \in 1..Len(items) BY <1>7 DEF Inside
  <2>2. k + 1 \in 1..(Len(items) + 1) BY <1>3, <2>1
  <2>3. PICK b \in Nat : b = at[k + 1] /\ b <= d BY <1>3, <2>2
  <2>4. PICK i \in Item : i = items[k] BY <1>3, <2>1, ElementOfSeq
  <2>5. PICK q \in Nat \ {0} :
          /\ q < b /\ OidAt(q, i.oid, i.name, i.text)
          /\ stack = <<Activation(at[1], Len(data) - at[1]), Activation(q, at[k + 1] - q),
                       Activation(q, 0)>>
    BY <1>7, <2>3, <2>4 DEF Inside
  <2>6. Top.asn1 = q BY <2>5, Tops DEF Top, Activation
  <2>7. OIDInside(q) BY <1>2, <2>5, OidIsInside
  <2>8. data[q] = ASN1_OID /\ q <= Len(data) BY <1>1, <2>3, <2>5 DEF OidAt
  <2>9. QED BY <2>6, <2>7, <2>8, Tags DEF TurnInside
<1>8. ~Failing(at) /\ ~Ended BY DEF Failing, Ended, Running
<1>9. QED BY <1>4, <1>5, <1>6, <1>7, <1>8 DEF Walk

LEMMA OnlyWalks == ASSUME OcspUrlsAssumption, EncodedInv, UrlNext PROVE WalkNext
<1>1. PICK at : Parses(at) /\ Walk(at) BY DEF EncodedInv
<1>2. ~ReadOutside BY <1>1, TurnsInside DEF ReadOutside
<1>3. QED BY <1>2 DEF UrlNext

-----------------------------------------------------------------------------
(* The walk of any bytes *)

(* The length that stands in bytes that are numbers is one, and the data    *)
(* starts two bytes behind the tag or later.                                *)
LEMMA LengthOfBytes ==
  ASSUME OcspUrlsAssumption, data \in Seq(0..(Base - 1)), NEW p \in Nat \ {0}, LengthInside(p),
         NEW l, l = parse_asn1_length(p)
  PROVE  /\ l.err \in BOOLEAN
         /\ ~l.err => l.len \in Nat /\ l.asn1 \in Nat /\ p + 2 <= l.asn1 /\ l.asn1 <= Len(data) + 1
<1>1. HighBit \in Nat /\ Base \in Nat \ {0} /\ Len(data) \in Nat BY LenProperties DEF OcspUrlsAssumption
<1>2. \A j \in 1..Len(data) : data[j] \in Nat
  <2>1. \A j \in 1..Len(data) : data[j] \in 0..(Base - 1) BY ElementOfSeq
  <2>2. \A x \in 0..(Base - 1) : x \in Nat BY <1>1
  <2>3. QED BY <2>1, <2>2
<1>3. p + 1 <= Len(data) BY DEF LengthInside
<1>4. PICK f \in Nat : f = data[p + 1]
  <2>1. p + 1 \in 1..Len(data) BY <1>1, <1>3
  <2>2. QED BY <1>2, <2>1
<1>5. CASE f < HighBit
  <2>1. l = [err |-> FALSE, len |-> f, asn1 |-> p + 2] BY <1>4, <1>5, ShortLength
  <2>2. p + 2 <= Len(data) + 1 BY <1>1, <1>3
  <2>3. QED BY <2>1, <2>2
<1>6. CASE ~(f < HighBit)
  <2>1. PICK i \in Nat : f = HighBit + i
    <3>1. f - HighBit \in Nat /\ f = HighBit + (f - HighBit) BY <1>1, <1>6
    <3>2. QED BY <3>1
  <2>2. CASE i = 0 \/ i > 3
    <3>1. l = [err |-> TRUE, len |-> 0, asn1 |-> p + 1] BY <1>1, <1>4, <2>1, <2>2, RefusedLength
    <3>2. QED BY <3>1
  <2>3. CASE i \in 1..3
    <3>1. l = [err |-> FALSE, len |-> Bytes(p + 2, i), asn1 |-> p + 2 + i]
      BY <1>1, <1>4, <2>1, <2>3, LongLength
    <3>2. p + 1 + i <= Len(data)
      <4>1. data[p + 1] - HighBit = i BY <1>1, <1>4, <2>1
      <4>2. QED BY <2>3, <4>1 DEF LengthInside
    <3>3. Bytes(p + 2, i) \in Nat
      <4>1. \A x, y \in Nat : (x * Base) + y \in Nat
        <5>1. \A x \in Nat : x * Base \in Nat BY <1>1
        <5>2. \A z, y \in Nat : z + y \in Nat OBVIOUS
        <5>3. QED BY <5>1, <5>2
      <4>2. CASE i = 1
        <5>1. p + 2 \in 1..Len(data) BY <1>1, <3>2, <4>2
        <5>2. QED BY <1>2, <4>2, <5>1, BytesAre
      <4>3. CASE i = 2
        <5>1. p + 2 \in 1..Len(data) /\ (p + 2) + 1 \in 1..Len(data) BY <1>1, <3>2, <4>3
        <5>2. data[p + 2] \in Nat /\ data[(p + 2) + 1] \in Nat BY <1>2, <5>1
        <5>3. Bytes(p + 2, 2) = (data[p + 2] * Base) + data[(p + 2) + 1] BY BytesAre
        <5>4. QED BY <4>1, <4>3, <5>2, <5>3
      <4>4. CASE i = 3
        <5>1. p + 2 \in 1..Len(data) /\ (p + 2) + 1 \in 1..Len(data) /\ (p + 2) + 2 \in 1..Len(data)
          BY <1>1, <3>2, <4>4
        <5>2. PICK x, y, z \in Nat : x = data[p + 2] /\ y = data[(p + 2) + 1] /\ z = data[(p + 2) + 2]
          BY <1>2, <5>1
        <5>3. Bytes(p + 2, 3) = (((x * Base) + y) * Base) + z BY <5>2, BytesAre
        <5>4. PICK w \in Nat : w = (x * Base) + y BY <4>1
        <5>5. (w * Base) + z \in Nat BY <4>1
        <5>6. QED BY <4>4, <5>3, <5>4, <5>5
      <4>5. QED BY <2>3, <4>2, <4>3, <4>4
    <3>4. p + 2 + i \in Nat /\ p + 2 <= p + 2 + i /\ p + 2 + i <= Len(data) + 1 BY <1>1, <3>2
    <3>5. QED BY <3>1, <3>3, <3>4
  <2>4. i = 0 \/ i > 3 \/ i \in 1..3 OBVIOUS
  <2>5. QED BY <2>2, <2>3, <2>4
<1>7. QED BY <1>5, <1>6

(* A part of the copy is a string of bytes. *)
LEMMA CopyOfBytes ==
  ASSUME OcspUrlsAssumption, data \in Seq(0..(Base - 1)), NEW p \in Nat \ {0}, NEW n \in Nat,
         p + n <= Len(data) + 1
  PROVE  Copy(p, n) \in Seq(0..(Base - 1))
<1>1. Len(data) \in Nat BY LenProperties
<1>2. \A j \in p..(p + n - 1) : j \in 1..Len(data) BY <1>1
<1>3. \A j \in p..(p + n - 1) : data[j] \in 0..(Base - 1) BY <1>2, ElementOfSeq
<1>4. p + n - 1 \in Int /\ p \in Int OBVIOUS
<1>5. SubSeq(data, p, p + n - 1) \in Seq(0..(Base - 1)) BY <1>3, <1>4, SubSeqProperties
<1>6. QED BY <1>5 DEF Copy

Activates == [asn1 : Nat \ {0}, len : Nat]

(* The activation on top, and those below it. *)
LEMMA BelowTop ==
  ASSUME NEW s \in Seq(Activates), s # <<>>
  PROVE  /\ Len(s) \in Nat \ {0} /\ Last(s) = s[Len(s)] /\ Last(s) \in Activates
         /\ Front(s) \in Seq(Activates) /\ Len(Front(s)) = Len(s) - 1
         /\ \A k \in 1..(Len(s) - 1) : Front(s)[k] = s[k]
<1>1. PICK n \in Nat \ {0} : n = Len(s) BY EmptySeq
<1>2. \A k \in 1..n : s[k] \in Activates BY <1>1, ElementOfSeq
<1>3. n \in 1..n /\ n - 1 \in Int /\ 1 \in Int /\ \A k \in 1..(n - 1) : k \in 1..n OBVIOUS
<1>4. PICK f : f = SubSeq(s, 1, n - 1) OBVIOUS
<1>5. /\ f \in Seq(Activates) /\ Len(f) = (IF 1 <= n - 1 THEN (n - 1) - 1 + 1 ELSE 0)
      /\ \A k \in 1..((n - 1) - 1 + 1) : f[k] = s[1 + k - 1]
  BY <1>2, <1>3, <1>4, SubSeqProperties
<1>6. Len(f) = n - 1 /\ \A k \in 1..(n - 1) : f[k] = s[k]
  <2>1. Len(f) = n - 1 BY <1>5
  <2>2. ASSUME NEW k \in 1..(n - 1) PROVE f[k] = s[k]
    <3>1. k \in 1..((n - 1) - 1 + 1) /\ 1 + k - 1 = k OBVIOUS
    <3>2. QED BY <1>5, <3>1
  <2>3. QED BY <2>1, <2>2
<1>7. Front(s) = f BY <1>1, <1>4 DEF Front
<1>8. Last(s) = s[n] BY <1>1 DEF Last
<1>9. QED BY <1>1, <1>2, <1>3, <1>5, <1>6, <1>7, <1>8

(* Call number k starts at byte 2 * k - 1 or later, each with its own tag   *)
(* and length behind it.                                                    *)
Spread(s) == \A k \in 1..Len(s) : 2 * k <= s[k].asn1 + 1

(* What holds of any bytes, up to the moment when the walk leaves them. *)
RawInv ==
  /\ form = "raw" /\ data \in Seq(0..(Base - 1)) /\ UrlTypeOK
  /\ Spread(stack) /\ 2 * (Len(stack) - 1) <= Len(data)

(* A return takes the top away and moves its caller forward. *)
LEMMA ReturnSpread ==
  ASSUME stack \in Seq(Activates), stack # <<>>, Spread(stack), Return
  PROVE  stack' \in Seq(Activates) /\ Len(stack') = Len(stack) - 1 /\ Spread(stack')
<1>1. PICK f : f = Front(stack) OBVIOUS
<1>2. PICK n \in Nat \ {0} : n = Len(stack) BY BelowTop
<1>3. f \in Seq(Activates) /\ Len(f) = n - 1 /\ \A k \in 1..(n - 1) : f[k] = stack[k]
  BY <1>1, <1>2, BelowTop
<1>4. \A k \in 1..(n - 1) : 2 * k <= f[k].asn1 + 1
  <2>1. \A k \in 1..(n - 1) : k \in 1..n OBVIOUS
  <2>2. QED BY <1>2, <1>3, <2>1 DEF Spread
<1>5. CASE f = <<>>
  <2>1. stack' = f BY <1>1, <1>5 DEF Return
  <2>2. QED BY <1>2, <1>3, <1>4, <2>1 DEF Spread
<1>6. CASE f # <<>>
  <2>1. PICK m \in Nat \ {0} : m = Len(f) /\ m = n - 1 BY <1>3, <1>6, EmptySeq
  <2>2. f[m] \in Activates BY <1>3, <2>1, ElementOfSeq
  <2>3. PICK e : e = [f[m] EXCEPT !.asn1 = f[m].asn1 + f[m].len] OBVIOUS
  <2>4. e \in Activates /\ f[m].asn1 <= e.asn1
    <3>1. PICK x \in Nat \ {0}, l \in Nat : f[m] = [asn1 |-> x, len |-> l] BY <2>2 DEF Activates
    <3>2. e = [asn1 |-> x + l, len |-> l] /\ f[m].asn1 = x BY <2>3, <3>1
    <3>3. x + l \in Nat \ {0} /\ x <= x + l OBVIOUS
    <3>4. QED BY <3>2, <3>3 DEF Activates
  <2>5. stack' = [f EXCEPT ![m] = e] BY <1>1, <1>6, <2>1, <2>3 DEF Return
  <2>6. m \in 1..Len(f) BY <2>1
  <2>7. /\ stack' \in Seq(Activates) /\ Len(stack') = m
        /\ \A k \in 1..m : stack'[k] = IF k = m THEN e ELSE f[k]
    BY <1>3, <2>1, <2>4, <2>5, <2>6, ExceptSeq
  <2>8. ASSUME NEW k \in 1..m PROVE 2 * k <= stack'[k].asn1 + 1
    <3>1. 2 * k <= f[k].asn1 + 1 BY <1>4, <2>1
    <3>2. CASE k # m BY <2>7, <3>1, <3>2
    <3>3. CASE k = m
      <4>1. stack'[k] = e BY <2>7, <3>3
      <4>2. f[m].asn1 \in Nat /\ e.asn1 \in Nat BY <2>2, <2>4 DEF Activates
      <4>3. QED BY <2>4, <3>1, <3>3, <4>1, <4>2
    <3>4. QED BY <3>2, <3>3
  <2>9. QED BY <1>2, <2>1, <2>7, <2>8 DEF Spread
<1>7. QED BY <1>5, <1>6

(* A call moves the caller behind the length and starts there. *)
LEMMA CallSpread ==
  ASSUME stack \in Seq(Activates), stack # <<>>, Spread(stack),
         NEW a \in Activates, NEW b \in Activates, a.asn1 = b.asn1, Top.asn1 + 2 <= a.asn1,
         stack' = Front(stack) \o <<a, b>>
  PROVE  /\ stack' \in Seq(Activates) /\ Len(stack') = Len(stack) + 1 /\ Spread(stack')
<1>1. PICK f : f = Front(stack) OBVIOUS
<1>2. PICK n \in Nat \ {0} : n = Len(stack) BY BelowTop
<1>3. /\ f \in Seq(Activates) /\ Len(f) = n - 1 /\ \A k \in 1..(n - 1) : f[k] = stack[k]
      /\ Top = stack[n] /\ Top \in Activates
  BY <1>1, <1>2, BelowTop DEF Top
<1>4. PICK g : g = <<a, b>> OBVIOUS
<1>5. g \in Seq(Activates) /\ Len(g) = 2 /\ g[1] = a /\ g[2] = b BY <1>4
<1>6. PICK t : t = f \o g OBVIOUS
<1>7. /\ t \in Seq(Activates) /\ Len(t) = (n - 1) + 2
      /\ \A k \in 1..((n - 1) + 2) : t[k] = IF k <= n - 1 THEN f[k] ELSE g[k - (n - 1)]
  <2>1. /\ f \o g \in Seq(Activates) /\ Len(f \o g) = Len(f) + Len(g)
        /\ \A k \in 1..(Len(f) + Len(g)) : (f \o g)[k] = IF k <= Len(f) THEN f[k] ELSE g[k - Len(f)]
    <3>1. f \in Seq(Activates) /\ g \in Seq(Activates) BY <1>3, <1>5
    <3>2. QED BY <3>1, ConcatProperties, Zenon
  <2>2. QED BY <1>3, <1>5, <1>6, <2>1
<1>8. stack' = t BY <1>1, <1>4, <1>6
<1>9. PICK x \in Nat, y \in Nat : x = Top.asn1 /\ y = a.asn1 /\ y = b.asn1 /\ x + 2 <= y
  BY <1>3 DEF Activates
<1>10. 2 * n <= x + 1
  <2>1. n \in 1..n OBVIOUS
  <2>2. 2 * n <= stack[n].asn1 + 1 BY <1>2, <2>1 DEF Spread
  <2>3. QED BY <1>3, <1>9, <2>2
<1>11. ASSUME NEW k \in 1..(n + 1) PROVE 2 * k <= t[k].asn1 + 1
  <2>1. CASE k \in 1..(n - 1)
    <3>1. t[k] = stack[k] BY <1>3, <1>7, <2>1
    <3>2. k \in 1..n BY <2>1
    <3>3. QED BY <1>2, <3>1, <3>2 DEF Spread
  <2>2. CASE k = n
    <3>1. t[k] = g[1] BY <1>7, <2>2
    <3>2. t[k].asn1 = y BY <1>5, <1>9, <3>1
    <3>3. QED BY <1>9, <1>10, <2>2, <3>2
  <2>3. CASE k = n + 1
    <3>1. t[k] = g[2] BY <1>7, <2>3
    <3>2. t[k].asn1 = y BY <1>5, <1>9, <3>1
    <3>3. QED BY <1>9, <1>10, <2>3, <3>2
  <2>4. QED BY <2>1, <2>2, <2>3
<1>12. Len(t) = n + 1 BY <1>7
<1>13. Spread(t) BY <1>11, <1>12 DEF Spread
<1>14. QED BY <1>2, <1>7, <1>8, <1>12, <1>13

(* Every step keeps RawInv: a call has two bytes of its own in the copy. *)
LEMMA RawStep ==
  ASSUME OcspUrlsAssumption, RawInv, UrlNext
  PROVE  RawInv'
<1>1. form' = form /\ data' = data
  BY AllFrozen DEF UrlNext, ReadOutside
<1>2. PICK B : B = 0..(Base - 1) OBVIOUS
<1>3. /\ stack \in Seq(Activates) /\ err \in BOOLEAN /\ urls \in Seq(Seq(B))
      /\ response \in {"pending", "NULL", "urls", "undefined"}
      /\ Spread(stack) /\ 2 * (Len(stack) - 1) <= Len(data) /\ form = "raw" /\ data \in Seq(B)
  BY <1>2 DEF RawInv, UrlTypeOK, Activates
<1>4. Len(stack) \in Nat /\ Len(data) \in Nat BY <1>3, LenProperties
<1>5. ASSUME stack' \in Seq(Activates), err' \in BOOLEAN, urls' \in Seq(Seq(B)),
             response' \in {"pending", "NULL", "urls", "undefined"},
             Spread(stack'), 2 * (Len(stack') - 1) <= Len(data)
      PROVE  RawInv'
  BY <1>1, <1>2, <1>3, <1>5 DEF RawInv, UrlTypeOK, Activates, Spread
<1>6. ASSUME stack # <<>>, Return
      PROVE  stack' \in Seq(Activates) /\ Spread(stack') /\ 2 * (Len(stack') - 1) <= Len(data)
  <2>1. stack' \in Seq(Activates) /\ Len(stack') = Len(stack) - 1 /\ Spread(stack')
    BY <1>3, <1>6, ReturnSpread
  <2>2. QED BY <1>3, <1>4, <2>1
<1>7. CASE EnterSequence
  <2>1. stack # <<>> /\ TurnInside /\ data[Top.asn1] = ASN1_SEQUENCE
    BY <1>7 DEF EnterSequence, Turn, Running
  <2>2. Top \in Activates BY <1>3, <2>1, BelowTop DEF Top
  <2>3. PICK p \in Nat \ {0} : p = Top.asn1 BY <2>2 DEF Activates
  <2>4. LengthInside(p) BY <2>1, <2>3 DEF TurnInside
  <2>5. PICK l : l = parse_asn1_length(p) OBVIOUS
  <2>6. /\ l.err \in BOOLEAN
        /\ ~l.err => l.len \in Nat /\ l.asn1 \in Nat /\ p + 2 <= l.asn1 /\ l.asn1 <= Len(data) + 1
    BY <1>2, <1>3, <2>4, <2>5, LengthOfBytes
  <2>7. /\ err' = l.err /\ urls' = urls /\ response' = response
        /\ stack' = IF l.err THEN stack
                    ELSE Front(stack) \o <<Activation(l.asn1, l.len), Activation(l.asn1, 0)>>
    BY <1>7, <2>3, <2>5 DEF EnterSequence, Activation
  <2>8. CASE l.err
    <3>1. stack' = stack BY <2>7, <2>8
    <3>2. QED BY <1>3, <1>5, <2>6, <2>7, <3>1
  <2>9. CASE ~l.err
    <3>1. PICK q \in Nat \ {0}, n \in Nat : q = l.asn1 /\ n = l.len /\ p + 2 <= q /\ q <= Len(data) + 1
      BY <2>6, <2>9
    <3>2. PICK a, b : a = Activation(q, n) /\ b = Activation(q, 0) OBVIOUS
    <3>3. a \in Activates /\ b \in Activates /\ a.asn1 = q /\ b.asn1 = q
      BY <3>2 DEF Activation, Activates
    <3>4. stack' = Front(stack) \o <<a, b>> BY <2>7, <2>9, <3>1, <3>2
    <3>5. stack' \in Seq(Activates) /\ Len(stack') = Len(stack) + 1 /\ Spread(stack')
      BY <1>3, <2>1, <2>3, <3>1, <3>3, <3>4, CallSpread
    <3>6. 2 * Len(stack) <= p + 1
      <4>1. Len(stack) \in Nat \ {0} /\ Top = stack[Len(stack)] BY <1>3, <2>1, BelowTop DEF Top
      <4>2. Len(stack) \in 1..Len(stack) BY <4>1
      <4>3. QED BY <1>3, <2>3, <4>1, <4>2 DEF Spread
    <3>7. 2 * (Len(stack') - 1) <= Len(data) BY <1>4, <3>1, <3>5, <3>6
    <3>8. QED BY <1>3, <1>5, <2>6, <2>7, <3>5, <3>7
  <2>10. QED BY <2>8, <2>9
<1>8. CASE ReadOID
  <2>1. stack # <<>> /\ TurnInside /\ data[Top.asn1] = ASN1_OID /\ Return /\ response' = response
    BY <1>8 DEF ReadOID, Turn, Running
  <2>2. Top \in Activates BY <1>3, <2>1, BelowTop DEF Top
  <2>3. PICK p \in Nat \ {0} : p = Top.asn1 BY <2>2 DEF Activates
  <2>4. OIDInside(p) BY <2>1, <2>3 DEF TurnInside
  <2>5. PICK l : l = parse_asn1_length(p) OBVIOUS
  <2>6. LengthInside(p) BY <2>4 DEF OIDInside
  <2>7. l.err \in BOOLEAN /\ (~l.err => l.len \in Nat /\ l.asn1 \in Nat /\ p + 2 <= l.asn1)
    BY <1>2, <1>3, <2>5, <2>6, LengthOfBytes
  <2>8. err' \in BOOLEAN /\ urls' \in Seq(Seq(B))
    <3>1. CASE ~l.err /\ l.len = Len(OCSP_OID) /\ Copy(l.asn1, l.len) = OCSP_OID
      <4>1. PICK q \in Nat \ {0} : q = l.asn1 + l.len BY <2>7, <3>1
      <4>2. NameInside(q) BY <2>4, <2>5, <3>1, <4>1 DEF OIDInside
      <4>3. parse_ocsp_url(q) BY <1>8, <2>3, <2>5, <3>1, <4>1 DEF ReadOID, parse_ASN1_OID
      <4>4. CASE data[q] # ASN1_STRING BY <1>3, <4>3, <4>4 DEF parse_ocsp_url
      <4>5. CASE data[q] = ASN1_STRING
        <5>1. LengthInside(q) /\ ContentInside(q) BY <4>2, <4>5 DEF NameInside
        <5>2. PICK m : m = parse_asn1_length(q) OBVIOUS
        <5>3. /\ m.err \in BOOLEAN
              /\ ~m.err => m.len \in Nat /\ m.asn1 \in Nat /\ q + 2 <= m.asn1
          BY <1>2, <1>3, <5>1, <5>2, LengthOfBytes
        <5>4. /\ err' = m.err
              /\ urls' = IF m.err THEN urls ELSE Append(urls, Copy(m.asn1, m.len))
          BY <4>3, <4>5, <5>2 DEF parse_ocsp_url
        <5>5. CASE m.err BY <1>3, <5>3, <5>4, <5>5
        <5>6. CASE ~m.err
          <6>1. PICK u \in Nat \ {0}, v \in Nat : u = m.asn1 /\ v = m.len BY <5>3, <5>6
          <6>2. u + v <= Len(data) + 1 BY <5>1, <5>2, <5>6, <6>1 DEF ContentInside
          <6>3. PICK c \in Seq(B) : c = Copy(u, v) BY <1>2, <1>3, <6>2, CopyOfBytes
          <6>4. Append(urls, c) \in Seq(Seq(B)) BY <1>3, AppendProperties
          <6>5. QED BY <5>3, <5>4, <5>6, <6>1, <6>3, <6>4
        <5>7. QED BY <5>5, <5>6
      <4>6. QED BY <4>4, <4>5
    <3>2. CASE ~(~l.err /\ l.len = Len(OCSP_OID) /\ Copy(l.asn1, l.len) = OCSP_OID)
      <4>1. err' = l.err /\ urls' = urls BY <1>8, <2>3, <2>5, <3>2 DEF ReadOID, parse_ASN1_OID
      <4>2. QED BY <1>3, <2>7, <4>1
    <3>3. QED BY <3>1, <3>2
  <2>9. QED BY <1>3, <1>5, <1>6, <2>1, <2>8
<1>9. CASE Unexpected
  <2>1. stack' = stack /\ urls' = urls /\ response' = response /\ err' = TRUE
    BY <1>9 DEF Unexpected
  <2>2. QED BY <1>3, <1>5, <2>1
<1>10. CASE LeaveSequence
  <2>1. stack # <<>> /\ Return /\ urls' = urls /\ response' = response /\ err' = err
    BY <1>10 DEF LeaveSequence, Running
  <2>2. QED BY <1>3, <1>5, <1>6, <2>1
<1>11. CASE decode_OCSP_url
  <2>1. /\ stack' = stack /\ urls' = urls /\ err' = err
        /\ response' \in {"pending", "NULL", "urls", "undefined"}
    BY <1>11 DEF decode_OCSP_url
  <2>2. QED BY <1>3, <1>5, <2>1
<1>12. CASE ReadOutside
  <2>1. stack' = <<>> /\ urls' = urls /\ response' = "undefined" /\ err' = err
    BY <1>12 DEF ReadOutside
  <2>2. stack' \in Seq(Activates) /\ Len(stack') = 0 /\ Spread(stack') BY <2>1 DEF Spread
  <2>3. 2 * (0 - 1) <= Len(data) BY <1>4
  <2>4. QED BY <1>3, <1>5, <2>1, <2>2, <2>3
<1>13. QED BY <1>7, <1>8, <1>9, <1>10, <1>11, <1>12 DEF UrlNext, WalkNext

-----------------------------------------------------------------------------
(* Encodings and any bytes together *)

UrlInv == EncodedInv \/ RawInv

(* UrlInv is an inductive invariant of the walk. *)
THEOREM UrlInvariance == UrlSpec => []UrlInv
<1> USE OcspUrlsAssumption
<1>1. UrlInit => UrlInv
  <2> SUFFICES ASSUME UrlInit PROVE UrlInv OBVIOUS
  <2>1. /\ stack = <<Activation(1, 0)>> /\ err = FALSE /\ urls = <<>> /\ response = "pending"
    BY DEF UrlInit, Activation
  <2>2. CASE Encoded
    <3>1. PICK at : Parses(at) BY <2>2, InitParses
    <3>2. Starting BY <2>1 DEF Starting
    <3>3. urls \in Seq(Seq(0..(Base - 1))) BY <2>1
    <3>4. QED BY <3>1, <3>2, <3>3 DEF UrlInv, EncodedInv, Walk
  <2>3. CASE Arbitrary
    <3>1. form = "raw" BY <2>3 DEF Arbitrary
    <3>2. data \in Seq(0..(Base - 1))
      <4>1. PICK v \in Raw : data = Append(v, 0) BY <2>3 DEF Arbitrary
      <4>2. v \in Seq(0..(Base - 1)) /\ 0 \in 0..(Base - 1) BY DEF OcspUrlsAssumption
      <4>3. QED BY <4>1, <4>2, AppendProperties
    <3>3. stack \in Seq(Activates) /\ Len(stack) = 1 /\ stack[1].asn1 = 1
      BY <2>1 DEF Activation, Activates
    <3>4. Spread(stack) /\ 2 * (Len(stack) - 1) <= Len(data)
      <4>1. Len(data) \in Nat BY <3>2, LenProperties
      <4>2. \A k \in 1..1 : k = 1 OBVIOUS
      <4>3. QED BY <3>3, <4>1, <4>2 DEF Spread
    <3>5. UrlTypeOK
      <4>1. urls \in Seq(Seq(0..(Base - 1))) BY <2>1
      <4>2. QED BY <2>1, <3>3, <4>1 DEF UrlTypeOK, Activates
    <3>6. QED BY <3>1, <3>2, <3>4, <3>5 DEF UrlInv, RawInv
  <2>4. QED BY <2>2, <2>3 DEF UrlInit
<1>2. UrlInv /\ UrlNext => UrlInv'
  <2>1. EncodedInv /\ UrlNext => WalkNext BY OnlyWalks
  <2>2. QED BY <2>1, EncodedStep, RawStep DEF UrlInv
<1>3. UrlInv /\ UNCHANGED urlVars => UrlInv'
  <2>1. RawInv /\ UNCHANGED urlVars => RawInv'
    BY DEF RawInv, UrlTypeOK, Spread, urlVars
  <2>2. QED BY <2>1, EncodedStutter DEF UrlInv
<1>4. QED BY <1>1, <1>2, <1>3, PTL DEF UrlSpec

(* What the invariant says of the activations. *)
WalkInside == ResumesInside /\ Len(stack) <= 3 /\ 2 * (Len(stack) - 1) <= Len(data)

LEMMA Activations ==
  ASSUME NEW at, Parses(at), Walk(at)
  PROVE  stack \in Seq([asn1 : Nat \ {0}, len : Nat]) /\ WalkInside
<1>1. PICK d \in Nat : d = Len(data) BY Positions
<1>2. /\ Len(items) \in Nat /\ 1 \in 1..(Len(items) + 1)
      /\ \A k \in 1..(Len(items) + 1) : at[k] \in Nat \ {0} /\ 3 <= at[k] /\ at[k] <= d /\ d - at[k] \in Nat
  BY <1>1, Positions
<1>3. PICK x \in Nat \ {0} : x = at[1] /\ 3 <= x /\ x <= d /\ d - x \in Nat BY <1>2
<1>4. PICK m \in Nat : m = d - x /\ x + m = d
  <2>1. d - x \in Nat /\ x + (d - x) = d BY <1>3
  <2>2. QED BY <2>1
<1>5. 3 <= d /\ 1 <= d /\ d \in Nat \ {0} BY <1>3
<1> DEFINE A == [asn1 : Nat \ {0}, len : Nat]
<1>6. ASSUME NEW a \in Nat \ {0}, NEW l \in Nat, a <= d, stack = <<Activation(a, l)>>
      PROVE  stack \in Seq(A) /\ WalkInside
  <2>1. Activation(a, l) \in A /\ Activation(a, l).asn1 = a BY DEF Activation
  <2>2. stack \in Seq(A) /\ Len(stack) = 1 /\ DOMAIN stack = {1} /\ stack[1].asn1 = a BY <1>6, <2>1
  <2>3. \A j \in DOMAIN stack : j = 1 /\ ~(j < Len(stack)) /\ stack[j].asn1 + 0 <= Len(data)
    BY <1>1, <1>6, <2>2
  <2>4. QED BY <1>1, <1>5, <2>2, <2>3 DEF WalkInside, ResumesInside
<1>7. ASSUME NEW a \in Nat \ {0}, NEW l \in Nat, a <= d, stack = <<Activation(x, m), Activation(a, l)>>
      PROVE  stack \in Seq(A) /\ WalkInside
  <2>1. Activation(a, l) \in A /\ Activation(x, m) \in A BY DEF Activation
  <2>2. /\ stack \in Seq(A) /\ Len(stack) = 2 /\ DOMAIN stack = 1..2
        /\ stack[1].asn1 = x /\ stack[1].len = m /\ stack[2].asn1 = a
    BY <1>7, <2>1 DEF Activation
  <2>3. \A j \in 1..2 : j = 1 \/ j = 2 OBVIOUS
  <2>4. 1 < Len(stack) /\ ~(2 < Len(stack)) /\ x + m <= Len(data) /\ a + 0 <= Len(data)
    BY <1>1, <1>4, <1>7, <2>2
  <2>5. ResumesInside BY <2>2, <2>3, <2>4 DEF ResumesInside
  <2>6. QED BY <1>1, <1>5, <2>2, <2>5 DEF WalkInside
<1>8. ASSUME NEW q \in Nat \ {0}, NEW b \in Nat, 3 < q, q < b, b <= d,
             stack = <<Activation(x, m), Activation(q, b - q), Activation(q, 0)>>
      PROVE  stack \in Seq(A) /\ WalkInside
  <2>1. PICK l \in Nat : l = b - q /\ q + l = b
    <3>1. b - q \in Nat /\ q + (b - q) = b BY <1>8
    <3>2. QED BY <3>1
  <2>2. Activation(x, m) \in A /\ Activation(q, l) \in A /\ Activation(q, 0) \in A BY DEF Activation
  <2>3. /\ stack \in Seq(A) /\ Len(stack) = 3 /\ DOMAIN stack = 1..3
        /\ stack[1].asn1 = x /\ stack[1].len = m /\ stack[2].asn1 = q /\ stack[2].len = l
        /\ stack[3].asn1 = q
    BY <1>8, <2>1, <2>2 DEF Activation
  <2>4. \A j \in 1..3 : j = 1 \/ j = 2 \/ j = 3 OBVIOUS
  <2>5. /\ 1 < Len(stack) /\ 2 < Len(stack) /\ ~(3 < Len(stack))
        /\ x + m <= Len(data) /\ q + l <= Len(data) /\ q + 0 <= Len(data)
    BY <1>1, <1>4, <1>8, <2>1, <2>3
  <2>6. ResumesInside BY <2>3, <2>4, <2>5 DEF ResumesInside
  <2>7. QED BY <1>1, <1>8, <2>3, <2>6 DEF WalkInside
<1>9. ASSUME stack = <<>> PROVE stack \in Seq(A) /\ WalkInside
  <2>1. stack \in Seq(A) /\ Len(stack) = 0 /\ DOMAIN stack = {} BY <1>9
  <2>2. QED BY <1>1, <1>5, <2>1 DEF WalkInside, ResumesInside
<1> HIDE DEF A
<1>10. CASE Starting
  <2>1. stack = <<Activation(1, 0)>> BY <1>10 DEF Starting
  <2>2. QED BY <1>5, <1>6, <2>1 DEF A
<1>11. CASE Ending(at)
  <2>1. stack = <<Activation(d, m)>> BY <1>1, <1>3, <1>4, <1>11 DEF Ending
  <2>2. QED BY <1>5, <1>6, <2>1 DEF A
<1>12. CASE Failing(at)
  <2>1. CASE stack = <<Activation(1, 0)>> BY <1>5, <1>6, <2>1 DEF A
  <2>2. CASE stack = <<Activation(Len(data), Len(data) - at[1])>>
    <3>1. stack = <<Activation(d, m)>> BY <1>1, <1>3, <1>4, <2>2
    <3>2. QED BY <1>5, <1>6, <3>1 DEF A
  <2>3. CASE \E k \in 1..Len(items), l \in Nat :
               stack = <<Activation(at[1], Len(data) - at[1]), Activation(at[k], l)>>
    <3>1. PICK k \in 1..Len(items), l \in Nat : stack = <<Activation(x, m), Activation(at[k], l)>>
      BY <1>1, <1>3, <1>4, <2>3
    <3>2. k \in 1..(Len(items) + 1) BY <1>2
    <3>3. QED BY <1>2, <1>7, <3>1, <3>2 DEF A
  <2>4. QED BY <1>12, <2>1, <2>2, <2>3 DEF Failing
<1>13. CASE Ended
  <2>1. stack = <<>> BY <1>13 DEF Ended
  <2>2. QED BY <1>9, <2>1 DEF A
<1>14. ASSUME NEW k, Between(at, k) PROVE stack \in Seq(A) /\ WalkInside
  <2>1. k \in 1..(Len(items) + 1) BY <1>14 DEF Between
  <2>2. PICK l \in Nat : stack = <<Activation(x, m), Activation(at[k], l)>>
    BY <1>1, <1>3, <1>4, <1>14 DEF Between
  <2>3. QED BY <1>2, <1>7, <2>1, <2>2 DEF A
<1>15. ASSUME NEW k, Inside(at, k) PROVE stack \in Seq(A) /\ WalkInside
  <2>1. k \in 1..Len(items) BY <1>15 DEF Inside
  <2>2. k + 1 \in 1..(Len(items) + 1) BY <1>2, <2>1
  <2>3. PICK b \in Nat : b = at[k + 1] /\ b <= d BY <1>2, <2>2
  <2>4. PICK q \in Nat \ {0} :
          /\ at[k] < q /\ q < b
          /\ stack = <<Activation(x, m), Activation(q, b - q), Activation(q, 0)>>
    BY <1>1, <1>3, <1>4, <1>15, <2>3 DEF Inside
  <2>5. 3 < q
    <3>1. k \in 1..(Len(items) + 1) BY <1>2, <2>1
    <3>2. PICK y \in Nat : y = at[k] /\ 3 <= y BY <1>2, <3>1
    <3>3. QED BY <2>4, <3>2
  <2>6. QED BY <1>8, <2>3, <2>4, <2>5 DEF A
<1>16. QED BY <1>10, <1>11, <1>12, <1>13, <1>14, <1>15 DEF Walk, A

(* What EncodedInv says of the walk. *)
LEMMA EncodedImplies ==
  ASSUME EncodedInv
  PROVE  /\ UrlTypeOK /\ WalkInside /\ DecodesUrls
         /\ form # "raw" /\ response # "undefined"
<1>1. PICK at : Parses(at) /\ Walk(at) BY DEF EncodedInv
<1>2. stack \in Seq([asn1 : Nat \ {0}, len : Nat]) /\ WalkInside BY <1>1, Activations
<1>3. /\ err \in BOOLEAN /\ response \in {"pending", "NULL", "urls"}
      /\ response # "pending" => Ended
  BY <1>1 DEF Walk, Starting, Ending, Failing, Ended, Between, Inside
<1>4. UrlTypeOK BY <1>2, <1>3 DEF EncodedInv, UrlTypeOK
<1>5. DecodesUrls BY <1>3 DEF DecodesUrls, Ended
<1>6. form # "raw" BY <1>1 DEF Parses, Form
<1>7. QED BY <1>2, <1>3, <1>4, <1>5, <1>6

(* The properties follow from the invariant. *)
LEMMA UrlInvImplies ==
  ASSUME UrlInv
  PROVE  UrlTypeOK /\ WalkBounded /\ DecodesUrls
<1>1. CASE EncodedInv BY <1>1, EncodedImplies DEF WalkInside, WalkBounded
<1>2. CASE RawInv BY <1>2 DEF RawInv, WalkBounded, DecodesUrls
<1>3. QED BY <1>1, <1>2 DEF UrlInv

-----------------------------------------------------------------------------
(* The walk ends *)

(* What the walk still has to do: the bytes behind the top activation, the *)
(* activations that have to return, an error to be found and the result.   *)
Ahead(s, d) == IF s = <<>> THEN 0 ELSE (2 * (d - Last(s).asn1)) + Len(s)
WalkLeft == Ahead(stack, Len(data)) + (IF err THEN 0 ELSE 1) + (IF response = "pending" THEN 1 ELSE 0)

LEMMA AheadNone == ASSUME NEW d, NEW s, s = <<>> PROVE Ahead(s, d) = 0
BY DEF Ahead

LEMMA AheadOne ==
  ASSUME NEW d, NEW s, NEW a, NEW l, s = <<Activation(a, l)>>
  PROVE  Ahead(s, d) = (2 * (d - a)) + 1
<1>1. Last(s) = Activation(a, l) BY Tops
<1>2. Last(s).asn1 = a /\ Len(s) = 1 /\ s # <<>> BY <1>1 DEF Activation
<1>3. QED BY <1>2 DEF Ahead

LEMMA AheadTwo ==
  ASSUME NEW d, NEW s, NEW a, NEW l, NEW b, s = <<b, Activation(a, l)>>
  PROVE  Ahead(s, d) = (2 * (d - a)) + 2
<1>1. Last(s) = Activation(a, l) BY Tops
<1>2. Last(s).asn1 = a /\ Len(s) = 2 /\ s # <<>> BY <1>1 DEF Activation
<1>3. QED BY <1>2 DEF Ahead

LEMMA AheadThree ==
  ASSUME NEW d, NEW s, NEW a, NEW l, NEW b, NEW c, s = <<b, c, Activation(a, l)>>
  PROVE  Ahead(s, d) = (2 * (d - a)) + 3
<1>1. Last(s) = Activation(a, l) BY Tops
<1>2. Last(s).asn1 = a /\ Len(s) = 3 /\ s # <<>> BY <1>1 DEF Activation
<1>3. QED BY <1>2 DEF Ahead

(* Every activation on top is in the copy, so the rest is a number. *)
LEMMA WalkLeftBounded ==
  ASSUME EncodedInv
  PROVE  WalkLeft \in 0..((2 * Len(data)) + 3)
<1>1. PICK at : Parses(at) /\ Walk(at) BY DEF EncodedInv
<1>2. PICK d \in Nat : d = Len(data) BY <1>1, Positions
<1>3. UrlTypeOK /\ WalkInside BY EncodedImplies
<1>4. Ahead(stack, d) \in 0..((2 * d) + 1)
  <2>1. CASE stack = <<>> BY <2>1 DEF Ahead
  <2>2. CASE stack # <<>>
    <3>1. PICK n \in Nat : n = Len(stack) /\ n \in 1..3 /\ n \in DOMAIN stack
      <4>1. stack \in Seq([asn1 : Nat \ {0}, len : Nat]) BY <1>3 DEF UrlTypeOK
      <4>2. Len(stack) \in Nat \ {0} BY <2>2, <4>1, EmptySeq
      <4>3. Len(stack) <= 3 BY <1>3 DEF WalkInside
      <4>4. DOMAIN stack = 1..Len(stack) BY <4>1, LenProperties
      <4>5. PICK n \in Nat \ {0} : n = Len(stack) BY <4>2
      <4>6. n \in 1..3 /\ n \in 1..n BY <4>3, <4>5
      <4>7. QED BY <4>4, <4>5, <4>6
    <3>2. PICK a \in Nat \ {0} : a = Last(stack).asn1 /\ a = stack[n].asn1
      <4>1. stack[n] \in [asn1 : Nat \ {0}, len : Nat]
        <5>1. PICK A : A = [asn1 : Nat \ {0}, len : Nat] OBVIOUS
        <5>2. stack \in Seq(A) BY <1>3, <5>1 DEF UrlTypeOK
        <5>3. n \in 1..Len(stack) BY <3>1, <5>2, LenProperties
        <5>4. stack[n] \in A BY <5>2, <5>3, ElementOfSeq, Zenon
        <5>5. QED BY <5>1, <5>4
      <4>2. QED BY <3>1, <4>1 DEF Last
    <3>3. a <= d
      <4>1. stack[n].asn1 + 0 <= Len(data) BY <1>3, <3>1 DEF WalkInside, ResumesInside
      <4>2. QED BY <1>2, <3>2, <4>1
    <3>4. Ahead(stack, d) = (2 * (d - a)) + n BY <2>2, <3>1, <3>2 DEF Ahead
    <3>5. (2 * (d - a)) + n \in 0..((2 * d) + 1) BY <3>1, <3>3
    <3>6. QED BY <3>4, <3>5
  <2>3. QED BY <2>1, <2>2
<1>5. QED BY <1>2, <1>4 DEF WalkLeft

(* Every step leaves less to do. *)
LEMMA WalkShrinks ==
  ASSUME EncodedInv, WalkNext
  PROVE  WalkLeft' < WalkLeft
<1> USE OcspUrlsAssumption
<1>1. PICK at : Parses(at) /\ Walk(at) BY DEF EncodedInv
<1>2. items' = items /\ data' = data BY AllFrozen
<1>3. PICK d \in Nat : d = Len(data) /\ d = Len(data') BY <1>1, <1>2, Positions
<1>4. PICK n \in Nat : n = Len(items) /\ n = Len(items') BY <1>1, <1>2, Positions
<1>5. \A k \in 1..(n + 1) : at[k] \in Nat /\ 1 < at[k] /\ at[k] <= d BY <1>1, <1>3, <1>4, Positions
<1>6. /\ WalkLeft = Ahead(stack, d) + (IF err THEN 0 ELSE 1) + (IF response = "pending" THEN 1 ELSE 0)
      /\ WalkLeft' = Ahead(stack', d) + (IF err' THEN 0 ELSE 1)
                        + (IF response' = "pending" THEN 1 ELSE 0)
  BY <1>3 DEF WalkLeft
<1>7. urls \in Seq(Seq(0..(Base - 1))) BY DEF EncodedInv
<1>8. CASE Starting
  <2>1. /\ stack = <<Activation(1, 0)>> /\ err = FALSE /\ response = "pending"
        /\ (Failing(at)' /\ stack' = stack) \/ Between(at, 1)'
    BY <1>1, <1>8, StartingStep DEF Starting
  <2>2. Ahead(stack, d) = (2 * (d - 1)) + 1 BY <2>1, AheadOne
  <2>3. CASE Failing(at)' /\ stack' = stack
    <3>1. err' = TRUE /\ response' = "pending" BY <2>3 DEF Failing
    <3>2. QED BY <1>6, <2>1, <2>2, <2>3, <3>1
  <2>4. CASE Between(at, 1)'
    <3>1. err' = FALSE /\ response' = "pending" BY <2>4 DEF Between
    <3>2. 1 \in 1..(n + 1) OBVIOUS
    <3>3. PICK a \in Nat : a = at[1] /\ 1 < a BY <1>5, <3>2
    <3>4. PICK b, l : stack' = <<b, Activation(a, l)>> BY <2>4, <3>3 DEF Between
    <3>5. Ahead(stack', d) = (2 * (d - a)) + 2 BY <3>4, AheadTwo
    <3>6. Ahead(stack', d) < Ahead(stack, d) /\ Ahead(stack', d) \in Int /\ Ahead(stack, d) \in Int
      BY <2>2, <3>3, <3>5
    <3>7. QED BY <1>6, <2>1, <3>1, <3>6
  <2>5. QED BY <2>1, <2>3, <2>4
<1>9. ASSUME NEW k \in 1..(n + 1), Between(at, k) PROVE WalkLeft' < WalkLeft
  <2>1. PICK a \in Nat : a = at[k] /\ a <= d BY <1>5
  <2>2. err = FALSE /\ response = "pending" BY <1>9 DEF Between
  <2>3. PICK b, l : stack = <<b, Activation(a, l)>> BY <1>9, <2>1 DEF Between
  <2>4. Ahead(stack, d) = (2 * (d - a)) + 2 BY <2>3, AheadTwo
  <2>5. (Failing(at)' /\ stack' = stack) \/ Inside(at, k)' \/ (Ending(at)' /\ k = n + 1)
    BY <1>1, <1>4, <1>9, BetweenStep
  <2>6. CASE Failing(at)' /\ stack' = stack
    <3>1. err' = TRUE /\ response' = "pending" BY <2>6 DEF Failing
    <3>2. QED BY <1>6, <2>2, <2>4, <2>6, <3>1
  <2>7. CASE Inside(at, k)'
    <3>1. err' = FALSE /\ response' = "pending" BY <2>7 DEF Inside
    <3>2. PICK q \in Nat : a < q /\ \E x, y : stack' = <<x, y, Activation(q, 0)>>
      BY <2>1, <2>7 DEF Inside
    <3>3. Ahead(stack', d) = (2 * (d - q)) + 3 BY <3>2, AheadThree
    <3>4. Ahead(stack', d) < Ahead(stack, d) /\ Ahead(stack', d) \in Int /\ Ahead(stack, d) \in Int
      BY <2>4, <3>2, <3>3
    <3>5. QED BY <1>6, <2>2, <3>1, <3>4
  <2>8. CASE Ending(at)' /\ k = n + 1
    <3>1. err' = FALSE /\ response' = "pending" BY <2>8 DEF Ending
    <3>2. a = d BY <1>1, <1>3, <1>4, <2>1, <2>8 DEF Parses
    <3>3. \E l2 : stack' = <<Activation(d, l2)>> BY <1>3, <2>8 DEF Ending
    <3>4. Ahead(stack', d) = (2 * (d - d)) + 1 BY <3>3, AheadOne
    <3>5. Ahead(stack', d) = 1 /\ Ahead(stack, d) = 2 BY <2>4, <3>2, <3>4
    <3>6. QED BY <1>6, <2>2, <3>1, <3>5
  <2>9. QED BY <2>5, <2>6, <2>7, <2>8
<1>10. ASSUME NEW k \in 1..(n + 1), Inside(at, k) PROVE WalkLeft' < WalkLeft
  <2>1. k \in 1..n BY <1>4, <1>10 DEF Inside
  <2>2. k + 1 \in 1..(n + 1) BY <2>1
  <2>3. PICK b \in Nat : b = at[k + 1] /\ b <= d BY <1>5, <2>2
  <2>4. err = FALSE /\ response = "pending" BY <1>10 DEF Inside
  <2>5. PICK q \in Nat : q < b /\ \E x, y : stack = <<x, y, Activation(q, 0)>>
    BY <1>10, <2>3 DEF Inside
  <2>6. Ahead(stack, d) = (2 * (d - q)) + 3 BY <2>5, AheadThree
  <2>7. Between(at, k + 1)' BY <1>1, <1>7, <1>10, InsideStep
  <2>8. err' = FALSE /\ response' = "pending" BY <2>7 DEF Between
  <2>9. PICK x, l : stack' = <<x, Activation(b, l)>> BY <2>3, <2>7 DEF Between
  <2>10. Ahead(stack', d) = (2 * (d - b)) + 2 BY <2>9, AheadTwo
  <2>11. Ahead(stack', d) < Ahead(stack, d) /\ Ahead(stack', d) \in Int /\ Ahead(stack, d) \in Int
    BY <2>5, <2>6, <2>10
  <2>12. QED BY <1>6, <2>4, <2>8, <2>11
<1>11. CASE Ending(at)
  <2>1. Ended' /\ err' = err /\ response' = response BY <1>1, <1>11, EndingStep
  <2>2. \E l : stack = <<Activation(d, l)>> BY <1>3, <1>11 DEF Ending
  <2>3. Ahead(stack, d) = (2 * (d - d)) + 1 BY <2>2, AheadOne
  <2>4. stack' = <<>> BY <2>1 DEF Ended
  <2>5. Ahead(stack', d) = 0 BY <2>4, AheadNone
  <2>6. QED BY <1>6, <2>1, <2>3, <2>5
<1>12. CASE Failing(at)
  <2>1. err' = err /\ response' = response BY <1>1, <1>12, FailingStep
  <2>2. Ahead(stack', d) < Ahead(stack, d) /\ Ahead(stack', d) \in Int /\ Ahead(stack, d) \in Int
    <3>1. CASE Ended' /\ \E a : stack = <<a>>
      <4>1. stack' = <<>> BY <3>1 DEF Ended
      <4>2. Ahead(stack', d) = 0 BY <4>1, AheadNone
      <4>3. Len(stack) = 1 BY <3>1
      <4>4. PICK a \in Nat : a <= d /\ \E l : stack = <<Activation(a, l)>>
        <5>1. CASE stack = <<Activation(1, 0)>>
          <6>1. 1 \in 1..(n + 1) OBVIOUS
          <6>2. PICK x \in Nat : x = at[1] /\ 1 < x /\ x <= d BY <1>5, <6>1
          <6>3. 1 <= d BY <6>2
          <6>4. QED BY <5>1, <6>3
        <5>2. CASE stack = <<Activation(Len(data), Len(data) - at[1])>>
          <6>1. d <= d OBVIOUS
          <6>2. stack = <<Activation(d, Len(data) - at[1])>> BY <1>3, <5>2, Zenon
          <6>3. QED BY <6>1, <6>2, Zenon
        <5>3. \A x, y : Len(<<x, y>>) = 2 OBVIOUS
        <5>4. Len(stack) # 2 BY <4>3
        <5>5. QED BY <1>12, <5>1, <5>2, <5>3, <5>4, Zenon DEF Failing
      <4>5. Ahead(stack, d) = (2 * (d - a)) + 1 BY <4>4, AheadOne
      <4>6. QED BY <4>2, <4>4, <4>5
    <3>2. CASE Len(stack) = 2 /\ stack' = <<Activation(Len(data), Len(data) - at[1])>>
      <4>1. Ahead(stack', d) = (2 * (d - d)) + 1
        <5>1. PICK l2 : stack' = <<Activation(d, l2)>> BY <1>3, <3>2
        <5>2. QED BY <5>1, AheadOne
      <4>2. \A x : Len(<<x>>) = 1 OBVIOUS
      <4>3. PICK k \in 1..n, l \in Nat :
              stack = <<Activation(at[1], Len(data) - at[1]), Activation(at[k], l)>>
        <5>1. Len(stack) # 1 BY <3>2
        <5>2. QED BY <1>4, <1>12, <4>2, <5>1, Zenon DEF Failing
      <4>4. k \in 1..(n + 1) OBVIOUS
      <4>5. PICK a \in Nat : a = at[k] /\ a <= d BY <1>5, <4>4
      <4>6. PICK x : stack = <<x, Activation(a, l)>> BY <4>3, <4>5, Zenon
      <4>7. Ahead(stack, d) = (2 * (d - a)) + 2 BY <4>6, AheadTwo
      <4>8. QED BY <4>1, <4>5, <4>7
    <3>3. QED BY <1>1, <1>12, <3>1, <3>2, FailingStep
  <2>3. QED BY <1>6, <2>1, <2>2
<1>13. CASE Ended
  <2>1. Ended' /\ err' = err /\ response = "pending" /\ response' # "pending"
    BY <1>1, <1>7, <1>13, EndedStep
  <2>2. stack = <<>> /\ stack' = <<>> BY <1>13, <2>1 DEF Ended
  <2>3. Ahead(stack, d) = 0 /\ Ahead(stack', d) = 0 BY <2>2, AheadNone
  <2>4. QED BY <1>6, <2>1, <2>3
<1>14. QED BY <1>1, <1>4, <1>8, <1>9, <1>10, <1>11, <1>12, <1>13 DEF Walk

(* The walk of parse_ASN1_Sequence over an encoding takes a number of steps *)
(* that is linear in its length, whatever the extension says: each call,    *)
(* each return and each error leaves less of it.  (Over other bytes it may  *)
(* read sequences again.)                                                   *)
THEOREM WalkEnds ==
  UrlSpec => /\ [](form # "raw" => WalkLeft \in 0..((2 * Len(data)) + 3))
             /\ [][form # "raw" => WalkLeft' < WalkLeft]_urlVars
<1>1. UrlInv /\ form # "raw" => EncodedInv BY DEF UrlInv, RawInv
<1>2. UrlInv /\ UrlNext => (form # "raw" => WalkLeft' < WalkLeft)
  BY <1>1, OcspUrlsAssumption, OnlyWalks, WalkShrinks
<1>3. UrlInv => (form # "raw" => WalkLeft \in 0..((2 * Len(data)) + 3)) BY <1>1, WalkLeftBounded
<1>4. QED BY <1>2, <1>3, UrlInvariance, PTL DEF UrlSpec

-----------------------------------------------------------------------------
(* What the walk shows *)

(* The walk only ever has positions and lengths that are numbers, and byte *)
(* strings in its array of URLs.                                           *)
THEOREM UrlTypeCorrect == UrlSpec => []UrlTypeOK
BY UrlInvariance, UrlInvImplies, PTL

(* Over an encoding parse_ASN1_Sequence reads no byte behind the copy,     *)
(* although it checks no length against it and does not know where its     *)
(* sequences end, and calls itself three deep at most.  Over any bytes it  *)
(* calls itself at most once for every two of them.                        *)
THEOREM WalkStaysBounded == UrlSpec => []WalkBounded
BY UrlInvariance, UrlInvImplies, PTL

(* Of an encoding decode_OCSP_url returns the URIs of the OCSP             *)
(* descriptions, all of them, each once and in their order, or nothing at  *)
(* all, for an extension of any length with texts and OIDs of any length   *)
(* and any bytes.                                                          *)
THEOREM UrlsDecoded == UrlSpec => []DecodesUrls
BY UrlInvariance, UrlInvImplies, PTL
=============================================================================
