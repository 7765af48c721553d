---------------------------- MODULE LifecycleProofs ----------------------------
(***************************************************************************)
(* Proofs about Lifecycle for every number of pools, contexts and          *)
(* connections, and for every interleaving of the steps of newSSL and      *)
(* freeSSL with the other calls.                                           *)
(*                                                                         *)
(* None of the safety properties is inductive alone.  The inductive        *)
(* invariant adds, for a connection, what each of its states says about    *)
(* its pool and, unless its call was overtaken, about its context          *)
(* (ConnInv), and for a context that its reference, its registered cleanup *)
(* and its live pool go together (CtxInv).                                 *)
(***************************************************************************)
EXTENDS Lifecycle, FiniteSetTheorems, TLAPS

ConnInv ==
  \A s \in Conn :
    /\ conn[s] \in {"unused", "entering", "creating", "failed"} => conPool[s] = "none"
    /\ conn[s] \in {"building", "live", "freeing"} => conPool[s] # "none"
    /\ conn[s] = "freed" => conPool[s] = "dead"
    /\ conn[s] \in {"entering", "creating", "building"} /\ s \notin overlapped
         => ctx[connCtx[s]] = "made" /\ ctxRef[connCtx[s]]
    /\ conn[s] = "building" /\ s \notin overlapped => conPool[s] = "live"
    /\ conn[s] \in {"entering"} \cup Allocated => ctx[connCtx[s]] \in {"made", "dead"}

CtxInv ==
  \A c \in Ctx :
    /\ ctxRef[c] <=> registered[c]
    /\ ctxRef[c] => ctx[c] = "made"
    /\ ctx[c] = "made" => pool[ctxPool[c]] = "live"
    /\ ctx[c] \in {"unused", "failed"} => refs[c] = 0

(* What is said about pools, contexts and connections ... *)
ObjInv ==
  /\ ObjTypeOK
  /\ ConnInv
  /\ CtxInv
  /\ DestroyCountTrue
  /\ RefsExact
  /\ FaultsConfined

(* ... and about the library. *)
LibInv ==
  /\ LibTypeOK
  /\ SslInitTied
  /\ AprBalanced

LifecycleInv == ObjInv /\ LibInv

-----------------------------------------------------------------------------
(* The set of users of a context is finite and its cardinality a natural   *)
(* number, because there are finitely many connections.                    *)
LEMMA UsersFinite ==
  ASSUME NEW c
  PROVE  IsFiniteSet(Users(c)) /\ Cardinality(Users(c)) \in Nat
<1>1. IsFiniteSet(Conn) BY ConstantsAssumption
<1>2. Users(c) \subseteq Conn BY DEF Users
<1>3. IsFiniteSet(Users(c)) BY <1>1, <1>2, FS_Subset
<1>4. QED BY <1>3, FS_CardinalityType

(* Every state in which an SSL is allocated, or an owner exists, has a     *)
(* positive reference count.                                               *)
LEMMA RefsPositive ==
  ASSUME ObjTypeOK, RefsExact, NEW c \in Ctx,
         ctxRef[c] \/ ctx[c] = "leaked" \/ Users(c) # {}
  PROVE  refs[c] > 0
<1>1. Cardinality(Users(c)) \in Nat BY UsersFinite
<1>2. Users(c) # {} => Cardinality(Users(c)) # 0
  BY UsersFinite, FS_EmptySet
<1>3. refs[c] = (IF ctxRef[c] \/ ctx[c] = "leaked" THEN 1 ELSE 0) + Cardinality(Users(c))
  BY DEF RefsExact
<1>4. QED BY <1>1, <1>2, <1>3

(* The initial state satisfies the inductive invariant.                    *)
LEMMA InitInv == Init => LifecycleInv
<1> SUFFICES ASSUME Init PROVE LifecycleInv OBVIOUS
<1>1. TypeOK BY ConstantsAssumption DEF Init, TypeOK, LibTypeOK, ObjTypeOK, Allocated, Faults
<1>2. ConnInv /\ CtxInv /\ DestroyCountTrue /\ FaultsConfined
  BY ConstantsAssumption DEF Init, ConnInv, CtxInv, DestroyCountTrue, FaultsConfined, Allocated
<1>3. RefsExact
  <2> SUFFICES ASSUME NEW c \in Ctx
               PROVE  refs[c] = (IF ctxRef[c] \/ ctx[c] = "leaked" THEN 1 ELSE 0)
                                + Cardinality(Users(c))
    BY DEF RefsExact
  <2>1. Users(c) = {} BY DEF Init, Users, Allocated
  <2>2. Cardinality(Users(c)) = 0 BY <2>1, FS_EmptySet
  <2>3. QED BY <2>2 DEF Init
<1>4. SslInitTied /\ AprBalanced BY DEF Init, SslInitTied, AprBalanced, LivePools
<1>5. QED BY <1>1, <1>2, <1>3, <1>4 DEF LifecycleInv, ObjInv, LibInv, TypeOK, Init

-----------------------------------------------------------------------------
(* The reference count stays exact when neither the connections nor the    *)
(* reference of any context changes.                                       *)
LEMMA SameUsers ==
  ASSUME NEW c, UNCHANGED <<conn, connCtx>>
  PROVE  Users(c)' = Users(c)
BY DEF Users

(* Destroying a set of pools keeps everything that is said about the       *)
(* objects, and those pools are live no more.                              *)
LEMMA DestroyPoolsInv ==
  ASSUME ObjInv, NEW D \in SUBSET Pool, DestroyPools(D)
  PROVE  ObjInv' /\ LivePools' = LivePools \ D
<1> DEFINE C == CtxIn(D)
           S == {s \in Conn : conPool[s] = "live" /\ ctxPool[connCtx[s]] \in D}
           R == {s \in S : conn[s] # "building"}
<1> USE DEF ObjInv
<1>1. /\ \A s \in Conn :
           conn[s] \in {"entering", "creating", "building", "freeing"} /\ s \notin overlapped'
           => ctxPool[connCtx[s]] \notin D
      /\ overlapped \subseteq overlapped'
      /\ overlapped' \in SUBSET Conn
  BY DEF DestroyPools, Busy, Opening, ObjTypeOK
<1>2. \A s \in R : conn[s] \in {"live", "freeing"}
  BY DEF ConnInv, ObjTypeOK, Allocated
<1>3. faults' = faults
  <2>1. {s \in R : conn[s] \notin Allocated} = {} BY <1>2 DEF Allocated
  <2>2. faults' = faults \cup ({"use_after_free"} \X {s \in R : conn[s] \notin Allocated})
    BY DEF DestroyPools
  <2>3. {"use_after_free"} \X {s \in R : conn[s] \notin Allocated} = {} BY <2>1
  <2>4. QED BY <2>2, <2>3
<1>4. \A c \in Ctx : c \in C /\ ctxRef[c] => refs[c] > 0
  BY RefsPositive
<1>5. /\ refs' = [c \in Ctx |-> IF c \in C /\ registered[c] /\ ctxRef[c]
                                THEN refs[c] - 1 ELSE refs[c]]
      /\ ctxRef' = [c \in Ctx |-> ctxRef[c] /\ ~(c \in C /\ registered[c])]
      /\ registered' = [c \in Ctx |-> registered[c] /\ c \notin C]
      /\ ctx' = [c \in Ctx |-> IF c \in C THEN "dead" ELSE ctx[c]]
      /\ pool' = [p \in Pool |-> IF p \in D THEN "dead" ELSE pool[p]]
      /\ conPool' = [s \in Conn |-> IF s \in S THEN "dead" ELSE conPool[s]]
      /\ destroyCount' = [s \in Conn |-> IF s \in R THEN destroyCount[s] + 1 ELSE destroyCount[s]]
      /\ UNCHANGED <<anc, ctxPool, conn, connCtx, mustDestroy>>
  BY DEF DestroyPools, DropContextRef, ConPoolCleanup, CtxIn
<1>6. \A c \in Ctx : c \in C <=> ctx[c] = "made" /\ ctxPool[c] \in D
  BY DEF CtxIn
<1>7. \A s \in Conn : /\ s \in S <=> conPool[s] = "live" /\ ctxPool[connCtx[s]] \in D
                      /\ s \in R <=> s \in S /\ conn[s] # "building"
  OBVIOUS
<1> HIDE DEF C, S, R
<1>8. ObjTypeOK'
  <2>1. refs' \in [Ctx -> Nat] BY <1>4, <1>5 DEF ObjTypeOK
  <2>2. destroyCount' \in [Conn -> Nat] BY <1>5 DEF ObjTypeOK
  <2>3. faults' \in SUBSET (Faults \X Conn) BY <1>3 DEF ObjTypeOK
  <2>4. QED BY <1>1, <1>5, <2>1, <2>2, <2>3 DEF ObjTypeOK
<1>9. ConnInv'
  BY <1>1, <1>5, <1>6, <1>7 DEF ConnInv, ObjTypeOK, Allocated
<1>10. CtxInv'
  BY <1>5, <1>6 DEF CtxInv, ObjTypeOK
<1>11. DestroyCountTrue'
  BY <1>1, <1>5, <1>7 DEF DestroyCountTrue, ObjTypeOK
<1>12. RefsExact'
  <2> SUFFICES ASSUME NEW c \in Ctx
               PROVE  refs'[c] = (IF ctxRef'[c] \/ ctx'[c] = "leaked" THEN 1 ELSE 0)
                                 + Cardinality(Users(c)')
    BY DEF RefsExact
  <2>1. Users(c)' = Users(c) BY <1>5, SameUsers
  <2>2. Cardinality(Users(c)) \in Nat BY UsersFinite
  <2>3. refs[c] \in Nat /\ (ctxRef[c] <=> registered[c]) /\ (ctxRef[c] => ctx[c] = "made")
    BY DEF CtxInv, ObjTypeOK
  <2>4. refs[c] = (IF ctxRef[c] \/ ctx[c] = "leaked" THEN 1 ELSE 0) + Cardinality(Users(c))
    BY DEF RefsExact
  <2>5. CASE c \in C /\ ctxRef[c]
    <3>1. refs'[c] = refs[c] - 1 /\ ~ctxRef'[c] /\ ctx'[c] # "leaked"
      BY <1>5, <2>3, <2>5
    <3>2. QED BY <2>1, <2>2, <2>3, <2>4, <2>5, <3>1
  <2>6. CASE ~(c \in C /\ ctxRef[c])
    <3>1. refs'[c] = refs[c] /\ (ctxRef'[c] <=> ctxRef[c])
      BY <1>5, <2>3, <2>6
    <3>2. ctx'[c] = "leaked" <=> ctx[c] = "leaked"
      BY <1>5, <1>6
    <3>3. QED BY <2>1, <2>2, <2>3, <2>4, <3>1, <3>2
  <2>7. QED BY <2>5, <2>6
<1>13. LivePools' = LivePools \ D
  BY <1>5 DEF LivePools, ObjTypeOK
<1>14. FaultsConfined' BY <1>1, <1>3 DEF FaultsConfined
<1>15. QED BY <1>8, <1>9, <1>10, <1>11, <1>12, <1>13, <1>14
-----------------------------------------------------------------------------
(* The calls of jnilib.c and SSL.initialize.                               *)
LEMMA LibraryStepInv ==
  ASSUME LifecycleInv,
         LibraryInitialize \/ LibraryTerminate \/ JNI_OnUnload \/ SSLInitialize
  PROVE  LifecycleInv'
<1> USE DEF LifecycleInv
<1> DEFINE SameObj == UNCHANGED <<poolVars, ctxVars, refs, connVars, raceVars>>
<1>1. ASSUME SameObj PROVE ObjInv' /\ LivePools' = LivePools
  <2>1. \A c : Users(c)' = Users(c) BY <1>1, SameUsers DEF connVars
  <2>2. RefsExact' BY <1>1, <2>1 DEF ObjInv, RefsExact, ctxVars
  <2>3. QED BY <1>1, <2>2 DEF ObjInv, ObjTypeOK, ConnInv, CtxInv, DestroyCountTrue, FaultsConfined,
                              LivePools, poolVars, ctxVars, connVars, raceVars
<1>2. LivePools \in SUBSET Pool BY DEF LivePools
<1>3. CASE LibraryInitialize
  <2>1. SameObj BY <1>3 DEF LibraryInitialize
  <2>2. LibInv'
    <3>1. LibTypeOK'
      <4>1. aprCount' \in Nat /\ initFailures' \in Nat /\ sslInit' \in Nat
        BY <1>1, <1>3, <2>1 DEF LibraryInitialize, LibInv, LibTypeOK, AprBalanced
      <4>2. loaded' \in BOOLEAN /\ globalPool' \in BOOLEAN
        BY <1>1, <1>3, <2>1 DEF LibraryInitialize, LibInv, LibTypeOK
      <4>3. sslCleanup' \in BOOLEAN /\ bioMethods' \in BOOLEAN
        BY <1>1, <1>3, <2>1 DEF LibraryInitialize, LibInv, LibTypeOK
      <4>4. QED BY <4>1, <4>2, <4>3 DEF LibTypeOK
    <3>2. SslInitTied' BY <1>1, <1>3, <2>1 DEF LibraryInitialize, LibInv, LibTypeOK, SslInitTied
    <3>3. AprBalanced' BY <1>1, <1>3, <2>1 DEF LibraryInitialize, LibInv, LibTypeOK, AprBalanced
    <3>4. QED BY <3>1, <3>2, <3>3 DEF LibInv
  <2>3. QED BY <1>1, <2>1, <2>2
<1>4. CASE LibraryTerminate
  <2>1. ObjInv' /\ LivePools' = LivePools \ LivePools
    BY <1>2, <1>4, DestroyPoolsInv DEF LibraryTerminate
  <2>2. LibInv'
    <3>1. LibTypeOK'
      <4>1. aprCount' \in Nat /\ initFailures' \in Nat /\ sslInit' \in Nat
        BY <1>4, <2>1 DEF LibraryTerminate, SslInitCleanup, LibInv, LibTypeOK, AprBalanced
      <4>2. loaded' \in BOOLEAN /\ globalPool' \in BOOLEAN
        BY <1>4, <2>1 DEF LibraryTerminate, SslInitCleanup, LibInv, LibTypeOK
      <4>3. sslCleanup' \in BOOLEAN /\ bioMethods' \in BOOLEAN
        BY <1>4, <2>1 DEF LibraryTerminate, SslInitCleanup, LibInv, LibTypeOK
      <4>4. QED BY <4>1, <4>2, <4>3 DEF LibTypeOK
    <3>2. SslInitTied' BY <1>4, <2>1 DEF LibraryTerminate, SslInitCleanup, LibInv, LibTypeOK, SslInitTied
    <3>3. AprBalanced' BY <1>4, <2>1 DEF LibraryTerminate, SslInitCleanup, LibInv, LibTypeOK, AprBalanced
    <3>4. QED BY <3>1, <3>2, <3>3 DEF LibInv
  <2>3. QED BY <2>1, <2>2
<1>5. CASE JNI_OnUnload
  <2>1. CASE globalPool /\ aprCount = 1
    <3>1. ObjInv' /\ LivePools' = LivePools \ LivePools
      BY <1>2, <1>5, <2>1, DestroyPoolsInv DEF JNI_OnUnload
    <3>2. /\ loaded /\ loaded' = FALSE /\ aprCount' = aprCount - 1
          /\ UNCHANGED <<globalPool, initFailures>>
          /\ SslInitCleanup
      BY <1>5, <2>1 DEF JNI_OnUnload
    <3>3. LibTypeOK'
      <4>1. aprCount' \in Nat /\ initFailures' \in Nat /\ sslInit' \in Nat
        BY <2>1, <3>2 DEF SslInitCleanup, LibInv, LibTypeOK
      <4>2. loaded' \in BOOLEAN /\ globalPool' \in BOOLEAN
        BY <3>2 DEF LibInv, LibTypeOK
      <4>3. sslCleanup' \in BOOLEAN /\ bioMethods' \in BOOLEAN
        BY <3>2 DEF SslInitCleanup, LibInv, LibTypeOK
      <4>4. QED BY <4>1, <4>2, <4>3 DEF LibTypeOK
    <3>4. SslInitTied' BY <3>2 DEF SslInitCleanup, LibInv, LibTypeOK, SslInitTied
    <3>5. AprBalanced' BY <2>1, <3>1, <3>2 DEF LibInv, LibTypeOK, AprBalanced
    <3>6. QED BY <3>1, <3>3, <3>4, <3>5 DEF LibInv
  <2>2. CASE ~(globalPool /\ aprCount = 1)
    <3>1. SameObj BY <1>5, <2>2 DEF JNI_OnUnload
    <3>2. LibInv'
      <4>1. LibTypeOK'
        <5>1. aprCount' \in Nat /\ initFailures' \in Nat /\ sslInit' \in Nat
          BY <1>1, <1>5, <2>2, <3>1 DEF JNI_OnUnload, LibInv, LibTypeOK, AprBalanced
        <5>2. loaded' \in BOOLEAN /\ globalPool' \in BOOLEAN
          BY <1>1, <1>5, <2>2, <3>1 DEF JNI_OnUnload, LibInv, LibTypeOK
        <5>3. sslCleanup' \in BOOLEAN /\ bioMethods' \in BOOLEAN
          BY <1>1, <1>5, <2>2, <3>1 DEF JNI_OnUnload, LibInv, LibTypeOK
        <5>4. QED BY <5>1, <5>2, <5>3 DEF LibTypeOK
      <4>2. SslInitTied' BY <1>1, <1>5, <2>2, <3>1 DEF JNI_OnUnload, LibInv, LibTypeOK, SslInitTied
      <4>3. AprBalanced' BY <1>1, <1>5, <2>2, <3>1 DEF JNI_OnUnload, LibInv, LibTypeOK, AprBalanced
      <4>4. QED BY <4>1, <4>2, <4>3 DEF LibInv
    <3>3. QED BY <1>1, <3>1, <3>2
  <2>3. QED BY <2>1, <2>2
<1>6. CASE SSLInitialize
  <2>1. SameObj BY <1>6 DEF SSLInitialize
  <2>2. LibInv'
    <3>1. LibTypeOK'
      <4>1. aprCount' \in Nat /\ initFailures' \in Nat /\ sslInit' \in Nat
        BY <1>1, <1>6, <2>1 DEF SSLInitialize, LibInv, LibTypeOK, AprBalanced
      <4>2. loaded' \in BOOLEAN /\ globalPool' \in BOOLEAN
        BY <1>1, <1>6, <2>1 DEF SSLInitialize, LibInv, LibTypeOK
      <4>3. sslCleanup' \in BOOLEAN /\ bioMethods' \in BOOLEAN
        BY <1>1, <1>6, <2>1 DEF SSLInitialize, LibInv, LibTypeOK
      <4>4. QED BY <4>1, <4>2, <4>3 DEF LibTypeOK
    <3>2. SslInitTied' BY <1>1, <1>6, <2>1 DEF SSLInitialize, LibInv, LibTypeOK, SslInitTied
    <3>3. AprBalanced' BY <1>1, <1>6, <2>1 DEF SSLInitialize, LibInv, LibTypeOK, AprBalanced
    <3>4. QED BY <3>1, <3>2, <3>3 DEF LibInv
  <2>3. QED BY <1>1, <2>1, <2>2
<1>7. QED BY <1>3, <1>4, <1>5, <1>6

(* A call that leaves the library's variables alone keeps what is said of  *)
(* them if every pool that is live after it was live before or the global  *)
(* pool exists.                                                            *)
LEMMA SameLibrary ==
  ASSUME LibInv, UNCHANGED libVars,
         LivePools' \subseteq LivePools \/ (loaded /\ globalPool)
  PROVE  LibInv'
BY DEF LibInv, libVars, LibTypeOK, SslInitTied, AprBalanced

(* Pool.create and Pool.destroy.                                           *)
LEMMA PoolStepInv ==
  ASSUME LifecycleInv, NEW p \in Pool,
         (\E A \in SUBSET Pool : PoolCreate(p, A)) \/ PoolDestroy(p)
  PROVE  LifecycleInv'
<1> USE DEF LifecycleInv
<1>1. CASE \E A \in SUBSET Pool : PoolCreate(p, A)
  <2>1. PICK A \in SUBSET Pool : PoolCreate(p, A) BY <1>1
  <2>2. \A c : Users(c)' = Users(c) BY <2>1, SameUsers DEF PoolCreate, connVars
  <2>3. RefsExact' BY <2>1, <2>2 DEF PoolCreate, ObjInv, RefsExact, ctxVars
  <2>4. ObjTypeOK' /\ ConnInv' /\ DestroyCountTrue' /\ FaultsConfined'
    BY <2>1 DEF PoolCreate, ObjInv, ObjTypeOK, ConnInv, DestroyCountTrue, FaultsConfined,
                ctxVars, connVars, raceVars
  <2>5. CtxInv'
    BY <2>1 DEF PoolCreate, ObjInv, ObjTypeOK, CtxInv, ctxVars
  <2>6. ObjInv' BY <2>1, <2>3, <2>4, <2>5 DEF ObjInv, PoolCreate
  <2>7. LibInv' BY <2>1, SameLibrary DEF PoolCreate
  <2>8. QED BY <2>6, <2>7
<1>2. CASE PoolDestroy(p)
  <2>1. {q \in LivePools : p \in anc[q]} \in SUBSET Pool BY DEF LivePools
  <2>2. ObjInv' /\ LivePools' \subseteq LivePools
    BY <1>2, <2>1, DestroyPoolsInv DEF PoolDestroy
  <2>3. LibInv' BY <1>2, <2>2, SameLibrary DEF PoolDestroy
  <2>4. QED BY <2>2, <2>3
<1>3. QED BY <1>1, <1>2

(* SSLContext.make and SSLContext.free.                                    *)
LEMMA ContextStepInv ==
  ASSUME LifecycleInv, NEW c \in Ctx,
         (\E p \in Pool : SSLContextMake(c, p)) \/ SSLContextFree(c)
  PROVE  LifecycleInv'
<1> USE DEF LifecycleInv
<1>1. /\ UNCHANGED <<libVars, poolVars, connVars, faults>>
      /\ \A d : Users(d)' = Users(d)
      /\ overlapped \subseteq overlapped' /\ overlapped' \in SUBSET Conn
  BY SameUsers DEF SSLContextMake, SSLContextFree, Opening, connVars, raceVars, ObjInv, ObjTypeOK
<1>0. FaultsConfined' BY <1>1 DEF ObjInv, FaultsConfined
<1>2. LibInv' BY <1>1, SameLibrary DEF LivePools, poolVars
<1>3. \A d \in Ctx : Cardinality(Users(d)) \in Nat BY UsersFinite
<1>4. \A d \in Ctx :
         refs[d] = (IF ctxRef[d] \/ ctx[d] = "leaked" THEN 1 ELSE 0) + Cardinality(Users(d))
  BY DEF ObjInv, RefsExact
<1>5. CASE \E p \in Pool : SSLContextMake(c, p)
  <2>1. PICK p \in Pool : SSLContextMake(c, p) BY <1>5
  <2>2. Cardinality(Users(c)) = 0 /\ ~ctxRef[c]
    BY <1>3, <1>4, <2>1 DEF SSLContextMake, ObjInv, ObjTypeOK, CtxInv
  <2>3. ObjTypeOK'
    <3>1. /\ ctx' \in [Ctx -> {"unused", "made", "dead", "failed", "leaked"}]
          /\ ctxPool' \in [Ctx -> Pool]
      BY <2>1 DEF SSLContextMake, MakeContext, ObjInv, ObjTypeOK
    <3>2. ctxRef' \in [Ctx -> BOOLEAN] /\ registered' \in [Ctx -> BOOLEAN]
      BY <2>1 DEF SSLContextMake, MakeContext, ObjInv, ObjTypeOK
    <3>3. refs' \in [Ctx -> Nat]
      BY <2>1 DEF SSLContextMake, MakeContext, ObjInv, ObjTypeOK
    <3>4. QED BY <1>1, <3>1, <3>2, <3>3 DEF ObjInv, ObjTypeOK, poolVars, connVars
  <2>4. ConnInv' /\ DestroyCountTrue'
    <3>1. \A s \in Conn : conn[s] \in {"entering"} \cup Allocated => connCtx[s] # c
      BY <2>1 DEF ObjInv, ConnInv, SSLContextMake
    <3>2. \A d \in Ctx : d # c => ctx'[d] = ctx[d] /\ ctxRef'[d] = ctxRef[d]
      BY <2>1 DEF SSLContextMake, MakeContext, ObjInv, ObjTypeOK
    <3>3. overlapped' = overlapped BY <2>1 DEF SSLContextMake, raceVars
    <3>4. QED BY <1>1, <3>1, <3>2, <3>3 DEF ObjInv, ObjTypeOK, ConnInv, DestroyCountTrue, connVars, Allocated
  <2>5. CtxInv'
    BY <1>1, <2>1 DEF SSLContextMake, MakeContext, ObjInv, ObjTypeOK, CtxInv, poolVars
  <2>6. RefsExact'
    <3>1. \A d \in Ctx : d # c => refs'[d] = refs[d] /\ ctx'[d] = ctx[d] /\ ctxRef'[d] = ctxRef[d]
      BY <2>1 DEF SSLContextMake, MakeContext, ObjInv, ObjTypeOK
    <3>2. refs'[c] = IF ctxRef'[c] \/ ctx'[c] = "leaked" THEN 1 ELSE 0
      BY <2>1, <2>2 DEF SSLContextMake, MakeContext, ObjInv, ObjTypeOK, CtxInv
    <3>3. QED BY <1>1, <1>4, <2>2, <3>1, <3>2 DEF RefsExact
  <2>7. QED BY <1>0, <1>2, <2>3, <2>4, <2>5, <2>6 DEF ObjInv
<1>6. CASE SSLContextFree(c)
  <2>1. ctxRef[c] => refs[c] > 0 BY RefsPositive DEF ObjInv
  <2>2. /\ refs' = [refs EXCEPT ![c] = IF ctxRef[c] THEN refs[c] - 1 ELSE refs[c]]
        /\ ctxRef' = [ctxRef EXCEPT ![c] = FALSE]
        /\ registered' = [registered EXCEPT ![c] = FALSE]
        /\ UNCHANGED <<ctx, ctxPool>>
    BY <1>6 DEF SSLContextFree, DropContextRef, ObjInv, ObjTypeOK
  <2>3. \A s \in Conn :
          conn[s] \in {"entering", "creating", "building"} /\ s \notin overlapped'
          => connCtx[s] # c
    BY <1>6 DEF SSLContextFree, Opening
  <2>4. refs' \in [Ctx -> Nat] BY <2>1, <2>2 DEF ObjInv, ObjTypeOK
  <2>5. ObjTypeOK'
    BY <1>1, <2>2, <2>4 DEF ObjInv, ObjTypeOK, poolVars, connVars
  <2>6. ConnInv' /\ DestroyCountTrue'
    BY <1>1, <2>2, <2>3 DEF ObjInv, ObjTypeOK, ConnInv, DestroyCountTrue, connVars, Allocated
  <2>7. CtxInv'
    BY <1>1, <2>2 DEF ObjInv, ObjTypeOK, CtxInv, poolVars
  <2>8. RefsExact'
    <3>1. \A d \in Ctx : d # c => refs'[d] = refs[d] /\ ctx'[d] = ctx[d] /\ ctxRef'[d] = ctxRef[d]
      BY <2>2 DEF ObjInv, ObjTypeOK
    <3>2. ctx[c] = "made" /\ ctx'[c] = "made" /\ ~ctxRef'[c]
      BY <1>6, <2>2 DEF SSLContextFree, ObjInv, ObjTypeOK
    <3>3. refs'[c] = Cardinality(Users(c))
      BY <1>3, <1>4, <2>2, <3>2 DEF ObjInv, ObjTypeOK
    <3>4. QED BY <1>1, <1>3, <1>4, <3>1, <3>2, <3>3 DEF RefsExact
  <2>9. QED BY <1>0, <1>2, <2>5, <2>6, <2>7, <2>8 DEF ObjInv
<1>7. QED BY <1>5, <1>6
-----------------------------------------------------------------------------
(* The steps of newSSL and freeSSL.  The parts of the invariant that speak *)
(* of contexts, and the library, are not concerned.                        *)
LEMMA ConnStepFrame ==
  ASSUME LifecycleInv, UNCHANGED <<libVars, poolVars, ctxVars>>,
         \A c \in Ctx : ctx[c] \in {"unused", "failed"} => refs'[c] = refs[c]
  PROVE  LibInv' /\ CtxInv'
<1>1. LibInv' BY SameLibrary DEF LifecycleInv, LivePools, poolVars
<1>2. CtxInv' BY DEF LifecycleInv, ObjInv, CtxInv, ctxVars, poolVars
<1>3. QED BY <1>1, <1>2

(* A step that commits at most one memory error, and that on an overtaken  *)
(* connection, keeps the errors confined.                                  *)
LEMMA FaultAdded ==
  ASSUME ObjInv, NEW s \in Conn, NEW k \in Faults, UNCHANGED overlapped,
         faults' = faults \/ (s \in overlapped /\ faults' = faults \cup {<<k, s>>})
  PROVE  FaultsConfined' /\ faults' \in SUBSET (Faults \X Conn)
BY DEF ObjInv, ObjTypeOK, FaultsConfined

(* Reading a context is an error only on an overtaken connection.          *)
LEMMA ReadConfined ==
  ASSUME ObjInv, NEW s \in Conn, conn[s] \in {"creating", "building"},
         UNCHANGED overlapped, ReadContext(s)
  PROVE  FaultsConfined' /\ faults' \in SUBSET (Faults \X Conn)
<1>1. s \notin overlapped => ctx[connCtx[s]] = "made" BY DEF ObjInv, ConnInv
<1>2. faults' = faults \/ (s \in overlapped /\ faults' = faults \cup {<<"use_after_free", s>>})
  BY <1>1 DEF ReadContext
<1>3. QED BY <1>2, FaultAdded DEF Faults

(* newSSL reads c->ctx and changes nothing else.                           *)
LEMMA NewSSLEnterInv ==
  ASSUME LifecycleInv, NEW s \in Conn, NEW c \in Ctx, NewSSLEnter(s, c)
  PROVE  LifecycleInv'
<1> USE DEF LifecycleInv
<1>1. /\ conn[s] = "unused" /\ ctx[c] = "made" /\ ctxRef[c]
      /\ conn' = [conn EXCEPT ![s] = "entering"]
      /\ connCtx' = [connCtx EXCEPT ![s] = c]
      /\ UNCHANGED <<libVars, poolVars, ctxVars, refs, conPool, destroyCount, mustDestroy, overlapped, faults>>
  BY DEF NewSSLEnter, raceVars
<1>2. LibInv' /\ CtxInv' BY <1>1, ConnStepFrame
<1>3. ObjTypeOK' /\ FaultsConfined'
  BY <1>1 DEF ObjInv, ObjTypeOK, FaultsConfined, Allocated, poolVars, ctxVars
<1>4. ConnInv' /\ DestroyCountTrue'
  BY <1>1 DEF ObjInv, ObjTypeOK, ConnInv, DestroyCountTrue, Allocated, ctxVars
<1>5. RefsExact'
  <2>1. \A d \in Ctx : Users(d)' = Users(d)
    BY <1>1 DEF Users, ObjInv, ObjTypeOK, Allocated
  <2>2. QED BY <1>1, <2>1 DEF ObjInv, RefsExact, ctxVars
<1>6. QED BY <1>2, <1>3, <1>4, <1>5 DEF ObjInv

(* SSL_new takes one reference for one more user, or nothing.  That it     *)
(* finds the SSL_CTX gone happens only to a call that was overtaken: else  *)
(* the context still has its reference.                                    *)
LEMMA NewSSLBeginInv ==
  ASSUME LifecycleInv, NEW s \in Conn, NewSSLBegin(s)
  PROVE  LifecycleInv'
<1> USE DEF LifecycleInv
<1>0. PICK c \in Ctx : c = connCtx[s] BY DEF ObjInv, ObjTypeOK
<1>1. /\ conn[s] = "entering"
      /\ UNCHANGED <<libVars, poolVars, ctxVars, connCtx, conPool, destroyCount, mustDestroy, overlapped>>
  BY DEF NewSSLBegin
<1>2. ctx[c] \in {"made", "dead"} BY <1>0, <1>1 DEF ObjInv, ConnInv
<1>3. CASE /\ refs[c] > 0 /\ faults' = faults
           /\ conn' = [conn EXCEPT ![s] = "creating"]
           /\ refs' = [refs EXCEPT ![c] = refs[c] + 1]
  <2>1. LibInv' /\ CtxInv'
    <3>1. \A d \in Ctx : ctx[d] \in {"unused", "failed"} => refs'[d] = refs[d]
      BY <1>2, <1>3 DEF ObjInv, ObjTypeOK
    <3>2. QED BY <1>1, <3>1, ConnStepFrame
  <2>2. ObjTypeOK' /\ FaultsConfined'
    BY <1>1, <1>3 DEF ObjInv, ObjTypeOK, FaultsConfined, Allocated, poolVars, ctxVars
  <2>3. ConnInv' /\ DestroyCountTrue'
    BY <1>1, <1>3 DEF ObjInv, ObjTypeOK, ConnInv, DestroyCountTrue, Allocated, ctxVars
  <2>4. RefsExact'
    <3>1. Users(c)' = Users(c) \cup {s} /\ s \notin Users(c)
      BY <1>0, <1>1, <1>3 DEF Users, ObjInv, ObjTypeOK, Allocated
    <3>2. \A d \in Ctx : d # c => Users(d)' = Users(d)
      BY <1>0, <1>1, <1>3 DEF Users, ObjInv, ObjTypeOK, Allocated
    <3>3. Cardinality(Users(c)') = Cardinality(Users(c)) + 1
      BY <3>1, UsersFinite, FS_AddElement
    <3>4. \A d \in Ctx : Cardinality(Users(d)) \in Nat BY UsersFinite
    <3>5. /\ refs'[c] = refs[c] + 1 /\ refs[c] \in Nat
          /\ \A d \in Ctx : d # c => refs'[d] = refs[d]
      BY <1>3 DEF ObjInv, ObjTypeOK
    <3>6. QED BY <1>1, <3>2, <3>3, <3>4, <3>5 DEF ObjInv, RefsExact, ctxVars
  <2>5. QED BY <2>1, <2>2, <2>3, <2>4 DEF ObjInv
<1>4. CASE /\ conn' = [conn EXCEPT ![s] = "failed"] /\ refs' = refs
           /\ faults' = IF refs[c] > 0 THEN faults ELSE faults \cup {<<"use_after_free", s>>}
  <2>1. LibInv' /\ CtxInv' BY <1>1, <1>4, ConnStepFrame
  <2>2. refs[c] > 0 \/ s \in overlapped
    BY <1>0, <1>1, RefsPositive DEF ObjInv, ConnInv
  <2>3. FaultsConfined' /\ faults' \in SUBSET (Faults \X Conn)
    BY <1>1, <1>4, <2>2, FaultAdded DEF Faults
  <2>4. ObjTypeOK'
    BY <1>1, <1>4, <2>3 DEF ObjInv, ObjTypeOK, Allocated, poolVars, ctxVars
  <2>5. ConnInv' /\ DestroyCountTrue'
    BY <1>1, <1>4 DEF ObjInv, ObjTypeOK, ConnInv, DestroyCountTrue, Allocated, ctxVars
  <2>6. RefsExact'
    <3>1. \A d \in Ctx : Users(d)' = Users(d)
      BY <1>1, <1>4 DEF Users, ObjInv, ObjTypeOK, Allocated
    <3>2. QED BY <1>1, <1>4, <3>1 DEF ObjInv, RefsExact, ctxVars
  <2>7. QED BY <2>1, <2>3, <2>4, <2>5, <2>6 DEF ObjInv
<1>5. QED BY <1>0, <1>3, <1>4 DEF NewSSLBegin

(* newSSL makes the pool of the connection, and completes it with the      *)
(* counter at zero.                                                        *)
LEMMA NewSSLFinishInv ==
  ASSUME LifecycleInv, NEW s \in Conn, NewSSLPool(s) \/ NewSSLFinish(s)
  PROVE  LifecycleInv'
<1> USE DEF LifecycleInv
<1>1. /\ UNCHANGED <<libVars, poolVars, ctxVars, refs, connCtx, mustDestroy, overlapped>>
      /\ conn[s] \in {"creating", "building"}
      /\ conn' \in {[conn EXCEPT ![s] = "building"], [conn EXCEPT ![s] = "live"]}
  BY DEF NewSSLPool, NewSSLFinish
<1>2. LibInv' /\ CtxInv' BY <1>1, ConnStepFrame
<1>3. RefsExact'
  <2>1. \A d \in Ctx : Users(d)' = Users(d)
    BY <1>1 DEF Users, ObjInv, ObjTypeOK, Allocated
  <2>2. QED BY <1>1, <2>1 DEF ObjInv, RefsExact, ctxVars
<1>4. CASE NewSSLPool(s)
  <2>1. /\ conn[s] = "creating"
        /\ conn' = [conn EXCEPT ![s] = "building"]
        /\ conPool' = [conPool EXCEPT ![s] = "live"]
        /\ destroyCount' = destroyCount
    BY <1>4 DEF NewSSLPool
  <2>2. FaultsConfined' /\ faults' \in SUBSET (Faults \X Conn)
    BY <1>1, <1>4, ReadConfined DEF NewSSLPool
  <2>3. ObjTypeOK'
    BY <1>1, <2>1, <2>2 DEF ObjInv, ObjTypeOK, Allocated, poolVars, ctxVars
  <2>4. ConnInv' /\ DestroyCountTrue'
    BY <1>1, <2>1 DEF ObjInv, ObjTypeOK, ConnInv, DestroyCountTrue, Allocated, ctxVars
  <2>5. QED BY <1>2, <1>3, <2>2, <2>3, <2>4 DEF ObjInv
<1>5. CASE NewSSLFinish(s)
  <2>1. /\ conn[s] = "building"
        /\ conn' = [conn EXCEPT ![s] = "live"]
        /\ conPool' = conPool
        /\ destroyCount' = [destroyCount EXCEPT ![s] = 0]
    BY <1>5 DEF NewSSLFinish
  <2>2. FaultsConfined' /\ faults' \in SUBSET (Faults \X Conn)
    <3>1. CASE ctx[connCtx[s]] = "made" /\ ~ctxRef[connCtx[s]]
      <4>1. s \in overlapped BY <2>1, <3>1 DEF ObjInv, ConnInv
      <4>2. faults' = faults \cup {<<"null_context", s>>} BY <1>5, <3>1 DEF NewSSLFinish
      <4>3. QED BY <1>1, <4>1, <4>2, FaultAdded DEF Faults
    <3>2. CASE ~(ctx[connCtx[s]] = "made" /\ ~ctxRef[connCtx[s]])
      <4>1. ReadContext(s) BY <1>5, <3>2 DEF NewSSLFinish
      <4>2. QED BY <1>1, <4>1, ReadConfined
    <3>3. QED BY <3>1, <3>2
  <2>3. ObjTypeOK'
    BY <1>1, <2>1, <2>2 DEF ObjInv, ObjTypeOK, Allocated, poolVars, ctxVars
  <2>4. ConnInv' /\ DestroyCountTrue'
    BY <1>1, <2>1 DEF ObjInv, ObjTypeOK, ConnInv, DestroyCountTrue, Allocated, ctxVars
  <2>5. QED BY <1>2, <1>3, <2>2, <2>3, <2>4 DEF ObjInv
<1>6. QED BY <1>4, <1>5

(* SSL_free gives the reference of one user back.                          *)
LEMMA DropUser ==
  ASSUME ObjInv, NEW s \in Conn, conn[s] \in Allocated, NEW st,
         st \notin Allocated,
         conn' = [conn EXCEPT ![s] = st],
         refs' = [refs EXCEPT ![connCtx[s]] = refs[connCtx[s]] - 1],
         UNCHANGED <<connCtx, ctxVars>>
  PROVE  RefsExact' /\ refs' \in [Ctx -> Nat]
<1>0. PICK c \in Ctx : c = connCtx[s] BY DEF ObjInv, ObjTypeOK
<1>1. s \in Users(c) BY <1>0 DEF Users
<1>2. Users(c)' = Users(c) \ {s} BY <1>0 DEF Users, ObjInv, ObjTypeOK
<1>3. \A d \in Ctx : d # c => Users(d)' = Users(d)
  BY <1>0 DEF Users, ObjInv, ObjTypeOK
<1>4. Cardinality(Users(c)') = Cardinality(Users(c)) - 1
  BY <1>1, <1>2, UsersFinite, FS_RemoveElement
<1>5. \A d \in Ctx : Cardinality(Users(d)) \in Nat BY UsersFinite
<1>6. refs[c] > 0 BY <1>1, RefsPositive DEF ObjInv
<1>7. /\ refs'[c] = refs[c] - 1 /\ refs[c] \in Nat
      /\ \A d \in Ctx : d # c => refs'[d] = refs[d]
  BY <1>0 DEF ObjInv, ObjTypeOK
<1>8. RefsExact'
  <2>1. \A d \in Ctx :
          refs[d] = (IF ctxRef[d] \/ ctx[d] = "leaked" THEN 1 ELSE 0) + Cardinality(Users(d))
    BY DEF ObjInv, RefsExact
  <2>2. refs'[c] = (IF ctxRef[c] \/ ctx[c] = "leaked" THEN 1 ELSE 0) + Cardinality(Users(c)')
    BY <1>1, <1>4, <1>5, <1>7, <2>1
  <2>3. \A d \in Ctx :
          refs'[d] = (IF ctxRef[d] \/ ctx[d] = "leaked" THEN 1 ELSE 0) + Cardinality(Users(d)')
    BY <1>3, <1>7, <2>1, <2>2
  <2>4. QED BY <2>3 DEF RefsExact, ctxVars
<1>9. refs' \in [Ctx -> Nat]
  BY <1>0, <1>6 DEF ObjInv, ObjTypeOK
<1>10. QED BY <1>8, <1>9

(* newSSL's error path, and freeSSL in its two steps.                      *)
LEMMA FreeStepInv ==
  ASSUME LifecycleInv, NEW s \in Conn,
         NewSSLFail(s) \/ FreeSSLBegin(s) \/ FreeSSLFinish(s)
  PROVE  LifecycleInv'
<1> USE DEF LifecycleInv
<1>0. conn[s] \in Allocated => ctx[connCtx[s]] \in {"made", "dead"} BY DEF ObjInv, ConnInv
<1>1. CASE NewSSLFail(s)
  <2>1. /\ conn[s] = "creating"
        /\ conn' = [conn EXCEPT ![s] = "failed"]
        /\ refs' = [refs EXCEPT ![connCtx[s]] = refs[connCtx[s]] - 1]
        /\ UNCHANGED <<libVars, poolVars, ctxVars, connCtx, conPool, destroyCount, mustDestroy, overlapped>>
    BY <1>1 DEF NewSSLFail
  <2>2. RefsExact' /\ refs' \in [Ctx -> Nat] BY <2>1, DropUser DEF Allocated
  <2>3. \A d \in Ctx : ctx[d] \in {"unused", "failed"} => refs'[d] = refs[d]
    BY <1>0, <2>1 DEF ObjInv, ObjTypeOK, Allocated
  <2>4. LibInv' /\ CtxInv' BY <2>1, <2>3, ConnStepFrame
  <2>5. FaultsConfined' /\ faults' \in SUBSET (Faults \X Conn)
    BY <1>1, <2>1, ReadConfined DEF NewSSLFail
  <2>6. ObjTypeOK'
    BY <2>1, <2>2, <2>5 DEF ObjInv, ObjTypeOK, Allocated, poolVars, ctxVars
  <2>7. ConnInv' /\ DestroyCountTrue'
    BY <2>1 DEF ObjInv, ObjTypeOK, ConnInv, DestroyCountTrue, Allocated, ctxVars
  <2>8. QED BY <2>2, <2>4, <2>5, <2>6, <2>7 DEF ObjInv
<1>2. CASE FreeSSLBegin(s)
  <2>1. /\ conn[s] = "live"
        /\ conn' = [conn EXCEPT ![s] = "freeing"]
        /\ mustDestroy' = [mustDestroy EXCEPT ![s] = (destroyCount[s] = 0)]
        /\ UNCHANGED <<libVars, poolVars, ctxVars, refs, connCtx, conPool, destroyCount, overlapped, faults>>
    BY <1>2 DEF FreeSSLBegin, raceVars
  <2>2. LibInv' /\ CtxInv' BY <2>1, ConnStepFrame
  <2>3. ObjTypeOK' /\ FaultsConfined'
    BY <2>1 DEF ObjInv, ObjTypeOK, FaultsConfined, Allocated, poolVars, ctxVars
  <2>4. ConnInv' /\ DestroyCountTrue'
    <3>1. ConnInv' BY <2>1 DEF ObjInv, ObjTypeOK, ConnInv, Allocated, ctxVars
    <3>2. mustDestroy'[s] <=> destroyCount[s] = 0 BY <2>1 DEF ObjInv, ObjTypeOK
    <3>3. \A t \in Conn : t # s => mustDestroy'[t] = mustDestroy[t] /\ conn'[t] = conn[t]
      BY <2>1 DEF ObjInv, ObjTypeOK
    <3>4. conn'[s] = "freeing" BY <2>1 DEF ObjInv, ObjTypeOK
    <3>5. destroyCount[s] \in Nat BY DEF ObjInv, ObjTypeOK
    <3>6. DestroyCountTrue' BY <2>1, <3>2, <3>3, <3>4, <3>5 DEF ObjInv, DestroyCountTrue
    <3>7. QED BY <3>1, <3>6
  <2>5. \A d \in Ctx : Users(d)' = Users(d)
    BY <2>1 DEF Users, ObjInv, ObjTypeOK, Allocated
  <2>6. RefsExact' BY <2>1, <2>5 DEF ObjInv, RefsExact, ctxVars
  <2>7. QED BY <2>1, <2>2, <2>3, <2>4, <2>6 DEF ObjInv
<1>3. CASE FreeSSLFinish(s)
  <2>1. /\ conn[s] = "freeing"
        /\ conn' = [conn EXCEPT ![s] = "freed"]
        /\ refs' = [refs EXCEPT ![connCtx[s]] = refs[connCtx[s]] - 1]
        /\ UNCHANGED <<libVars, poolVars, ctxVars, connCtx, mustDestroy, overlapped>>
    BY <1>3 DEF FreeSSLFinish
  <2>2. /\ ~mustDestroy[s] => conPool[s] = "dead"
        /\ mustDestroy[s] => conPool[s] = "live" \/ s \in overlapped
    BY <2>1 DEF ObjInv, DestroyCountTrue
  <2>3. /\ conPool' = [conPool EXCEPT ![s] = "dead"]
        /\ faults' = faults \/ (s \in overlapped /\ faults' = faults \cup {<<"double_destroy", s>>})
        /\ destroyCount' \in [Conn -> Nat]
        /\ \A t \in Conn : t # s => destroyCount'[t] = destroyCount[t]
    <3>1. CASE mustDestroy[s]
      BY <1>3, <2>2, <3>1 DEF FreeSSLFinish, ConPoolCleanup, ObjInv, ObjTypeOK
    <3>2. CASE ~mustDestroy[s]
      <4>1. conPool' = conPool /\ destroyCount' = destroyCount /\ faults' = faults
        BY <1>3, <3>2 DEF FreeSSLFinish
      <4>2. QED BY <2>2, <3>2, <4>1 DEF ObjInv, ObjTypeOK
    <3>3. QED BY <3>1, <3>2
  <2>4. FaultsConfined' /\ faults' \in SUBSET (Faults \X Conn)
    BY <2>1, <2>3, FaultAdded DEF Faults
  <2>5. RefsExact' /\ refs' \in [Ctx -> Nat] BY <2>1, DropUser DEF Allocated
  <2>6. \A d \in Ctx : ctx[d] \in {"unused", "failed"} => refs'[d] = refs[d]
    BY <1>0, <2>1 DEF ObjInv, ObjTypeOK, Allocated
  <2>7. LibInv' /\ CtxInv' BY <2>1, <2>6, ConnStepFrame
  <2>8. ObjTypeOK'
    BY <2>1, <2>3, <2>4, <2>5 DEF ObjInv, ObjTypeOK, Allocated, poolVars, ctxVars
  <2>9. ConnInv' /\ DestroyCountTrue'
    BY <2>1, <2>3 DEF ObjInv, ObjTypeOK, ConnInv, DestroyCountTrue, Allocated, ctxVars
  <2>10. QED BY <2>4, <2>5, <2>7, <2>8, <2>9 DEF ObjInv
<1>4. QED BY <1>1, <1>2, <1>3

-----------------------------------------------------------------------------
(* Every step keeps the invariant, one lemma per group of calls.           *)
LEMMA NextInv ==
  ASSUME LifecycleInv, [Next]_vars
  PROVE  LifecycleInv'
<1>1. CASE LibraryInitialize \/ LibraryTerminate \/ JNI_OnUnload \/ SSLInitialize
  BY <1>1, LibraryStepInv
<1>2. ASSUME NEW p \in Pool, (\E A \in SUBSET Pool : PoolCreate(p, A)) \/ PoolDestroy(p)
      PROVE  LifecycleInv'
  BY <1>2, PoolStepInv
<1>3. ASSUME NEW c \in Ctx, (\E p \in Pool : SSLContextMake(c, p)) \/ SSLContextFree(c)
      PROVE  LifecycleInv'
  BY <1>3, ContextStepInv
<1>4. ASSUME NEW s \in Conn, (\E c \in Ctx : NewSSLEnter(s, c)) \/ NewSSLBegin(s)
      PROVE  LifecycleInv'
  BY <1>4, NewSSLEnterInv, NewSSLBeginInv
<1>5. ASSUME NEW s \in Conn, NewSSLPool(s) \/ NewSSLFinish(s) PROVE LifecycleInv'
  BY <1>5, NewSSLFinishInv
<1>6. ASSUME NEW s \in Conn, NewSSLFail(s) \/ FreeSSLBegin(s) \/ FreeSSLFinish(s)
      PROVE  LifecycleInv'
  BY <1>6, FreeStepInv
<1>7. CASE UNCHANGED vars
  <2>1. \A c : Users(c)' = Users(c) BY <1>7, SameUsers DEF vars, connVars
  <2>2. RefsExact' BY <1>7, <2>1 DEF vars, ctxVars, LifecycleInv, ObjInv, RefsExact
  <2>3. LibInv' BY <1>7, SameLibrary DEF vars, LifecycleInv, LivePools, poolVars
  <2>4. QED BY <1>7, <2>2, <2>3 DEF vars, poolVars, ctxVars, connVars, raceVars, LifecycleInv, ObjInv,
                 ObjTypeOK, ConnInv, CtxInv, DestroyCountTrue, FaultsConfined
<1>8. QED BY <1>1, <1>2, <1>3, <1>4, <1>5, <1>6, <1>7 DEF Next

(* The invariant holds in every reachable state.                           *)
THEOREM Invariance == Spec => []LifecycleInv
<1>1. LifecycleInv /\ [Next]_vars => LifecycleInv' BY NextInv
<1>2. QED BY <1>1, InitInv, PTL DEF Spec

(* The library's variables, the states of the handles, the reference       *)
(* counts and the counters always have the values their types allow; in    *)
(* particular no reference count is ever decremented below zero.           *)
THEOREM TypeCorrect == Spec => []TypeOK
<1>1. LifecycleInv => TypeOK BY DEF LifecycleInv, ObjInv, LibInv, TypeOK
<1>2. QED BY <1>1, Invariance, PTL

(* Whatever the order of freeSSL, SSLContext.free, Pool.destroy and        *)
(* Library.terminate, the pool of a connection is destroyed once, because  *)
(* destroyCount is true; no cleanup reads a freed SSL and newSSL uses no   *)
(* context that is gone.  What goes wrong when a destruction overtakes     *)
(* newSSL or freeSSL itself goes wrong for that connection only.           *)
THEOREM NoMemoryFault == Spec => []MemorySafe
<1>1. LifecycleInv => MemorySafe
  BY DEF LifecycleInv, ObjInv, MemorySafe
<1>2. QED BY <1>1, Invariance, PTL

(* The reference count of every SSL_CTX is the number of its owners.       *)
THEOREM RefCountsExact == Spec => []RefsExact
<1>1. LifecycleInv => RefsExact BY DEF LifecycleInv, ObjInv
<1>2. QED BY <1>1, Invariance, PTL

(* When all pools are destroyed and all connections freed, every SSL_CTX   *)
(* that make returned has been freed; and a freed connection's pool is     *)
(* gone.                                                                   *)
THEOREM NoContextLeft == Spec => []NothingLeft
<1>1. LifecycleInv => NothingLeft
  <2> SUFFICES ASSUME LifecycleInv PROVE NothingLeft OBVIOUS
  <2>1. ASSUME LivePools = {}, \A s \in Conn : conn[s] \notin Allocated,
               NEW c \in Ctx, ctx[c] # "leaked"
        PROVE  refs[c] = 0
    <3>1. Users(c) = {} BY <2>1 DEF Users
    <3>2. Cardinality(Users(c)) = 0 BY <3>1, FS_EmptySet
    <3>3. ~ctxRef[c] BY <2>1 DEF LifecycleInv, ObjInv, CtxInv, LivePools, ObjTypeOK
    <3>4. QED BY <2>1, <3>2, <3>3 DEF LifecycleInv, ObjInv, RefsExact
  <2>2. \A s \in Conn : conn[s] = "freed" => conPool[s] = "dead"
    BY DEF LifecycleInv, ObjInv, ConnInv
  <2>3. QED BY <2>1, <2>2 DEF NothingLeft
<1>2. QED BY <1>1, Invariance, PTL

(* The set-up of the SSL library lives and dies with the global pool, and  *)
(* APR's initialisation count balances.                                    *)
THEOREM LibraryBalanced == Spec => []InitBalanced
<1>1. LifecycleInv => InitBalanced BY DEF LifecycleInv, LibInv, InitBalanced
<1>2. QED BY <1>1, Invariance, PTL

-----------------------------------------------------------------------------
(* The refinement.  The state that CtxState derives from the reference     *)
(* count is the one that the owners alone determine.                       *)
StateByOwners ==
  \A c \in Ctx :
    CtxState[c] = IF ctx[c] \in {"unused", "failed"} THEN "unborn"
                  ELSE IF Owners(c) # {} THEN "alive" ELSE "gone"

(* The reference count of an SSL_CTX is positive exactly while somebody    *)
(* owns it, and nobody owns one that was never made.                       *)
LEMMA AliveIsOwned ==
  ASSUME LifecycleInv, NEW c \in Ctx
  PROVE  /\ ctx[c] \in {"unused", "failed"} => Owners(c) = {}
         /\ refs[c] > 0 <=> Owners(c) # {}
<1> USE DEF LifecycleInv, ObjInv
<1>1. Cardinality(Users(c)) \in Nat /\ (Users(c) = {} <=> Cardinality(Users(c)) = 0)
  BY UsersFinite, FS_EmptySet
<1>2. refs[c] = (IF ctxRef[c] \/ ctx[c] = "leaked" THEN 1 ELSE 0) + Cardinality(Users(c))
  BY DEF RefsExact
<1>3. Owners(c) # {} <=> (ctxRef[c] \/ ctx[c] = "leaked") \/ Users(c) # {}
  BY DEF Owners
<1>4. refs[c] > 0 <=> Owners(c) # {} BY <1>1, <1>2, <1>3
<1>5. ctx[c] \in {"unused", "failed"} => refs[c] = 0 BY DEF CtxInv
<1>6. QED BY <1>4, <1>5

(* So the owners determine the state.                                      *)
LEMMA StateOwned == LifecycleInv => StateByOwners
BY AliveIsOwned DEF StateByOwners, CtxState

(* A step in which owners only let go, and no context is made or fails, is *)
(* a Release of the abstract specification.                                *)
LEMMA LettingGo ==
  ASSUME LifecycleInv, LifecycleInv',
         \A c \in Ctx : Owners(c)' \subseteq Owners(c),
         \A c \in Ctx : ctx'[c] \in {"unused", "failed"} <=> ctx[c] \in {"unused", "failed"}
  PROVE  Shared!Next
<1> DEFINE R == [c \in Ctx |-> Owners(c) \ Owners(c)']
<1>1. \A c \in Ctx : Owners(c) \subseteq Ctx \cup Conn BY DEF Owners, Users
<1>2. R \in [Ctx -> SUBSET (Ctx \cup Conn)] BY <1>1
<1>3. \A c \in Ctx : CtxHolders[c] \ R[c] = Owners(c)' BY DEF CtxHolders
<1>4. CtxHolders' = [c \in Ctx |-> CtxHolders[c] \ R[c]] BY <1>3 DEF CtxHolders
<1>5. \A c \in Ctx :
        CtxState'[c] = IF CtxState[c] = "alive" /\ CtxHolders[c] \ R[c] = {} THEN "gone" ELSE CtxState[c]
  <2> SUFFICES ASSUME NEW c \in Ctx
               PROVE  CtxState'[c] = IF CtxState[c] = "alive" /\ Owners(c)' = {} THEN "gone" ELSE CtxState[c]
    BY <1>3
  <2>1. StateByOwners BY StateOwned
  <2>2. StateByOwners' BY StateOwned, PTL
  <2>3. QED BY <2>1, <2>2 DEF StateByOwners
<1>6. CtxState' = [c \in Ctx |->
        IF CtxState[c] = "alive" /\ CtxHolders[c] \ R[c] = {} THEN "gone" ELSE CtxState[c]]
  BY <1>5 DEF CtxState
<1>7. Shared!Release(R) BY <1>4, <1>6 DEF Shared!Release
<1>8. QED BY <1>2, <1>7 DEF Shared!Next

(* SSLContext.make creates an object for its context, or nothing.          *)
LEMMA MakeRefines ==
  ASSUME LifecycleInv, LifecycleInv', NEW c \in Ctx, NEW p \in Pool, SSLContextMake(c, p)
  PROVE  Shared!Next \/ UNCHANGED <<CtxState, CtxHolders>>
<1>1. UNCHANGED <<conn, connCtx>> /\ ctx[c] = "unused" BY DEF SSLContextMake, connVars
<1>2. \A d \in Ctx : Users(d)' = Users(d) BY <1>1, SameUsers
<1>3. \A d \in Ctx \ {c} : ctx'[d] = ctx[d] /\ ctxRef'[d] = ctxRef[d]
  BY DEF SSLContextMake, MakeContext, LifecycleInv, ObjInv, ObjTypeOK
<1>4. \A d \in Ctx \ {c} : Owners(d)' = Owners(d) BY <1>2, <1>3 DEF Owners
<1>5. Owners(c) = {} /\ Users(c) = {} BY <1>1, AliveIsOwned DEF Owners
<1>6. StateByOwners /\ StateByOwners' BY StateOwned, PTL
<1>7. CtxState[c] = "unborn" BY <1>1, <1>6 DEF StateByOwners
<1>8. CASE ctx'[c] = "failed"
  <2>1. Owners(c)' = {}
    BY <1>2, <1>5, <1>8 DEF Owners, SSLContextMake, MakeContext, LifecycleInv, ObjInv, ObjTypeOK, CtxInv
  <2>2. CtxHolders' = CtxHolders BY <1>4, <1>5, <2>1 DEF CtxHolders
  <2>3. \A d \in Ctx : CtxState'[d] = CtxState[d]
    BY <1>1, <1>3, <1>4, <1>6, <1>8 DEF StateByOwners
  <2>4. CtxState' = CtxState BY <2>3 DEF CtxState
  <2>5. QED BY <2>2, <2>4
<1>9. CASE ctx'[c] \in {"made", "leaked"}
  <2>1. Owners(c)' = {c}
    BY <1>2, <1>5, <1>9 DEF Owners, SSLContextMake, MakeContext, LifecycleInv, ObjInv, ObjTypeOK
  <2>2. CtxHolders' = [CtxHolders EXCEPT ![c] = {c}] BY <1>4, <2>1 DEF CtxHolders
  <2>3. \A d \in Ctx : CtxState'[d] = IF d = c THEN "alive" ELSE CtxState[d]
    BY <1>3, <1>4, <1>6, <1>9, <2>1 DEF StateByOwners
  <2>4. CtxState' = [CtxState EXCEPT ![c] = "alive"] BY <2>3 DEF CtxState
  <2>5. Shared!Create(c, c) BY <1>7, <2>2, <2>4 DEF Shared!Create
  <2>6. QED BY <2>5 DEF Shared!Next
<1>10. ctx'[c] \in {"made", "leaked", "failed"}
  BY DEF SSLContextMake, MakeContext, LifecycleInv, ObjInv, ObjTypeOK
<1>11. QED BY <1>8, <1>9, <1>10

(* SSL_new acquires the object for the connection.                         *)
LEMMA NewSSLRefines ==
  ASSUME LifecycleInv, LifecycleInv', NEW s \in Conn, NewSSLBegin(s),
         refs[connCtx[s]] > 0, conn' = [conn EXCEPT ![s] = "creating"]
  PROVE  Shared!Next
<1>0. PICK c \in Ctx : c = connCtx[s] BY DEF LifecycleInv, ObjInv, ObjTypeOK
<1>1. /\ conn[s] = "entering" /\ refs[c] > 0
      /\ UNCHANGED <<ctx, ctxRef, connCtx>>
  BY <1>0 DEF NewSSLBegin, ctxVars
<1>2. Users(c)' = Users(c) \cup {s} /\ (\A d \in Ctx : d # c => Users(d)' = Users(d))
  BY <1>0, <1>1 DEF Users, LifecycleInv, ObjInv, ObjTypeOK, Allocated
<1>3. Owners(c)' = Owners(c) \cup {s} /\ (\A d \in Ctx : d # c => Owners(d)' = Owners(d))
  BY <1>1, <1>2 DEF Owners
<1>4. CtxHolders' = [CtxHolders EXCEPT ![c] = CtxHolders[c] \cup {s}] BY <1>3 DEF CtxHolders
<1>5. StateByOwners /\ StateByOwners' BY StateOwned, PTL
<1>6. Owners(c) # {} /\ ctx[c] \notin {"unused", "failed"} BY <1>1, AliveIsOwned
<1>7. CtxState[c] = "alive" BY <1>5, <1>6 DEF StateByOwners
<1>8. \A d \in Ctx : CtxState'[d] = CtxState[d]
  BY <1>1, <1>3, <1>5, <1>6 DEF StateByOwners
<1>9. CtxState' = CtxState BY <1>8 DEF CtxState
<1>10. Shared!Acquire(c, s) BY <1>4, <1>7, <1>9 DEF Shared!Acquire
<1>11. QED BY <1>10 DEF Shared!Next

(* Every step of Lifecycle is a step of SharedObject or changes nothing    *)
(* of it.                                                                  *)
LEMMA StepRefines ==
  ASSUME LifecycleInv, LifecycleInv', [Next]_vars
  PROVE  [Shared!Next]_<<CtxState, CtxHolders>>
<1> DEFINE Unborn(c) == ctx[c] \in {"unused", "failed"}
           Goes == /\ \A c \in Ctx : Users(c)' \subseteq Users(c)
                   /\ \A c \in Ctx : ctxRef'[c] \/ ctx'[c] = "leaked" => ctxRef[c] \/ ctx[c] = "leaked"
                   /\ \A c \in Ctx : Unborn(c)' <=> Unborn(c)
<1> USE DEF LifecycleInv, ObjInv
<1>1. ASSUME Goes PROVE Shared!Next
  <2>1. \A c \in Ctx : Owners(c)' \subseteq Owners(c) BY <1>1 DEF Owners
  <2>2. QED BY <1>1, <2>1, LettingGo
<1>2. ASSUME UNCHANGED <<conn, connCtx, ctx, ctxRef>> PROVE Goes
  BY <1>2, SameUsers
<1>3. ASSUME NEW D \in SUBSET Pool, DestroyPools(D) PROVE Goes
  <2>1. UNCHANGED <<conn, connCtx>> BY <1>3 DEF DestroyPools
  <2>2. \A c \in Ctx : ctxRef'[c] => ctxRef[c] BY <1>3 DEF DestroyPools, DropContextRef
  <2>3. \A c \in Ctx : ctx'[c] = ctx[c] \/ (ctx[c] = "made" /\ ctx'[c] = "dead")
    BY <1>3 DEF DestroyPools, CtxIn
  <2>4. QED BY <2>1, <2>2, <2>3, SameUsers
<1>4. CASE LibraryInitialize \/ SSLInitialize
  BY <1>1, <1>2, <1>4 DEF LibraryInitialize, SSLInitialize, ctxVars, connVars
<1>5. LivePools \in SUBSET Pool BY DEF LivePools
<1>6. CASE LibraryTerminate BY <1>1, <1>3, <1>5, <1>6 DEF LibraryTerminate
<1>7. CASE JNI_OnUnload
  BY <1>1, <1>2, <1>3, <1>5, <1>7 DEF JNI_OnUnload, ctxVars, connVars
<1>8. ASSUME NEW p \in Pool, NEW A \in SUBSET Pool, PoolCreate(p, A) PROVE Shared!Next
  BY <1>1, <1>2, <1>8 DEF PoolCreate, ctxVars, connVars
<1>9. ASSUME NEW p \in Pool, PoolDestroy(p) PROVE Shared!Next
  <2>1. {q \in LivePools : p \in anc[q]} \in SUBSET Pool BY <1>5
  <2>2. QED BY <1>1, <1>3, <1>9, <2>1 DEF PoolDestroy
<1>10. ASSUME NEW c \in Ctx, NEW p \in Pool, SSLContextMake(c, p)
       PROVE  Shared!Next \/ UNCHANGED <<CtxState, CtxHolders>>
  BY <1>10, MakeRefines
<1>11. ASSUME NEW c \in Ctx, SSLContextFree(c) PROVE Shared!Next
  <2>1. UNCHANGED <<conn, connCtx, ctx>> BY <1>11 DEF SSLContextFree, connVars
  <2>2. \A d \in Ctx : ctxRef'[d] => ctxRef[d] BY <1>11 DEF SSLContextFree, DropContextRef
  <2>3. QED BY <1>1, <2>1, <2>2, SameUsers
<1>12. ASSUME NEW s \in Conn, (\E c \in Ctx : NewSSLEnter(s, c)) \/ NewSSLBegin(s)
       PROVE  Shared!Next
  <2>1. CASE \E c \in Ctx : NewSSLEnter(s, c)
    <3>1. UNCHANGED <<ctx, ctxRef>> BY <2>1 DEF NewSSLEnter, ctxVars
    <3>2. \A d \in Ctx : Users(d)' = Users(d)
      BY <2>1 DEF NewSSLEnter, Users, ObjTypeOK, Allocated
    <3>3. QED BY <1>1, <3>1, <3>2
  <2>2. CASE NewSSLBegin(s) /\ conn' = [conn EXCEPT ![s] = "failed"]
    <3>1. UNCHANGED <<ctx, ctxRef, connCtx>> /\ conn[s] = "entering"
      BY <2>2 DEF NewSSLBegin, ctxVars
    <3>2. \A d \in Ctx : Users(d)' = Users(d)
      BY <2>2, <3>1 DEF Users, ObjTypeOK, Allocated
    <3>3. QED BY <1>1, <3>1, <3>2
  <2>3. CASE NewSSLBegin(s) /\ conn' # [conn EXCEPT ![s] = "failed"]
    BY <2>3, NewSSLRefines DEF NewSSLBegin
  <2>4. QED BY <1>12, <2>1, <2>2, <2>3
<1>13. ASSUME NEW s \in Conn,
              \/ NewSSLPool(s) \/ NewSSLFinish(s) \/ NewSSLFail(s)
              \/ FreeSSLBegin(s) \/ FreeSSLFinish(s)
       PROVE  Shared!Next
  <2>1. UNCHANGED <<ctx, ctxRef, connCtx>>
    BY <1>13 DEF NewSSLPool, NewSSLFinish, NewSSLFail, FreeSSLBegin, FreeSSLFinish, ctxVars
  <2>2. conn[s] \in Allocated /\ (\A t \in Conn : t # s => conn'[t] = conn[t])
    BY <1>13 DEF NewSSLPool, NewSSLFinish, NewSSLFail, FreeSSLBegin, FreeSSLFinish,
                 ObjTypeOK, Allocated
  <2>3. \A d \in Ctx : Users(d)' \subseteq Users(d) BY <2>1, <2>2 DEF Users
  <2>4. QED BY <1>1, <2>1, <2>3
<1>14. CASE UNCHANGED vars BY <1>1, <1>2, <1>14 DEF vars, ctxVars, connVars
<1>15. QED
  BY <1>4, <1>6, <1>7, <1>8, <1>9, <1>10, <1>11, <1>12, <1>13, <1>14 DEF Next

(* Reference counting implements shared ownership: an SSL_CTX is freed in  *)
(* the very step in which the last of its context and its connections lets *)
(* go of it, in whatever order they do, for any number of them.            *)
THEOREM RefinesSharedObject == Spec => SharedOwnership
<1>1. Init => Shared!Init
  <2> SUFFICES ASSUME Init PROVE Shared!Init OBVIOUS
  <2>1. CtxState = [c \in Ctx |-> "unborn"] BY DEF Init, CtxState
  <2>2. \A c \in Ctx : Owners(c) = {} BY DEF Init, Owners, Users, Allocated
  <2>3. CtxHolders = [c \in Ctx |-> {}] BY <2>2 DEF CtxHolders
  <2>4. QED BY <2>1, <2>3 DEF Shared!Init
<1>2. LifecycleInv /\ LifecycleInv' /\ [Next]_vars => [Shared!Next]_(Shared!vars)
  BY StepRefines DEF Shared!vars
<1>3. QED BY <1>1, <1>2, Invariance, PTL DEF Spec, SharedOwnership, Shared!Spec
=============================================================================
