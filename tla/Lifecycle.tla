------------------------------- MODULE Lifecycle -------------------------------
(***************************************************************************)
(* Ownership of the native objects behind the Java handles: the global APR *)
(* pool (jnilib.c), the pools of the Java class Pool (pool.c), the         *)
(* tcn_ssl_ctxt_t and SSL_CTX of SSLContext (sslcontext.c) and the SSL,    *)
(* tcn_ssl_conn_t and counters of a connection (ssl.c).                    *)
(*                                                                         *)
(* A destroyed pool first destroys its child pools, then runs its          *)
(* registered cleanups, then releases its memory.  Connection pools are    *)
(* children of the pool of their context; a context lives in a Java pool.  *)
(* SSL_CTX objects are reference counted by OpenSSL: one reference belongs *)
(* to tcn_ssl_ctxt_t.ctx and one to every SSL made from it.                *)
(*                                                                         *)
(* A call that fails before it has changed anything (SSL.initialize        *)
(* without a global pool, newSSL on a freed context, make without a        *)
(* protocol) is a stuttering step.                                         *)
(*                                                                         *)
(* What Java promises: a handle is passed to its release function at most  *)
(* once (SSLContext.free excepted), contexts and pools are not used after  *)
(* their pool is gone, and Library.initialize, Library.terminate and       *)
(* SSL.initialize run alone (the write lock of AprStatus).  freeSSL is     *)
(* allowed after the pool is gone: destroyCount is there for that order.   *)
(*                                                                         *)
(* Nothing keeps SSLContext.free or Pool.destroy in one thread from        *)
(* running between two steps of newSSL or freeSSL in another.  The model   *)
(* lets them: it notes the connection as overlapped, and every access to   *)
(* released memory that follows, with the connection whose call makes it.  *)
(* After such an access it goes on as if the memory still held what it     *)
(* held when it was released.                                              *)
(***************************************************************************)
EXTENDS Integers, FiniteSets

CONSTANTS
  Pool,        \* handles that Pool.create can return
  Ctx,         \* handles that SSLContext.make can return
  Conn,        \* handles that SSL.newSSL can return
  MaxFailures, \* bound: failed calls of Library.initialize
  MaxSslInit   \* bound: SSL.initialize calls per initialisation

ASSUME ConstantsAssumption ==
  /\ IsFiniteSet(Conn)
  /\ Pool # {}
  /\ Ctx # {}
  /\ MaxFailures \in Nat
  /\ MaxSslInit \in Nat

VARIABLES
  loaded,        \* between JNI_OnLoad and JNI_OnUnload
  globalPool,    \* tcn_global_pool # NULL
  aprCount,      \* calls of apr_initialize not yet matched by apr_terminate
  initFailures,  \* history: Library.initialize calls that returned JNI_FALSE
  sslInit,       \* ssl_initialized
  sslCleanup,    \* ssl_init_cleanup is registered with the global pool
  bioMethods,    \* jbs_methods is allocated
  pool,          \* state of every Java pool
  anc,           \* the pool and its ancestors, the global pool left out
  ctx,           \* state of every tcn_ssl_ctxt_t
  ctxPool,       \* tcn_ssl_ctxt_t.pool
  ctxRef,        \* tcn_ssl_ctxt_t.ctx # NULL: it owns a reference
  registered,    \* ssl_context_cleanup is registered with ctxPool
  refs,          \* OpenSSL's reference count of the SSL_CTX
  conn,          \* state of every SSL
  connCtx,       \* app_data2 of the SSL, and the SSL_CTX it refers to
  conPool,       \* the pool that holds the tcn_ssl_conn_t
  destroyCount,  \* the counter in app_data4
  mustDestroy,   \* freeSSL found *destroyCount == 0
  overlapped,    \* history: connections whose newSSL or freeSSL was overtaken
                 \* by the destruction of their pool or context
  faults         \* observation: memory errors, each with its connection

libVars  == <<loaded, globalPool, aprCount, initFailures, sslInit, sslCleanup, bioMethods>>
poolVars == <<pool, anc>>
ctxVars  == <<ctx, ctxPool, ctxRef, registered>>
connVars == <<conn, connCtx, conPool, destroyCount, mustDestroy>>
raceVars == <<overlapped, faults>>
vars     == <<libVars, poolVars, ctxVars, refs, connVars, raceVars>>

Faults == {"double_destroy", "use_after_free", "null_context"}

(* States in which an SSL is allocated and holds a reference of its SSL_CTX. *)
Allocated == {"creating", "building", "live", "freeing"}

LibTypeOK ==
  /\ loaded \in BOOLEAN /\ globalPool \in BOOLEAN
  /\ aprCount \in Nat /\ initFailures \in Nat
  /\ sslInit \in Nat /\ sslCleanup \in BOOLEAN /\ bioMethods \in BOOLEAN

ObjTypeOK ==
  /\ pool \in [Pool -> {"unused", "live", "dead"}]
  /\ anc \in [Pool -> SUBSET Pool]
  /\ ctx \in [Ctx -> {"unused", "made", "dead", "failed", "leaked"}]
  /\ ctxPool \in [Ctx -> Pool]
  /\ ctxRef \in [Ctx -> BOOLEAN]
  /\ registered \in [Ctx -> BOOLEAN]
  /\ refs \in [Ctx -> Nat]
  /\ conn \in [Conn -> {"unused", "entering", "failed", "freed"} \cup Allocated]
  /\ connCtx \in [Conn -> Ctx]
  /\ conPool \in [Conn -> {"none", "live", "dead"}]
  /\ destroyCount \in [Conn -> Nat]
  /\ mustDestroy \in [Conn -> BOOLEAN]
  /\ overlapped \in SUBSET Conn
  /\ faults \in SUBSET (Faults \X Conn)

TypeOK == LibTypeOK /\ ObjTypeOK

Init ==
  /\ loaded = TRUE /\ globalPool = FALSE
  /\ aprCount = 0 /\ initFailures = 0
  /\ sslInit = 0 /\ sslCleanup = FALSE /\ bioMethods = FALSE
  /\ pool = [p \in Pool |-> "unused"]
  /\ anc = [p \in Pool |-> {}]
  /\ ctx = [c \in Ctx |-> "unused"]
  /\ ctxPool = [c \in Ctx |-> CHOOSE p \in Pool : TRUE]
  /\ ctxRef = [c \in Ctx |-> FALSE]
  /\ registered = [c \in Ctx |-> FALSE]
  /\ refs = [c \in Ctx |-> 0]
  /\ conn = [s \in Conn |-> "unused"]
  /\ connCtx = [s \in Conn |-> CHOOSE c \in Ctx : TRUE]
  /\ conPool = [s \in Conn |-> "none"]
  /\ destroyCount = [s \in Conn |-> 0]
  /\ mustDestroy = [s \in Conn |-> FALSE]
  /\ overlapped = {}
  /\ faults = {}

-----------------------------------------------------------------------------
(* Destroying pools *)

(* The connections of C whose newSSL is between two of its steps ... *)
Opening(C) ==
  {s \in Conn : conn[s] \in {"entering", "creating", "building"} /\ connCtx[s] \in C}

(* ... and those whose newSSL or freeSSL is. *)
Busy(C) == Opening(C) \cup {s \in Conn : conn[s] = "freeing" /\ connCtx[s] \in C}

(* The write lock of AprStatus: no other call is in progress. *)
WriteLock == Busy(Ctx) = {}

CtxIn(D) == {c \in Ctx : ctx[c] = "made" /\ ctxPool[c] \in D}

(* ssl_context_cleanup drops the reference of c->ctx and clears the field, *)
(* so that a second run finds nothing to release.                          *)
DropContextRef_Unguarded(C) ==
  /\ refs' = [c \in Ctx |-> IF c \in C THEN refs[c] - 1 ELSE refs[c]]
  /\ ctxRef' = [c \in Ctx |-> ctxRef[c] /\ c \notin C]
DropContextRef(C) ==
  /\ refs' = [c \in Ctx |-> IF c \in C /\ ctxRef[c] THEN refs[c] - 1 ELSE refs[c]]
  /\ ctxRef' = [c \in Ctx |-> ctxRef[c] /\ c \notin C]

(* ssl_con_pool_cleanup runs when the pool of a connection is destroyed *)
(* and counts that in the connection's destroyCount.                    *)
ConPoolCleanup(S) ==
  destroyCount' = [s \in Conn |-> IF s \in S THEN destroyCount[s] + 1 ELSE destroyCount[s]]

(* apr_pool_destroy of the pools D, a set closed under descendants: the *)
(* connection pools of the contexts in D go first, then the contexts.   *)
(* newSSL registers the cleanup of a connection pool at its very end.   *)
DestroyPools(D) ==
  LET C == CtxIn(D)
      S == {s \in Conn : conPool[s] = "live" /\ ctxPool[connCtx[s]] \in D}
      R == {s \in S : conn[s] # "building"}
  IN  /\ overlapped' = overlapped \cup Busy({c \in Ctx : ctxPool[c] \in D})
      /\ pool' = [p \in Pool |-> IF p \in D THEN "dead" ELSE pool[p]]
      /\ conPool' = [s \in Conn |-> IF s \in S THEN "dead" ELSE conPool[s]]
      /\ ConPoolCleanup(R)
      /\ faults' = faults \cup ({"use_after_free"} \X {s \in R : conn[s] \notin Allocated})
      /\ DropContextRef({c \in C : registered[c]})
      /\ registered' = [c \in Ctx |-> registered[c] /\ c \notin C]
      /\ ctx' = [c \in Ctx |-> IF c \in C THEN "dead" ELSE ctx[c]]
      /\ UNCHANGED <<anc, ctxPool, conn, connCtx, mustDestroy>>

LivePools == {p \in Pool : pool[p] = "live"}

-----------------------------------------------------------------------------
(* jnilib.c *)

LibraryInitialize ==
  /\ loaded /\ ~globalPool /\ WriteLock
  /\ aprCount' = aprCount + 1
  /\ \/ globalPool' = TRUE /\ UNCHANGED initFailures
     \/ /\ initFailures < MaxFailures       \* apr_pool_create failed
        /\ initFailures' = initFailures + 1
        /\ UNCHANGED globalPool
  /\ UNCHANGED <<loaded, sslInit, sslCleanup, bioMethods, poolVars, ctxVars, refs, connVars, raceVars>>

(* ssl_init_cleanup, the cleanup of the global pool. *)
SslInitCleanup ==
  /\ sslCleanup' = FALSE
  /\ sslInit' = IF sslCleanup THEN 0 ELSE sslInit
  /\ bioMethods' = IF sslCleanup /\ sslInit > 0 THEN FALSE ELSE bioMethods

LibraryTerminate_NoAprTerminate ==
  /\ loaded /\ globalPool /\ WriteLock
  /\ globalPool' = FALSE
  /\ DestroyPools(LivePools)
  /\ SslInitCleanup
  /\ UNCHANGED <<loaded, initFailures, aprCount>>
LibraryTerminate ==
  /\ loaded /\ globalPool /\ WriteLock
  /\ globalPool' = FALSE
  /\ DestroyPools(LivePools)
  /\ SslInitCleanup
  /\ aprCount' = aprCount - 1
  /\ UNCHANGED <<loaded, initFailures>>

(* The last apr_terminate destroys every pool that is left. *)
JNI_OnUnload ==
  /\ loaded /\ WriteLock
  /\ loaded' = FALSE
  /\ IF globalPool
       THEN /\ aprCount' = aprCount - 1
            /\ IF aprCount = 1
                 THEN DestroyPools(LivePools) /\ SslInitCleanup
                 ELSE UNCHANGED <<sslInit, sslCleanup, bioMethods, poolVars, ctxVars, refs, connVars, raceVars>>
       ELSE UNCHANGED <<aprCount, sslInit, sslCleanup, bioMethods, poolVars, ctxVars, refs, connVars, raceVars>>
  /\ UNCHANGED <<globalPool, initFailures>>

(* ssl.c: only the first call of an initialisation does the work. *)
SSLInitialize ==
  /\ loaded /\ globalPool /\ WriteLock
  /\ sslInit < MaxSslInit
  /\ sslInit' = sslInit + 1
  /\ IF sslInit > 0
       THEN UNCHANGED <<sslCleanup, bioMethods>>
       ELSE sslCleanup' = TRUE /\ bioMethods' = TRUE
  /\ UNCHANGED <<loaded, globalPool, aprCount, initFailures, poolVars, ctxVars, refs, connVars, raceVars>>

-----------------------------------------------------------------------------
(* pool.c *)

(* A is the set of ancestors: empty for parent 0, which means the global pool. *)
PoolCreate(p, A) ==
  /\ loaded /\ globalPool
  /\ pool[p] = "unused"
  /\ \/ A = {}
     \/ \E q \in Pool : pool[q] = "live" /\ A = anc[q]
  /\ pool' = [pool EXCEPT ![p] = "live"]
  /\ anc' = [anc EXCEPT ![p] = A \cup {p}]
  /\ UNCHANGED <<libVars, ctxVars, refs, connVars, raceVars>>

PoolDestroy(p) ==
  /\ loaded /\ globalPool
  /\ pool[p] = "live"
  /\ DestroyPools({q \in LivePools : p \in anc[q]})
  /\ UNCHANGED libVars

-----------------------------------------------------------------------------
(* sslcontext.c *)

(* The outcomes of make once it has an SSL_CTX: a usable context; no memory *)
(* for the tcn_ssl_ctxt_t, which loses the SSL_CTX; no known protocol in    *)
(* the mask, which frees the SSL_CTX and leaves the cleanup unregistered.   *)
MakeContext_NotRegistered(c, p) ==
  /\ ctx' = [ctx EXCEPT ![c] = "made"]
  /\ ctxPool' = [ctxPool EXCEPT ![c] = p]
  /\ ctxRef' = [ctxRef EXCEPT ![c] = TRUE]
  /\ refs' = [refs EXCEPT ![c] = 1]
  /\ UNCHANGED registered
MakeContext(c, p) ==
  /\ ctx' = [ctx EXCEPT ![c] = "made"]
  /\ ctxPool' = [ctxPool EXCEPT ![c] = p]
  /\ ctxRef' = [ctxRef EXCEPT ![c] = TRUE]
  /\ registered' = [registered EXCEPT ![c] = TRUE]
  /\ refs' = [refs EXCEPT ![c] = 1]

SSLContextMake(c, p) ==
  /\ loaded /\ ctx[c] = "unused"
  /\ pool[p] = "live"
  /\ \/ MakeContext(c, p)
     \/ /\ ctx' = [ctx EXCEPT ![c] = "leaked"]
        /\ refs' = [refs EXCEPT ![c] = 1]
        /\ UNCHANGED <<ctxPool, ctxRef, registered>>
     \/ /\ ctx' = [ctx EXCEPT ![c] = "failed"]
        /\ UNCHANGED <<ctxPool, ctxRef, registered, refs>>
  /\ UNCHANGED <<libVars, poolVars, connVars, raceVars>>

(* apr_pool_cleanup_run: forget the registration and run the cleanup, *)
(* which may have run before.                                         *)
SSLContextFree(c) ==
  /\ loaded /\ ctx[c] = "made"
  /\ overlapped' = overlapped \cup Opening({c})
  /\ DropContextRef({c})
  /\ registered' = [registered EXCEPT ![c] = FALSE]
  /\ UNCHANGED <<libVars, poolVars, ctx, ctxPool, connVars, faults>>

-----------------------------------------------------------------------------
(* ssl.c: connections *)

(* newSSL reads c->ctx ... *)
NewSSLEnter(s, c) ==
  /\ loaded /\ conn[s] = "unused"
  /\ ctx[c] = "made" /\ ctxRef[c]
  /\ conn' = [conn EXCEPT ![s] = "entering"]
  /\ connCtx' = [connCtx EXCEPT ![s] = c]
  /\ UNCHANGED <<libVars, poolVars, ctxVars, refs, conPool, destroyCount, mustDestroy, raceVars>>

(* ... and passes it to SSL_new, which takes a reference of the SSL_CTX or *)
(* finds no memory.  The SSL_CTX may have been freed since.                *)
NewSSLBegin(s) ==
  LET c == connCtx[s]
  IN  /\ loaded /\ conn[s] = "entering"
      /\ \/ /\ refs[c] > 0
            /\ conn' = [conn EXCEPT ![s] = "creating"]
            /\ refs' = [refs EXCEPT ![c] = @ + 1]
            /\ UNCHANGED faults
         \/ /\ conn' = [conn EXCEPT ![s] = "failed"]
            /\ faults' = IF refs[c] > 0 THEN faults
                         ELSE faults \cup {<<"use_after_free", s>>}
            /\ UNCHANGED refs
      /\ UNCHANGED <<libVars, poolVars, ctxVars, connCtx, conPool, destroyCount, mustDestroy, overlapped>>

(* Reading a field of the tcn_ssl_ctxt_t, which its pool releases. *)
ReadContext(s) ==
  faults' = IF ctx[connCtx[s]] = "made" THEN faults
            ELSE faults \cup {<<"use_after_free", s>>}

(* The pool of the connection, a child of c->pool, and its tcn_ssl_conn_t. *)
NewSSLPool(s) ==
  /\ loaded /\ conn[s] = "creating"
  /\ conn' = [conn EXCEPT ![s] = "building"]
  /\ conPool' = [conPool EXCEPT ![s] = "live"]
  /\ ReadContext(s)
  /\ UNCHANGED <<libVars, poolVars, ctxVars, refs, connCtx, destroyCount, mustDestroy, overlapped>>

(* No pool or no memory for the connection: newSSL frees the SSL again. *)
NewSSLFail_KeepsSSL(s) ==
  /\ loaded /\ conn[s] = "creating"
  /\ conn' = [conn EXCEPT ![s] = "failed"]
  /\ ReadContext(s)
  /\ UNCHANGED <<libVars, poolVars, ctxVars, refs, connCtx, conPool, destroyCount, mustDestroy, overlapped>>
NewSSLFail(s) ==
  /\ loaded /\ conn[s] = "creating"
  /\ conn' = [conn EXCEPT ![s] = "failed"]
  /\ ReadContext(s)
  /\ refs' = [refs EXCEPT ![connCtx[s]] = @ - 1]
  /\ UNCHANGED <<libVars, poolVars, ctxVars, connCtx, conPool, destroyCount, mustDestroy, overlapped>>

(* The rest of newSSL: the fields, the counters, SSL_CTX_set_info_callback *)
(* on c->ctx as it now is, and the cleanup.                                *)
NewSSLFinish(s) ==
  LET c == connCtx[s]
  IN  /\ loaded /\ conn[s] = "building"
      /\ conn' = [conn EXCEPT ![s] = "live"]
      /\ destroyCount' = [destroyCount EXCEPT ![s] = 0]
      /\ IF ctx[c] = "made" /\ ~ctxRef[c]
           THEN faults' = faults \cup {<<"null_context", s>>}
           ELSE ReadContext(s)
      /\ UNCHANGED <<libVars, poolVars, ctxVars, refs, connCtx, conPool, mustDestroy, overlapped>>

(* freeSSL reads the counter to find out whether the pool is still there. *)
FreeSSLBegin_Unchecked(s) ==
  /\ loaded /\ conn[s] = "live"
  /\ conn' = [conn EXCEPT ![s] = "freeing"]
  /\ mustDestroy' = [mustDestroy EXCEPT ![s] = TRUE]
  /\ UNCHANGED <<libVars, poolVars, ctxVars, refs, connCtx, conPool, destroyCount, raceVars>>
FreeSSLBegin(s) ==
  /\ loaded /\ conn[s] = "live"
  /\ conn' = [conn EXCEPT ![s] = "freeing"]
  /\ mustDestroy' = [mustDestroy EXCEPT ![s] = (destroyCount[s] = 0)]
  /\ UNCHANGED <<libVars, poolVars, ctxVars, refs, connCtx, conPool, destroyCount, raceVars>>

(* freeSSL destroys the pool if it decided so, frees counters and SSL. *)
FreeSSLFinish(s) ==
  /\ loaded /\ conn[s] = "freeing"
  /\ conn' = [conn EXCEPT ![s] = "freed"]
  /\ IF mustDestroy[s]
       THEN /\ conPool' = [conPool EXCEPT ![s] = "dead"]
            /\ ConPoolCleanup({s})
            /\ faults' = IF conPool[s] = "live" THEN faults
                                                ELSE faults \cup {<<"double_destroy", s>>}
       ELSE UNCHANGED <<conPool, destroyCount, faults>>
  /\ refs' = [refs EXCEPT ![connCtx[s]] = @ - 1]
  /\ UNCHANGED <<libVars, poolVars, ctxVars, connCtx, mustDestroy, overlapped>>

-----------------------------------------------------------------------------
Next ==
  \/ LibraryInitialize
  \/ LibraryTerminate
  \/ JNI_OnUnload
  \/ SSLInitialize
  \/ \E p \in Pool :
       \/ \E A \in SUBSET Pool : PoolCreate(p, A)
       \/ PoolDestroy(p)
  \/ \E c \in Ctx :
       \/ \E p \in Pool : SSLContextMake(c, p)
       \/ SSLContextFree(c)
  \/ \E s \in Conn :
       \/ \E c \in Ctx : NewSSLEnter(s, c)
       \/ NewSSLBegin(s)
       \/ NewSSLPool(s)
       \/ NewSSLFinish(s)
       \/ NewSSLFail(s)
       \/ FreeSSLBegin(s)
       \/ FreeSSLFinish(s)

Spec == Init /\ [][Next]_vars

-----------------------------------------------------------------------------
(* Properties *)

(* The SSLs that hold a reference of the SSL_CTX of c. *)
Users(c) == {s \in Conn : conn[s] \in Allocated /\ connCtx[s] = c}

(* No pool is destroyed twice, in whichever order freeSSL and the destruction *)
(* of a pool above the connection run ("Register cleanup that prevent double  *)
(* destruction", ssl.c:599); ssl_con_pool_cleanup, which reads the SSL, never *)
(* runs on a freed one; and newSSL never works on a context that has been     *)
(* cleaned up: except in a call that the destruction has overtaken.           *)
FaultsConfined == \A f \in faults : f[2] \in overlapped

(* destroyCount tells freeSSL the truth: while a connection is live the      *)
(* counter is zero exactly as long as the connection's pool, in which the    *)
(* tcn_ssl_conn_t lives, has not been destroyed, whoever destroyed it; what  *)
(* freeSSL concluded still holds when it acts on it.  For a connection that  *)
(* was overtaken one half is left: a counter above zero is never wrong.      *)
DestroyCountTrue ==
  \A s \in Conn :
    /\ conn[s] = "live" /\ destroyCount[s] > 0 => conPool[s] = "dead"
    /\ conn[s] = "freeing" /\ ~mustDestroy[s] => conPool[s] = "dead"
    /\ s \notin overlapped =>
         /\ conn[s] = "live" /\ destroyCount[s] = 0 => conPool[s] = "live"
         /\ conn[s] = "freeing" /\ mustDestroy[s] => conPool[s] = "live"

(* In every order of make, free, newSSL, freeSSL and the destruction of     *)
(* pools, no memory is freed twice or used after it is freed, and the       *)
(* counter by which freeSSL and ssl_con_pool_cleanup agree on that is true. *)
(* The one exception is the connection whose own newSSL or freeSSL runs     *)
(* while its pool is destroyed or, for newSSL, its context is freed; no     *)
(* other connection, and no later call of another, is harmed by it.         *)
MemorySafe == FaultsConfined /\ DestroyCountTrue

(* The reference count of an SSL_CTX is exactly the number of its owners:     *)
(* the context (or make's error path that loses it) and its connections. So   *)
(* it outlives SSLContext.free for as long as a connection needs it.          *)
RefsExact ==
  \A c \in Ctx :
    refs[c] = (IF ctxRef[c] \/ ctx[c] = "leaked" THEN 1 ELSE 0) + Cardinality(Users(c))

(* Once every pool is destroyed and every connection freed, no SSL_CTX that *)
(* make returned is left: a context whose pool is gone has been cleaned up, *)
(* by SSLContext.free or by the pool.  Nor is the pool of a freed           *)
(* connection left, overtaken or not.                                       *)
NothingLeft ==
  /\ (/\ LivePools = {}
      /\ \A s \in Conn : conn[s] \notin Allocated)
     => \A c \in Ctx : ctx[c] # "leaked" => refs[c] = 0
  /\ \A s \in Conn : conn[s] = "freed" => conPool[s] = "dead"

(* ssl_initialized, the BIO methods and the registered cleanup go together, *)
(* and none of them survives the global pool: the first SSL.initialize      *)
(* after a terminate does all of the set-up again.                          *)
SslInitTied ==
  /\ sslInit > 0 <=> sslCleanup
  /\ bioMethods <=> sslCleanup
  /\ sslCleanup => globalPool

(* apr_initialize and apr_terminate balance, up to the calls of             *)
(* Library.initialize that failed; and no pool outlives the library.        *)
AprBalanced ==
  /\ aprCount = initFailures + (IF globalPool /\ loaded THEN 1 ELSE 0)
  /\ LivePools # {} => globalPool /\ aprCount > 0

(* The set-up of OpenSSL and of APR is done and undone together, through    *)
(* any sequence of initialize, terminate and unload, and failures of them.  *)
InitBalanced == SslInitTied /\ AprBalanced

(* The owners of the SSL_CTX of c: its context, or nobody that can be reached *)
(* when make lost it (both are written c), and its connections.               *)
Owners(c) == (IF ctxRef[c] \/ ctx[c] = "leaked" THEN {c} ELSE {}) \cup Users(c)

(* What has become of every SSL_CTX, by its reference count. *)
CtxState == [c \in Ctx |-> IF ctx[c] \in {"unused", "failed"} THEN "unborn"
                           ELSE IF refs[c] > 0 THEN "alive" ELSE "gone"]
CtxHolders == [c \in Ctx |-> Owners(c)]

Shared == INSTANCE SharedObject WITH
  Object  <- Ctx,
  Holder  <- Ctx \cup Conn,
  state   <- CtxState,
  holders <- CtxHolders

(* The reference counting of SSL_CTX across make, SSLContext.free, newSSL,    *)
(* freeSSL and the destruction of pools implements shared ownership: it is    *)
(* freed in the step in which its last owner lets go, never earlier or later. *)
SharedOwnership == Shared!Spec
=============================================================================
