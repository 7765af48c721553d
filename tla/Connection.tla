------------------------------- MODULE Connection -------------------------------
(***************************************************************************)
(* The connections of one server context while they are in use: the info   *)
(* callback that OpenSSL calls during handshakes, SSL.setVerify and        *)
(* SSLContext.setVerify, the Java verifier, SSLContext.free, renegotiation *)
(* and post-handshake authentication (ssl.c, sslcontext.c, sslutils.c).    *)
(*                                                                         *)
(* Each connection is driven by a thread of its own; the context is shared *)
(* without a lock.  OpenSSL (external) decides which handshakes start,     *)
(* looks up the info callback of the SSL_CTX each time it needs it, copies *)
(* the verify flag of the SSL_CTX into a new SSL, and calls the verify     *)
(* callback when the peer has sent a certificate it asked for.  The        *)
(* SSL_CTX, with its callbacks, lives on after SSLContext.free while there *)
(* are connections.  One thread configures the context, and only before it *)
(* frees it; setCertVerifyCallback and SSL_cert_verify are split at every  *)
(* access to the verifier that the other may see.  Accesses are atomic and *)
(* seen in program order; a callback that finds no usable verifier is      *)
(* recorded, and its connection goes on as if it had found one.            *)
(***************************************************************************)
EXTENDS Integers

CONSTANTS
  Conn,          \* connections of the context
  InputLevels,   \* levels that callers pass to setVerify
  MaxHandshakes, \* bound: handshakes per connection
  MaxVerifiers   \* bound: Java verifiers that are set

Level == {"UNSET", "NONE", "OPTIONAL", "REQUIRE", "OPTIONAL_NO_CA"}
Asking == {"OPTIONAL", "REQUIRE", "OPTIONAL_NO_CA"}

ASSUME ConnectionAssumption ==
  /\ InputLevels \subseteq Level
  /\ MaxHandshakes \in Nat \ {0}
  /\ MaxVerifiers \in Nat

VARIABLES
  infoCallback,   \* the info callback of the SSL_CTX
  verifyMode,     \* tcn_ssl_ctxt_t.verify_mode
  ctxAsks,        \* the SSL_CTX asks the peer for a certificate
  certVerify,     \* SSL_cert_verify is the verify callback of the SSL_CTX
  verifier,       \* tcn_ssl_ctxt_t.verifier, 0 if NULL
  method,         \* tcn_ssl_ctxt_t.verifier_method: whose method it is
  setting,        \* how far setCertVerifyCallback has come
  globalRefs,     \* external: global references of verifiers that exist
  verifiers,      \* verifiers set so far
  freed,          \* SSLContext.free has been called
  state,          \* what each connection is doing
  tls13,          \* has the connection negotiated TLS 1.3?
  asks,           \* the SSL asks the peer for a certificate
  handshakeCount, \* the counter in app_data3
  renegState,     \* tcn_ssl_conn_t.reneg_state
  phaState,       \* tcn_ssl_conn_t.pha_state
  reading,        \* the verifier that SSL_cert_verify has read, or 0
  pending,        \* external: a request sent to the client has no answer yet
  completed,      \* history: handshakes OpenSSL has completed
  marked,         \* history: connections Java has marked complete
  overlapped,     \* history: connections whose last SSL_cert_verify ran
                  \*   while the verifier was replaced, or freed
  missed          \* history: connections whose last SSL_cert_verify had no
                  \*   verifier with its method

verifierVars == <<certVerify, verifier, method, setting, globalRefs, verifiers>>
ctxVars  == <<infoCallback, verifyMode, ctxAsks, verifierVars, freed>>
connVars == <<tls13, asks, handshakeCount, renegState, phaState, reading, pending>>
callVars == <<overlapped, missed>>
histVars == <<completed, marked, callVars>>
vars     == <<ctxVars, state, connVars, histVars>>

TypeOK ==
  /\ infoCallback \in {"SSL_callback_handshake", "ssl_info_callback"}
  /\ verifyMode \in Level /\ ctxAsks \in BOOLEAN
  /\ certVerify \in BOOLEAN /\ freed \in BOOLEAN
  /\ verifier \in 0..MaxVerifiers /\ verifiers \in 0..MaxVerifiers
  /\ method \in 0..MaxVerifiers /\ setting \in {"idle", "deleted", "stored"}
  /\ globalRefs \subseteq 1..MaxVerifiers
  /\ state \in [Conn -> {"unused", "new", "handshake", "open", "verify", "call"}]
  /\ tls13 \in [Conn -> BOOLEAN] /\ asks \in [Conn -> BOOLEAN]
  /\ handshakeCount \in [Conn -> 0..MaxHandshakes]
  /\ renegState \in [Conn -> {"INIT", "REJECT", "ALLOW", "ABORT"}]
  /\ phaState \in [Conn -> {"NONE", "STARTED", "COMPLETE"}]
  /\ reading \in [Conn -> 0..MaxVerifiers]
  /\ pending \in [Conn -> BOOLEAN]
  /\ completed \in [Conn -> 0..MaxHandshakes]
  /\ marked \in SUBSET Conn /\ overlapped \in SUBSET Conn /\ missed \in SUBSET Conn

(* SSLContext.make has installed SSL_callback_handshake. *)
Init ==
  /\ infoCallback = "SSL_callback_handshake"
  /\ verifyMode = "UNSET" /\ ctxAsks = FALSE
  /\ certVerify = FALSE /\ verifier = 0 /\ method = 0 /\ setting = "idle"
  /\ globalRefs = {} /\ verifiers = 0
  /\ freed = FALSE
  /\ state = [s \in Conn |-> "unused"]
  /\ tls13 = [s \in Conn |-> FALSE] /\ asks = [s \in Conn |-> FALSE]
  /\ handshakeCount = [s \in Conn |-> 0]
  /\ renegState = [s \in Conn |-> "INIT"]
  /\ phaState = [s \in Conn |-> "NONE"]
  /\ reading = [s \in Conn |-> 0]
  /\ pending = [s \in Conn |-> FALSE]
  /\ completed = [s \in Conn |-> 0]
  /\ marked = {} /\ overlapped = {} /\ missed = {}

-----------------------------------------------------------------------------
(* The callbacks *)

(* ssl_info_callback counts completed handshakes; SSL_callback_handshake    *)
(* tracks renegotiations, except on TLS 1.3.  OpenSSL calls the one that is *)
(* installed when the event occurs.                                         *)
InfoCallback_CountsStart(s, event, v13) ==
  /\ handshakeCount' =
       IF infoCallback = "ssl_info_callback"
         THEN [handshakeCount EXCEPT ![s] = @ + 1] ELSE handshakeCount
  /\ UNCHANGED renegState
InfoCallback(s, event, v13) ==
  /\ handshakeCount' =
       IF infoCallback = "ssl_info_callback" /\ event = "done"
         THEN [handshakeCount EXCEPT ![s] = @ + 1] ELSE handshakeCount
  /\ renegState' =
       IF infoCallback = "SSL_callback_handshake" /\ ~v13
         THEN [renegState EXCEPT ![s] =
                 IF event = "start" /\ @ = "REJECT" THEN "ABORT"
                 ELSE IF event = "done" /\ @ = "INIT" THEN "REJECT" ELSE @]
         ELSE renegState

(* The peer's certificate, if it sent one, is verified by                   *)
(* SSL_callback_SSL_verify: SSL_cert_verify is not installed.               *)
VerifyCallback(s, certificate) ==
  /\ certificate => ~certVerify
  /\ phaState' = IF certificate THEN [phaState EXCEPT ![s] = "COMPLETE"] ELSE phaState

-----------------------------------------------------------------------------
(* The context *)

Effective(level) == IF level = "UNSET" THEN "NONE" ELSE level

SSLContextSetVerify(level) ==
  /\ ~freed
  /\ verifyMode' = Effective(level)
  /\ ctxAsks' = (level \in Asking)
  /\ UNCHANGED <<infoCallback, verifierVars, freed, state, connVars, histVars>>

(* setCertVerifyCallback(null) uninstalls the callback and keeps the        *)
(* verifier.                                                                *)
ClearVerifier_Deletes ==
  /\ ~freed /\ setting = "idle"
  /\ certVerify' = FALSE
  /\ globalRefs' = globalRefs \ {verifier}
  /\ UNCHANGED <<infoCallback, verifyMode, ctxAsks, verifier, method, setting, verifiers, freed, state, connVars, histVars>>
ClearVerifier ==
  /\ ~freed /\ setting = "idle"
  /\ certVerify' = FALSE
  /\ UNCHANGED <<infoCallback, verifyMode, ctxAsks, verifier, method, setting, globalRefs, verifiers, freed, state, connVars, histVars>>

(* The connections that are in SSL_cert_verify. *)
Verifying == {s \in Conn : state[s] \in {"verify", "call"}}

(* setCertVerifyCallback with a verifier: first the reference to the        *)
(* previous one, if any, is deleted, ...                                    *)
DeleteOldVerifier ==
  /\ ~freed /\ setting = "idle" /\ verifiers < MaxVerifiers
  /\ setting' = "deleted"
  /\ globalRefs' = globalRefs \ {verifier}
  /\ overlapped' = overlapped \cup Verifying
  /\ UNCHANGED <<infoCallback, verifyMode, ctxAsks, certVerify, verifier, method, verifiers, freed, state, connVars, completed, marked, missed>>

(* ... then the new one is stored, with a reference, ...                    *)
StoreVerifier ==
  /\ setting = "deleted"
  /\ setting' = "stored"
  /\ verifiers' = verifiers + 1
  /\ verifier' = verifiers + 1
  /\ globalRefs' = globalRefs \cup {verifiers + 1}
  /\ UNCHANGED <<infoCallback, verifyMode, ctxAsks, certVerify, method, freed, state, connVars, histVars>>

(* ... and last its method, and the callback is installed.                  *)
InstallVerifier ==
  /\ setting = "stored"
  /\ setting' = "idle"
  /\ method' = verifier
  /\ certVerify' = TRUE
  /\ UNCHANGED <<infoCallback, verifyMode, ctxAsks, verifier, globalRefs, verifiers, freed, state, connVars, histVars>>

(* The part of ssl_context_cleanup that concerns the verifier. *)
SSLContextFree ==
  /\ ~freed /\ setting = "idle"
  /\ freed' = TRUE
  /\ globalRefs' = globalRefs \ {verifier}
  /\ verifier' = 0
  /\ method' = 0
  /\ overlapped' = overlapped \cup Verifying
  /\ UNCHANGED <<infoCallback, verifyMode, ctxAsks, certVerify, setting, verifiers, state, connVars, completed, marked, missed>>

(* newSSL replaces the info callback of the context every time. *)
NewSSL_KeepsCallback(s) ==
  /\ state[s] = "unused" /\ ~freed
  /\ state' = [state EXCEPT ![s] = "new"]
  /\ asks' = [asks EXCEPT ![s] = ctxAsks]
  /\ UNCHANGED <<ctxVars, tls13, handshakeCount, renegState, phaState, reading, pending, histVars>>
NewSSL(s) ==
  /\ state[s] = "unused" /\ ~freed
  /\ state' = [state EXCEPT ![s] = "new"]
  /\ infoCallback' = "ssl_info_callback"
  /\ asks' = [asks EXCEPT ![s] = ctxAsks]
  /\ UNCHANGED <<verifyMode, ctxAsks, verifierVars, freed, tls13, handshakeCount, renegState, phaState, reading, pending, histVars>>

-----------------------------------------------------------------------------
(* The calls on a connection *)

InUse(s) == state[s] # "unused"

(* SSL.setVerify: the mode goes to the context, the flag to the SSL. *)
SetVerify(s, level) ==
  /\ InUse(s)
  /\ verifyMode' = Effective(level)
  /\ asks' = [asks EXCEPT ![s] = (level \in Asking)]
  /\ UNCHANGED <<infoCallback, ctxAsks, verifierVars, freed, state, tls13, handshakeCount, renegState, phaState, reading, pending, histVars>>

(* doHandshake, or SSL_read on a renegotiation that Java or the client      *)
(* started: a handshake begins.  TLS 1.3 has no renegotiation.              *)
StartHandshake(s) ==
  /\ \/ state[s] = "new"
     \/ state[s] = "open" /\ ~tls13[s]
  /\ completed[s] < MaxHandshakes
  /\ state' = [state EXCEPT ![s] = "handshake"]
  /\ InfoCallback(s, "start", tls13[s])
  /\ UNCHANGED <<ctxVars, tls13, asks, phaState, reading, pending, histVars>>

(* The end of a handshake, which fixed the version the first time. *)
CompleteHandshake(s) ==
  /\ state' = [state EXCEPT ![s] = "open"]
  /\ \E v \in BOOLEAN :
       /\ completed[s] > 0 => v = tls13[s]
       /\ tls13' = [tls13 EXCEPT ![s] = v]
  /\ InfoCallback(s, "done", tls13'[s])
  /\ completed' = [completed EXCEPT ![s] = @ + 1]

(* The rest of a handshake without SSL_cert_verify: the certificate is      *)
(* verified if it asked for one and got it.                                 *)
FinishHandshake(s, certificate) ==
  /\ state[s] = "handshake"
  /\ certificate => asks[s]
  /\ VerifyCallback(s, certificate)
  /\ CompleteHandshake(s)
  /\ UNCHANGED <<ctxVars, asks, reading, pending, marked, callVars>>

(* OpenSSL calls SSL_cert_verify with the certificate that came with a      *)
(* handshake or with the answer to a post-handshake request; ...            *)
BeginVerify(s) ==
  /\ certVerify
  /\ \/ state[s] = "handshake" /\ asks[s]
     \/ state[s] = "open" /\ pending[s]
  /\ state' = [state EXCEPT ![s] = "verify"]
  /\ overlapped' = IF freed \/ setting # "idle" THEN overlapped \cup {s} ELSE overlapped \ {s}
  /\ missed' = missed \ {s}
  /\ UNCHANGED <<ctxVars, connVars, completed, marked>>

(* ... it reads the verifier, ...                                           *)
ReadVerifier(s) ==
  /\ state[s] = "verify"
  /\ state' = [state EXCEPT ![s] = "call"]
  /\ reading' = [reading EXCEPT ![s] = verifier]
  /\ UNCHANGED <<ctxVars, tls13, asks, handshakeCount, renegState, phaState, pending, histVars>>

(* ... and the method, and calls it.  The handshake, or the request, ends   *)
(* with the certificate accepted.  The call is undefined when the reference *)
(* is gone or the method is another verifier's.                             *)
CallVerifier(s) ==
  /\ state[s] = "call"
  /\ missed' = IF reading[s] \in globalRefs /\ method = reading[s]
                 THEN missed ELSE missed \cup {s}
  /\ reading' = [reading EXCEPT ![s] = 0]
  /\ \/ /\ ~pending[s]
        /\ CompleteHandshake(s)
        /\ UNCHANGED pending
     \/ /\ pending[s]
        /\ state' = [state EXCEPT ![s] = "open"]
        /\ pending' = [pending EXCEPT ![s] = FALSE]
        /\ UNCHANGED <<tls13, handshakeCount, renegState, completed>>
  /\ UNCHANGED <<ctxVars, asks, phaState, marked, overlapped>>

(* verifyClientPostHandshake marks the request as started and then asks    *)
(* OpenSSL, which refuses it before TLS 1.3, without the verify flag, with *)
(* a request pending, or when the client did not offer it.                 *)
VerifyClientPostHandshake_NotMarked(s, offered) ==
  /\ state[s] = "open"
  /\ pending' = [pending EXCEPT ![s] = @ \/ (offered /\ tls13[s] /\ asks[s])]
  /\ marked' = marked \ {s}
  /\ UNCHANGED <<ctxVars, state, tls13, asks, handshakeCount, renegState, phaState, reading, completed, callVars>>
VerifyClientPostHandshake(s, offered) ==
  /\ state[s] = "open"
  /\ phaState' = [phaState EXCEPT ![s] = "STARTED"]
  /\ pending' = [pending EXCEPT ![s] = @ \/ (offered /\ tls13[s] /\ asks[s])]
  /\ marked' = marked \ {s}
  /\ UNCHANGED <<ctxVars, state, tls13, asks, handshakeCount, renegState, reading, completed, callVars>>

(* The client answers the request, without a certificate or with one that   *)
(* does not go to SSL_cert_verify.                                          *)
ClientAnswers(s, certificate) ==
  /\ state[s] = "open" /\ pending[s]
  /\ pending' = [pending EXCEPT ![s] = FALSE]
  /\ VerifyCallback(s, certificate)
  /\ UNCHANGED <<ctxVars, state, tls13, asks, handshakeCount, renegState, reading, histVars>>

(* Java marks the authentication complete, whether or not the client has    *)
(* answered.                                                                *)
MarkPostHandshakeAuthComplete(s) ==
  /\ InUse(s)
  /\ phaState' = [phaState EXCEPT ![s] = "COMPLETE"]
  /\ marked' = marked \cup {s}
  /\ UNCHANGED <<ctxVars, state, tls13, asks, handshakeCount, renegState, reading, pending, completed, callVars>>

Next ==
  \/ \E level \in InputLevels : SSLContextSetVerify(level)
  \/ ClearVerifier
  \/ DeleteOldVerifier
  \/ StoreVerifier
  \/ InstallVerifier
  \/ SSLContextFree
  \/ \E s \in Conn :
       \/ NewSSL(s)
       \/ \E level \in InputLevels : SetVerify(s, level)
       \/ StartHandshake(s)
       \/ \E certificate \in BOOLEAN : FinishHandshake(s, certificate)
       \/ BeginVerify(s)
       \/ ReadVerifier(s)
       \/ CallVerifier(s)
       \/ \E offered \in BOOLEAN : VerifyClientPostHandshake(s, offered)
       \/ \E certificate \in BOOLEAN : ClientAnswers(s, certificate)
       \/ MarkPostHandshakeAuthComplete(s)

Spec == Init /\ [][Next]_vars

-----------------------------------------------------------------------------
(* getHandshakeCount returns the number of handshakes completed on this     *)
(* connection, although the callback that counts them belongs to the        *)
(* context and newSSL exchanges it under handshakes that are in progress.   *)
CountExact == \A s \in Conn : handshakeCount[s] = completed[s]

(* getPostHandshakeAuthInProgress reports a request that has no answer yet, *)
(* until Java itself marks it complete: no other connection, no handshake   *)
(* and no change of the verify mode or of the verifier ends it.             *)
PendingInProgress ==
  \A s \in Conn : pending[s] /\ s \notin marked => phaState[s] = "STARTED"

(* "If the first handshake is complete, change state to reject any          *)
(* subsequent client-initated renegotiation" (sslutils.c:428).              *)
RenegotiationTracked ==
  \A s \in Conn : state[s] = "open" /\ ~tls13[s] => renegState[s] # "INIT"

(* Every global reference of a verifier is deleted once: what is left is    *)
(* the one the context holds, and none while setCertVerifyCallback is       *)
(* between deleting the old one and storing the new one.  There is no lock  *)
(* between it and SSL_cert_verify, so a callback may find a deleted         *)
(* reference, or a method that is not its verifier's; it does so only if a  *)
(* replacement or SSLContext.free overlapped that very callback.  Removing  *)
(* the callback disturbs none.                                              *)
VerifierHeld ==
  /\ globalRefs = IF setting = "deleted" THEN {} ELSE {verifier} \ {0}
  /\ missed \subseteq overlapped
=============================================================================
