# Tomcat Native: TLA+ models, checks and proofs

Tomcat Native is the JNI library through which Apache Tomcat uses OpenSSL and
APR. Its native half (`src/native`) keeps C objects behind `long` handles that
Java holds (`src/java/org/apache/tomcat/jni`). This project models the parts
that keep state or run a protocol: who owns the native objects, how a peer's
certificate is verified and checked with OCSP, how connections share a
context, and how a context gets its settings, credentials, chains and
protocols. Every definition is written from the C code; `PROJECT.json` maps
each one to its lines.

## The system

| Part | State | Operations | What makes it correct |
|---|---|---|---|
| library (`jnilib.c`) | global APR pool, APR's own counter | `Library.initialize`, `terminate`, `JNI_OnUnload` | APR calls balance; nothing outlives the library |
| pools (`pool.c`) | tree of APR pools | `Pool.create`, `destroy` | children go before parents, cleanups run once |
| OpenSSL set-up (`ssl.c`) | `ssl_initialized`, BIO methods, a cleanup of the global pool | `SSL.initialize`, `ssl_init_cleanup` | set up once per initialisation, again after a terminate |
| contexts (`sslcontext.c`) | `tcn_ssl_ctxt_t` in a Java pool, an `SSL_CTX` with a reference count | `make`, `free`, the pool's cleanup | the `SSL_CTX` is freed once, when its last user is gone |
| connections, ownership (`ssl.c`) | `SSL`, a child pool of the context's pool, counters outside it | `newSSL`, `freeSSL`, `ssl_con_pool_cleanup` | no double destruction, no use after free, in any order of frees |
| connections, use (`ssl.c`, `sslcontext.c`, `sslutils.c`) | info callback, verify mode and Java verifier of the context; handshake counter, renegotiation and post-handshake states | handshakes, `setVerify`, `setCertVerifyCallback`, `verifyClientPostHandshake`, `SSLContext.free`, callbacks | connections that share a context do not disturb each other; the verifier that is called is one that is held, unless it is being replaced |
| certificate verification (`sslutils.c`) | mode, depth, OCSP settings; the error of the `X509_STORE_CTX` | `setVerify`, `SSL_callback_SSL_verify`, `ssl_verify_OCSP`, `ssl_ocsp_request`, `process_ocsp_response` | depth and errors are enforced; a revocation is final |
| OCSP exchange (`sslutils.c`) | request BIO, pool, socket, growing buffer | `get_ocsp_response`, `ocsp_send_req`, `ocsp_get_resp` | bytes in bounds, whole request, everything released, ends |
| OCSP responder URLs (`sslutils.c`) | the activations of a recursive descent, the array of URLs | `decode_OCSP_url`, `parse_ASN1_Sequence`, `parse_ASN1_OID`, `parse_ocsp_url`, `parse_asn1_length` | exactly the URIs of an encoded extension, no byte outside it; bounded recursion on any value, and an end |
| SSL_CONF (`sslconf.c`) | settings of a configuration and of the context it is assigned to | `make`, `check`, `assign`, `apply`, `free` | what is in force is what the documented calls say |
| ALPN (`sslcontext.c`, `sslutils.c`) | protocol list of a context, with one byte for the length of a name, and its length | `setAlpnProtos`, `initProtocols`, `select_next_proto` | no overrun, list and length agree, the context's preference decides, only offered names are selected |
| certificates and passwords (`sslcontext.c`, `sslutils.c`) | key and certificate slots, what the `SSL_CTX` serves, one global password | `setCertificate`, `setCertificateRaw`, `SSL_password_callback` | success means that what was loaded is served; objects are freed when unused, damage stays with its context |
| chain, CAs, CRLs, ciphers (`sslcontext.c`, `ssl.c`, `sslutils.c`, `sslconf.c`) | chains and store of the `SSL_CTX`, announced CAs, cipher lists, OpenSSL's error queue of each thread | `setCertificateChainFile`, `addChainCertificateRaw`, `setCACertificate`, `addClientCACertificateRaw`, `setCARevocation`, `setCipherSuite`, `setCipherSuites`, `CipherString`, `getLastErrorNumber` | a result speaks of its own call; what succeeded stays in force; nothing leaks |

How they interact. Java calls each function from any thread; only
`Library.initialize`, `Library.terminate` and `SSL.initialize` run under the
write lock of `AprStatus`. OpenSSL calls back during a handshake: the info
callback and the verify callback, which works with the settings of the context
and, for OCSP, contacts responders over sockets of its own. APR calls the
registered cleanups when a pool is destroyed, children first. OpenSSL reports
errors through one queue per thread, so calls on different objects that run on
one thread see each other's errors.

What is hard: the same object can be released through several doors (a free
function, the destruction of a pool above it, `terminate`, unload) in any
order; `newSSL` and `freeSSL` work in steps on what another thread may free;
connections write fields of the shared context without a lock; responders may
be silent, slow, wrong or contradict each other; a failed call leaves half of
its work and its errors behind for the next one; lengths and timeouts are C
ints. `PROJECT.json` lists these as hazards, each at its line.

## Modules

| Module | Models | Notes |
|---|---|---|
| `Lifecycle` | library, pools, OpenSSL set-up, ownership of contexts and connections | the composition of the five owners: they interact in `DestroyPools` |
| `SharedObject` | abstract: an object lives until its last holder lets go | implemented by `Lifecycle` for `SSL_CTX` |
| `OcspFetch` | one exchange with a responder | lengths are real, contents are not |
| `CertVerify` | verification of one chain with its OCSP checks | uses the outcome of an `OcspFetch` exchange as an `Answer` |
| `Connection` | the connections of one context in use | verify levels, handshakes, renegotiation, post-handshake authentication, the Java verifier |
| `OcspUrls` | the decoding of the responders' URLs of a certificate | a recursive C function as a stack machine; bytes of a small base |
| `SSLConf` | configurations and the contexts they are assigned to | ints with a width |
| `Alpn` | the protocol list of one context, built and used | a name is a model of its bytes with a length |
| `Credentials` | certificates, keys and the shared password of several contexts | reference counts of the objects |
| `ContextSetup` | chains, CAs, CRLs and cipher lists of a context, and the error queues | files are abstracted to how many certificates they have and how they end |
| `LifecycleProofs`, `OcspProofs`, `CertVerifyProofs`, `ConnectionProofs`, `ContextSetupProofs`, `AlpnProofs`, `CredentialsProofs`, `SSLConfProofs` | theorems about the module each is named after, `OcspProofs` about `OcspFetch` and `OcspUrls` | for all values of the constants |
| `MC*` | the modules as TLC runs them | constants are in the `.cfg` files |

Definitions such as `Close_KeepsSocket` stand before the one they vary
(`Close`): each is that definition with a plausible mistake, and makes the
property it is paired with in `PROJECT.json` fail. They are not used otherwise.

### Lifecycle

Handles are the elements of `Pool`, `Ctx` and `Conn`; a handle is used for one
object only. A Java pool has the set `anc` of its ancestors, so destroying one
destroys the live pools that have it among their ancestors. `DestroyPools` is
`apr_pool_destroy` with all the cleanups it runs: connection pools first
(`ssl_con_pool_cleanup` counts in `destroyCount` and reads the `SSL`), then
`ssl_context_cleanup` for every context that is still registered. `newSSL` and
`freeSSL` are split where they look at something that another thread may
change: `newSSL` after reading `c->ctx` (`NewSSLEnter`), after `SSL_new`
(`NewSSLBegin`), after the pool of the connection is made (`NewSSLPool`) and
before the cleanup is registered (`NewSSLFinish`); `freeSSL` between the test of
`*destroyCount` and `apr_pool_destroy`. Failures inside are actions: no global
pool after `apr_initialize`, no memory in `make` (which loses the `SSL_CTX`), no
known protocol, no `SSL`, pool or memory in `newSSL`.

The library takes no lock between these steps and `SSLContext.free` or
`Pool.destroy` in another thread, so the model lets them interleave.
`overlapped` remembers the connections whose call was overtaken in this way;
`faults` records, each with its connection, a step that destroys a pool twice,
reads a freed `SSL` or context, or finds `c->ctx` cleared. After such a step the
model goes on as if the memory still held what it held when it was released.
`MemorySafe` says that a fault happens only in an overtaken call and belongs to
its own connection; `RefsExact`, `NothingLeft` and `SharedOwnership` hold in
all interleavings.

### OcspFetch

`pc` follows `get_ocsp_response`: URL and request, `make_socket`, the two
nested loops of `ocsp_send_req` (`NextChunk`, `Send`), the loop of
`ocsp_get_resp` (`Receive`), `EndOfResponse`, and the common end. Each
call can fail. `parse_ocsp_resp` is a choice between a response and none.

### CertVerify

OpenSSL is external: it walks from the top of the chain down to depth 0,
may report an error at each certificate, and stops when the callback returns
0. Each action is one call of the callback, or one responder asked within it.
`error` is sticky, as in the `X509_STORE_CTX`. An answer is the check of
`process_ocsp_response` at which a response fails; where the code reads times
that were never set (a response without the certificate), the outcome is a
choice. The histories `asked`, `seen` and `reported` serve the
properties only.

### Connection

Handshakes are two steps, start and end, so that other connections, `newSSL`
and `setVerify` can come between them. The info callback belongs to the
context and is looked up at each event. What OpenSSL does (when a handshake
starts, the version, whether a post-handshake request is possible, whether
the peer sends a certificate) is a choice within what OpenSSL allows.

`certVerify` is the callback installed in the `SSL_CTX`, `verifier` and
`method` the fields of the context's structure and `globalRefs` the references
that the virtual machine holds. `setCertVerifyCallback` with a verifier is
`DeleteOldVerifier`, `StoreVerifier` and `InstallVerifier`, without one it is
`ClearVerifier`; a call of `SSL_cert_verify` is `BeginVerify`, `ReadVerifier`
and `CallVerifier`, so that every access which the other side may see is a step.
The accesses are atomic and seen in program order. `SSLContextFree` deletes the
reference and leaves the callback installed. `missed` are the connections whose
last callback had no reference, or a method that is not its verifier's;
`overlapped` those whose last callback ran while the verifier was replaced or
the context freed. `VerifierHeld` says that the stored reference is the only one
held, and that `missed` is contained in `overlapped`: there is no other way to
lose the verifier.

`markPostHandshakeAuthComplete` sets the state unconditionally, also while a
request has no answer. `marked` remembers that Java called it since the last
request; `PendingInProgress` speaks of the requests that Java has not marked.

### OcspUrls

`parse_ASN1_Sequence` calls itself for a nested sequence without telling it
where the sequence ends: an activation stops at an OID, at an error or at the
byte 0 behind the whole value. `stack` holds the activations with their local
variables, the running one last; `EnterSequence` is the call, `Return` what the
caller does with the result (skip `len` bytes from where it was), and
`decode_OCSP_url` the end. The behaviours are `UrlSpec`, from `UrlInit` with the
steps `UrlNext`.

The value of the extension is what the certificate has in it: OpenSSL does not
decode it, and `ssl_ocsp_request` passes the raw octets (`sslutils.c:1107`). It
is either an encoding (`Encoded`) or any member of `Raw` (`Arbitrary`). `Encode`
is the authority that issued the certificate, external to this code: it gives
every extension of up to `MaxItems` descriptions in DER, and also lengths and
elements that the decoder refuses. `Contents` joins the descriptions one by one;
contents that would need four bytes for their length, 16 MB in the code, are
left out (`MaxContent`). No length is compared with the length of the value:
`TurnInside` says whether all that one turn of the loop reads, through
`parse_ASN1_OID` and `parse_ocsp_url`, lies in the copy. A turn for which it does
not hold is `ReadOutside`, and the model says nothing of what follows
(`response = "undefined"`). For encodings the properties say that this never
happens and that the result is what was encoded; for all values, that the
recursion is bounded by the length of the value and that the walk comes to an
end or to such a turn.

### ContextSetup

`queue` is OpenSSL's error queue of each thread (external): `Push` adds errors
and drops the oldest beyond the limit, `SSL_ERR_get` takes the oldest. Call
number n of a behaviour reads the certificates `<<n, 1>>`, `<<n, 2>>`, ... and
also stands for the CAs and CRLs it loads, so that a property can tell the
files apart. `ChainFileNotRead`, `ChainFileRead` and `ChainFileNotAdded` are
the ways through `SSL_CTX_use_certificate_chain`; `OnlyEnd` is its test that
the error is only the end of the file. `c->crl` is not a variable: it is set to
NULL by a failure and fetched again, and is always the store of the context.
The histories `last` (the last `setCertificateChainFile`), `thrown` (the last
exception of `SSLConf`, with the call its error came from) and `promised` (the
CRLs and trusted CAs of calls that returned true, and the CAs that such calls
have put into the list for clients) serve the properties only.
`setCACertificate` returns true whether or not the list for clients could be
loaded or extended: `ClientCAList` has the outcomes, and what was put into the
list is `promised.announced`.

### SSLConf

Arguments are abstracted to what `strcasecmp` and `strtol` make of them. The
history `calls` is the sequence of calls made; the properties recompute from it
what should be in force and compare.

### Alpn

`SetAlpnProtos`, `AddProtocol` (one turn of the loop), `ReallocFails` and
`FinishProtocols` are `initProtocols` and its caller; `BeginSelect`,
`TryProtocol` (one turn of the outer loop) and `NoMatch` are
`select_next_proto`. The length of a name is written into one byte:
`LengthByte` is what the cast leaves of it, `ByteValues` the number of values of
a byte, and a name is `IsLong` if its length does not fit. The counter `i` and
the pointer of `select_next_proto` move differently: `k` counts the names the
pointer has passed. Of a long name the loop compares only as many bytes as its
length byte says (`MatchPrefix`) and stops inside it (`adrift`). There, and
behind the list, it reads whatever is there, any length in `Stray`
(`ReadStray`). OpenSSL may refuse a client's list with a long name
(`Advertise`). The history `last` is the selection that has just ended, with
the list, behaviour and offer it was made from.

### Credentials

A call goes through `step`: opening the file (`Open`, `FileMissing`, `Prompt`,
`Answer`), the certificate of a PEM file (`LoadPemCert`), and handing both to
the `SSL_CTX` (`UseCredentials`). Calls on different contexts interleave
between these steps and share `password`. The `SSL_CTX` serves a certificate and
a key for each type of key, while a slot of the context takes any type: a
certificate of one type stays served when the slot gets one of another. `refs`
are OpenSSL's reference counts; `released` are objects given to `free()`. The
histories: `overwritten` names the objects whose slot `setCertificate` wrote
over, which nothing frees any more; `replaced` the contexts whose slot
`setCertificateRaw` found filled, so that it used `free()`; `touched` those whose
`SSL_CTX` then read or gave back a released object.

## Runs

| Run | Bounds | Shows |
|---|---|---|
| `lifecycle` | 2 pools, 2 contexts, 2 connections, 1 failed initialisation, 2 `SSL.initialize` | no double destruction or use after free outside overtaken calls, which harm no other connection; exact reference counts, nothing left behind, `SharedOwnership` |
| `ocsp_fetch` | buffers of 3 and 4, cap 37, request of 7 | copies in bounds, bounded memory, whole request, release, termination |
| `cert_verify` | chains of up to 4, depths to 2, 3 responders | depth, errors, revocation, hard-fail, every verification ends |
| `ocsp_urls` | bytes of 12 values, up to 3 descriptions, texts of 0, 3 and 45 bytes; every value of up to 4 of 7 bytes, descriptions with wrong lengths or cut off, nested sequences of length 0 | of encodings exactly the OCSP URIs and reads in bounds; of all values bounded recursion, and an end of the walk or a read behind the copy |
| `connection` | 2 connections, 2 levels, 2 handshakes each, 2 verifiers | the counter is exact, requests are in progress until marked, the verifier is held once and missed only by a callback that its replacement overlaps |
| `renegotiation` | as `connection` | finding: `reneg_state` stays `RENEG_INIT` |
| `ssl_conf` | 2 configurations, 2 contexts, 2 settings, 4 calls | the documented call sequence decides what is in force |
| `alpn` | first buffer of 4 bytes, a length byte of 4 values, limit of 8, names of 0, 1, 3, 5 and 9 bytes, lists of up to 3, offers of up to 2 | no overrun by names that fit, list and length agree, preference decides unless a long name comes first, only offered names are selected |
| `alpn_last` | same, other bytes behind the list | finding: the last protocol is the client's |
| `credentials` | 2 contexts, 2 passwords, 2 types of keys, 3 loading calls | success serves what was loaded, objects are freed when unused, the damage of `free()` is confined |
| `context_setup` | 2 threads, 3 calls, files of up to 2 certificates, queues of 3 errors | chains without leaks or mixtures, own errors reported, promises kept |
| `chain_errors` | same | finding: an older error of the thread decides |

Why the bounds are enough. Two of each handle give every relation between two
objects (parent and child pool, two contexts in one pool or in two, two
connections of one context or of two); the theorems remove the bound. The sizes
of `OcspFetch` keep the proportions that matter: a request of several chunks
with a short last one, a receive buffer as large as the first response buffer,
three doublings below the cap and a cap that is no multiple of the buffer; the
theorems hold for all sizes. A chain of four is longer than any depth that can
be set, and three responders give every order of silent, wrong, good and
revoked. Two connections suffice for what one does to another. Four calls on
configurations contain check, assign, check, assign and check, assign, apply
through one or two of them. An int of 8 bits (`Half = 128`) with a factor of 10 has numbers
that fit before and not after the conversion, as 32 bits and 1000 have.
With a first buffer of 4 bytes the names of 3 and 5 bytes fill it exactly and
exceed it, and three of them force two doublings, as names around 127 bytes do
with 128. With a length byte of 4 values the name of 5 bytes gets the length
byte of the name of 1 byte, as one of 258 bytes gets that of `h2`, and the name
of 9 bytes is over the limit. Offers of two names have a last one that is not the first. Three
loading calls on two contexts put one call between two of the other context,
or three on one slot; with two types of keys one call can leave the other's
certificate served. Contexts, passwords and types are interchangeable, so their
permutations are a symmetry.
With a base of 12 lengths below 6 take one byte, the text of 45 bytes takes a
length of three and three descriptions with it one of four, so every form of
length that the decoder knows occurs at some level; one OID has the length of OCSP's, another begins
with it, and one text consists of bytes that are tags. Three descriptions give
one before and one after any other. The values that are no encoding use the
bytes that the decoder tells apart (0, a foreign tag, the three tags, a length
that needs one more byte and one that needs two), in every order up to four, and
the lengths of a description one too short, right, and too long. Two calls that leave errors behind and a
third that suffers from them are enough for what a queue does, one call leaves
up to two errors, and a queue of three overflows. Two threads show that the
queues are apart. Two verifiers are one that is replaced and its successor.
`InputLevels` leaves out the levels that differ from those given only inside
`CertVerify`.

Deadlock is checked in no run, because every system here may stop: an
exchange, a verification and a walk end, the library is unloaded, a context is
freed, and the bound on calls is used up. That what should end does end is
stated as `Terminates`, `Decides` and `Decoded`.

Fairness. `OcspFetch` and `CertVerify` assume `WF_vars(Next)`, `OcspUrls`
`WF_urlVars(UrlNext)` (in `FairUrlSpec`): the thread that runs the handshake
goes on as long as it can, and a socket call returns, at the latest at its
timeout. The second part is true for a timeout that is not negative (see the
overflow below). Nothing is assumed about which outcome a call has.

### Findings

1. `renegotiation`: `newSSL` replaces the callback that moves `reneg_state`
   (`ssl.c:584`), so it stays `RENEG_INIT`.
2. `alpn_last`: without a match `select_next_proto` selects the last protocol
   of the client's list (`sslutils.c:482`), where its comment speaks of our
   own.
3. `chain_errors`: `SSL_CTX_use_certificate_chain` takes the oldest error of
   the thread for the one that ended its loop (`sslutils.c:281`; "Make sure
   that only the error is just an EOF"). An error left by an earlier call makes
   the reading of a good file fail, with its chain in place; an end of file
   left behind makes a damaged file succeed.

### Divergences without a run

Met while modelling, part of the models, and stated here only:

* After the loop over the responders the error becomes
  `X509_V_ERR_UNABLE_TO_GET_CRL`, the one that soft-fail excuses, also if a
  responder answered with an invalid response (`sslutils.c:1146`;
  `changelog.xml:175` describes responders that cannot be contacted).
* `SSL.setVerify` changes the level of every connection of the context
  (`ssl.c:1045`), so a renegotiation may not use "the reconfigured client
  verification level" of its own connection (`SSL.java:1044`).
* A password stored by any earlier call is used instead of the prompt that
  `SSLContext.java:189` documents (`sslutils.c:165`).
* The NULL behind the array of URLs is written one entry behind what the array
  grew by (`sslutils.c:625`; "NULL terminated array", `sslutils.c:688`); the
  model's `urls` has no terminator.
* `apply` recognises `CipherString` in one spelling (`sslconf.c:309`), OpenSSL
  in any case; with another spelling the disabled ciphers are not removed,
  which `sslconf.c:312` says is done "no matter what was given in the config".
* `SSLContext.free` leaves `SSL_cert_verify` installed without a verifier
  (`sslcontext.c:61`), and a handshake of a connection that outlives the
  context calls it.
* `setCertVerifyCallback` deletes the reference of the old verifier before it
  stores the new one and its method (`sslcontext.c:1636` to 1642), without a
  lock against `SSL_cert_verify`, which reads both (`sslcontext.c:1607`);
  `VerifierHeld` says which callbacks this can reach.
* `markPostHandshakeAuthComplete` does not ask whether the client has answered
  (`ssl.c:869`), so `getPostHandshakeAuthInProgress` may deny a request that is
  in flight.
* `setCACertificate` returns true when the CAs of its file could not be put
  into the list for clients (`sslcontext.c:572` to 578).
* `setCARevocation` that fails for the path keeps the lists of the file loaded
  (`sslcontext.c:506`), though without the flag that makes OpenSSL use them.
* The exceptions of `sslcontext.c` report the oldest error of the thread, which
  may be an earlier call's; `OwnErrorReported` is true of `SSLConf` only, which
  empties the queue first.
* `setVerify` ignores a depth of 0 (`sslcontext.c:628`), which
  `SSLContext.java:420` documents as "self-signed client certificates are
  accepted only".
* `pha_state` becomes `PHA_STARTED` before OpenSSL can refuse the request and
  is not reset then (`ssl.c:823`; `ssl_private.h:354` says "PHA req sent").
* `i * 1000` overflows an int for timeouts above 2147483 ms
  (`sslconf.c:204`).
* The test of `*destroyCount` and the destruction it guards are not atomic
  (`ssl.c:682`), nor is `newSSL` between reading `c->ctx` and its end
  (`ssl.c:545`, 553, 584): a `Pool.destroy` or `SSLContext.free` of another
  thread in between leads to a double destruction, a use after free or a NULL
  `SSL_CTX`. `MemorySafe` says that only the overtaken connection is harmed.
* `initProtocols` doubles its buffer once per name (`sslcontext.c:1258`), too
  little for a name longer than the first buffer after a short list;
  `WritesInBounds`, a part of `ListSound`, is stated for names that fit the
  first buffer.
* `initProtocols` accepts names of up to 65535 bytes (`sslcontext.c:1248`) and
  writes their length into one byte (`sslcontext.c:1271`): behind a name longer
  than 255 bytes the selection no longer finds the names of the list, and a name
  of the client may match the beginning of the long one. `SelectsPreferred`
  excepts what comes behind such a name.
* `setCertificateRaw` uses `free()` on reference counted objects
  (`sslcontext.c:927`, 944). A second call on a context, also one that succeeds,
  makes `SSL_CTX_use_certificate` (`sslcontext.c:948`) give back the object that
  is gone already, and a certificate of another key type stays served after it
  was released. `ReleaseConfined` says that no other context is reached.
  `setCertificate` never frees what it replaces in a slot
  (`sslcontext.c:811`), which `FreedWhenUnused` excepts.
* The lengths in the Authority Information Access extension are not compared
  with the length of the value (`sslutils.c:559` to 686), which comes undecoded
  from the certificate (`sslutils.c:1107`): a value that is no encoding can make
  the walk read behind its copy. `WalkBounded` says what holds of such a value.
* `select_next_proto` reads behind the list when nothing matches
  (`sslutils.c:474`).

## Proofs

| Theorem | States |
|---|---|
| `Invariance`, `TypeCorrect`, `NoMemoryFault`, `RefCountsExact`, `NoContextLeft`, `LibraryBalanced` | `TypeOK`, `MemorySafe`, `RefsExact`, `NothingLeft`, `InitBalanced` of `Lifecycle`, for all sets of pools, contexts and a finite set of connections, and all interleavings |
| `RefinesSharedObject` | `SharedOwnership`: `Lifecycle` implements `SharedObject` |
| `FetchInvariance`, `FetchTypeCorrect`, `CopySafe`, `ExchangeComplete`, `ExchangeReleases` | `TypeOK`, `BufferSafe`, `RequestSent`, `NothingHeld` of `OcspFetch`, for all sizes |
| `ExchangeBounded` | an exchange of `OcspFetch` takes at most `2 * ReqLen + MaxResponse + 5` steps: `FetchLeft` starts there or below and falls with every step |
| `UrlInvariance`, `UrlTypeCorrect`, `UrlsDecoded`, `WalkStaysBounded` | `UrlTypeOK`, `DecodesUrls`, `WalkBounded` of `OcspUrls`, for every byte size, all OIDs and texts, any number of descriptions, and any values that are no encoding |
| `WalkEnds` | the walk of an encoding takes at most `2 * Len(data) + 3` steps: `WalkLeft` falls with every step |
| `VerifyInvariance`, `VerifyTypeCorrect`, `RevocationFinal`, `HardFailSound`, `StrictModesSound` | `TypeOK`, `RevokedRejected`, `HardFailDefinitive`, `StrictModes` of `CertVerify`, for all chains, depths and numbers of responders |
| `VerificationBounded` | `VerifyLeft` is a natural number and falls with every step of a verification that is under way, so a certificate takes at most `MaxUrls + 4` steps |
| `ConnectionInvariance`, `ConnectionTypeCorrect`, `HandshakesCounted`, `PendingReported`, `VerifierReferenced` | `TypeOK`, `CountExact`, `PendingInProgress`, `VerifierHeld` of `Connection`, for all numbers of connections, handshakes and verifiers |
| `ContextInvariance`, `ContextTypeCorrect`, `ChainsSound`, `ChainResultRight`, `SSLConfErrorsOwn`, `LoadedStays` | `TypeOK`, `ChainSound`, `TrueWhenClean`, `OwnErrorReported`, `PromisesKept` of `ContextSetup`, for all numbers of threads, calls and certificates, all sizes of the queue and all sets of ciphers |
| `AlpnInvariance`, `AlpnTypeCorrect`, `AlpnListSound`, `AlpnPreferred` | `TypeOK`, `ListSound`, `SelectsPreferred` of `Alpn`, for all names, lengths, widths of the length byte, lists, offers and sizes of the first buffer |
| `CredInvariance`, `CredTypeCorrect`, `ServesOwn`, `ReferencesExact`, `ReleaseIsConfined` | `TypeOK`, `ServesWhatWasSet`, `FreedWhenUnused`, `ReleaseConfined` of `Credentials`, for all numbers of contexts, passwords, types of keys and calls |
| `ConfInvariance`, `ConfTypeCorrect`, `AssignsDecide`, `CommandsFollowAssign` | `TypeOK`, `AssignDecides`, `AppliedToAssigned` of `SSLConf`, for all configurations, contexts, commands and numbers, and every width of an int |

Assumptions: the named `ASSUME`s of the modules. They say that bounds are
naturals, that buffers, queues and chain files have room for one entry, that the
set of connections of `Lifecycle` is finite and its other sets are not empty,
that lengths of protocol names are naturals and stray length bytes are bytes,
that the default timeout is an int (`Default < Half`), that disabled ciphers are
not among the default ones, that no context is named like the value for none,
and for `OcspUrls` that a byte has twice as many values as its high bit says and
the high bit is above 5, so that the tags, which are written 1 to 5 there, are
bytes; that no byte of an OID or a text is 0, that OCSP's OID is not one of the
others, and that values are sequences of bytes.

Arguments. Each proof finds an inductive invariant, shows that `Init` and every
action preserve it, and derives the properties.

* `LifecycleInv` adds to the properties what ties the objects together. For a
  connection (`ConnInv`): which states of its own pool go with each state of
  the connection; that, while `newSSL` is between its steps and was not
  overtaken, the context is made and still holds its `SSL_CTX` and a pool that
  was created is live; and that an allocated `SSL` belongs to a context that was
  made. For a context (`CtxInv`): it holds its `SSL_CTX` exactly while its
  cleanup is registered, only while it is made, and a made context's pool is
  live. A step that destroys a pool or frees a context adds every connection for
  which it breaks the second part of `ConnInv` to `overlapped`, which is why the
  faults are confined. `RefsExact` needs cardinality: a step that adds or removes
  one user changes `Cardinality(Users(c))` by one.
* The refinement maps the state of an abstract object to the reference count of
  the `SSL_CTX`, and its holders to the owners. By `RefsExact` the owners alone
  determine that state (`StateByOwners`), so it is enough to follow the owners:
  a successful `make` is `Create`, `SSL_new` (`NewSSLBegin`) is `Acquire`, and
  every other step only takes owners away, of any number of contexts at once,
  which is `Release` (`LettingGo`). A `make` that loses its `SSL_CTX` creates
  an object that is never let go.
* `FetchInv` says what is held at each `pc`, that `left + remain + sent` is the
  length of the request, and that `totalread < buflen` and
  `BufferSize <= buflen` while receiving: a chunk never exceeds the buffer, so
  one doubling is enough. `CopyInBounds` alone is not inductive: it says
  nothing about the size of the buffer that a chunk may need next.
* `UrlInv` is `EncodedInv` for encodings or `RawInv` for other values. `RawInv`
  says that the k-th activation stands at byte 2k - 1 or behind it (`Spread`),
  because each call has read a tag and a length of its own; this bounds the
  recursion. `EncodedInv` has
  a map of the extension, `at[k]` being where description k begins
  (`Parses`). That the map exists is shown about the encoder alone: the
  recursive `Contents` has the value it seems to have (`BuildsExists`,
  `ContentsBuild`), so each description lies where its predecessors end
  (`LaidOut`), and reading back a length, an element and a description gives
  what was encoded there (`ReadsLength`, `ReadsElement`, `ReadsItem`). The
  prover cannot instantiate an induction theorem, so these inductions are made
  over sets: a set of naturals that has 0 and the successors of its members has
  them all (`SetInduction`, from `SmallestNat`, the well-foundedness of `<`).
  With the map, `Walk` lists the states the decoder can be in: before the
  extension, between two descriptions, inside one, done, failed, or returned; in
  none of them does a turn leave the copy (`OnlyWalks`). Between two descriptions
  `urls` are those of the descriptions passed. The properties
  alone are not inductive: they say nothing of where the activations stand.
* `FetchLeft`, `WalkLeft` and `VerifyLeft` are the counts behind termination:
  bytes to send and to receive, bytes in front of each activation, responders
  and certificates not yet asked about. Each is bounded and falls, so no run is
  endless; that the next step is taken is the fairness, left to TLC.
* `VerifyInv` says what is known of the certificates above the current one
  (accepted so far: not revoked, called good if hard-fail, error excused) and
  of the one being asked about (nothing definitive yet). The properties speak
  of the end of the walk only, so they need this for every certificate passed.
* `ConnectionInv`: the counter is exact because the callback that counts is in
  place before any connection can complete a handshake; a pending request stays
  in progress because its connection is not in a handshake, whose verification
  would end it; a callback that nothing overlaps has its verifier because the
  callback is installed after verifier and method are stored, removing it keeps
  both, and what it has read is still what the context holds (`VerifierInv`).
* `ContextInv` has a part for each group of variables. `ChainInv`: no
  certificate is in both chains and those of the current call are new, so that
  freeing one chain frees nothing of the other. `StoreInv`: nothing is promised
  before there is a list of client CAs. The results of a call rest on
  `PushQueue`: a queue that was empty has only errors of the call itself.
* `AlpnInv` treats the length of a list, a sum over its names, as the number of
  its bytes, the cardinality of a set, so that no induction over the list is
  needed. The loop counter leaves out one byte of each name and so stays
  below the length while a name is left: no name is skipped (`PassedLess`), and
  none of those already tried is in the offer (`SelectInv`). Once the pointer is
  `adrift` counter and pointer mean nothing, and what is known is that a long
  name was the last one passed.
* `CredInv`: the references of an object are one for a slot, one for an
  `SSL_CTX`, and one that nobody gives back if it was written over or released
  (`RefInv`). Objects of calls in progress are new and differ (`FreshInv`,
  `CallInv`), so contexts never share one, and `free()` harms only the context
  whose slot held what it released (`ConfinedInv`).
* `ConfInv`: the settings of a configuration are what the usable checks so far
  make of them (`SettingsInv`), and its target is the context of its last
  assign (`TargetInv`). `CallKeeps` shows for any call with its effect that one
  more entry in `calls` changes what the properties read from it in the same
  way. `MaxInv` carries along that the last call of a kind exists.

Only model-checked: `Terminates`, `Decides` and `Decoded`, liveness under
fairness, which is out of the prover's reach. Their proved part is
`ExchangeBounded`, `VerificationBounded` and, for encodings, `WalkEnds`: the
steps cannot go on for ever. That no state before the end is without a next step (`ENABLED`) is
TLC's part too.

## Not modelled

* The contents of HTTP headers and bodies (`parse_ocsp_resp` is a choice
  between a response and none), and what happens after the walk of the extension
  has read behind its copy: that it can is modelled, the bytes it meets are not.
* OpenSSL's handshakes beyond what the callbacks see, shutdown, reading and
  writing, and the getters.
* TLS 1.3 suites, session cache, tickets and options: single calls into OpenSSL
  that keep no state of their own.
* BIOs: `makeNetworkBIO` and `freeBIO` hand over to OpenSSL's BIO pairs, and
  the Java BIO of `ssl.c` has no constructor left; only the allocation of its
  methods is modelled.
* `setALPN` with `cb_server_alpn`, which the Java side does not declare any
  more.
* `error.c`, `bb.c` and the Windows files: no state or no protocol.

## Plan

In this order:

1. The protocol range of `make` (a mask with holes) as a function of the mask,
   and the outcomes of `parse_ocsp_resp`.
2. The action properties behind the invariants: `SSL_CTX` objects and verifiers
   that are gone do not come back, and settings in force change only in the
   call that names their context.
