----------------------------- MODULE ContextSetup -----------------------------
(***************************************************************************)
(* The set-up of a context besides its own certificate: the chain file,    *)
(* chain certificates, CA certificates, the CAs announced to clients,      *)
(* revocation lists and ciphers (sslcontext.c, ssl.c,                      *)
(* SSL_CTX_use_certificate_chain of sslutils.c), and the error queue       *)
(* through which these calls and those of SSLConf (sslconf.c) learn what   *)
(* went wrong.                                                             *)
(*                                                                         *)
(* OpenSSL (external) keeps one queue of errors per thread; it adds to it  *)
(* when a function fails, also at the end of a PEM file, and some of its   *)
(* functions empty it.  The code takes the oldest entry for the error of   *)
(* the function it has just called.  Java threads configure one context in *)
(* turn, one call at a time.                                               *)
(*                                                                         *)
(* Call number n reads the certificates <<n, 1>>, <<n, 2>>, ...; n also    *)
(* stands for the CAs and CRLs that it loads.  A cipher list is the set of *)
(* its ciphers; one connection of the context can have its own.  Left out  *)
(* are the warning of setCACertificate, and calls with nothing to load,    *)
(* which return at once.                                                   *)
(***************************************************************************)
EXTENDS Integers, Sequences, SequencesExt

CONSTANTS
  Thread,     \* Java threads
  Cipher,     \* ciphers that OpenSSL has
  Disabled,   \* those that SSL_CIPHERS_ALWAYS_DISABLED removes
  Default,    \* OpenSSL's default list
  MaxInFile,  \* bound: certificates in a chain file
  MaxErrors,  \* entries of an error queue (ERR_NUM_ERRORS)
  MaxCalls    \* bound: calls

ASSUME ContextSetupAssumption ==
  /\ Disabled \subseteq Cipher /\ Default \subseteq Cipher \ Disabled
  /\ MaxInFile \in Nat \ {0}
  /\ MaxErrors \in Nat \ {0}
  /\ MaxCalls \in Nat

X509 == (1..MaxCalls) \X (1..MaxInFile)
Error == [call : 1..MaxCalls, reason : {"no_start_line", "other"}]
Source == {"none", "good", "bad"}

(* A chain file: its certificates, and whether it ends after them or with a *)
(* block that cannot be read.                                               *)
File == [certs : 0..MaxInFile, end : {"no_start_line", "other"}]
NoFile == [certs |-> 0, end |-> "unreadable"]

NoList == {0}

(* An SSL has the list of its SSL_CTX until it is given one of its own. *)
Holder == {"SSL_CTX", "SSL"}
Inherited == {"inherited"}

VARIABLES
  server,      \* c->mode: not a client context
  calls,       \* calls made
  queue,       \* OpenSSL's error queue of each thread
  live,        \* X509 objects with a reference
  extraChain,  \* the extra chain of the SSL_CTX
  ownChain,    \* the chain of its current certificate
  trusted,     \* CAs in the certificate store
  clientCAs,   \* CAs announced to clients, NoList if there is no list
  crls,        \* CRLs in the certificate store
  crlCheck,    \* the store has X509_V_FLAG_CRL_CHECK
  ciphers,     \* cipher list of the SSL_CTX and of one SSL
  last,        \* history: the last setCertificateChainFile
  thrown,      \* history: the last exception of SSLConf and its error
  promised     \* history: CRLs and CAs of calls that returned true, and CAs
               \* that such a call has put into the list for clients

chainVars == <<live, extraChain, ownChain>>
storeVars == <<trusted, clientCAs, crls, crlCheck>>
vars == <<server, calls, queue, chainVars, storeVars, ciphers, last, thrown, promised>>

TypeOK ==
  /\ server \in BOOLEAN /\ calls \in 0..MaxCalls
  /\ queue \in [Thread -> Seq(Error)]
  /\ \A t \in Thread : Len(queue[t]) <= MaxErrors
  /\ live \in SUBSET X509
  /\ extraChain \in Seq(X509) /\ ownChain \in Seq(X509)
  /\ trusted \in SUBSET (1..MaxCalls) /\ crls \in SUBSET (1..MaxCalls)
  /\ clientCAs = NoList \/ clientCAs \in SUBSET (1..MaxCalls)
  /\ crlCheck \in BOOLEAN
  /\ last \in [clean : BOOLEAN, complete : BOOLEAN, result : BOOLEAN]
  /\ thrown \in [call : 0..MaxCalls, error : 0..MaxCalls]
  /\ promised \in [crls : SUBSET (1..MaxCalls), trusted : SUBSET (1..MaxCalls),
                  announced : SUBSET (1..MaxCalls)]
  /\ ciphers \in [Holder -> (SUBSET Cipher) \cup {Inherited}]

(* The context is new; some OpenSSL versions give it an empty list of CAs. *)
Init ==
  /\ server \in BOOLEAN /\ calls = 0
  /\ queue = [t \in Thread |-> <<>>]
  /\ live = {} /\ extraChain = <<>> /\ ownChain = <<>>
  /\ trusted = {} /\ clientCAs \in {NoList, {}}
  /\ crls = {} /\ crlCheck = FALSE
  /\ last = [clean |-> TRUE, complete |-> TRUE, result |-> TRUE]
  /\ thrown = [call |-> 0, error |-> 0]
  /\ promised = [crls |-> {}, trusted |-> {}, announced |-> {}]
  /\ ciphers = [h \in Holder |-> IF h = "SSL" THEN Inherited ELSE Default]

-----------------------------------------------------------------------------
(* The error queue *)

Call == calls < MaxCalls /\ calls' = calls + 1
This == calls + 1

(* q with errors of this call; the oldest entries give way. *)
Push_Grows(q, reasons) == q \o [i \in DOMAIN reasons |-> [call |-> This, reason |-> reasons[i]]]
Push(q, reasons) ==
  LET all == q \o [i \in DOMAIN reasons |-> [call |-> This, reason |-> reasons[i]]]
      n == Len(all)
  IN  IF n <= MaxErrors THEN all ELSE SubSeq(all, n - MaxErrors + 1, n)

(* The errors that a function leaves: itself, and one it has called. *)
Errors == {<<"other">>, <<"other", "other">>}

SSL_ERR_get(q) == IF q = <<>> THEN q ELSE Tail(q)

SetQueue(t, q) == queue' = [queue EXCEPT ![t] = q]

(* A function failed, and the call throws an exception with the oldest error. *)
FailAndThrow(t) == \E es \in Errors : SetQueue(t, SSL_ERR_get(Push(queue[t], es)))

(* A function that reads PEM files succeeded: it may have emptied the queue. *)
ReadsFiles(t) == \E q \in {queue[t], <<>>} : SetQueue(t, q)

GetLastErrorNumber(t) ==
  /\ queue[t] # <<>>
  /\ SetQueue(t, SSL_ERR_get(queue[t]))
  /\ UNCHANGED <<server, ciphers, calls, chainVars, storeVars, last, thrown, promised>>

(* SSLConf.make, check, apply and finish empty the queue before they call   *)
(* OpenSSL.                                                                 *)
SSLConfCall_NoClear(t) ==
  /\ Call
  /\ \E es \in Errors \cup {<<>>} :
       LET q == Push(queue[t], es)
       IN  /\ SetQueue(t, SSL_ERR_get(q))
           /\ thrown' = IF q = <<>> THEN thrown ELSE [call |-> This, error |-> Head(q).call]
  /\ UNCHANGED <<server, ciphers, chainVars, storeVars, last, promised>>
SSLConfCall(t) ==
  /\ Call
  /\ \E es \in Errors \cup {<<>>} :
       LET q == Push(<<>>, es)
       IN  /\ SetQueue(t, SSL_ERR_get(q))
           /\ thrown' = IF q = <<>> THEN thrown ELSE [call |-> This, error |-> Head(q).call]
  /\ UNCHANGED <<server, ciphers, chainVars, storeVars, last, promised>>

-----------------------------------------------------------------------------
(* The chain *)

(* The certificates of this call from number i up to number j. *)
Read(i, j) == [k \in 1..(j - i + 1) |-> <<This, i + k - 1>>]

(* setCertificateChainFile returns; `complete': all certificates of the     *)
(* file are in the chain, there is at least one, and no other error.        *)
Returned(t, complete, r) ==
  last' = [clean |-> queue[t] = <<>>, complete |-> complete, result |-> r]

(* The file cannot be opened, or has no certificate to skip: the old chain  *)
(* stays.                                                                   *)
ChainFileNotRead(t, file, skipfirst) ==
  /\ Call
  /\ file = NoFile \/ (skipfirst /\ file.certs = 0)
  /\ \E es \in IF file = NoFile THEN Errors ELSE {<<file.end>>} :
       SetQueue(t, Push(queue[t], es))
  /\ Returned(t, FALSE, FALSE)
  /\ UNCHANGED <<server, ciphers, chainVars, storeVars, thrown, promised>>

(* SSL_CTX_use_certificate_chain drops the old chain and reads up to a      *)
(* certificate it cannot add or a block it cannot read.  Then the oldest    *)
(* error decides: the end of the file is none.                              *)
ChainRead_KeepsSkipped(from, to) ==
  /\ extraChain' = Read(from, to)
  /\ live' = (live \ ToSet(extraChain)) \cup ToSet(Read(1, to))
ChainRead(from, to) ==
  /\ extraChain' = Read(from, to)
  /\ live' = (live \ ToSet(extraChain)) \cup ToSet(Read(from, to))

First(skipfirst) == IF skipfirst THEN 2 ELSE 1

(* sslutils.c:281: is the error the end of the file? *)
OnlyEnd_Any(q) == TRUE
OnlyEnd(q) == Head(q).reason = "no_start_line"

ChainFileRead(t, file, skipfirst) ==
  /\ Call
  /\ file.certs >= First(skipfirst) - 1
  /\ ChainRead(First(skipfirst), file.certs)
  /\ LET q == Push(queue[t], <<file.end>>)
         n == file.certs - First(skipfirst) + 1
     IN  /\ SetQueue(t, IF OnlyEnd(q) THEN <<>> ELSE q)
         /\ Returned(t, n > 0 /\ file.end = "no_start_line", n > 0 /\ OnlyEnd(q))
  /\ UNCHANGED <<server, ciphers, ownChain, storeVars, thrown, promised>>

(* A certificate cannot be added: it is freed, those before it stay. *)
ChainFileNotAdded(t, file, skipfirst) ==
  /\ Call
  /\ \E k \in First(skipfirst)..file.certs : ChainRead(First(skipfirst), k - 1)
  /\ \E es \in Errors : SetQueue(t, Push(queue[t], es))
  /\ Returned(t, FALSE, FALSE)
  /\ UNCHANGED <<server, ciphers, ownChain, storeVars, thrown, promised>>

SetCertificateChainFile(t) ==
  \/ \E file \in File \cup {NoFile}, skip \in BOOLEAN : ChainFileNotRead(t, file, skip)
  \/ \E file \in File, skip \in BOOLEAN :
       ChainFileRead(t, file, skip) \/ ChainFileNotAdded(t, file, skip)

(* The certificate belongs to the chain if OpenSSL takes it, and is freed   *)
(* if not, as is one that cannot be read.                                   *)
AddChainCertificateRaw(t) ==
  /\ Call
  /\ \/ /\ ownChain' = Append(ownChain, <<This, 1>>)
        /\ live' = live \cup {<<This, 1>>}
        /\ UNCHANGED queue
     \/ /\ FailAndThrow(t)
        /\ UNCHANGED <<ownChain, live>>
  /\ UNCHANGED <<server, ciphers, extraChain, storeVars, last, thrown, promised>>

-----------------------------------------------------------------------------
(* CAs and CRLs *)

Announced(S) == (IF clientCAs = NoList THEN {} ELSE clientCAs) \cup S

(* OpenSSL copies the name; the certificate is freed either way. *)
AddClientCACertificateRaw(t) ==
  /\ Call
  /\ \/ /\ clientCAs' = Announced({This})
        /\ promised' = [promised EXCEPT !.announced = @ \cup {This}]
        /\ UNCHANGED queue
     \/ /\ FailAndThrow(t)
        /\ UNCHANGED <<clientCAs, promised>>
  /\ UNCHANGED <<server, ciphers, chainVars, trusted, crls, crlCheck, last, thrown>>

(* In a server context the CAs of the file are also announced: a list is    *)
(* loaded if there is none, and else extended.  Whether that worked is not  *)
(* checked: a list that cannot be loaded is not set, one is left as it is,  *)
(* or half extended, by a failure, and a file without certificates adds     *)
(* nothing.  Without a file there is nothing to load: the error of that is  *)
(* left in the queue.                                                       *)
LeavesErrors(t) == \E es \in Errors : SetQueue(t, Push(queue[t], es))

ClientCAList_Replaced(t, file, added) ==
  IF file = "none"
    THEN /\ UNCHANGED clientCAs /\ ~added
         /\ IF clientCAs = NoList THEN LeavesErrors(t) ELSE UNCHANGED queue
    ELSE \/ clientCAs' = {This} /\ added /\ ReadsFiles(t)
         \/ clientCAs' = Announced({This}) /\ added /\ clientCAs # NoList /\ LeavesErrors(t)
         \/ UNCHANGED clientCAs /\ ~added /\ (ReadsFiles(t) \/ LeavesErrors(t))
ClientCAList(t, file, added) ==
  IF file = "none"
    THEN /\ UNCHANGED clientCAs /\ ~added
         /\ IF clientCAs = NoList THEN LeavesErrors(t) ELSE UNCHANGED queue
    ELSE \/ clientCAs' = Announced({This}) /\ added /\ ReadsFiles(t)
         \/ clientCAs' = Announced({This}) /\ added /\ clientCAs # NoList /\ LeavesErrors(t)
         \/ UNCHANGED clientCAs /\ ~added /\ (ReadsFiles(t) \/ LeavesErrors(t))

Promise(added) ==
  promised' = [promised EXCEPT !.trusted = @ \cup {This},
                               !.announced = IF added THEN @ \cup {This} ELSE @]

SetCACertificate(t, file, path) ==
  /\ Call
  /\ {file, path} # {"none"}
  /\ IF "bad" \in {file, path}
       THEN /\ FailAndThrow(t)
            /\ trusted' = IF file = "good" THEN trusted \cup {This} ELSE trusted
            /\ UNCHANGED <<clientCAs, promised>>
       ELSE /\ trusted' = trusted \cup {This}
            /\ IF server
                 THEN \E added \in BOOLEAN : ClientCAList(t, file, added) /\ Promise(added)
                 ELSE ReadsFiles(t) /\ Promise(FALSE) /\ UNCHANGED clientCAs
  /\ UNCHANGED <<server, ciphers, chainVars, crls, crlCheck, last, thrown>>

(* The file is loaded before the path is tried, and stays loaded when that  *)
(* fails; the flags are set only when nothing failed.  c->crl is set to     *)
(* NULL by a failure and fetched again by the next call: it is always the   *)
(* store of the context.                                                    *)
SetCARevocation(t, file, path) ==
  /\ Call
  /\ {file, path} # {"none"}
  /\ IF "bad" \in {file, path}
       THEN /\ FailAndThrow(t)
            /\ crls' = IF file = "good" THEN crls \cup {This} ELSE crls
            /\ UNCHANGED <<crlCheck, promised>>
       ELSE /\ ReadsFiles(t)
            /\ crls' = crls \cup {This}
            /\ crlCheck' = TRUE
            /\ promised' = [promised EXCEPT !.crls = @ \cup {This}]
  /\ UNCHANGED <<server, ciphers, chainVars, trusted, clientCAs, last, thrown>>

-----------------------------------------------------------------------------
(* Ciphers *)

(* What OpenSSL makes of list L behind SSL_CIPHERS_ALWAYS_DISABLED. *)
Permitted(L) == L \ Disabled

(* OpenSSL refuses a list without ciphers, before or after it took effect. *)
CipherList(h, L) == ciphers' = [ciphers EXCEPT ![h] = L]

SetList(t, h, L) ==
  /\ Call
  /\ \/ /\ CipherList(h, Permitted(L))
        /\ IF Permitted(L) = {} THEN FailAndThrow(t) ELSE UNCHANGED queue
     \/ Permitted(L) = {} /\ FailAndThrow(t) /\ UNCHANGED ciphers
  /\ UNCHANGED <<server, chainVars, storeVars, last, thrown, promised>>

SSLContextSetCipherSuite(t, L) == SetList(t, "SSL_CTX", L)
SSLSetCipherSuites(t, L) == SetList(t, "SSL", L)

(* SSLConf.apply of the command CipherString.  OpenSSL takes its name in    *)
(* any case, apply knows only one: under another spelling the list keeps    *)
(* the ciphers that should always be disabled.                              *)
ApplyCipherString(t, name, L) ==
  /\ Call
  /\ LET list == IF name = "CipherString" THEN Permitted(L) ELSE L
     IN  \/ /\ list # {}
           /\ CipherList("SSL_CTX", list)
           /\ SetQueue(t, <<>>)
           /\ UNCHANGED thrown
        \/ /\ list = {}
           /\ CipherList("SSL_CTX", list) \/ UNCHANGED ciphers
           /\ \E es \in Errors : SetQueue(t, SSL_ERR_get(Push(<<>>, es)))
           /\ thrown' = [call |-> This, error |-> This]
  /\ UNCHANGED <<server, chainVars, storeVars, last, promised>>

Next ==
  \E t \in Thread :
    \/ GetLastErrorNumber(t)
    \/ SSLConfCall(t)
    \/ SetCertificateChainFile(t)
    \/ AddChainCertificateRaw(t)
    \/ AddClientCACertificateRaw(t)
    \/ \E file, path \in Source : SetCACertificate(t, file, path)
    \/ \E file, path \in Source : SetCARevocation(t, file, path)
    \/ \E L \in (SUBSET Cipher) \ {{}} :
         SSLContextSetCipherSuite(t, L) \/ SSLSetCipherSuites(t, L)
    \/ \E name \in {"CipherString", "cipherstring"}, L \in (SUBSET Cipher) \ {{}} :
         ApplyCipherString(t, name, L)

Spec == Init /\ [][Next]_vars

-----------------------------------------------------------------------------
(* After any mixture of calls that succeed and fail half-way, each X509     *)
(* object that was read and still has a reference belongs to a chain of the *)
(* context, and the extra chain has certificates of one file only, without  *)
(* gaps.                                                                    *)
ChainSound ==
  /\ live = ToSet(extraChain) \cup ToSet(ownChain)
  /\ \A i \in 1..(Len(extraChain) - 1) :
       extraChain[i + 1] = <<extraChain[i][1], extraChain[i][2] + 1>>

(* setCertificateChainFile called with an empty error queue returns true    *)
(* exactly when the chain has all certificates of the file, at least one,   *)
(* and the file ended after them.                                           *)
TrueWhenClean == last.clean => last.result = last.complete

(* "Make sure that only the error is just an EOF" (sslutils.c:280): whatever *)
(* the thread did before, the call returns true exactly then.               *)
TrueAlways == last.result = last.complete

(* An exception of SSLConf reports an error of the call that throws it, not *)
(* one that an earlier call on the thread left behind.                      *)
OwnErrorReported == thrown.error = thrown.call

(* What a call that returned true has loaded stays in force, whichever      *)
(* calls fail or follow: CRLs, trusted CAs, and names in the list for       *)
(* clients.  (A server's setCACertificate may return true without having    *)
(* put its CAs into that list: only those it has put there stay.)  And a    *)
(* call that failed does not switch on checks that no chain could pass.     *)
PromisesKept ==
  /\ promised.crls \subseteq crls
  /\ crlCheck = (promised.crls # {})
  /\ promised.trusted \subseteq trusted
  /\ promised.announced \subseteq clientCAs
=============================================================================
