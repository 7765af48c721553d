------------------------------- MODULE CertVerify -------------------------------
(***************************************************************************)
(* Verification of a peer's certificate chain: SSLContext.setVerify, the   *)
(* callback SSL_callback_SSL_verify that OpenSSL calls for each            *)
(* certificate, and the OCSP check behind it (ssl_verify_OCSP,             *)
(* ssl_ocsp_request, process_ocsp_response).                               *)
(*                                                                         *)
(* OpenSSL (external) visits the chain from the top, at depth `top', down  *)
(* to the peer's certificate at depth 0, and calls the callback with ok=1  *)
(* for each; before that it may report an error with ok=0.  It stops when  *)
(* the callback returns 0, and never resets the error of the               *)
(* X509_STORE_CTX between two calls.  A responder's answer is abstracted   *)
(* to the check of process_ocsp_response at which it fails; OcspFetch      *)
(* models how it is fetched.                                               *)
(***************************************************************************)
EXTENDS Integers

CONSTANTS
  MaxTop,     \* bound: depth of the top of a chain
  MaxDepth,   \* bound: depth passed to setVerify
  MaxUrls     \* bound: responder URLs in a certificate

ASSUME BoundsAssumption ==
  /\ MaxTop \in Nat
  /\ MaxDepth \in Nat
  /\ MaxUrls \in Nat \ {0}

VARIABLES
  pc,          \* "configure", "walk", "fetch" or "done"
  mode,        \* tcn_ssl_ctxt_t.verify_mode
  depth,       \* tcn_ssl_ctxt_t.verify_depth
  ocspCheck,   \* no_ocsp_check == 0
  softFail,    \* ocsp_soft_fail
  top,         \* depth of the top of the chain
  at,          \* depth of the current certificate
  quiet,       \* OpenSSL has no error to report before the current visit
  urls,        \* responders not asked yet
  error,       \* error of the X509_STORE_CTX
  verdict,     \* "none", "accepted" or "rejected"
  asked,       \* history: depths at which responders were asked
  seen,        \* history: the kinds of answers of the responders, by depth
  reported     \* history: OpenSSL has reported an error

confVars == <<mode, depth, ocspCheck, softFail>>
vars == <<pc, confVars, top, at, quiet, urls, error, verdict, asked, seen, reported>>

Mode == {"UNSET", "NONE", "OPTIONAL", "REQUIRE", "OPTIONAL_NO_CA"}

(* Errors OpenSSL reports: "optional" is SSL_VERIFY_ERROR_IS_OPTIONAL. *)
ReportedError == {"optional", "crl expired", "unable to get crl", "other"}

(* What became of asking a responder: no response, or the first check of *)
(* process_ocsp_response it fails, or the status in the response.        *)
NoAnswer == "no response"
Answer == {NoAnswer, "unsuccessful", "nonce", "signature", "certid", "missing",
           "not yet valid", "expired", "unknown", "good", "revoked"}

(* The answers by what they are worth.  "unsuccessful" is a responder that *)
(* is not ready to answer.                                                 *)
Kind == {"silent", "invalid", "good", "revoked"}
KindOf(answer) ==
  CASE answer \in {NoAnswer, "unsuccessful"} -> "silent"
    [] answer \in {"good", "revoked"}        -> answer
    [] OTHER                                 -> "invalid"

OcspError == {"response invalid", "signature failure", "not yet valid", "has expired"}
Error == {"ok", "application", "revoked"} \cup ReportedError \cup OcspError

TypeOK ==
  /\ pc \in {"configure", "walk", "fetch", "done"}
  /\ mode \in Mode /\ depth \in Nat
  /\ ocspCheck \in BOOLEAN /\ softFail \in BOOLEAN
  /\ top \in 0..MaxTop /\ at \in 0..MaxTop
  /\ quiet \in BOOLEAN
  /\ urls \in 0..MaxUrls
  /\ error \in Error
  /\ verdict \in {"none", "accepted", "rejected"}
  /\ asked \in SUBSET (0..MaxTop)
  /\ seen \in [0..MaxTop -> SUBSET Kind]
  /\ reported \in BOOLEAN

(* The defaults of SSLContext.make, with the OCSP settings of any SSLConf. *)
Init ==
  /\ pc = "configure"
  /\ mode = "UNSET" /\ depth = 1
  /\ ocspCheck \in BOOLEAN /\ softFail \in BOOLEAN
  /\ top = 0 /\ at = 0 /\ quiet = FALSE /\ urls = 0
  /\ error = "ok" /\ verdict = "none"
  /\ asked = {} /\ seen = [d \in 0..MaxTop |-> {}]
  /\ reported = FALSE

-----------------------------------------------------------------------------
(* A depth of 0 keeps the depth there is. *)
SetVerify(level, d) ==
  /\ pc = "configure"
  /\ mode' = IF level = "UNSET" THEN "NONE" ELSE level
  /\ depth' = IF d > 0 THEN d ELSE depth
  /\ UNCHANGED <<pc, ocspCheck, softFail, top, at, quiet, urls, error, verdict, asked, seen, reported>>

(* OpenSSL has built a chain and starts to verify it. *)
BeginVerify(n) ==
  /\ pc = "configure"
  /\ pc' = "walk"
  /\ top' = n /\ at' = n
  /\ UNCHANGED <<confVars, quiet, urls, error, verdict, asked, seen, reported>>

(* OpenSSL finds nothing (more) to report before it visits the certificate. *)
NothingToReport ==
  /\ pc = "walk" /\ ~quiet
  /\ quiet' = TRUE
  /\ UNCHANGED <<pc, confVars, top, at, urls, error, verdict, asked, seen, reported>>

Reject ==
  /\ pc' = "done"
  /\ verdict' = "rejected"
  /\ UNCHANGED <<at, quiet>>

(* The callback returns 1: OpenSSL goes on with the next certificate. *)
Accept ==
  IF at = 0
    THEN pc' = "done" /\ verdict' = "accepted" /\ UNCHANGED <<at, quiet>>
    ELSE pc' = "walk" /\ at' = at - 1 /\ quiet' = FALSE /\ UNCHANGED verdict

(* The modes in which the callback lets a certificate pass with error err *)
(* before it looks at anything else.                                      *)
Waived(err) ==
  \/ mode \in {"UNSET", "NONE"}
  \/ mode = "OPTIONAL_NO_CA" /\ err \in {"ok", "optional"}

(* The callback with ok=0: OpenSSL goes on only if the error is waived. *)
Report(err) ==
  /\ pc = "walk" /\ ~quiet
  /\ reported' = TRUE
  /\ IF Waived(err)
       THEN error' = err /\ quiet' = TRUE /\ UNCHANGED <<pc, at, verdict>>
       ELSE error' = (IF err = "crl expired" THEN "other" ELSE err) /\ Reject
  /\ UNCHANGED <<confVars, top, urls, asked, seen>>

(* The end of the callback with ok=1 and the outcome of the OCSP check. *)
Conclude_NoDepthCheck(ok) == IF ok THEN Accept ELSE Reject
Conclude(ok) == IF ok /\ at <= depth THEN Accept ELSE Reject

(* An OCSP check without a definitive answer, with err as the error. *)
UnknownIsOk_AlwaysSoft(err) == err \in {"ok", "unable to get crl"}
UnknownIsOk(err) == err = "ok" \/ (softFail /\ err = "unable to get crl")

(* The callback with ok=1 when no responder is asked: the certificate is   *)
(* waived; or OCSP is off; or the error is an optional one, which OCSP     *)
(* turns into a failure; or the certificate is self-issued, which clears   *)
(* the error; or there is no certificate, issuer or usable URL, which      *)
(* leaves the error as it is; or no request can be made.                   *)
VisitWaived ==
  /\ pc = "walk" /\ quiet
  /\ Waived(error)
  /\ Accept
  /\ UNCHANGED <<confVars, top, urls, error, asked, seen, reported>>

VisitWithoutOcsp ==
  /\ pc = "walk" /\ quiet
  /\ ~Waived(error) /\ ~ocspCheck
  /\ Conclude(TRUE)
  /\ UNCHANGED <<confVars, top, urls, error, asked, seen, reported>>

VisitWithoutResponder ==
  /\ pc = "walk" /\ quiet
  /\ ~Waived(error) /\ ocspCheck
  /\ \E kind \in {"self-issued", "no responder", "no request"} :
       /\ error' = IF error = "optional" \/ kind = "no request" THEN "application"
                   ELSE IF kind = "self-issued" THEN "ok" ELSE error
       /\ Conclude(UnknownIsOk(error'))
  /\ UNCHANGED <<confVars, top, urls, asked, seen, reported>>

(* ssl_ocsp_request has decoded n URLs and made a request. *)
VisitWithResponders(n) ==
  /\ pc = "walk" /\ quiet
  /\ ~Waived(error) /\ ocspCheck /\ error # "optional"
  /\ pc' = "fetch"
  /\ urls' = n
  /\ asked' = asked \cup {at}
  /\ UNCHANGED <<confVars, top, at, quiet, error, verdict, seen, reported>>

(* process_ocsp_response: the errors it may leave for an answer that is *)
(* not definitive.  For a response without the certificate the validity *)
(* checks read uninitialised times.                                     *)
ErrorsAfter(answer) ==
  CASE answer \in {"nonce", "certid"} -> {"response invalid"}
    [] answer = "signature"           -> {"signature failure"}
    [] answer = "not yet valid"       -> {"not yet valid"}
    [] answer = "expired"             -> {"has expired"}
    [] answer = "missing"             -> {error, "not yet valid", "has expired"}
    [] OTHER                          -> {error}

(* The statuses that end the loop over the responders. *)
Definitive_GoodOnly == {"good"}
Definitive == {"good", "revoked"}

(* Ask the next responder.  A definitive answer ends the loop. *)
AskResponder_PastLast(answer) ==
  /\ pc = "fetch" /\ urls >= 0
  /\ seen' = [seen EXCEPT ![at] = @ \cup {KindOf(answer)}]
  /\ urls' = urls - 1
  /\ error' \in ErrorsAfter(answer)
  /\ UNCHANGED <<pc, at, quiet, verdict, confVars, top, asked, reported>>
AskResponder(answer) ==
  /\ pc = "fetch" /\ urls > 0
  /\ seen' = [seen EXCEPT ![at] = @ \cup {KindOf(answer)}]
  /\ IF answer \in Definitive
       THEN /\ urls' = 0
            /\ error' = IF answer = "good" THEN "ok" ELSE "revoked"
            /\ Conclude(answer = "good")
       ELSE /\ urls' = urls - 1
            /\ error' \in ErrorsAfter(answer)
            /\ UNCHANGED <<pc, at, quiet, verdict>>
  /\ UNCHANGED <<confVars, top, asked, reported>>

(* No responder gave a definitive answer. *)
RespondersExhausted_StartsOver ==
  /\ pc = "fetch" /\ urls = 0
  /\ urls' = 1
  /\ UNCHANGED <<pc, at, quiet, verdict, confVars, top, error, asked, seen, reported>>
RespondersExhausted ==
  /\ pc = "fetch" /\ urls = 0
  /\ error' = "unable to get crl"
  /\ Conclude(UnknownIsOk(error'))
  /\ UNCHANGED <<confVars, top, urls, asked, seen, reported>>

Next ==
  \/ \E level \in Mode, d \in 0..MaxDepth : SetVerify(level, d)
  \/ \E n \in 0..MaxTop : BeginVerify(n)
  \/ NothingToReport
  \/ \E err \in ReportedError : Report(err)
  \/ VisitWaived \/ VisitWithoutOcsp \/ VisitWithoutResponder
  \/ \E n \in 1..MaxUrls : VisitWithResponders(n)
  \/ \E answer \in Answer : AskResponder(answer)
  \/ RespondersExhausted

Spec == Init /\ [][Next]_vars

(* The thread that runs the handshake goes on; each request ends, see *)
(* OcspFetch.                                                         *)
FairSpec == Spec /\ WF_vars(Next)

-----------------------------------------------------------------------------
(* The modes in which the peer's certificate has to be verifiable. *)
Strict == mode \in {"OPTIONAL", "REQUIRE"}

(* A chain in which a responder called any certificate revoked is never    *)
(* accepted while OCSP is on, not even with soft-fail and whatever other   *)
(* responders and later certificates yield.                                *)
RevokedRejected ==
  verdict = "accepted" /\ Strict /\ ocspCheck =>
    \A d \in 0..top : "revoked" \notin seen[d]

(* Without soft-fail a chain is accepted only if every certificate whose   *)
(* responders were asked has been called good by one of them.              *)
HardFailDefinitive ==
  verdict = "accepted" /\ Strict /\ ocspCheck /\ ~softFail =>
    \A d \in asked : "good" \in seen[d]

(* An accepted chain is no longer than the context's verify_depth allows.  *)
DepthBound == verdict = "accepted" /\ Strict => top <= depth

(* In these modes an error that OpenSSL reports ends in a rejection, and   *)
(* the error an accepted chain leaves in the X509_STORE_CTX is none, or    *)
(* with soft-fail that the revocation status could not be had.             *)
ErrorsReject ==
  verdict = "accepted" /\ Strict =>
    /\ ~reported
    /\ error = "ok" \/ (softFail /\ error = "unable to get crl")

(* In the modes that verify, an accepted chain respects the depth and every *)
(* error that was reported.                                                 *)
StrictModes == DepthBound /\ ErrorsReject

(* Every verification that starts comes to a verdict.                      *)
Decides == pc = "walk" ~> verdict # "none"
=============================================================================
