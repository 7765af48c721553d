--------------------------- MODULE CertVerifyProofs ---------------------------
(***************************************************************************)
(* Proofs of the safety properties of CertVerify, for chains of any        *)
(* length, any depth and any number of responders.                         *)
(*                                                                         *)
(* The properties speak of accepted chains only and are not inductive: an  *)
(* accepting step looks at the current certificate.  OpenOK is what the    *)
(* callback has established about the certificates above it while the      *)
(* verification goes on.                                                   *)
(***************************************************************************)
EXTENDS CertVerify, TLAPS

(* The errors with which a chain may go on in a strict mode. *)
Excusable == error = "ok" \/ (softFail /\ error = "unable to get crl")

Shape ==
  /\ verdict = "none" <=> pc # "done"
  /\ at <= top
  /\ pc = "configure" =>
       /\ ~reported /\ error = "ok" /\ at = top
       /\ asked = {} /\ \A d \in 0..MaxTop : seen[d] = {}

OpenOK ==
  verdict = "none" /\ Strict =>
    /\ ~reported
    /\ at < top => top <= depth
    /\ pc # "fetch" => Excusable
    /\ ocspCheck => \A d \in 0..MaxTop : "revoked" \notin seen[d]
    /\ ocspCheck /\ ~softFail =>
         \A d \in asked : "good" \in seen[d] \/ (pc = "fetch" /\ d = at)

Safety == DepthBound /\ ErrorsReject /\ RevokedRejected /\ HardFailDefinitive

VerifyInv == TypeOK /\ Shape /\ OpenOK /\ Safety

-----------------------------------------------------------------------------
(* What every step of the callback leaves alone. *)
Kept == UNCHANGED <<confVars, top, asked>>

(* What a step leaves in the other variables has the right type. *)
DataTyped ==
  /\ error' \in Error
  /\ urls' \in 0..MaxUrls
  /\ seen' \in [0..MaxTop -> SUBSET Kind]
  /\ reported' \in BOOLEAN

(* A callback that returns 0 preserves the invariant: nothing is claimed of *)
(* a rejected chain.                                                        *)
LEMMA RejectStep ==
  ASSUME VerifyInv, pc \in {"walk", "fetch"}, Reject, Kept, DataTyped
  PROVE  VerifyInv'
<1>1. pc' = "done" /\ verdict' = "rejected" /\ at' = at /\ quiet' = quiet
  BY DEF Reject
<1>2. /\ mode' = mode /\ depth' = depth /\ ocspCheck' = ocspCheck /\ softFail' = softFail
      /\ top' = top /\ asked' = asked
  BY DEF Kept, confVars
<1>3. TypeOK'
  BY <1>1, <1>2 DEF VerifyInv, TypeOK, DataTyped
<1>4. Shape'
  BY <1>1, <1>2 DEF VerifyInv, Shape
<1>5. OpenOK'
  BY <1>1 DEF OpenOK
<1>6. Safety'
  BY <1>1 DEF Safety, DepthBound, ErrorsReject, RevokedRejected, HardFailDefinitive
<1> QED
  BY <1>3, <1>4, <1>5, <1>6 DEF VerifyInv

(* What a callback that returns 1 has to establish: in a strict mode, the  *)
(* certificate is not too deep, the error it leaves is excusable, no new   *)
(* revocation was seen, and a certificate that was asked about was called  *)
(* good unless soft-fail is on.                                            *)
Justified ==
  /\ reported' = reported
  /\ \A d \in 0..MaxTop : seen[d] \subseteq seen'[d]
  /\ Strict => /\ at <= depth
               /\ error' = "ok" \/ (softFail /\ error' = "unable to get crl")
  /\ Strict /\ ocspCheck =>
       \A d \in 0..MaxTop : "revoked" \in seen'[d] => "revoked" \in seen[d]
  /\ Strict /\ ocspCheck /\ ~softFail /\ pc = "fetch" => "good" \in seen'[at]

(* A justified step on which the callback returns 1 preserves the invariant. *)
LEMMA AcceptStep ==
  ASSUME VerifyInv, pc \in {"walk", "fetch"}, Accept, Kept, DataTyped, Justified
  PROVE  VerifyInv'
<1>1. /\ mode' = mode /\ depth' = depth /\ ocspCheck' = ocspCheck /\ softFail' = softFail
      /\ top' = top /\ asked' = asked
  BY DEF Kept, confVars
<1>2. verdict = "none"
  BY DEF VerifyInv, Shape
<1>3. /\ top \in 0..MaxTop /\ at \in 0..MaxTop /\ depth \in Nat
      /\ asked \subseteq 0..MaxTop /\ at <= top
  BY DEF VerifyInv, Shape, TypeOK
<1>4. Strict => /\ ~reported /\ top <= depth
                /\ ocspCheck => \A d \in 0..MaxTop : "revoked" \notin seen'[d]
                /\ ocspCheck /\ ~softFail => \A d \in asked : "good" \in seen'[d]
  <2> SUFFICES ASSUME Strict
               PROVE  /\ ~reported /\ top <= depth
                      /\ ocspCheck => \A d \in 0..MaxTop : "revoked" \notin seen'[d]
                      /\ ocspCheck /\ ~softFail => \A d \in asked : "good" \in seen'[d]
    OBVIOUS
  <2>1. OpenOK
    BY DEF VerifyInv
  <2>2. ~reported
    BY <1>2, <2>1 DEF OpenOK
  <2>3. top <= depth
    <3>1. at < top => top <= depth
      BY <1>2, <2>1 DEF OpenOK
    <3>2. at <= depth
      BY DEF Justified
    <3> QED
      BY <1>3, <3>1, <3>2
  <2>4. ocspCheck => \A d \in 0..MaxTop : "revoked" \notin seen'[d]
    BY <1>2, <2>1 DEF OpenOK, Justified
  <2>5. ocspCheck /\ ~softFail => \A d \in asked : "good" \in seen'[d]
    BY <1>2, <1>3, <2>1 DEF OpenOK, Justified
  <2> QED
    BY <2>2, <2>3, <2>4, <2>5
<1>5. Strict' <=> Strict
  BY <1>1 DEF Strict
<1>6. CASE at = 0
  <2>1. pc' = "done" /\ verdict' = "accepted" /\ at' = at /\ quiet' = quiet
    BY <1>6 DEF Accept
  <2>2. TypeOK'
    BY <1>1, <2>1 DEF VerifyInv, TypeOK, DataTyped
  <2>3. Shape'
    BY <1>1, <2>1 DEF VerifyInv, Shape
  <2>4. OpenOK'
    BY <2>1 DEF OpenOK
  <2>5. DepthBound' /\ ErrorsReject'
    BY <1>1, <1>4, <1>5, <2>1 DEF DepthBound, ErrorsReject, Justified
  <2>6. RevokedRejected' /\ HardFailDefinitive'
    <3>1. 0..top \subseteq 0..MaxTop
      BY <1>3, BoundsAssumption
    <3> QED
      BY <1>1, <1>4, <1>5, <3>1 DEF RevokedRejected, HardFailDefinitive
  <2> QED
    BY <2>2, <2>3, <2>4, <2>5, <2>6 DEF VerifyInv, Safety
<1>7. CASE at # 0
  <2>1. pc' = "walk" /\ verdict' = "none" /\ at' = at - 1 /\ quiet' = FALSE
    BY <1>2, <1>7 DEF Accept
  <2>2. at' \in 0..MaxTop /\ at' < top
    BY <1>3, <1>7, <2>1, BoundsAssumption
  <2>3. TypeOK'
    BY <1>1, <2>1, <2>2 DEF VerifyInv, TypeOK, DataTyped
  <2>4. Shape'
    <3>1. at' <= top'
      BY <1>1, <1>3, <2>1, <2>2
    <3> QED
      BY <2>1, <3>1 DEF Shape
  <2>5. OpenOK'
    BY <1>1, <1>4, <1>5, <2>1 DEF OpenOK, Excusable, Justified
  <2>6. Safety'
    BY <2>1 DEF Safety, DepthBound, ErrorsReject, RevokedRejected, HardFailDefinitive
  <2> QED
    BY <2>3, <2>4, <2>5, <2>6 DEF VerifyInv
<1> QED
  BY <1>6, <1>7

(* The end of a visit. *)
LEMMA ConcludeStep ==
  ASSUME NEW ok \in BOOLEAN, VerifyInv, pc \in {"walk", "fetch"}, Conclude(ok), Kept, DataTyped,
         ok /\ at <= depth => Justified
  PROVE  VerifyInv'
<1>1. CASE ok /\ at <= depth
  BY <1>1, AcceptStep DEF Conclude
<1>2. CASE ~(ok /\ at <= depth)
  BY <1>2, RejectStep DEF Conclude
<1> QED
  BY <1>1, <1>2

(* In a strict mode no error is waived. *)
LEMMA StrictWaives ==
  ASSUME NEW err PROVE Strict => ~Waived(err)
BY DEF Strict, Waived

LEMMA InitInv == Init => VerifyInv
<1> SUFFICES ASSUME Init PROVE VerifyInv
  OBVIOUS
<1>1. /\ 0 \in 0..MaxTop /\ 0 \in 0..MaxUrls /\ -1 \in -1..MaxDepth
  BY BoundsAssumption
<1>2. TypeOK
  BY <1>1 DEF Init, TypeOK, Mode, Error, Kind
<1>3. Shape
  BY DEF Init, Shape
<1>4. OpenOK
  BY DEF Init, OpenOK, Strict
<1>5. Safety
  BY DEF Init, Safety, DepthBound, ErrorsReject, RevokedRejected, HardFailDefinitive
<1> QED
  BY <1>2, <1>3, <1>4, <1>5 DEF VerifyInv

(* Nothing is claimed of an accepted chain while there is no verdict. *)
LEMMA NoVerdictYet ==
  ASSUME verdict' = "none" PROVE Safety'
BY DEF Safety, DepthBound, ErrorsReject, RevokedRejected, HardFailDefinitive

(* OpenSSL's own steps and setVerify. *)
LEMMA SetVerifyStep ==
  ASSUME VerifyInv, NEW level \in Mode, NEW d \in 0..MaxDepth, SetVerify(level, d)
  PROVE  VerifyInv'
<1>1. /\ pc = "configure" /\ pc' = pc /\ verdict' = verdict
      /\ mode' = (IF level = "UNSET" THEN "NONE" ELSE level)
      /\ depth' = (IF d > 0 THEN d ELSE depth)
      /\ ocspCheck' = ocspCheck /\ softFail' = softFail /\ top' = top /\ at' = at
      /\ quiet' = quiet /\ urls' = urls /\ error' = error /\ asked' = asked
      /\ seen' = seen /\ reported' = reported
  BY DEF SetVerify
<1>2. /\ verdict = "none" /\ at = top /\ ~reported /\ error = "ok" /\ asked = {}
      /\ \A x \in 0..MaxTop : seen[x] = {}
  BY <1>1 DEF VerifyInv, Shape
<1>3. mode' \in Mode
  BY <1>1 DEF Mode
<1>4. depth' \in Nat
  <2>1. depth \in Nat
    BY DEF VerifyInv, TypeOK
  <2> QED
    BY <1>1, <2>1, BoundsAssumption
<1>5. TypeOK'
  BY <1>1, <1>3, <1>4 DEF VerifyInv, TypeOK
<1>6. Shape'
  BY <1>1, <1>2 DEF VerifyInv, Shape
<1>7. OpenOK'
  <2>1. ~(at' < top')
    <3>1. top \in 0..MaxTop
      BY DEF VerifyInv, TypeOK
    <3> QED
      BY <1>1, <1>2, <3>1, BoundsAssumption
  <2> QED
    BY <1>1, <1>2, <2>1 DEF OpenOK, Excusable
<1> QED
  BY <1>1, <1>2, <1>5, <1>6, <1>7, NoVerdictYet DEF VerifyInv

LEMMA BeginVerifyStep ==
  ASSUME VerifyInv, NEW n \in 0..MaxTop, BeginVerify(n)
  PROVE  VerifyInv'
<1>1. /\ pc = "configure" /\ pc' = "walk" /\ top' = n /\ at' = n
      /\ mode' = mode /\ depth' = depth /\ ocspCheck' = ocspCheck /\ softFail' = softFail
      /\ quiet' = quiet /\ urls' = urls /\ error' = error
      /\ verdict' = verdict /\ asked' = asked /\ seen' = seen /\ reported' = reported
  BY DEF BeginVerify, confVars
<1>2. /\ verdict = "none" /\ ~reported /\ error = "ok" /\ asked = {}
      /\ \A x \in 0..MaxTop : seen[x] = {}
  BY <1>1 DEF VerifyInv, Shape
<1>3. TypeOK'
  BY <1>1 DEF VerifyInv, TypeOK
<1>4. at' <= top' /\ ~(at' < top')
  BY <1>1, BoundsAssumption
<1>5. Shape'
  BY <1>1, <1>2, <1>4 DEF Shape
<1>6. OpenOK'
  BY <1>1, <1>2, <1>4 DEF OpenOK, Excusable
<1> QED
  BY <1>1, <1>2, <1>3, <1>5, <1>6, NoVerdictYet DEF VerifyInv

LEMMA NothingToReportStep ==
  ASSUME VerifyInv, NothingToReport
  PROVE  VerifyInv'
<1>1. /\ pc = "walk" /\ quiet' = TRUE /\ pc' = pc /\ top' = top /\ at' = at
      /\ mode' = mode /\ depth' = depth /\ ocspCheck' = ocspCheck /\ softFail' = softFail
      /\ urls' = urls /\ error' = error
      /\ verdict' = verdict /\ asked' = asked /\ seen' = seen /\ reported' = reported
  BY DEF NothingToReport, confVars
<1>2. verdict = "none"
  BY <1>1 DEF VerifyInv, Shape
<1>3. TypeOK'
  BY <1>1 DEF VerifyInv, TypeOK
<1>4. Shape'
  BY <1>1 DEF VerifyInv, Shape
<1>5. OpenOK'
  BY <1>1 DEF VerifyInv, OpenOK, Strict, Excusable
<1> QED
  BY <1>1, <1>2, <1>3, <1>4, <1>5, NoVerdictYet DEF VerifyInv

(* The callback with ok=0: an error that is reported in a strict mode is  *)
(* never waived, so the chain is rejected.                                *)
LEMMA ReportStep ==
  ASSUME VerifyInv, NEW err \in ReportedError, Report(err)
  PROVE  VerifyInv'
<1>1. /\ pc = "walk" /\ reported' = TRUE /\ top' = top /\ urls' = urls /\ asked' = asked
      /\ seen' = seen /\ mode' = mode /\ depth' = depth /\ ocspCheck' = ocspCheck
      /\ softFail' = softFail
  BY DEF Report, confVars
<1>2. CASE Waived(err)
  <2>1. error' = err /\ quiet' = TRUE /\ pc' = pc /\ at' = at /\ verdict' = verdict
    BY <1>2 DEF Report
  <2>2. ~Strict /\ ~Strict'
    BY <1>1, <1>2, StrictWaives DEF Strict
  <2>3. verdict = "none"
    BY <1>1 DEF VerifyInv, Shape
  <2>4. error' \in Error
    BY <2>1 DEF Error
  <2>5. TypeOK'
    BY <1>1, <2>1, <2>4 DEF VerifyInv, TypeOK
  <2>6. Shape'
    BY <1>1, <2>1 DEF VerifyInv, Shape
  <2>7. OpenOK'
    BY <2>2 DEF OpenOK
  <2> QED
    BY <2>1, <2>3, <2>5, <2>6, <2>7, NoVerdictYet DEF VerifyInv
<1>3. CASE ~Waived(err)
  <2>1. Reject /\ error' = (IF err = "crl expired" THEN "other" ELSE err)
    BY <1>3 DEF Report
  <2>2. error' \in Error
    BY <2>1 DEF Error, ReportedError
  <2>3. DataTyped
    BY <1>1, <2>2 DEF DataTyped, VerifyInv, TypeOK
  <2>4. Kept
    BY <1>1 DEF Kept, confVars
  <2> QED
    BY <1>1, <2>1, <2>3, <2>4, RejectStep
<1> QED
  BY <1>2, <1>3

(* The callback with ok=1 when no responder is asked. *)
LEMMA VisitWaivedStep ==
  ASSUME VerifyInv, VisitWaived
  PROVE  VerifyInv'
<1>1. /\ pc = "walk" /\ Waived(error) /\ Accept
      /\ urls' = urls /\ error' = error /\ seen' = seen /\ reported' = reported
  BY DEF VisitWaived
<1>2. Kept
  BY DEF VisitWaived, Kept
<1>3. DataTyped
  BY <1>1 DEF DataTyped, VerifyInv, TypeOK
<1>4. ~Strict
  BY <1>1, StrictWaives
<1>5. Justified
  BY <1>1, <1>4 DEF Justified
<1> QED
  BY <1>1, <1>2, <1>3, <1>5, AcceptStep

LEMMA VisitWithoutOcspStep ==
  ASSUME VerifyInv, VisitWithoutOcsp
  PROVE  VerifyInv'
<1>1. /\ pc = "walk" /\ ~ocspCheck /\ Conclude(TRUE)
      /\ urls' = urls /\ error' = error /\ seen' = seen /\ reported' = reported
  BY DEF VisitWithoutOcsp
<1>2. Kept
  BY DEF VisitWithoutOcsp, Kept
<1>3. DataTyped
  BY <1>1 DEF DataTyped, VerifyInv, TypeOK
<1>4. Strict => Excusable
  BY <1>1 DEF VerifyInv, OpenOK, Shape
<1>5. at <= depth => Justified
  BY <1>1, <1>4 DEF Justified, Excusable
<1> QED
  BY <1>1, <1>2, <1>3, <1>5, ConcludeStep

(* An indefinite outcome that is taken as good enough is excusable. *)
LEMMA UnknownExcusable ==
  ASSUME NEW err, UnknownIsOk(err)
  PROVE  err = "ok" \/ (softFail /\ err = "unable to get crl")
BY DEF UnknownIsOk

LEMMA VisitWithoutResponderStep ==
  ASSUME VerifyInv, VisitWithoutResponder
  PROVE  VerifyInv'
<1>1. PICK kind \in {"self-issued", "no responder", "no request"} :
        /\ error' = IF error = "optional" \/ kind = "no request" THEN "application"
                    ELSE IF kind = "self-issued" THEN "ok" ELSE error
        /\ Conclude(UnknownIsOk(error'))
  BY DEF VisitWithoutResponder
<1>2. /\ pc = "walk" /\ urls' = urls /\ seen' = seen /\ reported' = reported
  BY DEF VisitWithoutResponder
<1>3. Kept
  BY DEF VisitWithoutResponder, Kept
<1>4. error' \in Error
  BY <1>1 DEF VerifyInv, TypeOK, Error
<1>5. DataTyped
  BY <1>2, <1>4 DEF DataTyped, VerifyInv, TypeOK
<1>6. UnknownIsOk(error') /\ at <= depth => Justified
  BY <1>2, UnknownExcusable DEF Justified
<1>7. UnknownIsOk(error') \in BOOLEAN
  BY DEF UnknownIsOk
<1> QED
  BY <1>1, <1>2, <1>3, <1>5, <1>6, <1>7, ConcludeStep

(* The loop over the responders. *)
LEMMA VisitWithRespondersStep ==
  ASSUME VerifyInv, NEW n \in 1..MaxUrls, VisitWithResponders(n)
  PROVE  VerifyInv'
<1>1. /\ pc = "walk" /\ pc' = "fetch" /\ urls' = n /\ asked' = asked \cup {at}
      /\ top' = top /\ at' = at /\ quiet' = quiet /\ error' = error /\ verdict' = verdict
      /\ seen' = seen /\ reported' = reported /\ mode' = mode /\ depth' = depth
      /\ ocspCheck' = ocspCheck /\ softFail' = softFail
  BY DEF VisitWithResponders, confVars
<1>2. verdict = "none"
  BY <1>1 DEF VerifyInv, Shape
<1>3. n \in 0..MaxUrls
  BY BoundsAssumption
<1>4. TypeOK'
  BY <1>1, <1>3 DEF VerifyInv, TypeOK
<1>5. Shape'
  BY <1>1 DEF VerifyInv, Shape
<1>6. OpenOK'
  BY <1>1 DEF VerifyInv, OpenOK, Strict
<1> QED
  BY <1>1, <1>2, <1>4, <1>5, <1>6, NoVerdictYet DEF VerifyInv

LEMMA AskResponderStep ==
  ASSUME VerifyInv, NEW answer \in Answer, AskResponder(answer)
  PROVE  VerifyInv'
<1>1. /\ pc = "fetch" /\ urls > 0 /\ reported' = reported
      /\ seen' = [seen EXCEPT ![at] = @ \cup {KindOf(answer)}]
  BY DEF AskResponder
<1>2. Kept
  BY DEF AskResponder, Kept
<1>3. KindOf(answer) \in Kind /\ (KindOf(answer) = "revoked" <=> answer = "revoked")
      /\ (answer = "good" => KindOf(answer) = "good")
  BY DEF KindOf, Kind, NoAnswer, Answer
<1>4. at \in 0..MaxTop /\ seen \in [0..MaxTop -> SUBSET Kind]
  BY DEF VerifyInv, TypeOK
<1>5. seen' \in [0..MaxTop -> SUBSET Kind]
  BY <1>1, <1>3, <1>4
<1>6. /\ \A d \in 0..MaxTop : seen[d] \subseteq seen'[d]
      /\ KindOf(answer) \in seen'[at]
      /\ answer # "revoked" =>
           \A d \in 0..MaxTop : "revoked" \in seen'[d] => "revoked" \in seen[d]
  BY <1>1, <1>3, <1>4
<1>7. reported' \in BOOLEAN
  BY <1>1 DEF VerifyInv, TypeOK
<1>8. CASE answer \in Definitive
  <2>1. /\ urls' = 0 /\ error' = (IF answer = "good" THEN "ok" ELSE "revoked")
        /\ Conclude(answer = "good")
    BY <1>8 DEF AskResponder
  <2>2. 0 \in 0..MaxUrls
    BY BoundsAssumption
  <2>3. DataTyped
    BY <1>5, <1>7, <2>1, <2>2 DEF DataTyped, Error
  <2>4. answer = "good" /\ at <= depth => Justified
    BY <1>1, <1>3, <1>6, <2>1 DEF Justified
  <2> QED
    BY <1>1, <1>2, <2>1, <2>3, <2>4, ConcludeStep
<1>9. CASE answer \notin Definitive
  <2>1. /\ urls' = urls - 1 /\ error' \in ErrorsAfter(answer)
        /\ pc' = pc /\ at' = at /\ quiet' = quiet /\ verdict' = verdict
    BY <1>9 DEF AskResponder
  <2>2. urls' \in 0..MaxUrls
    <3>1. urls \in 0..MaxUrls
      BY DEF VerifyInv, TypeOK
    <3> QED
      BY <1>1, <2>1, <3>1, BoundsAssumption
  <2>3. error' \in Error
    <3>1. error \in Error
      BY DEF VerifyInv, TypeOK
    <3> QED
      BY <2>1, <3>1 DEF ErrorsAfter, Error, OcspError
  <2>4. /\ mode' = mode /\ depth' = depth /\ ocspCheck' = ocspCheck /\ softFail' = softFail
        /\ top' = top /\ asked' = asked
    BY <1>2 DEF Kept, confVars
  <2>5. TypeOK'
    BY <1>5, <1>7, <2>1, <2>2, <2>3, <2>4 DEF VerifyInv, TypeOK
  <2>6. Shape'
    BY <1>1, <2>1, <2>4 DEF VerifyInv, Shape
  <2>7. answer # "revoked"
    BY <1>9 DEF Definitive
  <2>8. asked \subseteq 0..MaxTop
    BY DEF VerifyInv, TypeOK
  <2>9. OpenOK'
    BY <1>1, <1>6, <2>1, <2>4, <2>7, <2>8 DEF VerifyInv, OpenOK, Strict
  <2>10. verdict = "none"
    BY <1>1 DEF VerifyInv, Shape
  <2> QED
    BY <2>1, <2>5, <2>6, <2>9, <2>10, NoVerdictYet DEF VerifyInv
<1> QED
  BY <1>8, <1>9

LEMMA RespondersExhaustedStep ==
  ASSUME VerifyInv, RespondersExhausted
  PROVE  VerifyInv'
<1>1. /\ pc = "fetch" /\ error' = "unable to get crl" /\ Conclude(UnknownIsOk(error'))
      /\ urls' = urls /\ seen' = seen /\ reported' = reported
  BY DEF RespondersExhausted
<1>2. Kept
  BY DEF RespondersExhausted, Kept
<1>3. error' \in Error
  BY <1>1 DEF Error, ReportedError
<1>4. DataTyped
  BY <1>1, <1>3 DEF DataTyped, VerifyInv, TypeOK
<1>5. UnknownIsOk(error') => softFail
  BY <1>1 DEF UnknownIsOk
<1>6. UnknownIsOk(error') /\ at <= depth => Justified
  BY <1>1, <1>5 DEF Justified
<1>7. UnknownIsOk(error') \in BOOLEAN
  BY DEF UnknownIsOk
<1> QED
  BY <1>1, <1>2, <1>4, <1>6, <1>7, ConcludeStep

(* Every step preserves the invariant. *)
LEMMA NextInv == VerifyInv /\ [Next]_vars => VerifyInv'
<1> SUFFICES ASSUME VerifyInv, [Next]_vars PROVE VerifyInv'
  OBVIOUS
<1>1. CASE UNCHANGED vars
  BY <1>1 DEF vars, confVars, VerifyInv, TypeOK, Shape, OpenOK, Excusable, Strict,
              Safety, DepthBound, ErrorsReject, RevokedRejected, HardFailDefinitive
<1>2. CASE Next
  BY <1>2, SetVerifyStep, BeginVerifyStep, NothingToReportStep, ReportStep, VisitWaivedStep,
     VisitWithoutOcspStep, VisitWithoutResponderStep, VisitWithRespondersStep,
     AskResponderStep, RespondersExhaustedStep DEF Next
<1> QED
  BY <1>1, <1>2

-----------------------------------------------------------------------------
(* The inductive invariant holds throughout: what SSL_callback_SSL_verify    *)
(* has established about the certificates it has passed.                     *)
THEOREM VerifyInvariance == Spec => []VerifyInv
BY InitInv, NextInv, PTL DEF Spec

(* The variables of the verification keep their types; in particular the     *)
(* loop over the responders never runs past the last URL.                    *)
THEOREM VerifyTypeCorrect == Spec => []TypeOK
<1>1. VerifyInv => TypeOK
  BY DEF VerifyInv
<1> QED
  BY <1>1, VerifyInvariance, PTL

(* A revocation reported by any responder for any certificate of the chain   *)
(* rejects it, with or without soft-fail (ssl_ocsp_request's loop and the    *)
(* callback's handling of OCSP_STATUS_REVOKED).                              *)
THEOREM RevocationFinal == Spec => []RevokedRejected
<1>1. VerifyInv => RevokedRejected
  BY DEF VerifyInv, Safety
<1> QED
  BY <1>1, VerifyInvariance, PTL

(* Without soft-fail every certificate whose responders were asked has been  *)
(* called good when the chain is accepted.                                   *)
THEOREM HardFailSound == Spec => []HardFailDefinitive
<1>1. VerifyInv => HardFailDefinitive
  BY DEF VerifyInv, Safety
<1> QED
  BY <1>1, VerifyInvariance, PTL

(* In the strict modes an accepted chain respects verify_depth, OpenSSL has  *)
(* reported no error on it and it leaves none that soft-fail does not excuse. *)
THEOREM StrictModesSound == Spec => []StrictModes
<1>1. VerifyInv => StrictModes
  BY DEF VerifyInv, Safety, StrictModes
<1> QED
  BY <1>1, VerifyInvariance, PTL

-----------------------------------------------------------------------------
(* The verification ends *)

(* What is left of a verification: for each certificate still to be        *)
(* visited a report, the visit, its responders and the step to the next.   *)
PerVisit == MaxUrls + 4
VerifyLeft ==
  CASE pc = "walk"  -> (at * PerVisit) + MaxUrls + (IF quiet THEN 2 ELSE 3)
    [] pc = "fetch" -> (at * PerVisit) + urls + 1
    [] OTHER        -> 0

(* A callback that returns leaves a shorter chain or none. *)
LEMMA ConcludeShrinks ==
  ASSUME VerifyInv, pc \in {"walk", "fetch"}, Accept \/ Reject
  PROVE  VerifyLeft' < VerifyLeft
<1>1. PICK a \in Nat : a = at BY BoundsAssumption DEF VerifyInv, TypeOK
<1>2. PICK m \in Nat : m = MaxUrls BY BoundsAssumption
<1>3. PICK x \in Nat : x = at * PerVisit
  <2>1. PerVisit \in Nat BY <1>2 DEF PerVisit
  <2>2. QED BY <1>1, <2>1
<1>4. VerifyLeft \in Nat /\ VerifyLeft > x
  <2>1. urls \in Nat BY <1>2 DEF VerifyInv, TypeOK
  <2>2. CASE pc = "walk"
    <3>1. VerifyLeft = x + m + (IF quiet THEN 2 ELSE 3) BY <1>2, <1>3, <2>2 DEF VerifyLeft
    <3>2. QED BY <3>1
  <2>3. CASE pc = "fetch"
    <3>1. VerifyLeft = x + urls + 1 BY <1>3, <2>3 DEF VerifyLeft
    <3>2. QED BY <2>1, <3>1
  <2>4. QED BY <2>2, <2>3
<1>5. CASE pc' = "done"
  <2>1. VerifyLeft' = 0 BY <1>5 DEF VerifyLeft
  <2>2. QED BY <1>4, <2>1
<1>6. CASE pc' # "done"
  <2>1. a # 0 /\ pc' = "walk" /\ at' = a - 1 /\ quiet' = FALSE BY <1>1, <1>6 DEF Accept, Reject
  <2>2. VerifyLeft' = ((a - 1) * PerVisit) + m + 3 BY <1>2, <2>1 DEF VerifyLeft
  <2>3. (a - 1) * (m + 4) = (a * (m + 4)) - (m + 4) OBVIOUS
  <2>4. PICK y \in Int : y = (a - 1) * PerVisit
    <3>1. PerVisit \in Nat BY <1>2 DEF PerVisit
    <3>2. QED BY <3>1
  <2>5. y = x - (m + 4) BY <1>1, <1>2, <1>3, <2>3, <2>4 DEF PerVisit
  <2>6. VerifyLeft' = x - 1 BY <2>2, <2>4, <2>5
  <2>7. QED BY <1>4, <2>6
<1>7. QED BY <1>5, <1>6

(* Each step of a verification that has begun leaves less of it: it has at  *)
(* most MaxUrls + 4 steps for each certificate of the chain, whatever       *)
(* OpenSSL reports and the responders answer.                               *)
THEOREM VerificationBounded ==
  Spec => /\ [](VerifyLeft \in Nat)
          /\ [][(pc \in {"walk", "fetch"}) => VerifyLeft' < VerifyLeft]_vars
<1>1. VerifyInv => VerifyLeft \in Nat
  <2> SUFFICES ASSUME VerifyInv PROVE VerifyLeft \in Nat OBVIOUS
  <2>1. at \in Nat /\ urls \in Nat /\ MaxUrls \in Nat BY BoundsAssumption DEF VerifyInv, TypeOK
  <2>2. PICK x \in Nat : x = at * PerVisit
    <3>1. PerVisit \in Nat BY <2>1 DEF PerVisit
    <3>2. QED BY <2>1, <3>1
  <2>3. QED BY <2>1, <2>2 DEF VerifyLeft
<1>2. VerifyInv /\ Next /\ pc \in {"walk", "fetch"} => VerifyLeft' < VerifyLeft
  <2> SUFFICES ASSUME VerifyInv, Next, pc \in {"walk", "fetch"} PROVE VerifyLeft' < VerifyLeft OBVIOUS
  <2>1. at \in Nat /\ urls \in Nat /\ MaxUrls \in Nat BY BoundsAssumption DEF VerifyInv, TypeOK
  <2>2. PICK x \in Nat : x = at * PerVisit
    <3>1. PerVisit \in Nat BY <2>1 DEF PerVisit
    <3>2. QED BY <2>1, <3>1
  <2>3. CASE NothingToReport
    <3>1. /\ pc = "walk" /\ quiet = FALSE /\ pc' = "walk" /\ quiet' = TRUE /\ at' = at
      BY <2>3 DEF NothingToReport, VerifyInv, TypeOK
    <3>2. VerifyLeft = x + MaxUrls + 3 /\ VerifyLeft' = x + MaxUrls + 2 BY <2>2, <3>1 DEF VerifyLeft
    <3>3. QED BY <2>1, <3>2
  <2>4. CASE \E err \in ReportedError : Report(err)
    <3>1. PICK err \in ReportedError : Report(err) BY <2>4
    <3>2. CASE Waived(err)
      <4>1. /\ pc = "walk" /\ quiet = FALSE /\ pc' = "walk" /\ quiet' = TRUE /\ at' = at
        BY <3>1, <3>2 DEF Report, VerifyInv, TypeOK
      <4>2. VerifyLeft = x + MaxUrls + 3 /\ VerifyLeft' = x + MaxUrls + 2 BY <2>2, <4>1 DEF VerifyLeft
      <4>3. QED BY <2>1, <4>2
    <3>3. CASE ~Waived(err)
      <4>1. Reject BY <3>1, <3>3 DEF Report
      <4>2. QED BY <4>1, ConcludeShrinks
    <3>4. QED BY <3>2, <3>3
  <2>5. CASE VisitWaived \/ VisitWithoutOcsp \/ VisitWithoutResponder \/ RespondersExhausted
    <3>1. Accept \/ Reject
      BY <2>5 DEF VisitWaived, VisitWithoutOcsp, VisitWithoutResponder, RespondersExhausted, Conclude
    <3>2. QED BY <3>1, ConcludeShrinks
  <2>6. CASE \E n \in 1..MaxUrls : VisitWithResponders(n)
    <3>1. PICK n \in 1..MaxUrls : VisitWithResponders(n) BY <2>6
    <3>2. pc = "walk" /\ quiet = TRUE /\ pc' = "fetch" /\ urls' = n /\ at' = at
      BY <3>1 DEF VisitWithResponders, VerifyInv, TypeOK
    <3>3. VerifyLeft = x + MaxUrls + 2 /\ VerifyLeft' = x + n + 1 BY <2>2, <3>2 DEF VerifyLeft
    <3>4. QED BY <2>1, <3>3
  <2>7. CASE \E answer \in Answer : AskResponder(answer)
    <3>1. PICK answer \in Answer : AskResponder(answer) BY <2>7
    <3>2. CASE answer \in Definitive
      <4>1. Accept \/ Reject BY <3>1, <3>2 DEF AskResponder, Conclude
      <4>2. QED BY <4>1, ConcludeShrinks
    <3>3. CASE answer \notin Definitive
      <4>1. pc = "fetch" /\ pc' = "fetch" /\ urls' = urls - 1 /\ at' = at
        BY <3>1, <3>3 DEF AskResponder
      <4>2. VerifyLeft = x + urls + 1 /\ VerifyLeft' = x + (urls - 1) + 1 BY <2>2, <4>1 DEF VerifyLeft
      <4>3. QED BY <2>1, <4>2
    <3>4. QED BY <3>2, <3>3
  <2>8. QED BY <2>3, <2>4, <2>5, <2>6, <2>7 DEF Next, SetVerify, BeginVerify
<1>3. QED BY <1>1, <1>2, VerifyInvariance, PTL DEF Spec
=============================================================================
