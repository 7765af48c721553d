---------------------------- MODULE ConnectionProofs ----------------------------
(***************************************************************************)
(* Proofs about Connection for every number of connections, handshakes and *)
(* verifiers.                                                              *)
(*                                                                         *)
(* The properties are not inductive alone.  The counter is exact only      *)
(* because the callback that counts is installed before any connection can *)
(* complete a handshake, and stays (CallbackInv).  A request stays marked  *)
(* as in progress only because a connection with a request pending cannot  *)
(* be in a handshake, whose verification would mark it complete            *)
(* (PendingInv).  A verify callback that nothing overlapped has its        *)
(* verifier only because the callback is installed after a verifier and    *)
(* its method are stored, because removing the callback keeps them, and    *)
(* because what it has read is still what the context holds (VerifierInv). *)
(***************************************************************************)
EXTENDS Connection, TLAPS

CallbackInv ==
  \A s \in Conn :
    /\ state[s] # "unused" => infoCallback = "ssl_info_callback"
    /\ state[s] = "handshake" => completed[s] < MaxHandshakes
    /\ state[s] \in {"verify", "call"} /\ ~pending[s] => completed[s] < MaxHandshakes

PendingInv ==
  \A s \in Conn : pending[s] => state[s] \in {"open", "verify", "call"} /\ tls13[s]

VerifierInv ==
  /\ freed => setting = "idle"
  /\ setting = "deleted" => verifiers < MaxVerifiers
  /\ setting = "stored" => verifier # 0
  /\ setting = "idle" => method = verifier
  /\ certVerify => verifier # 0 \/ freed
  /\ \A s \in Conn : state[s] \in {"verify", "call"} /\ s \notin overlapped =>
       /\ setting = "idle" /\ ~freed /\ verifier # 0
       /\ state[s] = "call" => reading[s] = verifier
  /\ VerifierHeld

ConnectionInv ==
  /\ TypeOK
  /\ CallbackInv /\ CountExact
  /\ PendingInv /\ PendingInProgress
  /\ VerifierInv

-----------------------------------------------------------------------------
(* A new context satisfies the inductive invariant.                        *)
LEMMA InitInv == Init => ConnectionInv
<1> SUFFICES ASSUME Init PROVE ConnectionInv OBVIOUS
<1>1. TypeOK
  <2>1. 0 \in 0..MaxHandshakes /\ 0 \in 0..MaxVerifiers BY ConnectionAssumption
  <2>2. verifyMode \in Level BY DEF Init, Level
  <2>3. /\ globalRefs \subseteq 1..MaxVerifiers
        /\ marked \in SUBSET Conn /\ overlapped \in SUBSET Conn /\ missed \in SUBSET Conn
    BY DEF Init
  <2>4. QED BY <2>1, <2>2, <2>3 DEF Init, TypeOK
<1>2. CallbackInv /\ CountExact BY DEF Init, CallbackInv, CountExact
<1>3. PendingInv /\ PendingInProgress BY DEF Init, PendingInv, PendingInProgress
<1>4. VerifierInv BY DEF Init, VerifierInv, VerifierHeld
<1>5. QED BY <1>1, <1>2, <1>3, <1>4 DEF ConnectionInv

(* The calls on the context leave its connections alone.                   *)
LEMMA ContextStepInv ==
  ASSUME ConnectionInv,
         \/ \E level \in InputLevels : SSLContextSetVerify(level)
         \/ ClearVerifier \/ DeleteOldVerifier \/ StoreVerifier \/ InstallVerifier
         \/ SSLContextFree
  PROVE  ConnectionInv'
<1> USE DEF ConnectionInv
<1>1. UNCHANGED <<infoCallback, state, connVars, completed, marked, missed>>
  BY DEF SSLContextSetVerify, ClearVerifier, DeleteOldVerifier, StoreVerifier, InstallVerifier,
         SSLContextFree, histVars, callVars
<1>2. CallbackInv' /\ CountExact' /\ PendingInv' /\ PendingInProgress'
  BY <1>1 DEF connVars, CallbackInv, CountExact, PendingInv, PendingInProgress
<1>3. CASE \E level \in InputLevels : SSLContextSetVerify(level)
  <2>1. PICK level \in InputLevels : SSLContextSetVerify(level) BY <1>3
  <2>2. Effective(level) \in Level BY ConnectionAssumption DEF Effective, Level
  <2>3. TypeOK'
    BY <1>1, <2>1, <2>2 DEF SSLContextSetVerify, verifierVars, connVars, histVars, callVars, TypeOK
  <2>4. VerifierInv'
    BY <1>1, <2>1 DEF SSLContextSetVerify, verifierVars, connVars, histVars, callVars, VerifierInv, VerifierHeld
  <2>5. QED BY <1>2, <2>3, <2>4
<1>4. CASE ClearVerifier
  <2>1. TypeOK' BY <1>1, <1>4 DEF ClearVerifier, connVars, histVars, callVars, TypeOK
  <2>2. VerifierInv' BY <1>1, <1>4 DEF ClearVerifier, connVars, histVars, callVars, VerifierInv, VerifierHeld
  <2>3. QED BY <1>2, <2>1, <2>2
<1>5. CASE DeleteOldVerifier
  <2>1. TypeOK' BY <1>1, <1>5 DEF DeleteOldVerifier, Verifying, connVars, TypeOK
  <2>2. VerifierInv'
    BY <1>1, <1>5 DEF DeleteOldVerifier, Verifying, connVars, VerifierInv, VerifierHeld
  <2>3. QED BY <1>2, <2>1, <2>2
<1>6. CASE StoreVerifier
  <2>0. PICK n \in 0..MaxVerifiers : n = verifiers + 1 /\ n # 0
    BY <1>6, ConnectionAssumption DEF StoreVerifier, TypeOK, VerifierInv
  <2>1. verifier' = n /\ globalRefs' = globalRefs \cup {n} BY <1>6, <2>0 DEF StoreVerifier
  <2>2. TypeOK' BY <1>1, <1>6, <2>0, <2>1 DEF StoreVerifier, connVars, histVars, callVars, TypeOK
  <2>3. VerifierInv'
    BY <1>1, <1>6, <2>0, <2>1 DEF StoreVerifier, connVars, histVars, callVars, VerifierInv, VerifierHeld
  <2>4. QED BY <1>2, <2>2, <2>3
<1>7. CASE InstallVerifier
  <2>1. TypeOK' BY <1>1, <1>7 DEF InstallVerifier, connVars, histVars, callVars, TypeOK
  <2>2. VerifierInv'
    BY <1>1, <1>7 DEF InstallVerifier, connVars, histVars, callVars, VerifierInv, VerifierHeld
  <2>3. QED BY <1>2, <2>1, <2>2
<1>8. CASE SSLContextFree
  <2>1. 0 \in 0..MaxVerifiers BY ConnectionAssumption
  <2>2. TypeOK' BY <1>1, <1>8, <2>1 DEF SSLContextFree, Verifying, connVars, TypeOK
  <2>3. VerifierInv'
    BY <1>1, <1>8 DEF SSLContextFree, Verifying, connVars, VerifierInv, VerifierHeld
  <2>4. QED BY <1>2, <2>2, <2>3
<1>9. QED BY <1>3, <1>4, <1>5, <1>6, <1>7, <1>8

(* The info callback moves the renegotiation state within its type.        *)
LEMMA RenegStateType ==
  ASSUME TypeOK, NEW s \in Conn, NEW event, NEW v13, InfoCallback(s, event, v13)
  PROVE  renegState' \in [Conn -> {"INIT", "REJECT", "ALLOW", "ABORT"}]
BY DEF InfoCallback, TypeOK

(* newSSL, and the calls that change only settings of one connection.      *)
LEMMA SettingStepInv ==
  ASSUME ConnectionInv, NEW s \in Conn,
         \/ NewSSL(s)
         \/ \E level \in InputLevels : SetVerify(s, level)
         \/ \E offered \in BOOLEAN : VerifyClientPostHandshake(s, offered)
         \/ MarkPostHandshakeAuthComplete(s)
  PROVE  ConnectionInv'
<1> USE DEF ConnectionInv
<1>1. UNCHANGED <<verifierVars, freed, tls13, handshakeCount, renegState, reading, completed, callVars>>
  BY DEF NewSSL, SetVerify, VerifyClientPostHandshake, MarkPostHandshakeAuthComplete, ctxVars, histVars
<1>2. CountExact' BY <1>1 DEF CountExact
<1>3. VerifierInv'
  <2>1. \A t \in Conn : state'[t] \in {"verify", "call"} => state[t] = state'[t]
    BY DEF NewSSL, SetVerify, VerifyClientPostHandshake, MarkPostHandshakeAuthComplete, TypeOK
  <2>2. QED BY <1>1, <2>1 DEF verifierVars, callVars, VerifierInv, VerifierHeld
<1>4. CASE NewSSL(s)
  <2>1. TypeOK' BY <1>1, <1>4 DEF NewSSL, verifierVars, histVars, callVars, TypeOK
  <2>2. CallbackInv' BY <1>1, <1>4 DEF NewSSL, CallbackInv, TypeOK
  <2>3. PendingInv' /\ PendingInProgress'
    BY <1>1, <1>4 DEF NewSSL, histVars, PendingInv, PendingInProgress, TypeOK
  <2>4. QED BY <1>2, <1>3, <2>1, <2>2, <2>3
<1>5. CASE \E level \in InputLevels : SetVerify(s, level)
  <2>1. PICK level \in InputLevels : SetVerify(s, level) BY <1>5
  <2>2. Effective(level) \in Level BY ConnectionAssumption DEF Effective, Level
  <2>3. TypeOK' BY <1>1, <2>1, <2>2 DEF SetVerify, verifierVars, histVars, callVars, TypeOK
  <2>4. CallbackInv' BY <1>1, <2>1 DEF SetVerify, CallbackInv
  <2>5. PendingInv' /\ PendingInProgress'
    BY <1>1, <2>1 DEF SetVerify, histVars, PendingInv, PendingInProgress
  <2>6. QED BY <1>2, <1>3, <2>3, <2>4, <2>5
<1>6. CASE \E offered \in BOOLEAN : VerifyClientPostHandshake(s, offered)
  <2>1. PICK offered \in BOOLEAN : VerifyClientPostHandshake(s, offered) BY <1>6
  <2>2. UNCHANGED <<ctxVars, state, asks>> /\ state[s] = "open" BY <2>1 DEF VerifyClientPostHandshake
  <2>3. /\ phaState' = [phaState EXCEPT ![s] = "STARTED"]
        /\ pending' = [pending EXCEPT ![s] = pending[s] \/ (offered /\ tls13[s] /\ asks[s])]
        /\ marked' = marked \ {s}
    BY <2>1 DEF VerifyClientPostHandshake
  <2>4. pending' \in [Conn -> BOOLEAN] BY <2>3 DEF TypeOK
  <2>5. TypeOK' BY <1>1, <2>2, <2>3, <2>4 DEF ctxVars, verifierVars, callVars, TypeOK
  <2>6. \A t \in Conn : t # s => pending'[t] = pending[t] BY <2>3 DEF TypeOK
  <2>7. pending'[s] => pending[s] \/ tls13[s] BY <2>3 DEF TypeOK
  <2>8. CallbackInv' BY <1>1, <2>2, <2>6 DEF ctxVars, CallbackInv
  <2>9. PendingInv' BY <1>1, <2>2, <2>6, <2>7 DEF PendingInv
  <2>10. PendingInProgress' BY <2>3, <2>6 DEF PendingInProgress, TypeOK
  <2>11. QED BY <1>2, <1>3, <2>5, <2>8, <2>9, <2>10
<1>7. CASE MarkPostHandshakeAuthComplete(s)
  <2>1. TypeOK'
    BY <1>1, <1>7 DEF MarkPostHandshakeAuthComplete, ctxVars, verifierVars, callVars, TypeOK
  <2>2. CallbackInv'
    BY <1>1, <1>7 DEF MarkPostHandshakeAuthComplete, ctxVars, CallbackInv
  <2>3. PendingInv' /\ PendingInProgress'
    BY <1>1, <1>7 DEF MarkPostHandshakeAuthComplete, PendingInv, PendingInProgress, TypeOK
  <2>4. QED BY <1>2, <1>3, <2>1, <2>2, <2>3
<1>8. QED BY <1>4, <1>5, <1>6, <1>7

(* A handshake begins: no request is pending on the connection.            *)
LEMMA StartHandshakeInv ==
  ASSUME ConnectionInv, NEW s \in Conn, StartHandshake(s)
  PROVE  ConnectionInv'
<1> USE DEF ConnectionInv
<1>1. /\ state[s] = "new" \/ (state[s] = "open" /\ ~tls13[s])
      /\ completed[s] < MaxHandshakes
      /\ state' = [state EXCEPT ![s] = "handshake"]
      /\ InfoCallback(s, "start", tls13[s])
      /\ UNCHANGED <<ctxVars, tls13, asks, phaState, reading, pending, histVars>>
  BY DEF StartHandshake
<1>2. handshakeCount' = handshakeCount BY <1>1 DEF InfoCallback
<1>3. TypeOK'
  BY <1>1, <1>2, RenegStateType DEF ctxVars, verifierVars, histVars, callVars, TypeOK
<1>4. CallbackInv' /\ CountExact'
  BY <1>1, <1>2 DEF ctxVars, histVars, CallbackInv, CountExact, TypeOK
<1>5. PendingInv' /\ PendingInProgress'
  BY <1>1 DEF histVars, PendingInv, PendingInProgress, TypeOK
<1>6. VerifierInv'
  BY <1>1 DEF ctxVars, verifierVars, histVars, callVars, VerifierInv, VerifierHeld, TypeOK
<1>7. QED BY <1>3, <1>4, <1>5, <1>6

(* A handshake completes and is counted once, wherever its certificate was *)
(* verified.                                                               *)
LEMMA CompleteHandshakeCounts ==
  ASSUME ConnectionInv, NEW s \in Conn, CompleteHandshake(s), UNCHANGED <<infoCallback, pending>>,
         state[s] # "unused", completed[s] < MaxHandshakes, ~pending[s]
  PROVE  /\ state' = [state EXCEPT ![s] = "open"]
         /\ state' \in [Conn -> {"unused", "new", "handshake", "open", "verify", "call"}]
         /\ tls13' \in [Conn -> BOOLEAN]
         /\ handshakeCount' \in [Conn -> 0..MaxHandshakes]
         /\ renegState' \in [Conn -> {"INIT", "REJECT", "ALLOW", "ABORT"}]
         /\ completed' \in [Conn -> 0..MaxHandshakes]
         /\ CallbackInv' /\ CountExact' /\ PendingInv'
<1> USE DEF ConnectionInv
<1>1. /\ state' = [state EXCEPT ![s] = "open"]
      /\ InfoCallback(s, "done", tls13'[s])
      /\ completed' = [completed EXCEPT ![s] = completed[s] + 1]
  BY DEF CompleteHandshake
<1>2. PICK v \in BOOLEAN : tls13' = [tls13 EXCEPT ![s] = v] BY DEF CompleteHandshake
<1>3. infoCallback = "ssl_info_callback" BY DEF CallbackInv
<1>4. handshakeCount' = [handshakeCount EXCEPT ![s] = handshakeCount[s] + 1]
  BY <1>1, <1>3 DEF InfoCallback
<1>5. handshakeCount[s] = completed[s] BY DEF CountExact
<1>6. /\ handshakeCount' \in [Conn -> 0..MaxHandshakes]
      /\ completed' \in [Conn -> 0..MaxHandshakes]
  BY <1>1, <1>4, <1>5, ConnectionAssumption DEF TypeOK
<1>7. CallbackInv' /\ CountExact'
  BY <1>1, <1>4 DEF CallbackInv, CountExact, TypeOK
<1>8. PendingInv' BY <1>1, <1>2 DEF PendingInv, TypeOK
<1>9. QED BY <1>1, <1>2, <1>6, <1>7, <1>8, RenegStateType DEF TypeOK

(* A handshake that does not call SSL_cert_verify ends.                    *)
LEMMA FinishHandshakeInv ==
  ASSUME ConnectionInv, NEW s \in Conn, NEW certificate \in BOOLEAN, FinishHandshake(s, certificate)
  PROVE  ConnectionInv'
<1> USE DEF ConnectionInv
<1>1. /\ state[s] = "handshake" /\ completed[s] < MaxHandshakes
      /\ CompleteHandshake(s)
      /\ UNCHANGED <<ctxVars, asks, reading, pending, marked, callVars>>
  BY DEF FinishHandshake, CallbackInv
<1>2. ~pending[s] BY <1>1 DEF PendingInv
<1>3. /\ phaState' \in [Conn -> {"NONE", "STARTED", "COMPLETE"}]
      /\ \A t \in Conn : t # s => phaState'[t] = phaState[t]
  BY DEF FinishHandshake, VerifyCallback, TypeOK
<1>4. UNCHANGED infoCallback BY <1>1 DEF ctxVars
<1>5. TypeOK'
  BY <1>1, <1>2, <1>3, <1>4, CompleteHandshakeCounts DEF ctxVars, verifierVars, callVars, TypeOK
<1>6. CallbackInv' /\ CountExact' /\ PendingInv' BY <1>1, <1>2, <1>4, CompleteHandshakeCounts
<1>7. PendingInProgress' BY <1>1, <1>2, <1>3 DEF PendingInProgress
<1>8. VerifierInv'
  <2>1. \A t \in Conn : state'[t] \in {"verify", "call"} => state[t] = state'[t]
    BY <1>1, <1>2, <1>4, CompleteHandshakeCounts DEF TypeOK
  <2>2. QED BY <1>1, <2>1 DEF ctxVars, verifierVars, callVars, VerifierInv, VerifierHeld
<1>9. QED BY <1>5, <1>6, <1>7, <1>8

(* SSL_cert_verify begins, and reads the verifier.                         *)
LEMMA ReadVerifierInv ==
  ASSUME ConnectionInv, NEW s \in Conn, BeginVerify(s) \/ ReadVerifier(s)
  PROVE  ConnectionInv'
<1> USE DEF ConnectionInv
<1>1. CASE BeginVerify(s)
  <2>1. /\ UNCHANGED <<ctxVars, connVars, completed, marked>>
        /\ state' = [state EXCEPT ![s] = "verify"]
        /\ state[s] = "handshake" \/ (state[s] = "open" /\ pending[s])
    BY <1>1 DEF BeginVerify
  <2>2. overlapped' \in SUBSET Conn /\ missed' \in SUBSET Conn BY <1>1 DEF BeginVerify, TypeOK
  <2>3. TypeOK' BY <2>1, <2>2 DEF ctxVars, verifierVars, connVars, TypeOK
  <2>4. CallbackInv' /\ CountExact'
    BY <2>1 DEF ctxVars, connVars, CallbackInv, CountExact, TypeOK
  <2>5. PendingInv' /\ PendingInProgress'
    BY <2>1 DEF connVars, PendingInv, PendingInProgress, TypeOK
  <2>6. VerifierHeld'
    BY <1>1, <2>1 DEF BeginVerify, ctxVars, verifierVars, VerifierInv, VerifierHeld
  <2>7. VerifierInv'
    <3>1. ASSUME NEW t \in Conn, state'[t] \in {"verify", "call"}, t \notin overlapped'
          PROVE  /\ setting = "idle" /\ ~freed /\ verifier # 0
                 /\ state'[t] = "call" => reading[t] = verifier
      <4>1. CASE t = s
        BY <1>1, <2>1, <3>1, <4>1 DEF BeginVerify, VerifierInv, TypeOK
      <4>2. CASE t # s
        <5>1. t \notin overlapped /\ state'[t] = state[t]
          BY <1>1, <2>1, <3>1, <4>2 DEF BeginVerify, TypeOK
        <5>2. QED BY <3>1, <5>1 DEF VerifierInv
      <4>3. QED BY <4>1, <4>2
    <3>2. QED BY <2>1, <2>6, <3>1 DEF ctxVars, verifierVars, connVars, VerifierInv
  <2>8. QED BY <2>3, <2>4, <2>5, <2>7
<1>2. CASE ReadVerifier(s)
  <2>1. /\ UNCHANGED <<ctxVars, tls13, asks, handshakeCount, renegState, phaState, pending, histVars>>
        /\ state[s] = "verify"
        /\ state' = [state EXCEPT ![s] = "call"]
        /\ reading' = [reading EXCEPT ![s] = verifier]
    BY <1>2 DEF ReadVerifier
  <2>2. TypeOK' BY <2>1 DEF ctxVars, verifierVars, histVars, callVars, TypeOK
  <2>3. CallbackInv' /\ CountExact'
    BY <2>1 DEF ctxVars, histVars, CallbackInv, CountExact, TypeOK
  <2>4. PendingInv' /\ PendingInProgress'
    BY <2>1 DEF histVars, PendingInv, PendingInProgress, TypeOK
  <2>5. VerifierInv'
    BY <2>1 DEF ctxVars, verifierVars, histVars, callVars, VerifierInv, VerifierHeld, TypeOK
  <2>6. QED BY <2>2, <2>3, <2>4, <2>5
<1>3. QED BY <1>1, <1>2

(* A call that nothing overlapped finds the verifier and its method.       *)
LEMMA CallVerifierInv ==
  ASSUME ConnectionInv, NEW s \in Conn, CallVerifier(s)
  PROVE  ConnectionInv'
<1> USE DEF ConnectionInv
<1>1. /\ state[s] = "call"
      /\ missed' = IF reading[s] \in globalRefs /\ method = reading[s]
                     THEN missed ELSE missed \cup {s}
      /\ reading' = [reading EXCEPT ![s] = 0]
      /\ UNCHANGED <<ctxVars, asks, phaState, marked, overlapped>>
  BY DEF CallVerifier
<1>2. missed' \subseteq overlapped
  <2>1. s \notin overlapped => reading[s] \in globalRefs /\ method = reading[s]
    BY <1>1 DEF VerifierInv, VerifierHeld
  <2>2. QED BY <1>1, <2>1 DEF VerifierInv, VerifierHeld
<1>3. 0 \in 0..MaxVerifiers BY ConnectionAssumption
<1>4. reading' \in [Conn -> 0..MaxVerifiers] /\ missed' \in SUBSET Conn
  BY <1>1, <1>3 DEF TypeOK
<1>5. state' = [state EXCEPT ![s] = "open"] BY DEF CallVerifier, CompleteHandshake
<1>6. VerifierInv'
  <2>1. VerifierHeld'
    BY <1>1, <1>2 DEF ctxVars, verifierVars, VerifierInv, VerifierHeld
  <2>2. QED
    BY <1>1, <1>5, <2>1 DEF ctxVars, verifierVars, VerifierInv, TypeOK
<1>7. CASE ~pending[s]
  <2>1. CompleteHandshake(s) /\ UNCHANGED <<infoCallback, pending>>
    BY <1>7 DEF CallVerifier, ctxVars
  <2>2. completed[s] < MaxHandshakes BY <1>1, <1>7 DEF CallbackInv
  <2>3. TypeOK'
    BY <1>1, <1>4, <1>7, <2>1, <2>2, CompleteHandshakeCounts DEF ctxVars, verifierVars, TypeOK
  <2>4. CallbackInv' /\ CountExact' /\ PendingInv'
    BY <1>1, <1>7, <2>1, <2>2, CompleteHandshakeCounts
  <2>5. PendingInProgress' BY <1>1, <2>1 DEF PendingInProgress
  <2>6. QED BY <1>6, <2>3, <2>4, <2>5
<1>8. CASE pending[s]
  <2>1. /\ pending' = [pending EXCEPT ![s] = FALSE]
        /\ UNCHANGED <<tls13, handshakeCount, renegState, completed>>
    BY <1>8 DEF CallVerifier
  <2>2. TypeOK' BY <1>1, <1>4, <1>5, <2>1 DEF ctxVars, verifierVars, TypeOK
  <2>3. CallbackInv' /\ CountExact'
    BY <1>1, <1>5, <2>1 DEF ctxVars, CallbackInv, CountExact, TypeOK
  <2>4. PendingInv' /\ PendingInProgress'
    BY <1>1, <1>5, <2>1 DEF PendingInv, PendingInProgress, TypeOK
  <2>5. QED BY <1>6, <2>2, <2>3, <2>4
<1>9. QED BY <1>7, <1>8

(* The client's answer ends the request.                                   *)
LEMMA ClientAnswersInv ==
  ASSUME ConnectionInv, NEW s \in Conn, NEW certificate \in BOOLEAN, ClientAnswers(s, certificate)
  PROVE  ConnectionInv'
<1> USE DEF ConnectionInv
<1>1. /\ state[s] = "open"
      /\ pending' = [pending EXCEPT ![s] = FALSE]
      /\ UNCHANGED <<ctxVars, state, tls13, asks, handshakeCount, renegState, reading, histVars>>
  BY DEF ClientAnswers
<1>2. /\ phaState' \in [Conn -> {"NONE", "STARTED", "COMPLETE"}]
      /\ \A t \in Conn : t # s => phaState'[t] = phaState[t]
  BY DEF ClientAnswers, VerifyCallback, TypeOK
<1>3. TypeOK' BY <1>1, <1>2 DEF ctxVars, verifierVars, histVars, callVars, TypeOK
<1>4. CallbackInv' /\ CountExact' BY <1>1 DEF ctxVars, histVars, CallbackInv, CountExact, TypeOK
<1>5. PendingInv' /\ PendingInProgress'
  BY <1>1, <1>2 DEF histVars, PendingInv, PendingInProgress, TypeOK
<1>6. VerifierInv'
  BY <1>1 DEF ctxVars, verifierVars, histVars, callVars, VerifierInv, VerifierHeld
<1>7. QED BY <1>3, <1>4, <1>5, <1>6

-----------------------------------------------------------------------------
(* Every step keeps the invariant.                                         *)
LEMMA NextInv == ConnectionInv /\ [Next]_vars => ConnectionInv'
<1> SUFFICES ASSUME ConnectionInv, [Next]_vars PROVE ConnectionInv' OBVIOUS
<1>1. CASE \/ \E level \in InputLevels : SSLContextSetVerify(level)
           \/ ClearVerifier \/ DeleteOldVerifier \/ StoreVerifier \/ InstallVerifier
           \/ SSLContextFree
  BY <1>1, ContextStepInv
<1>2. ASSUME NEW s \in Conn,
             \/ NewSSL(s)
             \/ \E level \in InputLevels : SetVerify(s, level)
             \/ \E offered \in BOOLEAN : VerifyClientPostHandshake(s, offered)
             \/ MarkPostHandshakeAuthComplete(s)
      PROVE  ConnectionInv'
  BY <1>2, SettingStepInv
<1>3. ASSUME NEW s \in Conn, StartHandshake(s) PROVE ConnectionInv'
  BY <1>3, StartHandshakeInv
<1>4. ASSUME NEW s \in Conn, NEW certificate \in BOOLEAN, FinishHandshake(s, certificate)
      PROVE  ConnectionInv'
  BY <1>4, FinishHandshakeInv
<1>5. ASSUME NEW s \in Conn, BeginVerify(s) \/ ReadVerifier(s) PROVE ConnectionInv'
  BY <1>5, ReadVerifierInv
<1>6. ASSUME NEW s \in Conn, CallVerifier(s) PROVE ConnectionInv'
  BY <1>6, CallVerifierInv
<1>7. ASSUME NEW s \in Conn, NEW certificate \in BOOLEAN, ClientAnswers(s, certificate)
      PROVE  ConnectionInv'
  BY <1>7, ClientAnswersInv
<1>8. CASE UNCHANGED vars
  BY <1>8 DEF vars, ctxVars, verifierVars, connVars, histVars, callVars, ConnectionInv, TypeOK,
              CallbackInv, CountExact, PendingInv, PendingInProgress, VerifierInv, VerifierHeld
<1>9. QED BY <1>1, <1>2, <1>3, <1>4, <1>5, <1>6, <1>7, <1>8 DEF Next

(* The invariant holds in every reachable state.                           *)
THEOREM ConnectionInvariance == Spec => []ConnectionInv
BY InitInv, NextInv, PTL DEF Spec

(* The state of the context and of its connections keeps its type; the     *)
(* counter of a connection stays within the handshakes it has had.         *)
THEOREM ConnectionTypeCorrect == Spec => []TypeOK
<1>1. ConnectionInv => TypeOK BY DEF ConnectionInv
<1>2. QED BY <1>1, ConnectionInvariance, PTL

(* getHandshakeCount is exact for any number of connections that share the *)
(* callback, although newSSL exchanges it during their handshakes.         *)
THEOREM HandshakesCounted == Spec => []CountExact
<1>1. ConnectionInv => CountExact BY DEF ConnectionInv
<1>2. QED BY <1>1, ConnectionInvariance, PTL

(* A post-handshake request without an answer is reported as in progress   *)
(* until Java marks it complete, whatever else happens on the context.     *)
THEOREM PendingReported == Spec => []PendingInProgress
<1>1. ConnectionInv => PendingInProgress BY DEF ConnectionInv
<1>2. QED BY <1>1, ConnectionInvariance, PTL

(* No global reference is leaked or deleted twice, and only a verify       *)
(* callback that a replacement or SSLContext.free overlapped can miss its  *)
(* verifier, although nothing locks the two against each other.            *)
THEOREM VerifierReferenced == Spec => []VerifierHeld
<1>1. ConnectionInv => VerifierHeld BY DEF ConnectionInv, VerifierInv
<1>2. QED BY <1>1, ConnectionInvariance, PTL
=============================================================================
