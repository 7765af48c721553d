------------------------------ MODULE Credentials ------------------------------
(***************************************************************************)
(* Certificates, private keys and passwords of contexts (sslcontext.c,     *)
(* sslutils.c): setCertificate with load_pem_key, load_pem_cert and        *)
(* ssl_load_pkcs12, setCertificateRaw, the password callback, and the part *)
(* of ssl_context_cleanup that concerns them.                              *)
(*                                                                         *)
(* Call number n loads the objects <<"cert", n>> and <<"key", n>>; whether *)
(* these match is a choice, those of different calls do not.  Objects are  *)
(* reference counted: one reference belongs to the field c->certs[idx] or  *)
(* c->keys[idx], one to the SSL_CTX (external).  The SSL_CTX serves one    *)
(* certificate and one key for each type of key; it drops the key of a     *)
(* type when it is given a certificate of that type that does not match    *)
(* it, and refuses a key that does not match the certificate of its type.  *)
(*                                                                         *)
(* Contexts are set up by threads of their own; they share one password,   *)
(* tcn_password_callback, as c->cb_data never points to another one.  The  *)
(* slots of a context do not interact: one is modelled.  Copying a         *)
(* password is one step.  A call with an index out of range, or with a raw *)
(* certificate that cannot be read, is a stuttering step.  When memory     *)
(* that was given to free() is read or given back once more, this is       *)
(* recorded, and the model goes on as if it did no damage.                 *)
(***************************************************************************)
EXTENDS Integers

CONSTANTS
  Ctx,       \* contexts
  Password,  \* passwords of files, of callers and of the user
  KeyType,   \* types of keys: RSA, EC, ...
  MaxCalls   \* bound: calls that load objects

ASSUME CredentialsAssumption == MaxCalls \in Nat

Null == <<"null", 0>>
Obj == {"cert", "key"} \X (1..MaxCalls)
NoPassword == "no_password"
Unreadable == "unreadable"
Given == Password \cup {NoPassword}
Nothing == [t \in KeyType |-> Null]

VARIABLES
  password,    \* tcn_password_callback.password, NoPassword if empty
  calls,       \* calls made
  step,        \* where the call on each context is
  p12,         \* the file is a PKCS12 file
  need,        \* what opens the file: a password, none, or nothing at all
  tries,       \* failed turns of the loop in load_pem_key
  load,        \* number of the call
  slotCert, slotKey,  \* c->certs[idx] and c->keys[idx]
  usedCert, usedKey,  \* what the SSL_CTX serves for each type of key
  refs,        \* reference counts
  released,    \* objects whose memory free() has released
  overwritten, \* history: objects that setCertificate wrote over in a slot
  replaced,    \* history: contexts whose slot setCertificateRaw found filled
  touched,     \* history: contexts whose SSL_CTX used a released object
  freed,       \* contexts that SSLContext.free has cleaned up
  result       \* what the last call on each context returned

callVars == <<step, p12, need, tries, load>>
freeVars == <<released, replaced, touched>>
objVars  == <<slotCert, slotKey, usedCert, usedKey, refs, overwritten, freeVars>>
vars     == <<password, calls, callVars, objVars, freed, result>>

TypeOK ==
  /\ password \in Given /\ calls \in 0..MaxCalls
  /\ step \in [Ctx -> {"idle", "open", "prompt", "cert", "use"}]
  /\ p12 \in [Ctx -> BOOLEAN] /\ need \in [Ctx -> Given \cup {Unreadable}]
  /\ tries \in [Ctx -> 0..2] /\ load \in [Ctx -> 0..MaxCalls]
  /\ slotCert \in [Ctx -> Obj \cup {Null}] /\ slotKey \in [Ctx -> Obj \cup {Null}]
  /\ usedCert \in [Ctx -> [KeyType -> Obj \cup {Null}]]
  /\ usedKey \in [Ctx -> [KeyType -> Obj \cup {Null}]]
  /\ refs \in [Obj -> 0..2]
  /\ released \in SUBSET Obj /\ overwritten \in SUBSET Obj
  /\ replaced \in SUBSET Ctx /\ touched \in SUBSET Ctx /\ freed \in SUBSET Ctx
  /\ result \in [Ctx -> {"none", "true", "false"}]

(* SSL.initialize has cleared the password, make the slots. *)
Init ==
  /\ password = NoPassword /\ calls = 0
  /\ step = [c \in Ctx |-> "idle"]
  /\ p12 = [c \in Ctx |-> FALSE] /\ need = [c \in Ctx |-> NoPassword]
  /\ tries = [c \in Ctx |-> 0] /\ load = [c \in Ctx |-> 0]
  /\ slotCert = [c \in Ctx |-> Null] /\ slotKey = [c \in Ctx |-> Null]
  /\ usedCert = [c \in Ctx |-> Nothing] /\ usedKey = [c \in Ctx |-> Nothing]
  /\ refs = [o \in Obj |-> 0]
  /\ released = {} /\ overwritten = {} /\ replaced = {} /\ touched = {} /\ freed = {}
  /\ result = [c \in Ctx |-> "none"]

-----------------------------------------------------------------------------
(* Helpers *)

Count(o, S) == IF o \in S THEN 1 ELSE 0
Up(S) == refs' = [o \in Obj |-> refs[o] + Count(o, S)]

Goto(c, s) ==
  /\ step' = [step EXCEPT ![c] = s]
  /\ UNCHANGED <<p12, need, result>>

(* The call on c returns r, and its local variables are gone. *)
Return(c, r) ==
  /\ step' = [step EXCEPT ![c] = "idle"]
  /\ p12' = [p12 EXCEPT ![c] = FALSE]
  /\ need' = [need EXCEPT ![c] = NoPassword]
  /\ result' = [result EXCEPT ![c] = r]

(* setCertificate writes new objects over the pointers in the slot and does *)
(* not release what they pointed to.                                        *)
Overwrite(c, key, cert) ==
  /\ slotKey' = [slotKey EXCEPT ![c] = key]
  /\ slotCert' = [slotCert EXCEPT ![c] = cert]
  /\ overwritten' = overwritten \cup ({slotKey[c], slotCert[c]} \ {key, cert, Null})
  /\ Up({key, cert} \ {slotKey[c], slotCert[c]})
  /\ UNCHANGED <<usedCert, usedKey, freeVars>>

(* The SSL_CTX of c serves certs and keys from now on; on the way it reads *)
(* or gives back the objects used.                                         *)
Served(c) == {usedCert[c][t] : t \in KeyType} \cup {usedKey[c][t] : t \in KeyType}
Serve(c, certs, keys, used) ==
  LET new == {certs[t] : t \in KeyType} \cup {keys[t] : t \in KeyType}
  IN  /\ usedCert' = [usedCert EXCEPT ![c] = certs]
      /\ usedKey' = [usedKey EXCEPT ![c] = keys]
      /\ refs' = [o \in Obj |-> refs[o] + Count(o, new) - Count(o, Served(c))]
      /\ touched' = IF used \cap released = {} THEN touched ELSE touched \cup {c}

Cert(c) == <<"cert", load[c]>>
Key(c) == <<"key", load[c]>>

-----------------------------------------------------------------------------
(* setCertificate *)

Begin(c) ==
  /\ step[c] = "idle" /\ c \notin freed /\ calls < MaxCalls
  /\ calls' = calls + 1
  /\ load' = [load EXCEPT ![c] = calls + 1]

(* A password goes to the shared place, also if no file is named. *)
SetCertificate(c, isP12, opens, pass) ==
  /\ Begin(c)
  /\ password' = IF pass = NoPassword THEN password ELSE pass
  /\ p12' = [p12 EXCEPT ![c] = isP12]
  /\ need' = [need EXCEPT ![c] = opens]
  /\ step' = [step EXCEPT ![c] = "open"]
  /\ result' = [result EXCEPT ![c] = "none"]
  /\ UNCHANGED <<tries, objVars, freed>>

SetCertificateWithoutFile(c, pass) ==
  /\ step[c] = "idle" /\ c \notin freed
  /\ password' = pass
  /\ UNCHANGED <<calls, callVars, objVars, freed, result>>

(* The loop in load_pem_key makes three turns. *)
MoreTries_Four(c) == tries[c] < 3
MoreTries(c) == tries[c] < 2

(* The end of an attempt to open the file, with password pass.  A PEM key   *)
(* is tried three times and a password that failed is forgotten; a PKCS12   *)
(* file is tried once, keeps the password and yields the certificate too,   *)
(* if it holds one, unless PKCS12_parse fails, which clears the slot.       *)
Attempt(c, pass) ==
  LET opened == need[c] \in {NoPassword, pass}
  IN  \/ /\ ~p12[c] /\ opened
         /\ Overwrite(c, Key(c), slotCert[c])
         /\ password' = pass
         /\ Goto(c, "cert")
         /\ tries' = [tries EXCEPT ![c] = 0]
      \/ /\ ~p12[c] /\ ~opened
         /\ password' = NoPassword
         /\ IF MoreTries(c)
              THEN /\ tries' = [tries EXCEPT ![c] = @ + 1]
                   /\ Goto(c, "open") /\ UNCHANGED objVars
              ELSE /\ Overwrite(c, Null, slotCert[c])
                   /\ Return(c, "false")
                   /\ tries' = [tries EXCEPT ![c] = 0]
      \/ /\ p12[c] /\ password' = pass /\ UNCHANGED tries
         /\ IF opened
              THEN \/ \E cert \in {Cert(c), Null} : Overwrite(c, Key(c), cert) /\ Goto(c, "use")
                   \/ Overwrite(c, Null, Null) /\ Return(c, "false")
              ELSE Return(c, "false") /\ UNCHANGED objVars

(* Opening a file needs the password callback if it is encrypted: without *)
(* a password at hand, it prompts the user.                               *)
Open(c) ==
  /\ step[c] = "open"
  /\ need[c] \notin Password \/ password # NoPassword
  /\ Attempt(c, password)
  /\ UNCHANGED <<calls, load, freed>>

(* There is no such file: the password stays, a PEM key is lost. *)
FileMissing(c) ==
  /\ step[c] = "open" /\ need[c] = Unreadable /\ tries[c] = 0
  /\ IF p12[c] THEN UNCHANGED objVars ELSE Overwrite(c, Null, slotCert[c])
  /\ Return(c, "false")
  /\ UNCHANGED <<password, calls, tries, load, freed>>

Prompt(c) ==
  /\ step[c] = "open"
  /\ need[c] \in Password /\ password = NoPassword
  /\ step' = [step EXCEPT ![c] = "prompt"]
  /\ UNCHANGED <<password, calls, p12, need, tries, load, objVars, freed, result>>

(* The user answers, perhaps with nothing; the answer goes to the shared *)
(* place, whatever was put there meanwhile.                              *)
Answer(c, pass) ==
  /\ step[c] = "prompt"
  /\ Attempt(c, pass)
  /\ UNCHANGED <<calls, load, freed>>

LoadPemCert(c, found) ==
  /\ step[c] = "cert"
  /\ Overwrite(c, slotKey[c], IF found THEN Cert(c) ELSE Null)
  /\ IF found THEN Goto(c, "use") ELSE Return(c, "false")
  /\ UNCHANGED <<password, calls, tries, load, freed>>

-----------------------------------------------------------------------------
(* setCertificateRaw releases what is in the slot with free(), whatever its *)
(* reference count is.  A certificate that cannot be read changes nothing,  *)
(* a key that cannot be read leaves the new certificate in the slot.        *)
SetCertificateRaw_FreesFirst(c, goodKey) ==
  LET cert == <<"cert", calls + 1>>
      key  == <<"key", calls + 1>>
      old  == {slotCert[c], slotKey[c]}
  IN  /\ Begin(c)
      /\ slotCert' = [slotCert EXCEPT ![c] = cert]
      /\ slotKey' = IF goodKey THEN [slotKey EXCEPT ![c] = key] ELSE slotKey
      /\ Up({cert} \cup (IF goodKey THEN {key} ELSE {}))
      /\ released' = released \cup (old \ {Null})
      /\ replaced' = IF old \subseteq {Null} THEN replaced ELSE replaced \cup {c}
      /\ IF goodKey THEN Goto(c, "use") ELSE Return(c, "false")
      /\ UNCHANGED <<password, tries, usedCert, usedKey, overwritten, touched, freed>>
SetCertificateRaw(c, goodKey) ==
  LET cert == <<"cert", calls + 1>>
      key  == <<"key", calls + 1>>
      old  == {slotCert[c]} \cup (IF goodKey THEN {slotKey[c]} ELSE {})
  IN  /\ Begin(c)
      /\ slotCert' = [slotCert EXCEPT ![c] = cert]
      /\ slotKey' = IF goodKey THEN [slotKey EXCEPT ![c] = key] ELSE slotKey
      /\ Up({cert} \cup (IF goodKey THEN {key} ELSE {}))
      /\ released' = released \cup (old \ {Null})
      /\ replaced' = IF old \subseteq {Null} THEN replaced ELSE replaced \cup {c}
      /\ IF goodKey THEN Goto(c, "use") ELSE Return(c, "false")
      /\ UNCHANGED <<password, tries, usedCert, usedKey, overwritten, touched, freed>>

-----------------------------------------------------------------------------
(* SSL_CTX_use_certificate, SSL_CTX_use_PrivateKey and the check of both,  *)
(* the end of both calls.  The certificate, of type t, is refused; or it   *)
(* takes the place of the one of its type, and the key of that type goes.  *)
(* The key, of type u, is stored if it matches, and also if its type has   *)
(* no certificate, when the check fails; a certificate of another type is  *)
(* compared with it, and refuses it.                                       *)
UseCredentials_IgnoresKey(c, t, u, outcome) ==
  /\ step[c] = "use"
  /\ slotCert[c] = Null => outcome = "refused"
  /\ outcome = "ok" => u = t
  /\ IF outcome = "refused"
       THEN Return(c, "false") /\ UNCHANGED objVars
       ELSE LET stored == outcome = "ok" \/ (u # t /\ usedCert[c][u] = Null)
                certs == [usedCert[c] EXCEPT ![t] = slotCert[c]]
                keys  == [x \in KeyType |-> IF x = u /\ stored THEN slotKey[c]
                                            ELSE IF x = t THEN Null ELSE usedKey[c][x]]
            IN  /\ Serve(c, certs, keys, {usedCert[c][t], usedKey[c][t], usedCert[c][u]}
                                           \cup (IF stored THEN {usedKey[c][u]} ELSE {}))
                /\ Return(c, "true")
                /\ UNCHANGED <<slotCert, slotKey, released, replaced, overwritten>>
  /\ UNCHANGED <<password, calls, tries, load, freed>>
UseCredentials(c, t, u, outcome) ==
  /\ step[c] = "use"
  /\ slotCert[c] = Null => outcome = "refused"
  /\ outcome = "ok" => u = t
  /\ IF outcome = "refused"
       THEN Return(c, "false") /\ UNCHANGED objVars
       ELSE LET stored == outcome = "ok" \/ (u # t /\ usedCert[c][u] = Null)
                certs == [usedCert[c] EXCEPT ![t] = slotCert[c]]
                keys  == [x \in KeyType |-> IF x = u /\ stored THEN slotKey[c]
                                            ELSE IF x = t THEN Null ELSE usedKey[c][x]]
            IN  /\ Serve(c, certs, keys, {usedCert[c][t], usedKey[c][t], usedCert[c][u]}
                                           \cup (IF stored THEN {usedKey[c][u]} ELSE {}))
                /\ Return(c, IF outcome = "ok" THEN "true" ELSE "false")
                /\ UNCHANGED <<slotCert, slotKey, released, replaced, overwritten>>
  /\ UNCHANGED <<password, calls, tries, load, freed>>

(* The cleanup drops the references of the slot, and the SSL_CTX, once no *)
(* connection keeps it, its own.                                          *)
SSLContextFree_KeepsKey(c) ==
  /\ step[c] = "idle" /\ c \notin freed
  /\ freed' = freed \cup {c}
  /\ refs' = [o \in Obj |-> refs[o] - Count(o, {slotCert[c]}) - Count(o, Served(c))]
  /\ touched' = IF Served(c) \cap released = {} THEN touched ELSE touched \cup {c}
  /\ slotCert' = [slotCert EXCEPT ![c] = Null] /\ slotKey' = [slotKey EXCEPT ![c] = Null]
  /\ usedCert' = [usedCert EXCEPT ![c] = Nothing] /\ usedKey' = [usedKey EXCEPT ![c] = Nothing]
  /\ UNCHANGED <<password, calls, callVars, released, replaced, overwritten, result>>
SSLContextFree(c) ==
  /\ step[c] = "idle" /\ c \notin freed
  /\ freed' = freed \cup {c}
  /\ refs' = [o \in Obj |-> refs[o] - Count(o, {slotCert[c], slotKey[c]}) - Count(o, Served(c))]
  /\ touched' = IF Served(c) \cap released = {} THEN touched ELSE touched \cup {c}
  /\ slotCert' = [slotCert EXCEPT ![c] = Null] /\ slotKey' = [slotKey EXCEPT ![c] = Null]
  /\ usedCert' = [usedCert EXCEPT ![c] = Nothing] /\ usedKey' = [usedKey EXCEPT ![c] = Nothing]
  /\ UNCHANGED <<password, calls, callVars, released, replaced, overwritten, result>>

Next ==
  \E c \in Ctx :
    \/ \E isP12 \in BOOLEAN, opens \in Given \cup {Unreadable}, pass \in Given :
         SetCertificate(c, isP12, opens, pass)
    \/ \E pass \in Password : SetCertificateWithoutFile(c, pass)
    \/ Open(c) \/ FileMissing(c) \/ Prompt(c)
    \/ \E pass \in Given : Answer(c, pass)
    \/ \E found \in BOOLEAN : LoadPemCert(c, found)
    \/ \E goodKey \in BOOLEAN : SetCertificateRaw(c, goodKey)
    \/ \E t, u \in KeyType, outcome \in {"refused", "mismatch", "ok"} :
         UseCredentials(c, t, u, outcome)
    \/ SSLContextFree(c)

Spec == Init /\ [][Next]_vars

-----------------------------------------------------------------------------
Slots(o) == {c \in Ctx : o \in {slotCert[c], slotKey[c]}}
Users(o) == {c \in Ctx : o \in Served(c)}

(* A call that returned true has made the SSL_CTX serve the certificate    *)
(* and the key which this very call loaded, as the pair of one type,       *)
(* whatever earlier calls left half-way and calls on other contexts did    *)
(* with the shared password meanwhile.                                     *)
ServesWhatWasSet ==
  \A c \in Ctx \ freed :
    result[c] = "true" /\ step[c] = "idle" =>
      \E t \in KeyType : usedCert[c][t] = Cert(c) /\ usedKey[c][t] = Key(c)

(* Certificates and keys live as long as a context refers to them; those   *)
(* no context refers to have been freed, except the ones whose slot        *)
(* setCertificate wrote over.                                              *)
FreedWhenUnused ==
  \A o \in Obj \ released :
    /\ Slots(o) \cup Users(o) # {} => refs[o] > 0
    /\ Slots(o) \cup Users(o) = {} /\ o \notin overwritten => refs[o] = 0

(* free() in setCertificateRaw releases objects whatever their reference   *)
(* count, also those that the SSL_CTX still serves: a second call on a     *)
(* context makes SSL_CTX_use_certificate give back what is gone already,   *)
(* even if it succeeds, and a certificate of another type stays served.    *)
(* The damage is confined to contexts whose slot setCertificateRaw found   *)
(* filled: no other SSL_CTX uses or serves a released object.  No slot     *)
(* ever refers to one, and what the last call loaded and serves is not     *)
(* one.                                                                    *)
ReleaseConfined ==
  \A c \in Ctx :
    /\ {slotCert[c], slotKey[c]} \cap released = {}
    /\ c \notin freed /\ result[c] = "true" /\ step[c] = "idle" =>
         {Cert(c), Key(c)} \cap released = {}
    /\ c \notin replaced => c \notin touched /\ Served(c) \cap released = {}
=============================================================================
