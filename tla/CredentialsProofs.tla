--------------------------- MODULE CredentialsProofs ---------------------------
(***************************************************************************)
(* Proofs about Credentials for every number of contexts, passwords, types *)
(* of keys and calls.                                                      *)
(*                                                                         *)
(* Reference counts are exact (RefInv): an object has one reference for    *)
(* the slot and one for the SSL_CTX that refer to it, and one that nobody  *)
(* gives back if its slot was written over or released with free().  No    *)
(* two contexts share an object, because what a call loads is new          *)
(* (FreshInv) and the numbers of calls in progress differ (CallInv).  A    *)
(* call that returned true has left its objects in the slot as well, and   *)
(* slots never refer to released objects (ServeInv).  As no two contexts   *)
(* share an object, free() harms only the context whose slot held what it  *)
(* released (ConfinedInv).                                                 *)
(***************************************************************************)
EXTENDS Credentials, TLAPS

CertObj == {"cert"} \X (1..MaxCalls)
KeyObj  == {"key"} \X (1..MaxCalls)

InSlot(c, o) == o \in {slotCert[c], slotKey[c]}
InUse(c, o)  == o \in Served(c)

(* The references that nobody gives back. *)
Lost == released \cup overwritten

Fresh(o) == o \notin Lost /\ \A c \in Ctx : ~InSlot(c, o) /\ ~InUse(c, o)

One(b) == IF b THEN 1 ELSE 0

(* An object belongs to one context; its references are those that exist. *)
RefInv ==
  /\ slotCert \in [Ctx -> CertObj \cup {Null}] /\ slotKey \in [Ctx -> KeyObj \cup {Null}]
  /\ usedCert \in [Ctx -> [KeyType -> CertObj \cup {Null}]]
  /\ usedKey \in [Ctx -> [KeyType -> KeyObj \cup {Null}]]
  /\ released \in SUBSET Obj /\ overwritten \in SUBSET Obj
  /\ refs \in [Obj -> Int]
  /\ \A o \in Obj, c, d \in Ctx :
       (InSlot(c, o) \/ InUse(c, o)) /\ (InSlot(d, o) \/ InUse(d, o)) => c = d
  /\ \A c \in Ctx, o \in Lost : ~InSlot(c, o)
  /\ \A o \in Obj :
       refs[o] = One(\E c \in Ctx : InSlot(c, o)) + One(\E c \in Ctx : InUse(c, o))
                 + One(o \in Lost)

CallInv ==
  /\ password \in Given /\ calls \in 0..MaxCalls
  /\ step \in [Ctx -> {"idle", "open", "prompt", "cert", "use"}]
  /\ p12 \in [Ctx -> BOOLEAN] /\ need \in [Ctx -> Given \cup {Unreadable}]
  /\ tries \in [Ctx -> 0..2] /\ load \in [Ctx -> 0..MaxCalls]
  /\ freed \in SUBSET Ctx
  /\ result \in [Ctx -> {"none", "true", "false"}]
  /\ \A c \in Ctx : load[c] <= calls /\ (step[c] # "idle" => load[c] # 0)
  /\ \A c, d \in Ctx : load[c] = load[d] => c = d \/ load[c] = 0

(* What the call on c has loaded so far. *)
FreshAt(c) ==
  /\ step[c] \in {"open", "prompt"} => Fresh(Key(c)) /\ Fresh(Cert(c))
  /\ step[c] = "cert" => slotKey[c] = Key(c) /\ Fresh(Cert(c))
  /\ step[c] = "use" => slotKey[c] = Key(c) /\ slotCert[c] \in {Cert(c), Null}

FreshInv == (\A o \in Obj : o[2] > calls => Fresh(o)) /\ \A c \in Ctx : FreshAt(c)

(* What a context that was freed, or whose last call succeeded, refers to. *)
ServeAt(c) ==
  /\ c \in freed =>
       /\ step[c] = "idle"
       /\ slotCert[c] = Null /\ slotKey[c] = Null
       /\ usedCert[c] = Nothing /\ usedKey[c] = Nothing
  /\ c \notin freed /\ result[c] = "true" /\ step[c] = "idle" =>
       /\ slotCert[c] = Cert(c) /\ slotKey[c] = Key(c)
       /\ \E t \in KeyType : usedCert[c][t] = Cert(c) /\ usedKey[c][t] = Key(c)

ServeInv == \A c \in Ctx : ServeAt(c)

(* free() has harmed the SSL_CTX of a context only if setCertificateRaw    *)
(* found its slot filled.                                                  *)
ConfinedAt(c) == c \notin replaced => c \notin touched /\ \A o \in released : ~InUse(c, o)

ConfinedInv ==
  /\ replaced \in SUBSET Ctx /\ touched \in SUBSET Ctx
  /\ \A c \in Ctx : ConfinedAt(c)

CredInv == RefInv /\ CallInv /\ FreshInv /\ ServeInv /\ ConfinedInv

-----------------------------------------------------------------------------
(* Objects                                                                 *)

LEMMA Objects ==
  /\ CertObj \subseteq Obj /\ KeyObj \subseteq Obj /\ Null \notin Obj
  /\ CertObj \cap KeyObj = {}
BY DEF CertObj, KeyObj, Obj, Null

(* What the calls in progress load.                                        *)
LEMMA Loaded ==
  ASSUME CallInv, NEW c \in Ctx, load[c] # 0
  PROVE  /\ Cert(c) \in CertObj /\ Key(c) \in KeyObj
         /\ \A d \in Ctx : d # c => Cert(d) # Cert(c) /\ Key(d) # Key(c)
         /\ \A d \in Ctx : Cert(d) # Key(c)
<1>1. load[c] \in 1..MaxCalls BY DEF CallInv
<1>2. \A d \in Ctx : d # c => load[d] # load[c] BY DEF CallInv
<1>3. QED BY <1>1, <1>2 DEF Cert, Key, CertObj, KeyObj

(* A step changes what context c refers to and loses nothing but what its  *)
(* slot referred to.                                                       *)
OnlyOf(c) ==
  /\ \A d \in Ctx : d # c => /\ slotCert'[d] = slotCert[d] /\ slotKey'[d] = slotKey[d]
                             /\ usedCert'[d] = usedCert[d] /\ usedKey'[d] = usedKey[d]
  /\ \A o \in Lost' : o \in Lost \/ InSlot(c, o)

(* It releases nothing but what the slot of c referred to, and the harm of *)
(* this is to c.                                                           *)
Confines(c) ==
  /\ replaced' \in {replaced, replaced \cup {c}} /\ touched' \in {touched, touched \cup {c}}
  /\ \A o \in released' : o \in released \/ InSlot(c, o)
  /\ ConfinedAt(c) => ConfinedAt(c)'

LEMMA ConfinedKept ==
  ASSUME RefInv, RefInv', ConfinedInv, NEW c \in Ctx, OnlyOf(c), Confines(c)
  PROVE  ConfinedInv'
<1>1. replaced' \in SUBSET Ctx /\ touched' \in SUBSET Ctx BY DEF Confines, ConfinedInv
<1>2. ASSUME NEW d \in Ctx, d # c PROVE ConfinedAt(d)'
  <2>1. ASSUME d \notin replaced', NEW o \in released', InUse(d, o)' PROVE FALSE
    <3>1. d \notin replaced BY <1>2, <2>1 DEF Confines
    <3>2. InUse(d, o) BY <1>2, <2>1 DEF OnlyOf, InUse, Served
    <3>3. o \in Obj /\ (o \in released \/ InSlot(c, o)) BY <2>1 DEF Confines, RefInv
    <3>4. QED BY <1>2, <3>1, <3>2, <3>3 DEF ConfinedInv, ConfinedAt, RefInv
  <2>2. d \notin replaced' => d \notin touched'
    BY <1>2 DEF Confines, ConfinedInv, ConfinedAt
  <2>3. QED BY <2>1, <2>2 DEF ConfinedAt
<1>3. ConfinedAt(c)' BY DEF Confines, ConfinedInv
<1>4. QED BY <1>1, <1>2, <1>3 DEF ConfinedInv

(* It keeps the reference counts exact if it changes them by what changed  *)
(* for this context.                                                       *)
LEMMA RefsKept ==
  ASSUME RefInv, NEW c \in Ctx,
         slotCert' \in [Ctx -> CertObj \cup {Null}], slotKey' \in [Ctx -> KeyObj \cup {Null}],
         usedCert' \in [Ctx -> [KeyType -> CertObj \cup {Null}]],
         usedKey' \in [Ctx -> [KeyType -> KeyObj \cup {Null}]],
         released' \in SUBSET Obj, overwritten' \in SUBSET Obj, refs' \in [Obj -> Int],
         OnlyOf(c),
         \A o \in Obj : InSlot(c, o)' \/ InUse(c, o)' => InSlot(c, o) \/ InUse(c, o) \/ Fresh(o),
         \A o \in Lost' : ~InSlot(c, o)',
         \A o \in Obj :
           refs'[o] - One(InSlot(c, o)') - One(InUse(c, o)') - One(o \in Lost')
             = refs[o] - One(InSlot(c, o)) - One(InUse(c, o)) - One(o \in Lost)
  PROVE  RefInv'
<1>0. \A d \in Ctx, o \in Obj : d # c => InSlot(d, o)' = InSlot(d, o) /\ InUse(d, o)' = InUse(d, o)
  BY DEF OnlyOf, InSlot, InUse, Served
<1>1. \A o \in Obj, a, d \in Ctx :
        (InSlot(a, o)' \/ InUse(a, o)') /\ (InSlot(d, o)' \/ InUse(d, o)') => a = d
  <2>1. SUFFICES ASSUME NEW o \in Obj, NEW a \in Ctx, NEW d \in Ctx,
                        InSlot(a, o)' \/ InUse(a, o)', InSlot(d, o)' \/ InUse(d, o)', a # d
                 PROVE  FALSE
    OBVIOUS
  <2>2. \/ (InSlot(a, o) \/ InUse(a, o)) /\ (InSlot(d, o) \/ InUse(d, o))
        \/ Fresh(o) /\ \E e \in Ctx : InSlot(e, o) \/ InUse(e, o)
    BY <1>0, <2>1
  <2>3. QED BY <2>1, <2>2 DEF RefInv, Fresh
<1>2. \A d \in Ctx, o \in Lost' : ~InSlot(d, o)'
  <2>1. SUFFICES ASSUME NEW d \in Ctx, d # c, NEW o \in Lost', InSlot(d, o)' PROVE FALSE OBVIOUS
  <2>2. o \in Obj /\ InSlot(d, o) BY <1>0, <2>1 DEF Lost
  <2>3. QED BY <2>1, <2>2 DEF RefInv, OnlyOf
<1>3. ASSUME NEW o \in Obj
      PROVE  refs'[o] = One(\E d \in Ctx : InSlot(d, o)') + One(\E d \in Ctx : InUse(d, o)')
                        + One(o \in Lost')
  <2> DEFINE OS == \E d \in Ctx : d # c /\ InSlot(d, o)
             OU == \E d \in Ctx : d # c /\ InUse(d, o)
             H  == InSlot(c, o) \/ InUse(c, o)
             Hp == InSlot(c, o)' \/ InUse(c, o)'
  <2>1. /\ (\E d \in Ctx : InSlot(d, o)) <=> (OS \/ InSlot(c, o))
        /\ (\E d \in Ctx : InUse(d, o)) <=> (OU \/ InUse(c, o))
        /\ (\E d \in Ctx : InSlot(d, o)') <=> (OS \/ InSlot(c, o)')
        /\ (\E d \in Ctx : InUse(d, o)') <=> (OU \/ InUse(c, o)')
    BY <1>0
  <2>2. H => ~OS /\ ~OU BY DEF RefInv
  <2>3. Hp => ~OS /\ ~OU BY <2>2 DEF Fresh
  <2>4. refs[o] = One(\E d \in Ctx : InSlot(d, o)) + One(\E d \in Ctx : InUse(d, o))
                  + One(o \in Lost)
    BY DEF RefInv
  <2>5. /\ refs[o] \in Int /\ refs'[o] \in Int
        /\ refs'[o] - One(InSlot(c, o)') - One(InUse(c, o)') - One(o \in Lost')
             = refs[o] - One(InSlot(c, o)) - One(InUse(c, o)) - One(o \in Lost)
    BY DEF RefInv
  <2> HIDE DEF OS, OU
  <2>6. /\ One(\E d \in Ctx : InSlot(d, o)) = One(OS) + One(InSlot(c, o))
        /\ One(\E d \in Ctx : InUse(d, o)) = One(OU) + One(InUse(c, o))
    BY <2>1, <2>2 DEF One
  <2>7. /\ One(\E d \in Ctx : InSlot(d, o)') = One(OS) + One(InSlot(c, o)')
        /\ One(\E d \in Ctx : InUse(d, o)') = One(OU) + One(InUse(c, o)')
    BY <2>1, <2>3 DEF One
  <2> DEFINE os == One(OS)
             ou == One(OU)
             s == One(InSlot(c, o))
             u == One(InUse(c, o))
             l == One(o \in Lost)
             sp == One(InSlot(c, o)')
             up == One(InUse(c, o)')
             lp == One(o \in Lost')
             rp == refs'[o]
  <2>8. os \in Int /\ ou \in Int /\ s \in Int /\ u \in Int /\ sp \in Int /\ up \in Int
        /\ l \in Int /\ lp \in Int /\ rp \in Int /\ refs[o] \in Int
    BY <2>5 DEF One
  <2>9. refs[o] = (os + s) + (ou + u) + l /\ rp - sp - up - lp = refs[o] - s - u - l
    BY <2>4, <2>5, <2>6, Zenon
  <2> HIDE DEF os, ou, s, u, l, sp, up, lp, rp
  <2>10. rp = (os + sp) + (ou + up) + lp BY <2>8, <2>9
  <2>11. QED BY <2>7, <2>10, Zenon DEF os, ou, sp, up, lp, rp
<1>4. QED BY <1>1, <1>2, <1>3 DEF RefInv

(* What was fresh stays so unless context c now refers to it.              *)
LEMMA FreshKept ==
  ASSUME RefInv, NEW c \in Ctx, OnlyOf(c), NEW o, Fresh(o), ~InSlot(c, o)', ~InUse(c, o)'
  PROVE  Fresh(o)'
BY DEF OnlyOf, Fresh, InSlot, InUse, Served

(* New objects in the slot; what was there is lost.                        *)
Replaces(c, key, cert) ==
  /\ slotKey' = [slotKey EXCEPT ![c] = key] /\ slotCert' = [slotCert EXCEPT ![c] = cert]
  /\ released' \in SUBSET Obj /\ overwritten' \in SUBSET Obj
  /\ Lost' = Lost \cup ({slotKey[c], slotCert[c]} \ {key, cert, Null})
  /\ Up({key, cert} \ {slotKey[c], slotCert[c]})
  /\ UNCHANGED <<usedCert, usedKey>>

LEMMA ReplacesKeeps ==
  ASSUME RefInv, NEW c \in Ctx, NEW key \in KeyObj \cup {Null}, NEW cert \in CertObj \cup {Null},
         key \in {slotKey[c], Null} \/ Fresh(key), cert \in {slotCert[c], Null} \/ Fresh(cert),
         Replaces(c, key, cert)
  PROVE  /\ RefInv' /\ OnlyOf(c)
         /\ slotKey'[c] = key /\ slotCert'[c] = cert
         /\ \A o : InUse(c, o)' = InUse(c, o)
<1>1. /\ slotCert' \in [Ctx -> CertObj \cup {Null}] /\ slotKey' \in [Ctx -> KeyObj \cup {Null}]
      /\ \A d \in Ctx : slotKey'[d] = IF d = c THEN key ELSE slotKey[d]
      /\ \A d \in Ctx : slotCert'[d] = IF d = c THEN cert ELSE slotCert[d]
      /\ usedCert' = usedCert /\ usedKey' = usedKey
  BY DEF Replaces, RefInv
<1>2. slotKey[c] \in KeyObj \cup {Null} /\ slotCert[c] \in CertObj \cup {Null} BY DEF RefInv
<1>3. /\ released' \in SUBSET Obj /\ overwritten' \in SUBSET Obj
      /\ \A o : o \in Lost' <=> o \in Lost \/ (o \in Obj /\ InSlot(c, o) /\ o \notin {key, cert})
  BY <1>1, <1>2, Objects DEF Replaces, InSlot
<1>4. OnlyOf(c) BY <1>1, <1>3 DEF OnlyOf
<1>5. refs' \in [Obj -> Int] BY DEF Replaces, Up, Count, RefInv
<1>6. \A o : InSlot(c, o)' = (o \in {key, cert}) /\ InUse(c, o)' = InUse(c, o)
  BY <1>1 DEF InSlot, InUse, Served
<1>7. \A o \in Obj : InSlot(c, o)' \/ InUse(c, o)' => InSlot(c, o) \/ InUse(c, o) \/ Fresh(o)
  BY <1>6, Objects DEF InSlot
<1>8. \A o \in Lost' : ~InSlot(c, o)'
  <2>1. SUFFICES ASSUME NEW o \in Lost, o \in {key, cert} PROVE FALSE BY <1>3, <1>6
  <2>2. o \in Obj /\ ~InSlot(c, o) BY DEF RefInv, Lost
  <2>3. QED BY <2>1, <2>2, Objects DEF Fresh, InSlot
<1>9. ASSUME NEW o \in Obj
      PROVE  refs'[o] - One(InSlot(c, o)') - One(InUse(c, o)') - One(o \in Lost')
               = refs[o] - One(InSlot(c, o)) - One(InUse(c, o)) - One(o \in Lost)
  <2>1. refs'[o] = refs[o] + Count(o, {key, cert} \ {slotKey[c], slotCert[c]})
    BY DEF Replaces, Up
  <2>2. refs[o] \in Int BY DEF RefInv
  <2>3. One(InUse(c, o)') = One(InUse(c, o)) /\ One(InUse(c, o)) \in Int BY <1>6 DEF One
  <2>4. InSlot(c, o) => o \notin Lost BY DEF RefInv
  <2>5. CASE o \in {key, cert} /\ InSlot(c, o)
    <3>1. /\ refs'[o] = refs[o] + 0 /\ One(InSlot(c, o)') = 1 /\ One(InSlot(c, o)) = 1
          /\ One(o \in Lost') = 0 /\ One(o \in Lost) = 0
      BY <1>3, <1>6, <2>1, <2>4, <2>5 DEF One, Count, InSlot
    <3>2. QED BY <2>2, <2>3, <3>1
  <2>6. CASE o \in {key, cert} /\ ~InSlot(c, o)
    <3>1. Fresh(o) BY <2>6, Objects DEF InSlot
    <3>2. /\ refs'[o] = refs[o] + 1 /\ One(InSlot(c, o)') = 1 /\ One(InSlot(c, o)) = 0
          /\ One(o \in Lost') = 0 /\ One(o \in Lost) = 0
      BY <1>3, <1>6, <2>1, <2>6, <3>1 DEF One, Count, InSlot, Fresh
    <3>3. QED BY <2>2, <2>3, <3>2
  <2>7. CASE o \notin {key, cert} /\ InSlot(c, o)
    <3>1. /\ refs'[o] = refs[o] + 0 /\ One(InSlot(c, o)') = 0 /\ One(InSlot(c, o)) = 1
          /\ One(o \in Lost') = 1 /\ One(o \in Lost) = 0
      BY <1>3, <1>6, <2>1, <2>4, <2>7 DEF One, Count
    <3>2. QED BY <2>2, <2>3, <3>1
  <2>8. CASE o \notin {key, cert} /\ ~InSlot(c, o)
    <3>1. refs'[o] = refs[o] + 0 /\ One(InSlot(c, o)') = 0 /\ One(InSlot(c, o)) = 0
      BY <1>6, <2>1, <2>8 DEF One, Count
    <3>2. (o \in Lost') <=> (o \in Lost) BY <1>3, <2>8
    <3>3. One(o \in Lost') = One(o \in Lost) /\ One(o \in Lost) \in Int BY <3>2 DEF One
    <3>4. QED BY <2>2, <2>3, <3>1, <3>3
  <2>9. QED BY <2>5, <2>6, <2>7, <2>8
<1>10. RefInv'
  BY <1>1, <1>3, <1>4, <1>5, <1>7, <1>8, <1>9, RefsKept DEF RefInv
<1>11. QED BY <1>1, <1>4, <1>6, <1>10

LEMMA OverwriteReplaces ==
  ASSUME RefInv, NEW c \in Ctx, NEW key, NEW cert, Overwrite(c, key, cert)
  PROVE  Replaces(c, key, cert)
<1>1. slotKey[c] \in Obj \cup {Null} /\ slotCert[c] \in Obj \cup {Null} BY Objects DEF RefInv
<1>2. QED BY <1>1 DEF Overwrite, Replaces, Lost, RefInv, freeVars

(* The SSL_CTX serves other objects, all of them in the slot or served     *)
(* before.                                                                 *)
LEMMA UsesKeeps ==
  ASSUME RefInv, NEW c \in Ctx, NEW certs \in [KeyType -> CertObj \cup {Null}],
         NEW keys \in [KeyType -> KeyObj \cup {Null}], NEW used, Serve(c, certs, keys, used),
         \A t \in KeyType, o \in Obj :
           o \in {certs[t], keys[t]} => InSlot(c, o) \/ InUse(c, o),
         UNCHANGED <<slotCert, slotKey, released, overwritten>>
  PROVE  /\ RefInv' /\ OnlyOf(c) /\ usedCert'[c] = certs /\ usedKey'[c] = keys
         /\ \A o \in Obj : InUse(c, o)' => InSlot(c, o) \/ InUse(c, o)
<1> DEFINE new == {certs[t] : t \in KeyType} \cup {keys[t] : t \in KeyType}
<1>1. /\ usedCert' \in [Ctx -> [KeyType -> CertObj \cup {Null}]]
      /\ usedKey' \in [Ctx -> [KeyType -> KeyObj \cup {Null}]]
      /\ \A d \in Ctx : usedKey'[d] = IF d = c THEN keys ELSE usedKey[d]
      /\ \A d \in Ctx : usedCert'[d] = IF d = c THEN certs ELSE usedCert[d]
      /\ Lost' = Lost
      /\ refs' = [o \in Obj |-> refs[o] + Count(o, new) - Count(o, Served(c))]
  BY DEF RefInv, Lost, Serve
<1>2. OnlyOf(c) BY <1>1 DEF OnlyOf
<1>3. refs' \in [Obj -> Int]
  <2>1. \A o \in Obj : refs[o] \in Int /\ Count(o, new) \in Int /\ Count(o, Served(c)) \in Int
    BY DEF Count, RefInv
  <2> HIDE DEF new
  <2>2. QED BY <1>1, <2>1
<1>4. \A o : (InSlot(c, o)' <=> InSlot(c, o)) /\ (InUse(c, o)' <=> o \in new)
  <2>1. slotCert' = slotCert /\ slotKey' = slotKey /\ usedCert'[c] = certs /\ usedKey'[c] = keys
    BY <1>1
  <2>2. QED BY <2>1 DEF InSlot, InUse, Served
<1>5. \A o \in Obj : InSlot(c, o)' \/ InUse(c, o)' => InSlot(c, o) \/ InUse(c, o)
  BY <1>4
<1>6. \A o \in Lost' : ~InSlot(c, o)' BY <1>1, <1>4 DEF RefInv
<1> HIDE DEF new
<1>7. ASSUME NEW o \in Obj
      PROVE  refs'[o] - One(InSlot(c, o)') - One(InUse(c, o)') - One(o \in Lost')
               = refs[o] - One(InSlot(c, o)) - One(InUse(c, o)) - One(o \in Lost)
  <2>1. refs'[o] = refs[o] + One(InUse(c, o)') - One(InUse(c, o))
    BY <1>1, <1>4 DEF Count, One, InUse
  <2>2. /\ One(InSlot(c, o)') = One(InSlot(c, o)) /\ One(o \in Lost') = One(o \in Lost)
        /\ One(InSlot(c, o)) \in Int /\ One(InUse(c, o)) \in Int /\ One(InUse(c, o)') \in Int
        /\ One(o \in Lost) \in Int
    BY <1>1, <1>4 DEF One
  <2>3. refs[o] \in Int BY DEF RefInv
  <2>4. QED BY <2>1, <2>2, <2>3
<1>8. RefInv' BY <1>1, <1>2, <1>3, <1>5, <1>6, <1>7, RefsKept DEF RefInv
<1>9. QED BY <1>1, <1>2, <1>5, <1>8

(* SSLContext.free drops all references of the context.                    *)
LEMMA FreeKeeps ==
  ASSUME RefInv, NEW c \in Ctx, SSLContextFree(c)
  PROVE  RefInv' /\ OnlyOf(c)
<1>1. /\ slotCert' \in [Ctx -> CertObj \cup {Null}] /\ slotKey' \in [Ctx -> KeyObj \cup {Null}]
      /\ usedCert' \in [Ctx -> [KeyType -> CertObj \cup {Null}]]
      /\ usedKey' \in [Ctx -> [KeyType -> KeyObj \cup {Null}]]
      /\ \A d \in Ctx :
           /\ slotKey'[d] = IF d = c THEN Null ELSE slotKey[d]
           /\ slotCert'[d] = IF d = c THEN Null ELSE slotCert[d]
           /\ usedKey'[d] = IF d = c THEN Nothing ELSE usedKey[d]
           /\ usedCert'[d] = IF d = c THEN Nothing ELSE usedCert[d]
      /\ released' = released /\ overwritten' = overwritten /\ Lost' = Lost
  BY DEF SSLContextFree, RefInv, Lost, Nothing
<1>2. OnlyOf(c) BY <1>1 DEF OnlyOf
<1>3. refs' \in [Obj -> Int] BY DEF SSLContextFree, Count, RefInv
<1>4. \A o \in Obj : ~InSlot(c, o)' /\ ~InUse(c, o)' BY <1>1, Objects DEF InSlot, InUse, Served, Nothing
<1>5. \A o \in Lost' : ~InSlot(c, o)' BY <1>1, <1>4 DEF Lost, RefInv
<1>6. ASSUME NEW o \in Obj
      PROVE  refs'[o] - One(InSlot(c, o)') - One(InUse(c, o)') - One(o \in Lost')
               = refs[o] - One(InSlot(c, o)) - One(InUse(c, o)) - One(o \in Lost)
  <2>1. refs'[o] = refs[o] - One(InSlot(c, o)) - One(InUse(c, o))
    BY DEF SSLContextFree, Count, One, InUse, Served, InSlot
  <2>2. /\ One(InSlot(c, o)') = 0 /\ One(InUse(c, o)') = 0 /\ One(o \in Lost') = One(o \in Lost)
        /\ One(InSlot(c, o)) \in Int /\ One(InUse(c, o)) \in Int /\ One(o \in Lost) \in Int
    BY <1>1, <1>4 DEF One
  <2>3. refs[o] \in Int BY DEF RefInv
  <2>4. QED BY <2>1, <2>2, <2>3
<1>7. RefInv' BY <1>1, <1>2, <1>3, <1>4, <1>5, <1>6, RefsKept DEF RefInv
<1>8. QED BY <1>2, <1>7

-----------------------------------------------------------------------------
(* A step of one context keeps what is known of the others.                *)
OtherCalls(c) ==
  /\ \A d \in Ctx : d # c => /\ load'[d] = load[d] /\ step'[d] = step[d] /\ result'[d] = result[d]
                             /\ d \in freed' <=> d \in freed
  /\ calls' >= calls

(* What context c refers to now, it did before, or its call has loaded it. *)
Loads(c) ==
  \A o \in Obj :
    InSlot(c, o)' \/ InUse(c, o)' =>
      InSlot(c, o) \/ InUse(c, o) \/ (o \in {Cert(c)', Key(c)'} /\ load'[c] # 0)

LEMMA CredStep ==
  ASSUME CredInv, NEW c \in Ctx, RefInv', CallInv', OnlyOf(c), OtherCalls(c), Loads(c),
         Confines(c), FreshAt(c)', ServeAt(c)'
  PROVE  CredInv'
<1>0. RefInv /\ CallInv /\ FreshInv /\ ServeInv /\ ConfinedInv BY DEF CredInv
<1>1. ASSUME NEW o \in Obj, o[2] > calls' PROVE Fresh(o)'
  <2>1. calls \in Int /\ calls' \in Int /\ calls' >= calls /\ load'[c] \in Int /\ load'[c] <= calls'
    BY <1>0 DEF CallInv, OtherCalls
  <2>2. o[2] \in Int BY DEF Obj
  <2>3. Fresh(o) BY <1>0, <1>1, <2>1, <2>2 DEF FreshInv
  <2>4. o \notin {Cert(c)', Key(c)'}
    <3>1. Cert(c)'[2] = load'[c] /\ Key(c)'[2] = load'[c] BY DEF Cert, Key
    <3>2. QED BY <1>1, <2>1, <2>2, <3>1
  <2>5. ~InSlot(c, o)' /\ ~InUse(c, o)' BY <2>3, <2>4 DEF Loads, Fresh
  <2>6. QED BY <1>0, <2>3, <2>5, FreshKept
<1>2. ASSUME NEW d \in Ctx, d # c PROVE FreshAt(d)'
  <2>1. /\ step'[d] = step[d] /\ load'[d] = load[d]
        /\ slotKey'[d] = slotKey[d] /\ slotCert'[d] = slotCert[d]
        /\ Key(d)' = Key(d) /\ Cert(d)' = Cert(d)
    BY <1>2 DEF OtherCalls, OnlyOf, Key, Cert
  <2>2. ASSUME step[d] # "idle", NEW o \in {Key(d), Cert(d)}, Fresh(o) PROVE Fresh(o)'
    <3>1. load[d] # 0 BY <1>0, <2>2 DEF CallInv
    <3>2. o \in Obj BY <1>0, <2>2, <3>1, Loaded, Objects
    <3>3. ASSUME load'[c] # 0 PROVE o \notin {Cert(c)', Key(c)'}
      <4>1. load'[c] # load[d] BY <1>2, <2>1, <3>1 DEF CallInv
      <4>2. QED BY <2>2, <4>1 DEF Cert, Key
    <3>4. ~InSlot(c, o)' /\ ~InUse(c, o)' BY <2>2, <3>2, <3>3 DEF Loads, Fresh
    <3>5. QED BY <1>0, <2>2, <3>4, FreshKept
  <2>3. ASSUME step[d] # "idle", Fresh(Key(d)) PROVE Fresh(Key(d))' BY <2>1, <2>2, <2>3 DEF Fresh
  <2>4. ASSUME step[d] # "idle", Fresh(Cert(d)) PROVE Fresh(Cert(d))' BY <2>1, <2>2, <2>4 DEF Fresh
  <2>5. FreshAt(d) BY <1>0 DEF FreshInv
  <2>6. QED BY <2>1, <2>3, <2>4, <2>5 DEF FreshAt
<1>3. FreshInv' BY <1>1, <1>2 DEF FreshInv
<1>4. ASSUME NEW d \in Ctx, d # c PROVE ServeAt(d)'
  <2>1. /\ step'[d] = step[d] /\ load'[d] = load[d] /\ result'[d] = result[d]
        /\ d \in freed' <=> d \in freed
        /\ slotKey'[d] = slotKey[d] /\ slotCert'[d] = slotCert[d]
        /\ usedKey'[d] = usedKey[d] /\ usedCert'[d] = usedCert[d]
    BY <1>4 DEF OtherCalls, OnlyOf
  <2>2. Key(d)' = Key(d) /\ Cert(d)' = Cert(d) /\ Nothing' = Nothing /\ Null' = Null
    BY <2>1 DEF Key, Cert, Nothing, Null
  <2>3. ServeAt(d) BY <1>0 DEF ServeInv
  <2>4. QED BY <2>1, <2>2, <2>3 DEF ServeAt
<1>5. ServeInv' BY <1>4 DEF ServeInv
<1>6. ConfinedInv' BY <1>0, ConfinedKept
<1>7. QED BY <1>3, <1>5, <1>6 DEF CredInv

(* A call in progress goes on or returns.                                  *)
LEMMA CallStep ==
  ASSUME CallInv, NEW c \in Ctx, step[c] # "idle", password' \in Given,
         tries' \in [Ctx -> 0..2], UNCHANGED <<calls, load, freed>>,
         \/ \E s \in {"open", "prompt", "cert", "use"} : Goto(c, s)
         \/ \E r \in {"true", "false"} : Return(c, r)
  PROVE  CallInv' /\ OtherCalls(c)
<1>1. /\ step' \in [Ctx -> {"idle", "open", "prompt", "cert", "use"}]
      /\ \A d \in Ctx : d # c => step'[d] = step[d] /\ result'[d] = result[d]
      /\ p12' \in [Ctx -> BOOLEAN] /\ need' \in [Ctx -> Given \cup {Unreadable}]
      /\ result' \in [Ctx -> {"none", "true", "false"}]
  <2>1. CASE \E s \in {"open", "prompt", "cert", "use"} : Goto(c, s)
    BY <2>1 DEF CallInv, Goto
  <2>2. CASE \E r \in {"true", "false"} : Return(c, r)
    BY <2>2 DEF CallInv, Return, Given
  <2>3. QED BY <2>1, <2>2
<1>2. \A d \in Ctx : load'[d] <= calls' /\ (step'[d] # "idle" => load'[d] # 0)
  BY <1>1 DEF CallInv
<1>3. QED BY <1>1, <1>2 DEF CallInv, OtherCalls

(* A step that leaves the objects alone.                                   *)
LEMMA RefsSame ==
  ASSUME RefInv, UNCHANGED objVars
  PROVE  RefInv'
<1>1. /\ slotCert' = slotCert /\ slotKey' = slotKey /\ usedCert' = usedCert /\ usedKey' = usedKey
      /\ refs' = refs /\ released' = released /\ overwritten' = overwritten
  BY DEF objVars, freeVars
<1>2. Lost' = Lost BY <1>1 DEF Lost
<1>3. \A o, d : (InSlot(d, o)' <=> InSlot(d, o)) /\ (InUse(d, o)' <=> InUse(d, o))
  BY <1>1 DEF InSlot, InUse, Served
<1>4. ASSUME NEW o \in Obj
      PROVE  refs'[o] = One(\E d \in Ctx : InSlot(d, o)') + One(\E d \in Ctx : InUse(d, o)')
                        + One(o \in Lost')
  <2>1. /\ One(\E d \in Ctx : InSlot(d, o)') = One(\E d \in Ctx : InSlot(d, o))
        /\ One(\E d \in Ctx : InUse(d, o)') = One(\E d \in Ctx : InUse(d, o))
    BY <1>3 DEF One
  <2>2. QED BY <1>1, <1>2, <2>1 DEF RefInv
<1>5. QED BY <1>1, <1>2, <1>3, <1>4 DEF RefInv

LEMMA ObjectsSame ==
  ASSUME RefInv, UNCHANGED objVars, NEW c \in Ctx
  PROVE  /\ RefInv' /\ OnlyOf(c) /\ Loads(c) /\ Confines(c)
         /\ \A o : Fresh(o)' <=> Fresh(o)
<1>1. /\ slotCert' = slotCert /\ slotKey' = slotKey /\ usedCert' = usedCert /\ usedKey' = usedKey
      /\ refs' = refs /\ released' = released /\ overwritten' = overwritten
      /\ replaced' = replaced /\ touched' = touched
  BY DEF objVars, freeVars
<1>2. Lost' = Lost BY <1>1 DEF Lost
<1>3. \A o, d : (InSlot(d, o)' <=> InSlot(d, o)) /\ (InUse(d, o)' <=> InUse(d, o))
  BY <1>1 DEF InSlot, InUse, Served
<1>4. RefInv' BY RefsSame
<1>5. OnlyOf(c) BY <1>1, <1>2 DEF OnlyOf
<1>6. Loads(c) BY <1>3 DEF Loads
<1>7. \A o : Fresh(o)' <=> Fresh(o) BY <1>2, <1>3 DEF Fresh
<1>8. Confines(c) BY <1>1, <1>3 DEF Confines, ConfinedAt
<1>9. QED BY <1>4, <1>5, <1>6, <1>7, <1>8

-----------------------------------------------------------------------------
LEMMA InitCred ==
  ASSUME CredentialsAssumption, Init
  PROVE  CredInv
<1>0. 0 \in 0..MaxCalls /\ 0 \in 0..2 BY DEF CredentialsAssumption
<1>1. \A c \in Ctx, o \in Obj : ~InSlot(c, o) /\ ~InUse(c, o)
  BY Objects DEF Init, InSlot, InUse, Served, Nothing
<1>2. Lost = {} BY DEF Init, Lost
<1>3. RefInv
  <2>2. ASSUME NEW o \in Obj
        PROVE  refs[o] = One(\E c \in Ctx : InSlot(c, o)) + One(\E c \in Ctx : InUse(c, o))
                         + One(o \in Lost)
    <3>1. /\ ~(\E c \in Ctx : InSlot(c, o)) /\ ~(\E c \in Ctx : InUse(c, o)) /\ o \notin Lost
      BY <1>1, <1>2
    <3>2. refs[o] = 0 BY DEF Init
    <3>3. QED BY <3>1, <3>2 DEF One
  <2>3. /\ slotCert \in [Ctx -> CertObj \cup {Null}] /\ slotKey \in [Ctx -> KeyObj \cup {Null}]
        /\ usedCert \in [Ctx -> [KeyType -> CertObj \cup {Null}]]
        /\ usedKey \in [Ctx -> [KeyType -> KeyObj \cup {Null}]]
        /\ released \in SUBSET Obj /\ overwritten \in SUBSET Obj /\ refs \in [Obj -> Int]
    BY DEF Init, Nothing
  <2>4. QED BY <1>1, <1>2, <2>2, <2>3 DEF RefInv
<1>4. CallInv BY <1>0 DEF Init, CallInv, Given
<1>5. FreshInv BY <1>1, <1>2 DEF Init, FreshInv, FreshAt, Fresh
<1>6. ServeInv BY DEF Init, ServeInv, ServeAt
<1>7. ConfinedInv BY DEF Init, ConfinedInv, ConfinedAt
<1>8. QED BY <1>3, <1>4, <1>5, <1>6, <1>7 DEF CredInv

(* A new call has a number of its own, and what it loads is new.           *)
LEMMA BeginFresh ==
  ASSUME CredentialsAssumption, CredInv, NEW c \in Ctx, Begin(c)
  PROVE  /\ calls + 1 \in 1..MaxCalls /\ calls' \in 0..MaxCalls /\ calls' > calls
         /\ load' \in [Ctx -> 0..MaxCalls] /\ load'[c] = calls + 1
         /\ \A d \in Ctx : d # c => load'[d] = load[d]
         /\ \A d \in Ctx : load'[d] <= calls'
         /\ \A d, e \in Ctx : load'[d] = load'[e] => d = e \/ load'[d] = 0
         /\ <<"key", calls + 1>> \in KeyObj /\ Fresh(<<"key", calls + 1>>)
         /\ <<"cert", calls + 1>> \in CertObj /\ Fresh(<<"cert", calls + 1>>)
<1>1. /\ calls + 1 \in 1..MaxCalls /\ calls' = calls + 1 /\ calls' \in 0..MaxCalls /\ calls' > calls
  BY DEF Begin, CredInv, CallInv, CredentialsAssumption
<1>2. /\ load' \in [Ctx -> 0..MaxCalls] /\ load'[c] = calls + 1
      /\ \A d \in Ctx : d # c => load'[d] = load[d]
  BY <1>1 DEF Begin, CredInv, CallInv
<1>3. \A d \in Ctx : load[d] \in Int /\ load[d] <= calls /\ calls \in Int
  BY DEF CredInv, CallInv
<1>4. \A d \in Ctx : load'[d] <= calls' BY <1>1, <1>2, <1>3
<1>5. \A d, e \in Ctx : load'[d] = load'[e] => d = e \/ load'[d] = 0
  <2>1. SUFFICES ASSUME NEW d \in Ctx, NEW e \in Ctx, load'[d] = load'[e], d # e, load'[d] # 0
                 PROVE  FALSE
    OBVIOUS
  <2>2. CASE d = c BY <1>2, <1>3, <2>1, <2>2
  <2>3. CASE e = c BY <1>2, <1>3, <2>1, <2>3
  <2>4. CASE d # c /\ e # c BY <1>2, <2>1, <2>4 DEF CredInv, CallInv
  <2>5. QED BY <2>2, <2>3, <2>4
<1>6. <<"key", calls + 1>> \in KeyObj /\ <<"cert", calls + 1>> \in CertObj
  BY <1>1 DEF KeyObj, CertObj
<1>7. Fresh(<<"key", calls + 1>>) /\ Fresh(<<"cert", calls + 1>>)
  BY <1>1, <1>3, <1>6, Objects DEF CredInv, FreshInv
<1>8. QED BY <1>1, <1>2, <1>4, <1>5, <1>6, <1>7

LEMMA SetCertificateKeeps ==
  ASSUME CredentialsAssumption, CredInv, NEW c \in Ctx, NEW isP12 \in BOOLEAN,
         NEW opens \in Given \cup {Unreadable}, NEW pass \in Given,
         SetCertificate(c, isP12, opens, pass)
  PROVE  CredInv'
<1>0. RefInv /\ CallInv /\ FreshInv /\ ServeInv /\ ConfinedInv BY DEF CredInv
<1>1. Begin(c) BY DEF SetCertificate
<1>2. RefInv' /\ OnlyOf(c) /\ Loads(c) /\ Confines(c) /\ \A o : Fresh(o)' <=> Fresh(o)
  BY <1>0, ObjectsSame DEF SetCertificate
<1>3. /\ step' \in [Ctx -> {"idle", "open", "prompt", "cert", "use"}] /\ step'[c] = "open"
      /\ \A d \in Ctx : d # c => step'[d] = step[d] /\ result'[d] = result[d]
      /\ p12' \in [Ctx -> BOOLEAN] /\ need' \in [Ctx -> Given \cup {Unreadable}]
      /\ result' \in [Ctx -> {"none", "true", "false"}]
      /\ tries' = tries /\ freed' = freed /\ c \notin freed
  BY <1>0 DEF SetCertificate, CallInv, Begin
<1>4. password' \in Given BY <1>0 DEF SetCertificate, CallInv
<1>5. CallInv'
  <2>1. \A d \in Ctx : step'[d] # "idle" => load'[d] # 0
    BY <1>0, <1>1, <1>3, BeginFresh DEF CallInv
  <2>2. QED BY <1>0, <1>1, <1>3, <1>4, <2>1, BeginFresh DEF CallInv
<1>6. OtherCalls(c)
  <2>1. calls' >= calls BY <1>0, <1>1, BeginFresh DEF CallInv
  <2>2. QED BY <1>1, <1>3, <2>1, BeginFresh DEF OtherCalls
<1>7. FreshAt(c)'
  <2>1. load'[c] = calls + 1 /\ Fresh(<<"key", calls + 1>>) /\ Fresh(<<"cert", calls + 1>>)
    BY <1>1, BeginFresh
  <2>2. Key(c)' = <<"key", calls + 1>> /\ Cert(c)' = <<"cert", calls + 1>>
    BY <2>1 DEF Key, Cert
  <2>3. Fresh(Key(c))' /\ Fresh(Cert(c))'
    BY <1>2, <2>1, <2>2 DEF Fresh
  <2>4. QED BY <1>3, <2>3 DEF FreshAt
<1>8. ServeAt(c)' BY <1>3 DEF ServeAt
<1>9. QED BY <1>2, <1>5, <1>6, <1>7, <1>8, CredStep

-----------------------------------------------------------------------------
(* The steps of a call in progress                                         *)

(* The call goes on, and FreshAt says what it has loaded.                  *)
LEMMA GoesOn ==
  ASSUME CredInv, NEW c \in Ctx, step[c] # "idle", RefInv', OnlyOf(c), Loads(c), Confines(c),
         password' \in Given, tries' \in [Ctx -> 0..2], UNCHANGED <<calls, load, freed>>,
         NEW s \in {"open", "prompt", "cert", "use"}, Goto(c, s),
         step'[c] = s => FreshAt(c)'
  PROVE  CredInv'
<1>1. CallInv' /\ OtherCalls(c) BY CallStep DEF CredInv
<1>2. step'[c] = s /\ c \notin freed'
  BY DEF Goto, CredInv, CallInv, ServeInv, ServeAt
<1>3. ServeAt(c)' BY <1>2 DEF ServeAt
<1>4. QED BY <1>1, <1>2, <1>3, CredStep

(* The call returns false.                                                 *)
LEMMA Fails ==
  ASSUME CredInv, NEW c \in Ctx, step[c] # "idle", RefInv', OnlyOf(c), Loads(c), Confines(c),
         password' \in Given, tries' \in [Ctx -> 0..2], UNCHANGED <<calls, load, freed>>,
         Return(c, "false")
  PROVE  CredInv'
<1>1. CallInv' /\ OtherCalls(c) BY CallStep DEF CredInv
<1>2. step'[c] = "idle" /\ result'[c] = "false" /\ c \notin freed'
  BY DEF Return, CredInv, CallInv, ServeInv, ServeAt
<1>3. ServeAt(c)' /\ FreshAt(c)' BY <1>2 DEF ServeAt, FreshAt
<1>4. QED BY <1>1, <1>3, CredStep

(* The call writes over its slot.                                          *)
LEMMA Overwrites ==
  ASSUME CredInv, NEW c \in Ctx, step[c] # "idle", UNCHANGED load,
         NEW key \in {slotKey[c], Null, Key(c)}, NEW cert \in {slotCert[c], Null, Cert(c)},
         key \in {slotKey[c], Null} \/ Fresh(key), cert \in {slotCert[c], Null} \/ Fresh(cert),
         Overwrite(c, key, cert)
  PROVE  /\ RefInv' /\ OnlyOf(c) /\ Loads(c) /\ Confines(c)
         /\ slotKey'[c] = key /\ slotCert'[c] = cert
         /\ \A o \in Obj : Fresh(o) /\ o \notin {key, cert} => Fresh(o)'
<1>0. RefInv /\ CallInv BY DEF CredInv
<1>1. load[c] # 0 BY <1>0 DEF CallInv
<1>2. key \in KeyObj \cup {Null} /\ cert \in CertObj \cup {Null}
  BY <1>0, <1>1, Loaded DEF RefInv
<1>3. Replaces(c, key, cert) BY <1>0, OverwriteReplaces
<1>4. /\ RefInv' /\ OnlyOf(c) /\ slotKey'[c] = key /\ slotCert'[c] = cert
      /\ \A o : InUse(c, o)' = InUse(c, o)
  BY <1>0, <1>2, <1>3, ReplacesKeeps
<1>5. \A o : InSlot(c, o)' <=> o \in {key, cert} BY <1>4 DEF InSlot
<1>6. Key(c)' = Key(c) /\ Cert(c)' = Cert(c) /\ load'[c] = load[c] BY DEF Key, Cert
<1>7. Loads(c)
  <2>1. SUFFICES ASSUME NEW o \in Obj, InSlot(c, o)' \/ InUse(c, o)'
                 PROVE  InSlot(c, o) \/ InUse(c, o) \/ (o \in {Cert(c)', Key(c)'} /\ load'[c] # 0)
    BY DEF Loads
  <2>2. QED BY <1>1, <1>4, <1>5, <1>6, <2>1, Objects DEF InSlot
<1>8. ASSUME NEW o \in Obj, Fresh(o), o \notin {key, cert} PROVE Fresh(o)'
  <2>1. ~InSlot(c, o)' /\ ~InUse(c, o)' BY <1>4, <1>5, <1>8 DEF Fresh
  <2>2. QED BY <1>0, <1>4, <1>8, <2>1, FreshKept
<1>9. Confines(c)
  <2>1. released' = released /\ replaced' = replaced /\ touched' = touched
    BY DEF Overwrite, freeVars
  <2>2. QED BY <1>4, <2>1 DEF Confines, ConfinedAt
<1>10. QED BY <1>4, <1>7, <1>8, <1>9

(* The end of an attempt to open the file.                                 *)
LEMMA AttemptKeeps ==
  ASSUME CredInv, NEW c \in Ctx, step[c] \in {"open", "prompt"}, NEW pass \in Given,
         Attempt(c, pass), UNCHANGED <<calls, load, freed>>
  PROVE  CredInv'
<1>0. RefInv /\ CallInv /\ FreshInv /\ ServeInv /\ ConfinedInv BY DEF CredInv
<1>1. Fresh(Key(c)) /\ Fresh(Cert(c)) /\ step[c] # "idle" BY <1>0 DEF FreshInv, FreshAt
<1>2. /\ Cert(c) \in CertObj /\ Key(c) \in KeyObj /\ Cert(c) \in Obj /\ Key(c) # Cert(c)
      /\ Cert(c) # slotCert[c]
  <2>1. load[c] # 0 BY <1>0, <1>1 DEF CallInv
  <2>2. QED BY <1>0, <1>1, <2>1, Loaded, Objects DEF Fresh, InSlot
<1>3. password' \in Given /\ tries' \in [Ctx -> 0..2]
  <2>1. password' \in Given BY DEF Attempt, Given
  <2>2. tries' \in [Ctx -> 0..2]
    <3>1. \/ tries' = tries \/ tries' = [tries EXCEPT ![c] = 0]
          \/ MoreTries(c) /\ tries' = [tries EXCEPT ![c] = tries[c] + 1]
      BY DEF Attempt
    <3>2. tries[c] \in 0..2 /\ 0 \in 0..2 BY <1>0 DEF CallInv
    <3>3. MoreTries(c) => tries[c] + 1 \in 0..2 BY <3>2 DEF MoreTries
    <3>4. QED BY <1>0, <3>1, <3>2, <3>3 DEF CallInv
  <2>3. QED BY <2>1, <2>2
<1>4. CASE Overwrite(c, Key(c), slotCert[c]) /\ Goto(c, "cert")
  <2>1. /\ RefInv' /\ OnlyOf(c) /\ Loads(c) /\ Confines(c) /\ slotKey'[c] = Key(c)
        /\ \A o \in Obj : Fresh(o) /\ o \notin {Key(c), slotCert[c]} => Fresh(o)'
    BY <1>1, <1>4, Overwrites
  <2>2. Key(c)' = Key(c) /\ Cert(c)' = Cert(c) BY DEF Key, Cert
  <2>3. Fresh(Cert(c))' BY <1>1, <1>2, <2>1, <2>2 DEF Fresh
  <2>4. step'[c] = "cert" => FreshAt(c)' BY <2>1, <2>2, <2>3 DEF FreshAt
  <2>5. QED BY <1>1, <1>3, <1>4, <2>1, <2>4, GoesOn
<1>5. CASE Goto(c, "open") /\ UNCHANGED objVars
  <2>1. RefInv' /\ OnlyOf(c) /\ Loads(c) /\ Confines(c) /\ \A o : Fresh(o)' <=> Fresh(o)
    BY <1>0, <1>5, ObjectsSame
  <2>2. Key(c)' = Key(c) /\ Cert(c)' = Cert(c) BY DEF Key, Cert
  <2>3. step'[c] = "open" => FreshAt(c)' BY <1>1, <2>1, <2>2 DEF FreshAt, Fresh
  <2>4. QED BY <1>1, <1>3, <1>5, <2>1, <2>3, GoesOn
<1>6. CASE Overwrite(c, Null, slotCert[c]) /\ Return(c, "false")
  <2>1. RefInv' /\ OnlyOf(c) /\ Loads(c) /\ Confines(c) BY <1>1, <1>6, Overwrites
  <2>2. QED BY <1>1, <1>3, <1>6, <2>1, Fails
<1>7. ASSUME NEW cert \in {Cert(c), Null}, Overwrite(c, Key(c), cert), Goto(c, "use")
      PROVE  CredInv'
  <2>1. /\ RefInv' /\ OnlyOf(c) /\ Loads(c) /\ Confines(c) /\ slotKey'[c] = Key(c) /\ slotCert'[c] = cert
    BY <1>1, <1>7, Overwrites
  <2>2. Key(c)' = Key(c) /\ Cert(c)' = Cert(c) BY DEF Key, Cert
  <2>3. step'[c] = "use" => FreshAt(c)' BY <2>1, <2>2 DEF FreshAt
  <2>4. QED BY <1>1, <1>3, <1>7, <2>1, <2>3, GoesOn
<1>8. CASE Overwrite(c, Null, Null) /\ Return(c, "false")
  <2>1. RefInv' /\ OnlyOf(c) /\ Loads(c) /\ Confines(c) BY <1>1, <1>8, Overwrites
  <2>2. QED BY <1>1, <1>3, <1>8, <2>1, Fails
<1>9. CASE Return(c, "false") /\ UNCHANGED objVars
  <2>1. RefInv' /\ OnlyOf(c) /\ Loads(c) /\ Confines(c) BY <1>0, <1>9, ObjectsSame
  <2>2. QED BY <1>1, <1>3, <1>9, <2>1, Fails
<1>10. QED BY <1>4, <1>5, <1>6, <1>7, <1>8, <1>9 DEF Attempt

LEMMA SetCertificateWithoutFileKeeps ==
  ASSUME CredInv, NEW c \in Ctx, NEW pass \in Password, SetCertificateWithoutFile(c, pass)
  PROVE  CredInv'
<1>0. RefInv /\ CallInv /\ FreshInv /\ ServeInv /\ ConfinedInv BY DEF CredInv
<1>1. /\ UNCHANGED objVars /\ password' \in Given
      /\ UNCHANGED <<calls, step, p12, need, tries, load, freed, result>>
  BY DEF SetCertificateWithoutFile, callVars, Given
<1>2. RefInv' /\ OnlyOf(c) /\ Loads(c) /\ Confines(c) /\ \A o : Fresh(o)' <=> Fresh(o)
  BY <1>0, <1>1, ObjectsSame
<1>3. CallInv' BY <1>0, <1>1 DEF CallInv
<1>4. OtherCalls(c) BY <1>0, <1>1 DEF OtherCalls, CallInv
<1>5. FreshAt(c)'
  <2>1. Key(c)' = Key(c) /\ Cert(c)' = Cert(c) BY <1>1 DEF Key, Cert
  <2>2. FreshAt(c) BY <1>0 DEF FreshInv
  <2>3. (Fresh(Key(c)) => Fresh(Key(c))') /\ (Fresh(Cert(c)) => Fresh(Cert(c))')
    BY <1>2, <2>1 DEF Fresh
  <2>4. QED BY <1>1, <2>1, <2>2, <2>3 DEF FreshAt, objVars
<1>6. ServeAt(c)' BY <1>0, <1>1 DEF ServeInv, ServeAt, objVars, Cert, Key
<1>7. QED BY <1>2, <1>3, <1>4, <1>5, <1>6, CredStep

LEMMA OpenKeeps ==
  ASSUME CredInv, NEW c \in Ctx, Open(c)
  PROVE  CredInv'
<1>1. password \in Given BY DEF CredInv, CallInv
<1>2. QED BY <1>1, AttemptKeeps DEF Open

LEMMA AnswerKeeps ==
  ASSUME CredInv, NEW c \in Ctx, NEW pass \in Given, Answer(c, pass)
  PROVE  CredInv'
BY AttemptKeeps DEF Answer

LEMMA FileMissingKeeps ==
  ASSUME CredInv, NEW c \in Ctx, FileMissing(c)
  PROVE  CredInv'
<1>0. RefInv /\ CallInv BY DEF CredInv
<1>1. step[c] # "idle" /\ password' \in Given /\ tries' \in [Ctx -> 0..2]
  BY <1>0 DEF FileMissing, CallInv
<1>2. RefInv' /\ OnlyOf(c) /\ Loads(c) /\ Confines(c)
  <2>1. CASE UNCHANGED objVars BY <1>0, <2>1, ObjectsSame
  <2>2. CASE Overwrite(c, Null, slotCert[c]) BY <1>1, <2>2, Overwrites DEF FileMissing
  <2>3. QED BY <2>1, <2>2 DEF FileMissing
<1>3. QED BY <1>1, <1>2, Fails DEF FileMissing

LEMMA PromptKeeps ==
  ASSUME CredInv, NEW c \in Ctx, Prompt(c)
  PROVE  CredInv'
<1>0. RefInv /\ CallInv /\ FreshInv BY DEF CredInv
<1>1. /\ step[c] = "open" /\ Goto(c, "prompt") /\ UNCHANGED <<calls, load, freed>>
      /\ password' \in Given /\ tries' \in [Ctx -> 0..2]
  BY <1>0 DEF Prompt, Goto, CallInv
<1>2. RefInv' /\ OnlyOf(c) /\ Loads(c) /\ Confines(c) /\ \A o : Fresh(o)' <=> Fresh(o)
  BY <1>0, ObjectsSame DEF Prompt
<1>3. Key(c)' = Key(c) /\ Cert(c)' = Cert(c) BY <1>1 DEF Key, Cert
<1>4. Fresh(Key(c)) /\ Fresh(Cert(c)) BY <1>0, <1>1 DEF FreshInv, FreshAt
<1>5. step'[c] = "prompt" => FreshAt(c)' BY <1>2, <1>3, <1>4 DEF FreshAt, Fresh
<1>6. QED BY <1>1, <1>2, <1>5, GoesOn

LEMMA LoadPemCertKeeps ==
  ASSUME CredInv, NEW c \in Ctx, NEW found \in BOOLEAN, LoadPemCert(c, found)
  PROVE  CredInv'
<1>0. RefInv /\ CallInv /\ FreshInv BY DEF CredInv
<1>1. /\ step[c] # "idle" /\ slotKey[c] = Key(c) /\ Fresh(Cert(c))
      /\ password' \in Given /\ tries' \in [Ctx -> 0..2] /\ UNCHANGED <<calls, load, freed>>
  BY <1>0 DEF LoadPemCert, CallInv, FreshInv, FreshAt
<1>2. CASE found
  <2>1. Overwrite(c, slotKey[c], Cert(c)) /\ Goto(c, "use") BY <1>2 DEF LoadPemCert
  <2>2. RefInv' /\ OnlyOf(c) /\ Loads(c) /\ Confines(c) /\ slotKey'[c] = slotKey[c] /\ slotCert'[c] = Cert(c)
    BY <1>1, <2>1, Overwrites
  <2>3. Key(c)' = Key(c) /\ Cert(c)' = Cert(c) BY <1>1 DEF Key, Cert
  <2>4. step'[c] = "use" => FreshAt(c)' BY <1>1, <2>2, <2>3 DEF FreshAt
  <2>5. QED BY <1>1, <2>1, <2>2, <2>4, GoesOn
<1>3. CASE ~found
  <2>1. Overwrite(c, slotKey[c], Null) /\ Return(c, "false") BY <1>3 DEF LoadPemCert
  <2>2. RefInv' /\ OnlyOf(c) /\ Loads(c) /\ Confines(c) BY <1>1, <2>1, Overwrites
  <2>3. QED BY <1>1, <2>1, <2>2, Fails
<1>4. QED BY <1>2, <1>3

-----------------------------------------------------------------------------
(* setCertificateRaw loses what it releases; its new objects were fresh.   *)
LEMMA SetCertificateRawKeeps ==
  ASSUME CredentialsAssumption, CredInv, NEW c \in Ctx, NEW goodKey \in BOOLEAN,
         SetCertificateRaw(c, goodKey)
  PROVE  CredInv'
<1>0. RefInv /\ CallInv /\ FreshInv /\ ServeInv /\ ConfinedInv BY DEF CredInv
<1> DEFINE cert == <<"cert", calls + 1>>
           new == <<"key", calls + 1>>
           key == IF goodKey THEN new ELSE slotKey[c]
<1>1. Begin(c) BY DEF SetCertificateRaw
<1>2. /\ cert \in CertObj /\ Fresh(cert) /\ new \in KeyObj /\ Fresh(new)
      /\ load'[c] = calls + 1 /\ load'[c] # 0
  BY <1>0, <1>1, BeginFresh DEF CallInv
<1>3. slotKey[c] \in KeyObj \cup {Null} /\ slotCert[c] \in CertObj \cup {Null}
      /\ cert \notin {slotCert[c], slotKey[c]} /\ new \notin {slotCert[c], slotKey[c]}
  BY <1>0, <1>2 DEF RefInv, Fresh, InSlot
<1>4. Replaces(c, key, cert)
  <2>1. slotKey' = [slotKey EXCEPT ![c] = key] /\ slotCert' = [slotCert EXCEPT ![c] = cert]
    BY <1>0 DEF SetCertificateRaw, RefInv
  <2>2. /\ released' = released \cup (({slotCert[c]} \cup (IF goodKey THEN {slotKey[c]} ELSE {})) \ {Null})
        /\ overwritten' = overwritten /\ usedCert' = usedCert /\ usedKey' = usedKey
    BY DEF SetCertificateRaw
  <2>3. ({slotCert[c]} \cup (IF goodKey THEN {slotKey[c]} ELSE {})) \ {Null}
          = {slotKey[c], slotCert[c]} \ {key, cert, Null}
    BY <1>3, Objects
  <2>4. {cert} \cup (IF goodKey THEN {new} ELSE {}) = {key, cert} \ {slotKey[c], slotCert[c]}
    BY <1>3
  <2>5. Up({key, cert} \ {slotKey[c], slotCert[c]})
    <3>1. Up({cert} \cup (IF goodKey THEN {new} ELSE {})) BY DEF SetCertificateRaw
    <3>2. QED BY <2>4, <3>1
  <2>6. released' \in SUBSET Obj /\ overwritten' \in SUBSET Obj
    BY <1>0, <1>3, <2>2, Objects DEF RefInv
  <2>7. QED BY <2>1, <2>2, <2>3, <2>5, <2>6 DEF Replaces, Lost
<1>5. key \in KeyObj \cup {Null} /\ (key \in {slotKey[c], Null} \/ Fresh(key)) BY <1>2, <1>3
<1> HIDE DEF key
<1>6. /\ RefInv' /\ OnlyOf(c) /\ slotKey'[c] = key /\ slotCert'[c] = cert
      /\ \A o : InUse(c, o)' = InUse(c, o)
  BY <1>0, <1>2, <1>4, <1>5, ReplacesKeeps
<1>7. Key(c)' = new /\ Cert(c)' = cert BY <1>2 DEF Key, Cert
<1>8. Loads(c)
  <2>1. \A o : InSlot(c, o)' <=> o \in {key, cert} BY <1>6 DEF InSlot
  <2>2. key \in {new, slotKey[c]} BY DEF key
  <2>3. QED BY <1>2, <1>6, <1>7, <2>1, <2>2 DEF Loads, InSlot
<1>9. /\ step'[c] = IF goodKey THEN "use" ELSE "idle"
      /\ ~goodKey => result'[c] = "false"
      /\ step' \in [Ctx -> {"idle", "open", "prompt", "cert", "use"}]
      /\ \A d \in Ctx : d # c => step'[d] = step[d] /\ result'[d] = result[d]
      /\ p12' \in [Ctx -> BOOLEAN] /\ need' \in [Ctx -> Given \cup {Unreadable}]
      /\ result' \in [Ctx -> {"none", "true", "false"}]
      /\ tries' = tries /\ freed' = freed /\ password' = password /\ c \notin freed
  <2>1. CASE goodKey
    <3>1. Goto(c, "use") BY <2>1 DEF SetCertificateRaw
    <3>2. QED BY <1>0, <1>1, <2>1, <3>1 DEF SetCertificateRaw, Goto, CallInv, Begin
  <2>2. CASE ~goodKey
    <3>1. Return(c, "false") BY <2>2 DEF SetCertificateRaw
    <3>2. QED BY <1>0, <1>1, <2>2, <3>1 DEF SetCertificateRaw, Return, CallInv, Begin, Given
  <2>3. QED BY <2>1, <2>2
<1>10. CallInv'
  <2>1. \A d \in Ctx : step'[d] # "idle" => load'[d] # 0
    BY <1>0, <1>1, <1>2, <1>9, BeginFresh DEF CallInv
  <2>2. QED BY <1>0, <1>1, <1>9, <2>1, BeginFresh DEF CallInv
<1>11. OtherCalls(c)
  <2>1. calls' >= calls BY <1>0, <1>1, BeginFresh DEF CallInv
  <2>2. QED BY <1>1, <1>9, <2>1, BeginFresh DEF OtherCalls
<1>12. FreshAt(c)' BY <1>6, <1>7, <1>9 DEF FreshAt, key
<1>13. ServeAt(c)' BY <1>9 DEF ServeAt
<1>14. Confines(c)
  <2>1. /\ replaced' \in {replaced, replaced \cup {c}} /\ touched' = touched
        /\ \A o \in released' : o \in released \/ InSlot(c, o)
        /\ replaced' = replaced => released' = released \/ c \in replaced'
    BY DEF SetCertificateRaw, InSlot
  <2>2. ConfinedAt(c) => ConfinedAt(c)' BY <1>6, <2>1 DEF ConfinedAt
  <2>3. QED BY <2>1, <2>2 DEF Confines
<1>15. QED BY <1>6, <1>8, <1>10, <1>11, <1>12, <1>13, <1>14, CredStep

LEMMA UseCredentialsKeeps ==
  ASSUME CredInv, NEW c \in Ctx, NEW t \in KeyType, NEW u \in KeyType,
         NEW outcome \in {"refused", "mismatch", "ok"}, UseCredentials(c, t, u, outcome)
  PROVE  CredInv'
<1>0. RefInv /\ CallInv /\ FreshInv /\ ServeInv /\ ConfinedInv BY DEF CredInv
<1>1. /\ step[c] # "idle" /\ slotKey[c] = Key(c) /\ slotCert[c] \in {Cert(c), Null}
      /\ slotKey[c] \in KeyObj \cup {Null} /\ slotCert[c] \in CertObj \cup {Null}
      /\ password' \in Given /\ tries' \in [Ctx -> 0..2] /\ UNCHANGED <<calls, load, freed>>
  BY <1>0 DEF UseCredentials, CallInv, FreshInv, FreshAt, RefInv
<1>2. CASE outcome = "refused"
  <2>1. Return(c, "false") /\ UNCHANGED objVars BY <1>2 DEF UseCredentials
  <2>2. RefInv' /\ OnlyOf(c) /\ Loads(c) /\ Confines(c) BY <1>0, <2>1, ObjectsSame
  <2>3. QED BY <1>1, <2>1, <2>2, Fails
<1>3. CASE outcome # "refused"
  <2> DEFINE stored == outcome = "ok" \/ (u # t /\ usedCert[c][u] = Null)
             certs == [usedCert[c] EXCEPT ![t] = slotCert[c]]
             keys == [x \in KeyType |-> IF x = u /\ stored THEN slotKey[c]
                                        ELSE IF x = t THEN Null ELSE usedKey[c][x]]
             used == {usedCert[c][t], usedKey[c][t], usedCert[c][u]}
                       \cup (IF stored THEN {usedKey[c][u]} ELSE {})
  <2>1. /\ Serve(c, certs, keys, used)
        /\ Return(c, IF outcome = "ok" THEN "true" ELSE "false")
        /\ UNCHANGED <<slotCert, slotKey, released, replaced, overwritten>>
        /\ slotCert[c] # Null /\ (outcome = "ok" => u = t)
    BY <1>3 DEF UseCredentials
  <2>2. /\ usedCert[c] \in [KeyType -> CertObj \cup {Null}]
        /\ usedKey[c] \in [KeyType -> KeyObj \cup {Null}]
    BY <1>0 DEF RefInv
  <2>3. certs \in [KeyType -> CertObj \cup {Null}] /\ keys \in [KeyType -> KeyObj \cup {Null}]
    BY <1>1, <2>2
  <2>4. \A x \in KeyType, o \in Obj : o \in {certs[x], keys[x]} => InSlot(c, o) \/ InUse(c, o)
    BY <2>2, Objects DEF InSlot, InUse, Served
  <2>5. outcome = "ok" => certs[t] = slotCert[c] /\ keys[t] = slotKey[c]
    BY <2>1, <2>2
  <2>6. \A o \in used : InUse(c, o) BY DEF InUse, Served
  <2> HIDE DEF certs, keys, used
  <2>7. /\ RefInv' /\ OnlyOf(c) /\ usedCert'[c] = certs /\ usedKey'[c] = keys
        /\ \A o \in Obj : InUse(c, o)' => InSlot(c, o) \/ InUse(c, o)
    BY <1>0, <2>1, <2>3, <2>4, UsesKeeps
  <2>8. slotCert' = slotCert /\ slotKey' = slotKey /\ released' = released BY <2>1
  <2>9. Loads(c) BY <2>7, <2>8 DEF Loads, InSlot
  <2>10. Confines(c)
    <3>1. /\ replaced' = replaced /\ touched' \in {touched, touched \cup {c}}
          /\ used \cap released = {} => touched' = touched
      BY <2>1 DEF Serve
    <3>2. ASSUME ConfinedAt(c), c \notin replaced PROVE ConfinedAt(c)'
      <4>1. touched' = touched /\ c \notin touched BY <2>6, <3>1, <3>2 DEF ConfinedAt
      <4>2. \A o \in released : o \in Obj /\ ~InSlot(c, o) /\ ~InUse(c, o)
        BY <1>0, <3>2 DEF RefInv, Lost, ConfinedAt
      <4>3. QED BY <2>7, <2>8, <4>1, <4>2 DEF ConfinedAt
    <3>3. ConfinedAt(c) => ConfinedAt(c)' BY <3>1, <3>2 DEF ConfinedAt
    <3>4. QED BY <2>8, <3>1, <3>3 DEF Confines
  <2>11. CASE outcome # "ok"
    <3>1. Return(c, "false") BY <2>1, <2>11
    <3>2. QED BY <1>1, <2>7, <2>9, <2>10, <3>1, Fails
  <2>12. CASE outcome = "ok"
    <3>1. Return(c, "true") BY <2>1, <2>12
    <3>2. CallInv' /\ OtherCalls(c) BY <1>0, <1>1, <3>1, CallStep
    <3>3. step'[c] = "idle" /\ c \notin freed'
      BY <1>0, <1>1, <3>1 DEF Return, CallInv, ServeInv, ServeAt
    <3>4. Key(c)' = Key(c) /\ Cert(c)' = Cert(c) BY <1>1 DEF Key, Cert
    <3>5. FreshAt(c)' BY <3>3 DEF FreshAt
    <3>6. usedCert'[c][t] = Cert(c) /\ usedKey'[c][t] = Key(c) BY <1>1, <2>1, <2>5, <2>7, <2>12
    <3>7. ServeAt(c)' BY <1>1, <2>1, <2>8, <3>3, <3>4, <3>6 DEF ServeAt
    <3>8. QED BY <2>7, <2>9, <2>10, <3>2, <3>5, <3>7, CredStep
  <2>13. QED BY <2>11, <2>12
<1>4. QED BY <1>2, <1>3

LEMMA SSLContextFreeKeeps ==
  ASSUME CredInv, NEW c \in Ctx, SSLContextFree(c)
  PROVE  CredInv'
<1>0. RefInv /\ CallInv /\ FreshInv /\ ServeInv /\ ConfinedInv BY DEF CredInv
<1>1. /\ step[c] = "idle" /\ freed' = freed \cup {c}
      /\ UNCHANGED <<password, calls, step, p12, need, tries, load, result>>
  BY DEF SSLContextFree, callVars
<1>2. RefInv' /\ OnlyOf(c) BY <1>0, FreeKeeps
<1>3. /\ slotCert'[c] = Null /\ slotKey'[c] = Null
      /\ usedCert'[c] = Nothing /\ usedKey'[c] = Nothing
  BY <1>0 DEF SSLContextFree, RefInv
<1>4. \A o \in Obj : ~InSlot(c, o)' /\ ~InUse(c, o)'
  BY <1>3, Objects DEF InSlot, InUse, Served, Nothing
<1>5. CallInv' BY <1>0, <1>1 DEF CallInv
<1>6. OtherCalls(c) BY <1>0, <1>1 DEF OtherCalls, CallInv
<1>7. FreshAt(c)' BY <1>1 DEF FreshAt
<1>8. ServeAt(c)' BY <1>1, <1>3 DEF ServeAt
<1>9. Loads(c) BY <1>4 DEF Loads
<1>10. Confines(c)
  <2>1. /\ replaced' = replaced /\ released' = released /\ touched' \in {touched, touched \cup {c}}
        /\ Served(c) \cap released = {} => touched' = touched
    BY DEF SSLContextFree
  <2>2. released \subseteq Obj BY <1>0 DEF RefInv
  <2>3. ConfinedAt(c) => ConfinedAt(c)' BY <1>4, <2>1, <2>2 DEF ConfinedAt, InUse
  <2>4. QED BY <2>1, <2>3 DEF Confines
<1>11. QED BY <1>2, <1>5, <1>6, <1>7, <1>8, <1>9, <1>10, CredStep

LEMMA NextCred ==
  ASSUME CredentialsAssumption, CredInv, [Next]_vars
  PROVE  CredInv'
<1>1. CASE UNCHANGED vars
  <2>1. UNCHANGED objVars /\ UNCHANGED <<calls, step, p12, need, tries, load, freed, result, password>>
    BY <1>1 DEF vars, callVars
  <2>2. RefInv' BY <2>1, RefsSame DEF CredInv
  <2>3. CallInv' BY <2>1 DEF CredInv, CallInv
  <2>4. FreshInv'
    BY <2>1 DEF CredInv, FreshInv, FreshAt, Fresh, Lost, InSlot, InUse, Served, Key, Cert, objVars, freeVars
  <2>5. ServeInv' BY <2>1 DEF CredInv, ServeInv, ServeAt, Key, Cert, objVars
  <2>6. ConfinedInv'
    BY <2>1 DEF CredInv, ConfinedInv, ConfinedAt, InUse, Served, objVars, freeVars
  <2>7. QED BY <2>2, <2>3, <2>4, <2>5, <2>6 DEF CredInv
<1>2. CASE Next
  <2>1. PICK c \in Ctx :
          \/ \E isP12 \in BOOLEAN, opens \in Given \cup {Unreadable}, pass \in Given :
               SetCertificate(c, isP12, opens, pass)
          \/ \E pass \in Password : SetCertificateWithoutFile(c, pass)
          \/ Open(c) \/ FileMissing(c) \/ Prompt(c)
          \/ \E pass \in Given : Answer(c, pass)
          \/ \E found \in BOOLEAN : LoadPemCert(c, found)
          \/ \E goodKey \in BOOLEAN : SetCertificateRaw(c, goodKey)
          \/ \E t, u \in KeyType, outcome \in {"refused", "mismatch", "ok"} :
               UseCredentials(c, t, u, outcome)
          \/ SSLContextFree(c)
    BY <1>2 DEF Next
  <2>2. CASE \E isP12 \in BOOLEAN, opens \in Given \cup {Unreadable}, pass \in Given :
               SetCertificate(c, isP12, opens, pass)
    BY <2>2, SetCertificateKeeps
  <2>3. CASE \E pass \in Password : SetCertificateWithoutFile(c, pass)
    BY <2>3, SetCertificateWithoutFileKeeps
  <2>4. CASE Open(c) BY <2>4, OpenKeeps
  <2>5. CASE FileMissing(c) BY <2>5, FileMissingKeeps
  <2>6. CASE Prompt(c) BY <2>6, PromptKeeps
  <2>7. CASE \E pass \in Given : Answer(c, pass) BY <2>7, AnswerKeeps
  <2>8. CASE \E found \in BOOLEAN : LoadPemCert(c, found) BY <2>8, LoadPemCertKeeps
  <2>9. CASE \E goodKey \in BOOLEAN : SetCertificateRaw(c, goodKey)
    BY <2>9, SetCertificateRawKeeps
  <2>10. CASE \E t, u \in KeyType, outcome \in {"refused", "mismatch", "ok"} :
                UseCredentials(c, t, u, outcome)
    BY <2>10, UseCredentialsKeeps
  <2>11. CASE SSLContextFree(c) BY <2>11, SSLContextFreeKeeps
  <2>12. QED BY <2>1, <2>2, <2>3, <2>4, <2>5, <2>6, <2>7, <2>8, <2>9, <2>10, <2>11
<1>3. QED BY <1>1, <1>2

-----------------------------------------------------------------------------
(* The inductive invariant of certificates, keys and passwords.            *)
THEOREM CredInvariance == Spec => []CredInv
<1>1. Init => CredInv BY InitCred, CredentialsAssumption
<1>2. CredInv /\ [Next]_vars => CredInv' BY NextCred, CredentialsAssumption
<1>3. QED BY <1>1, <1>2, PTL DEF Spec

(* Every variable keeps its type: no reference count is negative or above  *)
(* two, and load_pem_key makes at most three turns.                        *)
THEOREM CredTypeCorrect == Spec => []TypeOK
<1>1. CredInv => TypeOK
  <2>1. SUFFICES ASSUME CredInv PROVE TypeOK OBVIOUS
  <2>2. RefInv /\ CallInv BY <2>1 DEF CredInv
  <2>3. ASSUME NEW o \in Obj PROVE refs[o] \in 0..2
    <3>1. refs[o] = One(\E c \in Ctx : InSlot(c, o)) + One(\E c \in Ctx : InUse(c, o))
                    + One(o \in Lost)
      BY <2>2 DEF RefInv
    <3>2. (\E c \in Ctx : InSlot(c, o)) => o \notin Lost BY <2>2 DEF RefInv
    <3>3. QED BY <3>1, <3>2 DEF One
  <2>4. refs \in [Obj -> 0..2] BY <2>2, <2>3 DEF RefInv
  <2>5. QED BY <2>1, <2>2, <2>4, Objects DEF CredInv, ConfinedInv, RefInv, CallInv, TypeOK
<1>2. QED BY <1>1, CredInvariance, PTL

(* A call that returned true serves what it loaded itself, whatever other  *)
(* contexts did with the shared password.                                  *)
THEOREM ServesOwn == Spec => []ServesWhatWasSet
<1>1. CredInv => ServesWhatWasSet BY DEF CredInv, ServeInv, ServeAt, ServesWhatWasSet
<1>2. QED BY <1>1, CredInvariance, PTL

(* Reference counts follow the slots and the SSL_CTXs exactly, apart from  *)
(* objects whose slot was written over.                                    *)
THEOREM ReferencesExact == Spec => []FreedWhenUnused
<1>1. CredInv => FreedWhenUnused
  <2>1. SUFFICES ASSUME CredInv, NEW o \in Obj \ released
                 PROVE  /\ Slots(o) \cup Users(o) # {} => refs[o] > 0
                        /\ Slots(o) \cup Users(o) = {} /\ o \notin overwritten => refs[o] = 0
    BY DEF FreedWhenUnused
  <2>2. refs[o] = One(\E c \in Ctx : InSlot(c, o)) + One(\E c \in Ctx : InUse(c, o))
                  + One(o \in Lost)
    BY <2>1 DEF CredInv, RefInv
  <2>3. /\ Slots(o) # {} <=> \E c \in Ctx : InSlot(c, o)
        /\ Users(o) # {} <=> \E c \in Ctx : InUse(c, o)
        /\ o \in Lost <=> o \in overwritten
    BY <2>1 DEF Slots, Users, InSlot, InUse, Served, Lost
  <2>4. QED BY <2>2, <2>3 DEF One
<1>2. QED BY <1>1, CredInvariance, PTL

(* The harm of the free() in setCertificateRaw stays with contexts whose   *)
(* slot it found filled; no slot and no pair just loaded and served is     *)
(* released.                                                               *)
THEOREM ReleaseIsConfined == Spec => []ReleaseConfined
<1>1. CredInv => ReleaseConfined
  <2>1. SUFFICES ASSUME CredInv, NEW c \in Ctx
                 PROVE  /\ {slotCert[c], slotKey[c]} \cap released = {}
                        /\ c \notin freed /\ result[c] = "true" /\ step[c] = "idle" =>
                             {Cert(c), Key(c)} \cap released = {}
                        /\ c \notin replaced => c \notin touched /\ Served(c) \cap released = {}
    BY DEF ReleaseConfined
  <2>2. {slotCert[c], slotKey[c]} \cap released = {}
    BY <2>1 DEF CredInv, RefInv, Lost, InSlot
  <2>3. ServeAt(c) /\ ConfinedAt(c) BY <2>1 DEF CredInv, ServeInv, ConfinedInv
  <2>4. QED BY <2>2, <2>3 DEF ServeAt, ConfinedAt, InUse
<1>2. QED BY <1>1, CredInvariance, PTL
=============================================================================
