--------------------------- MODULE ContextSetupProofs ---------------------------
(***************************************************************************)
(* Proofs about ContextSetup for every number of threads, calls and        *)
(* certificates in a file, and every size of the error queues.             *)
(*                                                                         *)
(* The inductive invariant has one part for each group of variables, and   *)
(* most calls change one or two of them.  That the live certificates are   *)
(* those of the two chains is kept only because no certificate is in both  *)
(* and those of a call are new (ChainInv); that no CA is lost when the     *)
(* list of client CAs is created only because nothing was promised before  *)
(* there was a list (StoreInv).                                            *)
(***************************************************************************)
EXTENDS ContextSetup, SequenceTheorems, TLAPS

Reason == {"no_start_line", "other"}
ErrorQueue == {q \in Seq(Error) : Len(q) <= MaxErrors}

QueueInv ==
  /\ server \in BOOLEAN /\ calls \in 0..MaxCalls
  /\ queue \in [Thread -> ErrorQueue]

ChainInv ==
  /\ live \in SUBSET X509
  /\ extraChain \in Seq(X509) /\ ownChain \in Seq(X509)
  /\ \A x \in live : x[1] <= calls
  /\ ToSet(extraChain) \cap ToSet(ownChain) = {}
  /\ ChainSound

Promised == [crls : SUBSET (1..MaxCalls), trusted : SUBSET (1..MaxCalls),
             announced : SUBSET (1..MaxCalls)]

StoreInv ==
  /\ trusted \in SUBSET (1..MaxCalls) /\ crls \in SUBSET (1..MaxCalls)
  /\ clientCAs = NoList \/ clientCAs \in SUBSET (1..MaxCalls)
  /\ crlCheck \in BOOLEAN
  /\ promised \in Promised
  /\ PromisesKept

CipherInv == ciphers \in [Holder -> (SUBSET Cipher) \cup {Inherited}]

HistoryInv ==
  /\ last \in [clean : BOOLEAN, complete : BOOLEAN, result : BOOLEAN] /\ TrueWhenClean
  /\ thrown \in [call : 0..MaxCalls, error : 0..MaxCalls] /\ OwnErrorReported

ContextInv == QueueInv /\ ChainInv /\ StoreInv /\ CipherInv /\ HistoryInv

-----------------------------------------------------------------------------
(* The error queue: adding errors of this call gives a queue of the same   *)
(* kind; it is not empty if there was an error; and if the queue was empty *)
(* all its entries are of this call.                                       *)
LEMMA PushQueue ==
  ASSUME ContextSetupAssumption, calls \in 0..MaxCalls, calls < MaxCalls,
         NEW q \in Seq(Error), NEW reasons \in Seq(Reason)
  PROVE  /\ Push(q, reasons) \in ErrorQueue
         /\ reasons # <<>> => Push(q, reasons) # <<>>
         /\ q = <<>> => \A i \in 1..Len(Push(q, reasons)) : Push(q, reasons)[i].call = This
<1> DEFINE new == [i \in DOMAIN reasons |-> [call |-> This, reason |-> reasons[i]]]
           all == q \o new
           n == Len(all)
<1>1. This \in 1..MaxCalls BY DEF This, ContextSetupAssumption
<1>r. Len(reasons) \in Nat /\ DOMAIN reasons = 1..Len(reasons)
  BY LenProperties
<1>e. \A i \in 1..Len(reasons) :
        new[i] = [call |-> This, reason |-> reasons[i]] /\ reasons[i] \in Reason
  BY <1>r, ElementOfSeq
<1>f. new \in [1..Len(reasons) -> Error]
  BY <1>1, <1>e, <1>r DEF Error, Reason
<1>2. /\ new \in Seq(Error) /\ Len(new) = Len(reasons)
      /\ \A i \in 1..Len(new) : new[i].call = This
  BY <1>e, <1>f, <1>r
<1> HIDE DEF new
<1>3. all \in Seq(Error) /\ n = Len(q) + Len(reasons)
  BY <1>2
<1>4. q = <<>> => \A i \in 1..n : all[i].call = This
  BY <1>2, <1>3
<1> HIDE DEF new, all
<1>5. CASE n <= MaxErrors
  <2>1. Push(q, reasons) = all BY <1>5 DEF Push, all, new
  <2>2. QED BY <1>3, <1>4, <1>5, <2>1, EmptySeq, LenProperties DEF ErrorQueue
<1>6. CASE ~(n <= MaxErrors)
  <2>0. n \in Nat /\ MaxErrors \in Nat \ {0} BY <1>3, LenProperties DEF ContextSetupAssumption
  <2>1. Push(q, reasons) = SubSeq(all, n - MaxErrors + 1, n) BY <1>6 DEF Push, all, new
  <2>2. \A i \in (n - MaxErrors + 1)..n : all[i] \in Error
    BY <1>3, <1>6, <2>0, ElementOfSeq
  <2> DEFINE sub == SubSeq(all, n - MaxErrors + 1, n)
  <2>3. /\ sub \in Seq(Error) /\ Len(sub) = MaxErrors
        /\ \A i \in 1..MaxErrors : sub[i] = all[n - MaxErrors + i]
    BY <2>0, <2>2, SubSeqProperties
  <2>4. sub # <<>> BY <2>0, <2>3
  <2>5. q = <<>> => \A i \in 1..MaxErrors : all[n - MaxErrors + i].call = This
    BY <1>4, <1>6, <2>0
  <2> HIDE DEF sub
  <2>6. /\ sub \in Seq(Error) /\ Len(sub) <= MaxErrors
        /\ reasons # <<>> => sub # <<>>
        /\ q = <<>> => \A i \in 1..Len(sub) : sub[i].call = This
    <3>1. sub \in Seq(Error) /\ Len(sub) <= MaxErrors BY <2>0, <2>3
    <3>2. ASSUME q = <<>>, NEW i \in 1..Len(sub) PROVE sub[i].call = This
      BY <2>3, <2>5, <3>2
    <3>3. QED BY <2>4, <3>1, <3>2
  <2>7. QED BY <2>1, <2>6 DEF sub, ErrorQueue
<1>7. QED BY <1>5, <1>6 DEF ErrorQueue

(* Taking the oldest entry.                                                *)
LEMMA GetQueue ==
  ASSUME ContextSetupAssumption, NEW q \in ErrorQueue
  PROVE  SSL_ERR_get(q) \in ErrorQueue
<1>1. CASE q = <<>> BY <1>1 DEF SSL_ERR_get
<1>2. CASE q # <<>>
  BY <1>2, HeadTailProperties, LenProperties DEF SSL_ERR_get, ErrorQueue, ContextSetupAssumption
<1>3. QED BY <1>1, <1>2

(* The errors of a function are reasons, and at least one.                 *)
LEMMA ErrorsAreReasons ==
  /\ \A es \in Errors : es \in Seq(Reason) /\ es # <<>>
  /\ <<>> \in Seq(Reason)
  /\ \A r \in Reason : <<r>> \in Seq(Reason) /\ <<r>> # <<>>
BY DEF Errors, Reason

(* The empty queue.                                                        *)
LEMMA EmptyQueue ==
  ASSUME ContextSetupAssumption
  PROVE  <<>> \in ErrorQueue
BY DEF ErrorQueue, ContextSetupAssumption

(* With an empty queue, the only error of a call is the oldest one.        *)
LEMMA PushFirst ==
  ASSUME ContextSetupAssumption, calls \in 0..MaxCalls, NEW r \in Reason
  PROVE  Head(Push(<<>>, <<r>>)).reason = r
<1> DEFINE new == [i \in DOMAIN <<r>> |-> [call |-> This, reason |-> <<r>>[i]]]
<1>1. new \in Seq([call : {This}, reason : Reason]) /\ Len(new) = 1 /\ new[1].reason = r
  OBVIOUS
<1> HIDE DEF new
<1>2. <<>> \o new = new BY <1>1, ConcatEmptySeq
<1>3. Push(<<>>, <<r>>) = new BY <1>1, <1>2 DEF Push, new, ContextSetupAssumption
<1>4. QED BY <1>1, <1>3

(* The thread has a new queue.                                             *)
QueueSet(t) == \E q \in ErrorQueue : SetQueue(t, q)

LEMMA QueueStep ==
  ASSUME ContextSetupAssumption, QueueInv, NEW t \in Thread, QueueSet(t) \/ UNCHANGED queue,
         Call \/ UNCHANGED calls, UNCHANGED server
  PROVE  QueueInv'
<1>1. calls' \in 0..MaxCalls BY DEF QueueInv, Call, ContextSetupAssumption
<1>2. queue' \in [Thread -> ErrorQueue] BY DEF QueueInv, QueueSet, SetQueue
<1>3. QED BY <1>1, <1>2 DEF QueueInv

(* A function that fails, and one that succeeds.                           *)
LEMMA FailAndThrowQueue ==
  ASSUME ContextSetupAssumption, QueueInv, calls < MaxCalls, NEW t \in Thread, FailAndThrow(t)
  PROVE  QueueSet(t)
<1>1. PICK es \in Errors : SetQueue(t, SSL_ERR_get(Push(queue[t], es))) BY DEF FailAndThrow
<1>2. queue[t] \in Seq(Error) /\ es \in Seq(Reason)
  BY ErrorsAreReasons DEF QueueInv, ErrorQueue
<1>3. SSL_ERR_get(Push(queue[t], es)) \in ErrorQueue
  BY <1>2, PushQueue, GetQueue DEF QueueInv
<1>4. QED BY <1>1, <1>3 DEF QueueSet

LEMMA ReadsFilesQueue ==
  ASSUME ContextSetupAssumption, QueueInv, NEW t \in Thread, ReadsFiles(t)
  PROVE  QueueSet(t)
BY EmptyQueue DEF ReadsFiles, QueueSet, QueueInv

(* A function leaves errors in the queue.                                  *)
LEMMA PushesQueue ==
  ASSUME ContextSetupAssumption, QueueInv, calls < MaxCalls, NEW t \in Thread,
         NEW es \in Seq(Reason)
  PROVE  Push(queue[t], es) \in ErrorQueue
<1>1. queue[t] \in Seq(Error) BY DEF QueueInv, ErrorQueue
<1>2. QED BY <1>1, PushQueue DEF QueueInv

-----------------------------------------------------------------------------
(* A call that leaves a group of variables alone keeps its part of the     *)
(* invariant.                                                              *)
LEMMA ChainFrame ==
  ASSUME QueueInv, ChainInv, Call \/ UNCHANGED calls, UNCHANGED chainVars
  PROVE  ChainInv'
<1>1. \A x \in live : x[1] <= calls'
  <2>1. \A x \in live : x[1] \in Int /\ x[1] <= calls
    BY DEF ChainInv, X509
  <2>2. calls \in Int /\ calls' \in Int /\ calls <= calls' BY DEF QueueInv, Call
  <2>3. QED BY <2>1, <2>2
<1>2. QED BY <1>1 DEF ChainInv, ChainSound, chainVars

LEMMA StoreFrame ==
  ASSUME StoreInv, UNCHANGED <<storeVars, promised>>
  PROVE  StoreInv'
BY DEF StoreInv, PromisesKept, storeVars

LEMMA CipherFrame ==
  ASSUME CipherInv, UNCHANGED ciphers
  PROVE  CipherInv'
BY DEF CipherInv

LEMMA HistoryFrame ==
  ASSUME HistoryInv, UNCHANGED <<last, thrown>>
  PROVE  HistoryInv'
BY DEF HistoryInv, TrueWhenClean, OwnErrorReported

-----------------------------------------------------------------------------
(* The chain                                                               *)

(* The certificates of this call are new, and without gaps.                *)
LEMMA ReadSequence ==
  ASSUME ContextSetupAssumption, QueueInv, calls < MaxCalls,
         NEW i \in 1..2, NEW j \in 0..MaxInFile, i - 1 <= j
  PROVE  /\ Read(i, j) \in Seq(X509) /\ Len(Read(i, j)) = j - i + 1
         /\ \A k \in 1..(j - i + 1) : Read(i, j)[k] = <<This, i + k - 1>>
         /\ ToSet(Read(i, j)) \in SUBSET X509
         /\ \A x \in ToSet(Read(i, j)) : x[1] = This
<1> DEFINE n == j - i + 1
<1>1. n \in Nat BY DEF ContextSetupAssumption
<1>2. This \in 1..MaxCalls BY DEF This, QueueInv, ContextSetupAssumption
<1>3. \A k \in 1..n : <<This, i + k - 1>> \in X509
  BY <1>1, <1>2 DEF X509, ContextSetupAssumption
<1>4. /\ Read(i, j) \in [1..n -> X509]
      /\ \A k \in 1..n : Read(i, j)[k] = <<This, i + k - 1>>
  BY <1>3 DEF Read
<1>5. Read(i, j) \in Seq(X509) /\ Len(Read(i, j)) = n BY <1>1, <1>4
<1>6. ASSUME NEW x \in ToSet(Read(i, j)) PROVE x \in X509 /\ x[1] = This
  <2>1. PICK k \in DOMAIN Read(i, j) : x = Read(i, j)[k] BY DEF ToSet
  <2>2. k \in 1..n BY <1>4
  <2>3. QED BY <1>3, <1>4, <2>1, <2>2
<1>7. QED BY <1>4, <1>5, <1>6

(* The certificates of a chain are certificates.                           *)
LEMMA ToSetOfSeq ==
  ASSUME NEW S, NEW seq \in Seq(S)
  PROVE  ToSet(seq) \in SUBSET S
BY LenProperties, ElementOfSeq DEF ToSet

(* A new extra chain replaces the old one.                                 *)
LEMMA ChainReadKeeps ==
  ASSUME ContextSetupAssumption, QueueInv, ChainInv, Call,
         NEW i \in 1..2, NEW j \in 0..MaxInFile, i - 1 <= j,
         ChainRead(i, j), UNCHANGED ownChain
  PROVE  ChainInv'
<1> DEFINE new == Read(i, j)
<1>1. /\ new \in Seq(X509) /\ Len(new) = j - i + 1
      /\ \A k \in 1..(j - i + 1) : new[k] = <<This, i + k - 1>>
      /\ ToSet(new) \in SUBSET X509
      /\ \A x \in ToSet(new) : x[1] = This
  BY ReadSequence DEF Call
<1>2. extraChain' = new /\ live' = ToSet(new) \cup ToSet(ownChain)
  BY DEF ChainRead, ChainInv, ChainSound
<1>3. This \in Int /\ calls \in Int /\ calls < This /\ calls' = This
  BY DEF This, Call, QueueInv
<1>4. \A x \in ToSet(ownChain) : x \in X509 /\ x[1] <= calls
  BY DEF ChainInv, ChainSound
<1>5. ToSet(new) \cap ToSet(ownChain) = {}
  BY <1>1, <1>3, <1>4
<1>6. \A x \in live' : x \in X509 /\ x[1] <= calls'
  BY <1>1, <1>2, <1>3, <1>4 DEF X509
<1>7. \A k \in 1..(Len(new) - 1) : new[k + 1] = <<new[k][1], new[k][2] + 1>>
  <2>1. TAKE k \in 1..(Len(new) - 1)
  <2>2. k \in 1..(j - i + 1) /\ k + 1 \in 1..(j - i + 1) BY <1>1
  <2>3. new[k] = <<This, i + k - 1>> /\ new[k + 1] = <<This, i + (k + 1) - 1>>
    BY <1>1, <2>2
  <2>4. QED BY <1>3, <2>2, <2>3
<1> HIDE DEF new
<1>8. QED BY <1>1, <1>2, <1>5, <1>6, <1>7 DEF ChainInv, ChainSound

(* The set of a longer chain.                                              *)
LEMMA ToSetAppend ==
  ASSUME NEW S, NEW seq \in Seq(S), NEW x \in S
  PROVE  ToSet(Append(seq, x)) = ToSet(seq) \cup {x}
<1> DEFINE more == Append(seq, x)
<1>1. /\ more \in Seq(S) /\ Len(more) = Len(seq) + 1 /\ more[Len(seq) + 1] = x
      /\ \A i \in 1..Len(seq) : more[i] = seq[i]
  BY AppendProperties
<1>2. DOMAIN more = 1..(Len(seq) + 1) /\ DOMAIN seq = 1..Len(seq) /\ Len(seq) \in Nat
  BY <1>1, LenProperties
<1> HIDE DEF more
<1>3. QED BY <1>1, <1>2 DEF ToSet, more

-----------------------------------------------------------------------------
(* The invariant holds initially, and every call keeps it.                 *)
LEMMA InitContext ==
  ASSUME ContextSetupAssumption, Init
  PROVE  ContextInv
<1>1. QueueInv
  <2>1. 0 \in 0..MaxCalls BY DEF ContextSetupAssumption
  <2>2. QED BY <2>1, EmptyQueue DEF Init, QueueInv
<1>2. ChainInv
  <2>1. extraChain = <<>> /\ ownChain = <<>> /\ live = {} BY DEF Init
  <2>2. ToSet(<<>>) = {} BY DEF ToSet
  <2>3. <<>> \in Seq(X509) /\ Len(<<>>) = 0 BY EmptySeq
  <2>4. QED BY <2>1, <2>2, <2>3 DEF ChainInv, ChainSound
<1>3. StoreInv BY DEF Init, StoreInv, Promised, PromisesKept, NoList
<1>4. CipherInv BY DEF Init, CipherInv, ContextSetupAssumption
<1>5. HistoryInv
  <2>1. 0 \in 0..MaxCalls BY DEF ContextSetupAssumption
  <2>2. QED BY <2>1 DEF Init, HistoryInv, TrueWhenClean, OwnErrorReported
<1>6. QED BY <1>1, <1>2, <1>3, <1>4, <1>5 DEF ContextInv

LEMMA GetLastErrorNumberKeeps ==
  ASSUME ContextSetupAssumption, ContextInv, NEW t \in Thread, GetLastErrorNumber(t)
  PROVE  ContextInv'
<1> USE DEF ContextInv, GetLastErrorNumber
<1>1. QueueSet(t) BY GetQueue DEF QueueSet, QueueInv
<1>2. QueueInv' BY <1>1, QueueStep
<1>3. QED BY <1>2, ChainFrame, StoreFrame, CipherFrame, HistoryFrame

(* The queue was emptied, so its oldest entry is of this call.             *)
LEMMA SSLConfCallKeeps ==
  ASSUME ContextSetupAssumption, ContextInv, NEW t \in Thread, SSLConfCall(t)
  PROVE  ContextInv'
<1>0. QueueInv /\ ChainInv /\ StoreInv /\ CipherInv /\ HistoryInv BY DEF ContextInv
<1>1. PICK es \in Errors \cup {<<>>} :
        /\ SetQueue(t, SSL_ERR_get(Push(<<>>, es)))
        /\ thrown' = IF Push(<<>>, es) = <<>> THEN thrown
                     ELSE [call |-> This, error |-> Head(Push(<<>>, es)).call]
  BY DEF SSLConfCall
<1> DEFINE q == Push(<<>>, es)
<1>2. es \in Seq(Reason) BY ErrorsAreReasons
<1>3. calls \in 0..MaxCalls /\ calls < MaxCalls BY <1>0 DEF QueueInv, SSLConfCall, Call
<1>4. q \in ErrorQueue /\ \A i \in 1..Len(q) : q[i].call = This
  BY <1>2, <1>3, PushQueue, EmptySeq
<1> HIDE DEF q
<1>5. QueueInv'
  <2>1. QueueSet(t) BY <1>1, <1>4, GetQueue DEF QueueSet, q
  <2>2. QED BY <1>0, <2>1, QueueStep DEF SSLConfCall
<1>6. HistoryInv'
  <2>1. CASE q = <<>> BY <1>0, <1>1, <2>1, HistoryFrame DEF q, SSLConfCall
  <2>2. CASE q # <<>>
    <3>1. 1 \in 1..Len(q) /\ Head(q) = q[1] BY <1>4, <2>2 DEF ErrorQueue
    <3>2. thrown' = [call |-> This, error |-> This] BY <1>1, <1>4, <2>2, <3>1 DEF q
    <3>3. This \in 0..MaxCalls BY <1>3 DEF This, ContextSetupAssumption
    <3>4. QED BY <1>0, <3>2, <3>3 DEF HistoryInv, TrueWhenClean, OwnErrorReported, SSLConfCall
  <2>3. QED BY <2>1, <2>2
<1>7. QED BY <1>0, <1>5, <1>6, ChainFrame, StoreFrame, CipherFrame DEF SSLConfCall, ContextInv

(* setCertificateChainFile: what it leaves in the history.                 *)
LEMMA ReturnedHistory ==
  ASSUME HistoryInv, NEW t \in Thread, NEW complete \in BOOLEAN, NEW r \in BOOLEAN,
         Returned(t, complete, r), UNCHANGED thrown, queue[t] = <<>> => r = complete
  PROVE  HistoryInv'
BY DEF HistoryInv, Returned, TrueWhenClean, OwnErrorReported

LEMMA ChainFileNotReadKeeps ==
  ASSUME ContextSetupAssumption, ContextInv, NEW t \in Thread,
         NEW file \in File \cup {NoFile}, NEW skip \in BOOLEAN, ChainFileNotRead(t, file, skip)
  PROVE  ContextInv'
<1>0. QueueInv /\ ChainInv /\ StoreInv /\ CipherInv /\ HistoryInv BY DEF ContextInv
<1>1. PICK es \in IF file = NoFile THEN Errors ELSE {<<file.end>>} :
        SetQueue(t, Push(queue[t], es))
  BY DEF ChainFileNotRead
<1>2. es \in Seq(Reason)
  <2>1. CASE file = NoFile BY <2>1, ErrorsAreReasons
  <2>2. CASE file # NoFile
    <3>1. file.end \in Reason BY <2>2 DEF File, Reason
    <3>2. QED BY <2>2, <3>1, ErrorsAreReasons
  <2>3. QED BY <2>1, <2>2
<1>3. QueueSet(t) BY <1>0, <1>1, <1>2, PushesQueue DEF QueueSet, ChainFileNotRead, Call
<1>4. QueueInv' BY <1>0, <1>3, QueueStep DEF ChainFileNotRead
<1>5. HistoryInv' BY <1>0, ReturnedHistory DEF ChainFileNotRead
<1>6. QED BY <1>0, <1>4, <1>5, ChainFrame, StoreFrame, CipherFrame
          DEF ChainFileNotRead, ContextInv

(* The file was read: with an empty queue before, the error that decides   *)
(* is the one that ended the file.                                         *)
LEMMA ChainFileReadKeeps ==
  ASSUME ContextSetupAssumption, ContextInv, NEW t \in Thread,
         NEW file \in File, NEW skip \in BOOLEAN, ChainFileRead(t, file, skip)
  PROVE  ContextInv'
<1>0. QueueInv /\ ChainInv /\ StoreInv /\ CipherInv /\ HistoryInv BY DEF ContextInv
<1> DEFINE q == Push(queue[t], <<file.end>>)
           n == file.certs - First(skip) + 1
<1>1. file.certs \in 0..MaxInFile /\ file.end \in Reason /\ First(skip) \in 1..2
  BY DEF File, Reason, First
<1>2. <<file.end>> \in Seq(Reason) BY <1>1, ErrorsAreReasons
<1>3. q \in ErrorQueue BY <1>0, <1>2, PushesQueue DEF ChainFileRead, Call
<1>4. /\ SetQueue(t, IF OnlyEnd(q) THEN <<>> ELSE q)
      /\ Returned(t, n > 0 /\ file.end = "no_start_line", n > 0 /\ OnlyEnd(q))
  BY DEF ChainFileRead
<1>5. QueueInv'
  <2>1. QueueSet(t) BY <1>3, <1>4, EmptyQueue DEF QueueSet
  <2>2. QED BY <1>0, <2>1, QueueStep DEF ChainFileRead
<1>6. ChainInv'
  <2>1. First(skip) - 1 <= file.certs BY <1>1 DEF ChainFileRead
  <2>2. QED BY <1>0, <1>1, <2>1, ChainReadKeeps DEF ChainFileRead
<1>7. HistoryInv'
  <2>1. queue[t] = <<>> => (OnlyEnd(q) <=> file.end = "no_start_line")
    BY <1>0, <1>1, PushFirst DEF OnlyEnd, QueueInv
  <2>2. (n > 0 /\ file.end = "no_start_line") \in BOOLEAN /\ (n > 0 /\ OnlyEnd(q)) \in BOOLEAN
    OBVIOUS
  <2> HIDE DEF q, n
  <2>3. QED BY <1>0, <1>4, <2>1, <2>2, ReturnedHistory DEF ChainFileRead
<1>8. QED BY <1>0, <1>5, <1>6, <1>7, StoreFrame, CipherFrame DEF ChainFileRead, ContextInv

LEMMA ChainFileNotAddedKeeps ==
  ASSUME ContextSetupAssumption, ContextInv, NEW t \in Thread,
         NEW file \in File, NEW skip \in BOOLEAN, ChainFileNotAdded(t, file, skip)
  PROVE  ContextInv'
<1>0. QueueInv /\ ChainInv /\ StoreInv /\ CipherInv /\ HistoryInv BY DEF ContextInv
<1>1. QueueInv'
  <2>1. PICK es \in Errors : SetQueue(t, Push(queue[t], es)) BY DEF ChainFileNotAdded
  <2>2. QueueSet(t)
    BY <1>0, <2>1, PushesQueue, ErrorsAreReasons DEF QueueSet, ChainFileNotAdded, Call
  <2>3. QED BY <1>0, <2>2, QueueStep DEF ChainFileNotAdded
<1>2. ChainInv'
  <2>1. PICK k \in First(skip)..file.certs : ChainRead(First(skip), k - 1)
    BY DEF ChainFileNotAdded
  <2>2. First(skip) \in 1..2 /\ file.certs \in 0..MaxInFile BY DEF File, First
  <2>3. k - 1 \in 0..MaxInFile /\ First(skip) - 1 <= k - 1
    BY <2>2 DEF ContextSetupAssumption
  <2>4. QED BY <1>0, <2>1, <2>2, <2>3, ChainReadKeeps DEF ChainFileNotAdded
<1>3. HistoryInv' BY <1>0, ReturnedHistory DEF ChainFileNotAdded
<1>4. QED BY <1>0, <1>1, <1>2, <1>3, StoreFrame, CipherFrame DEF ChainFileNotAdded, ContextInv

LEMMA AddChainCertificateRawKeeps ==
  ASSUME ContextSetupAssumption, ContextInv, NEW t \in Thread, AddChainCertificateRaw(t)
  PROVE  ContextInv'
<1>0. QueueInv /\ ChainInv /\ StoreInv /\ CipherInv /\ HistoryInv BY DEF ContextInv
<1>1. QueueInv'
  BY <1>0, QueueStep, FailAndThrowQueue DEF AddChainCertificateRaw, Call
<1>2. ChainInv'
  <2>1. CASE UNCHANGED <<ownChain, live>>
    BY <1>0, <2>1, ChainFrame DEF AddChainCertificateRaw, chainVars
  <2>2. CASE ownChain' = Append(ownChain, <<This, 1>>) /\ live' = live \cup {<<This, 1>>}
    <3>1. This \in 1..MaxCalls /\ calls' = This /\ calls \in Int /\ calls < This
      BY <1>0 DEF This, QueueInv, AddChainCertificateRaw, Call, ContextSetupAssumption
    <3>2. <<This, 1>> \in X509 BY <3>1 DEF X509, ContextSetupAssumption
    <3>3. ownChain' \in Seq(X509) /\ ToSet(ownChain') = ToSet(ownChain) \cup {<<This, 1>>}
      BY <1>0, <2>2, <3>2, AppendProperties, ToSetAppend DEF ChainInv
    <3>4. \A x \in live : x \in X509 /\ x[1] <= calls BY <1>0 DEF ChainInv
    <3>5. <<This, 1>> \notin live /\ <<This, 1>>[1] = This BY <3>1, <3>4
    <3>6. \A x \in live' : x \in X509 /\ x[1] <= calls'
      BY <2>2, <3>1, <3>2, <3>4, <3>5 DEF X509
    <3>7. ToSet(extraChain) \cap ToSet(ownChain') = {}
      BY <1>0, <3>3, <3>5 DEF ChainInv, ChainSound
    <3>8. ChainSound'
      BY <1>0, <2>2, <3>3 DEF ChainInv, ChainSound, AddChainCertificateRaw
    <3>9. QED BY <1>0, <3>3, <3>6, <3>7, <3>8 DEF ChainInv, AddChainCertificateRaw
  <2>3. QED BY <2>1, <2>2 DEF AddChainCertificateRaw
<1>3. QED BY <1>0, <1>1, <1>2, StoreFrame, CipherFrame, HistoryFrame
          DEF AddChainCertificateRaw, ContextInv

-----------------------------------------------------------------------------
(* CAs and CRLs                                                            *)

(* Announcing a CA loses none that was announced.                          *)
LEMMA AnnouncedKeeps ==
  ASSUME ContextSetupAssumption, QueueInv, StoreInv, calls < MaxCalls
  PROVE  /\ This \in 1..MaxCalls
         /\ Announced({This}) \in SUBSET (1..MaxCalls)
         /\ promised.announced \cup {This} \subseteq Announced({This})
<1>1. This \in 1..MaxCalls BY DEF This, QueueInv, ContextSetupAssumption
<1>2. promised.announced \subseteq 1..MaxCalls /\ promised.announced \subseteq clientCAs
  BY DEF StoreInv, Promised, PromisesKept
<1>3. clientCAs = NoList => promised.announced = {} BY <1>2 DEF NoList
<1>4. QED BY <1>1, <1>2, <1>3 DEF Announced, StoreInv

LEMMA AddClientCACertificateRawKeeps ==
  ASSUME ContextSetupAssumption, ContextInv, NEW t \in Thread, AddClientCACertificateRaw(t)
  PROVE  ContextInv'
<1>0. QueueInv /\ ChainInv /\ StoreInv /\ CipherInv /\ HistoryInv BY DEF ContextInv
<1>1. QueueInv'
  BY <1>0, QueueStep, FailAndThrowQueue DEF AddClientCACertificateRaw, Call
<1>2. StoreInv'
  <2>1. CASE UNCHANGED <<clientCAs, promised>>
    BY <1>0, <2>1, StoreFrame DEF AddClientCACertificateRaw, storeVars
  <2>2. CASE /\ clientCAs' = Announced({This})
             /\ promised' = [promised EXCEPT !.announced = @ \cup {This}]
    <3>1. /\ This \in 1..MaxCalls /\ Announced({This}) \in SUBSET (1..MaxCalls)
          /\ promised.announced \cup {This} \subseteq Announced({This})
      BY <1>0, AnnouncedKeeps DEF AddClientCACertificateRaw, Call
    <3>2. /\ promised' \in Promised
          /\ promised'.crls = promised.crls /\ promised'.trusted = promised.trusted
          /\ promised'.announced = promised.announced \cup {This}
      BY <1>0, <2>2, <3>1 DEF StoreInv, Promised
    <3>3. QED BY <1>0, <2>2, <3>1, <3>2 DEF StoreInv, PromisesKept, AddClientCACertificateRaw
  <2>3. QED BY <2>1, <2>2 DEF AddClientCACertificateRaw
<1>3. QED BY <1>0, <1>1, <1>2, ChainFrame, CipherFrame, HistoryFrame
          DEF AddClientCACertificateRaw, ContextInv

LEMMA SetCACertificateKeeps ==
  ASSUME ContextSetupAssumption, ContextInv, NEW t \in Thread,
         NEW file \in Source, NEW path \in Source, SetCACertificate(t, file, path)
  PROVE  ContextInv'
<1>0. QueueInv /\ ChainInv /\ StoreInv /\ CipherInv /\ HistoryInv BY DEF ContextInv
<1>1. calls < MaxCalls /\ This \in 1..MaxCalls
  BY <1>0 DEF SetCACertificate, Call, This, QueueInv, ContextSetupAssumption
<1>2. QueueInv'
  <2>1. CASE "bad" \in {file, path}
    BY <1>0, <1>1, <2>1, QueueStep, FailAndThrowQueue DEF SetCACertificate
  <2>2. CASE "bad" \notin {file, path} /\ ~server
    BY <1>0, <2>2, QueueStep, ReadsFilesQueue DEF SetCACertificate
  <2>3. CASE "bad" \notin {file, path} /\ server
    <3>1. PICK added \in BOOLEAN : ClientCAList(t, file, added) BY <2>3 DEF SetCACertificate
    <3>2. ReadsFiles(t) \/ LeavesErrors(t) \/ UNCHANGED queue BY <3>1 DEF ClientCAList
    <3>3. CASE LeavesErrors(t)
      <4>1. PICK es \in Errors : SetQueue(t, Push(queue[t], es)) BY <3>3 DEF LeavesErrors
      <4>2. Push(queue[t], es) \in ErrorQueue BY <1>0, <1>1, PushesQueue, ErrorsAreReasons
      <4>3. QueueSet(t) BY <4>1, <4>2 DEF QueueSet
      <4>4. QED BY <1>0, <4>3, QueueStep DEF SetCACertificate
    <3>4. QED BY <1>0, <3>2, <3>3, QueueStep, ReadsFilesQueue DEF SetCACertificate
  <2>4. QED BY <2>1, <2>2, <2>3
<1>3. StoreInv'
  <2>1. CASE "bad" \in {file, path}
    BY <1>0, <1>1, <2>1 DEF SetCACertificate, StoreInv, PromisesKept
  <2>2. CASE "bad" \notin {file, path}
    <3>1. PICK added \in BOOLEAN :
            /\ Promise(added) /\ trusted' = trusted \cup {This}
            /\ clientCAs' = IF added THEN Announced({This}) ELSE clientCAs
      BY <2>2 DEF SetCACertificate, ClientCAList
    <3>2. /\ Announced({This}) \in SUBSET (1..MaxCalls)
          /\ promised.announced \cup {This} \subseteq Announced({This})
      BY <1>0, <1>1, AnnouncedKeeps
    <3>3. /\ promised' \in Promised
          /\ promised'.crls = promised.crls /\ promised'.trusted = promised.trusted \cup {This}
          /\ promised'.announced = IF added THEN promised.announced \cup {This}
                                   ELSE promised.announced
      BY <1>0, <1>1, <3>1 DEF StoreInv, Promised, Promise
    <3>4. QED BY <1>0, <1>1, <3>1, <3>2, <3>3 DEF StoreInv, PromisesKept, SetCACertificate
  <2>3. QED BY <2>1, <2>2
<1>4. QED BY <1>0, <1>2, <1>3, ChainFrame, CipherFrame, HistoryFrame
          DEF SetCACertificate, ContextInv

LEMMA SetCARevocationKeeps ==
  ASSUME ContextSetupAssumption, ContextInv, NEW t \in Thread,
         NEW file \in Source, NEW path \in Source, SetCARevocation(t, file, path)
  PROVE  ContextInv'
<1>0. QueueInv /\ ChainInv /\ StoreInv /\ CipherInv /\ HistoryInv BY DEF ContextInv
<1>1. calls < MaxCalls /\ This \in 1..MaxCalls
  BY <1>0 DEF SetCARevocation, Call, This, QueueInv, ContextSetupAssumption
<1>2. QueueInv'
  BY <1>0, <1>1, QueueStep, FailAndThrowQueue, ReadsFilesQueue DEF SetCARevocation
<1>3. StoreInv'
  <2>1. CASE "bad" \in {file, path}
    BY <1>0, <1>1, <2>1 DEF SetCARevocation, StoreInv, PromisesKept
  <2>2. CASE "bad" \notin {file, path}
    <3>1. /\ crls' = crls \cup {This} /\ crlCheck' = TRUE
          /\ promised' = [promised EXCEPT !.crls = @ \cup {This}]
      BY <2>2 DEF SetCARevocation
    <3>2. /\ promised' \in Promised
          /\ promised'.crls = promised.crls \cup {This}
          /\ promised'.trusted = promised.trusted /\ promised'.announced = promised.announced
      BY <1>0, <1>1, <3>1 DEF StoreInv, Promised
    <3>3. QED BY <1>0, <1>1, <3>1, <3>2 DEF StoreInv, PromisesKept, SetCARevocation
  <2>3. QED BY <2>1, <2>2
<1>4. QED BY <1>0, <1>2, <1>3, ChainFrame, CipherFrame, HistoryFrame
          DEF SetCARevocation, ContextInv

-----------------------------------------------------------------------------
(* Ciphers                                                                 *)

LEMMA CipherListKeeps ==
  ASSUME CipherInv, NEW h \in Holder, NEW L \in SUBSET Cipher, CipherList(h, L)
  PROVE  CipherInv'
BY DEF CipherInv, CipherList

LEMMA SetListKeeps ==
  ASSUME ContextSetupAssumption, ContextInv, NEW t \in Thread, NEW h \in Holder,
         NEW L \in SUBSET Cipher, SetList(t, h, L)
  PROVE  ContextInv'
<1>0. QueueInv /\ ChainInv /\ StoreInv /\ CipherInv /\ HistoryInv BY DEF ContextInv
<1>1. QueueInv' BY <1>0, QueueStep, FailAndThrowQueue DEF SetList, Call
<1>2. CipherInv'
  <2>1. Permitted(L) \in SUBSET Cipher BY DEF Permitted
  <2>2. QED BY <1>0, <2>1, CipherListKeeps, CipherFrame DEF SetList
<1>3. QED BY <1>0, <1>1, <1>2, ChainFrame, StoreFrame, HistoryFrame DEF SetList, ContextInv

LEMMA ApplyCipherStringKeeps ==
  ASSUME ContextSetupAssumption, ContextInv, NEW t \in Thread,
         NEW name \in {"CipherString", "cipherstring"}, NEW L \in SUBSET Cipher,
         ApplyCipherString(t, name, L)
  PROVE  ContextInv'
<1>0. QueueInv /\ ChainInv /\ StoreInv /\ CipherInv /\ HistoryInv BY DEF ContextInv
<1> DEFINE list == IF name = "CipherString" THEN Permitted(L) ELSE L
<1>1. calls < MaxCalls /\ calls \in 0..MaxCalls /\ This \in 0..MaxCalls
  BY <1>0 DEF ApplyCipherString, Call, This, QueueInv, ContextSetupAssumption
<1>2. QueueInv'
  <2>1. CASE SetQueue(t, <<>>)
    BY <1>0, <2>1, EmptyQueue, QueueStep DEF QueueSet, ApplyCipherString
  <2>2. CASE \E es \in Errors : SetQueue(t, SSL_ERR_get(Push(<<>>, es)))
    <3>1. PICK es \in Errors : SetQueue(t, SSL_ERR_get(Push(<<>>, es))) BY <2>2
    <3>2. SSL_ERR_get(Push(<<>>, es)) \in ErrorQueue
      BY <1>1, PushQueue, GetQueue, ErrorsAreReasons, EmptySeq
    <3>3. QED BY <1>0, <3>1, <3>2, QueueStep DEF QueueSet, ApplyCipherString
  <2>3. QED BY <2>1, <2>2 DEF ApplyCipherString
<1>3. CipherInv'
  <2>1. list \in SUBSET Cipher BY DEF Permitted
  <2>2. CipherList("SSL_CTX", list) \/ UNCHANGED ciphers BY DEF ApplyCipherString
  <2> HIDE DEF list
  <2>3. QED BY <1>0, <2>1, <2>2, CipherListKeeps, CipherFrame DEF Holder
<1>4. HistoryInv'
  BY <1>0, <1>1 DEF ApplyCipherString, HistoryInv, TrueWhenClean, OwnErrorReported
<1>5. QED BY <1>0, <1>2, <1>3, <1>4, ChainFrame, StoreFrame DEF ApplyCipherString, ContextInv

-----------------------------------------------------------------------------
LEMMA NextContext ==
  ASSUME ContextSetupAssumption, ContextInv, [Next]_vars
  PROVE  ContextInv'
<1>1. CASE UNCHANGED vars
  <2>1. QueueInv' BY <1>1 DEF ContextInv, QueueInv, vars
  <2>2. QED BY <1>1, <2>1, ChainFrame, StoreFrame, CipherFrame, HistoryFrame
            DEF ContextInv, vars
<1>2. CASE Next
  <2>1. PICK t \in Thread :
          \/ GetLastErrorNumber(t) \/ SSLConfCall(t) \/ SetCertificateChainFile(t)
          \/ AddChainCertificateRaw(t) \/ AddClientCACertificateRaw(t)
          \/ \E file, path \in Source : SetCACertificate(t, file, path)
          \/ \E file, path \in Source : SetCARevocation(t, file, path)
          \/ \E L \in (SUBSET Cipher) \ {{}} :
               SSLContextSetCipherSuite(t, L) \/ SSLSetCipherSuites(t, L)
          \/ \E name \in {"CipherString", "cipherstring"}, L \in (SUBSET Cipher) \ {{}} :
               ApplyCipherString(t, name, L)
    BY <1>2 DEF Next
  <2>2. CASE GetLastErrorNumber(t) BY <2>2, GetLastErrorNumberKeeps
  <2>3. CASE SSLConfCall(t) BY <2>3, SSLConfCallKeeps
  <2>4. CASE SetCertificateChainFile(t)
    BY <2>4, ChainFileNotReadKeeps, ChainFileReadKeeps, ChainFileNotAddedKeeps
       DEF SetCertificateChainFile
  <2>5. CASE AddChainCertificateRaw(t) BY <2>5, AddChainCertificateRawKeeps
  <2>6. CASE AddClientCACertificateRaw(t) BY <2>6, AddClientCACertificateRawKeeps
  <2>7. CASE \E file, path \in Source : SetCACertificate(t, file, path)
    BY <2>7, SetCACertificateKeeps
  <2>8. CASE \E file, path \in Source : SetCARevocation(t, file, path)
    BY <2>8, SetCARevocationKeeps
  <2>9. CASE \E L \in (SUBSET Cipher) \ {{}} :
               SSLContextSetCipherSuite(t, L) \/ SSLSetCipherSuites(t, L)
    BY <2>9, SetListKeeps DEF SSLContextSetCipherSuite, SSLSetCipherSuites, Holder
  <2>10. CASE \E name \in {"CipherString", "cipherstring"}, L \in (SUBSET Cipher) \ {{}} :
                ApplyCipherString(t, name, L)
    BY <2>10, ApplyCipherStringKeeps
  <2>11. QED BY <2>1, <2>2, <2>3, <2>4, <2>5, <2>6, <2>7, <2>8, <2>9, <2>10
<1>3. QED BY <1>1, <1>2

(* The inductive invariant of the set-up of a context.                     *)
THEOREM ContextInvariance == Spec => []ContextInv
<1>1. Init => ContextInv BY InitContext, ContextSetupAssumption
<1>2. ContextInv /\ [Next]_vars => ContextInv' BY NextContext, ContextSetupAssumption
<1>3. QED BY <1>1, <1>2, PTL DEF Spec

(* Every variable keeps its type; no error queue grows past its bound.     *)
THEOREM ContextTypeCorrect == Spec => []TypeOK
<1>1. ContextInv => TypeOK
  BY DEF ContextInv, QueueInv, ErrorQueue, ChainInv, StoreInv, Promised, CipherInv, HistoryInv,
         TypeOK
<1>2. QED BY <1>1, ContextInvariance, PTL

(* Whichever calls of SSLContext.setCertificateChainFile and               *)
(* addChainCertificateRaw fail half-way, no certificate is leaked, none is *)
(* used after it was freed, and the extra chain is a part of one file.     *)
THEOREM ChainsSound == Spec => []ChainSound
<1>1. ContextInv => ChainSound BY DEF ContextInv, ChainInv
<1>2. QED BY <1>1, ContextInvariance, PTL

(* With an empty error queue setCertificateChainFile returns true exactly  *)
(* when the chain has all certificates of the file.                        *)
THEOREM ChainResultRight == Spec => []TrueWhenClean
<1>1. ContextInv => TrueWhenClean BY DEF ContextInv, HistoryInv
<1>2. QED BY <1>1, ContextInvariance, PTL

(* SSLConf throws the error of the call that failed, because it empties    *)
(* the queue before each call of OpenSSL.                                  *)
THEOREM SSLConfErrorsOwn == Spec => []OwnErrorReported
<1>1. ContextInv => OwnErrorReported BY DEF ContextInv, HistoryInv
<1>2. QED BY <1>1, ContextInvariance, PTL

(* CRLs and trusted CAs of calls that returned true, and CAs once put into *)
(* the list for clients, stay in force, and CRL checks are on exactly if   *)
(* one call of setCARevocation succeeded.                                  *)
THEOREM LoadedStays == Spec => []PromisesKept
<1>1. ContextInv => PromisesKept BY DEF ContextInv, StoreInv
<1>2. QED BY <1>1, ContextInvariance, PTL
=============================================================================
