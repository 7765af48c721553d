----------------------------- MODULE SSLConfProofs -----------------------------
(***************************************************************************)
(* Proofs about SSLConf for every number of configurations, contexts,      *)
(* commands and calls, every set of numbers and every width of an int.     *)
(*                                                                         *)
(* The properties compare the state with the calls made so far, so the     *)
(* invariant says what each call adds to it: the settings of a             *)
(* configuration are what the checks so far make of them (SettingsInv),    *)
(* and its target is the context of its last assign (TargetInv).  That     *)
(* the last call of a kind exists is part of the invariant (MaxInv), for a *)
(* maximum is defined by a choice.                                         *)
(***************************************************************************)
EXTENDS SSLConf, SequenceTheorems, TLAPS

Record == [op : {"check", "assign", "apply", "free"}, conf : Conf,
           name : Setting \cup Command \cup {"none"}, arg : Argument \cup {NoArg},
           ctx : Ctx \cup {NoTarget}]

(* A call that assigns configuration f, and that checks its setting k with *)
(* an argument the setting can take.                                       *)
AssignOf(r, f) == r.op = "assign" /\ r.conf = f
CheckOf(r, f, k) ==
  /\ r.op = "check" /\ r.conf = f /\ r.name = k
  /\ k \in Flag \/ r.arg.kind # "out_of_range"

(* Call i made c the target of f, and no later one up to call n assigned f. *)
LastAssign(c, f, i, n) ==
  /\ i \in Assigns(c) /\ calls[i].conf = f
  /\ \A m \in (i + 1)..n : ~AssignOf(calls[m], f)

(* Call j applied command k to the context that call i had assigned.       *)
AppliedBy(k, i, j) ==
  /\ calls[j].op = "apply" /\ calls[j].conf = calls[i].conf /\ calls[j].name = k
  /\ \A m \in (i + 1)..(j - 1) : ~AssignOf(calls[m], calls[i].conf)

(* What the calls say is in force; AssignDecides: that it is.              *)
Decided(c, k) ==
  IF Assigns(c) = {} THEN Defaults[k]
  ELSE LET i == Max(Assigns(c)) IN Effective(calls[i].conf, k, i)

(* What call r does to the state.                                          *)
Effect(r) ==
  /\ \A f \in Conf, k \in Setting :
       settings'[f][k] = IF CheckOf(r, f, k) THEN Parsed(k, r.arg, Defaults[k])
                         ELSE settings[f][k]
  /\ \A f \in Conf : target'[f] = IF AssignOf(r, f) THEN r.ctx ELSE target[f]
  /\ \A c \in Ctx : inForce'[c] = IF r.op = "assign" /\ r.ctx = c THEN settings[r.conf]
                                   ELSE inForce[c]
  /\ \A c \in Ctx : applied'[c] = applied[c] \cup
       {k \in Command : r.op = "apply" /\ r.name = k /\ target[r.conf] = c}

HasMax(S) == S # {} => \E x \in S : \A y \in S : x >= y

ConfTypes ==
  /\ conf \in [Conf -> {"unused", "made", "freed"}]
  /\ settings \in [Conf -> [Setting -> IntRange]]
  /\ target \in [Conf -> Ctx \cup {NoTarget}]
  /\ inForce \in [Ctx -> [Setting -> IntRange]]
  /\ applied \in [Ctx -> SUBSET Command]
  /\ calls \in Seq(Record) /\ Len(calls) <= MaxCalls

MaxInv ==
  /\ \A c \in Ctx : HasMax(Assigns(c))
  /\ \A f \in Conf, k \in Setting, i \in 1..(Len(calls) + 1) : HasMax(Checks(f, k, i))

SettingsInv ==
  \A f \in Conf, k \in Setting : settings[f][k] = Effective(f, k, Len(calls) + 1)

TargetInv ==
  \A f \in Conf, c \in Ctx :
    target[f] = c <=> \E i \in 1..Len(calls) : LastAssign(c, f, i, Len(calls))

ConfInv ==
  /\ ConfTypes /\ MaxInv /\ SettingsInv /\ TargetInv
  /\ AssignDecides /\ AppliedToAssigned

-----------------------------------------------------------------------------
(* Numbers                                                                 *)

LEMMA WrapType ==
  ASSUME SSLConfAssumption, NEW n \in Int
  PROVE  Wrap(n) \in IntRange /\ Wrap(n) \in Int
<1>1. Half \in Nat /\ 2 * Half \in Nat /\ 2 * Half > 0 BY DEF SSLConfAssumption
<1>2. (n + Half) % (2 * Half) \in 0..(2 * Half - 1) BY <1>1
<1>3. QED BY <1>1, <1>2 DEF Wrap, IntRange

LEMMA ParsedType ==
  ASSUME SSLConfAssumption, NEW k \in Setting, NEW v \in Argument, NEW old \in IntRange
  PROVE  Parsed(k, v, old) \in IntRange
<1>1. v.number \in Int
  <2>1. v.number \in {0} \cup Number BY DEF Argument
  <2>2. \A x \in Number : x \in Int BY DEF SSLConfAssumption
  <2>3. CASE v.number = 0 BY <2>3
  <2>4. CASE v.number \in Number BY <2>2, <2>4
  <2>5. QED BY <2>1, <2>3, <2>4
<1>2. Wrap(v.number) \in IntRange /\ Wrap(v.number) \in Int BY <1>1, WrapType
<1>3. Wrap(v.number) * Factor \in Int BY <1>2 DEF SSLConfAssumption
<1>4. Wrap(Wrap(v.number) * Factor) \in IntRange BY <1>3, WrapType
<1>5. 0 \in IntRange /\ 1 \in IntRange BY DEF IntRange, SSLConfAssumption
<1>6. QED BY <1>2, <1>4, <1>5 DEF Parsed

(* A setting that takes the argument forgets its old value; another keeps  *)
(* it.                                                                     *)
LEMMA ParsedUsable ==
  ASSUME NEW k, NEW v, NEW old, NEW other
  PROVE  /\ k \in Flag \/ v.kind # "out_of_range" => Parsed(k, v, old) = Parsed(k, v, other)
         /\ ~(k \in Flag \/ v.kind # "out_of_range") => Parsed(k, v, old) = old
BY DEF Parsed

LEMMA DefaultsType ==
  ASSUME SSLConfAssumption
  PROVE  Defaults \in [Setting -> IntRange]
<1>1. 0 \in IntRange /\ 1 \in IntRange /\ Default \in IntRange BY DEF IntRange, SSLConfAssumption
<1>2. QED BY <1>1 DEF Defaults

LEMMA MaxIsMember ==
  ASSUME NEW S, S # {}, HasMax(S)
  PROVE  Max(S) \in S /\ \A y \in S : Max(S) >= y
<1>1. \E x \in S : \A y \in S : x >= y BY DEF HasMax
<1>2. QED BY <1>1 DEF Max

LEMMA MaxIs ==
  ASSUME NEW S \in SUBSET Int, NEW x \in S, \A y \in S : x >= y
  PROVE  Max(S) = x /\ HasMax(S)
<1>1. HasMax(S) BY DEF HasMax
<1>2. Max(S) \in S /\ Max(S) >= x BY <1>1, MaxIsMember
<1>3. Max(S) \in Int /\ x \in Int /\ x >= Max(S) BY <1>2, Zenon
<1>4. Max(S) = x BY <1>2, <1>3
<1>5. QED BY <1>1, <1>4

-----------------------------------------------------------------------------
(* One more call                                                           *)

LEMMA OneMore ==
  ASSUME ConfTypes, NEW r \in Record, calls' = Append(calls, r)
  PROVE  /\ Len(calls) \in Nat /\ calls' \in Seq(Record) /\ Len(calls') = Len(calls) + 1
         /\ \A i \in 1..Len(calls) : calls'[i] = calls[i] /\ calls[i] \in Record
         /\ calls'[Len(calls) + 1] = r
         /\ DOMAIN calls = 1..Len(calls) /\ DOMAIN calls' = 1..(Len(calls) + 1)
BY AppendProperties, LenProperties, ElementOfSeq DEF ConfTypes

LEMMA AssignsMore ==
  ASSUME ConfTypes, NEW r \in Record, calls' = Append(calls, r), NEW c \in Ctx
  PROVE  /\ Assigns(c) \subseteq 1..Len(calls)
         /\ r.op = "assign" /\ r.ctx = c => Assigns(c)' = Assigns(c) \cup {Len(calls) + 1}
         /\ ~(r.op = "assign" /\ r.ctx = c) => Assigns(c)' = Assigns(c)
<1> DEFINE n == Len(calls)
<1>1. /\ n \in Nat /\ DOMAIN calls = 1..n /\ DOMAIN calls' = 1..(n + 1)
      /\ \A i \in 1..n : calls'[i] = calls[i]
      /\ calls'[n + 1] = r
  BY OneMore
<1> HIDE DEF n
<1>2. \A i : i \in 1..(n + 1) <=> i \in 1..n \/ i = n + 1 BY <1>1
<1>3. QED BY <1>1, <1>2 DEF Assigns, n

LEMMA ChecksMore ==
  ASSUME ConfTypes, NEW r \in Record, calls' = Append(calls, r), NEW f \in Conf, NEW k \in Setting,
         NEW CONSTANT n \in Nat, n = Len(calls)
  PROVE  /\ \A i \in 1..(n + 1) :
              Checks(f, k, i)' = Checks(f, k, i) /\ Checks(f, k, i) \subseteq 1..(i - 1)
         /\ CheckOf(r, f, k) => Checks(f, k, n + 2)' = Checks(f, k, n + 1) \cup {n + 1}
         /\ ~CheckOf(r, f, k) => Checks(f, k, n + 2)' = Checks(f, k, n + 1)
<1>1. /\ \A i \in 1..n : calls'[i] = calls[i]
      /\ calls'[n + 1] = r
  BY OneMore
<1>2. ASSUME NEW i \in 1..(n + 1)
      PROVE  Checks(f, k, i)' = Checks(f, k, i) /\ Checks(f, k, i) \subseteq 1..(i - 1)
  <2>1. \A j \in 1..(i - 1) : j \in 1..n BY <1>1
  <2>2. QED BY <1>1, <2>1 DEF Checks
<1>3. /\ (n + 1) - 1 = n /\ (n + 2) - 1 = n + 1
      /\ \A i : i \in 1..(n + 1) <=> i \in 1..n \/ i = n + 1
  BY <1>1
<1>4. \A j : j \in Checks(f, k, n + 1) <=> j \in 1..n /\ CheckOf(calls[j], f, k)
  BY <1>3 DEF Checks, CheckOf
<1>5. \A j : j \in Checks(f, k, n + 2)' <=> j \in 1..(n + 1) /\ CheckOf(calls'[j], f, k)
  BY <1>3 DEF Checks, CheckOf
<1>6. \A j : j \in Checks(f, k, n + 2)' <=>
             j \in Checks(f, k, n + 1) \/ (j = n + 1 /\ CheckOf(r, f, k))
  BY <1>1, <1>3, <1>4, <1>5
<1>7. CheckOf(r, f, k) => Checks(f, k, n + 2)' = Checks(f, k, n + 1) \cup {n + 1}
  BY <1>6
<1>8. ~CheckOf(r, f, k) => Checks(f, k, n + 2)' = Checks(f, k, n + 1)
  BY <1>6
<1>9. QED BY <1>2, <1>7, <1>8

(* A set of earlier positions with this call added has this call as its    *)
(* maximum.                                                                *)
LEMMA MaxMore ==
  ASSUME NEW n \in Nat, NEW S \in SUBSET (1..n)
  PROVE  Max(S \cup {n + 1}) = n + 1 /\ HasMax(S \cup {n + 1})
<1>1. S \cup {n + 1} \in SUBSET Int /\ n + 1 \in S \cup {n + 1} OBVIOUS
<1>2. \A y \in S \cup {n + 1} : n + 1 >= y OBVIOUS
<1>3. QED BY <1>1, <1>2, MaxIs

LEMMA MaxInvMore ==
  ASSUME ConfTypes, MaxInv, NEW r \in Record, calls' = Append(calls, r)
  PROVE  MaxInv'
<1>0. PICK n \in Nat : n = Len(calls) BY OneMore
<1>1. ASSUME NEW c \in Ctx PROVE HasMax(Assigns(c)')
  <2>1. Assigns(c) \in SUBSET (1..n) /\ HasMax(Assigns(c)) BY <1>0, AssignsMore DEF MaxInv
  <2>2. Assigns(c)' \in {Assigns(c), Assigns(c) \cup {n + 1}} BY <1>0, AssignsMore
  <2>3. QED BY <2>1, <2>2, MaxMore
<1>2. ASSUME NEW f \in Conf, NEW k \in Setting, NEW i \in 1..(n + 2) PROVE HasMax(Checks(f, k, i)')
  <2>1. CASE i \in 1..(n + 1)
    <3>1. Checks(f, k, i)' = Checks(f, k, i) BY <1>0, <2>1, ChecksMore
    <3>2. HasMax(Checks(f, k, i)) BY <1>0, <2>1 DEF MaxInv
    <3>3. QED BY <3>1, <3>2
  <2>2. CASE i = n + 2
    <3>1. n + 1 \in 1..(n + 1) /\ (n + 1) - 1 = n OBVIOUS
    <3>2. Checks(f, k, n + 1) \in SUBSET (1..n) BY <1>0, <3>1, ChecksMore
    <3>3. HasMax(Checks(f, k, n + 1)) BY <1>0, <3>1 DEF MaxInv
    <3>4. Checks(f, k, n + 2)' \in {Checks(f, k, n + 1), Checks(f, k, n + 1) \cup {n + 1}}
      BY <1>0, ChecksMore
    <3>5. HasMax(Checks(f, k, n + 2)') BY <3>2, <3>3, <3>4, MaxMore
    <3>6. QED BY <2>2, <3>5
  <2>3. QED BY <2>1, <2>2
<1>3. (Len(calls) + 1)' = n + 2 BY <1>0, OneMore
<1>4. QED BY <1>1, <1>2, <1>3 DEF MaxInv, HasMax

(* What the checks make of a setting changes only with a check of it.      *)
LEMMA EffectiveMore ==
  ASSUME ConfTypes, MaxInv, NEW r \in Record, calls' = Append(calls, r),
         NEW f \in Conf, NEW k \in Setting, NEW CONSTANT n \in Nat, n = Len(calls)
  PROVE  /\ \A i \in 1..(n + 1) : Effective(f, k, i)' = Effective(f, k, i)
         /\ CheckOf(r, f, k) => Effective(f, k, n + 2)' = Parsed(k, r.arg, Defaults[k])
         /\ ~CheckOf(r, f, k) => Effective(f, k, n + 2)' = Effective(f, k, n + 1)
<1>1. /\ \A i \in 1..n : calls'[i] = calls[i]
      /\ calls'[n + 1] = r
  BY OneMore
<1>2. ASSUME NEW i \in 1..(n + 1), Checks(f, k, i) # {}
      PROVE  Max(Checks(f, k, i)) \in 1..n
  <2>1. HasMax(Checks(f, k, i)) BY DEF MaxInv
  <2>2. Max(Checks(f, k, i)) \in Checks(f, k, i) BY <1>2, <2>1, MaxIsMember
  <2>3. Checks(f, k, i) \subseteq 1..(i - 1) BY ChecksMore
  <2>4. \A j \in 1..(i - 1) : j \in 1..n OBVIOUS
  <2>5. QED BY <2>2, <2>3, <2>4
<1>3. ASSUME NEW i \in 1..(n + 1) PROVE Effective(f, k, i)' = Effective(f, k, i)
  <2>1. Checks(f, k, i)' = Checks(f, k, i) BY ChecksMore
  <2>2. CASE Checks(f, k, i) = {} BY <2>1, <2>2 DEF Effective
  <2>3. CASE Checks(f, k, i) # {}
    <3>1. calls'[Max(Checks(f, k, i))] = calls[Max(Checks(f, k, i))] BY <1>1, <1>2, <2>3
    <3>2. QED BY <2>1, <2>3, <3>1 DEF Effective
  <2>4. QED BY <2>2, <2>3
<1>4. ASSUME CheckOf(r, f, k)
      PROVE  Effective(f, k, n + 2)' = Parsed(k, r.arg, Defaults[k])
  <2>1. Checks(f, k, n + 2)' = Checks(f, k, n + 1) \cup {n + 1} BY <1>4, ChecksMore
  <2>2. n + 1 \in 1..(n + 1) /\ (n + 1) - 1 = n OBVIOUS
  <2>3. Checks(f, k, n + 1) \in SUBSET (1..n) BY <2>2, ChecksMore
  <2>4. Max(Checks(f, k, n + 1) \cup {n + 1}) = n + 1 BY <2>3, MaxMore
  <2>5. QED BY <1>1, <2>1, <2>4 DEF Effective
<1>5. ASSUME ~CheckOf(r, f, k)
      PROVE  Effective(f, k, n + 2)' = Effective(f, k, n + 1)
  <2>1. Checks(f, k, n + 2)' = Checks(f, k, n + 1) BY <1>5, ChecksMore
  <2>2. n + 1 \in 1..(n + 1) OBVIOUS
  <2>3. CASE Checks(f, k, n + 1) = {} BY <2>1, <2>3 DEF Effective
  <2>4. CASE Checks(f, k, n + 1) # {}
    <3>1. calls'[Max(Checks(f, k, n + 1))] = calls[Max(Checks(f, k, n + 1))]
      BY <1>1, <1>2, <2>2, <2>4
    <3>2. QED BY <2>1, <2>4, <3>1 DEF Effective
  <2>5. QED BY <2>3, <2>4
<1>6. QED BY <1>3, <1>4, <1>5

(* The last assign of f stays its last one until f is assigned again.      *)
LEMMA LastAssignMore ==
  ASSUME ConfTypes, NEW r \in Record, calls' = Append(calls, r),
         NEW f \in Conf, NEW c \in Ctx, NEW CONSTANT n \in Nat, n = Len(calls)
  PROVE  /\ AssignOf(r, f) => \A i \in 1..(n + 1) :
              LastAssign(c, f, i, n + 1)' <=> i = n + 1 /\ r.ctx = c
         /\ ~AssignOf(r, f) => \A i \in 1..(n + 1) :
              LastAssign(c, f, i, n + 1)' <=> i \in 1..n /\ LastAssign(c, f, i, n)
<1>1. /\ \A i \in 1..n : calls'[i] = calls[i]
      /\ calls'[n + 1] = r
      /\ DOMAIN calls = 1..n /\ DOMAIN calls' = 1..(n + 1)
  BY OneMore
<1>2. ASSUME AssignOf(r, f), NEW i \in 1..(n + 1)
      PROVE  LastAssign(c, f, i, n + 1)' <=> i = n + 1 /\ r.ctx = c
  <2>1. CASE i = n + 1
    <3>1. \A m \in (i + 1)..(n + 1) : FALSE BY <2>1
    <3>2. QED BY <1>1, <1>2, <2>1, <3>1 DEF LastAssign, Assigns, AssignOf
  <2>2. CASE i # n + 1
    <3>1. n + 1 \in (i + 1)..(n + 1) BY <2>2
    <3>2. QED BY <1>1, <1>2, <2>2, <3>1 DEF LastAssign, AssignOf
  <2>3. QED BY <2>1, <2>2
<1>3. ASSUME ~AssignOf(r, f), NEW i \in 1..(n + 1)
      PROVE  LastAssign(c, f, i, n + 1)' <=> i \in 1..n /\ LastAssign(c, f, i, n)
  <2>1. CASE i = n + 1
    BY <1>1, <1>3, <2>1 DEF LastAssign, Assigns, AssignOf
  <2>2. CASE i \in 1..n
    <3>1. i \in Assigns(c)' <=> i \in Assigns(c) BY <1>1, <2>2 DEF Assigns
    <3>2. \A m : m \in (i + 1)..(n + 1) <=> m \in (i + 1)..n \/ m = n + 1 BY <2>2
    <3>3. \A m \in (i + 1)..n : m \in 1..n BY <2>2
    <3>4. (\A m \in (i + 1)..(n + 1) : ~AssignOf(calls'[m], f))
            <=> (\A m \in (i + 1)..n : ~AssignOf(calls[m], f))
      BY <1>1, <1>3, <3>2, <3>3
    <3>5. calls'[i].conf = calls[i].conf BY <1>1, <2>2
    <3>6. QED BY <2>2, <3>1, <3>4, <3>5 DEF LastAssign
  <2>3. QED BY <2>1, <2>2
<1>4. QED BY <1>2, <1>3

(* The commands of a context grow by those that are applied through a      *)
(* configuration whose last assign named it.                               *)
LEMMA AppliedMore ==
  ASSUME ConfTypes, NEW r \in Record, calls' = Append(calls, r),
         NEW c \in Ctx, NEW k \in Command, NEW CONSTANT n \in Nat, n = Len(calls)
  PROVE  (\E i \in Assigns(c)' : \E j \in (i + 1)..(n + 1) : AppliedBy(k, i, j)')
           <=> \/ \E i \in Assigns(c) : \E j \in (i + 1)..n : AppliedBy(k, i, j)
               \/ /\ r.op = "apply" /\ r.name = k
                  /\ \E i \in 1..n : LastAssign(c, r.conf, i, n)
<1>1. /\ \A i \in 1..n : calls'[i] = calls[i]
      /\ calls'[n + 1] = r
  BY OneMore
<1>2. Assigns(c) \subseteq 1..n /\ \A i \in 1..n : i \in Assigns(c)' <=> i \in Assigns(c)
  <2>1. Assigns(c) \subseteq 1..n BY AssignsMore
  <2>2. n + 1 \notin 1..n OBVIOUS
  <2>3. Assigns(c)' \in {Assigns(c), Assigns(c) \cup {n + 1}} BY AssignsMore
  <2>4. QED BY <2>1, <2>2, <2>3
<1>3. \A i \in Assigns(c)' : i \in 1..n \/ i = n + 1 BY <1>2, AssignsMore
<1>4. ASSUME NEW i \in 1..n, NEW j \in (i + 1)..n
      PROVE  AppliedBy(k, i, j)' <=> AppliedBy(k, i, j)
  <2>1. j \in 1..n /\ \A m \in (i + 1)..(j - 1) : m \in 1..n OBVIOUS
  <2>2. QED BY <1>1, <2>1 DEF AppliedBy
<1>5. ASSUME NEW i \in 1..n
      PROVE  i \in Assigns(c)' /\ AppliedBy(k, i, n + 1)'
               <=> r.op = "apply" /\ r.name = k /\ LastAssign(c, r.conf, i, n)
  <2>1. (n + 1) - 1 = n /\ \A m \in (i + 1)..n : m \in 1..n OBVIOUS
  <2>2. AppliedBy(k, i, n + 1)' <=> /\ r.op = "apply" /\ r.conf = calls[i].conf /\ r.name = k
                                    /\ \A m \in (i + 1)..n : ~AssignOf(calls[m], calls[i].conf)
    BY <1>1, <2>1 DEF AppliedBy
  <2>3. QED BY <1>2, <2>2 DEF LastAssign
<1>6. ASSUME NEW i \in Assigns(c)', NEW j \in (i + 1)..(n + 1), AppliedBy(k, i, j)'
      PROVE  \/ \E x \in Assigns(c) : \E y \in (x + 1)..n : AppliedBy(k, x, y)
             \/ /\ r.op = "apply" /\ r.name = k
                /\ \E x \in 1..n : LastAssign(c, r.conf, x, n)
  <2>1. i \in 1..n BY <1>3
  <2>2. CASE j = n + 1 BY <1>5, <1>6, <2>1, <2>2
  <2>3. CASE j \in (i + 1)..n BY <1>2, <1>4, <1>6, <2>1, <2>3
  <2>4. QED BY <2>1, <2>2, <2>3
<1>7. ASSUME NEW i \in Assigns(c), NEW j \in (i + 1)..n, AppliedBy(k, i, j)
      PROVE  \E x \in Assigns(c)' : \E y \in (x + 1)..(n + 1) : AppliedBy(k, x, y)'
  <2>1. i \in 1..n /\ i \in Assigns(c)' BY <1>2
  <2>2. j \in (i + 1)..(n + 1) BY <2>1
  <2>3. QED BY <1>4, <1>7, <2>1, <2>2
<1>8. ASSUME r.op = "apply", r.name = k, NEW i \in 1..n, LastAssign(c, r.conf, i, n)
      PROVE  \E x \in Assigns(c)' : \E y \in (x + 1)..(n + 1) : AppliedBy(k, x, y)'
  <2>1. n + 1 \in (i + 1)..(n + 1) OBVIOUS
  <2>2. QED BY <1>5, <1>8, <2>1
<1>9. QED BY <1>6, <1>7, <1>8

(* AppliedToAssigned, in terms of AppliedBy.                               *)
LEMMA AppliedIs ==
  ASSUME AppliedToAssigned, NEW c \in Ctx
  PROVE  applied[c] = {k \in Command :
           \E i \in Assigns(c) : \E j \in (i + 1)..Len(calls) : AppliedBy(k, i, j)}
BY DEF AppliedToAssigned, AppliedBy, AssignOf

-----------------------------------------------------------------------------
(* The invariant                                                           *)

LEMMA InitConf ==
  ASSUME SSLConfAssumption, Init
  PROVE  ConfInv
<1>1. Len(calls) = 0 /\ DOMAIN calls = {} /\ calls \in Seq(Record) BY DEF Init
<1>2. ConfTypes BY <1>1, DefaultsType DEF Init, ConfTypes, SSLConfAssumption
<1>3. \A c \in Ctx : Assigns(c) = {} BY <1>1 DEF Assigns
<1>4. \A f \in Conf, k \in Setting, i \in 1..1 : Checks(f, k, i) = {}
  <2>1. \A i \in 1..1 : 1..(i - 1) = {} OBVIOUS
  <2>2. QED BY <2>1 DEF Checks
<1>5. Len(calls) + 1 = 1 /\ 1 \in 1..1 BY <1>1
<1>6. MaxInv BY <1>3, <1>4, <1>5 DEF MaxInv, HasMax
<1>7. SettingsInv BY <1>4, <1>5 DEF SettingsInv, Effective, Init
<1>8. TargetInv BY <1>1 DEF TargetInv, Init, SSLConfAssumption
<1>9. AssignDecides BY <1>3 DEF AssignDecides, Init
<1>10. AppliedToAssigned BY <1>3 DEF AppliedToAssigned, Init
<1>11. QED BY <1>2, <1>6, <1>7, <1>8, <1>9, <1>10 DEF ConfInv

LEMMA DecidedMore ==
  ASSUME ConfTypes, MaxInv, NEW r \in Record, calls' = Append(calls, r),
         NEW c \in Ctx, NEW k \in Setting
  PROVE  Decided(c, k)' = IF r.op = "assign" /\ r.ctx = c
                          THEN Effective(r.conf, k, Len(calls) + 1) ELSE Decided(c, k)
<1>0. PICK n \in Nat : n = Len(calls) BY OneMore
<1>1. /\ \A i \in 1..n : calls'[i] = calls[i] /\ calls[i] \in Record
      /\ calls'[n + 1] = r /\ r.conf \in Conf
  BY <1>0, OneMore DEF Record
<1>2. Assigns(c) \in SUBSET (1..n) BY <1>0, AssignsMore
<1>3. CASE r.op = "assign" /\ r.ctx = c
  <2>1. Assigns(c)' = Assigns(c) \cup {n + 1} BY <1>0, <1>3, AssignsMore
  <2>2. Max(Assigns(c))' = n + 1 BY <1>2, <2>1, MaxMore
  <2>3. Decided(c, k)' = Effective(r.conf, k, n + 1)'
    BY <1>1, <2>1, <2>2 DEF Decided
  <2>4. n + 1 \in 1..(n + 1) OBVIOUS
  <2>5. Effective(r.conf, k, n + 1)' = Effective(r.conf, k, n + 1)
    BY <1>0, <1>1, <2>4, EffectiveMore
  <2>6. QED BY <1>0, <1>3, <2>3, <2>5
<1>4. CASE ~(r.op = "assign" /\ r.ctx = c)
  <2>1. Assigns(c)' = Assigns(c) BY <1>4, AssignsMore
  <2>2. CASE Assigns(c) = {} BY <1>4, <2>1, <2>2 DEF Decided
  <2>3. CASE Assigns(c) # {}
    <3>1. PICK i : i = Max(Assigns(c)) OBVIOUS
    <3>2. HasMax(Assigns(c)) BY DEF MaxInv
    <3>3. i \in 1..n BY <1>2, <2>3, <3>1, <3>2, MaxIsMember
    <3>4. /\ calls'[i] = calls[i] /\ calls[i].conf \in Conf
          /\ i \in 1..(n + 1)
      <4>1. calls'[i] = calls[i] /\ calls[i] \in Record BY <1>1, <3>3, Zenon
      <4>2. calls[i].conf \in Conf BY <4>1 DEF Record
      <4>3. i \in 1..(n + 1) BY <3>3
      <4>4. QED BY <4>1, <4>2, <4>3
    <3>5. Effective(calls[i].conf, k, i)' = Effective(calls[i].conf, k, i)
      BY <1>0, <3>4, EffectiveMore
    <3>6. QED BY <1>4, <2>1, <2>3, <3>1, <3>4, <3>5 DEF Decided
  <2>4. QED BY <2>2, <2>3
<1>5. QED BY <1>3, <1>4

(* A call that has its effect and is recorded keeps the invariant.         *)
LEMMA CallKeeps ==
  ASSUME ConfInv, ConfTypes', NEW r \in Record, calls' = Append(calls, r), Effect(r)
  PROVE  ConfInv'
<1>0. PICK n \in Nat : n = Len(calls) BY OneMore DEF ConfInv
<1>1. ConfTypes /\ MaxInv BY DEF ConfInv
<1>2. Len(calls') = n + 1 /\ Len(calls') + 1 = n + 2 /\ r.conf \in Conf
  BY <1>0, <1>1, OneMore DEF Record
<1>3. MaxInv' BY <1>1, MaxInvMore
<1>4. SettingsInv'
  <2>1. ASSUME NEW f \in Conf, NEW k \in Setting
        PROVE  settings'[f][k] = Effective(f, k, n + 2)'
    <3>1. settings[f][k] = Effective(f, k, n + 1) BY <1>0 DEF ConfInv, SettingsInv
    <3>2. CASE CheckOf(r, f, k) BY <1>0, <1>1, <3>2, EffectiveMore DEF Effect
    <3>3. CASE ~CheckOf(r, f, k) BY <1>0, <1>1, <3>1, <3>3, EffectiveMore DEF Effect
    <3>4. QED BY <3>2, <3>3
  <2>2. QED BY <1>2, <2>1 DEF SettingsInv
<1>5. TargetInv'
  <2>1. ASSUME NEW f \in Conf, NEW c \in Ctx
        PROVE  target'[f] = c <=> \E i \in 1..(n + 1) : LastAssign(c, f, i, n + 1)'
    <3>1. target[f] = c <=> \E i \in 1..n : LastAssign(c, f, i, n)
      BY <1>0 DEF ConfInv, TargetInv
    <3>2. n + 1 \in 1..(n + 1) /\ \A i \in 1..n : i \in 1..(n + 1) OBVIOUS
    <3>3. CASE AssignOf(r, f) BY <1>0, <1>1, <3>2, <3>3, LastAssignMore DEF Effect
    <3>4. CASE ~AssignOf(r, f)
      BY <1>0, <1>1, <3>1, <3>2, <3>4, LastAssignMore DEF Effect
    <3>5. QED BY <3>3, <3>4
  <2>2. QED BY <1>2, <2>1 DEF TargetInv
<1>6. AssignDecides'
  <2>1. ASSUME NEW c \in Ctx, NEW k \in Setting PROVE inForce'[c][k] = Decided(c, k)'
    <3>1. inForce[c][k] = Decided(c, k) BY DEF ConfInv, AssignDecides, Decided
    <3>2. settings[r.conf][k] = Effective(r.conf, k, Len(calls) + 1)
      BY <1>2 DEF ConfInv, SettingsInv
    <3>3. CASE r.op = "assign" /\ r.ctx = c
      BY <1>1, <3>2, <3>3, DecidedMore DEF Effect
    <3>4. CASE ~(r.op = "assign" /\ r.ctx = c)
      BY <1>1, <3>1, <3>4, DecidedMore DEF Effect
    <3>5. QED BY <3>3, <3>4
  <2>2. QED BY <2>1 DEF AssignDecides, Decided
<1>7. AppliedToAssigned'
  <2>1. ASSUME NEW c \in Ctx, NEW k \in Command
        PROVE  k \in applied'[c]
                 <=> \E i \in Assigns(c)' : \E j \in (i + 1)..(n + 1) : AppliedBy(k, i, j)'
    <3>1. k \in applied[c]
            <=> \E i \in Assigns(c) : \E j \in (i + 1)..n : AppliedBy(k, i, j)
      BY <1>0, AppliedIs DEF ConfInv
    <3>2. target[r.conf] = c <=> \E i \in 1..n : LastAssign(c, r.conf, i, n)
      BY <1>0, <1>2 DEF ConfInv, TargetInv
    <3>3. k \in applied'[c] <=>
            k \in applied[c] \/ (r.op = "apply" /\ r.name = k /\ target[r.conf] = c)
      BY DEF Effect
    <3>4. QED BY <1>0, <1>1, <3>1, <3>2, <3>3, AppliedMore
  <2>2. \A c \in Ctx : applied'[c] \subseteq Command BY DEF ConfTypes
  <2>3. ASSUME NEW c \in Ctx
        PROVE  applied'[c] = {k \in Command : \E i \in Assigns(c)' :
                                \E j \in (i + 1)..Len(calls') : AppliedBy(k, i, j)'}
    BY <1>2, <2>1, <2>2
  <2>4. QED BY <2>3, Zenon DEF AppliedToAssigned, AppliedBy, AssignOf
<1>8. QED BY <1>3, <1>4, <1>5, <1>6, <1>7 DEF ConfInv

(* Without a new call only the state of a configuration may change.        *)
LEMMA NoCallKeeps ==
  ASSUME ConfInv, ConfTypes', UNCHANGED <<settings, target, inForce, applied, calls>>
  PROVE  ConfInv'
<1>1. \A c : Assigns(c)' = Assigns(c) BY DEF Assigns
<1>2. \A f, k, i : Checks(f, k, i)' = Checks(f, k, i) BY DEF Checks
<1>3. \A f, k, i : Effective(f, k, i)' = Effective(f, k, i) BY <1>2 DEF Effective
<1>4. \A c, k : Decided(c, k)' = Decided(c, k)
  <2>1. TAKE c, k
  <2>2. Max(Assigns(c))' = Max(Assigns(c)) BY <1>1
  <2>3. QED BY <1>1, <1>3, <2>2 DEF Decided
<1>5. MaxInv'
  <2>1. \A c \in Ctx : HasMax(Assigns(c)') BY <1>1 DEF ConfInv, MaxInv
  <2>2. \A f \in Conf, k \in Setting, i \in 1..(Len(calls') + 1) : HasMax(Checks(f, k, i)')
    BY <1>2 DEF ConfInv, MaxInv
  <2>3. QED BY <2>1, <2>2 DEF MaxInv, HasMax
<1>6. SettingsInv' BY <1>3 DEF ConfInv, SettingsInv
<1>7. TargetInv' BY <1>1 DEF ConfInv, TargetInv, LastAssign
<1>8. AssignDecides'
  <2>1. \A c \in Ctx, k \in Setting : inForce[c][k] = Decided(c, k)
    BY DEF ConfInv, AssignDecides, Decided
  <2>2. \A c \in Ctx, k \in Setting : inForce'[c][k] = Decided(c, k)' BY <1>4, <2>1
  <2>3. QED BY <2>2 DEF AssignDecides, Decided
<1>9. AppliedToAssigned' BY <1>1 DEF ConfInv, AppliedToAssigned
<1>10. QED BY <1>5, <1>6, <1>7, <1>8, <1>9 DEF ConfInv

LEMMA MakeKeeps ==
  ASSUME ConfInv, NEW f \in Conf, Make(f)
  PROVE  ConfInv'
<1>1. ConfTypes' BY DEF ConfInv, ConfTypes, Make
<1>2. QED BY <1>1, NoCallKeeps DEF Make

LEMMA CheckKeeps ==
  ASSUME SSLConfAssumption, ConfInv,
         NEW f \in Conf, NEW k \in Checked, NEW v \in Argument, Check(f, k, v)
  PROVE  ConfInv'
<1> DEFINE r == [op |-> "check", conf |-> f, name |-> k, arg |-> v, ctx |-> NoTarget]
<1>1. k \in Setting /\ ConfTypes BY DEF SSLConfAssumption, ConfInv
<1>2. r \in Record BY <1>1 DEF Record
<1>3. calls' = Append(calls, r) /\ Len(calls) < MaxCalls BY DEF Check, Call
<1>4. /\ r.op = "check" /\ r.conf = f /\ r.name = k /\ r.arg = v OBVIOUS
<1> HIDE DEF r
<1>5. Parsed(k, v, settings[f][k]) \in IntRange BY <1>1, ParsedType DEF ConfTypes
<1>6. settings' = [settings EXCEPT ![f] =
                     [settings[f] EXCEPT ![k] = Parsed(k, v, settings[f][k])]]
  BY <1>1 DEF Check, ConfTypes
<1>7. ConfTypes'
  <2>1. settings' \in [Conf -> [Setting -> IntRange]] BY <1>1, <1>5, <1>6 DEF ConfTypes
  <2>2. calls' \in Seq(Record) /\ Len(calls') <= MaxCalls
    BY <1>1, <1>2, <1>3, OneMore DEF SSLConfAssumption
  <2>3. QED BY <1>1, <2>1, <2>2 DEF ConfTypes, Check
<1>8. Effect(r)
  <2>1. ASSUME NEW g \in Conf, NEW s \in Setting
        PROVE  settings'[g][s] = IF CheckOf(r, g, s) THEN Parsed(s, r.arg, Defaults[s])
                                 ELSE settings[g][s]
    <3>1. CASE g = f /\ s = k
      <4>1. settings'[g][s] = Parsed(k, v, settings[f][k]) BY <1>1, <1>6, <3>1 DEF ConfTypes
      <4>2. CheckOf(r, g, s) <=> k \in Flag \/ v.kind # "out_of_range" BY <1>4, <3>1 DEF CheckOf
      <4>3. QED BY <1>4, <3>1, <4>1, <4>2, ParsedUsable
    <3>2. CASE ~(g = f /\ s = k)
      <4>1. settings'[g][s] = settings[g][s] BY <1>1, <1>6, <3>2 DEF ConfTypes
      <4>2. ~CheckOf(r, g, s) BY <1>4, <3>2 DEF CheckOf
      <4>3. QED BY <4>1, <4>2
    <3>3. QED BY <3>1, <3>2
  <2>2. QED BY <1>4, <2>1 DEF Effect, AssignOf, Check
<1>9. QED BY <1>2, <1>3, <1>7, <1>8, CallKeeps

LEMMA AssignKeeps ==
  ASSUME SSLConfAssumption, ConfInv, NEW f \in Conf, NEW c \in Ctx, Assign(f, c)
  PROVE  ConfInv'
<1> DEFINE r == [op |-> "assign", conf |-> f, name |-> "none", arg |-> NoArg, ctx |-> c]
<1>1. ConfTypes BY DEF ConfInv
<1>2. r \in Record BY DEF Record
<1>3. calls' = Append(calls, r) /\ Len(calls) < MaxCalls BY DEF Assign, Call
<1>4. /\ r.op = "assign" /\ r.conf = f /\ r.ctx = c OBVIOUS
<1> HIDE DEF r
<1>5. calls' \in Seq(Record) /\ Len(calls') <= MaxCalls
  BY <1>1, <1>2, <1>3, OneMore DEF SSLConfAssumption
<1>6. ConfTypes' BY <1>1, <1>5 DEF ConfTypes, Assign
<1>7. \A g \in Conf, s \in Setting : ~CheckOf(r, g, s) BY <1>4 DEF CheckOf
<1>8. Effect(r) BY <1>1, <1>4, <1>7 DEF Effect, AssignOf, Assign, ConfTypes
<1>9. QED BY <1>2, <1>3, <1>6, <1>8, CallKeeps

LEMMA ApplyKeeps ==
  ASSUME SSLConfAssumption, ConfInv, NEW f \in Conf,
         NEW k \in Command \cup {"OCSP_TIMEOUT"}, Apply(f, k)
  PROVE  ConfInv'
<1> DEFINE r == [op |-> "apply", conf |-> f, name |-> k, arg |-> NoArg, ctx |-> NoTarget]
<1>1. ConfTypes BY DEF ConfInv
<1>2. r \in Record BY DEF Record, Setting
<1>3. calls' = Append(calls, r) /\ Len(calls) < MaxCalls BY DEF Apply, Call
<1>4. /\ r.op = "apply" /\ r.conf = f /\ r.name = k OBVIOUS
<1> HIDE DEF r
<1>5. calls' \in Seq(Record) /\ Len(calls') <= MaxCalls
  BY <1>1, <1>2, <1>3, OneMore DEF SSLConfAssumption
<1>6. \A s \in Command : s \notin Setting BY DEF SSLConfAssumption
<1>7. ConfTypes' /\ \A c \in Ctx : applied'[c] = applied[c] \cup
                      {s \in Command : s = k /\ target[f] = c}
  <2>1. target[f] \in Ctx \/ target[f] = NoTarget BY <1>1 DEF ConfTypes
  <2>2. CASE k \in Setting \/ target[f] = NoTarget
    <3>1. applied' = applied BY <2>2 DEF Apply
    <3>2. \A c \in Ctx, s \in Command : ~(s = k /\ target[f] = c)
      BY <1>6, <2>2 DEF SSLConfAssumption
    <3>3. ConfTypes' BY <1>1, <1>5, <3>1 DEF ConfTypes, Apply
    <3>4. QED BY <3>1, <3>2, <3>3
  <2>3. CASE k \notin Setting /\ target[f] \in Ctx
    <3>1. k \in Command BY <2>3 DEF Setting
    <3>2. target[f] # NoTarget BY <2>3 DEF SSLConfAssumption
    <3>3. applied' = [applied EXCEPT ![target[f]] = @ \cup {k}] BY <2>3, <3>2 DEF Apply
    <3>4. ConfTypes' BY <1>1, <1>5, <2>3, <3>1, <3>3 DEF ConfTypes, Apply
    <3>5. QED BY <1>1, <3>1, <3>3, <3>4 DEF ConfTypes
  <2>4. QED BY <2>1, <2>2, <2>3
<1>8. \A g \in Conf, s \in Setting : ~CheckOf(r, g, s) BY <1>4 DEF CheckOf
<1>9. Effect(r) BY <1>1, <1>4, <1>7, <1>8 DEF Effect, AssignOf, Apply
<1>10. QED BY <1>2, <1>3, <1>7, <1>9, CallKeeps

LEMMA FreeKeeps ==
  ASSUME SSLConfAssumption, ConfInv, NEW f \in Conf, Free(f)
  PROVE  ConfInv'
<1> DEFINE r == [op |-> "free", conf |-> f, name |-> "none", arg |-> NoArg, ctx |-> NoTarget]
<1>1. ConfTypes BY DEF ConfInv
<1>2. r \in Record BY DEF Record
<1>3. calls' = Append(calls, r) /\ Len(calls) < MaxCalls BY DEF Free, Call
<1>4. r.op = "free" OBVIOUS
<1> HIDE DEF r
<1>5. calls' \in Seq(Record) /\ Len(calls') <= MaxCalls
  BY <1>1, <1>2, <1>3, OneMore DEF SSLConfAssumption
<1>6. ConfTypes' BY <1>1, <1>5 DEF ConfTypes, Free
<1>7. Effect(r) BY <1>4 DEF Effect, CheckOf, AssignOf, Free
<1>8. QED BY <1>2, <1>3, <1>6, <1>7, CallKeeps

LEMMA NextConf ==
  ASSUME SSLConfAssumption, ConfInv, [Next]_vars
  PROVE  ConfInv'
<1>1. CASE UNCHANGED vars
  <2>1. ConfTypes' BY <1>1 DEF vars, ConfInv, ConfTypes
  <2>2. QED BY <1>1, <2>1, NoCallKeeps DEF vars
<1>2. CASE Next
  <2>1. PICK f \in Conf :
          \/ Make(f)
          \/ \E k \in Checked, v \in Argument : Check(f, k, v)
          \/ \E c \in Ctx : Assign(f, c)
          \/ \E k \in Command \cup {"OCSP_TIMEOUT"} : Apply(f, k)
          \/ Free(f)
    BY <1>2 DEF Next
  <2>2. QED BY <2>1, MakeKeeps, CheckKeeps, AssignKeeps, ApplyKeeps, FreeKeeps
<1>3. QED BY <1>1, <1>2

-----------------------------------------------------------------------------
(* ConfInv is inductive: every call of SSLConf adds to the calls exactly    *)
(* what the properties read from them.                                      *)
THEOREM ConfInvariance == Spec => []ConfInv
BY SSLConfAssumption, InitConf, NextConf, PTL DEF Spec

(* The configurations and contexts of sslconf.c keep their types; in        *)
(* particular a setting stays an int, whatever number check is given.       *)
THEOREM ConfTypeCorrect == Spec => []TypeOK
<1>1. ConfInv => TypeOK BY DEF ConfInv, ConfTypes, TypeOK
<1>2. QED BY <1>1, ConfInvariance, PTL

(* What is in force for a context is decided by its last assign and the     *)
(* last usable checks before it (SSLConf.assign copies the settings).       *)
THEOREM AssignsDecide == Spec => []AssignDecides
<1>1. ConfInv => AssignDecides BY DEF ConfInv
<1>2. QED BY <1>1, ConfInvariance, PTL

(* A context has exactly the commands applied while it was the target of    *)
(* the configuration (SSLConf.apply works on what SSLConf.assign set).      *)
THEOREM CommandsFollowAssign == Spec => []AppliedToAssigned
<1>1. ConfInv => AppliedToAssigned BY DEF ConfInv
<1>2. QED BY <1>1, ConfInvariance, PTL
=============================================================================
