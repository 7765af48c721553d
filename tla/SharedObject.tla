----------------------------- MODULE SharedObject -----------------------------
(***************************************************************************)
(* What shared ownership promises, without counters: an object is alive    *)
(* from its creation until the step in which its last holder lets go, and  *)
(* is freed in that very step.  Lifecycle implements this for SSL_CTX.     *)
(***************************************************************************)
CONSTANTS Object, Holder

VARIABLES
  state,    \* "unborn", "alive" or "gone"
  holders   \* who holds the object

vars == <<state, holders>>

Init ==
  /\ state = [o \in Object |-> "unborn"]
  /\ holders = [o \in Object |-> {}]

Create(o, h) ==
  /\ state[o] = "unborn"
  /\ state' = [state EXCEPT ![o] = "alive"]
  /\ holders' = [holders EXCEPT ![o] = {h}]

Acquire(o, h) ==
  /\ state[o] = "alive"
  /\ holders' = [holders EXCEPT ![o] = @ \cup {h}]
  /\ UNCHANGED state

(* The holders R[o] let go of o, for every object at once; an object that *)
(* is left without a holder is freed.                                     *)
Release(R) ==
  /\ holders' = [o \in Object |-> holders[o] \ R[o]]
  /\ state' = [o \in Object |->
                 IF state[o] = "alive" /\ holders[o] \ R[o] = {} THEN "gone" ELSE state[o]]

Next ==
  \/ \E o \in Object, h \in Holder : Create(o, h) \/ Acquire(o, h)
  \/ \E R \in [Object -> SUBSET Holder] : Release(R)

Spec == Init /\ [][Next]_vars
=============================================================================
