-------------------------------- MODULE SSLConf --------------------------------
(***************************************************************************)
(* SSLConf (sslconf.c): the SSL_CONF contexts through which Tomcat         *)
(* configures an SSL context.  check stores the four Tomcat settings in    *)
(* the configuration, assign copies them to the context and makes the      *)
(* context the target of apply, which hands OpenSSL commands on.           *)
(*                                                                         *)
(* An argument is abstracted to what strcasecmp and strtol make of it: the *)
(* word "false", another word, a number, or digits that do not fit a long. *)
(* The least int is -Half.  The calls made so far are kept in `calls',     *)
(* against which the properties compare the state.                         *)
(*                                                                         *)
(* Without effect on this state, and left out: check of an OpenSSL         *)
(* command, which only validates it, an apply that OpenSSL refuses, and    *)
(* finish.  Java does not use a configuration once it is freed.            *)
(***************************************************************************)
EXTENDS Integers, Sequences, FiniteSetsExt

CONSTANTS
  Conf,      \* handles that SSLConf.make can return
  Ctx,       \* contexts
  Checked,   \* Tomcat settings that are given to check
  Command,   \* OpenSSL commands that are given to apply
  Number,    \* numbers given as arguments
  Half,      \* half the number of ints: 2^31 in the code
  Factor,    \* microseconds in a millisecond
  Default,   \* OCSP_TIMEOUT_DEFAULT
  MaxCalls   \* bound: calls on the handles that make returned

Setting == {"NO_OCSP_CHECK", "OCSP_SOFT_FAIL", "OCSP_TIMEOUT", "OCSP_VERIFY_FLAGS"}
Flag == {"NO_OCSP_CHECK", "OCSP_SOFT_FAIL"}
NoTarget == "none"

ASSUME SSLConfAssumption ==
  /\ Checked \subseteq Setting
  /\ Command \cap Setting = {}
  /\ Number \subseteq Int
  /\ Half \in Nat /\ Half > 1
  /\ Factor \in Nat \ {0} /\ Default \in 0..(Half - 1)
  /\ NoTarget \notin Ctx
  /\ MaxCalls \in Nat

Argument == [kind : {"false", "word", "out_of_range"}, number : {0}]
              \cup [kind : {"number"}, number : Number]

VARIABLES
  conf,      \* state of every tcn_ssl_conf_ctxt_t
  settings,  \* its Tomcat settings
  target,    \* the context its SSL_CONF_CTX works on
  inForce,   \* the Tomcat settings of every context
  applied,   \* the OpenSSL commands applied to every context
  calls      \* history: the calls made

vars == <<conf, settings, target, inForce, applied, calls>>

IntRange == (-Half)..(Half - 1)

TypeOK ==
  /\ conf \in [Conf -> {"unused", "made", "freed"}]
  /\ settings \in [Conf -> [Setting -> IntRange]]
  /\ target \in [Conf -> Ctx \cup {NoTarget}]
  /\ inForce \in [Ctx -> [Setting -> IntRange]]
  /\ applied \in [Ctx -> SUBSET Command]
  /\ Len(calls) <= MaxCalls

(* The defaults that SSLConf.make and SSLContext.make both set. *)
Defaults == [k \in Setting |-> IF k \in Flag THEN 1
                               ELSE IF k = "OCSP_TIMEOUT" THEN Default ELSE 0]

Init ==
  /\ conf = [f \in Conf |-> "unused"]
  /\ settings = [f \in Conf |-> Defaults]
  /\ target = [f \in Conf |-> NoTarget]
  /\ inForce = [c \in Ctx |-> Defaults]
  /\ applied = [c \in Ctx |-> {}]
  /\ calls = <<>>

Call(op, f, k, v, c) ==
  /\ Len(calls) < MaxCalls
  /\ calls' = Append(calls, [op |-> op, conf |-> f, name |-> k, arg |-> v, ctx |-> c])

NoArg == [kind |-> "word", number |-> 0]

(* The int that holds a result n.  Signed overflow is undefined in C; the  *)
(* multiplication instructions the compilers use for it keep the low bits. *)
Wrap(n) == ((n + Half) % (2 * Half)) - Half

(* What check makes of argument v for setting k, given the old value: only *)
(* "false" clears a flag; a word counts as the number 0; digits that       *)
(* overflow strtol leave the setting alone.                                *)
Parsed(k, v, old) ==
  IF k \in Flag THEN (IF v.kind = "false" THEN 0 ELSE 1)
  ELSE IF v.kind = "out_of_range" THEN old
  ELSE IF k = "OCSP_TIMEOUT" THEN Wrap(Wrap(v.number) * Factor)
  ELSE Wrap(v.number)

Make(f) ==
  /\ conf[f] = "unused"
  /\ conf' = [conf EXCEPT ![f] = "made"]
  /\ UNCHANGED <<settings, target, inForce, applied, calls>>

Check_NoWidth(f, k, v) ==
  /\ conf[f] = "made"
  /\ settings' = [settings EXCEPT ![f][k] =
                    IF k = "OCSP_TIMEOUT" /\ v.kind # "out_of_range"
                      THEN v.number * Factor ELSE Parsed(k, v, @)]
  /\ Call("check", f, k, v, NoTarget)
  /\ UNCHANGED <<conf, target, inForce, applied>>
Check_WritesThrough(f, k, v) ==
  /\ conf[f] = "made"
  /\ settings' = [settings EXCEPT ![f][k] = Parsed(k, v, @)]
  /\ inForce' = IF target[f] = NoTarget THEN inForce
                ELSE [inForce EXCEPT ![target[f]] = settings'[f]]
  /\ Call("check", f, k, v, NoTarget)
  /\ UNCHANGED <<conf, target, applied>>
Check(f, k, v) ==
  /\ conf[f] = "made"
  /\ settings' = [settings EXCEPT ![f][k] = Parsed(k, v, @)]
  /\ Call("check", f, k, v, NoTarget)
  /\ UNCHANGED <<conf, target, inForce, applied>>

Assign_KeepsTarget(f, c) ==
  /\ conf[f] = "made"
  /\ target' = [target EXCEPT ![f] = IF @ = NoTarget THEN c ELSE @]
  /\ inForce' = [inForce EXCEPT ![c] = settings[f]]
  /\ Call("assign", f, "none", NoArg, c)
  /\ UNCHANGED <<conf, settings, applied>>
Assign(f, c) ==
  /\ conf[f] = "made"
  /\ target' = [target EXCEPT ![f] = c]
  /\ inForce' = [inForce EXCEPT ![c] = settings[f]]
  /\ Call("assign", f, "none", NoArg, c)
  /\ UNCHANGED <<conf, settings, applied>>

(* apply ignores the Tomcat settings; without a context OpenSSL only checks *)
(* the syntax of a command.                                                 *)
Apply(f, k) ==
  /\ conf[f] = "made"
  /\ Call("apply", f, k, NoArg, NoTarget)
  /\ applied' = IF k \in Setting \/ target[f] = NoTarget THEN applied
                ELSE [applied EXCEPT ![target[f]] = @ \cup {k}]
  /\ UNCHANGED <<conf, settings, target, inForce>>

(* SSLConf.free, or the cleanup of the pool. *)
Free(f) ==
  /\ conf[f] = "made"
  /\ conf' = [conf EXCEPT ![f] = "freed"]
  /\ Call("free", f, "none", NoArg, NoTarget)
  /\ UNCHANGED <<settings, target, inForce, applied>>

Next ==
  \E f \in Conf :
    \/ Make(f)
    \/ \E k \in Checked, v \in Argument : Check(f, k, v)
    \/ \E c \in Ctx : Assign(f, c)
    \/ \E k \in Command \cup {"OCSP_TIMEOUT"} : Apply(f, k)
    \/ Free(f)

Spec == Init /\ [][Next]_vars

-----------------------------------------------------------------------------
(* The calls that satisfy a condition, by their position. *)
Assigns(c) == {i \in DOMAIN calls : calls[i].op = "assign" /\ calls[i].ctx = c}

(* The checks of setting k through f before call i whose argument is one  *)
(* the setting can take.                                                  *)
Checks(f, k, i) ==
  {j \in 1..(i - 1) : /\ calls[j].op = "check" /\ calls[j].conf = f /\ calls[j].name = k
                      /\ k \in Flag \/ calls[j].arg.kind # "out_of_range"}

(* What the last of them makes of the setting.                            *)
Effective(f, k, i) ==
  LET J == Checks(f, k, i)
  IN  IF J = {} THEN Defaults[k] ELSE Parsed(k, calls[Max(J)].arg, Defaults[k])

(* "For Tomcat specific settings this call applies previous settings set     *)
(* via calls to check. Further calls to check after a call to this method    *)
(* will have no effect" (SSLConf.java:92): what is in force for a context is *)
(* fixed by its last assign and by the last usable check of each setting,    *)
(* through the same configuration, before it; checks after it, checks        *)
(* through other configurations, apply and free do not matter.               *)
AssignDecides ==
  \A c \in Ctx, k \in Setting :
    inForce[c][k] =
      IF Assigns(c) = {} THEN Defaults[k]
      ELSE LET i == Max(Assigns(c)) IN Effective(calls[i].conf, k, i)

(* "All following calls to apply will be applied to this SSL context"       *)
(* (SSLConf.java:88): a context has exactly the commands that were applied  *)
(* through a configuration while it was the last context assigned to it.    *)
AppliedToAssigned ==
  \A c \in Ctx :
    applied[c] = {k \in Command :
      \E i \in Assigns(c) : \E j \in (i + 1)..Len(calls) :
        /\ calls[j].op = "apply" /\ calls[j].conf = calls[i].conf /\ calls[j].name = k
        /\ \A m \in (i + 1)..(j - 1) :
             ~(calls[m].op = "assign" /\ calls[m].conf = calls[i].conf)}
=============================================================================
