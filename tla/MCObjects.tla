------------------------------ MODULE MCObjects ------------------------------
(***************************************************************************)
(* Small instances of EventEmitter, AnyValue and Optional for TLC.  They   *)
(* share no state, so a behaviour follows one of them while the others     *)
(* stay as they were at the start.                                         *)
(***************************************************************************)
EXTENDS EventEmitter, AnyValue, Optional, TLC

CONSTANTS a1, a2, b1, ta, tb, v1, v2, v3, o1, o2

VARIABLE part

SomeSignatures ==
    {[type |-> t, byValue |-> b] : t \in {"exception", "number"}, b \in {FALSE}}
    \cup {[type |-> "exception", byValue |-> TRUE]}

KindOf(d) == IF d = b1 THEN tb ELSE ta

Init ==
    /\ part \in {"emitter", "any", "optional"}
    /\ EvInit /\ AnyInit /\ OptInit
    /\ part # "emitter" => attentive
    /\ part # "optional" => relocatable

Next ==
    /\ UNCHANGED part
    /\ \/ part = "emitter" /\ EvNext /\ UNCHANGED <<anyVars, optVars>>
       \/ part = "any" /\ AnyNext /\ UNCHANGED <<evVars, optVars>>
       \/ part = "optional" /\ OptNext /\ UNCHANGED <<evVars, anyVars>>

Spec == Init /\ [][Next]_<<evVars, anyVars, optVars, part>>

Symmetric == Permutations(Anys) \cup Permutations(Opts)

TypeOK == EvTypeOK /\ AnyTypeOK /\ OptTypeOK
==============================================================================
