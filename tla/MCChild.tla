------------------------------- MODULE MCChild -------------------------------
(***************************************************************************)
(* Small instances of ExecSearch and FdStreams for TLC.  The two share no  *)
(* state, so a behaviour follows one of them while the other stays as it   *)
(* was at the start.                                                       *)
(***************************************************************************)
EXTENDS ExecSearch, FdStreams, TLC

CONSTANTS prog, other, script, opt, arg, k1, k2, v1, v2, d1, d2, d3

VARIABLE part

SomePaths == {Unset, <<d1, Empty, d2>>, <<d3, d1, d2>>}
DefaultDirs == <<Empty, "/bin">>
SomeArguments == {<<>>, <<opt>>, <<opt, arg>>}

Init == ExInit /\ FdInit /\ part \in {"exec", "streams"}

Next ==
    /\ UNCHANGED part
    /\ \/ part = "exec" /\ ExNext /\ UNCHANGED fdVars
       \/ part = "streams" /\ FdNext /\ UNCHANGED exVars

Spec == Init /\ [][Next]_<<exVars, fdVars, part>>

TypeOK == ExTypeOK /\ FdTypeOK
==============================================================================
