---------------------------- MODULE MCProcessStatus ----------------------------
(* Small instances of ProcessStatus for TLC.                               *)
EXTENDS ProcessStatus, TLC

CONSTANTS h1, h2
PidNumbers == {101, 102}
SomeCodes == {0, 7}
NoOutput == {0}
SomeOutputs == {0, 1, 2}

(* A reaper finds nothing to do when SIGCHLD is ignored.                   *)
AllWorlds == {w \in World : w.sigchld = "default" \/ ~w.reaper}

(* Nobody reaps, but children may be stopped.                              *)
PlainWorlds == {w \in World : w.sigchld = "default" /\ ~w.reaper}

(* Programs write to pipes that may be full only where nobody stops or     *)
(* reaps them: one thing at a time.                                        *)
Calm == world.sigchld = "default" /\ ~world.reaper /\ ~world.stops
MCInit == Init /\ (~Calm => left = [h \in Handles |-> 0])
MCSpec == MCInit /\ [][Next]_vars /\ Fairness
================================================================================
