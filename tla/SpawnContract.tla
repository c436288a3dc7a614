----------------------------- MODULE SpawnContract -----------------------------
(***************************************************************************)
(* What start() promises its caller, with no descriptor, child or error    *)
(* code in sight: it answers every call; it answers "started" exactly when *)
(* the program is running, and then hands over the caller's end of every   *)
(* stream that was not redirected; it throws only if the program never     *)
(* ran and never will, and leaves the caller no stream.  Dropping the      *)
(* handle gives the ends up one by one.                                    *)
(***************************************************************************)
CONSTANTS Calls, Streams

VARIABLES
    piped,      \* the streams a call leaves to pipes
    ran,        \* whether the program of a call has been started
    answer,     \* what start() has answered
    ends        \* the streams whose end the caller holds

vars == <<piped, ran, answer, ends>>

Answers == {"idle", "pending", "started", "threw"}

Init ==
    /\ piped \in [Calls -> SUBSET Streams]
    /\ ran = [c \in Calls |-> FALSE]
    /\ answer = [c \in Calls |-> "idle"]
    /\ ends = [c \in Calls |-> {}]

Start(c) ==
    /\ answer[c] = "idle"
    /\ \E a \in {"pending", "threw"} : answer' = [answer EXCEPT ![c] = a]
    /\ UNCHANGED <<piped, ran, ends>>

Run(c) ==
    /\ answer[c] = "pending"
    /\ ran' = [ran EXCEPT ![c] = TRUE]
    /\ UNCHANGED <<piped, answer, ends>>

AnswerStarted(c) ==
    /\ answer[c] = "pending" /\ ran[c]
    /\ answer' = [answer EXCEPT ![c] = "started"]
    /\ ends' = [ends EXCEPT ![c] = piped[c]]
    /\ UNCHANGED <<piped, ran>>

AnswerThrew(c) ==
    /\ answer[c] = "pending" /\ ~ran[c]
    /\ answer' = [answer EXCEPT ![c] = "threw"]
    /\ UNCHANGED <<piped, ran, ends>>

Release(c) ==
    /\ answer[c] = "started"
    /\ \E s \in ends[c] : ends' = [ends EXCEPT ![c] = @ \ {s}]
    /\ UNCHANGED <<piped, ran, answer>>

Next == \E c \in Calls : \/ Start(c) \/ Run(c)
                         \/ AnswerStarted(c) \/ AnswerThrew(c)
                         \/ Release(c)

Fairness == \A c \in Calls : WF_vars(AnswerStarted(c) \/ AnswerThrew(c))

Spec == Init /\ [][Next]_vars /\ Fairness
================================================================================
