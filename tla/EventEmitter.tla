---------------------------- MODULE EventEmitter ----------------------------
(***************************************************************************)
(* event_emitter (event_emitter.hpp), fast or attentive, and throw_ex,     *)
(* which emits "throw_ex" before it throws.  Handlers are code of the      *)
(* user: a running one may register, unregister, emit, throw and return.   *)
(*                                                                         *)
(* The run-time stack is a sequence of frames, one for each emit() in      *)
(* progress and for each throw_ex(), whose emit is the same loop.          *)
(***************************************************************************)
EXTENDS Integers, Sequences, SequencesExt

CONSTANTS
    Events,         \* names, "throw_ex" among them
    ArgTypes,       \* of arguments, "exception" among them
    Signatures,     \* of handlers: the type they take and whether by value
    MaxCalls,       \* bound: what the user and the handlers call in all
    StackLimit      \* how many emits the stack can hold

ASSUME EmitterAssumption ==
    /\ "throw_ex" \in Events /\ "exception" \in ArgTypes
    /\ Signatures \subseteq [type : ArgTypes, byValue : BOOLEAN]
    /\ MaxCalls \in Nat
    /\ StackLimit \in Nat /\ StackLimit > 2 * MaxCalls

VARIABLES
    attentive,      \* the implementation
    vec,            \* the vector of each event: its buffer's number and its handlers
    stack,          \* top first
    mode,           \* run, unwind; terminated, undefined, overflow
    budget,
    disturbed       \* history: the events changed while one of their emits ran

evVars == <<attentive, vec, stack, mode, budget, disturbed>>

EvInit ==
    /\ attentive \in BOOLEAN
    /\ vec = [e \in Events |-> [buffer |-> 0, handlers |-> <<>>]]
    /\ stack = <<>>
    /\ mode = "run"
    /\ budget = MaxCalls
    /\ disturbed = {}

Top == stack[1]
SetTop(f) == stack' = [stack EXCEPT ![1] = f]
Pop == stack' = Tail(stack)

(* User code has control: the caller of the emitter or a handler.          *)
UserRuns == mode = "run" /\ (stack # <<>> => Top.running)
Spend == budget > 0 /\ budget' = budget - 1
Emitting(e) == \E k \in DOMAIN stack : stack[k].event = e

-----------------------------------------------------------------------------
(* on(): push_back, which may take a new buffer; while no emit of e runs   *)
(* nobody can tell.                                                        *)
On(e, sig) ==
    /\ UserRuns /\ Spend
    /\ \E buffer \in {vec[e].buffer, vec[e].buffer + 1} :
          /\ vec[e].handlers = <<>> \/ ~Emitting(e) => buffer # vec[e].buffer
          /\ vec' = [vec EXCEPT ![e] =
                [buffer |-> buffer,
                 handlers |-> Append(@.handlers, [id |-> budget, type |-> sig.type, byValue |-> sig.byValue])]]
    /\ disturbed' = IF Emitting(e) THEN disturbed \cup {e} ELSE disturbed
    /\ UNCHANGED <<attentive, stack, mode>>

(* A handler may erase the vector it is in, and with it the function       *)
(* object that runs; it is taken to end all the same, and the loop to fail.*)
UnregisterEvent(e) ==
    /\ UserRuns /\ Spend
    /\ vec' = [vec EXCEPT ![e] = [buffer |-> @.buffer + 1, handlers |-> <<>>]]
    /\ disturbed' = IF Emitting(e) THEN disturbed \cup {e} ELSE disturbed
    /\ UNCHANGED <<attentive, stack, mode>>

(* The loop starts: its bounds are those of the vector now.                *)
Frame(e, type, rvalue, thrower) ==
    [event |-> e, type |-> type, rvalue |-> rvalue, thrower |-> thrower,
     buffer |-> vec[e].buffer, size |-> Len(vec[e].handlers), due |-> vec[e].handlers,
     at |-> 1, running |-> FALSE, whole |-> TRUE, got |-> <<>>]

Enter(frame) ==
    IF Len(stack) = StackLimit
    THEN mode' = "overflow" /\ UNCHANGED stack
    ELSE stack' = <<frame>> \o stack /\ UNCHANGED mode

Emit(e, type, rvalue) ==
    /\ UserRuns /\ Spend
    /\ Enter(Frame(e, type, rvalue, FALSE))
    /\ UNCHANGED <<attentive, vec, disturbed>>

(* throw_ex() emits the exception as an lvalue, then throws it.            *)
ThrowFrame == Frame("throw_ex", "exception", FALSE, TRUE)

ThrowEx ==
    /\ UserRuns /\ Spend
    /\ Enter(ThrowFrame)
    /\ UNCHANGED <<attentive, vec, disturbed>>

Throw ==
    /\ UserRuns /\ stack # <<>> /\ Spend
    /\ mode' = "unwind"
    /\ UNCHANGED <<attentive, vec, stack, disturbed>>

-----------------------------------------------------------------------------
InLoop == mode = "run" /\ stack # <<>> /\ ~Top.running
(* Mutant: the end is looked up at every turn.                             *)
MoreNow == Top.at <= Len(vec[Top.event].handlers)
More == Top.at <= Top.size
Valid == vec[Top.event].buffer = Top.buffer
Handler == vec[Top.event].handlers[Top.at]

(* Mutant: only by-value handlers are taken to move the argument.          *)
MovesByValueOnly(h) == ~attentive /\ h.byValue
(* The fast one forwards: an rvalue is moved into the parameter of each    *)
(* call, an lvalue into that of a handler by value.  The attentive one     *)
(* hands out references to its arguments.                                  *)
Moves(h) == ~attentive /\ (Top.rvalue \/ h.byValue)

CallNext ==
    /\ InLoop /\ More /\ Valid
    /\ Handler.type = Top.type
    /\ SetTop([Top EXCEPT !.running = TRUE,
                          !.got = Append(@, [handler |-> Handler, whole |-> Top.whole]),
                          !.whole = @ /\ ~Moves(Handler)])
    /\ UNCHANGED <<attentive, vec, mode, budget, disturbed>>

(* Mutant: a handler with other arguments is passed over.                  *)
SkipMismatch ==
    /\ InLoop /\ More /\ Valid
    /\ Handler.type # Top.type
    /\ SetTop([Top EXCEPT !.at = @ + 1])
    /\ UNCHANGED <<attentive, vec, mode, budget, disturbed>>
Mismatch ==
    /\ InLoop /\ More /\ Valid
    /\ Handler.type # Top.type
    /\ Enter(ThrowFrame)
    /\ UNCHANGED <<attentive, vec, budget, disturbed>>

(* The iterator points into a buffer that is gone.                         *)
Dangling ==
    /\ InLoop /\ More /\ ~Valid
    /\ mode' = "undefined"
    /\ UNCHANGED <<attentive, vec, stack, budget, disturbed>>

LoopEnds ==
    /\ InLoop /\ ~More
    /\ Pop
    /\ mode' = IF Top.thrower THEN "unwind" ELSE "run"
    /\ UNCHANGED <<attentive, vec, budget, disturbed>>

HandlerReturns ==
    /\ mode = "run" /\ stack # <<>> /\ Top.running
    /\ SetTop([Top EXCEPT !.running = FALSE, !.at = @ + 1])
    /\ UNCHANGED <<attentive, vec, mode, budget, disturbed>>

(* Mutant: handlers of the fast emitter may not throw either.              *)
NoexceptAlways == TRUE
(* call_on, and so the handler, is noexcept.                               *)
Noexcept == attentive

(* An exception comes to the top frame: its handler catches it, or the     *)
(* emit ends with it, or the program, if it would leave a noexcept call.   *)
Unwind ==
    /\ mode = "unwind"
    /\ \/ stack = <<>> /\ mode' = "run" /\ UNCHANGED stack
       \/ stack # <<>> /\ Top.running /\ mode' = "run" /\ UNCHANGED stack
       \/ stack # <<>> /\ Top.running /\ Noexcept /\ mode' = "terminated" /\ UNCHANGED stack
       \/ stack # <<>> /\ (Top.running => ~Noexcept) /\ Pop /\ UNCHANGED mode
    /\ UNCHANGED <<attentive, vec, budget, disturbed>>

EvNext ==
    \/ \E e \in Events, sig \in Signatures : On(e, sig)
    \/ \E e \in Events, type \in ArgTypes, rvalue \in BOOLEAN : Emit(e, type, rvalue)
    \/ \E e \in Events : UnregisterEvent(e)
    \/ ThrowEx \/ Throw
    \/ CallNext \/ Mismatch \/ Dangling \/ LoopEnds \/ HandlerReturns \/ Unwind

EvSpec == EvInit /\ [][EvNext]_evVars

-----------------------------------------------------------------------------
EvTypeOK ==
    /\ attentive \in BOOLEAN
    /\ \A e \in Events : vec[e].buffer \in 0..MaxCalls /\ Len(vec[e].handlers) <= MaxCalls
    /\ Len(stack) <= StackLimit
    /\ mode \in {"run", "unwind", "terminated", "undefined", "overflow"}
    /\ budget \in 0..MaxCalls
    /\ disturbed \subseteq Events

(* An emit calls the handlers that were registered when it began, in that  *)
(* order and each once, and no others, whatever its handlers register,     *)
(* unregister, emit, throw and catch meanwhile; a handler with other       *)
(* arguments is not passed over, the emit ends there.                      *)
DeliversInOrder ==
    \A k \in DOMAIN stack :
        LET f == stack[k]
            calls == [i \in DOMAIN f.got |-> f.got[i].handler]
        IN  /\ IsPrefix(calls, f.due)
            /\ Len(calls) = IF f.running THEN f.at ELSE f.at - 1

(* A handler gets the argument as the caller gave it, unless the fast      *)
(* emitter forwarded it to an earlier handler: an rvalue to any, an lvalue *)
(* to one that takes it by value.                                          *)
ArgumentsWhole ==
    \A k \in DOMAIN stack :
        LET f == stack[k]
        IN  \A i \in DOMAIN f.got :
                f.got[i].whole <=> \/ attentive
                                   \/ (f.rvalue => i = 1) /\ \A j \in 1..(i - 1) : ~f.due[j].byValue

(* What user code can bring about: a loop over a dead buffer only by       *)
(* changing an event while it is emitted, a stack without end only by a    *)
(* handler of "throw_ex" that does not take the exception and was there    *)
(* when a throw_ex() in progress began (it may be gone when the stack      *)
(* overflows), the end of the program by an exception only in the          *)
(* attentive emitter.                                                      *)
FailuresHaveCauses ==
    /\ mode = "undefined" => Top.event \in disturbed
    /\ mode = "overflow" =>
          \E k \in DOMAIN stack :
             stack[k].thrower /\ \E i \in DOMAIN stack[k].due : stack[k].due[i].type # "exception"
    /\ mode = "terminated" => attentive
=============================================================================
