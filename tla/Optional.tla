----------------------------- MODULE Optional -----------------------------
(***************************************************************************)
(* optional (optional.hpp): a flag byte and the raw bytes of an object.    *)
(* Copy assignment swaps with a temporary and moves swap the bytes, so an  *)
(* object can end up in another place than it was made in.  A type that    *)
(* keeps pointers into itself, a short std::string for one, does not live  *)
(* through that.                                                           *)
(***************************************************************************)
EXTENDS Naturals, FiniteSets

CONSTANTS
    Opts, Temporary,    \* the variables; the place of a temporary
    OptData, OptNone, OptGone

ASSUME OptAssumption ==
    /\ IsFiniteSet(Opts) /\ Temporary \notin Opts
    /\ OptNone \notin OptData /\ OptGone \notin OptData /\ OptNone # OptGone

VARIABLES
    opt,            \* _memory of each variable: the flag and the object's bytes
    relocatable,    \* T may be moved byte by byte
    alive,          \* how many objects were made and not destroyed
    optLast,        \* history: the operation just finished
    misplaced       \* history: an object that is not relocatable was moved by its bytes

optVars == <<opt, relocatable, alive, optLast, misplaced>>

NoValue == [flag |-> FALSE, data |-> OptNone, home |-> Temporary]
NoOptional == [flag |-> FALSE, data |-> OptGone, home |-> Temporary]
Object(d, place) == [flag |-> TRUE, data |-> d, home |-> place]
Lives(h) == opt[h] # NoOptional

OptInit ==
    /\ opt = [h \in Opts |-> NoOptional]
    /\ relocatable \in BOOLEAN
    /\ alive = 0
    /\ \E h \in Opts : optLast = [op |-> "none", to |-> h, from |-> h, content |-> OptNone]
    /\ misplaced = FALSE

OptFinished(op, h, g, d) == optLast' = [op |-> op, to |-> h, from |-> g, content |-> d]

(* The bytes that the step puts into a variable other than their own.      *)
Placed(new) ==
    /\ opt' = new
    /\ misplaced' = (misplaced \/ (~relocatable /\ \E h \in Opts : new[h].flag /\ new[h].home # h))
    /\ UNCHANGED relocatable

Engaged(h) == IF opt[h].flag THEN 1 ELSE 0

(* optional(const T &), optional(T &&), optional(const optional &), and    *)
(* their failure when the constructor of T throws.                         *)
OptConstruct(h, d, op, g) ==
    /\ ~Lives(h)
    /\ \/ /\ Placed([opt EXCEPT ![h] = IF d = OptNone THEN NoValue ELSE Object(d, h)])
          /\ alive' = alive + (IF d = OptNone THEN 0 ELSE 1)
          /\ OptFinished(op, h, g, d)
       \/ /\ d # OptNone
          /\ OptFinished("none", h, g, d)
          /\ UNCHANGED <<opt, relocatable, alive, misplaced>>

(* A temporary is made of d, swapped with h, and destroyed with what h had.*)
OptAssign(h, d, op, g) ==
    /\ Lives(h)
    /\ \/ /\ Placed([opt EXCEPT ![h] = IF d = OptNone THEN NoValue ELSE Object(d, Temporary)])
          /\ alive' = alive + (IF d = OptNone THEN 0 ELSE 1) - Engaged(h)
          /\ OptFinished(op, h, g, d)
       \/ /\ d # OptNone
          /\ OptFinished("none", h, g, d)
          /\ UNCHANGED <<opt, relocatable, alive, misplaced>>

(* Mutant: the moved-from variable is emptied, not given the other's bytes.*)
OptMoveOver(h, g) ==
    /\ h # g /\ Lives(g)
    /\ Placed([opt EXCEPT ![h] = opt[g], ![g] = NoValue])
    /\ OptFinished("move", h, g, OptNone)
    /\ UNCHANGED alive
(* optional(optional &&) swaps with zeroed memory, operator=(optional &&)  *)
(* and swap() exchange the bytes.                                          *)
OptMove(h, g) ==
    /\ h # g /\ Lives(g)
    /\ Placed([opt EXCEPT ![h] = opt[g], ![g] = IF Lives(h) THEN opt[h] ELSE NoValue])
    /\ OptFinished("move", h, g, OptNone)
    /\ UNCHANGED alive

OptDestruct(h) ==
    /\ Lives(h)
    /\ Placed([opt EXCEPT ![h] = NoOptional])
    /\ alive' = alive - Engaged(h)
    /\ OptFinished("destroy", h, h, OptNone)

OptNext ==
    /\ ~misplaced
    /\ \E h \in Opts :
          \/ OptDestruct(h)
          \/ \E d \in OptData \cup {OptNone} : OptConstruct(h, d, "value", h) \/ OptAssign(h, d, "value", h)
          \/ \E g \in Opts :
                \/ OptMove(h, g)
                \/ g # h /\ Lives(g) /\ OptConstruct(h, opt[g].data, "copy", g)
                \/ g # h /\ Lives(g) /\ OptAssign(h, opt[g].data, "copy", g)

OptSpec == OptInit /\ [][OptNext]_optVars

-----------------------------------------------------------------------------
(* The flag tells whether an object lives in the bytes, and no object is   *)
(* lost or destroyed twice by the swaps with temporaries.                  *)
OptTypeOK ==
    /\ opt \in [Opts -> [flag : BOOLEAN, data : OptData \cup {OptNone, OptGone},
                         home : Opts \cup {Temporary}]]
    /\ relocatable \in BOOLEAN /\ misplaced \in BOOLEAN
    /\ \A h \in Opts : opt[h].flag <=> opt[h].data \in OptData
    /\ alive = Cardinality({h \in Opts : opt[h].flag})

OptHolder == INSTANCE ValueHolder WITH
    Holders <- Opts, Contents <- OptData, None <- OptNone, Gone <- OptGone,
    EmptyCopyKeeps <- FALSE,
    val <- [h \in Opts |-> opt[h].data], last <- optLast, broken <- misplaced

(* Every optional holds what was last given to it or nothing, copies are   *)
(* independent and a throw changes nothing.  For types that are not         *)
(* relocatable this ends with the first assignment or move of a value.     *)
OptionalHolds == OptHolder!HolderSpec
=============================================================================
