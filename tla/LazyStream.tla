----------------------------- MODULE LazyStream -----------------------------
(***************************************************************************)
(* stream<T> (stream.hpp): a source of elements, a list or a producer that *)
(* is iterated, seen through a mapper and a predicate.  An operation takes *)
(* elements one by one until it has enough; EvalStep is one turn of the    *)
(* loop in eval_head with what its caller does with the element.           *)
(***************************************************************************)
EXTENDS Integers, Sequences, SequencesExt, FiniteSets

CONSTANTS
    Elements,       \* values of T
    Initial,        \* T()
    Lists,          \* lists streams are made of
    Producers,      \* functions that are iterated, the identity for repeat
    Mappers,        \* functions given to map
    Tests,          \* sets of elements: predicates given to operations
    MaxTake,        \* the largest n of drop(n), collect(n), take(n)
    MaxGiven,       \* maps and filters on one stream
    MaxOut          \* a call is followed until it has collected so many

ASSUME StreamAssumption ==
    /\ IsFiniteSet(Elements) /\ Initial \in Elements /\ Lists \subseteq Seq(Elements)
    /\ {MaxTake, MaxOut, MaxGiven} \subseteq Nat
    /\ MaxOut > MaxTake /\ MaxOut > 2 * Cardinality(Elements)
    /\ \A list \in Lists : Len(list) < MaxOut
    /\ Producers \cup Mappers \subseteq [Elements -> Elements]
    /\ Tests \subseteq SUBSET Elements

VARIABLES
    stream,         \* _head, _finite_data, ...
    call,           \* the operation that takes elements, or its result
    given           \* the stages put on the stream, in the order of the calls
lsVars == <<stream, call, given>>

Identity == [x \in Elements |-> x]
NoCall == [phase |-> "idle"]

-----------------------------------------------------------------------------
(* produce_next and take_head: the element in hand is given out and the    *)
(* next one fetched; at the end of a list the last one stays in hand.      *)

(* Mutant: the end of the list is not noticed.                             *)
TakenWithoutEnd(s) ==
    IF ~s.remaining THEN s
    ELSE IF ~s.finite THEN [s EXCEPT !.head = s.producer[@]]
    ELSE IF s.data = <<>> THEN s
    ELSE [s EXCEPT !.head = Head(s.data), !.data = Tail(@)]
Taken(s) ==
    IF ~s.remaining THEN s
    ELSE IF ~s.finite THEN [s EXCEPT !.head = s.producer[@]]
    ELSE IF s.data = <<>> THEN [s EXCEPT !.remaining = FALSE]
    ELSE [s EXCEPT !.head = Head(s.data), !.data = Tail(@)]

(* repeat, iterate; of, which drops the initial head.                      *)
Iterate(x, f) ==
    [head |-> x, data |-> <<>>, remaining |-> TRUE, finite |-> FALSE, producer |-> f,
     mapper |-> Identity, predicate |-> Elements]
Of(list) ==
    Taken([Iterate(Initial, Identity) EXCEPT !.data = list, !.finite = TRUE,
                                             !.remaining = list # <<>>])

LsInit ==
    /\ \/ \E x \in Elements, f \in Producers : stream = Iterate(x, f)
       \/ \E list \in Lists : stream = Of(list)
    /\ call = NoCall /\ given = <<>>

Running == call.phase = "running"

-----------------------------------------------------------------------------
(* map and filter compose, each with its own kind; drop_while(p) is        *)
(* filter(not p).  given remembers what was asked for.                     *)

(* Mutant: composed the other way round.                                   *)
ComposeReversed(f, g) == [x \in Elements |-> g[f[x]]]
Compose(f, g) == [x \in Elements |-> f[g[x]]]

Given(op) ==
    /\ ~Running /\ Len(given) < MaxGiven
    /\ given' = Append(given, op)
    /\ call' = NoCall

MapBy(f) ==
    /\ stream' = [stream EXCEPT !.mapper = Compose(f, @)]
    /\ Given([kind |-> "map", map |-> f, test |-> Elements])

Filtered(p) == stream' = [stream EXCEPT !.predicate = p \cap @]

FilterBy(p) == Filtered(p) /\ Given([kind |-> "filter", map |-> Identity, test |-> p])

DropWhileIn(p) ==
    Filtered(Elements \ p) /\ Given([kind |-> "drop_while", map |-> Identity, test |-> p])

(* A drop_while that an element has come through has nothing more to drop. *)
Spent(ops) ==
    [i \in DOMAIN ops |-> IF ops[i].kind = "drop_while" THEN [ops[i] EXCEPT !.kind = "dropped"]
                          ELSE ops[i]]

(* drop and collect up to n elements ("first"); collect while a test holds *)
(* ("while"); travel with a test, which sees the failing element too.      *)
Begin(kind, n, test) ==
    LET takes == stream.remaining /\ (kind = "first" => n > 0)
    IN  /\ ~Running
        /\ call' = [phase |-> IF takes THEN "running" ELSE "done", kind |-> kind, n |-> n,
                    test |-> test, out |-> <<>>, asked |-> stream, stages |-> given]
        /\ given' = IF takes THEN Spent(given) ELSE given
        /\ UNCHANGED stream

(* A call that goes on collecting for ever from an infinite stream.        *)
Endless == Len(call.out) = MaxOut

(* Elements the filter rejects are passed over.  The filter sees the       *)
(* element with all mappers applied, in whatever order they were given.    *)
EvalStep ==
    /\ Running /\ ~Endless
    /\ stream' = Taken(stream) /\ UNCHANGED given
    /\ LET x == stream.mapper[stream.head]
           failing == call.kind # "first" /\ x \notin call.test
           out == IF failing /\ call.kind = "while" THEN call.out ELSE Append(call.out, x)
           enough == IF call.kind = "first" THEN Len(out) = call.n ELSE failing
       IN  IF x \notin stream.predicate THEN UNCHANGED call
           ELSE call' = [call EXCEPT !.out = out,
                            !.phase = IF enough \/ ~Taken(stream).remaining THEN "done" ELSE @]

(* take and take_while: a new stream of what was collected.                *)
OfCollected ==
    /\ call.phase = "done" /\ call.kind # "travel"
    /\ stream' = Of(call.out)
    /\ call' = NoCall /\ given' = <<>>

LsNext ==
    \/ \E f \in Mappers : MapBy(f)
    \/ \E p \in Tests : FilterBy(p) \/ DropWhileIn(p)
    \/ \E n \in 0..MaxTake : Begin("first", n, Elements)
    \/ \E kind \in {"while", "travel"}, p \in Tests \cup {Elements} : Begin(kind, 0, p)
    \/ EvalStep
    \/ OfCollected

LsSpec == LsInit /\ [][LsNext]_lsVars /\ WF_lsVars(EvalStep)

-----------------------------------------------------------------------------
(* What the operations mean, on sequences: the elements the source still   *)
(* has, the first of them if there is no end.                              *)
Shown == (MaxTake + 2) * (Cardinality(Elements) + 1)

Source(s) ==
    IF s.finite THEN IF s.remaining THEN <<s.head>> \o s.data ELSE <<>>
    ELSE LET at[i \in 1..Shown] == IF i = 1 THEN s.head ELSE s.producer[at[i - 1]]
         IN  [i \in 1..Shown |-> at[i]]

Selected(xs, set) == FlattenSeq([i \in DOMAIN xs |-> IF xs[i] \in set THEN <<xs[i]>> ELSE <<>>])

UpTo(xs, n) == SubSeq(xs, 1, IF n < Len(xs) THEN n ELSE Len(xs))

(* How many of xs are passed before, and with, the first one outside.      *)
Passing(xs, test) ==
    LET failing == {i \in DOMAIN xs : xs[i] \notin test}
    IN  IF failing = {} THEN Len(xs) ELSE (CHOOSE i \in failing : \A j \in failing : i <= j) - 1

(* What one stage makes of a sequence, and all of them one after the other.*)
Stage(op, xs) ==
    CASE op.kind = "map" -> [i \in DOMAIN xs |-> op.map[xs[i]]]
      [] op.kind = "filter" -> Selected(xs, op.test)
      [] op.kind = "drop_while" -> SubSeq(xs, Passing(xs, op.test) + 1, Len(xs))
      [] op.kind = "dropped" -> xs

InOrder(ops, xs) ==
    LET after[k \in 0..Len(ops)] == IF k = 0 THEN xs ELSE Stage(ops[k], after[k - 1])
    IN  after[Len(ops)]

(* Stages that can be taken apart into all maps and then all filters.      *)
MapsThenFilters(ops) ==
    /\ \A i \in DOMAIN ops : ops[i].kind \in {"map", "filter"}
    /\ \A i, j \in DOMAIN ops : i < j /\ ops[i].kind = "filter" => ops[j].kind = "filter"

(* any(p) travels with not p, none(p) is any(not p), all(p) is not none(p).*)
AnyOf(out, p) == \E i \in DOMAIN out : out[i] \in p
NoneOf(out, p) == AnyOf(out, Elements \ p)
AllOf(out, p) == ~NoneOf(out, p)

LsTypeOK ==
    /\ stream.head \in Elements /\ stream.data \in Seq(Elements)
    /\ stream.remaining \in BOOLEAN /\ stream.finite \in BOOLEAN
    /\ ~stream.remaining => stream.finite /\ stream.data = <<>>
    /\ stream.mapper \in [Elements -> Elements] /\ stream.predicate \subseteq Elements
    /\ call.phase \in {"idle", "running", "done"}

(* What a pipeline means: the elements that the stages, each applied to    *)
(* what the one before it lets through, make of the source, from the first *)
(* one on: n of them, or those before the first that fails the test, or    *)
(* that one too; any, all and count follow.  The stream is left with       *)
(* exactly the elements behind those looked at, for the next call.         *)
Answered ==
    LET seen == InOrder(call.stages, Source(call.asked))
        passing == IF call.kind = "first" THEN call.n ELSE Passing(seen, call.test)
        looked == UpTo(seen, passing + (IF call.kind = "first" THEN 0 ELSE 1))
        left == looked \o InOrder(given, Source(stream))
    IN  /\ call.out = IF call.kind = "travel" THEN looked ELSE UpTo(seen, passing)
        /\ call.kind = "travel" =>
              /\ AllOf(call.out, call.test) <=> Range(seen) \subseteq call.test
              /\ AnyOf(call.out, Elements \ call.test) <=> Range(seen) \ call.test # {}
        /\ IF stream.finite THEN left = seen ELSE IsPrefix(seen, left)

(* Every call that returns has that answer, whatever the stages: so reads  *)
(* the pipeline of test-stream.cpp:18-24, where dropWhile follows filter   *)
(* and filter follows map, and so do the Java streams that stream.hpp:18   *)
(* speaks of.  The code does otherwise: all maps come before all filters,  *)
(* and drop_while is one of the filters.                                   *)
StagesInOrder == call.phase = "done" => Answered

(* Every call that returns has that answer if the maps were given before   *)
(* the filters and there is no drop_while.                                 *)
AnswersAsPromised == call.phase = "done" /\ MapsThenFilters(call.stages) => Answered

(* The elements an infinite stream comes back to for ever.                 *)
Recurring ==
    LET source == Source(stream) IN {source[i] : i \in (Shown - Cardinality(Elements))..Shown}

(* A call returns if the list ends on an element the filter lets through,  *)
(* or, without end, if such elements come again and again, and for         *)
(* collect(p) and travel one of those fails the test.  (Else it goes round *)
(* in eval_head, or collects, for ever.)                                   *)
TasksReturn ==
    (/\ Running
     /\ IF stream.finite
        THEN stream.remaining /\ stream.mapper[Last(Source(stream))] \in stream.predicate
        ELSE \E x \in Recurring :
                /\ stream.mapper[x] \in stream.predicate
                /\ call.kind = "first" \/ stream.mapper[x] \notin call.test)
        ~> ~Running
=============================================================================
