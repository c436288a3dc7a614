----------------------------- MODULE AnyValue -----------------------------
(***************************************************************************)
(* any (any.hpp) over the pooled allocator of its stor_impl (memory.hpp).  *)
(*                                                                         *)
(* A stor_impl is larger than a pointer, so the small-data status is never *)
(* reached: a holder is empty or owns a block, which comes from the pool   *)
(* of the value's type or from the heap.                                   *)
(***************************************************************************)
EXTENDS Integers, Sequences, SequencesExt, FiniteSets

CONSTANTS
    Anys,               \* the variables of type any
    Data, Types, TypeOf(_),
    blck_size,          \* of the pool
    HeapBlocks,         \* bound: all the memory there is
    NoBlock, Raw, Unallocated, None, Gone

ASSUME AnyAssumption ==
    /\ blck_size \in Nat /\ HeapBlocks \in Nat
    /\ IsFiniteSet(Types) /\ blck_size * Cardinality(Types) <= HeapBlocks
    /\ \A d \in Data : TypeOf(d) \in Types
    /\ {Raw, Unallocated, None, Gone} \cap Data = {} /\ Raw # Unallocated /\ None # Gone
    /\ NoBlock \notin 1..HeapBlocks

VARIABLES
    any,        \* status and pointer of each variable; "gone": not constructed
    mem,        \* the pools, what each block holds, and the blocks lost to a throw
    anyLast,    \* history: the operation just finished
    damaged,    \* history: a throw or an alias left a variable with a freed block
    undefined   \* a freed block was used

anyVars == <<any, mem, anyLast, damaged, undefined>>

Blocks == 1..HeapBlocks
Absent == [status |-> "gone", ptr |-> NoBlock]
Null == [status |-> "null", ptr |-> NoBlock]
Ptr(b) == [status |-> "ptr", ptr |-> b]

(* The constructor fills half of each pool.                                *)
AnyInit ==
    LET half == (blck_size + 1) \div 2
        pool == CHOOSE p \in [Types -> [1..half -> Blocks]] :
                    \A t, u \in Types : \A i, j \in 1..half : p[t][i] = p[u][j] => t = u /\ i = j
        pooled(b) == \E t \in Types : \E i \in 1..half : pool[t][i] = b
    IN  /\ any = [h \in Anys |-> Absent]
        /\ mem = [pool |-> pool, content |-> [b \in Blocks |-> IF pooled(b) THEN Raw ELSE Unallocated],
                  lost |-> {}]
        /\ \E h \in Anys : anyLast = [op |-> "none", to |-> h, from |-> h, content |-> None]
        /\ damaged = FALSE /\ undefined = FALSE

-----------------------------------------------------------------------------
(* allocator_type::alloc: the outcomes of making a block with d.  Without  *)
(* memory it throws; when the constructor of the data throws, the block    *)
(* has left the pool and nobody has it.                                    *)
Alloc(m, d) ==
    LET t == TypeOf(d)
        pooled == m.pool[t] # <<>>
        fresh == {b \in Blocks : m.content[b] = Unallocated}
        b == IF pooled THEN Last(m.pool[t]) ELSE CHOOSE x \in fresh : TRUE
        taken == IF pooled THEN [m EXCEPT !.pool[t] = Front(@)] ELSE m
    IN  IF ~pooled /\ fresh = {} THEN {[mem |-> m, ptr |-> NoBlock]}
        ELSE {[mem |-> [taken EXCEPT !.content[b] = d], ptr |-> b],
              [mem |-> [taken EXCEPT !.content[b] = Raw, !.lost = @ \cup {b}], ptr |-> NoBlock]}

(* Mutant: a block that does not fit into the pool is put there too.       *)
FreeUnbounded(m, b) ==
    LET t == TypeOf(m.content[b]) IN [m EXCEPT !.pool[t] = Append(@, b), !.content[b] = Raw]
(* Mutant: the block goes back while it stays in use elsewhere: destroy    *)
(* without mPool[mOffset++] = ptr.                                         *)
FreeDestroysOnly(m, b) == [m EXCEPT !.content[b] = Raw]
Free(m, b) ==
    LET t == TypeOf(m.content[b])
    IN  IF Len(m.pool[t]) < blck_size
        THEN [m EXCEPT !.pool[t] = Append(@, b), !.content[b] = Raw]
        ELSE [m EXCEPT !.content[b] = Unallocated]

Recycle(m, h) == IF any[h].status = "ptr" THEN Free(m, any[h].ptr) ELSE m

-----------------------------------------------------------------------------
Exists(h) == any[h].status # "gone"
(* get_handler() finds a living object.                                    *)
Sound(h) == any[h].status = "ptr" => mem.content[any[h].ptr] \in Data

Finished(op, h, g, d) == anyLast' = [op |-> op, to |-> h, from |-> g, content |-> d]

(* The end of an operation that stores d into h after the memory became m; *)
(* `done` names it.  A throw leaves status and pointer as they were.       *)
StoreInto(h, m, d, op, g) ==
    \E o \in Alloc(m, d) :
        /\ mem' = o.mem
        /\ IF o.ptr = NoBlock
           THEN /\ UNCHANGED any
                /\ Finished("none", h, g, d)
                /\ damaged' = (damaged \/ any[h].status = "ptr")
           ELSE /\ any' = [any EXCEPT ![h] = Ptr(o.ptr)]
                /\ Finished(op, h, g, d)
                /\ UNCHANGED damaged

Construct(h, d) ==
    /\ ~Exists(h)
    /\ StoreInto(h, mem, d, "value", h)
    /\ UNCHANGED undefined

ConstructEmpty(h) ==
    /\ ~Exists(h)
    /\ any' = [any EXCEPT ![h] = Null]
    /\ Finished("value", h, h, None)
    /\ UNCHANGED <<mem, damaged, undefined>>

(* operator=(const T &): recycle, then store.                              *)
AssignValue(h, d) ==
    /\ Exists(h) /\ Sound(h)
    /\ StoreInto(h, Recycle(mem, h), d, "value", h)
    /\ UNCHANGED undefined

(* x = y.get<T>(): the value is in y's block.  With y = x the block has    *)
(* gone to the pool or the heap before it is read, and what is then stored *)
(* is arbitrary.                                                           *)
AssignInside(h, g) ==
    /\ Exists(h) /\ Sound(h) /\ any[g].status = "ptr" /\ Sound(g)
    /\ IF g # h
       THEN StoreInto(h, Recycle(mem, h), mem.content[any[g].ptr], "copy", g)
       ELSE /\ \E d \in {x \in Data : TypeOf(x) = TypeOf(mem.content[any[h].ptr])} :
               \E o \in Alloc(Recycle(mem, h), d) :
                  /\ mem' = o.mem
                  /\ any' = [any EXCEPT ![h] = IF o.ptr = NoBlock THEN @ ELSE Ptr(o.ptr)]
            /\ damaged' = TRUE
            /\ Finished("none", h, g, None)
    /\ UNCHANGED undefined

(* Mutant: clone() is forgotten, both point to the block.                  *)
CopyShared(h, g) ==
    /\ any' = [any EXCEPT ![h] = any[g]]
    /\ mem' = Recycle(mem, h)
    /\ Finished("copy", h, g, None)
    /\ UNCHANGED damaged
(* copy(): nothing when the other is empty; h is left as it is.            *)
CopyInto(h, g) ==
    IF any[g].status = "ptr"
    THEN StoreInto(h, Recycle(mem, h), mem.content[any[g].ptr], "copy", g)
    ELSE /\ any' = IF Exists(h) THEN any ELSE [any EXCEPT ![h] = Null]
         /\ Finished("copy", h, g, None)
         /\ UNCHANGED <<mem, damaged>>

CopyConstruct(h, g) ==
    /\ ~Exists(h) /\ Exists(g) /\ Sound(g)
    /\ CopyInto(h, g)
    /\ UNCHANGED undefined

AssignCopy(h, g) ==
    /\ h # g
    /\ Exists(h) /\ Exists(g) /\ Sound(h) /\ Sound(g)
    /\ CopyInto(h, g)
    /\ UNCHANGED undefined

(* any(any &&) swaps with a new empty one, operator=(any &&) and swap()    *)
(* exchange the two.                                                       *)
MoveInto(h, g) ==
    /\ h # g /\ Exists(g)
    /\ any' = [any EXCEPT ![h] = any[g], ![g] = IF Exists(h) THEN any[h] ELSE Null]
    /\ Finished("move", h, g, None)
    /\ UNCHANGED <<mem, damaged, undefined>>

Destruct(h) ==
    /\ Exists(h) /\ Sound(h)
    /\ mem' = Recycle(mem, h)
    /\ any' = [any EXCEPT ![h] = Absent]
    /\ Finished("destroy", h, h, None)
    /\ UNCHANGED <<damaged, undefined>>

(* The next use of a variable whose block is not alive: nothing is         *)
(* promised any more, and no behaviour is followed further.                *)
UseFreed ==
    /\ ~undefined
    /\ \E h \in Anys : ~Sound(h)
    /\ undefined' = TRUE
    /\ UNCHANGED <<any, mem, anyLast, damaged>>

AnyNext ==
    \/ UseFreed
    \/ ~damaged /\ ~undefined /\ \E h \in Anys :
          \/ ConstructEmpty(h) \/ Destruct(h)
          \/ \E d \in Data : Construct(h, d) \/ AssignValue(h, d)
          \/ \E g \in Anys : CopyConstruct(h, g) \/ AssignCopy(h, g) \/ AssignInside(h, g)
                             \/ MoveInto(h, g)

AnySpec == AnyInit /\ [][AnyNext]_anyVars

-----------------------------------------------------------------------------
AnyTypeOK ==
    /\ \A h \in Anys : any[h] \in {Absent, Null} \cup {Ptr(b) : b \in Blocks}
    /\ \A t \in Types : mem.pool[t] \in Seq(Blocks) /\ Len(mem.pool[t]) <= blck_size
    /\ mem.content \in [Blocks -> Data \cup {Raw, Unallocated}]
    /\ mem.lost \subseteq Blocks
    /\ damaged \in BOOLEAN /\ undefined \in BOOLEAN

(* What a variable holds.                                                  *)
Held(h) == IF any[h].status = "gone" THEN Gone
           ELSE IF any[h].status = "null" THEN None
           ELSE mem.content[any[h].ptr]

Holder == INSTANCE ValueHolder WITH
    Holders <- Anys, Contents <- Data, EmptyCopyKeeps <- TRUE,
    val <- [h \in Anys |-> Held(h)], last <- anyLast, broken <- damaged

(* Every any holds what was last given to it, copies are independent, and  *)
(* an operation changes no other variable, however blocks wander between   *)
(* pool, heap and variables and whichever allocation or copy throws: up to *)
(* an assignment that throws over a value or that reads the value it       *)
(* replaces.                                                               *)
HoldsWhatWasGiven == Holder!HolderSpec

(* Each living object has one owner, each pooled block is free and pooled  *)
(* once, and a block that is neither owned nor pooled nor lost to a throw  *)
(* has gone back to the heap: up to the same assignments, and only after   *)
(* them is a freed block used.                                             *)
BlocksOwnedOnce ==
    ~damaged =>
        LET owners(b) == {h \in Anys : any[h].status = "ptr" /\ any[h].ptr = b}
            places(b) == {p \in Types \X (1..blck_size) :
                             p[2] <= Len(mem.pool[p[1]]) /\ mem.pool[p[1]][p[2]] = b}
        IN  /\ ~undefined
            /\ \A b \in Blocks :
                  /\ Cardinality(owners(b)) = (IF mem.content[b] \in Data THEN 1 ELSE 0)
                  /\ Cardinality(places(b)) = (IF mem.content[b] = Raw /\ b \notin mem.lost THEN 1 ELSE 0)
=============================================================================
