---------------------------- MODULE ObjectsProofs ----------------------------
(***************************************************************************)
(* any and optional implement ValueHolder, for every number of variables,  *)
(* types and values and every size of the pools.  Under any, blocks wander *)
(* between pool, heap and variables, and none of them is ever in two       *)
(* places; optional's count of living objects is that of the flags,        *)
(* through every swap with a temporary.  The two and the event emitter     *)
(* keep their types side by side.                                          *)
(***************************************************************************)
EXTENDS MCObjects, EventEmitterProofs, FiniteSetTheorems, FunctionTheorems

(* any.                                                                    *)
Memory == [pool : [Types -> Seq(Blocks)], content : [Blocks -> Data \cup {Raw, Unallocated}],
           lost : SUBSET Blocks]
MemTyped(m) ==
    /\ m \in Memory
    /\ \A t \in Types : Len(m.pool[t]) <= blck_size

Pooled(m, b) == \E t \in Types : \E i \in 1..Len(m.pool[t]) : m.pool[t][i] = b

(* Every pooled block is free and pooled once.                             *)
PoolsFree(m) ==
    \A t \in Types : \A i \in 1..Len(m.pool[t]) :
        m.content[m.pool[t][i]] = Raw /\ m.pool[t][i] \notin m.lost
PoolsApart(m) ==
    \A t, u \in Types : \A i \in 1..Len(m.pool[t]) : \A j \in 1..Len(m.pool[u]) :
        m.pool[t][i] = m.pool[u][j] => t = u /\ i = j

(* The objects are those in the blocks O; every other block is pooled,     *)
(* lost, or with the heap.                                                 *)
Sane(m, O) ==
    /\ MemTyped(m) /\ PoolsFree(m) /\ PoolsApart(m)
    /\ \A b \in Blocks : m.content[b] \in Data <=> b \in O
    /\ \A b \in Blocks : m.content[b] = Raw /\ b \notin m.lost => Pooled(m, b)
    /\ \A b \in m.lost : m.content[b] = Raw

Variable == {Absent, Null} \cup {Ptr(b) : b \in Blocks}
Owned(a) == {b \in Blocks : \E h \in Anys : a[h] = Ptr(b)}
(* No two variables point to the same block.                               *)
Distinct(a) == \A h, g \in Anys : a[h].status = "ptr" /\ a[g] = a[h] => g = h

AnyTyped ==
    any \in [Anys -> Variable] /\ MemTyped(mem) /\ damaged \in BOOLEAN /\ undefined \in BOOLEAN
Good == Distinct(any) /\ Sane(mem, Owned(any)) /\ ~undefined
AnyInv == AnyTyped /\ (~damaged => Good)

--------------------------------------------------------------------------------
LEMMA Values ==
    /\ Raw \notin Data /\ Unallocated \notin Data /\ Raw # Unallocated
    /\ None \notin Data /\ Gone \notin Data /\ None # Gone /\ NoBlock \notin Blocks
    /\ blck_size \in Nat /\ HeapBlocks \in Nat
    /\ \A d \in Data : TypeOf(d) \in Types
BY AnyAssumption DEF Blocks

LEMMA VariableCases ==
    ASSUME NEW v \in Variable
    PROVE  /\ v.status = "gone" <=> v = Absent
           /\ v.status = "null" <=> v = Null
           /\ v.status = "ptr" <=> v.ptr \in Blocks /\ v = Ptr(v.ptr)
           /\ v.status \in {"gone", "null", "ptr"}
BY Values DEF Variable, Absent, Null, Ptr

LEMMA PtrParts == \A b : Ptr(b).status = "ptr" /\ Ptr(b).ptr = b
BY DEF Ptr

LEMMA PoolUpdate ==
    ASSUME NEW m \in Memory, NEW t \in Types, NEW s \in Seq(Blocks)
    PROVE  [m EXCEPT !.pool[t] = s] \in Memory
BY DEF Memory

LEMMA ContentUpdate ==
    ASSUME NEW m \in Memory, NEW b \in Blocks, NEW v \in Data \cup {Raw, Unallocated}
    PROVE  [m EXCEPT !.content[b] = v] \in Memory
BY DEF Memory

(* A block with an object is given back to the pool of its type or, when   *)
(* that is full, to the heap.                                              *)
LEMMA FreeSane ==
    ASSUME NEW m, NEW O \in SUBSET Blocks, Sane(m, O), NEW b \in O
    PROVE  /\ Sane(Free(m, b), O \ {b})
           /\ \A c \in O \ {b} : Free(m, b).content[c] = m.content[c]
<1> DEFINE t == TypeOf(m.content[b])
           n == Len(m.pool[t])
<1>1. /\ m.content[b] \in Data /\ t \in Types /\ m.pool[t] \in Seq(Blocks) /\ n \in Nat
      /\ m.content \in [Blocks -> Data \cup {Raw, Unallocated}] /\ b \in Blocks
      /\ m.pool \in [Types -> Seq(Blocks)]
  BY Values DEF Sane, MemTyped, Memory
<1>2. ~Pooled(m, b) /\ b \notin m.lost
  BY <1>1, Values DEF Sane, PoolsFree, Pooled
<1>3. CASE n < blck_size
  <2> DEFINE k == [m EXCEPT !.pool[t] = Append(@, b), !.content[b] = Raw]
  <2>1. Free(m, b) = k
    BY <1>3 DEF Free
  <2>2. /\ k.pool = [m.pool EXCEPT ![t] = Append(@, b)] /\ k.content = [m.content EXCEPT ![b] = Raw]
        /\ k.lost = m.lost
        /\ k \in Memory
    <3>1. Append(m.pool[t], b) \in Seq(Blocks)
      BY <1>1
    <3>2. m \in Memory
      BY DEF Sane, MemTyped, Memory
    <3> HIDE DEF t
    <3>3. /\ k.pool = [m.pool EXCEPT ![t] = Append(@, b)] /\ k.content = [m.content EXCEPT ![b] = Raw]
          /\ k.lost = m.lost
      BY <3>2 DEF Memory
    <3>4. k = [[m EXCEPT !.pool[t] = Append(@, b)] EXCEPT !.content[b] = Raw]
      OBVIOUS
    <3>5. k \in Memory
      BY <1>1, <3>1, <3>2, <3>4, PoolUpdate, ContentUpdate
    <3> QED
      BY <3>3, <3>5 DEF Memory
  <2>3. /\ k.pool[t] = Append(m.pool[t], b) /\ Len(k.pool[t]) = n + 1 /\ k.pool[t][n + 1] = b
        /\ \A i \in 1..n : k.pool[t][i] = m.pool[t][i]
        /\ \A u \in Types \ {t} : k.pool[u] = m.pool[u]
    <3>1. k.pool = [m.pool EXCEPT ![t] = Append(@, b)]
      BY <2>2
    <3> HIDE DEF k, t
    <3>2. k.pool[t] = Append(m.pool[t], b) /\ \A u \in Types \ {t} : k.pool[u] = m.pool[u]
      BY <1>1, <3>1
    <3>3. /\ Len(Append(m.pool[t], b)) = n + 1 /\ Append(m.pool[t], b)[n + 1] = b
          /\ \A i \in 1..n : Append(m.pool[t], b)[i] = m.pool[t][i]
      BY <1>1
    <3> QED
      BY <3>2, <3>3
  <2>4. k.content[b] = Raw /\ \A c \in Blocks \ {b} : k.content[c] = m.content[c]
    <3>1. k.content = [m.content EXCEPT ![b] = Raw]
      BY <2>2
    <3> HIDE DEF k, t
    <3> QED
      BY <1>1, <3>1
  <2> HIDE DEF k, t, n
  <2>5. ASSUME NEW u \in Types, NEW i \in 1..Len(k.pool[u])
        PROVE  \/ u = t /\ i = n + 1 /\ k.pool[u][i] = b
               \/ i \in 1..Len(m.pool[u]) /\ k.pool[u][i] = m.pool[u][i] /\ m.pool[u][i] \in Blocks \ {b}
    <3>1. CASE u = t /\ i = n + 1
      BY <2>3, <3>1
    <3>2. CASE u # t
      BY <1>1, <1>2, <2>3, <3>2 DEF Pooled
    <3>3. CASE u = t /\ i # n + 1
      <4>1. i \in 1..n /\ k.pool[u][i] = m.pool[u][i]
        BY <1>1, <2>3, <3>3
      <4>2. i \in 1..Len(m.pool[u])
        BY <3>3, <4>1 DEF n
      <4> QED
        BY <1>1, <1>2, <4>1, <4>2 DEF Pooled
    <3> QED
      BY <3>1, <3>2, <3>3
  <2>6. MemTyped(k)
    <3>1. ASSUME NEW u \in Types PROVE Len(k.pool[u]) <= blck_size
      <4>1. CASE u = t
        BY <1>1, <1>3, <2>3, <4>1, Values
      <4>2. CASE u # t
        BY <2>3, <4>2 DEF Sane, MemTyped, Memory
      <4> QED
        BY <4>1, <4>2
    <3> QED
      BY <2>2, <3>1 DEF MemTyped
  <2>7. PoolsFree(k)
    BY <1>2, <2>2, <2>4, <2>5 DEF PoolsFree, Sane
  <2>8. PoolsApart(k)
    BY SMTT(60), <2>5 DEF PoolsApart, Sane
  <2>9. \A c \in Blocks : k.content[c] \in Data <=> c \in O \ {b}
    BY <2>4, Values DEF Sane
  <2>10. ASSUME NEW c \in Blocks, k.content[c] = Raw, c \notin k.lost PROVE Pooled(k, c)
    <3>1. CASE c = b
      BY <1>1, <2>3, <3>1 DEF Pooled
    <3>2. CASE c # b
      <4>1. PICK u \in Types : \E i \in 1..Len(m.pool[u]) : m.pool[u][i] = c
        BY <2>2, <2>4, <2>10, <3>2 DEF Sane, Pooled
      <4>2. PICK i \in 1..Len(m.pool[u]) : m.pool[u][i] = c
        BY <4>1
      <4>3. i \in 1..Len(k.pool[u]) /\ k.pool[u][i] = c
        <5>1. CASE u = t
          BY SMTT(60), <1>1, <2>3, <4>2, <5>1 DEF n
        <5>2. CASE u # t
          BY <2>3, <4>2, <5>2
        <5> QED
          BY <5>1, <5>2
      <4> QED
        BY <4>3 DEF Pooled
    <3> QED
      BY <3>1, <3>2
  <2>11. \A c \in k.lost : k.content[c] = Raw
    BY <1>2, <2>2, <2>4 DEF Sane
  <2> QED
    BY <2>1, <2>4, <2>6, <2>7, <2>8, <2>9, <2>10, <2>11 DEF Sane
<1>4. CASE ~(n < blck_size)
  <2> DEFINE k == [m EXCEPT !.content[b] = Unallocated]
  <2>1. Free(m, b) = k
    BY <1>4 DEF Free
  <2>2. /\ k.pool = m.pool /\ k.content = [m.content EXCEPT ![b] = Unallocated] /\ k.lost = m.lost
        /\ k \in Memory
    BY <1>1 DEF Sane, MemTyped, Memory
  <2>3. k.content[b] = Unallocated /\ \A c \in Blocks \ {b} : k.content[c] = m.content[c]
    BY <1>1, <2>2
  <2> HIDE DEF k
  <2>4. MemTyped(k) /\ PoolsApart(k)
    BY <2>2 DEF Sane, MemTyped, PoolsApart
  <2>5. PoolsFree(k)
    BY <1>1, <1>2, <2>2, <2>3 DEF Sane, MemTyped, Memory, PoolsFree, Pooled
  <2>6. \A c \in Blocks : k.content[c] \in Data <=> c \in O \ {b}
    BY <2>3, Values DEF Sane
  <2>7. \A c \in Blocks : k.content[c] = Raw /\ c \notin k.lost => Pooled(k, c)
    BY <2>2, <2>3, Values DEF Sane, Pooled
  <2>8. \A c \in k.lost : k.content[c] = Raw
    BY <1>2, <2>2, <2>3 DEF Sane
  <2> QED
    BY <2>1, <2>3, <2>4, <2>5, <2>6, <2>7, <2>8 DEF Sane
<1> QED
  BY <1>3, <1>4
(* The block b has been taken out of the pool or from the heap, and nobody *)
(* has it yet.                                                             *)
Taken(k, O, b) ==
    /\ MemTyped(k) /\ PoolsFree(k) /\ PoolsApart(k)
    /\ b \in Blocks \ O /\ ~Pooled(k, b) /\ b \notin k.lost
    /\ \A c \in Blocks : k.content[c] \in Data <=> c \in O
    /\ \A c \in Blocks \ {b} : k.content[c] = Raw /\ c \notin k.lost => Pooled(k, c)
    /\ \A c \in k.lost : k.content[c] = Raw

LEMMA TakenFromPool ==
    ASSUME NEW m, NEW O \in SUBSET Blocks, Sane(m, O), NEW t \in Types, m.pool[t] # <<>>
    PROVE  /\ Taken([m EXCEPT !.pool[t] = Front(@)], O, Last(m.pool[t]))
           /\ [m EXCEPT !.pool[t] = Front(@)].content = m.content
<1> DEFINE s == m.pool[t]
           n == Len(s)
           b == Last(s)
           k == [m EXCEPT !.pool[t] = Front(@)]
<1>1. /\ s \in Seq(Blocks) /\ n \in Nat /\ n >= 1 /\ m.pool \in [Types -> Seq(Blocks)] /\ m \in Memory
      /\ b = m.pool[t][n] /\ b \in Blocks
  BY DEF Sane, MemTyped, Memory, Last
<1>2. Front(s) \in Seq(Blocks) /\ Len(Front(s)) = n - 1 /\ \A i \in 1..(n - 1) : Front(s)[i] = s[i]
  BY <1>1 DEF Front
<1>3. k.pool = [m.pool EXCEPT ![t] = Front(@)] /\ k.content = m.content /\ k.lost = m.lost /\ k \in Memory
  <2>1. k = [m EXCEPT !.pool[t] = Front(s)]
    OBVIOUS
  <2>2. k \in Memory
    BY <1>1, <1>2, <2>1, PoolUpdate
  <2> QED
    BY <1>1, <2>2 DEF Memory
<1>4. /\ Len(k.pool[t]) = n - 1 /\ \A i \in 1..(n - 1) : k.pool[t][i] = m.pool[t][i]
      /\ \A u \in Types \ {t} : k.pool[u] = m.pool[u]
  BY <1>1, <1>2, <1>3
<1>5. n \in 1..n /\ n \in 1..Len(m.pool[t]) /\ m.pool[t][n] = b
  BY <1>1
<1>6. m.content[b] = Raw /\ b \notin m.lost /\ b \notin O
  BY <1>1, <1>5, Values DEF Sane, PoolsFree
<1> HIDE DEF k, b, n, s
<1>7. ASSUME NEW u \in Types, NEW i \in 1..Len(k.pool[u])
      PROVE  /\ i \in 1..Len(m.pool[u]) /\ k.pool[u][i] = m.pool[u][i] /\ m.pool[u][i] \in Blocks
             /\ ~(u = t /\ i = n)
  <2>1. i \in 1..Len(m.pool[u]) /\ k.pool[u][i] = m.pool[u][i] /\ ~(u = t /\ i = n)
    <3>1. CASE u = t
      <4>1. i \in 1..(n - 1) /\ n = Len(m.pool[t])
        BY <1>4, <1>7, <3>1 DEF n, s
      <4>2. i \in 1..n /\ i # n
        BY <1>1, <4>1
      <4> QED
        BY <1>4, <3>1, <4>1, <4>2
    <3>2. CASE u # t
      BY <1>4, <1>7, <3>2
    <3> QED
      BY <3>1, <3>2
  <2>2. m.pool[u] \in Seq(Blocks)
    BY <1>1
  <2> QED
    BY <2>1, <2>2
<1>8. MemTyped(k)
  <2>1. ASSUME NEW u \in Types PROVE Len(k.pool[u]) <= blck_size
    <3>1. Len(m.pool[u]) <= blck_size /\ n <= blck_size
      BY DEF Sane, MemTyped, n, s
    <3>2. CASE u = t
      BY <1>1, <1>4, <3>1, <3>2, Values
    <3>3. CASE u # t
      BY <1>4, <3>1, <3>3
    <3> QED
      BY <3>2, <3>3
  <2> QED
    BY <1>3, <2>1 DEF MemTyped
<1>9. PoolsFree(k) /\ PoolsApart(k)
  BY <1>3, <1>7 DEF Sane, PoolsFree, PoolsApart
<1>10. ~Pooled(k, b)
  <2>1. ASSUME NEW u \in Types, NEW i \in 1..Len(k.pool[u]), k.pool[u][i] = b PROVE FALSE
    <3>1. m.pool[u][i] = m.pool[t][n] /\ i \in 1..Len(m.pool[u])
      BY <1>5, <1>7, <2>1
    <3>2. u = t /\ i = n
      BY <1>5, <3>1 DEF Sane, PoolsApart
    <3> QED
      BY <1>7, <3>2
  <2> QED
    BY <2>1 DEF Pooled
<1>11. ASSUME NEW c \in Blocks \ {b}, k.content[c] = Raw, c \notin k.lost PROVE Pooled(k, c)
  <2>1. Pooled(m, c)
    BY <1>3, <1>11 DEF Sane
  <2>2. PICK u \in Types : \E i \in 1..Len(m.pool[u]) : m.pool[u][i] = c
    BY <2>1 DEF Pooled
  <2>3. PICK i \in 1..Len(m.pool[u]) : m.pool[u][i] = c
    BY <2>2
  <2>4. i \in 1..Len(k.pool[u]) /\ k.pool[u][i] = c
    <3>1. CASE u = t
      <4>1. i \in 1..n /\ i # n
        BY <1>5, <1>11, <2>3, <3>1 DEF n, s
      <4>2. i \in 1..(n - 1)
        BY <1>1, <4>1
      <4> QED
        BY <1>4, <2>3, <3>1, <4>2
    <3>2. CASE u # t
      BY <1>4, <2>3, <3>2
    <3> QED
      BY <3>1, <3>2
  <2> QED
    BY <2>4 DEF Pooled
<1>12. \A c \in Blocks : k.content[c] \in Data <=> c \in O
  BY <1>3 DEF Sane
<1>13. \A c \in k.lost : k.content[c] = Raw
  BY <1>3 DEF Sane
<1>14. Taken(k, O, b)
  BY <1>1, <1>3, <1>6, <1>8, <1>9, <1>10, <1>11, <1>12, <1>13 DEF Taken
<1> QED
  BY <1>3, <1>14 DEF k, b, s

LEMMA TakenFromHeap ==
    ASSUME NEW m, NEW O \in SUBSET Blocks, Sane(m, O), NEW b \in Blocks, m.content[b] = Unallocated
    PROVE  Taken(m, O, b)
<1>1. b \notin O /\ b \notin m.lost /\ ~Pooled(m, b)
  BY Values DEF Sane, PoolsFree, Pooled
<1> QED
  BY <1>1 DEF Taken, Sane

(* The object is made in the block, or its constructor throws and the      *)
(* block is lost.                                                          *)
LEMMA TakenUsed ==
    ASSUME NEW k, NEW O \in SUBSET Blocks, NEW b, Taken(k, O, b), NEW d \in Data
    PROVE  /\ Sane([k EXCEPT !.content[b] = d], O \cup {b})
           /\ [k EXCEPT !.content[b] = d].content = [k.content EXCEPT ![b] = d]
<1> DEFINE l == [k EXCEPT !.content[b] = d]
<1>1. k \in Memory /\ b \in Blocks
  BY DEF Taken, MemTyped
<1>2. l \in Memory /\ l.pool = k.pool /\ l.content = [k.content EXCEPT ![b] = d] /\ l.lost = k.lost
  BY <1>1, ContentUpdate DEF Memory
<1>3. l.content[b] = d /\ \A c \in Blocks \ {b} : l.content[c] = k.content[c]
  BY <1>1, <1>2 DEF Memory
<1> HIDE DEF l
<1>4. MemTyped(l) /\ PoolsApart(l)
  BY <1>2 DEF Taken, MemTyped, PoolsApart
<1>5. PoolsFree(l)
  BY <1>1, <1>2, <1>3 DEF Taken, MemTyped, Memory, PoolsFree, Pooled
<1>6. \A c \in Blocks : l.content[c] \in Data <=> c \in O \cup {b}
  BY <1>3 DEF Taken
<1>7. \A c \in Blocks : l.content[c] = Raw /\ c \notin l.lost => Pooled(l, c)
  BY <1>2, <1>3, Values DEF Taken, Pooled
<1>8. \A c \in l.lost : l.content[c] = Raw
  BY <1>1, <1>2, <1>3 DEF Taken, Memory
<1>9. Sane(l, O \cup {b})
  BY <1>4, <1>5, <1>6, <1>7, <1>8 DEF Sane
<1> QED
  BY <1>2, <1>9 DEF l

LEMMA TakenLost ==
    ASSUME NEW k, NEW O \in SUBSET Blocks, NEW b, Taken(k, O, b)
    PROVE  /\ Sane([k EXCEPT !.content[b] = Raw, !.lost = @ \cup {b}], O)
           /\ [k EXCEPT !.content[b] = Raw, !.lost = @ \cup {b}].content = [k.content EXCEPT ![b] = Raw]
<1> DEFINE l == [k EXCEPT !.content[b] = Raw, !.lost = @ \cup {b}]
<1>1. k \in Memory /\ b \in Blocks
  BY DEF Taken, MemTyped
<1>2. /\ l \in Memory /\ l.pool = k.pool /\ l.content = [k.content EXCEPT ![b] = Raw]
      /\ l.lost = k.lost \cup {b}
  BY <1>1 DEF Memory
<1>3. l.content[b] = Raw /\ \A c \in Blocks \ {b} : l.content[c] = k.content[c]
  BY <1>1, <1>2 DEF Memory
<1> HIDE DEF l
<1>4. MemTyped(l) /\ PoolsApart(l)
  BY <1>2 DEF Taken, MemTyped, PoolsApart
<1>5. PoolsFree(l)
  BY <1>1, <1>2, <1>3 DEF Taken, MemTyped, Memory, PoolsFree, Pooled
<1>6. \A c \in Blocks : l.content[c] \in Data <=> c \in O
  BY <1>3, Values DEF Taken
<1>7. \A c \in Blocks : l.content[c] = Raw /\ c \notin l.lost => Pooled(l, c)
  BY <1>2, <1>3 DEF Taken, Pooled
<1>8. \A c \in l.lost : l.content[c] = Raw
  BY <1>1, <1>2, <1>3 DEF Taken, Memory
<1>9. Sane(l, O)
  BY <1>4, <1>5, <1>6, <1>7, <1>8 DEF Sane
<1> QED
  BY <1>2, <1>9 DEF l

(* alloc() leaves every object alone: it gives a block that was nobody's,  *)
(* or throws.                                                              *)
LEMMA AllocSane ==
    ASSUME NEW m, NEW O \in SUBSET Blocks, Sane(m, O), NEW d \in Data, NEW o \in Alloc(m, d)
    PROVE  /\ \A c \in O : o.mem.content[c] = m.content[c]
           /\ \/ o.ptr = NoBlock /\ Sane(o.mem, O)
              \/ o.ptr \in Blocks \ O /\ o.mem.content[o.ptr] = d /\ Sane(o.mem, O \cup {o.ptr})
<1> DEFINE t == TypeOf(d)
           pooled == m.pool[t] # <<>>
           fresh == {b \in Blocks : m.content[b] = Unallocated}
           b == IF pooled THEN Last(m.pool[t]) ELSE CHOOSE x \in fresh : TRUE
           taken == IF pooled THEN [m EXCEPT !.pool[t] = Front(@)] ELSE m
<1>1. t \in Types /\ m.content \in [Blocks -> Data \cup {Raw, Unallocated}]
  BY Values DEF Sane, MemTyped, Memory
<1>2. CASE ~pooled /\ fresh = {}
  <2>1. o = [mem |-> m, ptr |-> NoBlock]
    BY <1>2 DEF Alloc
  <2> QED
    BY <2>1
<1>3. CASE ~(~pooled /\ fresh = {})
  <2>1. \/ o = [mem |-> [taken EXCEPT !.content[b] = d], ptr |-> b]
        \/ o = [mem |-> [taken EXCEPT !.content[b] = Raw, !.lost = @ \cup {b}], ptr |-> NoBlock]
    BY <1>3 DEF Alloc
  <2>2. Taken(taken, O, b) /\ taken.content = m.content
    <3>1. CASE pooled
      BY <1>1, <3>1, TakenFromPool
    <3>2. CASE ~pooled
      <4>1. b \in fresh
        BY <1>3, <3>2
      <4> QED
        BY <3>2, <4>1, TakenFromHeap
    <3> QED
      BY <3>1, <3>2
  <2> HIDE DEF b, taken
  <2>3. b \in Blocks \ O
    BY <2>2 DEF Taken
  <2>4. CASE o = [mem |-> [taken EXCEPT !.content[b] = d], ptr |-> b]
    <3>1. /\ Sane([taken EXCEPT !.content[b] = d], O \cup {b})
          /\ [taken EXCEPT !.content[b] = d].content = [m.content EXCEPT ![b] = d]
      BY <2>2, TakenUsed
    <3>2. o.ptr = b /\ Sane(o.mem, O \cup {b}) /\ o.mem.content = [m.content EXCEPT ![b] = d]
      BY <2>4, <3>1
    <3> QED
      BY <1>1, <2>3, <3>2
  <2>5. CASE o = [mem |-> [taken EXCEPT !.content[b] = Raw, !.lost = @ \cup {b}], ptr |-> NoBlock]
    <3>1. /\ Sane([taken EXCEPT !.content[b] = Raw, !.lost = @ \cup {b}], O)
          /\ [taken EXCEPT !.content[b] = Raw, !.lost = @ \cup {b}].content = [m.content EXCEPT ![b] = Raw]
      BY <2>2, TakenLost
    <3>2. o.ptr = NoBlock /\ Sane(o.mem, O) /\ o.mem.content = [m.content EXCEPT ![b] = Raw]
      BY <2>5, <3>1
    <3> QED
      BY <1>1, <2>3, <3>2
  <2> QED
    BY <2>1, <2>4, <2>5
<1> QED
  BY <1>2, <1>3

--------------------------------------------------------------------------------
AnyValues == [h \in Anys |-> Held(h)]
(* The blocks of all variables but one.                                    *)
Others(h) == {b \in Blocks : \E g \in Anys \ {h} : any[g] = Ptr(b)}

LEMMA HeldCases ==
    ASSUME AnyTyped, Good, NEW h \in Anys
    PROVE  /\ Sound(h) /\ AnyValues[h] = Held(h)
           /\ \/ any[h] = Absent /\ Held(h) = Gone /\ ~Exists(h) /\ any[h].status # "ptr"
              \/ any[h] = Null /\ Held(h) = None /\ Exists(h) /\ any[h].status # "ptr"
              \/ /\ any[h].status = "ptr" /\ any[h].ptr \in Owned(any) /\ any[h] = Ptr(any[h].ptr)
                 /\ Held(h) = mem.content[any[h].ptr] /\ Held(h) \in Data /\ Exists(h)
<1>1. any[h] \in Variable
  BY DEF AnyTyped
<1>2. AnyValues[h] = Held(h)
  BY DEF AnyValues
<1>3. CASE any[h] = Absent
  BY <1>2, <1>3 DEF Held, Exists, Sound, Absent
<1>4. CASE any[h] = Null
  BY <1>2, <1>4 DEF Held, Exists, Sound, Null
<1>5. CASE any[h].status = "ptr"
  <2>1. any[h].ptr \in Blocks /\ any[h] = Ptr(any[h].ptr)
    BY <1>1, <1>5, VariableCases
  <2>2. any[h].ptr \in Owned(any)
    BY <2>1 DEF Owned
  <2>3. mem.content[any[h].ptr] \in Data
    BY <2>1, <2>2 DEF Good, Sane
  <2> QED
    BY <1>2, <1>5, <2>1, <2>2, <2>3 DEF Held, Exists, Sound
<1> QED
  BY <1>1, <1>3, <1>4, <1>5, VariableCases

(* With the block of one variable given back, the others' are as before.   *)
LEMMA OthersOwned ==
    ASSUME AnyTyped, Good, NEW h \in Anys
    PROVE  /\ Others(h) \subseteq Owned(any) /\ Owned(any) \in SUBSET Blocks
           /\ any[h].status = "ptr" => Others(h) = Owned(any) \ {any[h].ptr}
           /\ any[h].status # "ptr" => Others(h) = Owned(any)
<1>1. Others(h) \subseteq Owned(any) /\ Owned(any) \in SUBSET Blocks
  BY DEF Others, Owned
<1>2. ASSUME any[h].status = "ptr" PROVE Others(h) = Owned(any) \ {any[h].ptr}
  <2>1. any[h] = Ptr(any[h].ptr) /\ any[h].ptr \in Blocks
    BY <1>2, VariableCases DEF AnyTyped
  <2>2. \A b \in Others(h) : b # any[h].ptr
    <3>1. ASSUME NEW b \in Others(h), b = any[h].ptr PROVE FALSE
      <4>1. PICK g \in Anys \ {h} : any[g] = Ptr(b)
        BY DEF Others
      <4>2. any[g] = any[h]
        BY <2>1, <3>1, <4>1
      <4> QED
        BY <1>2, <4>1, <4>2 DEF Good, Distinct
    <3> QED
      BY <3>1
  <2>3. \A b \in Owned(any) \ {any[h].ptr} : b \in Others(h)
    <3>1. ASSUME NEW b \in Owned(any) \ {any[h].ptr} PROVE b \in Others(h)
      <4>1. PICK g \in Anys : any[g] = Ptr(b)
        BY DEF Owned
      <4>2. g # h
        BY <3>1, <4>1, PtrParts
      <4> QED
        BY <3>1, <4>1, <4>2 DEF Others, Owned
    <3> QED
      BY <3>1
  <2> QED
    BY <1>1, <2>2, <2>3
<1>3. ASSUME any[h].status # "ptr" PROVE Others(h) = Owned(any)
  BY <1>3, PtrParts DEF Others, Owned
<1> QED
  BY <1>1, <1>2, <1>3

LEMMA RecycleSane ==
    ASSUME AnyTyped, Good, NEW h \in Anys
    PROVE  /\ Sane(Recycle(mem, h), Others(h))
           /\ \A c \in Others(h) : Recycle(mem, h).content[c] = mem.content[c]
<1>1. Sane(mem, Owned(any)) /\ Owned(any) \in SUBSET Blocks
  BY OthersOwned DEF Good
<1>2. CASE any[h].status = "ptr"
  <2>1. any[h].ptr \in Owned(any) /\ Others(h) = Owned(any) \ {any[h].ptr}
    BY <1>2, HeldCases, OthersOwned
  <2>2. Recycle(mem, h) = Free(mem, any[h].ptr)
    BY <1>2 DEF Recycle
  <2>3. /\ Sane(Free(mem, any[h].ptr), Owned(any) \ {any[h].ptr})
        /\ \A c \in Owned(any) \ {any[h].ptr} : Free(mem, any[h].ptr).content[c] = mem.content[c]
    BY <1>1, <2>1, FreeSane
  <2> QED
    BY <2>1, <2>2, <2>3
<1>3. CASE any[h].status # "ptr"
  <2>1. Others(h) = Owned(any) /\ Recycle(mem, h) = mem
    BY <1>3, OthersOwned DEF Recycle
  <2> QED
    BY <1>1, <2>1
<1> QED
  BY <1>2, <1>3

(* The other variables hold what they held when their blocks do.           *)
LEMMA OthersHold ==
    ASSUME AnyTyped, Good, NEW h \in Anys,
           \A c \in Others(h) : mem'.content[c] = mem.content[c],
           NEW g \in Anys \ {h}, any'[g] = any[g]
    PROVE  Held(g)' = Held(g)
<1>1. CASE any[g].status = "ptr"
  <2>1. any[g].ptr \in Others(h)
    <3>1. any[g].ptr \in Blocks /\ any[g] = Ptr(any[g].ptr)
      BY <1>1, VariableCases DEF AnyTyped
    <3> QED
      BY <3>1 DEF Others
  <2> QED
    BY <1>1, <2>1 DEF Held
<1>2. CASE any[g].status # "ptr"
  <2>1. any[g].status \in {"gone", "null"}
    BY <1>2, VariableCases DEF AnyTyped
  <2> QED
    BY <2>1 DEF Held
<1> QED
  BY <1>1, <1>2

Stored(h, d, op, g) ==
    \/ damaged'
    \/ /\ ~damaged' /\ AnyValues' = [AnyValues EXCEPT ![h] = d]
       /\ anyLast'.op = op /\ anyLast'.to = h /\ anyLast'.from = g /\ anyLast'.content = d
    \/ ~damaged' /\ anyLast'.op = "none" /\ AnyValues' = AnyValues

(* The end of an operation that gives d to h: h has it, or the operation   *)
(* threw and h, which had nothing, is as before.                           *)
LEMMA StoreOK ==
    ASSUME AnyTyped, Good, NEW h \in Anys, NEW g, NEW op, NEW d \in Data, NEW m,
           Sane(m, Others(h)), \A c \in Others(h) : m.content[c] = mem.content[c],
           StoreInto(h, m, d, op, g), undefined' = undefined, ~damaged
    PROVE  AnyInv' /\ Stored(h, d, op, g)
<1> USE DEF Stored
<1>1. PICK o \in Alloc(m, d) :
        /\ mem' = o.mem
        /\ IF o.ptr = NoBlock
           THEN /\ UNCHANGED any
                /\ Finished("none", h, g, d)
                /\ damaged' = (damaged \/ any[h].status = "ptr")
           ELSE /\ any' = [any EXCEPT ![h] = Ptr(o.ptr)]
                /\ Finished(op, h, g, d)
                /\ UNCHANGED damaged
  BY DEF StoreInto
<1>2. Others(h) \in SUBSET Blocks
  BY DEF Others
<1>3. /\ \A c \in Others(h) : o.mem.content[c] = m.content[c]
      /\ \/ o.ptr = NoBlock /\ Sane(o.mem, Others(h))
         \/ o.ptr \in Blocks \ Others(h) /\ o.mem.content[o.ptr] = d /\ Sane(o.mem, Others(h) \cup {o.ptr})
  BY <1>1, <1>2, AllocSane
<1>4. \A c \in Others(h) : mem'.content[c] = mem.content[c]
  BY <1>1, <1>3
<1>5. MemTyped(mem')
  BY <1>1, <1>3 DEF Sane
<1>6. any \in [Anys -> Variable] /\ damaged \in BOOLEAN /\ undefined \in BOOLEAN /\ undefined' \in BOOLEAN
  BY DEF AnyTyped
<1>7. CASE o.ptr = NoBlock
  <2>1. any' = any /\ Finished("none", h, g, d) /\ damaged' = (any[h].status = "ptr") /\ Sane(mem', Others(h))
    BY <1>1, <1>3, <1>7, Values
  <2>2. AnyTyped'
    <3>1. damaged' \in BOOLEAN
      BY <2>1
    <3> QED
      BY <1>5, <1>6, <2>1, <3>1 DEF AnyTyped
  <2>3. CASE damaged'
    BY <2>2, <2>3 DEF AnyInv
  <2>4. CASE ~damaged'
    <3>1. any[h].status # "ptr" /\ Others(h) = Owned(any)
      BY <2>1, <2>4, OthersOwned
    <3>2. Good'
      BY <2>1, <3>1 DEF Good, Distinct, Owned
    <3>3. Held(h)' = Held(h)
      <4>1. any[h].status \in {"gone", "null"}
        BY <1>6, <3>1, VariableCases
      <4> QED
        BY <2>1, <4>1 DEF Held
    <3>4. \A x \in Anys \ {h} : Held(x)' = Held(x)
      BY <1>4, <2>1, OthersHold
    <3>5. AnyValues' = AnyValues
      BY <3>3, <3>4 DEF AnyValues
    <3>6. anyLast'.op = "none"
      BY <2>1 DEF Finished
    <3> QED
      BY <2>2, <2>4, <3>2, <3>5, <3>6 DEF AnyInv
  <2> QED
    BY <2>3, <2>4
<1>8. CASE o.ptr # NoBlock
  <2> DEFINE b == o.ptr
  <2>1. /\ any' = [any EXCEPT ![h] = Ptr(b)] /\ Finished(op, h, g, d)
        /\ damaged' = damaged /\ ~damaged'
        /\ b \in Blocks \ Others(h) /\ mem'.content[b] = d /\ Sane(mem', Others(h) \cup {b})
    BY <1>1, <1>3, <1>8
  <2> HIDE DEF b
  <2>2. any'[h] = Ptr(b) /\ \A x \in Anys \ {h} : any'[x] = any[x]
    BY <1>6, <2>1
  <2>3. any' \in [Anys -> Variable]
    BY <1>6, <2>1 DEF Variable
  <2>4. Owned(any') = Others(h) \cup {b}
    BY <2>1, <2>2, PtrParts DEF Owned, Others
  <2>5. Distinct(any')
    <3>1. ASSUME NEW x \in Anys, NEW y \in Anys, any'[x].status = "ptr", any'[y] = any'[x], x # y PROVE FALSE
      <4>1. CASE x = h \/ y = h
        BY <2>1, <2>2, <3>1, <4>1 DEF Others
      <4>2. CASE x # h /\ y # h
        BY <2>2, <3>1, <4>2 DEF Good, Distinct
      <4> QED
        BY <4>1, <4>2
    <3> QED
      BY <3>1 DEF Distinct
  <2>6. AnyTyped'
    BY <1>5, <1>6, <2>1, <2>3 DEF AnyTyped
  <2>7. Good'
    <3>1. Sane(mem', Owned(any')) /\ ~undefined'
      BY <2>1, <2>4 DEF Good
    <3> QED
      BY <2>5, <3>1 DEF Good
  <2>8. Held(h)' = d
    BY <2>1, <2>2, PtrParts DEF Held
  <2>9. \A x \in Anys \ {h} : Held(x)' = Held(x)
    BY <1>4, <2>2, OthersHold
  <2>10. AnyValues' = [AnyValues EXCEPT ![h] = d]
    BY <2>8, <2>9 DEF AnyValues
  <2> QED
    BY <2>1, <2>6, <2>7, <2>10 DEF AnyInv, Finished
<1> QED
  BY <1>7, <1>8

--------------------------------------------------------------------------------
(* One lemma for each operation: the invariant is kept, and either what    *)
(* ValueHolder says of the operation has happened, or nothing because it   *)
(* threw, or the variable has been damaged.                                *)
Gave == anyLast'.op = "value" /\ AnyValues' = [AnyValues EXCEPT ![anyLast'.to] = anyLast'.content]
Copied ==
    /\ anyLast'.op = "copy" /\ AnyValues[anyLast'.from] # Gone
    /\ AnyValues' = IF AnyValues[anyLast'.from] = None /\ AnyValues[anyLast'.to] # Gone THEN AnyValues
                    ELSE [AnyValues EXCEPT ![anyLast'.to] = AnyValues[anyLast'.from]]
Moved ==
    /\ anyLast'.op = "move" /\ AnyValues[anyLast'.from] # Gone
    /\ AnyValues' = [AnyValues EXCEPT ![anyLast'.to] = AnyValues[anyLast'.from],
                         ![anyLast'.from] = IF AnyValues[anyLast'.to] = Gone THEN None ELSE AnyValues[anyLast'.to]]
Destroyed ==
    anyLast'.op = "destroy" /\ AnyValues[anyLast'.to] # Gone /\ AnyValues' = [AnyValues EXCEPT ![anyLast'.to] = Gone]
Threw == anyLast'.op = "none" /\ AnyValues' = AnyValues

Allowed == damaged' \/ (~damaged' /\ (Gave \/ Copied \/ Moved \/ Destroyed \/ Threw))

LEMMA GiveOK ==
    ASSUME AnyTyped, Good, ~damaged, NEW h \in Anys, NEW d \in Data, Construct(h, d) \/ AssignValue(h, d)
    PROVE  AnyInv' /\ Allowed
<1>1. PICK m : /\ Sane(m, Others(h)) /\ \A c \in Others(h) : m.content[c] = mem.content[c]
               /\ StoreInto(h, m, d, "value", h) /\ undefined' = undefined
  <2>1. CASE Construct(h, d)
    <3>1. Recycle(mem, h) = mem
      BY <2>1, HeldCases DEF Construct, Recycle
    <3> QED
      BY <2>1, <3>1, RecycleSane DEF Construct
  <2>2. CASE AssignValue(h, d)
    BY <2>2, RecycleSane DEF AssignValue
  <2> QED
    BY <2>1, <2>2
<1>2. AnyInv' /\ Stored(h, d, "value", h)
  <2> DEFINE op == "value"
  <2>1. StoreInto(h, m, d, op, h)
    BY <1>1
  <2> HIDE DEF op
  <2>2. AnyInv' /\ Stored(h, d, op, h)
    BY <1>1, <2>1, StoreOK
  <2> QED
    BY <2>2 DEF op
<1> QED
  BY <1>2 DEF Allowed, Gave, Threw, Stored

LEMMA EmptyOK ==
    ASSUME AnyTyped, Good, ~damaged, NEW h \in Anys, any[h].status # "ptr",
           any' = [any EXCEPT ![h] = Null], UNCHANGED <<mem, damaged, undefined>>
    PROVE  AnyInv' /\ AnyValues' = [AnyValues EXCEPT ![h] = None]
<1>1. any' \in [Anys -> Variable] /\ any'[h] = Null /\ \A x \in Anys \ {h} : any'[x] = any[x]
  BY DEF AnyTyped, Variable
<1>2. Null.status = "null" /\ \A b : Null # Ptr(b) /\ any[h] # Ptr(b)
  BY PtrParts DEF Null
<1>3. Owned(any') = Owned(any)
  BY <1>1, <1>2 DEF Owned
<1>4. Distinct(any')
  BY <1>1, <1>2 DEF Good, Distinct
<1>5. Good'
  BY <1>3, <1>4 DEF Good
<1>6. Held(h)' = None /\ \A x \in Anys \ {h} : Held(x)' = Held(x)
  BY <1>1, <1>2 DEF Held
<1>7. AnyValues' = [AnyValues EXCEPT ![h] = None]
  BY <1>6 DEF AnyValues
<1>8. AnyTyped'
  BY <1>1 DEF AnyTyped
<1> QED
  BY <1>5, <1>7, <1>8 DEF AnyInv

LEMMA ConstructEmptyOK ==
    ASSUME AnyTyped, Good, ~damaged, NEW h \in Anys, ConstructEmpty(h)
    PROVE  AnyInv' /\ Allowed
<1>1. any[h].status # "ptr"
  BY HeldCases DEF ConstructEmpty
<1>2. AnyInv' /\ AnyValues' = [AnyValues EXCEPT ![h] = None]
  BY <1>1, EmptyOK DEF ConstructEmpty
<1>3. anyLast'.op = "value" /\ anyLast'.to = h /\ anyLast'.content = None /\ ~damaged'
  BY DEF ConstructEmpty, Finished
<1> QED
  BY <1>2, <1>3 DEF Allowed, Gave

LEMMA CopyIntoOK ==
    ASSUME AnyTyped, Good, ~damaged, NEW h \in Anys, NEW g \in Anys, Exists(g), h # g,
           CopyInto(h, g), undefined' = undefined
    PROVE  AnyInv' /\ Allowed
<1>1. CASE any[g].status = "ptr"
  <2>1. /\ Held(g) = mem.content[any[g].ptr] /\ Held(g) \in Data /\ AnyValues[g] = Held(g)
    BY <1>1, HeldCases
  <2>2. StoreInto(h, Recycle(mem, h), Held(g), "copy", g)
    BY <1>1, <2>1 DEF CopyInto
  <2>3. PICK d, m, op : d \in Data /\ d = Held(g) /\ m = Recycle(mem, h) /\ op = "copy"
    BY <2>1
  <2>6. StoreInto(h, m, d, op, g)
    BY <2>2, <2>3
  <2>7. Sane(m, Others(h)) /\ \A c \in Others(h) : m.content[c] = mem.content[c]
    BY <2>3, RecycleSane
  <2>4. AnyInv' /\ Stored(h, d, op, g)
    BY <2>3, <2>6, <2>7, StoreOK
  <2>5. AnyValues[g] = d /\ d # Gone /\ d # None
    BY <2>1, <2>3, Values
  <2> QED
    BY <2>3, <2>4, <2>5 DEF Allowed, Copied, Threw, Stored
<1>2. CASE any[g].status # "ptr"
  <2>1. Held(g) = None /\ AnyValues[g] = None /\ AnyValues[h] = Held(h)
    BY <1>2, HeldCases
  <2>2. /\ any' = IF Exists(h) THEN any ELSE [any EXCEPT ![h] = Null]
        /\ Finished("copy", h, g, None)
        /\ UNCHANGED <<mem, damaged>>
    BY <1>2 DEF CopyInto
  <2>3. anyLast'.op = "copy" /\ anyLast'.to = h /\ anyLast'.from = g /\ ~damaged'
    BY <2>2 DEF Finished
  <2>4. CASE Exists(h)
    <3>1. AnyInv' /\ AnyValues' = AnyValues
      BY <2>2, <2>4 DEF AnyInv, AnyTyped, Good, AnyValues, Held
    <3>2. AnyValues[h] # Gone
      BY <2>1, <2>4, HeldCases, Values
    <3> QED
      BY <2>1, <2>3, <3>1, <3>2, Values DEF Allowed, Copied
  <2>5. CASE ~Exists(h)
    <3>1. any[h].status # "ptr" /\ AnyValues[h] = Gone
      BY <2>5, HeldCases
    <3>2. AnyInv' /\ AnyValues' = [AnyValues EXCEPT ![h] = None]
      BY <2>2, <2>5, <3>1, EmptyOK
    <3> QED
      BY <2>1, <2>3, <3>1, <3>2, Values DEF Allowed, Copied
  <2> QED
    BY <2>4, <2>5
<1> QED
  BY <1>1, <1>2

LEMMA CopyOK ==
    ASSUME AnyTyped, Good, ~damaged, NEW h \in Anys, NEW g \in Anys,
           CopyConstruct(h, g) \/ AssignCopy(h, g)
    PROVE  AnyInv' /\ Allowed
<1>1. h # g /\ Exists(g) /\ CopyInto(h, g) /\ undefined' = undefined
  BY DEF CopyConstruct, AssignCopy
<1> QED
  BY <1>1, CopyIntoOK

LEMMA AssignInsideOK ==
    ASSUME AnyTyped, Good, ~damaged, NEW h \in Anys, NEW g \in Anys, AssignInside(h, g)
    PROVE  AnyInv' /\ Allowed
<1>1. CASE g # h
  <2>1. CopyInto(h, g) /\ Exists(g) /\ undefined' = undefined
    BY <1>1, HeldCases DEF AssignInside, CopyInto
  <2> QED
    BY <1>1, <2>1, CopyIntoOK
<1>2. CASE g = h
  <2> DEFINE Outcome(o) ==
                 /\ mem' = o.mem
                 /\ any' = [any EXCEPT ![h] = IF o.ptr = NoBlock THEN @ ELSE Ptr(o.ptr)]
  <2>d. PICK d \in Data : \E o \in Alloc(Recycle(mem, h), d) : Outcome(o)
    BY <1>2 DEF AssignInside
  <2>1. PICK o \in Alloc(Recycle(mem, h), d) : Outcome(o)
    BY <2>d
  <2>2. Sane(Recycle(mem, h), Others(h)) /\ Others(h) \in SUBSET Blocks
    BY RecycleSane DEF Others
  <2>3. MemTyped(mem') /\ (o.ptr = NoBlock \/ o.ptr \in Blocks)
    <3>1. \/ o.ptr = NoBlock /\ Sane(o.mem, Others(h))
          \/ o.ptr \in Blocks /\ Sane(o.mem, Others(h) \cup {o.ptr})
      BY <2>2, AllocSane
    <3> QED
      BY <2>1, <3>1 DEF Sane
  <2>4. any' \in [Anys -> Variable]
    BY <2>1, <2>3 DEF AnyTyped, Variable
  <2>5. damaged' = TRUE /\ undefined' = undefined
    BY <1>2 DEF AssignInside
  <2>6. AnyTyped'
    BY <2>3, <2>4, <2>5 DEF AnyTyped
  <2> QED
    BY <2>5, <2>6 DEF AnyInv, Allowed
<1> QED
  BY <1>1, <1>2

LEMMA MoveOK ==
    ASSUME AnyTyped, Good, ~damaged, NEW h \in Anys, NEW g \in Anys, MoveInto(h, g)
    PROVE  AnyInv' /\ Allowed
<1> DEFINE r == IF Exists(h) THEN any[h] ELSE Null
<1>1. /\ h # g /\ Exists(g) /\ any' = [any EXCEPT ![h] = any[g], ![g] = r]
      /\ Finished("move", h, g, None) /\ UNCHANGED <<mem, damaged, undefined>>
  BY DEF MoveInto
<1>2. /\ r \in Variable /\ Null.status = "null" /\ Null # Absent /\ (r = any[h] \/ (r = Null /\ any[h] = Absent))
      /\ any \in [Anys -> Variable]
  <2>1. Null.status = "null" /\ Absent.status = "gone" /\ Null \in Variable /\ any \in [Anys -> Variable]
    BY DEF AnyTyped, Variable, Absent, Null
  <2>2. ~Exists(h) => any[h] = Absent
    BY HeldCases
  <2>3. CASE Exists(h)
    <3>1. r = any[h]
      BY <2>3
    <3> HIDE DEF r
    <3> QED
      BY <2>1, <3>1
  <2>4. CASE ~Exists(h)
    BY <2>1, <2>2, <2>4
  <2> QED
    BY <2>3, <2>4
<1>3. r.status = "ptr" => r = any[h]
  BY <1>2
<1>4. any[h] # r => any[h].status = "gone"
  BY <1>2 DEF Absent
<1> HIDE DEF r
<1>5. any' \in [Anys -> Variable] /\ any'[h] = any[g] /\ any'[g] = r /\ \A x \in Anys \ {h, g} : any'[x] = any[x]
  BY <1>1, <1>2
<1>6. Owned(any') = Owned(any)
  <2>1. \A b : (any[h] = Ptr(b)) <=> (r = Ptr(b))
    BY <1>3, <1>4, PtrParts
  <2> QED
    BY <1>1, <1>5, <2>1 DEF Owned
<1>7. Distinct(any')
  <2>1. ASSUME NEW x \in Anys, NEW y \in Anys, any'[x].status = "ptr", any'[y] = any'[x] PROVE y = x
    <3> DEFINE back(v) == IF v = h THEN g ELSE IF v = g THEN h ELSE v
    <3>1. any'[x] = any[back(x)] /\ any'[y] = any[back(y)] /\ back(x) \in Anys /\ back(y) \in Anys
      BY <1>1, <1>3, <1>5, <2>1
    <3>2. back(x) = back(y)
      <4> HIDE DEF back
      <4> QED
        BY <2>1, <3>1 DEF Good, Distinct
    <3> QED
      BY <3>2
  <2> QED
    BY <2>1 DEF Distinct
<1>8. AnyInv' /\ ~damaged'
  <2>1. AnyTyped'
    BY <1>1, <1>5 DEF AnyTyped
  <2>2. Good'
    BY <1>1, <1>6, <1>7 DEF Good
  <2> QED
    BY <1>1, <2>1, <2>2 DEF AnyInv
<1>9. /\ AnyValues[h] = Held(h) /\ AnyValues[g] = Held(g) /\ Held(g) # Gone
      /\ Held(h) = Gone <=> ~Exists(h)
  BY <1>1, HeldCases, Values
<1>10. /\ Held(h)' = Held(g) /\ Held(g)' = IF Held(h) = Gone THEN None ELSE Held(h)
       /\ \A x \in Anys \ {h, g} : Held(x)' = Held(x)
  <2>1. Held(h)' = Held(g) /\ \A x \in Anys \ {h, g} : Held(x)' = Held(x)
    BY <1>1, <1>5 DEF Held
  <2>2. CASE Exists(h)
    <3>1. r = any[h]
      BY <2>2 DEF r
    <3>2. Held(g)' = Held(h)
      BY <1>1, <1>5, <3>1 DEF Held
    <3> QED
      BY <1>9, <2>1, <2>2, <3>2
  <2>3. CASE ~Exists(h)
    <3>1. r = Null
      BY <2>3 DEF r
    <3>2. Held(g)' = None
      BY <1>2, <1>5, <3>1 DEF Held
    <3> QED
      BY <1>9, <2>1, <2>3, <3>2
  <2> QED
    BY <2>2, <2>3
<1>11. AnyValues' = [AnyValues EXCEPT ![h] = AnyValues[g],
                         ![g] = IF AnyValues[h] = Gone THEN None ELSE AnyValues[h]]
  BY <1>1, <1>9, <1>10 DEF AnyValues
<1>12. anyLast'.op = "move" /\ anyLast'.to = h /\ anyLast'.from = g
  BY <1>1 DEF Finished
<1> QED
  BY <1>8, <1>9, <1>11, <1>12 DEF Allowed, Moved

LEMMA DestructOK ==
    ASSUME AnyTyped, Good, ~damaged, NEW h \in Anys, Destruct(h)
    PROVE  AnyInv' /\ Allowed
<1>1. /\ Exists(h) /\ mem' = Recycle(mem, h) /\ any' = [any EXCEPT ![h] = Absent]
      /\ Finished("destroy", h, h, None) /\ UNCHANGED <<damaged, undefined>>
  BY DEF Destruct
<1>2. Sane(mem', Others(h)) /\ \A c \in Others(h) : mem'.content[c] = mem.content[c]
  BY <1>1, RecycleSane
<1>3. any' \in [Anys -> Variable] /\ any'[h] = Absent /\ \A x \in Anys \ {h} : any'[x] = any[x]
  BY <1>1 DEF AnyTyped, Variable
<1>4. Absent.status = "gone" /\ \A b : Absent # Ptr(b)
  BY PtrParts DEF Absent
<1>5. Owned(any') = Others(h)
  BY <1>3, <1>4 DEF Owned, Others
<1>6. Distinct(any')
  BY <1>3, <1>4 DEF Good, Distinct
<1>7. AnyInv' /\ ~damaged'
  <2>1. AnyTyped'
    BY <1>1, <1>2, <1>3 DEF AnyTyped, Sane
  <2>2. Good'
    BY <1>1, <1>2, <1>5, <1>6 DEF Good
  <2> QED
    BY <1>1, <2>1, <2>2 DEF AnyInv
<1>8. Held(h)' = Gone
  BY <1>3, <1>4 DEF Held
<1>9. \A x \in Anys \ {h} : Held(x)' = Held(x)
  BY <1>2, <1>3, OthersHold
<1>10. AnyValues' = [AnyValues EXCEPT ![h] = Gone]
  BY <1>8, <1>9 DEF AnyValues
<1>11. AnyValues[h] # Gone
  BY <1>1, HeldCases, Values
<1>12. anyLast'.op = "destroy" /\ anyLast'.to = h
  BY <1>1 DEF Finished
<1> QED
  BY <1>7, <1>10, <1>11, <1>12 DEF Allowed, Destroyed

(* What a step of the program keeps and does.  A freed block can be used   *)
(* only after a variable has been damaged.                                 *)
LEMMA AnyStep ==
    ASSUME AnyInv, AnyNext
    PROVE  AnyInv' /\ (~damaged' => ~damaged) /\ Allowed
<1>1. CASE UseFreed
  <2>1. damaged
    BY <1>1, HeldCases DEF AnyInv, UseFreed
  <2>2. damaged' = damaged /\ any' = any /\ mem' = mem /\ undefined' = TRUE
    BY <1>1 DEF UseFreed
  <2> QED
    BY <2>1, <2>2 DEF AnyInv, AnyTyped, Allowed
<1>2. CASE ~UseFreed
  <2>1. AnyTyped /\ Good /\ ~damaged
    BY <1>2 DEF AnyNext, AnyInv
  <2>2. PICK h \in Anys :
          \/ ConstructEmpty(h) \/ Destruct(h)
          \/ \E d \in Data : Construct(h, d) \/ AssignValue(h, d)
          \/ \E g \in Anys : CopyConstruct(h, g) \/ AssignCopy(h, g) \/ AssignInside(h, g)
                             \/ MoveInto(h, g)
    BY <1>2 DEF AnyNext
  <2>3. AnyInv' /\ Allowed
    BY <2>1, <2>2, ConstructEmptyOK, DestructOK, GiveOK, CopyOK, AssignInsideOK, MoveOK
  <2> QED
    BY <2>1, <2>3
<1> QED
  BY <1>1, <1>2

--------------------------------------------------------------------------------
LEMMA TimesMonotone ==
    ASSUME NEW a \in Nat, NEW b \in Nat, a <= b, NEW n \in Nat
    PROVE  a * n <= b * n
<1>1. PICK c \in Nat : b = a + c
  <2>1. b - a \in Nat /\ b = a + (b - a)
    OBVIOUS
  <2> QED
    BY <2>1
<1>2. b * n = a * n + c * n /\ c * n \in Nat /\ a * n \in Nat
  BY <1>1
<1> QED
  BY <1>2

(* There is memory enough for the constructor to fill half of each pool.   *)
LEMMA PoolsExist ==
    LET half == (blck_size + 1) \div 2
    IN  \E p \in [Types -> [1..half -> Blocks]] :
            \A t, u \in Types : \A i, j \in 1..half : p[t][i] = p[u][j] => t = u /\ i = j
<1> DEFINE half == (blck_size + 1) \div 2
           n == Cardinality(Types)
           S == Types \X (1..half)
<1>1. blck_size \in Nat /\ HeapBlocks \in Nat /\ IsFiniteSet(Types) /\ blck_size * n <= HeapBlocks
  BY AnyAssumption
<1>2. half \in Nat /\ half <= blck_size
  BY <1>1
<1>3. n \in Nat
  BY <1>1, FS_CardinalityType
<1>4. half * n <= HeapBlocks
  <2> HIDE DEF half, n
  <2>1. half * n <= blck_size * n
    BY <1>1, <1>2, <1>3, TimesMonotone
  <2>2. half * n \in Nat /\ blck_size * n \in Nat
    BY <1>1, <1>2, <1>3
  <2> QED
    BY <1>1, <2>1, <2>2
<1>5. IsFiniteSet(1..half) /\ Cardinality(1..half) = half
  <2> HIDE DEF half
  <2>1. 1 \in Int /\ half \in Int /\ (1 > half => half = 0) /\ half - 1 + 1 = half
    BY <1>2
  <2>2. IsFiniteSet(1..half) /\ Cardinality(1..half) = IF 1 > half THEN 0 ELSE half - 1 + 1
    BY <2>1, FS_Interval
  <2> QED
    BY <2>1, <2>2
<1>6. IsFiniteSet(S) /\ Cardinality(S) = n * half
  BY <1>1, <1>5, FS_Product
<1>7. ExistsBijection(1..(n * half), S)
  BY <1>6, FS_CardinalityType
<1>8. PICK f \in Bijection(1..(n * half), S) : TRUE
  BY <1>7 DEF ExistsBijection
<1> DEFINE at(t, i) == CHOOSE k \in 1..(n * half) : f[k] = <<t, i>>
           p == [t \in Types |-> [i \in 1..half |-> at(t, i)]]
<1>9. ASSUME NEW t \in Types, NEW i \in 1..half
      PROVE  at(t, i) \in Blocks /\ f[at(t, i)] = <<t, i>>
  <2>1. <<t, i>> \in S
    BY <1>9
  <2> HIDE DEF S, half, n
  <2>2. \E k \in 1..(n * half) : f[k] = <<t, i>>
    BY <1>8, <2>1 DEF Bijection, Surjection
  <2>3. at(t, i) \in 1..(n * half) /\ f[at(t, i)] = <<t, i>>
    BY <2>2
  <2>4. n * half = half * n /\ n * half \in Nat
    BY <1>2, <1>3
  <2> QED
    BY <1>1, <1>4, <2>3, <2>4 DEF Blocks
<1> HIDE DEF half, at
<1>10. p \in [Types -> [1..half -> Blocks]]
  BY <1>9
<1>11. ASSUME NEW t \in Types, NEW u \in Types, NEW i \in 1..half, NEW j \in 1..half, p[t][i] = p[u][j]
       PROVE  t = u /\ i = j
  <2>1. at(t, i) = at(u, j)
    BY <1>11
  <2>2. <<t, i>> = <<u, j>>
    BY <1>9, <2>1
  <2> QED
    BY <2>2
<1> HIDE DEF p
<1>12. \E q \in [Types -> [1..half -> Blocks]] :
          \A t, u \in Types : \A i, j \in 1..half : q[t][i] = q[u][j] => t = u /\ i = j
  BY <1>10, <1>11
<1> QED
  BY <1>12 DEF half

LEMMA AnyInitOK ==
    ASSUME AnyInit
    PROVE  AnyInv /\ Holder!HolderInit
<1> DEFINE half == (blck_size + 1) \div 2
           fits(p) == \A t, u \in Types : \A i, j \in 1..half : p[t][i] = p[u][j] => t = u /\ i = j
           pool == CHOOSE p \in [Types -> [1..half -> Blocks]] : fits(p)
           pooled(b) == \E t \in Types : \E i \in 1..half : pool[t][i] = b
<1>1. pool \in [Types -> [1..half -> Blocks]] /\ fits(pool)
  <2>1. \E p \in [Types -> [1..half -> Blocks]] : fits(p)
    BY PoolsExist
  <2> HIDE DEF half, fits
  <2> QED
    BY <2>1
<1>2. /\ any = [h \in Anys |-> Absent]
      /\ mem = [pool |-> pool, content |-> [b \in Blocks |-> IF pooled(b) THEN Raw ELSE Unallocated],
                lost |-> {}]
      /\ anyLast.op = "none" /\ ~damaged /\ damaged = FALSE /\ undefined = FALSE
  BY DEF AnyInit
<1>3. half \in Nat /\ half <= blck_size
  BY Values
<1> HIDE DEF pool, half
<1>4. \A t \in Types : pool[t] \in Seq(Blocks) /\ Len(pool[t]) = half
  BY <1>1, <1>3
<1>5. pool \in [Types -> Seq(Blocks)]
  BY <1>1, <1>4
<1>6. MemTyped(mem)
  BY <1>2, <1>3, <1>4, <1>5 DEF MemTyped, Memory
<1>7. \A b \in Blocks : Pooled(mem, b) <=> pooled(b)
  BY <1>2, <1>4 DEF Pooled
<1>8. PoolsApart(mem)
  BY <1>1, <1>2, <1>4 DEF PoolsApart
<1>9. PoolsFree(mem)
  <2>1. ASSUME NEW t \in Types, NEW i \in 1..Len(mem.pool[t])
        PROVE  mem.content[mem.pool[t][i]] = Raw /\ mem.pool[t][i] \notin mem.lost
    <3>1. i \in 1..half /\ mem.pool[t][i] = pool[t][i]
      BY <1>2, <1>4
    <3>2. pool[t][i] \in Blocks /\ pooled(pool[t][i])
      <4>1. pool[t][i] \in Blocks
        <5>1. pool[t] \in [1..half -> Blocks]
          BY <1>1
        <5> QED
          BY <3>1, <5>1
      <4>2. pooled(pool[t][i])
        BY <3>1
      <4> QED
        BY <4>1, <4>2
    <3> QED
      BY <1>2, <3>1, <3>2
  <2> QED
    BY <2>1 DEF PoolsFree
<1>10. \A h \in Anys : any[h] = Absent /\ any[h].status = "gone"
  BY <1>2 DEF Absent
<1>11. Owned(any) = {} /\ Distinct(any)
  BY <1>10, PtrParts DEF Owned, Distinct
<1>12. Sane(mem, Owned(any))
  <2>1. \A b \in Blocks : mem.content[b] = IF pooled(b) THEN Raw ELSE Unallocated
    BY <1>2
  <2>2. mem.lost = {}
    BY <1>2
  <2> HIDE DEF pooled
  <2> QED
    BY <1>6, <1>7, <1>8, <1>9, <1>11, <2>1, <2>2, Values DEF Sane
<1>13. AnyInv
  <2>1. any \in [Anys -> Variable]
    BY <1>2 DEF Variable
  <2> QED
    BY <1>2, <1>6, <1>11, <1>12, <2>1 DEF AnyInv, AnyTyped, Good
<1>14. Holder!HolderInit
  <2>1. \A h \in Anys : Held(h) = Gone
    BY <1>10 DEF Held
  <2> QED
    BY <1>2, <2>1 DEF Holder!HolderInit
<1> QED
  BY <1>13, <1>14

(* The inductive invariant: until a variable is damaged, the objects are   *)
(* those in the blocks that variables point to, no two variables to the    *)
(* same; and every other block is pooled once, lost, or with the heap.     *)
THEOREM AnyInvariant == AnySpec => []AnyInv
<1>1. AnyInit => AnyInv
  BY AnyInitOK
<1>2. AnyInv /\ [AnyNext]_anyVars => AnyInv'
  <2>1. ASSUME AnyInv, UNCHANGED anyVars PROVE AnyInv'
    BY <2>1 DEF anyVars, AnyInv, AnyTyped, Good
  <2> QED
    BY <2>1, AnyStep
<1> QED
  BY <1>1, <1>2, PTL DEF AnySpec

(* Pools never hold more than blck_size blocks, and a variable is empty or *)
(* points to a block, even after it has been damaged.                      *)
THEOREM AnyTypeCorrect == AnySpec => []AnyTypeOK
<1>1. AnyInv => AnyTypeOK
  BY DEF AnyInv, AnyTyped, AnyTypeOK, MemTyped, Memory, Variable
<1> QED
  BY <1>1, AnyInvariant, PTL

(* Each living object has one owner and each free block of a pool one      *)
(* place: nothing is freed twice or lost but by a constructor that throws, *)
(* and no freed block is used before a variable has been damaged.          *)
THEOREM BlocksOwnedOnceAlways == AnySpec => []BlocksOwnedOnce
<1>1. ASSUME AnyInv PROVE BlocksOwnedOnce
  <2> SUFFICES ASSUME ~damaged, NEW b \in Blocks
      PROVE  LET owners == {h \in Anys : any[h].status = "ptr" /\ any[h].ptr = b}
                 places == {p \in Types \X (1..blck_size) :
                                p[2] <= Len(mem.pool[p[1]]) /\ mem.pool[p[1]][p[2]] = b}
             IN  /\ Cardinality(owners) = (IF mem.content[b] \in Data THEN 1 ELSE 0)
                 /\ Cardinality(places) = (IF mem.content[b] = Raw /\ b \notin mem.lost THEN 1 ELSE 0)
    BY <1>1 DEF BlocksOwnedOnce, AnyInv, Good
  <2> DEFINE owners == {h \in Anys : any[h].status = "ptr" /\ any[h].ptr = b}
             places == {p \in Types \X (1..blck_size) :
                            p[2] <= Len(mem.pool[p[1]]) /\ mem.pool[p[1]][p[2]] = b}
  <2>1. AnyTyped /\ Good
    BY <1>1 DEF AnyInv
  <2>2. owners = {h \in Anys : any[h] = Ptr(b)}
    BY <2>1, VariableCases, PtrParts DEF AnyTyped
  <2>3. Cardinality(owners) = (IF mem.content[b] \in Data THEN 1 ELSE 0)
    <3>1. CASE mem.content[b] \in Data
      <4>1. PICK h \in Anys : any[h] = Ptr(b)
        BY <2>1, <3>1 DEF Good, Sane, Owned
      <4>2. owners = {h}
        BY <2>1, <2>2, <4>1, PtrParts DEF Good, Distinct
      <4> QED
        BY <3>1, <4>2, FS_Singleton
    <3>2. CASE mem.content[b] \notin Data
      <4>1. owners = {}
        BY <2>1, <2>2, <3>2 DEF Good, Sane, Owned
      <4> QED
        BY <3>2, <4>1, FS_EmptySet
    <3> QED
      BY <3>1, <3>2
  <2>4. Cardinality(places) = (IF mem.content[b] = Raw /\ b \notin mem.lost THEN 1 ELSE 0)
    <3>0. /\ blck_size \in Nat
          /\ \A t \in Types : Len(mem.pool[t]) \in Nat /\ Len(mem.pool[t]) <= blck_size
      BY <2>1, Values DEF AnyTyped, MemTyped, Memory
    <3>1. CASE mem.content[b] = Raw /\ b \notin mem.lost
      <4>1. PICK t \in Types : \E i \in 1..Len(mem.pool[t]) : mem.pool[t][i] = b
        BY <2>1, <3>1 DEF Good, Sane, Pooled
      <4>2. PICK i \in 1..Len(mem.pool[t]) : mem.pool[t][i] = b
        BY <4>1
      <4>3. <<t, i>> \in places
        BY <3>0, <4>2
      <4>4. ASSUME NEW p \in places PROVE p = <<t, i>>
        <5>1. p[1] \in Types /\ p[2] \in 1..Len(mem.pool[p[1]]) /\ mem.pool[p[1]][p[2]] = b /\ p = <<p[1], p[2]>>
          BY <3>0
        <5>2. p[1] = t /\ p[2] = i
          BY <2>1, <4>2, <5>1 DEF Good, Sane, PoolsApart
        <5> QED
          BY <5>1, <5>2
      <4>5. places = {<<t, i>>}
        BY <4>3, <4>4
      <4> QED
        BY <3>1, <4>5, FS_Singleton
    <3>2. CASE ~(mem.content[b] = Raw /\ b \notin mem.lost)
      <4>1. ASSUME NEW p \in places PROVE FALSE
        <5>1. p[1] \in Types /\ p[2] \in 1..Len(mem.pool[p[1]]) /\ mem.pool[p[1]][p[2]] = b
          BY <3>0
        <5> QED
          BY <2>1, <3>2, <5>1 DEF Good, Sane, PoolsFree
      <4>2. places = {}
        BY <4>1
      <4> QED
        BY <3>2, <4>2, FS_EmptySet
    <3> QED
      BY <3>1, <3>2
  <2> QED
    BY <2>3, <2>4
<1> QED
  BY <1>1, AnyInvariant, PTL

(* any implements ValueHolder: every operation has the effect of the one   *)
(* it is called for, on the variables it is called for and no others, or   *)
(* none when it throws, up to an assignment that throws over a value or    *)
(* reads the value it replaces.                                            *)
THEOREM HoldsWhatWasGivenAlways == AnySpec => HoldsWhatWasGiven
<1>1. AnyInit => Holder!HolderInit
  BY AnyInitOK
<1>2. AnyInv /\ [AnyNext]_anyVars => [Holder!HolderNext]_Holder!holderVars
  <2>1. ASSUME UNCHANGED anyVars PROVE UNCHANGED Holder!holderVars
    BY <2>1 DEF anyVars, Holder!holderVars, Held
  <2>2. ASSUME AnyInv, AnyNext PROVE Holder!HolderNext
    <3> DEFINE V == AnyValues
    <3>1. V = [h \in Anys |-> Held(h)] /\ V' = [h \in Anys |-> Held(h)']
      BY DEF AnyValues
    <3>2. (~damaged' => ~damaged) /\ Allowed
      BY <2>2, AnyStep
    <3>3. CASE damaged'
      BY <3>3 DEF Holder!HolderNext
    <3>4. CASE ~damaged'
      BY <3>1, <3>2, <3>4 DEF Allowed, Gave, Copied, Moved, Destroyed, Threw,
         Holder!HolderNext, Holder!Give, Holder!Copy, Holder!Move, Holder!Destroy
    <3> QED
      BY <3>3, <3>4
  <2> QED
    BY <2>1, <2>2
<1> QED
  BY <1>1, <1>2, AnyInvariant, PTL DEF AnySpec, HoldsWhatWasGiven, Holder!HolderSpec

-----------------------------------------------------------------------------
(* optional.                                                               *)
Records == [flag : BOOLEAN, data : OptData \cup {OptNone, OptGone}, home : Opts \cup {Temporary}]

(* A variable that is not constructed is known by its bytes.               *)
OptInv ==
    /\ OptTypeOK
    /\ \A h \in Opts : opt[h].data = OptGone => opt[h] = NoOptional

(* What may stand in a variable: an object, nothing, or no optional.       *)
Fit(r) ==
    /\ r \in Records
    /\ r.flag <=> r.data \in OptData
    /\ r.data = OptGone => r = NoOptional

Flagged(o) == {h \in Opts : o[h].flag}
Weight(r) == IF r.flag THEN 1 ELSE 0
OptValues(o) == [h \in Opts |-> o[h].data]

LEMMA FitRecords ==
    /\ Fit(NoValue) /\ Fit(NoOptional) /\ ~NoValue.flag /\ ~NoOptional.flag
    /\ NoValue.data = OptNone /\ NoOptional.data = OptGone
    /\ \A d \in OptData, p \in Opts \cup {Temporary} :
          Fit(Object(d, p)) /\ Object(d, p).flag /\ Object(d, p).data = d
<1>1. OptNone \notin OptData /\ OptGone \notin OptData /\ OptNone # OptGone
  BY OptAssumption
<1>2. Fit(NoValue) /\ ~NoValue.flag /\ NoValue.data = OptNone
  BY <1>1 DEF Fit, NoValue, Records
<1>3. Fit(NoOptional) /\ ~NoOptional.flag /\ NoOptional.data = OptGone
  BY <1>1 DEF Fit, NoOptional, Records
<1>4. ASSUME NEW d \in OptData, NEW p \in Opts \cup {Temporary}
      PROVE  Fit(Object(d, p)) /\ Object(d, p).flag /\ Object(d, p).data = d
  BY <1>1 DEF Fit, Object, Records
<1> QED
  BY <1>2, <1>3, <1>4

LEMMA OptFacts ==
    ASSUME OptInv
    PROVE  /\ opt \in [Opts -> Records] /\ \A h \in Opts : Fit(opt[h])
           /\ IsFiniteSet(Flagged(opt)) /\ alive = Cardinality(Flagged(opt)) /\ alive \in Nat
<1>1. opt \in [Opts -> Records] /\ alive = Cardinality(Flagged(opt))
  BY DEF OptInv, OptTypeOK, Records, Flagged
<1>2. Flagged(opt) \in SUBSET Opts
  BY DEF Flagged
<1>3. IsFiniteSet(Flagged(opt))
  BY <1>2, OptAssumption, FS_Subset
<1>4. alive \in Nat
  BY <1>1, <1>3, FS_CardinalityType
<1>5. \A h \in Opts : Fit(opt[h])
  BY <1>1 DEF OptInv, OptTypeOK, Fit
<1> QED
  BY <1>1, <1>3, <1>4, <1>5

(* One variable gets other bytes.                                          *)
LEMMA OneChange ==
    ASSUME OptInv, NEW h \in Opts, NEW r, Fit(r), NEW o, o = [opt EXCEPT ![h] = r]
    PROVE  /\ o \in [Opts -> Records] /\ \A g \in Opts : Fit(o[g])
           /\ IsFiniteSet(Flagged(o))
           /\ Cardinality(Flagged(o)) = alive + Weight(r) - Weight(opt[h])
           /\ OptValues(o) = [OptValues(opt) EXCEPT ![h] = r.data]
<1>1. /\ opt \in [Opts -> Records] /\ \A g \in Opts : Fit(opt[g])
      /\ IsFiniteSet(Flagged(opt)) /\ alive = Cardinality(Flagged(opt)) /\ alive \in Nat
  BY OptFacts
<1>2. o \in [Opts -> Records] /\ o[h] = r /\ \A g \in Opts \ {h} : o[g] = opt[g]
  BY <1>1 DEF Fit
<1>3. \A g \in Opts : Fit(o[g])
  BY <1>1, <1>2
<1>4. OptValues(o) = [OptValues(opt) EXCEPT ![h] = r.data]
  BY <1>2 DEF OptValues
<1>5. IsFiniteSet(Flagged(o)) /\ Cardinality(Flagged(o)) = alive + Weight(r) - Weight(opt[h])
  <2>1. CASE r.flag
    <3>1. Flagged(o) = Flagged(opt) \cup {h}
      BY <1>2, <2>1 DEF Flagged
    <3>2. h \in Flagged(opt) <=> opt[h].flag
      BY DEF Flagged
    <3>3. IsFiniteSet(Flagged(o)) /\ Cardinality(Flagged(o)) = IF opt[h].flag THEN alive ELSE alive + 1
      <4>1. IsFiniteSet(Flagged(o)) /\ Cardinality(Flagged(o)) = IF h \in Flagged(opt) THEN alive ELSE alive + 1
        <5> DEFINE B == Flagged(opt)
        <5>1. IsFiniteSet(B) /\ alive = Cardinality(B) /\ Flagged(o) = B \cup {h}
          BY <1>1, <3>1
        <5> HIDE DEF B
        <5>2. /\ IsFiniteSet(B \cup {h})
              /\ Cardinality(B \cup {h}) = IF h \in B THEN Cardinality(B) ELSE Cardinality(B) + 1
          BY <5>1, FS_AddElement
        <5> QED
          BY <5>1, <5>2 DEF B
      <4> QED
        BY <3>2, <4>1
    <3> QED
      BY <1>1, <2>1, <3>3 DEF Weight
  <2>2. CASE ~r.flag
    <3>1. Flagged(o) = Flagged(opt) \ {h}
      BY <1>2, <2>2 DEF Flagged
    <3>2. h \in Flagged(opt) <=> opt[h].flag
      BY DEF Flagged
    <3>3. IsFiniteSet(Flagged(o)) /\ Cardinality(Flagged(o)) = IF opt[h].flag THEN alive - 1 ELSE alive
      <4>1. IsFiniteSet(Flagged(o)) /\ Cardinality(Flagged(o)) = IF h \in Flagged(opt) THEN alive - 1 ELSE alive
        <5> DEFINE B == Flagged(opt)
        <5>1. IsFiniteSet(B) /\ alive = Cardinality(B) /\ Flagged(o) = B \ {h}
          BY <1>1, <3>1
        <5> HIDE DEF B
        <5>2. /\ IsFiniteSet(B \ {h})
              /\ Cardinality(B \ {h}) = IF h \in B THEN Cardinality(B) - 1 ELSE Cardinality(B)
          BY <5>1, FS_RemoveElement
        <5> QED
          BY <5>1, <5>2 DEF B
      <4> QED
        BY <3>2, <4>1
    <3> QED
      BY <1>1, <2>2, <3>3 DEF Weight
  <2> QED
    BY <2>1, <2>2
<1> QED
  BY <1>2, <1>3, <1>4, <1>5

(* Two variables exchange their bytes, or the first is new.                *)
LEMMA Exchange ==
    ASSUME OptInv, NEW h \in Opts, NEW g \in Opts, h # g, NEW r, Fit(r), r.flag <=> opt[h].flag,
           NEW o, o = [opt EXCEPT ![h] = opt[g], ![g] = r]
    PROVE  /\ o \in [Opts -> Records] /\ \A x \in Opts : Fit(o[x])
           /\ Cardinality(Flagged(o)) = alive
           /\ OptValues(o) = [OptValues(opt) EXCEPT ![h] = opt[g].data, ![g] = r.data]
<1>1. /\ opt \in [Opts -> Records] /\ \A x \in Opts : Fit(opt[x])
      /\ IsFiniteSet(Flagged(opt)) /\ alive = Cardinality(Flagged(opt)) /\ alive \in Nat
  BY OptFacts
<1>2. o \in [Opts -> Records] /\ o[h] = opt[g] /\ o[g] = r /\ \A x \in Opts \ {h, g} : o[x] = opt[x]
  BY <1>1 DEF Fit
<1>3. \A x \in Opts : Fit(o[x])
  BY <1>1, <1>2
<1>4. OptValues(o) = [OptValues(opt) EXCEPT ![h] = opt[g].data, ![g] = r.data]
  BY <1>2 DEF OptValues
<1>5. Cardinality(Flagged(o)) = alive
  <2> DEFINE F == Flagged(opt)
             without == F \ {h}
  <2>1. h \in F <=> opt[h].flag
    BY DEF Flagged
  <2>2. g \in F <=> opt[g].flag
    BY DEF Flagged
  <2>3. IsFiniteSet(F) /\ alive = Cardinality(F)
    BY <1>1
  <2>4. CASE opt[h].flag <=> opt[g].flag
    <3>1. Flagged(o) = F
      BY <1>2, <2>4 DEF Flagged
    <3> QED
      BY <2>3, <3>1
  <2>5. CASE opt[h].flag /\ ~opt[g].flag
    <3>1. Flagged(o) = (F \ {h}) \cup {g}
      BY <1>2, <2>5 DEF Flagged
    <3>2. IsFiniteSet(F \ {h}) /\ Cardinality(F \ {h}) = alive - 1 /\ g \notin F \ {h}
      BY <2>1, <2>2, <2>3, <2>5, FS_RemoveElement
    <3>3. Cardinality(Flagged(o)) = (alive - 1) + 1
      BY <3>1, <3>2, FS_AddElement
    <3> QED
      BY <1>1, <3>3
  <2>6. CASE ~opt[h].flag /\ opt[g].flag
    <3>1. Flagged(o) = (F \ {g}) \cup {h}
      BY <1>2, <2>6 DEF Flagged
    <3>2. IsFiniteSet(F \ {g}) /\ Cardinality(F \ {g}) = alive - 1 /\ h \notin F \ {g}
      BY <2>1, <2>2, <2>3, <2>6, FS_RemoveElement
    <3>3. Cardinality(Flagged(o)) = (alive - 1) + 1
      BY <3>1, <3>2, FS_AddElement
    <3> QED
      BY <1>1, <3>3
  <2> QED
    BY <2>4, <2>5, <2>6
<1> QED
  BY <1>2, <1>3, <1>4, <1>5

--------------------------------------------------------------------------------
(* What every operation does: it puts fit bytes into place and counts.     *)
LEMMA PlacedOK ==
    ASSUME OptInv, NEW o, o \in [Opts -> Records], \A h \in Opts : Fit(o[h]),
           Placed(o), alive' = Cardinality(Flagged(o))
    PROVE  OptInv' /\ OptValues(opt)' = OptValues(o)
<1>1. opt' = o /\ relocatable' = relocatable /\ misplaced' \in BOOLEAN
  <2>1. misplaced \in BOOLEAN
    BY DEF OptInv, OptTypeOK
  <2> QED
    BY <2>1 DEF Placed
<1>2. OptTypeOK'
  BY <1>1 DEF OptInv, OptTypeOK, Fit, Records, Flagged
<1> QED
  BY <1>1, <1>2 DEF OptInv, Fit, OptValues

LEMMA ThrewOK ==
    ASSUME OptInv, UNCHANGED <<opt, relocatable, alive, misplaced>>
    PROVE  OptInv' /\ OptValues(opt)' = OptValues(opt)
BY DEF OptInv, OptTypeOK, OptValues

LEMMA OptConstructOK ==
    ASSUME OptInv, NEW h \in Opts, NEW d \in OptData \cup {OptNone}, NEW op, NEW g, OptConstruct(h, d, op, g)
    PROVE  /\ OptInv'
           /\ \/ optLast'.op = op /\ optLast'.to = h /\ optLast'.from = g /\ optLast'.content = d
                 /\ OptValues(opt)' = [OptValues(opt) EXCEPT ![h] = d]
              \/ optLast'.op = "none" /\ OptValues(opt)' = OptValues(opt)
<1>1. CASE /\ Placed([opt EXCEPT ![h] = IF d = OptNone THEN NoValue ELSE Object(d, h)])
           /\ alive' = alive + (IF d = OptNone THEN 0 ELSE 1)
           /\ OptFinished(op, h, g, d)
  <2> DEFINE r == IF d = OptNone THEN NoValue ELSE Object(d, h)
             o == [opt EXCEPT ![h] = r]
  <2>1. Fit(r) /\ Weight(r) = (IF d = OptNone THEN 0 ELSE 1) /\ r.data = d
    BY FitRecords DEF Weight
  <2>2. Weight(opt[h]) = 0
    BY FitRecords DEF OptConstruct, Lives, Weight
  <2> HIDE DEF r
  <2>3. /\ o \in [Opts -> Records] /\ \A x \in Opts : Fit(o[x])
        /\ Cardinality(Flagged(o)) = alive + Weight(r) - Weight(opt[h])
        /\ OptValues(o) = [OptValues(opt) EXCEPT ![h] = d]
    BY <2>1, OneChange
  <2>4. Placed(o)
    BY <1>1 DEF r
  <2>5. alive' = Cardinality(Flagged(o))
    <3>1. alive \in Nat
      BY OptFacts
    <3> QED
      BY <1>1, <2>1, <2>2, <2>3, <3>1
  <2> HIDE DEF o
  <2>6. OptInv' /\ OptValues(opt)' = OptValues(o)
    BY <2>3, <2>4, <2>5, PlacedOK
  <2> QED
    BY <1>1, <2>3, <2>6 DEF OptFinished
<1>2. CASE /\ OptFinished("none", h, g, d)
           /\ UNCHANGED <<opt, relocatable, alive, misplaced>>
  BY <1>2, ThrewOK DEF OptFinished
<1> QED
  BY <1>1, <1>2 DEF OptConstruct

LEMMA OptAssignOK ==
    ASSUME OptInv, NEW h \in Opts, NEW d \in OptData \cup {OptNone}, NEW op, NEW g, OptAssign(h, d, op, g)
    PROVE  /\ OptInv'
           /\ \/ optLast'.op = op /\ optLast'.to = h /\ optLast'.from = g /\ optLast'.content = d
                 /\ OptValues(opt)' = [OptValues(opt) EXCEPT ![h] = d]
              \/ optLast'.op = "none" /\ OptValues(opt)' = OptValues(opt)
<1>1. CASE /\ Placed([opt EXCEPT ![h] = IF d = OptNone THEN NoValue ELSE Object(d, Temporary)])
           /\ alive' = alive + (IF d = OptNone THEN 0 ELSE 1) - Engaged(h)
           /\ OptFinished(op, h, g, d)
  <2> DEFINE r == IF d = OptNone THEN NoValue ELSE Object(d, Temporary)
             o == [opt EXCEPT ![h] = r]
  <2>1. Fit(r) /\ Weight(r) = (IF d = OptNone THEN 0 ELSE 1) /\ r.data = d
    BY FitRecords DEF Weight
  <2>2. Weight(opt[h]) = Engaged(h)
    BY DEF Weight, Engaged
  <2> HIDE DEF r
  <2>3. /\ o \in [Opts -> Records] /\ \A x \in Opts : Fit(o[x])
        /\ Cardinality(Flagged(o)) = alive + Weight(r) - Weight(opt[h])
        /\ OptValues(o) = [OptValues(opt) EXCEPT ![h] = d]
    BY <2>1, OneChange
  <2>4. Placed(o)
    BY <1>1 DEF r
  <2>5. alive' = Cardinality(Flagged(o))
    BY <1>1, <2>1, <2>2, <2>3
  <2> HIDE DEF o
  <2>6. OptInv' /\ OptValues(opt)' = OptValues(o)
    BY <2>3, <2>4, <2>5, PlacedOK
  <2> QED
    BY <1>1, <2>3, <2>6 DEF OptFinished
<1>2. CASE /\ OptFinished("none", h, g, d)
           /\ UNCHANGED <<opt, relocatable, alive, misplaced>>
  BY <1>2, ThrewOK DEF OptFinished
<1> QED
  BY <1>1, <1>2 DEF OptAssign

LEMMA OptMoveOK ==
    ASSUME OptInv, NEW h \in Opts, NEW g \in Opts, OptMove(h, g)
    PROVE  /\ OptInv' /\ opt[g].data # OptGone
           /\ optLast'.op = "move" /\ optLast'.to = h /\ optLast'.from = g
           /\ OptValues(opt)' = [OptValues(opt) EXCEPT ![h] = opt[g].data,
                                     ![g] = IF opt[h].data = OptGone THEN OptNone ELSE opt[h].data]
<1> DEFINE r == IF Lives(h) THEN opt[h] ELSE NoValue
           o == [opt EXCEPT ![h] = opt[g], ![g] = r]
<1>1. \A x \in Opts : Fit(opt[x])
  BY OptFacts
<1>2. Lives(h) <=> opt[h].data # OptGone
  BY <1>1, FitRecords DEF Lives, Fit
<1>3. Fit(r) /\ (r.flag <=> opt[h].flag) /\ r.data = IF opt[h].data = OptGone THEN OptNone ELSE opt[h].data
  BY <1>1, <1>2, FitRecords DEF Lives
<1>4. h # g /\ Lives(g) /\ Placed(o) /\ alive' = alive /\ OptFinished("move", h, g, OptNone)
  BY DEF OptMove
<1>5. opt[g].data # OptGone
  BY <1>1, <1>4 DEF Fit, Lives
<1> HIDE DEF r
<1>6. /\ o \in [Opts -> Records] /\ \A x \in Opts : Fit(o[x])
      /\ Cardinality(Flagged(o)) = alive
      /\ OptValues(o) = [OptValues(opt) EXCEPT ![h] = opt[g].data, ![g] = r.data]
  BY SMTT(60), <1>3, <1>4, Exchange
<1> HIDE DEF o
<1>7. OptInv' /\ OptValues(opt)' = OptValues(o)
  BY <1>4, <1>6, PlacedOK
<1> QED
  BY <1>3, <1>4, <1>5, <1>6, <1>7 DEF OptFinished

LEMMA OptDestructOK ==
    ASSUME OptInv, NEW h \in Opts, OptDestruct(h)
    PROVE  /\ OptInv' /\ opt[h].data # OptGone
           /\ optLast'.op = "destroy" /\ optLast'.to = h
           /\ OptValues(opt)' = [OptValues(opt) EXCEPT ![h] = OptGone]
<1> DEFINE r == NoOptional
           o == [opt EXCEPT ![h] = r]
<1>1. Fit(r) /\ Weight(r) = 0 /\ r.data = OptGone
  BY FitRecords DEF Weight
<1>2. Lives(h) /\ Placed(o) /\ alive' = alive - Engaged(h) /\ OptFinished("destroy", h, h, OptNone)
  BY DEF OptDestruct
<1>3. opt[h].data # OptGone
  BY <1>2, OptFacts DEF Lives, Fit
<1> HIDE DEF r
<1>4. /\ o \in [Opts -> Records] /\ \A x \in Opts : Fit(o[x])
      /\ Cardinality(Flagged(o)) = alive + Weight(r) - Weight(opt[h])
      /\ OptValues(o) = [OptValues(opt) EXCEPT ![h] = OptGone]
  BY <1>1, OneChange
<1>5. alive' = Cardinality(Flagged(o))
  <2>1. Weight(opt[h]) = Engaged(h) /\ Engaged(h) \in Nat /\ alive \in Nat
    BY OptFacts DEF Weight, Engaged
  <2> QED
    BY <1>1, <1>2, <1>4, <2>1
<1> HIDE DEF o
<1>6. OptInv' /\ OptValues(opt)' = OptValues(o)
  BY <1>2, <1>4, <1>5, PlacedOK
<1> QED
  BY <1>2, <1>3, <1>4, <1>6 DEF OptFinished

(* One step of optional is one of the holder, or has misplaced an object.  *)
LEMMA OptStep ==
    ASSUME OptInv, OptNext
    PROVE  OptInv' /\ OptHolder!HolderNext
<1> DEFINE V == OptValues(opt)
<1>1. V = [h \in Opts |-> opt[h].data] /\ V' = [h \in Opts |-> opt'[h].data] /\ ~misplaced
      /\ \A h \in Opts : V[h] = opt[h].data
  BY DEF OptNext, OptValues
<1>2. /\ OptInv'
      /\ \/ optLast'.op = "value" /\ V' = [V EXCEPT ![optLast'.to] = optLast'.content]
         \/ optLast'.op = "copy" /\ V[optLast'.from] # OptGone /\ V' = [V EXCEPT ![optLast'.to] = V[optLast'.from]]
         \/ /\ optLast'.op = "move" /\ V[optLast'.from] # OptGone
            /\ V' = [V EXCEPT ![optLast'.to] = V[optLast'.from],
                              ![optLast'.from] = IF V[optLast'.to] = OptGone THEN OptNone ELSE V[optLast'.to]]
         \/ optLast'.op = "destroy" /\ V[optLast'.to] # OptGone /\ V' = [V EXCEPT ![optLast'.to] = OptGone]
         \/ optLast'.op = "none" /\ V' = V
  <2>1. ASSUME NEW h \in Opts, OptDestruct(h)
        PROVE  OptInv' /\ optLast'.op = "destroy" /\ V[optLast'.to] # OptGone /\ V' = [V EXCEPT ![optLast'.to] = OptGone]
    BY <1>1, <2>1, OptDestructOK
  <2>2. ASSUME NEW h \in Opts, NEW d \in OptData \cup {OptNone}, OptConstruct(h, d, "value", h) \/ OptAssign(h, d, "value", h)
        PROVE  /\ OptInv'
               /\ \/ optLast'.op = "value" /\ V' = [V EXCEPT ![optLast'.to] = optLast'.content]
                  \/ optLast'.op = "none" /\ V' = V
    BY <2>2, OptConstructOK, OptAssignOK
  <2>3. ASSUME NEW h \in Opts, NEW g \in Opts, OptMove(h, g)
        PROVE  /\ OptInv'
               /\ optLast'.op = "move" /\ V[optLast'.from] # OptGone
               /\ V' = [V EXCEPT ![optLast'.to] = V[optLast'.from],
                                 ![optLast'.from] = IF V[optLast'.to] = OptGone THEN OptNone ELSE V[optLast'.to]]
    <3>1. /\ OptInv' /\ opt[g].data # OptGone
          /\ optLast'.op = "move" /\ optLast'.to = h /\ optLast'.from = g
          /\ V' = [V EXCEPT ![h] = opt[g].data,
                            ![g] = IF opt[h].data = OptGone THEN OptNone ELSE opt[h].data]
      BY <2>3, OptMoveOK
    <3>2. V[h] = opt[h].data /\ V[g] = opt[g].data
      BY <1>1
    <3> HIDE DEF V
    <3> QED
      BY <3>1, <3>2
  <2>4. ASSUME NEW h \in Opts, NEW g \in Opts, Lives(g),
               OptConstruct(h, opt[g].data, "copy", g) \/ OptAssign(h, opt[g].data, "copy", g)
        PROVE  /\ OptInv'
               /\ \/ optLast'.op = "copy" /\ V[optLast'.from] # OptGone /\ V' = [V EXCEPT ![optLast'.to] = V[optLast'.from]]
                  \/ optLast'.op = "none" /\ V' = V
    <3>1. opt[g].data \in OptData \cup {OptNone}
      BY <2>4, OptFacts DEF Fit, Records, Lives
    <3>2. opt[g].data # OptGone
      BY <3>1, OptAssumption
    <3>3. /\ OptInv'
          /\ \/ optLast'.op = "copy" /\ optLast'.to = h /\ optLast'.from = g
                /\ V' = [V EXCEPT ![h] = opt[g].data]
             \/ optLast'.op = "none" /\ V' = V
      <4>1. CASE OptConstruct(h, opt[g].data, "copy", g)
        BY SMTT(60), <3>1, <4>1, OptConstructOK
      <4>2. CASE OptAssign(h, opt[g].data, "copy", g)
        BY SMTT(60), <3>1, <4>2, OptAssignOK
      <4> QED
        BY <2>4, <4>1, <4>2
    <3>4. V[g] = opt[g].data
      BY <1>1
    <3> HIDE DEF V
    <3> QED
      BY <3>2, <3>3, <3>4
  <2> QED
    BY <2>1, <2>2, <2>3, <2>4 DEF OptNext
<1>3. CASE misplaced'
  BY <1>2, <1>3 DEF OptHolder!HolderNext
<1>4. CASE ~misplaced'
  BY <1>1, <1>2, <1>4 DEF OptHolder!HolderNext, OptHolder!Give, OptHolder!Copy, OptHolder!Move, OptHolder!Destroy
<1> QED
  BY <1>2, <1>3, <1>4

LEMMA OptInitOK ==
    ASSUME OptInit
    PROVE  OptInv /\ OptHolder!HolderInit
<1>1. opt = [h \in Opts |-> NoOptional] /\ Flagged(opt) = {}
  BY FitRecords DEF OptInit, Flagged
<1>2. alive = Cardinality({h \in Opts : opt[h].flag})
  BY <1>1, FS_EmptySet DEF OptInit, Flagged
<1>3. OptTypeOK
  <2>1. \A h \in Opts : opt[h] \in Records /\ (opt[h].flag <=> opt[h].data \in OptData)
    BY <1>1, FitRecords DEF Fit
  <2>2. opt \in [Opts -> Records]
    BY <1>1, <2>1
  <2> QED
    BY <1>2, <2>1, <2>2 DEF OptInit, OptTypeOK, Records
<1>4. OptInv
  BY <1>1, <1>3 DEF OptInv
<1>5. OptHolder!HolderInit
  BY <1>1, FitRecords DEF OptInit, OptHolder!HolderInit
<1> QED
  BY <1>4, <1>5

(* The inductive invariant: the bytes of every variable fit its flag, and  *)
(* a variable that is not constructed can be told from an empty one.       *)
THEOREM OptInvariant == OptSpec => []OptInv
<1>1. OptInit => OptInv
  BY OptInitOK
<1>2. OptInv /\ [OptNext]_optVars => OptInv'
  <2>1. ASSUME OptInv, UNCHANGED optVars PROVE OptInv'
    BY <2>1, ThrewOK DEF optVars
  <2> QED
    BY <2>1, OptStep
<1> QED
  BY <1>1, <1>2, PTL DEF OptSpec

(* The flag tells whether an object lives in the bytes, and as many live   *)
(* as there are flags: none is lost or destroyed twice.                    *)
THEOREM OptTypeCorrect == OptSpec => []OptTypeOK
<1>1. OptInv => OptTypeOK
  BY DEF OptInv
<1> QED
  BY <1>1, OptInvariant, PTL

(* optional implements ValueHolder: every operation has the effect of the  *)
(* one it is called for, on the variables it is called for and no others,  *)
(* up to the move of an object that cannot be moved by its bytes.          *)
THEOREM OptionalHoldsAlways == OptSpec => OptionalHolds
<1>1. OptInit => OptHolder!HolderInit
  BY OptInitOK
<1>2. OptInv /\ [OptNext]_optVars => [OptHolder!HolderNext]_OptHolder!holderVars
  <2>1. ASSUME UNCHANGED optVars PROVE UNCHANGED OptHolder!holderVars
    BY <2>1 DEF optVars, OptHolder!holderVars
  <2> QED
    BY <2>1, OptStep
<1> QED
  BY <1>1, <1>2, OptInvariant, PTL DEF OptSpec, OptionalHolds, OptHolder!HolderSpec

-----------------------------------------------------------------------------
(* The composition: a step is one of a component while the others stay.    *)
LEMMA EmitterInComposition == Spec => EvSpec
<1>1. Init => EvInit
  BY DEF Init
<1>2. [Next]_<<evVars, anyVars, optVars, part>> => [EvNext]_evVars
  BY DEF Next
<1> QED
  BY <1>1, <1>2, PTL DEF Spec, EvSpec

LEMMA AnyInComposition == Spec => AnySpec
<1>1. Init => AnyInit
  BY DEF Init
<1>2. [Next]_<<evVars, anyVars, optVars, part>> => [AnyNext]_anyVars
  BY DEF Next
<1> QED
  BY <1>1, <1>2, PTL DEF Spec, AnySpec

LEMMA OptionalInComposition == Spec => OptSpec
<1>1. Init => OptInit
  BY DEF Init
<1>2. [Next]_<<evVars, anyVars, optVars, part>> => [OptNext]_optVars
  BY DEF Next
<1> QED
  BY <1>1, <1>2, PTL DEF Spec, OptSpec

(* The emitter, any and optional keep their types next to each other:      *)
(* MCObjects.TypeOK.                                                       *)
THEOREM ObjectsTypeCorrect == Spec => []TypeOK
BY EmitterInComposition, AnyInComposition, OptionalInComposition,
   EmitterTypeCorrect, AnyTypeCorrect, OptTypeCorrect, PTL DEF TypeOK
=============================================================================
