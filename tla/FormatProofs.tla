----------------------------- MODULE FormatProofs -----------------------------
(***************************************************************************)
(* What a recursion over a sequence computes, by induction over the        *)
(* numbers; and with it what Format writes, for all format strings.        *)
(***************************************************************************)
EXTENDS Format, SequenceTheorems, FiniteSetTheorems, WellFoundedInduction, TLAPS

(* Every set of natural numbers that is not empty has a least member.      *)
LEMMA Least ==
    ASSUME NEW T \in SUBSET Nat, T # {}
    PROVE  \E n \in T : \A m \in T : n <= m
<1> DEFINE R == {p \in Nat \X Nat : p[1] < p[2]}
<1>1. IsWellFoundedOn(R, Nat)
  BY NatLessThanWellFounded DEF OpToRel
<1> HIDE DEF R
<1>2. PICK n \in T : \A m \in T : ~(<<m, n>> \in R)
  BY <1>1, WFMin
<1>3. ASSUME NEW m \in T PROVE n <= m
  <2>1. m \in Nat /\ n \in Nat
    OBVIOUS
  <2>2. ~(<<m, n>> \in {p \in Nat \X Nat : p[1] < p[2]})
    BY <1>2 DEF R
  <2> QED
    BY <2>1, <2>2
<1> QED
  BY <1>3

(* Induction, over the numbers a property holds of.                        *)
LEMMA Induct ==
    ASSUME NEW T \in SUBSET Nat, 0 \in T, \A n \in T : n + 1 \in T
    PROVE  T = Nat
<1> SUFFICES ASSUME T # Nat PROVE FALSE
  OBVIOUS
<1>1. PICK n \in Nat \ T : \A m \in Nat \ T : n <= m
  BY Least
<1>2. n - 1 \in T
  BY <1>1
<1> QED
  BY <1>1, <1>2

LEMMA InductUpTo ==
    ASSUME NEW n \in Nat, NEW T, 0 \in T, \A m \in 0..n : m < n /\ m \in T => m + 1 \in T
    PROVE  \A m \in 0..n : m \in T
<1> DEFINE U == {m \in Nat : m <= n => m \in T}
<1>1. 0 \in U
  OBVIOUS
<1>2. ASSUME NEW m \in Nat, m \in U PROVE m + 1 \in U
  BY <1>2
<1>3. U \in SUBSET Nat
  OBVIOUS
<1> HIDE DEF U
<1>4. U = Nat
  BY <1>1, <1>2, <1>3, Induct
<1> QED
  BY <1>4 DEF U

(* g holds what a recursion over 1..n comes to that starts from b.         *)
Computes(g, n, b, step) ==
    g[0] = b /\ \A i \in 1..n : g[i] = step[<<i, g[i - 1]>>]

LEMMA RecursionExists ==
    ASSUME NEW S, NEW b \in S, NEW n \in Nat, NEW step \in [(1..n) \X S -> S]
    PROVE  \E g \in [0..n -> S] : Computes(g, n, b, step)
<1> DEFINE T == {m \in Nat : m <= n => \E g \in [0..m -> S] : Computes(g, m, b, step)}
<1>1. 0 \in T
  <2>1. [i \in 0..0 |-> b] \in [0..0 -> S] /\ Computes([i \in 0..0 |-> b], 0, b, step)
    BY DEF Computes
  <2> QED
    BY <2>1
<1>2. ASSUME NEW m \in Nat, m \in T PROVE m + 1 \in T
  <2> SUFFICES ASSUME m + 1 <= n PROVE \E g \in [0..(m + 1) -> S] : Computes(g, m + 1, b, step)
    OBVIOUS
  <2>1. PICK g \in [0..m -> S] : Computes(g, m, b, step)
    BY <1>2
  <2> HIDE DEF T
  <2> DEFINE h == [i \in 0..(m + 1) |-> IF i = m + 1 THEN step[<<m + 1, g[m]>>] ELSE g[i]]
  <2>2. step[<<m + 1, g[m]>>] \in S
    <3>1. g[m] \in S /\ m + 1 \in 1..n
      BY <2>1
    <3> QED
      BY <3>1
  <2>3. h \in [0..(m + 1) -> S]
    BY <2>2
  <2>4. h[0] = b
    BY <2>1 DEF Computes
  <2>5. ASSUME NEW i \in 1..(m + 1) PROVE h[i] = step[<<i, h[i - 1]>>]
    <3>1. CASE i = m + 1
      <4>1. h[m + 1] = step[<<m + 1, g[m]>>] /\ h[m] = g[m]
        OBVIOUS
      <4>2. i - 1 = m
        BY <3>1
      <4> QED
        BY <3>1, <4>1, <4>2
    <3>2. CASE i # m + 1
      <4>1. i \in 1..m /\ i - 1 \in 0..m /\ i \in 0..m
        BY <3>2
      <4>2. h[i] = g[i] /\ h[i - 1] = g[i - 1]
        BY <4>1
      <4> QED
        BY <4>1, <4>2, <2>1 DEF Computes
    <3> QED
      BY <3>1, <3>2
  <2>6. Computes(h, m + 1, b, step)
    BY <2>4, <2>5 DEF Computes
  <2> QED
    BY <2>3, <2>6
<1>3. T = Nat
  <2>1. T \in SUBSET Nat
    OBVIOUS
  <2> HIDE DEF T
  <2> QED
    BY <1>1, <1>2, <2>1, Induct
<1> QED
  BY <1>3

Associates(t, u, v) == (t \o u) \o v = t \o (u \o v)

LEMMA Associative ==
    ASSUME NEW S, NEW t \in Seq(S), NEW u \in Seq(S), NEW v \in Seq(S)
    PROVE  Associates(t, u, v)
BY ConcatAssociative DEF Associates

ConcatIs(S, s, t, u) ==
    /\ u \in Seq(S) /\ Len(u) = Len(s) + Len(t)
    /\ \A i \in 1..Len(s) + Len(t) : u[i] = IF i <= Len(s) THEN s[i] ELSE t[i - Len(s)]

LEMMA ConcatFacts ==
    ASSUME NEW S, NEW s \in Seq(S), NEW t \in Seq(S)
    PROVE  ConcatIs(S, s, t, s \o t)
BY ConcatProperties DEF ConcatIs

(* The concatenations of the first sequences of ss.                        *)
Flattens(g, ss) ==
    g[0] = <<>> /\ \A i \in 1..Len(ss) : g[i] = g[i - 1] \o ss[i]

LEMMA FlattensExists ==
    ASSUME NEW S, NEW ss \in Seq(Seq(S))
    PROVE  \E g \in [0..Len(ss) -> Seq(S)] : Flattens(g, ss)
<1> DEFINE step == [p \in (1..Len(ss)) \X Seq(S) |-> p[2] \o ss[p[1]]]
<1>1. step \in [(1..Len(ss)) \X Seq(S) -> Seq(S)]
  BY ConcatProperties
<1>2. <<>> \in Seq(S) /\ Len(ss) \in Nat
  OBVIOUS
<1> HIDE DEF step
<1>3. PICK g \in [0..Len(ss) -> Seq(S)] : Computes(g, Len(ss), <<>>, step)
  BY <1>1, <1>2, RecursionExists
<1>4. ASSUME NEW i \in 1..Len(ss) PROVE g[i] = g[i - 1] \o ss[i]
  <2>0. i - 1 \in 0..Len(ss)
    BY <1>2
  <2>1. g[i - 1] \in Seq(S) /\ <<i, g[i - 1]>> \in (1..Len(ss)) \X Seq(S)
    BY <2>0
  <2>2. step[<<i, g[i - 1]>>] = g[i - 1] \o ss[i]
    BY <2>1 DEF step
  <2> QED
    BY <1>3, <2>2 DEF Computes
<1> QED
  BY <1>3, <1>4 DEF Computes, Flattens

LEMMA FlattenIs ==
    ASSUME NEW S, NEW ss \in Seq(Seq(S)), NEW g \in [0..Len(ss) -> Seq(S)], Flattens(g, ss)
    PROVE  FlattenSeq(ss) = g[Len(ss)]
<1>1. CASE Len(ss) = 0
  BY <1>1 DEF Flattens, FlattenSeq
<1>2. CASE Len(ss) # 0
  <2> DEFINE D == 1..Len(ss)
             h == [i \in D |-> g[i]]
             flatten == CHOOSE f : f = [i \in D |-> IF i = 1 THEN ss[i] ELSE f[i - 1] \o ss[i]]
  <2>1. Len(ss) \in Nat /\ \A i \in D : g[i] \in Seq(S) /\ ss[i] \in Seq(S)
    <3>1. Len(ss) \in Nat
      OBVIOUS
    <3>2. ASSUME NEW i \in D PROVE g[i] \in Seq(S) /\ ss[i] \in Seq(S)
      <4>1. i \in 0..Len(ss) /\ i \in 1..Len(ss)
        BY <3>1
      <4> QED
        BY <4>1, ElementOfSeq
    <3> QED
      BY <3>1, <3>2
  <2>2. \A i \in D : g[i] = IF i = 1 THEN ss[i] ELSE g[i - 1] \o ss[i]
    <3> SUFFICES ASSUME NEW i \in D PROVE g[i] = IF i = 1 THEN ss[i] ELSE g[i - 1] \o ss[i]
      OBVIOUS
    <3>1. g[i] = g[i - 1] \o ss[i]
      BY DEF Flattens
    <3>2. CASE i = 1
      <4>1. g[i] = <<>> \o ss[i] /\ ss[i] \in Seq(S)
        BY <3>1, <3>2, <2>1 DEF Flattens
      <4> QED
        BY <4>1, <3>2, ConcatEmptySeq
    <3> QED
      BY <3>1, <3>2
  <2>3. h = [i \in D |-> IF i = 1 THEN ss[i] ELSE h[i - 1] \o ss[i]]
    <3>1. \A i \in D : i # 1 => i - 1 \in D
      BY <2>1
    <3> HIDE DEF D
    <3>2. ASSUME NEW i \in D PROVE h[i] = IF i = 1 THEN ss[i] ELSE h[i - 1] \o ss[i]
      BY <3>1, <2>2
    <3> QED
      BY <3>2
  <2>4. flatten = [i \in D |-> IF i = 1 THEN ss[i] ELSE flatten[i - 1] \o ss[i]]
    <3> HIDE DEF h
    <3> QED
      BY <2>3
  <2>5. FlattenSeq(ss) = flatten[Len(ss)]
    BY <1>2 DEF FlattenSeq
  <2> HIDE DEF flatten
  <2>6. \A i \in D : flatten[i] = IF i = 1 THEN ss[i] ELSE flatten[i - 1] \o ss[i]
    BY <2>4
  <2> DEFINE T == {m \in Nat : m + 1 \in D => flatten[m + 1] = g[m + 1]}
  <2>7. 0 \in T
    BY <2>6, <2>2
  <2>8. ASSUME NEW m \in Nat, m \in T PROVE m + 1 \in T
    <3> SUFFICES ASSUME m + 2 \in D PROVE flatten[m + 2] = g[m + 2]
      OBVIOUS
    <3>1. m + 1 \in D /\ (m + 2) - 1 = m + 1 /\ m + 2 # 1
      BY <2>1
    <3> HIDE DEF D
    <3>2. flatten[m + 1] = g[m + 1]
      BY <2>8, <3>1
    <3> HIDE DEF T
    <3>3. flatten[m + 2] = flatten[m + 1] \o ss[m + 2] /\ g[m + 2] = g[m + 1] \o ss[m + 2]
      BY <3>1, <2>6, <2>2
    <3> QED
      BY <3>2, <3>3
  <2>9. T = Nat
    <3>1. T \in SUBSET Nat
      OBVIOUS
    <3> HIDE DEF T
    <3> QED BY <2>7, <2>8, <3>1, Induct
  <2>10. Len(ss) - 1 \in T /\ Len(ss) \in D
    <3> HIDE DEF T
    <3> QED BY <2>9, <2>1, <1>2
  <2>11. (Len(ss) - 1) + 1 = Len(ss)
    BY <2>1
  <2> QED
    BY <2>10, <2>11, <2>5
<1> QED
  BY <1>1, <1>2

LEMMA FlattenIn ==
    ASSUME NEW S, NEW ss \in Seq(Seq(S))
    PROVE  FlattenSeq(ss) \in Seq(S)
<1>1. PICK g \in [0..Len(ss) -> Seq(S)] : Flattens(g, ss)
  BY FlattensExists
<1>2. Len(ss) \in 0..Len(ss)
  OBVIOUS
<1> QED
  BY <1>1, <1>2, FlattenIs

LEMMA FlattenConcat ==
    ASSUME NEW S, NEW ss \in Seq(Seq(S)), NEW tt \in Seq(Seq(S))
    PROVE  FlattenSeq(ss \o tt) = FlattenSeq(ss) \o FlattenSeq(tt)
<1> DEFINE both == ss \o tt
<1>1. /\ both \in Seq(Seq(S)) /\ Len(both) = Len(ss) + Len(tt)
      /\ \A i \in 1..Len(ss) : both[i] = ss[i]
      /\ \A i \in 1..Len(tt) : both[Len(ss) + i] = tt[i]
  <2>1. /\ both \in Seq(Seq(S)) /\ Len(both) = Len(ss) + Len(tt)
        /\ \A i \in 1..Len(ss) + Len(tt) :
              both[i] = IF i <= Len(ss) THEN ss[i] ELSE tt[i - Len(ss)]
    BY ConcatProperties
  <2>2. Len(ss) \in Nat /\ Len(tt) \in Nat
    OBVIOUS
  <2> HIDE DEF both
  <2>3. ASSUME NEW i \in 1..Len(tt) PROVE both[Len(ss) + i] = tt[i]
    <3>1. /\ Len(ss) + i \in 1..Len(ss) + Len(tt) /\ ~(Len(ss) + i <= Len(ss))
          /\ (Len(ss) + i) - Len(ss) = i
      BY <2>2
    <3> QED
      BY <3>1, <2>1
  <2> QED
    BY <2>1, <2>2, <2>3
<1>2. Len(ss) \in Nat /\ Len(tt) \in Nat
  OBVIOUS
<1> HIDE DEF both
<1>3. PICK g \in [0..Len(both) -> Seq(S)] : Flattens(g, both)
  BY <1>1, FlattensExists
<1>4. PICK gs \in [0..Len(ss) -> Seq(S)] : Flattens(gs, ss)
  BY FlattensExists
<1>5. PICK gt \in [0..Len(tt) -> Seq(S)] : Flattens(gt, tt)
  BY FlattensExists
<1> DEFINE T == {m \in Nat : m <= Len(ss) => g[m] = gs[m]}
<1>6. T = Nat
  <2>1. 0 \in T
    BY <1>3, <1>4 DEF Flattens
  <2>2. ASSUME NEW m \in Nat, m \in T PROVE m + 1 \in T
    <3> SUFFICES ASSUME m + 1 <= Len(ss) PROVE g[m + 1] = gs[m + 1]
      OBVIOUS
    <3>1. g[m] = gs[m]
      BY <2>2, <1>2
    <3>2. m + 1 \in 1..Len(ss) /\ m + 1 \in 1..Len(both) /\ (m + 1) - 1 = m
      BY <1>1, <1>2
    <3>3. g[m + 1] = g[m] \o both[m + 1] /\ gs[m + 1] = gs[m] \o ss[m + 1]
      BY <3>2, <1>3, <1>4 DEF Flattens
    <3>4. both[m + 1] = ss[m + 1]
      BY <3>2, <1>1
    <3> HIDE DEF T
    <3> QED
      BY <3>1, <3>3, <3>4
  <2>3. T \in SUBSET Nat
    OBVIOUS
  <2> HIDE DEF T
  <2> QED
    BY <2>1, <2>2, <2>3, Induct
<1>7. gs[Len(ss)] \in Seq(S) /\ g[Len(ss)] = gs[Len(ss)]
  <2>1. Len(ss) \in T /\ Len(ss) \in 0..Len(ss)
    <3> HIDE DEF T
    <3> QED BY <1>2, <1>6
  <2> QED
    BY <2>1
<1> HIDE DEF T
<1> DEFINE a == gs[Len(ss)]
           U == {m \in 0..Len(tt) : g[Len(ss) + m] = a \o gt[m]}
<1> HIDE DEF a
<1>8. \A m \in 0..Len(tt) : m \in U
  <2>1. 0 \in U
    <3>1. Len(ss) + 0 = Len(ss) /\ gt[0] = <<>>
      BY <1>2, <1>5 DEF Flattens
    <3>2. a \o <<>> = a
      BY <1>7, ConcatEmptySeq DEF a
    <3> QED
      BY <3>1, <3>2, <1>7, <1>2 DEF a
  <2>2. ASSUME NEW m \in 0..Len(tt), m < Len(tt), m \in U PROVE m + 1 \in U
    <3>1. g[Len(ss) + m] = a \o gt[m]
      BY <2>2
    <3> HIDE DEF U
    <3>2. /\ m + 1 \in 1..Len(tt) /\ Len(ss) + (m + 1) \in 1..Len(both) /\ (m + 1) - 1 = m
          /\ (Len(ss) + (m + 1)) - 1 = Len(ss) + m /\ m \in 0..Len(tt)
      BY <1>1, <1>2, <2>2
    <3>3. /\ g[Len(ss) + (m + 1)] = g[Len(ss) + m] \o both[Len(ss) + (m + 1)]
          /\ gt[m + 1] = gt[m] \o tt[m + 1]
      BY <3>2, <1>3, <1>5 DEF Flattens
    <3>4. both[Len(ss) + (m + 1)] = tt[m + 1] /\ tt[m + 1] \in Seq(S) /\ gt[m] \in Seq(S)
      BY <3>2, <1>1, ElementOfSeq
    <3> DEFINE b == gt[m]
               c == tt[m + 1]
    <3>5. a \in Seq(S) /\ b \in Seq(S) /\ c \in Seq(S)
      BY <3>4, <1>7 DEF a
    <3> HIDE DEF b, c
    <3>6. (a \o b) \o c = a \o (b \o c)
      <4>1. Associates(a, b, c)
        BY <3>5, Associative
      <4> QED
        BY <4>1, Zenon DEF Associates
    <3>7. g[Len(ss) + (m + 1)] = a \o gt[m + 1]
      BY <3>1, <3>3, <3>4, <3>6 DEF b, c
    <3> QED
      BY <3>7, <3>2, <1>2 DEF U
  <2> HIDE DEF U
  <2> QED
    BY <2>1, <2>2, <1>2, InductUpTo
<1>9. g[Len(both)] = gs[Len(ss)] \o gt[Len(tt)]
  <2>1. Len(tt) \in U
    <3> HIDE DEF U
    <3> QED BY <1>8, <1>2
  <2> QED
    BY <2>1, <1>1, <1>2 DEF a
<1> QED
  BY <1>1, <1>3, <1>4, <1>5, <1>9, FlattenIs DEF both

LEMMA FlattenOne ==
    ASSUME NEW S, NEW s \in Seq(S)
    PROVE  FlattenSeq(<<s>>) = s
<1>1. <<s>> \in Seq(Seq(S)) /\ Len(<<s>>) = 1 /\ <<s>>[1] = s
  OBVIOUS
<1>2. PICK g \in [0..Len(<<s>>) -> Seq(S)] : Flattens(g, <<s>>)
  BY <1>1, FlattensExists
<1>3. g[1] = <<>> \o s
  <2>1. 1 \in 1..Len(<<s>>) /\ 1 - 1 = 0
    BY <1>1
  <2> QED
    BY <2>1, <1>1, <1>2 DEF Flattens
<1>4. FlattenSeq(<<s>>) = g[1]
  BY <1>1, <1>2, FlattenIs
<1> QED
  BY <1>3, <1>4, ConcatEmptySeq

(* A sequence is the concatenation of its elements.                        *)
Singles(t) == [i \in 1..Len(t) |-> <<t[i]>>]

LEMMA SinglesIs ==
    ASSUME NEW S, NEW t \in Seq(S)
    PROVE  /\ Singles(t) \in Seq(Seq(S)) /\ Len(Singles(t)) = Len(t) /\ Len(t) \in Nat
           /\ \A i \in 1..Len(t) : Singles(t)[i] = <<t[i]>>
BY DEF Singles

LEMMA FlattenSingles ==
    ASSUME NEW S, NEW t \in Seq(S)
    PROVE  FlattenSeq(Singles(t)) = t
<1>1. /\ Singles(t) \in Seq(Seq(S)) /\ Len(Singles(t)) = Len(t) /\ Len(t) \in Nat
      /\ \A i \in 1..Len(t) : Singles(t)[i] = <<t[i]>>
  BY SinglesIs
<1>2. \A i \in 1..Len(t) : Singles(t)[i] = <<t[i]>>
  BY <1>1
<1>3. PICK g \in [0..Len(Singles(t)) -> Seq(S)] : Flattens(g, Singles(t))
  BY <1>1, FlattensExists
<1> DEFINE T == {m \in Nat : m <= Len(t) => g[m] = SubSeq(t, 1, m)}
<1>4. T = Nat
  <2>1. 0 \in T
    <3>1. SubSeq(t, 1, 0) = <<>>
      BY SubSeqEmpty
    <3> QED
      BY <1>3, <3>1 DEF Flattens
  <2>2. ASSUME NEW m \in Nat, m \in T PROVE m + 1 \in T
    <3> SUFFICES ASSUME m + 1 <= Len(t) PROVE g[m + 1] = SubSeq(t, 1, m + 1)
      OBVIOUS
    <3>1. g[m] = SubSeq(t, 1, m)
      BY <2>2, <1>1
    <3>2. m + 1 \in 1..Len(t) /\ (m + 1) - 1 = m /\ 1 \in 1..Len(t)
      BY <1>1
    <3>3. g[m + 1] = g[m] \o <<t[m + 1]>>
      BY <3>2, <1>1, <1>2, <1>3 DEF Flattens
    <3>4. SubSeq(t, 1, m + 1) = SubSeq(t, 1, m) \o <<t[m + 1]>>
      <4>1. SubSeq(t, 1, m + 1) = SubSeq(t, 1, (m + 1) - 1) \o <<t[m + 1]>>
        BY <3>2, SubSeqRecursiveSecond
      <4> QED
        BY <4>1, <3>2
    <3> QED
      BY <3>1, <3>3, <3>4
  <2>3. T \in SUBSET Nat
    OBVIOUS
  <2> HIDE DEF T
  <2> QED
    BY <2>1, <2>2, <2>3, Induct
<1>5. g[Len(t)] = SubSeq(t, 1, Len(t))
  <2>1. Len(t) \in T
    <3> HIDE DEF T
    <3> QED BY <1>4, <1>1
  <2> QED
    BY <2>1, <1>1
<1>6. SubSeq(t, 1, Len(t)) = t
  BY SubSeqFull
<1> QED
  BY <1>1, <1>3, <1>5, <1>6, FlattenIs

-----------------------------------------------------------------------------
(* The type of what a call reads and writes.                               *)
Tokens == FmtTexts \cup Placeholders
Pairs == [arg : Nat, piece : Nat]
Whats == [text : Seq(Tokens)] \cup Pairs
Fields == {o.field : o \in Streams} \cup {"fixed", "hexfloat", "scientific"}
Bases == {o.base : o \in Streams} \cup {"hex", "oct", "dec"}
Showbases == {o.showbase : o \in Streams} \cup {TRUE}
Sides == {o.side : o \in Streams} \cup {p.side : p \in Placeholders}
Fills == {o.fill : o \in Streams} \cup {p.fill : p \in Placeholders}
Precisions == {o.precision : o \in Streams} \cup {p.digits : p \in Placeholders}
States == [field : Fields, base : Bases, showbase : Showbases, side : Sides,
           fill : Fills, precision : Precisions, width : Nat]
Items == [what : Whats, flags : [field : Fields, base : Bases, showbase : Showbases, side : Sides],
          fill : Fills, precision : Precisions, width : Nat]
Asked == [fmt : Formats, args : {a \in Seq(Values) : Len(a) <= MaxArgs}, os : States]

LEMMA StreamStates == Streams \subseteq States
<1> SUFFICES ASSUME NEW o \in Streams PROVE o \in States
  OBVIOUS
<1>1. /\ o = [field |-> o.field, base |-> o.base, showbase |-> o.showbase, side |-> o.side,
              fill |-> o.fill, precision |-> o.precision, width |-> o.width]
      /\ o.width \in Nat
  BY FormatAssumption
<1>2. /\ o.field \in Fields /\ o.base \in Bases /\ o.showbase \in Showbases
      /\ o.side \in Sides /\ o.fill \in Fills /\ o.precision \in Precisions
  BY DEF Fields, Bases, Showbases, Sides, Fills, Precisions
<1> QED
  BY <1>1, <1>2 DEF States

(* What a placeholder makes of the state of the stream.                    *)
ControlledRightly(o, p, value) ==
    LET c == Controlled(o, p, value)
    IN  /\ c \in States
        /\ c.width = IF p.width = Unset THEN o.width ELSE p.width
        /\ c.fill = IF p.width = Unset \/ p.fill = Unset THEN o.fill ELSE p.fill
        /\ c.precision = IF p.digits = Unset \/ ~value.floating THEN o.precision ELSE p.digits

LEMMA Controls ==
    ASSUME NEW o \in States, NEW p \in Placeholders, NEW value \in Values
    PROVE  ControlledRightly(o, p, value)
<1> DEFINE d == WithDigits(o, p, value)
           c == WithConv(d, p, value)
           a == WithAlign(c, p)
<1>1. /\ d \in States /\ d.width = o.width /\ d.fill = o.fill
      /\ d.precision = IF p.digits = Unset \/ ~value.floating THEN o.precision ELSE p.digits
  BY DEF WithDigits, States, Fields, Precisions
<1> HIDE DEF d
<1>2. c \in States /\ c.width = d.width /\ c.fill = d.fill /\ c.precision = d.precision
  BY <1>1 DEF WithConv, States, Fields, Bases, Showbases
<1> HIDE DEF c
<1>3. p.width # Unset => p.width \in Nat
  BY FormatAssumption
<1>4. /\ a \in States /\ a.precision = c.precision
      /\ a.width = IF p.width = Unset THEN c.width ELSE p.width
      /\ a.fill = IF p.width = Unset \/ p.fill = Unset THEN c.fill ELSE p.fill
  BY <1>2, <1>3 DEF WithAlign, States, Sides, Fills
<1> HIDE DEF a
<1>5. Controlled(o, p, value) = a
  BY DEF Controlled, a, c, d
<1> QED
  BY <1>1, <1>2, <1>4, <1>5 DEF ControlledRightly

(* Flags come from flags only.                                             *)
SameFlags(o, q) == o \in States /\ q \in States /\ Flags(o) = Flags(q)

LEMMA FlagsFromFlags ==
    ASSUME NEW o, NEW q, SameFlags(o, q), NEW p \in Placeholders, NEW value \in Values
    PROVE  SameFlags(Controlled(o, p, value), Controlled(q, p, value))
<1>1. SameFlags(WithDigits(o, p, value), WithDigits(q, p, value))
  BY DEF SameFlags, WithDigits, Flags, States, Fields, Precisions
<1>2. ASSUME NEW d, NEW e, SameFlags(d, e)
      PROVE  SameFlags(WithConv(d, p, value), WithConv(e, p, value))
  <2>1. /\ d \in States /\ e \in States
        /\ d.field = e.field /\ d.base = e.base /\ d.showbase = e.showbase /\ d.side = e.side
    BY <1>2 DEF SameFlags, Flags
  <2>2. WithConv(d, p, value) \in States /\ WithConv(e, p, value) \in States
    BY <2>1 DEF WithConv, States, Fields, Bases, Showbases
  <2>3. CASE p.conv = "x"
    BY <2>1, <2>2, <2>3 DEF SameFlags, WithConv, Flags, States
  <2>4. CASE p.conv = "o"
    BY <2>1, <2>2, <2>4 DEF SameFlags, WithConv, Flags, States
  <2>5. CASE p.conv = "d"
    BY <2>1, <2>2, <2>5 DEF SameFlags, WithConv, Flags, States
  <2>6. CASE p.conv = "e"
    BY <2>1, <2>2, <2>6 DEF SameFlags, WithConv, Flags, States
  <2>7. CASE p.conv \notin {"x", "o", "d", "e"}
    BY <2>1, <2>2, <2>7 DEF SameFlags, WithConv, Flags, States
  <2> QED
    BY <2>3, <2>4, <2>5, <2>6, <2>7
<1>3. ASSUME NEW d, NEW e, SameFlags(d, e)
      PROVE  SameFlags(WithAlign(d, p), WithAlign(e, p))
  <2>1. p.width # Unset => p.width \in Nat
    BY FormatAssumption
  <2> QED
    BY <1>3, <2>1 DEF SameFlags, WithAlign, Flags, States, Sides, Fills
<1> QED
  BY <1>1, <1>2, <1>3 DEF Controlled

-----------------------------------------------------------------------------
(* Placeholders are numbered in their order.                               *)
LEMMA SlotsCounted ==
    ASSUME NEW f, NEW i \in Nat
    PROVE  /\ SlotsUpTo(f, i) \in Nat
           /\ SlotsUpTo(f, 0) = 0
           /\ SlotsUpTo(f, i + 1) = SlotsUpTo(f, i) + IF IsText(f[i + 1]) THEN 0 ELSE 1
<1> DEFINE S(n) == {j \in 1..n : ~IsText(f[j])}
<1>1. \A n \in Nat : IsFiniteSet(S(n)) /\ Cardinality(S(n)) \in Nat
  <2> TAKE n \in Nat
  <2>1. IsFiniteSet(1..n) /\ S(n) \in SUBSET (1..n)
    BY FS_Interval
  <2> HIDE DEF S
  <2> QED
    BY <2>1, FS_Subset, FS_CardinalityType
<1>2. S(0) = {}
  OBVIOUS
<1>3. S(i + 1) = IF IsText(f[i + 1]) THEN S(i) ELSE S(i) \cup {i + 1}
  OBVIOUS
<1>4. i + 1 \notin S(i)
  OBVIOUS
<1>5. SlotsUpTo(f, i) = Cardinality(S(i)) /\ SlotsUpTo(f, 0) = Cardinality(S(0))
      /\ SlotsUpTo(f, i + 1) = Cardinality(S(i + 1))
  BY DEF SlotsUpTo
<1> HIDE DEF S
<1>6. Cardinality(S(i) \cup {i + 1}) = Cardinality(S(i)) + 1
  BY <1>1, <1>4, FS_AddElement
<1> QED
  BY <1>1, <1>2, <1>3, <1>5, <1>6, FS_EmptySet

LEMMA SlotsGrow ==
    ASSUME NEW f, NEW i \in Nat, NEW n \in Nat
    PROVE  \A m \in 0..n : SlotsUpTo(f, i) <= SlotsUpTo(f, i + m)
<1> DEFINE T == {m \in 0..n : SlotsUpTo(f, i) <= SlotsUpTo(f, i + m)}
<1>1. 0 \in T
  <2>1. i + 0 = i /\ SlotsUpTo(f, i) \in Nat
    BY SlotsCounted
  <2> QED
    BY <2>1
<1>2. ASSUME NEW m \in 0..n, m < n, m \in T PROVE m + 1 \in T
  <2>1. i + m \in Nat /\ i + (m + 1) = (i + m) + 1
    OBVIOUS
  <2>2. SlotsUpTo(f, i + m) <= SlotsUpTo(f, i + (m + 1)) /\ SlotsUpTo(f, i + m) \in Nat
        /\ SlotsUpTo(f, i + (m + 1)) \in Nat /\ SlotsUpTo(f, i) \in Nat
    BY <2>1, SlotsCounted
  <2>3. m + 1 \in 0..n /\ SlotsUpTo(f, i) <= SlotsUpTo(f, i + m)
    BY <1>2
  <2> QED
    BY <2>2, <2>3
<1> HIDE DEF T
<1>3. \A m \in 0..n : m \in T
  BY <1>1, <1>2, InductUpTo
<1> QED
  BY <1>3 DEF T

(* There is one placeholder with each number.                              *)
LEMMA SlotIs ==
    ASSUME NEW f \in Seq(Tokens), NEW i \in 1..Len(f), ~IsText(f[i])
    PROVE  Slot(f, SlotsUpTo(f, i)) = f[i]
<1> DEFINE j == CHOOSE j \in DOMAIN f : ~IsText(f[j]) /\ SlotsUpTo(f, j) = SlotsUpTo(f, i)
<1>1. j \in 1..Len(f) /\ ~IsText(f[j]) /\ SlotsUpTo(f, j) = SlotsUpTo(f, i)
  OBVIOUS
<1> HIDE DEF j
<1>2. ASSUME NEW a \in 1..Len(f), NEW b \in 1..Len(f), a < b, ~IsText(f[b])
      PROVE  SlotsUpTo(f, a) < SlotsUpTo(f, b)
  <2>1. /\ b - 1 \in Nat /\ a \in Nat /\ (b - 1) - a \in Nat /\ a + ((b - 1) - a) = b - 1
        /\ (b - 1) + 1 = b
    BY <1>2
  <2>2. SlotsUpTo(f, a) <= SlotsUpTo(f, b - 1)
    <3>1. PICK d \in Nat : a + d = b - 1
      BY <2>1
    <3>2. \A m \in 0..d : SlotsUpTo(f, a) <= SlotsUpTo(f, a + m)
      BY <2>1, SlotsGrow
    <3>3. SlotsUpTo(f, a) <= SlotsUpTo(f, a + d)
      BY <3>2
    <3> QED
      BY <3>1, <3>3
  <2>3. SlotsUpTo(f, b) = SlotsUpTo(f, b - 1) + 1 /\ SlotsUpTo(f, b - 1) \in Nat
        /\ SlotsUpTo(f, a) \in Nat
    BY <2>1, <1>2, SlotsCounted
  <2> QED
    BY <2>2, <2>3
<1>3. SlotsUpTo(f, i) \in Nat
  BY SlotsCounted
<1>4. i = j
  BY <1>1, <1>2, <1>3
<1> QED
  BY <1>4 DEF Slot, j

(* One more placeholder changes the last value given if it counts.         *)
LEMMA LatestStep ==
    ASSUME NEW f, NEW n \in Nat, NEW field, NEW C, NEW D, NEW initial,
           \A i \in 1..n : i \in C <=> i \in D
    PROVE  Latest(f, n + 1, field, D, initial) =
               IF n + 1 \in D /\ Slot(f, n + 1)[field] # Unset THEN Slot(f, n + 1)[field]
               ELSE Latest(f, n, field, C, initial)
<1> DEFINE given(m, E) == {i \in 1..m : i \in E /\ Slot(f, i)[field] # Unset}
<1>1. CASE n + 1 \in D /\ Slot(f, n + 1)[field] # Unset
  <2>1. n + 1 \in given(n + 1, D) /\ \A y \in given(n + 1, D) : n + 1 >= y /\ y \in Nat
    BY <1>1
  <2>2. Max(given(n + 1, D)) = n + 1
    <3> HIDE DEF given
    <3> QED
      BY <2>1 DEF Max
  <2> QED
    BY <1>1, <2>1, <2>2 DEF Latest
<1>2. CASE ~(n + 1 \in D /\ Slot(f, n + 1)[field] # Unset)
  <2>1. given(n + 1, D) = given(n, C)
    BY <1>2
  <2> QED
    BY <1>2, <2>1 DEF Latest
<1> QED
  BY <1>1, <1>2

-----------------------------------------------------------------------------
(* What is to be written, as far as a part of the format string.           *)
Whole == Tokens \cup Pairs
Output(n, value) == [k \in 1..value.pieces |-> [arg |-> n, piece |-> k]]

LEMMA ReplacedIs ==
    ASSUME NEW f \in Seq(Tokens), NEW a \in Seq(Values)
    PROVE  /\ Replaced(f, a) \in Seq(Seq(Whole)) /\ Len(Replaced(f, a)) = Len(f)
           /\ \A i \in 1..Len(f) : Replaced(f, a)[i] =
                 IF IsText(f[i]) \/ SlotsUpTo(f, i) > Len(a) THEN <<f[i]>>
                 ELSE Output(SlotsUpTo(f, i), a[SlotsUpTo(f, i)])
           /\ \A n \in Nat, v \in Values : Output(n, v) \in Seq(Whole)
<1>1. ASSUME NEW n \in Nat, NEW v \in Values PROVE Output(n, v) \in Seq(Whole)
  <2>1. v.pieces \in Nat
    BY FormatAssumption
  <2> QED
    BY SMTT(60), <2>1 DEF Output, Whole, Pairs
<1>2. DOMAIN f = 1..Len(f) /\ Len(f) \in Nat
  OBVIOUS
<1>3. Replaced(f, a) = [i \in 1..Len(f) |->
                           IF IsText(f[i]) \/ SlotsUpTo(f, i) > Len(a) THEN <<f[i]>>
                           ELSE Output(SlotsUpTo(f, i), a[SlotsUpTo(f, i)])]
  BY <1>2 DEF Replaced, Output
<1>4. ASSUME NEW i \in 1..Len(f)
      PROVE  (IF IsText(f[i]) \/ SlotsUpTo(f, i) > Len(a) THEN <<f[i]>>
              ELSE Output(SlotsUpTo(f, i), a[SlotsUpTo(f, i)])) \in Seq(Whole)
  <2>1. <<f[i]>> \in Seq(Whole)
    BY DEF Whole
  <2>2. ASSUME ~IsText(f[i]), ~(SlotsUpTo(f, i) > Len(a))
        PROVE  Output(SlotsUpTo(f, i), a[SlotsUpTo(f, i)]) \in Seq(Whole)
    <3>1. i - 1 \in Nat /\ (i - 1) + 1 = i
      OBVIOUS
    <3>2. SlotsUpTo(f, i) \in Nat \ {0}
      <4>1. SlotsUpTo(f, i - 1) \in Nat /\ SlotsUpTo(f, (i - 1) + 1) =
               SlotsUpTo(f, i - 1) + IF IsText(f[(i - 1) + 1]) THEN 0 ELSE 1
        BY <3>1, SlotsCounted
      <4> QED
        BY <3>1, <2>2, <4>1
    <3>3. SlotsUpTo(f, i) \in 1..Len(a)
      BY <3>2, <2>2
    <3>4. a[SlotsUpTo(f, i)] \in Values
      BY <3>3, ElementOfSeq
    <3> QED
      BY <3>2, <3>4, <1>1
  <2> QED
    BY <2>1, <2>2
<1> DEFINE e(i) == IF IsText(f[i]) \/ SlotsUpTo(f, i) > Len(a) THEN <<f[i]>>
                   ELSE Output(SlotsUpTo(f, i), a[SlotsUpTo(f, i)])
<1>5. Replaced(f, a) = [i \in 1..Len(f) |-> e(i)] /\ \A i \in 1..Len(f) : e(i) \in Seq(Whole)
  BY <1>3, <1>4
<1> HIDE DEF e
<1>6. /\ Replaced(f, a) \in Seq(Seq(Whole)) /\ Len(Replaced(f, a)) = Len(f)
      /\ \A i \in 1..Len(f) : Replaced(f, a)[i] = e(i)
  BY <1>2, <1>5
<1> QED
  BY <1>1, <1>6 DEF e

(* A part that is written as it stands.                                    *)
FlattensWith(R, r, q, piece) ==
    FlattenSeq(SubSeq(R, 1, r)) = FlattenSeq(SubSeq(R, 1, q)) \o piece

LEMMA PlainPart ==
    ASSUME NEW f \in Seq(Tokens), NEW R \in Seq(Seq(Whole)), Len(R) = Len(f),
           NEW q \in Nat, NEW r \in Nat, q <= r, r <= Len(f),
           \A i \in 1..Len(f) : q < i /\ i <= r => R[i] = <<f[i]>>
    PROVE  /\ FlattensWith(R, r, q, SubSeq(f, q + 1, r))
           /\ SubSeq(f, q + 1, r) \in Seq(Tokens)
<1> DEFINE t == SubSeq(f, q + 1, r)
           p == SubSeq(R, 1, q)
           u == SubSeq(R, q + 1, r)
<1>1. Len(f) \in Nat /\ Len(R) \in Nat
  OBVIOUS
<1>2. /\ t \in Seq(Tokens) /\ Len(t) = r - q
      /\ \A i \in 1..(r - q) : t[i] = f[q + i]
  <2>1. q + 1 \in Int /\ r \in Int /\ \A i \in (q + 1)..r : f[i] \in Tokens
    BY <1>1, ElementOfSeq
  <2>2. /\ t \in Seq(Tokens) /\ Len(t) = IF q + 1 <= r THEN r - (q + 1) + 1 ELSE 0
        /\ \A i \in 1..r - (q + 1) + 1 : t[i] = f[(q + 1) + i - 1]
    BY <2>1, SubSeqProperties
  <2> HIDE DEF t
  <2> QED
    BY <2>2
<1>3. /\ u \in Seq(Seq(Whole)) /\ Len(u) = r - q
      /\ \A i \in 1..(r - q) : u[i] = R[q + i]
  <2>1. q + 1 \in Int /\ r \in Int /\ \A i \in (q + 1)..r : R[i] \in Seq(Whole)
    BY <1>1, ElementOfSeq
  <2>2. /\ u \in Seq(Seq(Whole)) /\ Len(u) = IF q + 1 <= r THEN r - (q + 1) + 1 ELSE 0
        /\ \A i \in 1..r - (q + 1) + 1 : u[i] = R[(q + 1) + i - 1]
    BY <2>1, SubSeqProperties
  <2> HIDE DEF u
  <2> QED
    BY <2>2
<1>4. p \in Seq(Seq(Whole))
  <2>1. \A i \in 1..q : R[i] \in Seq(Whole)
    BY <1>1, ElementOfSeq
  <2> QED
    BY <2>1, SubSeqProperties
<1>5. SubSeq(R, 1, r) = p \o u
  <2>1. 1 \in 1..Len(R) + 1 /\ q \in (1 - 1)..Len(R) /\ r \in q..Len(R)
    <3>1. q <= Len(R) /\ r <= Len(R)
      BY <1>1
    <3> QED
      BY <3>1, <1>1
  <2> QED
    BY <2>1, ConcatAdjacentSubSeq
<1> HIDE DEF t, p, u
<1>6. u = Singles(t)
  <2>1. Singles(t) \in Seq(Seq(Whole)) /\ Len(Singles(t)) = r - q
        /\ \A i \in 1..(r - q) : Singles(t)[i] = <<t[i]>>
    <3>1. t \in Seq(Whole)
      BY <1>2 DEF Whole
    <3> QED
      BY <3>1, <1>2, SinglesIs
  <2>2. ASSUME NEW i \in 1..(r - q) PROVE u[i] = Singles(t)[i]
    <3>1. q + i \in 1..Len(f) /\ q < q + i /\ q + i <= r
      BY <1>1
    <3> QED
      BY <3>1, <2>1, <1>2, <1>3
  <2> QED
    BY <2>1, <2>2, <1>3, SeqEqual
<1>7. FlattenSeq(u) = t
  <2>1. t \in Seq(Whole)
    BY <1>2 DEF Whole
  <2> QED
    BY <2>1, <1>6, FlattenSingles
<1>8. FlattenSeq(p \o u) = FlattenSeq(p) \o FlattenSeq(u)
  BY <1>3, <1>4, FlattenConcat
<1>9. FlattenSeq(SubSeq(R, 1, r)) = FlattenSeq(p) \o t
  BY <1>5, <1>7, <1>8
<1> QED
  BY <1>2, <1>9 DEF FlattensWith, t, p

(* The part from q up to the next placeholder, the x-th token from there.  *)
NextSlot(f, q, x) ==
    /\ q \in Nat /\ x \in Nat \ {0} /\ q + x <= Len(f)
    /\ ~IsText(f[q + x])
    /\ \A i \in 1..(x - 1) : IsText(f[q + i])

LEMMA TextsCountNothing ==
    ASSUME NEW f, NEW q \in Nat, NEW x \in Nat, \A i \in 1..x : IsText(f[q + i])
    PROVE  \A m \in 0..x : SlotsUpTo(f, q + m) = SlotsUpTo(f, q)
<1> DEFINE T == {m \in 0..x : SlotsUpTo(f, q + m) = SlotsUpTo(f, q)}
<1>1. 0 \in T
  <2>1. q + 0 = q
    OBVIOUS
  <2> QED
    BY <2>1
<1>2. ASSUME NEW m \in 0..x, m < x, m \in T PROVE m + 1 \in T
  <2>1. q + m \in Nat /\ (q + m) + 1 = q + (m + 1) /\ m + 1 \in 1..x /\ m + 1 \in 0..x
    BY <1>2
  <2>2. IsText(f[q + (m + 1)])
    BY <2>1
  <2>3. SlotsUpTo(f, q + m) \in Nat /\ SlotsUpTo(f, (q + m) + 1) =
           SlotsUpTo(f, q + m) + IF IsText(f[(q + m) + 1]) THEN 0 ELSE 1
    BY <2>1, SlotsCounted
  <2>4. SlotsUpTo(f, q + m) = SlotsUpTo(f, q)
    BY <1>2
  <2>5. SlotsUpTo(f, q + (m + 1)) = SlotsUpTo(f, q)
    BY <2>1, <2>2, <2>3, <2>4
  <2> QED
    BY <2>1, <2>5
<1> HIDE DEF T
<1>3. \A m \in 0..x : m \in T
  BY <1>1, <1>2, InductUpTo
<1> QED
  BY <1>3 DEF T

LEMMA NextSlotCounts ==
    ASSUME NEW f \in Seq(Tokens), NEW q, NEW x, NextSlot(f, q, x)
    PROVE  /\ SlotsUpTo(f, q + x) = SlotsUpTo(f, q) + 1
           /\ Slot(f, SlotsUpTo(f, q) + 1) = f[q + x]
           /\ SlotsUpTo(f, q) \in Nat
<1>1. q \in Nat /\ x - 1 \in Nat /\ q + (x - 1) \in Nat /\ (q + (x - 1)) + 1 = q + x
      /\ q + x \in 1..Len(f) /\ ~IsText(f[q + x]) /\ x - 1 \in 0..(x - 1)
  BY DEF NextSlot
<1>2. \A i \in 1..(x - 1) : IsText(f[q + i])
  BY DEF NextSlot
<1>3. \A m \in 0..(x - 1) : SlotsUpTo(f, q + m) = SlotsUpTo(f, q)
  BY <1>1, <1>2, TextsCountNothing
<1>4. SlotsUpTo(f, q + (x - 1)) = SlotsUpTo(f, q)
  BY <1>1, <1>3
<1>5. SlotsUpTo(f, q + (x - 1)) \in Nat /\ SlotsUpTo(f, (q + (x - 1)) + 1) =
         SlotsUpTo(f, q + (x - 1)) + IF IsText(f[(q + (x - 1)) + 1]) THEN 0 ELSE 1
  BY <1>1, SlotsCounted
<1>6. SlotsUpTo(f, q + x) = SlotsUpTo(f, q) + 1
  BY <1>1, <1>4, <1>5
<1>7. Slot(f, SlotsUpTo(f, q + x)) = f[q + x]
  BY <1>1, SlotIs
<1> QED
  BY <1>4, <1>5, <1>6, <1>7

LEMMA ReplacedSlot ==
    ASSUME NEW f \in Seq(Tokens), NEW a \in Seq(Values), NEW q, NEW x, NextSlot(f, q, x),
           SlotsUpTo(f, q) + 1 <= Len(a)
    PROVE  FlattensWith(Replaced(f, a), q + x, q,
               SubSeq(f, q + 1, q + (x - 1))
                   \o Output(SlotsUpTo(f, q) + 1, a[SlotsUpTo(f, q) + 1]))
<1> DEFINE R == Replaced(f, a)
           n == SlotsUpTo(f, q) + 1
           r == q + (x - 1)
           t == SubSeq(f, q + 1, r)
           u == Output(n, a[n])
           p == SubSeq(R, 1, r)
<1>1. /\ R \in Seq(Seq(Whole)) /\ Len(R) = Len(f)
      /\ \A i \in 1..Len(f) : R[i] = IF IsText(f[i]) \/ SlotsUpTo(f, i) > Len(a) THEN <<f[i]>>
                                     ELSE Output(SlotsUpTo(f, i), a[SlotsUpTo(f, i)])
      /\ \A m \in Nat, v \in Values : Output(m, v) \in Seq(Whole)
  BY ReplacedIs
<1>2. q \in Nat /\ r \in Nat /\ q <= r /\ r <= Len(f) /\ q + x = r + 1 /\ r + 1 \in 1..Len(f)
      /\ ~IsText(f[r + 1]) /\ Len(f) \in Nat
  BY DEF NextSlot
<1>3. \A i \in 1..Len(f) : q < i /\ i <= r => IsText(f[i])
  <2> SUFFICES ASSUME NEW i \in 1..Len(f), q < i, i <= r PROVE IsText(f[i])
    OBVIOUS
  <2>1. i - q \in 1..(x - 1) /\ q + (i - q) = i
    BY <1>2 DEF NextSlot
  <2> QED
    BY <2>1 DEF NextSlot
<1>4. SlotsUpTo(f, r + 1) = n /\ n \in Nat /\ n \in 1..Len(a)
  <2>1. SlotsUpTo(f, q + x) = SlotsUpTo(f, q) + 1 /\ SlotsUpTo(f, q) \in Nat
    BY NextSlotCounts
  <2>2. SlotsUpTo(f, r + 1) = SlotsUpTo(f, q + x)
    BY <1>2
  <2> HIDE DEF r
  <2>3. Len(a) \in Nat
    OBVIOUS
  <2> QED
    BY <2>1, <2>2, <2>3
<1>5. R[r + 1] = u /\ u \in Seq(Whole)
  <2>1. ~(n > Len(a)) /\ a[n] \in Values
    BY <1>4, ElementOfSeq
  <2> HIDE DEF n, R
  <2>2. R[r + 1] = Output(n, a[n])
    BY <2>1, <1>1, <1>2, <1>4
  <2> QED
    BY <2>1, <2>2, <1>1, <1>4
<1> HIDE DEF R, n, r
<1>6. FlattensWith(R, r, q, t) /\ t \in Seq(Tokens)
  BY <1>1, <1>2, <1>3, PlainPart
<1>7. t \in Seq(Whole)
  BY <1>6 DEF Whole
<1>8. p \in Seq(Seq(Whole)) /\ SubSeq(R, 1, q) \in Seq(Seq(Whole))
  <2>1. \A i \in 1..r : R[i] \in Seq(Whole)
    BY <1>1, <1>2, ElementOfSeq
  <2>2. \A i \in 1..q : R[i] \in Seq(Whole)
    BY <2>1, <1>2
  <2> QED
    BY <2>1, <2>2, <1>2, SubSeqProperties
<1>9. SubSeq(R, 1, r + 1) = p \o <<u>>
  <2>1. 1 \in 1..Len(R) /\ r + 1 \in 1..Len(R) /\ (r + 1) - 1 = r
    BY <1>1, <1>2
  <2>2. SubSeq(R, 1, r + 1) = SubSeq(R, 1, (r + 1) - 1) \o <<R[r + 1]>>
    BY <2>1, <1>1, SubSeqRecursiveSecond
  <2> QED
    BY <2>1, <2>2, <1>5
<1> HIDE DEF p, t, u
<1>10. FlattenSeq(p \o <<u>>) = FlattenSeq(p) \o u
  <2>1. <<u>> \in Seq(Seq(Whole))
    BY <1>5
  <2>2. FlattenSeq(p \o <<u>>) = FlattenSeq(p) \o FlattenSeq(<<u>>)
    BY <2>1, <1>8, FlattenConcat
  <2>3. FlattenSeq(<<u>>) = u
    BY <1>5, FlattenOne
  <2> QED
    BY <2>2, <2>3
<1> DEFINE before == FlattenSeq(SubSeq(R, 1, q))
<1>11. FlattenSeq(p) = before \o t
  BY <1>6 DEF FlattensWith, p
<1>12. before \in Seq(Whole)
  BY <1>8, FlattenIn
<1> HIDE DEF before
<1>13. Associates(before, t, u)
  BY <1>5, <1>7, <1>12, Associative
<1>14. FlattenSeq(SubSeq(R, 1, r + 1)) = before \o (t \o u)
  <2>1. FlattenSeq(SubSeq(R, 1, r + 1)) = (before \o t) \o u
    BY <1>9, <1>10, <1>11
  <2> QED
    BY <2>1, <1>13, Zenon DEF Associates
<1>15. FlattensWith(R, r + 1, q, t \o u)
  BY <1>14 DEF FlattensWith, before
<1> QED
  BY <1>15, <1>2 DEF R, n, r, t, u

(* And the rest, when there are no more placeholders or arguments.         *)
LEMMA ReplacedRest ==
    ASSUME NEW f \in Seq(Tokens), NEW a \in Seq(Values), NEW q \in 0..Len(f),
           \/ SlotsUpTo(f, q) = Len(a)
           \/ \A i \in 1..Len(f) : q < i => IsText(f[i])
    PROVE  /\ FlattensWith(Replaced(f, a), Len(f), q, SubSeq(f, q + 1, Len(f)))
           /\ SubSeq(Replaced(f, a), 1, Len(f)) = Replaced(f, a)
<1> DEFINE R == Replaced(f, a)
<1>1. /\ R \in Seq(Seq(Whole)) /\ Len(R) = Len(f)
      /\ \A i \in 1..Len(f) : R[i] = IF IsText(f[i]) \/ SlotsUpTo(f, i) > Len(a) THEN <<f[i]>>
                                     ELSE Output(SlotsUpTo(f, i), a[SlotsUpTo(f, i)])
  BY ReplacedIs
<1>2. ASSUME NEW i \in 1..Len(f), q < i, ~IsText(f[i]), SlotsUpTo(f, q) = Len(a)
      PROVE  SlotsUpTo(f, i) > Len(a)
  <2>1. q \in Nat /\ (i - 1) - q \in Nat /\ i - 1 \in Nat /\ (i - 1) + 1 = i
    BY <1>2
  <2>2. PICK d \in Nat : q + d = i - 1
    BY <2>1
  <2>3. \A m \in 0..d : SlotsUpTo(f, q) <= SlotsUpTo(f, q + m)
    BY <2>1, SlotsGrow
  <2>4. SlotsUpTo(f, q) <= SlotsUpTo(f, q + d)
    <3>1. d \in 0..d
      OBVIOUS
    <3> QED
      BY <2>3, <3>1
  <2>5. SlotsUpTo(f, i - 1) \in Nat /\ SlotsUpTo(f, (i - 1) + 1) =
           SlotsUpTo(f, i - 1) + IF IsText(f[(i - 1) + 1]) THEN 0 ELSE 1
    BY <2>1, SlotsCounted
  <2>6. SlotsUpTo(f, i) = SlotsUpTo(f, i - 1) + 1
    BY <2>1, <2>5, <1>2
  <2>7. Len(a) \in Nat /\ SlotsUpTo(f, q + d) = SlotsUpTo(f, i - 1)
    BY <2>2
  <2> QED
    BY <2>4, <2>5, <2>6, <2>7, <1>2
<1> HIDE DEF R
<1>3. \A i \in 1..Len(f) : q < i /\ i <= Len(f) => R[i] = <<f[i]>>
  BY <1>1, <1>2
<1>4. q \in Nat /\ Len(f) \in Nat /\ q <= Len(f) /\ Len(f) <= Len(f)
  OBVIOUS
<1>5. FlattensWith(R, Len(f), q, SubSeq(f, q + 1, Len(f)))
  BY <1>1, <1>3, <1>4, PlainPart
<1>6. SubSeq(R, 1, Len(R)) = R
  BY <1>1, SubSeqFull
<1> QED
  BY <1>1, <1>5, <1>6 DEF R

-----------------------------------------------------------------------------
(* What is written, item by item.                                          *)
LEMMA WrittenIs ==
    ASSUME NEW out \in Seq(Items)
    PROVE  /\ Written(out) \in Seq(Seq(Whole)) /\ Len(Written(out)) = Len(out)
           /\ \A i \in 1..Len(out) : Written(out)[i] =
                 IF "text" \in DOMAIN out[i].what THEN out[i].what.text ELSE <<out[i].what>>
<1> DEFINE e(i) == IF "text" \in DOMAIN out[i].what THEN out[i].what.text ELSE <<out[i].what>>
<1>1. ASSUME NEW i \in 1..Len(out) PROVE e(i) \in Seq(Whole)
  <2>1. out[i] \in Items
    BY ElementOfSeq
  <2>2. out[i].what \in Whats
    BY <2>1 DEF Items
  <2>3. CASE out[i].what \in [text : Seq(Tokens)]
    <3>1. "text" \in DOMAIN out[i].what /\ out[i].what.text \in Seq(Tokens)
      BY <2>3
    <3>2. out[i].what.text \in Seq(Whole)
      BY <3>1 DEF Whole
    <3> QED
      BY <3>1, <3>2
  <2>4. CASE out[i].what \in Pairs
    <3>1. "text" \notin DOMAIN out[i].what
      BY <2>4 DEF Pairs
    <3>2. <<out[i].what>> \in Seq(Whole)
      BY <2>4 DEF Whole
    <3> QED
      BY <3>1, <3>2
  <2> QED
    BY <2>2, <2>3, <2>4 DEF Whats
<1>2. Written(out) = [i \in 1..Len(out) |-> e(i)] /\ Len(out) \in Nat
  BY DEF Written
<1>3. \A i \in 1..Len(out) : e(i) \in Seq(Whole)
  BY <1>1
<1> HIDE DEF e
<1>4. Written(out) \in Seq(Seq(Whole)) /\ Len(Written(out)) = Len(out)
      /\ \A i \in 1..Len(out) : Written(out)[i] = e(i)
  BY <1>2, <1>3
<1> QED
  BY <1>4 DEF e

LEMMA WrittenConcat ==
    ASSUME NEW out \in Seq(Items), NEW more \in Seq(Items)
    PROVE  /\ Written(out \o more) = Written(out) \o Written(more)
           /\ out \o more \in Seq(Items)
<1> DEFINE both == out \o more
           w == Written(out) \o Written(more)
<1>1. /\ both \in Seq(Items) /\ Len(both) = Len(out) + Len(more)
      /\ \A i \in 1..Len(out) + Len(more) :
            both[i] = IF i <= Len(out) THEN out[i] ELSE more[i - Len(out)]
  BY ConcatProperties
<1>2. Len(out) \in Nat /\ Len(more) \in Nat
  OBVIOUS
<1>3. /\ Written(out) \in Seq(Seq(Whole)) /\ Len(Written(out)) = Len(out)
      /\ \A i \in 1..Len(out) : Written(out)[i] =
            IF "text" \in DOMAIN out[i].what THEN out[i].what.text ELSE <<out[i].what>>
  BY WrittenIs
<1>4. /\ Written(more) \in Seq(Seq(Whole)) /\ Len(Written(more)) = Len(more)
      /\ \A i \in 1..Len(more) : Written(more)[i] =
            IF "text" \in DOMAIN more[i].what THEN more[i].what.text ELSE <<more[i].what>>
  BY WrittenIs
<1>5. /\ w \in Seq(Seq(Whole)) /\ Len(w) = Len(Written(out)) + Len(Written(more))
      /\ \A i \in 1..Len(Written(out)) + Len(Written(more)) :
            w[i] = IF i <= Len(Written(out)) THEN Written(out)[i]
                   ELSE Written(more)[i - Len(Written(out))]
  <2> DEFINE x == Written(out)
             y == Written(more)
  <2>1. x \in Seq(Seq(Whole)) /\ y \in Seq(Seq(Whole))
    BY <1>3, <1>4
  <2> HIDE DEF x, y
  <2>2. /\ x \o y \in Seq(Seq(Whole)) /\ Len(x \o y) = Len(x) + Len(y)
        /\ \A i \in 1..Len(x) + Len(y) : (x \o y)[i] = IF i <= Len(x) THEN x[i] ELSE y[i - Len(x)]
    BY <2>1, ConcatProperties
  <2> QED
    BY <2>2 DEF x, y
<1> HIDE DEF both, w
<1>6. /\ Written(both) \in Seq(Seq(Whole)) /\ Len(Written(both)) = Len(both)
      /\ \A i \in 1..Len(both) : Written(both)[i] =
            IF "text" \in DOMAIN both[i].what THEN both[i].what.text ELSE <<both[i].what>>
  BY <1>1, WrittenIs
<1>7. ASSUME NEW i \in 1..Len(Written(both)) PROVE Written(both)[i] = w[i]
  <2>1. i \in 1..Len(out) + Len(more) /\ i \in 1..Len(both)
    BY <1>1, <1>6
  <2>2. CASE i <= Len(out)
    <3>1. i \in 1..Len(out)
      BY <2>1, <2>2, <1>2
    <3>2. both[i] = out[i]
      BY <2>1, <2>2, <1>1
    <3>3. Written(both)[i] = IF "text" \in DOMAIN out[i].what THEN out[i].what.text ELSE <<out[i].what>>
      BY <2>1, <1>6, <3>2
    <3>4. Written(out)[i] = IF "text" \in DOMAIN out[i].what THEN out[i].what.text ELSE <<out[i].what>>
      BY <3>1, <1>3
    <3>5. w[i] = Written(out)[i]
      BY <2>1, <2>2, <1>3, <1>4, <1>5
    <3> QED
      BY <3>3, <3>4, <3>5
  <2>3. CASE ~(i <= Len(out))
    <3>1. i - Len(out) \in 1..Len(more)
      BY <2>1, <2>3, <1>2
    <3> QED
      BY <2>1, <2>3, <3>1, <1>1, <1>3, <1>4, <1>5, <1>6
  <2> QED
    BY <2>2, <2>3
<1>8. Len(Written(both)) = Len(w)
  BY <1>1, <1>3, <1>4, <1>5, <1>6
<1>9. Written(both) = w
  BY <1>5, <1>6, <1>7, <1>8, SeqEqual
<1> QED
  BY <1>1, <1>9 DEF both, w

LEMMA WroteItem ==
    ASSUME NEW o \in States, NEW what \in Whats
    PROVE  /\ Wrote(o, what) \in Items /\ After(o) \in States
           /\ Flags(After(o)) = Flags(o)
           /\ After(o).fill = o.fill /\ After(o).precision = o.precision /\ After(o).width = 0
BY DEF Wrote, Items, Flags, After, States

LEMMA WrittenText ==
    ASSUME NEW o \in States, NEW t \in Seq(Tokens)
    PROVE  /\ <<Wrote(o, [text |-> t])>> \in Seq(Items)
           /\ Written(<<Wrote(o, [text |-> t])>>) = <<t>>
<1> DEFINE r == Wrote(o, [text |-> t])
<1>1. [text |-> t] \in Whats
  BY DEF Whats
<1>2. r \in Items
  BY <1>1, WroteItem
<1>3. r.what = [text |-> t]
  BY DEF Wrote
<1> HIDE DEF r
<1>4. <<r>> \in Seq(Items) /\ DOMAIN <<r>> = 1..1 /\ <<r>>[1] = r
  BY <1>2
<1>5. "text" \in DOMAIN r.what /\ r.what.text = t
  BY <1>3
<1>6. Written(<<r>>) = [i \in 1..1 |-> t]
  BY <1>4, <1>5 DEF Written
<1> QED
  BY <1>4, <1>6 DEF r

LEMMA WrittenPieces ==
    ASSUME NEW o \in States, NEW n \in Nat, NEW value \in Values
    PROVE  /\ Pieces(o, n, value) \in Seq(Items)
           /\ Len(Pieces(o, n, value)) = value.pieces /\ value.pieces \in Nat
           /\ Written(Pieces(o, n, value)) = Singles(Output(n, value))
           /\ \A k \in 1..value.pieces :
                 /\ Pieces(o, n, value)[k] =
                       Wrote(IF k = 1 THEN o ELSE After(o), [arg |-> n, piece |-> k])
                 /\ Pieces(o, n, value)[k].what = [arg |-> n, piece |-> k]
<1> DEFINE s == Pieces(o, n, value)
           e(k) == Wrote(IF k = 1 THEN o ELSE After(o), [arg |-> n, piece |-> k])
<1>1. value.pieces \in Nat
  BY FormatAssumption
<1>2. ASSUME NEW k \in 1..value.pieces
      PROVE  e(k) \in Items /\ e(k).what = [arg |-> n, piece |-> k]
  <2>1. [arg |-> n, piece |-> k] \in Whats
    BY <1>1 DEF Whats, Pairs
  <2>2. After(o) \in States
    BY <2>1, WroteItem
  <2>3. e(k) \in Items
    BY <2>1, <2>2, WroteItem
  <2> QED
    BY <2>3 DEF Wrote
<1>3. s = [k \in 1..value.pieces |-> e(k)]
  BY DEF Pieces
<1>4. \A k \in 1..value.pieces : e(k) \in Items /\ e(k).what = [arg |-> n, piece |-> k]
  BY <1>2
<1> HIDE DEF e, s
<1>5. s \in Seq(Items) /\ Len(s) = value.pieces /\ \A k \in 1..value.pieces : s[k] = e(k)
  <2>1. \A k \in 1..value.pieces : e(k) \in Items
    BY <1>4
  <2> QED
    BY <1>1, <1>3, <2>1
<1>6. /\ Written(s) \in Seq(Seq(Whole)) /\ Len(Written(s)) = Len(s)
      /\ \A i \in 1..Len(s) : Written(s)[i] =
            IF "text" \in DOMAIN s[i].what THEN s[i].what.text ELSE <<s[i].what>>
  BY <1>5, WrittenIs
<1> DEFINE u == Output(n, value)
<1>7. /\ u \in Seq(Whole) /\ Len(u) = value.pieces
      /\ \A k \in 1..value.pieces : u[k] = [arg |-> n, piece |-> k]
  BY <1>1 DEF Output, Whole, Pairs
<1> HIDE DEF u
<1>8. /\ Singles(u) \in Seq(Seq(Whole)) /\ Len(Singles(u)) = Len(u)
      /\ \A k \in 1..Len(u) : Singles(u)[k] = <<u[k]>>
  BY <1>7, SinglesIs
<1>9. ASSUME NEW k \in 1..Len(Written(s)) PROVE Written(s)[k] = Singles(u)[k]
  <2>1. k \in 1..value.pieces
    BY <1>5, <1>6
  <2>2. s[k].what = [arg |-> n, piece |-> k]
    BY <2>1, <1>4, <1>5
  <2>3. "text" \notin DOMAIN s[k].what
    BY <2>2
  <2>4. Written(s)[k] = <<s[k].what>>
    BY <2>1, <2>3, <1>5, <1>6
  <2> QED
    BY <2>1, <2>2, <2>4, <1>7, <1>8
<1>10. Written(s) = Singles(u)
  BY <1>5, <1>6, <1>7, <1>8, <1>9, SeqEqual
<1>11. \A k \in 1..value.pieces : s[k] = e(k) /\ s[k].what = [arg |-> n, piece |-> k]
  BY <1>4, <1>5
<1> QED
  BY <1>1, <1>5, <1>10, <1>11 DEF s, e, u

LEMMA PartIs ==
    ASSUME NEW S, NEW s \in Seq(S), NEW q \in Nat, NEW r \in Nat, q <= r, r <= Len(s)
    PROVE  /\ SubSeq(s, q + 1, r) \in Seq(S) /\ Len(SubSeq(s, q + 1, r)) = r - q
           /\ \A i \in 1..(r - q) : SubSeq(s, q + 1, r)[i] = s[q + i]
<1> DEFINE t == SubSeq(s, q + 1, r)
<1>1. q + 1 \in Int /\ r \in Int /\ Len(s) \in Nat
  OBVIOUS
<1>2. \A i \in (q + 1)..r : s[i] \in S
  BY <1>1, ElementOfSeq
<1>3. /\ t \in Seq(S) /\ Len(t) = IF q + 1 <= r THEN r - (q + 1) + 1 ELSE 0
      /\ \A i \in 1..r - (q + 1) + 1 : t[i] = s[(q + 1) + i - 1]
  BY <1>1, <1>2, SubSeqProperties
<1> HIDE DEF t
<1>4. t \in Seq(S) /\ Len(t) = r - q /\ \A i \in 1..(r - q) : t[i] = s[q + i]
  BY <1>3
<1> QED
  BY <1>4 DEF t

(* Parts of what is left are parts of the whole.                           *)
LEMMA PartOfRest ==
    ASSUME NEW S, NEW s \in Seq(S), NEW q \in 0..Len(s), NEW f, f = SubSeq(s, q + 1, Len(s)),
           NEW x \in Nat, NEW y \in Nat, x <= y, y <= Len(s) - q
    PROVE  SubSeq(f, x + 1, y) = SubSeq(s, (q + x) + 1, q + y)
<1>1. /\ q \in Nat /\ Len(s) \in Nat /\ q <= Len(s) /\ Len(s) <= Len(s)
      /\ q + x \in Nat /\ q + y \in Nat /\ q + x <= q + y /\ q + y <= Len(s)
  OBVIOUS
<1>2. f \in Seq(S) /\ Len(f) = Len(s) - q /\ \A i \in 1..(Len(s) - q) : f[i] = s[q + i]
  BY <1>1, PartIs
<1> DEFINE t == SubSeq(f, x + 1, y)
           u == SubSeq(s, (q + x) + 1, q + y)
<1>3. t \in Seq(S) /\ Len(t) = y - x /\ \A i \in 1..(y - x) : t[i] = f[x + i]
  <2>1. y <= Len(f)
    BY <1>2
  <2> QED
    BY <1>2, <2>1, PartIs
<1>4. /\ u \in Seq(S) /\ Len(u) = (q + y) - (q + x)
      /\ \A i \in 1..((q + y) - (q + x)) : u[i] = s[(q + x) + i]
  BY <1>1, PartIs
<1> HIDE DEF t, u
<1>5. (q + y) - (q + x) = y - x
  BY <1>1
<1>6. ASSUME NEW i \in 1..(y - x) PROVE t[i] = u[i]
  <2>1. x + i \in 1..(Len(s) - q) /\ q + (x + i) = (q + x) + i
    BY <1>1
  <2> QED
    BY <2>1, <1>2, <1>3, <1>4, <1>5
<1>7. t = u
  BY <1>3, <1>4, <1>5, <1>6, SeqEqual
<1> QED
  BY <1>7 DEF t, u

-----------------------------------------------------------------------------
(* A call under way: it has come to the q-th token and the k-th argument.  *)
FillAfter(c, k) ==
    Latest(c.fmt, k, "fill", {j \in 1..k : Slot(c.fmt, j).width # Unset}, c.os.fill)
PrecisionAfter(c, k) ==
    Latest(c.fmt, k, "digits", {j \in 1..k : c.args[j].floating}, c.os.precision)

StreamAfter(c, o, fresh, k) ==
    /\ o \in States /\ Flags(o) = Flags(c.os)
    /\ o.width = IF fresh THEN c.os.width ELSE 0
    /\ o.fill = FillAfter(c, k) /\ o.precision = PrecisionAfter(c, k)

ItemAsAsked(c, r, first) ==
    IF "text" \in DOMAIN r.what THEN TextAsAsked(c, r, first) ELSE PieceAsAsked(c, r)
AllAsAsked(c, out) == \A i \in 1..Len(out) : ItemAsAsked(c, out[i], i = 1)

At(c, f, a, q, k) ==
    /\ q \in 0..Len(c.fmt) /\ f = SubSeq(c.fmt, q + 1, Len(c.fmt))
    /\ k \in 0..Len(c.args) /\ a = SubSeq(c.args, k + 1, Len(c.args))
    /\ SlotsUpTo(c.fmt, q) = k

WrittenUpTo(c, out, q) ==
    /\ out \in Seq(Items) /\ AllAsAsked(c, out)
    /\ FlattenSeq(Written(out)) = FlattenSeq(SubSeq(Replaced(c.fmt, c.args), 1, q))

(* The stream after one more placeholder.                                  *)
LEMMA StreamOneMore ==
    ASSUME NEW c \in Asked, NEW o, NEW fresh, NEW k \in Nat, StreamAfter(c, o, fresh, k),
           k + 1 <= Len(c.args), Slot(c.fmt, k + 1) \in Placeholders
    PROVE  LET plain == After(o)
               more == Controlled(plain, Slot(c.fmt, k + 1), c.args[k + 1])
           IN  /\ plain \in States /\ more \in States
               /\ StreamAfter(c, Restored(After(more), plain), FALSE, k + 1)
               /\ Flags(more) = Flags(Controlled(c.os, Slot(c.fmt, k + 1), c.args[k + 1]))
               /\ more.width = IF Slot(c.fmt, k + 1).width = Unset THEN 0
                               ELSE Slot(c.fmt, k + 1).width
               /\ more.fill = FillAfter(c, k + 1)
               /\ more.precision = PrecisionAfter(c, k + 1)
<1> DEFINE p == Slot(c.fmt, k + 1)
           value == c.args[k + 1]
           plain == After(o)
           more == Controlled(plain, p, value)
           last == Restored(After(more), plain)
<1>1. value \in Values /\ c.os \in States
  <2>1. c.args \in Seq(Values) /\ c.os \in States /\ k + 1 \in 1..Len(c.args)
    BY DEF Asked
  <2> QED
    BY <2>1, ElementOfSeq
<1>2. /\ o \in States /\ Flags(o) = Flags(c.os)
      /\ o.fill = FillAfter(c, k) /\ o.precision = PrecisionAfter(c, k)
  BY DEF StreamAfter
<1>3. /\ plain \in States /\ Flags(plain) = Flags(o)
      /\ plain.fill = o.fill /\ plain.precision = o.precision /\ plain.width = 0
  BY <1>2 DEF After, States, Flags
<1>4. FillAfter(c, k + 1) = IF p.width = Unset \/ p.fill = Unset THEN FillAfter(c, k) ELSE p.fill
  <2> DEFINE C == {j \in 1..k : Slot(c.fmt, j).width # Unset}
             D == {j \in 1..(k + 1) : Slot(c.fmt, j).width # Unset}
  <2>1. (\A i \in 1..k : i \in C <=> i \in D) /\ (k + 1 \in D <=> Slot(c.fmt, k + 1).width # Unset)
    OBVIOUS
  <2>2. /\ FillAfter(c, k) = Latest(c.fmt, k, "fill", C, c.os.fill)
        /\ FillAfter(c, k + 1) = Latest(c.fmt, k + 1, "fill", D, c.os.fill)
    BY DEF FillAfter
  <2> HIDE DEF C, D
  <2>3. Latest(c.fmt, k + 1, "fill", D, c.os.fill) =
           IF k + 1 \in D /\ Slot(c.fmt, k + 1)["fill"] # Unset THEN Slot(c.fmt, k + 1)["fill"]
           ELSE Latest(c.fmt, k, "fill", C, c.os.fill)
    BY <2>1, LatestStep
  <2> QED
    BY <2>1, <2>2, <2>3
<1>5. PrecisionAfter(c, k + 1) =
         IF p.digits = Unset \/ ~value.floating THEN PrecisionAfter(c, k) ELSE p.digits
  <2> DEFINE C == {j \in 1..k : c.args[j].floating}
             D == {j \in 1..(k + 1) : c.args[j].floating}
  <2>1. (\A i \in 1..k : i \in C <=> i \in D) /\ (k + 1 \in D <=> c.args[k + 1].floating)
    OBVIOUS
  <2>2. /\ PrecisionAfter(c, k) = Latest(c.fmt, k, "digits", C, c.os.precision)
        /\ PrecisionAfter(c, k + 1) = Latest(c.fmt, k + 1, "digits", D, c.os.precision)
    BY DEF PrecisionAfter
  <2> HIDE DEF C, D
  <2>3. Latest(c.fmt, k + 1, "digits", D, c.os.precision) =
           IF k + 1 \in D /\ Slot(c.fmt, k + 1)["digits"] # Unset THEN Slot(c.fmt, k + 1)["digits"]
           ELSE Latest(c.fmt, k, "digits", C, c.os.precision)
    BY <2>1, LatestStep
  <2> QED
    BY <2>1, <2>2, <2>3
<1> HIDE DEF p, value, plain
<1>6. ControlledRightly(plain, p, value)
  BY <1>1, <1>3, Controls DEF p
<1>7. SameFlags(Controlled(plain, p, value), Controlled(c.os, p, value))
  BY <1>1, <1>2, <1>3, FlagsFromFlags DEF SameFlags, p
<1>8. /\ more \in States
      /\ more.width = IF p.width = Unset THEN 0 ELSE p.width
      /\ more.fill = FillAfter(c, k + 1) /\ more.precision = PrecisionAfter(c, k + 1)
  BY <1>2, <1>3, <1>4, <1>5, <1>6 DEF ControlledRightly
<1>9. Flags(more) = Flags(Controlled(c.os, p, value))
  BY <1>7 DEF SameFlags
<1> HIDE DEF more
<1>10. /\ last \in States /\ Flags(last) = Flags(plain) /\ last.width = 0
       /\ last.fill = more.fill /\ last.precision = more.precision
  BY <1>3, <1>8 DEF Restored, After, States, Flags
<1>11. StreamAfter(c, last, FALSE, k + 1)
  BY <1>2, <1>3, <1>8, <1>10 DEF StreamAfter
<1> QED
  BY <1>3, <1>8, <1>9, <1>11 DEF p, value, plain, more, last

(* What a call has written and its stream after one more placeholder.      *)
StreamWith(c, o, q, x, k) ==
    LET plain == After(o)
    IN  Restored(After(Controlled(plain, c.fmt[q + x], c.args[k + 1])), plain)
OutputWith(c, o, out, q, x, k) ==
    out \o <<Wrote(o, [text |-> SubSeq(c.fmt, q + 1, q + (x - 1))])>>
        \o Pieces(Controlled(After(o), c.fmt[q + x], c.args[k + 1]), k + 1, c.args[k + 1])
BeforeOne(c, o, out, q, x, k) ==
    /\ WrittenUpTo(c, out, q) /\ NextSlot(c.fmt, q, x) /\ SlotsUpTo(c.fmt, q) = k
    /\ StreamAfter(c, o, out = <<>>, k) /\ k + 1 <= Len(c.args) /\ k \in Nat
AfterOne(c, o, out, q, x, k) ==
    /\ StreamAfter(c, StreamWith(c, o, q, x, k), FALSE, k + 1)
    /\ WrittenUpTo(c, OutputWith(c, o, out, q, x, k), q + x)
    /\ OutputWith(c, o, out, q, x, k) # <<>>

LEMMA OutputOneMore ==
    ASSUME NEW c \in Asked, NEW o \in States, NEW out \in Seq(Items), NEW q, NEW x, NEW k,
           BeforeOne(c, o, out, q, x, k)
    PROVE  AfterOne(c, o, out, q, x, k)
<1> USE DEF BeforeOne
<1> DEFINE p == c.fmt[q + x]
           text == SubSeq(c.fmt, q + 1, q + (x - 1))
           value == c.args[k + 1]
           plain == After(o)
           more == Controlled(plain, p, value)
           T == <<Wrote(o, [text |-> text])>>
           P == Pieces(more, k + 1, value)
           R == Replaced(c.fmt, c.args)
<1>1. /\ c.fmt \in Seq(Tokens) /\ c.args \in Seq(Values) /\ value \in Values
  <2>1. c.fmt \in Seq(Tokens) /\ c.args \in Seq(Values) /\ k + 1 \in 1..Len(c.args)
    BY FormatAssumption DEF Asked, Tokens
  <2> QED
    BY <2>1, ElementOfSeq
<1>2. p = Slot(c.fmt, k + 1) /\ p \in Placeholders
  <2>1. p = Slot(c.fmt, k + 1)
    BY <1>1, NextSlotCounts
  <2>2. p \in Tokens /\ ~IsText(p)
    <3>1. q + x \in 1..Len(c.fmt) /\ ~IsText(c.fmt[q + x])
      BY DEF NextSlot
    <3> QED
      BY <3>1, <1>1, ElementOfSeq
  <2> QED
    BY <2>1, <2>2 DEF Tokens, IsText
<1>3. /\ plain \in States /\ more \in States
      /\ StreamAfter(c, Restored(After(more), plain), FALSE, k + 1)
      /\ Flags(more) = Flags(Controlled(c.os, p, value))
      /\ more.width = IF p.width = Unset THEN 0 ELSE p.width
      /\ more.fill = FillAfter(c, k + 1) /\ more.precision = PrecisionAfter(c, k + 1)
  <2>1. ASSUME NEW fresh, StreamAfter(c, o, fresh, k)
        PROVE  /\ plain \in States /\ more \in States
               /\ StreamAfter(c, Restored(After(more), plain), FALSE, k + 1)
               /\ Flags(more) = Flags(Controlled(c.os, p, value))
               /\ more.width = IF p.width = Unset THEN 0 ELSE p.width
               /\ more.fill = FillAfter(c, k + 1) /\ more.precision = PrecisionAfter(c, k + 1)
    <3> HIDE DEF p
    <3> QED
      BY <1>2, <2>1, StreamOneMore
  <2> QED
    BY <2>1
<1>4. text \in Seq(Tokens)
  <2>1. q \in Nat /\ q + (x - 1) \in Nat /\ q <= q + (x - 1) /\ q + (x - 1) <= Len(c.fmt)
    BY <1>1 DEF NextSlot
  <2> QED
    BY <2>1, <1>1, PartIs
<1> HIDE DEF p, text, value, plain, more
<1>5. T \in Seq(Items) /\ Written(T) = <<text>> /\ Len(T) = 1 /\ T[1] = Wrote(o, [text |-> text])
  BY <1>4, WrittenText
<1>6. /\ P \in Seq(Items) /\ Len(P) = value.pieces /\ value.pieces \in Nat
      /\ Written(P) = Singles(Output(k + 1, value))
      /\ \A i \in 1..value.pieces :
            /\ P[i] = Wrote(IF i = 1 THEN more ELSE After(more), [arg |-> k + 1, piece |-> i])
            /\ P[i].what = [arg |-> k + 1, piece |-> i]
  <2> DEFINE n == k + 1
  <2>1. n \in Nat
    OBVIOUS
  <2> HIDE DEF n
  <2>2. /\ Pieces(more, n, value) \in Seq(Items)
        /\ Len(Pieces(more, n, value)) = value.pieces /\ value.pieces \in Nat
        /\ Written(Pieces(more, n, value)) = Singles(Output(n, value))
        /\ \A i \in 1..value.pieces :
              /\ Pieces(more, n, value)[i] =
                    Wrote(IF i = 1 THEN more ELSE After(more), [arg |-> n, piece |-> i])
              /\ Pieces(more, n, value)[i].what = [arg |-> n, piece |-> i]
    BY <2>1, <1>1, <1>3, WrittenPieces
  <2> QED
    BY <2>2 DEF n
<1> HIDE DEF T, P
<1> DEFINE first == out \o T
           new == first \o P
<1>7. /\ first \in Seq(Items) /\ Written(first) = Written(out) \o Written(T)
      /\ Len(first) = Len(out) + 1
      /\ \A i \in 1..Len(out) + 1 : first[i] = IF i <= Len(out) THEN out[i] ELSE T[i - Len(out)]
  <2>1. first \in Seq(Items) /\ Written(first) = Written(out) \o Written(T)
    BY <1>5, WrittenConcat
  <2>2. /\ Len(first) = Len(out) + Len(T)
        /\ \A i \in 1..Len(out) + Len(T) : first[i] = IF i <= Len(out) THEN out[i] ELSE T[i - Len(out)]
    <3>1. ConcatIs(Items, out, T, first)
      BY <1>5, ConcatFacts
    <3> HIDE DEF first
    <3> QED
      BY <3>1 DEF ConcatIs
  <2> HIDE DEF first
  <2> QED
    BY <2>1, <2>2, <1>5
<1> HIDE DEF first
<1>8. /\ new \in Seq(Items) /\ Written(new) = Written(first) \o Written(P)
      /\ Len(new) = Len(first) + Len(P)
      /\ \A i \in 1..Len(first) + Len(P) :
            new[i] = IF i <= Len(first) THEN first[i] ELSE P[i - Len(first)]
  <2>1. new \in Seq(Items) /\ Written(new) = Written(first) \o Written(P)
    BY <1>6, <1>7, WrittenConcat
  <2>2. /\ Len(new) = Len(first) + Len(P)
        /\ \A i \in 1..Len(first) + Len(P) :
              new[i] = IF i <= Len(first) THEN first[i] ELSE P[i - Len(first)]
    <3>1. ConcatIs(Items, first, P, new)
      BY <1>6, <1>7, ConcatFacts
    <3> HIDE DEF new
    <3> QED
      BY <3>1 DEF ConcatIs
  <2> HIDE DEF new
  <2> QED
    BY <2>1, <2>2
<1> HIDE DEF new
<1>9. Len(out) \in Nat /\ (Len(out) = 0 <=> out = <<>>)
  OBVIOUS
<1>10. AllAsAsked(c, new)
  <2> SUFFICES ASSUME NEW i \in 1..Len(new) PROVE ItemAsAsked(c, new[i], i = 1)
    BY DEF AllAsAsked
  <2>1. CASE i <= Len(out)
    <3>1. new[i] = out[i] /\ i \in 1..Len(out)
      BY <2>1, <1>6, <1>7, <1>8, <1>9
    <3> QED
      BY <3>1 DEF WrittenUpTo, AllAsAsked
  <2>2. CASE i = Len(out) + 1
    <3>1. new[i] = T[1]
      BY <2>2, <1>6, <1>7, <1>8, <1>9
    <3> DEFINE r == Wrote(o, [text |-> text])
    <3>2. /\ "text" \in DOMAIN r.what /\ r.flags = Flags(o) /\ r.width = o.width
      BY DEF Wrote
    <3>3. new[i] = r
      BY <3>1, <1>5
    <3> HIDE DEF r
    <3>4. r.flags = Flags(c.os) /\ r.width = IF i = 1 THEN c.os.width ELSE 0
      BY <3>2, <2>2, <1>9 DEF StreamAfter
    <3> QED
      BY <3>2, <3>3, <3>4 DEF ItemAsAsked, TextAsAsked
  <2>3. CASE i > Len(out) + 1
    <3> DEFINE j == i - Len(first)
               s == IF j = 1 THEN more ELSE After(more)
               r == Wrote(s, [arg |-> k + 1, piece |-> j])
    <3>1. new[i] = P[j] /\ j \in 1..value.pieces /\ Len(first) = Len(out) + 1
      BY <2>3, <1>6, <1>7, <1>8, <1>9
    <3>2. new[i] = r
      BY <3>1, <1>6
    <3> HIDE DEF j
    <3>3. /\ s \in States /\ Flags(s) = Flags(more) /\ s.fill = more.fill
          /\ s.precision = more.precision /\ s.width = IF j = 1 THEN more.width ELSE 0
      BY <1>3 DEF After, States, Flags
    <3> HIDE DEF s
    <3>4. /\ r.what = [arg |-> k + 1, piece |-> j] /\ r.flags = Flags(s) /\ r.width = s.width
          /\ r.fill = s.fill /\ r.precision = s.precision
      BY DEF Wrote
    <3> HIDE DEF r
    <3>5. /\ "text" \notin DOMAIN r.what /\ r.what.arg = k + 1 /\ r.what.piece = j
      BY <3>4
    <3>6. /\ r.flags = Flags(Controlled(c.os, Slot(c.fmt, k + 1), c.args[k + 1]))
          /\ r.width = IF j = 1 /\ Slot(c.fmt, k + 1).width # Unset
                       THEN Slot(c.fmt, k + 1).width ELSE 0
          /\ r.fill = FillAfter(c, k + 1) /\ r.precision = PrecisionAfter(c, k + 1)
      <4>1. value = c.args[k + 1]
        BY DEF value
      <4> QED
        BY <4>1, <3>3, <3>4, <1>2, <1>3
    <3>7. PieceAsAsked(c, r)
      BY <3>5, <3>6 DEF PieceAsAsked, FillAfter, PrecisionAfter
    <3> QED
      BY <3>2, <3>5, <3>7 DEF ItemAsAsked
  <2>4. i \in Nat
    BY <1>8
  <2> QED
    BY <2>1, <2>2, <2>3, <2>4, <1>9
<1> DEFINE u == Output(k + 1, value)
           w == Written(out)
<1>11. u \in Seq(Whole) /\ text \in Seq(Whole) /\ w \in Seq(Seq(Whole))
  <2>1. k + 1 \in Nat
    OBVIOUS
  <2>2. u \in Seq(Whole)
    BY <2>1, <1>1, ReplacedIs
  <2> QED
    BY <2>2, <1>4, WrittenIs DEF Whole
<1>12. FlattensWith(R, q + x, q, text \o u)
  BY <1>1, ReplacedSlot DEF text, value
<1> HIDE DEF u, w
<1>13. FlattenSeq(Written(new)) = FlattenSeq(w) \o (text \o u)
  <2>1. <<text>> \in Seq(Seq(Whole)) /\ Singles(u) \in Seq(Seq(Whole))
    BY <1>11, SinglesIs
  <2>2. FlattenSeq(w \o <<text>>) = FlattenSeq(w) \o text
    <3>1. FlattenSeq(w \o <<text>>) = FlattenSeq(w) \o FlattenSeq(<<text>>)
      BY <2>1, <1>11, FlattenConcat
    <3>2. FlattenSeq(<<text>>) = text
      BY <1>11, FlattenOne
    <3> QED
      BY <3>1, <3>2
  <2>3. w \o <<text>> \in Seq(Seq(Whole))
    BY <2>1, <1>11, ConcatProperties
  <2>4. FlattenSeq((w \o <<text>>) \o Singles(u)) = FlattenSeq(w \o <<text>>) \o u
    <3> DEFINE v == w \o <<text>>
    <3>1. v \in Seq(Seq(Whole))
      BY <2>3
    <3> HIDE DEF v
    <3>2. FlattenSeq(v \o Singles(u)) = FlattenSeq(v) \o FlattenSeq(Singles(u))
      BY <2>1, <3>1, FlattenConcat
    <3>3. FlattenSeq(Singles(u)) = u
      BY <1>11, FlattenSingles
    <3> QED
      BY <3>2, <3>3 DEF v
  <2>5. Written(new) = (w \o <<text>>) \o Singles(u)
    BY <1>5, <1>6, <1>7, <1>8 DEF w, u
  <2>6. Associates(FlattenSeq(w), text, u)
    BY <1>11, FlattenIn, Associative
  <2> QED
    BY <2>2, <2>4, <2>5, <2>6, Zenon DEF Associates
<1>14. FlattenSeq(Written(new)) = FlattenSeq(SubSeq(R, 1, q + x))
  <2>1. FlattenSeq(w) = FlattenSeq(SubSeq(R, 1, q))
    BY DEF WrittenUpTo, w
  <2> QED
    BY <2>1, <1>12, <1>13 DEF FlattensWith
<1>15. WrittenUpTo(c, new, q + x)
  BY <1>8, <1>10, <1>14 DEF WrittenUpTo
<1>16. new # <<>>
  <2>1. Len(new) = Len(out) + 1 + value.pieces /\ Len(out) \in Nat /\ value.pieces \in Nat
    BY <1>6, <1>7, <1>8
  <2>2. Len(new) # 0
    BY <2>1
  <2> HIDE DEF new
  <2> QED
    BY <2>2
<1> QED
  BY <1>3, <1>15, <1>16 DEF new, first, T, P, p, text, value, plain, more, StreamWith, OutputWith, AfterOne

(* The rest of the format string as one text.                              *)
LEMMA OutputRest ==
    ASSUME NEW c \in Asked, NEW o \in States, NEW out \in Seq(Items), NEW f, NEW a, NEW q, NEW k,
           At(c, f, a, q, k), WrittenUpTo(c, out, q), StreamAfter(c, o, out = <<>>, k),
           a = <<>> \/ \A i \in 1..Len(f) : IsText(f[i])
    PROVE  /\ WrittenUpTo(c, out \o <<Wrote(o, [text |-> f])>>, Len(c.fmt))
           /\ f = <<>> => WrittenUpTo(c, out, Len(c.fmt))
           /\ SubSeq(Replaced(c.fmt, c.args), 1, Len(c.fmt)) = Replaced(c.fmt, c.args)
<1> DEFINE R == Replaced(c.fmt, c.args)
           T == <<Wrote(o, [text |-> f])>>
           w == Written(out)
           new == out \o T
<1>1. c.fmt \in Seq(Tokens) /\ c.args \in Seq(Values)
  BY FormatAssumption DEF Asked, Tokens
<1>2. /\ q \in 0..Len(c.fmt) /\ f = SubSeq(c.fmt, q + 1, Len(c.fmt)) /\ SlotsUpTo(c.fmt, q) = k
      /\ k \in 0..Len(c.args) /\ a = SubSeq(c.args, k + 1, Len(c.args))
  BY DEF At
<1>3. /\ q \in Nat /\ Len(c.fmt) \in Nat /\ q <= Len(c.fmt) /\ Len(c.fmt) <= Len(c.fmt)
      /\ k \in Nat /\ Len(c.args) \in Nat /\ k <= Len(c.args) /\ Len(c.args) <= Len(c.args)
  <2>1. Len(c.fmt) \in Nat /\ Len(c.args) \in Nat
    BY <1>1
  <2>2. q \in 0..Len(c.fmt) /\ k \in 0..Len(c.args)
    BY <1>2
  <2> QED
    BY <2>1, <2>2
<1>4. f \in Seq(Tokens) /\ Len(f) = Len(c.fmt) - q
      /\ \A i \in 1..(Len(c.fmt) - q) : f[i] = c.fmt[q + i]
  <2> DEFINE t == SubSeq(c.fmt, q + 1, Len(c.fmt))
  <2>1. /\ t \in Seq(Tokens) /\ Len(t) = Len(c.fmt) - q
        /\ \A i \in 1..(Len(c.fmt) - q) : t[i] = c.fmt[q + i]
    BY <1>1, <1>3, PartIs
  <2>2. f = t
    BY <1>2
  <2> HIDE DEF t
  <2> QED
    BY <2>1, <2>2
<1>5. Len(a) = Len(c.args) - k
  BY <1>1, <1>2, <1>3, PartIs
<1>6. SlotsUpTo(c.fmt, q) = Len(c.args) \/ \A i \in 1..Len(c.fmt) : q < i => IsText(c.fmt[i])
  <2>1. CASE a = <<>>
    BY <2>1, <1>2, <1>3, <1>5
  <2>2. CASE \A i \in 1..Len(f) : IsText(f[i])
    <3>1. ASSUME NEW i \in 1..Len(c.fmt), q < i PROVE IsText(c.fmt[i])
      <4>1. i - q \in 1..(Len(c.fmt) - q) /\ q + (i - q) = i
        BY <3>1, <1>3
      <4> QED
        BY <4>1, <2>2, <1>4
    <3> QED
      BY <3>1
  <2> QED
    BY <2>1, <2>2
<1>7. /\ FlattensWith(R, Len(c.fmt), q, f) /\ SubSeq(R, 1, Len(c.fmt)) = R
  BY <1>1, <1>2, <1>6, ReplacedRest
<1>8. T \in Seq(Items) /\ Written(T) = <<f>> /\ Len(T) = 1 /\ T[1] = Wrote(o, [text |-> f])
  BY <1>4, WrittenText
<1> HIDE DEF R, T
<1>9. new \in Seq(Items) /\ Written(new) = Written(out) \o Written(T)
  BY <1>8, WrittenConcat
<1>10. ConcatIs(Items, out, T, new)
  BY <1>8, ConcatFacts
<1> HIDE DEF new
<1>11. AllAsAsked(c, new)
  <2> SUFFICES ASSUME NEW i \in 1..Len(new) PROVE ItemAsAsked(c, new[i], i = 1)
    BY DEF AllAsAsked
  <2>1. Len(out) \in Nat /\ (Len(out) = 0 <=> out = <<>>) /\ i \in 1..Len(out) + 1
    BY <1>8, <1>10 DEF ConcatIs
  <2>2. CASE i <= Len(out)
    <3>1. new[i] = out[i] /\ i \in 1..Len(out)
      BY <2>1, <2>2, <1>8, <1>10 DEF ConcatIs
    <3> QED
      BY <3>1 DEF WrittenUpTo, AllAsAsked
  <2>3. CASE i = Len(out) + 1
    <3>1. new[i] = T[1]
      BY <2>1, <2>3, <1>8, <1>10 DEF ConcatIs
    <3> DEFINE r == Wrote(o, [text |-> f])
    <3>2. /\ "text" \in DOMAIN r.what /\ r.flags = Flags(o) /\ r.width = o.width
      BY DEF Wrote
    <3>3. new[i] = r
      BY <3>1, <1>8
    <3> HIDE DEF r
    <3>4. r.flags = Flags(c.os) /\ r.width = IF i = 1 THEN c.os.width ELSE 0
      BY <3>2, <2>1, <2>3 DEF StreamAfter
    <3> QED
      BY <3>2, <3>3, <3>4 DEF ItemAsAsked, TextAsAsked
  <2> QED
    BY <2>1, <2>2, <2>3
<1>12. w \in Seq(Seq(Whole)) /\ f \in Seq(Whole)
  BY <1>4, WrittenIs DEF Whole
<1>13. FlattenSeq(w) = FlattenSeq(SubSeq(R, 1, q))
  BY DEF WrittenUpTo, R
<1> HIDE DEF w
<1>14. FlattenSeq(SubSeq(R, 1, Len(c.fmt))) = FlattenSeq(w) \o f
  BY <1>7, <1>13 DEF FlattensWith
<1>15. FlattenSeq(w \o <<f>>) = FlattenSeq(w) \o f
  <2>1. <<f>> \in Seq(Seq(Whole))
    BY <1>12
  <2>2. FlattenSeq(w \o <<f>>) = FlattenSeq(w) \o FlattenSeq(<<f>>)
    BY <2>1, <1>12, FlattenConcat
  <2>3. FlattenSeq(<<f>>) = f
    BY <1>12, FlattenOne
  <2> QED
    BY <2>2, <2>3
<1>16. Written(new) = w \o <<f>>
  BY <1>8, <1>9 DEF w
<1>17. WrittenUpTo(c, new, Len(c.fmt))
  BY <1>9, <1>11, <1>14, <1>15, <1>16 DEF WrittenUpTo, R
<1>18. ASSUME f = <<>> PROVE WrittenUpTo(c, out, Len(c.fmt))
  <2>1. FlattenSeq(w) \in Seq(Whole)
    BY <1>12, FlattenIn
  <2>2. FlattenSeq(w) \o f = FlattenSeq(w)
    BY <2>1, <1>18, ConcatEmptySeq
  <2> QED
    BY <2>2, <1>14 DEF WrittenUpTo, R, w
<1> QED
  BY <1>7, <1>17, <1>18 DEF R, new, T

-----------------------------------------------------------------------------
(* The invariant: a call under way has written what it was asked to write  *)
(* as far as it has come, and the stream remembers of the placeholders     *)
(* behind it the last fill and precision only.                             *)
UnderWay ==
    phase = "formatting" =>
        /\ asked \in Asked
        /\ \E q, k \in Nat :
              /\ At(asked, fmt, args, q, k)
              /\ WrittenUpTo(asked, output, q)
              /\ StreamAfter(asked, os, output = <<>>, k)

FmInv ==
    /\ os \in States /\ formats \in 0..MaxFormats
    /\ phase \in {"idle", "formatting", "done"}
    /\ phase # "formatting" => fmt = <<>> /\ args = <<>>
    /\ UnderWay
    /\ FormatsAsAsked

LEMMA FmInitOK == FmInit => FmInv
BY StreamStates, FormatAssumption DEF FmInit, FmInv, UnderWay, FormatsAsAsked

LEMMA BeginFormatOK ==
    ASSUME FmInv, NEW f \in Formats, NEW m \in 0..MaxArgs, NEW a \in [1..m -> Values],
           BeginFormat(f, a)
    PROVE  FmInv'
<1> DEFINE c == [fmt |-> f, args |-> a, os |-> os]
<1>1. /\ phase' = "formatting" /\ os' = os /\ fmt' = f /\ args' = a /\ output' = <<>>
      /\ asked' = c /\ formats' = formats + 1 /\ formats < MaxFormats
  BY DEF BeginFormat
<1>2. f \in Seq(Tokens) /\ a \in Seq(Values) /\ Len(a) = m /\ MaxArgs \in Nat /\ m <= MaxArgs
  BY FormatAssumption DEF Tokens
<1>3. c \in Asked
  BY <1>2 DEF FmInv, Asked
<1>4. c.fmt = f /\ c.args = a /\ c.os = os
  OBVIOUS
<1> HIDE DEF c
<1>5. At(c, f, a, 0, 0)
  <2>1. SubSeq(f, 1, Len(f)) = f /\ SubSeq(a, 1, Len(a)) = a
    BY <1>2, SubSeqFull
  <2>2. SlotsUpTo(f, 0) = 0
    BY SlotsCounted
  <2>3. 0 + 1 = 1 /\ 0 \in 0..Len(f) /\ 0 \in 0..Len(a)
    BY <1>2
  <2> QED
    BY <2>1, <2>2, <2>3, <1>4 DEF At
<1>6. WrittenUpTo(c, <<>>, 0)
  <2>1. <<>> \in Seq(Items) /\ Len(<<>>) = 0
    OBVIOUS
  <2>2. Written(<<>>) = <<>>
    BY DEF Written
  <2>3. SubSeq(Replaced(f, a), 1, 0) = <<>>
    BY SubSeqEmpty
  <2>4. AllAsAsked(c, <<>>)
    BY DEF AllAsAsked
  <2>5. FlattenSeq(Written(<<>>)) = FlattenSeq(SubSeq(Replaced(c.fmt, c.args), 1, 0))
    BY <2>2, <2>3, <1>4
  <2> QED
    BY <2>1, <2>4, <2>5 DEF WrittenUpTo
<1>7. StreamAfter(c, os, TRUE, 0)
  <2>1. FillAfter(c, 0) = os.fill /\ PrecisionAfter(c, 0) = os.precision
    BY <1>4 DEF FillAfter, PrecisionAfter, Latest
  <2> QED
    BY <2>1, <1>4 DEF StreamAfter, FmInv
<1>8. UnderWay'
  <2>1. (output = <<>>)' = TRUE
    BY <1>1
  <2> QED
    BY <1>1, <1>3, <1>5, <1>6, <1>7, <2>1 DEF UnderWay
<1> QED
  BY <1>1, <1>8, FormatAssumption DEF FmInv, FormatsAsAsked

(* The first placeholder that is left.                                     *)
LEMMA FirstIs ==
    ASSUME fmt \in Seq(Tokens)
    PROVE  \/ First = 0 /\ \A i \in 1..Len(fmt) : IsText(fmt[i])
           \/ /\ First \in 1..Len(fmt) /\ ~IsText(fmt[First])
              /\ \A i \in 1..(First - 1) : IsText(fmt[i])
<1> DEFINE I == {i \in 1..Len(fmt) : ~IsText(fmt[i])}
<1>1. First = IF I # {} THEN Min(I) ELSE 0
  BY DEF First, SelectInSeq
<1>2. CASE I = {}
  BY <1>1, <1>2
<1>3. CASE I # {}
  <2>1. I \in SUBSET Nat
    OBVIOUS
  <2>2. PICK n \in I : \A j \in I : n <= j
    <3> HIDE DEF I
    <3> QED
      BY <2>1, <1>3, Least
  <2>3. Min(I) \in I /\ \A j \in I : Min(I) <= j
    <3> HIDE DEF I
    <3> QED
      BY <2>2 DEF Min
  <2>4. ASSUME NEW i \in 1..(First - 1) PROVE IsText(fmt[i])
    <3>1. First = Min(I) /\ First \in 1..Len(fmt)
      BY <1>1, <1>3, <2>3
    <3>2. i \in 1..Len(fmt) /\ ~(First <= i)
      BY <3>1
    <3> QED
      BY <3>1, <3>2, <2>3
  <2> QED
    BY <1>1, <1>3, <2>3, <2>4
<1> QED
  BY <1>2, <1>3

LEMMA FormatOneOK == FmInv /\ FormatOne => FmInv'
<1> SUFFICES ASSUME FmInv, FormatOne PROVE FmInv'
  OBVIOUS
<1> DEFINE x == First
           c == asked
           p == fmt[x]
           value == args[1]
           n == Len(c.args) - Len(args) + 1
           plain == After(os)
           more == Controlled(plain, p, value)
           text == SubSeq(fmt, 1, x - 1)
<1>1. /\ phase = "formatting" /\ args # <<>> /\ First # 0
      /\ output' = output \o <<Wrote(os, [text |-> text])>> \o Pieces(more, n, value)
      /\ os' = Restored(After(more), plain)
      /\ fmt' = SubSeq(fmt, First + 1, Len(fmt)) /\ args' = Tail(args)
      /\ asked' = asked /\ phase' = phase /\ formats' = formats
  BY DEF FormatOne
<1>2. c \in Asked /\ os \in States /\ formats \in 0..MaxFormats
  BY <1>1 DEF FmInv, UnderWay
<1>3. PICK q \in Nat, k \in Nat :
         /\ At(c, fmt, args, q, k)
         /\ WrittenUpTo(c, output, q)
         /\ StreamAfter(c, os, output = <<>>, k)
  BY <1>1 DEF FmInv, UnderWay
<1>4. c.fmt \in Seq(Tokens) /\ c.args \in Seq(Values)
      /\ Len(c.fmt) \in Nat /\ Len(c.args) \in Nat
  BY <1>2, FormatAssumption DEF Asked, Tokens
<1>5. /\ q \in 0..Len(c.fmt) /\ fmt = SubSeq(c.fmt, q + 1, Len(c.fmt))
      /\ SlotsUpTo(c.fmt, q) = k
      /\ k \in 0..Len(c.args) /\ args = SubSeq(c.args, k + 1, Len(c.args))
  BY <1>3 DEF At
<1>6. /\ fmt \in Seq(Tokens) /\ Len(fmt) = Len(c.fmt) - q
      /\ \A i \in 1..(Len(c.fmt) - q) : fmt[i] = c.fmt[q + i]
  <2> DEFINE t == SubSeq(c.fmt, q + 1, Len(c.fmt))
  <2>1. q <= Len(c.fmt) /\ Len(c.fmt) <= Len(c.fmt)
    BY <1>4, <1>5
  <2>2. /\ t \in Seq(Tokens) /\ Len(t) = Len(c.fmt) - q
        /\ \A i \in 1..(Len(c.fmt) - q) : t[i] = c.fmt[q + i]
    BY <1>4, <2>1, PartIs
  <2>3. fmt = t
    BY <1>5
  <2> HIDE DEF t
  <2> QED
    BY <2>2, <2>3
<1>7. /\ args \in Seq(Values) /\ Len(args) = Len(c.args) - k
      /\ \A i \in 1..(Len(c.args) - k) : args[i] = c.args[k + i]
  <2> DEFINE t == SubSeq(c.args, k + 1, Len(c.args))
  <2>1. k <= Len(c.args) /\ Len(c.args) <= Len(c.args)
    BY <1>4, <1>5
  <2>2. /\ t \in Seq(Values) /\ Len(t) = Len(c.args) - k
        /\ \A i \in 1..(Len(c.args) - k) : t[i] = c.args[k + i]
    BY <1>4, <2>1, PartIs
  <2>3. args = t
    BY <1>5
  <2> HIDE DEF t
  <2> QED
    BY <2>2, <2>3
<1>8. x \in 1..Len(fmt) /\ ~IsText(fmt[x]) /\ \A i \in 1..(x - 1) : IsText(fmt[i])
  BY <1>1, <1>6, FirstIs
<1> HIDE DEF x
<1>9. Len(args) >= 1 /\ k + 1 <= Len(c.args) /\ value = c.args[k + 1] /\ n = k + 1
  <2>1. Len(args) # 0 /\ Len(args) \in Nat
    BY <1>1, <1>7
  <2>2. 1 \in 1..(Len(c.args) - k)
    BY <2>1, <1>4, <1>7
  <2> QED
    BY <2>1, <2>2, <1>4, <1>7
<1>10. NextSlot(c.fmt, q, x) /\ p = c.fmt[q + x]
  <2>1. x \in 1..(Len(c.fmt) - q) /\ q + x <= Len(c.fmt) /\ x \in Nat \ {0}
    BY <1>4, <1>6, <1>8
  <2>2. ASSUME NEW i \in 1..(x - 1) PROVE IsText(c.fmt[q + i])
    <3>1. i \in 1..(Len(c.fmt) - q)
      BY <2>1, <1>4
    <3> QED
      BY <3>1, <1>6, <1>8
  <2> QED
    BY <2>1, <2>2, <1>6, <1>8 DEF NextSlot
<1>11. /\ text = SubSeq(c.fmt, q + 1, q + (x - 1))
       /\ fmt' = SubSeq(c.fmt, (q + x) + 1, Len(c.fmt))
  <2>1. /\ x - 1 \in Nat /\ x \in Nat /\ x - 1 <= Len(c.fmt) - q /\ x <= Len(fmt)
        /\ 0 <= x - 1 /\ Len(fmt) \in Nat /\ Len(fmt) <= Len(c.fmt) - q
    BY <1>4, <1>6, <1>8
  <2>2. SubSeq(fmt, 0 + 1, x - 1) = SubSeq(c.fmt, (q + 0) + 1, q + (x - 1))
    BY <2>1, <1>4, <1>5, PartOfRest
  <2>3. SubSeq(fmt, x + 1, Len(fmt)) = SubSeq(c.fmt, (q + x) + 1, q + Len(fmt))
    BY <2>1, <1>4, <1>5, PartOfRest
  <2>4. 0 + 1 = 1 /\ (q + 0) + 1 = q + 1 /\ q + Len(fmt) = Len(c.fmt)
    BY <1>4, <1>6
  <2> QED
    BY <2>2, <2>3, <2>4, <1>1 DEF x
<1>12. args' = SubSeq(c.args, (k + 1) + 1, Len(c.args))
  <2>1. Tail(args) = SubSeq(args, 2, Len(args))
    BY <1>1, <1>7, TailIsSubSeq
  <2>2. SubSeq(args, 1 + 1, Len(args)) = SubSeq(c.args, (k + 1) + 1, k + Len(args))
    <3>1. 1 \in Nat /\ Len(args) \in Nat /\ 1 <= Len(args) /\ Len(args) <= Len(c.args) - k
      BY <1>4, <1>7, <1>9
    <3> QED
      BY <3>1, <1>4, <1>5, PartOfRest
  <2>3. 1 + 1 = 2 /\ k + Len(args) = Len(c.args)
    BY <1>4, <1>7
  <2> QED
    BY <2>1, <2>2, <2>3, <1>1
<1> HIDE DEF p, value, n, plain, more, text
<1>13. /\ StreamAfter(c, os', FALSE, k + 1)
       /\ WrittenUpTo(c, output', q + x)
       /\ output' # <<>>
  <2>1. /\ StreamAfter(c, StreamWith(c, os, q, x, k), FALSE, k + 1)
        /\ WrittenUpTo(c, OutputWith(c, os, output, q, x, k), q + x)
        /\ OutputWith(c, os, output, q, x, k) # <<>>
    <3>1. output \in Seq(Items)
      BY <1>3 DEF WrittenUpTo
    <3>2. BeforeOne(c, os, output, q, x, k)
      BY <1>3, <1>5, <1>9, <1>10 DEF BeforeOne
    <3> HIDE DEF c
    <3>3. AfterOne(c, os, output, q, x, k)
      BY <3>1, <3>2, <1>2, OutputOneMore
    <3> QED
      BY <3>3 DEF AfterOne
  <2>2. os' = StreamWith(c, os, q, x, k)
    BY <1>1, <1>9, <1>10 DEF StreamWith, plain, more
  <2>3. output' = OutputWith(c, os, output, q, x, k)
    BY <1>1, <1>9, <1>10, <1>11 DEF OutputWith, plain, more
  <2> QED
    BY <2>1, <2>2, <2>3
<1>14. At(c, fmt', args', q + x, k + 1)
  <2>1. SlotsUpTo(c.fmt, q + x) = k + 1
    BY <1>4, <1>5, <1>10, NextSlotCounts
  <2>2. q + x \in 0..Len(c.fmt) /\ k + 1 \in 0..Len(c.args)
    BY <1>4, <1>9, <1>10 DEF NextSlot
  <2> QED
    BY <2>1, <2>2, <1>11, <1>12 DEF At
<1>15. (output = <<>>)' = FALSE
  BY <1>13
<1>16. UnderWay'
  <2>1. q + x \in Nat /\ k + 1 \in Nat
    BY <1>10 DEF NextSlot
  <2> QED
    BY <2>1, <1>1, <1>2, <1>13, <1>14, <1>15 DEF UnderWay
<1> QED
  BY <1>1, <1>2, <1>13, <1>16 DEF FmInv, FormatsAsAsked, StreamAfter
LEMMA FormatRestOK == FmInv /\ FormatRest => FmInv'
<1> SUFFICES ASSUME FmInv, FormatRest PROVE FmInv'
  OBVIOUS
<1> DEFINE c == asked
           item == Wrote(os, [text |-> fmt])
<1>1. /\ phase = "formatting" /\ (args = <<>> \/ First = 0)
      /\ args' = <<>> /\ fmt' = <<>> /\ phase' = "done"
      /\ asked' = asked /\ formats' = formats
  BY DEF FormatRest
<1>2. \/ (fmt # <<>> \/ c.args = <<>>) /\ output' = Append(output, item) /\ os' = After(os)
      \/ fmt = <<>> /\ output' = output /\ os' = os
  BY DEF FormatRest
<1>3. c \in Asked /\ os \in States /\ formats \in 0..MaxFormats
  BY <1>1 DEF FmInv, UnderWay
<1>4. PICK q \in Nat, k \in Nat :
         /\ At(c, fmt, args, q, k)
         /\ WrittenUpTo(c, output, q)
         /\ StreamAfter(c, os, output = <<>>, k)
  BY <1>1 DEF FmInv, UnderWay
<1>5. c.fmt \in Seq(Tokens) /\ c.args \in Seq(Values)
      /\ Len(c.fmt) \in Nat /\ Len(c.args) \in Nat
  BY <1>3, FormatAssumption DEF Asked, Tokens
<1>6. output \in Seq(Items)
  BY <1>4 DEF WrittenUpTo
<1>7. fmt \in Seq(Tokens)
  <2>1. q <= Len(c.fmt) /\ Len(c.fmt) <= Len(c.fmt)
    BY <1>4, <1>5 DEF At
  <2>2. SubSeq(c.fmt, q + 1, Len(c.fmt)) \in Seq(Tokens)
    BY <2>1, <1>5, PartIs
  <2> QED
    BY <2>2, <1>4 DEF At
<1>8. args = <<>> \/ \A i \in 1..Len(fmt) : IsText(fmt[i])
  <2>1. First = 0 \/ First \in 1..Len(fmt)
    BY <1>7, FirstIs
  <2> QED
    BY <1>1, <1>7, FirstIs
<1>9. /\ WrittenUpTo(c, output \o <<item>>, Len(c.fmt))
      /\ fmt = <<>> => WrittenUpTo(c, output, Len(c.fmt))
      /\ SubSeq(Replaced(c.fmt, c.args), 1, Len(c.fmt)) = Replaced(c.fmt, c.args)
  BY <1>3, <1>4, <1>6, <1>8, OutputRest
<1>10. Append(output, item) = output \o <<item>>
  <2>1. item \in Items
    <3>1. [text |-> fmt] \in Whats
      BY <1>7 DEF Whats
    <3> QED
      BY <3>1, <1>3, WroteItem
  <2> HIDE DEF item
  <2> QED
    BY <2>1, <1>6, AppendIsConcat
<1>11. WrittenUpTo(c, output', Len(c.fmt))
  <2>1. CASE output' = Append(output, item)
    BY <2>1, <1>9, <1>10
  <2>2. CASE fmt = <<>> /\ output' = output
    BY <2>2, <1>9
  <2> QED
    BY <2>1, <2>2, <1>2
<1>12. os' \in States /\ Flags(os') = Flags(c.os)
  <2>1. Flags(os) = Flags(c.os)
    BY <1>4 DEF StreamAfter
  <2>2. After(os) \in States /\ Flags(After(os)) = Flags(os)
    BY <1>3 DEF After, Flags, States
  <2> QED
    BY <2>1, <2>2, <1>2, <1>3
<1>13. FormatsAsAsked'
  <2>1. output' \in Seq(Items) /\ AllAsAsked(c, output')
        /\ FlattenSeq(Written(output')) = FlattenSeq(Replaced(c.fmt, c.args))
    BY <1>9, <1>11 DEF WrittenUpTo
  <2>2. DOMAIN output' = 1..Len(output')
    BY <2>1
  <2>3. ASSUME NEW i \in DOMAIN output'
        PROVE  IF "text" \in DOMAIN output'[i].what THEN TextAsAsked(c, output'[i], i = 1)
                                                    ELSE PieceAsAsked(c, output'[i])
    BY <2>1, <2>2, <2>3 DEF AllAsAsked, ItemAsAsked
  <2> HIDE DEF c
  <2>4. asked' = c
    BY <1>1 DEF c
  <2> QED
    BY <2>1, <2>3, <2>4, <1>12 DEF FormatsAsAsked
<1> QED
  BY <1>1, <1>3, <1>12, <1>13 DEF FmInv, UnderWay

LEMMA FormatReturnsOK == FmInv /\ FormatReturns => FmInv'
BY DEF FmInv, FormatReturns, UnderWay, FormatsAsAsked

LEMMA FmStutter == FmInv /\ UNCHANGED fmVars => FmInv'
<1> SUFFICES ASSUME FmInv, UNCHANGED fmVars PROVE FmInv'
  OBVIOUS
<1>1. /\ os' = os /\ fmt' = fmt /\ args' = args /\ output' = output /\ asked' = asked
      /\ phase' = phase /\ formats' = formats
  BY DEF fmVars
<1>2. UnderWay'
  BY <1>1 DEF FmInv, UnderWay
<1>3. FormatsAsAsked'
  BY <1>1 DEF FmInv, FormatsAsAsked
<1> QED
  BY <1>1, <1>2, <1>3 DEF FmInv

LEMMA FmStep == FmInv /\ [FmNext]_fmVars => FmInv'
<1> SUFFICES ASSUME FmInv, [FmNext]_fmVars PROVE FmInv'
  OBVIOUS
<1>1. ASSUME NEW f \in Formats, NEW m \in 0..MaxArgs, NEW a \in [1..m -> Values],
             BeginFormat(f, a)
      PROVE  FmInv'
  BY <1>1, BeginFormatOK
<1> QED
  BY <1>1, FormatOneOK, FormatRestOK, FormatReturnsOK, FmStutter DEF FmNext

THEOREM FmInvariant == FmSpec => []FmInv
BY FmInitOK, FmStep, PTL DEF FmSpec

(* A call of format writes what it was asked to write under the flags,     *)
(* width, fill and precision of each placeholder, for every set of format  *)
(* strings, arguments and streams: Format.FormatsAsAsked.                  *)
THEOREM FormatsOnlyAsAsked == FmSpec => []FormatsAsAsked
<1>1. FmInv => FormatsAsAsked
  BY DEF FmInv
<1> QED
  BY <1>1, FmInvariant, PTL

(* What is left of a sequence is a suffix of it.                           *)
LEMMA RestIsSuffix ==
    ASSUME NEW S, NEW s \in Seq(S), NEW q \in 0..Len(s)
    PROVE  IsSuffix(SubSeq(s, q + 1, Len(s)), s)
<1> DEFINE f == SubSeq(s, q + 1, Len(s))
           l == Len(f)
           n == Len(s)
           t == Reverse(f)
           u == Reverse(s)
           v == SubSeq(t, 0 + 1, l)
           w == SubSeq(u, 0 + 1, l)
<1>1. q \in Nat /\ n \in Nat /\ q <= n /\ n <= n
  OBVIOUS
<1>2. f \in Seq(S) /\ l = n - q /\ \A i \in 1..(n - q) : f[i] = s[q + i]
  BY <1>1, PartIs
<1>3. l \in Nat /\ l <= n /\ 0 <= l
  BY <1>1, <1>2
<1> HIDE DEF f
<1>4. t \in Seq(S) /\ Len(t) = l /\ \A i \in 1..l : t[i] = f[(l - i) + 1]
  <2>1. ASSUME NEW i \in 1..l PROVE f[(l - i) + 1] \in S
    <3>1. (l - i) + 1 \in 1..Len(f)
      BY <1>3
    <3> QED
      BY <3>1, <1>2, ElementOfSeq
  <2>2. t = [i \in 1..l |-> f[(l - i) + 1]]
    BY DEF Reverse
  <2> HIDE DEF t, l
  <2> QED
    BY <2>1, <2>2, <1>3, IsASeq
<1>5. u \in Seq(S) /\ Len(u) = n /\ \A i \in 1..n : u[i] = s[(n - i) + 1]
  <2>1. ASSUME NEW i \in 1..n PROVE s[(n - i) + 1] \in S
    <3>1. (n - i) + 1 \in 1..Len(s)
      BY <1>1
    <3> QED
      BY <3>1, ElementOfSeq
  <2>2. u = [i \in 1..n |-> s[(n - i) + 1]]
    BY DEF Reverse
  <2> HIDE DEF u, n
  <2> QED
    BY <2>1, <2>2, <1>1, IsASeq
<1> HIDE DEF t, u
<1>6. v \in Seq(S) /\ Len(v) = l - 0 /\ \A i \in 1..(l - 0) : v[i] = t[0 + i]
  <2>1. 0 \in Nat /\ l <= Len(t)
    BY <1>3, <1>4
  <2> HIDE DEF l
  <2> QED
    BY <2>1, <1>3, <1>4, PartIs
<1>7. w \in Seq(S) /\ Len(w) = l - 0 /\ \A i \in 1..(l - 0) : w[i] = u[0 + i]
  <2>1. 0 \in Nat /\ l <= Len(u)
    BY <1>3, <1>5
  <2> HIDE DEF l
  <2> QED
    BY <2>1, <1>3, <1>5, PartIs
<1> HIDE DEF v, w, l, n
<1>8. ASSUME NEW i \in 1..l PROVE v[i] = w[i]
  <2>1. i \in 1..n /\ i \in Nat /\ 0 + i = i /\ l - 0 = l
    BY <1>3, <1>1
  <2>2. v[i] = f[(l - i) + 1] /\ w[i] = s[(n - i) + 1]
    BY <2>1, <1>4, <1>5, <1>6, <1>7
  <2>3. (l - i) + 1 \in 1..(n - q) /\ q + ((l - i) + 1) = (n - i) + 1
    BY <1>1, <1>2, <1>3
  <2> QED
    BY <2>2, <2>3, <1>2
<1>9. v = w
  <2>1. Len(v) = l /\ Len(w) = l
    BY <1>3, <1>6, <1>7
  <2> QED
    BY <2>1, <1>6, <1>7, <1>8, SeqEqual
<1>10. Len(t) <= Len(u) /\ SubSeq(t, 1, Len(t)) = SubSeq(u, 1, Len(t))
  BY <1>3, <1>4, <1>5, <1>9 DEF v, w
<1> QED
  BY <1>10 DEF IsSuffix, IsPrefix, f, t, u

LEMMA FmInvTypes == FmInv => FmTypeOK
<1> SUFFICES ASSUME FmInv PROVE FmTypeOK
  OBVIOUS
<1>1. os.width \in Nat
  BY DEF FmInv, States
<1>2. Len(args) <= MaxArgs /\ \E f \in Formats : IsSuffix(fmt, f)
  <2>1. CASE phase = "formatting"
    <3> DEFINE c == asked
    <3>1. c \in Asked
      BY <2>1 DEF FmInv, UnderWay
    <3>2. PICK q \in Nat, k \in Nat : At(c, fmt, args, q, k)
      BY <2>1 DEF FmInv, UnderWay
    <3>3. /\ c.fmt \in Formats /\ c.fmt \in Seq(Tokens) /\ c.args \in Seq(Values)
          /\ Len(c.args) <= MaxArgs /\ Len(c.args) \in Nat /\ MaxArgs \in Nat
      BY <3>1, FormatAssumption DEF Asked, Tokens
    <3>4. /\ q \in 0..Len(c.fmt) /\ fmt = SubSeq(c.fmt, q + 1, Len(c.fmt))
          /\ k \in 0..Len(c.args) /\ args = SubSeq(c.args, k + 1, Len(c.args))
      BY <3>2 DEF At
    <3>5. IsSuffix(fmt, c.fmt)
      BY <3>3, <3>4, RestIsSuffix
    <3>6. Len(args) = Len(c.args) - k /\ k <= Len(c.args)
      BY <3>3, <3>4, PartIs
    <3> HIDE DEF c
    <3>7. Len(args) <= MaxArgs
      BY <3>3, <3>6
    <3> QED
      BY <3>3, <3>5, <3>7
  <2>2. CASE phase # "formatting"
    <3>1. fmt = <<>> /\ args = <<>> /\ 0 <= MaxArgs
      BY <2>2, FormatAssumption DEF FmInv
    <3>2. PICK f \in Formats : f \in Seq(Tokens)
      BY FormatAssumption DEF Tokens
    <3>3. Len(f) \in 0..Len(f) /\ SubSeq(f, Len(f) + 1, Len(f)) = <<>>
      BY <3>2, SubSeqEmpty
    <3>4. IsSuffix(<<>>, f)
      <4> DEFINE q == Len(f)
      <4>1. q \in 0..Len(f) /\ SubSeq(f, q + 1, Len(f)) = <<>>
        BY <3>3
      <4> HIDE DEF q
      <4>2. IsSuffix(SubSeq(f, q + 1, Len(f)), f)
        BY <4>1, <3>2, RestIsSuffix
      <4> QED
        BY <4>1, <4>2
    <3> QED
      BY <3>1, <3>4
  <2> QED
    BY <2>1, <2>2
<1> QED
  BY <1>1, <1>2 DEF FmTypeOK, FmInv

(* The state of a call has its type: Format.FmTypeOK.                      *)
THEOREM FormatTypeCorrect == FmSpec => []FmTypeOK
BY FmInvTypes, FmInvariant, PTL

=============================================================================
