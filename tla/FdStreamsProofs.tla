--------------------------- MODULE FdStreamsProofs ---------------------------
(***************************************************************************)
(* The streams over a pipe, for every number of readers and every size of  *)
(* the buffer, the putback area and the pipe: no byte is lost, doubled or  *)
(* put out of order, and a reader keeps what ByteReader promises.          *)
(***************************************************************************)
EXTENDS MCChild, ExecSearchProofs, FiniteSetTheorems

(* How many of the bytes a reader took have left its buffer; negative      *)
(* while the buffer has room for more than there were.                     *)
Base(r) == Len(taken[r]) - in[r].egptr

Pointers(r) ==
    /\ in[r].eback <= in[r].gptr /\ in[r].gptr <= in[r].egptr
    /\ PUTBACK_SIZE <= in[r].egptr
    /\ 0 <= Base(r) + in[r].eback
    /\ pos[r] = Base(r) + in[r].gptr
    /\ failed[r] <= Len(taken[r])

(* Between eback and egptr are the bytes that came last, except those that *)
(* an underflow without success moved away.                                *)
Buffered(r) ==
    \A k \in Offsets :
        in[r].eback <= k /\ k < in[r].egptr /\ failed[r] < Base(r) + k + 1 =>
            in[r].buf[k] = taken[r][Base(r) + k + 1]

(* The putback area ends at the start of the buffer or of the input.       *)
AsFarBackAsCan(r) == in[r].eback = 0 \/ Base(r) + in[r].eback = 0

Increasing(s) == \A i, j \in 1..Len(s) : i < j => s[i] < s[j]

(* t was taken out of a pipe that now has p: its bytes are older.  That    *)
(* byte i of a sequence is at least i bounds the sequences' lengths.       *)
TakenBefore(t, p, n) ==
    /\ Increasing(t)
    /\ Len(t) + Len(p) <= n
    /\ \A i \in 1..Len(t) : i <= t[i] /\ t[i] <= n
    /\ \A k \in 1..Len(p) : k + Len(t) <= p[k]
    /\ \A i \in 1..Len(t), k \in 1..Len(p) : t[i] < p[k]

(* Every byte of the wire is in one place, and the pipe has the newest.    *)
Places ==
    /\ Increasing(wire) /\ Increasing(pipe)
    /\ \A i \in 1..Len(wire) : wire[i] <= inserted
    /\ \A k \in 1..Len(pipe) : pipe[k] <= inserted
    /\ \A r \in Readers : TakenBefore(taken[r], pipe, inserted)
    /\ \A r, s \in Readers : r # s =>
          \A i \in 1..Len(taken[r]), j \in 1..Len(taken[s]) : taken[r][i] # taken[s][j]
    /\ \A i \in 1..Len(wire) :
          \/ \E k \in 1..Len(pipe) : pipe[k] = wire[i]
          \/ \E r \in Readers : \E k \in 1..Len(taken[r]) : taken[r][k] = wire[i]

GoodMeansSent == outGood /\ ~cleared => Len(wire) = inserted

FdInv ==
    /\ FdTypeOK
    /\ \A r \in Readers : Pointers(r) /\ Buffered(r) /\ AsFarBackAsCan(r)
    /\ Places
    /\ GoodMeansSent

--------------------------------------------------------------------------------
LEMMA FdInitInv == FdInit => FdInv
<1> SUFFICES ASSUME FdInit PROVE FdInv
  OBVIOUS
<1>1. FdTypeOK
  <2>1. /\ pipe \in Seq(1..MaxBytes) /\ wire \in Seq(1..MaxBytes)
        /\ taken \in [Readers -> Seq(1..MaxBytes)]
        /\ Len(pipe) <= Capacity
    BY StreamAssumption DEF FdInit
  <2>2. /\ PUTBACK_SIZE \in 0..PUTBACK_SIZE
        /\ PUTBACK_SIZE \in 0..(BUFFER_SIZE + PUTBACK_SIZE)
    BY StreamAssumption
  <2>3. in \in [Readers -> [buf : [Offsets -> 1..MaxBytes \cup {NoByte}],
                           eback : 0..PUTBACK_SIZE,
                           gptr : 0..(BUFFER_SIZE + PUTBACK_SIZE),
                           egptr : 0..(BUFFER_SIZE + PUTBACK_SIZE)]]
    BY <2>2 DEF FdInit
  <2>4. 0 \in 0..MaxBytes /\ 0 \in 0..MaxFaults
    BY StreamAssumption
  <2> QED
    BY <2>1, <2>3, <2>4 DEF FdInit, FdTypeOK
<1>2. \A r \in Readers : Pointers(r) /\ Buffered(r) /\ AsFarBackAsCan(r)
  BY StreamAssumption DEF FdInit, Pointers, Buffered, AsFarBackAsCan, Base, Offsets
<1>3. Places /\ GoodMeansSent
  BY DEF FdInit, Places, TakenBefore, Increasing, GoodMeansSent
<1> QED
  BY <1>1, <1>2, <1>3 DEF FdInv

--------------------------------------------------------------------------------
(* s grows to t by the m numbers after n, which is not below any of s.     *)
Grows(s, t, n, m) ==
    /\ Len(t) = Len(s) + m
    /\ \A k \in 1..Len(t) : t[k] = IF k <= Len(s) THEN s[k] ELSE n + k - Len(s)

LEMMA StaysIncreasing ==
    ASSUME NEW s \in Seq(Nat), NEW t \in Seq(Nat), NEW n \in Nat, NEW m \in Nat,
           Increasing(s), \A k \in 1..Len(s) : s[k] <= n, Grows(s, t, n, m)
    PROVE  Increasing(t) /\ \A k \in 1..Len(t) : t[k] <= n + m
<1>1. Len(s) \in Nat /\ \A k \in 1..Len(s) : s[k] \in Nat
  OBVIOUS
<1>2. ASSUME NEW i \in 1..Len(t), NEW j \in 1..Len(t), i < j PROVE t[i] < t[j]
  <2>1. /\ t[i] = IF i <= Len(s) THEN s[i] ELSE n + i - Len(s)
        /\ t[j] = IF j <= Len(s) THEN s[j] ELSE n + j - Len(s)
        /\ i \in Nat /\ j \in Nat /\ 1 <= i
    BY DEF Grows
  <2>2. CASE j <= Len(s)
    <3>1. i \in 1..Len(s) /\ j \in 1..Len(s)
      BY <1>1, <1>2, <2>1, <2>2
    <3> QED
      BY <1>2, <2>1, <2>2, <3>1 DEF Increasing
  <2>3. CASE i > Len(s)
    BY <1>1, <1>2, <2>1, <2>3
  <2>4. CASE i <= Len(s) /\ j > Len(s)
    BY SMTT(60), <1>1, <2>1, <2>4
  <2> QED
    BY <1>1, <1>2, <2>1, <2>2, <2>3, <2>4
<1>3. ASSUME NEW k \in 1..Len(t) PROVE t[k] <= n + m
  BY SMTT(60), <1>1 DEF Grows
<1> QED
  BY <1>2, <1>3 DEF Increasing

LEMMA StaysBefore ==
    ASSUME NEW t \in Seq(Nat), NEW p \in Seq(Nat), NEW q \in Seq(Nat),
           NEW n \in Nat, NEW m \in Nat, NEW last \in Nat, n + m <= last,
           TakenBefore(t, p, n), Grows(p, q, n, m)
    PROVE  TakenBefore(t, q, last)
<1>1. /\ Len(t) \in Nat /\ \A i \in 1..Len(t) : t[i] \in Nat
      /\ Len(p) \in Nat /\ \A k \in 1..Len(p) : p[k] \in Nat
  OBVIOUS
<1>2. Len(t) + Len(q) <= last
  BY <1>1 DEF TakenBefore, Grows
<1>3. ASSUME NEW i \in 1..Len(t) PROVE i <= t[i] /\ t[i] <= last
  BY <1>1 DEF TakenBefore
<1>0. ASSUME NEW k \in 1..Len(q)
      PROVE  \/ k \in 1..Len(p) /\ q[k] = p[k]
             \/ k \in Nat /\ k > Len(p) /\ q[k] = n + k - Len(p)
  BY <1>1 DEF Grows
<1>4. ASSUME NEW k \in 1..Len(q) PROVE k + Len(t) <= q[k]
  <2>1. Len(t) + Len(p) <= n
    BY DEF TakenBefore
  <2>2. CASE k \in 1..Len(p) /\ q[k] = p[k]
    BY <2>2 DEF TakenBefore
  <2>3. CASE k \in Nat /\ k > Len(p) /\ q[k] = n + k - Len(p)
    BY <1>1, <2>1, <2>3
  <2> QED
    BY <1>0, <2>2, <2>3
<1>5. ASSUME NEW i \in 1..Len(t), NEW k \in 1..Len(q) PROVE t[i] < q[k]
  <2>1. t[i] <= n /\ t[i] \in Nat
    BY <1>1 DEF TakenBefore
  <2>2. CASE k \in 1..Len(p) /\ q[k] = p[k]
    BY <2>2 DEF TakenBefore
  <2>3. CASE k \in Nat /\ k > Len(p) /\ q[k] = n + k - Len(p)
    BY <1>1, <2>1, <2>3
  <2> QED
    BY <1>0, <2>2, <2>3
<1> QED
  BY <1>2, <1>3, <1>4, <1>5 DEF TakenBefore

LEMMA NumbersInSequence ==
    ASSUME NEW s \in Seq(1..MaxBytes)
    PROVE  s \in Seq(Nat) /\ Len(s) \in Nat
<1>1. MaxBytes \in Nat /\ \A i \in 1..Len(s) : s[i] \in 1..MaxBytes
  BY StreamAssumption, ElementOfSeq
<1>2. Len(s) \in Nat /\ s = [i \in 1..Len(s) |-> s[i]] /\ \A i \in 1..Len(s) : s[i] \in Nat
  BY <1>1
<1> QED
  BY <1>2

LEMMA BytesAreNumbers ==
    ASSUME FdTypeOK
    PROVE  /\ pipe \in Seq(Nat) /\ wire \in Seq(Nat) /\ inserted \in Nat
           /\ Len(pipe) \in Nat /\ Len(wire) \in Nat
           /\ \A r \in Readers : taken[r] \in Seq(Nat) /\ Len(taken[r]) \in Nat
BY NumbersInSequence, StreamAssumption DEF FdTypeOK

(* The bytes at the end of the wire are those at the end of the pipe.      *)
LEMMA NewBytesPlaced ==
    ASSUME NEW p \in Seq(Nat), NEW q \in Seq(Nat), NEW w \in Seq(Nat), NEW v \in Seq(Nat),
           NEW n \in Nat, NEW m \in Nat, Grows(p, q, n, m), Grows(w, v, n, m),
           NEW i \in 1..Len(v)
    PROVE  \/ i \in 1..Len(w) /\ v[i] = w[i]
           \/ \E k \in 1..Len(q) : q[k] = v[i]
<1>1. Len(p) \in Nat /\ Len(w) \in Nat
  OBVIOUS
<1>2. CASE i <= Len(w)
  BY <1>1, <1>2 DEF Grows
<1>3. CASE i > Len(w)
  <2> DEFINE k == Len(p) + i - Len(w)
  <2>1. k \in 1..Len(q) /\ k > Len(p) /\ k - Len(p) = i - Len(w)
    BY <1>1, <1>3 DEF Grows
  <2> HIDE DEF k
  <2>2. q[k] = n + k - Len(p)
    BY <1>1, <2>1 DEF Grows
  <2>3. v[i] = n + i - Len(w)
    BY <1>1, <1>3 DEF Grows
  <2>4. q[k] = v[i]
    BY <1>1, <2>1, <2>2, <2>3
  <2> QED
    BY <2>1, <2>4
<1> QED
  BY <1>1, <1>2, <1>3

LEMMA OldBytesPlaced ==
    ASSUME NEW p \in Seq(Nat), NEW q \in Seq(Nat), NEW n \in Nat, NEW m \in Nat,
           Grows(p, q, n, m), NEW k \in 1..Len(p)
    PROVE  k \in 1..Len(q) /\ q[k] = p[k]
<1>1. Len(p) \in Nat
  OBVIOUS
<1> QED
  BY <1>1 DEF Grows

LEMMA ConcatGrows ==
    ASSUME NEW s \in Seq(Nat), NEW n \in Nat, NEW m \in Nat
    PROVE  Grows(s, s \o [i \in 1..m |-> n + i], n, m)
<1> DEFINE d == [i \in 1..m |-> n + i]
<1>1. d \in Seq(Nat) /\ Len(d) = m /\ \A i \in 1..m : d[i] = n + i
  <2>1. \A i \in 1..m : n + i \in Nat
    OBVIOUS
  <2> QED
    BY <2>1
<1> HIDE DEF d
<1>2. Len(s) \in Nat /\ Len(s \o d) = Len(s) + m
  <2>1. Len(s) \in Nat
    OBVIOUS
  <2>2. Len(s \o d) = Len(s) + Len(d)
    BY <1>1, ConcatProperties
  <2> QED
    BY <1>1, <2>1, <2>2
<1>3. ASSUME NEW k \in 1..Len(s \o d)
      PROVE  (s \o d)[k] = IF k <= Len(s) THEN s[k] ELSE n + k - Len(s)
  <2>1. (s \o d)[k] = IF k <= Len(s) THEN s[k] ELSE d[k - Len(s)]
    BY <1>1, <1>2, ConcatProperties
  <2>2. k > Len(s) => d[k - Len(s)] = n + k - Len(s)
    BY <1>1, <1>2
  <2> QED
    BY <2>1, <2>2
<1> QED
  BY <1>2, <1>3 DEF Grows, d

LEMMA AppendGrows ==
    ASSUME NEW s \in Seq(Nat), NEW n \in Nat
    PROVE  Grows(s, Append(s, n + 1), n, 1)
BY DEF Grows

(* What the three ways to write have in common: m new bytes go to the end  *)
(* of the pipe and of the wire.                                            *)
LEMMA BytesSent ==
    ASSUME FdTypeOK, FdTypeOK', Places, UNCHANGED taken,
           NEW m \in Nat, inserted + m <= inserted',
           Grows(pipe, pipe', inserted, m), Grows(wire, wire', inserted, m)
    PROVE  Places'
<1>1. /\ pipe \in Seq(Nat) /\ wire \in Seq(Nat) /\ inserted \in Nat
      /\ pipe' \in Seq(Nat) /\ wire' \in Seq(Nat) /\ inserted' \in Nat
      /\ \A r \in Readers : taken[r] \in Seq(Nat)
  <2>1. pipe' \in Seq(Nat) /\ wire' \in Seq(Nat) /\ inserted' \in Nat
    BY NumbersInSequence, StreamAssumption DEF FdTypeOK
  <2> QED
    BY <2>1, BytesAreNumbers
<1>2. Increasing(wire') /\ \A i \in 1..Len(wire') : wire'[i] <= inserted + m
  BY <1>1, StaysIncreasing DEF Places
<1>3. Increasing(pipe') /\ \A k \in 1..Len(pipe') : pipe'[k] <= inserted + m
  BY <1>1, StaysIncreasing DEF Places
<1>4. /\ \A i \in 1..Len(wire') : wire'[i] <= inserted'
      /\ \A k \in 1..Len(pipe') : pipe'[k] <= inserted'
  <2>1. \A x \in Nat : x <= inserted + m => x <= inserted'
    BY <1>1
  <2>2. \A i \in 1..Len(wire') : wire'[i] \in Nat
    BY <1>1
  <2>3. \A i \in 1..Len(pipe') : pipe'[i] \in Nat
    BY <1>1
  <2> QED
    BY <1>2, <1>3, <2>1, <2>2, <2>3
<1>5. \A r \in Readers : TakenBefore(taken[r], pipe', inserted')
  BY <1>1, StaysBefore DEF Places
<1>6. ASSUME NEW i \in 1..Len(wire')
      PROVE  \/ \E k \in 1..Len(pipe') : pipe'[k] = wire'[i]
             \/ \E r \in Readers : \E k \in 1..Len(taken[r]) : taken[r][k] = wire'[i]
  <2>1. CASE i \in 1..Len(wire) /\ wire'[i] = wire[i]
    <3>1. CASE \E k \in 1..Len(pipe) : pipe[k] = wire[i]
      BY SMTT(60), <1>1, <2>1, <3>1, OldBytesPlaced
    <3>2. CASE \E r \in Readers : \E k \in 1..Len(taken[r]) : taken[r][k] = wire[i]
      BY <2>1, <3>2
    <3> QED
      BY <2>1, <3>1, <3>2 DEF Places
  <2>2. \/ i \in 1..Len(wire) /\ wire'[i] = wire[i]
        \/ \E k \in 1..Len(pipe') : pipe'[k] = wire'[i]
    BY <1>1, NewBytesPlaced
  <2> QED
    BY <2>1, <2>2
<1> QED
  BY <1>2, <1>3, <1>4, <1>5, <1>6 DEF Places

(* A step of the writer leaves the readers alone.                          *)
LEMMA ReadersUnchanged ==
    ASSUME FdInv, UNCHANGED inVars
    PROVE  \A r \in Readers : (Pointers(r) /\ Buffered(r) /\ AsFarBackAsCan(r))'
BY DEF FdInv, inVars, Pointers, Buffered, AsFarBackAsCan, Base

LEMMA XsputnInv ==
    ASSUME FdInv, NEW num \in Chunks, Xsputn(num)
    PROVE  FdInv'
<1>1. PICK n \in WriteResults(num) :
          LET done == [i \in 1..(IF n = -1 THEN 0 ELSE n) |-> inserted + i]
          IN  /\ pipe' = pipe \o done
              /\ wire' = wire \o done
              /\ outGood' = TakenWhole(n, num)
              /\ faults' = IF n = num THEN faults ELSE faults + 1
  BY DEF Xsputn
<1> DEFINE m == IF n = -1 THEN 0 ELSE n
           done == [i \in 1..m |-> inserted + i]
<1>2. /\ num \in Nat \ {0} /\ m \in Nat /\ m <= num /\ MaxBytes \in Nat
      /\ Len(pipe) + m <= Capacity
      /\ n # num => faults < MaxFaults
  BY StreamAssumption DEF WriteResults, FdInv, FdTypeOK
<1>3. /\ inserted \in 0..MaxBytes /\ inserted' = inserted + num /\ inserted' <= MaxBytes
      /\ pipe \in Seq(1..MaxBytes) /\ wire \in Seq(1..MaxBytes)
      /\ faults \in 0..MaxFaults /\ MaxFaults \in Nat
  BY StreamAssumption DEF FdInv, FdTypeOK, Xsputn
<1>4. done \in Seq(1..MaxBytes) /\ Len(done) = m
  <2>1. \A i \in 1..m : inserted + i \in 1..MaxBytes
    BY <1>2, <1>3
  <2> QED
    BY <1>2, <2>1
<1>5. /\ pipe' = pipe \o done /\ wire' = wire \o done
  BY <1>1
<1> HIDE DEF m
<1>6. /\ pipe' \in Seq(1..MaxBytes) /\ Len(pipe') = Len(pipe) + m
      /\ Grows(pipe, pipe', inserted, m)
  BY <1>2, <1>3, <1>4, <1>5, ConcatGrows, BytesAreNumbers DEF FdInv
<1>7. /\ wire' \in Seq(1..MaxBytes) /\ Len(wire') = Len(wire) + m
      /\ Grows(wire, wire', inserted, m)
  BY <1>2, <1>3, <1>4, <1>5, ConcatGrows, BytesAreNumbers DEF FdInv
<1>8. UNCHANGED <<outOpen, cleared, inVars, taken>>
  BY DEF Xsputn, inVars
<1>10. faults' \in 0..MaxFaults /\ outGood' \in BOOLEAN
  BY <1>1, <1>2, <1>3 DEF TakenWhole
<1>11. FdTypeOK'
  BY <1>2, <1>3, <1>6, <1>7, <1>8, <1>10 DEF FdInv, FdTypeOK, inVars
<1>9. Places'
  BY <1>2, <1>3, <1>6, <1>7, <1>8, <1>11, BytesSent DEF FdInv
<1>12. GoodMeansSent'
  <2>1. outGood' => n = num
    BY <1>1 DEF TakenWhole
  <2>2. n = num => m = num
    BY <1>2 DEF m
  <2>3. ~cleared => Len(wire) = inserted
    BY DEF FdInv, GoodMeansSent, Xsputn
  <2> QED
    BY <1>2, <1>3, <1>7, <1>8, <2>1, <2>2, <2>3 DEF GoodMeansSent
<1> QED
  BY <1>8, <1>9, <1>11, <1>12, ReadersUnchanged DEF FdInv

LEMMA OverflowInv ==
    ASSUME FdInv, Overflow
    PROVE  FdInv'
<1>1. /\ inserted \in 0..MaxBytes /\ inserted' = inserted + 1 /\ inserted' \in 0..MaxBytes
      /\ inserted' \in 1..MaxBytes /\ outGood
      /\ pipe \in Seq(1..MaxBytes) /\ wire \in Seq(1..MaxBytes) /\ Len(pipe) <= Capacity
      /\ faults \in 0..MaxFaults /\ MaxFaults \in Nat /\ Capacity \in Nat /\ MaxBytes \in Nat
      /\ UNCHANGED <<outOpen, cleared, inVars, taken>>
  BY StreamAssumption DEF FdInv, FdTypeOK, Overflow, inVars
<1>2. CASE /\ 1 \in WriteResults(1)
           /\ pipe' = Append(pipe, inserted') /\ wire' = Append(wire, inserted')
           /\ UNCHANGED <<outGood, faults>>
  <2>1. /\ pipe' \in Seq(1..MaxBytes) /\ Len(pipe') = Len(pipe) + 1
        /\ Grows(pipe, pipe', inserted, 1)
    BY <1>1, <1>2, AppendGrows, BytesAreNumbers DEF FdInv
  <2>2. /\ wire' \in Seq(1..MaxBytes) /\ Len(wire') = Len(wire) + 1
        /\ Grows(wire, wire', inserted, 1)
    BY <1>1, <1>2, AppendGrows, BytesAreNumbers DEF FdInv
  <2>3. Len(pipe') <= Capacity
    BY <1>2, <2>1 DEF WriteResults
  <2>5. FdTypeOK'
    BY <1>1, <1>2, <2>1, <2>2, <2>3 DEF FdInv, FdTypeOK, inVars
  <2>4. Places'
    BY <1>1, <2>1, <2>2, <2>5, BytesSent DEF FdInv
  <2>6. GoodMeansSent'
    BY <1>1, <1>2, <2>2 DEF FdInv, GoodMeansSent
  <2> QED
    BY <1>1, <2>4, <2>5, <2>6, ReadersUnchanged DEF FdInv
<1>3. CASE /\ -1 \in WriteResults(1)
           /\ outGood' = FALSE /\ faults' = faults + 1
           /\ UNCHANGED <<pipe, wire>>
  <2>1. faults' \in 0..MaxFaults
    BY <1>1, <1>3 DEF WriteResults
  <2>3. FdTypeOK'
    BY <1>1, <1>3, <2>1 DEF FdInv, FdTypeOK, inVars
  <2>2. Places'
    <3>1. Grows(pipe, pipe', inserted, 0) /\ Grows(wire, wire', inserted, 0)
      BY <1>3, BytesAreNumbers DEF Grows, FdInv
    <3> QED
      BY <1>1, <2>3, <3>1, BytesSent DEF FdInv
  <2>4. GoodMeansSent'
    BY <1>3 DEF GoodMeansSent
  <2> QED
    BY <1>1, <2>2, <2>3, <2>4, ReadersUnchanged DEF FdInv
<1> QED
  BY <1>2, <1>3 DEF Overflow
LEMMA ClearOutInv ==
    ASSUME FdInv, ClearOut \/ CloseOut
    PROVE  FdInv'
<1>1. UNCHANGED <<pipe, inserted, wire, taken, faults, inVars>>
  BY DEF ClearOut, CloseOut, inVars
<1>2. FdTypeOK'
  BY <1>1 DEF FdInv, FdTypeOK, inVars, ClearOut, CloseOut
<1>3. Places'
  <2>1. pipe' = pipe /\ inserted' = inserted /\ wire' = wire /\ taken' = taken
    BY <1>1
  <2>2. Places
    BY DEF FdInv
  <2>3. /\ Increasing(wire') /\ Increasing(pipe')
        /\ \A i \in 1..Len(wire') : wire'[i] <= inserted'
        /\ \A k \in 1..Len(pipe') : pipe'[k] <= inserted'
    BY <2>1, <2>2 DEF Places
  <2>4. /\ \A r \in Readers : TakenBefore(taken'[r], pipe', inserted')
        /\ \A r, s \in Readers : r # s =>
              \A i \in 1..Len(taken'[r]), j \in 1..Len(taken'[s]) :
                  taken'[r][i] # taken'[s][j]
    BY <2>1, <2>2 DEF Places
  <2>5. \A i \in 1..Len(wire') :
           \/ \E k \in 1..Len(pipe') : pipe'[k] = wire'[i]
           \/ \E r \in Readers : \E k \in 1..Len(taken'[r]) : taken'[r][k] = wire'[i]
    BY <2>1, <2>2 DEF Places
  <2> QED
    BY <2>3, <2>4, <2>5 DEF Places
<1>4. GoodMeansSent'
  BY <1>1 DEF FdInv, GoodMeansSent, ClearOut, CloseOut
<1> QED
  BY <1>1, <1>2, <1>3, <1>4, ReadersUnchanged DEF FdInv

--------------------------------------------------------------------------------
(* The readers.                                                            *)

LEMMA PointersInRange ==
    ASSUME FdTypeOK, NEW r \in Readers, Pointers(r)
    PROVE  /\ PUTBACK_SIZE \in Nat /\ BUFFER_SIZE \in Nat \ {0}
           /\ in[r].eback \in 0..PUTBACK_SIZE
           /\ in[r].gptr \in Nat /\ in[r].egptr \in PUTBACK_SIZE..(BUFFER_SIZE + PUTBACK_SIZE)
           /\ in[r].eback <= in[r].gptr /\ in[r].gptr <= in[r].egptr
           /\ in[r].buf \in [Offsets -> 1..MaxBytes \cup {NoByte}]
           /\ Len(taken[r]) \in Nat /\ failed[r] \in Nat /\ Base(r) \in Int
           /\ pos[r] \in Nat
<1>1. /\ PUTBACK_SIZE \in Nat /\ BUFFER_SIZE \in Nat \ {0} /\ MaxBytes \in Nat
      /\ Len(taken[r]) \in Nat
      /\ in[r].buf \in [Offsets -> 1..MaxBytes \cup {NoByte}]
      /\ in[r].eback \in 0..PUTBACK_SIZE
      /\ in[r].gptr \in 0..(BUFFER_SIZE + PUTBACK_SIZE)
      /\ in[r].egptr \in 0..(BUFFER_SIZE + PUTBACK_SIZE)
      /\ pos[r] \in 0..MaxBytes /\ failed[r] \in 0..MaxBytes
  BY StreamAssumption DEF FdTypeOK
<1> QED
  BY SMTT(60), <1>1 DEF Pointers, Base

(* What the memmove of underflow keeps: the last BackSize bytes.           *)
LEMMA MovedBytes ==
    ASSUME FdTypeOK, NEW r \in Readers, Pointers(r), in[r].gptr = in[r].egptr
    PROVE  /\ BackSize(in[r]) \in 0..PUTBACK_SIZE
           /\ BackSize(in[r]) <= in[r].gptr - in[r].eback
           /\ BackSize(in[r]) = PUTBACK_SIZE \/ BackSize(in[r]) = in[r].gptr - in[r].eback
           /\ PutbackMoved(in[r]) \in [Offsets -> 1..MaxBytes \cup {NoByte}]
           /\ \A k \in Offsets :
                 PUTBACK_SIZE - BackSize(in[r]) <= k /\ k < PUTBACK_SIZE =>
                     /\ in[r].gptr - PUTBACK_SIZE + k \in Offsets
                     /\ in[r].eback <= in[r].gptr - PUTBACK_SIZE + k
                     /\ in[r].gptr - PUTBACK_SIZE + k < in[r].egptr
                     /\ PutbackMoved(in[r])[k] = in[r].buf[in[r].gptr - PUTBACK_SIZE + k]
<1> DEFINE g == in[r]
           back == BackSize(g)
<1>1. /\ PUTBACK_SIZE \in Nat /\ BUFFER_SIZE \in Nat \ {0}
      /\ g.eback \in 0..PUTBACK_SIZE
      /\ g.gptr \in PUTBACK_SIZE..(BUFFER_SIZE + PUTBACK_SIZE)
      /\ g.eback <= g.gptr /\ g.gptr = g.egptr
      /\ g.buf \in [Offsets -> 1..MaxBytes \cup {NoByte}]
  BY PointersInRange
<1>2. /\ back \in 0..PUTBACK_SIZE /\ back <= g.gptr - g.eback
      /\ back = PUTBACK_SIZE \/ back = g.gptr - g.eback
  BY <1>1 DEF BackSize, Min2
<1>3. PutbackMoved(g) = [k \in Offsets |->
                           IF k \in (PUTBACK_SIZE - back)..(PUTBACK_SIZE - 1)
                           THEN g.buf[g.gptr - PUTBACK_SIZE + k] ELSE g.buf[k]]
  BY DEF PutbackMoved
<1> HIDE DEF g, back
<1>4. ASSUME NEW k \in Offsets, PUTBACK_SIZE - back <= k, k < PUTBACK_SIZE
      PROVE  /\ g.gptr - PUTBACK_SIZE + k \in Offsets
             /\ g.eback <= g.gptr - PUTBACK_SIZE + k
             /\ g.gptr - PUTBACK_SIZE + k < g.egptr
             /\ k \in (PUTBACK_SIZE - back)..(PUTBACK_SIZE - 1)
             /\ PutbackMoved(g)[k] = g.buf[g.gptr - PUTBACK_SIZE + k]
  <2>1. k \in 0..(BUFFER_SIZE + PUTBACK_SIZE - 1)
    BY DEF Offsets
  <2>2. k \in (PUTBACK_SIZE - back)..(PUTBACK_SIZE - 1)
    BY <1>1, <1>2, <1>4, <2>1
  <2>3. /\ g.gptr - PUTBACK_SIZE + k \in 0..(BUFFER_SIZE + PUTBACK_SIZE - 1)
        /\ g.eback <= g.gptr - PUTBACK_SIZE + k
        /\ g.gptr - PUTBACK_SIZE + k < g.egptr
    BY <1>1, <1>2, <1>4, <2>1
  <2> QED
    BY <1>3, <2>2, <2>3 DEF Offsets
<1>5. \A k \in Offsets : k \in (PUTBACK_SIZE - back)..(PUTBACK_SIZE - 1) =>
          PUTBACK_SIZE - back <= k /\ k < PUTBACK_SIZE
  BY <1>1, <1>2
<1>6. PutbackMoved(g) \in [Offsets -> 1..MaxBytes \cup {NoByte}]
  BY <1>1, <1>3, <1>4, <1>5
<1> QED
  BY <1>2, <1>4, <1>6 DEF g, back

LEMMA UnderflowFailsInv ==
    ASSUME FdInv, NEW r \in Readers, UnderflowFails(r)
    PROVE  FdInv'
<1> DEFINE g == in[r]
<1>1. /\ Pointers(r) /\ FdTypeOK /\ g.gptr = g.egptr
      /\ in' = [in EXCEPT ![r].buf = PutbackMoved(g)]
      /\ failed' = [failed EXCEPT ![r] = pos[r]]
      /\ UNCHANGED <<pipe, outVars, taken, pos, seen>>
  BY DEF FdInv, UnderflowFails
<1>2. faults' \in 0..MaxFaults
  BY SMTT(60), StreamAssumption DEF UnderflowFails, FdInv, FdTypeOK
<1>3. PutbackMoved(g) \in [Offsets -> 1..MaxBytes \cup {NoByte}]
  BY <1>1, MovedBytes
<1>4. /\ in'[r].eback = g.eback /\ in'[r].gptr = g.gptr /\ in'[r].egptr = g.egptr
      /\ failed'[r] = pos[r]
      /\ \A s \in Readers : s # r => in'[s] = in[s] /\ failed'[s] = failed[s]
  BY <1>1 DEF FdTypeOK
<1>5. FdTypeOK'
  BY <1>1, <1>2, <1>3 DEF FdTypeOK, outVars
<1>6. pos[r] = Len(taken[r])
  BY SMTT(60), <1>1, PointersInRange DEF Pointers, Base
<1>7. (Pointers(r) /\ Buffered(r) /\ AsFarBackAsCan(r))'
  <2>1. Pointers(r)' /\ AsFarBackAsCan(r)'
    BY <1>1, <1>4, <1>6, PointersInRange DEF FdInv, Pointers, AsFarBackAsCan, Base
  <2>2. ASSUME NEW k \in Offsets, k < g.egptr
        PROVE  ~(pos[r] < Base(r) + k + 1)
    BY SMTT(60), <1>1, <1>6, <2>2, PointersInRange DEF Base, Offsets
  <2> QED
    BY <1>1, <1>4, <2>1, <2>2 DEF Buffered, Base
<1>8. ASSUME NEW s \in Readers, s # r
      PROVE  (Pointers(s) /\ Buffered(s) /\ AsFarBackAsCan(s))'
  BY <1>1, <1>4, <1>8 DEF FdInv, Pointers, Buffered, AsFarBackAsCan, Base
<1>9. Places' /\ GoodMeansSent'
  BY <1>1 DEF FdInv, Places, GoodMeansSent, outVars
<1> QED
  BY <1>5, <1>7, <1>8, <1>9 DEF FdInv

(* The bytes before the cut go with t, those behind it stay.               *)
MovesOver(p, q, t, u, num) ==
    /\ Len(u) = Len(t) + num /\ Len(q) = Len(p) - num
    /\ \A k \in 1..Len(t) : u[k] = t[k]
    /\ \A k \in 1..num : u[Len(t) + k] = p[k]
    /\ \A k \in 1..Len(q) : q[k] = p[num + k]

(* A read takes the num oldest bytes out of the pipe.                      *)
LEMMA ReadSplitsPipe ==
    ASSUME NEW S, NEW p \in Seq(S), NEW t \in Seq(S), NEW num \in 1..Len(p)
    PROVE  /\ t \o SubSeq(p, 1, num) \in Seq(S)
           /\ SubSeq(p, num + 1, Len(p)) \in Seq(S)
           /\ MovesOver(p, SubSeq(p, num + 1, Len(p)), t, t \o SubSeq(p, 1, num), num)
<1> DEFINE a == SubSeq(p, 1, num)
           b == SubSeq(p, num + 1, Len(p))
<1>1. a \in Seq(S) /\ Len(a) = num /\ \A k \in 1..num : a[k] = p[k]
  OBVIOUS
<1>2. b \in Seq(S) /\ Len(b) = Len(p) - num /\ \A k \in 1..(Len(p) - num) : b[k] = p[num + k]
  OBVIOUS
<1> HIDE DEF a
<1>3. /\ t \o a \in Seq(S) /\ Len(t \o a) = Len(t) + Len(a) /\ Len(t) \in Nat
      /\ \A k \in 1..(Len(t) + Len(a)) : (t \o a)[k] = IF k <= Len(t) THEN t[k] ELSE a[k - Len(t)]
  <2>1. a \in Seq(S)
    BY <1>1
  <2> QED
    BY <2>1, ConcatProperties
<1>4. \A k \in 1..Len(t) : (t \o a)[k] = t[k]
  BY <1>1, <1>3
<1>5. \A k \in 1..num : (t \o a)[Len(t) + k] = p[k]
  BY <1>1, <1>3
<1> QED
  BY <1>1, <1>2, <1>3, <1>4, <1>5 DEF a, MovesOver

LEMMA TakenOut ==
    ASSUME NEW p \in Seq(Nat), NEW q \in Seq(Nat), NEW t \in Seq(Nat), NEW u \in Seq(Nat),
           NEW n \in Nat, NEW num \in 1..Len(p),
           Increasing(p), \A k \in 1..Len(p) : p[k] <= n,
           TakenBefore(t, p, n), MovesOver(p, q, t, u, num)
    PROVE  TakenBefore(u, q, n)
<1>1. /\ Len(t) \in Nat /\ Len(p) \in Nat /\ num \in Nat /\ num <= Len(p) /\ 1 <= num
      /\ Len(u) = Len(t) + num /\ Len(q) = Len(p) - num
  BY SMTT(60) DEF MovesOver
<1>2. ASSUME NEW i \in 1..Len(u)
      PROVE  \/ i \in 1..Len(t) /\ u[i] = t[i]
             \/ i - Len(t) \in 1..num /\ i - Len(t) \in 1..Len(p) /\ u[i] = p[i - Len(t)]
  <2>1. CASE i <= Len(t)
    <3>1. i \in 1..Len(t)
      BY <1>1, <2>1
    <3> QED
      BY <3>1 DEF MovesOver
  <2>2. CASE i > Len(t)
    <3>1. /\ i - Len(t) \in 1..num /\ i - Len(t) \in 1..Len(p) /\ Len(t) + (i - Len(t)) = i
      BY SMTT(60), <1>1, <2>2
    <3> QED
      BY <3>1 DEF MovesOver
  <2> QED
    BY <1>1, <2>1, <2>2
<1>3. ASSUME NEW k \in 1..Len(q)
      PROVE  num + k \in 1..Len(p) /\ q[k] = p[num + k] /\ k \in Nat
  BY <1>1 DEF MovesOver
<1>4. \A k \in 1..Len(p) : p[k] \in Nat
  OBVIOUS
<1>5. \A k \in 1..Len(t) : t[k] \in Nat
  OBVIOUS
<1>6. Len(u) + Len(q) <= n
  BY <1>1 DEF TakenBefore
<1>7. ASSUME NEW i \in 1..Len(u) PROVE i <= u[i] /\ u[i] <= n
  <2>1. CASE i \in 1..Len(t) /\ u[i] = t[i]
    BY <2>1 DEF TakenBefore
  <2>2. CASE i - Len(t) \in 1..Len(p) /\ u[i] = p[i - Len(t)]
    <3>1. (i - Len(t)) + Len(t) <= p[i - Len(t)] /\ p[i - Len(t)] <= n
      BY <2>2 DEF TakenBefore
    <3>2. (i - Len(t)) + Len(t) = i
      BY <1>1
    <3> QED
      BY <2>2, <3>1, <3>2
  <2> QED
    BY <1>2, <2>1, <2>2
<1>8. ASSUME NEW k \in 1..Len(q) PROVE k + Len(u) <= q[k]
  <2>1. (num + k) + Len(t) <= p[num + k]
    BY <1>3 DEF TakenBefore
  <2>2. (num + k) + Len(t) = k + Len(u)
    BY <1>1
  <2> QED
    BY <1>3, <2>1, <2>2
<1>9. ASSUME NEW i \in 1..Len(u), NEW k \in 1..Len(q) PROVE u[i] < q[k]
  <2>1. CASE i \in 1..Len(t) /\ u[i] = t[i]
    BY <1>3, <2>1 DEF TakenBefore
  <2>2. CASE i - Len(t) \in 1..num /\ i - Len(t) \in 1..Len(p) /\ u[i] = p[i - Len(t)]
    <3>1. i - Len(t) < num + k
      BY <1>1, <1>3, <2>2
    <3> QED
      BY <1>3, <2>2, <3>1 DEF Increasing
  <2> QED
    BY <1>2, <2>1, <2>2
<1>10. ASSUME NEW i \in 1..Len(u), NEW j \in 1..Len(u), i < j PROVE u[i] < u[j]
  <2>1. CASE i \in 1..Len(t) /\ u[i] = t[i]
    <3>1. CASE j \in 1..Len(t) /\ u[j] = t[j]
      BY <1>10, <2>1, <3>1 DEF TakenBefore, Increasing
    <3>2. CASE j - Len(t) \in 1..Len(p) /\ u[j] = p[j - Len(t)]
      BY <2>1, <3>2 DEF TakenBefore
    <3> QED
      BY <1>2, <3>1, <3>2
  <2>2. CASE i - Len(t) \in 1..Len(p) /\ u[i] = p[i - Len(t)]
    <3>1. ~(j \in 1..Len(t))
      BY <1>1, <1>10, <2>2
    <3>2. j - Len(t) \in 1..Len(p) /\ u[j] = p[j - Len(t)]
      BY <1>2, <3>1
    <3>3. i - Len(t) < j - Len(t)
      BY <1>1, <1>10
    <3> QED
      BY <2>2, <3>2, <3>3 DEF Increasing
  <2> QED
    BY <1>2, <2>1, <2>2
<1> QED
  BY <1>6, <1>7, <1>8, <1>9, <1>10 DEF TakenBefore, Increasing

(* The other readers' bytes are older than what is left in the pipe too.   *)
LEMMA PipeShortened ==
    ASSUME NEW p \in Seq(Nat), NEW q \in Seq(Nat), NEW t \in Seq(Nat),
           NEW n \in Nat, NEW num \in 1..Len(p), TakenBefore(t, p, n),
           Len(q) = Len(p) - num, \A k \in 1..Len(q) : q[k] = p[num + k]
    PROVE  TakenBefore(t, q, n)
<1>1. /\ Len(t) \in Nat /\ Len(p) \in Nat /\ num \in Nat /\ num <= Len(p) /\ 1 <= num
  OBVIOUS
<1>2. ASSUME NEW k \in 1..Len(q)
      PROVE  num + k \in 1..Len(p) /\ q[k] = p[num + k] /\ k \in Nat /\ p[num + k] \in Nat
  BY SMTT(60), <1>1
<1>3. Len(t) + Len(q) <= n
  BY <1>1 DEF TakenBefore
<1>4. ASSUME NEW k \in 1..Len(q) PROVE k + Len(t) <= q[k]
  <2>1. (num + k) + Len(t) <= p[num + k]
    BY <1>2 DEF TakenBefore
  <2> QED
    BY SMTT(60), <1>1, <1>2, <2>1
<1>5. ASSUME NEW i \in 1..Len(t), NEW k \in 1..Len(q) PROVE t[i] < q[k]
  BY <1>2 DEF TakenBefore
<1> QED
  BY <1>3, <1>4, <1>5 DEF TakenBefore

LEMMA UnderflowPlaces ==
    ASSUME FdTypeOK, FdTypeOK', Places, NEW r \in Readers, NEW num \in 1..Len(pipe),
           MovesOver(pipe, pipe', taken[r], taken'[r], num),
           \A s \in Readers : s # r => taken'[s] = taken[s],
           UNCHANGED <<wire, inserted>>
    PROVE  Places'
<1>1. /\ pipe \in Seq(Nat) /\ pipe' \in Seq(Nat) /\ inserted \in Nat
      /\ Len(pipe) \in Nat /\ Len(pipe') \in Nat /\ Len(taken[r]) \in Nat
      /\ \A s \in Readers : taken[s] \in Seq(Nat) /\ taken'[s] \in Seq(Nat)
  <2>1. pipe' \in Seq(Nat) /\ \A s \in Readers : taken'[s] \in Seq(Nat)
    BY NumbersInSequence DEF FdTypeOK
  <2> QED
    BY <2>1, BytesAreNumbers
<1>2. ASSUME NEW k \in 1..Len(pipe')
      PROVE  num + k \in 1..Len(pipe) /\ pipe'[k] = pipe[num + k] /\ k \in Nat
  <2>1. Len(pipe') = Len(pipe) - num /\ pipe'[k] = pipe[num + k]
    BY DEF MovesOver
  <2> QED
    BY SMTT(60), <1>1, <2>1
<1>3. Increasing(pipe')
  <2>1. ASSUME NEW i \in 1..Len(pipe'), NEW j \in 1..Len(pipe'), i < j
        PROVE  pipe'[i] < pipe'[j]
    <3>1. num + i < num + j
      BY <1>2, <2>1
    <3> QED
      BY <1>2, <3>1 DEF Places, Increasing
  <2> QED
    BY <2>1 DEF Increasing
<1>4. \A k \in 1..Len(pipe') : pipe'[k] <= inserted
  BY <1>2 DEF Places
<1>5. TakenBefore(taken'[r], pipe', inserted)
  BY <1>1, TakenOut DEF Places
<1>6. ASSUME NEW s \in Readers, s # r
      PROVE  TakenBefore(taken'[s], pipe', inserted)
  <2>1. Len(pipe') = Len(pipe) - num /\ \A k \in 1..Len(pipe') : pipe'[k] = pipe[num + k]
    BY DEF MovesOver
  <2>2. TakenBefore(taken[s], pipe, inserted)
    BY DEF Places
  <2> QED
    BY <1>1, <1>6, <2>1, <2>2, PipeShortened
<1>7. ASSUME NEW i \in 1..Len(taken'[r])
      PROVE  \/ i \in 1..Len(taken[r]) /\ taken'[r][i] = taken[r][i]
             \/ \E k \in 1..Len(pipe) : taken'[r][i] = pipe[k]
  <2>1. CASE i <= Len(taken[r])
    <3>1. i \in 1..Len(taken[r])
      BY <1>1, <2>1
    <3> QED
      BY <3>1 DEF MovesOver
  <2>2. CASE i > Len(taken[r])
    <3> DEFINE k == i - Len(taken[r])
    <3>1. k \in 1..num /\ k \in 1..Len(pipe) /\ Len(taken[r]) + k = i
      BY SMTT(60), <1>1, <2>2 DEF MovesOver
    <3>2. taken'[r][Len(taken[r]) + k] = pipe[k]
      BY <3>1 DEF MovesOver
    <3> QED
      BY <3>1, <3>2
  <2> QED
    BY <1>1, <2>1, <2>2
<1>8. ASSUME NEW s \in Readers, s # r, NEW i \in 1..Len(taken'[r]), NEW j \in 1..Len(taken[s])
      PROVE  taken'[r][i] # taken[s][j]
  <2>1. CASE i \in 1..Len(taken[r]) /\ taken'[r][i] = taken[r][i]
    BY <1>8, <2>1 DEF Places
  <2>2. CASE \E k \in 1..Len(pipe) : taken'[r][i] = pipe[k]
    <3>1. PICK k \in 1..Len(pipe) : taken'[r][i] = pipe[k]
      BY <2>2
    <3>2. taken[s][j] < pipe[k]
      BY DEF Places, TakenBefore
    <3>3. taken[s][j] \in Nat /\ pipe[k] \in Nat
      BY <1>1, ElementOfSeq
    <3> QED
      BY <3>1, <3>2, <3>3
  <2> QED
    BY <1>7, <2>1, <2>2
<1>9. ASSUME NEW s \in Readers, NEW u \in Readers, s # u,
             NEW i \in 1..Len(taken'[s]), NEW j \in 1..Len(taken'[u])
      PROVE  taken'[s][i] # taken'[u][j]
  <2>1. CASE s = r
    BY <1>8, <1>9, <2>1
  <2>2. CASE u = r
    BY <1>8, <1>9, <2>2
  <2>3. CASE s # r /\ u # r
    BY SMTT(60), <1>9, <2>3 DEF Places
  <2> QED
    BY <2>1, <2>2, <2>3
<1>10. ASSUME NEW i \in 1..Len(wire)
       PROVE  \/ \E k \in 1..Len(pipe') : pipe'[k] = wire[i]
              \/ \E s \in Readers : \E k \in 1..Len(taken'[s]) : taken'[s][k] = wire[i]
  <2>1. CASE \E k \in 1..Len(pipe) : pipe[k] = wire[i]
    <3>1. PICK k \in 1..Len(pipe) : pipe[k] = wire[i]
      BY <2>1
    <3>2. CASE k <= num
      <4>1. k \in 1..num /\ Len(taken[r]) + k \in 1..Len(taken'[r])
        BY <1>1, <3>2 DEF MovesOver
      <4>2. taken'[r][Len(taken[r]) + k] = wire[i]
        BY <3>1, <4>1 DEF MovesOver
      <4> QED
        BY <4>1, <4>2
    <3>3. CASE k > num
      <4>1. k - num \in 1..Len(pipe') /\ num + (k - num) = k
        BY <1>1, <3>3 DEF MovesOver
      <4>2. pipe'[k - num] = wire[i]
        BY <1>2, <3>1, <4>1
      <4> QED
        BY <4>1, <4>2
    <3>4. k \in Nat /\ num \in Nat
      BY <1>1
    <3> QED
      BY <3>2, <3>3, <3>4
  <2>2. CASE \E s \in Readers : \E k \in 1..Len(taken[s]) : taken[s][k] = wire[i]
    <3>1. PICK s \in Readers : \E k \in 1..Len(taken[s]) : taken[s][k] = wire[i]
      BY <2>2
    <3>2. CASE s = r
      <4>1. PICK k \in 1..Len(taken[r]) : taken[r][k] = wire[i]
        BY <3>1, <3>2
      <4>2. k \in 1..Len(taken'[r]) /\ taken'[r][k] = taken[r][k]
        BY <1>1 DEF MovesOver
      <4> QED
        BY <4>1, <4>2
    <3>3. CASE s # r
      BY <3>1, <3>3
    <3> QED
      BY <3>2, <3>3
  <2> QED
    BY <2>1, <2>2 DEF Places
<1>11. \A s \in Readers : TakenBefore(taken'[s], pipe', inserted)
  BY <1>5, <1>6
<1>12. Increasing(wire') /\ \A i \in 1..Len(wire') : wire'[i] <= inserted'
  BY DEF Places
<1> QED
  BY SMTT(60), <1>3, <1>4, <1>9, <1>10, <1>11, <1>12 DEF Places

LEMMA UnderflowInv ==
    ASSUME FdInv, NEW r \in Readers, Underflow(r)
    PROVE  FdInv'
<1> DEFINE g == in[r]
           back == BackSize(g)
<1>1. PICK num \in 1..Min2(BUFFER_SIZE, Len(pipe)) :
        /\ in' = [in EXCEPT ![r] =
              [buf |-> [k \in Offsets |->
                           IF k \in PUTBACK_SIZE..(PUTBACK_SIZE + num - 1)
                           THEN pipe[k - PUTBACK_SIZE + 1]
                           ELSE PutbackMoved(g)[k]],
               eback |-> PUTBACK_SIZE - BackSize(g),
               gptr |-> PUTBACK_SIZE,
               egptr |-> PUTBACK_SIZE + num]]
        /\ taken' = [taken EXCEPT ![r] = @ \o SubSeq(pipe, 1, num)]
        /\ pipe' = SubSeq(pipe, num + 1, Len(pipe))
  BY DEF Underflow
<1>2. /\ g.gptr = g.egptr /\ Pointers(r) /\ FdTypeOK /\ Places
      /\ UNCHANGED <<outVars, faults, pos, seen, failed>>
  BY DEF Underflow, FdInv
<1>3. /\ num \in 1..Len(pipe) /\ num \in 1..BUFFER_SIZE
      /\ pipe \in Seq(1..MaxBytes) /\ taken[r] \in Seq(1..MaxBytes)
      /\ Len(pipe) \in Nat /\ Len(taken[r]) \in Nat
  BY <1>2, StreamAssumption, BytesAreNumbers DEF Min2, FdTypeOK
<1>4. /\ taken'[r] = taken[r] \o SubSeq(pipe, 1, num)
      /\ \A s \in Readers : s # r => taken'[s] = taken[s] /\ in'[s] = in[s]
  BY <1>1, <1>2 DEF FdTypeOK
<1>5. /\ taken'[r] \in Seq(1..MaxBytes) /\ pipe' \in Seq(1..MaxBytes)
      /\ MovesOver(pipe, pipe', taken[r], taken'[r], num)
  <2> DEFINE Bytes == 1..MaxBytes
  <2>1. pipe \in Seq(Bytes) /\ taken[r] \in Seq(Bytes) /\ num \in 1..Len(pipe)
    BY <1>3
  <2> HIDE DEF Bytes
  <2>2. taken'[r] \in Seq(Bytes) /\ pipe' \in Seq(Bytes)
        /\ MovesOver(pipe, pipe', taken[r], taken'[r], num)
    BY <1>1, <1>4, <2>1, ReadSplitsPipe
  <2> QED
    BY <2>2 DEF Bytes
<1>6. /\ back \in 0..PUTBACK_SIZE
      /\ back <= g.gptr - g.eback
      /\ back = PUTBACK_SIZE \/ back = g.gptr - g.eback
      /\ PutbackMoved(g) \in [Offsets -> 1..MaxBytes \cup {NoByte}]
  BY <1>2, MovedBytes
<1>7. /\ in'[r].eback = PUTBACK_SIZE - back
      /\ in'[r].gptr = PUTBACK_SIZE /\ in'[r].egptr = PUTBACK_SIZE + num
      /\ \A k \in Offsets : in'[r].buf[k] = IF k \in PUTBACK_SIZE..(PUTBACK_SIZE + num - 1)
                                            THEN pipe[k - PUTBACK_SIZE + 1]
                                            ELSE PutbackMoved(g)[k]
      /\ in'[r].buf \in [Offsets -> 1..MaxBytes \cup {NoByte}]
  <2> DEFINE b == [k \in Offsets |-> IF k \in PUTBACK_SIZE..(PUTBACK_SIZE + num - 1)
                                      THEN pipe[k - PUTBACK_SIZE + 1]
                                      ELSE PutbackMoved(g)[k]]
  <2>1. ASSUME NEW k \in Offsets, k \in PUTBACK_SIZE..(PUTBACK_SIZE + num - 1)
        PROVE  pipe[k - PUTBACK_SIZE + 1] \in 1..MaxBytes
    <3>1. k - PUTBACK_SIZE + 1 \in 1..Len(pipe)
      BY <1>3, <2>1, StreamAssumption
    <3> QED
      BY <1>3, <3>1, ElementOfSeq
  <2>2. b \in [Offsets -> 1..MaxBytes \cup {NoByte}]
    BY <1>6, <2>1
  <2>3. in'[r] = [buf |-> b, eback |-> PUTBACK_SIZE - back, gptr |-> PUTBACK_SIZE,
                  egptr |-> PUTBACK_SIZE + num]
    BY <1>1, <1>2 DEF FdTypeOK
  <2> QED
    BY <2>2, <2>3
<1>8. FdTypeOK'
  <2>1. in'[r] \in [buf : [Offsets -> 1..MaxBytes \cup {NoByte}],
                    eback : 0..PUTBACK_SIZE,
                    gptr : 0..(BUFFER_SIZE + PUTBACK_SIZE),
                    egptr : 0..(BUFFER_SIZE + PUTBACK_SIZE)]
    <3>1. /\ PUTBACK_SIZE - back \in 0..PUTBACK_SIZE
          /\ PUTBACK_SIZE \in 0..(BUFFER_SIZE + PUTBACK_SIZE)
          /\ PUTBACK_SIZE + num \in 0..(BUFFER_SIZE + PUTBACK_SIZE)
      BY <1>3, <1>6, StreamAssumption
    <3>2. in'[r] = [buf |-> in'[r].buf, eback |-> in'[r].eback, gptr |-> in'[r].gptr, egptr |-> in'[r].egptr]
      BY <1>1, <1>2 DEF FdTypeOK
    <3> QED
      BY <1>7, <3>1, <3>2
  <2>2. in' = [in EXCEPT ![r] = in'[r]] /\ taken' = [taken EXCEPT ![r] = taken'[r]]
    BY <1>1, <1>2 DEF FdTypeOK
  <2>3. Len(pipe') <= Capacity
    BY SMTT(60), <1>2, <1>3, <1>5, StreamAssumption DEF FdTypeOK, MovesOver
  <2> QED
    BY <1>2, <1>5, <2>1, <2>2, <2>3 DEF FdTypeOK, outVars
<1>9. Places'
  BY <1>2, <1>3, <1>4, <1>5, <1>8, UnderflowPlaces DEF outVars
<1>10. /\ PUTBACK_SIZE \in Nat /\ BUFFER_SIZE \in Nat \ {0} /\ num \in Nat /\ back \in Nat
       /\ g.eback \in 0..PUTBACK_SIZE /\ g.gptr \in Nat /\ g.egptr = g.gptr
       /\ PUTBACK_SIZE <= g.gptr /\ g.eback <= g.gptr
       /\ Base(r) = Len(taken[r]) - g.gptr /\ pos[r] = Len(taken[r])
       /\ 0 <= Base(r) + g.eback
       /\ failed[r] <= Len(taken[r]) /\ failed[r] \in Nat
  BY SMTT(60), <1>2, <1>3, <1>6, PointersInRange DEF Pointers, Base
<1>11. Len(taken'[r]) = Len(taken[r]) + num
  BY <1>5 DEF MovesOver
<1>12. Base(r)' = Len(taken[r]) - PUTBACK_SIZE
  <2>1. Base(r)' = Len(taken'[r]) - in'[r].egptr
    BY DEF Base
  <2>2. in'[r].egptr = PUTBACK_SIZE + num
    BY <1>7
  <2>3. Len(taken'[r]) = Len(taken[r]) + num /\ Len(taken[r]) \in Nat
    BY <1>3, <1>11
  <2>4. PUTBACK_SIZE \in Nat /\ num \in Nat
    BY <1>10
  <2> HIDE DEF g, back
  <2> QED
    BY SMTT(60), <2>1, <2>2, <2>3, <2>4
<1> HIDE DEF g, back
<1>13. Pointers(r)'
  <2>1. 0 <= Base(r)' + in'[r].eback
    BY SMTT(60), <1>3, <1>6, <1>7, <1>10, <1>12
  <2>2. failed'[r] <= Len(taken'[r]) /\ pos'[r] = Base(r)' + in'[r].gptr
    BY <1>2, <1>3, <1>7, <1>10, <1>11, <1>12
  <2>3. /\ in'[r].eback <= in'[r].gptr /\ in'[r].gptr <= in'[r].egptr
        /\ PUTBACK_SIZE <= in'[r].egptr
    BY <1>3, <1>6, <1>7, <1>10
  <2> QED
    BY <2>1, <2>2, <2>3 DEF Pointers
<1>14. AsFarBackAsCan(r)'
  <2>1. g.eback = 0 \/ Base(r) + g.eback = 0
    BY DEF FdInv, AsFarBackAsCan, g
  <2>2. in'[r].eback = 0 \/ Base(r)' + in'[r].eback = 0
    BY SMTT(60), <1>3, <1>6, <1>7, <1>10, <1>12, <2>1
  <2> QED
    BY <2>2 DEF AsFarBackAsCan
<1>15. Buffered(r)'
  <2> SUFFICES ASSUME NEW k \in Offsets,
                      in'[r].eback <= k, k < in'[r].egptr, failed[r] < Base(r)' + k + 1
               PROVE  in'[r].buf[k] = taken'[r][Base(r)' + k + 1]
    BY <1>2 DEF Buffered
  <2>0. k \in Nat
    BY <1>10 DEF Offsets
  <2>1. CASE k < PUTBACK_SIZE
    <3> DEFINE old == g.gptr - PUTBACK_SIZE + k
    <3>1. /\ old \in Offsets /\ g.eback <= old /\ old < g.egptr
          /\ PutbackMoved(g)[k] = g.buf[old]
      BY SMTT(60), <1>2, <1>7, <1>10, <2>1, MovedBytes DEF g, back
    <3>2. Base(r) + old + 1 = Base(r)' + k + 1
      BY SMTT(60), <1>3, <1>10, <1>12, <2>0
    <3> HIDE DEF old
    <3>3. g.buf[old] = taken[r][Base(r) + old + 1]
      BY <3>1, <3>2 DEF FdInv, Buffered, g
    <3>4. in'[r].buf[k] = PutbackMoved(g)[k]
      BY <1>7, <1>10, <2>0, <2>1
    <3>5. Base(r)' + k + 1 \in 1..Len(taken[r])
      BY SMTT(60), <1>3, <1>6, <1>7, <1>10, <1>12, <2>0, <2>1
    <3>6. taken'[r][Base(r)' + k + 1] = taken[r][Base(r)' + k + 1]
      BY <1>5, <3>5 DEF MovesOver
    <3> QED
      BY <3>1, <3>2, <3>3, <3>4, <3>6
  <2>2. CASE k >= PUTBACK_SIZE
    <3> DEFINE i == k - PUTBACK_SIZE + 1
    <3>1. /\ k \in PUTBACK_SIZE..(PUTBACK_SIZE + num - 1)
          /\ i \in 1..num
      BY <1>7, <1>10, <2>0, <2>2
    <3>4. Base(r)' + k + 1 = Len(taken[r]) + i
      <4> DEFINE before == Len(taken[r])
      <4>1. Base(r)' + k + 1 = (before - PUTBACK_SIZE) + k + 1
        BY <1>12
      <4>2. before \in Int /\ PUTBACK_SIZE \in Int /\ k \in Int
        BY <1>3, <1>10, <2>0
      <4> HIDE DEF before
      <4>3. Base(r)' + k + 1 = before + i
        BY <4>1, <4>2
      <4> QED
        BY <4>3 DEF before
    <3>2. in'[r].buf[k] = pipe[i]
      BY <1>7, <3>1
    <3> HIDE DEF i
    <3>3. taken'[r][Len(taken[r]) + i] = pipe[i]
      BY <1>5, <3>1 DEF MovesOver
    <3> QED
      BY <3>2, <3>3, <3>4
  <2> QED
    BY <1>10, <2>0, <2>1, <2>2
<1>16. ASSUME NEW s \in Readers, s # r
       PROVE  (Pointers(s) /\ Buffered(s) /\ AsFarBackAsCan(s))'
  BY SMTT(60), <1>2, <1>4, <1>16 DEF FdInv, Pointers, Buffered, AsFarBackAsCan, Base
<1>17. GoodMeansSent'
  BY <1>2 DEF FdInv, GoodMeansSent, outVars
<1> QED
  BY <1>8, <1>9, <1>13, <1>14, <1>15, <1>16, <1>17 DEF FdInv

LEMMA CursorInRange ==
    ASSUME NEW len \in Nat, NEW back \in Nat, NEW get \in Nat, NEW end \in Nat,
           NEW step \in {-1, 1},
           0 <= len - end + back, back <= get + step, get + step <= end
    PROVE  0 <= len - end + get + step /\ len - end + get + step <= len
OBVIOUS

(* sbumpc and sungetc move gptr within what is buffered.                   *)
LEMMA GptrMoves ==
    ASSUME FdInv, NEW r \in Readers, NEW step \in {-1, 1},
           in[r].eback <= in[r].gptr + step, in[r].gptr + step <= in[r].egptr,
           in' = [in EXCEPT ![r].gptr = @ + step], pos' = [pos EXCEPT ![r] = @ + step],
           seen' \in [Readers -> 1..MaxBytes \cup {NoByte}],
           UNCHANGED <<pipe, outVars, faults, taken, failed>>
    PROVE  FdInv'
<1>1. FdTypeOK /\ Pointers(r)
  BY DEF FdInv
<1>2. /\ in'[r].eback = in[r].eback /\ in'[r].egptr = in[r].egptr /\ in'[r].buf = in[r].buf
      /\ in'[r].gptr = in[r].gptr + step /\ pos'[r] = pos[r] + step
      /\ \A s \in Readers : s # r => in'[s] = in[s] /\ pos'[s] = pos[s]
  BY <1>1 DEF FdTypeOK
<1>3. Pointers(r)'
  BY <1>1, <1>2, PointersInRange DEF Pointers, Base
<1>4. (Buffered(r) /\ AsFarBackAsCan(r))'
  BY <1>2 DEF FdInv, Buffered, AsFarBackAsCan, Base
<1>5. ASSUME NEW s \in Readers, s # r
      PROVE  (Pointers(s) /\ Buffered(s) /\ AsFarBackAsCan(s))'
  BY <1>2, <1>5 DEF FdInv, Pointers, Buffered, AsFarBackAsCan, Base
<1>6. FdTypeOK'
  <2>1. in[r].gptr + step \in 0..(BUFFER_SIZE + PUTBACK_SIZE)
    BY SMTT(60), <1>1, PointersInRange
  <2>2. Len(taken[r]) <= MaxBytes
    BY <1>1, BytesAreNumbers, StreamAssumption DEF FdInv, Places, TakenBefore, FdTypeOK
  <2>3. pos[r] + step \in 0..MaxBytes
    <3>1. /\ pos[r] = Len(taken[r]) - in[r].egptr + in[r].gptr
          /\ 0 <= Len(taken[r]) - in[r].egptr + in[r].eback
      BY <1>1 DEF Pointers, Base
    <3>2. /\ in[r].eback \in Nat /\ in[r].egptr \in Nat /\ in[r].gptr \in Nat
          /\ Len(taken[r]) \in Nat /\ MaxBytes \in Nat
      BY <1>1, PointersInRange, StreamAssumption
    <3>3. 0 <= pos[r] + step /\ pos[r] + step <= Len(taken[r])
      BY SMTT(60), <3>1, <3>2, CursorInRange
    <3> QED
      BY <1>1, <2>2, <3>2, <3>3, PointersInRange
  <2> QED
    BY <1>1, <2>1, <2>3 DEF FdTypeOK, outVars
<1>7. Places' /\ GoodMeansSent'
  BY DEF FdInv, Places, GoodMeansSent, outVars
<1> QED
  BY <1>3, <1>4, <1>5, <1>6, <1>7 DEF FdInv

LEMMA BumpUngetInv ==
    ASSUME FdInv, NEW r \in Readers, Bump(r) \/ Unget(r)
    PROVE  FdInv'
<1>1. FdTypeOK /\ Pointers(r)
  BY DEF FdInv
<1>2. CASE Bump(r)
  <2>1. in[r].gptr \in Offsets
    BY <1>1, <1>2, PointersInRange DEF Bump, Offsets
  <2>2. seen' \in [Readers -> 1..MaxBytes \cup {NoByte}]
    BY <1>1, <1>2, <2>1 DEF Bump, FdTypeOK
  <2>3. in[r].eback <= in[r].gptr + 1 /\ in[r].gptr + 1 <= in[r].egptr
    BY <1>1, <1>2, PointersInRange DEF Bump
  <2> QED
    BY <1>2, <2>2, <2>3, GptrMoves DEF Bump
<1>3. CASE Unget(r)
  <2>1. in[r].gptr - 1 \in Offsets
    BY SMTT(60), <1>1, <1>3, PointersInRange DEF Unget, Offsets
  <2>2. seen' \in [Readers -> 1..MaxBytes \cup {NoByte}]
    BY <1>1, <1>3, <2>1 DEF Unget, FdTypeOK
  <2>3. /\ in[r].eback <= in[r].gptr + (-1) /\ in[r].gptr + (-1) <= in[r].egptr
        /\ in[r].gptr - 1 = in[r].gptr + (-1) /\ pos[r] - 1 = pos[r] + (-1)
    BY SMTT(60), <1>1, <1>3, PointersInRange DEF Unget
  <2>4. in' = [in EXCEPT ![r].gptr = @ + (-1)] /\ pos' = [pos EXCEPT ![r] = @ + (-1)]
    BY <1>1, <1>3, <2>3 DEF Unget, FdTypeOK
  <2> QED
    BY <1>3, <2>2, <2>3, <2>4, GptrMoves DEF Unget
<1> QED
  BY <1>2, <1>3

LEMMA FdNextInv == FdInv /\ [FdNext]_fdVars => FdInv'
<1> SUFFICES ASSUME FdInv, [FdNext]_fdVars PROVE FdInv'
  OBVIOUS
<1>1. ASSUME NEW num \in Chunks, Xsputn(num) PROVE FdInv'
  BY <1>1, XsputnInv
<1>2. CASE Overflow
  BY <1>2, OverflowInv
<1>3. CASE ClearOut \/ CloseOut
  BY <1>3, ClearOutInv
<1>4. ASSUME NEW r \in Readers, Underflow(r) \/ UnderflowFails(r) \/ Bump(r) \/ Unget(r)
      PROVE  FdInv'
  BY <1>4, UnderflowInv, UnderflowFailsInv, BumpUngetInv
<1>5. CASE UNCHANGED fdVars
  BY <1>5 DEF fdVars, FdInv, FdTypeOK, Pointers, Buffered, AsFarBackAsCan, Base, Places,
     TakenBefore, Increasing, GoodMeansSent
<1> QED
  BY <1>1, <1>2, <1>3, <1>4, <1>5 DEF FdNext

LEMMA FdInvariant == FdSpec => []FdInv
BY FdInitInv, FdNextInv, PTL DEF FdSpec

--------------------------------------------------------------------------------
(* Type correctness: no offset leaves _buffer, no counter its bounds.      *)
THEOREM FdTypeCorrect == FdSpec => []FdTypeOK
<1>1. FdInv => FdTypeOK
  BY DEF FdInv
<1> QED
  BY <1>1, FdInvariant, PTL

LEMMA BackToTheStart ==
    ASSUME NEW len \in Nat, NEW back \in Nat, NEW get \in Nat, NEW end \in Nat, NEW size \in Nat,
           NEW place, place = len - end + get,
           0 <= len - end + back, back = 0 \/ len - end + back = 0
    PROVE  place - (get - back) <= IF len - (end - size) < size THEN 0 ELSE len - (end - size) - size
<1>1. place - (get - back) = len - end + back
  OBVIOUS
<1>2. len - (end - size) - size = len - end /\ (len - (end - size) < size <=> len - end < 0)
  OBVIOUS
<1>3. len - end + back <= IF len - end < 0 THEN 0 ELSE len - end
  OBVIOUS
<1> QED
  BY <1>1, <1>2, <1>3

(* The PUTBACK_SIZE characters before the last refill stay within reach of *)
(* unget: underflow moves them, whatever the sizes of the two areas.       *)
THEOREM PutbackRoomKept == FdSpec => []PutbackRoom
<1>1. ASSUME FdInv, NEW r \in Readers
      PROVE  LET refilledAt == Len(taken[r]) - (in[r].egptr - PUTBACK_SIZE)
                 reachable == pos[r] - (in[r].gptr - in[r].eback)
             IN  reachable <= IF refilledAt < PUTBACK_SIZE THEN 0 ELSE refilledAt - PUTBACK_SIZE
  <2>1. /\ PUTBACK_SIZE \in Nat /\ in[r].eback \in Nat /\ in[r].gptr \in Nat
        /\ in[r].egptr \in Nat /\ Len(taken[r]) \in Nat
    BY <1>1, PointersInRange DEF FdInv
  <2>2. /\ pos[r] = Len(taken[r]) - in[r].egptr + in[r].gptr
        /\ in[r].eback = 0 \/ Len(taken[r]) - in[r].egptr + in[r].eback = 0
        /\ 0 <= Len(taken[r]) - in[r].egptr + in[r].eback
    BY <1>1 DEF FdInv, Pointers, AsFarBackAsCan, Base
  <2> QED
    BY <2>1, <2>2, BackToTheStart
<1>2. FdInv => PutbackRoom
  BY <1>1 DEF PutbackRoom
<1> QED
  BY <1>2, FdInvariant, PTL

LEMMA OnePlace ==
    ASSUME FdInv, NEW i \in 1..Len(wire)
    PROVE  LET inPipe == {k \in DOMAIN pipe : pipe[k] = wire[i]}
               inReader == UNION {{<<r, k>> : k \in {j \in DOMAIN taken[r] : taken[r][j] = wire[i]}} : r \in Readers}
           IN  Cardinality(inPipe) + Cardinality(inReader) = 1
<1> DEFINE b == wire[i]
           inPipe == {k \in DOMAIN pipe : pipe[k] = b}
           inReader == UNION {{<<r, k>> : k \in {j \in DOMAIN taken[r] : taken[r][j] = b}} : r \in Readers}
<1>1. /\ Places /\ pipe \in Seq(Nat) /\ DOMAIN pipe = 1..Len(pipe)
      /\ \A r \in Readers : taken[r] \in Seq(Nat) /\ DOMAIN taken[r] = 1..Len(taken[r])
  <2>1. /\ Places /\ pipe \in Seq(Nat) /\ \A r \in Readers : taken[r] \in Seq(Nat)
    BY BytesAreNumbers DEF FdInv
  <2> QED
    BY <2>1
<1>2. ASSUME NEW x \in inReader
      PROVE  \E r \in Readers : \E k \in 1..Len(taken[r]) : x = <<r, k>> /\ taken[r][k] = b
  BY <1>1
<1>3. ASSUME NEW k \in 1..Len(pipe), NEW r \in Readers, NEW j \in 1..Len(taken[r])
      PROVE  taken[r][j] # pipe[k]
  <2>1. taken[r][j] < pipe[k]
    BY <1>1 DEF Places, TakenBefore
  <2>2. taken[r][j] \in Nat /\ pipe[k] \in Nat
    BY <1>1, ElementOfSeq
  <2> QED
    BY <2>1, <2>2
<1>4. CASE \E k \in 1..Len(pipe) : pipe[k] = b
  <2>1. PICK k \in 1..Len(pipe) : pipe[k] = b
    BY <1>4
  <2>2. ASSUME NEW j \in 1..Len(pipe), pipe[j] = b PROVE j = k
    <3>1. pipe[j] \in Nat /\ j \in Nat /\ k \in Nat
      BY <1>1, ElementOfSeq
    <3>2. j < k => pipe[j] < pipe[k]
      BY <1>1 DEF Places, Increasing
    <3>3. k < j => pipe[k] < pipe[j]
      BY <1>1 DEF Places, Increasing
    <3> QED
      BY <2>1, <2>2, <3>1, <3>2, <3>3
  <2>3. inPipe = {k}
    BY <1>1, <2>1, <2>2
  <2>4. inReader = {}
    BY <1>2, <1>3, <2>1
  <2> HIDE DEF inPipe, inReader
  <2>5. Cardinality(inPipe) = 1 /\ Cardinality(inReader) = 0
    BY <2>3, <2>4, FS_Singleton, FS_EmptySet
  <2>6. Cardinality(inPipe) + Cardinality(inReader) = 1
    BY <2>5
  <2> QED
    BY <2>6 DEF inPipe, inReader
<1>5. CASE ~ \E k \in 1..Len(pipe) : pipe[k] = b
  <2>1. PICK r \in Readers : \E k \in 1..Len(taken[r]) : taken[r][k] = b
    BY <1>1, <1>5 DEF Places
  <2>2. PICK k \in 1..Len(taken[r]) : taken[r][k] = b
    BY <2>1
  <2>3. ASSUME NEW s \in Readers, NEW j \in 1..Len(taken[s]), taken[s][j] = b PROVE s = r /\ j = k
    <3>1. s = r
      BY <1>1, <2>2, <2>3 DEF Places
    <3>2. taken[r][j] \in Nat /\ j \in Nat /\ k \in Nat
      BY <1>1, <3>1, ElementOfSeq
    <3>3. j \in 1..Len(taken[r]) /\ Increasing(taken[r])
      BY <1>1, <3>1 DEF Places, TakenBefore
    <3>4. j < k => taken[r][j] < taken[r][k]
      BY <3>3 DEF Increasing
    <3>5. k < j => taken[r][k] < taken[r][j]
      BY <3>3 DEF Increasing
    <3> QED
      BY <2>2, <2>3, <3>1, <3>2, <3>4, <3>5
  <2>4. inReader = {<<r, k>>}
    <3>1. <<r, k>> \in inReader
      BY <1>1, <2>2
    <3>2. ASSUME NEW x \in inReader PROVE x = <<r, k>>
      BY <1>2, <2>3
    <3> QED
      BY <3>1, <3>2
  <2>5. inPipe = {}
    BY <1>1, <1>5
  <2> HIDE DEF inPipe, inReader
  <2>6. Cardinality(inPipe) = 0 /\ Cardinality(inReader) = 1
    BY <2>4, <2>5, FS_Singleton, FS_EmptySet
  <2>7. Cardinality(inPipe) + Cardinality(inReader) = 1
    BY <2>6
  <2> QED
    BY <2>7 DEF inPipe, inReader
<1> QED
  BY <1>4, <1>5

(* Every byte that went into the pipe is there still or came out at one    *)
(* reader, once, in order; a good stream has sent all that was inserted.   *)
THEOREM NoByteLostOrDoubled == FdSpec => []BytesAccounted
<1>1. ASSUME FdInv PROVE BytesAccounted
  <2>1. wire \in Seq(Nat) /\ Len(wire) \in Nat /\ DOMAIN wire = 1..Len(wire)
    <3>1. wire \in Seq(Nat)
      BY <1>1, BytesAreNumbers DEF FdInv
    <3> QED
      BY <3>1
  <2>2. ASSUME NEW i \in 1..Len(wire) - 1 PROVE wire[i] < wire[i + 1]
    <3>1. i \in 1..Len(wire) /\ i + 1 \in 1..Len(wire) /\ i < i + 1
      BY <2>1
    <3> QED
      BY <1>1, <3>1 DEF FdInv, Places, Increasing
  <2>3. outGood /\ ~cleared => Len(wire) = inserted
    BY <1>1 DEF FdInv, GoodMeansSent
  <2> QED
    BY <1>1, <2>1, <2>2, <2>3, OnePlace DEF BytesAccounted
<1> QED
  BY <1>1, FdInvariant, PTL

--------------------------------------------------------------------------------
(* The refinement: what each step of an fdinbuf is to its user.            *)
LEMMA ReaderInitStep == FdInit => Reader!ReaderInit
BY DEF FdInit, Reader!ReaderInit

LEMMA ReaderSteps ==
    ASSUME FdInv, [FdNext]_fdVars
    PROVE  [Reader!ReaderNext]_(Reader!readerVars)
<1> USE DEF Reader!readerVars
<1>1. ASSUME NEW r \in Readers, Underflow(r) PROVE Reader!Arrive(r)
  <2>1. PICK num \in 1..Min2(BUFFER_SIZE, Len(pipe)) :
            taken' = [taken EXCEPT ![r] = @ \o SubSeq(pipe, 1, num)]
    BY <1>1 DEF Underflow
  <2> DEFINE Bytes == 1..MaxBytes
             more == taken[r] \o SubSeq(pipe, 1, num)
  <2>2. /\ taken[r] \in Seq(Bytes) /\ pipe \in Seq(Bytes) /\ num \in 1..Len(pipe)
        /\ Len(taken[r]) \in Nat
    BY <2>1, StreamAssumption, BytesAreNumbers DEF FdInv, FdTypeOK, Min2
  <2> HIDE DEF Bytes
  <2>3. /\ more \in Seq(Bytes) /\ Len(more) = Len(taken[r]) + num
        /\ \A k \in 1..Len(taken[r]) : more[k] = taken[r][k]
    BY <2>2, ReadSplitsPipe DEF MovesOver
  <2>4. taken' = [taken EXCEPT ![r] = more] /\ taken'[r] = more
    BY <2>1 DEF FdInv, FdTypeOK
  <2> HIDE DEF more
  <2>5. SubSeq(more, 1, Len(taken[r])) = taken[r]
    <3>1. /\ SubSeq(more, 1, Len(taken[r])) \in Seq(Bytes)
          /\ Len(SubSeq(more, 1, Len(taken[r]))) = Len(taken[r])
          /\ \A k \in 1..Len(taken[r]) : SubSeq(more, 1, Len(taken[r]))[k] = more[k]
      BY <2>2, <2>3
    <3> QED
      BY <2>2, <2>3, <3>1, SeqEqual
  <2>6. Len(more) > Len(taken[r])
    BY <2>2, <2>3
  <2> QED
    BY <1>1, <2>4, <2>5, <2>6 DEF Underflow, Reader!Arrive
<1>2. ASSUME NEW r \in Readers, UnderflowFails(r) PROVE Reader!Cut(r)
  <2>1. pos[r] = Len(taken[r])
    BY <1>2, PointersInRange DEF FdInv, Pointers, Base, UnderflowFails
  <2> QED
    BY <1>2, <2>1 DEF UnderflowFails, Reader!Cut
<1>3. ASSUME NEW r \in Readers, NEW k \in Offsets, NEW place,
             in[r].eback <= k, k < in[r].egptr, place = Base(r) + k + 1,
             seen' = [seen EXCEPT ![r] = in[r].buf[k]]
      PROVE  Reader!Gives(r, place)
  <2>1. seen'[r] = in[r].buf[k]
    BY <1>3 DEF FdInv, FdTypeOK
  <2>2. /\ failed[r] \in Nat /\ Base(r) \in Int /\ k \in Int
    BY PointersInRange, StreamAssumption DEF FdInv, Offsets
  <2>3. place > failed[r] => seen'[r] = taken[r][place]
    BY <1>3, <2>1, <2>2 DEF FdInv, Buffered
  <2> QED
    BY <1>3, <2>1, <2>3 DEF Reader!Gives
<1>4. ASSUME NEW r \in Readers, Bump(r) PROVE Reader!Forward(r)
  <2>1. /\ in[r].gptr \in Offsets /\ in[r].eback <= in[r].gptr /\ in[r].gptr < in[r].egptr
        /\ pos[r] + 1 = Base(r) + in[r].gptr + 1
    BY SMTT(60), <1>4, PointersInRange DEF FdInv, Pointers, Bump, Offsets
  <2>2. pos[r] < Len(taken[r])
    BY <1>4, PointersInRange DEF FdInv, Pointers, Base, Bump
  <2>3. Reader!Gives(r, pos[r] + 1)
    BY <1>3, <1>4, <2>1 DEF Bump
  <2> QED
    BY <1>4, <2>2, <2>3 DEF Bump, Reader!Forward
<1>5. ASSUME NEW r \in Readers, Unget(r) PROVE Reader!Back(r)
  <2>1. /\ in[r].gptr - 1 \in Offsets /\ in[r].eback <= in[r].gptr - 1
        /\ in[r].gptr - 1 < in[r].egptr
        /\ pos[r] = Base(r) + (in[r].gptr - 1) + 1
    <3>1. /\ PUTBACK_SIZE \in Nat /\ BUFFER_SIZE \in Nat /\ Base(r) \in Int
          /\ in[r].eback \in Nat /\ in[r].gptr \in Nat
          /\ in[r].egptr \in PUTBACK_SIZE..(BUFFER_SIZE + PUTBACK_SIZE)
          /\ in[r].gptr <= in[r].egptr
      BY PointersInRange DEF FdInv
    <3>2. in[r].gptr > in[r].eback /\ pos[r] = Base(r) + in[r].gptr
      BY <1>5 DEF FdInv, Pointers, Unget
    <3> QED
      BY <3>1, <3>2 DEF Offsets
  <2>2. pos[r] > 0
    <3>1. 0 <= Base(r) + in[r].eback /\ in[r].gptr > in[r].eback /\ pos[r] = Base(r) + in[r].gptr
      BY <1>5 DEF FdInv, Pointers, Unget
    <3>2. Base(r) \in Int /\ in[r].eback \in Int /\ in[r].gptr \in Int
      BY PointersInRange DEF FdInv
    <3> QED
      BY <3>1, <3>2
  <2>3. Reader!Gives(r, pos[r])
    BY <1>3, <1>5, <2>1 DEF Unget
  <2> QED
    BY <1>5, <2>2, <2>3 DEF Unget, Reader!Back
<1>6. ASSUME \/ \E num \in Chunks : Xsputn(num)
             \/ Overflow \/ ClearOut \/ CloseOut \/ UNCHANGED fdVars
      PROVE  UNCHANGED <<taken, pos, seen, failed>>
  BY <1>6 DEF Xsputn, Overflow, ClearOut, CloseOut, fdVars, inVars
<1> QED
  BY <1>1, <1>2, <1>4, <1>5, <1>6 DEF FdNext, Reader!ReaderNext

(* fdinbuf implements ByteReader: through every refill, short read and     *)
(* failing read the user sees the bytes that arrived, each once and in     *)
(* order, and unget gives back the byte that was given before.             *)
THEOREM ReadsAsPromisedAlways == FdSpec => ReadsAsPromised
BY FdInvariant, ReaderInitStep, ReaderSteps, PTL
   DEF FdSpec, ReadsAsPromised, Reader!ReaderSpec

-----------------------------------------------------------------------------
(* The composition: a step is one of a component while the other stays.    *)
LEMMA SearchInComposition == Spec => ExSpec
<1>1. Init => ExInit
  BY DEF Init
<1>2. [Next]_<<exVars, fdVars, part>> => [ExNext]_exVars
  BY DEF Next
<1> QED
  BY <1>1, <1>2, PTL DEF Spec, ExSpec

LEMMA StreamsInComposition == Spec => FdSpec
<1>1. Init => FdInit
  BY DEF Init
<1>2. [Next]_<<exVars, fdVars, part>> => [FdNext]_fdVars
  BY DEF Next
<1> QED
  BY <1>1, <1>2, PTL DEF Spec, FdSpec

(* The search for the program and the streams keep their types next to     *)
(* each other: MCChild.TypeOK.                                             *)
THEOREM ChildTypeCorrect == Spec => []TypeOK
BY SearchInComposition, StreamsInComposition, SearchTypeCorrect, FdTypeCorrect, PTL DEF TypeOK

==============================================================================
