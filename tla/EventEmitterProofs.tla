-------------------------- MODULE EventEmitterProofs --------------------------
(***************************************************************************)
(* What an emit delivers, for every sequence of calls that the program and *)
(* its handlers make, however deep the emits nest: by an inductive         *)
(* invariant over the frames of the stack.                                 *)
(***************************************************************************)
EXTENDS EventEmitter, TLAPS, SequenceTheorems

Handlers == [id : Nat, type : ArgTypes, byValue : BOOLEAN]
Calls == [handler : Handlers, whole : BOOLEAN]
Frames == [event : Events, type : ArgTypes, rvalue : BOOLEAN, thrower : BOOLEAN,
           buffer : Nat, size : Nat, due : Seq(Handlers), at : Nat, running : BOOLEAN,
           whole : BOOLEAN, got : Seq(Calls)]
Vectors == [Events -> [buffer : Nat, handlers : Seq(Handlers)]]

Typed ==
    /\ attentive \in BOOLEAN
    /\ vec \in Vectors
    /\ stack \in Seq(Frames) /\ Len(stack) <= StackLimit
    /\ mode \in {"run", "unwind", "terminated", "undefined", "overflow"}
    /\ budget \in 0..MaxCalls
    /\ disturbed \subseteq Events

(* Each change of a vector is paid for.                                    *)
Paid(v, b) == \A e \in Events : /\ v[e].buffer + b <= MaxCalls
                                /\ Len(v[e].handlers) + b <= MaxCalls

(* The handlers called so far are the first ones of those due.             *)
Delivered(f) ==
    /\ f.size = Len(f.due) /\ f.at >= 1
    /\ Len(f.got) = (IF f.running THEN f.at ELSE f.at - 1) /\ Len(f.got) <= f.size
    /\ \A i \in 1..Len(f.got) : f.got[i].handler = f.due[i]

(* Nobody before the i-th handler has taken the argument apart.            *)
WholeBefore(f, i, a) ==
    a \/ ((f.rvalue => i = 1) /\ \A j \in 1..(i - 1) : ~f.due[j].byValue)

Whole(f, a) ==
    /\ f.whole <=> WholeBefore(f, Len(f.got) + 1, a)
    /\ \A i \in 1..Len(f.got) : f.got[i].whole <=> WholeBefore(f, i, a)

(* As long as the buffer lives it begins with the handlers due; it dies    *)
(* only in an event that was disturbed.                                    *)
Current(f, v, d) ==
    /\ f.buffer <= v[f.event].buffer
    /\ f.buffer = v[f.event].buffer =>
          /\ Len(f.due) <= Len(v[f.event].handlers)
          /\ \A i \in 1..Len(f.due) : v[f.event].handlers[i] = f.due[i]
    /\ f.buffer # v[f.event].buffer => f.event \in d

FrameOK(f, a, v, d) == Delivered(f) /\ Whole(f, a) /\ Current(f, v, d) /\ (f.thrower => f.type = "exception")
FramesOK(s, a, v, d) == \A k \in 1..Len(s) : FrameOK(s[k], a, v, d)

(* A throw_ex() that began with a handler that does not take exceptions.   *)
Misfit(f) == f.thrower /\ \E i \in DOMAIN f.due : f.due[i].type # "exception"
Cost(f) == IF f.thrower THEN 0 ELSE 1

(* Without such a one in or below a frame, at most every second frame was  *)
(* not called for by the program.                                          *)
Fits(s, k) == \A j \in k..Len(s) : ~Misfit(s[j])
Depth(s, b) ==
    \A k \in 1..Len(s) :
        Fits(s, k) => (Len(s) + 1 - k) + Cost(s[k]) <= 2 * (MaxCalls - b)

EvInv ==
    /\ Typed
    /\ Paid(vec, budget)
    /\ FramesOK(stack, attentive, vec, disturbed)
    /\ Depth(stack, budget)
    /\ FailuresHaveCauses

--------------------------------------------------------------------------------
(* Sequences: something new in front, behind, and in the first place.      *)
LEMMA Pushed ==
    ASSUME NEW S, NEW s \in Seq(S), NEW x \in S, NEW t, t = <<x>> \o s
    PROVE  /\ t \in Seq(S) /\ Len(t) = Len(s) + 1 /\ t[1] = x
           /\ \A k \in 2..Len(t) : k - 1 \in 1..Len(s) /\ t[k] = s[k - 1]
<1> DEFINE h == <<x>>
<1>1. h \in Seq(S) /\ Len(h) = 1 /\ h[1] = x
  OBVIOUS
<1>2. Len(s) \in Nat
  OBVIOUS
<1> HIDE DEF h
<1>3. /\ h \o s \in Seq(S) /\ Len(h \o s) = Len(h) + Len(s)
      /\ \A i \in 1..(Len(h) + Len(s)) : (h \o s)[i] = IF i <= Len(h) THEN h[i] ELSE s[i - Len(h)]
  BY <1>1, ConcatProperties
<1>4. t = h \o s
  BY DEF h
<1>5. t \in Seq(S) /\ Len(t) = Len(s) + 1 /\ t[1] = x
  BY <1>1, <1>2, <1>3, <1>4
<1>6. ASSUME NEW k \in 2..Len(t) PROVE k - 1 \in 1..Len(s) /\ t[k] = s[k - 1]
  <2>1. k \in 1..(Len(h) + Len(s)) /\ ~(k <= Len(h)) /\ k - Len(h) = k - 1 /\ k - 1 \in 1..Len(s)
    BY <1>1, <1>2, <1>5
  <2> QED
    BY <1>3, <1>4, <2>1
<1> QED
  BY <1>5, <1>6

LEMMA Popped ==
    ASSUME NEW S, NEW s \in Seq(S), s # <<>>
    PROVE  /\ Tail(s) \in Seq(S) /\ Len(Tail(s)) + 1 = Len(s)
           /\ \A k \in 1..Len(Tail(s)) : k + 1 \in 2..Len(s) /\ Tail(s)[k] = s[k + 1]
<1>1. /\ Tail(s) \in Seq(S) /\ Len(Tail(s)) = Len(s) - 1 /\ Len(s) \in Nat /\ Len(s) # 0
      /\ \A k \in 1..Len(Tail(s)) : Tail(s)[k] = s[k + 1]
  BY HeadTailProperties, EmptySeq
<1> QED
  BY <1>1

LEMMA Replaced ==
    ASSUME NEW S, NEW s \in Seq(S), s # <<>>, NEW x \in S, NEW t, t = [s EXCEPT ![1] = x]
    PROVE  /\ t \in Seq(S) /\ Len(t) = Len(s) /\ t[1] = x
           /\ \A k \in 2..Len(s) : t[k] = s[k]
<1>1. Len(s) \in Nat /\ Len(s) # 0 /\ 1 \in 1..Len(s)
  BY EmptySeq
<1>2. /\ t \in Seq(S) /\ Len(t) = Len(s)
      /\ \A j \in 1..Len(s) : t[j] = IF j = 1 THEN x ELSE s[j]
  BY <1>1, ExceptSeq
<1>3. \A k \in 2..Len(s) : k \in 1..Len(s) /\ k # 1
  BY <1>1
<1> QED
  BY <1>1, <1>2, <1>3

LEMMA FirstOrLater ==
    ASSUME NEW n \in Nat
    PROVE  \A k \in 1..n : k = 1 \/ k \in 2..n
OBVIOUS

(* The invariants of all frames, under a push, a pop and a change on top.  *)
LEMMA PushOK ==
    ASSUME NEW s \in Seq(Frames), NEW x \in Frames, NEW a, NEW v, NEW d,
           FramesOK(s, a, v, d), FrameOK(x, a, v, d)
    PROVE  <<x>> \o s \in Seq(Frames) /\ Len(<<x>> \o s) = Len(s) + 1 /\ FramesOK(<<x>> \o s, a, v, d)
<1> DEFINE t == <<x>> \o s
<1>1. /\ t \in Seq(Frames) /\ Len(t) = Len(s) + 1 /\ t[1] = x
      /\ \A k \in 2..Len(t) : k - 1 \in 1..Len(s) /\ t[k] = s[k - 1]
  BY Pushed
<1>2. Len(t) \in Nat
  BY <1>1
<1> HIDE DEF t
<1>3. ASSUME NEW k \in 1..Len(t) PROVE FrameOK(t[k], a, v, d)
  <2>1. k = 1 \/ k \in 2..Len(t)
    BY <1>2, FirstOrLater
  <2>2. CASE k = 1
    BY <1>1, <2>2
  <2>3. CASE k \in 2..Len(t)
    BY <1>1, <2>3 DEF FramesOK
  <2> QED
    BY <2>1, <2>2, <2>3
<1> QED
  BY <1>1, <1>3 DEF FramesOK, t

LEMMA PopOK ==
    ASSUME NEW s \in Seq(Frames), s # <<>>, NEW a, NEW v, NEW d, FramesOK(s, a, v, d)
    PROVE  FramesOK(Tail(s), a, v, d)
<1>1. \A k \in 1..Len(Tail(s)) : k + 1 \in 2..Len(s) /\ Tail(s)[k] = s[k + 1]
  BY Popped
<1>2. \A k \in 2..Len(s) : k \in 1..Len(s)
  OBVIOUS
<1> QED
  BY <1>1, <1>2 DEF FramesOK

LEMMA ReplaceOK ==
    ASSUME NEW s \in Seq(Frames), s # <<>>, NEW x \in Frames, NEW a, NEW v, NEW d,
           FramesOK(s, a, v, d), FrameOK(x, a, v, d)
    PROVE  FramesOK([s EXCEPT ![1] = x], a, v, d)
<1> DEFINE t == [s EXCEPT ![1] = x]
<1>1. t \in Seq(Frames) /\ Len(t) = Len(s) /\ t[1] = x /\ \A k \in 2..Len(s) : t[k] = s[k]
  BY Replaced
<1>2. Len(s) \in Nat
  OBVIOUS
<1> HIDE DEF t
<1>3. ASSUME NEW k \in 1..Len(s) PROVE FrameOK(t[k], a, v, d)
  <2>1. k = 1 \/ k \in 2..Len(s)
    BY <1>2, FirstOrLater
  <2> QED
    BY <1>1, <2>1 DEF FramesOK
<1> QED
  BY <1>1, <1>3 DEF FramesOK, t

(* How deep the stack can be: a call of the program pays for two frames,   *)
(* the second one is that of a throw_ex() on a mismatch.                   *)
LEMMA PushDepth ==
    ASSUME NEW s \in Seq(Frames), NEW x \in Frames, NEW b \in 0..MaxCalls, NEW c \in 0..b, Depth(s, b),
           \/ c + 1 = b
           \/ c = b /\ s # <<>> /\ x.thrower /\ (s[1].thrower => Misfit(s[1]))
    PROVE  Depth(<<x>> \o s, c)
<1> DEFINE t == <<x>> \o s
           n == Len(s)
<1>0. MaxCalls \in Nat /\ n \in Nat /\ b \in Nat /\ c \in Nat /\ b <= MaxCalls /\ c <= b
  BY EmitterAssumption
<1>1. /\ t \in Seq(Frames) /\ Len(t) = n + 1 /\ t[1] = x
      /\ \A k \in 2..Len(t) : k - 1 \in 1..n /\ t[k] = s[k - 1]
  BY Pushed
<1> HIDE DEF t, n
<1>2. ASSUME NEW k \in 1..n, NEW m \in 1..(n + 1), m <= k + 1, Fits(t, m) PROVE Fits(s, k)
  <2>1. ASSUME NEW j \in k..n PROVE ~Misfit(s[j])
    <3>1. j + 1 \in 2..Len(t) /\ j + 1 \in m..Len(t) /\ (j + 1) - 1 = j
      BY <1>0, <1>1, <1>2
    <3>2. t[j + 1] = s[j]
      BY <1>1, <3>1
    <3> QED
      BY <1>2, <3>1, <3>2 DEF Fits
  <2> QED
    BY <2>1 DEF Fits, n
<1>3. ASSUME NEW k \in 1..n, Fits(s, k) PROVE (n + 1 - k) + Cost(s[k]) <= 2 * (MaxCalls - b)
  BY <1>3 DEF Depth, n
<1>4. ASSUME NEW f PROVE Cost(f) \in {0, 1} /\ (f.thrower => Cost(f) = 0) /\ (~f.thrower => Cost(f) = 1)
  BY DEF Cost
<1>5. ASSUME Fits(t, 1) PROVE (n + 1) + Cost(x) <= 2 * (MaxCalls - c)
  <2>1. n = 0 \/ 1 \in 1..n
    BY <1>0
  <2>2. 1 \in 1..n => Fits(s, 1)
    <3> HAVE 1 \in 1..n
    <3>1. 1 \in 1..(n + 1) /\ 1 <= 1 + 1
      BY <1>0
    <3> QED
      BY <1>2, <1>5, <3>1
  <2>3. CASE c + 1 = b
    <3>1. CASE n = 0
      BY <1>0, <1>4, <2>3, <3>1
    <3>2. CASE 1 \in 1..n
      <4>1. (n + 1 - 1) + Cost(s[1]) <= 2 * (MaxCalls - b)
        BY <1>3, <2>2, <3>2
      <4>2. Cost(s[1]) \in {0, 1} /\ Cost(x) \in {0, 1}
        BY <1>4
      <4> QED
        BY <1>0, <2>3, <4>1, <4>2
    <3> QED
      BY <2>1, <3>1, <3>2
  <2>4. CASE c = b /\ s # <<>> /\ x.thrower /\ (s[1].thrower => Misfit(s[1]))
    <3>1. 1 \in 1..n
      <4>1. n # 0
        BY <2>4, EmptySeq DEF n
      <4> QED
        BY <1>0, <4>1
    <3>2. ~Misfit(s[1])
      <4>1. 1 \in 1..Len(s)
        BY <3>1 DEF n
      <4> QED
        BY <2>2, <3>1, <4>1 DEF Fits
    <3>3. Cost(s[1]) = 1 /\ Cost(x) = 0
      BY <1>4, <2>4, <3>2
    <3>4. (n + 1 - 1) + Cost(s[1]) <= 2 * (MaxCalls - b)
      BY <1>3, <2>2, <3>1
    <3>5. c = b
      BY <2>4
    <3> QED
      BY <1>0, <3>3, <3>4, <3>5
  <2> QED
    BY <2>3, <2>4
<1>6. ASSUME NEW k \in 2..(n + 1), Fits(t, k) PROVE ((n + 1) + 1 - k) + Cost(t[k]) <= 2 * (MaxCalls - c)
  <2>1. k - 1 \in 1..n /\ k \in 1..(n + 1) /\ k <= (k - 1) + 1
    BY <1>0
  <2>2. Fits(s, k - 1) /\ t[k] = s[k - 1]
    BY <1>1, <1>2, <1>6, <2>1
  <2>3. (n + 1 - (k - 1)) + Cost(s[k - 1]) <= 2 * (MaxCalls - b)
    BY <1>3, <2>1, <2>2
  <2>4. Cost(s[k - 1]) \in {0, 1}
    BY <1>4
  <2>5. (n + 1 - (k - 1)) + Cost(s[k - 1]) <= 2 * (MaxCalls - c)
    BY <1>0, <2>1, <2>3, <2>4
  <2> QED
    BY <1>0, <2>1, <2>2, <2>4, <2>5
<1>7. ASSUME NEW k \in 1..Len(t), Fits(t, k) PROVE (Len(t) + 1 - k) + Cost(t[k]) <= 2 * (MaxCalls - c)
  <2>1. k \in 1..(n + 1) /\ n + 1 \in Nat
    BY <1>0, <1>1
  <2>2. k = 1 \/ k \in 2..(n + 1)
    BY <2>1, FirstOrLater
  <2>3. CASE k = 1
    <3>1. (n + 1) + Cost(x) <= 2 * (MaxCalls - c)
      BY <1>5, <1>7, <2>3
    <3>2. (n + 1) + 1 - 1 = n + 1
      BY <1>0
    <3> QED
      BY <1>1, <2>3, <3>1, <3>2
  <2>4. CASE k \in 2..(n + 1)
    BY <1>1, <1>6, <1>7, <2>4
  <2> QED
    BY <2>2, <2>3, <2>4
<1> QED
  BY <1>7 DEF Depth, t

LEMMA PopDepth ==
    ASSUME NEW s \in Seq(Frames), s # <<>>, NEW b \in 0..MaxCalls, Depth(s, b)
    PROVE  Depth(Tail(s), b)
<1> DEFINE t == Tail(s)
           n == Len(t)
<1>1. /\ t \in Seq(Frames) /\ n + 1 = Len(s) /\ n \in Nat
      /\ \A k \in 1..n : k + 1 \in 2..Len(s) /\ t[k] = s[k + 1]
  BY Popped
<1>0. MaxCalls \in Nat /\ b \in Nat
  BY EmitterAssumption
<1> HIDE DEF t, n
<1>2. ASSUME NEW k \in 1..n, Fits(t, k) PROVE Fits(s, k + 1)
  <2>1. ASSUME NEW j \in (k + 1)..Len(s) PROVE ~Misfit(s[j])
    <3>1. j - 1 \in 1..n /\ j - 1 \in k..n /\ (j - 1) + 1 = j
      BY <1>1
    <3> QED
      BY <1>1, <1>2, <3>1 DEF Fits, n
  <2> QED
    BY <2>1 DEF Fits
<1>3. ASSUME NEW k \in 1..n, Fits(t, k) PROVE (n + 1 - k) + Cost(t[k]) <= 2 * (MaxCalls - b)
  <2>1. k + 1 \in 1..Len(s) /\ Fits(s, k + 1) /\ t[k] = s[k + 1]
    BY <1>1, <1>2, <1>3
  <2>2. (Len(s) + 1 - (k + 1)) + Cost(s[k + 1]) <= 2 * (MaxCalls - b)
    BY <2>1 DEF Depth
  <2>3. Len(s) + 1 - (k + 1) = n + 1 - k
    BY <1>1
  <2> QED
    BY <2>1, <2>2, <2>3
<1> QED
  BY <1>3 DEF Depth, t, n

LEMMA ReplaceDepth ==
    ASSUME NEW s \in Seq(Frames), s # <<>>, NEW x \in Frames, NEW b, Depth(s, b),
           x.thrower = s[1].thrower, x.due = s[1].due
    PROVE  Depth([s EXCEPT ![1] = x], b)
<1> DEFINE t == [s EXCEPT ![1] = x]
<1>1. t \in Seq(Frames) /\ Len(t) = Len(s) /\ t[1] = x /\ \A k \in 2..Len(s) : t[k] = s[k]
  BY Replaced
<1>2. Len(s) \in Nat
  OBVIOUS
<1> HIDE DEF t
<1>3. ASSUME NEW k \in 1..Len(s) PROVE (Misfit(t[k]) <=> Misfit(s[k])) /\ Cost(t[k]) = Cost(s[k])
  <2>1. k = 1 \/ k \in 2..Len(s)
    BY <1>2, FirstOrLater
  <2>2. CASE k = 1
    BY <1>1, <2>2 DEF Misfit, Cost
  <2>3. CASE k \in 2..Len(s)
    BY <1>1, <2>3
  <2> QED
    BY <2>1, <2>2, <2>3
<1>4. ASSUME NEW k \in 1..Len(s), Fits(t, k) PROVE Fits(s, k)
  <2>1. \A j \in k..Len(s) : j \in 1..Len(s)
    BY <1>2
  <2> QED
    BY <1>1, <1>3, <1>4, <2>1 DEF Fits
<1> QED
  BY <1>1, <1>3, <1>4 DEF Depth, t

LEMMA SpendDepth ==
    ASSUME NEW s \in Seq(Frames), NEW b \in 0..MaxCalls, NEW c \in 0..b, Depth(s, b)
    PROVE  Depth(s, c)
<1>1. MaxCalls \in Nat /\ b \in Nat /\ c \in Nat /\ c <= b /\ Len(s) \in Nat
  BY EmitterAssumption
<1>2. ASSUME NEW k \in 1..Len(s), Fits(s, k) PROVE (Len(s) + 1 - k) + Cost(s[k]) <= 2 * (MaxCalls - c)
  <2>1. (Len(s) + 1 - k) + Cost(s[k]) <= 2 * (MaxCalls - b)
    BY <1>2 DEF Depth
  <2>2. Cost(s[k]) \in {0, 1}
    BY DEF Cost
  <2> QED
    BY <1>1, <2>1, <2>2
<1> QED
  BY <1>2 DEF Depth

(* A full stack has such a misfit somewhere.                               *)
LEMMA FullStack ==
    ASSUME NEW s \in Seq(Frames), NEW b \in 0..MaxCalls, Depth(s, b), Len(s) = StackLimit
    PROVE  \E k \in DOMAIN s : Misfit(s[k])
<1>1. /\ MaxCalls \in Nat /\ b \in Nat /\ Len(s) \in Nat /\ Len(s) > 2 * MaxCalls
  BY EmitterAssumption
<1>2. 1 \in 1..Len(s)
  BY <1>1
<1>3. ~Fits(s, 1)
  <2> SUFFICES ASSUME Fits(s, 1) PROVE FALSE
    OBVIOUS
  <2>1. (Len(s) + 1 - 1) + Cost(s[1]) <= 2 * (MaxCalls - b)
    BY <1>2 DEF Depth
  <2>2. Cost(s[1]) \in {0, 1}
    BY DEF Cost
  <2> QED
    BY <1>1, <2>1, <2>2
<1> QED
  BY <1>3 DEF Fits

--------------------------------------------------------------------------------
(* One frame, from its beginning through its calls.                        *)
LEMMA NewFrame ==
    ASSUME EvInv, NEW e \in Events, NEW type \in ArgTypes, NEW rvalue \in BOOLEAN, NEW thrower \in BOOLEAN,
           thrower => type = "exception"
    PROVE  /\ Frame(e, type, rvalue, thrower) \in Frames
           /\ FrameOK(Frame(e, type, rvalue, thrower), attentive, vec, disturbed)
           /\ Frame(e, type, rvalue, thrower).thrower = thrower
<1> DEFINE f == Frame(e, type, rvalue, thrower)
           hs == vec[e].handlers
           bf == vec[e].buffer
<1>1. hs \in Seq(Handlers) /\ bf \in Nat /\ Len(hs) \in Nat
  BY DEF EvInv, Typed, Vectors
<1>2. f = [event |-> e, type |-> type, rvalue |-> rvalue, thrower |-> thrower,
           buffer |-> bf, size |-> Len(hs), due |-> hs,
           at |-> 1, running |-> FALSE, whole |-> TRUE, got |-> <<>>]
  BY DEF Frame
<1> HIDE DEF f
<1>3. /\ f.event = e /\ f.buffer = bf /\ f.size = Len(hs) /\ f.due = hs /\ f.at = 1 /\ f.running = FALSE
      /\ f.whole = TRUE /\ f.got = <<>> /\ f.thrower = thrower /\ f.type = type
  BY <1>2
<1>4. Len(f.got) = 0
  BY <1>3
<1>5. Delivered(f)
  BY <1>1, <1>3, <1>4 DEF Delivered
<1>6. Whole(f, attentive)
  <2>1. WholeBefore(f, 1, attentive)
    BY DEF WholeBefore
  <2>2. Len(f.got) + 1 = 1 /\ \A i \in 1..Len(f.got) : FALSE
    BY <1>4
  <2> QED
    BY <1>3, <2>1, <2>2 DEF Whole
<1>7. Current(f, vec, disturbed)
  BY <1>1, <1>3 DEF Current
<1>8. f \in Frames
  <2>1. <<>> \in Seq(Calls)
    OBVIOUS
  <2> HIDE DEF hs, bf
  <2> QED
    BY <1>1, <1>2, <2>1 DEF Frames
<1> QED
  BY <1>3, <1>5, <1>6, <1>7, <1>8 DEF FrameOK, f

(* The frame on top, and the handler it comes to.                          *)
LEMMA TopFrame ==
    ASSUME EvInv, stack # <<>>
    PROVE  /\ stack \in Seq(Frames) /\ Top \in Frames /\ Top = stack[1]
           /\ FrameOK(Top, attentive, vec, disturbed)
<1>1. stack \in Seq(Frames) /\ FramesOK(stack, attentive, vec, disturbed)
  BY DEF EvInv, Typed
<1>2. 1 \in 1..Len(stack)
  BY <1>1, EmptySeq
<1> QED
  BY <1>1, <1>2, ElementOfSeq DEF FramesOK, Top

LEMMA NextHandler ==
    ASSUME EvInv, InLoop, More, Valid
    PROVE  Top.at \in 1..Len(Top.due) /\ Handler = Top.due[Top.at]
<1>1. Top \in Frames /\ FrameOK(Top, attentive, vec, disturbed)
  BY TopFrame DEF InLoop
<1>2. Top.at \in Nat /\ Top.due \in Seq(Handlers) /\ Len(Top.due) \in Nat
  BY <1>1 DEF Frames
<1>3. Top.at >= 1 /\ Top.size = Len(Top.due)
  BY <1>1 DEF FrameOK, Delivered
<1>4. Top.at \in 1..Len(Top.due)
  BY <1>2, <1>3 DEF More
<1> QED
  BY <1>1, <1>4 DEF FrameOK, Current, Valid, Handler

(* The frame after the call of h, which moves the argument away when m.    *)
CalledBy(f, h, m) ==
    [f EXCEPT !.running = TRUE, !.got = Append(@, [handler |-> h, whole |-> f.whole]), !.whole = @ /\ ~m]

LEMMA Called ==
    ASSUME NEW f \in Frames, NEW a \in BOOLEAN, NEW v, NEW d, FrameOK(f, a, v, d),
           ~f.running, f.at \in 1..Len(f.due), NEW h, h = f.due[f.at],
           NEW m \in BOOLEAN, m <=> ~a /\ (f.rvalue \/ h.byValue)
    PROVE  /\ CalledBy(f, h, m) \in Frames /\ FrameOK(CalledBy(f, h, m), a, v, d)
           /\ CalledBy(f, h, m).thrower = f.thrower /\ CalledBy(f, h, m).due = f.due
<1> SUFFICES ASSUME NEW g, g = CalledBy(f, h, m)
             PROVE  g \in Frames /\ FrameOK(g, a, v, d) /\ g.thrower = f.thrower /\ g.due = f.due
  OBVIOUS
<1>0. g = [f EXCEPT !.running = TRUE, !.got = Append(@, [handler |-> h, whole |-> f.whole]), !.whole = @ /\ ~m]
  BY DEF CalledBy
<1> DEFINE c == [handler |-> h, whole |-> f.whole]
           n == Len(f.got)
<1>1. /\ f.got \in Seq(Calls) /\ f.due \in Seq(Handlers) /\ f.whole \in BOOLEAN /\ n \in Nat
      /\ f.at \in Nat /\ Len(f.due) \in Nat
  BY DEF Frames
<1>2. h \in Handlers
  BY <1>1, ElementOfSeq
<1>3. c \in Calls /\ c.handler = h /\ c.whole = f.whole
  BY <1>1, <1>2 DEF Calls
<1> HIDE DEF c, n
<1>4. /\ Append(f.got, c) \in Seq(Calls) /\ Len(Append(f.got, c)) = n + 1
      /\ Append(f.got, c)[n + 1] = c /\ \A i \in 1..n : Append(f.got, c)[i] = f.got[i]
  BY <1>1, <1>3, AppendProperties DEF n
<1>5. /\ g.running = TRUE /\ g.got = Append(f.got, c) /\ g.whole = (f.whole /\ ~m)
      /\ g.event = f.event /\ g.type = f.type /\ g.rvalue = f.rvalue /\ g.thrower = f.thrower
      /\ g.buffer = f.buffer /\ g.size = f.size /\ g.due = f.due /\ g.at = f.at
  BY <1>0 DEF Frames, c
<1>6. g \in Frames
  <2>1. (f.whole /\ ~m) \in BOOLEAN
    OBVIOUS
  <2> QED
    BY <1>0, <1>4, <2>1 DEF Frames, c
<1>7. n = f.at - 1 /\ n + 1 = f.at /\ n + 1 <= f.size /\ f.size = Len(f.due)
  <2>1. n = f.at - 1 /\ f.size = Len(f.due)
    BY DEF FrameOK, Delivered, n
  <2> QED
    BY <1>1, <2>1
<1>8. Delivered(g)
  <2>1. ASSUME NEW i \in 1..(n + 1) PROVE g.got[i].handler = g.due[i]
    <3>1. i \in 1..n \/ i = n + 1
      BY <1>1
    <3>2. CASE i \in 1..n
      BY <1>4, <1>5, <3>2 DEF FrameOK, Delivered, n
    <3>3. CASE i = n + 1
      BY <1>3, <1>4, <1>5, <1>7, <3>3
    <3> QED
      BY <3>1, <3>2, <3>3
  <2> QED
    BY <1>1, <1>4, <1>5, <1>7, <2>1 DEF Delivered
<1>9. ASSUME NEW i PROVE WholeBefore(g, i, a) <=> WholeBefore(f, i, a)
  BY <1>5 DEF WholeBefore
<1>10. f.whole <=> WholeBefore(f, n + 1, a)
  BY DEF FrameOK, Whole, n
<1>11. (f.whole /\ ~m) <=> WholeBefore(f, (n + 1) + 1, a)
  <2>1. \A j \in 1..((n + 1) + 1 - 1) : j \in 1..((n + 1) - 1) \/ j = n + 1
    BY <1>1
  <2>2. \A j \in 1..((n + 1) - 1) : j \in 1..((n + 1) + 1 - 1)
    BY <1>1
  <2>3. n + 1 \in 1..((n + 1) + 1 - 1) /\ (n + 1) + 1 # 1
    BY <1>1
  <2>4. h = f.due[n + 1]
    BY <1>7
  <2>5. CASE a
    BY <1>10, <2>5 DEF WholeBefore
  <2>6. CASE ~a
    <3>1. m <=> f.rvalue \/ f.due[n + 1].byValue
      BY <2>4, <2>6
    <3>2. f.whole <=> ((f.rvalue => n + 1 = 1) /\ \A j \in 1..((n + 1) - 1) : ~f.due[j].byValue)
      BY <1>10, <2>6 DEF WholeBefore
    <3>3. WholeBefore(f, (n + 1) + 1, a) <=>
            (~f.rvalue /\ \A j \in 1..((n + 1) + 1 - 1) : ~f.due[j].byValue)
      BY <2>3, <2>6 DEF WholeBefore
    <3>4. (\A j \in 1..((n + 1) + 1 - 1) : ~f.due[j].byValue) <=>
            (\A j \in 1..((n + 1) - 1) : ~f.due[j].byValue) /\ ~f.due[n + 1].byValue
      BY <2>1, <2>2, <2>3
    <3> QED
      BY <3>1, <3>2, <3>3, <3>4
  <2> QED
    BY <2>5, <2>6
<1>12. Whole(g, a)
  <2>1. ASSUME NEW i \in 1..(n + 1) PROVE g.got[i].whole <=> WholeBefore(f, i, a)
    <3>1. i \in 1..n \/ i = n + 1
      BY <1>1
    <3>2. CASE i \in 1..n
      <4>1. g.got[i] = f.got[i]
        BY <1>4, <1>5, <3>2
      <4>2. f.got[i].whole <=> WholeBefore(f, i, a)
        BY <3>2 DEF FrameOK, Whole, n
      <4> QED
        BY <4>1, <4>2
    <3>3. CASE i = n + 1
      <4>1. g.got[i] = c
        BY <1>4, <1>5, <3>3
      <4> QED
        BY <1>3, <1>10, <3>3, <4>1
    <3> QED
      BY <3>1, <3>2, <3>3
  <2>2. g.whole <=> WholeBefore(f, (n + 1) + 1, a)
    BY <1>5, <1>11
  <2>3. Len(g.got) = n + 1
    BY <1>4, <1>5
  <2> QED
    BY <1>9, <2>1, <2>2, <2>3 DEF Whole
<1>13. Current(g, v, d) /\ (g.thrower => g.type = "exception")
  BY <1>5 DEF FrameOK, Current
<1> QED
  BY <1>5, <1>6, <1>8, <1>12, <1>13 DEF FrameOK

LEMMA Returned ==
    ASSUME NEW f \in Frames, NEW a, NEW v, NEW d, FrameOK(f, a, v, d), f.running,
           NEW g, g = [f EXCEPT !.running = FALSE, !.at = @ + 1]
    PROVE  g \in Frames /\ FrameOK(g, a, v, d) /\ g.thrower = f.thrower /\ g.due = f.due
<1>1. /\ g.running = FALSE /\ g.at = f.at + 1 /\ g.got = f.got /\ g.whole = f.whole
      /\ g.event = f.event /\ g.type = f.type /\ g.rvalue = f.rvalue /\ g.thrower = f.thrower
      /\ g.buffer = f.buffer /\ g.size = f.size /\ g.due = f.due
  BY DEF Frames
<1>3. f.at \in Nat
  BY DEF Frames
<1>2. g \in Frames
  <2>1. f.at + 1 \in Nat
    BY <1>3
  <2> DEFINE n == f.at + 1
  <2>2. g = [f EXCEPT !.running = FALSE, !.at = n]
    OBVIOUS
  <2> HIDE DEF n
  <2>3. n \in Nat
    BY <2>1 DEF n
  <2> QED
    BY <2>2, <2>3 DEF Frames
<1>4. Delivered(g)
  BY <1>1, <1>3 DEF FrameOK, Delivered
<1>5. Whole(g, a)
  BY <1>1 DEF FrameOK, Whole, WholeBefore
<1>6. Current(g, v, d) /\ (g.thrower => g.type = "exception")
  BY <1>1 DEF FrameOK, Current
<1> QED
  BY <1>1, <1>2, <1>4, <1>5, <1>6 DEF FrameOK

--------------------------------------------------------------------------------
(* Steps that leave the vectors alone.                                     *)
LEMMA Kept ==
    ASSUME EvInv, UNCHANGED <<attentive, vec, disturbed>>,
           stack' \in Seq(Frames), Len(stack') <= StackLimit,
           FramesOK(stack', attentive, vec, disturbed),
           mode' \in {"run", "unwind", "terminated", "undefined", "overflow"},
           budget' \in 0..budget, Depth(stack', budget'), FailuresHaveCauses'
    PROVE  EvInv'
<1>1. MaxCalls \in Nat /\ budget \in 0..MaxCalls
  BY EmitterAssumption DEF EvInv, Typed
<1>2. budget' \in 0..MaxCalls
  BY <1>1
<1>3. Typed'
  BY <1>2 DEF EvInv, Typed, Vectors, Frames, Handlers, Calls
<1>4. Paid(vec, budget')
  <2>1. ASSUME NEW e \in Events PROVE vec[e].buffer + budget' <= MaxCalls /\ Len(vec[e].handlers) + budget' <= MaxCalls
    <3>1. vec[e].buffer \in Nat /\ Len(vec[e].handlers) \in Nat
      BY DEF EvInv, Typed, Vectors
    <3>2. vec[e].buffer + budget <= MaxCalls /\ Len(vec[e].handlers) + budget <= MaxCalls
      BY DEF EvInv, Paid
    <3> QED
      BY <1>1, <3>1, <3>2
  <2> QED
    BY <2>1 DEF Paid
<1> QED
  BY <1>3, <1>4 DEF EvInv

LEMMA Ordinary ==
    ASSUME mode \notin {"terminated", "undefined", "overflow"}
    PROVE  FailuresHaveCauses
BY DEF FailuresHaveCauses

LEMMA SpendFacts ==
    ASSUME EvInv, Spend
    PROVE  /\ budget \in 0..MaxCalls /\ budget' \in 0..budget /\ budget' + 1 = budget /\ MaxCalls \in Nat
           /\ budget \in Nat /\ budget' \in Nat
<1>1. budget \in 0..MaxCalls /\ MaxCalls \in Nat
  BY EmitterAssumption DEF EvInv, Typed
<1> QED
  BY <1>1 DEF Spend

(* emit() and throw_ex(), called by the program or on a mismatch.          *)
LEMMA EnterOK ==
    ASSUME EvInv, mode = "run", NEW frame \in Frames, FrameOK(frame, attentive, vec, disturbed),
           Enter(frame), UNCHANGED <<attentive, vec, disturbed>>,
           budget' \in 0..budget,
           \/ budget' + 1 = budget
           \/ budget' = budget /\ stack # <<>> /\ frame.thrower /\ (stack[1].thrower => Misfit(stack[1]))
    PROVE  EvInv'
<1>1. /\ stack \in Seq(Frames) /\ Len(stack) <= StackLimit /\ Len(stack) \in Nat /\ StackLimit \in Nat
      /\ budget \in 0..MaxCalls /\ Depth(stack, budget)
      /\ FramesOK(stack, attentive, vec, disturbed)
  BY EmitterAssumption DEF EvInv, Typed
<1>2. CASE Len(stack) = StackLimit
  <2>1. mode' = "overflow" /\ stack' = stack
    BY <1>2 DEF Enter
  <2>2. \E k \in DOMAIN stack : Misfit(stack[k])
    BY <1>1, <1>2, FullStack
  <2>3. FailuresHaveCauses'
    BY <2>1, <2>2 DEF FailuresHaveCauses, Misfit
  <2>4. Depth(stack', budget')
    BY <1>1, <2>1, SpendDepth
  <2> QED
    BY <1>1, <2>1, <2>3, <2>4, Kept
<1>3. CASE Len(stack) # StackLimit
  <2>1. mode' = "run" /\ stack' = <<frame>> \o stack
    BY <1>3 DEF Enter
  <2>2. /\ stack' \in Seq(Frames) /\ Len(stack') = Len(stack) + 1
        /\ FramesOK(stack', attentive, vec, disturbed)
    BY <1>1, <2>1, PushOK
  <2>3. Len(stack') <= StackLimit
    BY <1>1, <1>3, <2>2
  <2>4. Depth(stack', budget')
    BY <1>1, <2>1, PushDepth
  <2>5. FailuresHaveCauses'
    BY <2>1 DEF FailuresHaveCauses
  <2>6. mode' \in {"run", "unwind", "terminated", "undefined", "overflow"}
    BY <2>1
  <2> QED
    BY <2>2, <2>3, <2>4, <2>5, <2>6, Kept
<1> QED
  BY <1>2, <1>3

LEMMA EmitOK ==
    ASSUME EvInv, NEW e \in Events, NEW type \in ArgTypes, NEW rvalue \in BOOLEAN, Emit(e, type, rvalue)
    PROVE  EvInv'
<1> DEFINE frame == Frame(e, type, rvalue, FALSE)
<1>1. frame \in Frames /\ FrameOK(frame, attentive, vec, disturbed)
  BY NewFrame
<1>2. budget' \in 0..budget /\ budget' + 1 = budget
  BY SpendFacts DEF Emit
<1>3. mode = "run" /\ Enter(frame) /\ UNCHANGED <<attentive, vec, disturbed>>
  BY DEF Emit, UserRuns
<1> HIDE DEF frame
<1> QED
  BY <1>1, <1>2, <1>3, EnterOK

LEMMA ThrowFrameOK ==
    ASSUME EvInv
    PROVE  ThrowFrame \in Frames /\ FrameOK(ThrowFrame, attentive, vec, disturbed) /\ ThrowFrame.thrower
BY NewFrame, EmitterAssumption DEF ThrowFrame

LEMMA ThrowExOK ==
    ASSUME EvInv, ThrowEx
    PROVE  EvInv'
<1>1. budget' \in 0..budget /\ budget' + 1 = budget
  BY SpendFacts DEF ThrowEx
<1>2. mode = "run" /\ Enter(ThrowFrame) /\ UNCHANGED <<attentive, vec, disturbed>>
  BY DEF ThrowEx, UserRuns
<1> QED
  BY <1>1, <1>2, ThrowFrameOK, EnterOK

LEMMA MismatchOK ==
    ASSUME EvInv, Mismatch
    PROVE  EvInv'
<1>1. /\ InLoop /\ More /\ Valid /\ Handler.type # Top.type
      /\ Enter(ThrowFrame) /\ UNCHANGED <<attentive, vec, disturbed>> /\ budget' = budget
      /\ mode = "run" /\ stack # <<>>
  BY DEF Mismatch, InLoop
<1>2. budget' \in 0..budget
  BY <1>1 DEF EvInv, Typed
<1>3. Top = stack[1] /\ Top \in Frames /\ (Top.thrower => Top.type = "exception")
  BY <1>1, TopFrame DEF FrameOK
<1>4. Top.at \in 1..Len(Top.due) /\ Handler = Top.due[Top.at]
  BY <1>1, NextHandler
<1>5. stack[1].thrower => Misfit(stack[1])
  <2>1. DOMAIN Top.due = 1..Len(Top.due)
    BY <1>3 DEF Frames
  <2> QED
    BY <1>1, <1>3, <1>4, <2>1 DEF Misfit
<1> QED
  BY <1>1, <1>2, <1>5, ThrowFrameOK, EnterOK

LEMMA ThrowOK ==
    ASSUME EvInv, Throw
    PROVE  EvInv'
<1>1. /\ mode' = "unwind" /\ UNCHANGED <<attentive, vec, disturbed>> /\ stack' = stack
  BY DEF Throw
<1>2. /\ stack \in Seq(Frames) /\ Len(stack) <= StackLimit /\ budget \in 0..MaxCalls /\ Depth(stack, budget)
      /\ FramesOK(stack, attentive, vec, disturbed)
  BY DEF EvInv, Typed
<1>3. budget' \in 0..budget
  BY SpendFacts DEF Throw
<1>4. Depth(stack', budget')
  BY <1>1, <1>2, <1>3, SpendDepth
<1>5. FailuresHaveCauses'
  BY <1>1 DEF FailuresHaveCauses
<1> QED
  BY <1>1, <1>2, <1>3, <1>4, <1>5, Kept

(* The frame on top takes a step.                                          *)
LEMMA SetTopOK ==
    ASSUME EvInv, stack # <<>>, mode = "run", NEW g \in Frames, FrameOK(g, attentive, vec, disturbed),
           g.thrower = Top.thrower, g.due = Top.due, SetTop(g),
           UNCHANGED <<attentive, vec, mode, budget, disturbed>>
    PROVE  EvInv'
<1>1. /\ stack \in Seq(Frames) /\ Len(stack) <= StackLimit /\ budget \in 0..MaxCalls /\ Depth(stack, budget)
      /\ FramesOK(stack, attentive, vec, disturbed)
  BY DEF EvInv, Typed
<1>2. stack' = [stack EXCEPT ![1] = g] /\ Top = stack[1]
  BY DEF SetTop, Top
<1>3. stack' \in Seq(Frames) /\ Len(stack') = Len(stack)
  BY <1>1, <1>2, Replaced
<1>4. FramesOK(stack', attentive, vec, disturbed)
  BY <1>1, <1>2, ReplaceOK
<1>5. Depth(stack', budget')
  BY <1>1, <1>2, ReplaceDepth
<1>6. FailuresHaveCauses' /\ budget' \in 0..budget
  BY <1>1 DEF FailuresHaveCauses
<1>7. Len(stack') <= StackLimit /\ mode' \in {"run", "unwind", "terminated", "undefined", "overflow"}
  BY <1>1, <1>3
<1> QED
  BY <1>3, <1>4, <1>5, <1>6, <1>7, Kept

LEMMA CallNextOK ==
    ASSUME EvInv, CallNext
    PROVE  EvInv'
<1> DEFINE m == Moves(Handler)
           g == CalledBy(Top, Handler, m)
<1>1. /\ InLoop /\ More /\ Valid /\ SetTop(g) /\ UNCHANGED <<attentive, vec, mode, budget, disturbed>>
      /\ mode = "run" /\ stack # <<>> /\ ~Top.running
  BY DEF CallNext, InLoop, CalledBy
<1>2. Top \in Frames /\ FrameOK(Top, attentive, vec, disturbed) /\ attentive \in BOOLEAN
  BY <1>1, TopFrame DEF EvInv, Typed
<1>3. Top.at \in 1..Len(Top.due) /\ Handler = Top.due[Top.at]
  BY <1>1, NextHandler
<1>4. m \in BOOLEAN /\ (m <=> ~attentive /\ (Top.rvalue \/ Handler.byValue))
  BY DEF Moves
<1> HIDE DEF m
<1>5. g \in Frames /\ FrameOK(g, attentive, vec, disturbed) /\ g.thrower = Top.thrower /\ g.due = Top.due
  BY <1>1, <1>2, <1>3, <1>4, Called
<1> HIDE DEF g
<1> QED
  BY <1>1, <1>5, SetTopOK

LEMMA HandlerReturnsOK ==
    ASSUME EvInv, HandlerReturns
    PROVE  EvInv'
<1> DEFINE g == [Top EXCEPT !.running = FALSE, !.at = @ + 1]
<1>1. /\ mode = "run" /\ stack # <<>> /\ Top.running /\ SetTop(g)
      /\ UNCHANGED <<attentive, vec, mode, budget, disturbed>>
  BY DEF HandlerReturns
<1>2. Top \in Frames /\ FrameOK(Top, attentive, vec, disturbed)
  BY <1>1, TopFrame
<1>3. g \in Frames /\ FrameOK(g, attentive, vec, disturbed) /\ g.thrower = Top.thrower /\ g.due = Top.due
  BY <1>1, <1>2, Returned
<1> HIDE DEF g
<1> QED
  BY <1>1, <1>3, SetTopOK

LEMMA DanglingOK ==
    ASSUME EvInv, Dangling
    PROVE  EvInv'
<1>1. /\ mode' = "undefined" /\ UNCHANGED <<attentive, vec, stack, budget, disturbed>> /\ stack # <<>>
      /\ ~Valid
  BY DEF Dangling, InLoop
<1>2. /\ stack \in Seq(Frames) /\ Len(stack) <= StackLimit /\ budget \in 0..MaxCalls /\ Depth(stack, budget)
      /\ FramesOK(stack, attentive, vec, disturbed)
  BY DEF EvInv, Typed
<1>3. Top.event \in disturbed
  BY <1>1, TopFrame DEF FrameOK, Current, Valid
<1>4. FailuresHaveCauses'
  <2>1. Top' = Top
    BY <1>1 DEF Top
  <2> QED
    BY <1>1, <1>3, <2>1 DEF FailuresHaveCauses
<1>5. budget' \in 0..budget
  BY <1>1, <1>2
<1> QED
  BY <1>1, <1>2, <1>4, <1>5, Kept

(* A frame ends, or all of them stay.                                      *)
LEMMA PopTopOK ==
    ASSUME EvInv, UNCHANGED <<attentive, vec, budget, disturbed>>,
           stack' = stack \/ (stack # <<>> /\ stack' = Tail(stack)),
           mode' \in {"run", "unwind"} \/ (mode' = "terminated" /\ attentive)
    PROVE  EvInv'
<1>1. /\ stack \in Seq(Frames) /\ Len(stack) <= StackLimit /\ budget \in 0..MaxCalls /\ Depth(stack, budget)
      /\ FramesOK(stack, attentive, vec, disturbed) /\ StackLimit \in Nat
  BY EmitterAssumption DEF EvInv, Typed
<1>2. FailuresHaveCauses'
  BY DEF FailuresHaveCauses
<1>3. budget' \in 0..budget /\ budget' = budget
  BY <1>1
<1>4. mode' \in {"run", "unwind", "terminated", "undefined", "overflow"}
  OBVIOUS
<1>5. CASE stack' = stack
  <2>1. stack' \in Seq(Frames) /\ Len(stack') <= StackLimit
        /\ FramesOK(stack', attentive, vec, disturbed) /\ Depth(stack', budget')
    BY <1>1, <1>3, <1>5
  <2> QED
    BY <1>2, <1>3, <1>4, <2>1, Kept
<1>6. CASE stack # <<>> /\ stack' = Tail(stack)
  <2>1. stack' \in Seq(Frames) /\ Len(stack') + 1 = Len(stack)
    BY <1>1, <1>6, Popped
  <2>2. FramesOK(stack', attentive, vec, disturbed)
    BY <1>1, <1>6, PopOK
  <2>3. Depth(stack', budget')
    BY <1>1, <1>3, <1>6, PopDepth
  <2>4. Len(stack') <= StackLimit
    <3>1. Len(stack') \in Nat /\ Len(stack) \in Nat
      BY <1>1, <2>1, LenProperties
    <3> QED
      BY <1>1, <2>1, <3>1
  <2> QED
    BY <1>2, <1>3, <1>4, <2>1, <2>2, <2>3, <2>4, Kept
<1> QED
  BY <1>5, <1>6

LEMMA LoopEndsOK ==
    ASSUME EvInv, LoopEnds
    PROVE  EvInv'
BY PopTopOK DEF LoopEnds, Pop, InLoop

LEMMA UnwindOK ==
    ASSUME EvInv, Unwind
    PROVE  EvInv'
BY PopTopOK DEF Unwind, Pop, Noexcept

--------------------------------------------------------------------------------
(* Steps that change a vector: the frames of its event see it, unless the  *)
(* buffer is still the same, with one handler more at its end.             *)
LEMMA PaidFor ==
    ASSUME NEW m \in Nat, NEW b \in Nat, NEW c \in Nat, c + 1 = b
    PROVE  \A old, new \in Nat : new <= old + 1 /\ old + b <= m => new + c <= m
OBVIOUS

LEMMA Changed ==
    ASSUME EvInv, UNCHANGED <<attentive, stack, mode>>, mode = "run", Spend,
           NEW e \in Events, NEW bf \in {vec[e].buffer, vec[e].buffer + 1}, NEW hs \in Seq(Handlers),
           vec' = [vec EXCEPT ![e] = [buffer |-> bf, handlers |-> hs]],
           disturbed' = (IF Emitting(e) THEN disturbed \cup {e} ELSE disturbed),
           Len(hs) <= Len(vec[e].handlers) + 1,
           bf = vec[e].buffer =>
               /\ Len(vec[e].handlers) <= Len(hs)
               /\ \A i \in 1..Len(vec[e].handlers) : hs[i] = vec[e].handlers[i]
    PROVE  EvInv'
<1>1. /\ budget \in 0..MaxCalls /\ budget' \in 0..budget /\ budget' + 1 = budget /\ MaxCalls \in Nat
  BY SpendFacts
<1>2. /\ vec \in Vectors /\ disturbed \subseteq Events /\ stack \in Seq(Frames)
      /\ FramesOK(stack, attentive, vec, disturbed) /\ Depth(stack, budget)
      /\ attentive \in BOOLEAN /\ Len(stack) <= StackLimit
  BY DEF EvInv, Typed
<1> DEFINE b0 == vec[e].buffer
           h0 == vec[e].handlers
<1>3. b0 \in Nat /\ h0 \in Seq(Handlers) /\ Len(h0) \in Nat /\ Len(hs) \in Nat
  BY <1>2 DEF Vectors
<1>4. /\ vec'[e].buffer = bf /\ vec'[e].handlers = hs
      /\ \A x \in Events \ {e} : vec'[x] = vec[x]
  BY <1>2 DEF Vectors
<1>5. vec' \in Vectors
  <2>1. bf \in Nat
    BY <1>3
  <2> QED
    BY <1>2, <2>1 DEF Vectors
<1>6. Paid(vec', budget')
  <2>1. ASSUME NEW x \in Events PROVE vec'[x].buffer + budget' <= MaxCalls /\ Len(vec'[x].handlers) + budget' <= MaxCalls
    <3>1. vec[x].buffer + budget <= MaxCalls /\ Len(vec[x].handlers) + budget <= MaxCalls
      BY DEF EvInv, Paid
    <3>2. vec[x].buffer \in Nat /\ Len(vec[x].handlers) \in Nat
      BY <1>2 DEF Vectors
    <3>3. CASE x = e
      <4>1. b0 + budget <= MaxCalls /\ Len(h0) + budget <= MaxCalls
        BY <3>1, <3>3
      <4> HIDE DEF b0, h0
      <4>2. bf <= b0 + 1 /\ bf \in Nat /\ Len(hs) <= Len(h0) + 1
        BY <1>3 DEF b0, h0
      <4>3. bf + budget' <= MaxCalls /\ Len(hs) + budget' <= MaxCalls
        <5> DEFINE m == Len(h0)
                   n == Len(hs)
                   b == budget
                   c == budget'
        <5>1. /\ b0 \in Nat /\ bf \in Nat /\ m \in Nat /\ n \in Nat /\ b \in Nat /\ c \in Nat /\ c + 1 = b
              /\ b0 + b <= MaxCalls /\ m + b <= MaxCalls /\ bf <= b0 + 1 /\ n <= m + 1
          BY Zenon, <1>1, <1>3, <4>1, <4>2, SpendFacts
        <5> HIDE DEF m, n, b, c
        <5>2. bf + c <= MaxCalls /\ n + c <= MaxCalls
          BY <1>1, <5>1, PaidFor
        <5> QED
          BY <5>2 DEF n, c
      <4> QED
        BY <1>4, <3>3, <4>3
    <3>4. CASE x # e
      <4>1. vec'[x] = vec[x]
        BY <1>4, <3>4
      <4> QED
        BY SMTT(60), <1>1, <3>1, <3>2, <4>1
    <3> QED
      BY <3>3, <3>4
  <2> QED
    BY <2>1 DEF Paid
<1>7. ASSUME NEW k \in 1..Len(stack) PROVE FrameOK(stack[k], attentive, vec', disturbed')
  <2> DEFINE f == stack[k]
  <2>1. f \in Frames /\ FrameOK(f, attentive, vec, disturbed)
    BY <1>2, ElementOfSeq DEF FramesOK
  <2>2. f.event \in Events /\ f.buffer \in Nat /\ Len(f.due) \in Nat
    BY <2>1 DEF Frames
  <2>3. disturbed \subseteq disturbed' /\ (f.event = e => e \in disturbed')
    <3>1. k \in DOMAIN stack
      BY <1>2
    <3>2. f.event = e => Emitting(e)
      BY <3>1 DEF Emitting
    <3> QED
      BY <3>2
  <2> HIDE DEF f
  <2>4. Current(f, vec, disturbed)
    BY <2>1 DEF FrameOK
  <2>5. CASE f.event # e
    <3>1. vec'[f.event] = vec[f.event]
      BY <1>4, <2>2, <2>5
    <3>2. Current(f, vec', disturbed')
      BY <2>3, <2>4, <3>1 DEF Current
    <3> QED
      BY <2>1, <3>2 DEF FrameOK, f
  <2>6. CASE f.event = e
    <3>1. /\ f.buffer <= b0 /\ (f.buffer = b0 => Len(f.due) <= Len(h0) /\ \A i \in 1..Len(f.due) : h0[i] = f.due[i])
      BY <2>4, <2>6 DEF Current
    <3>2. e \in disturbed'
      BY <2>3, <2>6
    <3>3. bf = b0 => Len(h0) <= Len(hs) /\ \A i \in 1..Len(h0) : hs[i] = h0[i]
      OBVIOUS
    <3>4. bf = b0 \/ bf = b0 + 1
      OBVIOUS
    <3> HIDE DEF b0, h0
    <3>5. f.buffer <= bf /\ (f.buffer = bf => bf = b0)
      BY <1>3, <2>2, <3>1, <3>4
    <3>6. f.buffer = bf => Len(f.due) <= Len(hs) /\ \A i \in 1..Len(f.due) : hs[i] = f.due[i]
      <4> HAVE f.buffer = bf
      <4>1. f.buffer = b0 /\ bf = b0
        BY <3>5
      <4>2. Len(f.due) <= Len(h0) /\ Len(h0) <= Len(hs)
        BY <3>1, <3>3, <4>1
      <4>3. \A i \in 1..Len(f.due) : i \in 1..Len(h0)
        BY <1>3, <2>2, <4>2
      <4> QED
        BY <1>3, <2>2, <3>1, <3>3, <4>1, <4>2, <4>3
    <3>7. Current(f, vec', disturbed')
      BY <1>4, <2>6, <3>2, <3>5, <3>6 DEF Current
    <3> QED
      BY <2>1, <3>7 DEF FrameOK, f
  <2> QED
    BY <2>5, <2>6
<1>8. FramesOK(stack', attentive', vec', disturbed')
  BY <1>7 DEF FramesOK
<1>9. Depth(stack', budget')
  BY <1>1, <1>2, SpendDepth
<1>10. FailuresHaveCauses'
  BY DEF FailuresHaveCauses
<1>11. Typed'
  <2>1. budget' \in 0..MaxCalls /\ disturbed' \subseteq Events
    BY <1>1, <1>2
  <2>2. vec' \in Vectors' /\ stack' \in Seq(Frames')
    BY <1>2, <1>5 DEF Vectors, Frames, Handlers, Calls
  <2> QED
    BY <1>2, <2>1, <2>2 DEF Typed
<1> QED
  BY <1>6, <1>8, <1>9, <1>10, <1>11 DEF EvInv

LEMMA OnOK ==
    ASSUME EvInv, NEW e \in Events, NEW sig \in Signatures, On(e, sig)
    PROVE  EvInv'
<1> DEFINE new == [id |-> budget, type |-> sig.type, byValue |-> sig.byValue]
           h0 == vec[e].handlers
           hs == Append(h0, new)
<1>1. /\ mode = "run" /\ Spend /\ UNCHANGED <<attentive, stack, mode>>
      /\ disturbed' = IF Emitting(e) THEN disturbed \cup {e} ELSE disturbed
  BY DEF On, UserRuns
<1>2. budget \in Nat /\ vec \in Vectors
  BY SpendFacts, <1>1 DEF EvInv, Typed
<1>3. new \in Handlers
  BY <1>2, EmitterAssumption DEF Handlers
<1>4. h0 \in Seq(Handlers)
  BY <1>2 DEF Vectors
<1> HIDE DEF new
<1>5. /\ hs \in Seq(Handlers) /\ Len(hs) = Len(h0) + 1
      /\ \A i \in 1..Len(h0) : hs[i] = h0[i]
  BY <1>3, <1>4, AppendProperties
<1>6. PICK bf \in {vec[e].buffer, vec[e].buffer + 1} :
          vec' = [vec EXCEPT ![e] = [buffer |-> bf, handlers |-> hs]]
  <2>1. PICK bf \in {vec[e].buffer, vec[e].buffer + 1} :
            vec' = [vec EXCEPT ![e] = [buffer |-> bf, handlers |-> Append(@.handlers, new)]]
    BY DEF On, new
  <2>2. [vec EXCEPT ![e] = [buffer |-> bf, handlers |-> Append(@.handlers, new)]] =
            [vec EXCEPT ![e] = [buffer |-> bf, handlers |-> hs]]
    OBVIOUS
  <2> QED
    BY <2>1, <2>2
<1>7. Len(hs) <= Len(h0) + 1 /\ Len(h0) <= Len(hs)
  <2>1. Len(h0) \in Nat
    BY <1>4, LenProperties
  <2> QED
    BY <1>5, <2>1
<1> HIDE DEF hs
<1> QED
  BY <1>1, <1>5, <1>6, <1>7, Changed

LEMMA UnregisterEventOK ==
    ASSUME EvInv, NEW e \in Events, UnregisterEvent(e)
    PROVE  EvInv'
<1> DEFINE bf == vec[e].buffer + 1
           hs == <<>>
<1>1. /\ mode = "run" /\ Spend /\ UNCHANGED <<attentive, stack, mode>>
      /\ disturbed' = (IF Emitting(e) THEN disturbed \cup {e} ELSE disturbed)
      /\ vec' = [vec EXCEPT ![e] = [buffer |-> bf, handlers |-> hs]]
  BY DEF UnregisterEvent, UserRuns
<1>2. vec[e].buffer \in Nat /\ Len(vec[e].handlers) \in Nat
  BY DEF EvInv, Typed, Vectors
<1>3. hs \in Seq(Handlers) /\ Len(hs) <= Len(vec[e].handlers) + 1
  BY <1>2
<1>4. bf \in {vec[e].buffer, vec[e].buffer + 1} /\ bf # vec[e].buffer
  BY <1>2
<1> HIDE DEF bf, hs
<1> QED
  BY <1>1, <1>3, <1>4, Changed

LEMMA EvInitOK ==
    ASSUME EvInit
    PROVE  EvInv
<1>1. MaxCalls \in Nat /\ StackLimit \in Nat
  BY EmitterAssumption
<1>2. Typed
  <2>1. vec \in Vectors
    BY DEF EvInit, Vectors
  <2>2. stack \in Seq(Frames) /\ Len(stack) = 0
    BY DEF EvInit
  <2>3. budget \in 0..MaxCalls
    BY <1>1 DEF EvInit
  <2> QED
    BY <1>1, <2>1, <2>2, <2>3 DEF EvInit, Typed
<1>3. Paid(vec, budget)
  BY <1>1 DEF EvInit, Paid
<1>4. FramesOK(stack, attentive, vec, disturbed) /\ Depth(stack, budget)
  <2>1. Len(stack) = 0
    BY DEF EvInit
  <2> QED
    BY <2>1 DEF FramesOK, Depth
<1>5. FailuresHaveCauses
  BY DEF EvInit, FailuresHaveCauses
<1> QED
  BY <1>2, <1>3, <1>4, <1>5 DEF EvInv

LEMMA EvStutters ==
    ASSUME EvInv, UNCHANGED evVars
    PROVE  EvInv'
<1>1. UNCHANGED <<attentive, vec, stack, mode, budget, disturbed>>
  BY DEF evVars
<1>2. /\ stack \in Seq(Frames) /\ Len(stack) <= StackLimit /\ budget \in 0..MaxCalls /\ Depth(stack, budget)
      /\ FramesOK(stack, attentive, vec, disturbed)
      /\ mode \in {"run", "unwind", "terminated", "undefined", "overflow"}
      /\ FailuresHaveCauses
  BY DEF EvInv, Typed
<1>3. FailuresHaveCauses'
  BY <1>1, <1>2 DEF FailuresHaveCauses, Top
<1>4. budget' \in 0..budget
  BY <1>1, <1>2
<1> QED
  BY <1>1, <1>2, <1>3, <1>4, Kept

--------------------------------------------------------------------------------
(* The inductive invariant: every frame has called the first of its        *)
(* handlers, knows whether its argument is whole and whether its buffer    *)
(* lives, and the stack is no deeper than the calls made can explain.      *)
THEOREM EmitterInvariant == EvSpec => []EvInv
<1>1. EvInit => EvInv
  BY EvInitOK
<1>2. EvInv /\ [EvNext]_evVars => EvInv'
  <2> SUFFICES ASSUME EvInv, [EvNext]_evVars PROVE EvInv'
    OBVIOUS
  <2>1. ASSUME NEW e \in Events, NEW sig \in Signatures, On(e, sig) PROVE EvInv'
    BY <2>1, OnOK
  <2>2. ASSUME NEW e \in Events, NEW type \in ArgTypes, NEW rvalue \in BOOLEAN, Emit(e, type, rvalue)
        PROVE  EvInv'
    BY <2>2, EmitOK
  <2>3. ASSUME NEW e \in Events, UnregisterEvent(e) PROVE EvInv'
    BY <2>3, UnregisterEventOK
  <2>4. CASE ThrowEx
    BY <2>4, ThrowExOK
  <2>5. CASE Throw
    BY <2>5, ThrowOK
  <2>6. CASE CallNext
    BY <2>6, CallNextOK
  <2>7. CASE Mismatch
    BY <2>7, MismatchOK
  <2>8. CASE Dangling
    BY <2>8, DanglingOK
  <2>9. CASE LoopEnds
    BY <2>9, LoopEndsOK
  <2>10. CASE HandlerReturns
    BY <2>10, HandlerReturnsOK
  <2>11. CASE Unwind
    BY <2>11, UnwindOK
  <2>12. CASE UNCHANGED evVars
    BY <2>12, EvStutters
  <2> QED
    BY <2>1, <2>2, <2>3, <2>4, <2>5, <2>6, <2>7, <2>8, <2>9, <2>10, <2>11, <2>12 DEF EvNext
<1> QED
  BY <1>1, <1>2, PTL DEF EvSpec

(* Buffers, handlers and the stack stay within what the calls pay for.     *)
THEOREM EmitterTypeCorrect == EvSpec => []EvTypeOK
<1>1. EvInv => EvTypeOK
  <2> SUFFICES ASSUME EvInv PROVE EvTypeOK
    OBVIOUS
  <2>1. ASSUME NEW e \in Events PROVE vec[e].buffer \in 0..MaxCalls /\ Len(vec[e].handlers) <= MaxCalls
    <3> DEFINE b == vec[e].buffer
               n == Len(vec[e].handlers)
    <3>1. b \in Nat /\ n \in Nat
      BY DEF EvInv, Typed, Vectors
    <3>2. b + budget <= MaxCalls /\ n + budget <= MaxCalls
      BY DEF EvInv, Paid
    <3>3. MaxCalls \in Nat /\ budget \in 0..MaxCalls
      BY EmitterAssumption DEF EvInv, Typed
    <3> HIDE DEF b, n
    <3>4. b \in 0..MaxCalls /\ n <= MaxCalls
      BY <3>1, <3>2, <3>3
    <3> QED
      BY <3>4 DEF b, n
  <2> QED
    BY <2>1 DEF EvInv, Typed, EvTypeOK
<1> QED
  BY <1>1, EmitterInvariant, PTL

(* An emit calls the handlers registered when it began, in order and each  *)
(* once, whatever its handlers do to the emitter meanwhile.                *)
THEOREM DeliversInOrderAlways == EvSpec => []DeliversInOrder
<1>1. EvInv => DeliversInOrder
  <2> SUFFICES ASSUME EvInv, NEW k \in DOMAIN stack,
                      NEW f, f = stack[k], NEW c, c = [i \in DOMAIN f.got |-> f.got[i].handler]
               PROVE  IsPrefix(c, f.due) /\ Len(c) = IF f.running THEN f.at ELSE f.at - 1
    BY DEF DeliversInOrder
  <2>1. f \in Frames /\ Delivered(f)
    <3>1. stack \in Seq(Frames) /\ FramesOK(stack, attentive, vec, disturbed)
      BY DEF EvInv, Typed
    <3>2. k \in 1..Len(stack)
      BY <3>1
    <3> QED
      BY <3>1, <3>2, ElementOfSeq DEF FramesOK, FrameOK
  <2>2. /\ f.got \in Seq(Calls) /\ f.due \in Seq(Handlers) /\ f.size \in Nat
        /\ Len(f.got) \in Nat /\ Len(f.due) \in Nat /\ DOMAIN f.got = 1..Len(f.got)
    BY <2>1 DEF Frames
  <2> DEFINE n == Len(f.got)
             d == f.due
  <2>3. n <= Len(d) /\ \A i \in 1..n : f.got[i].handler = d[i]
    BY <2>1 DEF Delivered
  <2>4. c = [i \in 1..n |-> d[i]]
    <3>1. c = [i \in 1..n |-> f.got[i].handler]
      BY <2>2
    <3> QED
      BY <2>3, <3>1
  <2> HIDE DEF n, d
  <2>5. n \in Nat /\ d \in Seq(Handlers) /\ Len(d) \in Nat /\ \A i \in 1..n : d[i] \in Handlers
    <3>1. n \in Nat /\ d \in Seq(Handlers) /\ Len(d) \in Nat
      BY <2>2 DEF n, d
    <3>2. \A i \in 1..n : i \in 1..Len(d)
      BY <2>3, <3>1
    <3> QED
      BY <3>1, <3>2, ElementOfSeq
  <2>6. c \in Seq(Handlers) /\ Len(c) = n /\ \A i \in 1..n : c[i] = d[i]
    BY <2>4, <2>5
  <2>7. SubSeq(c, 1, n) = c
    BY <2>6, SubSeqFull
  <2>8. SubSeq(d, 1, n) = c
    <3>1. /\ SubSeq(d, 1, n) \in Seq(Handlers)
          /\ Len(SubSeq(d, 1, n)) = IF 1 <= n THEN n - 1 + 1 ELSE 0
          /\ \A i \in 1..(n - 1 + 1) : SubSeq(d, 1, n)[i] = d[1 + i - 1]
      <4>1. 1 \in Int /\ n \in Int /\ \A i \in 1..n : d[i] \in Handlers
        BY <2>5
      <4> QED
        BY <4>1, SubSeqProperties
    <3>2. n - 1 + 1 = n /\ (1 <= n \/ n = 0) /\ \A i \in 1..n : 1 + i - 1 = i
      BY <2>5
    <3>3. Len(SubSeq(d, 1, n)) = n /\ \A i \in 1..n : SubSeq(d, 1, n)[i] = c[i]
      <4> DEFINE s == SubSeq(d, 1, n)
      <4>1. /\ Len(s) = (IF 1 <= n THEN n - 1 + 1 ELSE 0)
            /\ \A i \in 1..(n - 1 + 1) : s[i] = d[1 + i - 1]
        BY <3>1
      <4> HIDE DEF s
      <4>2. Len(s) = n
        BY <3>2, <4>1
      <4>3. ASSUME NEW i \in 1..n PROVE s[i] = c[i]
        <5>1. i \in 1..(n - 1 + 1) /\ 1 + i - 1 = i
          BY <3>2
        <5>2. s[i] = d[i]
          BY <4>1, <5>1
        <5> QED
          BY <2>6, <5>2
      <4> QED
        BY <4>2, <4>3 DEF s
    <3> DEFINE s == SubSeq(d, 1, n)
    <3>4. s \in Seq(Handlers) /\ Len(s) = n /\ \A i \in 1..n : s[i] = c[i]
      BY <3>1, <3>3
    <3> HIDE DEF s
    <3>5. c \in Seq(Handlers) /\ Len(s) = Len(c) /\ \A i \in 1..Len(s) : s[i] = c[i]
      BY <2>6, <3>4
    <3>6. s = c
      BY <3>4, <3>5, SeqEqual
    <3> QED
      BY <3>6 DEF s
  <2>9. IsPrefix(c, d)
    BY <2>3, <2>6, <2>7, <2>8 DEF IsPrefix
  <2>10. n = IF f.running THEN f.at ELSE f.at - 1
    BY <2>1 DEF Delivered, n
  <2> QED
    BY <2>6, <2>9, <2>10 DEF d
<1> QED
  BY <1>1, EmitterInvariant, PTL

(* A handler gets the argument as the caller gave it, unless the fast      *)
(* emitter has forwarded it to an earlier one.                             *)
THEOREM ArgumentsWholeAlways == EvSpec => []ArgumentsWhole
<1>1. EvInv => ArgumentsWhole
  <2> SUFFICES ASSUME EvInv, NEW k \in DOMAIN stack, NEW i \in DOMAIN stack[k].got
               PROVE  stack[k].got[i].whole <=>
                          \/ attentive
                          \/ (stack[k].rvalue => i = 1) /\ \A j \in 1..(i - 1) : ~stack[k].due[j].byValue
    BY DEF ArgumentsWhole
  <2>1. stack \in Seq(Frames) /\ FramesOK(stack, attentive, vec, disturbed)
    BY DEF EvInv, Typed
  <2>2. k \in 1..Len(stack)
    BY <2>1
  <2>3. stack[k] \in Frames /\ Whole(stack[k], attentive)
    BY <2>1, <2>2, ElementOfSeq DEF FramesOK, FrameOK
  <2>4. i \in 1..Len(stack[k].got)
    BY <2>3 DEF Frames
  <2> QED
    BY <2>3, <2>4 DEF Whole, WholeBefore
<1> QED
  BY <1>1, EmitterInvariant, PTL

(* Undefined behaviour needs an event changed while it is emitted, a stack *)
(* overflow a misfit handler of "throw_ex", termination the attentive one. *)
THEOREM FailuresHaveCausesAlways == EvSpec => []FailuresHaveCauses
<1>1. EvInv => FailuresHaveCauses
  BY DEF EvInv
<1> QED
  BY <1>1, EmitterInvariant, PTL

===============================================================================
