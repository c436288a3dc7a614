-------------------------- MODULE ExecSearchProofs --------------------------
(***************************************************************************)
(* The child's search for its program, for every command line, every PATH  *)
(* and whatever execve answers: which files it tries, with which words,    *)
(* and what the parent learns of it.                                       *)
(***************************************************************************)
EXTENDS ExecSearch, TLAPS, SequenceTheorems

Files == IF cmdline # <<>> /\ cmdline[1] \in Slashed THEN <<"as it is">> ELSE EffectivePathv
Passed(a) == a.answer \in Skipped \cup {"too long"}
ErrnoOf(a) == IF a.answer = "too long" THEN "ENAMETOOLONG" ELSE a.answer
Denied == \E i \in 1..Len(attempts) : attempts[i].answer = "EACCES"

(* The argument vector of child_proc, and the same after a shift.          *)
Vector == cmdline \o <<Null, Null>>
ShellWords(file) == <<Sh, file>> \o Tail(cmdline)

(* The attempts so far follow the list of files.                           *)
Tries ==
    /\ Len(attempts) <= Len(Files)
    /\ \A i \in 1..Len(attempts) :
          /\ attempts[i].dir = Files[i]
          /\ attempts[i].argv = IF attempts[i].shell THEN ShellWords(Files[i]) ELSE cmdline

AllPassed == \A i \in 1..Len(attempts) : Passed(attempts[i])
AllButLastPassed == \A i \in 1..Len(attempts) - 1 : Passed(attempts[i])

Idle ==
    /\ child \in {"none", "execvpe"} =>
          /\ dirs = <<>> /\ attempts = <<>>
          /\ errno = "none" /\ sticky = "none" /\ told = "nothing"
    /\ child = "none" => argv = <<>>
    /\ child = "execvpe" => argv = Vector

(* Between two attempts the rest of the list is still to be tried, all     *)
(* before failed, and sticky remembers a refusal.                          *)
Searching ==
    child \in {"search", "shell"} =>
        /\ cmdline # <<>> /\ cmdline[1] # NoWord
        /\ dirs = SubSeq(Files, Len(attempts) + 1, Len(Files))
        /\ AllPassed
        /\ sticky = IF Denied THEN "EACCES" ELSE "none"
        /\ Denied => Files # <<"as it is">>
        /\ told = "nothing"
        /\ child = "search" =>
              /\ argv = Vector
              /\ errno = IF attempts = <<>> THEN "none" ELSE ErrnoOf(attempts[Len(attempts)])
        /\ child = "shell" =>
              /\ dirs # <<>> /\ errno = "ENOEXEC"
              /\ argv = ShellWords(Head(dirs)) \o <<Null>>

Over ==
    /\ child = "running" =>
          /\ attempts # <<>> /\ attempts[Len(attempts)].answer = "done"
          /\ AllButLastPassed /\ told = "started"
    /\ child = "crashed" =>
          /\ AllPassed /\ told = "started"
          /\ cmdline = <<>> \/ errno = "ENOEXEC"
    /\ child = "exited" => cmdline # <<>> /\ told \in Errnos
    /\ child = "exited" /\ cmdline[1] = NoWord => attempts = <<>>
    /\ child = "exited" /\ cmdline[1] # NoWord =>
          /\ attempts # <<>> /\ attempts[Len(attempts)].answer # "done"
          /\ AllButLastPassed
          /\ Passed(attempts[Len(attempts)]) => Len(attempts) = Len(Files)
          /\ told = IF Passed(attempts[Len(attempts)]) /\ Files # <<"as it is">> /\ Denied
                    THEN "EACCES" ELSE ErrnoOf(attempts[Len(attempts)])

Attempts == [dir : {"as it is"} \cup Range(EffectivePathv),
             argv : Seq(Words \cup {Sh, "as it is"} \cup Range(EffectivePathv)),
             answer : Errnos \cup {"done", "too long"}, shell : BOOLEAN]

ExInv ==
    /\ ExTypeOK
    /\ attempts \in Seq(Attempts)
    /\ Tries
    /\ Idle
    /\ Searching
    /\ Over
--------------------------------------------------------------------------------
Dirs == {"as it is"} \cup Range(EffectivePathv)
AllWords == Words \cup {Sh} \cup Dirs

LEMMA OneWord ==
    ASSUME NEW S, NEW x \in S
    PROVE  <<x>> \in Seq(S)
OBVIOUS

LEMMA UpToNext ==
    ASSUME NEW n \in Nat
    PROVE  /\ n + 1 \in 1..(n + 1) /\ (n + 1) - 1 = n
           /\ \A i \in 1..(n + 1) : i \in 1..n \/ i = n + 1
           /\ \A i \in 1..n : i \in 1..(n + 1)
           /\ \A m \in Nat : n + 1 \in 1..m => n + 1 <= m
OBVIOUS

LEMMA OnlyOne ==
    ASSUME NEW n \in Nat, n + 1 \in 1..1
    PROVE  n + 1 = 1
OBVIOUS

LEMMA OneFile ==
    ASSUME NEW x, NEW f, f = <<x>>
    PROVE  Len(f) \in Nat /\ Len(f) # 0
<1>1. Len(<<x>>) = 1
  OBVIOUS
<1>2. 1 \in Nat /\ 1 # 0
  OBVIOUS
<1> QED
  BY Zenon, <1>1, <1>2

LEMMA Appended ==
    ASSUME NEW S, NEW s \in Seq(S), NEW x \in S
    PROVE  /\ Append(s, x) \in Seq(S) /\ Append(s, x) # <<>> /\ Len(Append(s, x)) = Len(s) + 1
           /\ Append(s, x)[Len(s) + 1] = x
BY AppendProperties

LEMMA AppendedBefore ==
    ASSUME NEW S, NEW s \in Seq(S), NEW x \in S, NEW i \in 1..Len(s)
    PROVE  Append(s, x)[i] = s[i]
BY AppendProperties

LEMMA PathFacts ==
    ASSUME path \in PathVars
    PROVE  /\ EffectivePathv \in Seq(Range(EffectivePathv)) /\ EffectivePathv # <<>>
           /\ Null \notin Range(EffectivePathv) /\ "as it is" \notin Range(EffectivePathv)
<1> DEFINE list == IF path = Unset THEN DefaultPath ELSE path
           e == [i \in DOMAIN list |-> IF list[i] = Empty THEN "." ELSE list[i]]
<1>1. /\ list \in Seq(Range(list)) /\ list # <<>>
      /\ Null \notin Range(list) /\ "as it is" \notin Range(list)
      /\ Null # "."
  BY SearchAssumption
<1> HIDE DEF list
<1>2. DOMAIN list = 1..Len(list) /\ Len(list) \in Nat /\ Len(list) # 0
  BY <1>1, LenProperties, EmptySeq
<1>3. \A i \in 1..Len(list) : e[i] # Null /\ e[i] # "as it is"
  BY <1>1, <1>2 DEF Range
<1>4. DOMAIN e = 1..Len(list) /\ e = [i \in 1..Len(list) |-> e[i]] /\ \A i \in 1..Len(list) : e[i] \in Range(e)
  BY <1>2 DEF Range
<1> HIDE DEF e
<1>5. e \in Seq(Range(e)) /\ e # <<>>
  <2> DEFINE R == Range(e)
  <2>1. e \in [1..Len(list) -> R]
    BY <1>4
  <2> HIDE DEF R
  <2>2. e \in Seq(R) /\ Len(e) = Len(list)
    BY <1>2, <2>1
  <2> QED
    BY <1>2, <2>2, EmptySeq DEF R
<1>6. Null \notin Range(e) /\ "as it is" \notin Range(e)
  BY <1>3, <1>4 DEF Range
<1>7. EffectivePathv = e
  BY DEF EffectivePathv, e, list
<1> QED
  BY <1>5, <1>6, <1>7

LEMMA FilesFacts ==
    ASSUME path \in PathVars
    PROVE  /\ Files \in Seq(Dirs) /\ Len(Files) \in Nat /\ Len(Files) # 0
           /\ \A i \in 1..Len(Files) : Files[i] = "as it is" <=> Files = <<"as it is">>
           /\ Null \notin Dirs
           /\ Files = <<"as it is">> => Len(Files) = 1
<1>1. /\ EffectivePathv \in Seq(Range(EffectivePathv)) /\ EffectivePathv # <<>>
      /\ Null \notin Range(EffectivePathv) /\ "as it is" \notin Range(EffectivePathv)
      /\ Null # "as it is"
  BY PathFacts, SearchAssumption
<1>2. CASE Files = <<"as it is">>
  <2>0. Len(Files) = 1
    BY <1>2
  <2>1. Files[1] = "as it is"
    BY <1>2
  <2>2. "as it is" \in Dirs /\ Null \notin Dirs
    BY <1>1 DEF Dirs
  <2>3. <<"as it is">> \in Seq(Dirs)
    BY <2>2, OneWord
  <2>4. ASSUME NEW i \in 1..Len(Files) PROVE Files[i] = "as it is"
    <3>1. i = 1
      BY <2>0
    <3> QED
      BY <2>1, <3>1
  <2>5. Files \in Seq(Dirs)
    BY <1>2, <2>3
  <2>6. Len(Files) \in Nat /\ Len(Files) # 0
    BY <2>0
  <2> QED
    BY <1>2, <2>0, <2>2, <2>4, <2>5, <2>6
<1>3. CASE Files = EffectivePathv
  <2>1. \A i \in 1..Len(EffectivePathv) : EffectivePathv[i] \in Range(EffectivePathv)
    BY <1>1, ElementOfSeq
  <2>2. EffectivePathv \in Seq(Dirs)
    BY <1>1, SeqMonotonic DEF Dirs
  <2>3. Len(EffectivePathv) \in Nat /\ Len(EffectivePathv) # 0
    BY <1>1, EmptySeq
  <2>4. EffectivePathv # <<"as it is">>
    <3>1. EffectivePathv[1] \in Range(EffectivePathv)
      <4>1. 1 \in 1..Len(EffectivePathv)
        BY <2>3
      <4> QED
        BY <2>1, <4>1
    <3>2. <<"as it is">>[1] = "as it is"
      OBVIOUS
    <3> QED
      BY <1>1, <3>1, <3>2
  <2> QED
    BY <1>1, <1>3, <2>1, <2>2, <2>3, <2>4 DEF Dirs
<1> QED
  BY <1>2, <1>3 DEF Files

(* execve reads the vector up to the first null.                           *)
LEMMA GivenWords ==
    ASSUME NEW S, Null \notin S, NEW s \in Seq(S), NEW v \in Seq(S \cup {Null}),
           Len(v) > Len(s), \A i \in 1..Len(s) : v[i] = s[i], v[Len(s) + 1] = Null
    PROVE  Given(v) = s
<1>1. /\ Len(s) \in Nat /\ Len(v) \in Nat /\ DOMAIN v = 1..Len(v)
      /\ Len(s) + 1 \in 1..Len(v)
      /\ \A i \in 1..Len(s) : s[i] \in S
  <2>1. Len(s) \in Nat /\ Len(v) \in Nat /\ DOMAIN v = 1..Len(v)
    OBVIOUS
  <2>2. \A i \in 1..Len(s) : s[i] \in S
    BY ElementOfSeq
  <2> QED
    BY <2>1, <2>2
<1> DEFINE P(i) == v[i] = Null /\ \A j \in 1..(i - 1) : v[j] # Null
           end == CHOOSE i \in DOMAIN v : P(i)
<1>2. P(Len(s) + 1)
  BY <1>1
<1>3. end \in DOMAIN v /\ P(end)
  <2>1. \E i \in DOMAIN v : P(i)
    BY <1>1, <1>2
  <2> QED
    BY <2>1
<1>4. end = Len(s) + 1
  <2>1. end \in 1..Len(v)
    BY <1>1, <1>3
  <2> HIDE DEF end
  <2>2. ~(end <= Len(s))
    <3>1. end <= Len(s) => end \in 1..Len(s)
      BY <1>1, <2>1
    <3> QED
      BY <1>1, <1>3, <3>1
  <2>3. ~(end > Len(s) + 1)
    <3>1. end > Len(s) + 1 => Len(s) + 1 \in 1..(end - 1)
      BY <1>1, <2>1
    <3> QED
      BY <1>2, <1>3, <3>1
  <2> QED
    BY <1>1, <2>1, <2>2, <2>3
<1>5. Given(v) = SubSeq(v, 1, Len(s))
  <2>1. Given(v) = SubSeq(v, 1, end - 1)
    BY Zenon DEF Given
  <2>2. end - 1 = Len(s)
    BY SMTT(60), <1>1, <1>4
  <2> QED
    BY <2>1, <2>2
<1>6. SubSeq(v, 1, Len(s)) = s
  <2>1. /\ SubSeq(v, 1, Len(s)) \in Seq(S \cup {Null}) /\ Len(SubSeq(v, 1, Len(s))) = Len(s)
        /\ \A i \in 1..Len(s) : SubSeq(v, 1, Len(s))[i] = v[i]
    BY <1>1
  <2>2. s \in Seq(S \cup {Null})
    BY SeqMonotonic
  <2> QED
    BY <2>1, <2>2, SeqEqual
<1> QED
  BY <1>5, <1>6

--------------------------------------------------------------------------------
(* The shifts of execve_without_shebang.                                   *)
LEMMA VectorShape ==
    ASSUME NEW words \in Seq(Words), words # <<>>, NEW v, v = words \o <<Null, Null>>
    PROVE  /\ v \in Seq(Words \cup {Null}) /\ Len(words) \in Nat \ {0}
           /\ Len(v) = Len(words) + 2
           /\ \A i \in 1..Len(words) : v[i] = words[i]
           /\ v[Len(words) + 1] = Null /\ v[Len(words) + 2] = Null
<1> DEFINE W == Words \cup {Null}
           two == <<Null, Null>>
<1>1. /\ two \in Seq(W) /\ Len(two) = 2 /\ two[1] = Null /\ two[2] = Null
  OBVIOUS
<1>2. words \in Seq(W) /\ Len(words) \in Nat \ {0}
  BY SeqMonotonic, EmptySeq
<1> HIDE DEF W, two
<1>3. /\ words \o two \in Seq(W) /\ Len(words \o two) = Len(words) + 2
      /\ \A i \in 1..Len(words) + 2 : (words \o two)[i] = IF i <= Len(words) THEN words[i] ELSE two[i - Len(words)]
  <2>1. two \in Seq(W) /\ words \in Seq(W)
    BY <1>1, <1>2
  <2>2. /\ words \o two \in Seq(W) /\ Len(words \o two) = Len(words) + Len(two)
        /\ \A i \in 1..Len(words) + Len(two) : (words \o two)[i] = IF i <= Len(words) THEN words[i] ELSE two[i - Len(words)]
    BY <2>1, ConcatProperties
  <2> QED
    BY <1>1, <2>2
<1>4. \A i \in 1..Len(words) : (words \o two)[i] = words[i]
  BY <1>2, <1>3
<1>5. (words \o two)[Len(words) + 1] = two[1] /\ (words \o two)[Len(words) + 2] = two[2]
  BY <1>2, <1>3
<1> QED
  BY <1>1, <1>2, <1>3, <1>4, <1>5 DEF two, W

LEMMA ShellShape ==
    ASSUME NEW words \in Seq(Words), words # <<>>, NEW S, Words \cup {Sh} \subseteq S, NEW f \in S
    PROVE  /\ <<Sh, f>> \o Tail(words) \in Seq(S)
           /\ Len(<<Sh, f>> \o Tail(words)) = Len(words) + 1
           /\ (<<Sh, f>> \o Tail(words))[1] = Sh /\ (<<Sh, f>> \o Tail(words))[2] = f
           /\ \A i \in 3..(Len(words) + 1) : (<<Sh, f>> \o Tail(words))[i] = words[i - 1]
<1> DEFINE t == Tail(words)
           h == <<Sh, f>>
<1>1. /\ h \in Seq(S) /\ Len(h) = 2 /\ h[1] = Sh /\ h[2] = f
  OBVIOUS
<1>2. /\ t \in Seq(Words) /\ Len(t) = Len(words) - 1 /\ Len(words) \in Nat \ {0}
      /\ \A i \in 1..Len(t) : t[i] = words[i + 1]
  BY HeadTailProperties, EmptySeq
<1> HIDE DEF t, h
<1>3. t \in Seq(S)
  BY <1>2, SeqMonotonic
<1>4. /\ h \o t \in Seq(S) /\ Len(h \o t) = Len(h) + Len(t)
      /\ \A i \in 1..(Len(h) + Len(t)) : (h \o t)[i] = IF i <= Len(h) THEN h[i] ELSE t[i - Len(h)]
  BY <1>1, <1>3, ConcatProperties
<1>5. (h \o t)[1] = Sh /\ (h \o t)[2] = f
  BY <1>1, <1>2, <1>4
<1>6. ASSUME NEW i \in 3..(Len(words) + 1) PROVE (h \o t)[i] = words[i - 1]
  <2>1. (h \o t)[i] = t[i - 2]
    BY <1>1, <1>2, <1>4
  <2>2. i - 2 \in 1..Len(t) /\ (i - 2) + 1 = i - 1
    BY <1>2
  <2> QED
    BY <1>2, <2>1, <2>2
<1> QED
  BY <1>1, <1>2, <1>4, <1>5, <1>6 DEF t, h

(* <<Sh, f>> before the words from the second on, up to the first null.    *)
LEMMA ShiftForShell ==
    ASSUME NEW words \in Seq(Words), words # <<>>, NEW S, Words \cup {Sh} \subseteq S, NEW f \in S,
           NEW v, v = words \o <<Null, Null>>
    PROVE  <<Sh, f>> \o SubSeq(v, 2, Len(v) - 1) = (<<Sh, f>> \o Tail(words)) \o <<Null>>
<1> DEFINE T == S \cup {Null}
           t == Tail(words)
           h == <<Sh, f>>
           e == <<Null>>
           rest == SubSeq(v, 2, Len(v) - 1)
<1>1. /\ h \in Seq(T) /\ e \in Seq(T) /\ Len(e) = 1 /\ e[1] = Null
  OBVIOUS
<1>2. /\ v \in Seq(T) /\ Len(words) \in Nat \ {0} /\ Len(v) = Len(words) + 2
      /\ \A i \in 1..Len(words) : v[i] = words[i]
      /\ v[Len(words) + 1] = Null
  <2>1. /\ v \in Seq(Words \cup {Null}) /\ Len(words) \in Nat \ {0} /\ Len(v) = Len(words) + 2
        /\ \A i \in 1..Len(words) : v[i] = words[i]
        /\ v[Len(words) + 1] = Null
    BY VectorShape
  <2>2. Words \cup {Null} \subseteq T
    OBVIOUS
  <2> QED
    BY <2>1, <2>2, SeqMonotonic
<1>3. /\ t \in Seq(T) /\ Len(t) = Len(words) - 1
      /\ \A i \in 1..Len(t) : t[i] = words[i + 1]
  <2>1. /\ t \in Seq(Words) /\ Len(t) = Len(words) - 1
        /\ \A i \in 1..Len(t) : t[i] = words[i + 1]
    BY HeadTailProperties
  <2>2. Words \subseteq T
    OBVIOUS
  <2> QED
    BY <2>1, <2>2, SeqMonotonic
<1> HIDE DEF T, t, h, e
<1>4. /\ rest \in Seq(T) /\ Len(rest) = Len(words)
      /\ \A i \in 1..Len(words) : rest[i] = v[i + 1]
  <2>1. \A i \in 2..(Len(v) - 1) : v[i] \in T
    <3>1. \A i \in 2..(Len(v) - 1) : i \in 1..Len(v)
      BY <1>2
    <3> QED
      BY <1>2, <3>1, ElementOfSeq
  <2>2. 2 \in Int /\ Len(v) - 1 \in Int
    BY <1>2
  <2>3. /\ rest \in Seq(T) /\ Len(rest) = (IF 2 <= Len(v) - 1 THEN (Len(v) - 1) - 2 + 1 ELSE 0)
        /\ \A i \in 1..((Len(v) - 1) - 2 + 1) : rest[i] = v[2 + i - 1]
    BY <2>1, <2>2, SubSeqProperties
  <2>4. Len(v) - 1 - 2 + 1 = Len(words) /\ 2 <= Len(v) - 1
    BY <1>2
  <2>5. \A i \in 1..Len(words) : 2 + i - 1 = i + 1
    BY <1>2
  <2> QED
    BY <2>3, <2>4, <2>5
<1> HIDE DEF rest
<1>5. /\ t \o e \in Seq(T) /\ Len(t \o e) = Len(words)
      /\ \A i \in 1..Len(words) : (t \o e)[i] = v[i + 1]
  <2>1. /\ t \o e \in Seq(T) /\ Len(t \o e) = Len(t) + Len(e)
        /\ \A i \in 1..(Len(t) + Len(e)) : (t \o e)[i] = IF i <= Len(t) THEN t[i] ELSE e[i - Len(t)]
    <3>1. t \in Seq(T) /\ e \in Seq(T)
      BY <1>1, <1>3
    <3> QED
      BY <3>1, ConcatProperties
  <2>2. ASSUME NEW i \in 1..Len(words) PROVE (t \o e)[i] = v[i + 1]
    <3>1. CASE i < Len(words)
      <4>1. i \in 1..Len(t) /\ i + 1 \in 1..Len(words) /\ i \in 1..(Len(t) + Len(e)) /\ i <= Len(t)
        BY <1>1, <1>2, <1>3, <3>1
      <4>2. (t \o e)[i] = t[i]
        BY <2>1, <4>1
      <4>3. t[i] = words[i + 1]
        BY <1>3, <4>1
      <4>4. words[i + 1] = v[i + 1]
        BY <1>2, <4>1
      <4> QED
        BY <4>2, <4>3, <4>4
    <3>2. CASE i = Len(words)
      <4>1. i \in 1..(Len(t) + Len(e)) /\ ~(i <= Len(t)) /\ i - Len(t) = 1
        BY <1>1, <1>2, <1>3, <3>2
      <4>2. (t \o e)[i] = e[1]
        BY <2>1, <4>1
      <4> QED
        BY <1>1, <1>2, <3>2, <4>2
    <3>3. i < Len(words) \/ i = Len(words)
      <4>1. Len(words) \in Nat
        BY <1>2
      <4> QED
        BY <4>1
    <3> QED
      BY <3>1, <3>2, <3>3
  <2> QED
    BY <1>1, <1>2, <1>3, <2>1, <2>2
<1>6. rest = t \o e
  BY <1>4, <1>5, SeqEqual
<1>7. (h \o t) \o e = h \o (t \o e)
  BY SMTT(60), <1>1, <1>3, ConcatAssociative
<1> QED
  BY <1>6, <1>7 DEF t, h, e, rest

(* The second shift brings back the vector as it was.                      *)
LEMMA ShiftBack ==
    ASSUME NEW words \in Seq(Words), words # <<>>, NEW S, Words \cup {Sh} \subseteq S, NEW f \in S,
           NEW v, v = (<<Sh, f>> \o Tail(words)) \o <<Null>>
    PROVE  <<words[1]>> \o SubSeq(v, 3, Len(v)) \o <<v[Len(v)]>> = words \o <<Null, Null>>
<1> DEFINE T == S \cup {Null}
           s == <<Sh, f>> \o Tail(words)
           e == <<Null>>
           one == <<words[1]>>
           rest == SubSeq(v, 3, Len(v))
           last == <<v[Len(v)]>>
           n == Len(words)
<1>1. /\ n \in Nat \ {0} /\ words[1] \in Words
      /\ s \in Seq(S) /\ Len(s) = n + 1
      /\ \A i \in 3..(n + 1) : s[i] = words[i - 1]
  <2>1. n \in Nat \ {0}
    BY EmptySeq
  <2>2. 1 \in 1..Len(words)
    BY <2>1
  <2>3. words[1] \in Words
    BY <2>2, ElementOfSeq
  <2> QED
    BY <2>1, <2>3, ShellShape
<1>2. e \in Seq(T) /\ Len(e) = 1 /\ e[1] = Null
  OBVIOUS
<1>3. s \in Seq(T)
  BY <1>1, SeqMonotonic
<1> HIDE DEF T, s, e, n
<1>4. /\ v \in Seq(T) /\ Len(v) = n + 2
      /\ \A i \in 3..(n + 1) : v[i] = words[i - 1]
      /\ v[n + 2] = Null
  <2>1. /\ s \o e \in Seq(T) /\ Len(s \o e) = Len(s) + Len(e)
        /\ \A i \in 1..(Len(s) + Len(e)) : (s \o e)[i] = IF i <= Len(s) THEN s[i] ELSE e[i - Len(s)]
    BY <1>2, <1>3, ConcatProperties
  <2>2. v = s \o e
    BY DEF s, e
  <2>3. ASSUME NEW i \in 3..(n + 1) PROVE v[i] = words[i - 1]
    <3>1. i \in 1..(Len(s) + Len(e)) /\ i <= Len(s)
      BY <1>1, <1>2
    <3> QED
      BY <1>1, <2>1, <2>2, <3>1
  <2>4. v[n + 2] = Null
    <3>1. n + 2 \in 1..(Len(s) + Len(e)) /\ ~(n + 2 <= Len(s)) /\ n + 2 - Len(s) = 1
      BY <1>1, <1>2
    <3> QED
      BY <1>2, <2>1, <2>2, <3>1
  <2>5. Len(v) = n + 2
    BY <1>1, <1>2, <2>1, <2>2
  <2> QED
    BY <2>1, <2>2, <2>3, <2>4, <2>5
<1>5. /\ rest \in Seq(T) /\ Len(rest) = n
      /\ \A i \in 1..n : rest[i] = v[i + 2]
  <2>1. \A i \in 3..Len(v) : v[i] \in T
    <3>1. \A i \in 3..Len(v) : i \in 1..Len(v)
      BY <1>1, <1>4
    <3> QED
      BY <1>4, <3>1, ElementOfSeq
  <2>2. 3 \in Int /\ Len(v) \in Int
    BY <1>1, <1>4
  <2>3. /\ rest \in Seq(T) /\ Len(rest) = (IF 3 <= Len(v) THEN Len(v) - 3 + 1 ELSE 0)
        /\ \A i \in 1..(Len(v) - 3 + 1) : rest[i] = v[3 + i - 1]
    BY <2>1, <2>2, SubSeqProperties
  <2>4. Len(v) - 3 + 1 = n /\ 3 <= Len(v)
    BY <1>1, <1>4
  <2>5. \A i \in 1..n : 3 + i - 1 = i + 2
    BY <1>1
  <2> QED
    BY <2>3, <2>4, <2>5
<1>6. /\ one \in Seq(T) /\ Len(one) = 1 /\ one[1] = words[1]
      /\ last \in Seq(T) /\ Len(last) = 1 /\ last[1] = Null
  <2>1. words[1] \in T /\ v[Len(v)] = Null /\ Null \in T
    BY <1>1, <1>4 DEF T
  <2> QED
    BY <2>1
<1> HIDE DEF one, rest, last
<1>7. /\ one \o rest \in Seq(T) /\ Len(one \o rest) = n + 1
      /\ \A i \in 1..(n + 1) : (one \o rest)[i] = IF i <= n THEN words[i] ELSE Null
  <2>1. /\ one \o rest \in Seq(T) /\ Len(one \o rest) = Len(one) + Len(rest)
        /\ \A i \in 1..(Len(one) + Len(rest)) : (one \o rest)[i] = IF i <= Len(one) THEN one[i] ELSE rest[i - Len(one)]
    BY <1>5, <1>6, ConcatProperties
  <2>2. ASSUME NEW i \in 1..(n + 1) PROVE (one \o rest)[i] = IF i <= n THEN words[i] ELSE Null
    <3>1. CASE i = 1
      BY <1>1, <1>5, <1>6, <2>1, <3>1
    <3>2. CASE i # 1
      <4>1. i - 1 \in 1..n /\ i \in 1..(Len(one) + Len(rest)) /\ ~(i <= Len(one)) /\ (i - 1) + 2 = i + 1
        BY <1>1, <1>5, <1>6, <3>2
      <4>2. (one \o rest)[i] = rest[i - 1]
        BY <1>6, <2>1, <4>1
      <4>3. rest[i - 1] = v[i + 1]
        BY <1>5, <4>1
      <4>4. CASE i <= n
        <5>1. i + 1 \in 3..(n + 1) /\ (i + 1) - 1 = i
          BY <1>1, <3>2, <4>4
        <5> QED
          BY <1>4, <4>2, <4>3, <4>4, <5>1
      <4>5. CASE ~(i <= n)
        <5>1. i + 1 = n + 2
          BY <1>1, <4>5
        <5> QED
          BY <1>4, <4>2, <4>3, <4>5, <5>1
      <4> QED
        BY <4>4, <4>5
    <3> QED
      BY <3>1, <3>2
  <2> QED
    BY <1>1, <1>5, <1>6, <2>1, <2>2
<1>8. /\ one \o rest \o last \in Seq(T) /\ Len(one \o rest \o last) = n + 2
      /\ \A i \in 1..(n + 2) : (one \o rest \o last)[i] = IF i <= n THEN words[i] ELSE Null
  <2> DEFINE a == one \o rest
  <2>0. a \in Seq(T) /\ Len(a) = n + 1 /\ \A i \in 1..(n + 1) : a[i] = IF i <= n THEN words[i] ELSE Null
    BY <1>7
  <2> HIDE DEF a
  <2>1. /\ a \o last \in Seq(T) /\ Len(a \o last) = Len(a) + Len(last)
        /\ \A i \in 1..(Len(a) + Len(last)) : (a \o last)[i] = IF i <= Len(a) THEN a[i] ELSE last[i - Len(a)]
    BY <1>6, <2>0, ConcatProperties
  <2>2. ASSUME NEW i \in 1..(n + 2) PROVE (a \o last)[i] = IF i <= n THEN words[i] ELSE Null
    <3>1. CASE i <= n + 1
      <4>1. i \in 1..(n + 1) /\ i \in 1..(Len(a) + Len(last)) /\ i <= Len(a)
        BY <1>1, <1>6, <2>0, <3>1
      <4> QED
        BY <2>0, <2>1, <4>1
    <3>2. CASE i = n + 2
      <4>1. i \in 1..(Len(a) + Len(last)) /\ ~(i <= Len(a)) /\ i - Len(a) = 1 /\ ~(i <= n)
        BY <1>1, <1>6, <2>0, <3>2
      <4> QED
        BY <1>6, <2>1, <4>1
    <3>3. i <= n + 1 \/ i = n + 2
      <4>1. n \in Nat
        BY <1>1
      <4> QED
        BY <4>1
    <3> QED
      BY <3>1, <3>2, <3>3
  <2>3. Len(a \o last) = n + 2
    BY <1>1, <1>6, <2>0, <2>1
  <2> QED
    BY <2>1, <2>2, <2>3 DEF a
<1>9. /\ words \o <<Null, Null>> \in Seq(T) /\ Len(words \o <<Null, Null>>) = n + 2
      /\ \A i \in 1..(n + 2) : (words \o <<Null, Null>>)[i] = IF i <= n THEN words[i] ELSE Null
  <2> DEFINE w == words \o <<Null, Null>>
  <2>1. /\ w \in Seq(Words \cup {Null}) /\ Len(w) = n + 2
        /\ \A i \in 1..n : w[i] = words[i]
        /\ w[n + 1] = Null /\ w[n + 2] = Null
    BY VectorShape DEF n
  <2> HIDE DEF w
  <2>2. w \in Seq(T)
    <3>1. Words \cup {Null} \subseteq T
      BY DEF T
    <3> QED
      BY <2>1, <3>1, SeqMonotonic
  <2>3. ASSUME NEW i \in 1..(n + 2) PROVE w[i] = IF i <= n THEN words[i] ELSE Null
    <3>1. i \in 1..n \/ (~(i <= n) /\ (i = n + 1 \/ i = n + 2))
      BY <1>1
    <3> QED
      BY <1>1, <2>1, <3>1
  <2> QED
    BY <2>1, <2>2, <2>3 DEF w
<1>10. one \o rest \o last = words \o <<Null, Null>>
  <2> DEFINE a == one \o rest \o last
             b == words \o <<Null, Null>>
  <2>1. /\ a \in Seq(T) /\ b \in Seq(T) /\ Len(a) = n + 2 /\ Len(b) = n + 2
        /\ \A i \in 1..(n + 2) : a[i] = b[i]
    BY <1>8, <1>9
  <2> HIDE DEF a, b
  <2>2. a = b
    BY <2>1, SeqEqual
  <2> QED
    BY <2>2 DEF a, b
<1> QED
  BY <1>10 DEF one, rest, last

--------------------------------------------------------------------------------
LEMMA WordsTyped ==
    ASSUME path \in PathVars
    PROVE  /\ Words \cup {Sh} \subseteq AllWords /\ Null \notin AllWords
           /\ \A f \in Dirs : f \in AllWords
           /\ AllWords = Words \cup {Sh, "as it is"} \cup Range(EffectivePathv)
           /\ AllWords \cup {Null} = Words \cup {Null, Sh, "as it is"} \cup Range(EffectivePathv)
<1>1. Null \notin Words \cup {Sh} /\ Null \notin Dirs
  BY FilesFacts, SearchAssumption
<1> QED
  BY <1>1 DEF AllWords, Dirs

(* What execve is given: the command line, or the shell's words.           *)
LEMMA VectorGives ==
    ASSUME path \in PathVars, cmdline \in Seq(Words), cmdline # <<>>
    PROVE  /\ Given(Vector) = cmdline
           /\ Vector \in WordLists /\ cmdline \in Seq(AllWords)
           /\ Vector[1] = cmdline[1] /\ cmdline[1] \in Words
<1>1. /\ Vector \in Seq(Words \cup {Null}) /\ Len(cmdline) \in Nat \ {0}
      /\ Len(Vector) = Len(cmdline) + 2
      /\ \A i \in 1..Len(cmdline) : Vector[i] = cmdline[i]
      /\ Vector[Len(cmdline) + 1] = Null
  BY VectorShape DEF Vector
<1>2. Null \notin Words
  BY SearchAssumption
<1>3. Len(Vector) > Len(cmdline)
  BY <1>1
<1>4. Given(Vector) = cmdline
  BY <1>1, <1>2, <1>3, GivenWords
<1>5. Vector \in WordLists
  <2> DEFINE T == Words \cup {Null, Sh, "as it is"} \cup Range(EffectivePathv)
  <2>1. Words \cup {Null} \subseteq T
    OBVIOUS
  <2> HIDE DEF T
  <2>2. Vector \in Seq(T)
    BY <1>1, <2>1, SeqMonotonic
  <2> QED
    BY <2>2 DEF WordLists, T
<1>6. cmdline \in Seq(AllWords)
  BY WordsTyped, SeqMonotonic
<1>7. Vector[1] = cmdline[1] /\ cmdline[1] \in Words
  <2>1. 1 \in 1..Len(cmdline)
    BY <1>1
  <2> QED
    BY <1>1, <2>1, ElementOfSeq
<1> QED
  BY <1>4, <1>5, <1>6, <1>7

LEMMA ShellGives ==
    ASSUME path \in PathVars, cmdline \in Seq(Words), cmdline # <<>>, NEW f \in Dirs
    PROVE  /\ Given(ShellWords(f) \o <<Null>>) = ShellWords(f)
           /\ ShellWords(f) \o <<Null>> \in WordLists
           /\ ShellWords(f) \in Seq(AllWords)
<1> DEFINE T == AllWords \cup {Null}
           s == ShellWords(f)
           e == <<Null>>
<1>1. s \in Seq(AllWords)
  BY WordsTyped, ShellShape DEF ShellWords
<1>2. Null \notin AllWords
  BY WordsTyped
<1>3. e \in Seq(T) /\ Len(e) = 1 /\ e[1] = Null
  OBVIOUS
<1>4. s \in Seq(T) /\ Len(s) \in Nat
  BY <1>1, SeqMonotonic
<1> HIDE DEF s, e
<1>5. /\ s \o e \in Seq(T) /\ Len(s \o e) = Len(s) + Len(e)
      /\ \A i \in 1..(Len(s) + Len(e)) : (s \o e)[i] = IF i <= Len(s) THEN s[i] ELSE e[i - Len(s)]
  <2> HIDE DEF T
  <2> QED
    BY <1>3, <1>4, ConcatProperties
<1>6. \A i \in 1..Len(s) : (s \o e)[i] = s[i]
  BY <1>3, <1>4, <1>5
<1>7. (s \o e)[Len(s) + 1] = Null
  <2>1. Len(s) + 1 \in 1..(Len(s) + Len(e)) /\ ~(Len(s) + 1 <= Len(s)) /\ Len(s) + 1 - Len(s) = 1
    BY <1>3, <1>4
  <2> QED
    BY <1>3, <1>5, <2>1
<1>8. Len(s \o e) > Len(s)
  BY <1>3, <1>4, <1>5
<1>9. Given(s \o e) = s
  BY <1>1, <1>2, <1>5, <1>6, <1>7, <1>8, GivenWords
<1>10. s \o e \in WordLists
  BY <1>5, WordsTyped DEF WordLists
<1> QED
  BY <1>1, <1>9, <1>10 DEF s, e

--------------------------------------------------------------------------------
LEMMA SearchTyped ==
    ASSUME ExInv, child \in {"search", "shell"}
    PROVE  /\ path \in PathVars /\ cmdline \in Seq(Words) /\ cmdline # <<>> /\ cmdline[1] # NoWord
           /\ attempts \in Seq(Attempts) /\ Len(attempts) \in Nat /\ Len(attempts) <= Len(Files)
           /\ Files \in Seq(Dirs) /\ Len(Files) \in Nat
           /\ dirs = SubSeq(Files, Len(attempts) + 1, Len(Files))
           /\ AllPassed /\ told = "nothing"
<1>1. attempts \in Seq(Attempts) /\ path \in PathVars /\ cmdline \in Seq(Words)
  BY DEF ExInv, ExTypeOK
<1>2. Len(attempts) \in Nat
  BY <1>1, LenProperties
<1> QED
  BY <1>1, <1>2, FilesFacts DEF ExInv, Tries, Searching

(* The next file, and what is left after it.                               *)
LEMMA NextFile ==
    ASSUME ExInv, child \in {"search", "shell"}, dirs # <<>>
    PROVE  /\ Len(attempts) + 1 \in 1..Len(Files)
           /\ Head(dirs) = Files[Len(attempts) + 1] /\ Head(dirs) \in Dirs
           /\ Tail(dirs) = SubSeq(Files, (Len(attempts) + 1) + 1, Len(Files))
<1> DEFINE n == Len(attempts)
<1>1. /\ n \in Nat /\ n <= Len(Files) /\ Files \in Seq(Dirs) /\ Len(Files) \in Nat
      /\ dirs = SubSeq(Files, n + 1, Len(Files))
  BY SearchTyped
<1> HIDE DEF n
<1>2. n + 1 <= Len(Files)
  <2>1. CASE n + 1 > Len(Files)
    <3>1. n + 1 \in Int /\ Len(Files) \in Int /\ Len(Files) < n + 1
      BY <1>1, <2>1
    <3>2. SubSeq(Files, n + 1, Len(Files)) = <<>>
      BY <3>1, SubSeqEmpty
    <3> QED
      BY <1>1, <3>2
  <2> QED
    BY <1>1, <2>1
<1>3. n + 1 \in 1..Len(Files) /\ Len(Files) \in (n + 1)..Len(Files)
  BY <1>1, <1>2
<1>4. /\ Head(SubSeq(Files, n + 1, Len(Files))) = Files[n + 1]
      /\ Tail(SubSeq(Files, n + 1, Len(Files))) = SubSeq(Files, (n + 1) + 1, Len(Files))
  BY <1>1, <1>3, HeadTailOfSubSeq
<1>5. Files[n + 1] \in Dirs
  BY <1>1, <1>3, ElementOfSeq
<1> QED
  BY <1>1, <1>3, <1>4, <1>5 DEF n

(* What execve is given in either state.                                   *)
LEMMA GivenNow ==
    ASSUME ExInv, child \in {"search", "shell"}, dirs # <<>>
    PROVE  /\ Given(argv) = IF child = "shell" THEN ShellWords(Head(dirs)) ELSE cmdline
           /\ Given(argv) \in Seq(AllWords)
<1>1. path \in PathVars /\ cmdline \in Seq(Words) /\ cmdline # <<>> /\ Head(dirs) \in Dirs
  BY SearchTyped, NextFile
<1>2. CASE child = "search"
  <2>1. argv = Vector
    BY <1>2 DEF ExInv, Searching
  <2> QED
    BY <1>1, <1>2, <2>1, VectorGives
<1>3. CASE child = "shell"
  <2>1. argv = ShellWords(Head(dirs)) \o <<Null>>
    BY <1>3 DEF ExInv, Searching
  <2> QED
    BY <1>1, <1>3, <2>1, ShellGives
<1> QED
  BY <1>2, <1>3

(* One more attempt is on record.                                          *)
LEMMA Recorded ==
    ASSUME ExInv, child \in {"search", "shell"}, dirs # <<>>,
           NEW ans \in Errnos \cup {"done", "too long"},
           NEW sh \in BOOLEAN, sh <=> child = "shell",
           attempts' = Append(attempts, Tried(ans, sh)),
           UNCHANGED <<cmdline, path>>
    PROVE  /\ (attempts \in Seq(Attempts))' /\ Tries' /\ AllButLastPassed'
           /\ Len(attempts') = Len(attempts) + 1 /\ attempts' # <<>>
           /\ attempts'[Len(attempts')].answer = ans
           /\ Denied' <=> (Denied \/ ans = "EACCES")
           /\ AllPassed' <=> ans \in Skipped \cup {"too long"}
           /\ Files' = Files
<1> DEFINE a == Tried(ans, sh)
           n == Len(attempts)
<1>1. /\ attempts \in Seq(Attempts) /\ n \in Nat /\ n <= Len(Files) /\ AllPassed
      /\ path \in PathVars
  BY SearchTyped
<1>2. /\ n + 1 \in 1..Len(Files) /\ Head(dirs) = Files[n + 1] /\ Head(dirs) \in Dirs
  BY NextFile
<1>3. a = [dir |-> Head(dirs), argv |-> Given(argv), answer |-> ans, shell |-> sh]
  BY DEF Tried
<1>4. /\ a.dir = Files[n + 1] /\ a.answer = ans
      /\ a.argv = IF a.shell THEN ShellWords(Files[n + 1]) ELSE cmdline
      /\ a \in Attempts
  <2> DEFINE g == Given(argv)
             d == Head(dirs)
             W == Words \cup {Sh, "as it is"} \cup Range(EffectivePathv)
             D == {"as it is"} \cup Range(EffectivePathv)
             An == Errnos \cup {"done", "too long"}
  <2>2. g = IF sh THEN ShellWords(d) ELSE cmdline
    BY GivenNow
  <2>3. g \in Seq(W)
    BY <1>1, GivenNow, WordsTyped
  <2>4. d \in D /\ ans \in An
    BY <1>2 DEF Dirs
  <2>5. a = [dir |-> d, argv |-> g, answer |-> ans, shell |-> sh]
    BY <1>3
  <2>6. Attempts = [dir : D, argv : Seq(W), answer : An, shell : BOOLEAN]
    BY DEF Attempts
  <2>7. d = Files[n + 1]
    BY <1>2
  <2> HIDE DEF a, g, d, W, D, An, n
  <2>8. a.dir = d /\ a.argv = g /\ a.answer = ans /\ a.shell = sh
    BY <2>5
  <2>9. a \in Attempts
    BY <2>3, <2>4, <2>5, <2>6
  <2> QED
    BY <2>2, <2>7, <2>8, <2>9
<1> HIDE DEF a, n
<1>5. /\ attempts' = Append(attempts, a) /\ attempts' \in Seq(Attempts) /\ attempts' # <<>>
      /\ Len(attempts') = n + 1 /\ attempts'[n + 1] = a
      /\ \A i \in 1..n : attempts'[i] = attempts[i]
  <2>1. attempts \in Seq(Attempts) /\ a \in Attempts /\ attempts' = Append(attempts, a)
    BY <1>1, <1>4 DEF a
  <2> DEFINE m == Len(attempts)
  <2>2. /\ attempts' \in Seq(Attempts) /\ attempts' # <<>>
        /\ Len(attempts') = m + 1 /\ attempts'[m + 1] = a
        /\ \A i \in 1..m : attempts'[i] = attempts[i]
    <3> DEFINE t == Append(attempts, a)
               A == Attempts
    <3>0. attempts \in Seq(A) /\ a \in A
      BY <2>1
    <3> HIDE DEF A
    <3>1. t \in Seq(A) /\ t # <<>> /\ Len(t) = m + 1 /\ t[m + 1] = a
      BY ZenonT(60), <3>0, Appended
    <3>3. ASSUME NEW i \in 1..m PROVE t[i] = attempts[i]
      BY ZenonT(60), <3>0, AppendedBefore
    <3>2. attempts' = t
      BY <2>1
    <3> QED
      BY Zenon, <3>1, <3>2, <3>3 DEF A
  <2>3. n = m
    BY DEF n
  <2> HIDE DEF m
  <2> QED
    BY Zenon, <2>1, <2>2, <2>3
<1>6. Files' = Files /\ Attempts' = Attempts /\ cmdline' = cmdline
  BY DEF Files, Attempts, EffectivePathv
<1>0. n \in Nat
  BY <1>1
<1>7. ASSUME NEW i \in 1..(n + 1) PROVE i \in 1..n \/ i = n + 1
  BY Zenon, <1>0, UpToNext
<1>8. Tries'
  <2>1. ASSUME NEW i \in 1..(n + 1)
        PROVE  /\ attempts'[i].dir = Files[i]
               /\ attempts'[i].argv = IF attempts'[i].shell THEN ShellWords(Files[i]) ELSE cmdline
    <3>1. CASE i \in 1..n
      <4>1. attempts'[i] = attempts[i]
        BY <1>5, <3>1
      <4>2. /\ attempts[i].dir = Files[i]
            /\ attempts[i].argv = IF attempts[i].shell THEN ShellWords(Files[i]) ELSE cmdline
        BY <3>1 DEF ExInv, Tries, n
      <4> QED
        BY <4>1, <4>2
    <3>2. CASE i = n + 1
      <4>1. attempts'[i] = a
        BY <1>5, <3>2
      <4> QED
        BY <1>4, <3>2, <4>1
    <3> QED
      BY <1>7, <3>1, <3>2
  <2>2. n + 1 <= Len(Files)
    <3>1. Len(Files) \in Nat
      BY SearchTyped
    <3> QED
      BY Zenon, <1>0, <1>2, <3>1, UpToNext
  <2>3. \A g : ShellWords(g)' = ShellWords(g)
    BY <1>6 DEF ShellWords
  <2> QED
    BY <1>5, <1>6, <2>1, <2>2, <2>3 DEF Tries
<1>9. \A i \in 1..n : Passed(attempts'[i])
  <2>1. \A i \in 1..n : Passed(attempts[i])
    BY <1>1 DEF AllPassed, n
  <2>2. \A i \in 1..n : attempts'[i] = attempts[i]
    BY <1>5
  <2> QED
    BY <2>1, <2>2 DEF Passed
<1>10. AllButLastPassed'
  <2>1. Len(attempts') - 1 = n
    <3>1. Len(attempts') = n + 1
      BY <1>5
    <3> QED
      BY Zenon, <1>0, <3>1, UpToNext
  <2> QED
    BY <1>9, <2>1 DEF AllButLastPassed, Passed
<1>11. AllPassed' <=> ans \in Skipped \cup {"too long"}
  <2>1. Passed(a) <=> ans \in Skipped \cup {"too long"}
    BY <1>4 DEF Passed
  <2>2. n + 1 \in 1..(n + 1)
    BY Zenon, <1>0, UpToNext
  <2>3. attempts'[n + 1] = a
    BY <1>5
  <2>4. (\A i \in 1..(n + 1) : Passed(attempts'[i])) <=> Passed(a)
    BY <1>7, <1>9, <2>2, <2>3 DEF Passed
  <2> QED
    BY <1>5, <2>1, <2>4 DEF AllPassed, Passed
<1>12. Denied' <=> (Denied \/ ans = "EACCES")
  <2>1. Denied' <=> \E i \in 1..(n + 1) : attempts'[i].answer = "EACCES"
    BY <1>5 DEF Denied
  <2>2. Denied <=> \E i \in 1..n : attempts'[i].answer = "EACCES"
    BY <1>5 DEF Denied, n
  <2>3. n + 1 \in 1..(n + 1) /\ \A i \in 1..n : i \in 1..(n + 1)
    BY Zenon, <1>0, UpToNext
  <2>4. attempts'[n + 1].answer = ans
    BY <1>4, <1>5
  <2> QED
    BY <1>7, <2>1, <2>2, <2>3, <2>4
<1> QED
  <2>1. attempts'[Len(attempts')].answer = ans
    <3>1. attempts'[n + 1] = a /\ Len(attempts') = n + 1
      BY <1>5
    <3> QED
      BY <1>4, <3>1
  <2> QED
    BY <1>5, <1>6, <1>8, <1>10, <1>11, <1>12, <2>1 DEF n

--------------------------------------------------------------------------------
(* Facts every step uses.                                                  *)
LEMMA Errors ==
    /\ "EACCES" \in Skipped /\ "ENOENT" \in Skipped
    /\ "ENAMETOOLONG" \in Errnos /\ "ENOEXEC" \in Errnos
    /\ Skipped \subseteq Errnos
    /\ \A x \in Errnos : x \notin {"none", "nothing", "started", "done", "too long"}
BY SearchAssumption DEF Errnos

LEMMA SamePath ==
    ASSUME UNCHANGED <<cmdline, path>>
    PROVE  /\ Files' = Files /\ Attempts' = Attempts /\ Vector' = Vector /\ WordLists' = WordLists
           /\ \A g : ShellWords(g)' = ShellWords(g)
BY DEF Files, Attempts, Vector, WordLists, ShellWords, EffectivePathv

(* An attempt failed and the next file is to be tried.                     *)
LEMMA GoesOn ==
    ASSUME ExInv, child \in {"search", "shell"}, dirs # <<>>,
           NEW ans \in Skipped \cup {"too long"},
           NEW sh \in BOOLEAN, sh <=> child = "shell",
           attempts' = Append(attempts, Tried(ans, sh)),
           child' = "search", dirs' = Tail(dirs), argv' = Vector, UNCHANGED told,
           errno' = IF ans = "too long" THEN "ENAMETOOLONG" ELSE ans,
           sticky' = IF ans = "EACCES" THEN ans ELSE sticky,
           ans = "EACCES" => Head(dirs) # "as it is",
           UNCHANGED builderVars
    PROVE  ExInv'
<1>1. UNCHANGED <<cmdline, path, env>>
  BY DEF builderVars
<1>2. ans \in Errnos \cup {"done", "too long"}
  BY Errors
<1>3. /\ (attempts \in Seq(Attempts))' /\ Tries' /\ AllButLastPassed'
      /\ Len(attempts') = Len(attempts) + 1 /\ attempts' # <<>>
      /\ attempts'[Len(attempts')].answer = ans
      /\ Denied' <=> (Denied \/ ans = "EACCES")
      /\ AllPassed'
      /\ Files' = Files
  BY <1>1, <1>2, Recorded
<1>4. /\ path \in PathVars /\ cmdline \in Seq(Words) /\ cmdline # <<>> /\ cmdline[1] # NoWord
      /\ told = "nothing"
  BY SearchTyped
<1>5. /\ Head(dirs) = Files[Len(attempts) + 1] /\ Len(attempts) + 1 \in 1..Len(Files)
      /\ Tail(dirs) = SubSeq(Files, (Len(attempts) + 1) + 1, Len(Files))
  BY NextFile
<1>6. sticky = (IF Denied THEN "EACCES" ELSE "none") /\ (Denied => Files # <<"as it is">>)
  BY DEF ExInv, Searching
<1>7. ans = "EACCES" => Files # <<"as it is">>
  BY <1>4, <1>5, FilesFacts
<1>8. Searching'
  <2>1. dirs' = SubSeq(Files', Len(attempts') + 1, Len(Files'))
    BY <1>3, <1>5
  <2>2. sticky' = (IF Denied' THEN "EACCES" ELSE "none") /\ (Denied' => Files' # <<"as it is">>)
    BY <1>3, <1>6, <1>7
  <2>3. cmdline' # <<>> /\ cmdline'[1] # NoWord /\ told' = "nothing"
    BY <1>1, <1>4
  <2>4. argv' = Vector'
    BY <1>1, SamePath
  <2>5. errno' = ErrnoOf(attempts[Len(attempts)])'
    BY <1>3 DEF ErrnoOf
  <2> QED
    BY <1>3, <2>1, <2>2, <2>3, <2>4, <2>5 DEF Searching
<1>9. ExTypeOK'
  <2>1. argv' \in WordLists'
    BY <1>1, <1>4, VectorGives, SamePath
  <2>2. errno' \in Errnos
    BY Errors
  <2>3. sticky' \in {"none", "EACCES"}
    BY DEF ExInv, ExTypeOK
  <2> QED
    BY <1>1, <2>1, <2>2, <2>3 DEF ExInv, ExTypeOK
<1>10. Idle' /\ Over'
  BY DEF Idle, Over
<1> QED
  BY <1>3, <1>8, <1>9, <1>10 DEF ExInv

(* An attempt failed for good.                                             *)
LEMMA Exits ==
    ASSUME ExInv, child \in {"search", "shell"}, dirs # <<>>,
           NEW ans \in Errnos,
           NEW sh \in BOOLEAN, sh <=> child = "shell",
           attempts' = Append(attempts, Tried(ans, sh)),
           child' = "exited", told' = ans, errno' = ans, UNCHANGED <<dirs, sticky>>,
           argv' \in WordLists,
           ans \in Skipped => Head(dirs) = "as it is",
           UNCHANGED builderVars
    PROVE  ExInv'
<1>1. UNCHANGED <<cmdline, path, env>>
  BY DEF builderVars
<1>2. ans \in Errnos \cup {"done", "too long"}
  OBVIOUS
<1>3. /\ (attempts \in Seq(Attempts))' /\ Tries' /\ AllButLastPassed'
      /\ Len(attempts') = Len(attempts) + 1 /\ attempts' # <<>>
      /\ attempts'[Len(attempts')].answer = ans
      /\ Files' = Files
  BY <1>1, <1>2, Recorded
<1>4. /\ path \in PathVars /\ cmdline \in Seq(Words) /\ cmdline # <<>> /\ cmdline[1] # NoWord
      /\ Len(attempts) \in Nat /\ Len(Files) \in Nat
  BY SearchTyped
<1>5. Head(dirs) = Files[Len(attempts) + 1] /\ Len(attempts) + 1 \in 1..Len(Files)
  BY NextFile
<1>6. ans \in Skipped => Files = <<"as it is">> /\ Len(Files) = 1
  BY <1>4, <1>5, FilesFacts
<1>7. ans \in Skipped => Len(attempts') = Len(Files)
  <2> HAVE ans \in Skipped
  <2>1. Len(attempts) + 1 \in 1..1
    BY <1>5, <1>6
  <2>2. Len(attempts) + 1 = 1
    BY Zenon, <1>4, <2>1, OnlyOne
  <2> QED
    BY <1>3, <1>6, <2>2
<1>8. ans # "done" /\ ans # "too long"
  BY Errors
<1>9. Passed(attempts[Len(attempts)])' => ans \in Skipped
  BY <1>3, <1>8 DEF Passed
<1>10. ErrnoOf(attempts[Len(attempts)])' = ans
  BY <1>3, <1>8 DEF ErrnoOf
<1>11. Over'
  <2>1. cmdline' # <<>> /\ cmdline'[1] # NoWord
    BY <1>1, <1>4
  <2>2. Passed(attempts[Len(attempts)])' => Len(attempts') = Len(Files') /\ Files' = <<"as it is">>
    BY <1>3, <1>6, <1>7, <1>9
  <2> QED
    BY <1>3, <1>8, <1>10, <2>1, <2>2 DEF Over
<1>12. ExTypeOK'
  BY <1>1, SamePath DEF ExInv, ExTypeOK
<1>13. Idle' /\ Searching'
  BY DEF Idle, Searching
<1> QED
  BY <1>3, <1>11, <1>12, <1>13 DEF ExInv

(* A program runs.                                                         *)
LEMMA Runs ==
    ASSUME ExInv, child \in {"search", "shell"}, dirs # <<>>,
           NEW sh \in BOOLEAN, sh <=> child = "shell",
           attempts' = Append(attempts, Tried("done", sh)),
           Becomes("running"), UNCHANGED <<argv, dirs, errno, sticky>>,
           UNCHANGED builderVars
    PROVE  ExInv'
<1>1. UNCHANGED <<cmdline, path, env>>
  BY DEF builderVars
<1>2. "done" \in Errnos \cup {"done", "too long"}
  OBVIOUS
<1>3. /\ (attempts \in Seq(Attempts))' /\ Tries' /\ AllButLastPassed' /\ attempts' # <<>>
      /\ attempts'[Len(attempts')].answer = "done"
  BY <1>1, <1>2, Recorded
<1>4. ExTypeOK'
  BY <1>1, SamePath DEF ExInv, ExTypeOK, Becomes
<1>5. Idle' /\ Searching' /\ Over'
  BY <1>3 DEF Idle, Searching, Over, Becomes
<1> QED
  BY <1>3, <1>4, <1>5 DEF ExInv

--------------------------------------------------------------------------------
LEMMA ExInitOK ==
    ASSUME ExInit
    PROVE  ExInv
<1>1. path \in PathVars /\ cmdline = <<>> /\ attempts = <<>> /\ argv = <<>> /\ env = <<>>
  BY DEF ExInit
<1>2. Len(attempts) = 0 /\ Len(Files) \in Nat
  BY <1>1, FilesFacts
<1>3. <<>> \in Seq(Words) /\ <<>> \in WordLists /\ <<>> \in Seq(Attempts)
  BY DEF WordLists
<1>4. <<>> \in [DOMAIN <<>> -> Values] /\ DOMAIN <<>> \subseteq Keys
  OBVIOUS
<1>5. ExTypeOK
  BY <1>1, <1>3, <1>4 DEF ExInit, ExTypeOK
<1>6. Tries
  BY <1>2 DEF Tries
<1>7. Idle /\ Searching /\ Over
  BY DEF ExInit, Idle, Searching, Over
<1> QED
  BY <1>1, <1>3, <1>5, <1>6, <1>7 DEF ExInv

(* The setters of the builder, before anything is started.                 *)
LEMMA BuilderOK ==
    ASSUME ExInv, child = "none", cmdline' \in Seq(Words),
           env' \in [DOMAIN env' -> Values], DOMAIN env' \subseteq Keys,
           UNCHANGED <<path, childVars>>
    PROVE  ExInv'
<1>1. /\ attempts = <<>> /\ argv = <<>> /\ errno = "none" /\ sticky = "none" /\ told = "nothing"
      /\ dirs = <<>> /\ path \in PathVars
  BY DEF ExInv, Idle, ExTypeOK
<1>2. /\ attempts' = <<>> /\ argv' = <<>> /\ errno' = "none" /\ sticky' = "none" /\ told' = "nothing"
      /\ dirs' = <<>> /\ path' = path /\ child' = "none"
  BY <1>1 DEF childVars
<1>3. EffectivePathv' = EffectivePathv
  BY <1>2 DEF EffectivePathv
<1>4. Len(Files') # 0 /\ Len(Files') \in Nat
  <2>1. Files' = <<"as it is">> \/ Files' = Files \/ Files' = EffectivePathv
    BY <1>3 DEF Files
  <2>2. Len(EffectivePathv) \in Nat /\ Len(EffectivePathv) # 0
    BY <1>1, PathFacts, EmptySeq, LenProperties
  <2>3. Len(Files) \in Nat /\ Len(Files) # 0
    BY <1>1, FilesFacts
  <2> QED
    <3>1. CASE Files' = <<"as it is">>
      BY Zenon, <3>1, OneFile
    <3>2. CASE Files' = Files
      BY <2>3, <3>2
    <3>3. CASE Files' = EffectivePathv
      BY <2>2, <3>3
    <3> QED
      BY <2>1, <3>1, <3>2, <3>3
<1>5. Tries'
  <2>1. Len(attempts') = 0
    BY <1>2
  <2> QED
    BY <1>4, <2>1 DEF Tries
<1>6. <<>> \in (WordLists') /\ <<>> \in Seq(Attempts')
  BY DEF WordLists
<1>7. ExTypeOK'
  BY <1>1, <1>2, <1>6 DEF ExTypeOK
<1>8. Idle' /\ Searching' /\ Over'
  BY <1>2 DEF Idle, Searching, Over
<1> QED
  BY <1>2, <1>5, <1>6, <1>7, <1>8 DEF ExInv

LEMMA CommandOK ==
    ASSUME ExInv, NEW w \in Words, Command(w)
    PROVE  ExInv'
<1>1. cmdline \in Seq(Words) /\ env \in [DOMAIN env -> Values] /\ DOMAIN env \subseteq Keys
  BY DEF ExInv, ExTypeOK
<1>2. cmdline' \in Seq(Words)
  <2>1. <<w>> \in Seq(Words)
    BY OneWord
  <2>2. cmdline # <<>> => [cmdline EXCEPT ![1] = w] \in Seq(Words)
    <3> HAVE cmdline # <<>>
    <3>1. 1 \in 1..Len(cmdline)
      BY <1>1, EmptySeq
    <3> QED
      BY <1>1, <3>1, ExceptSeq
  <2> QED
    BY <2>1, <2>2 DEF Command
<1> QED
  BY <1>1, <1>2, BuilderOK DEF Command, Building

LEMMA SetArgumentsOK ==
    ASSUME ExInv, NEW c \in Arguments, SetArguments(c)
    PROVE  ExInv'
<1>1. cmdline \in Seq(Words) /\ env \in [DOMAIN env -> Values] /\ DOMAIN env \subseteq Keys
  BY DEF ExInv, ExTypeOK
<1>2. c \in Seq(Words)
  BY SearchAssumption
<1>3. cmdline' \in Seq(Words)
  <2>1. cmdline \o c \in Seq(Words)
    BY <1>1, <1>2, ConcatProperties
  <2> QED
    BY <1>1, <2>1 DEF SetArguments
<1> QED
  BY <1>1, <1>3, BuilderOK DEF SetArguments, Building

LEMMA EnvironmentOK ==
    ASSUME ExInv, NEW k \in Keys, NEW v \in Values, Environment(k, v)
    PROVE  ExInv'
<1>1. cmdline \in Seq(Words) /\ env \in [DOMAIN env -> Values] /\ DOMAIN env \subseteq Keys
  BY DEF ExInv, ExTypeOK
<1>2. env' \in [DOMAIN env' -> Values] /\ DOMAIN env' \subseteq Keys
  <2>1. CASE k \in DOMAIN env
    BY <1>1, <2>1 DEF Environment
  <2>2. CASE k \notin DOMAIN env
    <3>1. env' = [x \in DOMAIN env \cup {k} |-> IF x = k THEN v ELSE env[x]]
      BY <2>2 DEF Environment
    <3> QED
      BY <1>1, <3>1
  <2> QED
    BY <2>1, <2>2
<1> QED
  BY <1>1, <1>2, BuilderOK DEF Environment, Building

(* fork: the argument vector, or the two nulls alone.                      *)
LEMMA StartOK ==
    ASSUME ExInv, Start
    PROVE  ExInv'
<1>1. /\ attempts = <<>> /\ errno = "none" /\ sticky = "none" /\ told = "nothing"
      /\ dirs = <<>> /\ path \in PathVars /\ cmdline \in Seq(Words)
  BY DEF ExInv, Idle, ExTypeOK, Start
<1>2. UNCHANGED <<cmdline, path, env, dirs, errno, sticky, attempts, told>> /\ argv' = Vector
      /\ child' = "execvpe"
  BY DEF Start, builderVars, Vector
<1>3. Vector \in WordLists
  <2>1. CASE cmdline = <<>>
    <3>1. Vector = <<Null, Null>>
      <4>1. <<Null, Null>> \in Seq({Null})
        OBVIOUS
      <4> QED
        BY <2>1, <4>1, ConcatEmptySeq DEF Vector
    <3> QED
      BY <3>1 DEF WordLists
  <2>2. CASE cmdline # <<>>
    BY <1>1, <2>2, VectorGives
  <2> QED
    BY <2>1, <2>2
<1>4. ExTypeOK'
  BY <1>2, <1>3, SamePath DEF ExInv, ExTypeOK
<1>5. Tries' /\ attempts' \in Seq(Attempts')
  BY <1>2, SamePath DEF ExInv, Tries
<1>6. Idle' /\ Searching' /\ Over'
  BY <1>1, <1>2, SamePath DEF Idle, Searching, Over
<1> QED
  BY <1>4, <1>5, <1>6 DEF ExInv

LEMMA FirstWord ==
    ASSUME ExInv, child = "execvpe"
    PROVE  /\ argv = Vector /\ path \in PathVars /\ cmdline \in Seq(Words)
           /\ attempts = <<>> /\ dirs = <<>> /\ sticky = "none" /\ errno = "none" /\ told = "nothing"
           /\ argv[1] = Null <=> cmdline = <<>>
           /\ cmdline # <<>> => argv[1] = cmdline[1]
<1>1. /\ argv = Vector /\ path \in PathVars /\ cmdline \in Seq(Words)
      /\ attempts = <<>> /\ dirs = <<>> /\ sticky = "none" /\ errno = "none" /\ told = "nothing"
  BY DEF ExInv, Idle, ExTypeOK
<1>2. cmdline # <<>> => argv[1] = cmdline[1] /\ cmdline[1] \in Words
  BY <1>1, VectorGives
<1>3. Null \notin Words
  BY SearchAssumption
<1>4. cmdline = <<>> => argv[1] = Null
  <2> HAVE cmdline = <<>>
  <2>1. <<Null, Null>> \in Seq({Null})
    OBVIOUS
  <2>2. Vector = <<Null, Null>>
    BY <2>1, ConcatEmptySeq DEF Vector
  <2> QED
    BY <1>1, <2>2
<1> QED
  BY <1>1, <1>2, <1>3, <1>4

(* What changes neither the words nor the record of the attempts.          *)
LEMMA Unrecorded ==
    ASSUME ExInv, UNCHANGED <<builderVars, attempts>>
    PROVE  /\ UNCHANGED <<cmdline, path, env>>
           /\ Tries' /\ attempts' \in Seq(Attempts')
           /\ Files' = Files /\ Vector' = Vector /\ WordLists' = WordLists
           /\ AllPassed' <=> AllPassed
           /\ AllButLastPassed' <=> AllButLastPassed
<1>1. UNCHANGED <<cmdline, path, env, attempts>>
  BY DEF builderVars
<1> QED
  BY <1>1, SamePath DEF ExInv, Tries, AllPassed, AllButLastPassed, Passed

LEMMA NoFileOK ==
    ASSUME ExInv, NoFile
    PROVE  ExInv'
<1>1. child = "execvpe" /\ argv[1] = Null /\ child' = "crashed" /\ told' = "started"
      /\ UNCHANGED <<builderVars, attempts>> /\ UNCHANGED <<argv, dirs, errno, sticky>>
  BY DEF NoFile, Becomes
<1>2. cmdline = <<>> /\ attempts = <<>>
  BY <1>1, FirstWord
<1>3. UNCHANGED <<cmdline, path, env>> /\ Tries' /\ attempts' \in Seq(Attempts') /\ WordLists' = WordLists
  BY <1>1, Unrecorded
<1>4. AllPassed'
  <2>1. attempts' = <<>>
    BY <1>1, <1>2
  <2> QED
    BY <2>1 DEF AllPassed
<1>5. ExTypeOK'
  BY <1>1, <1>3 DEF ExInv, ExTypeOK
<1>6. Idle' /\ Searching' /\ Over'
  BY <1>1, <1>2, <1>3, <1>4 DEF Idle, Searching, Over
<1> QED
  BY <1>3, <1>5, <1>6 DEF ExInv

LEMMA EmptyFileOK ==
    ASSUME ExInv, EmptyFile
    PROVE  ExInv'
<1>1. child = "execvpe" /\ argv[1] = NoWord /\ child' = "exited" /\ told' = "ENOENT" /\ errno' = "ENOENT"
      /\ UNCHANGED <<builderVars, attempts>> /\ UNCHANGED <<argv, dirs, sticky>>
  BY DEF EmptyFile, ExitWithError
<1>2. NoWord # Null /\ "ENOENT" \in Errnos
  BY SearchAssumption, Errors
<1>3. cmdline # <<>> /\ cmdline[1] = NoWord /\ attempts = <<>>
  BY <1>1, <1>2, FirstWord
<1>4. UNCHANGED <<cmdline, path, env>> /\ Tries' /\ attempts' \in Seq(Attempts') /\ WordLists' = WordLists
  BY <1>1, Unrecorded
<1>5. ExTypeOK'
  BY <1>1, <1>2, <1>4 DEF ExInv, ExTypeOK
<1>6. Idle' /\ Searching' /\ Over'
  BY <1>1, <1>2, <1>3, <1>4 DEF Idle, Searching, Over
<1> QED
  BY <1>4, <1>5, <1>6 DEF ExInv

LEMMA ChooseFilesOK ==
    ASSUME ExInv, ChooseFiles
    PROVE  ExInv'
<1>1. child = "execvpe" /\ argv[1] \in Words \ {NoWord} /\ child' = "search"
      /\ dirs' = (IF argv[1] \in Slashed THEN <<"as it is">> ELSE EffectivePathv)
      /\ UNCHANGED <<builderVars, attempts>> /\ UNCHANGED <<argv, errno, sticky, told>>
  BY DEF ChooseFiles
<1>2. /\ cmdline # <<>> /\ cmdline[1] = argv[1] /\ attempts = <<>> /\ argv = Vector /\ path \in PathVars
      /\ sticky = "none" /\ errno = "none" /\ told = "nothing"
  <2>1. Null \notin Words
    BY SearchAssumption
  <2> QED
    BY <1>1, <2>1, FirstWord
<1>3. /\ UNCHANGED <<cmdline, path, env>> /\ Tries' /\ attempts' \in Seq(Attempts') /\ WordLists' = WordLists
      /\ Files' = Files /\ Vector' = Vector
  BY <1>1, Unrecorded
<1>4. dirs' = Files
  BY <1>1, <1>2 DEF Files
<1>5. Files = SubSeq(Files, 1, Len(Files))
  <2>1. Files \in Seq(Dirs)
    BY <1>2, FilesFacts
  <2> QED
    BY <2>1, SubSeqFull
<1>6. ExTypeOK'
  BY <1>1, <1>3 DEF ExInv, ExTypeOK
<1>7. AllPassed' /\ ~Denied' /\ Len(attempts') = 0 /\ attempts' = <<>>
  <2>1. attempts' = <<>>
    BY <1>1, <1>2
  <2>2. Len(attempts') = 0
    BY <2>1
  <2> QED
    BY <2>1, <2>2 DEF AllPassed, Denied
<1>8. dirs' = SubSeq(Files', Len(attempts') + 1, Len(Files'))
  BY <1>3, <1>4, <1>5, <1>7
<1>9. Searching'
  BY <1>1, <1>2, <1>3, <1>7, <1>8 DEF Searching
<1>10. Idle' /\ Over'
  BY <1>1 DEF Idle, Over
<1> QED
  BY <1>3, <1>6, <1>9, <1>10 DEF ExInv

LEMMA TooLongOK ==
    ASSUME ExInv, TooLong
    PROVE  ExInv'
<1>1. /\ child = "search" /\ dirs # <<>> /\ errno' = "ENAMETOOLONG" /\ dirs' = Tail(dirs)
      /\ attempts' = Append(attempts, Tried("too long", FALSE))
      /\ UNCHANGED builderVars /\ UNCHANGED <<child, argv, sticky, told>>
  BY DEF TooLong
<1>2. argv = Vector
  BY <1>1 DEF ExInv, Searching
<1>3. "too long" \in Skipped \cup {"too long"} /\ FALSE \in BOOLEAN /\ "too long" # "EACCES"
  OBVIOUS
<1>4. child \in {"search", "shell"} /\ (FALSE <=> child = "shell") /\ child' = "search" /\ argv' = Vector
  BY <1>1, <1>2
<1> QED
  BY <1>1, <1>3, <1>4, GoesOn

(* Either branch of the switch, for a file with or without a shell.        *)
LEMMA FailureOK ==
    ASSUME ExInv, child \in {"search", "shell"}, dirs # <<>>, NEW e \in Errnos,
           NEW sh \in BOOLEAN, sh <=> child = "shell",
           attempts' = Append(attempts, Tried(e, sh)), AfterFailure(e), argv' = Vector,
           UNCHANGED builderVars
    PROVE  ExInv'
<1>1. e # "too long"
  BY Errors
<1>2. CASE e \in Skipped /\ Head(dirs) # "as it is"
  <2>1. /\ child' = "search" /\ dirs' = Tail(dirs) /\ UNCHANGED told
        /\ errno' = (IF e = "too long" THEN "ENAMETOOLONG" ELSE e)
        /\ sticky' = IF e = "EACCES" THEN e ELSE sticky
    BY <1>1, <1>2 DEF AfterFailure
  <2>2. e \in Skipped \cup {"too long"} /\ (e = "EACCES" => Head(dirs) # "as it is")
    BY <1>2
  <2> QED
    BY <2>1, <2>2, GoesOn
<1>3. CASE ~(e \in Skipped /\ Head(dirs) # "as it is")
  <2>1. child' = "exited" /\ told' = e /\ errno' = e /\ UNCHANGED <<dirs, sticky>>
    BY <1>3 DEF AfterFailure, ExitWithError
  <2>2. argv' \in WordLists
    BY SearchTyped, VectorGives
  <2> QED
    BY <1>3, <2>1, <2>2, Exits
<1> QED
  BY <1>2, <1>3

LEMMA ExecveOK ==
    ASSUME ExInv, Execve
    PROVE  ExInv'
<1>1. child = "search" /\ dirs # <<>> /\ UNCHANGED builderVars
  BY DEF Execve
<1>2. argv = Vector
  BY <1>1 DEF ExInv, Searching
<1>3. child \in {"search", "shell"} /\ FALSE \in BOOLEAN /\ (FALSE <=> child = "shell")
  BY <1>1
<1>4. CASE /\ Becomes("running")
           /\ attempts' = Append(attempts, Tried("done", FALSE))
           /\ UNCHANGED <<argv, dirs, errno, sticky>>
  BY <1>1, <1>3, <1>4, Runs
<1>5. ASSUME NEW e \in (Skipped \cup Fatal) \ {"ENOEXEC"}, AfterFailure(e),
             attempts' = Append(attempts, Tried(e, FALSE)), UNCHANGED argv
      PROVE  ExInv'
  <2>1. e \in Errnos /\ argv' = Vector
    BY <1>2, <1>5 DEF Errnos
  <2> QED
    BY <1>1, <1>3, <1>5, <2>1, FailureOK
<1>6. CASE /\ child' = "shell"
           /\ errno' = "ENOEXEC"
           /\ argv' = <<Sh, Head(dirs)>> \o SubSeq(argv, 2, Len(argv) - 1)
           /\ UNCHANGED <<dirs, sticky, attempts, told>>
  <2>1. /\ path \in PathVars /\ cmdline \in Seq(Words) /\ cmdline # <<>> /\ cmdline[1] # NoWord
        /\ Head(dirs) \in Dirs /\ AllPassed /\ told = "nothing"
        /\ dirs = SubSeq(Files, Len(attempts) + 1, Len(Files))
    BY <1>1, SearchTyped, NextFile
  <2>2. argv' = ShellWords(Head(dirs)) \o <<Null>>
    <3> DEFINE d == Head(dirs)
    <3>1. Words \cup {Sh} \subseteq AllWords /\ d \in AllWords
      BY <2>1, WordsTyped
    <3>2. argv = cmdline \o <<Null, Null>>
      BY <1>2 DEF Vector
    <3>3. argv' = <<Sh, d>> \o SubSeq(argv, 2, Len(argv) - 1)
      BY <1>6
    <3> HIDE DEF d
    <3>4. <<Sh, d>> \o SubSeq(argv, 2, Len(argv) - 1) = (<<Sh, d>> \o Tail(cmdline)) \o <<Null>>
      BY <2>1, <3>1, <3>2, ShiftForShell
    <3>5. argv' = ShellWords(d) \o <<Null>>
      BY <3>3, <3>4 DEF ShellWords
    <3> QED
      BY <3>5 DEF d
  <2>3. argv' \in WordLists
    BY <2>1, <2>2, ShellGives
  <2>4. /\ UNCHANGED <<cmdline, path, env>> /\ Tries' /\ attempts' \in Seq(Attempts') /\ WordLists' = WordLists
        /\ Files' = Files /\ AllPassed'
    BY <1>1, <1>6, <2>1, Unrecorded
  <2>5. Denied' <=> Denied
    BY <1>6 DEF Denied
  <2>6. ExTypeOK'
    BY <1>6, <2>3, <2>4, Errors DEF ExInv, ExTypeOK
  <2>7. argv' = (ShellWords(Head(dirs)) \o <<Null>>)'
    BY <1>6, <2>2, <2>4 DEF ShellWords
  <2>8. sticky' = (IF Denied' THEN "EACCES" ELSE "none") /\ (Denied' => Files' # <<"as it is">>)
    BY <1>1, <1>6, <2>4, <2>5 DEF ExInv, Searching
  <2>9. dirs' = SubSeq(Files', Len(attempts') + 1, Len(Files')) /\ told' = "nothing" /\ dirs' # <<>>
    BY <1>1, <1>6, <2>1, <2>4
  <2>10. Searching'
    BY <1>6, <2>1, <2>4, <2>7, <2>8, <2>9 DEF Searching
  <2>11. Idle' /\ Over'
    BY <1>6 DEF Idle, Over
  <2> QED
    BY <2>4, <2>6, <2>10, <2>11 DEF ExInv
<1> QED
  BY <1>4, <1>5, <1>6 DEF Execve

LEMMA ExecveShellOK ==
    ASSUME ExInv, ExecveShell
    PROVE  ExInv'
<1>1. child = "shell" /\ UNCHANGED builderVars
  BY DEF ExecveShell
<1>2. dirs # <<>> /\ argv = ShellWords(Head(dirs)) \o <<Null>>
  BY <1>1 DEF ExInv, Searching
<1>3. child \in {"search", "shell"} /\ TRUE \in BOOLEAN /\ (TRUE <=> child = "shell")
  BY <1>1
<1>4. CASE /\ Becomes("running")
           /\ attempts' = Append(attempts, Tried("done", TRUE))
           /\ UNCHANGED <<argv, dirs, errno, sticky>>
  BY <1>1, <1>2, <1>3, <1>4, Runs
<1>5. ASSUME NEW e \in Skipped \cup Fatal, AfterFailure(e),
             attempts' = Append(attempts, Tried(e, TRUE)), argv' = Unshifted
      PROVE  ExInv'
  <2>1. /\ path \in PathVars /\ cmdline \in Seq(Words) /\ cmdline # <<>> /\ Head(dirs) \in Dirs
    BY <1>2, <1>3, SearchTyped, NextFile
  <2>2. Unshifted = Vector
    <3> DEFINE d == Head(dirs)
    <3>1. Words \cup {Sh} \subseteq AllWords /\ d \in AllWords
      BY <2>1, WordsTyped
    <3>2. argv = (<<Sh, d>> \o Tail(cmdline)) \o <<Null>>
      BY <1>2 DEF ShellWords
    <3> HIDE DEF d
    <3>3. <<cmdline[1]>> \o SubSeq(argv, 3, Len(argv)) \o <<argv[Len(argv)]>> = cmdline \o <<Null, Null>>
      BY <2>1, <3>1, <3>2, ShiftBack
    <3> QED
      BY <3>3 DEF Unshifted, Vector
  <2>3. e \in Errnos
    BY DEF Errnos
  <2>4. argv' = Vector
    BY <1>5, <2>2
  <2> QED
    BY <1>1, <1>2, <1>3, <1>5, <2>3, <2>4, FailureOK
<1> QED
  BY <1>4, <1>5 DEF ExecveShell

LEMMA OverrunOK ==
    ASSUME ExInv, Overrun
    PROVE  ExInv'
<1>1. child = "shell" /\ child' = "crashed" /\ told' = "started"
      /\ UNCHANGED <<builderVars, attempts>> /\ UNCHANGED <<argv, dirs, errno, sticky>>
  BY DEF Overrun, Becomes
<1>2. errno = "ENOEXEC" /\ AllPassed
  BY <1>1 DEF ExInv, Searching
<1>3. UNCHANGED <<cmdline, path, env>> /\ Tries' /\ attempts' \in Seq(Attempts') /\ WordLists' = WordLists
      /\ AllPassed'
  BY <1>1, <1>2, Unrecorded
<1>4. ExTypeOK'
  BY <1>1, <1>3 DEF ExInv, ExTypeOK
<1>5. Idle' /\ Searching' /\ Over'
  BY <1>1, <1>2, <1>3 DEF Idle, Searching, Over
<1> QED
  BY <1>3, <1>4, <1>5 DEF ExInv

LEMMA SearchEndsOK ==
    ASSUME ExInv, SearchEnds
    PROVE  ExInv'
<1>1. /\ child = "search" /\ dirs = <<>> /\ child' = "exited" /\ told' = errno'
      /\ errno' = (IF sticky # "none" THEN sticky ELSE errno)
      /\ UNCHANGED <<builderVars, attempts>> /\ UNCHANGED <<argv, dirs, sticky>>
  BY DEF SearchEnds, ExitWithError
<1>2. /\ path \in PathVars /\ cmdline \in Seq(Words) /\ cmdline # <<>> /\ cmdline[1] # NoWord
      /\ attempts \in Seq(Attempts) /\ Len(attempts) \in Nat /\ Len(attempts) <= Len(Files)
      /\ Files \in Seq(Dirs) /\ Len(Files) \in Nat /\ AllPassed
      /\ dirs = SubSeq(Files, Len(attempts) + 1, Len(Files))
  BY <1>1, SearchTyped
<1>3. Len(attempts) = Len(Files)
  <2> DEFINE n == Len(attempts)
             m == Len(Files)
  <2>1. n \in Nat /\ m \in Nat /\ n <= m
    BY <1>2
  <2>2. n + 1 <= m => SubSeq(Files, n + 1, m) # <<>>
    <3> HAVE n + 1 <= m
    <3> HIDE DEF n, m
    <3>1. n + 1 \in 1..m /\ m \in (n + 1)..m
      BY <2>1
    <3>2. Len(Files) = m
      BY DEF m
    <3>3. Len(SubSeq(Files, n + 1, m)) = m - (n + 1) + 1
      BY <1>2, <3>1, <3>2, SubSeqProperties, ElementOfSeq
    <3>4. m - (n + 1) + 1 # 0
      BY <2>1
    <3> QED
      BY <3>3, <3>4
  <2>3. ~(n + 1 <= m)
    BY <1>1, <1>2, <2>2
  <2> HIDE DEF n, m
  <2>4. n = m
    BY <2>1, <2>3
  <2> QED
    BY <2>4 DEF n, m
<1>4. attempts # <<>>
  <2>1. Len(attempts) # 0
    BY <1>2, <1>3, FilesFacts
  <2> QED
    BY <2>1
<1>5. /\ sticky = (IF Denied THEN "EACCES" ELSE "none") /\ (Denied => Files # <<"as it is">>)
      /\ errno = ErrnoOf(attempts[Len(attempts)])
  BY <1>1, <1>4 DEF ExInv, Searching
<1>6. Len(attempts) \in 1..Len(attempts)
  <2>1. Len(attempts) # 0
    BY <1>2, <1>4, EmptySeq
  <2> QED
    BY <1>2, <2>1
<1>7. Passed(attempts[Len(attempts)])
  BY <1>2, <1>6 DEF AllPassed
<1>8. attempts[Len(attempts)].answer # "done" /\ ErrnoOf(attempts[Len(attempts)]) \in Errnos
  <2>1. attempts[Len(attempts)].answer \in Skipped \cup {"too long"}
    BY <1>7 DEF Passed
  <2> QED
    BY <2>1, Errors DEF ErrnoOf
<1>9. AllButLastPassed
  <2>1. \A i \in 1..Len(attempts) - 1 : i \in 1..Len(attempts)
    BY <1>2
  <2> QED
    BY <1>2, <2>1 DEF AllPassed, AllButLastPassed
<1>10. /\ UNCHANGED <<cmdline, path, env>> /\ Tries' /\ attempts' \in Seq(Attempts') /\ WordLists' = WordLists
       /\ Files' = Files /\ AllButLastPassed'
  BY <1>1, <1>9, Unrecorded
<1>11. told' \in Errnos /\ told' = IF Files # <<"as it is">> /\ Denied THEN "EACCES"
                                   ELSE ErrnoOf(attempts[Len(attempts)])
  BY <1>1, <1>5, <1>8, Errors
<1>12. ExTypeOK'
  BY <1>1, <1>10, <1>11 DEF ExInv, ExTypeOK
<1>13. Idle' /\ Searching'
  BY <1>1 DEF Idle, Searching
<1>14. Over'
  <2>1. attempts' = attempts
    BY <1>1
  <2>2. Denied' <=> Denied
    BY <2>1 DEF Denied
  <2>3. Passed(attempts[Len(attempts)])' /\ ErrnoOf(attempts[Len(attempts)])' = ErrnoOf(attempts[Len(attempts)])
    BY <1>7, <2>1 DEF Passed, ErrnoOf
  <2> QED
    BY <1>1, <1>2, <1>3, <1>4, <1>8, <1>10, <1>11, <2>1, <2>2, <2>3 DEF Over
<1> QED
  BY <1>10, <1>12, <1>13, <1>14 DEF ExInv

LEMMA SearchStutters ==
    ASSUME ExInv, UNCHANGED exVars
    PROVE  ExInv'
<1>1. UNCHANGED <<cmdline, env, path, child, argv, dirs, errno, sticky, attempts, told>>
  BY DEF exVars
<1>2. UNCHANGED <<builderVars, attempts>> /\ UNCHANGED <<cmdline, env, path, child, argv, dirs, errno, sticky, told>>
  BY DEF exVars, builderVars
<1>3. /\ Tries' /\ attempts' \in Seq(Attempts') /\ WordLists' = WordLists
      /\ Files' = Files /\ Vector' = Vector
      /\ (AllPassed' <=> AllPassed) /\ (AllButLastPassed' <=> AllButLastPassed)
  BY <1>2, Unrecorded
<1>4. ExTypeOK' /\ Idle'
  BY <1>1, <1>3 DEF ExInv, ExTypeOK, Idle
<1>5. Denied' <=> Denied
  BY <1>1 DEF Denied
<1>6. Searching'
  BY <1>1, <1>3, <1>5 DEF ExInv, Searching, ErrnoOf, ShellWords
<1>7. Over'
  BY <1>1, <1>3, <1>5 DEF ExInv, Over, ErrnoOf, Passed
<1> QED
  BY <1>3, <1>4, <1>6, <1>7 DEF ExInv

(* The inductive invariant: the attempts follow the files of the search    *)
(* in order, what is left of them is in dirs, sticky remembers a refusal,  *)
(* and the argument vector is that of child_proc, shifted for a shell.     *)
THEOREM SearchInvariant == ExSpec => []ExInv
<1>1. ExInit => ExInv
  BY ExInitOK
<1>2. ExInv /\ [ExNext]_exVars => ExInv'
  <2> SUFFICES ASSUME ExInv, [ExNext]_exVars PROVE ExInv'
    OBVIOUS
  <2>1. ASSUME NEW w \in Words, Command(w) PROVE ExInv'
    BY <2>1, CommandOK
  <2>2. ASSUME NEW c \in Arguments, SetArguments(c) PROVE ExInv'
    BY <2>2, SetArgumentsOK
  <2>3. ASSUME NEW k \in Keys, NEW v \in Values, Environment(k, v) PROVE ExInv'
    BY <2>3, EnvironmentOK
  <2>4. CASE Start
    BY <2>4, StartOK
  <2>5. CASE NoFile
    BY <2>5, NoFileOK
  <2>6. CASE EmptyFile
    BY <2>6, EmptyFileOK
  <2>7. CASE ChooseFiles
    BY <2>7, ChooseFilesOK
  <2>8. CASE TooLong
    BY <2>8, TooLongOK
  <2>9. CASE Execve
    BY <2>9, ExecveOK
  <2>10. CASE ExecveShell
    BY <2>10, ExecveShellOK
  <2>11. CASE Overrun
    BY <2>11, OverrunOK
  <2>12. CASE SearchEnds
    BY <2>12, SearchEndsOK
  <2>13. CASE UNCHANGED exVars
    BY <2>13, SearchStutters
  <2> QED
    BY <2>1, <2>2, <2>3, <2>4, <2>5, <2>6, <2>7, <2>8, <2>9, <2>10, <2>11, <2>12, <2>13 DEF ExNext
<1> QED
  BY <1>1, <1>2, PTL DEF ExSpec

(* The builder and the child keep their variables in their types: the      *)
(* shifts of the argument vector never bring in a word of another kind.    *)
THEOREM SearchTypeCorrect == ExSpec => []ExTypeOK
<1>1. ExInv => ExTypeOK
  BY DEF ExInv
<1> QED
  BY <1>1, SearchInvariant, PTL

(* Every search of mpp_execvpe tries the files of PATH, each once and in   *)
(* their order, with the words of the command line, and tells EACCES when  *)
(* a file was refused and no other was found, else the last errno.         *)
THEOREM SearchAnswersAlways == ExSpec => []SearchAnswers
<1>1. ExInv => SearchAnswers
  <2> SUFFICES ASSUME ExInv PROVE SearchAnswers
    OBVIOUS
  <2> DEFINE n == Len(attempts)
  <2>1. attempts \in Seq(Attempts) /\ n \in Nat /\ n <= Len(Files)
    <3>1. attempts \in Seq(Attempts)
      BY DEF ExInv
    <3> QED
      BY <3>1, LenProperties DEF ExInv, Tries
  <2>2. \A i \in 1..n : /\ attempts[i].dir = Files[i]
                        /\ attempts[i].argv = IF attempts[i].shell THEN <<Sh, Files[i]>> \o Tail(cmdline)
                                              ELSE cmdline
    BY DEF ExInv, Tries, ShellWords
  <2>3. child \in {"none", "execvpe", "search", "shell", "running", "crashed", "exited"}
    BY DEF ExInv, ExTypeOK
  <2>4. attempts = <<>> <=> n = 0
    BY <2>1, EmptySeq
  <2>5. AllPassed => AllButLastPassed /\ (n > 0 => attempts[n].answer # "done")
    <3> HAVE AllPassed
    <3>1. \A i \in 1..n - 1 : i \in 1..n
      BY <2>1
    <3>2. n > 0 => n \in 1..n
      BY <2>1
    <3>3. n > 0 => attempts[n].answer \in Skipped \cup {"too long"}
      BY <3>2 DEF AllPassed, Passed
    <3>4. n > 0 => attempts[n].answer # "done"
      BY <3>3, Errors
    <3> QED
      BY <3>1, <3>4 DEF AllPassed, AllButLastPassed
  <2>6. attempts = <<>> => AllPassed
    <3> HAVE attempts = <<>>
    <3>1. n = 0
      BY <2>4
    <3> QED
      BY <3>1 DEF AllPassed
  <2>7. AllButLastPassed
    BY <2>3, <2>5, <2>6 DEF ExInv, Idle, Searching, Over
  <2>8. ASSUME NEW i \in 1..n, i < n PROVE Passed(attempts[i])
    <3>1. i \in 1..n - 1
      BY <2>1, <2>8
    <3> QED
      BY <2>7, <3>1 DEF AllButLastPassed
  <2>9. child = "running" <=> n > 0 /\ attempts[n].answer = "done"
    <3>1. child = "running" => n > 0 /\ attempts[n].answer = "done"
      <4> HAVE child = "running"
      <4>1. attempts # <<>> /\ attempts[n].answer = "done"
        BY DEF ExInv, Over
      <4>2. n # 0
        BY <2>4, <4>1
      <4>3. n > 0
        BY <2>1, <4>2
      <4> QED
        BY <4>1, <4>3
    <3>2. child # "running" => ~(n > 0 /\ attempts[n].answer = "done")
      <4> HAVE child # "running"
      <4>1. CASE child \in {"none", "execvpe"}
        BY <2>5, <2>6, <4>1 DEF ExInv, Idle
      <4>2. CASE child \in {"search", "shell", "crashed"}
        BY <2>5, <4>2 DEF ExInv, Searching, Over
      <4>3. CASE child = "exited"
        BY <2>5, <2>6, <4>3 DEF ExInv, Over
      <4> QED
        BY <2>3, <4>1, <4>2, <4>3
    <3> QED
      BY <3>1, <3>2
  <2>10. child = "exited" /\ cmdline[1] # NoWord =>
              /\ Passed(attempts[n]) => n = Len(Files)
              /\ told = IF Passed(attempts[n]) /\ Files # <<"as it is">>
                           /\ \E i \in 1..n : attempts[i].answer = "EACCES"
                        THEN "EACCES" ELSE ErrnoOf(attempts[n])
    BY DEF ExInv, Over, Denied
  <2> HIDE DEF n
  <2>11. n = Len(attempts)
    BY DEF n
  <2> QED
    BY Zenon, <2>1, <2>2, <2>8, <2>9, <2>10, <2>11 DEF SearchAnswers, Files, Passed, ErrnoOf
<1> QED
  BY <1>1, SearchInvariant, PTL

(* The parent takes end of file for a running program: it is wrong only    *)
(* for a builder without words and after the overrun of argv.              *)
THEOREM SilentDeathAlways == ExSpec => []SilentDeath
<1>1. ExInv => SilentDeath
  <2> SUFFICES ASSUME ExInv PROVE SilentDeath
    OBVIOUS
  <2>1. child \in {"none", "execvpe", "search", "shell", "running", "crashed", "exited"}
    BY DEF ExInv, ExTypeOK
  <2>2. child = "exited" => told \in Errnos
    BY DEF ExInv, Over
  <2>3. told = "started" /\ child # "running" => child = "crashed"
    BY <2>1, <2>2, Errors DEF ExInv, Idle, Searching
  <2>4. child = "crashed" => cmdline = <<>> \/ errno = "ENOEXEC"
    BY DEF ExInv, Over
  <2> QED
    BY <2>2, <2>3, <2>4 DEF SilentDeath
<1> QED
  BY <1>1, SearchInvariant, PTL

(* The first word of a line is replaced.                                   *)
LEMMA NewFirst ==
    ASSUME NEW S, NEW p \in Seq(S), Len(p) = 1, NEW q \in Seq(S), NEW w
    PROVE  p \o q # <<>> /\ [(p \o q) EXCEPT ![1] = w] = <<w>> \o q
<1> DEFINE U == S \cup {w}
           m == Len(q)
<1>1. p \in Seq(U) /\ q \in Seq(U) /\ m \in Nat /\ <<w>> \in Seq(U) /\ Len(<<w>>) = 1 /\ <<w>>[1] = w
  OBVIOUS
<1>2. w \in U
  OBVIOUS
<1>3. PICK line : line = p \o q
  OBVIOUS
<1>4. PICK one \in 1..(m + 1) : one = 1
  OBVIOUS
<1> HIDE DEF U, m
<1>5. /\ line \in Seq(U) /\ Len(line) = m + 1
      /\ \A i \in 1..(m + 1) : line[i] = IF i <= 1 THEN p[i] ELSE q[i - 1]
  <2>1. /\ p \o q \in Seq(U) /\ Len(p \o q) = Len(p) + Len(q)
        /\ \A i \in 1..(Len(p) + Len(q)) : (p \o q)[i] = IF i <= Len(p) THEN p[i] ELSE q[i - Len(p)]
    BY <1>1, ConcatProperties
  <2> QED
    BY <1>1, <1>3, <2>1 DEF m
<1>6. /\ <<w>> \o q \in Seq(U) /\ Len(<<w>> \o q) = m + 1
      /\ \A i \in 1..(m + 1) : (<<w>> \o q)[i] = IF i <= 1 THEN <<w>>[i] ELSE q[i - 1]
  BY <1>1, ConcatProperties DEF m
<1>7. PICK next : next = [line EXCEPT ![one] = w]
  OBVIOUS
<1>8. next \in Seq(U) /\ Len(next) = m + 1 /\ \A i \in 1..(m + 1) : next[i] = IF i = one THEN w ELSE line[i]
  <2>1. one \in 1..Len(line)
    BY <1>4, <1>5
  <2>2. /\ [line EXCEPT ![one] = w] \in Seq(U) /\ Len([line EXCEPT ![one] = w]) = Len(line)
        /\ \A j \in 1..Len(line) : [line EXCEPT ![one] = w][j] = IF j = one THEN w ELSE line[j]
    BY <1>2, <1>5, <2>1, ExceptSeq
  <2> QED
    BY <1>5, <1>7, <2>2
<1>9. next = <<w>> \o q
  <2>1. \A i \in 1..Len(next) : next[i] = (<<w>> \o q)[i]
    BY <1>1, <1>4, <1>5, <1>6, <1>8
  <2> QED
    BY <1>6, <1>8, <2>1, SeqEqual
<1>10. line # <<>>
  BY <1>1, <1>5
<1> QED
  BY <1>3, <1>4, <1>7, <1>9, <1>10

--------------------------------------------------------------------------------
(* The builder.  In the history of its setters s, Used are the calls of a  *)
(* kind that gave any words; a line and an environment follow from them.   *)
CallRecords ==
    [op : {"command", "arguments", "environment"}, words : Seq(Words \cup Keys \cup Values)]
Used(s, op) == {i \in 1..Len(s) : s[i].op = op /\ s[i].words # <<>>}
CommandFirst(s) == \A a \in Used(s, "arguments") : \E c \in Used(s, "command") : c < a
LastIn(set, c) == c \in set /\ \A d \in set : d <= c
FirstIn(set, a) == a \in set /\ \A b \in set : a <= b

History(s) ==
    /\ s \in Seq(CallRecords)
    /\ \A c \in Used(s, "command") : Len(s[c].words) = 1
    /\ Used(s, "command") # {} => \E c \in Used(s, "command") : LastIn(Used(s, "command"), c)
    /\ Used(s, "arguments") # {} => \E a \in Used(s, "arguments") : FirstIn(Used(s, "arguments"), a)

LineOf(s, line) ==
    /\ Used(s, "command") = {} /\ Used(s, "arguments") = {} => line = <<>>
    /\ CommandFirst(s) => \A c : LastIn(Used(s, "command"), c) =>
          /\ Used(s, "arguments") = {} => line = s[c].words
          /\ \A a : FirstIn(Used(s, "arguments"), a) => line = s[c].words \o s[a].words

NewKey(s, i) ==
    \A d \in Used(s, "environment") : d < i => s[d].words[1] # s[i].words[1]
EnvironmentOf(s, e) ==
    /\ \A i \in Used(s, "environment") : s[i].words[1] \in DOMAIN e
    /\ \A k \in DOMAIN e : \E i \in Used(s, "environment") : s[i].words[1] = k
    /\ \A i \in Used(s, "environment") : NewKey(s, i) => e[s[i].words[1]] = s[i].words[2]

BuilderInv == History(calls) /\ LineOf(calls, cmdline) /\ EnvironmentOf(calls, env)

(* The number behind all numbers of a set is its last one, and the first   *)
(* one only if there was none.                                             *)
LEMMA LastNow ==
    ASSUME NEW n \in Nat, NEW X \in SUBSET 1..n, NEW Y, Y = X \cup {n + 1}
    PROVE  LastIn(Y, n + 1) /\ \A c : LastIn(Y, c) => c = n + 1
<1>1. \A c \in X : c \in Nat /\ c <= n + 1 /\ ~(n + 1 <= c)
  OBVIOUS
<1>2. n + 1 <= n + 1
  OBVIOUS
<1> QED
  BY <1>1, <1>2 DEF LastIn

LEMMA SoleFirst ==
    ASSUME NEW n \in Nat, NEW Y, Y = {n + 1}
    PROVE  FirstIn(Y, n + 1) /\ \A a : FirstIn(Y, a) => a = n + 1
BY DEF FirstIn

LEMMA FirstStill ==
    ASSUME NEW n \in Nat, NEW X \in SUBSET 1..n, NEW Y, Y = X \cup {n + 1}, NEW a, FirstIn(X, a)
    PROVE  FirstIn(Y, a) /\ \A b : FirstIn(Y, b) => b = a
<1>1. \A b \in X : b \in Nat /\ b <= n + 1 /\ ~(n + 1 <= b)
  OBVIOUS
<1>2. a \in X /\ \A b \in X : a <= b
  BY DEF FirstIn
<1>3. FirstIn(Y, a)
  BY <1>1, <1>2 DEF FirstIn
<1>4. ASSUME NEW b, FirstIn(Y, b) PROVE b = a
  <2>1. b \in X /\ b <= a
    BY <1>1, <1>2, <1>4 DEF FirstIn
  <2> QED
    BY <1>1, <1>2, <2>1
<1> QED
  BY <1>3, <1>4

(* One more call.                                                          *)
OneMore(s, r, t) ==
    /\ t \in Seq(CallRecords) /\ Len(s) \in Nat /\ Len(t) = Len(s) + 1
    /\ t[Len(s) + 1] = r /\ \A i \in 1..Len(s) : t[i] = s[i]
    /\ \A op : Used(s, op) \in SUBSET 1..Len(s)
    /\ \A op : Used(t, op) = IF r.op = op /\ r.words # <<>>
                             THEN Used(s, op) \cup {Len(s) + 1} ELSE Used(s, op)

LEMMA OneMoreCall ==
    ASSUME NEW s, s \in Seq(CallRecords), NEW r \in CallRecords
    PROVE  OneMore(s, r, Append(s, r))
<1> DEFINE t == Append(s, r)
<1>1. /\ t \in Seq(CallRecords) /\ Len(s) \in Nat /\ Len(t) = Len(s) + 1
      /\ t[Len(s) + 1] = r /\ \A i \in 1..Len(s) : t[i] = s[i]
  OBVIOUS
<1> HIDE DEF t
<1>2. ASSUME NEW op
      PROVE  Used(t, op) = IF r.op = op /\ r.words # <<>>
                           THEN Used(s, op) \cup {Len(s) + 1} ELSE Used(s, op)
  <2>1. \A i : i \in 1..Len(t) <=> i \in 1..Len(s) \/ i = Len(s) + 1
    BY <1>1
  <2> QED
    BY <1>1, <2>1 DEF Used
<1>3. \A op : Used(s, op) \in SUBSET 1..Len(s)
  BY DEF Used
<1> QED
  BY <1>1, <1>2, <1>3 DEF OneMore, t

LEMMA WordsOfCall ==
    ASSUME NEW s, s \in Seq(CallRecords), NEW i \in 1..Len(s)
    PROVE  s[i].words \in Seq(Words \cup Keys \cup Values) /\ s[i].op \in {"command", "arguments", "environment"}
<1>1. s[i] \in CallRecords
  BY ElementOfSeq
<1> QED
  BY <1>1 DEF CallRecords

LEMMA CommandKeeps ==
    ASSUME NEW s, History(s), NEW line \in Seq(Words), LineOf(s, line), NEW w \in Words,
           NEW r, r.op = "command", r.words = <<w>>, NEW t, OneMore(s, r, t),
           NEW next, next = IF line = <<>> THEN <<w>> ELSE [line EXCEPT ![1] = w]
    PROVE  History(t) /\ LineOf(t, next)
<1> DEFINE n == Len(s)
<1>1. r.op = "command" /\ r.words = <<w>>
  OBVIOUS
<1>2. r.words # <<>> /\ Len(r.words) = 1
  BY <1>1
<1>3. s \in Seq(CallRecords)
  BY DEF History
<1>4. OneMore(s, r, t)
  OBVIOUS
<1>5. /\ t \in Seq(CallRecords) /\ n \in Nat /\ t[n + 1] = r /\ \A i \in 1..n : t[i] = s[i]
      /\ Used(t, "command") = Used(s, "command") \cup {n + 1}
      /\ Used(t, "arguments") = Used(s, "arguments")
      /\ \A op : Used(s, op) \in SUBSET 1..n
  BY <1>1, <1>2, <1>4 DEF OneMore
<1> HIDE DEF n
<1>6. \A op : \A i \in Used(s, op) : i \in 1..n /\ i < n + 1
  BY <1>5
<1>7. LastIn(Used(t, "command"), n + 1) /\ \A c : LastIn(Used(t, "command"), c) => c = n + 1
  BY <1>5, LastNow
<1>8. History(t)
  <2>1. \A c \in Used(t, "command") : Len(t[c].words) = 1
    BY <1>2, <1>5, <1>6 DEF History
  <2> QED
    BY <1>5, <1>7, <2>1 DEF History, LastIn
<1>9. ASSUME CommandFirst(t) PROVE CommandFirst(s)
  <2> SUFFICES ASSUME NEW a \in Used(s, "arguments") PROVE \E c \in Used(s, "command") : c < a
    BY DEF CommandFirst
  <2>1. PICK c \in Used(t, "command") : c < a
    BY <1>5, <1>9 DEF CommandFirst
  <2> QED
    BY <1>5, <1>6, <2>1
<1>10. ASSUME CommandFirst(t)
      PROVE  /\ Used(t, "arguments") = {} => next = <<w>>
             /\ \A a : FirstIn(Used(t, "arguments"), a) => next = <<w>> \o t[a].words
  <2>1. CASE Used(s, "command") = {}
    <3>1. Used(s, "arguments") = {}
      BY <1>9, <1>10, <2>1 DEF CommandFirst
    <3> QED
      BY <1>5, <2>1, <3>1 DEF LineOf, FirstIn
  <2>2. CASE Used(s, "command") # {}
    <3>1. PICK c : LastIn(Used(s, "command"), c)
      BY <2>2 DEF History
    <3>2. c \in Used(s, "command") /\ c \in 1..n /\ Len(s[c].words) = 1
      BY <1>6, <3>1 DEF History, LastIn
    <3>3. s[c].words \in Seq(Words \cup Keys \cup Values)
      BY <1>3, <3>2, WordsOfCall DEF n
    <3>4. CASE Used(s, "arguments") = {}
      <4>1. line = s[c].words
        BY <1>9, <1>10, <3>1, <3>4 DEF LineOf
      <4> QED
        BY <1>5, <3>2, <3>3, <3>4, <4>1 DEF FirstIn
    <3>5. ASSUME NEW a, FirstIn(Used(t, "arguments"), a) PROVE next = <<w>> \o t[a].words
      <4>1. FirstIn(Used(s, "arguments"), a) /\ a \in 1..n /\ t[a] = s[a]
        BY <1>5, <1>6, <3>5 DEF FirstIn
      <4>2. line = s[c].words \o s[a].words
        BY <1>9, <1>10, <3>1, <4>1 DEF LineOf
      <4>3. s[a].words \in Seq(Words \cup Keys \cup Values)
        BY <1>3, <4>1, WordsOfCall DEF n
      <4> QED
        <5>1. PICK p \in Seq(Words \cup Keys \cup Values) : p = s[c].words
          BY <3>3
        <5>2. PICK q \in Seq(Words \cup Keys \cup Values) : q = s[a].words
          BY <4>3
        <5>3. p \o q # <<>> /\ [(p \o q) EXCEPT ![1] = w] = <<w>> \o q
          <6>1. Len(p) = 1
            BY <3>2, <5>1
          <6> QED
            BY <6>1, NewFirst
        <5>4. line = p \o q
          BY <4>2, <5>1, <5>2
        <5> QED
          BY <4>1, <5>2, <5>3, <5>4
    <3> QED
      BY <1>5, <3>4, <3>5
  <2> QED
    BY <2>1, <2>2
<1>11. LineOf(t, next)
  <2>1. Used(t, "command") # {}
    BY <1>5
  <2>2. t[n + 1].words = <<w>>
    BY <1>1, <1>5
  <2> QED
    BY <1>7, <1>10, <2>1, <2>2 DEF LineOf
<1> QED
  BY <1>8, <1>11

LEMMA ArgumentsKeep ==
    ASSUME NEW s, History(s), NEW line \in Seq(Words), LineOf(s, line), NEW c \in Seq(Words),
           NEW r, r.op = "arguments", r.words = c, NEW t, OneMore(s, r, t),
           NEW next, next = IF Len(line) <= 1 THEN line \o c ELSE line
    PROVE  History(t) /\ LineOf(t, next)
<1> DEFINE n == Len(s)
<1>1. Len(line) \in Nat
  OBVIOUS
<1>2. s \in Seq(CallRecords) /\ r.op = "arguments" /\ r.words = c
  BY DEF History
<1>3. OneMore(s, r, t)
  OBVIOUS
<1>4. /\ t \in Seq(CallRecords) /\ n \in Nat /\ t[n + 1] = r /\ \A i \in 1..n : t[i] = s[i]
      /\ Used(t, "command") = Used(s, "command")
      /\ Used(t, "arguments") = IF c # <<>> THEN Used(s, "arguments") \cup {n + 1}
                                ELSE Used(s, "arguments")
      /\ \A op : Used(s, op) \in SUBSET 1..n
  BY <1>2, <1>3 DEF OneMore
<1> HIDE DEF n
<1>5. ASSUME NEW op, NEW i \in Used(s, op) PROVE i \in 1..n /\ i < n + 1 /\ t[i] = s[i]
  <2>1. n \in Nat /\ \A j \in 1..n : t[j] = s[j]
    BY <1>4
  <2>2. i \in 1..n
    BY <1>4
  <2> QED
    BY <2>1, <2>2
<1>6. \A d \in Used(t, "command") : Len(t[d].words) = 1
  BY <1>4, <1>5 DEF History
<1>7. CASE c = <<>>
  <2>1. next = line
    BY <1>7, ConcatEmptySeq
  <2>2. History(t)
    BY <1>4, <1>6, <1>7 DEF History
  <2>3. \A op \in {"command", "arguments"} : \A i \in Used(t, op) : t[i] = s[i]
    BY <1>4, <1>5, <1>7
  <2>4. LineOf(t, line)
    <3>1. /\ Used(t, "command") = Used(s, "command") /\ Used(t, "arguments") = Used(s, "arguments")
          /\ CommandFirst(t) <=> CommandFirst(s)
      BY <1>4, <1>7 DEF CommandFirst
    <3>2. /\ \A d : LastIn(Used(t, "command"), d) => t[d] = s[d]
          /\ \A a : FirstIn(Used(t, "arguments"), a) => t[a] = s[a]
      BY <2>3 DEF LastIn, FirstIn
    <3> QED
      BY <3>1, <3>2 DEF LineOf
  <2> QED
    BY <2>1, <2>2, <2>4
<1>8. CASE c # <<>>
  <2>1. n + 1 \in Used(t, "arguments") /\ Used(t, "arguments") = Used(s, "arguments") \cup {n + 1}
    BY <1>4, <1>8
  <2>2. CASE Used(s, "arguments") = {}
    <3>1. FirstIn(Used(t, "arguments"), n + 1) /\ \A a : FirstIn(Used(t, "arguments"), a) => a = n + 1
      BY <1>4, <2>1, <2>2, SoleFirst
    <3>2. History(t)
      BY <1>4, <1>6, <2>1, <3>1 DEF History
    <3>3. ASSUME NEW d, LastIn(Used(t, "command"), d) PROVE next = t[d].words \o c
      <4>1. /\ LastIn(Used(s, "command"), d) /\ d \in 1..n /\ t[d] = s[d]
            /\ Len(s[d].words) = 1
        BY <1>4, <1>5, <3>3 DEF LastIn, History
      <4>2. CommandFirst(s)
        BY <2>2 DEF CommandFirst
      <4>3. line = s[d].words
        BY <2>2, <4>1, <4>2 DEF LineOf
      <4>4. next = line \o c
        <5>1. Len(line) = 1
          BY <4>1, <4>3
        <5> QED
          BY <5>1
      <4> QED
        BY <4>1, <4>3, <4>4
    <3>4. LineOf(t, next)
      BY <1>2, <1>4, <2>1, <3>1, <3>3 DEF LineOf
    <3> QED
      BY <3>2, <3>4
  <2>3. CASE Used(s, "arguments") # {}
    <3>1. PICK a : FirstIn(Used(s, "arguments"), a)
      BY <2>3 DEF History
    <3>2. a \in 1..n /\ a < n + 1 /\ a \in Used(s, "arguments") /\ t[a] = s[a] /\ s[a].words # <<>>
      BY <1>4, <1>5, <3>1 DEF FirstIn, Used
    <3>3. FirstIn(Used(t, "arguments"), a) /\ \A b : FirstIn(Used(t, "arguments"), b) => b = a
      BY <1>4, <2>1, <3>1, FirstStill
    <3>4. History(t)
      <4>1. Used(s, "command") = Used(t, "command") /\ a \in Used(t, "arguments")
        BY <1>4, <2>1, <3>2
      <4> QED
        BY <1>4, <1>6, <3>3, <4>1 DEF History
    <3>5. ASSUME CommandFirst(t) PROVE CommandFirst(s)
      BY <1>4, <2>1, <3>5 DEF CommandFirst
    <3>6. ASSUME CommandFirst(t), NEW d, LastIn(Used(t, "command"), d)
          PROVE  next = t[d].words \o t[a].words
      <4>1. /\ LastIn(Used(s, "command"), d) /\ d \in 1..n /\ t[d] = s[d]
            /\ Len(s[d].words) = 1
        BY <1>4, <1>5, <3>6 DEF LastIn, History
      <4>2. line = s[d].words \o s[a].words
        BY <3>1, <3>5, <3>6, <4>1 DEF LineOf
      <4>3. /\ s[d].words \in Seq(Words \cup Keys \cup Values)
            /\ s[a].words \in Seq(Words \cup Keys \cup Values)
        BY <1>2, <3>2, <4>1, WordsOfCall DEF n
      <4>4. Len(line) = 1 + Len(s[a].words)
        <5>1. Len(s[d].words \o s[a].words) = Len(s[d].words) + Len(s[a].words)
          BY <4>3, ConcatProperties
        <5> QED
          BY <4>1, <4>2, <5>1
      <4>5. Len(s[a].words) \in Nat \ {0}
        BY <3>2, <4>3, EmptySeq
      <4>6. next = line
        BY <4>4, <4>5
      <4> QED
        BY <3>2, <4>1, <4>2, <4>6
    <3>7. LineOf(t, next)
      BY <2>1, <3>3, <3>6 DEF LineOf
    <3> QED
      BY <3>4, <3>7
  <2> QED
    BY <2>2, <2>3
<1> QED
  BY <1>7, <1>8

(* What a call says to the environment, and to nothing else.               *)
Emplaced(e, k, v) ==
    IF k \in DOMAIN e THEN e ELSE [x \in DOMAIN e \cup {k} |-> IF x = k THEN v ELSE e[x]]

LEMMA EnvironmentKeeps ==
    ASSUME NEW s, History(s), NEW line, LineOf(s, line), NEW e, EnvironmentOf(s, e),
           NEW k \in Keys, NEW v \in Values,
           NEW r, r.op = "environment", r.words = <<k, v>>, NEW t, OneMore(s, r, t)
    PROVE  History(t) /\ LineOf(t, line) /\ EnvironmentOf(t, Emplaced(e, k, v))
<1> DEFINE next == Emplaced(e, k, v)
<1> DEFINE n == Len(s)
<1>1. s \in Seq(CallRecords) /\ r.op = "environment"
  BY DEF History
<1>2. r.words # <<>> /\ r.words[1] = k /\ r.words[2] = v
  OBVIOUS
<1>3. OneMore(s, r, t)
  OBVIOUS
<1>4. /\ t \in Seq(CallRecords) /\ n \in Nat /\ t[n + 1] = r /\ \A i \in 1..n : t[i] = s[i]
      /\ Used(t, "command") = Used(s, "command") /\ Used(t, "arguments") = Used(s, "arguments")
      /\ Used(t, "environment") = Used(s, "environment") \cup {n + 1}
      /\ \A op : Used(s, op) \in SUBSET 1..n
  BY <1>1, <1>2, <1>3 DEF OneMore
<1> HIDE DEF n, next
<1>5. ASSUME NEW op, NEW i \in Used(s, op)
      PROVE  i \in 1..n /\ i < n + 1 /\ t[i] = s[i] /\ ~(n + 1 < i)
  <2>1. n \in Nat /\ \A j \in 1..n : t[j] = s[j]
    BY <1>4
  <2>2. i \in 1..n
    BY <1>4
  <2> QED
    BY <2>1, <2>2
<1>6. History(t)
  BY <1>4, <1>5 DEF History
<1>7. LineOf(t, line)
  <2>1. CommandFirst(t) <=> CommandFirst(s)
    BY <1>4 DEF CommandFirst
  <2>2. /\ \A c : LastIn(Used(s, "command"), c) => t[c] = s[c]
        /\ \A a : FirstIn(Used(s, "arguments"), a) => t[a] = s[a]
    BY <1>5 DEF LastIn, FirstIn
  <2> QED
    BY <1>4, <2>1, <2>2 DEF LineOf
<1>8. ASSUME NEW i \in Used(s, "environment")
      PROVE  /\ NewKey(t, i) => NewKey(s, i)
             /\ t[i].words = s[i].words /\ s[i].words[1] \in DOMAIN e
  BY <1>4, <1>5 DEF NewKey, EnvironmentOf
<1>9. NewKey(t, n + 1) => k \notin DOMAIN e
  <2> SUFFICES ASSUME NewKey(t, n + 1), k \in DOMAIN e PROVE FALSE
    OBVIOUS
  <2>1. PICK d \in Used(s, "environment") : s[d].words[1] = k
    BY DEF EnvironmentOf
  <2>2. d \in Used(t, "environment") /\ d < n + 1 /\ t[d] = s[d]
    BY <1>4, <1>5, <2>1
  <2>3. t[d].words[1] # t[n + 1].words[1]
    BY <2>2 DEF NewKey
  <2> QED
    BY <1>2, <1>4, <2>1, <2>2, <2>3
<1>10. CASE k \in DOMAIN e
  <2>1. next = e
    BY <1>10 DEF Emplaced, next
  <2>2. \A i \in Used(t, "environment") : t[i].words[1] \in DOMAIN e
    BY <1>2, <1>4, <1>8, <1>10
  <2>3. \A x \in DOMAIN e : \E i \in Used(t, "environment") : t[i].words[1] = x
    BY <1>4, <1>8 DEF EnvironmentOf
  <2>4. \A i \in Used(t, "environment") : NewKey(t, i) => e[t[i].words[1]] = t[i].words[2]
    BY <1>4, <1>8, <1>9, <1>10 DEF EnvironmentOf
  <2>5. EnvironmentOf(t, e)
    BY <2>2, <2>3, <2>4 DEF EnvironmentOf
  <2> QED
    BY <1>6, <1>7, <2>1, <2>5 DEF next
<1>11. CASE k \notin DOMAIN e
  <2>1. /\ DOMAIN next = DOMAIN e \cup {k} /\ next[k] = v
        /\ \A x \in DOMAIN e : next[x] = e[x]
    BY <1>11 DEF Emplaced, next
  <2>2. \A i \in Used(t, "environment") : t[i].words[1] \in DOMAIN next
    BY <1>2, <1>4, <1>8, <2>1
  <2>3. \A x \in DOMAIN next : \E i \in Used(t, "environment") : t[i].words[1] = x
    <3> SUFFICES ASSUME NEW x \in DOMAIN next
                 PROVE  \E i \in Used(t, "environment") : t[i].words[1] = x
      OBVIOUS
    <3>1. CASE x = k
      BY <1>2, <1>4, <3>1
    <3>2. CASE x \in DOMAIN e
      <4>1. PICK i \in Used(s, "environment") : s[i].words[1] = x
        BY <3>2 DEF EnvironmentOf
      <4> QED
        BY <1>4, <1>8, <4>1
    <3> QED
      BY <2>1, <3>1, <3>2
  <2>4. ASSUME NEW i \in Used(t, "environment"), NewKey(t, i)
        PROVE  next[t[i].words[1]] = t[i].words[2]
    <3>1. CASE i = n + 1
      BY <1>2, <1>4, <2>1, <3>1
    <3>2. CASE i \in Used(s, "environment")
      BY <1>8, <2>1, <2>4, <3>2 DEF EnvironmentOf
    <3> QED
      BY <1>4, <3>1, <3>2
  <2>5. EnvironmentOf(t, next)
    BY <2>2, <2>3, <2>4 DEF EnvironmentOf
  <2> QED
    BY <1>6, <1>7, <2>5 DEF next
<1> QED
  BY <1>10, <1>11 DEF next

(* Calls of another kind say nothing to the environment.                   *)
LEMMA EnvironmentStays ==
    ASSUME NEW s, s \in Seq(CallRecords), NEW e, EnvironmentOf(s, e),
           NEW r, r.op # "environment", NEW t, OneMore(s, r, t)
    PROVE  EnvironmentOf(t, e)
<1>1. OneMore(s, r, t)
  OBVIOUS
<1>2. Used(t, "environment") = Used(s, "environment")
  BY <1>1 DEF OneMore
<1>3. \A i \in Used(s, "environment") : t[i] = s[i]
  BY <1>1 DEF OneMore
<1>4. \A i \in Used(s, "environment") : NewKey(t, i) => NewKey(s, i)
  BY <1>2, <1>3 DEF NewKey
<1>5. \A i \in Used(t, "environment") : t[i].words[1] \in DOMAIN e
  BY <1>2, <1>3 DEF EnvironmentOf
<1>6. \A k \in DOMAIN e : \E i \in Used(t, "environment") : t[i].words[1] = k
  BY <1>2, <1>3 DEF EnvironmentOf
<1>7. \A i \in Used(t, "environment") : NewKey(t, i) => e[t[i].words[1]] = t[i].words[2]
  BY <1>2, <1>3, <1>4 DEF EnvironmentOf
<1> QED
  BY <1>5, <1>6, <1>7 DEF EnvironmentOf

LEMMA BuilderStep == ExTypeOK /\ BuilderInv /\ [ExNext]_exVars => BuilderInv'
<1> SUFFICES ASSUME ExTypeOK, BuilderInv, [ExNext]_exVars PROVE BuilderInv'
  OBVIOUS
<1>1. History(calls) /\ calls \in Seq(CallRecords) /\ cmdline \in Seq(Words)
  BY DEF ExTypeOK, BuilderInv, History
<1>2. ASSUME NEW w \in Words, Command(w) PROVE BuilderInv'
  <2>1. PICK r \in CallRecords : r = [op |-> "command", words |-> <<w>>]
    <3>1. <<w>> \in Seq(Words \cup Keys \cup Values)
      OBVIOUS
    <3>2. [op |-> "command", words |-> <<w>>] \in CallRecords
      BY <3>1 DEF CallRecords
    <3> QED
      BY <3>2
  <2>2. r.op = "command" /\ r.words = <<w>> /\ calls' = Append(calls, r) /\ env' = env
    BY <1>2, <2>1 DEF Command
  <2>3. OneMore(calls, r, calls')
    BY <1>1, <2>2, OneMoreCall
  <2>4. History(calls') /\ LineOf(calls', cmdline')
    BY <1>1, <1>2, <2>2, <2>3, CommandKeeps DEF Command, BuilderInv
  <2>5. EnvironmentOf(calls', env')
    BY <1>1, <2>2, <2>3, EnvironmentStays DEF BuilderInv
  <2> QED
    BY <2>4, <2>5 DEF BuilderInv
<1>3. ASSUME NEW c \in Arguments, SetArguments(c) PROVE BuilderInv'
  <2>1. c \in Seq(Words)
    BY SearchAssumption
  <2>2. PICK r \in CallRecords : r = [op |-> "arguments", words |-> c]
    <3>1. [op |-> "arguments", words |-> c] \in CallRecords
      BY <2>1 DEF CallRecords
    <3> QED
      BY <3>1
  <2>3. r.op = "arguments" /\ r.words = c /\ calls' = Append(calls, r) /\ env' = env
    BY <1>3, <2>2 DEF SetArguments
  <2>4. OneMore(calls, r, calls')
    BY <1>1, <2>3, OneMoreCall
  <2>5. History(calls') /\ LineOf(calls', cmdline')
    BY <1>1, <1>3, <2>1, <2>3, <2>4, ArgumentsKeep DEF SetArguments, BuilderInv
  <2>6. EnvironmentOf(calls', env')
    BY <1>1, <2>3, <2>4, EnvironmentStays DEF BuilderInv
  <2> QED
    BY <2>5, <2>6 DEF BuilderInv
<1>4. ASSUME NEW k \in Keys, NEW v \in Values, Environment(k, v) PROVE BuilderInv'
  <2>1. PICK r \in CallRecords : r = [op |-> "environment", words |-> <<k, v>>]
    <3>1. <<k, v>> \in Seq(Words \cup Keys \cup Values)
      OBVIOUS
    <3>2. [op |-> "environment", words |-> <<k, v>>] \in CallRecords
      BY <3>1 DEF CallRecords
    <3> QED
      BY <3>2
  <2>2. /\ r.op = "environment" /\ r.words = <<k, v>> /\ calls' = Append(calls, r)
        /\ cmdline' = cmdline
    BY <1>4, <2>1 DEF Environment
  <2>3. OneMore(calls, r, calls')
    BY <1>1, <2>2, OneMoreCall
  <2>4. env' = Emplaced(env, k, v)
    BY <1>4 DEF Environment, Emplaced
  <2>5. History(calls') /\ LineOf(calls', cmdline) /\ EnvironmentOf(calls', env')
    BY <1>1, <2>2, <2>3, <2>4, EnvironmentKeeps DEF BuilderInv
  <2> QED
    BY <2>2, <2>5 DEF BuilderInv
<1>5. ASSUME UNCHANGED builderVars PROVE BuilderInv'
  BY <1>5 DEF BuilderInv, builderVars
<1> QED
  BY <1>2, <1>3, <1>4, <1>5
     DEF ExNext, Start, NoFile, EmptyFile, ChooseFiles, TooLong, Execve, ExecveShell, Overrun,
         SearchEnds, exVars, builderVars

(* The builder keeps the words it was given, for any number of calls in    *)
(* any order: the last command, the first arguments, the first value of a  *)
(* key.                                                                    *)
THEOREM BuilderKeepsWordsAlways == ExSpec => []BuilderKeepsWords
<1>1. ExInit => BuilderInv
  <2> SUFFICES ASSUME ExInit PROVE BuilderInv
    OBVIOUS
  <2>1. \A op : Used(calls, op) = {}
    BY DEF ExInit, Used
  <2>2. calls \in Seq(CallRecords) /\ cmdline = <<>> /\ DOMAIN env = {}
    BY DEF ExInit
  <2> QED
    BY <2>1, <2>2 DEF BuilderInv, History, LineOf, LastIn, EnvironmentOf
<1>2. ExInv => ExTypeOK
  BY DEF ExInv
<1>3. BuilderInv => BuilderKeepsWords
  <2> SUFFICES ASSUME BuilderInv PROVE BuilderKeepsWords
    OBVIOUS
  <2>1. DOMAIN calls = 1..Len(calls)
    BY DEF BuilderInv, History
  <2>2. \A op : {i \in DOMAIN calls : calls[i].op = op /\ calls[i].words # <<>>} = Used(calls, op)
    BY <2>1 DEF Used
  <2> DEFINE commands == Used(calls, "command")
             lists == Used(calls, "arguments")
             pairs == Used(calls, "environment")
  <2>3. (\A a \in lists : \E c \in commands : c < a) =>
            \A c \in commands : (\A d \in commands : d <= c) =>
                /\ lists = {} => cmdline = calls[c].words
                /\ \A a \in lists : (\A b \in lists : a <= b) => cmdline = calls[c].words \o calls[a].words
    BY DEF BuilderInv, LineOf, CommandFirst, LastIn, FirstIn
  <2>4. \A e \in pairs :
            (\A d \in pairs : d < e => calls[d].words[1] # calls[e].words[1]) =>
                env[calls[e].words[1]] = calls[e].words[2]
    BY DEF BuilderInv, EnvironmentOf, NewKey
  <2>5. /\ {i \in DOMAIN calls : calls[i].op = "command" /\ calls[i].words # <<>>} = commands
        /\ {i \in DOMAIN calls : calls[i].op = "arguments" /\ calls[i].words # <<>>} = lists
        /\ {i \in DOMAIN calls : calls[i].op = "environment" /\ calls[i].words # <<>>} = pairs
    BY <2>2
  <2> HIDE DEF commands, lists, pairs
  <2> QED
    BY <2>3, <2>4, <2>5 DEF BuilderKeepsWords
<1> QED
  BY <1>1, <1>2, <1>3, BuilderStep, SearchInvariant, PTL DEF ExSpec

==============================================================================
