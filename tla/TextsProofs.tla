------------------------------ MODULE TextsProofs ------------------------------
(***************************************************************************)
(* What holds of the gbk decoder and encoder, and of ascii, for all texts; *)
(* of the lazy stream for all lists, producers, mappers and predicates;    *)
(* and of string_ref for all texts and needles.  Last, the composition of  *)
(* the four.                                                               *)
(***************************************************************************)
EXTENDS MCTexts, FormatProofs, SequenceTheorems, FiniteSetTheorems, TLAPS

(* Between the bytes and the characters runs a row of marks: the bytes     *)
(* from one mark to the next are those of a character.  The decoder sets   *)
(* the marks and the encoder meets them again.                             *)

(* A character of which the bytes of local between marks a and b are.      *)
Coded(char, a, b) ==
    IF IsBlock(char)
    THEN b = a + 2 /\ local[a + 1] = Narrow(char \div 2^8) /\ local[a + 2] = Narrow(char)
    ELSE b = a + 1 /\ local[a + 1] = Narrow(char)

Marked(mark) ==
    /\ mark[0] = 0
    /\ \A i \in 1..Len(wide) : Coded(wide[i], mark[i - 1], mark[i])
    /\ it = mark[Len(wide)] + IF read_next THEN 0 ELSE 1
    /\ Len(back) = mark[ch]

Marks == [0..Len(wide) -> 0..it]

(* A head that waits has the sign of its byte; phases follow each other.   *)
Pending == ~read_next => it > 0 /\ local[it] >= 128 /\ head = Words - 256 + local[it]
Phases ==
    /\ verdict \in {"decoding", "thrown"} => ch = 0 /\ back = <<>>
    /\ verdict \in {"decoded", "encoded"} => read_next /\ it = Len(local)
    /\ verdict = "encoded" => ch = Len(wide)
Sixteen == \A i \in 1..Len(wide) : wide[i] < 2^16 /\ (wide[i] < 128 \/ wide[i] >= 2^15)
Same == \A i \in 1..Len(back) : back[i] = local[i]

CvInv ==
    /\ CvTypeOK /\ Pending /\ Phases /\ Sixteen /\ Same
    /\ \E mark \in Marks : Marked(mark)
-----------------------------------------------------------------------------
LEMMA Powers == 2^7 = 128 /\ 2^8 = 256 /\ 2^15 = 32768 /\ 2^16 = 65536 /\ 2^24 = 16777216
BY SMT

LEMMA WordFacts ==
    /\ Words \in Nat /\ Words % 65536 = 0 /\ Words >= 16777216
    /\ Words \div 256 \in Nat /\ Words = 256 * (Words \div 256) /\ Words \div 256 > 256
    /\ \A t \in Locals : t \in Seq(0..255)
<1>1. Words \in Nat /\ Words % 65536 = 0 /\ Words >= 16777216
  BY CodecvtAssumption, Powers
<1>2. Words \div 256 \in Nat /\ Words = 256 * (Words \div 256)
  BY <1>1
<1>3. Words \div 256 > 256
  BY <1>1, <1>2
<1> QED
  BY <1>1, <1>2, <1>3, CodecvtAssumption

HeadLeft(k, b) == (256 * k - 256 + b) % k = k - 256 + b

LEMMA ShiftedHead ==
    ASSUME NEW k \in Nat, k > 256, NEW b \in 128..255
    PROVE  HeadLeft(k, b)
BY SMT DEF HeadLeft

(* The sign of a byte goes with its bits, except in a character of one     *)
(* byte, which has none.                                                   *)
LEMMA SignOff ==
    ASSUME NEW b \in 0..255
    PROVE  /\ SignExtended(b) \in 0..(Words - 1)
           /\ (SignExtended(b) \div 2^7) % 2 = 1 <=> b >= 128
           /\ b >= 128 => SignExtended(b) = Words - 256 + b
           /\ Narrow(SignExtended(b)) = b
           /\ b < 128 => /\ set_zero(SignExtended(b)) = b
                         /\ ~IsBlock(b) /\ Narrow(b) = b
<1>1. CASE b < 128
  BY <1>1, Powers, WordFacts DEF SignExtended, set_zero, IsBlock, Narrow
<1>2. CASE b >= 128
  <2>1. SignExtended(b) = Words - 256 + b
    BY <1>2 DEF SignExtended
  <2>2. ((Words - 256 + b) \div 128) % 2 = 1
    <3>1. Words - 256 + b = 128 * (2 * (Words \div 256) - 1) + (b - 128)
      BY <1>2, WordFacts
    <3>2. (Words - 256 + b) \div 128 = 2 * (Words \div 256) - 1
      BY <1>2, <3>1, WordFacts
    <3> QED
      BY <3>2, WordFacts
  <2>3. (Words - 256 + b) % 256 = b
    BY WordFacts
  <2> QED
    BY <1>2, <2>1, <2>2, <2>3, Powers, WordFacts DEF Narrow
<1> QED
  BY <1>1, <1>2

(* A head and its tail make one character, which gives them back.          *)
JoinedBytes(b, t) == set_zero(ShiftedByte(Words - 256 + b) + t)

SplitsInto(char, b, t) ==
    /\ char \in Nat /\ char >= 32768 /\ char < 65536 /\ char \div 32768 = 1
    /\ char \div 256 = b /\ char % 256 = t /\ b % 256 = b

LEMMA SplitsAgain ==
    ASSUME NEW b \in 128..255, NEW t \in 0..255
    PROVE  SplitsInto(256 * b + t, b, t)
<1> DEFINE c == 256 * b + t
<1>1. c \in Nat /\ c >= 32768 /\ c < 65536
  BY SMT
<1>2. c \div 32768 = 1
  BY SMT
<1>3. c \div 256 = b
  BY SMT
<1>4. c % 256 = t
  BY SMT
<1>5. b % 256 = b
  BY SMT
<1> HIDE DEF c
<1>6. SplitsInto(c, b, t)
  BY <1>1, <1>2, <1>3, <1>4, <1>5 DEF SplitsInto
<1> QED
  BY <1>6 DEF c

TwoByteCharacter(char, b, t) ==
    /\ char \in 0..(Words - 1) /\ char >= 2^15 /\ char < 2^16
    /\ IsBlock(char) /\ Narrow(char \div 2^8) = b /\ Narrow(char) = t

LEMMA TwoBytes ==
    ASSUME NEW b \in 128..255, NEW t \in 0..255
    PROVE  TwoByteCharacter(JoinedBytes(b, t), b, t)
<1> DEFINE k == Words \div 256
<1>1. k \in Nat /\ k > 256 /\ Words = 256 * k
  BY WordFacts
<1>2. ShiftedByte(Words - 256 + b) = Words - 65536 + 256 * b
  <2> HIDE DEF k
  <2>1. (256 * k - 256 + b) % k = k - 256 + b
    <3>1. HeadLeft(k, b)
      BY <1>1, ShiftedHead
    <3> QED
      BY <3>1 DEF HeadLeft
  <2>2. (Words - 256 + b) % k = k - 256 + b
    BY <1>1, <2>1
  <2>3. ShiftedByte(Words - 256 + b) = (k - 256 + b) * 256
    BY <2>2, Powers DEF ShiftedByte, k
  <2> QED
    BY <1>1, <2>3
<1>3. (Words - 65536 + 256 * b + t) % 65536 = 256 * b + t
  BY WordFacts
<1>4. set_zero(ShiftedByte(Words - 256 + b) + t) = 256 * b + t
  BY <1>2, <1>3, Powers DEF set_zero
<1>5. 256 * b + t \in 0..(Words - 1)
  BY WordFacts
<1>6. PICK char \in 0..(Words - 1) : char = 256 * b + t
  BY <1>5
<1>7. JoinedBytes(b, t) = char
  BY <1>4, <1>6 DEF JoinedBytes
<1>8. /\ char \in Nat /\ char >= 32768 /\ char < 65536 /\ char \div 32768 = 1
      /\ char \div 256 = b /\ char % 256 = t /\ b % 256 = b
  <2>1. SplitsInto(256 * b + t, b, t)
    BY SplitsAgain
  <2>2. SplitsInto(char, b, t)
    BY <1>6, <2>1
  <2> QED
    BY <2>2 DEF SplitsInto
<1>9. IsBlock(char)
  <2>1. (char \div 32768) % 2 = 1
    BY <1>8
  <2> QED
    BY <2>1, Powers DEF IsBlock
<1>10. Narrow(char \div 2^8) = b /\ Narrow(char) = t
  BY <1>8, Powers DEF Narrow
<1>11. char >= 2^15 /\ char < 2^16
  BY <1>8, Powers
<1>12. TwoByteCharacter(char, b, t)
  BY <1>6, <1>9, <1>10, <1>11 DEF TwoByteCharacter
<1> QED
  BY <1>7, <1>12

LEMMA ElementOf == ASSUME NEW S, NEW t \in Seq(S), NEW i \in DOMAIN t PROVE t[i] \in S
<1>1. PICK n \in Nat : t \in [1..n -> S]
  OBVIOUS
<1> QED
  BY <1>1

LEMMA AsciiInverts ==
    ASSUME NEW t \in Seq(0..255)
    PROVE  AsciiLocal(AsciiWide(t)) = t
<1>1. ASSUME NEW i \in DOMAIN t PROVE Narrow(SignExtended(t[i])) = t[i]
  <2>1. t[i] \in 0..255
    BY <1>1, ElementOf
  <2> QED
    BY <2>1, SignOff
<1>2. DOMAIN AsciiWide(t) = DOMAIN t /\ \A i \in DOMAIN t : AsciiWide(t)[i] = SignExtended(t[i])
  BY DEF AsciiWide
<1>3. AsciiLocal(AsciiWide(t)) = [i \in DOMAIN t |-> t[i]]
  BY <1>1, <1>2 DEF AsciiLocal
<1> QED
  BY <1>3

-----------------------------------------------------------------------------
LEMMA CvInitOK == CvInit => CvInv
<1> SUFFICES ASSUME CvInit PROVE CvInv
  OBVIOUS
<1>1. local \in Seq(0..255) /\ Len(local) \in Nat
  BY WordFacts DEF CvInit
<1>2. CvTypeOK
  BY <1>1, WordFacts DEF CvInit, CvTypeOK
<1>3. [i \in 0..0 |-> 0] \in Marks /\ Marked([i \in 0..0 |-> 0])
  BY DEF CvInit, Marks, Marked
<1> QED
  BY <1>2, <1>3 DEF CvInit, CvInv, Pending, Phases, Sixteen, Same

(* One more character between the marks, for the bytes just read.          *)
LEMMA MarkOneMore ==
    ASSUME CvTypeOK, NEW mark \in Marks, Marked(mark),
           NEW char \in 0..(Words - 1), NEW last, last \in 0..it',
           local' = local, it' = it + 1, it < Len(local), read_next' = TRUE,
           ch = 0, ch' = ch, back = <<>>, back' = back,
           wide' = Append(wide, char), last = it', Coded(char, mark[Len(wide)], last)
    PROVE  \E m \in Marks' : Marked(m)'
<1> DEFINE n == Len(wide)
           m == [i \in 0..(n + 1) |-> IF i = n + 1 THEN last ELSE mark[i]]
<1>1. /\ n \in Nat /\ it \in Nat /\ wide \in Seq(0..(Words - 1))
      /\ Len(wide') = n + 1 /\ wide'[n + 1] = char /\ \A i \in 1..n : wide'[i] = wide[i]
  BY DEF CvTypeOK
<1>2. mark \in [0..n -> 0..it]
  BY DEF Marks
<1> HIDE DEF n
<1>3. m \in [0..Len(wide') -> 0..it']
  BY <1>1, <1>2
<1>4. m[0] = 0 /\ m[n + 1] = last /\ \A i \in 0..n : m[i] = mark[i]
  BY <1>1 DEF Marked
<1>5. ASSUME NEW i \in 1..(n + 1) PROVE Coded(wide'[i], m[i - 1], m[i])
  <2>1. CASE i = n + 1
    BY <1>1, <1>4, <2>1 DEF n
  <2>2. CASE i # n + 1
    <3>1. i \in 1..n /\ i \in 0..n /\ i - 1 \in 0..n
      BY <1>1, <2>2
    <3>2. Coded(wide[i], mark[i - 1], mark[i])
      BY <3>1 DEF Marked, n
    <3> QED
      BY <1>1, <1>4, <3>1, <3>2
  <2> QED
    BY <2>1, <2>2
<1>6. Len(back') = m[ch']
  BY <1>1, <1>4 DEF Marked
<1> HIDE DEF m
<1>7. PICK r : r = m
  OBVIOUS
<1>8. r \in [0..Len(wide') -> 0..it'] /\ r[0] = 0 /\ r[n + 1] = it' /\ Len(back') = r[ch']
  BY <1>3, <1>4, <1>6, <1>7
<1>9. ASSUME NEW i \in 1..Len(wide') PROVE Coded(wide[i], r[i - 1], r[i])'
  <2>1. Coded(wide'[i], r[i - 1], r[i])
    BY <1>1, <1>5, <1>7
  <2> QED
    BY <2>1 DEF Coded
<1>10. Marked(r)'
  BY SMTT(60), <1>1, <1>8, <1>9 DEF Marked
<1>11. r \in Marks'
  BY <1>8 DEF Marks
<1> QED
  BY <1>10, <1>11

(* Marks are numbers of bytes.                                             *)
LEMMA MarkTyped ==
    ASSUME CvTypeOK, NEW mark \in Marks, NEW i \in 0..Len(wide)
    PROVE  mark[i] \in 0..it /\ mark[i] \in Nat
<1>1. mark[i] \in 0..it
  BY DEF Marks
<1> QED
  BY <1>1

(* What the reading of a character leaves of the invariant.                *)
LEMMA CharacterRead ==
    ASSUME CvInv, verdict = "decoding", it < Len(local),
           NEW char \in 0..(Words - 1), char < 2^16, char < 128 \/ char >= 2^15,
           wide' = Append(wide, char), it' = it + 1, read_next' = TRUE,
           head' \in 0..(Words - 1), UNCHANGED <<local, ch, back, verdict>>,
           \A mark \in Marks : Marked(mark) => Coded(char, mark[Len(wide)], it + 1)
    PROVE  CvInv'
<1>1. /\ ch = 0 /\ back = <<>> /\ it \in Nat /\ Len(local) \in Nat
      /\ wide \in Seq(0..(Words - 1)) /\ Len(wide) \in Nat
  BY WordFacts DEF CvInv, CvTypeOK, Phases
<1>2. /\ wide' \in Seq(0..(Words - 1)) /\ Len(wide') = Len(wide) + 1
      /\ wide'[Len(wide) + 1] = char /\ \A i \in 1..Len(wide) : wide'[i] = wide[i]
  BY <1>1
<1>3. it' \in 0..Len(local') /\ ch' \in 0..Len(wide')
  BY <1>1, <1>2
<1>4. CvTypeOK'
  BY <1>2, <1>3 DEF CvInv, CvTypeOK
<1>5. Pending' /\ Phases' /\ Same'
  BY DEF CvInv, Pending, Phases, Same
<1>6. Sixteen'
  <2>1. ASSUME NEW i \in 1..Len(wide')
        PROVE  wide'[i] < 2^16 /\ (wide'[i] < 128 \/ wide'[i] >= 2^15)
    <3>1. CASE i = Len(wide) + 1
      BY <1>2, <3>1
    <3>2. CASE i # Len(wide) + 1
      <4>1. i \in 1..Len(wide) /\ wide'[i] = wide[i]
        BY <1>1, <1>2, <3>2
      <4> QED
        BY <4>1 DEF CvInv, Sixteen
    <3> QED
      BY <3>1, <3>2
  <2> QED
    BY <2>1 DEF Sixteen
<1>7. \E m \in Marks' : Marked(m)'
  <2>1. PICK mark \in Marks : Marked(mark)
    BY DEF CvInv
  <2>2. Coded(char, mark[Len(wide)], it')
    BY <2>1
  <2>3. it' \in 0..it' /\ CvTypeOK
    BY <1>1 DEF CvInv
  <2> QED
    BY <1>1, <2>1, <2>2, <2>3, MarkOneMore
<1> QED
  BY <1>4, <1>5, <1>6, <1>7 DEF CvInv

LEMMA ReadHeadOK == CvInv /\ ReadHead => CvInv'
<1> SUFFICES ASSUME CvInv, ReadHead PROVE CvInv'
  OBVIOUS
<1>1. /\ local \in Seq(0..255) /\ it \in Nat /\ it < Len(local) /\ Len(local) \in Nat
      /\ read_next /\ verdict = "decoding" /\ it' = it + 1
      /\ UNCHANGED <<local, ch, back, verdict>>
  BY WordFacts DEF CvInv, CvTypeOK, ReadHead
<1>2. PICK b \in 0..255 : b = local[it + 1]
  <2>1. it + 1 \in DOMAIN local
    BY <1>1
  <2> QED
    BY <1>1, <2>1, ElementOf
<1>3. head' = SignExtended(b) /\ head' \in 0..(Words - 1)
  BY <1>2, SignOff DEF ReadHead
<1>4. CASE b < 128
  <2>1. ~((SignExtended(b) \div 2^7) % 2 = 1) /\ set_zero(SignExtended(b)) = b
    BY <1>4, SignOff
  <2>2. wide' = Append(wide, b) /\ read_next' = TRUE
    BY <1>1, <1>2, <2>1 DEF ReadHead, CvInv, CvTypeOK
  <2>3. b \in 0..(Words - 1) /\ b < 2^16
    BY <1>4, WordFacts, Powers
  <2>4. ASSUME NEW mark \in Marks, Marked(mark) PROVE Coded(b, mark[Len(wide)], it + 1)
    <3>1. it = mark[Len(wide)]
      BY SMTT(60), <1>1, <2>4 DEF Marked, Marks, CvInv, CvTypeOK
    <3>2. ~IsBlock(b) /\ Narrow(b) = b
      BY <1>4, SignOff
    <3> QED
      BY <1>2, <3>1, <3>2 DEF Coded
  <2> QED
    BY <1>1, <1>3, <1>4, <2>2, <2>3, <2>4, CharacterRead
<1>5. CASE b >= 128
  <2>1. (SignExtended(b) \div 2^7) % 2 = 1 /\ SignExtended(b) = Words - 256 + b
    BY <1>5, SignOff
  <2>2. read_next' = FALSE /\ wide' = wide
    BY <1>2, <2>1 DEF ReadHead
  <2>3. CvTypeOK'
    <3>1. it' \in 0..Len(local')
      BY <1>1
    <3>2. wide' = wide /\ ch' = ch /\ back' = back /\ local' = local /\ verdict' = verdict
      BY <1>1, <2>2
    <3> QED
      BY <1>3, <2>2, <3>1, <3>2 DEF CvInv, CvTypeOK
  <2>4. Pending'
    <3>1. it' > 0 /\ local'[it'] = b /\ head' = Words - 256 + local'[it']
      BY <1>1, <1>2, <1>3, <2>1
    <3> QED
      BY <1>5, <3>1 DEF Pending
  <2>5. Phases' /\ Sixteen' /\ Same'
    BY <1>1, <2>2 DEF CvInv, Phases, Sixteen, Same
  <2>6. \E m \in Marks' : Marked(m)'
    <3>1. PICK mark \in Marks : Marked(mark)
      BY DEF CvInv
    <3>2. mark \in [0..Len(wide) -> 0..it'] /\ it' = mark[Len(wide)] + 1 /\ mark[Len(wide)] \in Nat
      BY SMTT(60), <1>1, <3>1 DEF Marks, Marked, CvInv, CvTypeOK
    <3>3. \A i \in 1..Len(wide') : Coded(wide[i], mark[i - 1], mark[i])'
      BY <1>1, <2>2, <3>1 DEF Marked, Coded
    <3>4. mark[0] = 0 /\ Len(back') = mark[ch']
      BY <1>1, <3>1 DEF Marked
    <3>5. Marked(mark)'
      BY <2>2, <3>2, <3>3, <3>4 DEF Marked
    <3> QED
      BY <2>2, <3>2, <3>5 DEF Marks
  <2> QED
    BY <2>3, <2>4, <2>5, <2>6 DEF CvInv
<1> QED
  BY <1>2, <1>4, <1>5

LEMMA ReadTailOK == CvInv /\ ReadTail => CvInv'
<1> SUFFICES ASSUME CvInv, ReadTail PROVE CvInv'
  OBVIOUS
<1>1. /\ local \in Seq(0..255) /\ it \in Nat /\ it < Len(local) /\ Len(local) \in Nat
      /\ ~read_next /\ verdict = "decoding" /\ it' = it + 1 /\ read_next' = TRUE
      /\ head' = head /\ head \in 0..(Words - 1) /\ UNCHANGED <<local, ch, back, verdict>>
  BY WordFacts DEF CvInv, CvTypeOK, ReadTail
<1>2. it > 0 /\ local[it] >= 128 /\ head = Words - 256 + local[it]
  BY <1>1 DEF CvInv, Pending
<1>3. PICK b \in 128..255 : b = local[it]
  <2>1. it \in DOMAIN local
    BY <1>1, <1>2
  <2>2. local[it] \in 0..255
    BY <1>1, <2>1, ElementOf
  <2> QED
    BY <1>2, <2>2
<1>4. PICK t \in 0..255 : t = local[it + 1]
  <2>1. it + 1 \in DOMAIN local
    BY <1>1
  <2> QED
    BY <1>1, <2>1, ElementOf
<1>5. PICK char : char = JoinedBytes(b, t)
  OBVIOUS
<1>6. /\ char \in 0..(Words - 1) /\ char >= 2^15 /\ char < 2^16
      /\ IsBlock(char) /\ Narrow(char \div 2^8) = b /\ Narrow(char) = t
  <2>1. TwoByteCharacter(JoinedBytes(b, t), b, t)
    BY TwoBytes
  <2>2. TwoByteCharacter(char, b, t)
    BY <1>5, <2>1
  <2> QED
    BY <2>2 DEF TwoByteCharacter
<1>7. wide' = Append(wide, char)
  BY <1>2, <1>3, <1>4, <1>5 DEF ReadTail, JoinedBytes
<1>8. ASSUME NEW mark \in Marks, Marked(mark) PROVE Coded(char, mark[Len(wide)], it + 1)
  <2>1. mark[Len(wide)] \in Nat
    <3>1. CvTypeOK /\ Len(wide) \in 0..Len(wide)
      BY DEF CvInv, CvTypeOK
    <3> QED
      BY <3>1, MarkTyped
  <2>2. it = mark[Len(wide)] + 1
    BY <1>1, <1>8 DEF Marked
  <2> QED
    BY <1>3, <1>4, <1>6, <2>1, <2>2 DEF Coded
<1> QED
  BY <1>1, <1>6, <1>7, <1>8, CharacterRead

(* The marks of a state serve the next one as long as what they mark stays.*)
LEMMA MarksStay ==
    ASSUME NEW mark \in Marks, Marked(mark), UNCHANGED <<local, it, wide, read_next>>,
           Len(back') = mark[ch']
    PROVE  mark \in Marks' /\ Marked(mark)'
<1>1. \A i \in 1..Len(wide') : Coded(wide[i], mark[i - 1], mark[i])'
  BY DEF Marked, Coded
<1> QED
  BY <1>1 DEF Marks, Marked

LEMMA FinishOK == CvInv /\ (Finish \/ UNCHANGED cvVars) => CvInv'
<1>1. ASSUME CvInv, Finish PROVE CvInv'
  <2>1. PICK mark \in Marks : Marked(mark)
    BY <1>1 DEF CvInv
  <2>2. mark \in Marks' /\ Marked(mark)'
    BY <1>1, <2>1, MarksStay DEF Finish, Marked
  <2>3. CvTypeOK' /\ Pending' /\ Phases' /\ Sixteen' /\ Same'
    BY <1>1 DEF CvInv, CvTypeOK, Pending, Phases, Sixteen, Same, Finish
  <2> QED
    BY <2>2, <2>3 DEF CvInv
<1>2. ASSUME CvInv, UNCHANGED cvVars PROVE CvInv'
  <2>1. PICK mark \in Marks : Marked(mark)
    BY <1>2 DEF CvInv
  <2>2. mark \in Marks' /\ Marked(mark)'
    BY <1>2, <2>1, MarksStay DEF cvVars, Marked
  <2>3. CvTypeOK' /\ Pending' /\ Phases' /\ Sixteen' /\ Same'
    BY <1>2 DEF CvInv, CvTypeOK, Pending, Phases, Sixteen, Same, cvVars
  <2> QED
    BY <2>2, <2>3 DEF CvInv
<1> QED
  BY <1>1, <1>2

LEMMA EncodeOK == CvInv /\ Encode => CvInv'
<1> SUFFICES ASSUME CvInv, Encode PROVE CvInv'
  OBVIOUS
<1>1. /\ wide \in Seq(0..(Words - 1)) /\ ch \in Nat /\ ch < Len(wide) /\ Len(wide) \in Nat
      /\ ch' = ch + 1 /\ back \in Seq(0..255) /\ verdict = "decoded"
      /\ UNCHANGED <<local, it, head, read_next, wide, verdict>>
  BY DEF CvInv, CvTypeOK, Encode
<1>2. PICK mark \in Marks : Marked(mark)
  BY DEF CvInv
<1>3. PICK char \in 0..(Words - 1) : char = wide[ch + 1]
  <2>1. ch + 1 \in DOMAIN wide
    BY <1>1
  <2> QED
    BY <1>1, <2>1, ElementOf
<1>4. /\ Coded(char, mark[ch], mark[ch + 1]) /\ Len(back) = mark[ch]
      /\ mark[ch] \in Nat /\ mark[ch + 1] \in Nat
  <2>1. ch + 1 \in 1..Len(wide) /\ ch + 1 - 1 = ch
    BY <1>1
  <2>2. Coded(wide[ch + 1], mark[ch], mark[ch + 1])
    <3>1. PICK i \in 1..Len(wide) : i = ch + 1 /\ i - 1 = ch
      BY <1>1, <2>1
    <3>2. Coded(wide[i], mark[i - 1], mark[i])
      BY <1>2 DEF Marked
    <3> QED
      BY <3>1, <3>2
  <2>3. CvTypeOK /\ ch \in 0..Len(wide) /\ ch + 1 \in 0..Len(wide)
    BY <1>1 DEF CvInv
  <2>4. mark[ch] \in Nat /\ mark[ch + 1] \in Nat
    BY <2>3, MarkTyped
  <2> QED
    BY <1>2, <1>3, <2>1, <2>2, <2>4 DEF Marked
<1>5. back' = back \o Encoded(char)
  BY <1>3 DEF Encode
<1>6. Narrow(char) \in 0..255 /\ Narrow(char \div 2^8) \in 0..255
  BY WordFacts, Powers DEF Narrow
<1>7. /\ Encoded(char) \in Seq(0..255) /\ Len(back') = mark[ch']
      /\ \A i \in 1..Len(Encoded(char)) : Encoded(char)[i] = local[Len(back) + i]
  <2>1. CASE IsBlock(char)
    <3>1. Encoded(char) = <<Narrow(char \div 2^8), Narrow(char)>>
      BY <2>1 DEF Encoded
    <3>2. /\ mark[ch + 1] = Len(back) + 2 /\ local[Len(back) + 1] = Narrow(char \div 2^8)
          /\ local[Len(back) + 2] = Narrow(char)
      BY <1>4, <2>1 DEF Coded
    <3> QED
      BY <1>1, <1>5, <1>6, <3>1, <3>2
  <2>2. CASE ~IsBlock(char)
    <3>1. Encoded(char) = <<Narrow(char)>>
      BY <2>2 DEF Encoded
    <3>2. mark[ch + 1] = Len(back) + 1 /\ local[Len(back) + 1] = Narrow(char)
      BY <1>4, <2>2 DEF Coded
    <3> QED
      BY <1>1, <1>5, <1>6, <3>1, <3>2
  <2> QED
    BY <2>1, <2>2
<1>8. CvTypeOK'
  <2>1. back' \in Seq(0..255) /\ ch' \in 0..Len(wide')
    BY <1>1, <1>5, <1>7
  <2> QED
    BY <1>1, <2>1 DEF CvInv, CvTypeOK
<1>9. Same'
  <2>1. ASSUME NEW i \in 1..Len(back') PROVE back'[i] = local'[i]
    <3> DEFINE e == Encoded(char)
    <3>1. e \in Seq(0..255) /\ \A j \in 1..Len(e) : e[j] = local[Len(back) + j]
      BY <1>7
    <3>2. back' = back \o e
      BY <1>5
    <3> HIDE DEF e
    <3>3. CASE i <= Len(back)
      <4>1. i \in 1..Len(back) /\ back'[i] = back[i]
        BY <1>1, <3>1, <3>2, <3>3
      <4> QED
        BY <1>1, <4>1 DEF CvInv, Same
    <3>4. CASE i > Len(back)
      <4>1. PICK j \in 1..Len(e) : j = i - Len(back)
        BY <1>1, <3>1, <3>2, <3>4
      <4>2. back'[i] = e[j] /\ Len(back) + j = i
        BY <1>1, <3>1, <3>2, <3>4, <4>1
      <4> QED
        BY <1>1, <3>1, <4>1, <4>2
    <3> QED
      BY <1>1, <3>3, <3>4
  <2> QED
    BY <2>1 DEF Same
<1>10. Pending' /\ Phases' /\ Sixteen'
  BY <1>1 DEF CvInv, Pending, Phases, Sixteen
<1>11. mark \in Marks' /\ Marked(mark)'
  BY <1>1, <1>2, <1>7, MarksStay
<1> QED
  BY <1>8, <1>9, <1>10, <1>11 DEF CvInv

LEMMA EncodeReturnsOK == CvInv /\ EncodeReturns => CvInv'
<1> SUFFICES ASSUME CvInv, EncodeReturns PROVE CvInv'
  OBVIOUS
<1>1. PICK mark \in Marks : Marked(mark)
  BY DEF CvInv
<1>2. mark \in Marks' /\ Marked(mark)'
  BY <1>1, MarksStay DEF EncodeReturns, Marked
<1>3. CvTypeOK' /\ Pending' /\ Phases' /\ Sixteen' /\ Same'
  BY DEF CvInv, CvTypeOK, Pending, Phases, Sixteen, Same, EncodeReturns
<1> QED
  BY <1>2, <1>3 DEF CvInv

(* When all characters are encoded the last mark is the end of the bytes.  *)
LEMMA InvertsOK == CvInv => DecodingInverts
<1> SUFFICES ASSUME CvInv PROVE DecodingInverts
  OBVIOUS
<1>1. PICK mark \in Marks : Marked(mark)
  BY DEF CvInv
<1>2. /\ local \in Seq(0..255) /\ Len(local) \in Nat /\ wide \in Seq(0..(Words - 1))
      /\ Len(wide) \in Nat /\ back \in Seq(0..255) /\ Len(back) \in Nat
      /\ ch \in 0..Len(wide) /\ it \in 0..Len(local)
  BY WordFacts DEF CvInv, CvTypeOK
<1>3. Len(back) <= Len(local)
  <2>1. mark[ch] \in 0..it /\ Len(back) = mark[ch]
    BY <1>1, <1>2, MarkTyped DEF CvInv, Marked
  <2> QED
    BY <1>2, <2>1
<1>4. \A i \in 1..Len(back) : back[i] = local[i]
  BY DEF CvInv, Same
<1>5. back = SubSeq(local, 1, Len(back))
  <2> DEFINE prefix == SubSeq(local, 1, Len(back))
  <2>1. prefix \in Seq(0..255) /\ Len(prefix) = Len(back)
        /\ \A i \in 1..Len(back) : prefix[i] = local[i]
    <3>1. \A i \in 1..Len(back) : local[i] \in 0..255
      <4>1. \A i \in 1..Len(local) : local[i] \in 0..255
        BY <1>2, ElementOfSeq
      <4> QED
        BY <1>2, <1>3, <4>1
    <3>2. /\ prefix \in Seq(0..255)
          /\ Len(prefix) = IF 1 <= Len(back) THEN Len(back) - 1 + 1 ELSE 0
          /\ \A i \in 1..(Len(back) - 1 + 1) : prefix[i] = local[1 + i - 1]
      BY <1>2, <3>1, SubSeqProperties
    <3>3. Len(prefix) = Len(back)
      BY <1>2, <3>2
    <3>4. \A i \in 1..Len(back) : prefix[i] = local[i]
      <4>1. Len(back) - 1 + 1 = Len(back) /\ \A i \in 1..Len(back) : 1 + i - 1 = i
        BY <1>2
      <4> QED
        BY <3>2, <4>1
    <3> QED
      BY <3>2, <3>3, <3>4
  <2> HIDE DEF prefix
  <2>2. \A i \in 1..Len(back) : prefix[i] = back[i]
    BY <1>4, <2>1
  <2>3. prefix = back
    BY <1>2, <2>1, <2>2
  <2> QED
    BY <2>3 DEF prefix
<1>6. ASSUME verdict = "encoded" PROVE back = local
  <2>1. ch = Len(wide) /\ read_next /\ it = Len(local)
    BY <1>6 DEF CvInv, Phases
  <2>2. Len(back) = mark[Len(wide)] /\ mark[Len(wide)] \in Nat
    BY <1>1, <1>2, <2>1, MarkTyped DEF CvInv, Marked
  <2>3. it = mark[Len(wide)]
    BY <1>1, <2>1, <2>2 DEF Marked
  <2>4. Len(back) = Len(local)
    BY <2>1, <2>2, <2>3
  <2>5. \A i \in 1..Len(back) : back[i] = local[i]
    BY <1>4
  <2> QED
    BY <1>2, <2>4, <2>5, SeqEqual
<1>7. \A i \in DOMAIN wide : wide[i] < 2^16 /\ (wide[i] < 128 \/ wide[i] >= 2^15)
  BY <1>2 DEF CvInv, Sixteen
<1>8. AsciiLocal(AsciiWide(local)) = local
  BY <1>2, AsciiInverts
<1> QED
  BY <1>5, <1>6, <1>7, <1>8 DEF DecodingInverts

-----------------------------------------------------------------------------
LEMMA CvStep == CvInv /\ [CvNext]_cvVars => CvInv'
BY ReadHeadOK, ReadTailOK, FinishOK, EncodeOK, EncodeReturnsOK DEF CvNext

(* Marks separate the bytes of the characters, before and while they are   *)
(* encoded.                                                                *)
THEOREM CvInvariant == CvSpec => []CvInv
BY CvInitOK, CvStep, PTL DEF CvSpec

(* The decoder never reads past the bytes, nor the encoder past the        *)
(* characters, and each keeps to its alphabet.                             *)
THEOREM CodecTypeCorrect == CvSpec => []CvTypeOK
<1>1. CvInv => CvTypeOK
  BY DEF CvInv
<1> QED
  BY CvInvariant, <1>1, PTL

(* Whatever the text and the width of the words above sixteen bits, what   *)
(* the gbk decoder accepts its encoder gives back, byte by byte.           *)
THEOREM DecodingInvertsAlways == CvSpec => []DecodingInverts
BY CvInvariant, InvertsOK, PTL

-----------------------------------------------------------------------------
(* The lazy stream.  What is let through a filter from two sequences comes *)
(* one after the other.                                                    *)
Kept(x, set) == IF x \in set THEN <<x>> ELSE <<>>

LEMMA KeptTyped ==
    ASSUME NEW S, NEW xs \in Seq(S), NEW set
    PROVE  /\ Len(xs) \in Nat /\ DOMAIN xs = 1..Len(xs)
           /\ [i \in DOMAIN xs |-> Kept(xs[i], set)] \in Seq(Seq(S))
           /\ Len([i \in DOMAIN xs |-> Kept(xs[i], set)]) = Len(xs)
<1>1. Len(xs) \in Nat /\ DOMAIN xs = 1..Len(xs)
  OBVIOUS
<1>2. ASSUME NEW i \in 1..Len(xs) PROVE Kept(xs[i], set) \in Seq(S)
  <2>1. xs[i] \in S
    BY ElementOfSeq
  <2> QED
    BY <2>1 DEF Kept
<1>3. [i \in 1..Len(xs) |-> Kept(xs[i], set)] \in [1..Len(xs) -> Seq(S)]
  BY <1>2
<1> QED
  BY <1>1, <1>3, SeqDef

LEMMA SelectedIs ==
    ASSUME NEW xs, NEW set
    PROVE  Selected(xs, set) = FlattenSeq([i \in DOMAIN xs |-> Kept(xs[i], set)])
BY DEF Selected, Kept

LEMMA SelectedTyped ==
    ASSUME NEW S, NEW xs \in Seq(S), NEW set
    PROVE  Selected(xs, set) \in Seq(S)
BY KeptTyped, SelectedIs, FlattenIn

LEMMA SelectedConcat ==
    ASSUME NEW S, NEW xs \in Seq(S), NEW ys \in Seq(S), NEW set
    PROVE  Selected(xs \o ys, set) = Selected(xs, set) \o Selected(ys, set)
<1> DEFINE zs == xs \o ys
           kx == [i \in DOMAIN xs |-> Kept(xs[i], set)]
           ky == [i \in DOMAIN ys |-> Kept(ys[i], set)]
           kz == [i \in DOMAIN zs |-> Kept(zs[i], set)]
<1>1. ConcatIs(S, xs, ys, zs)
  BY ConcatFacts
<1>2. /\ zs \in Seq(S) /\ Len(zs) = Len(xs) + Len(ys)
      /\ \A i \in 1..Len(xs) + Len(ys) : zs[i] = IF i <= Len(xs) THEN xs[i] ELSE ys[i - Len(xs)]
  BY <1>1 DEF ConcatIs
<1> HIDE DEF zs
<1>3. /\ Len(xs) \in Nat /\ DOMAIN xs = 1..Len(xs) /\ kx \in Seq(Seq(S)) /\ Len(kx) = Len(xs)
      /\ Len(ys) \in Nat /\ DOMAIN ys = 1..Len(ys) /\ ky \in Seq(Seq(S)) /\ Len(ky) = Len(ys)
      /\ Len(zs) \in Nat /\ DOMAIN zs = 1..Len(zs) /\ kz \in Seq(Seq(S)) /\ Len(kz) = Len(zs)
  BY <1>2, KeptTyped
<1>4. ConcatIs(Seq(S), kx, ky, kx \o ky)
  BY <1>3, ConcatFacts
<1>5. /\ \A i \in 1..Len(xs) : kx[i] = Kept(xs[i], set)
      /\ \A i \in 1..Len(ys) : ky[i] = Kept(ys[i], set)
      /\ \A i \in 1..Len(zs) : kz[i] = Kept(zs[i], set)
  BY <1>3
<1>6. kz = kx \o ky
  <2> DEFINE kk == kx \o ky
  <2>1. /\ kk \in Seq(Seq(S)) /\ Len(kk) = Len(kx) + Len(ky)
        /\ \A i \in 1..Len(kx) + Len(ky) : kk[i] = IF i <= Len(kx) THEN kx[i] ELSE ky[i - Len(kx)]
    BY <1>4 DEF ConcatIs
  <2> HIDE DEF kk, kx, ky, kz
  <2>2. ASSUME NEW i \in 1..Len(zs) PROVE kz[i] = kk[i]
    <3>1. CASE i <= Len(xs)
      <4>1. i \in 1..Len(xs) /\ i \in 1..Len(kx) + Len(ky)
        BY <3>1, <1>2, <1>3
      <4> QED
        BY <3>1, <4>1, <2>1, <1>2, <1>3, <1>5
    <3>2. CASE i > Len(xs)
      <4>1. i - Len(xs) \in 1..Len(ys) /\ i \in 1..Len(kx) + Len(ky) /\ ~(i <= Len(xs))
        BY <3>2, <1>2, <1>3
      <4>2. kk[i] = ky[i - Len(xs)]
        BY <4>1, <2>1, <1>3
      <4>3. ky[i - Len(xs)] = Kept(ys[i - Len(xs)], set)
        BY <4>1, <1>5
      <4>4. zs[i] = ys[i - Len(xs)]
        BY <4>1, <1>2, <1>3
      <4>5. kz[i] = Kept(zs[i], set)
        BY <1>5
      <4> QED
        BY <4>2, <4>3, <4>4, <4>5
    <3> QED
      BY <3>1, <3>2, <1>3
  <2>3. Len(kz) = Len(kk)
    BY <2>1, <1>2, <1>3
  <2>4. kz = kk
    BY <2>1, <2>2, <2>3, <1>3, SeqEqual
  <2> QED
    BY <2>4 DEF kk
<1> HIDE DEF kx, ky, kz
<1>7. FlattenSeq(kz) = FlattenSeq(kx) \o FlattenSeq(ky)
  BY <1>6, <1>3, FlattenConcat
<1> QED
  BY <1>7, SelectedIs DEF kx, ky, kz, zs

LEMMA SelectedOne ==
    ASSUME NEW S, NEW x \in S, NEW set
    PROVE  Selected(<<x>>, set) = Kept(x, set)
<1>1. [i \in DOMAIN <<x>> |-> Kept(<<x>>[i], set)] = <<Kept(x, set)>>
  OBVIOUS
<1>2. Kept(x, set) \in Seq(S)
  BY DEF Kept
<1> QED
  BY <1>1, <1>2, SelectedIs, FlattenOne

LEMMA SelectedEmpty ==
    ASSUME NEW set
    PROVE  Selected(<<>>, set) = <<>>
<1>1. [i \in DOMAIN <<>> |-> Kept(<<>>[i], set)] = <<>>
  OBVIOUS
<1>2. <<>> \in Seq(Seq({})) /\ Len(<<>>) = 0 /\ Len(<<>>) \in 0..Len(<<>>)
  OBVIOUS
<1>3. PICK g \in [0..Len(<<>>) -> Seq({})] : Flattens(g, <<>>)
  BY <1>2, FlattensExists
<1>4. FlattenSeq(<<>>) = g[0]
  BY <1>2, <1>3, FlattenIs
<1> QED
  BY <1>1, <1>3, <1>4, SelectedIs DEF Flattens
LEMMA LastOff ==
    ASSUME NEW S, NEW xs \in Seq(S), xs # <<>>
    PROVE  \E ys \in Seq(S), x \in S : xs = ys \o <<x>> /\ Len(xs) = Len(ys) + 1
<1> DEFINE n == Len(xs) - 1
           ys == [i \in 1..n |-> xs[i]]
           x == xs[n + 1]
<1>1. n \in Nat /\ n + 1 \in 1..Len(xs) /\ Len(xs) = n + 1 /\ 1..n \subseteq 1..Len(xs)
  OBVIOUS
<1>2. x \in S /\ \A i \in 1..n : xs[i] \in S
  BY <1>1, ElementOfSeq
<1> HIDE DEF n
<1>3. ys \in Seq(S) /\ Len(ys) = n /\ \A i \in 1..n : ys[i] = xs[i]
  <2>1. ys \in [1..n -> S]
    BY <1>2
  <2> QED
    BY <2>1, <1>1, SeqDef
<1> HIDE DEF ys, x
<1>4. ConcatIs(S, ys, <<x>>, ys \o <<x>>)
  <2>1. <<x>> \in Seq(S) /\ ys \in Seq(S)
    BY <1>2, <1>3
  <2> QED
    BY <2>1, ConcatFacts
<1> DEFINE zs == ys \o <<x>>
<1>5. /\ zs \in Seq(S) /\ Len(zs) = n + 1
      /\ \A i \in 1..n + 1 : zs[i] = IF i <= n THEN ys[i] ELSE <<x>>[i - n]
  BY <1>1, <1>3, <1>4 DEF ConcatIs
<1> HIDE DEF zs
<1>6. ASSUME NEW i \in 1..n + 1 PROVE zs[i] = xs[i]
  <2>1. CASE i <= n
    BY <2>1, <1>1, <1>3, <1>5
  <2>2. CASE i = n + 1
    <3>1. i - n = 1 /\ ~(i <= n)
      BY <2>2, <1>1
    <3> QED
      BY <2>2, <3>1, <1>5 DEF x
  <2> QED
    BY <2>1, <2>2, <1>1
<1>7. zs = xs
  BY <1>1, <1>5, <1>6, SeqEqual
<1> QED
  BY <1>1, <1>2, <1>3, <1>7 DEF zs

(* Two filters in a row let through what one lets through.                 *)
Refiltered(xs, set, more) == Selected(Selected(xs, set), more) = Selected(xs, more \cap set)

LEMMA SelectedTwice ==
    ASSUME NEW xs \in Seq(Elements), NEW set, NEW more
    PROVE  Refiltered(xs, set, more)
<1> DEFINE T == {m \in Nat : \A zs \in Seq(Elements) : Len(zs) = m => Refiltered(zs, set, more)}
<1>1. 0 \in T
  <2>1. Refiltered(<<>>, set, more)
    BY SelectedEmpty DEF Refiltered
  <2>2. \A zs \in Seq(Elements) : Len(zs) = 0 => zs = <<>>
    OBVIOUS
  <2> QED
    BY <2>1, <2>2
<1>2. ASSUME NEW m \in T PROVE m + 1 \in T
  <2>1. m \in Nat /\ \A zs \in Seq(Elements) : Len(zs) = m => Refiltered(zs, set, more)
    BY <1>2
  <2>2. ASSUME NEW zs \in Seq(Elements), Len(zs) = m + 1 PROVE Refiltered(zs, set, more)
    <3>1. zs # <<>>
      BY <2>1, <2>2
    <3>2. PICK ys \in Seq(Elements), x \in Elements : zs = ys \o <<x>> /\ Len(zs) = Len(ys) + 1
      BY <3>1, LastOff
    <3>3. Refiltered(ys, set, more)
      BY <2>1, <2>2, <3>2
    <3>4. <<x>> \in Seq(Elements) /\ Kept(x, set) \in Seq(Elements)
      BY DEF Kept
    <3>5. ASSUME NEW any PROVE Selected(zs, any) = Selected(ys, any) \o Kept(x, any)
      <4>1. Selected(ys \o <<x>>, any) = Selected(ys, any) \o Selected(<<x>>, any)
        <5> DEFINE o == <<x>>
        <5>1. o \in Seq(Elements)
          BY <3>4
        <5> HIDE DEF o
        <5>2. Selected(ys \o o, any) = Selected(ys, any) \o Selected(o, any)
          BY SMTT(60), <5>1, SelectedConcat
        <5> QED
          BY <5>2 DEF o
      <4>2. Selected(<<x>>, any) = Kept(x, any)
        BY SelectedOne
      <4> QED
        BY <4>1, <4>2, <3>2
    <3>6. Selected(Selected(zs, set), more) = Selected(Selected(ys, set), more) \o Selected(Kept(x, set), more)
      <4> DEFINE sy == Selected(ys, set)
                 k == Kept(x, set)
      <4>1. sy \in Seq(Elements) /\ k \in Seq(Elements)
        BY <3>4, SelectedTyped
      <4>2. Selected(zs, set) = sy \o k
        BY <3>5
      <4> HIDE DEF sy, k
      <4>3. Selected(sy \o k, more) = Selected(sy, more) \o Selected(k, more)
        BY SMTT(60), <4>1, SelectedConcat
      <4> QED
        BY <4>2, <4>3 DEF sy, k
    <3>7. Selected(Kept(x, set), more) = Kept(x, more \cap set)
      <4>1. CASE x \in set
        <5>1. Selected(<<x>>, more) = Kept(x, more)
          BY SelectedOne
        <5> QED
          BY <4>1, <5>1 DEF Kept
      <4>2. CASE x \notin set
        BY <4>2, SelectedEmpty DEF Kept
      <4> QED
        BY <4>1, <4>2
    <3> QED
      BY <3>3, <3>5, <3>6, <3>7 DEF Refiltered
  <2> QED
    BY <2>1, <2>2
<1>3. T \in SUBSET Nat
  OBVIOUS
<1> HIDE DEF T
<1>4. T = Nat
  BY <1>1, <1>2, <1>3, Induct
<1>5. Len(xs) \in T
  BY <1>4
<1> QED
  BY <1>5 DEF T

(* A filter that every element passes.                                     *)
LEMMA SelectedAll ==
    ASSUME NEW xs \in Seq(Elements)
    PROVE  Selected(xs, Elements) = xs
<1> DEFINE T == {m \in Nat : \A zs \in Seq(Elements) : Len(zs) = m => Selected(zs, Elements) = zs}
<1>1. 0 \in T
  <2>1. \A zs \in Seq(Elements) : Len(zs) = 0 => zs = <<>>
    OBVIOUS
  <2> QED
    BY <2>1, SelectedEmpty
<1>2. ASSUME NEW m \in T PROVE m + 1 \in T
  <2>1. m \in Nat /\ \A zs \in Seq(Elements) : Len(zs) = m => Selected(zs, Elements) = zs
    BY <1>2
  <2>2. ASSUME NEW zs \in Seq(Elements), Len(zs) = m + 1 PROVE Selected(zs, Elements) = zs
    <3>1. zs # <<>>
      BY <2>1, <2>2
    <3>2. PICK ys \in Seq(Elements), x \in Elements : zs = ys \o <<x>> /\ Len(zs) = Len(ys) + 1
      BY <3>1, LastOff
    <3>3. Selected(ys, Elements) = ys
      BY <2>1, <2>2, <3>2
    <3>4. <<x>> \in Seq(Elements) /\ Kept(x, Elements) = <<x>>
      BY DEF Kept
    <3>5. Selected(zs, Elements) = Selected(ys, Elements) \o Kept(x, Elements)
      <4>1. Selected(ys \o <<x>>, Elements) = Selected(ys, Elements) \o Selected(<<x>>, Elements)
        <5> DEFINE o == <<x>>
        <5>1. o \in Seq(Elements)
          BY <3>4
        <5> HIDE DEF o
        <5>2. Selected(ys \o o, Elements) = Selected(ys, Elements) \o Selected(o, Elements)
          BY SMTT(60), <5>1, SelectedConcat
        <5> QED
          BY <5>2 DEF o
      <4>2. Selected(<<x>>, Elements) = Kept(x, Elements)
        BY SelectedOne
      <4> QED
        BY <4>1, <4>2, <3>2
    <3> QED
      BY <3>2, <3>3, <3>4, <3>5
  <2> QED
    BY <2>1, <2>2
<1>3. T \in SUBSET Nat
  OBVIOUS
<1> HIDE DEF T
<1>4. T = Nat
  BY <1>1, <1>2, <1>3, Induct
<1>5. Len(xs) \in T
  BY <1>4
<1> QED
  BY <1>5 DEF T

(* The stages, and what they make of a sequence one after the other.       *)
Ops == [kind : {"map", "filter", "drop_while", "dropped"}, map : [Elements -> Elements],
        test : SUBSET Elements]
PlainOps == [kind : {"map", "filter"}, map : [Elements -> Elements], test : SUBSET Elements]
GoesThrough(g, ops, xs) ==
    g[0] = xs /\ \A i \in 1..Len(ops) : g[i] = Stage(ops[i], g[i - 1])

LEMMA StageTyped ==
    ASSUME NEW op \in PlainOps, NEW xs \in Seq(Elements)
    PROVE  Stage(op, xs) \in Seq(Elements)
<1>1. CASE op.kind = "map"
  <2>1. Stage(op, xs) = [i \in DOMAIN xs |-> op.map[xs[i]]]
    BY <1>1 DEF Stage
  <2>2. DOMAIN xs = 1..Len(xs) /\ Len(xs) \in Nat /\ op.map \in [Elements -> Elements]
    BY DEF PlainOps
  <2>3. ASSUME NEW i \in 1..Len(xs) PROVE op.map[xs[i]] \in Elements
    <3>1. xs[i] \in Elements
      BY ElementOfSeq
    <3> QED
      BY <3>1, <2>2
  <2>4. [i \in 1..Len(xs) |-> op.map[xs[i]]] \in [1..Len(xs) -> Elements]
    BY <2>3
  <2> QED
    BY <2>1, <2>2, <2>4, SeqDef
<1>2. CASE op.kind = "filter"
  <2>1. Stage(op, xs) = Selected(xs, op.test)
    BY <1>2 DEF Stage
  <2> QED
    BY <2>1, SelectedTyped
<1> QED
  BY <1>1, <1>2 DEF PlainOps

LEMMA GoesThroughExists ==
    ASSUME NEW ops \in Seq(PlainOps), NEW xs \in Seq(Elements)
    PROVE  \E g \in [0..Len(ops) -> Seq(Elements)] : GoesThrough(g, ops, xs)
<1> DEFINE step == [p \in (1..Len(ops)) \X Seq(Elements) |-> Stage(ops[p[1]], p[2])]
<1>1. Len(ops) \in Nat
  OBVIOUS
<1>2. ASSUME NEW p \in (1..Len(ops)) \X Seq(Elements) PROVE Stage(ops[p[1]], p[2]) \in Seq(Elements)
  <2>1. p[1] \in 1..Len(ops) /\ p[2] \in Seq(Elements)
    OBVIOUS
  <2>2. ops[p[1]] \in PlainOps
    BY <2>1, ElementOfSeq
  <2> QED
    BY <2>1, <2>2, StageTyped
<1>3. step \in [(1..Len(ops)) \X Seq(Elements) -> Seq(Elements)]
  BY <1>2
<1> HIDE DEF step
<1>4. PICK g \in [0..Len(ops) -> Seq(Elements)] : Computes(g, Len(ops), xs, step)
  BY <1>1, <1>3, RecursionExists
<1>5. ASSUME NEW i \in 1..Len(ops) PROVE g[i] = Stage(ops[i], g[i - 1])
  <2>1. i - 1 \in 0..Len(ops)
    BY <1>1
  <2>2. g[i - 1] \in Seq(Elements) /\ <<i, g[i - 1]>> \in (1..Len(ops)) \X Seq(Elements)
    BY <2>1
  <2>3. step[<<i, g[i - 1]>>] = Stage(ops[i], g[i - 1])
    BY <2>2 DEF step
  <2> QED
    BY <1>4, <2>3 DEF Computes
<1> QED
  BY <1>4, <1>5 DEF Computes, GoesThrough

LEMMA InOrderIs ==
    ASSUME NEW ops \in Seq(PlainOps), NEW xs \in Seq(Elements),
           NEW g \in [0..Len(ops) -> Seq(Elements)], GoesThrough(g, ops, xs)
    PROVE  InOrder(ops, xs) = g[Len(ops)]
<1> DEFINE D == 0..Len(ops)
           after == CHOOSE f : f = [k \in D |-> IF k = 0 THEN xs ELSE Stage(ops[k], f[k - 1])]
<1>1. Len(ops) \in Nat
  OBVIOUS
<1>2. g = [k \in D |-> IF k = 0 THEN xs ELSE Stage(ops[k], g[k - 1])]
  <2>1. ASSUME NEW k \in D PROVE g[k] = IF k = 0 THEN xs ELSE Stage(ops[k], g[k - 1])
    <3>1. k # 0 => k \in 1..Len(ops)
      BY <1>1
    <3> QED
      BY <3>1 DEF GoesThrough
  <2> HIDE DEF D
  <2>2. g \in [D -> Seq(Elements)]
    BY DEF D
  <2> QED
    BY <2>1, <2>2
<1>3. after = [k \in D |-> IF k = 0 THEN xs ELSE Stage(ops[k], after[k - 1])]
  <2> HIDE DEF D
  <2> QED
    BY <1>2
<1> HIDE DEF after
<1> DEFINE T == {m \in Nat : m <= Len(ops) => after[m] = g[m]}
<1>4. T = Nat
  <2>1. 0 \in T
    <3>1. 0 \in D
      BY <1>1
    <3> QED
      BY <3>1, <1>3 DEF GoesThrough
  <2>2. ASSUME NEW m \in Nat, m \in T PROVE m + 1 \in T
    <3> SUFFICES ASSUME m + 1 <= Len(ops) PROVE after[m + 1] = g[m + 1]
      OBVIOUS
    <3>1. m + 1 \in D /\ m + 1 # 0 /\ (m + 1) - 1 = m /\ m + 1 \in 1..Len(ops)
      BY <1>1
    <3>2. after[m] = g[m]
      BY <2>2, <1>1
    <3> HIDE DEF T
    <3> DEFINE k == m + 1
    <3>3. k \in D /\ k # 0 /\ k - 1 = m /\ k \in 1..Len(ops)
      BY <3>1
    <3> HIDE DEF k, D
    <3>4. after[k] = Stage(ops[k], after[k - 1])
      BY <3>3, <1>3
    <3>5. g[k] = Stage(ops[k], g[k - 1])
      BY <3>3 DEF GoesThrough
    <3>6. after[k] = g[k]
      BY <3>2, <3>3, <3>4, <3>5
    <3> QED
      BY <3>6 DEF k
  <2>3. T \in SUBSET Nat
    OBVIOUS
  <2> HIDE DEF T
  <2> QED
    BY <2>1, <2>2, <2>3, Induct
<1>5. after[Len(ops)] = g[Len(ops)]
  BY <1>4, <1>1
<1> QED
  BY <1>5 DEF InOrder, after

LEMMA InOrderNone ==
    ASSUME NEW xs \in Seq(Elements)
    PROVE  InOrder(<<>>, xs) = xs
<1>1. <<>> \in Seq(PlainOps) /\ Len(<<>>) = 0
  OBVIOUS
<1>2. PICK g \in [0..Len(<<>>) -> Seq(Elements)] : GoesThrough(g, <<>>, xs)
  BY <1>1, GoesThroughExists
<1> QED
  BY <1>1, <1>2, InOrderIs DEF GoesThrough

LEMMA InOrderMore ==
    ASSUME NEW ops \in Seq(PlainOps), NEW op \in PlainOps, NEW xs \in Seq(Elements)
    PROVE  InOrder(Append(ops, op), xs) = Stage(op, InOrder(ops, xs))
<1> DEFINE more == Append(ops, op)
           n == Len(ops)
<1>1. /\ n \in Nat /\ more \in Seq(PlainOps) /\ Len(more) = n + 1
      /\ \A i \in 1..n : more[i] = ops[i]
      /\ more[n + 1] = op
  OBVIOUS
<1> HIDE DEF more
<1>2. PICK g \in [0..Len(more) -> Seq(Elements)] : GoesThrough(g, more, xs)
  BY <1>1, GoesThroughExists
<1> DEFINE h == [i \in 0..n |-> g[i]]
<1>3. h \in [0..Len(ops) -> Seq(Elements)]
  BY <1>1
<1>4. GoesThrough(h, ops, xs)
  <2>1. h[0] = xs
    BY <1>1, <1>2 DEF GoesThrough
  <2>2. ASSUME NEW i \in 1..Len(ops) PROVE h[i] = Stage(ops[i], h[i - 1])
    <3>1. i \in 1..Len(more) /\ i \in 0..n /\ i - 1 \in 0..n
      BY <1>1
    <3>2. g[i] = Stage(more[i], g[i - 1])
      BY <3>1, <1>2 DEF GoesThrough
    <3> QED
      BY <3>1, <3>2, <1>1
  <2> HIDE DEF h
  <2> QED
    BY <2>1, <2>2 DEF GoesThrough
<1>5. InOrder(ops, xs) = h[n] /\ h[n] = g[n]
  <2>1. h[n] = g[n]
    BY <1>1
  <2> HIDE DEF h
  <2> QED
    BY <2>1, <1>3, <1>4, InOrderIs
<1>6. InOrder(more, xs) = g[n + 1]
  BY <1>1, <1>2, InOrderIs
<1>7. g[n + 1] = Stage(more[n + 1], g[n])
  <2>1. n + 1 \in 1..Len(more) /\ (n + 1) - 1 = n
    BY <1>1
  <2> QED
    BY <2>1, <1>2 DEF GoesThrough
<1> QED
  BY <1>1, <1>5, <1>6, <1>7 DEF more

(* Maps and then filters: so was it before the last stage, and once an     *)
(* element has come through they are still the same.                       *)
AllMaps(ops) == \A i \in DOMAIN ops : ops[i].kind = "map"

LEMMA PlainOfOps ==
    ASSUME NEW ops \in Seq(Ops), MapsThenFilters(ops)
    PROVE  ops \in Seq(PlainOps)
<1>1. DOMAIN ops = 1..Len(ops) /\ Len(ops) \in Nat /\ ops = [i \in 1..Len(ops) |-> ops[i]]
  OBVIOUS
<1>2. ASSUME NEW i \in 1..Len(ops) PROVE ops[i] \in PlainOps
  <2>1. ops[i] \in Ops
    BY ElementOfSeq
  <2>2. ops[i].kind \in {"map", "filter"}
    BY <1>1 DEF MapsThenFilters
  <2> QED
    BY <2>1, <2>2 DEF Ops, PlainOps
<1>3. [i \in 1..Len(ops) |-> ops[i]] \in [1..Len(ops) -> PlainOps]
  BY <1>2
<1> QED
  BY <1>1, <1>3, SeqDef

LEMMA BeforeTheLast ==
    ASSUME NEW ops \in Seq(Ops), NEW op \in Ops, MapsThenFilters(Append(ops, op))
    PROVE  /\ MapsThenFilters(ops) /\ op.kind \in {"map", "filter"}
           /\ op.kind = "map" => AllMaps(ops)
           /\ AllMaps(Append(ops, op)) => AllMaps(ops) /\ op.kind = "map"
<1> DEFINE more == Append(ops, op)
           n == Len(ops)
<1>1. /\ n \in Nat /\ DOMAIN ops = 1..n /\ DOMAIN more = 1..n + 1
      /\ \A i \in 1..n : more[i] = ops[i]
      /\ more[n + 1] = op
  OBVIOUS
<1> HIDE DEF more
<1>2. MapsThenFilters(more)
  BY DEF more
<1>3. /\ n + 1 \in DOMAIN more
      /\ \A i \in 1..n : i \in DOMAIN more /\ i < n + 1
  BY <1>1
<1>4. MapsThenFilters(ops) /\ op.kind \in {"map", "filter"}
  BY <1>1, <1>2, <1>3 DEF MapsThenFilters
<1>5. ASSUME op.kind = "map", NEW i \in 1..n PROVE ops[i].kind = "map"
  <2>1. ops[i].kind \in {"map", "filter"}
    BY <1>1, <1>4 DEF MapsThenFilters
  <2>2. ops[i].kind # "filter"
    BY <1>1, <1>2, <1>3, <1>5 DEF MapsThenFilters
  <2> QED
    BY <2>1, <2>2
<1>6. AllMaps(more) => AllMaps(ops) /\ op.kind = "map"
  BY <1>1, <1>3 DEF AllMaps
<1> QED
  BY <1>1, <1>4, <1>5, <1>6 DEF AllMaps, more

LEMMA SpentIs ==
    ASSUME NEW ops \in Seq(Ops)
    PROVE  /\ Spent(ops) \in Seq(Ops)
           /\ MapsThenFilters(ops) \/ MapsThenFilters(Spent(ops)) => Spent(ops) = ops
<1> DEFINE sp == Spent(ops)
           n == Len(ops)
<1>1. n \in Nat /\ DOMAIN ops = 1..n /\ ops = [i \in 1..n |-> ops[i]]
  OBVIOUS
<1>2. sp = [i \in 1..n |-> IF ops[i].kind = "drop_while" THEN [ops[i] EXCEPT !.kind = "dropped"]
                           ELSE ops[i]]
  BY <1>1 DEF Spent
<1> HIDE DEF sp
<1>3. ASSUME NEW i \in 1..n
      PROVE  /\ sp[i] \in Ops
             /\ ops[i].kind = "drop_while" => sp[i].kind = "dropped"
             /\ ops[i].kind # "drop_while" => sp[i] = ops[i]
  <2>1. ops[i] \in Ops
    BY ElementOfSeq
  <2>2. CASE ops[i].kind = "drop_while"
    <3>1. sp[i] = [ops[i] EXCEPT !.kind = "dropped"]
      BY <1>2, <2>2
    <3> QED
      BY <2>1, <2>2, <3>1 DEF Ops
  <2>3. CASE ops[i].kind # "drop_while"
    BY <1>2, <2>1, <2>3
  <2> QED
    BY <2>2, <2>3
<1>4. sp \in [1..n -> Ops] /\ DOMAIN sp = 1..n
  BY <1>2, <1>3
<1>5. sp \in Seq(Ops)
  BY <1>1, <1>4, SeqDef
<1>6. ASSUME MapsThenFilters(ops) \/ MapsThenFilters(sp) PROVE sp = ops
  <2>1. ASSUME NEW i \in 1..n PROVE ops[i].kind # "drop_while"
    BY <1>1, <1>3, <1>4, <1>6 DEF MapsThenFilters
  <2>2. \A i \in 1..n : sp[i] = ops[i]
    BY <2>1, <1>3
  <2> QED
    BY <2>2, <1>1, <1>4
<1> QED
  BY <1>5, <1>6 DEF sp

-----------------------------------------------------------------------------
(* Streams, and what they give out.                                        *)
LazyStreams == [head : Elements, data : Seq(Elements), remaining : BOOLEAN, finite : BOOLEAN,
                producer : [Elements -> Elements], mapper : [Elements -> Elements],
                predicate : SUBSET Elements]
GoodStream(s) == s \in LazyStreams /\ (~s.remaining => s.finite /\ s.data = <<>>)
SameMaking(s, t) ==
    /\ t.finite = s.finite /\ t.producer = s.producer
    /\ t.mapper = s.mapper /\ t.predicate = s.predicate

(* What comes out when s takes the elements xs.                            *)
Came(s, xs) == Selected([i \in DOMAIN xs |-> s.mapper[xs[i]]], s.predicate)

(* Maps and then filters make of a sequence what s lets through.           *)
Composed(ops, s) ==
    MapsThenFilters(ops) =>
        /\ \A xs \in Seq(Elements) : InOrder(ops, xs) = Came(s, xs)
        /\ AllMaps(ops) => s.predicate = Elements

LEMMA MapTyped ==
    ASSUME NEW s \in LazyStreams, NEW xs \in Seq(Elements)
    PROVE  /\ [i \in DOMAIN xs |-> s.mapper[xs[i]]] \in Seq(Elements)
           /\ Len([i \in DOMAIN xs |-> s.mapper[xs[i]]]) = Len(xs)
           /\ DOMAIN xs = 1..Len(xs) /\ Len(xs) \in Nat
<1>1. DOMAIN xs = 1..Len(xs) /\ Len(xs) \in Nat
  OBVIOUS
<1>2. s.mapper \in [Elements -> Elements]
  BY DEF LazyStreams
<1>3. ASSUME NEW i \in 1..Len(xs) PROVE s.mapper[xs[i]] \in Elements
  <2>1. xs[i] \in Elements
    BY ElementOfSeq
  <2> QED
    BY <1>2, <2>1
<1>4. [i \in 1..Len(xs) |-> s.mapper[xs[i]]] \in [1..Len(xs) -> Elements]
  BY <1>3
<1> QED
  BY <1>1, <1>4, SeqDef

LEMMA CameTyped ==
    ASSUME NEW s \in LazyStreams, NEW xs \in Seq(Elements)
    PROVE  Came(s, xs) \in Seq(Elements)
BY MapTyped, SelectedTyped DEF Came

LEMMA CameEmpty ==
    ASSUME NEW s
    PROVE  Came(s, <<>>) = <<>>
<1>1. [i \in DOMAIN <<>> |-> s.mapper[<<>>[i]]] = <<>>
  OBVIOUS
<1> QED
  BY <1>1, SelectedEmpty DEF Came

LEMMA CameConcat ==
    ASSUME NEW s \in LazyStreams, NEW xs \in Seq(Elements), NEW ys \in Seq(Elements)
    PROVE  Came(s, xs \o ys) = Came(s, xs) \o Came(s, ys)
<1> DEFINE zs == xs \o ys
           mx == [i \in DOMAIN xs |-> s.mapper[xs[i]]]
           my == [i \in DOMAIN ys |-> s.mapper[ys[i]]]
           mz == [i \in DOMAIN zs |-> s.mapper[zs[i]]]
<1>1. ConcatIs(Elements, xs, ys, zs)
  BY ConcatFacts
<1>2. /\ zs \in Seq(Elements) /\ Len(zs) = Len(xs) + Len(ys)
      /\ \A i \in 1..Len(xs) + Len(ys) : zs[i] = IF i <= Len(xs) THEN xs[i] ELSE ys[i - Len(xs)]
  BY <1>1 DEF ConcatIs
<1> HIDE DEF zs
<1>3. /\ Len(xs) \in Nat /\ DOMAIN xs = 1..Len(xs) /\ mx \in Seq(Elements) /\ Len(mx) = Len(xs)
      /\ Len(ys) \in Nat /\ DOMAIN ys = 1..Len(ys) /\ my \in Seq(Elements) /\ Len(my) = Len(ys)
      /\ Len(zs) \in Nat /\ DOMAIN zs = 1..Len(zs) /\ mz \in Seq(Elements) /\ Len(mz) = Len(zs)
  BY <1>2, MapTyped
<1>4. ConcatIs(Elements, mx, my, mx \o my)
  BY <1>3, ConcatFacts
<1>5. /\ \A i \in 1..Len(xs) : mx[i] = s.mapper[xs[i]]
      /\ \A i \in 1..Len(ys) : my[i] = s.mapper[ys[i]]
      /\ \A i \in 1..Len(zs) : mz[i] = s.mapper[zs[i]]
  BY <1>3
<1>6. mz = mx \o my
  <2> DEFINE mm == mx \o my
  <2>1. /\ mm \in Seq(Elements) /\ Len(mm) = Len(mx) + Len(my)
        /\ \A i \in 1..Len(mx) + Len(my) : mm[i] = IF i <= Len(mx) THEN mx[i] ELSE my[i - Len(mx)]
    BY <1>4 DEF ConcatIs
  <2> HIDE DEF mm, mx, my, mz
  <2>2. ASSUME NEW i \in 1..Len(zs) PROVE mz[i] = mm[i]
    <3>1. CASE i <= Len(xs)
      <4>1. i \in 1..Len(xs) /\ i \in 1..Len(xs) + Len(ys) /\ i \in 1..Len(mx) + Len(my)
        BY <3>1, <1>2, <1>3
      <4>2. zs[i] = xs[i] /\ mm[i] = mx[i]
        BY <3>1, <4>1, <1>2, <1>3, <2>1
      <4> QED
        BY <4>1, <4>2, <1>5
    <3>2. CASE i > Len(xs)
      <4>1. /\ i - Len(xs) \in 1..Len(ys) /\ ~(i <= Len(xs))
            /\ i \in 1..Len(xs) + Len(ys) /\ i \in 1..Len(mx) + Len(my)
        BY <3>2, <1>2, <1>3
      <4>2. zs[i] = ys[i - Len(xs)]
        BY <4>1, <1>2
      <4>3. mm[i] = my[i - Len(xs)]
        BY <4>1, <2>1, <1>3
      <4>4. my[i - Len(xs)] = s.mapper[ys[i - Len(xs)]]
        BY <4>1, <1>5
      <4> QED
        BY <4>2, <4>3, <4>4, <1>5
    <3> QED
      BY <3>1, <3>2, <1>3
  <2>3. Len(mz) = Len(mm)
    BY <2>1, <1>2, <1>3
  <2>4. mz = mm
    BY <2>1, <2>2, <2>3, <1>3, SeqEqual
  <2> QED
    BY <2>4 DEF mm
<1> HIDE DEF mx, my, mz
<1>7. Selected(mz, s.predicate) = Selected(mx, s.predicate) \o Selected(my, s.predicate)
  BY SMTT(60), <1>6, <1>3, SelectedConcat
<1> QED
  BY <1>7 DEF Came, mx, my, mz, zs

LEMMA CameAppend ==
    ASSUME NEW s \in LazyStreams, NEW xs \in Seq(Elements), NEW x \in Elements
    PROVE  Came(s, Append(xs, x)) = Came(s, xs) \o Kept(s.mapper[x], s.predicate)
<1>1. Append(xs, x) = xs \o <<x>> /\ <<x>> \in Seq(Elements)
  BY AppendIsConcat
<1>2. [i \in DOMAIN <<x>> |-> s.mapper[<<x>>[i]]] = <<s.mapper[x]>>
  OBVIOUS
<1>3. s.mapper[x] \in Elements
  BY DEF LazyStreams
<1>4. Came(s, <<x>>) = Kept(s.mapper[x], s.predicate)
  BY <1>2, <1>3, SelectedOne DEF Came
<1> QED
  BY <1>1, <1>4, CameConcat

-----------------------------------------------------------------------------
(* The elements of a stream without end follow each other.                 *)
Chain(f, xs) == \A i \in 1..Len(xs) - 1 : xs[i + 1] = f[xs[i]]

LEMMA ShownIs ==
    /\ IsFiniteSet(Elements) /\ Cardinality(Elements) \in Nat /\ MaxTake \in Nat /\ Shown \in Nat
    /\ Shown >= 1 /\ Shown >= Cardinality(Elements)
    /\ \A n \in 0..MaxTake : Shown >= n * Cardinality(Elements)
<1>1. IsFiniteSet(Elements) /\ MaxTake \in Nat
  BY StreamAssumption
<1>2. Cardinality(Elements) \in Nat
  BY <1>1, FS_CardinalityType
<1> DEFINE c == Cardinality(Elements)
<1>3. c \in Nat
  BY <1>2
<1> HIDE DEF c
<1>4. ASSUME NEW m \in Nat, NEW n \in 0..m
      PROVE  /\ (m + 2) * (c + 1) \in Nat /\ (m + 2) * (c + 1) >= 1
             /\ (m + 2) * (c + 1) >= c /\ (m + 2) * (c + 1) >= n * c
  <2>1. (m + 2) * (c + 1) = m * c + m + 2 * c + 2 /\ m * c \in Nat
    BY <1>3
  <2>2. m * c = n * c + (m - n) * c /\ (m - n) * c \in Nat /\ n * c \in Nat
    BY <1>3
  <2> QED
    BY <2>1, <2>2, <1>3
<1>5. 0 \in 0..MaxTake
  BY <1>1
<1> QED
  BY <1>1, <1>3, <1>4, <1>5 DEF Shown, c

LEMMA ChainsAgree ==
    ASSUME NEW f, NEW xs \in Seq(Elements), NEW ys \in Seq(Elements), Chain(f, xs), Chain(f, ys),
           NEW i \in 1..Len(xs), NEW j \in 1..Len(ys), xs[i] = ys[j],
           NEW d \in Nat, i + d <= Len(xs), j + d <= Len(ys)
    PROVE  xs[i + d] = ys[j + d]
<1> DEFINE T == {m \in Nat : i + m <= Len(xs) /\ j + m <= Len(ys) => xs[i + m] = ys[j + m]}
<1>1. Len(xs) \in Nat /\ Len(ys) \in Nat
  OBVIOUS
<1>2. 0 \in T
  BY <1>1
<1>3. ASSUME NEW m \in Nat, m \in T PROVE m + 1 \in T
  <2> SUFFICES ASSUME i + (m + 1) <= Len(xs), j + (m + 1) <= Len(ys)
               PROVE  xs[i + (m + 1)] = ys[j + (m + 1)]
    OBVIOUS
  <2>1. xs[i + m] = ys[j + m]
    BY <1>3, <1>1
  <2>2. i + m \in 1..Len(xs) - 1 /\ j + m \in 1..Len(ys) - 1
    BY <1>1
  <2>3. i + (m + 1) = (i + m) + 1 /\ j + (m + 1) = (j + m) + 1
    BY <1>1
  <2> HIDE DEF T
  <2>4. xs[(i + m) + 1] = f[xs[i + m]] /\ ys[(j + m) + 1] = f[ys[j + m]]
    BY <2>2 DEF Chain
  <2> QED
    BY <2>1, <2>3, <2>4
<1>4. T \in SUBSET Nat
  OBVIOUS
<1>5. d \in T
  <2> HIDE DEF T
  <2> QED
    BY <1>2, <1>3, <1>4, Induct
<1> QED
  BY <1>5

(* An element that stops a call comes within so many steps, if at all: the *)
(* elements before it are different ones, or it would have come before.    *)
LEMMA ShortGap ==
    ASSUME NEW f, NEW zs \in Seq(Elements), Chain(f, zs), NEW q \in 0..Len(zs) - 1,
           NEW hit, zs[Len(zs)] \in hit, \A i \in q + 1..Len(zs) - 1 : zs[i] \notin hit
    PROVE  Len(zs) <= q + Cardinality(Elements)
<1> DEFINE n == Len(zs)
           S == q + 1..n
<1>1. n \in Nat /\ q \in Nat /\ q < n
  OBVIOUS
<1>2. Cardinality(Elements) \in Nat /\ IsFiniteSet(Elements)
  BY ShownIs
<1>3. IsFiniteSet(S) /\ Cardinality(S) = n - q
  BY <1>1, FS_Interval
<1> SUFFICES ASSUME n > q + Cardinality(Elements) PROVE FALSE
  BY <1>1, <1>2
<1> DEFINE g == [i \in S |-> zs[i]]
<1>4. g \in [S -> Elements]
  <2>1. ASSUME NEW i \in S PROVE zs[i] \in Elements
    <3>1. i \in 1..Len(zs)
      BY <1>1
    <3> QED
      BY <3>1, ElementOfSeq
  <2> QED
    BY <2>1
<1>5. Cardinality(Elements) < Cardinality(S)
  BY <1>1, <1>2, <1>3
<1>6. PICK a \in S, b \in S : a # b /\ g[a] = g[b]
  <2> HIDE DEF g, S
  <2> QED
    BY <1>2, <1>3, <1>4, <1>5, FS_PigeonHole
<1>7. ASSUME NEW x \in S, NEW y \in S, zs[x] = zs[y], x < y PROVE FALSE
  <2>1. /\ x \in 1..Len(zs) /\ y \in 1..Len(zs) /\ n - y \in Nat /\ x + (n - y) <= Len(zs)
        /\ y + (n - y) <= Len(zs) /\ y + (n - y) = Len(zs) /\ x + (n - y) \in q + 1..Len(zs) - 1
    BY <1>1, <1>7
  <2> DEFINE d == n - y
  <2>2. d \in Nat /\ x + d <= Len(zs) /\ y + d <= Len(zs)
    BY <2>1
  <2> HIDE DEF d
  <2>3. zs[x + d] = zs[y + d]
    BY SMTT(60), <2>1, <2>2, <1>7, ChainsAgree
  <2> QED
    BY <2>1, <2>3 DEF d
<1>8. zs[a] = zs[b] /\ (a < b \/ b < a)
  <2>1. a \in Int /\ b \in Int
    BY <1>1
  <2> QED
    BY <1>6, <2>1
<1> QED
  BY <1>7, <1>8

(* The iterates that Source shows of a stream without end.                 *)
LEMMA SourceOfEndless ==
    ASSUME NEW s \in LazyStreams, ~s.finite
    PROVE  /\ Source(s) \in Seq(Elements) /\ Len(Source(s)) = Shown
           /\ Source(s)[1] = s.head /\ Chain(s.producer, Source(s))
<1> DEFINE D == 1..Shown
           at == CHOOSE f : f = [i \in D |-> IF i = 1 THEN s.head ELSE s.producer[f[i - 1]]]
           step == [p \in (1..Shown) \X Elements |-> IF p[1] = 1 THEN p[2] ELSE s.producer[p[2]]]
<1>1. Shown \in Nat /\ Shown >= 1
  BY ShownIs
<1>2. s.head \in Elements /\ s.producer \in [Elements -> Elements]
  BY DEF LazyStreams
<1>3. step \in [(1..Shown) \X Elements -> Elements]
  BY <1>2
<1>4. PICK g \in [0..Shown -> Elements] : Computes(g, Shown, s.head, step)
  <2> HIDE DEF step
  <2> QED
    BY <1>1, <1>2, <1>3, RecursionExists
<1> DEFINE h == [i \in D |-> g[i]]
<1>5. ASSUME NEW i \in D PROVE g[i] \in Elements /\ g[i] = IF i = 1 THEN s.head ELSE s.producer[g[i - 1]]
  <2>1. i \in 0..Shown /\ i - 1 \in 0..Shown /\ i \in 1..Shown
    BY <1>1
  <2>2. g[i] \in Elements /\ g[i - 1] \in Elements /\ <<i, g[i - 1]>> \in (1..Shown) \X Elements
    BY <2>1
  <2>3. g[i] = step[<<i, g[i - 1]>>]
    BY <2>1, <1>4 DEF Computes
  <2>4. step[<<i, g[i - 1]>>] = IF i = 1 THEN g[i - 1] ELSE s.producer[g[i - 1]]
    BY <2>2
  <2>5. g[0] = s.head
    BY <1>4 DEF Computes
  <2>6. i = 1 => i - 1 = 0
    OBVIOUS
  <2> HIDE DEF step
  <2> QED
    BY <2>2, <2>3, <2>4, <2>5, <2>6
<1>6. \A i \in D : i # 1 => i - 1 \in D
  BY <1>1
<1>7. h = [i \in D |-> IF i = 1 THEN s.head ELSE s.producer[h[i - 1]]]
  <2> HIDE DEF D, step
  <2>1. ASSUME NEW i \in D PROVE h[i] = IF i = 1 THEN s.head ELSE s.producer[h[i - 1]]
    BY <1>5, <1>6
  <2> QED
    BY <2>1
<1>8. at = [i \in D |-> IF i = 1 THEN s.head ELSE s.producer[at[i - 1]]]
  <2> HIDE DEF D, h
  <2> QED
    BY <1>7
<1> DEFINE src == [i \in D |-> at[i]]
<1>9. Source(s) = src
  BY DEF Source
<1> HIDE DEF at, h, step
<1>10. /\ src[1] = s.head
       /\ \A i \in D : i # 1 => src[i] = s.producer[src[i - 1]]
  <2>1. 1 \in D
    BY <1>1
  <2> HIDE DEF D
  <2> QED
    BY <2>1, <1>8, <1>6
<1>11. \A i \in D : src[i] \in Elements
  <2> DEFINE T == {m \in Nat : m + 1 <= Shown => src[m + 1] \in Elements}
  <2>1. 0 \in T
    BY <1>10, <1>2
  <2>2. ASSUME NEW m \in Nat, m \in T PROVE m + 1 \in T
    <3> SUFFICES ASSUME (m + 1) + 1 <= Shown PROVE src[(m + 1) + 1] \in Elements
      OBVIOUS
    <3>1. src[m + 1] \in Elements
      BY <2>2, <1>1
    <3>2. (m + 1) + 1 \in D /\ (m + 1) + 1 # 1 /\ ((m + 1) + 1) - 1 = m + 1
      BY <1>1
    <3> HIDE DEF D, src
    <3>3. src[(m + 1) + 1] = s.producer[src[m + 1]]
      BY <3>2, <1>10
    <3> QED
      BY <3>1, <3>3, <1>2
  <2>3. T \in SUBSET Nat
    OBVIOUS
  <2>4. T = Nat
    <3> HIDE DEF T
    <3> QED
      BY <2>1, <2>2, <2>3, Induct
  <2>5. ASSUME NEW i \in D PROVE src[i] \in Elements
    <3>1. i - 1 \in Nat /\ (i - 1) + 1 = i /\ i <= Shown
      BY <1>1
    <3>2. i - 1 \in T
      BY <3>1, <2>4
    <3> QED
      BY <3>1, <3>2
  <2> QED
    BY <2>5
<1>12. src \in [D -> Elements] /\ src \in Seq(Elements) /\ Len(src) = Shown
  <2>1. src \in [D -> Elements]
    BY <1>11
  <2> HIDE DEF src
  <2> QED
    BY <2>1, <1>1, LenProperties, SeqDef
<1>13. ASSUME NEW i \in 1..Len(src) - 1 PROVE src[i + 1] = s.producer[src[i]]
  <2>1. i + 1 \in D /\ i + 1 # 1 /\ (i + 1) - 1 = i
    BY <1>1, <1>12
  <2> HIDE DEF src, D
  <2> QED
    BY <2>1, <1>10
<1> HIDE DEF src
<1> QED
  BY <1>9, <1>10, <1>12, <1>13 DEF Chain

-----------------------------------------------------------------------------
LEMMA SourceOfList ==
    ASSUME NEW s \in LazyStreams, s.finite
    PROVE  /\ Source(s) = IF s.remaining THEN <<s.head>> \o s.data ELSE <<>>
           /\ Source(s) \in Seq(Elements)
<1>1. s.head \in Elements /\ s.data \in Seq(Elements)
  BY DEF LazyStreams
<1>2. <<s.head>> \in Seq(Elements) /\ <<>> \in Seq(Elements)
  BY <1>1
<1>3. <<s.head>> \o s.data \in Seq(Elements)
  BY <1>1, <1>2, ConcatProperties
<1> QED
  BY <1>2, <1>3 DEF Source

LEMMA SourceTyped ==
    ASSUME NEW s \in LazyStreams
    PROVE  Source(s) \in Seq(Elements)
BY SourceOfList, SourceOfEndless

(* One element is taken.                                                   *)
LEMMA TakenIs ==
    ASSUME NEW s, GoodStream(s), s.remaining
    PROVE  /\ GoodStream(Taken(s)) /\ SameMaking(s, Taken(s))
           /\ s.finite => Source(s) = <<s.head>> \o Source(Taken(s))
           /\ ~s.finite => Taken(s).head = s.producer[s.head] /\ Taken(s).remaining
<1>1. /\ s \in LazyStreams /\ s.head \in Elements /\ s.data \in Seq(Elements)
      /\ s.producer \in [Elements -> Elements] /\ s.remaining = TRUE
  BY DEF GoodStream, LazyStreams
<1>2. CASE ~s.finite
  <2>1. Taken(s) = [s EXCEPT !.head = s.producer[s.head]]
    BY <1>2, <1>1 DEF Taken
  <2>2. s.producer[s.head] \in Elements
    BY <1>1
  <2>3. /\ Taken(s) \in LazyStreams /\ Taken(s).head = s.producer[s.head]
        /\ Taken(s).remaining = s.remaining /\ SameMaking(s, Taken(s))
    BY <2>1, <2>2, <1>1 DEF LazyStreams, SameMaking
  <2> QED
    BY <2>3, <1>1, <1>2 DEF GoodStream
<1>3. CASE s.finite /\ s.data = <<>>
  <2>1. Taken(s) = [s EXCEPT !.remaining = FALSE]
    BY <1>3, <1>1 DEF Taken
  <2>2. /\ Taken(s) \in LazyStreams /\ Taken(s).remaining = FALSE /\ Taken(s).data = <<>>
        /\ SameMaking(s, Taken(s)) /\ Taken(s).finite
    BY <2>1, <1>1, <1>3 DEF LazyStreams, SameMaking
  <2>3. Source(s) = <<s.head>> \o <<>> /\ Source(Taken(s)) = <<>>
    BY <2>2, <1>1, <1>3, SourceOfList
  <2> QED
    BY <2>2, <2>3, <1>3 DEF GoodStream
<1>4. CASE s.finite /\ s.data # <<>>
  <2>1. Taken(s) = [s EXCEPT !.head = Head(s.data), !.data = Tail(s.data)]
    BY <1>4, <1>1 DEF Taken
  <2>2. Head(s.data) \in Elements /\ Tail(s.data) \in Seq(Elements)
    BY <1>1, <1>4
  <2>3. /\ Taken(s) \in LazyStreams /\ Taken(s).remaining = TRUE /\ Taken(s).data = Tail(s.data)
        /\ SameMaking(s, Taken(s)) /\ Taken(s).finite /\ Taken(s).head = Head(s.data)
    BY <2>1, <2>2, <1>1, <1>4 DEF LazyStreams, SameMaking
  <2>4. Source(s) = <<s.head>> \o s.data
    BY <1>1, <1>4, SourceOfList
  <2>5. Source(Taken(s)) = <<Head(s.data)>> \o Tail(s.data)
    BY <2>3, SourceOfList
  <2>6. <<Head(s.data)>> \o Tail(s.data) = s.data
    BY <1>1, <1>4, HeadTailProperties, ConcatProperties
  <2> QED
    BY <2>3, <2>4, <2>5, <2>6, <1>4 DEF GoodStream
<1> QED
  BY <1>2, <1>3, <1>4

(* After the elements xs have been taken from s, t is left.                *)
Follows(s, xs, t) ==
    /\ s.finite => Source(s) = xs \o Source(t)
    /\ ~s.finite => /\ Chain(s.producer, Append(xs, t.head))
                    /\ Append(xs, t.head)[1] = s.head

LEMMA FollowsItself ==
    ASSUME NEW s \in LazyStreams
    PROVE  Follows(s, <<>>, s)
<1>1. Source(s) \in Seq(Elements)
  BY SourceTyped
<1>2. <<>> \o Source(s) = Source(s)
  BY <1>1, ConcatEmptySeq
<1>3. Append(<<>>, s.head) = <<s.head>> /\ Len(<<s.head>>) = 1
  OBVIOUS
<1> QED
  BY <1>2, <1>3 DEF Follows, Chain

LEMMA FollowsOn ==
    ASSUME NEW s, GoodStream(s), NEW t, GoodStream(t), SameMaking(s, t), t.remaining,
           NEW xs \in Seq(Elements), Follows(s, xs, t)
    PROVE  Follows(s, Append(xs, t.head), Taken(t))
<1>1. /\ t \in LazyStreams /\ s \in LazyStreams /\ t.head \in Elements
      /\ t.finite = s.finite /\ t.producer = s.producer
  BY DEF GoodStream, LazyStreams, SameMaking
<1>2. GoodStream(Taken(t)) /\ SameMaking(t, Taken(t))
  BY TakenIs
<1>3. Taken(t) \in LazyStreams /\ Taken(t).finite = t.finite
  BY <1>2 DEF GoodStream, SameMaking
<1>4. CASE s.finite
  <2>1. Source(t) = <<t.head>> \o Source(Taken(t)) /\ Source(Taken(t)) \in Seq(Elements)
    BY <1>1, <1>3, <1>4, TakenIs, SourceTyped
  <2>2. <<t.head>> \in Seq(Elements) /\ Append(xs, t.head) = xs \o <<t.head>>
    BY <1>1, AppendIsConcat
  <2>3. Associates(xs, <<t.head>>, Source(Taken(t)))
    BY <2>1, <2>2, Associative
  <2> QED
    BY <2>1, <2>2, <2>3, <1>4 DEF Follows, Associates
<1>5. CASE ~s.finite
  <2> DEFINE ys == Append(xs, t.head)
             zs == Append(ys, Taken(t).head)
  <2>1. Taken(t).head = t.producer[t.head] /\ Taken(t).head \in Elements
    BY <1>1, <1>3, <1>5, TakenIs DEF LazyStreams
  <2>2. /\ Len(xs) \in Nat /\ ys \in Seq(Elements) /\ Len(ys) = Len(xs) + 1 /\ ys[Len(xs) + 1] = t.head
        /\ zs \in Seq(Elements) /\ Len(zs) = Len(ys) + 1 /\ zs[Len(ys) + 1] = Taken(t).head
        /\ \A i \in 1..Len(ys) : zs[i] = ys[i]
    BY <1>1, <2>1
  <2>3. Chain(s.producer, ys) /\ ys[1] = s.head
    BY <1>5 DEF Follows
  <2> HIDE DEF ys, zs
  <2>4. ASSUME NEW i \in 1..Len(zs) - 1 PROVE zs[i + 1] = s.producer[zs[i]]
    <3>1. CASE i = Len(ys)
      <4>1. zs[i] = t.head /\ zs[i + 1] = Taken(t).head
        BY <3>1, <2>2
      <4> QED
        BY <4>1, <2>1, <1>1
    <3>2. CASE i # Len(ys)
      <4>1. i \in 1..Len(ys) - 1 /\ i \in 1..Len(ys) /\ i + 1 \in 1..Len(ys)
        BY <3>2, <2>2
      <4> QED
        BY <4>1, <2>2, <2>3 DEF Chain
    <3> QED
      BY <3>1, <3>2
  <2>5. zs[1] = s.head
    <3>1. 1 \in 1..Len(ys)
      BY <2>2
    <3> QED
      BY <3>1, <2>2, <2>3
  <2>6. Chain(s.producer, zs)
    BY <2>4 DEF Chain
  <2> QED
    BY <2>5, <2>6, <1>5 DEF Follows, ys, zs
<1> QED
  BY <1>4, <1>5

(* What s shows is what has been taken and what t shows; without end, t    *)
(* shows more.                                                             *)
LEMMA Behind ==
    ASSUME NEW s \in LazyStreams, NEW t \in LazyStreams, SameMaking(s, t), NEW xs \in Seq(Elements),
           Follows(s, xs, t), ~s.finite => Len(xs) <= Shown
    PROVE  \E rest \in Seq(Elements), more \in Seq(Elements) :
              /\ Source(s) = xs \o rest /\ Source(t) = rest \o more
              /\ s.finite => more = <<>> /\ rest = Source(t)
<1>1. Source(s) \in Seq(Elements) /\ Source(t) \in Seq(Elements) /\ <<>> \in Seq(Elements)
  BY SourceTyped
<1>2. CASE s.finite
  <2>1. Source(t) \o <<>> = Source(t)
    BY <1>1, ConcatEmptySeq
  <2>2. Source(s) = xs \o Source(t)
    BY <1>2 DEF Follows
  <2> QED
    BY <1>1, <1>2, <2>1, <2>2
<1>3. CASE ~s.finite
  <2> DEFINE k == Len(xs)
             ss == Source(s)
             tt == Source(t)
             ys == Append(xs, t.head)
             rest == SubSeq(tt, 1, Shown - k)
             more == SubSeq(tt, Shown - k + 1, Shown)
  <2>1. t.finite = s.finite /\ t.producer = s.producer /\ t.head \in Elements
    BY DEF SameMaking, LazyStreams
  <2>2. k \in Nat /\ Shown \in Nat /\ k <= Shown /\ Shown >= 1
    BY <1>3, ShownIs
  <2>3. /\ ss \in Seq(Elements) /\ Len(ss) = Shown /\ ss[1] = s.head /\ Chain(s.producer, ss)
        /\ tt \in Seq(Elements) /\ Len(tt) = Shown /\ tt[1] = t.head /\ Chain(s.producer, tt)
    BY <1>3, <2>1, SourceOfEndless
  <2>4. /\ ys \in Seq(Elements) /\ Len(ys) = k + 1 /\ ys[k + 1] = t.head
        /\ \A i \in 1..k : ys[i] = xs[i]
    BY <2>1
  <2>5. Chain(s.producer, ys) /\ ys[1] = s.head
    BY <1>3 DEF Follows
  <2> HIDE DEF k, ss, tt, ys
  <2>6. ASSUME NEW i \in 1..k + 1, i <= Shown PROVE ss[i] = ys[i]
    <3>1. /\ i - 1 \in Nat /\ 1 + (i - 1) = i /\ 1 + (i - 1) <= Len(ss) /\ 1 + (i - 1) <= Len(ys)
          /\ 1 \in 1..Len(ss) /\ 1 \in 1..Len(ys)
      BY <2>2, <2>3, <2>4, <2>6
    <3> DEFINE d == i - 1
    <3>2. d \in Nat /\ 1 + d <= Len(ss) /\ 1 + d <= Len(ys)
      BY <3>1
    <3> HIDE DEF d
    <3>3. ss[1] = ys[1]
      BY <2>3, <2>5
    <3>4. ss[1 + d] = ys[1 + d]
      BY <3>1, <3>2, <3>3, <2>3, <2>4, <2>5, ChainsAgree
    <3> QED
      BY <3>1, <3>4 DEF d
  <2>7. ASSUME NEW j \in 1..Shown - k PROVE ss[k + j] = tt[j]
    <3>1. /\ j - 1 \in Nat /\ 1 + (j - 1) = j /\ (k + 1) + (j - 1) = k + j
          /\ (k + 1) + (j - 1) <= Len(ss) /\ 1 + (j - 1) <= Len(tt)
          /\ k + 1 \in 1..Len(ss) /\ 1 \in 1..Len(tt) /\ k + 1 \in 1..k + 1 /\ k + 1 <= Shown
      BY <2>2, <2>3
    <3>2. ss[k + 1] = tt[1]
      BY <3>1, <2>3, <2>4, <2>6
    <3>3. ss[(k + 1) + (j - 1)] = tt[1 + (j - 1)]
      BY <3>1, <3>2, <2>3, ChainsAgree
    <3> QED
      BY <3>1, <3>3
  <2>8. /\ rest \in Seq(Elements) /\ Len(rest) = Shown - k
        /\ \A j \in 1..Shown - k : rest[j] = tt[j]
    BY <2>2, <2>3, SubSeqProperties
  <2>9. more \in Seq(Elements)
    BY <2>2, <2>3, SubSeqProperties
  <2>10. tt = rest \o more
    <3> DEFINE p == Shown - k
    <3>0. p \in 1 - 1..Len(tt) /\ 1 \in 1..Len(tt) + 1 /\ Shown \in p..Len(tt)
      BY <2>2, <2>3
    <3> HIDE DEF p
    <3>1. SubSeq(tt, 1, Shown) = rest \o more
      BY <3>0, <2>3, ConcatAdjacentSubSeq DEF p
    <3>2. SubSeq(tt, 1, Shown) = tt
      BY <2>3, SubSeqFull
    <3> QED
      BY <3>1, <3>2
  <2> HIDE DEF rest, more
  <2>11. ss = xs \o rest
    <3> DEFINE zs == xs \o rest
    <3>1. ConcatIs(Elements, xs, rest, zs)
      BY <2>8, ConcatFacts
    <3>2. /\ zs \in Seq(Elements) /\ Len(zs) = k + (Shown - k)
          /\ \A i \in 1..k + (Shown - k) : zs[i] = IF i <= k THEN xs[i] ELSE rest[i - k]
      BY <3>1, <2>8 DEF ConcatIs, k
    <3> HIDE DEF zs
    <3>3. k + (Shown - k) = Shown
      BY <2>2
    <3>4. ASSUME NEW i \in 1..Shown PROVE ss[i] = zs[i]
      <4>1. CASE i <= k
        <5>1. i \in 1..k /\ i \in 1..k + 1 /\ i <= Shown
          BY <4>1, <2>2
        <5>2. ss[i] = ys[i] /\ ys[i] = xs[i]
          BY <5>1, <2>4, <2>6
        <5> QED
          BY <5>2, <4>1, <3>2, <3>3
      <4>2. CASE i > k
        <5>1. i - k \in 1..Shown - k /\ k + (i - k) = i /\ ~(i <= k)
          BY <4>2, <2>2
        <5>2. ss[k + (i - k)] = tt[i - k] /\ rest[i - k] = tt[i - k]
          BY <5>1, <2>7, <2>8
        <5> QED
          BY <5>1, <5>2, <3>2, <3>3
      <4> QED
        BY <4>1, <4>2, <2>2
    <3>5. Len(ss) = Len(zs)
      BY <2>3, <3>2, <3>3
    <3>6. ss = zs
      BY <2>3, <3>2, <3>3, <3>4, <3>5, SeqEqual
    <3> QED
      BY <3>6 DEF zs
  <2> QED
    BY <1>3, <2>8, <2>9, <2>10, <2>11 DEF ss, tt
<1> QED
  BY <1>2, <1>3

-----------------------------------------------------------------------------
(* The answer of a call that has looked at c, what came out of the elements *)
(* it took, when t is left.                                                *)
Calls == [phase : {"running", "done"}, kind : {"first", "while", "travel"}, n : 0..MaxTake,
          test : SUBSET Elements, out : Seq(Elements), asked : LazyStreams, stages : Seq(Ops)]
AllIn(xs, set) == \A i \in 1..Len(xs) : xs[i] \in set
Failed(a, c, b, y) ==
    c = Append(b, y) /\ AllIn(b, a.test) /\ a.out = IF a.kind = "travel" THEN c ELSE b
Answer(a, c, t) ==
    IF a.kind = "first" THEN a.out = c /\ (Len(c) = a.n \/ (Len(c) <= a.n /\ ~t.remaining))
    ELSE \/ AllIn(c, a.test) /\ ~t.remaining /\ a.out = c
         \/ \E b \in Seq(Elements), y \in Elements \ a.test : Failed(a, c, b, y)

(* What Answered says of a call for the elements seen.                     *)
PassingOf(a, seen) == IF a.kind = "first" THEN a.n ELSE Passing(seen, a.test)
LookedAt(a, seen) == UpTo(seen, PassingOf(a, seen) + (IF a.kind = "first" THEN 0 ELSE 1))
Promised(a, seen) ==
    /\ a.out = IF a.kind = "travel" THEN LookedAt(a, seen) ELSE UpTo(seen, PassingOf(a, seen))
    /\ a.kind = "travel" =>
          /\ AllOf(a.out, a.test) <=> Range(seen) \subseteq a.test
          /\ AnyOf(a.out, Elements \ a.test) <=> Range(seen) \ a.test # {}

LEMMA UpToFirst ==
    ASSUME NEW b \in Seq(Elements), NEW r \in Seq(Elements)
    PROVE  UpTo(b \o r, Len(b)) = b
<1> DEFINE s == b \o r
<1>1. ConcatIs(Elements, b, r, s)
  BY ConcatFacts
<1>2. /\ s \in Seq(Elements) /\ Len(s) = Len(b) + Len(r) /\ Len(b) \in Nat /\ Len(r) \in Nat
      /\ \A i \in 1..Len(b) + Len(r) : s[i] = IF i <= Len(b) THEN b[i] ELSE r[i - Len(b)]
  BY <1>1 DEF ConcatIs
<1> HIDE DEF s
<1>3. (IF Len(b) < Len(s) THEN Len(b) ELSE Len(s)) = Len(b)
  BY <1>2
<1>4. UpTo(s, Len(b)) = SubSeq(s, 1, Len(b))
  BY <1>3 DEF UpTo
<1> DEFINE u == SubSeq(s, 1, Len(b))
<1>5. u \in Seq(Elements) /\ Len(u) = Len(b) /\ \A i \in 1..Len(b) : u[i] = s[i]
  BY <1>2, SubSeqProperties
<1> HIDE DEF u
<1>6. \A i \in 1..Len(b) : u[i] = b[i]
  BY <1>2, <1>5
<1>7. u = b
  BY <1>5, <1>6, SeqEqual
<1> QED
  BY <1>4, <1>7 DEF u, s

LEMMA UpToAll ==
    ASSUME NEW c \in Seq(Elements), NEW n \in Nat, n >= Len(c)
    PROVE  UpTo(c, n) = c
<1>1. (IF n < Len(c) THEN n ELSE Len(c)) = Len(c)
  OBVIOUS
<1> QED
  BY <1>1, SubSeqFull DEF UpTo

LEMMA PassingAll ==
    ASSUME NEW c \in Seq(Elements), NEW test, AllIn(c, test)
    PROVE  Passing(c, test) = Len(c)
<1>1. {i \in DOMAIN c : c[i] \notin test} = {}
  BY DEF AllIn
<1> QED
  BY <1>1 DEF Passing

LEMMA PassingSome ==
    ASSUME NEW b \in Seq(Elements), NEW y \in Elements, NEW r \in Seq(Elements), NEW test,
           AllIn(b, test), y \notin test
    PROVE  Passing(b \o (<<y>> \o r), test) = Len(b)
<1> DEFINE s == b \o (<<y>> \o r)
           n == Len(b)
           yr == <<y>> \o r
<1>1. yr \in Seq(Elements) /\ Len(yr) >= 1 /\ yr[1] = y
  BY ConcatProperties
<1>2. ConcatIs(Elements, b, yr, s)
  BY <1>1, ConcatFacts
<1>3. /\ s \in Seq(Elements) /\ Len(s) = n + Len(yr) /\ n \in Nat /\ Len(yr) \in Nat
      /\ \A i \in 1..n + Len(yr) : s[i] = IF i <= n THEN b[i] ELSE yr[i - n]
  BY <1>1, <1>2 DEF ConcatIs
<1> HIDE DEF s, yr
<1> DEFINE failing == {i \in DOMAIN s : s[i] \notin test}
<1>4. n + 1 \in failing
  <2>1. n + 1 \in 1..n + Len(yr) /\ n + 1 \in DOMAIN s /\ ~(n + 1 <= n) /\ (n + 1) - n = 1
    BY <1>1, <1>3
  <2>2. s[n + 1] = y
    BY <2>1, <1>1, <1>3
  <2> QED
    BY <2>1, <2>2
<1>5. ASSUME NEW i \in failing PROVE i \in Int /\ n + 1 <= i
  <2>1. i \in 1..n + Len(yr) /\ s[i] \notin test
    BY <1>3
  <2>2. CASE i <= n
    <3>1. i \in 1..n /\ s[i] = b[i]
      BY <2>1, <2>2, <1>3
    <3> QED
      BY <3>1, <2>1 DEF AllIn
  <2> QED
    BY <2>1, <2>2, <1>3
<1> HIDE DEF failing
<1> DEFINE least == CHOOSE i \in failing : \A j \in failing : i <= j
<1>6. least \in failing /\ \A j \in failing : least <= j
  BY <1>4, <1>5
<1>7. least = n + 1
  <2> HIDE DEF least
  <2>1. least \in Int /\ n + 1 <= least /\ least <= n + 1
    BY <1>4, <1>5, <1>6
  <2> QED
    BY <2>1, <1>3
<1>8. Passing(s, test) = least - 1
  BY <1>4 DEF Passing, failing
<1> HIDE DEF least
<1>9. Passing(s, test) = n
  BY <1>3, <1>7, <1>8
<1> QED
  BY <1>9 DEF s, yr

LEMMA AnswerIsPromised ==
    ASSUME NEW a \in Calls, NEW c \in Seq(Elements), NEW r \in Seq(Elements), NEW t,
           Answer(a, c, t), ~t.remaining => r = <<>>
    PROVE  Promised(a, c \o r) /\ LookedAt(a, c \o r) = c
<1> DEFINE seen == c \o r
<1>1. /\ a.n \in Nat /\ a.kind \in {"first", "while", "travel"} /\ a.test \subseteq Elements
      /\ Len(c) \in Nat
  BY ShownIs DEF Calls
<1>2. ConcatIs(Elements, c, r, seen)
  BY ConcatFacts
<1>3. /\ seen \in Seq(Elements) /\ Len(seen) = Len(c) + Len(r) /\ Len(r) \in Nat
      /\ \A i \in 1..Len(c) + Len(r) : seen[i] = IF i <= Len(c) THEN c[i] ELSE r[i - Len(c)]
  BY <1>2 DEF ConcatIs
<1>4. r = <<>> => seen = c
  BY ConcatEmptySeq
<1>5. UpTo(seen, Len(c)) = c
  BY UpToFirst
<1> HIDE DEF seen
<1>7. a.out \in Seq(Elements)
  BY DEF Calls
<1>6. Range(seen) = {seen[i] : i \in 1..Len(seen)} /\ DOMAIN a.out = 1..Len(a.out)
  <2>1. DOMAIN seen = 1..Len(seen) /\ DOMAIN a.out = 1..Len(a.out)
    BY <1>3, <1>7
  <2> QED
    BY <2>1 DEF Range
<1>8. CASE a.kind = "first"
  <2>1. UpTo(seen, a.n) = c /\ a.out = c
    <3>1. CASE Len(c) = a.n
      BY <3>1, <1>5, <1>8 DEF Answer
    <3>2. CASE Len(c) <= a.n /\ ~t.remaining
      BY <3>2, <1>1, <1>4, <1>8, UpToAll DEF Answer
    <3> QED
      BY <3>1, <3>2, <1>8 DEF Answer
  <2>2. PassingOf(a, seen) = a.n /\ LookedAt(a, seen) = UpTo(seen, a.n)
    BY <1>1, <1>8 DEF PassingOf, LookedAt
  <2> QED
    BY <2>1, <2>2, <1>8 DEF Promised, seen
<1>9. CASE a.kind # "first" /\ AllIn(c, a.test) /\ ~t.remaining /\ a.out = c
  <2>1. seen = c /\ PassingOf(a, seen) = Len(c)
    BY <1>4, <1>9, PassingAll DEF PassingOf
  <2>2. LookedAt(a, seen) = c /\ UpTo(seen, PassingOf(a, seen)) = c
    <3>1. Len(c) + 1 \in Nat /\ Len(c) + 1 >= Len(c) /\ Len(c) >= Len(c)
      BY <1>1
    <3> QED
      BY <3>1, <2>1, <1>1, <1>9, UpToAll DEF LookedAt
  <2>3. \A i \in 1..Len(c) : c[i] \in a.test
    BY <1>9 DEF AllIn
  <2>4. AllOf(a.out, a.test) /\ ~AnyOf(a.out, Elements \ a.test)
    BY <2>3, <1>6, <1>9 DEF AllOf, NoneOf, AnyOf
  <2>5. Range(seen) \subseteq a.test
    BY <2>1, <2>3, <1>6
  <2> QED
    BY <2>1, <2>2, <2>4, <2>5, <1>9 DEF Promised, seen
<1>10. ASSUME a.kind # "first", NEW b \in Seq(Elements), NEW y \in Elements \ a.test, Failed(a, c, b, y)
       PROVE  Promised(a, seen) /\ LookedAt(a, seen) = c
  <2>1. c = Append(b, y) /\ AllIn(b, a.test) /\ a.out = IF a.kind = "travel" THEN c ELSE b
    BY <1>10 DEF Failed
  <2>2. c = b \o <<y>> /\ <<y>> \in Seq(Elements)
    BY <2>1, AppendIsConcat
  <2>3. Associates(b, <<y>>, r)
    BY <2>2, Associative
  <2>4. seen = b \o (<<y>> \o r)
    BY <2>2, <2>3, Zenon DEF Associates, seen
  <2>5. <<y>> \o r \in Seq(Elements)
    BY <2>2, ConcatProperties
  <2>6. PassingOf(a, seen) = Len(b) /\ UpTo(seen, Len(b)) = b
    <3> DEFINE yr == <<y>> \o r
               test == a.test
    <3>1. UpTo(b \o yr, Len(b)) = b
      BY <2>5, UpToFirst
    <3>2. AllIn(b, test) /\ y \notin test /\ y \in Elements
      BY <2>1
    <3> HIDE DEF test
    <3>3. Passing(b \o (<<y>> \o r), test) = Len(b)
      BY <3>2, PassingSome
    <3> QED
      BY <3>1, <3>3, <2>4, <1>10 DEF PassingOf, test
  <2>7. Len(b) \in Nat /\ Len(c) = Len(b) + 1 /\ c[Len(b) + 1] = y
    BY <2>1
  <2>8. LookedAt(a, seen) = c
    BY <2>6, <2>7, <1>5, <1>10 DEF LookedAt
  <2>9. ASSUME a.kind = "travel"
        PROVE  /\ ~AllOf(a.out, a.test) /\ AnyOf(a.out, Elements \ a.test)
               /\ y \in Range(seen)
    <3>1. Len(c) \in 1..Len(c) /\ c[Len(c)] = y /\ Len(c) \in 1..Len(c) + Len(r)
      BY <2>7, <1>3
    <3>2. AnyOf(a.out, Elements \ a.test)
      BY <3>1, <2>1, <2>9, <1>6 DEF AnyOf
    <3>3. seen[Len(c)] = y /\ Len(c) \in 1..Len(seen)
      BY <3>1, <1>1, <1>3
    <3> QED
      BY <3>2, <3>3, <1>6 DEF AllOf, NoneOf
  <2>10. a.kind = "travel" =>
           /\ AllOf(a.out, a.test) <=> Range(seen) \subseteq a.test
           /\ AnyOf(a.out, Elements \ a.test) <=> Range(seen) \ a.test # {}
    BY <2>9
  <2> QED
    BY <2>1, <2>6, <2>8, <2>10 DEF Promised
<1> QED
  BY <1>8, <1>9, <1>10 DEF Answer, seen

-----------------------------------------------------------------------------
(* The invariant of a stream: the elements xs that the call has taken, what *)
(* came out of them, and how far away the last one that mattered is.       *)
Hits(a, s) ==
    {x \in Elements : s.mapper[x] \in s.predicate /\ (a.kind = "first" \/ s.mapper[x] \notin a.test)}
Reach(a) == IF a.kind = "first" THEN Len(a.out) * Cardinality(Elements) ELSE 0
NearAt(a, s, xs, q) == q <= Reach(a) /\ \A i \in q + 1..Len(xs) : xs[i] \notin Hits(a, s)
Going(a, s, xs) ==
    /\ ~s.remaining => s.mapper[s.head] \notin s.predicate
    /\ a.out = Came(s, xs)
    /\ IF a.kind = "first" THEN Len(a.out) < a.n ELSE AllIn(a.out, a.test)
    /\ ~s.finite => \E q \in 0..Len(xs) : NearAt(a, s, xs, q)
Gone(a, s, xs) == Answer(a, Came(s, xs), s) /\ (~s.finite => Len(xs) <= Shown)
CallGoes(a, s, xs) ==
    /\ Follows(a.asked, xs, s)
    /\ a.phase = "running" => Going(a, s, xs)
    /\ a.phase = "done" => Gone(a, s, xs)
CallOn(a, s) ==
    /\ a \in Calls /\ GoodStream(a.asked) /\ SameMaking(a.asked, s)
    /\ \E xs \in Seq(Elements) : CallGoes(a, s, xs)

LsInv ==
    /\ GoodStream(stream) /\ given \in Seq(Ops) /\ Composed(given, stream)
    /\ call = NoCall \/ CallOn(call, stream)
    /\ call # NoCall /\ MapsThenFilters(call.stages) => given = call.stages

LEMMA IterateGood ==
    ASSUME NEW x \in Elements, NEW f \in [Elements -> Elements]
    PROVE  GoodStream(Iterate(x, f)) /\ Composed(<<>>, Iterate(x, f))
<1>1. GoodStream(Iterate(x, f))
  BY DEF GoodStream, LazyStreams, Iterate, Identity
<1> DEFINE s == Iterate(x, f)
<1>2. s \in LazyStreams /\ s.predicate = Elements /\ s.mapper = Identity
  BY <1>1 DEF GoodStream, Iterate
<1> HIDE DEF s
<1>3. ASSUME NEW xs \in Seq(Elements) PROVE InOrder(<<>>, xs) = Came(s, xs)
  <2>1. [i \in DOMAIN xs |-> s.mapper[xs[i]]] = xs
    <3>1. DOMAIN xs = 1..Len(xs) /\ xs = [i \in 1..Len(xs) |-> xs[i]]
      OBVIOUS
    <3>2. ASSUME NEW i \in 1..Len(xs) PROVE s.mapper[xs[i]] = xs[i]
      <4>1. xs[i] \in Elements
        BY ElementOfSeq
      <4> QED
        BY <4>1, <1>2 DEF Identity
    <3> QED
      BY <3>1, <3>2
  <2>2. Came(s, xs) = xs
    BY <2>1, <1>2, SelectedAll DEF Came
  <2> QED
    BY <2>2, InOrderNone
<1>4. Composed(<<>>, s)
  BY <1>2, <1>3 DEF Composed
<1> QED
  BY <1>1, <1>4 DEF s

LEMMA SameComposed ==
    ASSUME NEW ops, NEW s, NEW t, t.mapper = s.mapper, t.predicate = s.predicate, Composed(ops, s)
    PROVE  Composed(ops, t)
<1>1. ASSUME NEW xs PROVE Came(t, xs) = Came(s, xs)
  BY DEF Came
<1> QED
  BY <1>1 DEF Composed

LEMMA OfGood ==
    ASSUME NEW list \in Seq(Elements)
    PROVE  GoodStream(Of(list)) /\ Composed(<<>>, Of(list))
<1> DEFINE i == Iterate(Initial, Identity)
           s == [i EXCEPT !.data = list, !.finite = TRUE, !.remaining = list # <<>>]
<1>1. Initial \in Elements /\ Identity \in [Elements -> Elements]
  BY StreamAssumption DEF Identity
<1>2. GoodStream(i) /\ Composed(<<>>, i)
  BY <1>1, IterateGood
<1> HIDE DEF i
<1>3. i \in LazyStreams /\ (list # <<>>) \in BOOLEAN
  BY <1>2 DEF GoodStream
<1>4. /\ s \in LazyStreams /\ s.data = list /\ s.remaining = (list # <<>>) /\ s.finite = TRUE
      /\ s.mapper = i.mapper /\ s.predicate = i.predicate
  BY <1>3 DEF LazyStreams
<1>5. Composed(<<>>, s)
  BY <1>2, <1>4, SameComposed
<1>6. Of(list) = Taken(s)
  BY DEF Of, i
<1> HIDE DEF s
<1>7. CASE list = <<>>
  <2>1. Taken(s) = s /\ GoodStream(s)
    BY <1>4, <1>7 DEF Taken, GoodStream
  <2> QED
    BY <2>1, <1>5, <1>6
<1>8. CASE list # <<>>
  <2>1. GoodStream(s) /\ s.remaining
    BY <1>4, <1>8 DEF GoodStream
  <2>2. GoodStream(Taken(s)) /\ SameMaking(s, Taken(s))
    BY <2>1, TakenIs
  <2>3. Composed(<<>>, Taken(s))
    BY <2>2, <1>5, SameComposed DEF SameMaking
  <2> QED
    BY <2>2, <2>3, <1>6
<1> QED
  BY <1>7, <1>8

LEMMA LsInitOK == LsInit => LsInv
<1> SUFFICES ASSUME LsInit PROVE LsInv
  OBVIOUS
<1>1. GoodStream(stream) /\ Composed(<<>>, stream)
  <2>1. ASSUME NEW x \in Elements, NEW f \in Producers, stream = Iterate(x, f)
        PROVE  GoodStream(stream) /\ Composed(<<>>, stream)
    BY <2>1, StreamAssumption, IterateGood
  <2>2. ASSUME NEW list \in Lists, stream = Of(list)
        PROVE  GoodStream(stream) /\ Composed(<<>>, stream)
    BY <2>2, StreamAssumption, OfGood
  <2> QED
    BY <2>1, <2>2 DEF LsInit
<1>2. given = <<>> /\ call = NoCall /\ <<>> \in Seq(Ops)
  BY DEF LsInit
<1> QED
  BY <1>1, <1>2 DEF LsInv

LEMMA MapOK ==
    ASSUME LsInv, NEW f \in Mappers, MapBy(f)
    PROVE  LsInv'
<1> DEFINE op == [kind |-> "map", map |-> f, test |-> Elements]
<1>1. f \in [Elements -> Elements] /\ op \in Ops /\ op \in PlainOps /\ op.kind = "map" /\ op.map = f
  BY StreamAssumption DEF Ops, PlainOps
<1>2. /\ stream \in LazyStreams /\ given \in Seq(Ops) /\ Composed(given, stream)
      /\ stream.mapper \in [Elements -> Elements]
  BY DEF LsInv, GoodStream, LazyStreams
<1>3. stream' = [stream EXCEPT !.mapper = Compose(f, stream.mapper)] /\ call' = NoCall
  BY DEF MapBy, Given
<1>4. given' = Append(given, op)
  BY DEF MapBy, Given
<1> HIDE DEF op
<1>5. Compose(f, stream.mapper) \in [Elements -> Elements]
  BY <1>1, <1>2 DEF Compose
<1>6. /\ stream' \in LazyStreams /\ stream'.mapper = Compose(f, stream.mapper)
      /\ stream'.remaining = stream.remaining /\ stream'.finite = stream.finite
      /\ stream'.data = stream.data /\ stream'.predicate = stream.predicate
  BY <1>2, <1>3, <1>5 DEF LazyStreams
<1>7. GoodStream(stream')
  BY <1>6 DEF GoodStream, LsInv
<1>8. given' \in Seq(Ops)
  BY <1>1, <1>2, <1>4
<1>9. ASSUME MapsThenFilters(given')
      PROVE  /\ \A xs \in Seq(Elements) : InOrder(given', xs) = Came(stream', xs)
             /\ stream'.predicate = Elements
  <2>1. MapsThenFilters(given) /\ AllMaps(given)
    BY <1>1, <1>2, <1>4, <1>9, BeforeTheLast
  <2>2. given \in Seq(PlainOps) /\ stream.predicate = Elements
    BY <2>1, <1>2, PlainOfOps DEF Composed
  <2>3. ASSUME NEW xs \in Seq(Elements) PROVE InOrder(given', xs) = Came(stream', xs)
    <3> DEFINE ms == [i \in DOMAIN xs |-> stream.mapper[xs[i]]]
               ns == [i \in DOMAIN xs |-> stream'.mapper[xs[i]]]
    <3>1. /\ ms \in Seq(Elements) /\ Len(ms) = Len(xs)
          /\ ns \in Seq(Elements) /\ Len(ns) = Len(xs)
          /\ DOMAIN xs = 1..Len(xs) /\ Len(xs) \in Nat
      <4>1. stream \in LazyStreams /\ stream' \in LazyStreams
        BY <1>2, <1>6
      <4> HIDE DEF ms, ns
      <4>2. ms \in Seq(Elements) /\ Len(ms) = Len(xs) /\ DOMAIN xs = 1..Len(xs) /\ Len(xs) \in Nat
        BY <4>1, MapTyped DEF ms
      <4>3. ns \in Seq(Elements) /\ Len(ns) = Len(xs)
        BY <4>1, MapTyped DEF ns
      <4> QED
        BY <4>2, <4>3
    <3>2. \A i \in DOMAIN xs : ms[i] = stream.mapper[xs[i]] /\ ns[i] = stream'.mapper[xs[i]]
      OBVIOUS
    <3> HIDE DEF ms, ns
    <3>3. InOrder(given, xs) = ms
      <4>1. InOrder(given, xs) = Selected(ms, Elements)
        BY <2>1, <2>2, <1>2 DEF Composed, Came, ms
      <4> QED
        BY <4>1, <3>1, SelectedAll
    <3>4. InOrder(given', xs) = Stage(op, ms)
      BY <3>3, <2>2, <1>1, <1>4, InOrderMore
    <3>5. Stage(op, ms) = [i \in DOMAIN ms |-> f[ms[i]]]
      BY <1>1 DEF Stage
    <3>6. [i \in DOMAIN ms |-> f[ms[i]]] = ns
      <4>1. DOMAIN ms = 1..Len(xs) /\ ns = [i \in 1..Len(xs) |-> ns[i]]
        BY <3>1
      <4>2. ASSUME NEW i \in 1..Len(xs) PROVE f[ms[i]] = ns[i]
        <5>1. xs[i] \in Elements
          BY ElementOfSeq
        <5>2. stream'.mapper[xs[i]] = f[stream.mapper[xs[i]]]
          BY <5>1, <1>6 DEF Compose
        <5> QED
          BY <5>2, <3>1, <3>2
      <4> QED
        BY <4>1, <4>2
    <3>7. Came(stream', xs) = ns
      <4>1. Came(stream', xs) = Selected(ns, Elements)
        BY <2>2, <1>6 DEF Came, ns
      <4> QED
        BY <4>1, <3>1, SelectedAll
    <3> QED
      BY <3>4, <3>5, <3>6, <3>7
  <2> QED
    BY <2>2, <2>3, <1>6
<1>10. Composed(given', stream')
  BY <1>9 DEF Composed
<1> QED
  BY <1>3, <1>7, <1>8, <1>10 DEF LsInv

LEMMA FilteredOK ==
    ASSUME LsInv, NEW p \in SUBSET Elements, NEW op \in Ops, Filtered(p), Given(op),
           op.kind = "drop_while" \/ (op.kind = "filter" /\ op.test = p)
    PROVE  LsInv'
<1>2. /\ stream \in LazyStreams /\ given \in Seq(Ops) /\ Composed(given, stream)
      /\ stream.predicate \subseteq Elements
  BY DEF LsInv, GoodStream, LazyStreams
<1>3. stream' = [stream EXCEPT !.predicate = p \cap stream.predicate] /\ call' = NoCall
  BY DEF Filtered, Given
<1>4. given' = Append(given, op)
  BY DEF Given
<1>5. p \cap stream.predicate \in SUBSET Elements
  BY <1>2
<1>6. /\ stream' \in LazyStreams /\ stream'.predicate = p \cap stream.predicate
      /\ stream'.remaining = stream.remaining /\ stream'.finite = stream.finite
      /\ stream'.data = stream.data /\ stream'.mapper = stream.mapper
  BY <1>2, <1>3, <1>5 DEF LazyStreams
<1>7. GoodStream(stream')
  BY <1>6 DEF GoodStream, LsInv
<1>8. given' \in Seq(Ops)
  BY <1>2, <1>4
<1>9. ASSUME MapsThenFilters(given')
      PROVE  /\ \A xs \in Seq(Elements) : InOrder(given', xs) = Came(stream', xs)
             /\ ~AllMaps(given')
  <2>1. MapsThenFilters(given) /\ op.kind = "filter" /\ op.test = p /\ ~AllMaps(given')
    BY <1>2, <1>4, <1>9, BeforeTheLast
  <2>2. given \in Seq(PlainOps) /\ op \in PlainOps
    BY <2>1, <1>2, PlainOfOps DEF Ops, PlainOps
  <2>3. ASSUME NEW xs \in Seq(Elements) PROVE InOrder(given', xs) = Came(stream', xs)
    <3> DEFINE ms == [i \in DOMAIN xs |-> stream.mapper[xs[i]]]
    <3>1. ms \in Seq(Elements)
      BY <1>2, MapTyped
    <3>2. InOrder(given, xs) = Selected(ms, stream.predicate)
      BY <2>1, <1>2 DEF Composed, Came
    <3>3. Came(stream', xs) = Selected(ms, p \cap stream.predicate)
      BY <1>6 DEF Came
    <3> HIDE DEF ms
    <3>4. InOrder(given', xs) = Stage(op, InOrder(given, xs))
      BY <2>2, <1>4, InOrderMore
    <3>5. Stage(op, InOrder(given, xs)) = Selected(InOrder(given, xs), p)
      BY <2>1 DEF Stage
    <3>6. Refiltered(ms, stream.predicate, p)
      BY <3>1, SelectedTwice
    <3> QED
      BY <3>2, <3>3, <3>4, <3>5, <3>6 DEF Refiltered
  <2> QED
    BY <2>1, <2>3
<1>10. Composed(given', stream')
  BY <1>9 DEF Composed
<1> QED
  BY <1>3, <1>7, <1>8, <1>10 DEF LsInv

LEMMA FilterOK ==
    ASSUME LsInv, NEW p \in SUBSET Elements, FilterBy(p)
    PROVE  LsInv'
<1> DEFINE op == [kind |-> "filter", map |-> Identity, test |-> p]
<1>1. op \in Ops /\ op.kind = "filter" /\ op.test = p
  BY DEF Ops, Identity
<1>2. Filtered(p) /\ Given(op)
  BY DEF FilterBy
<1> HIDE DEF op
<1> QED
  BY <1>1, <1>2, FilteredOK

LEMMA DropWhileOK ==
    ASSUME LsInv, NEW p \in SUBSET Elements, DropWhileIn(p)
    PROVE  LsInv'
<1> DEFINE op == [kind |-> "drop_while", map |-> Identity, test |-> p]
           rest == Elements \ p
<1>1. op \in Ops /\ op.kind = "drop_while" /\ rest \in SUBSET Elements
  BY DEF Ops, Identity
<1>2. Filtered(rest) /\ Given(op)
  BY DEF DropWhileIn
<1> HIDE DEF op, rest
<1> QED
  BY <1>1, <1>2, FilteredOK

LEMMA BeginOK ==
    ASSUME LsInv, NEW kind \in {"first", "while", "travel"}, NEW n \in 0..MaxTake,
           NEW test \in SUBSET Elements, Begin(kind, n, test)
    PROVE  LsInv'
<1> DEFINE a == call'
<1>1. /\ GoodStream(stream) /\ stream \in LazyStreams /\ stream.remaining \in BOOLEAN
      /\ stream' = stream /\ MaxTake \in Nat /\ given \in Seq(Ops) /\ Composed(given, stream)
      /\ given' = given \/ given' = Spent(given)
  BY ShownIs DEF LsInv, GoodStream, LazyStreams, Begin
<1>2. a = [phase |-> IF stream.remaining /\ (kind = "first" => n > 0) THEN "running" ELSE "done",
           kind |-> kind, n |-> n, test |-> test, out |-> <<>>, asked |-> stream, stages |-> given]
  BY DEF Begin
<1> HIDE DEF a
<1>3. /\ a.phase = IF stream.remaining /\ (kind = "first" => n > 0) THEN "running" ELSE "done"
      /\ a.kind = kind /\ a.n = n /\ a.test = test /\ a.out = <<>> /\ a.asked = stream
      /\ a.stages = given
  BY <1>2
<1>4. a \in Calls
  BY <1>1, <1>2 DEF Calls
<1>5. Follows(stream, <<>>, stream) /\ Came(stream, <<>>) = <<>> /\ Len(<<>>) = 0 /\ AllIn(<<>>, test)
  BY <1>1, FollowsItself, CameEmpty DEF AllIn
<1>6. ASSUME a.phase = "running" PROVE Going(a, stream, <<>>)
  <2>1. stream.remaining /\ (kind = "first" => n > 0)
    BY <1>3, <1>6
  <2>2. NearAt(a, stream, <<>>, 0) /\ 0 \in 0..Len(<<>>)
    <3>1. Reach(a) = 0
      BY <1>3, <1>5, ShownIs DEF Reach
    <3> QED
      BY <3>1 DEF NearAt
  <2> QED
    BY <2>1, <2>2, <1>3, <1>5 DEF Going
<1>7. ASSUME a.phase = "done" PROVE Gone(a, stream, <<>>)
  <2>1. ~stream.remaining \/ (kind = "first" /\ n = 0)
    BY <1>1, <1>3, <1>7
  <2>2. Answer(a, <<>>, stream)
    BY <2>1, <1>1, <1>3, <1>5 DEF Answer
  <2> QED
    BY <2>2, <1>5, ShownIs DEF Gone
<1>8. CallGoes(a, stream, <<>>) /\ <<>> \in Seq(Elements)
  BY <1>3, <1>5, <1>6, <1>7 DEF CallGoes
<1>9. CallOn(a, stream)
  BY <1>1, <1>3, <1>4, <1>8 DEF CallOn, SameMaking
<1>10. /\ given' \in Seq(Ops)
       /\ MapsThenFilters(given) \/ MapsThenFilters(given') => given' = given
  BY <1>1, SpentIs
<1>11. Composed(given', stream)
  BY <1>1, <1>10 DEF Composed
<1> QED
  BY <1>1, <1>3, <1>9, <1>10, <1>11 DEF LsInv, a

(* One turn that takes an element, which is passed over or comes out.      *)
TurnsTo(a, s, b) ==
    LET x == s.mapper[s.head]
        failing == a.kind # "first" /\ x \notin a.test
        out == IF failing /\ a.kind = "while" THEN a.out ELSE Append(a.out, x)
        enough == IF a.kind = "first" THEN Len(out) = a.n ELSE failing
    IN  IF x \notin s.predicate THEN b = a
        ELSE b = [a EXCEPT !.out = out,
                     !.phase = IF enough \/ ~Taken(s).remaining THEN "done" ELSE @]

LEMMA CameSame ==
    ASSUME NEW s, NEW t, SameMaking(s, t), NEW xs
    PROVE  Came(t, xs) = Came(s, xs)
BY DEF Came, SameMaking

(* The stream that ends keeps its last element in hand.                    *)
LEMMA EndKeepsHead ==
    ASSUME NEW s, GoodStream(s), s.remaining, ~Taken(s).remaining
    PROVE  Taken(s).head = s.head
<1>1. s \in LazyStreams /\ s.remaining = TRUE
  BY DEF GoodStream, LazyStreams
<1>2. CASE ~s.finite
  BY <1>2, TakenIs
<1>3. CASE s.finite /\ s.data # <<>>
  <2>1. Taken(s) = [s EXCEPT !.head = Head(s.data), !.data = Tail(s.data)]
    BY <1>1, <1>3 DEF Taken
  <2>2. Taken(s).remaining = s.remaining
    BY <2>1, <1>1 DEF LazyStreams
  <2> QED
    BY <2>2
<1>4. CASE s.finite /\ s.data = <<>>
  <2>1. Taken(s) = [s EXCEPT !.remaining = FALSE]
    BY <1>1, <1>4 DEF Taken
  <2> QED
    BY <2>1, <1>1 DEF LazyStreams
<1> QED
  BY <1>2, <1>3, <1>4

Between(a, s, xs) ==
    /\ a \in Calls /\ GoodStream(a.asked) /\ SameMaking(a.asked, s) /\ GoodStream(s)
    /\ xs \in Seq(Elements) /\ CallGoes(a, s, xs) /\ a.phase = "running" /\ s.remaining

(* An element that hits comes soon.                                        *)
LEMMA HitIsNear ==
    ASSUME NEW a, NEW s, NEW xs, Between(a, s, xs), ~s.finite, s.head \in Hits(a, s)
    PROVE  Len(xs) + 1 <= Reach(a) + Cardinality(Elements)
<1> DEFINE zs == Append(xs, s.head)
           k == Len(xs)
           hit == Hits(a, s)
           r == Reach(a)
<1>1. xs \in Seq(Elements) /\ s.head \in Elements /\ k \in Nat /\ Cardinality(Elements) \in Nat
  BY ShownIs DEF Between, GoodStream, LazyStreams
<1>2. /\ zs \in Seq(Elements) /\ Len(zs) = k + 1 /\ zs[k + 1] = s.head
      /\ \A i \in 1..k : zs[i] = xs[i]
  BY <1>1
<1>3. Chain(a.asked.producer, zs)
  BY DEF Between, CallGoes, Follows, SameMaking
<1>4. PICK q \in 0..k : NearAt(a, s, xs, q)
  BY DEF Between, CallGoes, Going
<1>5. r \in Nat
  BY <1>1 DEF Reach, Between, Calls
<1> HIDE DEF zs, hit, k, r
<1>6. q \in 0..Len(zs) - 1 /\ q <= r
  BY <1>1, <1>2, <1>4, <1>5 DEF NearAt, r
<1>7. ASSUME NEW i \in q + 1..Len(zs) - 1 PROVE zs[i] \notin hit
  <2>1. i \in q + 1..k /\ i \in 1..k
    BY <1>1, <1>2, <1>7
  <2> QED
    BY <2>1, <1>2, <1>4 DEF NearAt, k, hit
<1>8. zs[Len(zs)] \in hit
  BY <1>1, <1>2 DEF hit
<1>9. Len(zs) <= q + Cardinality(Elements)
  BY <1>2, <1>3, <1>6, <1>7, <1>8, ShortGap
<1>10. k + 1 <= r + Cardinality(Elements)
  BY <1>1, <1>2, <1>5, <1>6, <1>9
<1> QED
  BY <1>10 DEF k, r

LEMMA TurnOK ==
    ASSUME NEW a, NEW s, NEW xs, Between(a, s, xs), NEW b, TurnsTo(a, s, b)
    PROVE  CallOn(b, Taken(s))
<1> DEFINE t == Taken(s)
           x == s.mapper[s.head]
           ys == Append(xs, s.head)
<1>1. /\ a \in Calls /\ GoodStream(a.asked) /\ SameMaking(a.asked, s) /\ GoodStream(s)
      /\ xs \in Seq(Elements) /\ CallGoes(a, s, xs) /\ a.phase = "running" /\ s.remaining
  BY DEF Between
<1>2. s \in LazyStreams /\ s.head \in Elements /\ s.mapper \in [Elements -> Elements]
  BY <1>1 DEF GoodStream, LazyStreams
<1>3. x \in Elements /\ Cardinality(Elements) \in Nat
  BY <1>2, ShownIs
<1>4. GoodStream(t) /\ SameMaking(s, t)
  BY <1>1, TakenIs
<1>5. SameMaking(a.asked, t)
  BY <1>1, <1>4 DEF SameMaking
<1>6. Follows(a.asked, ys, t)
  <2> DEFINE o == a.asked
  <2>1. GoodStream(o) /\ SameMaking(o, s) /\ Follows(o, xs, s)
    BY <1>1 DEF CallGoes
  <2> HIDE DEF o
  <2>2. Follows(o, Append(xs, s.head), Taken(s))
    BY <2>1, <1>1, FollowsOn
  <2> QED
    BY <2>2 DEF o
<1>7. ys \in Seq(Elements) /\ Len(ys) = Len(xs) + 1 /\ Len(xs) \in Nat
  BY <1>1, <1>2
<1>8. a.out = Came(s, xs) /\ a.out \in Seq(Elements) /\ Going(a, s, xs)
  BY <1>1 DEF CallGoes, Going, Calls
<1>9. Came(t, ys) = a.out \o Kept(x, s.predicate)
  <2>1. Came(t, ys) = Came(s, ys)
    BY <1>4, CameSame
  <2>2. Came(s, ys) = Came(s, xs) \o Kept(x, s.predicate)
    BY <1>1, <1>2, CameAppend
  <2> QED
    BY <2>1, <2>2, <1>8
<1>10. a.kind \in {"first", "while", "travel"} /\ a.n \in 0..MaxTake /\ a.test \subseteq Elements
  BY <1>1 DEF Calls
<1> HIDE DEF t, ys
<1>11. ASSUME x \notin s.predicate PROVE CallOn(b, t)
  <2>1. b = a
    BY <1>11 DEF TurnsTo
  <2>2. Came(t, ys) = a.out
    <3>1. Kept(x, s.predicate) = <<>>
      BY <1>11 DEF Kept
    <3> QED
      BY <3>1, <1>8, <1>9, ConcatEmptySeq
  <2>3. ASSUME ~t.remaining PROVE t.mapper[t.head] \notin t.predicate
    <3>1. t.head = s.head
      BY <2>3, <1>1, EndKeepsHead DEF t
    <3> QED
      BY <3>1, <1>4, <1>11 DEF SameMaking
  <2>4. ASSUME ~t.finite PROVE \E q \in 0..Len(ys) : NearAt(a, t, ys, q)
    <3>1. ~s.finite
      BY <2>4, <1>4 DEF SameMaking
    <3>2. PICK q \in 0..Len(xs) : NearAt(a, s, xs, q)
      BY <3>1, <1>8 DEF Going
    <3>3. Hits(a, t) = Hits(a, s) /\ s.head \notin Hits(a, s)
      BY <1>4, <1>11 DEF SameMaking, Hits
    <3>4. ASSUME NEW i \in q + 1..Len(ys) PROVE ys[i] \notin Hits(a, s)
      <4>1. CASE i = Len(ys)
        BY <4>1, <1>1, <1>2, <1>7, <3>3 DEF ys
      <4>2. CASE i # Len(ys)
        <5>1. i \in q + 1..Len(xs) /\ i \in 1..Len(xs)
          BY <4>2, <1>7
        <5> QED
          BY <5>1, <1>1, <1>2, <3>2 DEF ys, NearAt
      <4> QED
        BY <4>1, <4>2
    <3>5. q \in 0..Len(ys)
      BY <1>7
    <3> QED
      BY <3>2, <3>3, <3>4, <3>5 DEF NearAt
  <2>5. Going(a, t, ys)
    BY <2>2, <2>3, <2>4, <1>8 DEF Going
  <2>6. CallGoes(a, t, ys)
    BY <2>5, <1>1, <1>6 DEF CallGoes
  <2> QED
    BY <2>1, <2>6, <1>1, <1>5, <1>7 DEF CallOn
<1>12. ASSUME x \in s.predicate PROVE CallOn(b, t)
  <2> DEFINE failing == a.kind # "first" /\ x \notin a.test
             c == Append(a.out, x)
             out == IF failing /\ a.kind = "while" THEN a.out ELSE c
             enough == IF a.kind = "first" THEN Len(out) = a.n ELSE failing
             after == IF enough \/ ~t.remaining THEN "done" ELSE a.phase
  <2>1. Came(t, ys) = c
    <3>1. Kept(x, s.predicate) = <<x>>
      BY <1>12 DEF Kept
    <3>2. a.out \o <<x>> = Append(a.out, x)
      BY <1>3, <1>8, AppendIsConcat
    <3> QED
      BY <3>1, <3>2, <1>9
  <2>2. c \in Seq(Elements) /\ Len(c) = Len(a.out) + 1 /\ Len(a.out) \in Nat /\ c[Len(c)] = x
        /\ \A i \in 1..Len(a.out) : c[i] = a.out[i]
    BY <1>3, <1>8
  <2>3. b = [a EXCEPT !.out = out, !.phase = after]
    BY <1>12 DEF TurnsTo, t
  <2>4. out \in Seq(Elements) /\ after \in {"running", "done"}
    BY <1>1, <1>8, <2>2
  <2>5. /\ b \in Calls /\ b.out = out /\ b.phase = after /\ b.kind = a.kind /\ b.n = a.n
        /\ b.test = a.test /\ b.asked = a.asked /\ b.stages = a.stages
    BY <2>3, <2>4, <1>1 DEF Calls
  <2> HIDE DEF c
  <2>6. ~t.finite => ~s.finite
    BY <1>4 DEF SameMaking
  <2>7. CASE a.kind = "first"
    <3>1. out = c /\ after = (IF Len(c) = a.n \/ ~t.remaining THEN "done" ELSE "running")
      BY <2>7, <1>1
    <3>2. Len(a.out) < a.n /\ Len(c) <= a.n /\ a.n \in Nat
      BY <2>2, <2>7, <1>8, <1>10, ShownIs DEF Going
    <3>3. ~s.finite => Len(ys) <= Len(c) * Cardinality(Elements)
      <4> SUFFICES ASSUME ~s.finite PROVE Len(ys) <= Len(c) * Cardinality(Elements)
        OBVIOUS
      <4>1. s.head \in Hits(a, s)
        BY <2>7, <1>2, <1>12 DEF Hits
      <4>2. Len(xs) + 1 <= Reach(a) + Cardinality(Elements)
        BY <4>1, HitIsNear
      <4>3. Reach(a) = Len(a.out) * Cardinality(Elements)
        BY <2>7 DEF Reach
      <4> DEFINE l == Len(a.out)
                 e == Cardinality(Elements)
      <4>4. l \in Nat /\ e \in Nat
        BY <2>2, <1>3
      <4> HIDE DEF l, e
      <4>5. (l + 1) * e = l * e + e
        BY <4>4
      <4>6. Len(ys) <= (l + 1) * e
        BY <4>2, <4>3, <4>5, <1>7 DEF l, e
      <4> QED
        BY <4>6, <2>2 DEF l, e
    <3>4. ASSUME after = "running" PROVE Going(b, t, ys)
      <4>1. Len(c) < a.n /\ t.remaining
        BY <3>1, <3>2, <3>4, <2>2
      <4>2. ASSUME ~t.finite PROVE NearAt(b, t, ys, Len(ys)) /\ Len(ys) \in 0..Len(ys)
        <5>1. Reach(b) = Len(c) * Cardinality(Elements)
          BY <2>5, <2>7, <3>1 DEF Reach
        <5>2. Len(ys) + 1..Len(ys) = {} /\ Len(ys) \in 0..Len(ys)
          BY <1>7
        <5> QED
          BY <5>1, <5>2, <4>2, <2>6, <3>3 DEF NearAt
      <4> QED
        BY <4>1, <4>2, <2>1, <2>5, <2>7, <3>1 DEF Going
    <3>5. ASSUME after = "done" PROVE Gone(b, t, ys)
      <4>1. Answer(b, c, t)
        BY <3>1, <3>2, <3>5, <2>5, <2>7 DEF Answer
      <4>2. ASSUME ~t.finite PROVE Len(ys) <= Shown
        <5> DEFINE e == Cardinality(Elements)
                   n == Len(c)
        <5>1. n \in 0..MaxTake /\ e \in Nat /\ Shown \in Nat /\ n * e <= Shown
          <6>1. n \in 0..MaxTake
            BY <2>2, <3>2, <1>10, ShownIs
          <6> QED
            BY <6>1, ShownIs
        <5>2. Len(ys) <= n * e
          BY <4>2, <2>6, <3>3
        <5>3. n * e \in Nat
          BY <5>1
        <5> HIDE DEF n, e
        <5> QED
          BY <5>1, <5>2, <5>3, <1>7
      <4> QED
        BY <4>1, <4>2, <2>1 DEF Gone
    <3>6. CallGoes(b, t, ys)
      BY <3>4, <3>5, <2>5, <1>6 DEF CallGoes
    <3> QED
      BY <3>6, <2>5, <1>1, <1>5, <1>7 DEF CallOn
  <2>8. CASE a.kind # "first" /\ x \in a.test
    <3>1. out = c /\ after = (IF ~t.remaining THEN "done" ELSE "running")
      BY <2>8, <1>1
    <3>2. AllIn(c, a.test)
      <4>1. AllIn(a.out, a.test)
        BY <2>8, <1>8 DEF Going
      <4>2. ASSUME NEW i \in 1..Len(c) PROVE c[i] \in a.test
        <5>1. i = Len(c) \/ i \in 1..Len(a.out)
          BY <2>2
        <5> QED
          BY <5>1, <4>1, <2>2, <2>8 DEF AllIn
      <4> QED
        BY <4>2 DEF AllIn
    <3>3. ASSUME after = "running" PROVE Going(b, t, ys)
      <4>1. t.remaining
        BY <3>1, <3>3
      <4>2. ASSUME ~t.finite PROVE \E q \in 0..Len(ys) : NearAt(b, t, ys, q)
        <5>1. PICK q \in 0..Len(xs) : NearAt(a, s, xs, q)
          BY <4>2, <2>6, <1>8 DEF Going
        <5>2. Hits(b, t) = Hits(a, s) /\ s.head \notin Hits(a, s)
          BY <1>4, <2>5, <2>8 DEF SameMaking, Hits
        <5>3. ASSUME NEW i \in q + 1..Len(ys) PROVE ys[i] \notin Hits(a, s)
          <6>1. CASE i = Len(ys)
            BY <6>1, <1>1, <1>2, <1>7, <5>2 DEF ys
          <6>2. CASE i # Len(ys)
            <7>1. i \in q + 1..Len(xs) /\ i \in 1..Len(xs)
              BY <6>2, <1>7
            <7> QED
              BY <7>1, <1>1, <1>2, <5>1 DEF ys, NearAt
          <6> QED
            BY <6>1, <6>2
        <5>4. q \in 0..Len(ys) /\ Reach(b) = Reach(a)
          BY <1>7, <2>5, <2>8 DEF Reach
        <5> QED
          BY <5>1, <5>2, <5>3, <5>4 DEF NearAt
      <4> QED
        BY <4>1, <4>2, <2>1, <2>5, <2>8, <3>1, <3>2 DEF Going
    <3>4. ASSUME after = "done" PROVE Gone(b, t, ys)
      <4>1. ~t.remaining
        BY <3>1, <3>4
      <4>2. Answer(b, c, t)
        BY <4>1, <3>1, <3>2, <2>5, <2>8 DEF Answer
      <4>3. t.finite
        BY <4>1, <1>4 DEF GoodStream
      <4> QED
        BY <4>2, <4>3, <2>1 DEF Gone
    <3>5. CallGoes(b, t, ys)
      BY <3>3, <3>4, <2>5, <1>6 DEF CallGoes
    <3> QED
      BY <3>5, <2>5, <1>1, <1>5, <1>7 DEF CallOn
  <2>9. CASE a.kind # "first" /\ x \notin a.test
    <3>1. after = "done" /\ out = IF a.kind = "travel" THEN c ELSE a.out
      BY <2>9, <1>10
    <3>2. AllIn(a.out, a.test)
      BY <2>9, <1>8 DEF Going
    <3>3. Failed(b, c, a.out, x) /\ x \in Elements \ b.test
      BY <3>1, <3>2, <2>5, <2>9, <1>3 DEF Failed, c
    <3>4. Answer(b, c, t)
      BY <3>3, <1>8, <2>5, <2>9 DEF Answer
    <3>5. ASSUME ~t.finite PROVE Len(ys) <= Shown
      <4>1. s.head \in Hits(a, s)
        BY <2>9, <1>2, <1>12 DEF Hits
      <4>2. Len(xs) + 1 <= Reach(a) + Cardinality(Elements)
        BY <4>1, <3>5, <2>6, HitIsNear
      <4>3. Reach(a) = 0
        BY <2>9 DEF Reach
      <4> QED
        BY <4>2, <4>3, <1>3, <1>7, ShownIs
    <3>6. Gone(b, t, ys)
      BY <3>4, <3>5, <2>1 DEF Gone
    <3>7. CallGoes(b, t, ys)
      BY <3>1, <3>6, <2>5, <1>6 DEF CallGoes
    <3> QED
      BY <3>7, <2>5, <1>1, <1>5, <1>7 DEF CallOn
  <2> QED
    BY <2>7, <2>8, <2>9
<1> QED
  BY <1>11, <1>12 DEF t

LEMMA EvalOK == LsInv /\ EvalStep => LsInv'
<1> SUFFICES ASSUME LsInv, EvalStep PROVE LsInv'
  OBVIOUS
<1>1. stream' = Taken(stream) /\ given' = given /\ call.phase = "running"
  BY DEF EvalStep, Running
<1>2. GoodStream(stream) /\ given \in Seq(Ops) /\ Composed(given, stream) /\ CallOn(call, stream)
  <2>1. call # NoCall
    BY <1>1 DEF NoCall
  <2> QED
    BY <2>1 DEF LsInv
<1>3. TurnsTo(call, stream, call')
  BY DEF EvalStep, TurnsTo
<1>4. call # NoCall /\ call'.stages = call.stages
  <2>1. call # NoCall /\ call \in Calls
    BY <1>1, <1>2 DEF NoCall, CallOn
  <2> DEFINE failing == call.kind # "first" /\ stream.mapper[stream.head] \notin call.test
             out == IF failing /\ call.kind = "while" THEN call.out
                    ELSE Append(call.out, stream.mapper[stream.head])
             enough == IF call.kind = "first" THEN Len(out) = call.n ELSE failing
             after == IF enough \/ ~Taken(stream).remaining THEN "done" ELSE call.phase
  <2>2. call' = call \/ call' = [call EXCEPT !.out = out, !.phase = after]
    BY <1>3 DEF TurnsTo
  <2> HIDE DEF failing, out, enough, after
  <2> QED
    BY <2>1, <2>2 DEF Calls
<1>5. MapsThenFilters(call'.stages) => given' = call'.stages
  BY <1>1, <1>4 DEF LsInv
<1>6. PICK xs \in Seq(Elements) : CallGoes(call, stream, xs)
  BY <1>2 DEF CallOn
<1>7. CASE stream.remaining
  <2>1. Between(call, stream, xs)
    BY <1>1, <1>2, <1>6, <1>7 DEF Between, CallOn
  <2>2. CallOn(call', stream')
    BY <2>1, <1>1, <1>3, TurnOK
  <2>3. GoodStream(stream') /\ SameMaking(stream, stream')
    BY <1>1, <1>2, <1>7, TakenIs
  <2>4. Composed(given, stream')
    BY <2>3, <1>2, SameComposed DEF SameMaking
  <2> QED
    BY <2>2, <2>3, <2>4, <1>1, <1>2, <1>5 DEF LsInv
<1>8. CASE ~stream.remaining
  <2>1. stream' = stream
    BY <1>1, <1>8 DEF Taken
  <2>2. stream.mapper[stream.head] \notin stream.predicate
    BY <1>1, <1>6, <1>8 DEF CallGoes, Going
  <2>3. call' = call
    BY <2>2, <1>3 DEF TurnsTo
  <2>4. given \in Seq(Ops) /\ given' = given /\ (MapsThenFilters(call.stages) => given = call.stages)
    BY <1>1, <1>4, <1>5 DEF LsInv
  <2> HIDE DEF LsInv
  <2> QED
    BY <2>1, <2>3, <2>4, <1>2, Zenon DEF LsInv
<1> QED
  BY <1>7, <1>8

LEMMA OfCollectedOK == LsInv /\ OfCollected => LsInv'
<1> SUFFICES ASSUME LsInv, OfCollected PROVE LsInv'
  OBVIOUS
<1>1. call.phase = "done" /\ stream' = Of(call.out) /\ call' = NoCall /\ given' = <<>>
  BY DEF OfCollected
<1>2. call.out \in Seq(Elements)
  BY <1>1 DEF LsInv, NoCall, CallOn, Calls
<1>3. GoodStream(stream') /\ Composed(<<>>, stream')
  BY <1>1, <1>2, OfGood
<1>4. <<>> \in Seq(Ops)
  OBVIOUS
<1> QED
  BY <1>1, <1>3, <1>4 DEF LsInv

LEMMA LsStep == LsInv /\ [LsNext]_lsVars => LsInv'
<1> SUFFICES ASSUME LsInv, [LsNext]_lsVars PROVE LsInv'
  OBVIOUS
<1>1. Tests \subseteq SUBSET Elements
  BY StreamAssumption
<1>2. CASE \E f \in Mappers : MapBy(f)
  BY <1>2, MapOK
<1>3. CASE \E p \in Tests : FilterBy(p) \/ DropWhileIn(p)
  <2>1. PICK p \in Tests : FilterBy(p) \/ DropWhileIn(p)
    BY <1>3
  <2>2. p \in SUBSET Elements
    BY <1>1
  <2> QED
    BY <2>1, <2>2, FilterOK, DropWhileOK
<1>4. CASE \E n \in 0..MaxTake : Begin("first", n, Elements)
  BY <1>4, BeginOK
<1>5. CASE \E kind \in {"while", "travel"}, p \in Tests \cup {Elements} : Begin(kind, 0, p)
  <2>1. PICK kind \in {"while", "travel"}, p \in Tests \cup {Elements} : Begin(kind, 0, p)
    BY <1>5
  <2>2. p \in SUBSET Elements /\ 0 \in 0..MaxTake /\ kind \in {"first", "while", "travel"}
    BY <1>1, ShownIs
  <2> QED
    BY <2>1, <2>2, BeginOK
<1>6. CASE EvalStep
  BY <1>6, EvalOK
<1>7. CASE OfCollected
  BY <1>7, OfCollectedOK
<1>8. CASE UNCHANGED lsVars
  BY <1>8 DEF lsVars, LsInv
<1> QED
  BY <1>2, <1>3, <1>4, <1>5, <1>6, <1>7, <1>8 DEF LsNext

LEMMA LsInvTypes == LsInv => LsTypeOK
BY DEF LsInv, LsTypeOK, GoodStream, LazyStreams, NoCall, CallOn, Calls

LEMMA LsInvAnswers == LsInv => AnswersAsPromised
<1> SUFFICES ASSUME LsInv, call.phase = "done", MapsThenFilters(call.stages) PROVE Answered
  BY DEF AnswersAsPromised
<1>0. call # NoCall /\ given = call.stages /\ MapsThenFilters(given)
  BY DEF LsInv, NoCall
<1>1. /\ GoodStream(stream) /\ Composed(given, stream) /\ CallOn(call, stream)
      /\ stream \in LazyStreams
  BY DEF LsInv, NoCall, GoodStream
<1>2. PICK xs \in Seq(Elements) : CallGoes(call, stream, xs)
  BY <1>1 DEF CallOn
<1> DEFINE a == call
           s == call.asked
           c == Came(stream, xs)
           seen == InOrder(call.stages, Source(s))
           ahead == InOrder(given, Source(stream))
<1>3. a \in Calls /\ s \in LazyStreams /\ SameMaking(s, stream) /\ Follows(s, xs, stream)
  BY <1>1, <1>2 DEF CallOn, GoodStream, CallGoes
<1>4. Answer(a, c, stream) /\ (~s.finite => Len(xs) <= Shown)
  BY <1>2, <1>3 DEF CallGoes, Gone, SameMaking
<1>5. PICK rest \in Seq(Elements), more \in Seq(Elements) :
         /\ Source(s) = xs \o rest /\ Source(stream) = rest \o more
         /\ s.finite => more = <<>> /\ rest = Source(stream)
  BY <1>1, <1>3, <1>4, Behind
<1> DEFINE r == Came(stream, rest)
           m == Came(stream, more)
<1>6. c \in Seq(Elements) /\ r \in Seq(Elements) /\ m \in Seq(Elements)
  BY <1>1, CameTyped
<1>7. seen = c \o r /\ ahead = r \o m
  <2>1. Source(s) \in Seq(Elements) /\ Source(stream) \in Seq(Elements)
    BY <1>1, <1>3, SourceTyped
  <2>2. seen = Came(stream, Source(s)) /\ ahead = Came(stream, Source(stream))
    BY <2>1, <1>0, <1>1 DEF Composed
  <2> QED
    BY <2>2, <1>1, <1>5, CameConcat
<1>8. s.finite => m = <<>>
  BY <1>5, CameEmpty
<1>9. ASSUME ~stream.remaining PROVE r = <<>>
  <2>1. stream.finite /\ s.finite
    BY <1>1, <1>3, <1>9 DEF GoodStream, SameMaking
  <2>2. rest = <<>>
    BY <2>1, <1>1, <1>5, <1>9, SourceOfList
  <2> QED
    BY <2>2, CameEmpty
<1>10. stream.finite = s.finite
  BY <1>3 DEF SameMaking
<1> HIDE DEF c, r, m
<1>11. Promised(a, c \o r) /\ LookedAt(a, c \o r) = c
  BY <1>3, <1>4, <1>6, <1>9, AnswerIsPromised
<1> DEFINE left == LookedAt(a, seen) \o ahead
<1>12. left = c \o (r \o m)
  BY <1>7, <1>11
<1>13. ASSUME stream.finite PROVE left = seen
  <2>1. r \o m = r
    BY <1>6, <1>8, <1>10, <1>13, ConcatEmptySeq
  <2> QED
    BY <2>1, <1>7, <1>12
<1>14. IsPrefix(seen, left)
  <2>1. Associates(c, r, m)
    BY <1>6, Associative
  <2>2. left = (c \o r) \o m
    BY <2>1, <1>12, Zenon DEF Associates
  <2> DEFINE d == c \o r
             l == d \o m
  <2>3. d \in Seq(Elements)
    BY <1>6, ConcatProperties
  <2> HIDE DEF d
  <2>4. ConcatIs(Elements, d, m, l)
    BY <2>3, <1>6, ConcatFacts
  <2>5. /\ l \in Seq(Elements) /\ Len(l) = Len(d) + Len(m) /\ Len(d) \in Nat /\ Len(m) \in Nat
        /\ \A i \in 1..Len(d) + Len(m) : l[i] = IF i <= Len(d) THEN d[i] ELSE m[i - Len(d)]
    BY <2>3, <2>4, <1>6 DEF ConcatIs
  <2> HIDE DEF l
  <2>6. Len(d) <= Len(l) /\ SubSeq(d, 1, Len(d)) = d
    BY <2>3, <2>5, SubSeqFull
  <2>7. SubSeq(l, 1, Len(d)) = d
    <3> DEFINE u == SubSeq(l, 1, Len(d))
    <3>1. u \in Seq(Elements) /\ Len(u) = Len(d) /\ \A i \in 1..Len(d) : u[i] = l[i]
      BY <2>5, SubSeqProperties
    <3> HIDE DEF u
    <3>2. \A i \in 1..Len(d) : u[i] = d[i]
      BY <2>5, <3>1
    <3>3. u = d
      BY <2>3, <3>1, <3>2, SeqEqual
    <3> QED
      BY <3>3 DEF u
  <2>8. IsPrefix(d, l)
    BY <2>6, <2>7 DEF IsPrefix
  <2> QED
    BY <2>2, <2>8, <1>7 DEF d, l
<1>15. Promised(a, seen)
  BY <1>7, <1>11
<1> HIDE DEF seen, left
<1> QED
  BY <1>13, <1>14, <1>15 DEF Answered, Promised, LookedAt, PassingOf, left, seen, ahead

(* The types of a stream and its call, for every list, producer, mapper    *)
(* and predicate.                                                          *)
THEOREM StreamTypeCorrect == LsSpec => []LsTypeOK
<1>1. LsInit => LsInv
  BY LsInitOK
<1>2. LsInv /\ [LsNext]_lsVars => LsInv'
  BY LsStep
<1>3. LsInv => LsTypeOK
  BY LsInvTypes
<1> QED
  BY <1>1, <1>2, <1>3, PTL DEF LsSpec

(* Every call that returns on a stream whose maps came before its filters  *)
(* gives what the stages make of the source one after the other, and       *)
(* leaves the stream with exactly the elements behind: AnswersAsPromised.  *)
THEOREM AnswersAsPromisedAlways == LsSpec => []AnswersAsPromised
<1>1. LsInit => LsInv
  BY LsInitOK
<1>2. LsInv /\ [LsNext]_lsVars => LsInv'
  BY LsStep
<1>3. LsInv => AnswersAsPromised
  BY LsInvAnswers
<1> QED
  BY <1>1, <1>2, <1>3, PTL DEF LsSpec

-----------------------------------------------------------------------------
(* The views of a text, and what is found in it.                           *)

LEMMA TextFacts ==
    /\ npos \in Nat /\ NAIVE_BELOW \in Nat
    /\ \A t \in Texts \cup Needles : t \in Seq(Ascii) /\ Len(t) \in Nat /\ Len(t) < npos
BY StringAssumption DEF Ascii

LEMMA MinIs ==
    ASSUME NEW S \in SUBSET Nat, S # {}
    PROVE  Min(S) \in S /\ \A x \in S : Min(S) <= x
<1>1. \E n \in S : \A m \in S : n <= m
  BY Least
<1> QED
  BY <1>1 DEF Min

LEMMA MaxIs ==
    ASSUME NEW n \in Nat, NEW S \in SUBSET (0..n), S # {}
    PROVE  Max(S) \in S /\ \A x \in S : Max(S) >= x
<1> DEFINE T == {n - x : x \in S}
<1>1. T \in SUBSET Nat /\ T # {}
  <2>1. ASSUME NEW x \in S PROVE n - x \in Nat
    <3>1. x \in 0..n
      OBVIOUS
    <3> QED
      BY <3>1
  <2>2. T \in SUBSET Nat
    BY <2>1
  <2>3. \E x \in S : n - x \in T
    OBVIOUS
  <2> QED
    BY <2>2, <2>3
<1>2. PICK m \in T : \A x \in T : m <= x
  <2> HIDE DEF T
  <2> QED
    BY <1>1, Least
<1>3. PICK y \in S : m = n - y
  OBVIOUS
<1>4. ASSUME NEW x \in S PROVE y >= x
  <2>1. n - x \in T /\ x \in 0..n /\ y \in 0..n
    OBVIOUS
  <2>2. m <= n - x
    BY <1>2, <2>1
  <2> QED
    BY <1>3, <2>1, <2>2
<1>5. \E x \in S : \A z \in S : x >= z
  BY <1>4
<1> QED
  BY <1>5 DEF Max

-----------------------------------------------------------------------------
(* Searches.                                                               *)
LEMMA CutIs ==
    ASSUME NEW S, NEW s \in Seq(S), NEW a \in Nat, NEW n \in Nat, a + n <= Len(s)
    PROVE  /\ SubSeq(s, a + 1, a + n) \in Seq(S)
           /\ Len(SubSeq(s, a + 1, a + n)) = n
           /\ \A k \in 1..n : SubSeq(s, a + 1, a + n)[k] = s[a + k]
<1> DEFINE p == a + 1
           q == a + n
           u == SubSeq(s, p, q)
<1>1. Len(s) \in Nat /\ p \in Int /\ q \in Int /\ q - p + 1 = n /\ (p <= q <=> n > 0)
  OBVIOUS
<1>2. ASSUME NEW i \in p..q PROVE s[i] \in S
  <2>1. i \in 1..Len(s)
    BY <1>1
  <2> QED
    BY <2>1, ElementOfSeq
<1>3. \A k \in 1..n : p + k - 1 = a + k
  BY <1>1
<1> HIDE DEF p, q
<1>4. u \in Seq(S) /\ Len(u) = (IF p <= q THEN q - p + 1 ELSE 0) /\ \A k \in 1..(q - p + 1) : u[k] = s[p + k - 1]
  BY <1>1, <1>2, SubSeqProperties
<1> HIDE DEF u
<1>5. Len(u) = n
  BY <1>1, <1>4
<1>6. ASSUME NEW k \in 1..n PROVE u[k] = s[a + k]
  <2>1. k \in 1..(q - p + 1) /\ p + k - 1 = a + k
    BY <1>1, <1>3
  <2>2. u[k] = s[p + k - 1]
    BY <2>1, <1>4
  <2> QED
    BY <2>1, <2>2
<1> QED
  BY <1>4, <1>5, <1>6 DEF u, p, q

Matches(s, i, needle) == \A k \in 1..Len(needle) : s[i + k] = needle[k]

LEMMA MatchesAtIs ==
    ASSUME NEW s \in Seq(Ascii), NEW needle \in Seq(Ascii), NEW i \in Nat,
           i + Len(needle) <= Len(s)
    PROVE  MatchesAt(s, i, needle) <=> Matches(s, i, needle)
<1> DEFINE u == SubSeq(s, i + 1, i + Len(needle))
           n == Len(needle)
<1>1. n \in Nat /\ Len(s) \in Nat
  OBVIOUS
<1>2. u \in Seq(Ascii) /\ Len(u) = n /\ \A k \in 1..n : u[k] = s[i + k]
  <2> HIDE DEF n
  <2>1. i + n <= Len(s)
    BY DEF n
  <2>2. u = SubSeq(s, i + 1, i + n)
    BY DEF n
  <2> HIDE DEF u
  <2>3. /\ SubSeq(s, i + 1, i + n) \in Seq(Ascii) /\ Len(SubSeq(s, i + 1, i + n)) = n
        /\ \A k \in 1..n : SubSeq(s, i + 1, i + n)[k] = s[i + k]
    BY <1>1, <2>1, CutIs
  <2> QED
    BY <2>2, <2>3
<1> HIDE DEF u
<1>3. u = needle <=> \A k \in 1..n : u[k] = needle[k]
  BY <1>2, SeqEqual
<1> QED
  BY <1>2, <1>3 DEF MatchesAt, Matches, u

LEMMA PositionsIs ==
    ASSUME NEW s \in Seq(Ascii), NEW needle \in Seq(Ascii), NEW start \in Nat
    PROVE  /\ Positions(s, needle, start)
                = {i \in start..(Len(s) - Len(needle)) : Matches(s, i, needle)}
           /\ Positions(s, needle, start) \subseteq Nat
<1>1. ASSUME NEW i \in start..(Len(s) - Len(needle))
      PROVE  i \in Nat /\ (MatchesAt(s, i, needle) <=> Matches(s, i, needle))
  <2>1. i \in Nat /\ i + Len(needle) <= Len(s)
    OBVIOUS
  <2> QED
    BY <2>1, MatchesAtIs
<1> QED
  BY <1>1 DEF Positions

LEMMA EntryIs == \A n \in 0..MAX_SKIP : Entry(n) = n
<1> TAKE n \in 0..MAX_SKIP
<1>1. MAX_SKIP \in Nat
  BY StringAssumption
<1> QED
  BY <1>1 DEF Entry

LEMMA SkipIs ==
    ASSUME NEW needle \in Seq(Ascii), Len(needle) \in 1..MAX_SKIP, NEW c
    PROVE  /\ Skipped(needle, c) \in 1..Len(needle)
           /\ \A i \in 1..(Len(needle) - 1) :
                 needle[i] = c => Skipped(needle, c) <= Len(needle) - i
<1> DEFINE n == Len(needle)
           at == {i \in 1..(n - 1) : needle[i] = c}
<1>1. n \in Nat /\ n >= 1 /\ n \in 0..MAX_SKIP /\ MAX_SKIP \in Nat /\ n <= MAX_SKIP
  BY StringAssumption
<1>2. CASE at = {}
  <2>1. Skipped(needle, c) = n
    BY <1>1, <1>2, EntryIs DEF Skipped
  <2> QED
    BY <1>1, <1>2, <2>1
<1>3. CASE at # {}
  <2>1. at \in SUBSET (0..n)
    BY <1>1
  <2>2. Skipped(needle, c) = Entry(n - Max(at))
    BY <1>3 DEF Skipped
  <2> HIDE DEF at
  <2>3. Max(at) \in at /\ \A x \in at : Max(at) >= x
    BY <1>1, <1>3, <2>1, MaxIs
  <2> QED
    <3>1. Max(at) \in 1..(n - 1)
      BY <2>3 DEF at
    <3>2. ASSUME NEW i \in 1..(n - 1), needle[i] = c PROVE i <= Max(at)
      <4>1. i \in at
        BY <3>2 DEF at
      <4> QED
        BY <4>1, <2>3, <3>1
    <3>3. n - Max(at) \in 0..MAX_SKIP /\ n - Max(at) \in 1..n
      BY <3>1, <1>1
    <3>4. Skipped(needle, c) = n - Max(at)
      BY <2>2, <3>3, EntryIs
    <3> QED
      BY <3>1, <3>2, <3>3, <3>4, <1>1
<1> QED
  BY <1>2, <1>3

(* The skip table never skips an occurrence.                               *)
LEMMA SkipsNothing ==
    ASSUME NEW s \in Seq(Ascii), NEW needle \in Seq(Ascii), Len(needle) \in 1..MAX_SKIP,
           NEW p \in 0..(Len(s) - Len(needle)), ~Matches(s, p, needle)
    PROVE  LET next == p + Skipped(needle, s[p + Len(needle)])
           IN  /\ next \in (p + 1)..Len(s)
               /\ Positions(s, needle, p) = Positions(s, needle, next)
<1> DEFINE n == Len(needle)
           k == Skipped(needle, s[p + n])
           next == p + k
<1>1. n \in Nat /\ n >= 1 /\ Len(s) \in Nat /\ p \in Nat /\ p + n <= Len(s)
  OBVIOUS
<1>2. k \in 1..n /\ \A i \in 1..(n - 1) : needle[i] = s[p + n] => k <= n - i
  BY SkipIs
<1> HIDE DEF k
<1>3. next \in (p + 1)..Len(s) /\ next \in Nat
  BY <1>1, <1>2
<1>4. ASSUME NEW q \in p..(Len(s) - n), Matches(s, q, needle) PROVE q >= next
  <2>1. CASE q = p
    BY <2>1, <1>4
  <2>2. CASE q > p /\ q < p + n
    <3> DEFINE i == p + n - q
    <3>1. i \in 1..(n - 1) /\ i \in 1..n /\ q + i = p + n
      BY <2>2, <1>1
    <3>2. needle[i] = s[p + n]
      <4> HIDE DEF i
      <4> QED
        BY <3>1, <1>4 DEF Matches
    <3>3. k <= n - i
      BY <3>1, <3>2, <1>2
    <3> QED
      BY <3>3, <1>1, <1>2, <2>2
  <2>3. CASE q >= p + n
    BY <2>3, <1>1, <1>2
  <2> QED
    BY <2>1, <2>2, <2>3, <1>1
<1>5. /\ Positions(s, needle, p) = {i \in p..(Len(s) - n) : Matches(s, i, needle)}
      /\ Positions(s, needle, next) = {i \in next..(Len(s) - n) : Matches(s, i, needle)}
  BY <1>1, <1>3, PositionsIs
<1>6. \A q : q \in p..(Len(s) - n) /\ q >= next <=> q \in next..(Len(s) - n)
  BY <1>1, <1>3
<1>7. Positions(s, needle, p) = Positions(s, needle, next)
  BY <1>4, <1>5, <1>6
<1> QED
  BY <1>3, <1>7 DEF k

LEMMA HorspoolIs ==
    ASSUME NEW s \in Seq(Ascii), NEW needle \in Seq(Ascii), Len(needle) \in 1..MAX_SKIP,
           NEW start \in 0..Len(s)
    PROVE  Horspool(s, needle, start) = Naive(s, needle, start)
<1> DEFINE n == Len(needle)
           D == start..Len(s)
           next(p) == p + Skipped(needle, s[p + n])
           from == CHOOSE f : f = [p \in D |->
                       IF p > Len(s) - n THEN npos
                       ELSE IF MatchesAt(s, p, needle) THEN p
                       ELSE f[p + Skipped(needle, s[p + n])]]
           ref == [p \in D |-> Naive(s, needle, p)]
<1>1. n \in Nat /\ n >= 1 /\ Len(s) \in Nat /\ start \in Nat
  OBVIOUS
<1>2. ASSUME NEW p \in D, p > Len(s) - n PROVE Naive(s, needle, p) = npos
  <2>1. p..(Len(s) - n) = {}
    BY <1>1, <1>2
  <2> QED
    BY <2>1 DEF Naive, Positions
<1>3. ASSUME NEW p \in D, ~(p > Len(s) - n)
      PROVE  /\ MatchesAt(s, p, needle) => Naive(s, needle, p) = p
             /\ ~MatchesAt(s, p, needle) =>
                   next(p) \in D /\ next(p) > p /\ Naive(s, needle, p) = Naive(s, needle, next(p))
  <2>1. p \in Nat /\ p + n <= Len(s) /\ p \in 0..(Len(s) - n) /\ p \in p..(Len(s) - n)
    BY <1>1, <1>3
  <2>2. MatchesAt(s, p, needle) <=> Matches(s, p, needle)
    BY <2>1, MatchesAtIs
  <2>3. ASSUME MatchesAt(s, p, needle) PROVE Naive(s, needle, p) = p
    <3> DEFINE S == Positions(s, needle, p)
    <3>1. S \subseteq Nat /\ S \subseteq p..(Len(s) - n) /\ p \in S
      BY <2>1, <2>3, PositionsIs DEF Positions
    <3> HIDE DEF S
    <3>2. Min(S) \in S /\ Min(S) <= p
      BY <3>1, MinIs
    <3>3. Min(S) \in p..(Len(s) - n) /\ Min(S) <= p
      BY <3>1, <3>2
    <3>4. Min(S) = p
      BY <3>3, <2>1
    <3> QED
      BY <3>1, <3>4 DEF Naive, S
  <2>4. ASSUME ~MatchesAt(s, p, needle)
        PROVE  next(p) \in D /\ next(p) > p /\ Naive(s, needle, p) = Naive(s, needle, next(p))
    <3>1. next(p) \in (p + 1)..Len(s) /\ Positions(s, needle, p) = Positions(s, needle, next(p))
      BY <2>1, <2>2, <2>4, SkipsNothing
    <3> HIDE DEF next
    <3>2. next(p) \in D /\ next(p) > p
      BY <1>1, <2>1, <3>1
    <3> QED
      BY <3>1, <3>2 DEF Naive
  <2> QED
    BY <2>3, <2>4
<1>4. ref = [p \in D |->
               IF p > Len(s) - n THEN npos
               ELSE IF MatchesAt(s, p, needle) THEN p
               ELSE ref[p + Skipped(needle, s[p + n])]]
  <2>1. ASSUME NEW p \in D
        PROVE  ref[p] = IF p > Len(s) - n THEN npos
                        ELSE IF MatchesAt(s, p, needle) THEN p
                        ELSE ref[p + Skipped(needle, s[p + n])]
    BY <1>2, <1>3
  <2> HIDE DEF D
  <2> QED
    BY <2>1
<1>5. from = [p \in D |->
               IF p > Len(s) - n THEN npos
               ELSE IF MatchesAt(s, p, needle) THEN p
               ELSE from[p + Skipped(needle, s[p + n])]]
  <2> HIDE DEF ref, D
  <2> QED
    BY <1>4
<1> HIDE DEF from
<1>6. ASSUME NEW p \in D
      PROVE  from[p] = IF p > Len(s) - n THEN npos
                       ELSE IF MatchesAt(s, p, needle) THEN p ELSE from[next(p)]
  <2> HIDE DEF D
  <2> QED
    BY <1>5
<1> DEFINE Wrong == {Len(s) - p : p \in {q \in D : from[q] # Naive(s, needle, q)}}
<1>7. Wrong = {}
  <2> SUFFICES ASSUME Wrong # {} PROVE FALSE
    OBVIOUS
  <2>1. Wrong \in SUBSET Nat
    BY <1>1
  <2>2. PICK w \in Wrong : \A x \in Wrong : w <= x
    <3> HIDE DEF Wrong
    <3> QED
      BY <2>1, Least
  <2>3. PICK p \in D : w = Len(s) - p /\ from[p] # Naive(s, needle, p)
    OBVIOUS
  <2>4. ~(p > Len(s) - n) /\ ~MatchesAt(s, p, needle)
    BY <2>3, <1>2, <1>3, <1>6
  <2>5. next(p) \in D /\ next(p) > p /\ Naive(s, needle, p) = Naive(s, needle, next(p))
    BY <2>4, <1>3
  <2>6. from[p] = from[next(p)]
    BY <2>4, <1>6
  <2> HIDE DEF next
  <2>7. from[next(p)] # Naive(s, needle, next(p))
    BY <2>3, <2>5, <2>6
  <2>8. Len(s) - next(p) \in Wrong
    BY <2>5, <2>7
  <2>9. w <= Len(s) - next(p)
    BY <2>2, <2>8
  <2> QED
    BY <2>3, <2>5, <2>9, <1>1
<1>8. start \in D
  BY <1>1
<1>9. from[start] = Naive(s, needle, start)
  BY <1>7, <1>8
<1> QED
  BY <1>9 DEF Horspool, from
(* The first position from start on where the needle stands.               *)
FoundAt(s, needle, start, r) ==
    /\ r \in Nat /\ r >= start /\ r + Len(needle) <= Len(s) /\ Matches(s, r, needle)
    /\ \A i \in start..(r - 1) : ~Matches(s, i, needle)
FoundNot(s, needle, start, r) ==
    r = npos /\ \A i \in start..(Len(s) - Len(needle)) : ~Matches(s, i, needle)

LEMMA NaiveIs ==
    ASSUME NEW s \in Seq(Ascii), NEW needle \in Seq(Ascii), NEW start \in Nat, Len(s) < npos
    PROVE  LET r == Naive(s, needle, start)
           IN  \/ /\ FoundAt(s, needle, start, r) /\ r # npos /\ Positions(s, needle, start) # {}
                  /\ r = Min(Positions(s, needle, start)) /\ r \in Positions(s, needle, start)
               \/ FoundNot(s, needle, start, r) /\ Positions(s, needle, start) = {}
<1> DEFINE S == Positions(s, needle, start)
           r == Naive(s, needle, start)
<1>1. /\ S = {i \in start..(Len(s) - Len(needle)) : Matches(s, i, needle)} /\ S \in SUBSET Nat
      /\ Len(s) \in Nat /\ Len(needle) \in Nat /\ npos \in Nat
  BY PositionsIs, TextFacts
<1>2. r = IF S = {} THEN npos ELSE Min(S)
  BY DEF Naive
<1> HIDE DEF S, r
<1>3. CASE S = {}
  BY <1>1, <1>2, <1>3 DEF FoundNot, r, S
<1>4. CASE S # {}
  <2>1. r \in S /\ (\A x \in S : r <= x) /\ r = Min(S)
    BY <1>1, <1>2, <1>4, MinIs
  <2>2. r \in start..(Len(s) - Len(needle)) /\ Matches(s, r, needle)
    BY <1>1, <2>1
  <2>3. r \in Nat /\ r >= start /\ r + Len(needle) <= Len(s) /\ r # npos
    BY <1>1, <2>2
  <2>4. ASSUME NEW i \in start..(r - 1), Matches(s, i, needle) PROVE FALSE
    <3>1. i \in start..(Len(s) - Len(needle)) /\ i < r
      BY <1>1, <2>3
    <3>2. i \in S
      BY <1>1, <2>4, <3>1
    <3> QED
      BY <2>1, <2>3, <3>1, <3>2
  <2>5. FoundAt(s, needle, start, r)
    BY <2>2, <2>3, <2>4 DEF FoundAt
  <2> QED
    BY <2>1, <2>3, <2>5, <1>4 DEF S, r
<1> QED
  BY <1>3, <1>4

(* find is the plain search, in each of its ways.                          *)
LEMMA FindIs ==
    ASSUME NEW s \in Seq(Ascii), NEW needle \in Seq(Ascii), NEW start \in Nat
    PROVE  Find(s, needle, start) = Naive(s, needle, start)
<1> DEFINE S == Positions(s, needle, start)
           size == Len(s) - start
<1>1. /\ S = {i \in start..(Len(s) - Len(needle)) : Matches(s, i, needle)} /\ S \in SUBSET Nat
      /\ Len(s) \in Nat /\ Len(needle) \in Nat /\ npos \in Nat /\ NAIVE_BELOW \in Nat
  BY PositionsIs, TextFacts
<1>2. Naive(s, needle, start) = IF S = {} THEN npos ELSE Min(S)
  BY DEF Naive
<1> HIDE DEF S
<1>3. CASE start > Len(s) \/ size < Len(needle)
  <2>1. start..(Len(s) - Len(needle)) = {}
    BY <1>1, <1>3
  <2>2. Naive(s, needle, start) = npos
    BY <1>1, <1>2, <2>1
  <2>3. needle = <<>> => Len(needle) = 0
    OBVIOUS
  <2> QED
    BY <1>1, <1>3, <2>2, <2>3 DEF Find
<1>4. CASE ~(start > Len(s)) /\ needle = <<>>
  <2>1. Len(needle) = 0
    BY <1>4
  <2>2. start \in S
    BY <1>1, <1>4, <2>1 DEF Matches
  <2>3. Min(S) \in S /\ Min(S) <= start
    BY <1>1, <2>2, MinIs
  <2>4. Min(S) \in start..Len(s)
    BY <1>1, <2>1, <2>3
  <2>5. Min(S) = start
    BY <1>1, <2>3, <2>4
  <2> QED
    BY <1>2, <1>4, <2>2, <2>5 DEF Find
<1>5. CASE ~(start > Len(s)) /\ ~(size < Len(needle)) /\ needle # <<>> /\ Len(needle) = 1
  <2>1. MinOf(start, Len(s)) = start
    BY <1>1, <1>5 DEF MinOf
  <2>2. Find(s, needle, start) = FirstFrom(s, start, {needle[1]})
    BY <1>5, <2>1 DEF Find, FindChar
  <2>3. \A i : Matches(s, i, needle) <=> s[i + 1] \in {needle[1]}
    BY <1>5 DEF Matches
  <2>4. S = {i \in start..(Len(s) - 1) : s[i + 1] \in {needle[1]}}
    BY <1>1, <1>5, <2>3
  <2> QED
    BY <1>2, <2>2, <2>4 DEF FirstFrom
<1>6. CASE ~(start > Len(s)) /\ ~(size < Len(needle)) /\ needle # <<>> /\ Len(needle) # 1
  <2>1. Len(needle) >= 1 /\ start \in 0..Len(s)
    BY <1>1, <1>6, EmptySeq
  <2>2. Len(needle) <= MAX_SKIP => Horspool(s, needle, start) = Naive(s, needle, start)
    BY <2>1, HorspoolIs
  <2> QED
    BY <1>6, <2>2, StringAssumption DEF Find
<1> QED
  BY <1>3, <1>4, <1>5, <1>6

LEMMA AsciiIs == \A c : c \in Ascii <=> c \in Int /\ 0 <= c /\ c <= 127
BY DEF Ascii

LEMMA ToLowerIs == \A c \in Ascii : ToLower(c) \in Ascii
<1> TAKE c \in Ascii
<1>1. c \in Int /\ 0 <= c /\ c <= 127
  BY AsciiIs
<1>2. CASE c \in 65..90
  BY <1>2, AsciiIs DEF ToLower
<1>3. CASE c \notin 65..90
  BY <1>3 DEF ToLower
<1> QED
  BY <1>2, <1>3

LEMMA LowerIs ==
    ASSUME NEW s \in Seq(Ascii)
    PROVE  /\ Lower(s) \in Seq(Ascii) /\ Len(Lower(s)) = Len(s) /\ Len(s) \in Nat
           /\ \A i \in 1..Len(s) : s[i] \in Ascii /\ Lower(s)[i] = ToLower(s[i])
<1>1. DOMAIN s = 1..Len(s) /\ Len(s) \in Nat
  OBVIOUS
<1>2. ASSUME NEW i \in 1..Len(s) PROVE s[i] \in Ascii /\ ToLower(s[i]) \in Ascii
  <2>1. s[i] \in Ascii
    BY ElementOfSeq
  <2> QED
    BY <2>1, ToLowerIs
<1>3. Lower(s) = [i \in 1..Len(s) |-> ToLower(s[i])]
  BY <1>1 DEF Lower
<1>4. Lower(s) \in [1..Len(s) -> Ascii]
  BY <1>2, <1>3
<1>5. Lower(s) \in Seq(Ascii) /\ Len(Lower(s)) = Len(s)
  BY <1>1, <1>4, SeqDef, LenProperties
<1> QED
  BY <1>1, <1>2, <1>3, <1>5

(* What the searches say of one needle in the text s.                      *)
FindsOne(s, n, start) ==
    LET hits == {i \in start..(Len(s) - Len(n)) : \A k \in DOMAIN n : s[i + k] = n[k]}
    IN  /\ Find(s, n, start) = IF hits = {} THEN npos ELSE Min(hits)
        /\ start <= Len(s) => FindIgnoreCase(s, n, start) = Find(Lower(s), Lower(n), start)
        /\ ~FindIfThrows(s, start) /\ Len(n) = 1 =>
              FindIgnoreCaseChar(s, n[1], start) = FindIgnoreCase(s, n, start)
        /\ Len(n) = 1 => /\ FindFirstOf(s, {n[1]}, start) = FindChar(s, n[1], start)
                         /\ FindLastOf(s, {n[1]}, start) = RfindChar(s, n[1], start)

LEMMA FindsOneOK ==
    ASSUME NEW s \in Seq(Ascii), NEW n \in Seq(Ascii), NEW start \in Nat
    PROVE  FindsOne(s, n, start)
<1> DEFINE S == Positions(s, n, start)
           hits == {i \in start..(Len(s) - Len(n)) : \A k \in DOMAIN n : s[i + k] = n[k]}
           low == Lower(s)
           needle == Lower(n)
           L == Positions(low, needle, start)
<1>1. /\ Len(s) \in Nat /\ Len(n) \in Nat /\ npos \in Nat /\ DOMAIN n = 1..Len(n)
      /\ low \in Seq(Ascii) /\ Len(low) = Len(s) /\ needle \in Seq(Ascii) /\ Len(needle) = Len(n)
      /\ \A i \in 1..Len(s) : s[i] \in Ascii /\ low[i] = ToLower(s[i])
      /\ \A i \in 1..Len(n) : n[i] \in Ascii /\ needle[i] = ToLower(n[i])
  BY LowerIs, TextFacts
<1> HIDE DEF low, needle
<1>2. S = hits
  <2>1. S = {i \in start..(Len(s) - Len(n)) : Matches(s, i, n)}
    BY PositionsIs
  <2>2. \A i : Matches(s, i, n) <=> \A k \in DOMAIN n : s[i + k] = n[k]
    BY <1>1 DEF Matches
  <2> QED
    BY <2>1, <2>2
<1>3. Find(s, n, start) = IF hits = {} THEN npos ELSE Min(hits)
  <2>1. Naive(s, n, start) = IF S = {} THEN npos ELSE Min(S)
    BY DEF Naive
  <2>2. Find(s, n, start) = Naive(s, n, start)
    BY FindIs
  <2> HIDE DEF S, hits
  <2> QED
    BY <2>1, <2>2, <1>2
<1>4. Find(low, needle, start) = IF L = {} THEN npos ELSE Min(L)
  BY <1>1, FindIs DEF Naive
<1>5. L = {i \in start..(Len(s) - Len(n)) : Matches(low, i, needle)} /\ L \in SUBSET Nat
  BY <1>1, PositionsIs
<1>6. ASSUME start <= Len(s)
      PROVE  FindIgnoreCase(s, n, start) = IF L = {} THEN npos ELSE Min(L)
  <2>1. MinOf(start, Len(s)) = start
    BY <1>1, <1>6 DEF MinOf
  <2>2. FindIgnoreCase(s, n, start) = IF L = {} THEN npos ELSE start + Min(L) - start
    BY <2>1 DEF FindIgnoreCase, low, needle
  <2> HIDE DEF L
  <2>3. L # {} => Min(L) \in Nat
    BY <1>5, MinIs
  <2> QED
    BY <2>2, <2>3
<1>7. ASSUME ~FindIfThrows(s, start), Len(n) = 1
      PROVE  FindIgnoreCaseChar(s, n[1], start) = IF L = {} THEN npos ELSE Min(L)
  <2> DEFINE set == {d \in Ascii : ToLower(d) = ToLower(n[1])}
             H == {i \in start..(Len(s) - 1) : s[i + 1] \in set}
  <2>1. FindIgnoreCaseChar(s, n[1], start) = IF H = {} THEN npos ELSE Min(H)
    BY DEF FindIgnoreCaseChar, FindIf, FirstFrom
  <2>2. ASSUME NEW i \in start..(Len(s) - 1) PROVE s[i + 1] \in set <=> Matches(low, i, needle)
    <3>1. i + 1 \in 1..Len(s) /\ 1 \in 1..Len(n)
      BY <1>1, <1>7
    <3>2. \A k \in 1..Len(needle) : k = 1
      BY <1>1, <1>7
    <3>3. Matches(low, i, needle) <=> low[i + 1] = needle[1]
      BY <1>1, <1>7, <3>1, <3>2 DEF Matches
    <3> QED
      BY <3>1, <3>3, <1>1
  <2>3. H = L
    BY <1>5, <1>7, <2>2
  <2> QED
    BY <2>1, <2>3
<1>8. ASSUME ~FindIfThrows(s, start) PROVE start <= Len(s)
  BY <1>1, <1>8 DEF FindIfThrows
<1>9. Len(n) = 1 => /\ FindFirstOf(s, {n[1]}, start) = FindChar(s, n[1], start)
                    /\ FindLastOf(s, {n[1]}, start) = RfindChar(s, n[1], start)
  BY DEF FindFirstOf, FindChar, FindLastOf, RfindChar
<1> HIDE DEF L, S
<1> QED
  BY <1>3, <1>4, <1>6, <1>7, <1>8, <1>9 DEF FindsOne, low, needle

(* What they say of the whole text.                                        *)
FindsWhole(s, n) ==
    /\ Find(s, n, 0) = npos <=> Count(s, n) = 0
    /\ Rfind(s, n) = npos <=> Count(s, n) = 0
    /\ Count(s, n) = 1 => Rfind(s, n) = Find(s, n, 0)
    /\ StartsWith(s, n) <=> Find(s, n, 0) = 0
    /\ EndsWith(s, n) <=> Len(n) <= Len(s) /\ Rfind(s, n) = Len(s) - Len(n)
    /\ RfindIgnoreCase(s, n) = npos <=> FindIgnoreCase(s, n, 0) = npos

LEMMA RfindIs ==
    ASSUME NEW s \in Seq(Ascii), NEW n \in Seq(Ascii), Len(s) < npos
    PROVE  LET S == Positions(s, n, 0)
           IN  /\ Rfind(s, n) = npos <=> S = {}
               /\ S # {} => /\ Rfind(s, n) \in S /\ Rfind(s, n) = Max(S)
                            /\ \A i \in S : i <= Rfind(s, n)
               /\ S = {i \in 0..(Len(s) - Len(n)) : Matches(s, i, n)} /\ S \in SUBSET (0..Len(s))
<1> DEFINE S == Positions(s, n, 0)
<1>1. /\ Len(s) \in Nat /\ Len(n) \in Nat /\ npos \in Nat
      /\ S = {i \in 0..(Len(s) - Len(n)) : Matches(s, i, n)}
  BY TextFacts, PositionsIs
<1>2. Rfind(s, n) = IF S = {} THEN npos ELSE Max(S)
  BY DEF Rfind
<1>3. S \in SUBSET (0..Len(s))
  BY <1>1
<1> HIDE DEF S
<1>4. S # {} => Max(S) \in S /\ \A i \in S : Max(S) >= i
  BY <1>1, <1>3, MaxIs
<1>5. \A i \in S : i \in Nat /\ i # npos
  BY <1>1, <1>3
<1>6. S # {} => Rfind(s, n) # npos
  BY <1>2, <1>4, <1>5
<1>7. S # {} => \A i \in S : i <= Max(S)
  BY <1>4, <1>5
<1> QED
  BY <1>1, <1>2, <1>3, <1>4, <1>6, <1>7 DEF S

LEMMA FindsWholeOK ==
    ASSUME NEW s \in Seq(Ascii), NEW n \in Seq(Ascii), Len(s) < npos
    PROVE  FindsWhole(s, n)
<1> DEFINE S == Positions(s, n, 0)
           low == Lower(s)
           needle == Lower(n)
           L == Positions(low, needle, 0)
<1>1. /\ Len(s) \in Nat /\ Len(n) \in Nat /\ npos \in Nat /\ 0 \in Nat
      /\ low \in Seq(Ascii) /\ Len(low) = Len(s) /\ needle \in Seq(Ascii) /\ Len(needle) = Len(n)
  BY LowerIs, TextFacts
<1>2. /\ S = {i \in 0..(Len(s) - Len(n)) : Matches(s, i, n)} /\ S \in SUBSET (0..Len(s))
      /\ Rfind(s, n) = npos <=> S = {}
      /\ S # {} => Rfind(s, n) \in S /\ Rfind(s, n) = Max(S) /\ \A i \in S : i <= Rfind(s, n)
  BY RfindIs
<1>3. Find(s, n, 0) = Naive(s, n, 0)
  BY FindIs
<1> DEFINE r == Naive(s, n, 0)
<1>4. \/ FoundAt(s, n, 0, r) /\ r # npos /\ S # {} /\ r = Min(S) /\ r \in S
      \/ FoundNot(s, n, 0, r) /\ S = {}
  BY <1>1, NaiveIs
<1>5. IsFiniteSet(S) /\ (Cardinality(S) = 0 <=> S = {}) /\ Count(s, n) = Cardinality(S)
  <2>1. IsFiniteSet(0..Len(s))
    BY <1>1, FS_Interval
  <2>2. IsFiniteSet(S)
    BY <1>2, <2>1, FS_Subset
  <2> QED
    BY <2>2, FS_EmptySet DEF Count
<1> HIDE DEF S, L, r, low, needle
<1>6. r = npos <=> S = {}
  BY <1>4 DEF FoundNot
<1>7. ASSUME Count(s, n) = 1 PROVE Rfind(s, n) = r
  <2>1. PICK x : S = {x}
    BY <1>5, <1>7, FS_Singleton
  <2> QED
    BY <2>1, <1>2, <1>4
<1>8. StartsWith(s, n) <=> r = 0
  <2>1. CASE Len(n) <= Len(s)
    <3>1. MatchesAt(s, 0, n) <=> Matches(s, 0, n)
      BY <1>1, <2>1, MatchesAtIs
    <3>2. SubSeq(s, 0 + 1, 0 + Len(n)) = SubSeq(s, 1, Len(n))
      BY <1>1
    <3>3. StartsWith(s, n) <=> Matches(s, 0, n)
      BY <2>1, <3>1, <3>2 DEF StartsWith, MatchesAt
    <3>4. ASSUME Matches(s, 0, n) PROVE r = 0
      <4>1. 0 \in S
        BY <3>4, <1>1, <1>2, <2>1
      <4>2. FoundAt(s, n, 0, r)
        BY <4>1, <1>4
      <4>3. r \in Nat /\ ~(0 \in 0..(r - 1))
        BY <3>4, <4>2 DEF FoundAt
      <4> QED
        BY <4>3
    <3>5. ASSUME r = 0 PROVE Matches(s, 0, n)
      <4>1. FoundAt(s, n, 0, r)
        BY <3>5, <1>1, <1>4 DEF FoundNot
      <4> QED
        BY <3>5, <4>1 DEF FoundAt
    <3> QED
      BY <3>3, <3>4, <3>5
  <2>2. CASE ~(Len(n) <= Len(s))
    <3>1. S = {}
      BY <1>1, <1>2, <2>2
    <3> QED
      BY <3>1, <1>1, <1>6, <2>2 DEF StartsWith
  <2> QED
    BY <2>1, <2>2
<1>9. EndsWith(s, n) <=> Len(n) <= Len(s) /\ Rfind(s, n) = Len(s) - Len(n)
  <2>1. CASE Len(n) <= Len(s)
    <3> DEFINE e == Len(s) - Len(n)
    <3>1. e \in Nat /\ e + Len(n) = Len(s) /\ e # npos
      BY <1>1, <2>1
    <3>2. Len(s) - Len(n) + 1 = e + 1
      OBVIOUS
    <3>3. EndsWith(s, n) <=> MatchesAt(s, e, n)
      BY <2>1, <3>1, <3>2 DEF EndsWith, MatchesAt
    <3> HIDE DEF e
    <3>4. MatchesAt(s, e, n) <=> Matches(s, e, n)
      BY <1>1, <3>1, MatchesAtIs
    <3>5. e \in S <=> Matches(s, e, n)
      BY <1>1, <1>2, <3>1
    <3>6. ASSUME e \in S PROVE Rfind(s, n) = e
      <4>1. Rfind(s, n) \in S /\ e <= Rfind(s, n)
        BY <3>6, <1>2
      <4>2. Rfind(s, n) \in Nat /\ Rfind(s, n) <= Len(s) - Len(n)
        BY <4>1, <1>1, <1>2
      <4> QED
        BY <4>1, <4>2, <3>1, <1>1
    <3>7. ASSUME Rfind(s, n) = e PROVE e \in S
      BY <3>7, <1>2, <3>1
    <3> QED
      BY <2>1, <3>3, <3>4, <3>5, <3>6, <3>7 DEF e
  <2>2. CASE ~(Len(n) <= Len(s))
    BY <1>1, <2>2 DEF EndsWith
  <2> QED
    BY <2>1, <2>2
<1>10. RfindIgnoreCase(s, n) = npos <=> L = {}
  BY <1>1, RfindIs DEF RfindIgnoreCase, L, low, needle
<1>11. FindIgnoreCase(s, n, 0) = npos <=> L = {}
  <2>1. MinOf(0, Len(s)) = 0
    BY <1>1 DEF MinOf
  <2>2. FindIgnoreCase(s, n, 0) = IF L = {} THEN npos ELSE 0 + Min(L) - 0
    BY <2>1 DEF FindIgnoreCase, L, low, needle
  <2>3. L \in SUBSET (0..Len(s))
    BY <1>1, RfindIs DEF L
  <2>4. L # {} => Min(L) \in L
    BY <1>1, <2>3, MinIs
  <2>5. L # {} => Min(L) \in 0..Len(s)
    BY <2>3, <2>4
  <2> QED
    BY <2>2, <2>5, <1>1
<1> QED
  BY <1>2, <1>3, <1>5, <1>6, <1>7, <1>8, <1>9, <1>10, <1>11 DEF FindsWhole, r

-----------------------------------------------------------------------------
(* Views.                                                                  *)
Views == {v \in [at : SizeT, len : SizeT] : v.at + v.len <= Len(text)}

LEMMA ViewFacts ==
    ASSUME text \in Texts, NEW v \in Views
    PROVE  /\ v.at \in Nat /\ v.len \in Nat /\ v.at + v.len <= Len(text) /\ v = [at |-> v.at, len |-> v.len]
           /\ Len(text) \in Nat /\ Len(text) < npos /\ npos \in Nat /\ text \in Seq(Ascii)
<1>1. Len(text) \in Nat /\ Len(text) < npos /\ npos \in Nat /\ text \in Seq(Ascii)
  BY TextFacts
<1>2. v \in [at : SizeT, len : SizeT] /\ v.at + v.len <= Len(text)
  BY DEF Views
<1>3. v.at \in Nat /\ v.len \in Nat /\ v = [at |-> v.at, len |-> v.len]
  BY <1>1, <1>2 DEF SizeT
<1> QED
  BY <1>1, <1>2, <1>3

LEMMA ViewIs ==
    ASSUME text \in Texts, NEW a \in Nat, NEW n \in Nat, a + n <= Len(text)
    PROVE  /\ [at |-> a, len |-> n] \in Views
<1>1. Len(text) \in Nat /\ Len(text) < npos /\ npos \in Nat
  BY TextFacts
<1>2. a \in 0..npos /\ n \in 0..npos
  BY <1>1
<1> QED
  BY <1>2 DEF Views, SizeT

LEMMA CharsIs ==
    ASSUME text \in Texts, NEW v \in Views
    PROVE  /\ Chars(v) \in Seq(Ascii) /\ Len(Chars(v)) = v.len
           /\ \A i \in 1..v.len : Chars(v)[i] = text[v.at + i]
<1> DEFINE a == v.at
           n == v.len
<1>1. a \in Nat /\ n \in Nat /\ a + n <= Len(text) /\ text \in Seq(Ascii)
  BY ViewFacts
<1>2. Chars(v) = SubSeq(text, a + 1, a + n)
  BY DEF Chars
<1> HIDE DEF a, n
<1>3. /\ SubSeq(text, a + 1, a + n) \in Seq(Ascii) /\ Len(SubSeq(text, a + 1, a + n)) = n
      /\ \A i \in 1..n : SubSeq(text, a + 1, a + n)[i] = text[a + i]
  BY <1>1, CutIs
<1> QED
  BY <1>2, <1>3 DEF a, n

LEMMA SubstrIs ==
    ASSUME text \in Texts, NEW v \in Views, NEW start \in Nat, NEW n \in Nat
    PROVE  LET from == MinOf(start, v.len)
               r == Substr(v, start, n)
           IN  r \in Views /\ r.at = v.at + from /\ r.len = MinOf(n, v.len - from) /\ from \in 0..v.len
<1>1. v.at \in Nat /\ v.len \in Nat /\ v.at + v.len <= Len(text) /\ Len(text) \in Nat
  BY ViewFacts
<1> DEFINE from == MinOf(start, v.len)
           len == MinOf(n, v.len - from)
<1>2. from \in Nat /\ from <= v.len
  BY <1>1 DEF MinOf
<1> HIDE DEF from
<1>3. len \in Nat /\ len <= v.len - from
  BY <1>1, <1>2 DEF MinOf
<1> HIDE DEF len
<1>4. v.at + from \in Nat /\ (v.at + from) + len <= Len(text)
  BY <1>1, <1>2, <1>3
<1>5. [at |-> v.at + from, len |-> len] \in Views
  BY <1>3, <1>4, ViewIs
<1>6. Substr(v, start, n) = [at |-> v.at + from, len |-> len]
  BY DEF Substr, from, len
<1>7. from \in 0..v.len
  BY <1>1, <1>2
<1> QED
  BY <1>5, <1>6, <1>7 DEF from, len

LEMMA WrapIs ==
    ASSUME NEW n \in 0..npos
    PROVE  Wrap(n) = n
<1>1. npos \in Nat /\ n \in Int /\ 0 <= n /\ n < npos + 1
  BY TextFacts
<1> QED
  BY <1>1 DEF Wrap

LEMMA SliceIs ==
    ASSUME text \in Texts, NEW v \in Views, NEW start \in Nat, NEW end \in Nat
    PROVE  LET from == MinOf(start, v.len)
               r == Slice(v, start, end)
           IN  /\ r \in Views /\ r.at = v.at + from
               /\ r.len = MinOf(MaxOf(from, end), v.len) - from
<1>1. /\ v.at \in Nat /\ v.len \in Nat /\ v.at + v.len <= Len(text) /\ Len(text) \in Nat
      /\ Len(text) < npos /\ npos \in Nat
  BY ViewFacts
<1> DEFINE from == MinOf(start, v.len)
           len == MinOf(MaxOf(from, end), v.len) - from
<1>2. from \in Nat /\ from <= v.len
  BY <1>1 DEF MinOf
<1> HIDE DEF from
<1>3. len \in Nat /\ len <= v.len - from
  BY <1>1, <1>2 DEF MinOf, MaxOf
<1>4. Slice(v, start, end) = [at |-> v.at + from, len |-> Wrap(len)]
  BY DEF Slice, from
<1> HIDE DEF len
<1>5. Wrap(len) = len
  <2>1. len \in 0..npos
    BY <1>1, <1>2, <1>3
  <2> QED
    BY <2>1, WrapIs
<1>6. v.at + from \in Nat /\ (v.at + from) + len <= Len(text)
  BY <1>1, <1>2, <1>3
<1>7. [at |-> v.at + from, len |-> len] \in Views
  BY <1>3, <1>6, ViewIs
<1> QED
  BY <1>4, <1>5, <1>7 DEF from, len

(* The searches give an index or npos.                                     *)
LEMMA FirstFromIs ==
    ASSUME NEW s \in Seq(Ascii), NEW start \in Nat, NEW set, Len(s) < npos
    PROVE  LET r == FirstFrom(s, start, set)
           IN  /\ r \in Nat
               /\ \/ r = npos /\ \A i \in start..(Len(s) - 1) : ~(s[i + 1] \in set)
                  \/ r \in start..(Len(s) - 1) /\ s[r + 1] \in set /\ r # npos
<1> DEFINE H == {i \in start..(Len(s) - 1) : s[i + 1] \in set}
           r == FirstFrom(s, start, set)
<1>1. npos \in Nat /\ H \in SUBSET Nat /\ Len(s) \in Nat
  BY TextFacts
<1>2. r = IF H = {} THEN npos ELSE Min(H)
  BY DEF FirstFrom
<1>3. CASE H = {}
  <2>1. ASSUME NEW i \in start..(Len(s) - 1), s[i + 1] \in set PROVE FALSE
    <3>1. i \in H
      BY <2>1
    <3> QED
      BY <3>1, <1>3
  <2>2. r = npos
    BY <1>2, <1>3
  <2> HIDE DEF H, r
  <2> QED
    BY <2>1, <2>2, <1>1 DEF r
<1>4. CASE H # {}
  <2> HIDE DEF H, r
  <2>1. r \in H
    BY <1>1, <1>2, <1>4, MinIs
  <2>2. r \in start..(Len(s) - 1) /\ s[r + 1] \in set
    BY <2>1 DEF H
  <2>3. r \in Nat /\ r # npos
    BY <2>2, <1>1
  <2> QED
    BY <2>2, <2>3 DEF r
<1> QED
  BY <1>3, <1>4

LEMMA LastFromIs ==
    ASSUME NEW s, NEW last \in 0..npos, NEW set
    PROVE  LET r == LastFrom(s, last, set)
           IN  /\ r \in 0..npos
               /\ \/ r = npos /\ (last = npos \/ \A i \in 0..last : s[i + 1] \notin set)
                  \/ r \in 0..last /\ last # npos /\ s[r + 1] \in set
<1> DEFINE H == {i \in 0..last : s[i + 1] \in set}
           r == LastFrom(s, last, set)
<1>1. npos \in Nat /\ last \in Nat /\ last <= npos /\ H \in SUBSET (0..last)
  BY TextFacts
<1>2. r = IF last = npos \/ H = {} THEN npos ELSE Max(H)
  BY DEF LastFrom
<1>3. CASE last = npos \/ H = {}
  <2>1. r = npos
    BY <1>2, <1>3
  <2>2. H = {} => \A i \in 0..last : ~(s[i + 1] \in set)
    OBVIOUS
  <2> HIDE DEF H, r
  <2> QED
    BY <2>1, <2>2, <1>1, <1>3 DEF r
<1>4. CASE ~(last = npos \/ H = {})
  <2> HIDE DEF H, r
  <2>1. r \in H
    BY <1>1, <1>2, <1>4, MaxIs
  <2>2. r \in 0..last /\ s[r + 1] \in set
    BY <2>1 DEF H
  <2> QED
    BY <2>2, <1>1, <1>4 DEF r
<1> QED
  BY <1>3, <1>4

LEMMA FindTyped ==
    ASSUME NEW s \in Seq(Ascii), NEW needle \in Seq(Ascii), Len(s) < npos
    PROVE  /\ Find(s, needle, 0) \in Nat /\ Rfind(s, needle) \in Nat
<1>1. 0 \in Nat /\ npos \in Nat /\ Len(s) \in Nat
  BY TextFacts
<1>2. Find(s, needle, 0) \in Nat
  BY <1>1, FindIs, NaiveIs DEF FoundAt, FoundNot
<1>3. Rfind(s, needle) \in Nat
  <2> DEFINE S == Positions(s, needle, 0)
  <2>1. /\ Rfind(s, needle) = npos <=> S = {}
        /\ S # {} => Rfind(s, needle) \in S
        /\ S \in SUBSET (0..Len(s))
    BY RfindIs
  <2> HIDE DEF S
  <2>2. CASE S = {}
    BY <2>1, <2>2, <1>1
  <2>3. CASE S # {}
    <3>1. Rfind(s, needle) \in 0..Len(s)
      BY <2>1, <2>3
    <3> QED
      BY <3>1, <1>1
  <2> QED
    BY <2>2, <2>3
<1> QED
  BY <1>2, <1>3

(* The operations that cut.                                                *)
LEMMA DropFrontIs ==
    ASSUME text \in Texts, NEW v \in Views, NEW n \in Nat
    PROVE  LET r == DropFront(v, n)
           IN  /\ r \in Views /\ r.at = v.at + MinOf(n, v.len) /\ r.len = v.len - MinOf(n, v.len)
<1>1. /\ v.at \in Nat /\ v.len \in Nat /\ v.at + v.len <= Len(text) /\ Len(text) < npos
      /\ npos \in Nat /\ Len(text) \in Nat
  BY ViewFacts
<1> DEFINE from == MinOf(n, v.len)
           r == DropFront(v, n)
<1>2. r = Substr(v, n, npos)
  BY DEF DropFront
<1>3. r \in Views /\ r.at = v.at + from /\ r.len = MinOf(npos, v.len - from) /\ from \in 0..v.len
  <2> DEFINE big == npos
  <2>1. big \in Nat
    BY <1>1
  <2> HIDE DEF big
  <2>2. /\ Substr(v, n, big) \in Views /\ Substr(v, n, big).at = v.at + MinOf(n, v.len)
        /\ Substr(v, n, big).len = MinOf(big, v.len - MinOf(n, v.len)) /\ MinOf(n, v.len) \in 0..v.len
    BY <2>1, SubstrIs
  <2>3. r = Substr(v, n, big)
    BY <1>2 DEF big
  <2> HIDE DEF r
  <2> QED
    BY <2>2, <2>3 DEF big
<1> HIDE DEF from, r
<1>4. ~(npos < v.len - from)
  BY <1>1, <1>3
<1> QED
  BY <1>3, <1>4, <1>1 DEF MinOf, from, r

LEMMA DropBackIs ==
    ASSUME text \in Texts, NEW v \in Views, NEW n \in 0..v.len
    PROVE  LET r == DropBack(v, n)
           IN  r \in Views /\ r.at = v.at /\ r.len = v.len - n
<1>1. /\ v.at \in Nat /\ v.len \in Nat /\ 0 \in Nat /\ v.len - n \in Nat /\ n \in Nat
  BY ViewFacts
<1> DEFINE r == DropBack(v, n)
           k == v.len - n
<1>2. r = Substr(v, 0, k)
  BY DEF DropBack
<1>3. k \in Nat /\ k <= v.len
  BY <1>1
<1> HIDE DEF r, k
<1>4. MinOf(0, v.len) = 0
  BY <1>1 DEF MinOf
<1>5. r \in Views /\ r.at = v.at + 0 /\ r.len = MinOf(k, v.len - 0)
  <2> DEFINE none == 0
  <2>1. none \in Nat
    OBVIOUS
  <2> HIDE DEF none
  <2>2. /\ Substr(v, none, k) \in Views /\ Substr(v, none, k).at = v.at + MinOf(none, v.len)
        /\ Substr(v, none, k).len = MinOf(k, v.len - MinOf(none, v.len))
    BY <1>3, <2>1, SubstrIs
  <2> QED
    BY <1>2, <1>4, <2>2 DEF none
<1>6. MinOf(k, v.len - 0) = k
  BY <1>1, <1>3 DEF MinOf
<1> QED
  BY <1>5, <1>6, <1>1 DEF r, k

LEMMA TakesAreViews ==
    ASSUME text \in Texts, NEW v \in Views, NEW n \in Nat
    PROVE  TakeFront(v, n) \in Views /\ TakeBack(v, n) \in Views
<1>1. v.len \in Nat
  BY ViewFacts
<1>2. CASE n >= v.len
  BY <1>2 DEF TakeFront, TakeBack
<1>3. CASE ~(n >= v.len)
  <2>1. v.len - n \in 0..v.len /\ v.len - n \in Nat
    BY <1>1, <1>3
  <2>2. DropBack(v, v.len - n) \in Views /\ DropFront(v, v.len - n) \in Views
    BY <2>1, DropBackIs, DropFrontIs
  <2> QED
    BY <1>3, <2>2 DEF TakeFront, TakeBack
<1> QED
  BY <1>2, <1>3

LEMMA ViewOfChars ==
    ASSUME text \in Texts, NEW v \in Views
    PROVE  /\ v.len \in Nat /\ npos \in Nat /\ 0 \in Nat /\ v.len < npos
           /\ Chars(v) \in Seq(Ascii) /\ Len(Chars(v)) = v.len /\ Len(Chars(v)) < npos
<1>1. /\ v.at \in Nat /\ v.len \in Nat /\ v.at + v.len <= Len(text) /\ Len(text) < npos
      /\ npos \in Nat /\ Len(text) \in Nat
  BY ViewFacts
<1> QED
  BY <1>1, CharsIs

LEMMA LtrimIs ==
    ASSUME text \in Texts, NEW v \in Views, NEW set
    PROVE  LET r == Ltrim(v, set)
               i == MinOf(v.len, FindFirstNotOf(Chars(v), set, 0))
           IN  /\ r \in Views /\ i \in 0..v.len /\ r.at = v.at + i /\ r.len = v.len - i
               /\ i < v.len => text[r.at + 1] \notin set
<1> DEFINE s == Chars(v)
           f == FindFirstNotOf(s, set, 0)
           i == MinOf(v.len, f)
           r == Ltrim(v, set)
<1>1. /\ v.len \in Nat /\ npos \in Nat /\ v.len < npos
      /\ s \in Seq(Ascii) /\ Len(s) = v.len /\ Len(s) < npos /\ 0 \in Nat
  BY ViewOfChars
<1>2. \A k \in 1..v.len : s[k] = text[v.at + k]
  BY CharsIs
<1> HIDE DEF s
<1>3. MinOf(0, Len(s)) = 0
  BY <1>1 DEF MinOf
<1>4. f = FirstFrom(s, 0, Ascii \ set)
  BY <1>3 DEF FindFirstNotOf
<1>5. /\ f \in Nat
      /\ f = npos \/ (f \in 0..(Len(s) - 1) /\ s[f + 1] \in Ascii \ set)
  <2> DEFINE R == Ascii \ set
  <2> HIDE DEF R
  <2>1. f = FirstFrom(s, 0, R)
    BY <1>4 DEF R
  <2>2. f \in Nat /\ (f = npos \/ (f \in 0..(Len(s) - 1) /\ s[f + 1] \in R))
    BY <1>1, <2>1, FirstFromIs
  <2> QED
    BY <2>2 DEF R
<1> HIDE DEF f
<1>6. i \in Nat /\ i <= v.len /\ (i < v.len => i = f)
  BY <1>1, <1>5 DEF MinOf
<1>7. r = DropFront(v, i)
  BY DEF Ltrim, i, f, s, r
<1> HIDE DEF i, r
<1>8. MinOf(i, v.len) = i
  BY <1>1, <1>6 DEF MinOf
<1>9. r \in Views /\ r.at = v.at + i /\ r.len = v.len - i
  BY <1>6, <1>7, <1>8, DropFrontIs
<1>10. ASSUME i < v.len PROVE text[r.at + 1] \notin set
  <2>1. i = f /\ f # npos /\ f + 1 \in 1..v.len
    BY <1>1, <1>5, <1>6, <1>10
  <2>2. s[f + 1] \notin set /\ s[f + 1] = text[v.at + (f + 1)]
    BY <2>1, <1>2, <1>5
  <2>3. v.at + (f + 1) = r.at + 1
    BY SMTT(60), <2>1, <1>9, <1>5, ViewFacts
  <2> QED
    BY <2>2, <2>3
<1>11. i \in 0..v.len
  BY <1>1, <1>6
<1> QED
  BY <1>9, <1>10, <1>11 DEF i, f, s, r

LEMMA RtrimIs ==
    ASSUME text \in Texts, NEW v \in Views, NEW set
    PROVE  LET r == Rtrim(v, set)
           IN  /\ r \in Views /\ r.at = v.at /\ r.len <= v.len
               /\ r.len > 0 => text[r.at + r.len] \notin set
<1> DEFINE s == Chars(v)
           f == FindLastNotOf(s, set, npos)
           n == MinOf(v.len, Wrap(f + 1))
           r == Rtrim(v, set)
           R == Ascii \ set
<1>1. /\ v.len \in Nat /\ npos \in Nat /\ v.len < npos
      /\ s \in Seq(Ascii) /\ Len(s) = v.len /\ Len(s) < npos
  BY ViewOfChars
<1>2. \A k \in 1..v.len : s[k] = text[v.at + k]
  BY CharsIs
<1> HIDE DEF s
<1> DEFINE last == Wrap(v.len - 1)
<1>3. last = (IF v.len = 0 THEN npos ELSE v.len - 1) /\ last \in 0..npos
  <2>1. CASE v.len = 0
    <3>1. (0 - 1) % (npos + 1) = npos
      BY <1>1
    <3> QED
      BY <2>1, <3>1, <1>1 DEF Wrap
  <2>2. CASE v.len # 0
    <3>1. v.len - 1 \in 0..npos
      BY <1>1, <2>2
    <3> QED
      BY <2>2, <3>1, WrapIs
  <2> QED
    BY <2>1, <2>2
<1>4. MinOf(npos, Len(s)) = v.len
  BY <1>1 DEF MinOf
<1>5. f = LastFrom(s, last, R)
  BY <1>4 DEF FindLastNotOf
<1> HIDE DEF last, R
<1>6. f \in 0..npos /\ (f = npos \/ (f \in 0..last /\ last # npos /\ s[f + 1] \in R))
  <2>1. LET x == LastFrom(s, last, R)
        IN  x \in 0..npos /\ (x = npos \/ (x \in 0..last /\ last # npos /\ s[x + 1] \in R))
    BY <1>3, LastFromIs
  <2> HIDE DEF f
  <2> QED
    BY <1>5, <2>1
<1> HIDE DEF f
<1>7. Wrap(f + 1) = IF f = npos THEN 0 ELSE f + 1
  <2>1. CASE f = npos
    <3>1. (npos + 1) % (npos + 1) = 0
      BY <1>1
    <3> QED
      BY <2>1, <3>1 DEF Wrap
  <2>2. CASE f # npos
    <3>1. f + 1 \in 0..npos
      BY <1>1, <1>6, <2>2
    <3> QED
      BY <2>2, <3>1, WrapIs
  <2> QED
    BY <2>1, <2>2
<1>8. n \in Nat /\ n <= v.len /\ (n > 0 => n = f + 1 /\ f # npos)
  BY <1>1, <1>3, <1>6, <1>7 DEF MinOf
<1>9. r = DropBack(v, v.len - n)
  BY DEF Rtrim, n, f, s, r
<1> HIDE DEF n, r
<1>10. v.len - n \in 0..v.len
  BY <1>1, <1>8
<1>11. r \in Views /\ r.at = v.at /\ r.len = v.len - (v.len - n)
  BY <1>9, <1>10, DropBackIs
<1>12. r.len = n
  BY <1>1, <1>8, <1>11
<1>13. ASSUME n > 0 PROVE text[r.at + r.len] \notin set
  <2>1. n = f + 1 /\ f # npos /\ f + 1 \in 1..v.len
    BY <1>1, <1>8, <1>13
  <2>2. s[f + 1] \in R /\ s[f + 1] = text[v.at + (f + 1)]
    BY <2>1, <1>2, <1>6
  <2> QED
    BY <2>1, <2>2, <1>11, <1>12 DEF R
<1> QED
  BY <1>8, <1>11, <1>12, <1>13 DEF r

(* Views are what every operation of SrNext makes.                         *)
LEMMA FindIfIs ==
    ASSUME text \in Texts, NEW v \in Views, NEW set
    PROVE  FindIf(Chars(v), set, 0) \in Nat
<1> DEFINE s == Chars(v)
<1>1. s \in Seq(Ascii) /\ Len(s) < npos /\ 0 \in Nat
  BY ViewOfChars
<1> HIDE DEF s
<1>2. FirstFrom(s, 0, set) \in Nat
  BY <1>1, FirstFromIs
<1> QED
  BY <1>2 DEF FindIf, s

LEMMA StripsAreViews ==
    ASSUME text \in Texts, NEW v \in Views, NEW set
    PROVE  /\ Ltrim(v, set) \in Views /\ Rtrim(v, set) \in Views /\ Trim(v, set) \in Views
           /\ TakeWhile(v, set) \in Views /\ TakeUntil(v, set) \in Views
           /\ DropWhile(v, set) \in Views /\ DropUntil(v, set) \in Views
<1>1. Ltrim(v, set) \in Views
  BY LtrimIs
<1>2. Rtrim(v, set) \in Views /\ Trim(v, set) \in Views
  BY <1>1, RtrimIs DEF Trim
<1> DEFINE R == Ascii \ set
<1>3. FindIf(Chars(v), set, 0) \in Nat /\ FindIf(Chars(v), R, 0) \in Nat /\ npos \in Nat /\ 0 \in Nat
  BY FindIfIs, TextFacts
<1> DEFINE a == FindIf(Chars(v), set, 0)
           b == FindIf(Chars(v), R, 0)
<1> HIDE DEF a, b
<1>4. a \in Nat /\ b \in Nat
  BY <1>3 DEF a, b
<1>5. \A m, n \in Nat : Substr(v, m, n) \in Views
  BY SubstrIs
<1>6. /\ TakeWhile(v, set) = Substr(v, 0, b) /\ TakeUntil(v, set) = Substr(v, 0, a)
      /\ DropWhile(v, set) = Substr(v, b, npos) /\ DropUntil(v, set) = Substr(v, a, npos)
  BY DEF TakeWhile, TakeUntil, DropWhile, DropUntil, a, b
<1> QED
  BY <1>1, <1>2, <1>3, <1>4, <1>5, <1>6

LEMMA PairsAreViews ==
    ASSUME text \in Texts, NEW v \in Views, NEW separator \in Seq(Ascii), NEW half \in {1, 2}
    PROVE  SplitPair(v, separator)[half] \in Views /\ RsplitPair(v, separator)[half] \in Views
<1> DEFINE s == Chars(v)
<1>1. s \in Seq(Ascii) /\ Len(s) < npos /\ npos \in Nat /\ 0 \in Nat /\ Len(separator) \in Nat
  BY ViewOfChars
<1>2. \A m, n \in Nat : Slice(v, m, n) \in Views
  BY SliceIs
<1>3. [at |-> v.at, len |-> 0] \in Views
  <2>1. /\ v.at \in Nat /\ v.len \in Nat /\ v.at + v.len <= Len(text) /\ Len(text) \in Nat
    BY ViewFacts
  <2> DEFINE a == v.at
             none == 0
  <2>2. a \in Nat /\ none \in Nat /\ a + none <= Len(text)
    BY <2>1
  <2> HIDE DEF a, none
  <2>3. [at |-> a, len |-> none] \in Views
    BY <2>2, ViewIs
  <2> QED
    BY <2>3 DEF a, none
<1>4. ASSUME NEW i \in Nat PROVE Around(v, i, separator)[half] \in Views
  <2>1. CASE i = npos
    <3>1. Around(v, i, separator) = <<v, [at |-> v.at, len |-> 0]>>
      BY <2>1 DEF Around
    <3> QED
      BY <3>1, <1>3
  <2>2. CASE i # npos
    <3>1. i + Len(separator) \in Nat
      BY <1>1
    <3>2. Slice(v, 0, i) \in Views /\ Slice(v, i + Len(separator), npos) \in Views
      BY <3>1, <1>1, <1>2
    <3>3. Around(v, i, separator) = <<Slice(v, 0, i), Slice(v, i + Len(separator), npos)>>
      BY <2>2 DEF Around
    <3> QED
      BY <3>2, <3>3
  <2> QED
    BY <2>1, <2>2
<1> HIDE DEF s
<1>5. Find(s, separator, 0) \in Nat /\ Rfind(s, separator) \in Nat
  BY <1>1, FindTyped
<1> QED
  BY <1>4, <1>5 DEF SplitPair, RsplitPair, s

(* A view cut in three: before i, m characters from there, and the rest.   *)
LEMMA SlicesAround ==
    ASSUME text \in Texts, NEW v \in Views, NEW i \in Nat, NEW m \in Nat, i + m <= v.len
    PROVE  /\ Slice(v, 0, i) \in Views /\ Slice(v, 0, i).at = v.at /\ Slice(v, 0, i).len = i
           /\ Slice(v, i + m, npos) \in Views /\ Slice(v, i + m, npos).at = v.at + (i + m)
           /\ Slice(v, i + m, npos).len = v.len - (i + m)
<1> DEFINE none == 0
           big == npos
           b == i + m
<1>1. /\ v.len \in Nat /\ v.at \in Nat /\ big \in Nat /\ none \in Nat /\ v.len < big
  BY ViewOfChars, ViewFacts
<1>2. none = 0 /\ b \in Nat /\ b <= v.len /\ i <= b
  BY <1>1
<1> HIDE DEF none, big, b
<1>3. MinOf(none, v.len) = 0 /\ MaxOf(0, i) = i /\ MinOf(i, v.len) = i
  BY <1>1, <1>2 DEF MinOf, MaxOf
<1>4. MinOf(b, v.len) = b /\ MaxOf(b, big) = big /\ MinOf(big, v.len) = v.len
  BY <1>1, <1>2 DEF MinOf, MaxOf
<1> DEFINE l == Slice(v, none, i)
           r == Slice(v, b, big)
<1>5. /\ l \in Views /\ l.at = v.at + MinOf(none, v.len)
      /\ l.len = MinOf(MaxOf(MinOf(none, v.len), i), v.len) - MinOf(none, v.len)
  BY <1>1, SliceIs
<1>6. /\ r \in Views /\ r.at = v.at + MinOf(b, v.len)
      /\ r.len = MinOf(MaxOf(MinOf(b, v.len), big), v.len) - MinOf(b, v.len)
  BY <1>1, <1>2, SliceIs
<1> HIDE DEF l, r
<1>7. l.at = v.at /\ l.len = i
  BY <1>1, <1>2, <1>3, <1>5
<1>8. r.at = v.at + b /\ r.len = v.len - b
  BY <1>1, <1>2, <1>4, <1>6
<1> QED
  BY <1>5, <1>6, <1>7, <1>8, <1>2 DEF l, r, none, b, big

(* One turn of split: what is left of the view, and the pieces so far.     *)
KeptPiece(piece, keep_empty) == IF keep_empty \/ piece.len > 0 THEN <<piece>> ELSE <<>>
SplitStates == [str : Views, result : Seq(Views)]
SplitTurn(t, separator, keep_empty) ==
    LET index == Find(Chars(t.str), separator, 0)
    IN  IF index = npos THEN t
        ELSE [str |-> Slice(t.str, index + Len(separator), npos),
              result |-> t.result \o KeptPiece(Slice(t.str, 0, index), keep_empty)]
SplitTurns(g, turns, v, separator, keep_empty) ==
    /\ g[0] = [str |-> v, result |-> <<>>]
    /\ \A i \in 1..turns : g[i] = SplitTurn(g[i - 1], separator, keep_empty)
TurnsOf(v, max_split) == IF max_split < 0 THEN v.len ELSE max_split

LEMMA SplitTurnTyped ==
    ASSUME text \in Texts, NEW t \in SplitStates, NEW separator \in Seq(Ascii), NEW keep_empty \in BOOLEAN
    PROVE  SplitTurn(t, separator, keep_empty) \in SplitStates
<1> DEFINE index == Find(Chars(t.str), separator, 0)
<1>1. t.str \in Views /\ t.result \in Seq(Views)
  BY DEF SplitStates
<1>2. index \in Nat /\ Len(separator) \in Nat /\ npos \in Nat /\ 0 \in Nat
  <2> DEFINE s == Chars(t.str)
  <2>1. s \in Seq(Ascii) /\ Len(s) < npos
    BY <1>1, ViewOfChars
  <2> HIDE DEF s
  <2>2. Find(s, separator, 0) \in Nat
    BY <2>1, FindTyped
  <2> QED
    BY <2>2, TextFacts DEF s
<1> HIDE DEF index
<1> DEFINE l == Slice(t.str, 0, index)
           r == Slice(t.str, index + Len(separator), npos)
<1>3. l \in Views /\ r \in Views
  <2> DEFINE b == index + Len(separator)
             str == t.str
  <2>1. b \in Nat
    BY <1>2
  <2> HIDE DEF b
  <2>2. str \in Views
    BY <1>1
  <2> HIDE DEF str
  <2>3. \A m, n \in Nat : Slice(str, m, n) \in Views
    BY <2>2, SliceIs
  <2> QED
    BY <1>2, <2>1, <2>3 DEF b, str
<1> HIDE DEF l, r
<1>4. KeptPiece(l, keep_empty) \in Seq(Views)
  BY <1>3 DEF KeptPiece
<1>5. t.result \o KeptPiece(l, keep_empty) \in Seq(Views)
  BY <1>1, <1>4, ConcatFacts DEF ConcatIs
<1>6. [str |-> r, result |-> t.result \o KeptPiece(l, keep_empty)] \in SplitStates
  BY <1>3, <1>5 DEF SplitStates
<1> QED
  BY <1>6 DEF SplitTurn, index, l, r

LEMMA SplitTurnsExist ==
    ASSUME text \in Texts, NEW v \in Views, NEW turns \in Nat, NEW separator \in Seq(Ascii),
           NEW keep_empty \in BOOLEAN
    PROVE  \E g \in [0..turns -> SplitStates] : SplitTurns(g, turns, v, separator, keep_empty)
<1> DEFINE step == [p \in (1..turns) \X SplitStates |-> SplitTurn(p[2], separator, keep_empty)]
           start == [str |-> v, result |-> <<>>]
<1>1. step \in [(1..turns) \X SplitStates -> SplitStates]
  BY SplitTurnTyped
<1>2. start \in SplitStates
  BY DEF SplitStates
<1> HIDE DEF step, start
<1>3. PICK g \in [0..turns -> SplitStates] : Computes(g, turns, start, step)
  BY <1>1, <1>2, RecursionExists
<1>4. ASSUME NEW i \in 1..turns PROVE g[i] = SplitTurn(g[i - 1], separator, keep_empty)
  <2>0. i - 1 \in 0..turns
    OBVIOUS
  <2>1. g[i - 1] \in SplitStates /\ <<i, g[i - 1]>> \in (1..turns) \X SplitStates
    BY <2>0
  <2>2. step[<<i, g[i - 1]>>] = SplitTurn(g[i - 1], separator, keep_empty)
    BY <2>1 DEF step
  <2> QED
    BY <1>3, <2>2 DEF Computes
<1> QED
  BY <1>3, <1>4 DEF Computes, SplitTurns, start

LEMMA SplitIs ==
    ASSUME text \in Texts, NEW v \in Views, NEW separator \in Seq(Ascii), NEW max_split \in Int,
           NEW keep_empty \in BOOLEAN,
           NEW g \in [0..TurnsOf(v, max_split) -> SplitStates],
           SplitTurns(g, TurnsOf(v, max_split), v, separator, keep_empty)
    PROVE  Split(v, separator, max_split, keep_empty)
             = g[TurnsOf(v, max_split)].result \o KeptPiece(g[TurnsOf(v, max_split)].str, keep_empty)
<1> DEFINE n == TurnsOf(v, max_split)
           D == 0..n
           kept(piece) == IF keep_empty \/ piece.len > 0 THEN <<piece>> ELSE <<>>
           turn == CHOOSE f : f = [i \in D |->
              IF i = 0 THEN [str |-> v, result |-> <<>>]
              ELSE LET t == f[i - 1]
                       index == Find(Chars(t.str), separator, 0)
                   IN  IF index = npos THEN t
                       ELSE [str |-> Slice(t.str, index + Len(separator), npos),
                             result |-> t.result \o kept(Slice(t.str, 0, index))]]
           short == CHOOSE f : f = [i \in D |-> IF i = 0 THEN [str |-> v, result |-> <<>>]
                                                  ELSE SplitTurn(f[i - 1], separator, keep_empty)]
<1>1. n \in Nat
  BY ViewFacts DEF TurnsOf
<1>2. turn = short
  BY DEF SplitTurn, KeptPiece
<1>3. Split(v, separator, max_split, keep_empty) = turn[n].result \o KeptPiece(turn[n].str, keep_empty)
  BY DEF Split, TurnsOf, KeptPiece
<1> HIDE DEF turn
<1>4. g = [i \in D |-> IF i = 0 THEN [str |-> v, result |-> <<>>]
                        ELSE SplitTurn(g[i - 1], separator, keep_empty)]
  <2>1. ASSUME NEW i \in D
        PROVE  g[i] = IF i = 0 THEN [str |-> v, result |-> <<>>]
                      ELSE SplitTurn(g[i - 1], separator, keep_empty)
    <3>1. i # 0 => i \in 1..n
      BY <1>1
    <3> QED
      BY <3>1 DEF SplitTurns
  <2> HIDE DEF D
  <2>2. g \in [D -> SplitStates]
    BY DEF D
  <2> QED
    BY <2>1, <2>2
<1>5. short = [i \in D |-> IF i = 0 THEN [str |-> v, result |-> <<>>]
                            ELSE SplitTurn(short[i - 1], separator, keep_empty)]
  <2> HIDE DEF D
  <2> QED
    BY <1>4
<1> HIDE DEF short, n
<1> DEFINE T == {m \in 0..n : short[m] = g[m]}
<1>6. \A m \in 0..n : m \in T
  <2>1. 0 \in T
    <3>1. 0 \in D /\ 0 \in 0..n
      BY <1>1
    <3>2. short[0] = [str |-> v, result |-> <<>>]
      BY <3>1, <1>5
    <3> QED
      BY <3>1, <3>2 DEF SplitTurns
  <2>2. ASSUME NEW m \in 0..n, m < n, m \in T PROVE m + 1 \in T
    <3>1. m + 1 \in D /\ m + 1 # 0 /\ (m + 1) - 1 = m /\ m + 1 \in 1..n /\ m + 1 \in 0..n
      BY <1>1, <2>2
    <3>2. short[m] = g[m]
      BY <2>2
    <3> HIDE DEF T
    <3> DEFINE k == m + 1
    <3>3. k \in D /\ k # 0 /\ k - 1 = m /\ k \in 1..n
      BY <3>1
    <3> HIDE DEF k, D
    <3>4. short[k] = SplitTurn(short[k - 1], separator, keep_empty)
      BY <3>3, <1>5
    <3>5. g[k] = SplitTurn(g[k - 1], separator, keep_empty)
      BY <3>3 DEF SplitTurns, n
    <3>6. short[k] = g[k]
      BY <3>2, <3>3, <3>4, <3>5
    <3> QED
      BY <3>1, <3>6 DEF T, k
  <2> HIDE DEF T
  <2> QED
    BY <1>1, <2>1, <2>2, InductUpTo
<1>7. short[n] = g[n]
  <2>1. n \in 0..n
    BY <1>1
  <2> QED
    BY <1>6, <2>1
<1> QED
  BY <1>2, <1>3, <1>7 DEF n

LEMMA SplitTyped ==
    ASSUME text \in Texts, NEW v \in Views, NEW separator \in Seq(Ascii), NEW max_split \in Int,
           NEW keep_empty \in BOOLEAN
    PROVE  Split(v, separator, max_split, keep_empty) \in Seq(Views)
<1> DEFINE n == TurnsOf(v, max_split)
<1>1. n \in Nat
  BY ViewFacts DEF TurnsOf
<1>2. PICK g \in [0..n -> SplitStates] : SplitTurns(g, n, v, separator, keep_empty)
  <2> HIDE DEF n
  <2> QED
    BY <1>1, SplitTurnsExist
<1>3. Split(v, separator, max_split, keep_empty) = g[n].result \o KeptPiece(g[n].str, keep_empty)
  BY <1>2, SplitIs
<1> HIDE DEF n
<1>4. g[n] \in SplitStates
  <2>1. n \in 0..n
    BY <1>1
  <2> QED
    BY <2>1
<1> DEFINE t == g[n]
<1> HIDE DEF t
<1>5. t.result \in Seq(Views) /\ t.str \in Views
  BY <1>4 DEF SplitStates, t
<1>6. KeptPiece(t.str, keep_empty) \in Seq(Views)
  BY <1>5 DEF KeptPiece
<1>7. t.result \o KeptPiece(t.str, keep_empty) \in Seq(Views)
  BY <1>5, <1>6, ConcatFacts DEF ConcatIs
<1> QED
  BY <1>3, <1>7 DEF t

SrInv == text \in Texts /\ view \in Views

LEMMA NeedlesTyped == \A n \in Needles : n \in Seq(Ascii)
BY TextFacts

LEMMA SrInitOK == SrInit => SrInv
<1> SUFFICES ASSUME SrInit PROVE SrInv
  OBVIOUS
<1> DEFINE none == 0
           n == Len(text)
<1>1. text \in Texts /\ view = [at |-> none, len |-> n]
  BY DEF SrInit
<1>2. none \in Nat /\ n \in Nat /\ none + n <= Len(text)
  BY <1>1, TextFacts
<1> HIDE DEF none, n
<1>3. [at |-> none, len |-> n] \in Views
  BY <1>1, <1>2, ViewIs
<1> QED
  BY <1>1, <1>3 DEF SrInv

LEMMA SrStep == SrInv /\ [SrNext]_srVars => SrInv'
<1> SUFFICES ASSUME SrInv, [SrNext]_srVars PROVE SrInv'
  OBVIOUS
<1>1. text \in Texts /\ view \in Views
  BY DEF SrInv
<1>2. ASSUME NEW v \in Views, Becomes(v) PROVE SrInv'
  <2>1. text' = text /\ view' = v
    BY <1>2 DEF Becomes
  <2>2. Views' = Views
    BY <2>1 DEF Views
  <2> QED
    BY <1>1, <2>1, <2>2 DEF SrInv
<1>3. CASE UNCHANGED srVars
  <2>1. text' = text /\ view' = view
    BY <1>3 DEF srVars
  <2>2. Views' = Views
    BY <2>1 DEF Views
  <2> QED
    BY <1>1, <2>1, <2>2 DEF SrInv
<1>4. CASE Cut
  <2>1. PICK n \in SizeT :
           \/ CanDrop(view, n) /\ (Becomes(DropFront(view, n)) \/ Becomes(DropBack(view, n)))
           \/ Becomes(TakeFront(view, n)) \/ Becomes(TakeBack(view, n))
           \/ \E m \in SizeT : Becomes(Substr(view, n, m)) \/ Becomes(Slice(view, n, m))
    BY <1>4 DEF Cut
  <2>2. \A m \in SizeT : m \in Nat
    BY TextFacts DEF SizeT
  <2>3. n \in Nat /\ view.len \in Nat
    BY <1>1, <2>2, ViewFacts
  <2>4. CanDrop(view, n) => n \in 0..view.len
    BY <2>3 DEF CanDrop
  <2>5. /\ DropFront(view, n) \in Views /\ (CanDrop(view, n) => DropBack(view, n) \in Views)
        /\ TakeFront(view, n) \in Views /\ TakeBack(view, n) \in Views
    BY <1>1, <2>3, <2>4, DropFrontIs, DropBackIs, TakesAreViews
  <2>6. \A m \in SizeT : Substr(view, n, m) \in Views /\ Slice(view, n, m) \in Views
    BY <1>1, <2>2, <2>3, SubstrIs, SliceIs
  <2> QED
    BY <1>2, <2>1, <2>5, <2>6
<1>5. CASE Strip
  <2>1. PICK set \in Sets :
           \/ Becomes(Ltrim(view, set)) \/ Becomes(Rtrim(view, set)) \/ Becomes(Trim(view, set))
           \/ Becomes(TakeWhile(view, set)) \/ Becomes(TakeUntil(view, set))
           \/ Becomes(DropWhile(view, set)) \/ Becomes(DropUntil(view, set))
    BY <1>5 DEF Strip
  <2>2. /\ Ltrim(view, set) \in Views /\ Rtrim(view, set) \in Views /\ Trim(view, set) \in Views
        /\ TakeWhile(view, set) \in Views /\ TakeUntil(view, set) \in Views
        /\ DropWhile(view, set) \in Views /\ DropUntil(view, set) \in Views
    BY <1>1, StripsAreViews
  <2> QED
    BY <1>2, <2>1, <2>2
<1>6. CASE SplitOff
  <2>1. PICK separator \in Needles :
           \/ \E half \in {1, 2} : Becomes(SplitPair(view, separator)[half])
                                   \/ Becomes(RsplitPair(view, separator)[half])
           \/ \E max_split \in -1..2, keep_empty \in BOOLEAN :
                 /\ SplitReturns(separator, max_split)
                 /\ \E piece \in Range(Split(view, separator, max_split, keep_empty)) : Becomes(piece)
    BY <1>6 DEF SplitOff
  <2>2. separator \in Seq(Ascii)
    BY NeedlesTyped
  <2>3. CASE \E half \in {1, 2} : Becomes(SplitPair(view, separator)[half])
                                   \/ Becomes(RsplitPair(view, separator)[half])
    BY <1>1, <1>2, <2>2, <2>3, PairsAreViews
  <2>4. CASE \E max_split \in -1..2, keep_empty \in BOOLEAN :
                 /\ SplitReturns(separator, max_split)
                 /\ \E piece \in Range(Split(view, separator, max_split, keep_empty)) : Becomes(piece)
    <3>1. PICK max_split \in -1..2, keep_empty \in BOOLEAN :
                  \E piece \in Range(Split(view, separator, max_split, keep_empty)) : Becomes(piece)
      BY <2>4
    <3> DEFINE all == Split(view, separator, max_split, keep_empty)
    <3>2. all \in Seq(Views)
      <4>1. max_split \in Int
        OBVIOUS
      <4> QED
        BY <1>1, <2>2, <4>1, SplitTyped
    <3> HIDE DEF all
    <3>3. PICK piece \in Range(all) : Becomes(piece)
      BY <3>1 DEF all
    <3>4. PICK i \in 1..Len(all) : piece = all[i]
      BY <3>2, <3>3 DEF Range
    <3>5. piece \in Views
      BY <3>2, <3>4, ElementOfSeq
    <3> QED
      BY <1>2, <3>3, <3>5
  <2> QED
    BY <2>1, <2>3, <2>4
<1> QED
  BY <1>3, <1>4, <1>5, <1>6 DEF SrNext

LEMMA SrInvTypes == SrInv => SrTypeOK
<1> SUFFICES ASSUME SrInv PROVE SrTypeOK
  OBVIOUS
<1> QED
  BY DEF SrInv, SrTypeOK, Views

(* A string_ref made from another one by any of its operations, with any   *)
(* arguments up to npos, lies inside the characters of the text            *)
(* (string.hpp).                                                           *)
THEOREM ViewsStayInside == SrSpec => []SrTypeOK
<1>1. SrInit => SrInv
  BY SrInitOK
<1>2. SrInv /\ [SrNext]_srVars => SrInv'
  BY SrStep
<1>3. SrInv => SrTypeOK
  BY SrInvTypes
<1> QED
  BY <1>1, <1>2, <1>3, PTL DEF SrSpec

LEMMA FindsFirstIs == SrInv => FindsFirst
<1> SUFFICES ASSUME SrInv PROVE FindsFirst
  OBVIOUS
<1> DEFINE s == Chars(view)
<1>1. s \in Seq(Ascii) /\ Len(s) < npos
  BY ViewOfChars DEF SrInv
<1>2. \A m \in SizeT : m \in Nat
  BY TextFacts DEF SizeT
<1> HIDE DEF s
<1>3. ASSUME NEW n \in Needles
      PROVE  FindsWhole(s, n) /\ \A start \in SizeT : FindsOne(s, n, start)
  BY <1>1, <1>2, NeedlesTyped, FindsOneOK, FindsWholeOK
<1>4. \A n \in Needles : FindsWhole(s, n)
  BY <1>3
<1>5. \A n \in Needles : \A start \in SizeT : FindsOne(s, n, start)
  BY <1>3
<1> QED
  BY <1>4, <1>5 DEF FindsFirst, FindsWhole, FindsOne, s

-----------------------------------------------------------------------------
(* A view trimmed and a view split in two.                                 *)
LEMMA TrimLeavesNone ==
    ASSUME text \in Texts, NEW v \in Views, NEW set
    PROVE  LET t == Chars(Trim(v, set)) IN t = <<>> \/ (t[1] \notin set /\ t[Len(t)] \notin set)
<1> DEFINE l == Ltrim(v, set)
           i == MinOf(v.len, FindFirstNotOf(Chars(v), set, 0))
           r == Rtrim(l, set)
           t == Chars(r)
<1>1. /\ l \in Views /\ i \in 0..v.len /\ l.at = v.at + i /\ l.len = v.len - i
      /\ (i < v.len => ~(text[l.at + 1] \in set))
  BY LtrimIs
<1>2. v.len \in Nat
  BY ViewFacts
<1> HIDE DEF l, i
<1>3. r \in Views /\ r.at = l.at /\ r.len <= l.len /\ (r.len > 0 => ~(text[r.at + r.len] \in set))
  BY <1>1, RtrimIs
<1> HIDE DEF r
<1>4. t \in Seq(Ascii) /\ Len(t) = r.len /\ (\A k \in 1..r.len : t[k] = text[r.at + k]) /\ r.len \in Nat
  BY <1>3, CharsIs, ViewFacts
<1> HIDE DEF t
<1>5. ASSUME t # <<>> PROVE ~(t[1] \in set) /\ ~(t[Len(t)] \in set)
  <2>1. r.len > 0 /\ 1 \in 1..r.len /\ r.len \in 1..r.len
    BY <1>4, <1>5, EmptySeq
  <2>2. i < v.len
    BY <2>1, <1>1, <1>2, <1>3, <1>4
  <2>3. t[1] = text[l.at + 1] /\ t[r.len] = text[r.at + r.len]
    BY <2>1, <1>3, <1>4
  <2> QED
    BY <2>1, <2>2, <2>3, <1>1, <1>3, <1>4
<1> QED
  BY <1>5 DEF Trim, t, r, l

LEMMA ThreeParts ==
    ASSUME text \in Texts, NEW v \in Views, NEW n \in Seq(Ascii), NEW i \in Nat,
           i + Len(n) <= v.len, Matches(Chars(v), i, n)
    PROVE  Chars(Slice(v, 0, i)) \o n \o Chars(Slice(v, i + Len(n), npos)) = Chars(v)
<1> DEFINE l == Slice(v, 0, i)
           m == Len(n)
           r == Slice(v, i + m, npos)
           a == Chars(l)
           b == Chars(r)
           s == Chars(v)
<1>1. m \in Nat /\ i + m <= v.len /\ v.len \in Nat /\ v.at \in Nat
  BY ViewFacts
<1>2. /\ l \in Views /\ l.at = v.at /\ l.len = i
      /\ r \in Views /\ r.at = v.at + (i + m) /\ r.len = v.len - (i + m)
  <2> HIDE DEF m
  <2> QED
    BY <1>1, SlicesAround
<1> HIDE DEF l, r
<1>3. s \in Seq(Ascii) /\ Len(s) = v.len /\ \A k \in 1..v.len : s[k] = text[v.at + k]
  BY CharsIs
<1>4. a \in Seq(Ascii) /\ Len(a) = i /\ \A k \in 1..i : a[k] = text[v.at + k]
  BY <1>2, CharsIs
<1>5. /\ b \in Seq(Ascii) /\ Len(b) = v.len - (i + m)
      /\ \A k \in 1..(v.len - (i + m)) : b[k] = text[(v.at + (i + m)) + k]
  BY <1>2, CharsIs
<1>6. \A k \in 1..m : s[i + k] = n[k]
  BY DEF Matches
<1> HIDE DEF a, b, s
<1> DEFINE u == a \o n
           w == u \o b
<1>7. u \in Seq(Ascii) /\ Len(u) = i + m /\ \A k \in 1..(i + m) : u[k] = IF k <= i THEN a[k] ELSE n[k - i]
  BY <1>4, ConcatFacts DEF ConcatIs
<1> HIDE DEF u
<1>8. /\ w \in Seq(Ascii) /\ Len(w) = Len(u) + Len(b)
      /\ \A k \in 1..(Len(u) + Len(b)) : w[k] = IF k <= Len(u) THEN u[k] ELSE b[k - Len(u)]
  BY <1>5, <1>7, ConcatFacts DEF ConcatIs
<1> HIDE DEF w, m
<1>9. Len(w) = Len(s) /\ Len(u) + Len(b) = v.len
  BY <1>1, <1>3, <1>5, <1>7, <1>8
<1>10. ASSUME NEW k \in 1..v.len PROVE w[k] = s[k]
  <2>1. CASE k <= i
    <3>1. k \in 1..i /\ k \in 1..(i + m) /\ k <= Len(u)
      BY <2>1, <1>1, <1>7
    <3>2. w[k] = u[k] /\ u[k] = a[k] /\ a[k] = text[v.at + k]
      BY <3>1, <1>4, <1>7, <1>8, <1>9
    <3> QED
      BY <3>2, <1>3
  <2>2. CASE k > i /\ k <= i + m
    <3> DEFINE j == k - i
    <3>1. j \in 1..m /\ k \in 1..(i + m) /\ ~(k <= i) /\ i + j = k /\ k <= Len(u)
      BY <2>2, <1>1, <1>7
    <3>2. w[k] = u[k] /\ u[k] = n[j]
      BY <3>1, <1>7, <1>8, <1>9
    <3> HIDE DEF j
    <3> QED
      BY <3>1, <3>2, <1>6
  <2>3. CASE k > i + m
    <3> DEFINE j == k - (i + m)
    <3>1. j \in 1..(v.len - (i + m)) /\ ~(k <= Len(u)) /\ (v.at + (i + m)) + j = v.at + k /\ j = k - Len(u)
      BY <2>3, <1>1, <1>7
    <3>2. w[k] = b[k - Len(u)]
      BY <3>1, <1>8, <1>9
    <3> HIDE DEF j
    <3>3. b[j] = text[(v.at + (i + m)) + j]
      BY <3>1, <1>5
    <3> QED
      BY <3>1, <3>2, <3>3, <1>3
  <2> QED
    BY <2>1, <2>2, <2>3, <1>1
<1>11. w = s
  BY <1>3, <1>8, <1>9, <1>10, SeqEqual
<1> QED
  BY <1>11 DEF w, u, a, b, s, l, r, m

PairsRejoin(v, n) ==
    LET s == Chars(v)
        left == SplitPair(v, n)
        right == RsplitPair(v, n)
    IN  IF Count(s, n) = 0 THEN left[1] = v /\ left[2].len = 0 /\ right = left
        ELSE /\ Chars(left[1]) \o n \o Chars(left[2]) = s
             /\ Chars(right[1]) \o n \o Chars(right[2]) = s
             /\ \A i \in Positions(s, n, 0) :
                   left[2].len >= Len(s) - i - Len(n) /\ right[2].len <= Len(s) - i - Len(n)

LEMMA AroundFound ==
    ASSUME text \in Texts, NEW v \in Views, NEW n \in Seq(Ascii), NEW i \in Nat,
           i + Len(n) <= v.len, Matches(Chars(v), i, n)
    PROVE  LET r == Around(v, i, n)
           IN  Chars(r[1]) \o n \o Chars(r[2]) = Chars(v) /\ r[2].len = v.len - (i + Len(n))
<1>1. v.len < npos /\ v.len \in Nat /\ npos \in Nat /\ Len(n) \in Nat
  BY ViewOfChars
<1>2. i # npos
  BY <1>1
<1> DEFINE l == Slice(v, 0, i)
           m == Len(n)
           r == Slice(v, i + m, npos)
<1>3. Around(v, i, n) = <<l, r>>
  BY <1>2 DEF Around
<1>4. Chars(l) \o n \o Chars(r) = Chars(v)
  BY ThreeParts
<1>5. r.len = v.len - (i + m)
  <2> HIDE DEF m
  <2>1. m \in Nat /\ i + m <= v.len
    BY <1>1 DEF m
  <2> QED
    BY <2>1, SlicesAround
<1> HIDE DEF l, r
<1> QED
  BY <1>3, <1>4, <1>5

LEMMA PairsRejoinOK ==
    ASSUME text \in Texts, NEW v \in Views, NEW n \in Seq(Ascii)
    PROVE  PairsRejoin(v, n)
<1> DEFINE s == Chars(v)
           S == Positions(s, n, 0)
           f == Find(s, n, 0)
           e == Rfind(s, n)
           left == SplitPair(v, n)
           right == RsplitPair(v, n)
<1>1. /\ v.len \in Nat /\ npos \in Nat /\ v.len < npos /\ 0 \in Nat /\ Len(n) \in Nat
      /\ s \in Seq(Ascii) /\ Len(s) = v.len /\ Len(s) < npos
  BY ViewOfChars
<1>2. left = Around(v, f, n) /\ right = Around(v, e, n)
  BY DEF SplitPair, RsplitPair
<1> HIDE DEF left, right
<1>3. /\ e = npos <=> S = {}
      /\ S # {} => e \in S /\ \A i \in S : i <= e
      /\ S = {i \in 0..(Len(s) - Len(n)) : Matches(s, i, n)} /\ S \in SUBSET (0..Len(s))
  <2> HIDE DEF s
  <2> QED
    BY <1>1, RfindIs
<1>4. /\ f = npos <=> S = {}
      /\ S # {} => f \in S /\ \A i \in S : f <= i
  <2> HIDE DEF s
  <2>1. f = IF S = {} THEN npos ELSE Min(S)
    BY <1>1, FindIs DEF Naive
  <2> HIDE DEF S, f
  <2>2. S \in SUBSET Nat
    BY <1>3
  <2>3. S # {} => Min(S) \in S /\ \A i \in S : Min(S) <= i
    BY <2>2, MinIs
  <2>4. \A i \in S : i # npos
    BY <1>1, <1>3
  <2> QED
    BY <2>1, <2>3, <2>4
<1>5. Count(s, n) = 0 <=> S = {}
  <2> HIDE DEF s
  <2> DEFINE k == Len(s)
  <2>1. IsFiniteSet(0..k)
    <3>1. 0 \in Int /\ k \in Int
      BY <1>1
    <3> HIDE DEF k
    <3> QED
      BY <3>1, FS_Interval
  <2>2. IsFiniteSet(S)
    BY <1>3, <2>1, FS_Subset
  <2> QED
    BY <2>2, FS_EmptySet DEF Count
<1>6. CASE S = {}
  <2>1. left = <<v, [at |-> v.at, len |-> 0]>> /\ right = left
    BY <1>2, <1>3, <1>4, <1>6 DEF Around
  <2>2. left[1] = v /\ left[2].len = 0 /\ right = left
    BY <2>1
  <2> QED
    BY <1>5, <1>6, <2>2 DEF PairsRejoin, left, right
<1>7. CASE S # {}
  <2> HIDE DEF s, S, f, e
  <2>1. ASSUME NEW i \in S
        PROVE  LET r == Around(v, i, n)
               IN  /\ i \in Nat /\ Chars(r[1]) \o n \o Chars(r[2]) = s
                   /\ r[2].len = v.len - (i + Len(n))
    <3>1. i \in 0..(Len(s) - Len(n)) /\ Matches(s, i, n)
      BY <1>3, <2>1
    <3>2. i \in Nat /\ i + Len(n) <= v.len
      BY <3>1, <1>1
    <3> QED
      BY <3>1, <3>2, AroundFound DEF s
  <2>2. f \in S /\ e \in S /\ f \in Nat /\ e \in Nat
    BY <1>3, <1>4, <1>7, <2>1
  <2>3. Chars(left[1]) \o n \o Chars(left[2]) = s /\ left[2].len = v.len - (f + Len(n))
    BY <2>1, <2>2, <1>2
  <2>4. Chars(right[1]) \o n \o Chars(right[2]) = s /\ right[2].len = v.len - (e + Len(n))
    BY <2>1, <2>2, <1>2
  <2>5. ASSUME NEW i \in S
        PROVE  left[2].len >= Len(s) - i - Len(n) /\ right[2].len <= Len(s) - i - Len(n)
    <3>1. f <= i /\ i <= e /\ i \in Nat
      BY <1>3, <1>4, <1>7, <2>1
    <3>2. v.len - (f + Len(n)) >= Len(s) - i - Len(n) /\ v.len - (e + Len(n)) <= Len(s) - i - Len(n)
      BY <3>1, <2>2, <1>1
    <3> QED
      BY <3>2, <2>3, <2>4
  <2> QED
    BY <1>5, <1>7, <2>3, <2>4, <2>5 DEF PairsRejoin, S, s, left, right
<1> QED
  BY <1>6, <1>7

-----------------------------------------------------------------------------
(* The concatenation of what a function gives for each piece.              *)
FlatOver(pieces, give) == FlattenSeq([i \in 1..Len(pieces) |-> give[pieces[i]]])

LEMMA FlatOverTyped ==
    ASSUME NEW S, NEW R, NEW give \in [S -> Seq(R)], NEW p \in Seq(S)
    PROVE  FlatOver(p, give) \in Seq(R)
<1>1. [i \in 1..Len(p) |-> give[p[i]]] \in Seq(Seq(R))
  <2>1. Len(p) \in Nat
    OBVIOUS
  <2>2. ASSUME NEW i \in 1..Len(p) PROVE give[p[i]] \in Seq(R)
    <3>1. p[i] \in S
      BY ElementOfSeq
    <3> QED
      BY <3>1
  <2> QED
    BY <2>1, <2>2, SeqDef
<1> QED
  BY <1>1, FlattenIn DEF FlatOver

LEMMA FlatOverMore ==
    ASSUME NEW S, NEW R, NEW give \in [S -> Seq(R)], NEW p \in Seq(S), NEW x \in S
    PROVE  FlatOver(p \o <<x>>, give) = FlatOver(p, give) \o give[x]
<1> DEFINE n == Len(p)
           q == p \o <<x>>
           ss == [i \in 1..n |-> give[p[i]]]
           one == <<give[x]>>
           both == ss \o one
           all == [i \in 1..Len(q) |-> give[q[i]]]
<1>1. n \in Nat /\ give[x] \in Seq(R)
  OBVIOUS
<1>2. q \in Seq(S) /\ Len(q) = n + 1 /\ \A i \in 1..(n + 1) : q[i] = IF i <= n THEN p[i] ELSE x
  <2> DEFINE c == <<x>>
  <2>1. c \in Seq(S) /\ Len(c) = 1 /\ c[1] = x
    OBVIOUS
  <2> HIDE DEF c
  <2>2. /\ p \o c \in Seq(S) /\ Len(p \o c) = Len(p) + Len(c)
        /\ \A i \in 1..Len(p) + Len(c) : (p \o c)[i] = IF i <= Len(p) THEN p[i] ELSE c[i - Len(p)]
    BY <2>1, ConcatFacts DEF ConcatIs
  <2>3. ASSUME NEW i \in 1..(n + 1) PROVE (p \o c)[i] = IF i <= n THEN p[i] ELSE x
    <3>1. i <= n \/ i - n = 1
      BY <1>1
    <3> QED
      BY <3>1, <2>1, <2>2, <1>1
  <2> QED
    BY <2>1, <2>2, <2>3 DEF c
<1> HIDE DEF q
<1>3. ASSUME NEW i \in 1..n PROVE give[p[i]] \in Seq(R)
  <2>1. p[i] \in S
    BY ElementOfSeq
  <2> QED
    BY <2>1
<1>4. ss \in Seq(Seq(R)) /\ Len(ss) = n /\ \A i \in 1..n : ss[i] = give[p[i]]
  <2>1. ss \in [1..n -> Seq(R)]
    BY <1>3
  <2> QED
    BY <1>1, <2>1, SeqDef, LenProperties
<1>5. one \in Seq(Seq(R)) /\ Len(one) = 1 /\ one[1] = give[x]
  BY <1>1
<1>6. all \in Seq(Seq(R)) /\ Len(all) = n + 1 /\ \A i \in 1..(n + 1) : all[i] = give[q[i]]
  <2>1. ASSUME NEW i \in 1..Len(q) PROVE give[q[i]] \in Seq(R)
    <3>1. q[i] \in S
      BY <1>2, ElementOfSeq
    <3> QED
      BY <3>1
  <2>2. all \in [1..Len(q) -> Seq(R)] /\ Len(q) \in Nat
    BY <1>1, <1>2, <2>1
  <2> QED
    BY <1>2, <2>2, SeqDef, LenProperties
<1> HIDE DEF ss, one, all, n
<1>7. /\ both \in Seq(Seq(R)) /\ Len(both) = n + 1
      /\ \A i \in 1..(n + 1) : both[i] = IF i <= n THEN ss[i] ELSE one[i - n]
  <2>1. ConcatIs(Seq(R), ss, one, both)
    BY <1>4, <1>5, ConcatFacts
  <2> HIDE DEF both
  <2> QED
    BY <2>1, <1>1, <1>4, <1>5 DEF ConcatIs
<1> HIDE DEF both
<1>8. ASSUME NEW i \in 1..(n + 1) PROVE all[i] = both[i]
  <2>1. CASE i <= n
    <3>1. i \in 1..n
      BY <2>1, <1>1
    <3>2. both[i] = ss[i] /\ ss[i] = give[p[i]] /\ q[i] = p[i]
      BY <2>1, <3>1, <1>2, <1>4, <1>7
    <3> QED
      BY <3>2, <1>6
  <2>2. CASE ~(i <= n)
    <3>1. i - n = 1
      BY <2>2, <1>1
    <3>2. both[i] = one[1] /\ q[i] = x
      BY <2>2, <3>1, <1>2, <1>7
    <3> QED
      BY <3>2, <1>5, <1>6
  <2> QED
    BY <2>1, <2>2
<1>9. all = both
  BY <1>6, <1>7, <1>8, SeqEqual
<1>10. FlattenSeq(ss \o one) = FlattenSeq(ss) \o FlattenSeq(one)
  BY <1>4, <1>5, FlattenConcat
<1>11. FlattenSeq(one) = give[x]
  BY <1>1, FlattenOne DEF one
<1> QED
  BY <1>9, <1>10, <1>11 DEF FlatOver, both, all, q, ss, n

LEMMA FlatOverNone ==
    ASSUME NEW give
    PROVE  FlatOver(<<>>, give) = <<>>
<1> DEFINE ss == [i \in 1..Len(<<>>) |-> give[<<>>[i]]]
<1>1. Len(ss) = 0
  <2>1. 1..Len(<<>>) = {} /\ Len(<<>>) = 0
    OBVIOUS
  <2>2. ss \in [1..0 -> {1}]
    BY <2>1
  <2>3. ss \in Seq({1}) /\ Len(ss) = 0
    BY <2>2, SeqDef, LenProperties
  <2> QED
    BY <2>3
<1> QED
  BY <1>1 DEF FlatOver, FlattenSeq

(* The pieces that come before another one, each followed by a separator.  *)
Before(pieces, sep) == FlatOver(pieces, [p \in Views |-> Chars(p) \o sep])

LEMMA BeforeFacts ==
    ASSUME text \in Texts, NEW sep \in Seq(Ascii), NEW p \in Seq(Views), NEW x \in Views
    PROVE  /\ Before(<<>>, sep) = <<>> /\ Before(p, sep) \in Seq(Ascii)
           /\ Before(p \o <<x>>, sep) = Before(p, sep) \o (Chars(x) \o sep)
           /\ Chars(x) \o sep \in Seq(Ascii)
<1> DEFINE give == [q \in Views |-> Chars(q) \o sep]
<1>1. ASSUME NEW q \in Views PROVE Chars(q) \o sep \in Seq(Ascii)
  <2> DEFINE s == Chars(q)
  <2>1. s \in Seq(Ascii)
    BY CharsIs
  <2> HIDE DEF s
  <2>2. s \o sep \in Seq(Ascii)
    BY <2>1, ConcatFacts DEF ConcatIs
  <2> QED
    BY <2>2 DEF s
<1>2. give \in [Views -> Seq(Ascii)] /\ give[x] = Chars(x) \o sep
  BY <1>1
<1> HIDE DEF give
<1>3. FlatOver(<<>>, give) = <<>> /\ FlatOver(p, give) \in Seq(Ascii)
  BY <1>2, FlatOverNone, FlatOverTyped
<1>4. FlatOver(p \o <<x>>, give) = FlatOver(p, give) \o give[x]
  BY <1>2, FlatOverMore
<1> QED
  BY <1>1, <1>2, <1>3, <1>4 DEF Before, give

LEMMA WithoutEmptyFacts ==
    ASSUME NEW p \in Seq(Views), NEW x \in Views
    PROVE  /\ WithoutEmpty(<<>>) = <<>>
           /\ WithoutEmpty(p \o <<x>>) = WithoutEmpty(p) \o KeptPiece(x, FALSE)
<1> DEFINE give == [q \in Views |-> KeptPiece(q, FALSE)]
<1>1. \A q \in Views : KeptPiece(q, FALSE) \in Seq(Views)
  BY DEF KeptPiece
<1>2. give \in [Views -> Seq(Views)] /\ give[x] = KeptPiece(x, FALSE)
  BY <1>1
<1>3. ASSUME NEW r \in Seq(Views) PROVE WithoutEmpty(r) = FlatOver(r, give)
  <2>1. DOMAIN r = 1..Len(r)
    OBVIOUS
  <2>2. ASSUME NEW i \in 1..Len(r) PROVE give[r[i]] = IF r[i].len > 0 THEN <<r[i]>> ELSE <<>>
    <3>1. r[i] \in Views
      BY ElementOfSeq
    <3> QED
      BY <3>1 DEF KeptPiece
  <2>3. [i \in DOMAIN r |-> IF r[i].len > 0 THEN <<r[i]>> ELSE <<>>] = [i \in 1..Len(r) |-> give[r[i]]]
    BY <2>1, <2>2
  <2> QED
    BY <2>3 DEF WithoutEmpty, FlatOver
<1> HIDE DEF give
<1>4. p \o <<x>> \in Seq(Views) /\ <<>> \in Seq(Views)
  OBVIOUS
<1>5. FlatOver(p \o <<x>>, give) = FlatOver(p, give) \o give[x] /\ FlatOver(<<>>, give) = <<>>
  BY <1>2, FlatOverMore, FlatOverNone
<1> QED
  BY <1>2, <1>3, <1>4, <1>5

LEMMA JoinedIs ==
    ASSUME text \in Texts, NEW sep \in Seq(Ascii), NEW p \in Seq(Views), NEW x \in Views
    PROVE  Joined(p \o <<x>>, sep) = Before(p, sep) \o Chars(x)
<1> DEFINE n == Len(p)
           q == p \o <<x>>
           c(i) == Chars(q[i])
           ss == [i \in 1..n |-> sep \o c(i + 1)]
           tt == [i \in 1..n |-> c(i) \o sep]
<1>1. n \in Nat
  OBVIOUS
<1>2. q \in Seq(Views) /\ Len(q) = n + 1 /\ (\A i \in 1..n : q[i] = p[i]) /\ q[n + 1] = x
  OBVIOUS
<1> HIDE DEF q
<1>3. ASSUME NEW i \in 1..(n + 1) PROVE c(i) \in Seq(Ascii)
  <2>1. q[i] \in Views
    BY <1>2, ElementOfSeq
  <2> QED
    BY <2>1, CharsIs
<1>4. ASSUME NEW i \in 1..n
      PROVE  c(i) \in Seq(Ascii) /\ c(i + 1) \in Seq(Ascii) /\ c(i) = Chars(p[i])
  <2>1. i \in 1..(n + 1) /\ i + 1 \in 1..(n + 1)
    BY <1>1
  <2> QED
    BY <2>1, <1>2, <1>3
<1> HIDE DEF c, n
<1>5. ss \in Seq(Seq(Ascii)) /\ Len(ss) = n /\ \A i \in 1..n : ss[i] = sep \o c(i + 1)
  <2>1. ASSUME NEW i \in 1..n PROVE sep \o c(i + 1) \in Seq(Ascii)
    <3> DEFINE d == c(i + 1)
    <3>1. d \in Seq(Ascii)
      BY <1>4
    <3> HIDE DEF d
    <3>2. sep \o d \in Seq(Ascii)
      BY <3>1, ConcatFacts DEF ConcatIs
    <3> QED
      BY <3>2 DEF d
  <2>2. ss \in [1..n -> Seq(Ascii)]
    BY <2>1
  <2> QED
    BY <1>1, <2>2, SeqDef, LenProperties
<1>6. tt \in Seq(Seq(Ascii)) /\ Len(tt) = n /\ \A i \in 1..n : tt[i] = c(i) \o sep
  <2>1. ASSUME NEW i \in 1..n PROVE c(i) \o sep \in Seq(Ascii)
    <3> DEFINE d == c(i)
    <3>1. d \in Seq(Ascii)
      BY <1>4
    <3> HIDE DEF d
    <3>2. d \o sep \in Seq(Ascii)
      BY <3>1, ConcatFacts DEF ConcatIs
    <3> QED
      BY <3>2 DEF d
  <2>2. tt \in [1..n -> Seq(Ascii)]
    BY <2>1
  <2> QED
    BY <1>1, <2>2, SeqDef, LenProperties
<1>7. Before(p, sep) = FlattenSeq(tt)
  <2> DEFINE give == [y \in Views |-> Chars(y) \o sep]
  <2>1. ASSUME NEW i \in 1..n PROVE give[p[i]] = c(i) \o sep
    <3>1. p[i] \in Views
      BY ElementOfSeq DEF n
    <3> QED
      BY <3>1, <1>4
  <2>2. [i \in 1..n |-> give[p[i]]] = tt
    <3> HIDE DEF give
    <3> QED
      BY <2>1
  <2> QED
    BY <2>2 DEF Before, FlatOver, n
<1>8. Joined(q, sep) = c(1) \o FlattenSeq(ss)
  <2>1. Len(q) - 1 = n
    BY <1>1, <1>2
  <2> QED
    BY <2>1 DEF Joined, c
<1> HIDE DEF ss, tt
<1>9. PICK g \in [0..Len(ss) -> Seq(Ascii)] : Flattens(g, ss)
  BY <1>5, FlattensExists
<1>10. PICK h \in [0..Len(tt) -> Seq(Ascii)] : Flattens(h, tt)
  BY <1>6, FlattensExists
<1>11. FlattenSeq(ss) = g[n] /\ FlattenSeq(tt) = h[n]
  BY <1>5, <1>6, <1>9, <1>10, FlattenIs
<1> DEFINE T == {m \in 0..n : c(1) \o g[m] = h[m] \o c(m + 1)}
<1>12. \A m \in 0..n : m \in T
  <2>1. 0 \in T
    <3>1. g[0] = <<>> /\ h[0] = <<>> /\ c(1) \in Seq(Ascii) /\ 0 + 1 = 1 /\ 0 \in 0..n
      BY <1>1, <1>3, <1>9, <1>10 DEF Flattens
    <3>2. c(1) \o <<>> = c(1) /\ <<>> \o c(1) = c(1)
      BY <3>1, ConcatEmptySeq
    <3> QED
      BY <3>1, <3>2
  <2>2. ASSUME NEW m \in 0..n, m < n, m \in T PROVE m + 1 \in T
    <3> DEFINE k == m + 1
               a == c(1)
               gm == g[m]
               hm == h[m]
               cm == c(k)
               d == c(k + 1)
    <3>1. a \o gm = hm \o cm
      BY <2>2
    <3>2. k \in 1..n /\ k - 1 = m /\ k \in 0..n /\ 1 \in 1..(n + 1)
      BY <1>1, <2>2
    <3>3. m \in 0..Len(ss) /\ m \in 0..Len(tt)
      BY <1>5, <1>6
    <3>4. gm \in Seq(Ascii) /\ hm \in Seq(Ascii)
      BY <3>3
    <3> HIDE DEF k, T
    <3>5. a \in Seq(Ascii) /\ cm \in Seq(Ascii) /\ d \in Seq(Ascii)
      BY <3>2, <1>3, <1>4
    <3>6. g[k] = gm \o (sep \o d) /\ h[k] = hm \o (cm \o sep)
      BY <3>2, <1>5, <1>6, <1>9, <1>10 DEF Flattens
    <3> HIDE DEF a, gm, hm, cm, d
    <3>7. sep \o d \in Seq(Ascii) /\ cm \o sep \in Seq(Ascii)
      BY <3>5, ConcatFacts DEF ConcatIs
    <3>8. (a \o gm) \o (sep \o d) = a \o (gm \o (sep \o d))
      <4>1. Associates(a, gm, sep \o d)
        BY <3>4, <3>5, <3>7, Associative
      <4> QED
        BY <4>1, Zenon DEF Associates
    <3>9. (hm \o cm) \o (sep \o d) = hm \o (cm \o (sep \o d))
      <4>1. Associates(hm, cm, sep \o d)
        BY <3>4, <3>5, <3>7, Associative
      <4> QED
        BY <4>1, Zenon DEF Associates
    <3>10. (cm \o sep) \o d = cm \o (sep \o d)
      <4>1. Associates(cm, sep, d)
        BY <3>5, Associative
      <4> QED
        BY <4>1, Zenon DEF Associates
    <3>11. (hm \o (cm \o sep)) \o d = hm \o ((cm \o sep) \o d)
      <4>1. Associates(hm, cm \o sep, d)
        BY <3>4, <3>5, <3>7, Associative
      <4> QED
        BY <4>1, Zenon DEF Associates
    <3>12. a \o g[k] = h[k] \o d
      BY <3>1, <3>6, <3>8, <3>9, <3>10, <3>11, Zenon
    <3> QED
      BY <3>2, <3>12 DEF T, a, d, k
  <2> HIDE DEF T
  <2> QED
    BY <1>1, <2>1, <2>2, InductUpTo
<1>13. c(1) \o g[n] = h[n] \o c(n + 1)
  <2>1. n \in 0..n
    BY <1>1
  <2> QED
    BY <2>1, <1>12
<1>14. c(n + 1) = Chars(x)
  BY <1>2 DEF c
<1> QED
  BY <1>7, <1>8, <1>11, <1>13, <1>14 DEF q

(* What a split has made of the view after some turns that kept every      *)
(* piece.                                                                  *)
SplitSoFar(t, v, sep, i) ==
    /\ t \in SplitStates /\ Before(t.result, sep) \o Chars(t.str) = Chars(v)
    /\ Len(t.result) <= i
    /\ sep # <<>> =>
          /\ \A j \in 1..Len(t.result) : Find(Chars(t.result[j]), sep, 0) = npos
          /\ Find(Chars(t.str), sep, 0) = npos \/ t.str.len <= v.len - i

LEMMA FoundInView ==
    ASSUME text \in Texts, NEW v \in Views, NEW sep \in Seq(Ascii)
    PROVE  LET r == Find(Chars(v), sep, 0)
           IN  (FoundAt(Chars(v), sep, 0, r) /\ r # npos) \/ FoundNot(Chars(v), sep, 0, r)
<1> DEFINE s == Chars(v)
<1>1. s \in Seq(Ascii) /\ Len(s) < npos /\ 0 \in Nat
  BY ViewOfChars
<1> HIDE DEF s
<1> DEFINE r == Naive(s, sep, 0)
<1>2. Find(s, sep, 0) = r
  BY <1>1, FindIs
<1>3. (FoundAt(s, sep, 0, r) /\ r # npos) \/ FoundNot(s, sep, 0, r)
  BY <1>1, NaiveIs
<1> QED
  BY <1>2, <1>3 DEF s

LEMMA PieceHasNone ==
    ASSUME text \in Texts, NEW v \in Views, NEW sep \in Seq(Ascii), sep # <<>>, NEW f,
           FoundAt(Chars(v), sep, 0, f)
    PROVE  Find(Chars(Slice(v, 0, f)), sep, 0) = npos
<1> DEFINE s == Chars(v)
           l == Slice(v, 0, f)
           a == Chars(l)
           j == Find(a, sep, 0)
           m == Len(sep)
<1>1. /\ f \in Nat /\ f >= 0 /\ f + m <= v.len /\ \A i \in 0..(f - 1) : ~Matches(s, i, sep)
  BY CharsIs DEF FoundAt
<1>2. m \in Nat /\ m >= 1 /\ v.len \in Nat /\ \A k \in 1..v.len : s[k] = text[v.at + k]
  BY EmptySeq, CharsIs, ViewFacts
<1> HIDE DEF s, m
<1>3. l \in Views /\ l.at = v.at /\ l.len = f
  BY <1>1, <1>2, SlicesAround
<1> HIDE DEF l
<1>4. Len(a) = f /\ \A k \in 1..f : a[k] = text[v.at + k]
  BY <1>3, CharsIs
<1>5. (FoundAt(a, sep, 0, j) /\ j # npos) \/ FoundNot(a, sep, 0, j)
  BY <1>3, FoundInView
<1> HIDE DEF a, j
<1>6. ASSUME FoundAt(a, sep, 0, j) PROVE FALSE
  <2>1. j \in Nat /\ j + m <= f /\ \A k \in 1..m : a[j + k] = sep[k]
    BY <1>4, <1>6 DEF FoundAt, Matches, m
  <2>2. ASSUME NEW k \in 1..m PROVE s[j + k] = sep[k]
    <3> DEFINE i == j + k
    <3>1. i \in 1..f /\ i \in 1..v.len
      BY <1>1, <1>2, <2>1
    <3>2. a[i] = sep[k]
      BY <2>1
    <3> HIDE DEF i
    <3>3. s[i] = sep[k]
      BY <3>1, <3>2, <1>2, <1>4
    <3> QED
      BY <3>3 DEF i
  <2>3. Matches(s, j, sep)
    BY <2>2 DEF Matches, m
  <2>4. j \in 0..(f - 1)
    BY <1>1, <1>2, <2>1
  <2> QED
    BY <1>1, <2>3, <2>4
<1> QED
  BY <1>5, <1>6 DEF FoundNot, a, j, l

LEMMA SplitStep ==
    ASSUME text \in Texts, NEW v \in Views, NEW sep \in Seq(Ascii), NEW i \in Nat, NEW t,
           SplitSoFar(t, v, sep, i)
    PROVE  SplitSoFar(SplitTurn(t, sep, TRUE), v, sep, i + 1)
<1> DEFINE str == t.str
           res == t.result
           f == Find(Chars(str), sep, 0)
           m == Len(sep)
<1>1. t \in SplitStates /\ str \in Views /\ res \in Seq(Views) /\ Len(res) \in Nat /\ Len(res) <= i
  BY DEF SplitSoFar, SplitStates
<1>2. Before(res, sep) \o Chars(str) = Chars(v)
  BY DEF SplitSoFar
<1>3. sep # <<>> =>
          /\ \A j \in 1..Len(res) : Find(Chars(res[j]), sep, 0) = npos
          /\ f = npos \/ str.len <= v.len - i
  BY DEF SplitSoFar
<1>4. CASE f = npos
  <2>1. SplitTurn(t, sep, TRUE) = t
    BY <1>4 DEF SplitTurn
  <2>2. Len(res) <= i + 1
    BY <1>1
  <2>3. sep # <<>> => \A j \in 1..Len(res) : Find(Chars(res[j]), sep, 0) = npos
    BY <1>3
  <2> HIDE DEF f
  <2>4. SplitSoFar(t, v, sep, i + 1)
    BY <2>2, <2>3, <1>1, <1>2, <1>4, Zenon DEF SplitSoFar, f
  <2> QED
    BY <2>1, <2>4
<1>5. CASE f # npos
  <2> HIDE DEF str, res, f
  <2>1. FoundAt(Chars(str), sep, 0, f)
    BY <1>1, <1>5, FoundInView DEF FoundNot, f
  <2>2. /\ f \in Nat /\ m \in Nat /\ f + m <= str.len /\ Matches(Chars(str), f, sep)
        /\ str.len \in Nat /\ v.len \in Nat
    BY <1>1, <2>1, CharsIs, ViewFacts DEF FoundAt
  <2> DEFINE l == Slice(str, 0, f)
             r == Slice(str, f + m, npos)
  <2>3. Chars(l) \o sep \o Chars(r) = Chars(str)
    BY <1>1, <2>2, ThreeParts
  <2>4. sep # <<>> => Find(Chars(l), sep, 0) = npos
    BY <1>1, <2>1, PieceHasNone
  <2>5. l \in Views /\ r \in Views /\ r.len = str.len - (f + m)
    <3> HIDE DEF m
    <3>1. text \in Texts /\ str \in Views /\ f \in Nat /\ m \in Nat /\ f + m <= str.len
      BY <1>1, <2>2
    <3> QED
      BY <3>1, SlicesAround
  <2>6. SplitTurn(t, sep, TRUE) = [str |-> r, result |-> res \o <<l>>]
    BY <1>5 DEF SplitTurn, KeptPiece, f, str, res
  <2>7. sep # <<>> => m >= 1
    BY EmptySeq, <2>2
  <2> HIDE DEF l, r, m
  <2> DEFINE q == res \o <<l>>
  <2>8. q \in Seq(Views) /\ Len(q) = Len(res) + 1 /\ (\A j \in 1..Len(res) : q[j] = res[j]) /\ q[Len(res) + 1] = l
    BY <1>1, <2>5
  <2>9. Before(q, sep) \o Chars(r) = Chars(v)
    <3> DEFINE b == Before(res, sep)
               cl == Chars(l)
               cr == Chars(r)
    <3>1. Before(q, sep) = b \o (cl \o sep) /\ b \in Seq(Ascii) /\ cl \o sep \in Seq(Ascii)
      BY <1>1, <2>5, BeforeFacts
    <3>2. cr \in Seq(Ascii)
      BY <2>5, CharsIs
    <3> HIDE DEF b, cl, cr, q
    <3>3. (b \o (cl \o sep)) \o cr = b \o ((cl \o sep) \o cr)
      <4>1. Associates(b, cl \o sep, cr)
        BY <3>1, <3>2, Associative
      <4> QED
        BY <4>1, Zenon DEF Associates
    <3>4. (cl \o sep) \o cr = Chars(str)
      BY <2>3 DEF cl, cr
    <3>5. b \o Chars(str) = Chars(v)
      BY <1>2 DEF b
    <3> QED
      BY <3>1, <3>3, <3>4, <3>5 DEF cr
  <2> HIDE DEF q
  <2>10. ASSUME sep # <<>>
         PROVE  /\ \A j \in 1..Len(q) : Find(Chars(q[j]), sep, 0) = npos
                /\ r.len <= v.len - (i + 1)
    <3>1. str.len <= v.len - i
      BY <1>3, <1>5, <2>10
    <3>2. r.len <= v.len - (i + 1)
      BY <3>1, <2>2, <2>5, <2>7, <2>10
    <3>3. ASSUME NEW j \in 1..Len(q) PROVE Find(Chars(q[j]), sep, 0) = npos
      <4>1. j \in 1..Len(res) \/ j = Len(res) + 1
        BY <1>1, <2>8
      <4> QED
        BY <4>1, <1>3, <2>4, <2>8, <2>10
    <3> QED
      BY <3>2, <3>3
  <2>11. Len(q) <= i + 1
    BY <1>1, <2>8
  <2>12. [str |-> r, result |-> q] \in SplitStates
    BY <2>5, <2>8 DEF SplitStates
  <2> DEFINE u == [str |-> r, result |-> q]
  <2>13. u.str = r /\ u.result = q /\ u \in SplitStates
    BY <2>12
  <2> HIDE DEF u
  <2>14. SplitSoFar(u, v, sep, i + 1)
    BY <2>9, <2>10, <2>11, <2>13 DEF SplitSoFar
  <2> QED
    BY <2>6, <2>14 DEF u, q
<1> QED
  BY <1>4, <1>5

LEMMA SplitKeepsAll ==
    ASSUME text \in Texts, NEW v \in Views, NEW sep \in Seq(Ascii), NEW turns \in Nat,
           NEW g \in [0..turns -> SplitStates], SplitTurns(g, turns, v, sep, TRUE)
    PROVE  SplitSoFar(g[turns], v, sep, turns)
<1> DEFINE T == {m \in 0..turns : SplitSoFar(g[m], v, sep, m)}
<1>1. 0 \in T
  <2> DEFINE s == Chars(v)
             t == [str |-> v, result |-> <<>>]
  <2>1. t \in SplitStates /\ t.str = v /\ t.result = <<>> /\ Len(<<>>) <= 0 /\ Len(<<>>) = 0
    BY DEF SplitStates
  <2>2. s \in Seq(Ascii) /\ v.len <= v.len - 0
    BY CharsIs, ViewFacts
  <2> HIDE DEF s, t
  <2>3. Before(<<>>, sep) \o s = s
    <3>1. Before(<<>>, sep) = <<>>
      <4>1. <<>> \in Seq(Views)
        OBVIOUS
      <4> QED
        BY <4>1, BeforeFacts
    <3>2. <<>> \o s = s
      BY <2>2, ConcatEmptySeq
    <3> QED
      BY <3>1, <3>2
  <2>4. \A j \in 1..Len(<<>>) : FALSE
    OBVIOUS
  <2>5. SplitSoFar(t, v, sep, 0)
    BY <2>1, <2>2, <2>3, <2>4 DEF SplitSoFar, s
  <2>6. g[0] = t /\ 0 \in 0..turns
    BY DEF SplitTurns, t
  <2> QED
    BY <2>5, <2>6
<1>2. ASSUME NEW m \in 0..turns, m < turns, m \in T PROVE m + 1 \in T
  <2>1. m \in Nat /\ m + 1 \in 1..turns /\ (m + 1) - 1 = m /\ m + 1 \in 0..turns /\ SplitSoFar(g[m], v, sep, m)
    BY <1>2
  <2>2. SplitSoFar(SplitTurn(g[m], sep, TRUE), v, sep, m + 1)
    BY <2>1, SplitStep
  <2>3. g[m + 1] = SplitTurn(g[m], sep, TRUE)
    BY <2>1 DEF SplitTurns
  <2> QED
    BY <2>1, <2>2, <2>3
<1> HIDE DEF T
<1>3. \A m \in 0..turns : m \in T
  BY <1>1, <1>2, InductUpTo
<1>4. turns \in T
  BY <1>3
<1> QED
  BY <1>4 DEF T

(* Turns that keep no empty piece go through the same rests.               *)
LEMMA SplitDropsEmpty ==
    ASSUME text \in Texts, NEW v \in Views, NEW sep \in Seq(Ascii), NEW turns \in Nat,
           NEW g \in [0..turns -> SplitStates], SplitTurns(g, turns, v, sep, TRUE),
           NEW h \in [0..turns -> SplitStates], SplitTurns(h, turns, v, sep, FALSE)
    PROVE  h[turns].str = g[turns].str /\ h[turns].result = WithoutEmpty(g[turns].result)
<1> DEFINE Alike(m) == h[m].str = g[m].str /\ h[m].result = WithoutEmpty(g[m].result)
           T == {m \in 0..turns : Alike(m)}
<1>1. 0 \in T
  <2>1. 0 \in 0..turns /\ g[0] = [str |-> v, result |-> <<>>] /\ h[0] = [str |-> v, result |-> <<>>]
    BY DEF SplitTurns
  <2>2. WithoutEmpty(<<>>) = <<>>
    <3>1. <<>> \in Seq(Views)
      OBVIOUS
    <3> QED
      BY <3>1, WithoutEmptyFacts
  <2> QED
    BY <2>1, <2>2
<1>2. ASSUME NEW m \in 0..turns, m < turns, m \in T PROVE m + 1 \in T
  <2> DEFINE k == m + 1
  <2>1. k \in 1..turns /\ k - 1 = m /\ k \in 0..turns
    BY <1>2
  <2> HIDE DEF k
  <2>2. g[k] = SplitTurn(g[m], sep, TRUE) /\ h[k] = SplitTurn(h[m], sep, FALSE)
    BY <2>1 DEF SplitTurns
  <2> DEFINE t == g[m]
             u == h[m]
             index == Find(Chars(t.str), sep, 0)
             l == Slice(t.str, 0, index)
             r == Slice(t.str, index + Len(sep), npos)
  <2>3. u.str = t.str /\ u.result = WithoutEmpty(t.result)
    BY <1>2
  <2>4. t \in SplitStates /\ t.str \in Views /\ t.result \in Seq(Views)
    <3>1. t \in SplitStates
      OBVIOUS
    <3> HIDE DEF t
    <3> QED
      BY <3>1 DEF SplitStates
  <2> HIDE DEF t, u
  <2>5. CASE index = npos
    <3>1. g[k] = t /\ h[k] = u
      BY <2>2, <2>3, <2>5 DEF SplitTurn, t, u
    <3> QED
      BY <2>1, <2>3, <3>1 DEF k
  <2>6. CASE index # npos
    <3> HIDE DEF index
    <3>1. g[k] = [str |-> r, result |-> t.result \o <<l>>]
      BY <2>2, <2>6 DEF SplitTurn, KeptPiece, t, index
    <3>2. h[k] = [str |-> r, result |-> u.result \o KeptPiece(l, FALSE)]
      BY <2>2, <2>3, <2>6 DEF SplitTurn, KeptPiece, u, index
    <3>3. l \in Views
      <4>1. FoundAt(Chars(t.str), sep, 0, index)
        BY <2>4, <2>6, FoundInView DEF FoundNot, index
      <4>2. index \in Nat
        BY <4>1 DEF FoundAt
      <4> QED
        BY <2>4, <4>2, SliceIs
    <3> HIDE DEF l, r
    <3>4. WithoutEmpty(t.result \o <<l>>) = WithoutEmpty(t.result) \o KeptPiece(l, FALSE)
      BY <2>4, <3>3, WithoutEmptyFacts
    <3>5. Alike(k)
      <4> DEFINE q == t.result \o <<l>>
                 w == u.result \o KeptPiece(l, FALSE)
      <4> HIDE DEF q, w
      <4>1. g[k].str = r /\ g[k].result = q
        BY <3>1 DEF q
      <4>2. h[k].str = r /\ h[k].result = w
        <5>1. h[k] = [str |-> r, result |-> w]
          BY <3>2, Zenon DEF w
        <5> QED
          BY <5>1
      <4>3. WithoutEmpty(q) = w
        BY <2>3, <3>4, Zenon DEF q, w
      <4> QED
        BY <4>1, <4>2, <4>3
    <3> QED
      BY <2>1, <3>5 DEF k
  <2> QED
    BY <2>5, <2>6
<1> HIDE DEF T
<1>3. \A m \in 0..turns : m \in T
  BY <1>1, <1>2, InductUpTo
<1>4. turns \in T
  BY <1>3
<1> QED
  BY <1>4 DEF T

SplitRejoins(v, n, m) ==
    LET all == Split(v, n, m, TRUE)
    IN  /\ Joined(all, n) = Chars(v)
        /\ m >= 0 => Len(all) <= m + 1
        /\ m = -1 => \A i \in DOMAIN all : Find(Chars(all[i]), n, 0) = npos
        /\ Split(v, n, m, FALSE) = WithoutEmpty(all)

LEMMA SplitRejoinsOK ==
    ASSUME text \in Texts, NEW v \in Views, NEW n \in Seq(Ascii), NEW m \in Int, SplitReturns(n, m)
    PROVE  SplitRejoins(v, n, m)
<1> DEFINE turns == TurnsOf(v, m)
<1>1. turns \in Nat /\ (m >= 0 => turns = m) /\ (m < 0 => turns = v.len) /\ v.len \in Nat
  BY ViewFacts DEF TurnsOf
<1>2. PICK g \in [0..turns -> SplitStates] : SplitTurns(g, turns, v, n, TRUE)
  <2> HIDE DEF turns
  <2>1. TRUE \in BOOLEAN
    OBVIOUS
  <2> QED
    BY <1>1, <2>1, SplitTurnsExist
<1>3. PICK h \in [0..turns -> SplitStates] : SplitTurns(h, turns, v, n, FALSE)
  <2> HIDE DEF turns
  <2>1. FALSE \in BOOLEAN
    OBVIOUS
  <2> QED
    BY <1>1, <2>1, SplitTurnsExist
<1>4. Split(v, n, m, TRUE) = g[turns].result \o KeptPiece(g[turns].str, TRUE)
  BY <1>2, SplitIs
<1>5. Split(v, n, m, FALSE) = h[turns].result \o KeptPiece(h[turns].str, FALSE)
  BY <1>3, SplitIs
<1> HIDE DEF turns
<1>6. SplitSoFar(g[turns], v, n, turns)
  BY <1>1, <1>2, SplitKeepsAll
<1>7. h[turns].str = g[turns].str /\ h[turns].result = WithoutEmpty(g[turns].result)
  BY <1>1, <1>2, <1>3, SplitDropsEmpty
<1> DEFINE res == g[turns].result
           x == g[turns].str
           all == res \o <<x>>
<1>8. g[turns] \in SplitStates /\ res \in Seq(Views) /\ x \in Views
  BY <1>6 DEF SplitSoFar, SplitStates
<1>9. /\ Before(res, n) \o Chars(x) = Chars(v) /\ Len(res) <= turns
      /\ n # <<>> => /\ \A j \in 1..Len(res) : Find(Chars(res[j]), n, 0) = npos
                     /\ Find(Chars(x), n, 0) = npos \/ x.len <= v.len - turns
  BY <1>6 DEF SplitSoFar
<1>10. Split(v, n, m, TRUE) = all
  BY <1>4 DEF KeptPiece
<1>11. Split(v, n, m, FALSE) = WithoutEmpty(res) \o KeptPiece(x, FALSE)
  BY <1>5, <1>7
<1> HIDE DEF res, x
<1>12. Joined(all, n) = Chars(v)
  BY <1>8, <1>9, JoinedIs
<1>13. WithoutEmpty(all) = WithoutEmpty(res) \o KeptPiece(x, FALSE)
  BY <1>8, WithoutEmptyFacts
<1>14. /\ all \in Seq(Views) /\ Len(all) = Len(res) + 1 /\ DOMAIN all = 1..Len(all)
       /\ (\A j \in 1..Len(res) : all[j] = res[j]) /\ all[Len(res) + 1] = x /\ Len(res) \in Nat
  BY <1>8
<1> HIDE DEF all
<1>15. m >= 0 => Len(all) <= m + 1
  BY <1>1, <1>9, <1>14
<1>16. ASSUME m = -1, NEW i \in DOMAIN all PROVE Find(Chars(all[i]), n, 0) = npos
  <2>1. n # <<>> /\ turns = v.len
    BY <1>1, <1>16 DEF SplitReturns
  <2>2. CASE i \in 1..Len(res)
    BY <2>1, <2>2, <1>9, <1>14
  <2>3. CASE i = Len(res) + 1
    <3>1. Find(Chars(x), n, 0) = npos \/ x.len <= v.len - turns
      BY <2>1, <1>9
    <3>2. ASSUME x.len <= v.len - turns PROVE Find(Chars(x), n, 0) = npos
      <4>1. x.len <= 0 /\ Len(Chars(x)) = x.len /\ x.len \in Nat
        BY <3>2, <2>1, <1>1, <1>8, CharsIs, ViewFacts
      <4>2. Len(n) \in Nat /\ Len(n) >= 1
        BY <2>1, EmptySeq
      <4> DEFINE f == Find(Chars(x), n, 0)
      <4>3. FoundAt(Chars(x), n, 0, f) \/ FoundNot(Chars(x), n, 0, f)
        BY <1>8, FoundInView
      <4> HIDE DEF f
      <4>4. ~FoundAt(Chars(x), n, 0, f)
        BY <4>1, <4>2 DEF FoundAt
      <4> QED
        BY <4>3, <4>4 DEF FoundNot, f
    <3> QED
      BY <3>1, <3>2, <2>3, <1>14
  <2> QED
    BY <2>2, <2>3, <1>14
<1> QED
  BY <1>10, <1>11, <1>12, <1>13, <1>15, <1>16 DEF SplitRejoins

LEMMA SplitsRejoinIs == SrInv => SplitsRejoin
<1> SUFFICES ASSUME SrInv PROVE SplitsRejoin
  OBVIOUS
<1>1. text \in Texts /\ view \in Views
  BY DEF SrInv
<1>2. ASSUME NEW n \in Needles
      PROVE  /\ \A m \in -1..2 : SplitReturns(n, m) => SplitRejoins(view, n, m)
             /\ PairsRejoin(view, n)
             /\ LET t == Chars(Trim(view, Range(n)))
                IN  t = <<>> \/ (t[1] \notin Range(n) /\ t[Len(t)] \notin Range(n))
  <2>1. n \in Seq(Ascii)
    BY NeedlesTyped
  <2>2. \A m \in -1..2 : SplitReturns(n, m) => SplitRejoins(view, n, m)
    <3>1. ASSUME NEW m \in -1..2, SplitReturns(n, m) PROVE SplitRejoins(view, n, m)
      <4>1. m \in Int
        OBVIOUS
      <4> QED
        BY <4>1, <3>1, <2>1, <1>1, SplitRejoinsOK
    <3> QED
      BY <3>1
  <2>3. PairsRejoin(view, n)
    BY <1>1, <2>1, PairsRejoinOK
  <2> DEFINE set == Range(n)
  <2> HIDE DEF set
  <2>4. LET t == Chars(Trim(view, set)) IN t = <<>> \/ (t[1] \notin set /\ t[Len(t)] \notin set)
    BY <1>1, TrimLeavesNone
  <2> QED
    BY <2>2, <2>3, <2>4 DEF set
<1> QED
  BY <1>2 DEF SplitsRejoin, SplitRejoins, PairsRejoin

-----------------------------------------------------------------------------
(* The order of compare_numeric.  The end of a text comes before every     *)
(* character.                                                              *)
CharAt(s, i) == IF i < Len(s) THEN s[i + 1] ELSE -1
Sign(x, y) == IF x = y THEN 0 ELSE IF x < y THEN -1 ELSE 1
Common(s, t) == MinOf(Len(s), Len(t))

LEMMA CharAtIs ==
    ASSUME NEW s \in Seq(Ascii), NEW i \in Nat
    PROVE  /\ CharAt(s, i) \in Int /\ Len(s) \in Nat
           /\ i < Len(s) => CharAt(s, i) = s[i + 1] /\ CharAt(s, i) >= 0
           /\ ~(i < Len(s)) => CharAt(s, i) = -1
           /\ DigitAt(s, i) <=> 48 <= CharAt(s, i) /\ CharAt(s, i) <= 57
           /\ DigitAt(s, i) => i < Len(s)
<1>1. Len(s) \in Nat
  OBVIOUS
<1>2. CASE i < Len(s)
  <2> DEFINE c == s[i + 1]
  <2>1. c \in Int /\ c >= 0
    <3>1. i + 1 \in 1..Len(s)
      BY <1>1, <1>2
    <3>2. c \in Ascii
      BY <3>1, ElementOfSeq
    <3> QED
      BY <3>2, AsciiIs
  <2>2. CharAt(s, i) = c
    BY <1>2 DEF CharAt
  <2>3. DigitAt(s, i) <=> IsDigit(c)
    BY <1>2 DEF DigitAt
  <2> HIDE DEF c
  <2>4. IsDigit(c) <=> 48 <= c /\ c <= 57
    BY <2>1 DEF IsDigit
  <2> QED
    BY <1>1, <1>2, <2>1, <2>2, <2>3, <2>4 DEF c
<1>3. CASE ~(i < Len(s))
  BY <1>1, <1>3 DEF CharAt, DigitAt
<1> QED
  BY <1>2, <1>3

LEMMA CommonIs ==
    ASSUME NEW s \in Seq(Ascii), NEW t \in Seq(Ascii)
    PROVE  /\ Common(s, t) \in Nat /\ Common(s, t) <= Len(s) /\ Common(s, t) <= Len(t)
           /\ Common(s, t) = Len(s) \/ Common(s, t) = Len(t)
           /\ Common(s, t) = Common(t, s) /\ Len(s) \in Nat /\ Len(t) \in Nat
BY DEF Common, MinOf

(* d is where the two first differ from i on, or where one of them ends.   *)
IsDiff(s, t, i, d) ==
    /\ d \in i..Common(s, t)
    /\ \A k \in i..(d - 1) : CharAt(s, k) = CharAt(t, k)
    /\ d = Common(s, t) \/ CharAt(s, d) # CharAt(t, d)

LEMMA DiffExists ==
    ASSUME NEW s \in Seq(Ascii), NEW t \in Seq(Ascii), NEW i \in 0..Common(s, t)
    PROVE  \E d : IsDiff(s, t, i, d)
<1> DEFINE n == Common(s, t)
           D == {k \in i..n : k = n \/ CharAt(s, k) # CharAt(t, k)}
<1>1. n \in Nat /\ i \in Nat /\ i <= n
  BY CommonIs
<1>2. D \in SUBSET Nat /\ n \in D
  <2> HIDE DEF n
  <2> QED
    BY <1>1
<1>3. PICK d \in D : \A k \in D : d <= k
  <2> HIDE DEF D
  <2> QED
    BY <1>2, Least
<1>4. d \in i..n /\ (d = n \/ CharAt(s, d) # CharAt(t, d))
  OBVIOUS
<1>5. ASSUME NEW k \in i..(d - 1) PROVE CharAt(s, k) = CharAt(t, k)
  <2> HIDE DEF n
  <2>1. k \in i..n /\ ~(d <= k)
    BY <1>1, <1>4
  <2> QED
    BY <2>1, <1>3
<1> QED
  BY <1>4, <1>5 DEF IsDiff

LEMMA DiffUnique ==
    ASSUME NEW s \in Seq(Ascii), NEW t \in Seq(Ascii), NEW i \in Nat, NEW d, NEW e,
           IsDiff(s, t, i, d), IsDiff(s, t, i, e)
    PROVE  d = e
<1> DEFINE n == Common(s, t)
<1>1. n \in Nat /\ d \in i..n /\ e \in i..n /\ (d = n \/ CharAt(s, d) # CharAt(t, d))
      /\ (e = n \/ CharAt(s, e) # CharAt(t, e))
  BY CommonIs DEF IsDiff
<1>2. (\A k \in i..(d - 1) : CharAt(s, k) = CharAt(t, k)) /\ (\A k \in i..(e - 1) : CharAt(s, k) = CharAt(t, k))
  BY DEF IsDiff
<1> HIDE DEF n
<1>3. CASE d < e
  <2>1. d \in i..(e - 1) /\ d # n
    BY <1>1, <1>3
  <2> QED
    BY <2>1, <1>1, <1>2
<1>4. CASE e < d
  <2>1. e \in i..(d - 1) /\ e # n
    BY <1>1, <1>4
  <2> QED
    BY <2>1, <1>1, <1>2
<1> QED
  BY <1>1, <1>3, <1>4

(* e is where the digits of s end that begin at d.                         *)
IsEnd(s, d, e) ==
    e \in d..Len(s) /\ ~DigitAt(s, e) /\ \A k \in d..(e - 1) : DigitAt(s, k)
DigitsEnd(s, d) == CHOOSE e : IsEnd(s, d, e)

LEMMA EndIs ==
    ASSUME NEW s \in Seq(Ascii), NEW d \in 0..Len(s)
    PROVE  /\ IsEnd(s, d, DigitsEnd(s, d)) /\ DigitsEnd(s, d) \in d..Len(s)
           /\ \A e : IsEnd(s, d, e) => e = DigitsEnd(s, d)
<1> DEFINE n == Len(s)
           E == {k \in d..n : ~DigitAt(s, k)}
<1>1. n \in Nat /\ d \in Nat /\ d <= n /\ ~DigitAt(s, n)
  BY DEF DigitAt
<1>2. E \in SUBSET Nat /\ n \in E
  <2> HIDE DEF n
  <2> QED
    BY <1>1
<1>3. PICK e \in E : \A k \in E : e <= k
  <2> HIDE DEF E
  <2> QED
    BY <1>2, Least
<1>4. e \in d..n /\ ~DigitAt(s, e)
  OBVIOUS
<1>5. ASSUME NEW k \in d..(e - 1) PROVE DigitAt(s, k)
  <2> HIDE DEF n
  <2>1. k \in d..n /\ ~(e <= k)
    BY <1>1, <1>4
  <2> QED
    BY <2>1, <1>3
<1>6. IsEnd(s, d, e)
  BY <1>4, <1>5 DEF IsEnd
<1>7. IsEnd(s, d, DigitsEnd(s, d))
  BY <1>6 DEF DigitsEnd
<1> HIDE DEF n, E
<1>8. ASSUME NEW x, NEW y, IsEnd(s, d, x), IsEnd(s, d, y) PROVE x = y
  <2>1. /\ x \in d..n /\ y \in d..n /\ ~DigitAt(s, x) /\ ~DigitAt(s, y)
        /\ (\A k \in d..(x - 1) : DigitAt(s, k)) /\ (\A k \in d..(y - 1) : DigitAt(s, k))
    BY <1>8 DEF IsEnd, n
  <2>2. ~(x \in d..(y - 1)) /\ ~(y \in d..(x - 1))
    BY <2>1
  <2> QED
    BY <2>1, <2>2, <1>1
<1> QED
  BY <1>7, <1>8 DEF IsEnd

LEMMA EndLater ==
    ASSUME NEW s \in Seq(Ascii), NEW d \in 0..Len(s), NEW k \in d..DigitsEnd(s, d)
    PROVE  DigitsEnd(s, k) = DigitsEnd(s, d) /\ k \in 0..Len(s)
<1> DEFINE e == DigitsEnd(s, d)
           n == Len(s)
<1>1. IsEnd(s, d, e) /\ e \in d..n /\ n \in Nat
  BY EndIs
<1> HIDE DEF e
<1>2. k \in d..e
  BY DEF e
<1>3. e \in k..n /\ ~DigitAt(s, e) /\ k \in 0..n
  BY <1>1, <1>2 DEF IsEnd
<1>4. ASSUME NEW x \in k..(e - 1) PROVE DigitAt(s, x)
  <2>1. x \in d..(e - 1)
    BY <1>2
  <2> QED
    BY <2>1, <1>1 DEF IsEnd
<1>5. IsEnd(s, k, e)
  BY <1>3, <1>4 DEF IsEnd
<1> QED
  BY <1>3, <1>5, EndIs DEF e

(* What a digit says of where the digits end.                              *)
LEMMA EndOf ==
    ASSUME NEW s \in Seq(Ascii), NEW d \in 0..Len(s)
    PROVE  DigitsEnd(s, d) > d <=> DigitAt(s, d)
<1> DEFINE e == DigitsEnd(s, d)
<1>1. IsEnd(s, d, e) /\ e \in d..Len(s) /\ Len(s) \in Nat
  BY EndIs
<1> HIDE DEF e
<1>2. CASE e > d
  <2>1. d \in d..(e - 1)
    BY <1>1, <1>2
  <2> QED
    BY <2>1, <1>1, <1>2 DEF IsEnd, e
<1>3. CASE ~(e > d)
  <2>1. e = d
    BY <1>1, <1>3
  <2> QED
    BY <2>1, <1>1, <1>3 DEF IsEnd, e
<1> QED
  BY <1>2, <1>3

(* compare is the order of the characters where the two first differ.      *)
LEMMA CompareIs ==
    ASSUME NEW s \in Seq(Ascii), NEW t \in Seq(Ascii), NEW d, IsDiff(s, t, 0, d)
    PROVE  Compare(s, t) = Sign(CharAt(s, d), CharAt(t, d))
<1> DEFINE n == Common(s, t)
           D == {i \in 1..n : s[i] # t[i]}
<1>1. /\ n \in Nat /\ n <= Len(s) /\ n <= Len(t) /\ (n = Len(s) \/ n = Len(t))
      /\ Len(s) \in Nat /\ Len(t) \in Nat
  BY CommonIs
<1>2. /\ d \in 0..n /\ (\A k \in 0..(d - 1) : CharAt(s, k) = CharAt(t, k))
      /\ (d = n \/ CharAt(s, d) # CharAt(t, d))
  BY DEF IsDiff
<1>3. Compare(s, t) =
         IF D # {} THEN IF s[Min(D)] < t[Min(D)] THEN -1 ELSE 1
         ELSE IF Len(s) = Len(t) THEN 0 ELSE IF Len(s) < Len(t) THEN -1 ELSE 1
  BY DEF Compare, Common
<1> HIDE DEF n
<1>4. ASSUME NEW k \in 0..(n - 1)
      PROVE  CharAt(s, k) = s[k + 1] /\ CharAt(t, k) = t[k + 1] /\ CharAt(s, k) \in Int /\ CharAt(t, k) \in Int
  <2>1. k \in Nat /\ k < Len(s) /\ k < Len(t)
    BY <1>1
  <2> QED
    BY <2>1, CharAtIs
<1>5. ASSUME NEW i \in D PROVE i > d
  <2>1. i \in 1..n /\ s[i] # t[i]
    OBVIOUS
  <2> DEFINE k == i - 1
  <2>2. k \in 0..(n - 1) /\ k + 1 = i
    BY <1>1, <2>1
  <2> HIDE DEF k, D
  <2>3. CharAt(s, k) # CharAt(t, k)
    BY <2>1, <2>2, <1>4
  <2>4. ~(k \in 0..(d - 1))
    BY <2>3, <1>2
  <2> QED
    BY <2>1, <2>2, <2>4, <1>2
<1>6. CASE d = n
  <2>1. D = {}
    <3>1. \A i \in D : i \in 1..n
      OBVIOUS
    <3> HIDE DEF D
    <3> QED
      BY <1>1, <1>5, <1>6, <3>1
  <2> HIDE DEF D
  <2>2. CASE Len(s) = Len(t)
    <3>1. ~(n < Len(s)) /\ ~(n < Len(t))
      BY <1>1, <2>2
    <3> QED
      BY <3>1, <2>1, <2>2, <1>3, <1>6 DEF CharAt, Sign
  <2>3. CASE Len(s) < Len(t)
    <3>1. ~(n < Len(s)) /\ n < Len(t)
      BY <1>1, <2>3
    <3>2. CharAt(s, n) = -1 /\ CharAt(t, n) \in Int /\ CharAt(t, n) >= 0
      BY <3>1, <1>1, CharAtIs
    <3> QED
      BY <3>2, <2>1, <2>3, <1>1, <1>3, <1>6 DEF Sign
  <2>4. CASE Len(s) > Len(t)
    <3>1. n < Len(s) /\ ~(n < Len(t))
      BY <1>1, <2>4
    <3>2. CharAt(t, n) = -1 /\ CharAt(s, n) \in Int /\ CharAt(s, n) >= 0
      BY <3>1, <1>1, CharAtIs
    <3> QED
      BY <3>2, <2>1, <2>4, <1>1, <1>3, <1>6 DEF Sign
  <2> QED
    BY <2>2, <2>3, <2>4, <1>1
<1>7. CASE d # n
  <2>1. d \in 0..(n - 1) /\ CharAt(s, d) # CharAt(t, d) /\ d + 1 \in 1..n
    BY <1>1, <1>2, <1>7
  <2>2. d + 1 \in D
    BY <2>1, <1>4
  <2>3. D \in SUBSET Nat
    BY <1>1
  <2>4. Min(D) = d + 1
    <3> HIDE DEF D
    <3>1. Min(D) \in D /\ Min(D) <= d + 1
      BY <2>2, <2>3, MinIs
    <3>2. Min(D) > d /\ Min(D) \in Nat
      BY <3>1, <2>3, <1>5
    <3> QED
      BY <3>1, <3>2, <1>2
  <2> HIDE DEF D
  <2>5. CharAt(s, d) = s[d + 1] /\ CharAt(t, d) = t[d + 1]
    BY <2>1, <1>4
  <2> QED
    BY <2>1, <2>2, <2>4, <2>5, <1>3 DEF Sign
<1> QED
  BY <1>6, <1>7

LEMMA SubSeqChars ==
    ASSUME NEW s \in Seq(Ascii), NEW i \in Nat, NEW j \in Nat, i <= j, j <= Len(s)
    PROVE  LET u == SubSeq(s, i + 1, j)
           IN  /\ u \in Seq(Ascii) /\ Len(u) = j - i
               /\ \A k \in 0..(j - i - 1) : CharAt(u, k) = CharAt(s, i + k)
<1> DEFINE n == j - i
           u == SubSeq(s, i + 1, i + n)
<1>1. n \in Nat /\ i + n = j /\ Len(s) \in Nat
  OBVIOUS
<1> HIDE DEF n
<1>2. u \in Seq(Ascii) /\ Len(u) = n /\ \A k \in 1..n : u[k] = s[i + k]
  BY <1>1, CutIs
<1> HIDE DEF u
<1>3. ASSUME NEW k \in 0..(n - 1) PROVE CharAt(u, k) = CharAt(s, i + k)
  <2> DEFINE m == k + 1
  <2>1. m \in 1..n /\ k < Len(u) /\ i + k < Len(s) /\ (i + k) + 1 = i + m
    BY <1>1, <1>2
  <2>2. CharAt(u, k) = u[m] /\ CharAt(s, i + k) = s[(i + k) + 1]
    BY <2>1 DEF CharAt
  <2> HIDE DEF m
  <2> QED
    BY <2>1, <2>2, <1>2
<1> QED
  BY <1>1, <1>2, <1>3 DEF u, n

(* Two runs of digits of the same length.                                  *)
LEMMA CompareRuns ==
    ASSUME NEW s \in Seq(Ascii), NEW t \in Seq(Ascii), NEW i \in Nat, NEW j \in Nat,
           i < j, j <= Common(s, t), NEW d, IsDiff(s, t, i, d)
    PROVE  Compare(SubSeq(s, i + 1, j), SubSeq(t, i + 1, j))
             = IF d < j THEN Sign(CharAt(s, d), CharAt(t, d)) ELSE 0
<1> DEFINE u == SubSeq(s, i + 1, j)
           w == SubSeq(t, i + 1, j)
           n == j - i
<1>1. /\ Common(s, t) \in Nat /\ Common(s, t) <= Len(s) /\ Common(s, t) <= Len(t)
      /\ Len(s) \in Nat /\ Len(t) \in Nat
  BY CommonIs
<1>2. /\ u \in Seq(Ascii) /\ Len(u) = n /\ \A k \in 0..(n - 1) : CharAt(u, k) = CharAt(s, i + k)
  BY <1>1, SubSeqChars
<1>3. /\ w \in Seq(Ascii) /\ Len(w) = n /\ \A k \in 0..(n - 1) : CharAt(w, k) = CharAt(t, i + k)
  BY <1>1, SubSeqChars
<1> HIDE DEF u, w
<1>4. n \in Nat /\ n > 0 /\ i + n = j
  OBVIOUS
<1> HIDE DEF n
<1>5. Common(u, w) = n
  BY <1>2, <1>3, <1>4 DEF Common, MinOf
<1>6. /\ d \in i..Common(s, t) /\ (\A k \in i..(d - 1) : CharAt(s, k) = CharAt(t, k))
      /\ (d = Common(s, t) \/ CharAt(s, d) # CharAt(t, d))
  BY DEF IsDiff
<1>7. CASE d < j
  <2> DEFINE e == d - i
  <2>1. e \in 0..(n - 1) /\ i + e = d /\ d # Common(s, t) /\ e \in 0..n
    BY <1>1, <1>4, <1>6, <1>7
  <2> HIDE DEF e
  <2>2. CharAt(u, e) = CharAt(s, d) /\ CharAt(w, e) = CharAt(t, d)
    BY <2>1, <1>2, <1>3
  <2>3. ASSUME NEW k \in 0..(e - 1) PROVE CharAt(u, k) = CharAt(w, k)
    <3>1. k \in 0..(n - 1) /\ i + k \in i..(d - 1)
      BY <2>1, <1>6, <1>4
    <3>2. CharAt(s, i + k) = CharAt(t, i + k)
      BY <3>1, <1>6
    <3> QED
      BY <3>1, <3>2, <1>2, <1>3
  <2>4. IsDiff(u, w, 0, e)
    BY <2>1, <2>2, <2>3, <1>5, <1>6 DEF IsDiff
  <2>5. Compare(u, w) = Sign(CharAt(u, e), CharAt(w, e))
    BY <2>4, <1>2, <1>3, CompareIs
  <2> QED
    BY <2>2, <2>5, <1>7 DEF u, w
<1>8. CASE ~(d < j)
  <2>1. ASSUME NEW k \in 0..(n - 1) PROVE CharAt(u, k) = CharAt(w, k)
    <3>1. i + k \in i..(d - 1)
      BY <1>1, <1>4, <1>6, <1>8
    <3>2. CharAt(s, i + k) = CharAt(t, i + k)
      BY <3>1, <1>6
    <3> QED
      BY <3>2, <1>2, <1>3
  <2>2. IsDiff(u, w, 0, n)
    BY <2>1, <1>4, <1>5 DEF IsDiff
  <2>3. Compare(u, w) = Sign(CharAt(u, n), CharAt(w, n))
    BY <2>2, <1>2, <1>3, CompareIs
  <2>4. CharAt(u, n) = -1 /\ CharAt(w, n) = -1
    BY <1>2, <1>3, <1>4 DEF CharAt
  <2> QED
    BY <2>3, <2>4, <1>8 DEF u, w, Sign
<1> QED
  BY <1>7, <1>8

LEMMA RunEndIs ==
    ASSUME NEW s \in Seq(Ascii), NEW t \in Seq(Ascii), NEW i \in Nat, i < Common(s, t)
    PROVE  LET j == RunEnd(s, t, i)
           IN  /\ j \in (i + 1)..Common(s, t) /\ ~(DigitAt(s, j) /\ DigitAt(t, j))
               /\ \A k \in (i + 1)..(j - 1) : DigitAt(s, k) /\ DigitAt(t, k)
<1> DEFINE n == Common(s, t)
           E == {j \in (i + 1)..n : ~DigitAt(s, j) \/ ~DigitAt(t, j)}
           j == RunEnd(s, t, i)
<1>1. n \in Nat /\ i < n /\ (~DigitAt(s, n) \/ ~DigitAt(t, n))
  BY CommonIs DEF DigitAt
<1>2. j = Min(E)
  BY DEF RunEnd, Common
<1>3. E \in SUBSET Nat /\ n \in E
  <2> HIDE DEF n
  <2> QED
    BY <1>1
<1>4. j \in E /\ \A k \in E : j <= k
  <2> HIDE DEF E, j
  <2>1. E # {}
    BY <1>3
  <2> QED
    BY <1>2, <1>3, <2>1, MinIs
<1> HIDE DEF n, j
<1>5. j \in (i + 1)..n /\ ~(DigitAt(s, j) /\ DigitAt(t, j))
  BY <1>4
<1>6. ASSUME NEW k \in (i + 1)..(j - 1) PROVE DigitAt(s, k) /\ DigitAt(t, k)
  <2>1. k \in (i + 1)..n /\ ~(j <= k)
    BY <1>1, <1>5
  <2>2. ~(k \in E)
    BY <1>4, <2>1
  <2> QED
    BY <2>1, <2>2
<1> QED
  BY <1>5, <1>6 DEF n, j

(* What it says of two texts that first differ at d from i on: the longer  *)
(* run of digits, or the greater character.                                *)
SameRun(s, t, i, d) == (d > i /\ DigitAt(s, d - 1)) \/ (DigitAt(s, d) /\ DigitAt(t, d))
Verdict(s, t, i, d) ==
    IF SameRun(s, t, i, d) /\ DigitsEnd(s, d) # DigitsEnd(t, d)
    THEN Sign(DigitsEnd(s, d), DigitsEnd(t, d)) ELSE Sign(CharAt(s, d), CharAt(t, d))

LEMMA VerdictAtEnd ==
    ASSUME NEW s \in Seq(Ascii), NEW t \in Seq(Ascii), NEW d, IsDiff(s, t, Common(s, t), d)
    PROVE  Verdict(s, t, Common(s, t), d)
             = IF Len(s) = Len(t) THEN 0 ELSE IF Len(s) < Len(t) THEN -1 ELSE 1
<1> DEFINE n == Common(s, t)
<1>1. /\ n \in Nat /\ n <= Len(s) /\ n <= Len(t) /\ (n = Len(s) \/ n = Len(t))
      /\ Len(s) \in Nat /\ Len(t) \in Nat
  BY CommonIs
<1>2. d = n
  BY <1>1 DEF IsDiff
<1> HIDE DEF n
<1>3. /\ CharAt(s, n) \in Int /\ (n < Len(s) => CharAt(s, n) >= 0) /\ (~(n < Len(s)) => CharAt(s, n) = -1)
      /\ CharAt(t, n) \in Int /\ (n < Len(t) => CharAt(t, n) >= 0) /\ (~(n < Len(t)) => CharAt(t, n) = -1)
      /\ (DigitAt(s, n) => n < Len(s)) /\ (DigitAt(t, n) => n < Len(t))
  BY <1>1, CharAtIs
<1>4. ~SameRun(s, t, n, n)
  BY <1>1, <1>3 DEF SameRun
<1>5. Verdict(s, t, n, n) = Sign(CharAt(s, n), CharAt(t, n))
  BY <1>4 DEF Verdict
<1>6. Sign(CharAt(s, n), CharAt(t, n)) = IF Len(s) = Len(t) THEN 0 ELSE IF Len(s) < Len(t) THEN -1 ELSE 1
  BY <1>1, <1>3 DEF Sign
<1> QED
  BY <1>2, <1>5, <1>6 DEF n

LEMMA VerdictNoRun ==
    ASSUME NEW s \in Seq(Ascii), NEW t \in Seq(Ascii), NEW i \in Nat, i < Common(s, t),
           NEW d, IsDiff(s, t, i, d), ~(DigitAt(s, i) /\ DigitAt(t, i))
    PROVE  IF s[i + 1] # t[i + 1]
           THEN Verdict(s, t, i, d) = IF s[i + 1] < t[i + 1] THEN -1 ELSE 1
           ELSE IsDiff(s, t, i + 1, d) /\ Verdict(s, t, i, d) = Verdict(s, t, i + 1, d)
<1> DEFINE n == Common(s, t)
<1>1. n \in Nat /\ i < n /\ n <= Len(s) /\ n <= Len(t) /\ Len(s) \in Nat /\ Len(t) \in Nat
  BY CommonIs
<1>2. /\ d \in i..n /\ (\A k \in i..(d - 1) : CharAt(s, k) = CharAt(t, k))
      /\ (d = n \/ CharAt(s, d) # CharAt(t, d))
  BY DEF IsDiff
<1> HIDE DEF n
<1>3. /\ CharAt(s, i) = s[i + 1] /\ CharAt(t, i) = t[i + 1] /\ CharAt(s, i) \in Int /\ CharAt(t, i) \in Int
      /\ (DigitAt(s, i) <=> 48 <= CharAt(s, i) /\ CharAt(s, i) <= 57)
      /\ (DigitAt(t, i) <=> 48 <= CharAt(t, i) /\ CharAt(t, i) <= 57)
  <2>1. i < Len(s) /\ i < Len(t)
    BY <1>1
  <2> QED
    BY <2>1, CharAtIs
<1>4. CASE s[i + 1] # t[i + 1]
  <2>1. d = i
    <3>1. ~(i \in i..(d - 1))
      BY <1>2, <1>3, <1>4
    <3> QED
      BY <3>1, <1>1, <1>2
  <2>2. ~SameRun(s, t, i, i)
    BY DEF SameRun
  <2> QED
    BY <2>1, <2>2, <1>3, <1>4 DEF Verdict, Sign
<1>5. CASE s[i + 1] = t[i + 1]
  <2>1. d \in (i + 1)..n
    BY <1>1, <1>2, <1>3, <1>5
  <2>2. \A k \in (i + 1)..(d - 1) : CharAt(s, k) = CharAt(t, k)
    BY <1>2
  <2>3. IsDiff(s, t, i + 1, d)
    BY <2>1, <2>2, <1>2 DEF IsDiff, n
  <2>4. ~DigitAt(s, i)
    BY <1>3, <1>5
  <2>5. SameRun(s, t, i, d) <=> SameRun(s, t, i + 1, d)
    <3>1. CASE d = i + 1
      <4>1. d - 1 = i /\ ~(d > i + 1)
        BY <3>1
      <4> QED
        BY <4>1, <2>4 DEF SameRun
    <3>2. CASE d # i + 1
      <4>1. d > i /\ d > i + 1
        BY <3>2, <2>1
      <4> QED
        BY <4>1 DEF SameRun
    <3> QED
      BY <3>1, <3>2
  <2> QED
    BY <2>3, <2>5, <1>5 DEF Verdict
<1> QED
  BY <1>4, <1>5

LEMMA VerdictRun ==
    ASSUME NEW s \in Seq(Ascii), NEW t \in Seq(Ascii), NEW i \in Nat, i < Common(s, t),
           NEW d, IsDiff(s, t, i, d), DigitAt(s, i), DigitAt(t, i)
    PROVE  LET j == RunEnd(s, t, i)
               r == Compare(SubSeq(s, i + 1, j), SubSeq(t, i + 1, j))
           IN  IF DigitAt(s, j) # DigitAt(t, j) THEN Verdict(s, t, i, d) = IF DigitAt(t, j) THEN -1 ELSE 1
               ELSE IF r # 0 THEN Verdict(s, t, i, d) = r
               ELSE IsDiff(s, t, j, d) /\ Verdict(s, t, i, d) = Verdict(s, t, j, d)
<1> DEFINE n == Common(s, t)
           j == RunEnd(s, t, i)
           r == Compare(SubSeq(s, i + 1, j), SubSeq(t, i + 1, j))
<1>1. n \in Nat /\ i < n /\ n <= Len(s) /\ n <= Len(t) /\ Len(s) \in Nat /\ Len(t) \in Nat
  BY CommonIs
<1>2. /\ d \in i..n /\ (\A k \in i..(d - 1) : CharAt(s, k) = CharAt(t, k))
      /\ (d = n \/ CharAt(s, d) # CharAt(t, d))
  BY DEF IsDiff
<1>3. /\ j \in (i + 1)..n /\ ~(DigitAt(s, j) /\ DigitAt(t, j))
      /\ \A k \in (i + 1)..(j - 1) : DigitAt(s, k) /\ DigitAt(t, k)
  BY RunEndIs
<1> HIDE DEF j
<1>4. j \in Nat /\ i < j /\ j <= n /\ \A k \in i..(j - 1) : DigitAt(s, k) /\ DigitAt(t, k)
  <2>1. \A k \in i..(j - 1) : k = i \/ k \in (i + 1)..(j - 1)
    OBVIOUS
  <2> QED
    BY <2>1, <1>1, <1>3
<1>5. r = IF d < j THEN Sign(CharAt(s, d), CharAt(t, d)) ELSE 0
  BY <1>4, CompareRuns
<1>9. DigitAt(s, j) # DigitAt(t, j) <=> ~(DigitAt(s, j) <=> DigitAt(t, j))
  BY DEF DigitAt
<1> HIDE DEF r, n
<1>6. ASSUME NEW k \in Nat, k <= n
      PROVE  /\ CharAt(s, k) \in Int /\ CharAt(t, k) \in Int /\ k \in 0..Len(s) /\ k \in 0..Len(t)
             /\ (DigitAt(s, k) <=> 48 <= CharAt(s, k) /\ CharAt(s, k) <= 57)
             /\ (DigitAt(t, k) <=> 48 <= CharAt(t, k) /\ CharAt(t, k) <= 57)
             /\ DigitsEnd(s, k) \in k..Len(s) /\ DigitsEnd(t, k) \in k..Len(t)
             /\ (DigitsEnd(s, k) > k <=> DigitAt(s, k)) /\ (DigitsEnd(t, k) > k <=> DigitAt(t, k))
  <2>1. k \in 0..Len(s) /\ k \in 0..Len(t)
    BY <1>1, <1>6
  <2>2. DigitsEnd(s, k) \in k..Len(s) /\ DigitsEnd(t, k) \in k..Len(t)
    BY <2>1, EndIs
  <2>3. (DigitsEnd(s, k) > k <=> DigitAt(s, k)) /\ (DigitsEnd(t, k) > k <=> DigitAt(t, k))
    BY <2>1, EndOf
  <2> QED
    BY <2>1, <2>2, <2>3, CharAtIs
<1>7. CASE d < j
  <2>1. d \in i..(j - 1) /\ DigitAt(s, d) /\ DigitAt(t, d) /\ d # n /\ CharAt(s, d) # CharAt(t, d)
    BY <1>2, <1>4, <1>7
  <2>2. SameRun(s, t, i, d)
    BY <2>1 DEF SameRun
  <2>3. d \in Nat /\ d <= n /\ d \in 0..Len(s) /\ d \in 0..Len(t)
    BY <1>1, <1>2
  <2>4. DigitsEnd(s, d) = DigitsEnd(s, j)
    <3> DEFINE e == DigitsEnd(s, d)
    <3>1. IsEnd(s, d, e) /\ e \in d..Len(s)
      BY <2>3, EndIs
    <3> HIDE DEF e
    <3>2. ~(e < j)
      <4> SUFFICES ASSUME e < j PROVE FALSE
        OBVIOUS
      <4>1. e \in i..(j - 1)
        BY <3>1, <1>2, <1>4
      <4> QED
        BY <4>1, <3>1, <1>4 DEF IsEnd
    <3>3. j \in d..e
      BY <3>1, <3>2, <1>4, <1>7, <2>3
    <3> QED
      BY <3>3, <2>3, EndLater DEF e
  <2>5. DigitsEnd(t, d) = DigitsEnd(t, j)
    <3> DEFINE e == DigitsEnd(t, d)
    <3>1. IsEnd(t, d, e) /\ e \in d..Len(t)
      BY <2>3, EndIs
    <3> HIDE DEF e
    <3>2. ~(e < j)
      <4> SUFFICES ASSUME e < j PROVE FALSE
        OBVIOUS
      <4>1. e \in i..(j - 1)
        BY <3>1, <1>2, <1>4
      <4> QED
        BY <4>1, <3>1, <1>4 DEF IsEnd
    <3>3. j \in d..e
      BY <3>1, <3>2, <1>4, <1>7, <2>3
    <3> QED
      BY <3>3, <2>3, EndLater DEF e
  <2>6. /\ DigitsEnd(s, j) \in j..Len(s) /\ DigitsEnd(t, j) \in j..Len(t)
        /\ (DigitsEnd(s, j) > j <=> DigitAt(s, j)) /\ (DigitsEnd(t, j) > j <=> DigitAt(t, j))
    BY <1>4, <1>6
  <2>7. r = Sign(CharAt(s, d), CharAt(t, d)) /\ r # 0
    BY <1>5, <1>7, <2>1 DEF Sign
  <2>8. CASE DigitAt(s, j) # DigitAt(t, j)
    <3>1. DigitsEnd(s, j) # DigitsEnd(t, j) /\ (DigitAt(t, j) <=> DigitsEnd(s, j) < DigitsEnd(t, j))
      BY <2>6, <2>8, <1>3, <1>9
    <3> QED
      BY <3>1, <2>2, <2>4, <2>5, <2>8 DEF Verdict, Sign, j, r
  <2>9. CASE DigitAt(s, j) = DigitAt(t, j)
    <3>1. DigitsEnd(s, j) = j /\ DigitsEnd(t, j) = j
      BY <2>6, <2>9, <1>3, <1>4
    <3>2. Verdict(s, t, i, d) = Sign(CharAt(s, d), CharAt(t, d))
      BY <3>1, <2>4, <2>5 DEF Verdict
    <3> QED
      BY <3>2, <2>7, <2>9 DEF j, r
  <2> QED
    BY <2>8, <2>9
<1>8. CASE ~(d < j)
  <2>1. d \in j..n /\ r = 0 /\ d > i /\ d \in Nat
    BY <1>2, <1>4, <1>5, <1>8
  <2>2. IsDiff(s, t, j, d)
    <3>1. \A k \in j..(d - 1) : k \in i..(d - 1)
      BY <1>4, <2>1
    <3> QED
      BY <3>1, <2>1, <1>2 DEF IsDiff, n
  <2>3. /\ CharAt(s, j) \in Int /\ CharAt(t, j) \in Int
        /\ (DigitAt(s, j) <=> 48 <= CharAt(s, j) /\ CharAt(s, j) <= 57)
        /\ (DigitAt(t, j) <=> 48 <= CharAt(t, j) /\ CharAt(t, j) <= 57)
        /\ DigitsEnd(s, j) \in j..Len(s) /\ DigitsEnd(t, j) \in j..Len(t)
        /\ (DigitsEnd(s, j) > j <=> DigitAt(s, j)) /\ (DigitsEnd(t, j) > j <=> DigitAt(t, j))
    BY <1>4, <1>6
  <2>4. DigitAt(s, j - 1)
    <3>1. j - 1 \in i..(j - 1)
      BY <1>4
    <3> QED
      BY <3>1, <1>4
  <2>5. CASE DigitAt(s, j) # DigitAt(t, j)
    <3>1. d = j
      <4>1. ~(j \in i..(d - 1))
        BY <1>2, <2>3, <2>5, <1>9
      <4> QED
        BY <4>1, <2>1, <1>4
    <3>2. SameRun(s, t, i, d)
      BY <3>1, <2>1, <2>4 DEF SameRun
    <3>3. DigitsEnd(s, j) # DigitsEnd(t, j) /\ (DigitAt(t, j) <=> DigitsEnd(s, j) < DigitsEnd(t, j))
      BY <2>3, <2>5, <1>3, <1>9
    <3> QED
      BY <3>1, <3>2, <3>3, <2>5 DEF Verdict, Sign, j, r
  <2>6. CASE DigitAt(s, j) = DigitAt(t, j)
    <3>1. Verdict(s, t, i, d) = Verdict(s, t, j, d)
      <4>1. CASE d = j
        <5>1. DigitsEnd(s, j) = j /\ DigitsEnd(t, j) = j
          BY <2>3, <2>6, <1>3, <1>4
        <5> QED
          BY <4>1, <5>1 DEF Verdict
      <4>2. CASE d # j
        <5>1. d > j /\ d > i
          BY <4>2, <2>1, <1>4
        <5>2. SameRun(s, t, i, d) <=> SameRun(s, t, j, d)
          BY <5>1 DEF SameRun
        <5> QED
          BY <5>2 DEF Verdict
      <4> QED
        BY <4>1, <4>2
    <3> QED
      BY <3>1, <2>1, <2>2, <2>6 DEF j, r
  <2> QED
    BY <2>5, <2>6
<1> QED
  BY <1>7, <1>8

DiffFrom(s, t, i) == CHOOSE d : IsDiff(s, t, i, d)

(* compare_numeric is this verdict.                                        *)
LEMMA NumericIs ==
    ASSUME NEW s \in Seq(Ascii), NEW t \in Seq(Ascii), NEW d, IsDiff(s, t, 0, d)
    PROVE  CompareNumeric(s, t) = Verdict(s, t, 0, d)
<1> DEFINE common == Common(s, t)
           D == 0..common
           longer == IF Len(s) = Len(t) THEN 0 ELSE IF Len(s) < Len(t) THEN -1 ELSE 1
           j(i) == RunEnd(s, t, i)
           r(i) == Compare(SubSeq(s, i + 1, j(i)), SubSeq(t, i + 1, j(i)))
           turn(f, i) == IF i = common THEN longer
              ELSE IF DigitAt(s, i) /\ DigitAt(t, i)
              THEN IF DigitAt(s, j(i)) # DigitAt(t, j(i)) THEN IF DigitAt(t, j(i)) THEN -1 ELSE 1
                   ELSE IF r(i) # 0 THEN r(i) ELSE f[j(i)]
              ELSE IF s[i + 1] # t[i + 1] THEN IF s[i + 1] < t[i + 1] THEN -1 ELSE 1
              ELSE f[i + 1]
           from == CHOOSE f : f = [i \in D |-> turn(f, i)]
           outcome(i) == Verdict(s, t, i, DiffFrom(s, t, i))
           ref == [i \in D |-> outcome(i)]
<1>1. CompareNumeric(s, t) = from[0]
  BY DEF CompareNumeric, Common
<1>2. common \in Nat
  BY CommonIs
<1>3. ASSUME NEW i \in D PROVE IsDiff(s, t, i, DiffFrom(s, t, i))
  <2>1. \E e : IsDiff(s, t, i, e)
    BY DiffExists
  <2> QED
    BY <2>1 DEF DiffFrom
<1>4. ASSUME NEW i \in D, NEW e, IsDiff(s, t, i, e) PROVE Verdict(s, t, i, e) = outcome(i)
  <2>1. i \in Nat /\ IsDiff(s, t, i, DiffFrom(s, t, i))
    BY <1>2, <1>3
  <2>2. e = DiffFrom(s, t, i)
    BY <2>1, <1>4, DiffUnique
  <2> QED
    BY <2>2
<1> DEFINE next(i) == IF DigitAt(s, i) /\ DigitAt(t, i) THEN j(i) ELSE i + 1
           stops(i) == \/ i = common
                       \/ DigitAt(s, i) /\ DigitAt(t, i) /\ (DigitAt(s, j(i)) # DigitAt(t, j(i)) \/ r(i) # 0)
                       \/ ~(DigitAt(s, i) /\ DigitAt(t, i)) /\ s[i + 1] # t[i + 1]
           answer(i) ==
              IF i = common THEN longer
              ELSE IF DigitAt(s, i) /\ DigitAt(t, i)
              THEN IF DigitAt(s, j(i)) # DigitAt(t, j(i)) THEN IF DigitAt(t, j(i)) THEN -1 ELSE 1 ELSE r(i)
              ELSE IF s[i + 1] < t[i + 1] THEN -1 ELSE 1
<1>5. \A f, i : turn(f, i) = IF stops(i) THEN answer(i) ELSE f[next(i)]
  <2> HIDE DEF common, longer, j, r
  <2> QED
    OBVIOUS
<1>6. ASSUME NEW i \in D, ~stops(i) PROVE next(i) \in D /\ next(i) > i /\ i # common
  <2>1. i \in Nat /\ i < common
    BY <1>2, <1>6
  <2>2. j(i) \in (i + 1)..common
    BY <2>1, RunEndIs
  <2> HIDE DEF j, common
  <2>3. next(i) \in (i + 1)..common
    BY <1>2, <2>1, <2>2
  <2> HIDE DEF next
  <2>4. next(i) \in D /\ next(i) > i
    BY <1>2, <2>1, <2>3
  <2> QED
    BY <2>1, <2>4, <1>2
<1>7. ASSUME NEW i \in D
      PROVE  outcome(i) = IF stops(i) THEN answer(i) ELSE outcome(next(i))
  <2> DEFINE e == DiffFrom(s, t, i)
  <2>1. IsDiff(s, t, i, e) /\ outcome(i) = Verdict(s, t, i, e) /\ i \in Nat
    BY <1>2, <1>3
  <2> HIDE DEF e
  <2>2. CASE i = common
    <3>1. Verdict(s, t, i, e) = longer
      BY <2>1, <2>2, VerdictAtEnd
    <3> HIDE DEF outcome, longer
    <3> QED
      BY <2>1, <2>2, <3>1
  <2>3. CASE i # common /\ DigitAt(s, i) /\ DigitAt(t, i)
    <3>1. i < common
      BY <1>2, <2>3
    <3>2. IF DigitAt(s, j(i)) # DigitAt(t, j(i)) THEN Verdict(s, t, i, e) = IF DigitAt(t, j(i)) THEN -1 ELSE 1
          ELSE IF r(i) # 0 THEN Verdict(s, t, i, e) = r(i)
          ELSE IsDiff(s, t, j(i), e) /\ Verdict(s, t, i, e) = Verdict(s, t, j(i), e)
      BY <2>1, <2>3, <3>1, VerdictRun
    <3> HIDE DEF r, j, longer, common, D
    <3>3. CASE stops(i)
      <4>1. Verdict(s, t, i, e) = answer(i)
        BY <3>2, <3>3, <2>3
      <4> QED
        BY <4>1, <3>3, <2>1
    <3>4. CASE ~stops(i)
      <4>1. IsDiff(s, t, j(i), e) /\ Verdict(s, t, i, e) = Verdict(s, t, j(i), e) /\ next(i) = j(i)
        BY <3>2, <3>4, <2>3
      <4>2. next(i) \in D
        BY <3>4, <1>6
      <4> HIDE DEF outcome, next, stops, answer
      <4>3. Verdict(s, t, j(i), e) = outcome(next(i))
        BY <4>1, <4>2, <1>4
      <4> QED
        BY <4>1, <4>3, <3>4, <2>1
    <3> QED
      BY <3>3, <3>4
  <2>4. CASE i # common /\ ~(DigitAt(s, i) /\ DigitAt(t, i))
    <3>1. i < common
      BY <1>2, <2>4
    <3>2. IF s[i + 1] # t[i + 1]
           THEN Verdict(s, t, i, e) = IF s[i + 1] < t[i + 1] THEN -1 ELSE 1
           ELSE IsDiff(s, t, i + 1, e) /\ Verdict(s, t, i, e) = Verdict(s, t, i + 1, e)
      BY <2>1, <2>4, <3>1, VerdictNoRun
    <3> HIDE DEF r, j, longer, common, D
    <3>3. CASE stops(i)
      <4>1. Verdict(s, t, i, e) = answer(i)
        BY <3>2, <3>3, <2>4
      <4> QED
        BY <4>1, <3>3, <2>1
    <3>4. CASE ~stops(i)
      <4>1. IsDiff(s, t, i + 1, e) /\ Verdict(s, t, i, e) = Verdict(s, t, i + 1, e) /\ next(i) = i + 1
        BY <3>2, <3>4, <2>4
      <4>2. next(i) \in D
        BY <3>4, <1>6
      <4> HIDE DEF outcome, next, stops, answer
      <4>3. Verdict(s, t, i + 1, e) = outcome(next(i))
        BY <4>1, <4>2, <1>4
      <4> QED
        BY <4>1, <4>3, <3>4, <2>1
    <3> QED
      BY <3>3, <3>4
  <2> HIDE DEF outcome, stops, answer, next
  <2> QED
    BY <2>2, <2>3, <2>4
<1> HIDE DEF turn, outcome, next, stops, answer
<1>8. ref = [i \in D |-> turn(ref, i)]
  <2>1. ASSUME NEW i \in D PROVE outcome(i) = turn(ref, i)
    <3>1. CASE stops(i)
      BY <3>1, <1>5, <1>7
    <3>2. CASE ~stops(i)
      <4>1. next(i) \in D /\ outcome(i) = outcome(next(i))
        BY <3>2, <1>6, <1>7
      <4>2. ref[next(i)] = outcome(next(i))
        BY <4>1
      <4> HIDE DEF ref
      <4>3. turn(ref, i) = ref[next(i)]
        BY <3>2, <1>5
      <4> QED
        BY <4>1, <4>2, <4>3
    <3> QED
      BY <3>1, <3>2
  <2> HIDE DEF D
  <2> QED
    BY <2>1
<1>9. from = [i \in D |-> turn(from, i)]
  <2> HIDE DEF ref, D
  <2> QED
    BY <1>8
<1> HIDE DEF from
<1>10. ASSUME NEW i \in D PROVE from[i] = IF stops(i) THEN answer(i) ELSE from[next(i)]
  <2>1. from[i] = turn(from, i)
    <3> HIDE DEF D
    <3> QED
      BY <1>9
  <2> QED
    BY <2>1, <1>5
<1> DEFINE Wrong == {common - i : i \in {k \in D : from[k] # outcome(k)}}
<1>11. Wrong = {}
  <2> SUFFICES ASSUME Wrong # {} PROVE FALSE
    OBVIOUS
  <2> HIDE DEF common
  <2>1. Wrong \in SUBSET Nat
    BY <1>2
  <2>2. PICK w \in Wrong : \A x \in Wrong : w <= x
    <3> HIDE DEF Wrong
    <3> QED
      BY <2>1, Least
  <2>3. PICK i \in D : w = common - i /\ from[i] # outcome(i)
    OBVIOUS
  <2>4. ~stops(i)
    BY <2>3, <1>7, <1>10
  <2>5. from[i] = from[next(i)] /\ outcome(i) = outcome(next(i)) /\ next(i) \in D /\ next(i) > i
    BY <2>4, <1>6, <1>7, <1>10
  <2>6. common - next(i) \in Wrong
    BY <2>3, <2>5
  <2>7. w <= common - next(i)
    BY <2>2, <2>6
  <2> QED
    BY <2>3, <2>5, <2>7, <1>2
<1>12. 0 \in D
  BY <1>2
<1>13. from[0] = outcome(0)
  BY <1>11, <1>12
<1>14. Verdict(s, t, 0, d) = outcome(0)
  BY <1>4, <1>12
<1> QED
  BY <1>1, <1>13, <1>14

(* A text at a position: its character there and where its digits end.     *)
LEMMA PlaceIs ==
    ASSUME NEW s \in Seq(Ascii), NEW e \in 0..Len(s)
    PROVE  /\ CharAt(s, e) \in Int /\ DigitsEnd(s, e) \in Int /\ DigitsEnd(s, e) >= e
           /\ e \in Nat /\ e <= Len(s) /\ Len(s) \in Nat
           /\ DigitAt(s, e) <=> 48 <= CharAt(s, e) /\ CharAt(s, e) <= 57
           /\ DigitsEnd(s, e) > e <=> DigitAt(s, e)
<1>1. e \in Nat /\ e <= Len(s) /\ Len(s) \in Nat
  OBVIOUS
<1>2. DigitsEnd(s, e) \in e..Len(s) /\ (DigitsEnd(s, e) > e <=> DigitAt(s, e))
  BY EndIs, EndOf
<1> QED
  BY <1>1, <1>2, CharAtIs

Agree(s, t, e) == e \in 0..Common(s, t) /\ \A k \in 0..(e - 1) : CharAt(s, k) = CharAt(t, k)

(* Which of two texts comes first, as far as a place up to which they      *)
(* agree tells.                                                            *)
Below(s, t, e) ==
    IF SameRun(s, t, 0, e) /\ DigitsEnd(s, e) # DigitsEnd(t, e)
    THEN DigitsEnd(s, e) < DigitsEnd(t, e) ELSE CharAt(s, e) < CharAt(t, e)
Alike(s, t, e) == CharAt(s, e) = CharAt(t, e) /\ DigitsEnd(s, e) = DigitsEnd(t, e)

LEMMA AgreePlaces ==
    ASSUME NEW s \in Seq(Ascii), NEW t \in Seq(Ascii), NEW e, Agree(s, t, e)
    PROVE  e \in 0..Len(s) /\ e \in 0..Len(t)
<1>1. /\ Common(s, t) \in Nat /\ Common(s, t) <= Len(s) /\ Common(s, t) <= Len(t)
      /\ Len(s) \in Nat /\ Len(t) \in Nat
  BY CommonIs
<1>2. e \in 0..Common(s, t)
  BY DEF Agree
<1> QED
  BY <1>1, <1>2

LEMMA DiffAgrees ==
    ASSUME NEW s \in Seq(Ascii), NEW t \in Seq(Ascii), NEW d, IsDiff(s, t, 0, d)
    PROVE  Agree(s, t, d)
BY DEF IsDiff, Agree

LEMMA VerdictBelow ==
    ASSUME NEW s \in Seq(Ascii), NEW t \in Seq(Ascii), NEW d, IsDiff(s, t, 0, d)
    PROVE  CompareNumeric(s, t) < 0 <=> Below(s, t, d)
<1>1. d \in 0..Len(s) /\ d \in 0..Len(t)
  BY DiffAgrees, AgreePlaces
<1>2. /\ CharAt(s, d) \in Int /\ DigitsEnd(s, d) \in Int
      /\ CharAt(t, d) \in Int /\ DigitsEnd(t, d) \in Int
  BY <1>1, PlaceIs
<1>3. CompareNumeric(s, t) = Verdict(s, t, 0, d)
  BY NumericIs
<1>4. \A x, y \in Int : Sign(x, y) < 0 <=> x < y
  BY DEF Sign
<1> QED
  BY <1>2, <1>3, <1>4 DEF Verdict, Below

LEMMA LooksAhead ==
    ASSUME NEW s \in Seq(Ascii), NEW t \in Seq(Ascii), NEW e, Agree(s, t, e)
    PROVE  /\ Below(s, t, e) => CompareNumeric(s, t) < 0
           /\ CompareNumeric(s, t) < 0 => Below(s, t, e) \/ Alike(s, t, e)
<1> DEFINE n == Common(s, t)
<1>1. PICK d : IsDiff(s, t, 0, d)
  <2>1. 0 \in 0..n
    BY CommonIs
  <2> QED
    BY <2>1, DiffExists
<1>2. /\ d \in 0..n /\ (\A k \in 0..(d - 1) : CharAt(s, k) = CharAt(t, k))
      /\ (d = n \/ CharAt(s, d) # CharAt(t, d))
      /\ n \in Nat /\ n <= Len(s) /\ n <= Len(t) /\ Len(s) \in Nat /\ Len(t) \in Nat
  BY <1>1, CommonIs DEF IsDiff
<1>3. e \in 0..n /\ \A k \in 0..(e - 1) : CharAt(s, k) = CharAt(t, k)
  BY DEF Agree
<1> HIDE DEF n
<1>4. e <= d
  <2> SUFFICES ASSUME d < e PROVE FALSE
    BY <1>2, <1>3
  <2>1. d \in 0..(e - 1) /\ d # n
    BY <1>2, <1>3
  <2> QED
    BY <2>1, <1>2, <1>3
<1>5. CompareNumeric(s, t) < 0 <=> Below(s, t, d)
  BY <1>1, VerdictBelow
<1>6. CASE e = d
  BY <1>5, <1>6
<1>7. CASE e # d
  <2> DEFINE x == DigitsEnd(s, e)
             y == DigitsEnd(t, e)
  <2>1. e < d /\ e \in 0..(d - 1) /\ e \in 0..Len(s) /\ e \in 0..Len(t) /\ d \in Nat
    BY <1>2, <1>3, <1>4, <1>7
  <2>2. CharAt(s, e) = CharAt(t, e)
    BY <2>1, <1>2
  <2>3. IsEnd(s, e, x) /\ IsEnd(t, e, y) /\ x \in e..Len(s) /\ y \in e..Len(t)
    BY <2>1, EndIs
  <2>4. (\A z : IsEnd(s, e, z) => z = x) /\ (\A z : IsEnd(t, e, z) => z = y)
    BY <2>1, EndIs
  <2>5. CharAt(s, e) \in Int /\ CharAt(t, e) \in Int /\ x \in Int /\ y \in Int
    BY <2>1, PlaceIs
  <2> HIDE DEF x, y
  <2>6. CASE x = y
    <3>1. Alike(s, t, e) /\ ~Below(s, t, e)
      BY <2>2, <2>5, <2>6 DEF Alike, Below, x, y
    <3> QED
      BY <3>1
  <2>7. CASE x # y
    <3>0. ASSUME NEW k \in 0..(d - 1) PROVE DigitAt(s, k) <=> DigitAt(t, k)
      <4>1. k \in Nat
        BY <2>1
      <4>2. /\ (DigitAt(s, k) <=> 48 <= CharAt(s, k) /\ CharAt(s, k) <= 57)
            /\ (DigitAt(t, k) <=> 48 <= CharAt(t, k) /\ CharAt(t, k) <= 57)
        BY <4>1, CharAtIs
      <4> QED
        BY <4>2, <1>2
    <3>1. ~(x < d)
      <4> SUFFICES ASSUME x < d PROVE FALSE
        OBVIOUS
      <4>1. x \in e..Len(t) /\ x \in 0..(d - 1) /\ \A k \in e..(x - 1) : k \in 0..(d - 1)
        BY <1>2, <2>1, <2>3
      <4>2. ~DigitAt(t, x) /\ \A k \in e..(x - 1) : DigitAt(t, k)
        BY <4>1, <2>3, <3>0 DEF IsEnd
      <4>3. IsEnd(t, e, x)
        BY <4>1, <4>2 DEF IsEnd
      <4> QED
        BY <4>3, <2>4, <2>7
    <3>2. ~(y < d)
      <4> SUFFICES ASSUME y < d PROVE FALSE
        OBVIOUS
      <4>1. y \in e..Len(s) /\ y \in 0..(d - 1) /\ \A k \in e..(y - 1) : k \in 0..(d - 1)
        BY <1>2, <2>1, <2>3
      <4>2. ~DigitAt(s, y) /\ \A k \in e..(y - 1) : DigitAt(s, k)
        BY <4>1, <2>3, <3>0 DEF IsEnd
      <4>3. IsEnd(s, e, y)
        BY <4>1, <4>2 DEF IsEnd
      <4> QED
        BY <4>3, <2>4, <2>7
    <3>3. d \in e..x /\ d \in e..y
      BY <2>1, <2>3, <3>1, <3>2
    <3>4. DigitsEnd(s, d) = x /\ DigitsEnd(t, d) = y
      BY <2>1, <3>3, EndLater DEF x, y
    <3>5. d - 1 \in e..(x - 1) /\ e \in e..(x - 1) /\ e \in e..(y - 1) /\ d > 0
      BY <2>1, <2>3, <3>3
    <3>6. DigitAt(s, d - 1) /\ DigitAt(s, e) /\ DigitAt(t, e)
      BY <2>3, <3>5 DEF IsEnd
    <3>7. SameRun(s, t, 0, d) /\ SameRun(s, t, 0, e)
      BY <3>5, <3>6 DEF SameRun
    <3>8. Below(s, t, d) <=> x < y
      BY <3>4, <3>7, <2>7 DEF Below
    <3>9. Below(s, t, e) <=> x < y
      BY <3>7, <2>7 DEF Below, x, y
    <3> QED
      BY <3>8, <3>9, <1>5
  <2> QED
    BY <2>6, <2>7
<1> QED
  BY <1>6, <1>7

LEMMA BelowAlong ==
    ASSUME NEW a \in Seq(Ascii), NEW b \in Seq(Ascii), NEW c \in Seq(Ascii), NEW e,
           Agree(a, b, e), Agree(b, c, e),
           Below(a, b, e) \/ Alike(a, b, e), Below(b, c, e) \/ Alike(b, c, e),
           Below(a, b, e) \/ Below(b, c, e)
    PROVE  Agree(a, c, e) /\ Below(a, c, e)
<1>1. e \in 0..Len(a) /\ e \in 0..Len(b) /\ e \in 0..Len(c)
  BY AgreePlaces
<1>2. Agree(a, c, e)
  <2>1. e \in 0..Common(a, c)
    BY <1>1, CommonIs
  <2> QED
    BY <2>1 DEF Agree
<1> DEFINE ca == CharAt(a, e)
           cb == CharAt(b, e)
           cc == CharAt(c, e)
           ea == DigitsEnd(a, e)
           eb == DigitsEnd(b, e)
           ec == DigitsEnd(c, e)
           before(s) == e > 0 /\ DigitAt(s, e - 1)
<1>3. /\ ca \in Int /\ cb \in Int /\ cc \in Int /\ ea \in Int /\ eb \in Int /\ ec \in Int
      /\ ea >= e /\ eb >= e /\ ec >= e /\ e \in Nat
      /\ (ea > e <=> 48 <= ca /\ ca <= 57) /\ (eb > e <=> 48 <= cb /\ cb <= 57)
      /\ (ec > e <=> 48 <= cc /\ cc <= 57)
      /\ (DigitAt(a, e) <=> ea > e) /\ (DigitAt(b, e) <=> eb > e) /\ (DigitAt(c, e) <=> ec > e)
  BY <1>1, PlaceIs
<1>4. (before(a) <=> before(b)) /\ (before(b) <=> before(c))
  <2>1. CASE e > 0
    <3> DEFINE k == e - 1
    <3>1. k \in Nat /\ k \in 0..(e - 1)
      BY <2>1, <1>3
    <3> HIDE DEF k
    <3>2. /\ (DigitAt(a, k) <=> 48 <= CharAt(a, k) /\ CharAt(a, k) <= 57)
          /\ (DigitAt(b, k) <=> 48 <= CharAt(b, k) /\ CharAt(b, k) <= 57)
          /\ (DigitAt(c, k) <=> 48 <= CharAt(c, k) /\ CharAt(c, k) <= 57)
      BY <3>1, CharAtIs
    <3>3. CharAt(a, k) = CharAt(b, k) /\ CharAt(b, k) = CharAt(c, k)
      BY <3>1 DEF Agree
    <3>4. (DigitAt(a, k) <=> DigitAt(b, k)) /\ (DigitAt(b, k) <=> DigitAt(c, k))
      BY <3>2, <3>3
    <3> QED
      BY <3>4 DEF k
  <2> QED
    BY <2>1
<1> HIDE DEF ca, cb, cc, ea, eb, ec, before
<1> DEFINE below(p, x, y, cx, cy) == IF (p \/ (x > e /\ y > e)) /\ x # y THEN x < y ELSE cx < cy
<1>5. /\ (Below(a, b, e) <=> below(before(a), ea, eb, ca, cb))
      /\ (Below(b, c, e) <=> below(before(a), eb, ec, cb, cc))
      /\ (Below(a, c, e) <=> below(before(a), ea, ec, ca, cc))
  <2>1. /\ (SameRun(a, b, 0, e) <=> before(a) \/ (ea > e /\ eb > e))
        /\ (SameRun(b, c, 0, e) <=> before(a) \/ (eb > e /\ ec > e))
        /\ (SameRun(a, c, 0, e) <=> before(a) \/ (ea > e /\ ec > e))
    BY <1>3, <1>4 DEF SameRun, before
  <2> QED
    BY <2>1 DEF Below, ea, eb, ec, ca, cb, cc
<1>6. (Alike(a, b, e) <=> ca = cb /\ ea = eb) /\ (Alike(b, c, e) <=> cb = cc /\ eb = ec)
  BY DEF Alike, ea, eb, ec, ca, cb, cc
<1>7. below(before(a), ea, ec, ca, cc)
  <2>1. CASE before(a)
    BY <2>1, <1>3, <1>5, <1>6
  <2>2. CASE ~before(a)
    BY <2>2, <1>3, <1>5, <1>6
  <2> QED
    BY <2>1, <2>2
<1> QED
  BY <1>2, <1>5, <1>7

LEMMA NumericTransitive ==
    ASSUME NEW a \in Seq(Ascii), NEW b \in Seq(Ascii), NEW c \in Seq(Ascii),
           CompareNumeric(a, b) < 0, CompareNumeric(b, c) < 0
    PROVE  CompareNumeric(a, c) < 0
<1>1. PICK d1 : IsDiff(a, b, 0, d1)
  <2>1. 0 \in 0..Common(a, b)
    BY CommonIs
  <2> QED
    BY <2>1, DiffExists
<1>2. PICK d2 : IsDiff(b, c, 0, d2)
  <2>1. 0 \in 0..Common(b, c)
    BY CommonIs
  <2> QED
    BY <2>1, DiffExists
<1>3. Agree(a, b, d1) /\ Below(a, b, d1) /\ Agree(b, c, d2) /\ Below(b, c, d2)
  BY <1>1, <1>2, DiffAgrees, VerdictBelow
<1>4. /\ d1 \in 0..Common(a, b) /\ d2 \in 0..Common(b, c) /\ Common(a, b) \in Nat /\ Common(b, c) \in Nat
      /\ Common(a, b) <= Len(b) /\ Common(b, c) <= Len(b) /\ Len(b) \in Nat
      /\ d1 \in 0..Len(b) /\ d2 \in 0..Len(b)
  BY <1>3, CommonIs, AgreePlaces DEF Agree
<1>5. ASSUME NEW e, Agree(a, b, e), Agree(b, c, e), Below(a, b, e) \/ Below(b, c, e)
      PROVE  CompareNumeric(a, c) < 0
  <2>1. (Below(a, b, e) \/ Alike(a, b, e)) /\ (Below(b, c, e) \/ Alike(b, c, e))
    BY <1>5, LooksAhead
  <2>2. Agree(a, c, e) /\ Below(a, c, e)
    BY <1>5, <2>1, BelowAlong
  <2> QED
    BY <2>2, LooksAhead
<1>6. CASE d1 <= d2
  <2>1. d1 \in 0..Common(b, c) /\ \A k \in 0..(d1 - 1) : k \in 0..(d2 - 1)
    BY <1>4, <1>6
  <2>2. Agree(b, c, d1)
    BY <2>1, <1>3 DEF Agree
  <2> QED
    BY <2>2, <1>3, <1>5
<1>7. CASE ~(d1 <= d2)
  <2>1. d2 \in 0..Common(a, b) /\ \A k \in 0..(d2 - 1) : k \in 0..(d1 - 1)
    BY <1>4, <1>7
  <2>2. Agree(a, b, d2)
    BY <2>1, <1>3 DEF Agree
  <2> QED
    BY <2>2, <1>3, <1>5
<1> QED
  BY <1>6, <1>7

LEMMA DiffFlips ==
    ASSUME NEW s \in Seq(Ascii), NEW t \in Seq(Ascii), NEW i, NEW d, IsDiff(s, t, i, d)
    PROVE  IsDiff(t, s, i, d)
BY CommonIs DEF IsDiff

LEMMA SignFlips ==
    ASSUME NEW x \in Int, NEW y \in Int
    PROVE  Sign(x, y) = -Sign(y, x) /\ (Sign(x, y) = 0 <=> x = y) /\ Sign(x, y) \in Int
BY DEF Sign

LEMMA SomeDiff ==
    ASSUME NEW s \in Seq(Ascii), NEW t \in Seq(Ascii)
    PROVE  \E d : IsDiff(s, t, 0, d) /\ d \in 0..Len(s) /\ d \in 0..Len(t)
<1>1. 0 \in 0..Common(s, t)
  BY CommonIs
<1>2. PICK d : IsDiff(s, t, 0, d)
  BY <1>1, DiffExists
<1> QED
  BY <1>2, DiffAgrees, AgreePlaces

LEMMA EqualTexts ==
    ASSUME NEW s \in Seq(Ascii), NEW t \in Seq(Ascii), NEW d, IsDiff(s, t, 0, d)
    PROVE  CharAt(s, d) = CharAt(t, d) <=> s = t
<1> DEFINE n == Common(s, t)
<1>1. /\ d \in 0..n /\ (\A k \in 0..(d - 1) : CharAt(s, k) = CharAt(t, k))
      /\ (d = n \/ CharAt(s, d) # CharAt(t, d))
      /\ n \in Nat /\ n <= Len(s) /\ n <= Len(t) /\ (n = Len(s) \/ n = Len(t))
      /\ Len(s) \in Nat /\ Len(t) \in Nat
  BY CommonIs DEF IsDiff
<1> HIDE DEF n
<1>2. ASSUME CharAt(s, d) = CharAt(t, d) PROVE s = t
  <2>1. d = n /\ n \in Nat
    BY <1>1, <1>2
  <2>2. /\ (n < Len(s) => CharAt(s, n) >= 0) /\ (~(n < Len(s)) => CharAt(s, n) = -1)
        /\ (n < Len(t) => CharAt(t, n) >= 0) /\ (~(n < Len(t)) => CharAt(t, n) = -1)
    BY <2>1, CharAtIs
  <2>3. Len(s) = n /\ Len(t) = n
    BY <1>1, <1>2, <2>1, <2>2
  <2>4. ASSUME NEW i \in 1..Len(s) PROVE s[i] = t[i]
    <3> DEFINE k == i - 1
    <3>1. k \in 0..(d - 1) /\ k + 1 = i /\ k < Len(s) /\ k < Len(t)
      BY <2>1, <2>3, <1>1
    <3> HIDE DEF k
    <3>2. CharAt(s, k) = s[k + 1] /\ CharAt(t, k) = t[k + 1] /\ CharAt(s, k) = CharAt(t, k)
      BY <3>1, <1>1 DEF CharAt
    <3> QED
      BY <3>1, <3>2
  <2> QED
    BY <2>3, <2>4, SeqEqual
<1> QED
  BY <1>2

LEMMA CompareOrders ==
    ASSUME NEW s \in Seq(Ascii), NEW t \in Seq(Ascii)
    PROVE  Compare(s, t) = -Compare(t, s) /\ (Compare(s, t) = 0 <=> s = t)
<1>1. PICK d : IsDiff(s, t, 0, d) /\ d \in 0..Len(s) /\ d \in 0..Len(t)
  BY SomeDiff
<1>2. CharAt(s, d) \in Int /\ CharAt(t, d) \in Int
  BY <1>1, PlaceIs
<1>3. Compare(s, t) = Sign(CharAt(s, d), CharAt(t, d))
  BY <1>1, CompareIs
<1>4. Compare(t, s) = Sign(CharAt(t, d), CharAt(s, d))
  BY <1>1, DiffFlips, CompareIs
<1>5. CharAt(s, d) = CharAt(t, d) <=> s = t
  BY <1>1, EqualTexts
<1> QED
  <2> DEFINE x == CharAt(s, d)
             y == CharAt(t, d)
  <2> HIDE DEF x, y
  <2>1. x \in Int /\ y \in Int
    BY <1>2 DEF x, y
  <2>2. Sign(x, y) = -Sign(y, x) /\ (Sign(x, y) = 0 <=> x = y)
    BY <2>1, SignFlips
  <2>3. Compare(s, t) = Sign(x, y) /\ Compare(t, s) = Sign(y, x) /\ (x = y <=> s = t)
    BY <1>3, <1>4, <1>5 DEF x, y
  <2> QED
    BY <2>2, <2>3

LEMMA NumericOrders ==
    ASSUME NEW s \in Seq(Ascii), NEW t \in Seq(Ascii)
    PROVE  /\ CompareNumeric(s, t) \in Int /\ CompareNumeric(s, t) = -CompareNumeric(t, s)
           /\ CompareNumeric(s, t) = 0 <=> s = t
<1>1. PICK d : IsDiff(s, t, 0, d) /\ d \in 0..Len(s) /\ d \in 0..Len(t)
  BY SomeDiff
<1> DEFINE cs == CharAt(s, d)
           ct == CharAt(t, d)
           es == DigitsEnd(s, d)
           et == DigitsEnd(t, d)
<1>2. cs \in Int /\ ct \in Int /\ es \in Int /\ et \in Int
  BY <1>1, PlaceIs
<1>3. CompareNumeric(s, t) = Verdict(s, t, 0, d)
  BY <1>1, NumericIs
<1>4. CompareNumeric(t, s) = Verdict(t, s, 0, d)
  BY <1>1, DiffFlips, NumericIs
<1>5. SameRun(s, t, 0, d) <=> SameRun(t, s, 0, d)
  <2>1. CASE d > 0
    <3> DEFINE k == d - 1
    <3>1. k \in Nat /\ k \in 0..(d - 1)
      BY <1>1, <2>1
    <3> HIDE DEF k
    <3>2. /\ (DigitAt(s, k) <=> 48 <= CharAt(s, k) /\ CharAt(s, k) <= 57)
          /\ (DigitAt(t, k) <=> 48 <= CharAt(t, k) /\ CharAt(t, k) <= 57)
          /\ CharAt(s, k) = CharAt(t, k)
      BY <1>1, <3>1, CharAtIs DEF IsDiff
    <3> QED
      BY <3>2 DEF SameRun, k
  <2>2. CASE ~(d > 0)
    BY <2>2 DEF SameRun
  <2> QED
    BY <2>1, <2>2
<1>6. cs = ct <=> s = t
  BY <1>1, EqualTexts
<1> HIDE DEF cs, ct, es, et
<1>7. CompareNumeric(s, t) = IF SameRun(s, t, 0, d) /\ es # et THEN Sign(es, et) ELSE Sign(cs, ct)
  BY <1>3 DEF Verdict, cs, ct, es, et
<1>8. CompareNumeric(t, s) = IF SameRun(s, t, 0, d) /\ es # et THEN Sign(et, es) ELSE Sign(ct, cs)
  BY <1>4, <1>5 DEF Verdict, cs, ct, es, et
<1>9. s = t => es = et
  BY DEF es, et
<1>10. CASE SameRun(s, t, 0, d) /\ es # et
  <2>1. CompareNumeric(s, t) = Sign(es, et) /\ CompareNumeric(t, s) = Sign(et, es)
    BY <1>7, <1>8, <1>10
  <2>2. Sign(es, et) = -Sign(et, es) /\ (Sign(es, et) = 0 <=> es = et) /\ Sign(es, et) \in Int
    BY <1>2, SignFlips
  <2> QED
    BY <2>1, <2>2, <1>9, <1>10
<1>11. CASE ~(SameRun(s, t, 0, d) /\ es # et)
  <2>1. CompareNumeric(s, t) = Sign(cs, ct) /\ CompareNumeric(t, s) = Sign(ct, cs)
    BY <1>7, <1>8, <1>11
  <2>2. Sign(cs, ct) = -Sign(ct, cs) /\ (Sign(cs, ct) = 0 <=> cs = ct) /\ Sign(cs, ct) \in Int
    BY <1>2, SignFlips
  <2> QED
    BY <2>1, <2>2, <1>6
<1> QED
  BY <1>10, <1>11

(* The numbers that the first digits of a text make.                       *)
Digits == 48..57
Numbers(g, s) == g[0] = 0 /\ \A i \in 1..Len(s) : g[i] = 10 * g[i - 1] + (s[i] - 48)

LEMMA NumbersExist ==
    ASSUME NEW s \in Seq(Digits)
    PROVE  \E g \in [0..Len(s) -> Nat] : Numbers(g, s) /\ Number(s) = g[Len(s)]
<1> DEFINE step == [p \in (1..Len(s)) \X Nat |-> 10 * p[2] + (s[p[1]] - 48)]
<1>0. Len(s) \in Nat /\ 0 \in Nat
  OBVIOUS
<1>1. step \in [(1..Len(s)) \X Nat -> Nat]
  <2>1. ASSUME NEW p \in (1..Len(s)) \X Nat PROVE 10 * p[2] + (s[p[1]] - 48) \in Nat
    <3> DEFINE i == p[1]
               x == p[2]
    <3>1. i \in 1..Len(s) /\ x \in Nat
      OBVIOUS
    <3> HIDE DEF i, x
    <3>2. s[i] \in Digits
      BY <3>1, ElementOfSeq
    <3> DEFINE c == s[i]
    <3> HIDE DEF c
    <3>3. c \in 48..57
      BY <3>2 DEF Digits, c
    <3>4. 10 * x + (c - 48) \in Nat
      BY <3>1, <3>3
    <3> QED
      BY <3>4 DEF c, i, x
  <2> QED
    BY <2>1
<1> HIDE DEF step
<1>2. PICK g \in [0..Len(s) -> Nat] : Computes(g, Len(s), 0, step)
  BY <1>0, <1>1, RecursionExists
<1>3. ASSUME NEW i \in 1..Len(s) PROVE g[i] = 10 * g[i - 1] + (s[i] - 48)
  <2>0. i - 1 \in 0..Len(s)
    BY <1>0
  <2>1. g[i - 1] \in Nat /\ <<i, g[i - 1]>> \in (1..Len(s)) \X Nat
    BY <2>0
  <2>2. step[<<i, g[i - 1]>>] = 10 * g[i - 1] + (s[i] - 48)
    BY <2>1 DEF step
  <2> QED
    BY <1>2, <2>2 DEF Computes
<1>4. Numbers(g, s)
  BY <1>2, <1>3 DEF Computes, Numbers
<1> DEFINE D == 0..Len(s)
           n == CHOOSE f : f = [i \in D |-> IF i = 0 THEN 0 ELSE 10 * f[i - 1] + (s[i] - 48)]
<1>5. Number(s) = n[Len(s)]
  BY DEF Number
<1>6. g = [i \in D |-> IF i = 0 THEN 0 ELSE 10 * g[i - 1] + (s[i] - 48)]
  <2>1. ASSUME NEW i \in D PROVE g[i] = IF i = 0 THEN 0 ELSE 10 * g[i - 1] + (s[i] - 48)
    <3>1. i # 0 => i \in 1..Len(s)
      BY <1>0
    <3> QED
      BY <3>1, <1>2, <1>3 DEF Computes
  <2> HIDE DEF D
  <2>2. g \in [D -> Nat]
    BY DEF D
  <2> QED
    BY <2>1, <2>2
<1>7. n = [i \in D |-> IF i = 0 THEN 0 ELSE 10 * n[i - 1] + (s[i] - 48)]
  <2> HIDE DEF D
  <2> QED
    BY <1>6
<1> HIDE DEF n
<1> DEFINE k == Len(s)
           T == {m \in 0..k : n[m] = g[m]}
<1>8. \A m \in 0..k : m \in T
  <2>1. 0 \in T
    <3>1. 0 \in D
      BY <1>0
    <3> QED
      BY <3>1, <1>2, <1>7 DEF Computes
  <2>2. ASSUME NEW m \in 0..k, m < k, m \in T PROVE m + 1 \in T
    <3> DEFINE i == m + 1
    <3>1. i \in D /\ i # 0 /\ i - 1 = m /\ i \in 1..Len(s)
      BY <1>0, <2>2
    <3>2. n[m] = g[m]
      BY <2>2
    <3> HIDE DEF T, i
    <3>3. n[i] = 10 * n[i - 1] + (s[i] - 48)
      <4> HIDE DEF D
      <4> QED
        BY <3>1, <1>7
    <3>4. n[i] = g[i]
      BY <3>1, <3>2, <3>3, <1>3
    <3> QED
      BY <3>1, <3>4 DEF T, i
  <2> HIDE DEF T
  <2> QED
    BY <1>0, <2>1, <2>2, InductUpTo
<1>9. n[k] = g[k]
  <2>1. k \in 0..k
    BY <1>0
  <2> QED
    BY <1>8, <2>1
<1> QED
  BY <1>4, <1>5, <1>9

(* The first digit of a number is not 0, so the longer number is greater,  *)
LEMMA LongerIsGreater ==
    ASSUME NEW s \in Seq(Digits), NEW t \in Seq(Digits), t # <<>> => t[1] # 48,
           NEW g \in [0..Len(s) -> Nat], Numbers(g, s),
           NEW h \in [0..Len(t) -> Nat], Numbers(h, t), Len(s) < Len(t)
    PROVE  g[Len(s)] < h[Len(t)]
<1> DEFINE k == Len(s)
           n == Len(t)
           T == {m \in 0..k : \A j \in (m + 1)..n : g[m] < h[j]}
<1>1. k \in Nat /\ n \in Nat /\ k < n
  OBVIOUS
<1>2. ASSUME NEW j \in 1..n
      PROVE  /\ h[j] = 10 * h[j - 1] + (t[j] - 48) /\ t[j] \in 48..57 /\ h[j] \in Nat /\ h[j - 1] \in Nat
             /\ j - 1 \in 0..n
  <2>1. j \in 0..n /\ j - 1 \in 0..n
    BY <1>1
  <2>2. t[j] \in Digits
    BY ElementOfSeq
  <2> QED
    BY <2>1, <2>2 DEF Numbers, Digits
<1>3. ASSUME NEW j \in 1..k
      PROVE  g[j] = 10 * g[j - 1] + (s[j] - 48) /\ s[j] \in 48..57 /\ g[j] \in Nat /\ g[j - 1] \in Nat
  <2>1. j \in 0..k /\ j - 1 \in 0..k
    BY <1>1
  <2>2. s[j] \in Digits
    BY ElementOfSeq
  <2> QED
    BY <2>1, <2>2 DEF Numbers, Digits
<1>4. g[0] = 0 /\ h[0] = 0
  BY DEF Numbers
<1>5. n > 0 => t[1] # 48
  BY EmptySeq
<1> HIDE DEF k, n
<1>6. 0 \in T
  <2> DEFINE U == {m \in Nat : m + 1 <= n => 0 < h[m + 1]}
  <2>1. 0 \in U
    <3>1. ASSUME n >= 1 PROVE 0 < h[1]
      <4>1. 1 \in 1..n /\ 1 - 1 = 0
        BY <3>1, <1>1
      <4>2. h[1] = 10 * h[0] + (t[1] - 48) /\ t[1] \in 48..57
        BY <4>1, <1>2
      <4> QED
        BY <4>2, <1>4, <1>5, <3>1, <1>1
    <3> QED
      BY <3>1, <1>1
  <2>2. ASSUME NEW m \in Nat, m \in U PROVE m + 1 \in U
    <3> SUFFICES ASSUME (m + 1) + 1 <= n PROVE 0 < h[(m + 1) + 1]
      OBVIOUS
    <3>1. 0 < h[m + 1]
      BY <2>2, <1>1
    <3> DEFINE j == (m + 1) + 1
    <3>2. j \in 1..n /\ j - 1 = m + 1
      BY <1>1
    <3> HIDE DEF j, U
    <3>3. h[j] = 10 * h[j - 1] + (t[j] - 48) /\ t[j] \in 48..57 /\ h[j - 1] \in Nat
      BY <3>2, <1>2
    <3>4. h[j] > 0
      <4> DEFINE x == h[j - 1]
                 c == t[j]
      <4>1. x \in Nat /\ x > 0 /\ c \in 48..57 /\ h[j] = 10 * x + (c - 48)
        BY <3>1, <3>2, <3>3
      <4> HIDE DEF x, c
      <4>2. 10 * x + (c - 48) > 0
        BY <4>1
      <4> QED
        BY <4>1, <4>2
    <3> QED
      BY <3>4 DEF j
  <2>3. U \in SUBSET Nat
    OBVIOUS
  <2> HIDE DEF U
  <2>4. U = Nat
    BY <2>1, <2>2, <2>3, Induct
  <2>5. ASSUME NEW j \in 1..n PROVE 0 < h[j]
    <3>1. j - 1 \in U /\ (j - 1) + 1 = j /\ j <= n
      BY <2>4, <1>1
    <3> QED
      BY <3>1 DEF U
  <2> QED
    BY <2>5, <1>1, <1>4
<1>7. ASSUME NEW m \in 0..k, m < k, m \in T PROVE m + 1 \in T
  <2>1. m + 1 \in 1..k /\ (m + 1) - 1 = m /\ m + 1 \in 0..k
    BY <1>1, <1>7
  <2>2. g[m + 1] = 10 * g[m] + (s[m + 1] - 48) /\ s[m + 1] \in 48..57 /\ g[m] \in Nat
    BY <2>1, <1>3
  <2>3. \A j \in (m + 1)..n : g[m] < h[j]
    BY <1>7
  <2> HIDE DEF T
  <2>4. ASSUME NEW j \in ((m + 1) + 1)..n PROVE g[m + 1] < h[j]
    <3>1. j \in 1..n /\ j - 1 \in (m + 1)..n
      BY <1>1
    <3>2. g[m] < h[j - 1]
      BY <3>1, <2>3
    <3>3. h[j] = 10 * h[j - 1] + (t[j] - 48) /\ t[j] \in 48..57 /\ h[j - 1] \in Nat
      BY <3>1, <1>2
    <3> DEFINE a == g[m]
               b == h[j - 1]
               c == s[m + 1]
               e == t[j]
    <3>4. a \in Nat /\ b \in Nat /\ a < b /\ c \in 48..57 /\ e \in 48..57
      BY <2>2, <3>2, <3>3
    <3>5. g[m + 1] = 10 * a + (c - 48) /\ h[j] = 10 * b + (e - 48)
      BY <2>2, <3>3
    <3> HIDE DEF a, b, c, e
    <3>6. 10 * a + (c - 48) < 10 * b + (e - 48)
      BY <3>4
    <3> QED
      BY <3>5, <3>6
  <2> QED
    BY <2>1, <2>4 DEF T
<1> HIDE DEF T
<1>8. \A m \in 0..k : m \in T
  BY <1>1, <1>6, <1>7, InductUpTo
<1>9. k \in T /\ n \in (k + 1)..n
  BY <1>1, <1>8
<1> QED
  BY <1>9 DEF T, k, n

(* and of two as long the one with the greater digit where they differ.    *)
LEMMA GreaterDigit ==
    ASSUME NEW s \in Seq(Digits), NEW t \in Seq(Digits), Len(s) = Len(t),
           NEW g \in [0..Len(s) -> Nat], Numbers(g, s),
           NEW h \in [0..Len(t) -> Nat], Numbers(h, t),
           NEW d \in 1..Len(s), \A k \in 1..(d - 1) : s[k] = t[k], s[d] < t[d]
    PROVE  g[Len(s)] < h[Len(t)]
<1> DEFINE n == Len(s)
           T == {m \in 0..n : IF m < d THEN g[m] = h[m] ELSE g[m] < h[m]}
<1>1. n \in Nat /\ d \in 1..n
  OBVIOUS
<1>2. ASSUME NEW j \in 1..n
      PROVE  /\ h[j] = 10 * h[j - 1] + (t[j] - 48) /\ t[j] \in 48..57 /\ h[j] \in Nat /\ h[j - 1] \in Nat
             /\ g[j] = 10 * g[j - 1] + (s[j] - 48) /\ s[j] \in 48..57 /\ g[j] \in Nat /\ g[j - 1] \in Nat
  <2>1. j \in 0..n /\ j - 1 \in 0..n
    BY <1>1
  <2>2. t[j] \in Digits /\ s[j] \in Digits
    BY ElementOfSeq
  <2> QED
    BY <2>1, <2>2 DEF Numbers, Digits
<1>3. g[0] = 0 /\ h[0] = 0
  BY DEF Numbers
<1>4. Len(t) = n
  OBVIOUS
<1> HIDE DEF n
<1>5. 0 \in T
  BY <1>1, <1>3
<1>6. ASSUME NEW m \in 0..n, m < n, m \in T PROVE m + 1 \in T
  <2> DEFINE j == m + 1
             a == g[m]
             b == h[m]
             c == s[j]
             e == t[j]
  <2>1. j \in 1..n /\ j - 1 = m /\ j \in 0..n
    BY <1>1, <1>6
  <2>2. IF m < d THEN a = b ELSE a < b
    BY <1>6
  <2> HIDE DEF j, T
  <2>3. /\ a \in Nat /\ b \in Nat /\ c \in 48..57 /\ e \in 48..57
        /\ g[j] = 10 * a + (c - 48) /\ h[j] = 10 * b + (e - 48)
    BY <2>1, <1>2
  <2>4. (j < d => c = e) /\ (j = d => c < e)
    BY <2>1, <1>1
  <2> HIDE DEF a, b, c, e
  <2>5. IF j < d THEN g[j] = h[j] ELSE g[j] < h[j]
    <3>1. CASE j < d
      <4>1. m < d
        BY <3>1, <2>1, <1>1
      <4> QED
        BY <3>1, <4>1, <2>2, <2>3, <2>4
    <3>2. CASE j = d
      <4>1. m < d
        BY <3>2, <2>1, <1>1
      <4>2. 10 * a + (c - 48) < 10 * b + (e - 48)
        BY <3>2, <4>1, <2>2, <2>3, <2>4
      <4> QED
        BY <3>2, <4>2, <2>3, <1>1
    <3>3. CASE j > d
      <4>1. ~(m < d)
        BY <3>3, <2>1, <1>1
      <4>2. 10 * a + (c - 48) < 10 * b + (e - 48)
        BY <4>1, <2>2, <2>3
      <4> QED
        BY <3>3, <4>2, <2>3, <1>1, <2>1
    <3> QED
      BY <3>1, <3>2, <3>3, <2>1, <1>1
  <2> QED
    BY <2>1, <2>5 DEF T, j
<1> HIDE DEF T
<1>7. \A m \in 0..n : m \in T
  BY <1>1, <1>5, <1>6, InductUpTo
<1>8. n \in T /\ ~(n < d)
  BY <1>1, <1>7
<1> QED
  BY <1>4, <1>8 DEF T, n

LEMMA NumberTyped ==
    ASSUME NEW s \in Seq(Ascii), IsNumber(s)
    PROVE  /\ s \in Seq(Digits) /\ s # <<>> /\ s[1] # 48 /\ Len(s) \in Nat /\ Len(s) >= 1
           /\ \A i \in 0..Len(s) : DigitsEnd(s, i) = Len(s) /\ (i < Len(s) => DigitAt(s, i))
<1>1. Len(s) \in Nat /\ DOMAIN s = 1..Len(s) /\ s # <<>> /\ s[1] # 48 /\ Len(s) >= 1
  BY EmptySeq DEF IsNumber
<1>2. \A i \in 1..Len(s) : s[i] \in Digits /\ IsDigit(s[i])
  BY <1>1 DEF IsNumber, IsDigit, Digits
<1>3. s \in Seq(Digits)
  <2>1. s \in [1..Len(s) -> Digits]
    BY <1>1, <1>2
  <2> QED
    BY <1>1, <2>1, SeqDef
<1>4. ASSUME NEW i \in Nat, i < Len(s) PROVE DigitAt(s, i)
  <2>1. i + 1 \in 1..Len(s)
    BY <1>1, <1>4
  <2>2. IsDigit(s[i + 1])
    BY <2>1, <1>2
  <2> QED
    BY <2>2, <1>4 DEF DigitAt
<1>5. ASSUME NEW i \in 0..Len(s) PROVE DigitsEnd(s, i) = Len(s)
  <2>1. Len(s) \in i..Len(s) /\ ~DigitAt(s, Len(s))
    BY <1>1 DEF DigitAt
  <2>2. ASSUME NEW k \in i..(Len(s) - 1) PROVE DigitAt(s, k)
    <3>1. k \in Nat /\ k < Len(s)
      BY <1>1
    <3> QED
      BY <3>1, <1>4
  <2>3. IsEnd(s, i, Len(s))
    BY <2>1, <2>2 DEF IsEnd
  <2> QED
    BY <2>3, EndIs
<1>6. \A i \in 0..Len(s) : i \in Nat
  BY <1>1
<1> QED
  BY <1>1, <1>3, <1>4, <1>5, <1>6

LEMMA LessNumber ==
    ASSUME NEW s \in Seq(Ascii), NEW t \in Seq(Ascii), IsNumber(s), IsNumber(t),
           CompareNumeric(s, t) < 0
    PROVE  Number(s) < Number(t)
<1>1. /\ s \in Seq(Digits) /\ Len(s) \in Nat /\ Len(s) >= 1
      /\ \A i \in 0..Len(s) : DigitsEnd(s, i) = Len(s) /\ (i < Len(s) => DigitAt(s, i))
  BY NumberTyped
<1>2. /\ t \in Seq(Digits) /\ t # <<>> /\ t[1] # 48 /\ Len(t) \in Nat /\ Len(t) >= 1
      /\ \A i \in 0..Len(t) : DigitsEnd(t, i) = Len(t) /\ (i < Len(t) => DigitAt(t, i))
  BY NumberTyped
<1>3. PICK g \in [0..Len(s) -> Nat] : Numbers(g, s) /\ Number(s) = g[Len(s)]
  BY <1>1, NumbersExist
<1>4. PICK h \in [0..Len(t) -> Nat] : Numbers(h, t) /\ Number(t) = h[Len(t)]
  BY <1>2, NumbersExist
<1>5. PICK d : IsDiff(s, t, 0, d) /\ d \in 0..Len(s) /\ d \in 0..Len(t)
  BY SomeDiff
<1>6. Below(s, t, d)
  BY <1>5, VerdictBelow
<1>7. SameRun(s, t, 0, d)
  <2>1. CASE d = 0
    BY <2>1, <1>1, <1>2, <1>5 DEF SameRun
  <2>2. CASE d # 0
    <3> DEFINE k == d - 1
    <3>1. k \in 0..Len(s) /\ k < Len(s) /\ d > 0
      BY <2>2, <1>1, <1>5
    <3> HIDE DEF k
    <3>2. DigitAt(s, k)
      BY <3>1, <1>1
    <3> QED
      BY <3>1, <3>2 DEF SameRun, k
  <2> QED
    BY <2>1, <2>2
<1>8. DigitsEnd(s, d) = Len(s) /\ DigitsEnd(t, d) = Len(t)
  BY <1>1, <1>2, <1>5
<1>9. IF Len(s) # Len(t) THEN Len(s) < Len(t) ELSE CharAt(s, d) < CharAt(t, d)
  BY <1>6, <1>7, <1>8 DEF Below
<1>10. CASE Len(s) # Len(t)
  <2>1. Len(s) < Len(t)
    BY <1>9, <1>10
  <2> QED
    BY <2>1, <1>1, <1>2, <1>3, <1>4, LongerIsGreater
<1>11. CASE Len(s) = Len(t)
  <2> DEFINE n == Len(s)
  <2>1. CharAt(s, d) < CharAt(t, d)
    BY <1>9, <1>11
  <2>2. n \in Nat /\ Len(s) = n /\ Len(t) = n /\ d \in 0..n
    BY <1>1, <1>5, <1>11
  <2> HIDE DEF n
  <2>3. d < n
    <3> SUFFICES ASSUME ~(d < n) PROVE FALSE
      OBVIOUS
    <3>1. CharAt(s, d) = -1 /\ CharAt(t, d) = -1
      BY <2>2 DEF CharAt
    <3> QED
      BY <3>1, <2>1
  <2> DEFINE e == d + 1
  <2>4. e \in 1..n /\ s[e] < t[e]
    BY <2>1, <2>2, <2>3 DEF CharAt
  <2>5. ASSUME NEW k \in 1..(e - 1) PROVE s[k] = t[k]
    <3> DEFINE i == k - 1
    <3>1. i \in 0..(d - 1) /\ i < n /\ i + 1 = k
      BY <2>2, <2>3
    <3> HIDE DEF i, e
    <3>2. CharAt(s, i) = CharAt(t, i)
      BY <3>1, <1>5 DEF IsDiff
    <3> QED
      BY <3>1, <3>2, <2>2 DEF CharAt
  <2> HIDE DEF e
  <2>6. e \in 1..Len(s)
    BY <2>2, <2>4
  <2>7. g[Len(s)] < h[Len(t)]
    BY <2>4, <2>5, <2>6, <1>1, <1>2, <1>3, <1>4, <1>11, GreaterDigit
  <2> QED
    BY <2>7, <1>3, <1>4
<1> QED
  BY <1>10, <1>11

LEMMA NumericOrderIs == SrInv => NumericOrder
<1> SUFFICES ASSUME SrInv PROVE NumericOrder
  OBVIOUS
<1> DEFINE s == Chars(view)
           notBelow == {t \in Needles : CompareNumeric(s, t) <= 0}
<1>1. s \in Seq(Ascii)
  BY ViewOfChars DEF SrInv
<1> HIDE DEF s
<1>2. \A t \in Needles : t \in Seq(Ascii)
  BY NeedlesTyped
<1>3. ASSUME NEW t \in notBelow, NEW u \in Needles \ notBelow PROVE CompareNumeric(t, u) > 0
  <2>1. t \in Seq(Ascii) /\ u \in Seq(Ascii) /\ CompareNumeric(s, t) <= 0 /\ ~(CompareNumeric(s, u) <= 0)
    BY <1>2
  <2>2. /\ CompareNumeric(s, t) \in Int /\ (CompareNumeric(s, t) = 0 <=> s = t)
        /\ CompareNumeric(s, u) \in Int /\ CompareNumeric(s, u) = -CompareNumeric(u, s)
        /\ CompareNumeric(u, s) \in Int
        /\ CompareNumeric(t, u) \in Int /\ CompareNumeric(t, u) = -CompareNumeric(u, t)
        /\ CompareNumeric(u, t) \in Int
    BY <1>1, <2>1, NumericOrders
  <2>3. CompareNumeric(u, s) < 0
    BY <2>1, <2>2
  <2>4. CASE s = t
    BY <2>1, <2>2, <2>4
  <2>5. CASE s # t
    <3>1. CompareNumeric(s, t) < 0
      BY <2>1, <2>2, <2>5
    <3>2. CompareNumeric(u, t) < 0
      BY <1>1, <2>1, <2>3, <3>1, NumericTransitive
    <3> QED
      BY <3>2, <2>2
  <2> QED
    BY <2>4, <2>5
<1>4. ASSUME NEW t \in Needles
      PROVE  /\ CompareNumeric(s, t) = 0 <=> s = t
             /\ IsNumber(s) /\ IsNumber(t) => (CompareNumeric(s, t) < 0 <=> Number(s) < Number(t))
             /\ CompareNumeric(s, t) = -CompareNumeric(t, s)
             /\ Compare(s, t) = -Compare(t, s)
             /\ CompareIgnoreCase(s, t) = 0 <=> Lower(s) = Lower(t)
  <2>1. t \in Seq(Ascii)
    BY <1>2
  <2>2. /\ CompareNumeric(s, t) = 0 <=> s = t
        /\ CompareNumeric(s, t) = -CompareNumeric(t, s)
        /\ CompareNumeric(s, t) \in Int /\ CompareNumeric(t, s) \in Int
    BY <1>1, <2>1, NumericOrders
  <2>3. Compare(s, t) = -Compare(t, s)
    BY <1>1, <2>1, CompareOrders
  <2>4. CompareIgnoreCase(s, t) = 0 <=> Lower(s) = Lower(t)
    <3>1. Lower(s) \in Seq(Ascii) /\ Lower(t) \in Seq(Ascii)
      BY <1>1, <2>1, LowerIs
    <3> QED
      BY <3>1, CompareOrders DEF CompareIgnoreCase
  <2>5. ASSUME IsNumber(s), IsNumber(t) PROVE CompareNumeric(s, t) < 0 <=> Number(s) < Number(t)
    <3>1. Number(s) \in Nat /\ Number(t) \in Nat
      <4>1. s \in Seq(Digits) /\ t \in Seq(Digits) /\ Len(s) \in 0..Len(s) /\ Len(t) \in 0..Len(t)
        BY <1>1, <2>1, <2>5, NumberTyped
      <4> QED
        BY <4>1, NumbersExist
    <3>2. CompareNumeric(s, t) < 0 => Number(s) < Number(t)
      BY <1>1, <2>1, <2>5, LessNumber
    <3>3. CompareNumeric(t, s) < 0 => Number(t) < Number(s)
      BY <1>1, <2>1, <2>5, LessNumber
    <3>4. CompareNumeric(s, t) = 0 => Number(s) = Number(t)
      BY <2>2
    <3>5. CompareNumeric(s, t) < 0 \/ CompareNumeric(s, t) = 0 \/ CompareNumeric(t, s) < 0
      BY <2>2
    <3> QED
      BY <3>1, <3>2, <3>3, <3>4, <3>5
  <2> QED
    BY <2>2, <2>3, <2>4, <2>5
<1> QED
  BY <1>3, <1>4 DEF NumericOrder, s

-----------------------------------------------------------------------------
(* The four together: a step of one leaves the others as they are.         *)
TextsInv == SrInv /\ LsInv /\ FmInv /\ CvInv

LEMMA TextsStep == TextsInv /\ [Next]_<<srVars, lsVars, fmVars, cvVars, part>> => TextsInv'
<1> SUFFICES ASSUME TextsInv, [Next]_<<srVars, lsVars, fmVars, cvVars, part>>
             PROVE  TextsInv'
  OBVIOUS
<1>1. [SrNext]_srVars /\ [LsNext]_lsVars /\ [FmNext]_fmVars /\ [CvNext]_cvVars
  BY DEF Next
<1> QED
  BY <1>1, SrStep, LsStep, FmStep, CvStep DEF TextsInv

(* Each of the four keeps its invariant in every behaviour of the          *)
(* composition: the views stay inside their text, the elements given and   *)
(* left make up the list, the stream keeps the flags it was handed with,   *)
(* and marks separate the bytes of the characters.                         *)
THEOREM TextsInvariant == Spec => []TextsInv
<1>1. Init => TextsInv
  BY SrInitOK, LsInitOK, FmInitOK, CvInitOK DEF Init, TextsInv
<1> QED
  BY <1>1, TextsStep, PTL DEF Spec

(* The types of all four, whichever of them runs: string_ref's views never *)
(* leave the characters they look at, a stream's call holds a list, the    *)
(* format flags are those of a stream, and the codec stays in its bytes.   *)
THEOREM TextsTypeCorrect == Spec => []TypeOK
<1>1. TextsInv => TypeOK
  BY SrInvTypes, LsInvTypes, FmInvTypes DEF TextsInv, CvInv, TypeOK
<1> QED
  BY <1>1, TextsInvariant, PTL

(* For every text and needle: find, rfind and the searches for characters  *)
(* return the first and the last place, the search that skips returns what *)
(* the plain one does, and compare, compare_ignore_case and                *)
(* compare_numeric are orders: ComparesAndFinds.                           *)
THEOREM ComparesAndFindsAlways == Spec => []ComparesAndFinds
<1>1. TextsInv => ComparesAndFinds
  BY NumericOrderIs, FindsFirstIs DEF TextsInv, ComparesAndFinds
<1> QED
  BY <1>1, TextsInvariant, PTL

(* For every text: what split gives, joined by the separators, is the      *)
(* text, and trimming takes spaces and nothing else: SplitsAndTrims.       *)
THEOREM SplitsAndTrimsAlways == Spec => []SplitsAndTrims
<1>1. TextsInv => SplitsAndTrims
  BY SplitsRejoinIs DEF TextsInv, SplitsAndTrims
<1> QED
  BY <1>1, TextsInvariant, PTL

==============================================================================
