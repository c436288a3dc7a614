----------------------------- MODULE StringRef -----------------------------
(***************************************************************************)
(* string_ref (string.hpp): a pointer and a length into characters that    *)
(* somebody else owns.  A view is where it begins in the text and how many *)
(* characters it has; its operations that make a smaller view are actions, *)
(* the searching ones are operators on its characters.                     *)
(*                                                                         *)
(* Characters are ASCII codes, indices count from 0, and size_t is an      *)
(* integer below 2^w whose largest value is npos.                          *)
(***************************************************************************)
EXTENDS Integers, Sequences, SequencesExt, FiniteSets, FiniteSetsExt

CONSTANTS
    Texts,          \* the texts that are viewed
    Needles,        \* texts that are looked for, separators, sets of characters
    npos,           \* 2^w - 1
    NAIVE_BELOW,    \* 16: shorter texts are searched without the skip table
    MAX_SKIP        \* 255, the largest uint8_t: for longer needles there is none

ASSUME StringAssumption ==
    /\ npos \in Nat /\ Texts \cup Needles \subseteq Seq(0..127)
    /\ \A t \in Texts \cup Needles : Len(t) < npos
    /\ {NAIVE_BELOW, MAX_SKIP} \subseteq Nat

VARIABLES text, view
srVars == <<text, view>>

SizeT == 0..npos
Wrap(n) == n % (npos + 1)
MinOf(a, b) == IF a < b THEN a ELSE b
MaxOf(a, b) == IF a < b THEN b ELSE a

Chars(v) == SubSeq(text, v.at + 1, v.at + v.len)
Ascii == 0..127
IsDigit(c) == c \in 48..57
ToLower(c) == IF c \in 65..90 THEN c + 32 ELSE c
Lower(s) == [i \in DOMAIN s |-> ToLower(s[i])]

-----------------------------------------------------------------------------
(* Comparison.                                                             *)

(* memcmp, then the lengths: -1, 0 or 1.                                   *)
Compare(s, t) ==
    LET common == MinOf(Len(s), Len(t))
        differing == {i \in 1..common : s[i] # t[i]}
    IN  IF differing # {} THEN IF s[Min(differing)] < t[Min(differing)] THEN -1 ELSE 1
        ELSE IF Len(s) = Len(t) THEN 0 ELSE IF Len(s) < Len(t) THEN -1 ELSE 1

CompareIgnoreCase(s, t) == Compare(Lower(s), Lower(t))

(* compare_numeric: the first turn of its inner loop that decides at i,    *)
(* both characters at i being digits: where one run of digits ends.        *)
DigitAt(s, j) == j < Len(s) /\ IsDigit(s[j + 1])

(* Mutant: digits are compared one by one.                                 *)
RunOfOne(s, t, i) == i + 1
RunEnd(s, t, i) == Min({j \in (i + 1)..MinOf(Len(s), Len(t)) : ~DigitAt(s, j) \/ ~DigitAt(t, j)})

CompareNumeric(s, t) ==
    LET common == MinOf(Len(s), Len(t))
        from[i \in 0..common] ==
            IF i = common THEN IF Len(s) = Len(t) THEN 0 ELSE IF Len(s) < Len(t) THEN -1 ELSE 1
            ELSE IF DigitAt(s, i) /\ DigitAt(t, i)
            THEN LET j == RunEnd(s, t, i)
                     r == Compare(SubSeq(s, i + 1, j), SubSeq(t, i + 1, j))
                 IN  IF DigitAt(s, j) # DigitAt(t, j) THEN IF DigitAt(t, j) THEN -1 ELSE 1
                     ELSE IF r # 0 THEN r ELSE from[j]
            ELSE IF s[i + 1] # t[i + 1] THEN IF s[i + 1] < t[i + 1] THEN -1 ELSE 1
            ELSE from[i + 1]
    IN  from[0]

-----------------------------------------------------------------------------
(* Searches.  FirstFrom and LastFrom are the loops and the memchr of the   *)
(* searches for a character.                                               *)
FirstFrom(s, start, set) ==
    LET hits == {i \in start..(Len(s) - 1) : s[i + 1] \in set}
    IN  IF hits = {} THEN npos ELSE Min(hits)

(* Down from `last`, which is npos where the code has computed 0 - 1.      *)
LastFrom(s, last, set) ==
    LET hits == {i \in 0..last : s[i + 1] \in set}
    IN  IF last = npos \/ hits = {} THEN npos ELSE Max(hits)

FindChar(s, c, start) == FirstFrom(s, MinOf(start, Len(s)), {c})
FindFirstOf(s, set, start) == FirstFrom(s, MinOf(start, Len(s)), set)
FindFirstNotOf(s, set, start) == FirstFrom(s, MinOf(start, Len(s)), Ascii \ set)
RfindChar(s, c, start) == LastFrom(s, Wrap(MinOf(start, Len(s)) - 1), {c})
FindLastOf(s, set, start) == LastFrom(s, Wrap(MinOf(start, Len(s)) - 1), set)
FindLastNotOf(s, set, start) == LastFrom(s, Wrap(MinOf(start, Len(s)) - 1), Ascii \ set)

(* find_if and what is made of it drop `start` characters first: the call  *)
(* throws when there are fewer.  A predicate is the set of characters that *)
(* pass it.                                                                *)
FindIfThrows(s, start) == start > Len(s)
FindIf(s, set, start) == FirstFrom(s, start, set)
FindIgnoreCaseChar(s, c, start) == FindIf(s, {d \in Ascii : ToLower(d) = ToLower(c)}, start)

MatchesAt(s, i, needle) == SubSeq(s, i + 1, i + Len(needle)) = needle
Positions(s, needle, start) == {i \in start..(Len(s) - Len(needle)) : MatchesAt(s, i, needle)}

(* The skip table counts the needle's last character only where it occurs  *)
(* before the end.  Its entries are uint8_t.                               *)
Entry(n) == n % (MAX_SKIP + 1)
(* Mutant: it counts the last character too.                               *)
SkippedAll(needle, c) ==
    LET at == {i \in 1..Len(needle) : needle[i] = c}
    IN  IF at = {} THEN Entry(Len(needle)) ELSE Entry(MaxOf(1, Len(needle) - Min(at)))
Skipped(needle, c) ==
    LET at == {i \in 1..(Len(needle) - 1) : needle[i] = c}
    IN  Entry(IF at = {} THEN Len(needle) ELSE Len(needle) - Max(at))

Horspool(s, needle, start) ==
    LET n == Len(needle)
        from[p \in start..Len(s)] ==
            IF p > Len(s) - n THEN npos
            ELSE IF MatchesAt(s, p, needle) THEN p
            ELSE from[p + Skipped(needle, s[p + n])]
    IN  from[start]

Naive(s, needle, start) ==
    IF Positions(s, needle, start) = {} THEN npos ELSE Min(Positions(s, needle, start))

Find(s, needle, start) ==
    LET size == Len(s) - start
    IN  IF start > Len(s) THEN npos
        ELSE IF needle = <<>> THEN start
        ELSE IF size < Len(needle) THEN npos
        ELSE IF Len(needle) = 1 THEN FindChar(s, needle[1], start)
        ELSE IF size < NAIVE_BELOW \/ Len(needle) > MAX_SKIP THEN Naive(s, needle, start)
        ELSE Horspool(s, needle, start)

(* find_ignore_case(str): it counts on from start_index even where substr  *)
(* has cut that to the length.                                             *)
FindIgnoreCase(s, needle, start) ==
    LET cut == MinOf(start, Len(s))
        hits == Positions(Lower(s), Lower(needle), cut)
    IN  IF hits = {} THEN npos ELSE start + Min(hits) - cut

Rfind(s, needle) ==
    IF Positions(s, needle, 0) = {} THEN npos ELSE Max(Positions(s, needle, 0))
RfindIgnoreCase(s, needle) == Rfind(Lower(s), Lower(needle))
Count(s, needle) == Cardinality(Positions(s, needle, 0))

StartsWith(s, prefix) == Len(s) >= Len(prefix) /\ SubSeq(s, 1, Len(prefix)) = prefix
EndsWith(s, suffix) == Len(s) >= Len(suffix) /\ SubSeq(s, Len(s) - Len(suffix) + 1, Len(s)) = suffix

-----------------------------------------------------------------------------
(* Views of views.                                                         *)

Substr(v, start, n) ==
    LET from == MinOf(start, v.len) IN [at |-> v.at + from, len |-> MinOf(n, v.len - from)]

(* Mutant: an end before the start is not raised to it.                    *)
SliceUnordered(v, start, end) ==
    LET from == MinOf(start, v.len)
    IN  [at |-> v.at + from, len |-> Wrap(MinOf(end, v.len) - from)]
Slice(v, start, end) ==
    LET from == MinOf(start, v.len)
    IN  [at |-> v.at + from, len |-> Wrap(MinOf(MaxOf(from, end), v.len) - from)]

(* Dropping more than there is throws.                                     *)
CanDrop(v, n) == n <= v.len
DropFront(v, n) == Substr(v, n, npos)
DropBack(v, n) == Substr(v, 0, v.len - n)
TakeFront(v, n) == IF n >= v.len THEN v ELSE DropBack(v, v.len - n)
TakeBack(v, n) == IF n >= v.len THEN v ELSE DropFront(v, v.len - n)

TakeWhile(v, set) == Substr(v, 0, FindIf(Chars(v), Ascii \ set, 0))
TakeUntil(v, set) == Substr(v, 0, FindIf(Chars(v), set, 0))
DropWhile(v, set) == Substr(v, FindIf(Chars(v), Ascii \ set, 0), npos)
DropUntil(v, set) == Substr(v, FindIf(Chars(v), set, 0), npos)

Ltrim(v, set) == DropFront(v, MinOf(v.len, FindFirstNotOf(Chars(v), set, 0)))
(* Mutant: the last character that stays is dropped too.                   *)
RtrimShort(v, set) == DropBack(v, v.len - MinOf(v.len, FindLastNotOf(Chars(v), set, npos)))
Rtrim(v, set) == DropBack(v, v.len - MinOf(v.len, Wrap(FindLastNotOf(Chars(v), set, npos) + 1)))
Trim(v, set) == Rtrim(Ltrim(v, set), set)

(* split and rsplit into a pair; the second is the empty string_ref() when *)
(* the separator is not found.                                             *)
Around(v, index, separator) ==
    IF index = npos THEN <<v, [at |-> v.at, len |-> 0]>>
    ELSE <<Slice(v, 0, index), Slice(v, index + Len(separator), npos)>>
SplitPair(v, separator) == Around(v, Find(Chars(v), separator, 0), separator)
RsplitPair(v, separator) == Around(v, Rfind(Chars(v), separator), separator)

(* split into a vector.  Without a limit there is at most one turn for     *)
(* each character, and an empty separator is found for ever at the front   *)
(* of what is left: such a call never returns.                             *)
Split(v, separator, max_split, keep_empty) ==
    LET kept(piece) == IF keep_empty \/ piece.len > 0 THEN <<piece>> ELSE <<>>
        turns == IF max_split < 0 THEN v.len ELSE max_split
        turn[i \in 0..turns] ==
            IF i = 0 THEN [str |-> v, result |-> <<>>]
            ELSE LET t == turn[i - 1]
                     index == Find(Chars(t.str), separator, 0)
                 IN  IF index = npos THEN t
                     ELSE [str |-> Slice(t.str, index + Len(separator), npos),
                           result |-> t.result \o kept(Slice(t.str, 0, index))]
    IN  turn[turns].result \o kept(turn[turns].str)
SplitReturns(separator, max_split) == separator # <<>> \/ max_split >= 0

-----------------------------------------------------------------------------
SrInit == text \in Texts /\ view = [at |-> 0, len |-> Len(text)]

Becomes(v) == view' = v /\ UNCHANGED text
Sets == {Range(n) : n \in Needles}

Cut ==
    \E n \in SizeT :
        \/ CanDrop(view, n) /\ (Becomes(DropFront(view, n)) \/ Becomes(DropBack(view, n)))
        \/ Becomes(TakeFront(view, n)) \/ Becomes(TakeBack(view, n))
        \/ \E m \in SizeT : Becomes(Substr(view, n, m)) \/ Becomes(Slice(view, n, m))

Strip ==
    \E set \in Sets :
        \/ Becomes(Ltrim(view, set)) \/ Becomes(Rtrim(view, set)) \/ Becomes(Trim(view, set))
        \/ Becomes(TakeWhile(view, set)) \/ Becomes(TakeUntil(view, set))
        \/ Becomes(DropWhile(view, set)) \/ Becomes(DropUntil(view, set))

SplitOff ==
    \E separator \in Needles :
        \/ \E half \in {1, 2} : Becomes(SplitPair(view, separator)[half])
                                \/ Becomes(RsplitPair(view, separator)[half])
        \/ \E max_split \in -1..2, keep_empty \in BOOLEAN :
              /\ SplitReturns(separator, max_split)
              /\ \E piece \in Range(Split(view, separator, max_split, keep_empty)) : Becomes(piece)

SrNext == Cut \/ Strip \/ SplitOff

SrSpec == SrInit /\ [][SrNext]_srVars

-----------------------------------------------------------------------------
(* A string_ref made from another one by any of its operations, with any   *)
(* arguments up to npos, lies inside the characters of the first one.      *)
SrTypeOK ==
    /\ text \in Texts /\ view \in [at : SizeT, len : SizeT]
    /\ view.at + view.len <= Len(text)

Number(s) ==
    LET n[i \in 0..Len(s)] == IF i = 0 THEN 0 ELSE 10 * n[i - 1] + (s[i] - 48) IN n[Len(s)]
IsNumber(s) == s # <<>> /\ s[1] # 48 /\ \A i \in DOMAIN s : IsDigit(s[i])

(* compare_numeric is a total order, wherever the runs of digits are and   *)
(* however long, and puts numbers in their order; compare and its form     *)
(* that ignores case agree with equality.                                  *)
NumericOrder ==
    LET s == Chars(view)
        notBelow == {t \in Needles : CompareNumeric(s, t) <= 0}
    IN  /\ \A t \in notBelow, u \in Needles \ notBelow : CompareNumeric(t, u) > 0
        /\ \A t \in Needles :
              /\ CompareNumeric(s, t) = 0 <=> s = t
              /\ IsNumber(s) /\ IsNumber(t) => (CompareNumeric(s, t) < 0 <=> Number(s) < Number(t))
              /\ CompareNumeric(s, t) = -CompareNumeric(t, s)
              /\ Compare(s, t) = -Compare(t, s)
              /\ CompareIgnoreCase(s, t) = 0 <=> Lower(s) = Lower(t)

(* find gives the first occurrence at or after the start whichever way it  *)
(* searches, rfind the last, and the searches agree with each other and    *)
(* with those that ignore case.                                            *)
FindsFirst ==
    LET s == Chars(view)
    IN  \A n \in Needles :
          /\ \A start \in SizeT :
                LET hits == {i \in start..(Len(s) - Len(n)) :
                                \A k \in DOMAIN n : s[i + k] = n[k]}
                IN  /\ Find(s, n, start) = IF hits = {} THEN npos ELSE Min(hits)
                    /\ start <= Len(s) => FindIgnoreCase(s, n, start) = Find(Lower(s), Lower(n), start)
                    /\ ~FindIfThrows(s, start) /\ Len(n) = 1 =>
                          FindIgnoreCaseChar(s, n[1], start) = FindIgnoreCase(s, n, start)
                    /\ Len(n) = 1 => /\ FindFirstOf(s, {n[1]}, start) = FindChar(s, n[1], start)
                                     /\ FindLastOf(s, {n[1]}, start) = RfindChar(s, n[1], start)
          /\ Find(s, n, 0) = npos <=> Count(s, n) = 0
          /\ Rfind(s, n) = npos <=> Count(s, n) = 0
          /\ Count(s, n) = 1 => Rfind(s, n) = Find(s, n, 0)
          /\ StartsWith(s, n) <=> Find(s, n, 0) = 0
          /\ EndsWith(s, n) <=> Len(n) <= Len(s) /\ Rfind(s, n) = Len(s) - Len(n)
          /\ RfindIgnoreCase(s, n) = npos <=> FindIgnoreCase(s, n, 0) = npos

Joined(pieces, sep) ==
    Chars(pieces[1]) \o FlattenSeq([i \in 1..(Len(pieces) - 1) |-> sep \o Chars(pieces[i + 1])])
WithoutEmpty(pieces) ==
    FlattenSeq([i \in DOMAIN pieces |-> IF pieces[i].len > 0 THEN <<pieces[i]>> ELSE <<>>])

(* "separator.join(result) == *this if max_split == -1 and keep_empty"     *)
(* (string.hpp:879), at most max_split + 1 pieces, and without empty ones  *)
(* otherwise the same; "*this == LHS + separator + RHS" with the longest   *)
(* or the shortest RHS (822, 847); a text trimmed has no such character at *)
(* either end.                                                             *)
SplitsRejoin ==
    LET s == Chars(view)
    IN  \A n \in Needles :
          /\ \A m \in -1..2 : SplitReturns(n, m) =>
                LET all == Split(view, n, m, TRUE)
                IN  /\ Joined(all, n) = s
                    /\ m >= 0 => Len(all) <= m + 1
                    /\ m = -1 => \A i \in DOMAIN all : Find(Chars(all[i]), n, 0) = npos
                    /\ Split(view, n, m, FALSE) = WithoutEmpty(all)
          /\ LET left == SplitPair(view, n)
                 right == RsplitPair(view, n)
             IN  IF Count(s, n) = 0 THEN left[1] = view /\ left[2].len = 0 /\ right = left
                 ELSE /\ Chars(left[1]) \o n \o Chars(left[2]) = s
                      /\ Chars(right[1]) \o n \o Chars(right[2]) = s
                      /\ \A i \in Positions(s, n, 0) :
                            left[2].len >= Len(s) - i - Len(n) /\ right[2].len <= Len(s) - i - Len(n)
          /\ LET t == Chars(Trim(view, Range(n)))
             IN  t = <<>> \/ (t[1] \notin Range(n) /\ t[Len(t)] \notin Range(n))
=============================================================================
