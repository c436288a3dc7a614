------------------------------- MODULE Format -------------------------------
(***************************************************************************)
(* mpp::format (format.hpp) on an std::ostream: the format string is a     *)
(* sequence of texts and placeholders {.digits x|o|d|e :width |fill};      *)
(* what is written is recorded with the state of the stream it was written *)
(* under, which is all that the output depends on.  FormatOne is one level *)
(* of the recursion of format_impl.                                        *)
(***************************************************************************)
EXTENDS Integers, Sequences, SequencesExt, FiniteSets

CONSTANTS
    FmtTexts,       \* texts without placeholders
    Placeholders,   \* [digits, conv, width, side, fill], Unset where left out
    Values,         \* arguments: [floating, pieces], the single outputs of one
    Streams,        \* states of the caller's stream
    Formats,        \* format strings
    MaxArgs,
    MaxFormats,     \* calls on one stream
    Unset           \* no value

ASSUME FormatAssumption ==
    /\ Formats \subseteq Seq(FmtTexts \cup Placeholders) /\ Formats # {}
    /\ MaxArgs \in Nat /\ MaxFormats \in Nat
    /\ \A v \in Values : v.floating \in BOOLEAN /\ v.pieces \in Nat \ {0}
    /\ \A p \in Placeholders : p.width \in Nat \cup {Unset}
    /\ \A o \in Streams :
          /\ o = [field |-> o.field, base |-> o.base, showbase |-> o.showbase, side |-> o.side,
                  fill |-> o.fill, precision |-> o.precision, width |-> o.width]
          /\ o.width \in Nat

VARIABLES
    os,             \* flags (field: fixed..., base, showbase, side), fill, precision, width
    fmt,            \* what is left of the format string
    args,           \* the arguments that are left
    output,         \* what the call has written
    asked,          \* the call
    phase,          \* "idle", "formatting", "done"
    formats         \* calls so far
fmVars == <<os, fmt, args, output, asked, phase, formats>>

Flags(o) == [field |-> o.field, base |-> o.base, showbase |-> o.showbase, side |-> o.side]
IsText(t) == t \in FmtTexts

-----------------------------------------------------------------------------
(* One `out << x`: the width holds for it only.                            *)
Wrote(o, what) ==
    [what |-> what, flags |-> Flags(o), fill |-> o.fill, precision |-> o.precision, width |-> o.width]
After(o) == [o EXCEPT !.width = 0]

(* The control_writers: those for digits and e are empty unless the type   *)
(* of the argument is floating, those for d and o if it is.                *)
WithDigits(o, p, value) ==
    IF p.digits = Unset \/ ~value.floating THEN o
    ELSE [o EXCEPT !.field = "fixed", !.precision = p.digits]

WithConv(o, p, value) ==
    CASE p.conv = "x" /\ value.floating -> [o EXCEPT !.field = "hexfloat", !.showbase = TRUE]
      [] p.conv = "x" /\ ~value.floating -> [o EXCEPT !.base = "hex", !.showbase = TRUE]
      [] p.conv = "o" /\ ~value.floating -> [o EXCEPT !.base = "oct", !.showbase = TRUE]
      [] p.conv = "d" /\ ~value.floating -> [o EXCEPT !.base = "dec", !.showbase = TRUE]
      [] p.conv = "e" /\ value.floating -> [o EXCEPT !.field = "scientific"]
      [] OTHER -> o

WithAlign(o, p) ==
    IF p.width = Unset THEN o
    ELSE [o EXCEPT !.side = p.side, !.width = p.width, !.fill = IF p.fill = Unset THEN @ ELSE p.fill]

Controlled(o, p, value) == WithAlign(WithConv(WithDigits(o, p, value), p, value), p)

(* Mutant: no stream_flags_saver.                                          *)
NotRestored(o, before) == o
(* ~stream_flags_saver: the flags as they were, nothing else.              *)
Restored(o, before) ==
    [o EXCEPT !.field = before.field, !.base = before.base,
              !.showbase = before.showbase, !.side = before.side]

(* write_value of an argument: its pieces one after the other.             *)
Pieces(o, n, value) ==
    [k \in 1..value.pieces |-> Wrote(IF k = 1 THEN o ELSE After(o), [arg |-> n, piece |-> k])]

-----------------------------------------------------------------------------
FmInit ==
    /\ os \in Streams
    /\ fmt = <<>> /\ args = <<>> /\ output = <<>>
    /\ asked = Unset /\ phase = "idle" /\ formats = 0

BeginFormat(f, a) ==
    /\ phase = "idle" /\ formats < MaxFormats
    /\ fmt' = f /\ args' = a /\ output' = <<>>
    /\ asked' = [fmt |-> f, args |-> a, os |-> os]
    /\ phase' = "formatting" /\ formats' = formats + 1
    /\ UNCHANGED os

First == SelectInSeq(fmt, LAMBDA t : ~IsText(t))

(* The text before the first placeholder is written even if it is empty.   *)
FormatOne ==
    /\ phase = "formatting" /\ args # <<>> /\ First # 0
    /\ LET p == fmt[First]
           value == args[1]
           n == Len(asked.args) - Len(args) + 1
           plain == After(os)
           o == Controlled(plain, p, value)
       IN  /\ output' = output \o <<Wrote(os, [text |-> SubSeq(fmt, 1, First - 1)])>> \o Pieces(o, n, value)
           /\ os' = Restored(After(o), plain)
    /\ fmt' = SubSeq(fmt, First + 1, Len(fmt))
    /\ args' = Tail(args)
    /\ UNCHANGED <<asked, phase, formats>>

(* The rest of the format string, placeholders without argument included,  *)
(* as one text; arguments without placeholder are dropped.                 *)
FormatRest ==
    /\ phase = "formatting" /\ (args = <<>> \/ First = 0)
    /\ IF fmt # <<>> \/ asked.args = <<>>
       THEN output' = Append(output, Wrote(os, [text |-> fmt])) /\ os' = After(os)
       ELSE UNCHANGED <<output, os>>
    /\ args' = <<>> /\ fmt' = <<>> /\ phase' = "done"
    /\ UNCHANGED <<asked, formats>>

(* The call returns; the caller keeps the stream.                          *)
FormatReturns ==
    /\ phase = "done" /\ phase' = "idle"
    /\ output' = <<>> /\ asked' = Unset
    /\ UNCHANGED <<os, fmt, args, formats>>

FmNext ==
    \/ \E f \in Formats, m \in 0..MaxArgs : \E a \in [1..m -> Values] : BeginFormat(f, a)
    \/ FormatOne \/ FormatRest \/ FormatReturns

FmSpec == FmInit /\ [][FmNext]_fmVars

-----------------------------------------------------------------------------
FmTypeOK ==
    /\ os.width \in Nat /\ phase \in {"idle", "formatting", "done"}
    /\ Len(args) <= MaxArgs /\ \E f \in Formats : IsSuffix(fmt, f)
    /\ formats \in 0..MaxFormats

(* The placeholders among the first i tokens of a format string, and its   *)
(* n-th placeholder.                                                       *)
SlotsUpTo(f, i) == Cardinality({j \in 1..i : ~IsText(f[j])})
Slot(f, n) == f[CHOOSE i \in DOMAIN f : ~IsText(f[i]) /\ SlotsUpTo(f, i) = n]

(* The last value given for a field in those of the first n placeholders   *)
(* that count, or that of the caller's stream.                             *)
Latest(f, n, field, counting, initial) ==
    LET given == {i \in 1..n : i \in counting /\ Slot(f, i)[field] # Unset}
    IN  IF given = {} THEN initial ELSE Slot(f, Max(given))[field]

(* The format string with a placeholder replaced by each argument as long  *)
(* as there are both, and what has been written, token by token.           *)
Replaced(f, a) ==
    [i \in DOMAIN f |->
        LET n == SlotsUpTo(f, i)
        IN  IF IsText(f[i]) \/ n > Len(a) THEN <<f[i]>>
            ELSE [k \in 1..a[n].pieces |-> [arg |-> n, piece |-> k]]]
Written(out) ==
    [i \in DOMAIN out |-> IF "text" \in DOMAIN out[i].what THEN out[i].what.text
                                                           ELSE <<out[i].what>>]

TextAsAsked(call, r, first) ==
    r.flags = Flags(call.os) /\ r.width = IF first THEN call.os.width ELSE 0

PieceAsAsked(call, r) ==
    LET n == r.what.arg
        slot == Slot(call.fmt, n)
    IN  /\ r.flags = Flags(Controlled(call.os, slot, call.args[n]))
        /\ r.width = IF r.what.piece = 1 /\ slot.width # Unset THEN slot.width ELSE 0
        /\ r.fill = Latest(call.fmt, n, "fill",
                           {j \in 1..n : Slot(call.fmt, j).width # Unset}, call.os.fill)
        /\ r.precision = Latest(call.fmt, n, "digits",
                                {j \in 1..n : call.args[j].floating}, call.os.precision)

(* A call writes the format string with a placeholder replaced by each     *)
(* argument as long as there are both.  An argument has the flags and the  *)
(* width of its own placeholder over those of the caller's stream,         *)
(* whatever the placeholders before it asked for ("restore format flags    *)
(* for the next format cycle", format.hpp:287), and only its first piece   *)
(* has the width; fill and precision are the last ones that were given.    *)
(* The flags of the caller's stream are as they were.                      *)
FormatsAsAsked ==
    phase = "done" =>
        /\ FlattenSeq(Written(output)) = FlattenSeq(Replaced(asked.fmt, asked.args))
        /\ Flags(os) = Flags(asked.os)
        /\ \A i \in DOMAIN output :
              IF "text" \in DOMAIN output[i].what THEN TextAsAsked(asked, output[i], i = 1)
                                                  ELSE PieceAsAsked(asked, output[i])
=============================================================================
