------------------------------- MODULE MCTexts -------------------------------
(***************************************************************************)
(* Small instances of StringRef, LazyStream, Format and Codecvt for TLC.   *)
(* They share no state, so a behaviour follows one of them while the       *)
(* others stay as they were at the start, at a fixed place.                *)
(***************************************************************************)
EXTENDS StringRef, LazyStream, Format, Codecvt, TLC

CONSTANTS t1

VARIABLE part

UpToLength(set, n) == UNION {[1..k -> set] : k \in 0..n}

SomeTexts == UpToLength({97, 98}, 6) \cup UpToLength({49, 57, 65, 97}, 3)
SomeNeedles ==
    UpToLength({97, 98}, 3) \cup UpToLength({49, 57, 97}, 2)
    \cup {<<97, 97, 97, 97>>, <<97, 98, 97, 98>>}

SomeLists == UpToLength(Elements, 3)
SomeProducers ==
    {Identity, [i \in Elements |-> (i + 1) % 3], [i \in Elements |-> IF i = 0 THEN 1 ELSE 3 - i]}
SomeMappers == {[i \in Elements |-> (i + 1) % 3], [i \in Elements |-> IF i = 2 THEN 1 ELSE i]}
SomeTests == {{1}, {0, 2}}

Plain == [digits |-> Unset, conv |-> Unset, width |-> Unset, side |-> Unset, fill |-> Unset]
Hex == [Plain EXCEPT !.conv = "x"]
Sci == [Plain EXCEPT !.digits = 2, !.conv = "e"]
FilledLeft == [Plain EXCEPT !.digits = 3, !.width = 8, !.side = "left", !.fill = "="]
SomePlaceholders == {Plain, Hex, Sci, FilledLeft, [Plain EXCEPT !.conv = "d"],
                     [Plain EXCEPT !.conv = "o", !.width = 4, !.side = "right"]}
SomeFormats ==
    UpToLength(FmtTexts \cup SomePlaceholders, 2)
    \cup {<<f, t1, g>> : f, g \in {Plain, Hex, Sci, FilledLeft}}
SomeValues ==
    {[floating |-> b, pieces |-> 1] : b \in BOOLEAN} \cup {[floating |-> FALSE, pieces |-> 3]}
Fresh == [field |-> "general", base |-> "dec", showbase |-> FALSE, side |-> "none",
          fill |-> " ", precision |-> 6, width |-> 0]
SomeStreams ==
    {Fresh, [Fresh EXCEPT !.field = "fixed", !.base = "hex", !.side = "left", !.width = 5]}

SomeLocals == UpToLength({0, 65, 127, 128, 129, 255}, 4)

Init ==
    /\ part \in {"strings", "stream", "format", "codecvt"}
    /\ SrInit /\ (part # "strings" => text = <<>>)
    /\ LsInit /\ (part # "stream" => stream = Of(<<>>))
    /\ FmInit /\ (part # "format" => os = Fresh)
    /\ CvInit /\ (part # "codecvt" => local = <<>>)

Next ==
    /\ UNCHANGED part
    /\ \/ part = "strings" /\ SrNext /\ UNCHANGED <<lsVars, fmVars, cvVars>>
       \/ part = "stream" /\ LsNext /\ UNCHANGED <<srVars, fmVars, cvVars>>
       \/ part = "format" /\ FmNext /\ UNCHANGED <<srVars, lsVars, cvVars>>
       \/ part = "codecvt" /\ CvNext /\ UNCHANGED <<srVars, lsVars, fmVars>>

Spec ==
    /\ Init /\ [][Next]_<<srVars, lsVars, fmVars, cvVars, part>>
    /\ WF_lsVars(EvalStep)

(* The properties of StringRef, where a text is looked at: the comparisons *)
(* are orders and the searches find what is first or last,                 *)
ComparesAndFinds == part = "strings" => NumericOrder /\ FindsFirst

(* and splitting and trimming lose nothing of it.                          *)
SplitsAndTrims == part = "strings" => SplitsRejoin

TypeOK == SrTypeOK /\ LsTypeOK /\ FmTypeOK /\ CvTypeOK
==============================================================================
