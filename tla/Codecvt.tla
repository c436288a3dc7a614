------------------------------ MODULE Codecvt ------------------------------
(***************************************************************************)
(* The charsets of codecvt.hpp that are written here: gbk, whose decoder   *)
(* goes through the bytes with a flag and a pending head, and ascii.  What *)
(* has been decoded is then given to the encoder.  char is signed: a byte  *)
(* above 127 becomes a word with all higher bits set.                      *)
(***************************************************************************)
EXTENDS Integers, Sequences

CONSTANTS
    Locals,         \* byte strings that are decoded
    Words           \* 2^32; 2^24 shows the same, all bits beyond 16 are alike

ASSUME CodecvtAssumption ==
    /\ Locals \subseteq Seq(0..255)
    /\ Words \in Nat /\ Words % 2^16 = 0 /\ Words >= 2^24

VARIABLES
    local,          \* the bytes
    it,             \* how many of them have been read
    head, read_next,
    wide,           \* the characters so far
    ch,             \* how many of them have been encoded
    back,           \* the bytes these gave
    verdict         \* "decoding", "decoded", "thrown", "encoded"
cvVars == <<local, it, head, read_next, wide, ch, back, verdict>>

SignExtended(byte) == IF byte < 128 THEN byte ELSE Words - 256 + byte
Narrow(word) == word % 256

(* head << 8 in a word.                                                    *)
ShiftedByte(word) == (word % (Words \div 2^8)) * 2^8

(* Mutant: set_zero keeps the bits of the sign.                            *)
SetZeroNot(word) == word
set_zero(word) == word % 2^16

(* A character with bit 15 gives two bytes, any other one.                 *)
IsBlock(char) == (char \div 2^15) % 2 = 1
Encoded(char) ==
    IF IsBlock(char) THEN <<Narrow(char \div 2^8), Narrow(char)>> ELSE <<Narrow(char)>>

AsciiWide(bytes) == [i \in DOMAIN bytes |-> SignExtended(bytes[i])]
AsciiLocal(chars) == [i \in DOMAIN chars |-> Narrow(chars[i])]

-----------------------------------------------------------------------------
CvInit ==
    /\ local \in Locals
    /\ it = 0 /\ head = 0 /\ read_next = TRUE
    /\ wide = <<>> /\ verdict = "decoding"
    /\ ch = 0 /\ back = <<>>

ReadHead ==
    /\ verdict = "decoding" /\ it < Len(local) /\ read_next
    /\ LET word == SignExtended(local[it + 1])
       IN  /\ head' = word
           /\ IF (word \div 2^7) % 2 = 1 THEN read_next' = FALSE /\ UNCHANGED wide
              ELSE wide' = Append(wide, set_zero(word)) /\ UNCHANGED read_next
    /\ it' = it + 1
    /\ UNCHANGED <<local, ch, back, verdict>>

ReadTail ==
    /\ verdict = "decoding" /\ it < Len(local) /\ ~read_next
    /\ wide' = Append(wide, set_zero(ShiftedByte(head) + local[it + 1]))
    /\ read_next' = TRUE
    /\ it' = it + 1
    /\ UNCHANGED <<local, head, ch, back, verdict>>

(* A head without its tail at the end throws.                              *)
Finish ==
    /\ verdict = "decoding" /\ it = Len(local)
    /\ verdict' = IF read_next THEN "decoded" ELSE "thrown"
    /\ UNCHANGED <<local, it, head, read_next, wide, ch, back>>

(* wide2local, character by character.                                     *)
Encode ==
    /\ verdict = "decoded" /\ ch < Len(wide)
    /\ back' = back \o Encoded(wide[ch + 1])
    /\ ch' = ch + 1
    /\ UNCHANGED <<local, it, head, read_next, wide, verdict>>

EncodeReturns ==
    /\ verdict = "decoded" /\ ch = Len(wide)
    /\ verdict' = "encoded"
    /\ UNCHANGED <<local, it, head, read_next, wide, ch, back>>

CvNext == ReadHead \/ ReadTail \/ Finish \/ Encode \/ EncodeReturns

CvSpec == CvInit /\ [][CvNext]_cvVars

-----------------------------------------------------------------------------
CvTypeOK ==
    /\ local \in Locals /\ it \in 0..Len(local)
    /\ head \in 0..(Words - 1) /\ read_next \in BOOLEAN
    /\ wide \in Seq(0..(Words - 1)) /\ ch \in 0..Len(wide) /\ back \in Seq(0..255)
    /\ verdict \in {"decoding", "decoded", "thrown", "encoded"}

(* A text that decodes encodes to itself, byte by byte as it is written,   *)
(* signed bytes and tails that look like heads included; and every         *)
(* character fits into 16 bits and is told by bit 15 from one byte.  ascii,*)
(* too, gives the bytes back, also those that are none of its characters.  *)
DecodingInverts ==
    /\ back = SubSeq(local, 1, Len(back))
    /\ verdict = "encoded" => back = local
    /\ \A i \in DOMAIN wide : wide[i] < 2^16 /\ (wide[i] < 128 \/ wide[i] >= 2^15)
    /\ AsciiLocal(AsciiWide(local)) = local
=============================================================================
