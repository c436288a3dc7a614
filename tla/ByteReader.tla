----------------------------- MODULE ByteReader -----------------------------
(***************************************************************************)
(* What an input stream over a descriptor promises its user, without       *)
(* buffers: the bytes that arrived, in their order, and a cursor that goes *)
(* forward with a read and back with an unget.                             *)
(***************************************************************************)
EXTENDS Naturals, Sequences

CONSTANTS
    Readers,    \* the streams
    NoByte      \* what a stream has given before its first byte

VARIABLES
    arrived,    \* the bytes that came in through each stream's descriptor
    cursor,     \* how many of them its user has consumed
    given,      \* the byte its last operation returned
    cut         \* the place where it last met the end of the input, or an error

readerVars == <<arrived, cursor, given, cut>>

ReaderInit ==
    /\ arrived = [r \in Readers |-> <<>>]
    /\ cursor = [r \in Readers |-> 0]
    /\ given = [r \in Readers |-> NoByte]
    /\ cut = [r \in Readers |-> 0]

(* Bytes arrive; none that has arrived is changed.                         *)
Arrive(r) ==
    /\ \E more \in {arrived'[r]} :
          /\ Len(more) > Len(arrived[r])
          /\ SubSeq(more, 1, Len(arrived[r])) = arrived[r]
          /\ arrived' = [arrived EXCEPT ![r] = more]
    /\ UNCHANGED <<cursor, given, cut>>

Cut(r) ==
    /\ cursor[r] = Len(arrived[r])
    /\ cut' = [cut EXCEPT ![r] = cursor[r]]
    /\ UNCHANGED <<arrived, cursor, given>>

(* The byte at a place is what arrived there.  Once the end or an error    *)
(* was met the bytes before it are not promised a second time.             *)
Gives(r, place) ==
    /\ \E b \in {given'[r]} : given' = [given EXCEPT ![r] = b]
    /\ place > cut[r] => given'[r] = arrived[r][place]

Forward(r) ==
    /\ cursor[r] < Len(arrived[r])
    /\ Gives(r, cursor[r] + 1)
    /\ cursor' = [cursor EXCEPT ![r] = @ + 1]
    /\ UNCHANGED <<arrived, cut>>

Back(r) ==
    /\ cursor[r] > 0
    /\ Gives(r, cursor[r])
    /\ cursor' = [cursor EXCEPT ![r] = @ - 1]
    /\ UNCHANGED <<arrived, cut>>

ReaderNext == \E r \in Readers : Arrive(r) \/ Cut(r) \/ Forward(r) \/ Back(r)

ReaderSpec == ReaderInit /\ [][ReaderNext]_readerVars
=============================================================================
