----------------------------- MODULE FdStreams -----------------------------
(***************************************************************************)
(* fdostream and fdistream (fdstream.hpp) at the two ends of a pipe: the   *)
(* unbuffered fdoutbuf, and fdinbuf with its buffer and putback area.      *)
(* A process reads one pipe through two of the latter, _stdout and         *)
(* _stderr (process.hpp).                                                  *)
(*                                                                         *)
(* A byte is the number of its place in what the user of the fdostream has *)
(* inserted.  Offsets into _buffer count from 0, as in the code.           *)
(***************************************************************************)
EXTENDS Integers, Sequences, FiniteSets

CONSTANTS
    Readers,        \* the fdinbufs over the read end
    NoByte,
    PUTBACK_SIZE, BUFFER_SIZE,
    Capacity,       \* of the pipe
    Chunks,         \* how many bytes the user inserts at a time
    MaxBytes,       \* bound: inserted in all
    MaxFaults       \* bound: reads and writes that fail or are cut short

ASSUME StreamAssumption ==
    /\ PUTBACK_SIZE \in Nat /\ BUFFER_SIZE \in Nat \ {0} /\ Capacity \in Nat \ {0}
    /\ MaxBytes \in Nat /\ MaxFaults \in Nat
    /\ Chunks \subseteq Nat \ {0}
    /\ NoByte \notin 1..MaxBytes

VARIABLES
    pipe,       \* the bytes in the kernel's buffer
    outOpen,    \* the write end is open
    outGood,    \* good() of the fdostream
    inserted,   \* how many bytes its user has inserted
    in,         \* of each fdinbuf: _buffer, eback(), gptr(), egptr()
    wire,       \* history: the bytes that went into the pipe
    taken,      \* history: the bytes that read() gave to each fdinbuf
    pos,        \* history: how many of them its user has consumed
    seen,       \* the byte its user was given last
    failed,     \* history: of each, where its last read met the end or an error
    cleared,    \* history: the user has cleared a failure of the fdostream
    faults

outVars == <<outOpen, outGood, inserted, wire, cleared>>
inVars == <<in, taken, pos, seen, failed>>
fdVars == <<pipe, outOpen, outGood, inserted, in, wire, taken, pos, seen, failed,
            cleared, faults>>

Min2(a, b) == IF a < b THEN a ELSE b
Offsets == 0..(BUFFER_SIZE + PUTBACK_SIZE - 1)

FdInit ==
    /\ pipe = <<>> /\ wire = <<>>
    /\ outOpen = TRUE /\ outGood = TRUE
    /\ inserted = 0 /\ faults = 0 /\ cleared = FALSE
    /\ in = [r \in Readers |-> [buf |-> [k \in Offsets |-> NoByte], eback |-> PUTBACK_SIZE,
                                gptr |-> PUTBACK_SIZE, egptr |-> PUTBACK_SIZE]]
    /\ taken = [r \in Readers |-> <<>>]
    /\ pos = [r \in Readers |-> 0]
    /\ seen = [r \in Readers |-> NoByte]
    /\ failed = [r \in Readers |-> 0]

-----------------------------------------------------------------------------
(* The writer.                                                             *)

(* What write(_fd, s, num) may return: all, or after a signal less, or -1. *)
WriteResults(num) ==
    {n \in {-1} \cup (1..num) :
        /\ Len(pipe) + n <= Capacity
        /\ n < num => faults < MaxFaults}

(* Mutant: a short write counts as done.                                   *)
TakenInPart(n, num) == n > 0
(* The ostream sets badbit unless xsputn or overflow took everything.      *)
TakenWhole(n, num) == n = num

Xsputn(num) ==
    /\ outOpen /\ outGood
    /\ inserted + num <= MaxBytes
    /\ \E n \in WriteResults(num) :
          LET done == [i \in 1..(IF n = -1 THEN 0 ELSE n) |-> inserted + i]
          IN  /\ pipe' = pipe \o done
              /\ wire' = wire \o done
              /\ outGood' = TakenWhole(n, num)
              /\ faults' = IF n = num THEN faults ELSE faults + 1
    /\ inserted' = inserted + num
    /\ UNCHANGED <<outOpen, cleared, inVars>>

(* put(): one character through overflow, which answers EOF unless one     *)
(* byte was written.                                                       *)
Overflow ==
    /\ outOpen /\ outGood
    /\ inserted < MaxBytes
    /\ inserted' = inserted + 1
    /\ \/ /\ 1 \in WriteResults(1)
          /\ pipe' = Append(pipe, inserted')
          /\ wire' = Append(wire, inserted')
          /\ UNCHANGED <<outGood, faults>>
       \/ /\ -1 \in WriteResults(1)
          /\ outGood' = FALSE /\ faults' = faults + 1
          /\ UNCHANGED <<pipe, wire>>
    /\ UNCHANGED <<outOpen, cleared, inVars>>

(* The user clears the state, or closes the descriptor.                    *)
ClearOut ==
    /\ ~outGood
    /\ outGood' = TRUE /\ cleared' = TRUE
    /\ UNCHANGED <<pipe, outOpen, inserted, wire, faults, inVars>>

CloseOut ==
    /\ outOpen
    /\ outOpen' = FALSE
    /\ UNCHANGED <<pipe, outGood, inserted, wire, cleared, faults, inVars>>

-----------------------------------------------------------------------------
(* The readers.                                                            *)

(* Mutants: the putback area is not limited; it is one character short.    *)
BackSizeUncapped(g) == g.gptr - g.eback
BackSizeShort(g) == Min2(g.gptr - g.eback, PUTBACK_SIZE - 1)
BackSize(g) == Min2(g.gptr - g.eback, PUTBACK_SIZE)

(* Mutant: the oldest characters are kept, not the last ones.              *)
PutbackMovedOldest(g) ==
    [k \in Offsets |->
        IF k \in (PUTBACK_SIZE - BackSize(g))..(PUTBACK_SIZE - 1)
        THEN g.buf[g.eback + k - (PUTBACK_SIZE - BackSize(g))]
        ELSE g.buf[k]]
(* The memmove of the last BackSize characters to below PUTBACK_SIZE.      *)
PutbackMoved(g) ==
    [k \in Offsets |->
        IF k \in (PUTBACK_SIZE - BackSize(g))..(PUTBACK_SIZE - 1)
        THEN g.buf[g.gptr - PUTBACK_SIZE + k]
        ELSE g.buf[k]]

(* underflow with a read that brings num bytes.                            *)
Underflow(r) ==
    LET g == in[r]
    IN  /\ g.gptr = g.egptr
        /\ \E num \in 1..Min2(BUFFER_SIZE, Len(pipe)) :
              /\ in' = [in EXCEPT ![r] =
                    [buf |-> [k \in Offsets |->
                                 IF k \in PUTBACK_SIZE..(PUTBACK_SIZE + num - 1)
                                 THEN pipe[k - PUTBACK_SIZE + 1]
                                 ELSE PutbackMoved(g)[k]],
                     eback |-> PUTBACK_SIZE - BackSize(g),
                     gptr |-> PUTBACK_SIZE,
                     egptr |-> PUTBACK_SIZE + num]]
              /\ taken' = [taken EXCEPT ![r] = @ \o SubSeq(pipe, 1, num)]
              /\ pipe' = SubSeq(pipe, num + 1, Len(pipe))
        /\ UNCHANGED <<outVars, faults, pos, seen, failed>>

(* underflow with a read that answers 0 or -1: the putback area has been   *)
(* moved, the pointers have not.                                           *)
UnderflowFails(r) ==
    /\ in[r].gptr = in[r].egptr
    /\ \/ pipe = <<>> /\ ~outOpen /\ UNCHANGED faults
       \/ faults < MaxFaults /\ faults' = faults + 1
    /\ in' = [in EXCEPT ![r].buf = PutbackMoved(in[r])]
    /\ failed' = [failed EXCEPT ![r] = pos[r]]
    /\ UNCHANGED <<pipe, outVars, taken, pos, seen>>

(* sbumpc and sungetc of std::streambuf.                                   *)
Bump(r) ==
    /\ in[r].gptr < in[r].egptr
    /\ seen' = [seen EXCEPT ![r] = in[r].buf[in[r].gptr]]
    /\ in' = [in EXCEPT ![r].gptr = @ + 1]
    /\ pos' = [pos EXCEPT ![r] = @ + 1]
    /\ UNCHANGED <<pipe, outVars, faults, taken, failed>>

Unget(r) ==
    /\ in[r].gptr > in[r].eback
    /\ seen' = [seen EXCEPT ![r] = in[r].buf[in[r].gptr - 1]]
    /\ in' = [in EXCEPT ![r].gptr = @ - 1]
    /\ pos' = [pos EXCEPT ![r] = @ - 1]
    /\ UNCHANGED <<pipe, outVars, faults, taken, failed>>

FdNext ==
    \/ \E num \in Chunks : Xsputn(num)
    \/ Overflow \/ ClearOut \/ CloseOut
    \/ \E r \in Readers : Underflow(r) \/ UnderflowFails(r) \/ Bump(r) \/ Unget(r)

FdSpec == FdInit /\ [][FdNext]_fdVars

-----------------------------------------------------------------------------
FdTypeOK ==
    /\ pipe \in Seq(1..MaxBytes) /\ wire \in Seq(1..MaxBytes)
    /\ Len(pipe) <= Capacity
    /\ outOpen \in BOOLEAN /\ outGood \in BOOLEAN /\ cleared \in BOOLEAN
    /\ inserted \in 0..MaxBytes /\ faults \in 0..MaxFaults
    /\ in \in [Readers -> [buf : [Offsets -> 1..MaxBytes \cup {NoByte}],
                           eback : 0..PUTBACK_SIZE,
                           gptr : 0..(BUFFER_SIZE + PUTBACK_SIZE),
                           egptr : 0..(BUFFER_SIZE + PUTBACK_SIZE)]]
    /\ taken \in [Readers -> Seq(1..MaxBytes)]
    /\ pos \in [Readers -> 0..MaxBytes]
    /\ seen \in [Readers -> 1..MaxBytes \cup {NoByte}]
    /\ failed \in [Readers -> 0..MaxBytes]

Reader == INSTANCE ByteReader WITH arrived <- taken, cursor <- pos, given <- seen, cut <- failed

(* Through any number of refills, short reads and failing reads a stream   *)
(* gives its bytes in the order they arrived, each once, and unget gives   *)
(* the byte that was given before.  Only the bytes before the place where  *)
(* a read failed may come back changed: there underflow has moved the      *)
(* putback area under pointers that it leaves as they were.                *)
ReadsAsPromised == Reader!ReaderSpec

(* PUTBACK_SIZE characters that were read before the last refill can       *)
(* always be put back, or as many as there were: the refill moved them.    *)
PutbackRoom ==
    \A r \in Readers :
        LET refilledAt == Len(taken[r]) - (in[r].egptr - PUTBACK_SIZE)
            reachable == pos[r] - (in[r].gptr - in[r].eback)
        IN  reachable <= IF refilledAt < PUTBACK_SIZE THEN 0 ELSE refilledAt - PUTBACK_SIZE

(* What is written arrives in order, no byte twice, and none is lost       *)
(* between the writer and the readers, though the two of a process share   *)
(* one pipe: a byte is in the pipe or was given to one of them.  While the *)
(* fdostream is good all that was inserted is on the wire, short and       *)
(* failed writes included, unless its user cleared a failure.              *)
BytesAccounted ==
    /\ \A i \in 1..Len(wire) - 1 : wire[i] < wire[i + 1]
    /\ outGood /\ ~cleared => Len(wire) = inserted
    /\ \A i \in DOMAIN wire :
          LET inPipe == {k \in DOMAIN pipe : pipe[k] = wire[i]}
              inReader == UNION {{<<r, k>> : k \in {j \in DOMAIN taken[r] : taken[r][j] = wire[i]}} : r \in Readers}
          IN  Cardinality(inPipe) + Cardinality(inReader) = 1
=============================================================================
