--------------------------- MODULE ProcessSpawnProofs --------------------------
(***************************************************************************)
(* What holds of start() for every number of calls, every limit on         *)
(* descriptors and every use of the library.                               *)
(***************************************************************************)
EXTENDS ProcessSpawn, TLAPS

EndNames == Pipes \X PipeEnds

LEMMA EndSequences ==
    ASSUME NEW c \in Calls
    PROVE  /\ \A p \in Pipes : BothEnds(p) \in Seq(EndNames)
           /\ RollbackEnds(c) \in Seq(EndNames)
           /\ NearEnds(c) \in Seq(EndNames)
           /\ HandleEnds \in Seq(EndNames)
           /\ BothEnds("in") \o BothEnds("out") \in Seq(EndNames)
<1> DEFINE S == Seq(EndNames)
<1>0. /\ "in" \in Pipes /\ "out" \in Pipes /\ "err" \in Pipes /\ "fail" \in Pipes
      /\ "read" \in PipeEnds /\ "write" \in PipeEnds
  BY DEF Pipes, Streams, PipeEnds
<1>1. \A p \in Pipes : \A e \in PipeEnds : <<<<p, e>>>> \in S
  BY DEF EndNames
<1>2. \A p \in Pipes : BothEnds(p) \in S
  BY <1>0 DEF EndNames, BothEnds
<1>3. \A x, y \in S : x \o y \in S
  OBVIOUS
<1>4. \A s \in Streams : \A x \in S : PipedOnly(c, s, x) \in S
  BY DEF PipedOnly
<1>5. RollbackEnds(c) \in S
  BY <1>0, <1>2, <1>3, <1>4 DEF RollbackEnds, Streams
<1>6. NearEnds(c) \in S
  <2> DEFINE last == IF Merged(c) THEN <<>>
                     ELSE PipedOnly(c, "err", <<<<"err", "write">>>>)
  <2>0. <<>> \in S /\ PipedOnly(c, "err", <<<<"err", "write">>>>) \in S
    BY <1>0, <1>1, <1>4 DEF Streams
  <2>1. last \in S
    BY <2>0
  <2> QED
    BY <2>1, <1>0, <1>1, <1>3, <1>4 DEF NearEnds, Streams
<1>7. HandleEnds \in S
  BY <1>0 DEF HandleEnds, EndNames
<1> QED
  BY <1>0, <1>2, <1>3, <1>5, <1>6, <1>7

--------------------------------------------------------------------------------
(* Typing of the operators on tables.                                      *)

LEMMA FdFacts ==
    /\ Fds \subseteq Nat /\ Stdio \subseteq Fds /\ FD_INVALID \notin Fds
    /\ STDIN_FILENO \in Fds /\ STDOUT_FILENO \in Fds /\ STDERR_FILENO \in Fds
BY MaxFdAssumption DEF Fds, Stdio, FD_INVALID, STDIN_FILENO, STDOUT_FILENO,
                       STDERR_FILENO

LEMMA CloseFdsType ==
    ASSUME NEW t \in Tables, NEW S
    PROVE  CloseFds(t, S) \in Tables
BY DEF CloseFds, Tables

LEMMA Dup2Type ==
    ASSUME NEW t \in Tables, NEW old, NEW new \in Fds
    PROVE  Dup2(t, old, new) \in Tables
BY DEF Dup2, Tables

LEMMA PipeEndType ==
    ASSUME NEW c \in Calls, NEW p \in Pipes, NEW e \in PipeEnds
    PROVE  PipeEnd(c, p, e) \in Objects
BY DEF PipeEnd, Objects, PipeObjects

LEMMA UseType ==
    ASSUME use \in Uses
    PROVE  /\ use \in Use
           /\ use.userFiles \subseteq Files
           /\ use.table \in [Fds -> Files \cup {Closed}]
           /\ \A c \in Calls, s \in Streams : Target(c, s) \in FdOrInvalid
BY UsesAssumption DEF Use, Startup, Target

LEMMA RewiredType ==
    ASSUME NEW c \in Calls, NEW t \in Tables
    PROVE  Rewired(c, t) \in Tables
<1> DEFINE p == cfds[c]
           piped(s, e) == IF Redirected(c, s) THEN {} ELSE {p[s][e]}
           t1 == CloseFds(t, {p["fail"]["read"]} \cup piped("in", "write")
                                                \cup piped("out", "read"))
           t2 == Dup2(t1, p["in"]["read"], STDIN_FILENO)
           t3 == Dup2(t2, p["out"]["write"], STDOUT_FILENO)
           t3e == CloseFds(t3, piped("err", "read"))
           t4 == IF Merged(c)
                 THEN Dup2(t3, p["out"]["write"], STDERR_FILENO)
                 ELSE Dup2(t3e, p["err"]["write"], STDERR_FILENO)
<1>1. t1 \in Tables
  BY CloseFdsType
<1>2. t2 \in Tables
  BY <1>1, Dup2Type, FdFacts
<1>3. t3 \in Tables
  BY <1>2, Dup2Type, FdFacts
<1>4. t3e \in Tables
  BY <1>3, CloseFdsType
<1>5. t4 \in Tables
  BY <1>3, <1>4, Dup2Type, FdFacts
<1>6. CloseFds(t4, {p["in"]["read"], p["out"]["write"], p["err"]["write"]}) \in Tables
  BY <1>5, CloseFdsType
<1> QED
  BY <1>6 DEF Rewired

--------------------------------------------------------------------------------
(* Type correctness.                                                       *)

LEMMA TypeInit == Init => TypeOK
<1> SUFFICES ASSUME Init PROVE TypeOK
  OBVIOUS
<1>1. use.table \in Tables
  BY UseType DEF Init, Tables, Objects
<1>2. AllInvalid \in [Pipes -> [PipeEnds -> FdOrInvalid]]
  BY DEF AllInvalid, FdOrInvalid
<1>3. AllClosed \in Tables
  BY DEF AllClosed, Tables
<1> QED
  BY <1>1, <1>2, <1>3, UseType DEF Init, TypeOK, CallerPCs, ChildPCs

LEMMA TypeCreatePipe ==
    ASSUME TypeOK, NEW c \in Calls, NEW p \in Pipes, CreatePipe(c, p)
    PROVE  /\ table' \in Tables
           /\ fds' \in [Calls -> [Pipes -> [PipeEnds -> FdOrInvalid]]]
<1> PICK r \in Fds, w \in Fds :
        /\ table' = [table EXCEPT ![r] = PipeEnd(c, p, "read"),
                                  ![w] = PipeEnd(c, p, "write")]
        /\ fds' = [fds EXCEPT ![c][p] = [read |-> r, write |-> w]]
  BY DEF CreatePipe
<1>1. PipeEnd(c, p, "read") \in Objects /\ PipeEnd(c, p, "write") \in Objects
  BY PipeEndType DEF PipeEnds
<1>2. table' \in Tables
  BY <1>1 DEF TypeOK, Tables
<1>3. [read |-> r, write |-> w] \in [PipeEnds -> FdOrInvalid]
  BY DEF PipeEnds, FdOrInvalid
<1>4. fds' \in [Calls -> [Pipes -> [PipeEnds -> FdOrInvalid]]]
  BY <1>3 DEF TypeOK
<1> QED
  BY <1>2, <1>4

LEMMA TypeGoto ==
    ASSUME TypeOK, NEW c \in Calls, NEW label \in CallerPCs,
           NEW ends \in Seq(EndNames), Goto(c, label, ends)
    PROVE  pc' \in [Calls -> CallerPCs] /\ todo' \in [Calls -> Seq(EndNames)]
BY DEF TypeOK, Goto, EndNames

LEMMA TypeBind ==
    ASSUME TypeOK, NEW c \in Calls, NEW s \in Streams, NEW from,
           NEW to \in CallerPCs, Bind(c, s, from, to)
    PROVE  TypeOK'
<1>1. pc' \in [Calls -> CallerPCs] /\ todo' \in [Calls -> Seq(EndNames)]
  <2>1. <<>> \in Seq(EndNames) /\ Goto(c, to, <<>>)
    BY DEF Bind
  <2> QED
    BY <2>1, TypeGoto
<1>2. /\ table' \in Tables
      /\ fds' \in [Calls -> [Pipes -> [PipeEnds -> FdOrInvalid]]]
  <2>1. CASE Redirected(c, s)
    <3>1. table' = table
      BY <2>1 DEF Bind, RedirectOrPipe
    <3>2. fds' = [fds EXCEPT ![c][s] = [e \in PipeEnds |-> Target(c, s)]]
      BY <2>1 DEF Bind, RedirectOrPipe
    <3>3. [e \in PipeEnds |-> Target(c, s)] \in [PipeEnds -> FdOrInvalid]
      BY UseType DEF TypeOK
    <3> QED
      BY <3>1, <3>2, <3>3 DEF TypeOK
  <2>2. CASE ~Redirected(c, s)
    <3>1. CreatePipe(c, s) /\ s \in Pipes
      BY <2>2 DEF Bind, RedirectOrPipe, Pipes
    <3> QED
      BY <3>1, TypeCreatePipe
  <2> QED
    BY <2>1, <2>2
<1> QED
  BY <1>1, <1>2 DEF TypeOK, Bind, childVars, EndNames

LEMMA TypeThrow ==
    ASSUME TypeOK, NEW c \in Calls, NEW label \in CallerPCs,
           NEW ends \in Seq(EndNames), Goto(c, label, ends),
           UNCHANGED <<use, table, held, fds, childVars>>
    PROVE  TypeOK'
<1>1. pc' \in [Calls -> CallerPCs] /\ todo' \in [Calls -> Seq(EndNames)]
  BY TypeGoto
<1> QED
  BY <1>1 DEF TypeOK, childVars, EndNames

LEMMA TypeChild ==
    ASSUME TypeOK, NEW c \in Calls, NEW from, NEW to \in ChildPCs,
           ChildGoes(c, from, to), UNCHANGED <<use, callerVars, held, cfds>>,
           ctable' \in [Calls -> Tables], report' \in [Calls -> BOOLEAN]
    PROVE  TypeOK'
BY DEF TypeOK, ChildGoes, callerVars
LEMMA TypeCloseNext ==
    ASSUME TypeOK, NEW c \in Calls, CloseNext(c)
    PROVE  TypeOK'
<1> DEFINE p == Head(todo[c])[1]
           e == Head(todo[c])[2]
<1>1. todo[c] \in Seq(EndNames) /\ todo[c] # <<>>
  BY DEF TypeOK, EndNames, CloseNext
<1>2. Head(todo[c]) \in EndNames /\ Tail(todo[c]) \in Seq(EndNames)
  BY <1>1
<1>3. p \in Pipes /\ e \in PipeEnds
  BY <1>2 DEF EndNames
<1>4. table' \in Tables
  BY CloseFdsType DEF CloseNext, CloseFd, TypeOK
<1>5. fds' \in [Calls -> [Pipes -> [PipeEnds -> FdOrInvalid]]]
  <2>1. fds' = [fds EXCEPT ![c][p][e] = FD_INVALID]
    BY DEF CloseNext
  <2> QED
    BY <2>1, <1>3 DEF TypeOK, FdOrInvalid
<1>6. todo' \in [Calls -> Seq(EndNames)]
  <2>1. todo' = [todo EXCEPT ![c] = Tail(@)]
    BY DEF CloseNext
  <2> QED
    BY <2>1, <1>2 DEF TypeOK, EndNames
<1> QED
  BY <1>4, <1>5, <1>6 DEF TypeOK, CloseNext, childVars, EndNames

LEMMA TypeCaller ==
    ASSUME TypeOK, NEW c \in Calls,
           BindStdin(c) \/ CallerStep(c) \/ DropHandle(c)
    PROVE  TypeOK'
<1>0. <<>> \in Seq(EndNames) /\ CallerPCs = CallerPCs
  OBVIOUS
<1>1. CASE BindStdin(c)
  <2>1. CASE Bind(c, "in", "idle", "bindOut")
    BY <2>1, TypeBind DEF Streams, CallerPCs
  <2>2. CASE BindFails(c, "in", "idle", <<>>)
    BY <2>2, <1>0, TypeThrow DEF BindFails, CallerPCs
  <2> QED
    BY <1>1, <2>1, <2>2 DEF BindStdin
<1>2. CASE CloseNext(c)
  BY <1>2, TypeCloseNext
<1>3. CASE BindStdout(c)
  <2>1. CASE Bind(c, "out", "bindOut", IF Merged(c) THEN "failPipe" ELSE "bindErr")
    <3> DEFINE to == IF Merged(c) THEN "failPipe" ELSE "bindErr"
    <3>1. to \in CallerPCs /\ "out" \in Streams
      BY DEF CallerPCs, Streams
    <3>2. Bind(c, "out", "bindOut", to)
      BY <2>1
    <3> HIDE DEF to
    <3> QED
      BY <3>1, <3>2, TypeBind
  <2>2. CASE BindFails(c, "out", "bindOut", BothEnds("in"))
    <3>1. BothEnds("in") \in Seq(EndNames)
      BY EndSequences DEF Pipes, Streams
    <3> QED
      BY <2>2, <3>1, TypeThrow DEF BindFails, CallerPCs
  <2> QED
    BY <1>3, <2>1, <2>2 DEF BindStdout
<1>4. CASE BindStderr(c)
  <2>1. CASE Bind(c, "err", "bindErr", "failPipe")
    BY <2>1, TypeBind DEF Streams, CallerPCs
  <2>2. CASE BindFails(c, "err", "bindErr", BothEnds("in") \o BothEnds("out"))
    BY <2>2, EndSequences, TypeThrow DEF BindFails, CallerPCs
  <2> QED
    BY <1>4, <2>1, <2>2 DEF BindStderr
<1>5. CASE CreateFailPipe(c)
  <2>1. CASE CreatePipe(c, "fail") /\ Goto(c, "fork", <<>>)
    <3>1. /\ table' \in Tables
          /\ fds' \in [Calls -> [Pipes -> [PipeEnds -> FdOrInvalid]]]
      BY <2>1, TypeCreatePipe DEF Pipes
    <3>2. pc' \in [Calls -> CallerPCs] /\ todo' \in [Calls -> Seq(EndNames)]
      BY <2>1, <1>0, TypeGoto DEF CallerPCs
    <3> QED
      BY <1>5, <3>1, <3>2 DEF TypeOK, CreateFailPipe, childVars, EndNames
  <2>2. CASE Goto(c, "threw", RollbackEnds(c)) /\ UNCHANGED <<table, fds>>
    <3>1. UNCHANGED <<use, table, held, fds, childVars>>
      BY <1>5, <2>2 DEF CreateFailPipe
    <3> QED
      BY <2>2, <3>1, EndSequences, TypeThrow DEF CallerPCs
  <2> QED
    BY <1>5, <2>1, <2>2 DEF CreateFailPipe
<1>6. CASE Fork(c)
  <2>1. <<<<"fail", "write">>>> \in Seq(EndNames)
    BY DEF EndNames, Pipes, PipeEnds
  <2>2. pc' \in [Calls -> CallerPCs] /\ todo' \in [Calls -> Seq(EndNames)]
    BY <1>6, <2>1, TypeGoto DEF Fork, CallerPCs
  <2> QED
    BY <1>6, <2>2 DEF Fork, TypeOK, EndNames, ChildPCs
<1>7. CASE ForkFails(c)
  BY <1>7, EndSequences, TypeThrow DEF ForkFails, CallerPCs
<1>8. CASE ReadFully(c)
  <2>1. PICK result \in ReadFullyResults(c) :
          CASE result = "eof"   -> Goto(c, "live", NearEnds(c))
            [] result = "errno" -> Goto(c, "reap", <<>>)
            [] result = "error" -> Goto(c, "threw", RollbackEnds(c))
    BY <1>8 DEF ReadFully
  <2>2. result \in {"eof", "errno", "error"}
    BY DEF ReadFullyResults
  <2>3. UNCHANGED <<use, table, held, fds, childVars>>
    BY <1>8 DEF ReadFully
  <2>4. CASE result = "eof"
    BY <2>1, <2>3, <2>4, EndSequences, TypeThrow DEF CallerPCs
  <2>5. CASE result = "errno"
    BY <2>1, <2>3, <2>5, <1>0, TypeThrow DEF CallerPCs
  <2>6. CASE result = "error"
    BY <2>1, <2>3, <2>6, EndSequences, TypeThrow DEF CallerPCs
  <2> QED
    BY <2>2, <2>4, <2>5, <2>6
<1>9. CASE ReapFailedChild(c)
  <2>1. pc' \in [Calls -> CallerPCs] /\ todo' \in [Calls -> Seq(EndNames)]
    BY <1>9, EndSequences, TypeGoto DEF ReapFailedChild, CallerPCs
  <2> QED
    BY <1>9, <2>1 DEF ReapFailedChild, TypeOK, EndNames, ChildPCs
<1>10. CASE DropHandle(c)
  BY <1>10, EndSequences, TypeThrow DEF DropHandle, CallerPCs
<1> QED
  BY <1>1, <1>2, <1>3, <1>4, <1>5, <1>6, <1>7, <1>8, <1>9, <1>10 DEF CallerStep

LEMMA TypeChildStep ==
    ASSUME TypeOK, NEW c \in Calls, ChildStep(c) \/ ProgramEnds(c)
    PROVE  TypeOK'
<1> DEFINE Tabled == ctable' \in [Calls -> Tables]
<1>0. AllClosed \in Tables
  BY DEF AllClosed, Tables
<1>1. CASE Rewire(c)
  <2>1. Tabled
    BY <1>1, RewiredType DEF Rewire, TypeOK
  <2> QED
    BY <1>1, <2>1, TypeChild DEF Rewire, ChildPCs, TypeOK
<1>2. CASE CloseAllDescriptors(c)
  <2>1. Tabled
    BY <1>2, CloseFdsType DEF CloseAllDescriptors, TypeOK
  <2> QED
    BY <1>2, <2>1, TypeChild DEF CloseAllDescriptors, ChildPCs, TypeOK
<1>3. CASE Chdir(c)
  BY <1>3, TypeChild DEF Chdir, ChildPCs, TypeOK
<1>4. CASE SetCloexec(c)
  BY <1>4, TypeChild DEF SetCloexec, ChildPCs, TypeOK
<1>5. CASE Exec(c)
  <2>1. Tabled
    BY <1>5, CloseFdsType DEF Exec, CloseFd, TypeOK
  <2> QED
    BY <1>5, <2>1, TypeChild DEF Exec, ChildPCs, TypeOK
<1>6. CASE ExecFails(c)
  BY <1>6, TypeChild DEF ExecFails, ChildPCs, TypeOK
<1>7. CASE WriteError(c)
  <2>1. report' \in [Calls -> BOOLEAN]
    BY <1>7 DEF WriteError, TypeOK
  <2> QED
    BY <1>7, <2>1, TypeChild DEF WriteError, ChildPCs, TypeOK
<1>8. CASE ChildExit(c)
  <2>1. Tabled
    BY <1>8, <1>0 DEF ChildExit, TypeOK
  <2> QED
    BY <1>8, <2>1, TypeChild DEF ChildExit, ChildPCs, TypeOK
<1>9. CASE ProgramEnds(c)
  <2>1. Tabled
    BY <1>9, <1>0 DEF ProgramEnds, TypeOK
  <2> QED
    BY <1>9, <2>1, TypeChild DEF ProgramEnds, ChildPCs, TypeOK
<1> QED
  BY <1>1, <1>2, <1>3, <1>4, <1>5, <1>6, <1>7, <1>8, <1>9 DEF ChildStep

LEMMA TypeUser ==
    ASSUME TypeOK,
           \/ \E f \in use.userFiles : UserOpen(f)
           \/ \E fd \in Fds : UserClose(fd)
    PROVE  TypeOK'
<1>1. ASSUME NEW f \in use.userFiles, UserOpen(f) PROVE TypeOK'
  <2>1. f \in Files
    BY UseType DEF TypeOK
  <2>2. table' \in Tables /\ held' \in [Fds -> Files \cup {Closed}]
    BY <1>1, <2>1 DEF UserOpen, TypeOK, Tables, Objects
  <2> QED
    BY <1>1, <2>2 DEF UserOpen, TypeOK, childVars
<1>2. ASSUME NEW fd \in Fds, UserClose(fd) PROVE TypeOK'
  <2>1. table' \in Tables
    BY <1>2, CloseFdsType DEF UserClose, CloseFd, TypeOK
  <2>2. held' \in [Fds -> Files \cup {Closed}]
    BY <1>2 DEF UserClose, CloseFd, CloseFds, TypeOK
  <2> QED
    BY <1>2, <2>1, <2>2 DEF UserClose, TypeOK, childVars
<1> QED
  BY <1>1, <1>2

LEMMA TypeStep == TypeOK /\ [Next]_vars => TypeOK'
<1> SUFFICES ASSUME TypeOK, [Next]_vars PROVE TypeOK'
  OBVIOUS
<1>1. CASE UNCHANGED vars
  BY <1>1 DEF vars, TypeOK
<1>2. ASSUME NEW c \in Calls, \/ BindStdin(c) \/ CallerStep(c) \/ DropHandle(c)
                              \/ ChildStep(c) \/ ProgramEnds(c)
      PROVE  TypeOK'
  BY <1>2, TypeCaller, TypeChildStep
<1> QED
  BY <1>1, <1>2, TypeUser DEF Next, AllDone

(* Every behaviour of start(), of its children and of the user keeps every *)
(* variable in its type: no number outside the table is ever used.         *)
THEOREM TypeCorrect == Spec => []TypeOK
BY TypeInit, TypeStep, PTL DEF Spec

--------------------------------------------------------------------------------
(* Ownership: every number the library remembers names its own pipe end,  *)
(* or is a redirect target and so the user's.  As long as no call goes to  *)
(* close a target, no close of the library can hit a descriptor of         *)
(* somebody else.  The two halves need each other: a close is harmless to  *)
(* the user because the number names a pipe end, and the user's closes are *)
(* harmless to the library because his numbers name files.                 *)

EndsOf(s) == {s[i] : i \in 1..Len(s)}

IsPiped(c, p) == p \in Streams => ~Redirected(c, p)

(* No end that a call is about to close is a redirect target.  Where       *)
(* start() rolls back and where it closes the near ends it tests           *)
(* redirected() first; the destructor, and the undoing of a failed bind,   *)
(* do not.                                                                 *)
TargetsSpared ==
    \A c \in Calls : \A pe \in EndsOf(todo[c]) :
        IsPiped(c, pe[1]) \/ fds[c][pe[1]][pe[2]] = FD_INVALID

Remembers(c, p, e) ==
    fds[c][p][e] # FD_INVALID =>
        IF IsPiped(c, p) THEN table[fds[c][p][e]] = PipeEnd(c, p, e)
        ELSE fds[c][p][e] = Target(c, p)

OwnedPipes == \A c \in Calls : \A p \in Pipes : \A e \in PipeEnds : Remembers(c, p, e)
Ownership == OwnedPipes /\ UserFdsKept

LEMMA EndWords ==
    /\ PipeEnds = {"read", "write"} /\ Streams = {"in", "out", "err"}
    /\ Pipes = {"in", "out", "err", "fail"}
    /\ \A p \in Pipes, e \in PipeEnds : <<p, e>> \in EndNames /\ <<p, e>>[1] = p /\ <<p, e>>[2] = e
    /\ \A pe \in EndNames : pe[1] \in Pipes /\ pe[2] \in PipeEnds /\ pe = <<pe[1], pe[2]>>
BY DEF PipeEnds, Streams, Pipes, EndNames

LEMMA EndsOfSequences ==
    ASSUME NEW S
    PROVE  /\ EndsOf(<<>>) = {}
           /\ \A s, t \in Seq(S) : EndsOf(s \o t) = EndsOf(s) \cup EndsOf(t)
           /\ \A s \in Seq(S) : s # <<>> => EndsOf(s) = {Head(s)} \cup EndsOf(Tail(s))
           /\ \A x : EndsOf(<<x>>) = {x}
           /\ \A x, y : EndsOf(<<x, y>>) = {x, y}
           /\ \A x, y, z : EndsOf(<<x, y, z>>) = {x, y, z}
<1>1. EndsOf(<<>>) = {}
  BY DEF EndsOf
<1>2. ASSUME NEW s \in Seq(S), NEW t \in Seq(S) PROVE EndsOf(s \o t) = EndsOf(s) \cup EndsOf(t)
  <2>1. Len(s) \in Nat /\ Len(t) \in Nat /\ Len(s \o t) = Len(s) + Len(t)
    OBVIOUS
  <2>2. \A i \in 1..Len(s) : i \in 1..Len(s \o t) /\ (s \o t)[i] = s[i]
    BY <2>1
  <2>3. \A i \in 1..Len(t) : i + Len(s) \in 1..Len(s \o t) /\ (s \o t)[i + Len(s)] = t[i]
    BY <2>1
  <2>4. ASSUME NEW i \in 1..Len(s \o t) PROVE (s \o t)[i] \in EndsOf(s) \cup EndsOf(t)
    <3>1. CASE i \in 1..Len(s)
      BY <2>2, <3>1 DEF EndsOf
    <3>2. CASE i \notin 1..Len(s)
      <4>1. i - Len(s) \in 1..Len(t) /\ (s \o t)[i] = t[i - Len(s)]
        BY <2>1, <3>2
      <4> QED
        BY <4>1 DEF EndsOf
    <3> QED
      BY <3>1, <3>2
  <2> QED
    <3>1. EndsOf(s) \subseteq EndsOf(s \o t)
      BY <2>2 DEF EndsOf
    <3>2. EndsOf(t) \subseteq EndsOf(s \o t)
      BY <2>3 DEF EndsOf
    <3>3. EndsOf(s \o t) \subseteq EndsOf(s) \cup EndsOf(t)
      <4>1. ASSUME NEW x \in EndsOf(s \o t) PROVE x \in EndsOf(s) \cup EndsOf(t)
        <5>1. PICK i \in 1..Len(s \o t) : x = (s \o t)[i]
          BY DEF EndsOf
        <5> QED
          BY <2>4, <5>1
      <4> QED
        BY <4>1
    <3> QED
      BY <3>1, <3>2, <3>3
<1>3. ASSUME NEW s \in Seq(S), s # <<>> PROVE EndsOf(s) = {Head(s)} \cup EndsOf(Tail(s))
  <2>1. Len(s) \in Nat /\ Len(s) >= 1 /\ Len(Tail(s)) = Len(s) - 1 /\ Head(s) = s[1]
    BY <1>3
  <2>2. \A i \in 1..(Len(s) - 1) : Tail(s)[i] = s[i + 1]
    BY <1>3
  <2>3. ASSUME NEW i \in 1..Len(s) PROVE s[i] \in {Head(s)} \cup EndsOf(Tail(s))
    <3>1. CASE i = 1
      BY <2>1, <3>1
    <3>2. CASE i # 1
      <4>1. i - 1 \in 1..Len(Tail(s)) /\ Tail(s)[i - 1] = s[i]
        BY <2>1, <2>2, <3>2
      <4> QED
        BY <4>1 DEF EndsOf
    <3> QED
      BY <3>1, <3>2
  <2>4. ASSUME NEW i \in 1..Len(Tail(s)) PROVE Tail(s)[i] \in EndsOf(s)
    <3>1. i + 1 \in 1..Len(s) /\ Tail(s)[i] = s[i + 1]
      BY <2>1, <2>2
    <3> QED
      BY <3>1 DEF EndsOf
  <2>5. Head(s) \in EndsOf(s)
    BY <2>1 DEF EndsOf
  <2> QED
    BY <2>3, <2>4, <2>5 DEF EndsOf
<1>4. \A x : EndsOf(<<x>>) = {x}
  BY DEF EndsOf
<1>5. ASSUME NEW x, NEW y PROVE EndsOf(<<x, y>>) = {x, y}
  <2>1. 1..2 = {1, 2}
    OBVIOUS
  <2> QED
    BY <2>1 DEF EndsOf
<1>6. ASSUME NEW x, NEW y, NEW z PROVE EndsOf(<<x, y, z>>) = {x, y, z}
  <2>1. 1..3 = {1, 2, 3}
    OBVIOUS
  <2> QED
    BY <2>1 DEF EndsOf
<1> QED
  BY <1>1, <1>2, <1>3, <1>4, <1>5, <1>6

LEMMA PipeEndInjective ==
    ASSUME NEW c, NEW d, NEW p, NEW q, NEW e, NEW f,
           PipeEnd(c, p, e) = PipeEnd(d, q, f)
    PROVE  c = d /\ p = q /\ e = f
BY DEF PipeEnd

LEMMA PipeEndNotFile ==
    ASSUME NEW c \in Calls, NEW p \in Pipes, NEW e \in PipeEnds
    PROVE  PipeEnd(c, p, e) \notin Files /\ PipeEnd(c, p, e) # Closed
BY ObjectsAssumption, PipeEndType DEF Objects, PipeEnd, PipeObjects

LEMMA OwnershipInit == Init => Ownership
BY DEF Init, Ownership, OwnedPipes, Remembers, UserFdsKept, AllInvalid

(* What is redirected is part of the use, which never changes.             *)
LEMMA TargetsFixed ==
    ASSUME use' = use
    PROVE  /\ \A c, s : (Redirected(c, s)' <=> Redirected(c, s)) /\ Target(c, s)' = Target(c, s)
           /\ \A c, p : IsPiped(c, p)' <=> IsPiped(c, p)
           /\ \A c : Merged(c)' = Merged(c)
BY DEF IsPiped, Redirected, Target, Merged

LEMMA TargetType ==
    ASSUME TypeOK, NEW c \in Calls, NEW s \in Streams, Redirected(c, s)
    PROVE  Target(c, s) \in Fds /\ s \in Pipes /\ ~IsPiped(c, s)
BY UseType DEF TypeOK, Redirected, FdOrInvalid, Pipes, IsPiped

LEMMA RemembersFrame ==
    ASSUME NEW c \in Calls, NEW p \in Pipes, NEW e \in PipeEnds, TypeOK,
           Remembers(c, p, e), use' = use, fds'[c][p][e] = fds[c][p][e],
           ASSUME NEW fd \in Fds, table[fd] = PipeEnd(c, p, e)
           PROVE  table'[fd] = table[fd]
    PROVE  Remembers(c, p, e)'
<1>1. fds[c][p][e] \in FdOrInvalid
  BY DEF TypeOK
<1>2. IsPiped(c, p)' <=> IsPiped(c, p)
  BY TargetsFixed
<1>3. Target(c, p)' = Target(c, p)
  BY TargetsFixed
<1>4. CASE fds[c][p][e] = FD_INVALID
  BY <1>4 DEF Remembers
<1>5. CASE fds[c][p][e] \in Fds /\ IsPiped(c, p)
  <2>1. table[fds[c][p][e]] = PipeEnd(c, p, e)
    BY <1>5, FdFacts DEF Remembers
  <2>2. table'[fds[c][p][e]] = PipeEnd(c, p, e)
    BY <1>5, <2>1
  <2> QED
    BY <1>2, <1>5, <2>2 DEF Remembers
<1>6. CASE fds[c][p][e] \in Fds /\ ~IsPiped(c, p)
  BY <1>2, <1>3, <1>6, FdFacts DEF Remembers
<1> QED
  BY <1>1, <1>4, <1>5, <1>6 DEF FdOrInvalid

(* What close_fd closes is a pipe end of the call's own, or nothing.       *)
LEMMA ClosesItsOwn ==
    ASSUME TypeOK, Ownership, TargetsSpared, NEW c \in Calls, CloseNext(c)
    PROVE  LET h == Head(todo[c])
               n == fds[c][h[1]][h[2]]
           IN  /\ h \in EndNames /\ h \in EndsOf(todo[c])
               /\ \/ n = FD_INVALID
                  \/ /\ IsPiped(c, h[1]) /\ n \in Fds
                     /\ table[n] = PipeEnd(c, h[1], h[2])
<1> DEFINE h == Head(todo[c])
           n == fds[c][h[1]][h[2]]
<1>1. todo[c] \in Seq(EndNames) /\ todo[c] # <<>>
  BY DEF TypeOK, EndNames, CloseNext
<1>2. h \in EndNames /\ h \in EndsOf(todo[c])
  BY <1>1, EndsOfSequences
<1>3. h[1] \in Pipes /\ h[2] \in PipeEnds
  BY <1>2, EndWords
<1> HIDE DEF h
<1>4. n \in FdOrInvalid /\ Remembers(c, h[1], h[2])
  BY <1>3 DEF TypeOK, Ownership, OwnedPipes
<1>5. IsPiped(c, h[1]) \/ n = FD_INVALID
  BY <1>2 DEF TargetsSpared
<1>6. n = FD_INVALID \/ (IsPiped(c, h[1]) /\ n \in Fds /\ table[n] = PipeEnd(c, h[1], h[2]))
  BY <1>4, <1>5 DEF FdOrInvalid, Remembers
<1> QED
  BY <1>2, <1>6 DEF h

LEMMA OwnershipCloseNext ==
    ASSUME TypeOK, Ownership, TargetsSpared, NEW c \in Calls, CloseNext(c)
    PROVE  Ownership'
<1> DEFINE p == Head(todo[c])[1]
           e == Head(todo[c])[2]
           n == fds[c][p][e]
<1>1. /\ p \in Pipes /\ e \in PipeEnds
      /\ n = FD_INVALID \/ (n \in Fds /\ table[n] = PipeEnd(c, p, e))
  BY ClosesItsOwn, EndWords
<1>2. /\ table' = CloseFds(table, {n})
      /\ fds' = [fds EXCEPT ![c][p][e] = FD_INVALID]
      /\ held' = held /\ use' = use
  BY DEF CloseNext, CloseFd
<1> HIDE DEF p, e
<1>3. ASSUME NEW d \in Calls, NEW q \in Pipes, NEW f \in PipeEnds
      PROVE  Remembers(d, q, f)'
  <2>1. CASE <<d, q, f>> = <<c, p, e>>
    <3>1. fds'[d][q][f] = FD_INVALID
      BY <1>1, <1>2, <2>1 DEF TypeOK
    <3> QED
      BY <3>1 DEF Remembers
  <2>2. CASE <<d, q, f>> # <<c, p, e>>
    <3>1. fds'[d][q][f] = fds[d][q][f]
      BY <1>1, <1>2, <2>2 DEF TypeOK
    <3>2. Remembers(d, q, f)
      BY DEF Ownership, OwnedPipes
    <3>3. ASSUME NEW fd \in Fds, table[fd] = PipeEnd(d, q, f) PROVE table'[fd] = table[fd]
      <4>1. fd # n
        BY <1>1, <2>2, <3>3, PipeEndInjective, FdFacts
      <4> QED
        BY <1>2, <4>1 DEF CloseFds
    <3> QED
      BY <1>2, <3>1, <3>2, <3>3, RemembersFrame
  <2> QED
    BY <2>1, <2>2
<1> HIDE DEF n
<1>4. UserFdsKept'
  <2> SUFFICES ASSUME NEW fd \in Fds, held[fd] # Closed
               PROVE  table'[fd] = held[fd]
    BY <1>2 DEF UserFdsKept
  <2>1. table[fd] = held[fd] /\ held[fd] \in Files
    BY DEF Ownership, UserFdsKept, TypeOK
  <2>2. fd # n
    BY <1>1, <2>1, PipeEndNotFile, FdFacts
  <2> QED
    BY <1>2, <2>1, <2>2 DEF CloseFds
<1> QED
  BY <1>3, <1>4 DEF Ownership, OwnedPipes

LEMMA OwnershipCreatePipe ==
    ASSUME TypeOK, Ownership, NEW c \in Calls, NEW p \in Pipes, IsPiped(c, p),
           CreatePipe(c, p), held' = held, use' = use
    PROVE  /\ Ownership'
           /\ \A e \in PipeEnds : fds'[c][p][e] \in Fds
           /\ \A d \in Calls, q \in Pipes :
                 <<d, q>> # <<c, p>> => fds'[d][q] = fds[d][q]
<1> PICK r \in Fds, w \in Fds :
        /\ NewPipe(table, r, w)
        /\ table' = [table EXCEPT ![r] = PipeEnd(c, p, "read"),
                                  ![w] = PipeEnd(c, p, "write")]
        /\ fds' = [fds EXCEPT ![c][p] = [read |-> r, write |-> w]]
  BY DEF CreatePipe
<1>1. table[r] = Closed /\ table[w] = Closed /\ r # w
  BY DEF NewPipe, LowestFree, Fds
<1>2. /\ table'[r] = PipeEnd(c, p, "read")
      /\ table'[w] = PipeEnd(c, p, "write")
      /\ \A fd \in Fds : table[fd] # Closed => table'[fd] = table[fd]
  BY <1>1 DEF TypeOK, Tables
<1>3. /\ fds'[c][p]["read"] = r /\ fds'[c][p]["write"] = w
      /\ \A d \in Calls, q \in Pipes : <<d, q>> # <<c, p>> => fds'[d][q] = fds[d][q]
  BY DEF TypeOK
<1>4. ASSUME NEW d \in Calls, NEW q \in Pipes, NEW f \in PipeEnds
      PROVE  Remembers(d, q, f)'
  <2>1. CASE <<d, q>> = <<c, p>>
    <3>1. IsPiped(c, p)'
      BY TargetsFixed
    <3>2. table'[fds'[d][q][f]] = PipeEnd(d, q, f)
      BY <1>2, <1>3, <2>1 DEF PipeEnds
    <3> QED
      BY <2>1, <3>1, <3>2 DEF Remembers
  <2>2. CASE <<d, q>> # <<c, p>>
    <3>1. fds'[d][q][f] = fds[d][q][f]
      BY <1>3, <2>2
    <3>2. Remembers(d, q, f)
      BY DEF Ownership, OwnedPipes
    <3>3. \A fd \in Fds : table[fd] = PipeEnd(d, q, f) => table'[fd] = table[fd]
      BY <1>2, PipeEndNotFile
    <3> QED
      BY <3>1, <3>2, <3>3, RemembersFrame
  <2> QED
    BY <2>1, <2>2
<1>5. UserFdsKept'
  BY <1>2 DEF UserFdsKept, Ownership
<1> QED
  BY <1>3, <1>4, <1>5 DEF Ownership, OwnedPipes, PipeEnds

LEMMA OwnershipTarget ==
    ASSUME TypeOK, Ownership, NEW c \in Calls, NEW s \in Streams, Redirected(c, s),
           fds' = [fds EXCEPT ![c][s] = [e \in PipeEnds |-> Target(c, s)]],
           table' = table, held' = held, use' = use
    PROVE  /\ Ownership'
           /\ \A e \in PipeEnds : fds'[c][s][e] \in Fds
           /\ \A d \in Calls, q \in Pipes :
                 <<d, q>> # <<c, s>> => fds'[d][q] = fds[d][q]
<1>1. Target(c, s) \in Fds /\ s \in Pipes /\ ~IsPiped(c, s)
  BY TargetType
<1>2. /\ \A e \in PipeEnds : fds'[c][s][e] = Target(c, s)
      /\ \A d \in Calls, q \in Pipes : <<d, q>> # <<c, s>> => fds'[d][q] = fds[d][q]
  BY <1>1 DEF TypeOK
<1>3. ASSUME NEW d \in Calls, NEW q \in Pipes, NEW f \in PipeEnds
      PROVE  Remembers(d, q, f)'
  <2>1. CASE <<d, q>> = <<c, s>>
    <3>1. ~IsPiped(c, s)' /\ Target(c, s)' = Target(c, s)
      BY <1>1, TargetsFixed
    <3> QED
      BY <1>2, <2>1, <3>1 DEF Remembers
  <2>2. CASE <<d, q>> # <<c, s>>
    <3>1. fds'[d][q][f] = fds[d][q][f] /\ Remembers(d, q, f)
      BY <1>2, <2>2 DEF Ownership, OwnedPipes
    <3> QED
      BY <3>1, RemembersFrame
  <2> QED
    BY <2>1, <2>2
<1> QED
  BY <1>1, <1>2, <1>3 DEF Ownership, OwnedPipes, UserFdsKept

(* A bind makes a pipe, or it takes the target.                            *)
LEMMA OwnershipBind ==
    ASSUME TypeOK, Ownership, NEW c \in Calls, NEW s \in Streams, NEW from, NEW to,
           Bind(c, s, from, to)
    PROVE  /\ Ownership' /\ use' = use /\ held' = held
           /\ \A e \in PipeEnds : fds'[c][s][e] \in Fds
           /\ \A d \in Calls, q \in Pipes :
                 <<d, q>> # <<c, s>> => fds'[d][q] = fds[d][q]
<1>1. held' = held /\ use' = use /\ s \in Pipes
  BY DEF Bind, Pipes
<1>2. CASE Redirected(c, s)
  <2>1. /\ fds' = [fds EXCEPT ![c][s] = [e \in PipeEnds |-> Target(c, s)]]
        /\ table' = table
    BY <1>2 DEF Bind, RedirectOrPipe
  <2> QED
    BY <1>1, <1>2, <2>1, OwnershipTarget
<1>3. CASE ~Redirected(c, s)
  <2>1. CreatePipe(c, s) /\ IsPiped(c, s)
    BY <1>3 DEF Bind, RedirectOrPipe, IsPiped
  <2> QED
    BY <1>1, <2>1, OwnershipCreatePipe
<1> QED
  BY <1>2, <1>3

LEMMA OwnershipUser ==
    ASSUME TypeOK, Ownership,
           \/ \E f \in use.userFiles : UserOpen(f)
           \/ \E fd \in Fds : UserClose(fd)
    PROVE  Ownership'
<1>0. fds' = fds /\ use' = use
  BY DEF UserOpen, UserClose
<1>1. ASSUME \A fd \in Fds : table[fd] \notin Files \cup {Closed} => table'[fd] = table[fd]
      PROVE  OwnedPipes'
  <2> SUFFICES ASSUME NEW d \in Calls, NEW q \in Pipes, NEW e \in PipeEnds
               PROVE  Remembers(d, q, e)'
    BY DEF OwnedPipes
  <2>1. Remembers(d, q, e) /\ fds'[d][q][e] = fds[d][q][e]
    BY <1>0 DEF Ownership, OwnedPipes
  <2>2. \A fd \in Fds : table[fd] = PipeEnd(d, q, e) => table'[fd] = table[fd]
    BY <1>1, PipeEndNotFile
  <2> QED
    BY <1>0, <2>1, <2>2, RemembersFrame
<1>2. ASSUME NEW f \in use.userFiles, UserOpen(f) PROVE Ownership'
  <2>1. PICK n \in Fds : /\ LowestFree(table, n)
                         /\ table' = [table EXCEPT ![n] = f]
                         /\ held' = [held EXCEPT ![n] = f]
    BY <1>2 DEF UserOpen
  <2>2. table[n] = Closed
    BY <2>1 DEF LowestFree
  <2>3. \A fd \in Fds : table[fd] # Closed => table'[fd] = table[fd]
    BY <2>1, <2>2 DEF TypeOK, Tables
  <2>4. UserFdsKept'
    BY <2>1 DEF UserFdsKept, Ownership, TypeOK, Tables
  <2> QED
    BY <1>1, <2>3, <2>4 DEF Ownership
<1>3. ASSUME NEW n \in Fds, UserClose(n) PROVE Ownership'
  <2>1. /\ table' = CloseFds(table, {n})
        /\ held' = CloseFds(held, {n})
        /\ held[n] \in use.userFiles
    BY <1>3 DEF UserClose, CloseFd
  <2>2. table[n] \in Files
    BY <2>1, UseType, ObjectsAssumption DEF Ownership, UserFdsKept, TypeOK, Objects
  <2>3. \A fd \in Fds : table[fd] \notin Files => table'[fd] = table[fd]
    BY <2>1, <2>2 DEF CloseFds
  <2>4. UserFdsKept'
    BY <2>1 DEF UserFdsKept, Ownership, CloseFds
  <2> QED
    BY <1>1, <2>3, <2>4 DEF Ownership
<1> QED
  BY <1>2, <1>3

LEMMA OwnershipStep ==
    ASSUME TypeOK, TargetsSpared, Ownership, [Next]_vars
    PROVE  Ownership'
<1>0. ASSUME UNCHANGED <<use, table, held, fds>> PROVE Ownership'
  <2>1. ASSUME NEW d \in Calls, NEW q \in Pipes, NEW e \in PipeEnds PROVE Remembers(d, q, e)'
    <3>1. Remembers(d, q, e) /\ fds'[d][q][e] = fds[d][q][e] /\ table' = table /\ use' = use
      BY <1>0 DEF Ownership, OwnedPipes
    <3> QED
      BY <3>1, RemembersFrame
  <2> QED
    BY <1>0, <2>1 DEF Ownership, OwnedPipes, UserFdsKept
<1>2. ASSUME NEW c \in Calls, BindStdin(c) \/ BindStdout(c) \/ BindStderr(c)
      PROVE  Ownership'
  <2>1. "in" \in Streams /\ "out" \in Streams /\ "err" \in Streams
    BY DEF Streams
  <2> QED
    BY <1>0, <1>2, <2>1, OwnershipBind DEF BindStdin, BindStdout, BindStderr, BindFails
<1>3. ASSUME NEW c \in Calls, CreateFailPipe(c) PROVE Ownership'
  <2>1. CASE CreatePipe(c, "fail")
    <3>1. "fail" \in Pipes /\ IsPiped(c, "fail") /\ held' = held /\ use' = use
      BY <1>3 DEF CreateFailPipe, Pipes, IsPiped, Streams
    <3> QED
      BY <2>1, <3>1, OwnershipCreatePipe
  <2>2. CASE UNCHANGED <<table, fds>>
    BY <1>0, <1>3, <2>2 DEF CreateFailPipe
  <2> QED
    BY <1>3, <2>1, <2>2 DEF CreateFailPipe
<1>4. ASSUME NEW c \in Calls, CallerStep(c) \/ DropHandle(c) PROVE Ownership'
  <2>1. CASE CloseNext(c)
    BY <2>1, OwnershipCloseNext
  <2>2. CASE Fork(c) \/ ForkFails(c) \/ ReadFully(c) \/ ReapFailedChild(c)
             \/ DropHandle(c)
    BY <1>0, <2>2 DEF Fork, ForkFails, ReadFully, ReapFailedChild, DropHandle
  <2> QED
    BY <1>2, <1>3, <1>4, <2>1, <2>2 DEF CallerStep
<1>5. ASSUME NEW c \in Calls, ChildStep(c) \/ ProgramEnds(c) PROVE Ownership'
  BY <1>0, <1>5 DEF ChildStep, Rewire, CloseAllDescriptors, Chdir, SetCloexec, Exec,
                    ExecFails, WriteError, ChildExit, ProgramEnds, callerVars
<1>6. CASE UNCHANGED vars
  BY <1>0, <1>6 DEF vars
<1> QED
  BY <1>2, <1>4, <1>5, <1>6, OwnershipUser DEF Next, AllDone

LEMMA UseFixed == ASSUME [Next]_vars PROVE use' = use
BY DEF Next, vars, CallerStep, ChildStep, BindStdin, BindStdout, BindStderr, Bind,
       BindFails, CloseNext, CreateFailPipe, Fork, ForkFails, ReadFully,
       ReapFailedChild, DropHandle, Rewire, CloseAllDescriptors, Chdir, SetCloexec,
       Exec, ExecFails, WriteError, ChildExit, ProgramEnds, UserOpen, UserClose, AllDone

OwnershipInv == TypeOK /\ Ownership

LEMMA OwnershipInvariant == Spec /\ []TargetsSpared => []OwnershipInv
<1>1. Init => OwnershipInv
  BY TypeInit, OwnershipInit DEF OwnershipInv
<1>2. OwnershipInv /\ TargetsSpared /\ [Next]_vars => OwnershipInv'
  BY TypeStep, OwnershipStep DEF OwnershipInv
<1> QED
  BY <1>1, <1>2, PTL DEF Spec

(* As long as no call goes to close a redirect target, every call leaves   *)
(* the descriptors of the user alone, the targets included, whatever he    *)
(* opens and closes meanwhile.                                             *)
THEOREM UserDescriptorsSafe == Spec /\ []TargetsSpared => []UserFdsKept
<1>1. OwnershipInv => UserFdsKept
  BY DEF OwnershipInv, Ownership
<1> QED
  BY <1>1, OwnershipInvariant, PTL

(* Any number of concurrent calls that redirect nothing close and use only *)
(* descriptors of their own.                                               *)
THEOREM CallsOwnTheirEnds == Spec => [](NoRedirects => OwnedEnds)
<1>1. OwnershipInv /\ NoRedirects => OwnedEnds
  BY DEF OwnershipInv, Ownership, OwnedPipes, Remembers, OwnedEnds, NoRedirects, IsPiped
<1>2. NoRedirects => TargetsSpared
  BY DEF NoRedirects, TargetsSpared, IsPiped
<1>3. [Next]_vars => (NoRedirects <=> NoRedirects')
  BY UseFixed DEF NoRedirects, Redirected, Target
<1> QED
  BY <1>1, <1>2, <1>3, OwnershipInvariant, PTL DEF Spec

--------------------------------------------------------------------------------
(* Truth: a handle stands for a program that runs.  The caller's half says *)
(* which ends it holds at each point of start(); the child's half follows  *)
(* the write end of the fail pipe from the fork to the exec, where the end *)
(* of file comes from, or to the report that excludes it.                  *)

HasBoth(c, p) == \A e \in PipeEnds : fds[c][p][e] \in Fds

CallerHolds(c) ==
    /\ pc[c] \in {"bindOut", "bindErr", "failPipe", "fork"} =>
          todo[c] = <<>> /\ HasBoth(c, "in")
    /\ pc[c] \in {"bindErr", "failPipe", "fork"} => HasBoth(c, "out")
    /\ pc[c] \in {"failPipe", "fork"} /\ ~Merged(c) => HasBoth(c, "err")
    /\ pc[c] = "fork" => HasBoth(c, "fail")
    /\ pc[c] = "read" => /\ fds[c]["fail"]["read"] \in Fds
                         /\ todo[c] \in {<<>>, <<<<"fail", "write">>>>}

(* Stdio stays with the user, so that no pipe end ever gets one of its     *)
(* numbers; and so does a redirect target until it has been copied.        *)
StdioHeld == \A fd \in Stdio : held[fd] = use.table[fd]

BeforeFork == {"idle", "bindOut", "bindErr", "failPipe", "fork"}

TargetsHeld ==
    \A c \in Calls, s \in Streams :
        Redirected(c, s) /\ pc[c] \in BeforeFork => held[Target(c, s)] = use.table[Target(c, s)]

(* What the user sees to: his targets are open before the calls; and, where*)
(* the streams of the program are the matter, none is a standard stream of *)
(* the parent, which the child would close after it has been duplicated.   *)
TargetsOpen ==
    \A c \in Calls, s \in Streams : Redirected(c, s) => use.table[Target(c, s)] # Closed
TargetsAboveStdio ==
    \A c \in Calls, s \in Streams : Redirected(c, s) => Target(c, s) \notin Stdio

BeforeExec == {"wired", "swept", "inCwd", "armed", "failing"}

(* What an end of a call stands for.                                       *)
Named(c, p, e) == IF IsPiped(c, p) THEN PipeEnd(c, p, e) ELSE use.table[Target(c, p)]

ForkedTable(c) ==
    /\ \A p \in Pipes, e \in PipeEnds :
          cfds[c][p][e] # FD_INVALID =>
             /\ cfds[c][p][e] \in Fds
             /\ ctable[c][cfds[c][p][e]] = Named(c, p, e)
             /\ IF IsPiped(c, p) THEN cfds[c][p][e] \notin Stdio
                ELSE cfds[c][p][e] = Target(c, p)
    /\ cfds[c]["in"]["read"] # FD_INVALID
    /\ cfds[c]["out"]["write"] # FD_INVALID
    /\ ~Merged(c) => cfds[c]["err"]["write"] # FD_INVALID

ChildTruth(c) ==
    /\ pc[c] \in {"read", "reap", "live", "dropped"} => cpc[c] # "unborn"
    /\ cpc[c] = "reaped" => pc[c] = "threw"
    /\ cpc[c] # "unborn" => FailFd(c) \in Fds \ Stdio
    /\ cpc[c] = "forked" => ForkedTable(c)
    /\ FailFdSpared(c) =>
         /\ cpc[c] \in BeforeExec => ctable[c][FailFd(c)] = PipeEnd(c, "fail", "write")
         /\ cpc[c] \in {"told", "exited"} => report[c]
         /\ pc[c] \in {"live", "dropped"} => HasRun(c)

OwnStreams(c) ==
    /\ ctable[c][STDIN_FILENO] = Wanted(c, "in")
    /\ ctable[c][STDOUT_FILENO] = Wanted(c, "out")
    /\ ctable[c][STDERR_FILENO] = Wanted(c, "err")

ChildStreams(c) ==
    /\ cpc[c] \in {"wired", "swept", "inCwd", "armed", "program"} => OwnStreams(c)
    /\ cpc[c] \in {"swept", "inCwd", "armed"} =>
          \A fd \in Fds \ Stdio : fd # FailFd(c) => ctable[c][fd] = Closed
    /\ cpc[c] = "program" => \A fd \in Fds \ Stdio : ctable[c][fd] = Closed

(* What the block of close_fd and dup2 makes of the table the child got:   *)
(* its own ends, or its targets, on 0, 1 and 2, and the fail pipe where it *)
(* was.  A target may serve several streams, and the block closes it only  *)
(* after the last dup2.                                                    *)
LEMMA TableKeeps ==
    ASSUME NEW t \in Tables, NEW n \in Fds, t[n] # Closed
    PROVE  /\ \A S : CloseFds(t, S) \in Tables /\ (n \notin S => CloseFds(t, S)[n] = t[n])
           /\ \A old : \A new \in Fds : /\ Dup2(t, old, new) \in Tables
                                        /\ n # new => Dup2(t, old, new)[n] = t[n]
           /\ \A new \in Fds : Dup2(t, n, new)[new] = t[n]
<1>1. \A S : CloseFds(t, S) \in Tables /\ (n \notin S => CloseFds(t, S)[n] = t[n])
  BY CloseFdsType DEF CloseFds
<1>2. ASSUME NEW old, NEW new \in Fds
      PROVE  Dup2(t, old, new) \in Tables /\ (n # new => Dup2(t, old, new)[n] = t[n])
  BY Dup2Type DEF Dup2, Tables
<1>3. ASSUME NEW new \in Fds PROVE Dup2(t, n, new)[new] = t[n]
  BY DEF Dup2, Tables
<1> QED
  BY <1>1, <1>2, <1>3

LEMMA NamedApart ==
    ASSUME TypeOK, TargetsOpen, NEW c \in Calls, NEW p \in Pipes, NEW e \in PipeEnds
    PROVE  /\ Named(c, p, e) # Closed
           /\ \A q \in Pipes, f \in PipeEnds :
                 IsPiped(c, q) /\ <<p, e>> # <<q, f>> => Named(c, p, e) # Named(c, q, f)
<1>1. CASE IsPiped(c, p)
  BY <1>1, PipeEndNotFile, PipeEndInjective DEF Named
<1>2. CASE ~IsPiped(c, p)
  <2>1. p \in Streams /\ Redirected(c, p) /\ Target(c, p) \in Fds
    BY <1>2, TargetType DEF IsPiped
  <2>2. Named(c, p, e) \in Files /\ Named(c, p, e) # Closed
    BY <1>2, <2>1, UseType DEF TargetsOpen, TypeOK, Named
  <2> QED
    BY <2>2, PipeEndNotFile DEF Named
<1> QED
  BY <1>1, <1>2

(* Two ends of a call have different numbers, unless both are targets.     *)
LEMMA NumbersApart ==
    ASSUME TypeOK, TargetsOpen, NEW c \in Calls, ForkedTable(c),
           NEW p \in Pipes, NEW e \in PipeEnds, NEW q \in Pipes, NEW f \in PipeEnds,
           cfds[c][p][e] # FD_INVALID, <<p, e>> # <<q, f>>, IsPiped(c, q)
    PROVE  cfds[c][p][e] # cfds[c][q][f]
<1>1. SUFFICES ASSUME cfds[c][p][e] = cfds[c][q][f] PROVE FALSE
  OBVIOUS
<1>2. Named(c, p, e) = Named(c, q, f)
  BY <1>1 DEF ForkedTable
<1> QED
  BY <1>2, NamedApart

LEMMA RewiredStreams ==
    ASSUME TypeOK, TargetsOpen, NEW c \in Calls, ForkedTable(c),
           FailFd(c) \in Fds \ Stdio
    PROVE  LET t == Rewired(c, ctable[c])
           IN  /\ t[FailFd(c)] = PipeEnd(c, "fail", "write")
               /\ TargetsAboveStdio => /\ t[STDIN_FILENO] = Wanted(c, "in")
                                       /\ t[STDOUT_FILENO] = Wanted(c, "out")
                                       /\ t[STDERR_FILENO] = Wanted(c, "err")
<1> DEFINE p == cfds[c]
           piped(s, e) == IF Redirected(c, s) THEN {} ELSE {p[s][e]}
           ir == p["in"]["read"]
           ow == p["out"]["write"]
           ew == p["err"]["write"]
           fw == p["fail"]["write"]
           S1 == {p["fail"]["read"]} \cup piped("in", "write") \cup piped("out", "read")
           S2 == piped("err", "read")
           S3 == {ir, ow, ew}
           t0 == ctable[c]
           t1 == CloseFds(t0, S1)
           t2 == Dup2(t1, ir, STDIN_FILENO)
           t3 == Dup2(t2, ow, STDOUT_FILENO)
           t3e == CloseFds(t3, S2)
           t4m == Dup2(t3, ow, STDERR_FILENO)
           t4e == Dup2(t3e, ew, STDERR_FILENO)
           t4 == IF Merged(c) THEN t4m ELSE t4e
           I == Named(c, "in", "read")
           O == Named(c, "out", "write")
           E == Named(c, "err", "write")
           N == Named(c, "fail", "write")
<1>0. /\ "in" \in Pipes /\ "out" \in Pipes /\ "err" \in Pipes /\ "fail" \in Pipes
      /\ "read" \in PipeEnds /\ "write" \in PipeEnds
      /\ "in" \in Streams /\ "out" \in Streams /\ "err" \in Streams /\ "fail" \notin Streams
  BY DEF Pipes, Streams, PipeEnds
<1>1. Rewired(c, t0) = CloseFds(t4, S3)
  BY DEF Rewired
<1>2. /\ ir # FD_INVALID /\ ow # FD_INVALID /\ fw # FD_INVALID
      /\ ~Merged(c) => ew # FD_INVALID
  BY FdFacts DEF ForkedTable, FailFd
<1>3. /\ ir \in Fds /\ t0[ir] = I /\ ow \in Fds /\ t0[ow] = O
      /\ fw \in Fds /\ t0[fw] = N
      /\ ~Merged(c) => ew \in Fds /\ t0[ew] = E
  BY <1>0, <1>2 DEF ForkedTable
<1>4. /\ I # Closed /\ O # Closed /\ E # Closed /\ N # Closed
  BY <1>0, NamedApart
<1>5. /\ IsPiped(c, "fail")
      /\ \A s \in Streams : ~Redirected(c, s) => IsPiped(c, s)
  BY <1>0 DEF IsPiped
<1>6. N = PipeEnd(c, "fail", "write")
  BY <1>5 DEF Named
<1>7. ASSUME NEW s \in Pipes, NEW e \in PipeEnds, p[s][e] # FD_INVALID,
             <<s, e>> \in {<<"in", "read">>, <<"out", "write">>, <<"err", "write">>, <<"fail", "write">>}
      PROVE  p[s][e] \notin S1 /\ p[s][e] \notin S2
  <2>1. p[s][e] # p["fail"]["read"]
    BY <1>0, <1>5, <1>7, NumbersApart
  <2>2. ~Redirected(c, "in") => p[s][e] # p["in"]["write"]
    BY <1>0, <1>5, <1>7, NumbersApart
  <2>3. ~Redirected(c, "out") => p[s][e] # p["out"]["read"]
    BY <1>0, <1>5, <1>7, NumbersApart
  <2>4. ~Redirected(c, "err") => p[s][e] # p["err"]["read"]
    BY <1>0, <1>5, <1>7, NumbersApart
  <2> QED
    BY <2>1, <2>2, <2>3, <2>4
<1>8. fw \notin S3
  <2>1. ir # fw /\ ow # fw
    BY <1>0, <1>2, <1>5, NumbersApart
  <2>2. ew # fw
    BY <1>0, <1>2, <1>5, NumbersApart
  <2> QED
    BY <2>1, <2>2
<1>9. /\ ir \notin S1 /\ ow \notin S1 /\ fw \notin S1 /\ fw \notin S2
      /\ ~Merged(c) => ew \notin S1 /\ ew \notin S2
  BY <1>0, <1>2, <1>7
<1>10. \A x \in S2 : x \notin Stdio
  BY <1>0, <1>5, FdFacts DEF ForkedTable
<1>11. ASSUME TargetsAboveStdio PROVE \A x \in S3 : x \notin Stdio
  <2>1. ASSUME NEW s \in Streams, NEW e \in PipeEnds PROVE p[s][e] \notin Stdio
    <3>1. s \in Pipes
      BY DEF Pipes
    <3>2. p[s][e] # FD_INVALID =>
            IF IsPiped(c, s) THEN p[s][e] \notin Stdio ELSE p[s][e] = Target(c, s)
      BY <3>1 DEF ForkedTable
    <3>3. ~IsPiped(c, s) => Target(c, s) \notin Stdio
      BY <1>11 DEF TargetsAboveStdio, IsPiped
    <3>4. FD_INVALID \notin Stdio
      BY FdFacts
    <3> QED
      BY <3>2, <3>3, <3>4
  <2> QED
    BY <1>0, <2>1
<1>12. /\ STDIN_FILENO \in Stdio /\ STDOUT_FILENO \in Stdio /\ STDERR_FILENO \in Stdio
       /\ STDIN_FILENO # STDOUT_FILENO /\ STDIN_FILENO # STDERR_FILENO
       /\ STDOUT_FILENO # STDERR_FILENO /\ Stdio \subseteq Fds
  BY FdFacts DEF Stdio, STDIN_FILENO, STDOUT_FILENO, STDERR_FILENO
<1>13. fw \notin Stdio
  BY DEF FailFd
<1>14. t0 \in Tables
  BY DEF TypeOK
<1> HIDE DEF p, S1, S2, S3, ir, ow, ew, fw, I, O, E, N, t0
<1>15. /\ t1 \in Tables /\ t1[ir] = I /\ t1[ow] = O /\ t1[fw] = N
       /\ ~Merged(c) => t1[ew] = E
  BY <1>3, <1>4, <1>9, <1>14, TableKeeps
<1> HIDE DEF t1
<1>16. /\ t2 \in Tables /\ t2[fw] = N
       /\ TargetsAboveStdio => /\ t2[STDIN_FILENO] = I /\ t2[ow] = O
                               /\ ~Merged(c) => t2[ew] = E
  <2>1. t2 \in Tables /\ t2[fw] = N
    <3>1. fw # STDIN_FILENO /\ STDIN_FILENO \in Fds /\ t1[fw] # Closed
      BY <1>4, <1>12, <1>13, <1>15
    <3> QED
      BY <1>3, <1>15, <3>1, TableKeeps
  <2>2. ASSUME TargetsAboveStdio PROVE /\ t2[STDIN_FILENO] = I /\ t2[ow] = O
                                       /\ ~Merged(c) => t2[ew] = E
    <3>1. ow \notin Stdio /\ ew \notin Stdio
      BY <1>11, <2>2 DEF S3
    <3>2. t2[STDIN_FILENO] = I
      BY <1>3, <1>4, <1>12, <1>15, TableKeeps
    <3>3. t2[ow] = O
      <4>1. ow # STDIN_FILENO /\ STDIN_FILENO \in Fds /\ t1[ow] # Closed
        BY <1>4, <1>12, <1>15, <3>1
      <4> QED
        BY <1>3, <1>15, <4>1, TableKeeps
    <3>4. ASSUME ~Merged(c) PROVE t2[ew] = E
      <4>1. ew # STDIN_FILENO /\ STDIN_FILENO \in Fds /\ t1[ew] # Closed
        BY <1>4, <1>12, <1>15, <3>1, <3>4
      <4> QED
        BY <1>3, <1>15, <3>4, <4>1, TableKeeps
    <3> QED
      BY <3>2, <3>3, <3>4
  <2> QED
    BY <2>1, <2>2
<1> HIDE DEF t2
<1>17. /\ t3 \in Tables /\ t3[fw] = N
       /\ TargetsAboveStdio => /\ t3[STDIN_FILENO] = I /\ t3[STDOUT_FILENO] = O /\ t3[ow] = O
                               /\ ~Merged(c) => t3[ew] = E
  <2>1. t3 \in Tables /\ t3[fw] = N
    <3>1. fw # STDOUT_FILENO /\ STDOUT_FILENO \in Fds /\ t2[fw] # Closed
      BY <1>4, <1>12, <1>13, <1>16
    <3> QED
      BY <1>3, <1>16, <3>1, TableKeeps
  <2>2. ASSUME TargetsAboveStdio PROVE /\ t3[STDIN_FILENO] = I /\ t3[STDOUT_FILENO] = O /\ t3[ow] = O
                                       /\ ~Merged(c) => t3[ew] = E
    <3>1. ow \notin Stdio /\ ew \notin Stdio
      BY <1>11, <2>2 DEF S3
    <3>2. t3[STDIN_FILENO] = I
      BY <1>3, <1>4, <1>12, <1>16, <2>2, TableKeeps
    <3>3. t3[ow] = O
      <4>1. ow # STDOUT_FILENO /\ STDOUT_FILENO \in Fds /\ t2[ow] # Closed
        BY <1>4, <1>12, <1>16, <2>2, <3>1
      <4> QED
        BY <1>3, <1>16, <2>2, <4>1, TableKeeps
    <3>4. t3[STDOUT_FILENO] = O
      BY <1>3, <1>4, <1>12, <1>16, <2>2, TableKeeps
    <3>5. ASSUME ~Merged(c) PROVE t3[ew] = E
      <4>1. ew # STDOUT_FILENO /\ STDOUT_FILENO \in Fds /\ t2[ew] # Closed
        BY <1>4, <1>12, <1>16, <2>2, <3>1, <3>5
      <4> QED
        BY <1>3, <1>16, <2>2, <3>5, <4>1, TableKeeps
    <3> QED
      BY <3>2, <3>3, <3>4, <3>5
  <2> QED
    BY <2>1, <2>2
<1> HIDE DEF t3
<1>18. CASE Merged(c)
  <2>1. t4m \in Tables /\ t4m[fw] = N
    BY <1>3, <1>4, <1>12, <1>13, <1>17, TableKeeps
  <2>2. ASSUME TargetsAboveStdio
        PROVE  t4m[STDIN_FILENO] = I /\ t4m[STDOUT_FILENO] = O /\ t4m[STDERR_FILENO] = O
    <3>1. t4m[STDIN_FILENO] = I /\ t4m[STDOUT_FILENO] = O
      BY <1>4, <1>12, <1>17, <2>2, TableKeeps
    <3>2. t4m[STDERR_FILENO] = O
      BY <1>3, <1>4, <1>12, <1>17, <2>2, TableKeeps
    <3> QED
      BY <3>1, <3>2
  <2>3. t4 = t4m
    BY <1>18
  <2> HIDE DEF t4, t4m
  <2>4. CloseFds(t4, S3)[fw] = N
    BY <1>3, <1>4, <1>8, <2>1, <2>3, TableKeeps
  <2>5. ASSUME TargetsAboveStdio
        PROVE  /\ CloseFds(t4, S3)[STDIN_FILENO] = I /\ CloseFds(t4, S3)[STDOUT_FILENO] = O
               /\ CloseFds(t4, S3)[STDERR_FILENO] = O
    BY <1>4, <1>11, <1>12, <2>1, <2>2, <2>3, <2>5, TableKeeps
  <2>6. Wanted(c, "in") = I /\ Wanted(c, "out") = O /\ Wanted(c, "err") = O
    BY <1>0, <1>18 DEF Wanted, I, O, Named, IsPiped
  <2> QED
    BY <1>1, <1>6, <2>4, <2>5, <2>6 DEF FailFd, fw, p, t0
<1>19. CASE ~Merged(c)
  <2>1. t3e \in Tables /\ t3e[fw] = N
    BY <1>3, <1>4, <1>9, <1>17, TableKeeps
  <2>2. ASSUME TargetsAboveStdio
        PROVE  t3e[STDIN_FILENO] = I /\ t3e[STDOUT_FILENO] = O /\ t3e[ew] = E
    <3>1. t3e[STDIN_FILENO] = I /\ t3e[STDOUT_FILENO] = O
      BY <1>4, <1>10, <1>12, <1>17, <2>2, TableKeeps
    <3>2. t3e[ew] = E
      BY <1>3, <1>4, <1>9, <1>17, <1>19, <2>2, TableKeeps
    <3> QED
      BY <3>1, <3>2
  <2> HIDE DEF t3e
  <2>3. t4e \in Tables /\ t4e[fw] = N
    BY <1>3, <1>4, <1>12, <1>13, <2>1, TableKeeps
  <2>4. ASSUME TargetsAboveStdio
        PROVE  t4e[STDIN_FILENO] = I /\ t4e[STDOUT_FILENO] = O /\ t4e[STDERR_FILENO] = E
    <3>1. t4e[STDIN_FILENO] = I /\ t4e[STDOUT_FILENO] = O
      BY <1>4, <1>12, <2>1, <2>2, <2>4, TableKeeps
    <3>2. t4e[STDERR_FILENO] = E
      BY <1>3, <1>4, <1>12, <1>19, <2>1, <2>2, <2>4, TableKeeps
    <3> QED
      BY <3>1, <3>2
  <2>5. t4 = t4e
    BY <1>19
  <2> HIDE DEF t4, t4e
  <2>6. CloseFds(t4, S3)[fw] = N
    BY <1>3, <1>4, <1>8, <2>3, <2>5, TableKeeps
  <2>7. ASSUME TargetsAboveStdio
        PROVE  /\ CloseFds(t4, S3)[STDIN_FILENO] = I /\ CloseFds(t4, S3)[STDOUT_FILENO] = O
               /\ CloseFds(t4, S3)[STDERR_FILENO] = E
    BY <1>4, <1>11, <1>12, <2>3, <2>4, <2>5, <2>7, TableKeeps
  <2>8. Wanted(c, "in") = I /\ Wanted(c, "out") = O /\ Wanted(c, "err") = E
    BY <1>0, <1>19 DEF Wanted, I, O, E, Named, IsPiped
  <2> QED
    BY <1>1, <1>6, <2>6, <2>7, <2>8 DEF FailFd, fw, p, t0
<1> QED
  BY <1>18, <1>19

LEMMA StdioNumbers ==
    ASSUME TypeOK, Ownership, StdioHeld,
           NEW c \in Calls, NEW p \in Pipes, NEW e \in PipeEnds,
           fds[c][p][e] # FD_INVALID, IsPiped(c, p)
    PROVE  fds[c][p][e] \in Fds \ Stdio /\ table[fds[c][p][e]] = PipeEnd(c, p, e)
<1> DEFINE n == fds[c][p][e]
<1>1. n \in Fds /\ table[n] = PipeEnd(c, p, e)
  BY DEF TypeOK, FdOrInvalid, Ownership, OwnedPipes, Remembers
<1>2. ASSUME n \in Stdio PROVE FALSE
  <2>1. held[n] # Closed
    BY <1>2, UsesAssumption DEF StdioHeld, TypeOK
  <2>2. table[n] \in Files
    BY <1>1, <2>1 DEF Ownership, UserFdsKept, TypeOK
  <2> QED
    BY <1>1, <2>2, PipeEndNotFile
<1> QED
  BY <1>1, <1>2

LEMMA StdioStep ==
    ASSUME TypeOK, Ownership, StdioHeld, [Next]_vars
    PROVE  StdioHeld'
<1>0. use' = use
  BY UseFixed
<1>1. ASSUME held' = held PROVE StdioHeld'
  BY <1>0, <1>1 DEF StdioHeld
<1>2. ASSUME NEW f \in use.userFiles, UserOpen(f) PROVE StdioHeld'
  <2>1. PICK n \in Fds : LowestFree(table, n) /\ held' = [held EXCEPT ![n] = f]
    BY <1>2 DEF UserOpen
  <2>2. n \notin Stdio
    BY <2>1, FdFacts, UsesAssumption
       DEF LowestFree, StdioHeld, Ownership, UserFdsKept, TypeOK
  <2> QED
    BY <1>0, <2>1, <2>2 DEF StdioHeld, TypeOK
<1>3. ASSUME NEW n \in Fds, UserClose(n) PROVE StdioHeld'
  <2>1. held[n] \in use.userFiles /\ held' = CloseFds(held, {n})
    BY <1>3 DEF UserClose, CloseFd
  <2>2. n \notin Stdio
    BY <2>1, UsesAssumption DEF StdioHeld, TypeOK
  <2> QED
    BY <1>0, <2>1, <2>2, FdFacts DEF StdioHeld, CloseFds
<1>4. ASSUME NEW c \in Calls, \/ BindStdin(c) \/ CallerStep(c) \/ DropHandle(c)
                              \/ ChildStep(c) \/ ProgramEnds(c)
      PROVE  held' = held
  BY <1>4 DEF CallerStep, ChildStep, BindStdin, BindStdout, BindStderr, Bind, BindFails,
       CloseNext, CreateFailPipe, Fork, ForkFails, ReadFully, ReapFailedChild,
       DropHandle, Rewire, CloseAllDescriptors, Chdir, SetCloexec, Exec, ExecFails,
       WriteError, ChildExit, ProgramEnds
<1>5. CASE UNCHANGED vars
  BY <1>1, <1>5 DEF vars
<1> QED
  BY <1>1, <1>2, <1>3, <1>4, <1>5 DEF Next, AllDone, vars

(* No step takes a call back to where its targets have to be held, and the *)
(* user keeps them until then.                                             *)
LEMMA TargetsStep ==
    ASSUME TypeOK, Ownership, TargetsOpen, TargetsHeld, [Next]_vars
    PROVE  TargetsHeld'
<1>0. use' = use
  BY UseFixed
<1>1. ASSUME NEW d \in Calls, pc'[d] \in BeforeFork PROVE pc[d] \in BeforeFork
  <2>1. ASSUME NEW c \in Calls, NEW label, NEW ends, Goto(c, label, ends)
        PROVE  \/ pc'[d] = pc[d]
               \/ c = d /\ pc'[d] = label
    BY <2>1 DEF Goto, TypeOK
  <2>2. ASSUME NEW c \in Calls, NEW s, NEW from, NEW to, NEW undo,
               Bind(c, s, from, to) \/ BindFails(c, s, from, undo)
        PROVE  \/ pc'[d] = pc[d]
               \/ c = d /\ pc[d] = from
    BY <2>1, <2>2 DEF Bind, BindFails, At
  <2>3. ASSUME NEW c \in Calls, BindStdin(c) \/ BindStdout(c) \/ BindStderr(c)
        PROVE  pc[d] \in BeforeFork
    BY <1>1, <2>2, <2>3 DEF BindStdin, BindStdout, BindStderr, BeforeFork
  <2>4. ASSUME NEW c \in Calls, CreateFailPipe(c) \/ Fork(c) \/ ForkFails(c)
        PROVE  pc[d] \in BeforeFork
    BY <1>1, <2>1, <2>4 DEF CreateFailPipe, Fork, ForkFails, At, BeforeFork
  <2>5. ASSUME NEW c \in Calls, ReadFully(c) PROVE pc[d] \in BeforeFork
    <3>1. PICK result \in ReadFullyResults(c) :
            CASE result = "eof"   -> Goto(c, "live", NearEnds(c))
              [] result = "errno" -> Goto(c, "reap", <<>>)
              [] result = "error" -> Goto(c, "threw", RollbackEnds(c))
      BY <2>5 DEF ReadFully
    <3>2. result \in {"eof", "errno", "error"}
      BY DEF ReadFullyResults
    <3>3. pc'[d] = pc[d] \/ pc'[d] \in {"live", "reap", "threw"}
      BY <2>1, <3>1, <3>2
    <3> QED
      BY <1>1, <3>3 DEF BeforeFork
  <2>6. ASSUME NEW c \in Calls, ReapFailedChild(c) \/ DropHandle(c) PROVE pc[d] \in BeforeFork
    <3>1. pc'[d] = pc[d] \/ pc'[d] \in {"threw", "dropped"}
      BY <2>1, <2>6 DEF ReapFailedChild, DropHandle
    <3> QED
      BY <1>1, <3>1 DEF BeforeFork
  <2>7. ASSUME NEW c \in Calls, CloseNext(c) PROVE pc[d] \in BeforeFork
    BY <1>1, <2>7 DEF CloseNext
  <2>8. ASSUME NEW c \in Calls, ChildStep(c) \/ ProgramEnds(c) PROVE pc[d] \in BeforeFork
    BY <1>1, <2>8 DEF ChildStep, Rewire, CloseAllDescriptors, Chdir, SetCloexec, Exec,
         ExecFails, WriteError, ChildExit, ProgramEnds, callerVars
  <2>9. ASSUME NEW c \in Calls, \/ BindStdin(c) \/ CallerStep(c) \/ DropHandle(c)
                                \/ ChildStep(c) \/ ProgramEnds(c)
        PROVE  pc[d] \in BeforeFork
    BY <2>3, <2>4, <2>5, <2>6, <2>7, <2>8, <2>9 DEF CallerStep
  <2>10. CASE \/ \E f \in use.userFiles : UserOpen(f)
              \/ \E fd \in Fds : UserClose(fd)
    BY <1>1, <2>10 DEF UserOpen, UserClose
  <2>11. CASE UNCHANGED vars
    BY <1>1, <2>11 DEF vars
  <2> QED
    BY <2>9, <2>10, <2>11 DEF Next, AllDone
<1>2. ASSUME NEW d \in Calls, NEW s \in Streams, Redirected(d, s), pc'[d] \in BeforeFork
      PROVE  held'[Target(d, s)] = use.table[Target(d, s)]
  <2> DEFINE n == Target(d, s)
  <2>1. n \in Fds /\ held[n] = use.table[n] /\ use.table[n] # Closed
    BY <1>1, <1>2, TargetType DEF TargetsHeld, TargetsOpen
  <2>2. table[n] # Closed
    BY <2>1 DEF Ownership, UserFdsKept
  <2>3. pc[d] \in BeforeFork /\ Target(d, s) = n
    BY <1>1, <1>2
  <2> HIDE DEF n
  <2>4. ASSUME NEW f \in use.userFiles, UserOpen(f) PROVE held'[n] = held[n]
    <3>1. PICK m \in Fds : LowestFree(table, m) /\ held' = [held EXCEPT ![m] = f]
      BY <2>4 DEF UserOpen
    <3>2. m # n
      BY <2>2, <3>1 DEF LowestFree
    <3> QED
      BY <2>1, <3>1, <3>2 DEF TypeOK
  <2>5. ASSUME NEW m \in Fds, UserClose(m) PROVE held'[n] = held[n]
    <3>1. m # n
      BY <2>3, <2>5 DEF UserClose, BeforeFork, InStart
    <3> QED
      BY <2>1, <2>5, <3>1 DEF UserClose, CloseFd, CloseFds
  <2>6. ASSUME NEW c \in Calls, \/ BindStdin(c) \/ CallerStep(c) \/ DropHandle(c)
                                \/ ChildStep(c) \/ ProgramEnds(c)
        PROVE  held' = held
    BY <2>6 DEF CallerStep, ChildStep, BindStdin, BindStdout, BindStderr, Bind, BindFails,
         CloseNext, CreateFailPipe, Fork, ForkFails, ReadFully, ReapFailedChild,
         DropHandle, Rewire, CloseAllDescriptors, Chdir, SetCloexec, Exec, ExecFails,
         WriteError, ChildExit, ProgramEnds
  <2>7. CASE UNCHANGED vars
    BY <2>1, <2>7 DEF vars, n
  <2> QED
    BY <2>1, <2>4, <2>5, <2>6, <2>7 DEF Next, AllDone, vars, n
<1> QED
  BY <1>0, <1>2, TargetsFixed DEF TargetsHeld

(* The caller's steps, one call at a time.                                 *)

LEMMA CallerHoldsFrame ==
    ASSUME NEW d \in Calls, CallerHolds(d), use' = use,
           pc'[d] = pc[d], todo'[d] = todo[d], fds'[d] = fds[d]
    PROVE  CallerHolds(d)'
BY DEF CallerHolds, HasBoth, Merged

(* Where nothing is promised nothing has to be shown.                      *)
LEMMA CallerHoldsLater ==
    ASSUME NEW c \in Calls,
           pc'[c] \in {"idle", "reap", "live", "dropped", "threw"}
    PROVE  CallerHolds(c)'
BY DEF CallerHolds

LEMMA CallerHoldsBind ==
    ASSUME TypeOK, Ownership, NEW c \in Calls, CallerHolds(c),
           BindStdin(c) \/ BindStdout(c) \/ BindStderr(c)
    PROVE  CallerHolds(c)'
<1>1. ASSUME NEW s \in Streams, NEW from, NEW to, Bind(c, s, from, to)
      PROVE  /\ At(c, from) /\ pc'[c] = to /\ todo'[c] = <<>> /\ use' = use
             /\ HasBoth(c, s)'
             /\ \A q \in Pipes : q # s => fds'[c][q] = fds[c][q]
  <2>1. /\ \A e \in PipeEnds : fds'[c][s][e] \in Fds
        /\ \A q \in Pipes : q # s => fds'[c][q] = fds[c][q]
        /\ use' = use
    BY <1>1, OwnershipBind
  <2> QED
    BY <1>1, <2>1 DEF Bind, Goto, TypeOK, HasBoth
<1>2. ASSUME NEW s, NEW from, NEW undo, BindFails(c, s, from, undo)
      PROVE  pc'[c] = "threw"
  BY <1>2 DEF BindFails, Goto, TypeOK
<1>3. /\ "in" \in Streams /\ "out" \in Streams /\ "err" \in Streams
      /\ "in" \in Pipes /\ "out" \in Pipes /\ "err" \in Pipes
  BY DEF Streams, Pipes
<1>4. CASE Bind(c, "in", "idle", "bindOut")
  BY <1>1, <1>3, <1>4 DEF CallerHolds
<1>5. CASE Bind(c, "out", "bindOut", IF Merged(c) THEN "failPipe" ELSE "bindErr")
  <2> DEFINE to == IF Merged(c) THEN "failPipe" ELSE "bindErr"
  <2>1. /\ At(c, "bindOut") /\ pc'[c] = to /\ todo'[c] = <<>> /\ use' = use
        /\ HasBoth(c, "out")' /\ fds'[c]["in"] = fds[c]["in"]
    BY <1>1, <1>3, <1>5
  <2>2. HasBoth(c, "in")'
    BY <2>1 DEF CallerHolds, HasBoth, At
  <2> QED
    BY <2>1, <2>2 DEF CallerHolds, Merged
<1>6. CASE Bind(c, "err", "bindErr", "failPipe")
  <2>1. /\ At(c, "bindErr") /\ pc'[c] = "failPipe" /\ todo'[c] = <<>> /\ use' = use
        /\ HasBoth(c, "err")'
        /\ fds'[c]["in"] = fds[c]["in"] /\ fds'[c]["out"] = fds[c]["out"]
    BY <1>1, <1>3, <1>6
  <2>2. HasBoth(c, "in")' /\ HasBoth(c, "out")'
    BY <2>1 DEF CallerHolds, HasBoth, At
  <2> QED
    BY <2>1, <2>2 DEF CallerHolds
<1> QED
  BY <1>2, <1>4, <1>5, <1>6, CallerHoldsLater DEF BindStdin, BindStdout, BindStderr

LEMMA CallerHoldsStep ==
    ASSUME TypeOK, Ownership, NEW c \in Calls, CallerHolds(c),
           BindStdin(c) \/ CallerStep(c) \/ DropHandle(c)
    PROVE  CallerHolds(c)'
<1>1. CASE BindStdin(c) \/ BindStdout(c) \/ BindStderr(c)
  BY <1>1, CallerHoldsBind
<1>2. CASE CloseNext(c)
  <2> DEFINE p == Head(todo[c])[1]
             e == Head(todo[c])[2]
  <2>0. todo[c] # <<>> /\ pc' = pc
    BY <1>2 DEF CloseNext
  <2>1. CASE pc[c] = "read"
    <3>1. todo[c] = <<<<"fail", "write">>>>
      BY <2>0, <2>1 DEF CallerHolds
    <3>2. /\ todo'[c] = <<>>
          /\ fds' = [fds EXCEPT ![c]["fail"]["write"] = FD_INVALID]
      <4>1. Head(todo[c]) = <<"fail", "write">> /\ Tail(todo[c]) = <<>>
        BY <3>1
      <4>2. p = "fail" /\ e = "write"
        BY <4>1
      <4>3. /\ todo' = [todo EXCEPT ![c] = Tail(@)]
            /\ fds' = [fds EXCEPT ![c][p][e] = FD_INVALID]
        BY <1>2 DEF CloseNext
      <4> QED
        BY <4>1, <4>2, <4>3 DEF TypeOK
    <3>3. fds'[c]["fail"]["read"] = fds[c]["fail"]["read"]
      BY <3>2 DEF TypeOK, Pipes, PipeEnds
    <3> QED
      BY <2>0, <2>1, <3>2, <3>3 DEF CallerHolds
  <2>2. CASE pc[c] # "read"
    BY <2>0, <2>2 DEF CallerHolds
  <2> QED
    BY <2>1, <2>2
<1>3. CASE CreateFailPipe(c)
  <2>1. CASE CreatePipe(c, "fail") /\ Goto(c, "fork", <<>>)
    <3>1. held' = held /\ use' = use /\ IsPiped(c, "fail")
      BY <1>3 DEF CreateFailPipe, IsPiped, Streams
    <3>2. /\ HasBoth(c, "fail")'
          /\ \A q \in Pipes : q # "fail" => fds'[c][q] = fds[c][q]
      BY <2>1, <3>1, OwnershipCreatePipe DEF Pipes, HasBoth
    <3>3. pc'[c] = "fork" /\ todo'[c] = <<>> /\ At(c, "failPipe")
      BY <1>3, <2>1 DEF CreateFailPipe, Goto, TypeOK
    <3>4. /\ fds'[c]["in"] = fds[c]["in"] /\ fds'[c]["out"] = fds[c]["out"]
          /\ fds'[c]["err"] = fds[c]["err"]
      BY <3>2 DEF Pipes, Streams
    <3> QED
      BY <3>1, <3>2, <3>3, <3>4 DEF CallerHolds, HasBoth, At, Merged
  <2>2. CASE Goto(c, "threw", RollbackEnds(c))
    BY <2>2, CallerHoldsLater DEF Goto, TypeOK
  <2> QED
    BY <1>3, <2>1, <2>2 DEF CreateFailPipe
<1>4. CASE Fork(c)
  BY <1>4 DEF Fork, Goto, CallerHolds, HasBoth, At, TypeOK, PipeEnds
<1>5. CASE ForkFails(c) \/ ReapFailedChild(c) \/ DropHandle(c)
  <2>1. pc'[c] \in {"threw", "dropped"}
    BY <1>5 DEF ForkFails, ReapFailedChild, DropHandle, Goto, TypeOK
  <2> QED
    BY <2>1, CallerHoldsLater
<1>6. CASE ReadFully(c)
  <2>1. PICK result \in ReadFullyResults(c) :
          CASE result = "eof"   -> Goto(c, "live", NearEnds(c))
            [] result = "errno" -> Goto(c, "reap", <<>>)
            [] result = "error" -> Goto(c, "threw", RollbackEnds(c))
    BY <1>6 DEF ReadFully
  <2>2. result \in {"eof", "errno", "error"}
    BY DEF ReadFullyResults
  <2>3. pc'[c] \in {"live", "reap", "threw"}
    BY <2>1, <2>2 DEF Goto, TypeOK
  <2> QED
    BY <2>3, CallerHoldsLater
<1> QED
  BY <1>1, <1>2, <1>3, <1>4, <1>5, <1>6 DEF CallerStep

(* The child's half.                                                       *)

LEMMA ForkedFrame ==
    ASSUME NEW d \in Calls, use' = use, ctable'[d] = ctable[d], cfds'[d] = cfds[d]
    PROVE  ForkedTable(d) => ForkedTable(d)'
<1>1. /\ \A p : IsPiped(d, p)' <=> IsPiped(d, p)
      /\ \A p : Target(d, p)' = Target(d, p)
      /\ Merged(d)' = Merged(d)
  BY TargetsFixed
<1>2. \A p, e : Named(d, p, e)' = Named(d, p, e)
  BY <1>1 DEF Named
<1> QED
  BY <1>1, <1>2 DEF ForkedTable

LEMMA ChildFrame ==
    ASSUME NEW d \in Calls, use' = use, pc'[d] = pc[d], cpc'[d] = cpc[d],
           ctable'[d] = ctable[d], cfds'[d] = cfds[d], report'[d] = report[d]
    PROVE  /\ ChildTruth(d) => ChildTruth(d)'
           /\ ChildStreams(d) => ChildStreams(d)'
<1>1. Merged(d)' = Merged(d) /\ \A s : Wanted(d, s)' = Wanted(d, s)
  BY DEF Merged, Wanted, Redirected, Target
<1>2. ForkedTable(d) => ForkedTable(d)'
  BY ForkedFrame
<1> QED
  BY <1>1, <1>2 DEF ChildTruth, ChildStreams, FailFdSpared, FailFd, Swept, HasRun, OwnStreams

(* A caller that goes on to a place where it has no handle.                *)
LEMMA ChildTruthCaller ==
    ASSUME NEW c \in Calls, ChildTruth(c), use' = use, UNCHANGED childVars,
           pc[c] # "threw",
           \/ pc'[c] \in {"bindOut", "bindErr", "failPipe", "fork", "threw"}
           \/ pc'[c] = "reap" /\ pc[c] = "read"
           \/ pc'[c] = "dropped" /\ pc[c] = "live"
    PROVE  ChildTruth(c)'
<1>1. ForkedTable(c) => ForkedTable(c)'
  BY ForkedFrame DEF childVars
<1> QED
  BY <1>1 DEF ChildTruth, FailFdSpared, FailFd, Swept, HasRun, childVars

LEMMA ChildTruthFork ==
    ASSUME TypeOK, Ownership, StdioHeld, TargetsOpen, TargetsHeld, NEW c \in Calls,
           CallerHolds(c), Fork(c)
    PROVE  ChildTruth(c)' /\ ChildStreams(c)'
<1>1. /\ pc[c] = "fork" /\ pc'[c] = "read" /\ cpc'[c] = "forked" /\ use' = use
      /\ ctable'[c] = table /\ cfds'[c] = fds[c]
  BY DEF Fork, At, Goto, TypeOK
<1>2. ASSUME NEW p \in Pipes, NEW e \in PipeEnds, fds[c][p][e] # FD_INVALID
      PROVE  /\ fds[c][p][e] \in Fds
             /\ table[fds[c][p][e]] = Named(c, p, e)
             /\ IF IsPiped(c, p) THEN fds[c][p][e] \notin Stdio
                ELSE fds[c][p][e] = Target(c, p)
  <2>1. CASE IsPiped(c, p)
    BY <1>2, <2>1, StdioNumbers DEF Named
  <2>2. CASE ~IsPiped(c, p)
    <3>1. p \in Streams /\ Redirected(c, p) /\ Target(c, p) \in Fds
      BY <2>2, TargetType DEF IsPiped
    <3>2. fds[c][p][e] = Target(c, p)
      BY <1>2, <2>2 DEF Ownership, OwnedPipes, Remembers
    <3>3. held[Target(c, p)] = use.table[Target(c, p)] /\ use.table[Target(c, p)] # Closed
      BY <1>1, <3>1 DEF TargetsHeld, TargetsOpen, BeforeFork
    <3>4. table[Target(c, p)] = use.table[Target(c, p)]
      BY <3>1, <3>3 DEF Ownership, UserFdsKept
    <3> QED
      BY <2>2, <3>1, <3>2, <3>4 DEF Named
  <2> QED
    BY <2>1, <2>2
<1>3. /\ HasBoth(c, "in") /\ HasBoth(c, "out") /\ HasBoth(c, "fail")
      /\ ~Merged(c) => HasBoth(c, "err")
  BY <1>1 DEF CallerHolds
<1>4. ForkedTable(c)'
  <2>1. /\ \A p : IsPiped(c, p)' <=> IsPiped(c, p)
        /\ \A p : Target(c, p)' = Target(c, p)
        /\ Merged(c)' = Merged(c)
    BY <1>1, TargetsFixed
  <2>2. \A p, e : Named(c, p, e)' = Named(c, p, e)
    BY <1>1, <2>1 DEF Named
  <2>3. /\ fds[c]["in"]["read"] # FD_INVALID /\ fds[c]["out"]["write"] # FD_INVALID
        /\ ~Merged(c) => fds[c]["err"]["write"] # FD_INVALID
    BY <1>3, FdFacts DEF HasBoth, PipeEnds
  <2>4. \A p \in Pipes, e \in PipeEnds : fds[c][p][e] # FD_INVALID =>
          /\ fds[c][p][e] \in Fds
          /\ table[fds[c][p][e]] = Named(c, p, e)
          /\ IF IsPiped(c, p) THEN fds[c][p][e] \notin Stdio
             ELSE fds[c][p][e] = Target(c, p)
    BY <1>2
  <2> QED
    BY <1>1, <2>1, <2>2, <2>3, <2>4 DEF ForkedTable
<1>5. FailFd(c)' \in Fds \ Stdio
  <2>1. "fail" \in Pipes /\ "write" \in PipeEnds /\ IsPiped(c, "fail")
    BY DEF Pipes, PipeEnds, IsPiped, Streams
  <2>2. fds[c]["fail"]["write"] # FD_INVALID
    BY <1>3, <2>1, FdFacts DEF HasBoth
  <2> QED
    BY <1>1, <1>2, <2>1, <2>2 DEF FailFd
<1> QED
  BY <1>1, <1>4, <1>5 DEF ChildTruth, ChildStreams, BeforeExec

(* The end of file the caller reads on its fail pipe.                      *)
LEMMA EofIsExec ==
    ASSUME TypeOK, Ownership, NEW c \in Calls, CallerHolds(c), ChildTruth(c),
           pc[c] = "read", "eof" \in ReadFullyResults(c), FailFdSpared(c)
    PROVE  HasRun(c)
<1> DEFINE n == fds[c]["fail"]["read"]
<1>1. n \in Fds /\ table[n] = PipeEnd(c, "fail", "read")
  <2>1. "fail" \in Pipes /\ "read" \in PipeEnds /\ IsPiped(c, "fail") /\ n \in Fds
    BY DEF CallerHolds, Pipes, PipeEnds, IsPiped, Streams
  <2> QED
    BY <2>1, FdFacts DEF Ownership, OwnedPipes, Remembers
<1>2. ~report[c] /\ ~FailPipeHasWriter(c)
  BY <1>1 DEF ReadFullyResults
<1>3. FailFd(c) \in Fds
  BY DEF ChildTruth
<1>4. ctable[c][FailFd(c)] # PipeEnd(c, "fail", "write")
  BY <1>2, <1>3 DEF FailPipeHasWriter
<1>5. cpc[c] # "forked"
  <2> SUFFICES ASSUME cpc[c] = "forked" PROVE FALSE
    OBVIOUS
  <2>1. ForkedTable(c) /\ FailFd(c) # FD_INVALID
    BY <1>3, FdFacts DEF ChildTruth
  <2> QED
    BY <1>4, <2>1 DEF ForkedTable, FailFd, Pipes, PipeEnds, Named, IsPiped, Streams
<1>6. cpc[c] \notin BeforeExec \cup {"told", "exited", "unborn", "reaped"}
  BY <1>2, <1>4 DEF ChildTruth
<1> QED
  BY <1>5, <1>6 DEF TypeOK, ChildPCs, BeforeExec, HasRun

LEMMA ChildTruthCallerStep ==
    ASSUME TypeOK, Ownership, StdioHeld, TargetsOpen, TargetsHeld, NEW c \in Calls,
           CallerHolds(c), ChildTruth(c),
           BindStdin(c) \/ CallerStep(c) \/ DropHandle(c)
    PROVE  ChildTruth(c)' /\ (ChildStreams(c) => ChildStreams(c)')
<1>0. use' = use
  BY UseFixed DEF Next
<1>1. ASSUME UNCHANGED childVars PROVE ChildStreams(c) => ChildStreams(c)'
  <2>1. \A s : Wanted(c, s)' = Wanted(c, s)
    BY <1>0 DEF Merged, Wanted, Redirected, Target
  <2> QED
    BY <1>1, <2>1 DEF childVars, ChildStreams, OwnStreams, FailFd
<1>2. CASE Fork(c)
  BY <1>2, ChildTruthFork
<1>3. CASE CloseNext(c)
  BY <1>0, <1>3, ChildFrame DEF CloseNext, childVars
<1>4. ASSUME NEW s \in Streams, NEW from \in {"idle", "bindOut", "bindErr"},
             NEW to \in {"bindOut", "bindErr", "failPipe"}, NEW undo,
             Bind(c, s, from, to) \/ BindFails(c, s, from, undo)
      PROVE  ChildTruth(c)' /\ (ChildStreams(c) => ChildStreams(c)')
  <2>1. UNCHANGED childVars /\ pc[c] = from /\ pc'[c] \in {to, "threw"}
    BY <1>4 DEF Bind, BindFails, Goto, At, TypeOK
  <2> QED
    BY <1>0, <1>1, <2>1, ChildTruthCaller
<1>5. CASE BindStdin(c) \/ BindStdout(c) \/ BindStderr(c)
  <2>1. "in" \in Streams /\ "out" \in Streams /\ "err" \in Streams
    BY DEF Streams
  <2> QED
    BY <1>4, <1>5, <2>1 DEF BindStdin, BindStdout, BindStderr
<1>6. CASE CreateFailPipe(c) \/ ForkFails(c)
  <2>1. /\ UNCHANGED childVars /\ pc[c] \in {"failPipe", "fork"}
        /\ pc'[c] \in {"fork", "threw"}
    BY <1>6 DEF CreateFailPipe, ForkFails, Goto, At, TypeOK
  <2> QED
    BY <1>0, <1>1, <2>1, ChildTruthCaller
<1>7. CASE DropHandle(c)
  <2>1. UNCHANGED childVars /\ pc[c] = "live" /\ pc'[c] = "dropped"
    BY <1>7 DEF DropHandle, Goto, At, TypeOK
  <2> QED
    BY <1>0, <1>1, <2>1, ChildTruthCaller
<1>8. CASE ReapFailedChild(c)
  <2>1. /\ pc'[c] = "threw" /\ cpc'[c] = "reaped" /\ cpc[c] # "unborn"
        /\ UNCHANGED <<ctable, cfds, report>>
    BY <1>8 DEF ReapFailedChild, Goto, At, TypeOK
  <2> QED
    BY <1>0, <2>1 DEF ChildTruth, ChildStreams, FailFd, BeforeExec
<1>9. CASE ReadFully(c)
  <2>1. PICK result \in ReadFullyResults(c) :
          CASE result = "eof"   -> Goto(c, "live", NearEnds(c))
            [] result = "errno" -> Goto(c, "reap", <<>>)
            [] result = "error" -> Goto(c, "threw", RollbackEnds(c))
    BY <1>9 DEF ReadFully
  <2>2. result \in {"eof", "errno", "error"}
    BY DEF ReadFullyResults
  <2>3. UNCHANGED childVars /\ pc[c] = "read"
    BY <1>9 DEF ReadFully, At
  <2>4. CASE result = "eof"
    <3>1. pc'[c] = "live"
      BY <2>1, <2>4 DEF Goto, TypeOK
    <3>2. FailFdSpared(c) => HasRun(c)
      BY <2>3, <2>4, EofIsExec
    <3>3. ChildTruth(c)'
      <4>1. ForkedTable(c) => ForkedTable(c)'
        BY <1>0, <2>3, ForkedFrame DEF childVars
      <4> QED
        BY <1>0, <2>3, <3>1, <3>2, <4>1
           DEF ChildTruth, FailFdSpared, FailFd, Swept, HasRun, childVars
    <3> QED
      BY <1>1, <2>3, <3>3
  <2>5. CASE result # "eof"
    <3>1. pc'[c] \in {"reap", "threw"}
      BY <2>1, <2>2, <2>5 DEF Goto, TypeOK
    <3> QED
      BY <1>0, <1>1, <2>3, <3>1, ChildTruthCaller
  <2> QED
    BY <2>4, <2>5
<1> QED
  BY <1>2, <1>3, <1>5, <1>6, <1>7, <1>8, <1>9 DEF CallerStep
LEMMA ChildTruthChildStep ==
    ASSUME TypeOK, TargetsOpen, NEW c \in Calls, ChildTruth(c),
           TargetsAboveStdio => ChildStreams(c),
           ChildStep(c) \/ ProgramEnds(c)
    PROVE  ChildTruth(c)' /\ (TargetsAboveStdio => ChildStreams(c)')
<1> DEFINE F == PipeEnd(c, "fail", "write")
<1>0. /\ UNCHANGED <<use, callerVars, held, cfds>>
      /\ FailFd(c)' = FailFd(c) /\ FailFdSpared(c)' = FailFdSpared(c)
      /\ Merged(c)' = Merged(c)
  BY DEF ChildStep, Rewire, CloseAllDescriptors, Chdir, SetCloexec, Exec, ExecFails,
         WriteError, ChildExit, ProgramEnds, FailFd, FailFdSpared, Swept, Merged
<1>01. \A s : Wanted(c, s)' = Wanted(c, s)
  BY <1>0 DEF Wanted, Redirected, Target
<1>1. /\ pc' = pc
      /\ cpc[c] \notin {"unborn", "reaped"}
      /\ FailFd(c) \in Fds \ Stdio
  BY <1>0 DEF callerVars, ChildTruth, ChildStep, Rewire, CloseAllDescriptors, Chdir,
         SetCloexec, Exec, ExecFails, WriteError, ChildExit, ProgramEnds, ChildGoes
<1>2. CASE Rewire(c)
  <2>1. /\ cpc[c] = "forked" /\ cpc'[c] = "wired"
        /\ ctable'[c] = Rewired(c, ctable[c])
    BY <1>2 DEF Rewire, ChildGoes, TypeOK
  <2>2. ForkedTable(c)
    BY <2>1 DEF ChildTruth
  <2>3. ctable'[c][FailFd(c)] = F /\ (TargetsAboveStdio => OwnStreams(c)')
    BY <1>01, <1>1, <2>1, <2>2, RewiredStreams DEF OwnStreams
  <2>4. ChildTruth(c)'
    BY <1>0, <1>1, <2>1, <2>3 DEF ChildTruth, BeforeExec, HasRun
  <2>5. TargetsAboveStdio => ChildStreams(c)'
    BY <2>1, <2>3 DEF ChildStreams
  <2> QED
    BY <2>4, <2>5
<1>3. CASE CloseAllDescriptors(c)
  <2>1. /\ cpc[c] = "wired" /\ cpc'[c] = "swept"
        /\ ctable'[c] = CloseFds(ctable[c], Swept(c))
    BY <1>3 DEF CloseAllDescriptors, ChildGoes, TypeOK
  <2>2. \A fd \in Stdio : fd \in Fds /\ fd \notin Swept(c)
    BY FdFacts DEF Swept, FromFd, Stdio, STDIN_FILENO, STDOUT_FILENO, STDERR_FILENO
  <2>3. ChildStreams(c) => OwnStreams(c)'
    BY <1>01, <2>1, <2>2, FdFacts
       DEF OwnStreams, CloseFds, ChildStreams, Stdio
  <2>4. \A fd \in Fds \ Stdio : fd # FailFd(c) => fd \in Swept(c)
    BY DEF Swept, FromFd, Stdio, STDIN_FILENO, STDOUT_FILENO, STDERR_FILENO, Fds
  <2>5. \A fd \in Fds \ Stdio : fd # FailFd(c) => ctable'[c][fd] = Closed
    BY <2>1, <2>4 DEF CloseFds
  <2>6. FailFdSpared(c) => ctable'[c][FailFd(c)] = F
    BY <1>1, <2>1 DEF FailFdSpared, CloseFds, ChildTruth, BeforeExec
  <2>7. ChildTruth(c)'
    BY <1>0, <1>1, <2>1, <2>6 DEF ChildTruth, BeforeExec, HasRun
  <2>8. ChildStreams(c) => ChildStreams(c)'
    BY <1>0, <2>1, <2>3, <2>5 DEF ChildStreams
  <2> QED
    BY <2>7, <2>8
<1>4. ASSUME cpc[c] \in {"swept", "inCwd", "armed"},
             cpc'[c] \in {"inCwd", "armed", "failing"}, UNCHANGED <<ctable, report>>
      PROVE  ChildTruth(c)' /\ (ChildStreams(c) => ChildStreams(c)')
  <2>1. ChildTruth(c)'
    BY <1>0, <1>1, <1>4 DEF ChildTruth, BeforeExec, HasRun
  <2>2. ChildStreams(c) => ChildStreams(c)'
    BY <1>0, <1>01, <1>4 DEF ChildStreams, OwnStreams
  <2> QED
    BY <2>1, <2>2
<1>5. CASE Chdir(c) \/ SetCloexec(c) \/ ExecFails(c)
  BY <1>4, <1>5 DEF Chdir, SetCloexec, ExecFails, ChildGoes, TypeOK
<1>6. CASE Exec(c)
  <2>1. /\ cpc[c] = "armed" /\ cpc'[c] = "program"
        /\ ctable'[c] = CloseFds(ctable[c], {FailFd(c)})
    BY <1>6 DEF Exec, ChildGoes, CloseFd, TypeOK
  <2>2. ChildStreams(c) => OwnStreams(c)'
    BY <1>01, <1>1, <2>1, FdFacts
       DEF OwnStreams, CloseFds, ChildStreams, Stdio
  <2>3. ChildStreams(c) => \A fd \in Fds \ Stdio : ctable'[c][fd] = Closed
    BY <2>1 DEF CloseFds, ChildStreams
  <2>4. ChildTruth(c)'
    BY <1>0, <1>1, <2>1 DEF ChildTruth, BeforeExec, HasRun
  <2>5. ChildStreams(c) => ChildStreams(c)'
    BY <2>1, <2>2, <2>3 DEF ChildStreams
  <2> QED
    BY <2>4, <2>5
<1>7. CASE WriteError(c)
  <2>1. /\ cpc[c] = "failing" /\ cpc'[c] = "told"
        /\ report'[c] = (report[c] \/ ctable[c][FailFd(c)] = F)
    BY <1>7 DEF WriteError, ChildGoes, TypeOK
  <2> QED
    BY <1>0, <1>1, <2>1 DEF ChildTruth, ChildStreams, BeforeExec, HasRun
<1>8. CASE ChildExit(c)
  <2>1. cpc[c] = "told" /\ cpc'[c] = "exited" /\ report' = report
    BY <1>8 DEF ChildExit, ChildGoes, TypeOK
  <2> QED
    BY <1>0, <1>1, <2>1 DEF ChildTruth, ChildStreams, BeforeExec, HasRun
<1>9. CASE ProgramEnds(c)
  <2>1. cpc[c] = "program" /\ cpc'[c] = "ended"
    BY <1>9 DEF ProgramEnds, ChildGoes, TypeOK
  <2> QED
    BY <1>0, <1>1, <2>1 DEF ChildTruth, ChildStreams, BeforeExec, HasRun
<1> QED
  BY <1>2, <1>3, <1>5, <1>6, <1>7, <1>8, <1>9 DEF ChildStep

(* A step of one call leaves the places of the others alone.               *)
LEMMA OthersUnchanged ==
    ASSUME TypeOK, NEW c \in Calls, NEW d \in Calls, d # c,
           \/ BindStdin(c) \/ CallerStep(c) \/ DropHandle(c)
           \/ ChildStep(c) \/ ProgramEnds(c)
    PROVE  /\ pc'[d] = pc[d] /\ todo'[d] = todo[d] /\ fds'[d] = fds[d]
           /\ cpc'[d] = cpc[d] /\ ctable'[d] = ctable[d] /\ cfds'[d] = cfds[d]
           /\ report'[d] = report[d]
<1>1. ASSUME NEW p, CreatePipe(c, p) PROVE fds'[d] = fds[d]
  BY <1>1 DEF CreatePipe, TypeOK
<1>2. ASSUME NEW s, RedirectOrPipe(c, s) PROVE fds'[d] = fds[d]
  BY <1>1, <1>2 DEF RedirectOrPipe, TypeOK
<1>3. ASSUME NEW label, NEW ends, Goto(c, label, ends)
      PROVE  pc'[d] = pc[d] /\ todo'[d] = todo[d]
  BY <1>3 DEF Goto, TypeOK
<1>4. CASE BindStdin(c) \/ BindStdout(c) \/ BindStderr(c)
  BY <1>2, <1>3, <1>4 DEF BindStdin, BindStdout, BindStderr, Bind, BindFails, childVars
<1>5. CASE CloseNext(c)
  BY <1>5 DEF CloseNext, childVars, TypeOK
<1>6. CASE CreateFailPipe(c)
  BY <1>1, <1>3, <1>6 DEF CreateFailPipe, childVars
<1>7. CASE Fork(c)
  BY <1>3, <1>7 DEF Fork, TypeOK
<1>8. CASE ReadFully(c)
  <2>1. PICK result \in ReadFullyResults(c) :
          CASE result = "eof"   -> Goto(c, "live", NearEnds(c))
            [] result = "errno" -> Goto(c, "reap", <<>>)
            [] result = "error" -> Goto(c, "threw", RollbackEnds(c))
    BY <1>8 DEF ReadFully
  <2>2. result \in {"eof", "errno", "error"}
    BY DEF ReadFullyResults
  <2>3. pc'[d] = pc[d] /\ todo'[d] = todo[d]
    BY <1>3, <2>1, <2>2
  <2> QED
    BY <1>8, <2>3 DEF ReadFully, childVars
<1>9. CASE ForkFails(c) \/ DropHandle(c)
  BY <1>3, <1>9 DEF ForkFails, DropHandle, childVars
<1>10. CASE ReapFailedChild(c)
  BY <1>3, <1>10 DEF ReapFailedChild, TypeOK
<1>11. CASE ChildStep(c) \/ ProgramEnds(c)
  BY <1>11 DEF ChildStep, Rewire, CloseAllDescriptors, Chdir, SetCloexec, Exec, ExecFails,
         WriteError, ChildExit, ProgramEnds, ChildGoes, callerVars, TypeOK
<1> QED
  BY <1>4, <1>5, <1>6, <1>7, <1>8, <1>9, <1>10, <1>11 DEF CallerStep

HoldInv == OwnershipInv /\ \A c \in Calls : CallerHolds(c)

TruthInv ==
    /\ HoldInv
    /\ StdioHeld /\ TargetsHeld
    /\ \A c \in Calls : ChildTruth(c) /\ (TargetsAboveStdio => ChildStreams(c))

LEMMA HoldStep ==
    ASSUME HoldInv, TargetsSpared, [Next]_vars
    PROVE  HoldInv'
<1>0. TypeOK /\ Ownership /\ use' = use
  BY UseFixed DEF HoldInv, OwnershipInv
<1>1. OwnershipInv'
  BY <1>0, TypeStep, OwnershipStep DEF OwnershipInv
<1>2. ASSUME NEW d \in Calls PROVE CallerHolds(d)'
  <2>1. CallerHolds(d)
    BY DEF HoldInv
  <2>2. ASSUME pc'[d] = pc[d], todo'[d] = todo[d], fds'[d] = fds[d]
        PROVE  CallerHolds(d)'
    BY <1>0, <2>1, <2>2, CallerHoldsFrame
  <2>3. ASSUME NEW c \in Calls, d # c,
               \/ BindStdin(c) \/ CallerStep(c) \/ DropHandle(c)
               \/ ChildStep(c) \/ ProgramEnds(c)
        PROVE  CallerHolds(d)'
    BY <1>0, <2>2, <2>3, OthersUnchanged
  <2>4. CASE BindStdin(d) \/ CallerStep(d) \/ DropHandle(d)
    BY <1>0, <2>1, <2>4, CallerHoldsStep
  <2>5. CASE ChildStep(d) \/ ProgramEnds(d)
    BY <2>2, <2>5 DEF ChildStep, Rewire, CloseAllDescriptors, Chdir, SetCloexec, Exec,
         ExecFails, WriteError, ChildExit, ProgramEnds, callerVars
  <2>6. CASE \/ \E f \in use.userFiles : UserOpen(f)
             \/ \E fd \in Fds : UserClose(fd)
    BY <2>2, <2>6 DEF UserOpen, UserClose
  <2>7. CASE UNCHANGED vars
    BY <2>2, <2>7 DEF vars
  <2> QED
    BY <2>3, <2>4, <2>5, <2>6, <2>7 DEF Next, AllDone
<1> QED
  BY <1>1, <1>2 DEF HoldInv

LEMMA HoldInvariant == Spec /\ []TargetsSpared => []HoldInv
<1>1. Init => HoldInv
  BY TypeInit, OwnershipInit DEF Init, HoldInv, OwnershipInv, CallerHolds
<1>2. HoldInv /\ TargetsSpared /\ [Next]_vars => HoldInv'
  BY HoldStep
<1> QED
  BY <1>1, <1>2, PTL DEF Spec

LEMMA TruthInit == Init => TruthInv
<1> SUFFICES ASSUME Init PROVE TruthInv
  OBVIOUS
<1>1. HoldInv
  BY TypeInit, OwnershipInit DEF Init, HoldInv, OwnershipInv, CallerHolds
<1>2. StdioHeld /\ TargetsHeld
  BY DEF Init, StdioHeld, TargetsHeld
<1>3. ASSUME NEW c \in Calls PROVE ChildTruth(c) /\ ChildStreams(c)
  BY DEF Init, ChildTruth, ChildStreams, BeforeExec
<1> QED
  BY <1>1, <1>2, <1>3 DEF TruthInv

LEMMA TruthStep ==
    ASSUME TruthInv, TargetsSpared, TargetsOpen, [Next]_vars
    PROVE  TruthInv'
<1>0. use' = use /\ (TargetsAboveStdio' => TargetsAboveStdio)
  BY UseFixed DEF TargetsAboveStdio, Redirected, Target
<1>1. TypeOK /\ Ownership /\ HoldInv /\ StdioHeld /\ TargetsHeld
  BY DEF TruthInv, HoldInv, OwnershipInv
<1>2. HoldInv' /\ StdioHeld' /\ TargetsHeld'
  BY <1>1, HoldStep, StdioStep, TargetsStep
<1> DEFINE Child(d) == ChildTruth(d) /\ (TargetsAboveStdio => ChildStreams(d))
           Goal(d) == ChildTruth(d)' /\ (TargetsAboveStdio => ChildStreams(d)')
<1>3. ASSUME NEW d \in Calls PROVE Goal(d)
  <2>1. Child(d) /\ CallerHolds(d)
    BY <1>1 DEF TruthInv, HoldInv
  <2>2. ASSUME pc'[d] = pc[d], cpc'[d] = cpc[d], ctable'[d] = ctable[d],
               cfds'[d] = cfds[d], report'[d] = report[d]
        PROVE  Goal(d)
    BY <1>0, <2>1, <2>2, ChildFrame
  <2>3. ASSUME NEW c \in Calls, d # c,
               \/ BindStdin(c) \/ CallerStep(c) \/ DropHandle(c)
               \/ ChildStep(c) \/ ProgramEnds(c)
        PROVE  Goal(d)
    BY <1>1, <2>2, <2>3, OthersUnchanged
  <2>4. CASE BindStdin(d) \/ CallerStep(d) \/ DropHandle(d)
    BY <1>1, <2>1, <2>4, ChildTruthCallerStep
  <2>5. CASE ChildStep(d) \/ ProgramEnds(d)
    BY <1>1, <2>1, <2>5, ChildTruthChildStep
  <2>6. CASE \/ \E f \in use.userFiles : UserOpen(f)
             \/ \E fd \in Fds : UserClose(fd)
    BY <2>2, <2>6 DEF UserOpen, UserClose, childVars
  <2>7. CASE UNCHANGED vars
    BY <2>2, <2>7 DEF vars
  <2> QED
    BY <2>3, <2>4, <2>5, <2>6, <2>7 DEF Next, AllDone
<1> QED
  BY <1>0, <1>2, <1>3 DEF TruthInv

LEMMA TruthInvariant == Spec /\ TargetsOpen /\ []TargetsSpared => []TruthInv
<1>1. TargetsOpen /\ [Next]_vars => TargetsOpen'
  BY UseFixed DEF TargetsOpen, Redirected, Target
<1>2. TruthInv /\ TargetsSpared /\ TargetsOpen /\ [Next]_vars => TruthInv'
  BY TruthStep
<1> QED
  BY <1>1, <1>2, TruthInit, PTL DEF Spec

(* A handle stands for a program that runs, for every number of concurrent *)
(* calls and every user who has his redirect targets open: the end of file *)
(* the caller waits for can come from the exec only, provided fail_fd is   *)
(* not one of the two numbers that close_all_descriptors closes blindly.   *)
THEOREM HandleMeansProgram ==
    Spec /\ TargetsOpen /\ []TargetsSpared => []SuccessIsTruthful
<1>1. TruthInv => SuccessIsTruthful
  BY DEF TruthInv, SuccessIsTruthful, ChildTruth
<1> QED
  BY <1>1, TruthInvariant, PTL

(* And that program has its own three streams and nothing else, although   *)
(* its fork copied the descriptors of every other call and of the user --  *)
(* unless a target is itself one of the parent's standard streams.         *)
THEOREM ProgramIsIsolated ==
    Spec /\ TargetsOpen /\ TargetsAboveStdio /\ []TargetsSpared => []ProgramHasItsStreams
<1>1. TargetsAboveStdio /\ [Next]_vars => TargetsAboveStdio'
  BY UseFixed DEF TargetsAboveStdio, Redirected, Target
<1>2. TruthInv /\ TargetsAboveStdio => ProgramHasItsStreams
  BY DEF TruthInv, ChildStreams, OwnStreams, ProgramHasItsStreams
<1> QED
  BY <1>1, <1>2, TruthInvariant, PTL DEF Spec

--------------------------------------------------------------------------------
(* Duty: what a caller still has open is what it needs where it is and     *)
(* what it is about to close.  So a rollback and a destructor close all    *)
(* they should, a handle has its ends, and a call that threw has no child. *)

(* The ends a caller has a number for; those of them that start() opened.  *)
BoundEnds(c) == {pe \in EndNames : fds[c][pe[1]][pe[2]] # FD_INVALID}
OpenEnds(c) == {pe \in BoundEnds(c) : IsPiped(c, pe[1])}

(* The ends of a handle; those of the pipes with these names that exist.   *)
OwnEnds(c) ==
    {<<"in", "write">>, <<"out", "read">>} \cup (IF Merged(c) THEN {} ELSE {<<"err", "read">>})
MadeEnds(c, names) ==
    {pe \in names \X PipeEnds : IsPiped(c, pe[1]) /\ (pe[1] = "err" => ~Merged(c))}

Kept(c) ==
    CASE pc[c] \in {"idle", "dropped"} -> {}
      [] pc[c] = "bindOut" -> MadeEnds(c, {"in"})
      [] pc[c] = "bindErr" -> MadeEnds(c, {"in", "out"})
      [] pc[c] = "failPipe" -> MadeEnds(c, Streams)
      [] pc[c] = "fork" -> MadeEnds(c, Pipes)
      [] pc[c] \in {"read", "reap"} -> MadeEnds(c, Streams) \cup {<<"fail", "read">>}
      [] pc[c] = "live" -> OwnEnds(c)
      [] pc[c] = "threw" -> {"fail"} \X PipeEnds

CallerOwes(c) ==
    /\ OpenEnds(c) \subseteq Kept(c) \cup EndsOf(todo[c])
    /\ pc[c] \in {"read", "live"} => OwnEnds(c) \subseteq BoundEnds(c)
    /\ pc[c] \in {"idle", "reap"} => todo[c] = <<>>
    /\ pc[c] = "live" => EndsOf(todo[c]) \cap OwnEnds(c) = {}
    /\ pc[c] = "dropped" => EndsOf(todo[c]) \subseteq EndsOf(HandleEnds)
    /\ pc[c] = "bindErr" => ~Merged(c)

(* Before the fork there is no child, and after a throw there is none.     *)
Childless(c) ==
    /\ pc[c] \in BeforeFork => cpc[c] = "unborn"
    /\ pc[c] = "threw" => cpc[c] \in {"unborn", "reaped"}

(* The parent has a pipe end only under the number its call remembers.     *)
TableKnown ==
    \A c \in Calls : \A p \in Pipes : \A e \in PipeEnds : \A fd \in Fds :
        table[fd] = PipeEnd(c, p, e) => IsPiped(c, p) /\ fds[c][p][e] = fd

(* What the lists of ends to close have in them.                           *)
LEMMA ClosedEnds ==
    ASSUME NEW c \in Calls
    PROVE  /\ EndsOf(<<>>) = {}
           /\ EndsOf(<<<<"fail", "write">>>>) = {<<"fail", "write">>}
           /\ EndsOf(BothEnds("in")) = {"in"} \X PipeEnds
           /\ EndsOf(BothEnds("in") \o BothEnds("out")) = {"in", "out"} \X PipeEnds
           /\ EndsOf(RollbackEnds(c)) = {pe \in Streams \X PipeEnds : IsPiped(c, pe[1])}
           /\ EndsOf(NearEnds(c)) =
                 {<<"fail", "read">>}
                 \cup {pe \in {<<"in", "read">>, <<"out", "write">>, <<"err", "write">>} :
                          IsPiped(c, pe[1]) /\ (pe[1] = "err" => ~Merged(c))}
           /\ EndsOf(HandleEnds) = {<<"in", "write">>, <<"out", "read">>, <<"err", "read">>}
<1> DEFINE S == EndNames
<1>1. \A s \in Streams : IsPiped(c, s) <=> ~Redirected(c, s)
  BY DEF IsPiped
<1>2. /\ "in" \in Streams /\ "out" \in Streams /\ "err" \in Streams
      /\ "in" \in Pipes /\ "out" \in Pipes /\ "err" \in Pipes /\ "fail" \in Pipes
      /\ "read" \in PipeEnds /\ "write" \in PipeEnds
      /\ PipeEnds = {"read", "write"} /\ Streams = {"in", "out", "err"}
  BY DEF Streams, Pipes, PipeEnds
<1>3. \A p \in Pipes : BothEnds(p) \in Seq(S) /\ EndsOf(BothEnds(p)) = {<<p, "read">>, <<p, "write">>}
  BY EndSequences, EndsOfSequences DEF BothEnds
<1>4. <<>> \in Seq(S) /\ EndsOf(<<>>) = {}
  BY EndsOfSequences
<1>5. \A p \in Pipes, e \in PipeEnds : <<<<p, e>>>> \in Seq(S) /\ EndsOf(<<<<p, e>>>>) = {<<p, e>>}
  BY EndsOfSequences DEF EndNames
<1>6. ASSUME NEW s \in Seq(S), NEW t \in Seq(S)
      PROVE  s \o t \in Seq(S) /\ EndsOf(s \o t) = EndsOf(s) \cup EndsOf(t)
  BY EndsOfSequences
<1>7. ASSUME NEW s \in Streams, NEW x \in Seq(S)
      PROVE  /\ PipedOnly(c, s, x) \in Seq(S)
             /\ EndsOf(PipedOnly(c, s, x)) = IF IsPiped(c, s) THEN EndsOf(x) ELSE {}
  BY <1>1, <1>4 DEF PipedOnly
<1>8. EndsOf(BothEnds("in") \o BothEnds("out")) = {"in", "out"} \X PipeEnds
  <2>1. EndsOf(BothEnds("in") \o BothEnds("out")) = EndsOf(BothEnds("in")) \cup EndsOf(BothEnds("out"))
    BY <1>2, <1>3, <1>6
  <2> QED
    BY <1>2, <1>3, <2>1
<1>9. EndsOf(RollbackEnds(c)) = {pe \in Streams \X PipeEnds : IsPiped(c, pe[1])}
  <2> DEFINE b(p) == PipedOnly(c, p, BothEnds(p))
             ends(p) == IF IsPiped(c, p) THEN {<<p, "read">>, <<p, "write">>} ELSE {}
  <2>1. RollbackEnds(c) = (b("in") \o b("out")) \o b("err")
    BY DEF RollbackEnds
  <2>2. ASSUME NEW p \in Streams PROVE b(p) \in Seq(S) /\ EndsOf(b(p)) = ends(p)
    BY <1>2, <1>3, <1>7 DEF Pipes
  <2> HIDE DEF b
  <2>3. b("in") \o b("out") \in Seq(S)
        /\ EndsOf(b("in") \o b("out")) = EndsOf(b("in")) \cup EndsOf(b("out"))
    BY <1>2, <1>6, <2>2
  <2>4. EndsOf(RollbackEnds(c)) = (EndsOf(b("in")) \cup EndsOf(b("out"))) \cup EndsOf(b("err"))
    BY <1>2, <1>6, <2>1, <2>2, <2>3
  <2>5. EndsOf(RollbackEnds(c)) = (ends("in") \cup ends("out")) \cup ends("err")
    BY <1>2, <2>2, <2>4
  <2> QED
    BY <1>2, <2>5
<1>10. EndsOf(NearEnds(c)) =
          {<<"fail", "read">>}
          \cup {pe \in {<<"in", "read">>, <<"out", "write">>, <<"err", "write">>} :
                   IsPiped(c, pe[1]) /\ (pe[1] = "err" => ~Merged(c))}
  <2> DEFINE f == <<<<"fail", "read">>>>
             b(p, e) == PipedOnly(c, p, <<<<p, e>>>>)
             end(p, e) == IF IsPiped(c, p) THEN {<<p, e>>} ELSE {}
             last == IF Merged(c) THEN <<>> ELSE b("err", "write")
             lastEnd == IF Merged(c) THEN {} ELSE end("err", "write")
  <2>1. NearEnds(c) = ((f \o b("in", "read")) \o b("out", "write")) \o last
    BY DEF NearEnds
  <2>2. ASSUME NEW p \in Streams, NEW e \in PipeEnds
        PROVE  b(p, e) \in Seq(S) /\ EndsOf(b(p, e)) = end(p, e)
    BY <1>5, <1>7 DEF Pipes
  <2>3. f \in Seq(S) /\ EndsOf(f) = {<<"fail", "read">>}
    BY <1>2, <1>5
  <2> HIDE DEF b, f
  <2>4. last \in Seq(S) /\ EndsOf(last) = lastEnd
    BY <1>2, <1>4, <2>2
  <2>5. b("in", "read") \in Seq(S) /\ b("out", "write") \in Seq(S)
    BY <1>2, <2>2
  <2> HIDE DEF last
  <2>6. f \o b("in", "read") \in Seq(S)
        /\ EndsOf(f \o b("in", "read")) = EndsOf(f) \cup EndsOf(b("in", "read"))
    BY <1>6, <2>3, <2>5
  <2> DEFINE two == f \o b("in", "read")
  <2> HIDE DEF two
  <2>7. two \o b("out", "write") \in Seq(S)
        /\ EndsOf(two \o b("out", "write")) = EndsOf(two) \cup EndsOf(b("out", "write"))
    BY <1>6, <2>5, <2>6 DEF two
  <2>8. EndsOf(NearEnds(c)) = EndsOf(two \o b("out", "write")) \cup EndsOf(last)
    BY <1>6, <2>1, <2>4, <2>7 DEF two
  <2>9. EndsOf(NearEnds(c)) =
           (({<<"fail", "read">>} \cup end("in", "read")) \cup end("out", "write")) \cup lastEnd
    <3>1. EndsOf(b("in", "read")) = end("in", "read") /\ EndsOf(b("out", "write")) = end("out", "write")
      BY <1>2, <2>2
    <3> HIDE DEF end, lastEnd
    <3> QED
      BY <2>3, <2>4, <2>6, <2>7, <2>8, <3>1 DEF two
  <2> QED
    BY <2>9
<1>11. EndsOf(HandleEnds) = {<<"in", "write">>, <<"out", "read">>, <<"err", "read">>}
  <2>1. \A x, y, z : EndsOf(<<x, y, z>>) = {x, y, z}
    BY EndsOfSequences
  <2> QED
    BY <2>1, Zenon DEF HandleEnds
<1>12. EndsOf(<<<<"fail", "write">>>>) = {<<"fail", "write">>}
  BY <1>2, <1>5
<1>13. EndsOf(BothEnds("in")) = {"in"} \X PipeEnds
  BY <1>2, <1>3
<1> QED
  BY <1>4, <1>8, <1>9, <1>10, <1>11, <1>12, <1>13, Zenon

(* close_fd removes the end from the table and from what the call          *)
(* remembers.                                                              *)
LEMMA CloseNextEnds ==
    ASSUME TypeOK, NEW c \in Calls, CloseNext(c)
    PROVE  /\ todo[c] \in Seq(EndNames) /\ todo[c] # <<>> /\ Head(todo[c]) \in EndNames
           /\ todo'[c] = Tail(todo[c]) /\ pc' = pc /\ cpc' = cpc /\ use' = use
           /\ \A pe \in EndNames : fds'[c][pe[1]][pe[2]] =
                 IF pe = Head(todo[c]) THEN FD_INVALID ELSE fds[c][pe[1]][pe[2]]
           /\ table' = CloseFds(table, {fds[c][Head(todo[c])[1]][Head(todo[c])[2]]})
<1> DEFINE h == Head(todo[c])
<1>1. todo[c] \in Seq(EndNames) /\ todo[c] # <<>> /\ h \in EndNames
  <2>1. todo[c] \in Seq(EndNames) /\ todo[c] # <<>>
    BY DEF TypeOK, EndNames, CloseNext
  <2> QED
    BY <2>1
<1>2. /\ todo' = [todo EXCEPT ![c] = Tail(@)] /\ pc' = pc /\ cpc' = cpc /\ use' = use
      /\ fds' = [fds EXCEPT ![c][h[1]][h[2]] = FD_INVALID]
      /\ table' = CloseFds(table, {fds[c][h[1]][h[2]]})
  BY DEF CloseNext, CloseFd, childVars
<1> HIDE DEF h
<1>3. h[1] \in Pipes /\ h[2] \in PipeEnds /\ h = <<h[1], h[2]>>
  BY <1>1 DEF EndNames
<1>4. ASSUME NEW pe \in EndNames
      PROVE  fds'[c][pe[1]][pe[2]] = IF pe = h THEN FD_INVALID ELSE fds[c][pe[1]][pe[2]]
  <2>1. pe[1] \in Pipes /\ pe[2] \in PipeEnds /\ pe = <<pe[1], pe[2]>>
    BY DEF EndNames
  <2>2. fds[c] \in [Pipes -> [PipeEnds -> FdOrInvalid]]
    BY DEF TypeOK
  <2>3. fds'[c] = [fds[c] EXCEPT ![h[1]][h[2]] = FD_INVALID]
    BY <1>2 DEF TypeOK
  <2>4. CASE pe = h
    BY <1>3, <2>2, <2>3, <2>4
  <2>5. CASE pe[1] # h[1]
    BY <1>3, <2>1, <2>2, <2>3, <2>5
  <2>6. CASE pe[1] = h[1] /\ pe[2] # h[2]
    BY <1>3, <2>1, <2>2, <2>3, <2>6
  <2> QED
    BY <1>3, <2>1, <2>4, <2>5, <2>6
<1>5. todo'[c] = Tail(todo[c])
  BY <1>2 DEF TypeOK
<1> QED
  BY <1>1, <1>2, <1>4, <1>5 DEF h

(* A pipe that is about to be made is not there yet.                       *)
LEMMA PipeIsNew ==
    ASSUME NEW c \in Calls, CallerOwes(c), NEW p \in Pipes, IsPiped(c, p),
           \/ At(c, "idle") /\ p = "in"
           \/ At(c, "bindOut") /\ p = "out"
           \/ At(c, "bindErr") /\ p = "err"
           \/ At(c, "failPipe") /\ p = "fail"
    PROVE  \A e \in PipeEnds : fds[c][p][e] = FD_INVALID
<1>1. EndsOf(todo[c]) = {}
  BY EndsOfSequences DEF At
<1>2. \A e \in PipeEnds : <<p, e>> \in EndNames /\ <<p, e>>[1] = p /\ <<p, e>>[2] = e
  BY DEF EndNames
<1>3. \A e \in PipeEnds : <<p, e>> \notin Kept(c)
  BY DEF Kept, At, MadeEnds, Streams
<1>4. \A e \in PipeEnds : <<p, e>> \notin OpenEnds(c)
  BY <1>1, <1>3 DEF CallerOwes
<1> QED
  BY <1>2, <1>4 DEF OpenEnds, BoundEnds

LEMMA KnownStep ==
    ASSUME TypeOK, Ownership, TableKnown, \A c \in Calls : CallerOwes(c), [Next]_vars
    PROVE  TableKnown'
<1>. \A c, p : IsPiped(c, p)' <=> IsPiped(c, p)
  BY UseFixed, TargetsFixed
<1>0. ASSUME UNCHANGED <<table, fds>> PROVE TableKnown'
  BY <1>0 DEF TableKnown
<1>1. ASSUME NEW c \in Calls, CloseNext(c) PROVE TableKnown'
  <2> DEFINE h == Head(todo[c])
             n == fds[c][h[1]][h[2]]
  <2>1. /\ h \in EndNames /\ table' = CloseFds(table, {n})
        /\ \A pe \in EndNames : fds'[c][pe[1]][pe[2]] = IF pe = h THEN FD_INVALID ELSE fds[c][pe[1]][pe[2]]
    BY <1>1, CloseNextEnds
  <2>2. \A d \in Calls \ {c} : fds'[d] = fds[d]
    BY <1>1 DEF CloseNext, TypeOK
  <2> HIDE DEF h
  <2>3. ASSUME NEW d \in Calls, NEW p \in Pipes, NEW e \in PipeEnds, NEW fd \in Fds,
               table'[fd] = PipeEnd(d, p, e)
        PROVE  IsPiped(d, p) /\ fds'[d][p][e] = fd
    <3>1. fd # n /\ table[fd] = PipeEnd(d, p, e)
      BY <2>1, <2>3, PipeEndNotFile DEF CloseFds
    <3>2. IsPiped(d, p) /\ fds[d][p][e] = fd
      BY <3>1 DEF TableKnown
    <3>3. CASE d = c
      <4>1. <<p, e>> \in EndNames /\ <<p, e>>[1] = p /\ <<p, e>>[2] = e
        BY DEF EndNames
      <4>2. <<p, e>> # h
        BY <3>1, <3>2, <3>3, <4>1
      <4> QED
        BY <2>1, <3>2, <3>3, <4>1, <4>2
    <3>4. CASE d # c
      BY <2>2, <3>2, <3>4
    <3> QED
      BY <3>3, <3>4
  <2> QED
    BY <2>3 DEF TableKnown
<1>2. ASSUME NEW c \in Calls, NEW p \in Pipes, IsPiped(c, p), CreatePipe(c, p),
             \A e \in PipeEnds : fds[c][p][e] = FD_INVALID
      PROVE  TableKnown'
  <2>1. PICK r \in Fds, w \in Fds :
          /\ NewPipe(table, r, w)
          /\ table' = [table EXCEPT ![r] = PipeEnd(c, p, "read"), ![w] = PipeEnd(c, p, "write")]
          /\ fds' = [fds EXCEPT ![c][p] = [read |-> r, write |-> w]]
    BY <1>2 DEF CreatePipe
  <2>2. table[r] = Closed /\ table[w] = Closed /\ r # w
    BY <2>1 DEF NewPipe, LowestFree, Fds
  <2>3. /\ table'[r] = PipeEnd(c, p, "read") /\ table'[w] = PipeEnd(c, p, "write")
        /\ \A fd \in Fds \ {r, w} : table'[fd] = table[fd]
    BY <2>1, <2>2 DEF TypeOK, Tables
  <2>4. /\ fds'[c][p]["read"] = r /\ fds'[c][p]["write"] = w
        /\ \A d \in Calls, q \in Pipes : <<d, q>> # <<c, p>> => fds'[d][q] = fds[d][q]
    BY <2>1 DEF TypeOK
  <2>5. ASSUME NEW d \in Calls, NEW q \in Pipes, NEW e \in PipeEnds, NEW fd \in Fds,
               table'[fd] = PipeEnd(d, q, e)
        PROVE  IsPiped(d, q) /\ fds'[d][q][e] = fd
    <3>1. CASE fd \in {r, w}
      BY <1>2, <2>3, <2>4, <2>5, <3>1, PipeEndInjective
    <3>2. CASE fd \notin {r, w}
      <4>1. table[fd] = PipeEnd(d, q, e)
        BY <2>3, <2>5, <3>2
      <4>2. IsPiped(d, q) /\ fds[d][q][e] = fd
        BY <4>1 DEF TableKnown
      <4>3. fd # FD_INVALID
        BY FdFacts
      <4> QED
        BY <1>2, <2>4, <4>2, <4>3
    <3> QED
      BY <3>1, <3>2
  <2> QED
    BY <2>5 DEF TableKnown
<1>3. ASSUME \/ \E f \in use.userFiles : UserOpen(f)
             \/ \E fd \in Fds : UserClose(fd)
      PROVE  TableKnown'
  <2>1. fds' = fds
    BY <1>3 DEF UserOpen, UserClose
  <2>2. ASSUME NEW d \in Calls, NEW q \in Pipes, NEW e \in PipeEnds, NEW fd \in Fds,
               table'[fd] = PipeEnd(d, q, e)
        PROVE  table[fd] = PipeEnd(d, q, e)
    <3>1. ASSUME NEW f \in use.userFiles, UserOpen(f) PROVE table[fd] = PipeEnd(d, q, e)
      <4>1. PICK n \in Fds : table' = [table EXCEPT ![n] = f]
        BY <3>1 DEF UserOpen
      <4>2. f \in Files
        BY UseType DEF TypeOK
      <4> QED
        BY <2>2, <4>1, <4>2, PipeEndNotFile DEF TypeOK, Tables
    <3>2. ASSUME NEW n \in Fds, UserClose(n) PROVE table[fd] = PipeEnd(d, q, e)
      <4>1. table' = CloseFds(table, {n})
        BY <3>2 DEF UserClose, CloseFd
      <4> QED
        BY <2>2, <4>1, PipeEndNotFile DEF CloseFds
    <3> QED
      BY <1>3, <3>1, <3>2
  <2> QED
    BY <2>1, <2>2 DEF TableKnown
<1>31. ASSUME NEW c \in Calls, NEW s \in Streams, Redirected(c, s),
              fds' = [fds EXCEPT ![c][s] = [e \in PipeEnds |-> Target(c, s)]], table' = table
       PROVE  TableKnown'
  <2>1. ~IsPiped(c, s) /\ \A d \in Calls, q \in Pipes : <<d, q>> # <<c, s>> => fds'[d][q] = fds[d][q]
    BY <1>31 DEF IsPiped, TypeOK
  <2> QED
    BY <1>31, <2>1 DEF TableKnown
<1>4. ASSUME NEW c \in Calls, BindStdin(c) \/ BindStdout(c) \/ BindStderr(c) \/ CreateFailPipe(c)
      PROVE  TableKnown'
  <2>0. /\ "in" \in Streams /\ "out" \in Streams /\ "err" \in Streams
        /\ "in" \in Pipes /\ "out" \in Pipes /\ "err" \in Pipes /\ "fail" \in Pipes
    BY DEF Streams, Pipes
  <2>1. ASSUME NEW s \in Streams, NEW from, NEW to, Bind(c, s, from, to)
        PROVE  TableKnown' \/ (IsPiped(c, s) /\ CreatePipe(c, s) /\ At(c, from))
    <3>1. CASE Redirected(c, s)
      BY <1>31, <2>1, <3>1 DEF Bind, RedirectOrPipe
    <3>2. CASE ~Redirected(c, s)
      BY <2>1, <3>2 DEF Bind, RedirectOrPipe, IsPiped
    <3> QED
      BY <3>1, <3>2
  <2>2. ASSUME NEW s, NEW from, NEW undo, BindFails(c, s, from, undo) PROVE UNCHANGED <<table, fds>>
    BY <2>2 DEF BindFails
  <2>3. \/ At(c, "idle") /\ CreatePipe(c, "in") /\ IsPiped(c, "in")
        \/ At(c, "bindOut") /\ CreatePipe(c, "out") /\ IsPiped(c, "out")
        \/ At(c, "bindErr") /\ CreatePipe(c, "err") /\ IsPiped(c, "err")
        \/ At(c, "failPipe") /\ CreatePipe(c, "fail") /\ IsPiped(c, "fail")
        \/ UNCHANGED <<table, fds>>
        \/ TableKnown'
    <3>1. IsPiped(c, "fail")
      BY DEF IsPiped, Streams
    <3> QED
      BY <1>4, <2>0, <2>1, <2>2, <3>1 DEF BindStdin, BindStdout, BindStderr, CreateFailPipe
  <2>4. ASSUME NEW p \in Pipes, CreatePipe(c, p), IsPiped(c, p),
               \A e \in PipeEnds : fds[c][p][e] = FD_INVALID
        PROVE  TableKnown'
    BY <1>2, <2>4
  <2> QED
    BY <1>0, <2>0, <2>3, <2>4, PipeIsNew
<1>5. ASSUME NEW c \in Calls, CallerStep(c) \/ DropHandle(c) PROVE TableKnown'
  <2>1. CASE Fork(c) \/ ForkFails(c) \/ ReadFully(c) \/ ReapFailedChild(c) \/ DropHandle(c)
    BY <1>0, <2>1 DEF Fork, ForkFails, ReadFully, ReapFailedChild, DropHandle
  <2> QED
    BY <1>1, <1>4, <1>5, <2>1 DEF CallerStep
<1>6. ASSUME NEW c \in Calls, ChildStep(c) \/ ProgramEnds(c) PROVE TableKnown'
  BY <1>0, <1>6 DEF ChildStep, Rewire, CloseAllDescriptors, Chdir, SetCloexec, Exec,
                    ExecFails, WriteError, ChildExit, ProgramEnds, callerVars
<1>7. CASE UNCHANGED vars
  BY <1>0, <1>7 DEF vars
<1> QED
  BY <1>3, <1>4, <1>5, <1>6, <1>7 DEF Next, AllDone

--------------------------------------------------------------------------------
LEMMA OwesFrame ==
    ASSUME NEW d \in Calls, use' = use, pc'[d] = pc[d], todo'[d] = todo[d], fds'[d] = fds[d]
    PROVE  CallerOwes(d) => CallerOwes(d)'
<1>1. Merged(d)' = Merged(d) /\ \A p : IsPiped(d, p)' <=> IsPiped(d, p)
  BY TargetsFixed
<1>2. /\ BoundEnds(d)' = BoundEnds(d) /\ OpenEnds(d)' = OpenEnds(d)
      /\ OwnEnds(d)' = OwnEnds(d) /\ \A names : MadeEnds(d, names)' = MadeEnds(d, names)
  BY <1>1 DEF BoundEnds, OpenEnds, OwnEnds, MadeEnds
<1>3. Kept(d)' = Kept(d)
  BY <1>2 DEF Kept
<1> QED
  BY <1>1, <1>2, <1>3 DEF CallerOwes

LEMMA ChildlessFrame ==
    ASSUME NEW d \in Calls, pc'[d] = pc[d], cpc'[d] = cpc[d]
    PROVE  Childless(d) => Childless(d)'
BY DEF Childless

(* An end that is closed is struck off both lists.                         *)
LEMMA OwesClose ==
    ASSUME TypeOK, Ownership, NEW c \in Calls, CallerHolds(c), CallerOwes(c), CloseNext(c)
    PROVE  CallerOwes(c)'
<1> DEFINE h == Head(todo[c])
<1>1. /\ todo[c] \in Seq(EndNames) /\ todo[c] # <<>> /\ h \in EndNames
      /\ todo'[c] = Tail(todo[c]) /\ pc' = pc /\ use' = use
      /\ \A pe \in EndNames : fds'[c][pe[1]][pe[2]] =
            IF pe = h THEN FD_INVALID ELSE fds[c][pe[1]][pe[2]]
  BY CloseNextEnds
<1>2. EndsOf(todo[c]) = {h} \cup EndsOf(todo'[c])
  BY <1>1, EndsOfSequences
<1> HIDE DEF h
<1>0. Merged(c)' = Merged(c) /\ \A p : IsPiped(c, p)' <=> IsPiped(c, p)
  BY <1>1, TargetsFixed
<1>3. BoundEnds(c)' = BoundEnds(c) \ {h} /\ OpenEnds(c)' = OpenEnds(c) \ {h}
  <2>1. BoundEnds(c)' = BoundEnds(c) \ {h}
    BY <1>1 DEF BoundEnds
  <2> QED
    BY <1>0, <2>1 DEF OpenEnds
<1>4. Kept(c)' = Kept(c) /\ OwnEnds(c)' = OwnEnds(c)
  <2>1. \A names : MadeEnds(c, names)' = MadeEnds(c, names)
    BY <1>0 DEF MadeEnds
  <2>2. OwnEnds(c)' = OwnEnds(c)
    BY <1>0 DEF OwnEnds
  <2> QED
    BY <1>1, <2>1, <2>2 DEF Kept
<1>5. OpenEnds(c)' \subseteq Kept(c)' \cup EndsOf(todo'[c])
  BY <1>2, <1>3, <1>4 DEF CallerOwes
<1>6. pc[c] \notin {"idle", "reap"}
  BY <1>1 DEF CallerOwes
<1>7. ASSUME pc[c] = "live" PROVE OwnEnds(c)' \subseteq BoundEnds(c)' /\ EndsOf(todo'[c]) \cap OwnEnds(c)' = {}
  BY <1>2, <1>3, <1>4, <1>7 DEF CallerOwes
<1>8. ASSUME pc[c] = "dropped" PROVE EndsOf(todo'[c]) \subseteq EndsOf(HandleEnds)
  BY <1>2, <1>8 DEF CallerOwes
<1>9. ASSUME pc[c] = "read" PROVE OwnEnds(c)' \subseteq BoundEnds(c)'
  <2>1. todo[c] = <<<<"fail", "write">>>>
    BY <1>1, <1>9 DEF CallerHolds
  <2>2. h = <<"fail", "write">>
    BY <2>1 DEF h
  <2>3. h \notin OwnEnds(c)
    BY <2>2 DEF OwnEnds
  <2> QED
    BY <1>3, <1>4, <1>9, <2>3 DEF CallerOwes
<1>10. pc[c] = "bindErr" => ~Merged(c)'
  BY <1>1 DEF CallerOwes, Merged
<1> QED
  BY <1>1, <1>5, <1>6, <1>7, <1>8, <1>9, <1>10 DEF CallerOwes

LEMMA OwesBind ==
    ASSUME TypeOK, Ownership, NEW c \in Calls, CallerOwes(c),
           BindStdin(c) \/ BindStdout(c) \/ BindStderr(c)
    PROVE  CallerOwes(c)'
<1> DEFINE Piped(names) == {pe \in names \X PipeEnds : IsPiped(c, pe[1])}
<1>1. use' = use
  BY UseFixed DEF Next, CallerStep
<1>01. Merged(c)' = Merged(c) /\ \A p : IsPiped(c, p)' <=> IsPiped(c, p)
  BY <1>1, TargetsFixed
<1>02. \A names : MadeEnds(c, names)' = MadeEnds(c, names)
  BY <1>01 DEF MadeEnds
<1>03. \A names : "err" \notin names \/ ~Merged(c) => MadeEnds(c, names) = Piped(names)
  BY DEF MadeEnds
<1>2. ASSUME NEW s \in Streams, NEW from, NEW to, Bind(c, s, from, to)
      PROVE  /\ At(c, from) /\ pc'[c] = to /\ todo'[c] = <<>>
             /\ OpenEnds(c)' \subseteq OpenEnds(c) \cup Piped({s})
  <2>1. At(c, from) /\ Goto(c, to, <<>>)
    BY <1>2 DEF Bind
  <2>2. \A q \in Pipes : q # s => fds'[c][q] = fds[c][q]
    BY <1>2, OwnershipBind
  <2>3. BoundEnds(c)' \subseteq BoundEnds(c) \cup {s} \X PipeEnds
    BY <2>2, EndWords DEF BoundEnds
  <2>4. OpenEnds(c)' \subseteq OpenEnds(c) \cup Piped({s})
    BY <1>01, <2>3 DEF OpenEnds
  <2> QED
    BY <2>1, <2>4 DEF Goto, TypeOK
<1>3. ASSUME NEW s, NEW from, NEW undo, BindFails(c, s, from, undo)
      PROVE  At(c, from) /\ pc'[c] = "threw" /\ todo'[c] = undo /\ OpenEnds(c)' = OpenEnds(c)
  BY <1>01, <1>3 DEF BindFails, Goto, TypeOK, OpenEnds, BoundEnds
<1>4. EndsOf(<<>>) = {} /\ (todo[c] = <<>> => OpenEnds(c) \subseteq Kept(c))
  BY EndsOfSequences DEF CallerOwes
<1>5. CASE Bind(c, "in", "idle", "bindOut")
  <2>1. At(c, "idle") /\ pc'[c] = "bindOut" /\ todo'[c] = <<>>
        /\ OpenEnds(c)' \subseteq OpenEnds(c) \cup Piped({"in"})
    BY <1>2, <1>5, EndWords
  <2>2. Kept(c) = {} /\ Kept(c)' = Piped({"in"})
    BY <1>02, <1>03, <2>1 DEF Kept, At
  <2> QED
    BY <1>4, <2>1, <2>2 DEF CallerOwes, At
<1>6. CASE BindFails(c, "in", "idle", <<>>)
  <2>1. At(c, "idle") /\ pc'[c] = "threw" /\ todo'[c] = <<>> /\ OpenEnds(c)' = OpenEnds(c)
    BY <1>3, <1>6
  <2>2. Kept(c) = {}
    BY <2>1 DEF Kept, At
  <2> QED
    BY <1>4, <2>1, <2>2 DEF CallerOwes, At
<1>7. CASE Bind(c, "out", "bindOut", IF Merged(c) THEN "failPipe" ELSE "bindErr")
  <2> DEFINE to == IF Merged(c) THEN "failPipe" ELSE "bindErr"
  <2>1. At(c, "bindOut") /\ pc'[c] = to /\ todo'[c] = <<>>
        /\ OpenEnds(c)' \subseteq OpenEnds(c) \cup Piped({"out"})
    BY <1>2, <1>7, EndWords
  <2>2. Kept(c) = Piped({"in"})
    BY <1>03, <2>1 DEF Kept, At
  <2>3. Piped({"in"}) \cup Piped({"out"}) \subseteq Kept(c)'
    <3>1. Kept(c)' = MadeEnds(c, IF Merged(c) THEN Streams ELSE {"in", "out"})
      BY <1>02, <2>1 DEF Kept
    <3> QED
      BY <3>1, EndWords DEF MadeEnds
  <2>4. pc'[c] = "bindErr" => ~Merged(c)'
    BY <1>1, <2>1 DEF Merged
  <2> QED
    BY <1>4, <2>1, <2>2, <2>3, <2>4 DEF CallerOwes, At
<1>8. CASE BindFails(c, "out", "bindOut", BothEnds("in"))
  <2>1. At(c, "bindOut") /\ pc'[c] = "threw" /\ todo'[c] = BothEnds("in") /\ OpenEnds(c)' = OpenEnds(c)
    BY <1>3, <1>8
  <2>2. Kept(c) \subseteq {"in"} \X PipeEnds
    BY <2>1 DEF Kept, At, MadeEnds
  <2>3. EndsOf(todo'[c]) = {"in"} \X PipeEnds
    BY <2>1, ClosedEnds
  <2> QED
    BY <1>4, <2>1, <2>2, <2>3 DEF CallerOwes, At
<1>9. CASE Bind(c, "err", "bindErr", "failPipe")
  <2>1. At(c, "bindErr") /\ pc'[c] = "failPipe" /\ todo'[c] = <<>>
        /\ OpenEnds(c)' \subseteq OpenEnds(c) \cup Piped({"err"})
    BY <1>2, <1>9, EndWords
  <2>2. Kept(c) = Piped({"in", "out"})
    BY <1>03, <2>1 DEF Kept, At
  <2>3. ~Merged(c)
    BY <2>1 DEF CallerOwes, At
  <2>4. Kept(c)' = Piped(Streams)
    BY <1>02, <1>03, <2>1, <2>3 DEF Kept
  <2> QED
    BY <1>4, <2>1, <2>2, <2>4, EndWords DEF CallerOwes, At
<1>10. CASE BindFails(c, "err", "bindErr", BothEnds("in") \o BothEnds("out"))
  <2>1. At(c, "bindErr") /\ pc'[c] = "threw" /\ todo'[c] = BothEnds("in") \o BothEnds("out")
        /\ OpenEnds(c)' = OpenEnds(c)
    BY <1>3, <1>10
  <2>2. Kept(c) \subseteq {"in", "out"} \X PipeEnds
    BY <2>1 DEF Kept, At, MadeEnds
  <2>3. EndsOf(todo'[c]) = {"in", "out"} \X PipeEnds
    BY <2>1, ClosedEnds
  <2> QED
    BY <1>4, <2>1, <2>2, <2>3 DEF CallerOwes, At
<1> QED
  BY <1>5, <1>6, <1>7, <1>8, <1>9, <1>10 DEF BindStdin, BindStdout, BindStderr

(* The other steps of a caller: the list of ends to close that goes with   *)
(* the next place names all that is open and not wanted there.             *)
LEMMA OwesOn ==
    ASSUME TypeOK, NEW c \in Calls, CallerOwes(c), todo[c] = <<>>, use' = use, fds'[c] = fds[c],
           NEW label, NEW ends, Goto(c, label, ends),
           label \notin {"bindErr", "idle", "read", "live", "dropped", "reap"},
           Kept(c) \subseteq Kept(c)' \cup EndsOf(ends)
    PROVE  CallerOwes(c)'
<1>1. pc'[c] = label /\ todo'[c] = ends
  BY DEF Goto, TypeOK
<1>2. OpenEnds(c)' = OpenEnds(c)
  BY TargetsFixed DEF OpenEnds, BoundEnds
<1>3. OpenEnds(c) \subseteq Kept(c)
  BY EndsOfSequences DEF CallerOwes
<1>4. OpenEnds(c)' \subseteq Kept(c)' \cup EndsOf(todo'[c])
  BY <1>1, <1>2, <1>3
<1> QED
  BY <1>1, <1>4 DEF CallerOwes

(* Every end of a stream is open at the fork, since nothing failed.        *)
LEMMA AllMade ==
    ASSUME NEW c \in Calls, CallerHolds(c), pc[c] = "fork"
    PROVE  OwnEnds(c) \subseteq BoundEnds(c)
<1>1. /\ HasBoth(c, "in") /\ HasBoth(c, "out") /\ (~Merged(c) => HasBoth(c, "err"))
  BY DEF CallerHolds
<1>2. \A p \in Pipes : HasBoth(c, p) => \A e \in PipeEnds : <<p, e>> \in BoundEnds(c)
  BY EndWords, FdFacts DEF HasBoth, BoundEnds
<1> QED
  BY <1>1, <1>2, EndWords DEF OwnEnds

LEMMA OwesCallerStep ==
    ASSUME TypeOK, Ownership, NEW c \in Calls, CallerHolds(c), CallerOwes(c),
           BindStdin(c) \/ CallerStep(c) \/ DropHandle(c)
    PROVE  CallerOwes(c)'
<1>0. use' = use
  BY UseFixed DEF Next
<1>01. Merged(c)' = Merged(c) /\ \A p : IsPiped(c, p)' <=> IsPiped(c, p)
  BY <1>0, TargetsFixed
<1>02. \A names : MadeEnds(c, names)' = MadeEnds(c, names)
  BY <1>01 DEF MadeEnds
<1>03. OwnEnds(c)' = OwnEnds(c)
  BY <1>01 DEF OwnEnds
<1>04. ASSUME fds'[c] = fds[c] PROVE BoundEnds(c)' = BoundEnds(c) /\ OpenEnds(c)' = OpenEnds(c)
  BY <1>01, <1>04 DEF BoundEnds, OpenEnds
<1>05. MadeEnds(c, Streams) \subseteq EndsOf(RollbackEnds(c))
  BY ClosedEnds DEF MadeEnds
<1>1. CASE BindStdin(c) \/ BindStdout(c) \/ BindStderr(c)
  BY <1>1, OwesBind
<1>2. CASE CloseNext(c)
  BY <1>2, OwesClose
<1>3. CASE CreateFailPipe(c)
  <2>1. At(c, "failPipe")
    BY <1>3 DEF CreateFailPipe
  <2>2. Kept(c) = MadeEnds(c, Streams) /\ OpenEnds(c) \subseteq Kept(c)
    BY <2>1, EndsOfSequences DEF Kept, At, CallerOwes
  <2>3. CASE CreatePipe(c, "fail") /\ Goto(c, "fork", <<>>)
    <3>1. pc'[c] = "fork" /\ todo'[c] = <<>>
      BY <2>3 DEF Goto, TypeOK
    <3>2. \A q \in Pipes : q # "fail" => fds'[c][q] = fds[c][q]
      <4>1. IsPiped(c, "fail") /\ held' = held
        BY <1>3 DEF IsPiped, Streams, CreateFailPipe
      <4> QED
        BY <1>0, <2>3, <4>1, OwnershipCreatePipe, EndWords
    <3>3. OpenEnds(c)' \subseteq OpenEnds(c) \cup {"fail"} \X PipeEnds
      BY <1>01, <3>2, EndWords DEF OpenEnds, BoundEnds
    <3>4. MadeEnds(c, Streams) \cup ({"fail"} \X PipeEnds) \subseteq Kept(c)'
      <4>1. Kept(c)' = MadeEnds(c, Pipes)
        BY <1>02, <3>1 DEF Kept
      <4> QED
        BY <4>1, EndWords DEF MadeEnds, IsPiped
    <3> QED
      BY <2>2, <3>1, <3>3, <3>4 DEF CallerOwes
  <2>4. CASE Goto(c, "threw", RollbackEnds(c)) /\ UNCHANGED <<table, fds>>
    <3>1. Kept(c) \subseteq EndsOf(RollbackEnds(c))
      BY <1>05, <2>2
    <3> QED
      BY <1>0, <2>1, <2>4, <3>1, OwesOn DEF At
  <2> QED
    BY <1>3, <2>3, <2>4 DEF CreateFailPipe
<1>4. CASE Fork(c)
  <2>1. /\ At(c, "fork") /\ pc'[c] = "read" /\ todo'[c] = <<<<"fail", "write">>>>
        /\ fds' = fds
    BY <1>4 DEF Fork, Goto, At, TypeOK
  <2>2. OpenEnds(c)' = OpenEnds(c) /\ BoundEnds(c)' = BoundEnds(c)
    BY <1>04, <2>1
  <2>3. OpenEnds(c) \subseteq MadeEnds(c, Pipes)
    BY <2>1, EndsOfSequences DEF Kept, At, CallerOwes
  <2>4. MadeEnds(c, Pipes) \subseteq Kept(c)' \cup {<<"fail", "write">>}
    <3>1. Kept(c)' = MadeEnds(c, Streams) \cup {<<"fail", "read">>}
      BY <1>02, <2>1 DEF Kept
    <3> QED
      BY <3>1, EndWords DEF MadeEnds
  <2>5. OwnEnds(c) \subseteq BoundEnds(c)
    BY <2>1, AllMade DEF At
  <2>6. EndsOf(todo'[c]) = {<<"fail", "write">>}
    BY <2>1, ClosedEnds
  <2> QED
    BY <1>03, <2>1, <2>2, <2>3, <2>4, <2>5, <2>6 DEF CallerOwes
<1>5. CASE ForkFails(c)
  <2>1. At(c, "fork") /\ Goto(c, "threw", RollbackEnds(c)) /\ fds' = fds
    BY <1>5 DEF ForkFails
  <2>2. Kept(c) = MadeEnds(c, Pipes) /\ Kept(c)' = {"fail"} \X PipeEnds
    BY <2>1 DEF Kept, At, Goto, TypeOK
  <2>3. Kept(c) \subseteq Kept(c)' \cup EndsOf(RollbackEnds(c))
    <3>1. MadeEnds(c, Pipes) \subseteq MadeEnds(c, Streams) \cup {"fail"} \X PipeEnds
      BY EndWords DEF MadeEnds
    <3> QED
      BY <1>05, <2>2, <3>1
  <2> QED
    BY <1>0, <2>1, <2>3, OwesOn DEF At
<1>6. CASE ReadFully(c)
  <2>1. PICK result \in ReadFullyResults(c) :
          CASE result = "eof"   -> Goto(c, "live", NearEnds(c))
            [] result = "errno" -> Goto(c, "reap", <<>>)
            [] result = "error" -> Goto(c, "threw", RollbackEnds(c))
    BY <1>6 DEF ReadFully
  <2>2. result \in {"eof", "errno", "error"}
    BY DEF ReadFullyResults
  <2>3. At(c, "read") /\ fds' = fds
    BY <1>6 DEF ReadFully
  <2>4. /\ OpenEnds(c)' = OpenEnds(c) /\ BoundEnds(c)' = BoundEnds(c)
        /\ OwnEnds(c)' = OwnEnds(c) /\ OwnEnds(c) \subseteq BoundEnds(c)
        /\ OpenEnds(c) \subseteq MadeEnds(c, Streams) \cup {<<"fail", "read">>}
    BY <1>03, <1>04, <2>3, EndsOfSequences DEF Kept, At, CallerOwes
  <2>5. CASE result = "eof"
    <3>1. pc'[c] = "live" /\ todo'[c] = NearEnds(c)
      BY <2>1, <2>5 DEF Goto, TypeOK
    <3>2. Kept(c)' = OwnEnds(c)
      BY <2>4, <3>1 DEF Kept
    <3>3. EndsOf(NearEnds(c)) =
             {<<"fail", "read">>}
             \cup {pe \in {<<"in", "read">>, <<"out", "write">>, <<"err", "write">>} :
                      IsPiped(c, pe[1]) /\ (pe[1] = "err" => ~Merged(c))}
      BY ClosedEnds
    <3>4. MadeEnds(c, Streams) \cup {<<"fail", "read">>} \subseteq OwnEnds(c) \cup EndsOf(NearEnds(c))
      BY <3>3, EndWords DEF MadeEnds, OwnEnds
    <3>5. EndsOf(NearEnds(c)) \cap OwnEnds(c) = {}
      BY <3>3 DEF OwnEnds
    <3> QED
      BY <2>4, <3>1, <3>2, <3>4, <3>5 DEF CallerOwes
  <2>6. CASE result = "errno"
    <3>1. pc'[c] = "reap" /\ todo'[c] = <<>>
      BY <2>1, <2>6 DEF Goto, TypeOK
    <3>2. Kept(c)' = MadeEnds(c, Streams) \cup {<<"fail", "read">>}
      BY <1>02, <3>1 DEF Kept
    <3> QED
      BY <2>4, <3>1, <3>2 DEF CallerOwes
  <2>7. CASE result = "error"
    <3>1. Goto(c, "threw", RollbackEnds(c)) /\ pc'[c] = "threw"
      BY <2>1, <2>7 DEF Goto, TypeOK
    <3>2. Kept(c)' = {"fail"} \X PipeEnds
      BY <3>1 DEF Kept
    <3>3. Kept(c) = MadeEnds(c, Streams) \cup {<<"fail", "read">>}
      BY <2>3 DEF Kept, At
    <3>4. Kept(c) \subseteq Kept(c)' \cup EndsOf(RollbackEnds(c))
      BY <1>05, <3>2, <3>3, EndWords
    <3> QED
      BY <1>0, <2>3, <3>1, <3>4, OwesOn DEF At
  <2> QED
    BY <2>2, <2>5, <2>6, <2>7
<1>7. CASE ReapFailedChild(c)
  <2>1. At(c, "reap") /\ Goto(c, "threw", RollbackEnds(c)) /\ fds' = fds
    BY <1>7 DEF ReapFailedChild
  <2>2. Kept(c) = MadeEnds(c, Streams) \cup {<<"fail", "read">>} /\ Kept(c)' = {"fail"} \X PipeEnds
    BY <2>1 DEF Kept, At, Goto, TypeOK
  <2>3. Kept(c) \subseteq Kept(c)' \cup EndsOf(RollbackEnds(c))
    BY <1>05, <2>2, EndWords
  <2> QED
    BY <1>0, <2>1, <2>3, OwesOn DEF At
<1>8. CASE DropHandle(c)
  <2>1. At(c, "live") /\ pc'[c] = "dropped" /\ todo'[c] = HandleEnds /\ fds' = fds
    BY <1>8 DEF DropHandle, Goto, At, TypeOK
  <2>2. OpenEnds(c)' \subseteq OwnEnds(c)
    BY <1>04, <2>1, EndsOfSequences DEF Kept, At, CallerOwes
  <2>3. OwnEnds(c) \subseteq EndsOf(HandleEnds)
    BY ClosedEnds DEF OwnEnds
  <2> QED
    BY <2>1, <2>2, <2>3 DEF CallerOwes
<1> QED
  BY <1>1, <1>2, <1>3, <1>4, <1>5, <1>6, <1>7, <1>8 DEF CallerStep

LEMMA ChildlessStep ==
    ASSUME TypeOK, Ownership, NEW c \in Calls, CallerHolds(c), Childless(c),
           \/ BindStdin(c) \/ CallerStep(c) \/ DropHandle(c)
           \/ ChildStep(c) \/ ProgramEnds(c)
    PROVE  Childless(c)'
<1>1. CASE BindStdin(c) \/ BindStdout(c) \/ BindStderr(c) \/ CreateFailPipe(c) \/ ForkFails(c)
  <2>1. ASSUME NEW s, NEW from \in BeforeFork, NEW to \in BeforeFork, NEW undo,
               Bind(c, s, from, to) \/ BindFails(c, s, from, undo)
        PROVE  pc[c] \in BeforeFork /\ pc'[c] \in BeforeFork \cup {"threw"} /\ cpc' = cpc
    BY <2>1 DEF Bind, BindFails, Goto, At, TypeOK, childVars
  <2>2. CASE BindStdin(c) \/ BindStdout(c) \/ BindStderr(c)
    BY <2>1, <2>2 DEF BindStdin, BindStdout, BindStderr, Childless, BeforeFork
  <2>3. CASE CreateFailPipe(c) \/ ForkFails(c)
    BY <2>3 DEF CreateFailPipe, ForkFails, Goto, At, TypeOK, childVars, Childless, BeforeFork
  <2> QED
    BY <1>1, <2>2, <2>3
<1>2. CASE CloseNext(c)
  BY <1>2 DEF CloseNext, childVars, Childless
<1>3. CASE Fork(c) \/ DropHandle(c) \/ ReapFailedChild(c)
  <2>1. \/ pc'[c] \in {"read", "dropped"}
        \/ pc'[c] = "threw" /\ cpc'[c] = "reaped"
    BY <1>3 DEF Fork, DropHandle, ReapFailedChild, Goto, At, TypeOK
  <2> QED
    BY <2>1 DEF Childless, BeforeFork
<1>4. CASE ReadFully(c)
  <2>1. fds[c]["fail"]["read"] \in Fds
    BY <1>4 DEF ReadFully, At, CallerHolds
  <2>2. table[fds[c]["fail"]["read"]] = PipeEnd(c, "fail", "read")
    BY <2>1, EndWords, FdFacts DEF Ownership, OwnedPipes, Remembers, IsPiped
  <2>3. ReadFullyResults(c) \subseteq {"errno", "eof"}
    <3> DEFINE own == PipeEnd(c, "fail", "read")
               others == {Closed} \cup {PipeEnd(d, p, "write") : d \in Calls, p \in Pipes}
    <3>0. own \notin others
      BY EndWords, PipeEndInjective, PipeEndNotFile
    <3> HIDE DEF own, others
    <3>1. "error" \notin ReadFullyResults(c)
      BY <2>1, <2>2, <3>0 DEF ReadFullyResults, own, others
    <3>2. ReadFullyResults(c) \subseteq {"eof", "errno", "error"}
      BY DEF ReadFullyResults
    <3> QED
      BY <3>1, <3>2
  <2>4. PICK result \in {"errno", "eof"} :
          CASE result = "eof"   -> Goto(c, "live", NearEnds(c))
            [] result = "errno" -> Goto(c, "reap", <<>>)
            [] result = "error" -> Goto(c, "threw", RollbackEnds(c))
    BY <1>4, <2>3 DEF ReadFully
  <2>5. pc'[c] \in {"live", "reap"}
    BY <2>4 DEF Goto, TypeOK
  <2> QED
    BY <2>5 DEF Childless, BeforeFork
<1>5. CASE ChildStep(c) \/ ProgramEnds(c)
  <2>1. pc' = pc /\ cpc[c] \notin {"unborn", "reaped"}
    BY <1>5 DEF ChildStep, Rewire, CloseAllDescriptors, Chdir, SetCloexec, Exec, ExecFails,
         WriteError, ChildExit, ProgramEnds, ChildGoes, callerVars
  <2> QED
    BY <2>1 DEF Childless, BeforeFork
<1> QED
  BY <1>1, <1>2, <1>3, <1>4, <1>5 DEF CallerStep

DutyInv ==
    /\ HoldInv
    /\ TableKnown
    /\ \A c \in Calls : CallerOwes(c) /\ Childless(c)

LEMMA DutyInit == Init => DutyInv
<1> SUFFICES ASSUME Init PROVE DutyInv
  OBVIOUS
<1>1. HoldInv /\ TypeOK
  BY TruthInit, TypeInit DEF TruthInv
<1>2. TableKnown
  <2>1. table \in [Fds -> Files \cup {Closed}]
    BY <1>1, UseType DEF Init, TypeOK
  <2> QED
    BY <2>1, PipeEndNotFile DEF TableKnown
<1>3. ASSUME NEW c \in Calls PROVE CallerOwes(c) /\ Childless(c)
  <2>1. pc[c] = "idle" /\ todo[c] = <<>> /\ cpc[c] = "unborn" /\ fds[c] = AllInvalid
    BY DEF Init
  <2>2. OpenEnds(c) = {}
    BY <2>1, EndWords DEF OpenEnds, BoundEnds, AllInvalid
  <2> QED
    BY <2>1, <2>2 DEF CallerOwes, Childless
<1> QED
  BY <1>1, <1>2, <1>3 DEF DutyInv

LEMMA DutyStep ==
    ASSUME DutyInv, TargetsSpared, [Next]_vars
    PROVE  DutyInv'
<1>0. TypeOK /\ use' = use
  BY UseFixed DEF DutyInv, HoldInv, OwnershipInv
<1>1. HoldInv'
  BY HoldStep DEF DutyInv
<1>3. /\ Ownership /\ TableKnown
      /\ \A d \in Calls : CallerHolds(d) /\ CallerOwes(d) /\ Childless(d)
  BY DEF DutyInv, HoldInv, OwnershipInv
<1>4. TableKnown'
  BY <1>0, <1>3, KnownStep
<1>5. ASSUME NEW d \in Calls PROVE CallerOwes(d)' /\ Childless(d)'
  <2>1. CallerHolds(d) /\ CallerOwes(d) /\ Childless(d)
    BY <1>3
  <2>2. ASSUME pc'[d] = pc[d], todo'[d] = todo[d], fds'[d] = fds[d], cpc'[d] = cpc[d]
        PROVE  CallerOwes(d)' /\ Childless(d)'
    BY <1>0, <2>1, <2>2, OwesFrame, ChildlessFrame
  <2>3. ASSUME NEW c \in Calls, d # c,
               \/ BindStdin(c) \/ CallerStep(c) \/ DropHandle(c)
               \/ ChildStep(c) \/ ProgramEnds(c)
        PROVE  CallerOwes(d)' /\ Childless(d)'
    BY <1>0, <2>2, <2>3, OthersUnchanged
  <2>4. CASE BindStdin(d) \/ CallerStep(d) \/ DropHandle(d)
    BY <1>0, <1>3, <2>1, <2>4, OwesCallerStep, ChildlessStep
  <2>5. CASE ChildStep(d) \/ ProgramEnds(d)
    <3>1. pc'[d] = pc[d] /\ todo'[d] = todo[d] /\ fds'[d] = fds[d]
      BY <2>5 DEF ChildStep, Rewire, CloseAllDescriptors, Chdir, SetCloexec, Exec,
           ExecFails, WriteError, ChildExit, ProgramEnds, callerVars
    <3> QED
      BY <1>0, <1>3, <2>1, <2>5, <3>1, OwesFrame, ChildlessStep
  <2>6. CASE \/ \E f \in use.userFiles : UserOpen(f)
             \/ \E fd \in Fds : UserClose(fd)
    BY <2>2, <2>6 DEF UserOpen, UserClose, childVars
  <2>7. CASE UNCHANGED vars
    BY <2>2, <2>7 DEF vars
  <2> QED
    BY <2>3, <2>4, <2>5, <2>6, <2>7 DEF Next, AllDone
<1> QED
  BY <1>1, <1>4, <1>5 DEF DutyInv

LEMMA DutyInvariant == Spec /\ []TargetsSpared => []DutyInv
<1>1. DutyInv /\ TargetsSpared /\ [Next]_vars => DutyInv'
  BY DutyStep
<1> QED
  BY <1>1, DutyInit, PTL DEF Spec

(* What the invariant says of the parent's table: an end that is still     *)
(* there is one that its call keeps or is about to close.                  *)
LEMMA TableIsOwed ==
    ASSUME DutyInv, NEW c \in Calls, NEW p \in Pipes, NEW e \in PipeEnds,
           NEW fd \in Fds, table[fd] = PipeEnd(c, p, e)
    PROVE  <<p, e>> \in Kept(c) \cup EndsOf(todo[c])
<1>1. IsPiped(c, p) /\ fds[c][p][e] = fd /\ fd # FD_INVALID
  BY FdFacts DEF DutyInv, TableKnown
<1>2. <<p, e>> \in OpenEnds(c)
  BY <1>1, EndWords DEF OpenEnds, BoundEnds
<1> QED
  BY <1>2 DEF DutyInv, CallerOwes

(* A handle that start() has returned is connected: no step on the way to  *)
(* it, of any call, has closed the caller's end of one of its pipes.       *)
THEOREM HandleStaysConnected == Spec /\ []TargetsSpared => []HandleConnected
<1>1. DutyInv => HandleConnected
  <2> SUFFICES ASSUME DutyInv, NEW c \in Calls, At(c, "live")
               PROVE  /\ fds[c]["in"]["write"] # FD_INVALID
                      /\ fds[c]["out"]["read"] # FD_INVALID
                      /\ ~Merged(c) => fds[c]["err"]["read"] # FD_INVALID
    BY DEF HandleConnected
  <2>1. OwnEnds(c) \subseteq BoundEnds(c)
    BY DEF DutyInv, CallerOwes, At
  <2> QED
    BY <2>1, EndWords DEF OwnEnds, BoundEnds
<1> QED
  BY <1>1, DutyInvariant, PTL

(* Whichever step of start() failed, once it has thrown no end of a stream *)
(* pipe is open in the parent.                                             *)
THEOREM RollbackComplete == Spec /\ []TargetsSpared => []RollbackClosesStreams
<1>1. DutyInv => RollbackClosesStreams
  <2> SUFFICES ASSUME DutyInv, NEW c \in Calls, At(c, "threw"),
                      NEW fd \in Fds, NEW p \in Streams, NEW e \in PipeEnds,
                      table[fd] = PipeEnd(c, p, e)
               PROVE  FALSE
    BY DEF RollbackClosesStreams, HoldsAny
  <2>1. <<p, e>> \in Kept(c) \cup EndsOf(todo[c])
    BY TableIsOwed DEF Pipes
  <2>2. Kept(c) = {"fail"} \X PipeEnds /\ EndsOf(todo[c]) = {}
    BY EndsOfSequences DEF Kept, At
  <2> QED
    BY <2>1, <2>2 DEF Streams
<1> QED
  BY <1>1, DutyInvariant, PTL

(* Once the destructor of the handle is through nothing that start() made  *)
(* is open in the parent.                                                  *)
THEOREM DropComplete == Spec /\ []TargetsSpared => []DropClosesAll
<1>1. DutyInv => DropClosesAll
  <2> SUFFICES ASSUME DutyInv, NEW c \in Calls, At(c, "dropped"),
                      NEW fd \in Fds, NEW p \in Pipes, NEW e \in PipeEnds,
                      table[fd] = PipeEnd(c, p, e)
               PROVE  FALSE
    BY DEF DropClosesAll, HoldsAny
  <2>1. <<p, e>> \in Kept(c) \cup EndsOf(todo[c])
    BY TableIsOwed
  <2>2. Kept(c) = {} /\ EndsOf(todo[c]) = {}
    BY EndsOfSequences DEF Kept, At
  <2> QED
    BY <2>1, <2>2
<1> QED
  BY <1>1, DutyInvariant, PTL

(* A start() that threw leaves no child, running or to be waited for.      *)
THEOREM NoChildAfterThrow == Spec /\ []TargetsSpared => []ThrowLeavesNoChild
<1>1. DutyInv => ThrowLeavesNoChild
  BY DEF DutyInv, Childless, ThrowLeavesNoChild
<1> QED
  BY <1>1, DutyInvariant, PTL

--------------------------------------------------------------------------------
(* The hypothesis of these theorems.  The steps that go to close ends      *)
(* without a look at redirected(): the destructor of the handle, and the   *)
(* undoing of a bind of stdout or stderr that failed.                      *)
ClosesUnasked(c) ==
    /\ \E s \in Streams : Redirected(c, s)
    /\ \/ DropHandle(c)
       \/ BindFails(c, "out", "bindOut", BothEnds("in"))
       \/ BindFails(c, "err", "bindErr", BothEnds("in") \o BothEnds("out"))

LEMMA SparedBy ==
    ASSUME NEW c \in Calls, TargetsSpared, use' = use,
           \A d \in Calls \ {c} : todo'[d] = todo[d] /\ fds'[d] = fds[d],
           \/ \A pe \in EndsOf(todo'[c]) : IsPiped(c, pe[1])
           \/ \A s \in Streams : ~Redirected(c, s)
           \/ todo'[c] = todo[c] /\ fds'[c] = fds[c]
    PROVE  TargetsSpared'
<1>1. \A d, p : IsPiped(d, p)' <=> IsPiped(d, p)
  BY TargetsFixed
<1>2. ASSUME NEW d \in Calls, NEW pe \in EndsOf(todo'[d])
      PROVE  IsPiped(d, pe[1]) \/ fds'[d][pe[1]][pe[2]] = FD_INVALID
  <2>1. CASE todo'[d] = todo[d] /\ fds'[d] = fds[d]
    BY <1>2, <2>1 DEF TargetsSpared
  <2>2. CASE d = c
    BY <1>2, <2>1, <2>2 DEF IsPiped
  <2> QED
    BY <2>1, <2>2
<1>3. EndsOf(<<>>) = {} /\ \A d : EndsOf(todo[d])' = EndsOf(todo'[d])
  BY EndsOfSequences DEF EndsOf
<1> QED
  BY <1>1, <1>2, <1>3 DEF TargetsSpared

LEMMA SparedClose ==
    ASSUME TypeOK, TargetsSpared, NEW c \in Calls, CloseNext(c)
    PROVE  TargetsSpared'
<1> DEFINE h == Head(todo[c])
<1>1. /\ h \in EndNames /\ todo[c] \in Seq(EndNames) /\ todo[c] # <<>>
      /\ todo'[c] = Tail(todo[c]) /\ use' = use
      /\ \A pe \in EndNames : fds'[c][pe[1]][pe[2]] =
            IF pe = h THEN FD_INVALID ELSE fds[c][pe[1]][pe[2]]
  <2>1. todo[c] \in Seq(EndNames) /\ todo[c] # <<>>
    BY DEF TypeOK, EndNames, CloseNext
  <2> QED
    BY <2>1, CloseNextEnds
<1> HIDE DEF h
<1>2. \A d \in Calls \ {c} : todo'[d] = todo[d] /\ fds'[d] = fds[d]
  BY DEF CloseNext, TypeOK
<1>3. \A d, p : IsPiped(d, p)' <=> IsPiped(d, p)
  BY <1>1, TargetsFixed
<1>4. EndsOf(todo[c]) = {h} \cup EndsOf(todo'[c]) /\ EndsOf(todo[c]) \subseteq EndNames
  <2>1. EndsOf(todo[c]) = {h} \cup EndsOf(todo'[c])
    BY <1>1, EndsOfSequences DEF h
  <2>2. EndsOf(todo[c]) \subseteq EndNames
    BY <1>1 DEF EndsOf
  <2> QED
    BY <2>1, <2>2
<1>5. ASSUME NEW d \in Calls, NEW pe \in EndsOf(todo'[d])
      PROVE  IsPiped(d, pe[1]) \/ fds'[d][pe[1]][pe[2]] = FD_INVALID
  <2>1. CASE d # c
    BY <1>2, <1>5, <2>1 DEF TargetsSpared
  <2>2. CASE d = c
    <3>1. pe \in EndsOf(todo[c]) /\ pe \in EndNames
      BY <1>4, <1>5, <2>2
    <3> QED
      BY <1>1, <2>2, <3>1 DEF TargetsSpared
  <2> QED
    BY <2>1, <2>2
<1>6. \A d : EndsOf(todo[d])' = EndsOf(todo'[d])
  BY DEF EndsOf
<1> QED
  BY <1>3, <1>5, <1>6 DEF TargetsSpared

(* Everywhere else start() looks first: no step but those, of a call that  *)
(* redirects something, goes to close a redirect target.                   *)
THEOREM TargetsSparedElsewhere ==
    Spec => [][TargetsSpared => TargetsSpared' \/ \E c \in Calls : ClosesUnasked(c)]_vars
<1> DEFINE Claim == TargetsSpared => TargetsSpared' \/ \E c \in Calls : ClosesUnasked(c)
<1>1. ASSUME TypeOK, TargetsSpared, [Next]_vars
      PROVE  TargetsSpared' \/ \E c \in Calls : ClosesUnasked(c)
  <2>0. use' = use
    BY <1>1, UseFixed
  <2>1. ASSUME UNCHANGED <<todo, fds>> PROVE TargetsSpared'
    BY <1>1, <2>0, <2>1, TargetsFixed DEF TargetsSpared, EndsOf
  <2>2. ASSUME NEW c \in Calls, BindStdin(c) \/ CallerStep(c) \/ DropHandle(c)
        PROVE  TargetsSpared' \/ ClosesUnasked(c)
    <3>0. \A d \in Calls \ {c} : todo'[d] = todo[d] /\ fds'[d] = fds[d]
      BY <1>1, <2>2, OthersUnchanged
    <3>1. ASSUME NEW label, NEW ends, Goto(c, label, ends),
                 \/ \A pe \in EndsOf(ends) : IsPiped(c, pe[1])
                 \/ \A s \in Streams : ~Redirected(c, s)
          PROVE  TargetsSpared'
      <4>1. todo'[c] = ends
        BY <1>1, <3>1 DEF Goto, TypeOK
      <4> QED
        BY <1>1, <2>0, <3>0, <3>1, <4>1, SparedBy
    <3>2. IsPiped(c, "fail") /\ <<"fail", "write">>[1] = "fail" /\ <<"fail", "read">>[1] = "fail"
      BY DEF IsPiped, Streams
    <3>3. /\ \A pe \in EndsOf(<<>>) : IsPiped(c, pe[1])
          /\ \A pe \in EndsOf(<<<<"fail", "write">>>>) : IsPiped(c, pe[1])
          /\ \A pe \in EndsOf(RollbackEnds(c)) : IsPiped(c, pe[1])
          /\ \A pe \in EndsOf(NearEnds(c)) : IsPiped(c, pe[1])
      BY <3>2, ClosedEnds
    <3>4. CASE CloseNext(c)
      BY <1>1, <3>4, SparedClose
    <3>5. CASE \E s \in Streams : \E from, to : Bind(c, s, from, to)
      BY <3>1, <3>3, <3>5 DEF Bind
    <3>6. CASE BindFails(c, "in", "idle", <<>>)
      BY <3>1, <3>3, <3>6 DEF BindFails
    <3>7. CASE \/ BindFails(c, "out", "bindOut", BothEnds("in"))
               \/ BindFails(c, "err", "bindErr", BothEnds("in") \o BothEnds("out"))
               \/ DropHandle(c)
      <4>1. \E ends, label : Goto(c, label, ends)
        BY <3>7 DEF BindFails, DropHandle
      <4>2. CASE \A s \in Streams : ~Redirected(c, s)
        BY <3>1, <4>1, <4>2
      <4>3. CASE \E s \in Streams : Redirected(c, s)
        BY <3>7, <4>3 DEF ClosesUnasked
      <4> QED
        BY <4>2, <4>3
    <3>8. CASE BindStdin(c) \/ BindStdout(c) \/ BindStderr(c)
      <4>1. "in" \in Streams /\ "out" \in Streams /\ "err" \in Streams
        BY DEF Streams
      <4> QED
        BY <3>5, <3>6, <3>7, <3>8, <4>1 DEF BindStdin, BindStdout, BindStderr
    <3>9. CASE CreateFailPipe(c) \/ Fork(c) \/ ForkFails(c) \/ ReapFailedChild(c)
      BY <3>1, <3>3, <3>9 DEF CreateFailPipe, Fork, ForkFails, ReapFailedChild
    <3>10. CASE ReadFully(c)
      <4>1. PICK result \in ReadFullyResults(c) :
              CASE result = "eof"   -> Goto(c, "live", NearEnds(c))
                [] result = "errno" -> Goto(c, "reap", <<>>)
                [] result = "error" -> Goto(c, "threw", RollbackEnds(c))
        BY <3>10 DEF ReadFully
      <4>2. result \in {"eof", "errno", "error"}
        BY DEF ReadFullyResults
      <4> QED
        BY <3>1, <3>3, <4>1, <4>2
    <3> QED
      BY <2>2, <3>4, <3>7, <3>8, <3>9, <3>10 DEF CallerStep
  <2>3. ASSUME NEW c \in Calls, ChildStep(c) \/ ProgramEnds(c) PROVE TargetsSpared'
    BY <2>1, <2>3 DEF ChildStep, Rewire, CloseAllDescriptors, Chdir, SetCloexec, Exec,
         ExecFails, WriteError, ChildExit, ProgramEnds, callerVars
  <2>4. CASE \/ \E f \in use.userFiles : UserOpen(f)
             \/ \E fd \in Fds : UserClose(fd)
    BY <2>1, <2>4 DEF UserOpen, UserClose
  <2>5. CASE UNCHANGED vars
    BY <2>1, <2>5 DEF vars
  <2> QED
    BY <1>1, <2>2, <2>3, <2>4, <2>5 DEF Next, AllDone
<1>2. TypeOK /\ [Next]_vars => [Claim]_vars
  BY <1>1
<1> QED
  BY <1>2, TypeCorrect, PTL DEF Spec


(* Where no call redirects a stream the hypotheses hold, whatever happens. *)
LEMMA NothingToSpare ==
    Spec /\ NoRedirects => TargetsOpen /\ TargetsAboveStdio /\ []TargetsSpared
<1>1. NoRedirects => TargetsOpen /\ TargetsAboveStdio /\ TargetsSpared
  BY DEF NoRedirects, TargetsOpen, TargetsAboveStdio, TargetsSpared, IsPiped
<1>2. NoRedirects /\ [Next]_vars => NoRedirects'
  BY UseFixed DEF NoRedirects, Redirected, Target
<1> QED
  BY <1>1, <1>2, PTL DEF Spec

--------------------------------------------------------------------------------
(* The contract: every step of start() and the destructor is a step of     *)
(* SpawnContract, or one that the caller cannot see.                       *)

HoldsEnd(c, s) == \E fd \in Fds : table[fd] = PipeEnd(c, s, ParentEnd(s))
EndsHeld(c) == IF Answered(c) THEN {s \in Streams : HoldsEnd(c, s)} ELSE {}
PipedOf(c) == {s \in Streams : ~Redirected(c, s) /\ ~(s = "err" /\ Merged(c))}

(* What the caller of c sees in a step.                                    *)
Unseen(c) == /\ HasRun(c)' = HasRun(c)
             /\ AnswerOf(c)' = AnswerOf(c)
             /\ EndsHeld(c)' = EndsHeld(c)

Seen(c) ==
    \/ /\ AnswerOf(c) = "idle" /\ AnswerOf(c)' \in {"pending", "threw"}
       /\ HasRun(c)' = HasRun(c) /\ EndsHeld(c)' = EndsHeld(c)
    \/ /\ AnswerOf(c) = "pending" /\ HasRun(c)'
       /\ AnswerOf(c)' = AnswerOf(c) /\ EndsHeld(c)' = EndsHeld(c)
    \/ /\ AnswerOf(c) = "pending" /\ HasRun(c) /\ AnswerOf(c)' = "started"
       /\ HasRun(c)' = HasRun(c) /\ EndsHeld(c)' = PipedOf(c)
    \/ /\ AnswerOf(c) = "pending" /\ ~HasRun(c) /\ AnswerOf(c)' = "threw"
       /\ HasRun(c)' = HasRun(c) /\ EndsHeld(c)' = EndsHeld(c)
    \/ /\ AnswerOf(c) = "started" /\ AnswerOf(c)' = AnswerOf(c)
       /\ HasRun(c)' = HasRun(c)
       /\ \E s \in EndsHeld(c) : EndsHeld(c)' = EndsHeld(c) \ {s}
    \/ Unseen(c)

LEMMA SeenIsContract ==
    ASSUME use' = use, NEW c \in Calls, Seen(c), \A d \in Calls \ {c} : Unseen(d)
    PROVE  [Contract!Next]_(Contract!vars)
<1> DEFINE P == [d \in Calls |-> PipedOf(d)]
           R == [d \in Calls |-> HasRun(d)]
           A == [d \in Calls |-> AnswerOf(d)]
           E == [d \in Calls |-> EndsHeld(d)]
<1>1. P' = P
  BY DEF PipedOf, Redirected, Target, Merged
<1>2. ASSUME HasRun(c)' = HasRun(c) PROVE R' = R
  BY <1>2 DEF Unseen
<1>3. ASSUME AnswerOf(c)' = AnswerOf(c) PROVE A' = A
  BY <1>3 DEF Unseen
<1>4. ASSUME EndsHeld(c)' = EndsHeld(c) PROVE E' = E
  BY <1>4 DEF Unseen
<1>5. ASSUME HasRun(c)' PROVE R' = [R EXCEPT ![c] = TRUE]
  BY <1>5 DEF Unseen, HasRun
<1>6. ASSUME NEW a, AnswerOf(c)' = a PROVE A' = [A EXCEPT ![c] = a]
  BY <1>6 DEF Unseen
<1>7. ASSUME NEW S, EndsHeld(c)' = S PROVE E' = [E EXCEPT ![c] = S]
  BY <1>7 DEF Unseen
<1>8. A[c] = AnswerOf(c) /\ R[c] = HasRun(c) /\ E[c] = EndsHeld(c) /\ P[c] = PipedOf(c)
  OBVIOUS
<1> HIDE DEF P, R, A, E
<1>10. ASSUME AnswerOf(c) = "idle", AnswerOf(c)' \in {"pending", "threw"},
              HasRun(c)' = HasRun(c), EndsHeld(c)' = EndsHeld(c)
       PROVE  Contract!Start(c)
  <2>1. PICK a \in {"pending", "threw"} : A' = [A EXCEPT ![c] = a]
    BY <1>6, <1>10
  <2> QED
    BY <1>1, <1>2, <1>4, <1>8, <1>10, <2>1 DEF Contract!Start, P, R, A, E, PipedOf, EndsHeld, HoldsEnd
<1>11. ASSUME AnswerOf(c) = "pending", HasRun(c)',
              AnswerOf(c)' = AnswerOf(c), EndsHeld(c)' = EndsHeld(c)
       PROVE  Contract!Run(c)
  BY <1>1, <1>3, <1>4, <1>5, <1>8, <1>11 DEF Contract!Run, P, R, A, E, PipedOf, EndsHeld, HoldsEnd
<1>12. ASSUME AnswerOf(c) = "pending", HasRun(c), AnswerOf(c)' = "started",
              HasRun(c)' = HasRun(c), EndsHeld(c)' = PipedOf(c)
       PROVE  Contract!AnswerStarted(c)
  <2>1. A' = [A EXCEPT ![c] = "started"]
    BY <1>6, <1>12
  <2>2. E' = [E EXCEPT ![c] = P[c]]
    BY <1>7, <1>8, <1>12
  <2> QED
    BY <1>1, <1>2, <1>8, <1>12, <2>1, <2>2
       DEF Contract!AnswerStarted, P, R, A, E, PipedOf, EndsHeld, HoldsEnd
<1>13. ASSUME AnswerOf(c) = "pending", ~HasRun(c), AnswerOf(c)' = "threw",
              HasRun(c)' = HasRun(c), EndsHeld(c)' = EndsHeld(c)
       PROVE  Contract!AnswerThrew(c)
  <2>1. A' = [A EXCEPT ![c] = "threw"]
    BY <1>6, <1>13
  <2> QED
    BY <1>1, <1>2, <1>4, <1>8, <1>13, <2>1
       DEF Contract!AnswerThrew, P, R, A, E, PipedOf, EndsHeld, HoldsEnd
<1>14. ASSUME AnswerOf(c) = "started", AnswerOf(c)' = AnswerOf(c), HasRun(c)' = HasRun(c),
              NEW s \in EndsHeld(c), EndsHeld(c)' = EndsHeld(c) \ {s}
       PROVE  Contract!Release(c)
  <2>1. E' = [E EXCEPT ![c] = E[c] \ {s}]
    BY <1>7, <1>8, <1>14
  <2>2. s \in E[c]
    BY <1>8, <1>14
  <2> QED
    BY <1>1, <1>2, <1>3, <1>8, <1>14, <2>1, <2>2
       DEF Contract!Release, P, R, A, E, PipedOf, EndsHeld, HoldsEnd
<1>15. ASSUME Unseen(c) PROVE UNCHANGED Contract!vars
  <2>1. HasRun(c)' = HasRun(c) /\ AnswerOf(c)' = AnswerOf(c) /\ EndsHeld(c)' = EndsHeld(c)
    BY <1>15 DEF Unseen
  <2>2. P' = P /\ R' = R /\ A' = A /\ E' = E
    BY <1>1, <1>2, <1>3, <1>4, <2>1
  <2> QED
    BY <2>2 DEF Contract!vars, P, R, A, E, PipedOf, EndsHeld, HoldsEnd
<1> QED
  BY <1>10, <1>11, <1>12, <1>13, <1>14, <1>15 DEF Seen, Contract!Next

(* The ends a caller holds can be read off the numbers its call remembers. *)
LEMMA HeldIsOpen ==
    ASSUME DutyInv, NEW c \in Calls, NEW s \in Streams
    PROVE  HoldsEnd(c, s) <=> <<s, ParentEnd(s)>> \in OpenEnds(c)
<1> DEFINE e == ParentEnd(s)
<1>1. s \in Pipes /\ e \in PipeEnds
  BY EndWords DEF ParentEnd
<1> HIDE DEF e
<1>2. <<s, e>> \in OpenEnds(c) <=> IsPiped(c, s) /\ fds[c][s][e] # FD_INVALID
  BY <1>1, EndWords DEF OpenEnds, BoundEnds
<1>3. ASSUME NEW fd \in Fds, table[fd] = PipeEnd(c, s, e)
      PROVE  IsPiped(c, s) /\ fds[c][s][e] # FD_INVALID
  BY <1>1, <1>3, FdFacts DEF DutyInv, TableKnown
<1>4. ASSUME IsPiped(c, s), fds[c][s][e] # FD_INVALID
      PROVE  \E fd \in Fds : table[fd] = PipeEnd(c, s, e)
  <2>1. fds[c][s][e] \in Fds
    BY <1>1, <1>4 DEF DutyInv, HoldInv, OwnershipInv, TypeOK, FdOrInvalid
  <2>2. table[fds[c][s][e]] = PipeEnd(c, s, e)
    BY <1>1, <1>4 DEF DutyInv, HoldInv, OwnershipInv, Ownership, OwnedPipes, Remembers
  <2> QED
    BY <2>1, <2>2
<1> QED
  BY <1>2, <1>3, <1>4 DEF HoldsEnd, e

(* Every handle holds the ends of the streams left to pipes.               *)
LEMMA HandleHolds ==
    ASSUME DutyInv, NEW c \in Calls, At(c, "live")
    PROVE  EndsHeld(c) = PipedOf(c)
<1>1. Answered(c)
  BY DEF At, Answered
<1>2. OpenEnds(c) \subseteq OwnEnds(c) /\ OwnEnds(c) \subseteq BoundEnds(c)
  BY EndsOfSequences DEF DutyInv, CallerOwes, Kept, At
<1>3. ASSUME NEW s \in Streams PROVE <<s, ParentEnd(s)>> \in OwnEnds(c) <=> ~(s = "err" /\ Merged(c))
  BY EndWords DEF ParentEnd, OwnEnds
<1>4. ASSUME NEW s \in Streams
      PROVE  <<s, ParentEnd(s)>> \in OpenEnds(c) <=>
                ~Redirected(c, s) /\ <<s, ParentEnd(s)>> \in OwnEnds(c)
  BY <1>2 DEF OpenEnds, IsPiped
<1> QED
  BY <1>1, <1>3, <1>4, HeldIsOpen DEF EndsHeld, PipedOf

LEMMA ThrewHoldsNone ==
    ASSUME DutyInv, NEW c \in Calls, At(c, "threw")
    PROVE  EndsHeld(c) = {}
<1>1. OpenEnds(c) \subseteq {"fail"} \X PipeEnds
  BY EndsOfSequences DEF DutyInv, CallerOwes, Kept, At
<1>2. ASSUME NEW s \in Streams PROVE <<s, ParentEnd(s)>> \notin OpenEnds(c)
  BY <1>1, EndWords
<1> QED
  BY <1>2, HeldIsOpen DEF EndsHeld

(* What the caller holds, by what his call remembers and by where it is.   *)
View ==
    \A c \in Calls :
        /\ \A s \in Streams : HoldsEnd(c, s) <=> <<s, ParentEnd(s)>> \in OpenEnds(c)
        /\ At(c, "live") => EndsHeld(c) = PipedOf(c)
        /\ At(c, "threw") => EndsHeld(c) = {} /\ ~HasRun(c)

LEMMA ViewIsRight == DutyInv => View
<1>1. DutyInv => \A c \in Calls : pc[c] = "threw" => ~HasRun(c)
  BY DEF DutyInv, Childless, HasRun
<1> QED
  BY <1>1, HeldIsOpen, HandleHolds, ThrewHoldsNone DEF View, At

(* Nobody sees a step that leaves a call's variables and the status of its *)
(* child alone.                                                            *)
LEMMA UnseenFrame ==
    ASSUME View, View', use' = use, NEW d \in Calls,
           pc'[d] = pc[d], todo'[d] = todo[d], fds'[d] = fds[d], HasRun(d)' = HasRun(d)
    PROVE  Unseen(d)
<1>1. Answered(d)' = Answered(d) /\ AnswerOf(d)' = AnswerOf(d)
  BY DEF Answered, AnswerOf, At
<1>2. OpenEnds(d)' = OpenEnds(d)
  BY TargetsFixed DEF OpenEnds, BoundEnds
<1>3. \A s \in Streams : HoldsEnd(d, s)' <=> HoldsEnd(d, s)
  BY <1>2 DEF View
<1>4. EndsHeld(d)' = EndsHeld(d)
  BY <1>1, <1>3 DEF EndsHeld
<1> QED
  BY <1>1, <1>4 DEF Unseen

(* A caller that is not through with start() shows nothing.                *)
LEMMA PendingShowsNothing ==
    ASSUME NEW c \in Calls, pc[c] \notin {"idle", "dropped"},
           pc[c] \in {"live", "threw"} => todo[c] # <<>>
    PROVE  ~Answered(c) /\ AnswerOf(c) = "pending" /\ EndsHeld(c) = {}
BY DEF Answered, AnswerOf, EndsHeld, At

LEMMA PendingNext ==
    ASSUME NEW c \in Calls, pc'[c] \notin {"idle", "dropped"},
           pc'[c] \in {"live", "threw"} => todo'[c] # <<>>
    PROVE  AnswerOf(c)' = "pending" /\ EndsHeld(c)' = {}
BY DEF Answered, AnswerOf, EndsHeld, At

(* A throw is seen at once where there is nothing to close.                *)
LEMMA ThrowIsSeen ==
    ASSUME View', NEW c \in Calls, AnswerOf(c) = "pending", EndsHeld(c) = {}, ~HasRun(c),
           HasRun(c)' = HasRun(c), pc'[c] = "threw"
    PROVE  Seen(c)
<1>1. CASE todo'[c] = <<>>
  <2>1. At(c, "threw")'
    BY <1>1 DEF At
  <2>2. AnswerOf(c)' = "threw" /\ EndsHeld(c)' = {}
    BY <2>1 DEF AnswerOf, Answered, At, View
  <2> QED
    BY <2>2 DEF Seen
<1>2. CASE todo'[c] # <<>>
  BY <1>2, PendingNext DEF Seen, Unseen
<1> QED
  BY <1>1, <1>2

LEMMA SomethingToClose ==
    ASSUME NEW c \in Calls
    PROVE  NearEnds(c) # <<>>
<1>1. <<"fail", "read">> \in EndsOf(NearEnds(c)) /\ EndsOf(<<>>) = {}
  BY ClosedEnds
<1> QED
  BY <1>1

(* From the second step on until the answer a call is pending.             *)
LEMMA MidCallSeen ==
    ASSUME DutyInv, DutyInv', View, View', NEW c \in Calls,
           \/ BindStdout(c) \/ BindStderr(c) \/ CreateFailPipe(c) \/ Fork(c)
           \/ ForkFails(c) \/ ReadFully(c)
    PROVE  Seen(c)
<1>0. TypeOK /\ Childless(c) /\ Childless(c)'
  BY DEF DutyInv, HoldInv, OwnershipInv
<1> DEFINE Mid == {"bindOut", "bindErr", "failPipe", "fork", "read"}
<1>1. ASSUME NEW from \in Mid, At(c, from),
             NEW to \in Mid \cup {"reap", "live"}, NEW ends, Goto(c, to, ends),
             to = "live" => ends # <<>>,
             HasRun(c)' = HasRun(c)
      PROVE  Seen(c)
  <2>1. pc'[c] = to /\ todo'[c] = ends /\ pc[c] = from
    BY <1>0, <1>1 DEF Goto, At, TypeOK
  <2>2. AnswerOf(c) = "pending" /\ EndsHeld(c) = {}
    BY <2>1, PendingShowsNothing
  <2>3. AnswerOf(c)' = "pending" /\ EndsHeld(c)' = {}
    BY <1>1, <2>1, PendingNext
  <2> QED
    BY <1>1, <2>2, <2>3 DEF Seen, Unseen
<1>2. ASSUME cpc' = cpc PROVE HasRun(c)' = HasRun(c)
  BY <1>2 DEF HasRun
<1>3. ASSUME NEW from \in Mid, At(c, from), cpc' = cpc, NEW ends, Goto(c, "threw", ends)
      PROVE  Seen(c)
  <2>1. pc'[c] = "threw" /\ pc[c] = from
    BY <1>0, <1>3 DEF Goto, At, TypeOK
  <2>2. AnswerOf(c) = "pending" /\ EndsHeld(c) = {}
    BY <2>1, PendingShowsNothing
  <2>3. ~HasRun(c)
    BY <1>0, <1>3, <2>1 DEF Childless, HasRun
  <2> QED
    BY <1>2, <1>3, <2>1, <2>2, <2>3, ThrowIsSeen
<1> HIDE DEF Mid
<1>4. "bindOut" \in Mid /\ "bindErr" \in Mid /\ "failPipe" \in Mid /\ "fork" \in Mid /\ "read" \in Mid
  BY DEF Mid
<1>5. CASE BindStdout(c)
  <2>1. At(c, "bindOut") /\ cpc' = cpc
    BY <1>5 DEF BindStdout, Bind, BindFails, childVars
  <2>2. \/ Goto(c, "failPipe", <<>>) \/ Goto(c, "bindErr", <<>>)
        \/ Goto(c, "threw", BothEnds("in"))
    BY <1>5 DEF BindStdout, Bind, BindFails
  <2> QED
    BY <1>1, <1>2, <1>3, <1>4, <2>1, <2>2
<1>6. CASE BindStderr(c)
  <2>1. At(c, "bindErr") /\ cpc' = cpc
    BY <1>6 DEF BindStderr, Bind, BindFails, childVars
  <2>2. \E ends : Goto(c, "failPipe", <<>>) \/ Goto(c, "threw", ends)
    BY <1>6 DEF BindStderr, Bind, BindFails
  <2> QED
    BY <1>1, <1>2, <1>3, <1>4, <2>1, <2>2
<1>7. CASE CreateFailPipe(c)
  <2>1. At(c, "failPipe") /\ cpc' = cpc
    BY <1>7 DEF CreateFailPipe, childVars
  <2>2. Goto(c, "fork", <<>>) \/ Goto(c, "threw", RollbackEnds(c))
    BY <1>7 DEF CreateFailPipe
  <2> QED
    BY <1>1, <1>2, <1>3, <1>4, <2>1, <2>2
<1>8. CASE Fork(c)
  <2>1. At(c, "fork") /\ Goto(c, "read", <<<<"fail", "write">>>>)
    BY <1>8 DEF Fork
  <2>2. cpc[c] = "unborn" /\ cpc'[c] = "forked"
    BY <1>0, <1>8 DEF Fork, At, Childless, BeforeFork, TypeOK
  <2>3. HasRun(c)' = HasRun(c)
    BY <2>2 DEF HasRun
  <2> QED
    BY <1>1, <1>4, <2>1, <2>3
<1>9. CASE ForkFails(c)
  BY <1>3, <1>4, <1>9 DEF ForkFails, childVars
<1>10. CASE ReadFully(c)
  <2>1. PICK result \in ReadFullyResults(c) :
          CASE result = "eof"   -> Goto(c, "live", NearEnds(c))
            [] result = "errno" -> Goto(c, "reap", <<>>)
            [] result = "error" -> Goto(c, "threw", RollbackEnds(c))
    BY <1>10 DEF ReadFully
  <2>2. result \in {"eof", "errno", "error"}
    BY DEF ReadFullyResults
  <2>3. At(c, "read") /\ cpc' = cpc
    BY <1>10 DEF ReadFully, childVars
  <2>4. \/ Goto(c, "live", NearEnds(c)) \/ Goto(c, "reap", <<>>)
        \/ Goto(c, "threw", RollbackEnds(c))
    BY <2>1, <2>2
  <2> QED
    BY <1>1, <1>2, <1>3, <1>4, <2>3, <2>4, SomethingToClose
<1> QED
  BY <1>5, <1>6, <1>7, <1>8, <1>9, <1>10

(* start() begins, or fails before it made anything.                       *)
LEMMA BeginIsSeen ==
    ASSUME DutyInv, View, View', NEW c \in Calls, BindStdin(c)
    PROVE  Seen(c)
<1>0. TypeOK
  BY DEF DutyInv, HoldInv, OwnershipInv
<1>1. /\ At(c, "idle") /\ cpc' = cpc
      /\ Goto(c, "bindOut", <<>>) \/ Goto(c, "threw", <<>>)
  BY DEF BindStdin, Bind, BindFails, childVars
<1>2. AnswerOf(c) = "idle" /\ EndsHeld(c) = {} /\ HasRun(c)' = HasRun(c)
  BY <1>1 DEF AnswerOf, EndsHeld, Answered, At, HasRun
<1>3. CASE Goto(c, "bindOut", <<>>)
  <2>1. pc'[c] = "bindOut"
    BY <1>0, <1>3 DEF Goto, TypeOK
  <2>2. AnswerOf(c)' = "pending" /\ EndsHeld(c)' = {}
    BY <2>1, PendingNext
  <2> QED
    BY <1>2, <2>2 DEF Seen
<1>4. CASE Goto(c, "threw", <<>>)
  <2>1. pc'[c] = "threw" /\ todo'[c] = <<>>
    BY <1>0, <1>4 DEF Goto, TypeOK
  <2>2. AnswerOf(c)' = "threw" /\ EndsHeld(c)' = {}
    BY <2>1 DEF AnswerOf, Answered, At, View
  <2> QED
    BY <1>2, <2>2 DEF Seen
<1> QED
  BY <1>1, <1>3, <1>4

(* The last close of start() is its answer; the destructor's are seen one  *)
(* by one.                                                                 *)
LEMMA CloseIsSeen ==
    ASSUME DutyInv, TruthInv, View, View', NEW c \in Calls, FailFdSpared(c), CloseNext(c)
    PROVE  Seen(c)
<1> DEFINE h == Head(todo[c])
<1>0. TypeOK /\ CallerHolds(c) /\ ChildTruth(c) /\ CallerOwes(c) /\ Childless(c)
  BY DEF DutyInv, TruthInv, HoldInv, OwnershipInv
<1>1. /\ todo[c] \in Seq(EndNames) /\ todo[c] # <<>> /\ h \in EndNames
      /\ todo'[c] = Tail(todo[c]) /\ pc' = pc /\ cpc' = cpc /\ use' = use
      /\ \A pe \in EndNames : fds'[c][pe[1]][pe[2]] =
            IF pe = h THEN FD_INVALID ELSE fds[c][pe[1]][pe[2]]
  BY <1>0, CloseNextEnds
<1>2. HasRun(c)' = HasRun(c) /\ EndsOf(todo[c]) = {h} \cup EndsOf(todo'[c])
  BY <1>1, EndsOfSequences DEF HasRun
<1> HIDE DEF h
<1>3. OpenEnds(c)' = OpenEnds(c) \ {h}
  <2>1. BoundEnds(c)' = BoundEnds(c) \ {h}
    BY <1>1 DEF BoundEnds
  <2> QED
    BY <1>1, <2>1, TargetsFixed DEF OpenEnds
<1>4. pc[c] \in {"read", "live", "threw", "dropped"}
  BY <1>0, <1>1 DEF CallerOwes, CallerHolds, TypeOK, CallerPCs
<1>5. ASSUME pc[c] # "dropped" PROVE AnswerOf(c) = "pending" /\ EndsHeld(c) = {}
  BY <1>1, <1>4, <1>5, PendingShowsNothing
<1>6. ASSUME pc[c] = "read" \/ (pc[c] # "dropped" /\ todo'[c] # <<>>) PROVE Seen(c)
  <2>1. AnswerOf(c)' = "pending" /\ EndsHeld(c)' = {}
    BY <1>1, <1>4, <1>6, PendingNext
  <2> QED
    BY <1>2, <1>5, <1>6, <2>1 DEF Seen, Unseen
<1>7. ASSUME pc[c] = "live", todo'[c] = <<>> PROVE Seen(c)
  <2>1. At(c, "live")'
    BY <1>1, <1>7 DEF At
  <2>2. AnswerOf(c)' = "started"
    BY <2>1 DEF AnswerOf, Answered, At
  <2>3. EndsHeld(c)' = PipedOf(c)'
    BY <2>1 DEF View
  <2>4. PipedOf(c)' = PipedOf(c)
    BY <1>1 DEF PipedOf, Redirected, Target, Merged
  <2>5. HasRun(c)
    BY <1>0, <1>7 DEF ChildTruth
  <2> QED
    BY <1>2, <1>5, <1>7, <2>2, <2>3, <2>4, <2>5 DEF Seen
<1>8. ASSUME pc[c] = "threw", todo'[c] = <<>> PROVE Seen(c)
  <2>1. At(c, "threw")'
    BY <1>1, <1>8 DEF At
  <2>2. AnswerOf(c)' = "threw" /\ EndsHeld(c)' = {}
    BY <2>1 DEF AnswerOf, Answered, At, View
  <2>3. ~HasRun(c)
    BY <1>0, <1>8 DEF Childless, HasRun
  <2> QED
    BY <1>2, <1>5, <1>8, <2>2, <2>3 DEF Seen
<1>9. ASSUME pc[c] = "dropped" PROVE Seen(c)
  <2>1. /\ Answered(c) /\ AnswerOf(c) = "started"
        /\ Answered(c)' /\ AnswerOf(c)' = "started"
    BY <1>1, <1>9 DEF AnswerOf, Answered, At
  <2>2. h \in {<<"in", "write">>, <<"out", "read">>, <<"err", "read">>}
    BY <1>0, <1>2, <1>9, ClosedEnds DEF CallerOwes
  <2>3. PICK s \in Streams : h = <<s, ParentEnd(s)>>
    BY <2>2, EndWords DEF ParentEnd
  <2>4. EndsHeld(c) = {q \in Streams : <<q, ParentEnd(q)>> \in OpenEnds(c)}
    BY <2>1 DEF EndsHeld, View
  <2>5. EndsHeld(c)' = {q \in Streams : <<q, ParentEnd(q)>> \in OpenEnds(c)'}
    BY <2>1 DEF EndsHeld, View
  <2>6. EndsHeld(c)' = EndsHeld(c) \ {s}
    BY <1>3, <2>3, <2>4, <2>5
  <2> QED
    BY <1>2, <2>1, <2>6 DEF Seen, Unseen
<1> QED
  BY <1>4, <1>6, <1>7, <1>8, <1>9

LEMMA EndIsSeen ==
    ASSUME DutyInv, View, View', NEW c \in Calls, ReapFailedChild(c) \/ DropHandle(c)
    PROVE  Seen(c)
<1>0. TypeOK
  BY DEF DutyInv, HoldInv, OwnershipInv
<1>1. CASE ReapFailedChild(c)
  <2>1. /\ pc[c] = "reap" /\ pc'[c] = "threw" /\ todo'[c] = RollbackEnds(c)
        /\ cpc[c] = "exited" /\ cpc'[c] = "reaped"
    BY <1>0, <1>1 DEF ReapFailedChild, Goto, At, TypeOK
  <2>2. AnswerOf(c) = "pending" /\ EndsHeld(c) = {}
    BY <2>1, PendingShowsNothing
  <2>3. ~HasRun(c) /\ HasRun(c)' = HasRun(c)
    BY <2>1 DEF HasRun
  <2> QED
    BY <2>1, <2>2, <2>3, ThrowIsSeen
<1>2. CASE DropHandle(c)
  <2>1. At(c, "live") /\ pc'[c] = "dropped" /\ table' = table /\ cpc' = cpc
    BY <1>0, <1>2 DEF DropHandle, Goto, TypeOK, childVars
  <2>2. Answered(c) /\ Answered(c)' /\ AnswerOf(c) = "started" /\ AnswerOf(c)' = "started"
    BY <2>1 DEF Answered, AnswerOf, At
  <2> QED
    BY <2>1, <2>2 DEF Seen, Unseen, EndsHeld, HoldsEnd, HasRun
<1> QED
  BY <1>1, <1>2

(* The exec is when the program runs, and start() has not answered then.   *)
LEMMA ChildIsSeen ==
    ASSUME DutyInv, TruthInv, NEW c \in Calls, FailFdSpared(c),
           ChildStep(c) \/ ProgramEnds(c)
    PROVE  Seen(c)
<1>0. TypeOK /\ ChildTruth(c) /\ Childless(c)
  BY DEF DutyInv, TruthInv, HoldInv, OwnershipInv
<1>1. pc' = pc /\ todo' = todo /\ fds' = fds /\ table' = table
  BY DEF ChildStep, Rewire, CloseAllDescriptors, Chdir, SetCloexec, Exec, ExecFails,
         WriteError, ChildExit, ProgramEnds, callerVars
<1>2. AnswerOf(c)' = AnswerOf(c) /\ EndsHeld(c)' = EndsHeld(c)
  BY <1>1 DEF AnswerOf, EndsHeld, Answered, At, HoldsEnd
<1>3. CASE Exec(c)
  <2>1. cpc[c] = "armed" /\ cpc'[c] = "program"
    BY <1>0, <1>3 DEF Exec, ChildGoes, TypeOK
  <2>2. pc[c] \notin {"idle", "live", "dropped", "threw"}
    BY <1>0, <2>1 DEF ChildTruth, Childless, BeforeFork, HasRun
  <2>3. AnswerOf(c) = "pending"
    BY <2>2, PendingShowsNothing
  <2> QED
    BY <1>2, <2>1, <2>3 DEF Seen, HasRun
<1>4. CASE ~Exec(c)
  <2>1. HasRun(c)' = HasRun(c)
    BY <1>0, <1>4 DEF ChildStep, Rewire, CloseAllDescriptors, Chdir, SetCloexec, ExecFails,
         WriteError, ChildExit, ProgramEnds, ChildGoes, HasRun, TypeOK
  <2> QED
    BY <1>2, <2>1 DEF Seen, Unseen
<1> QED
  BY <1>3, <1>4

LEMMA StepKeepsContract ==
    ASSUME DutyInv, DutyInv', TruthInv, View, View',
           \A c \in Calls : FailFdSpared(c), [Next]_vars
    PROVE  [Contract!Next]_(Contract!vars)
<1>0. TypeOK /\ use' = use
  BY UseFixed DEF DutyInv, HoldInv, OwnershipInv
<1>1. ASSUME NEW c \in Calls,
             \/ BindStdin(c) \/ CallerStep(c) \/ DropHandle(c)
             \/ ChildStep(c) \/ ProgramEnds(c)
      PROVE  [Contract!Next]_(Contract!vars)
  <2>1. ASSUME NEW d \in Calls \ {c} PROVE Unseen(d)
    <3>1. pc'[d] = pc[d] /\ todo'[d] = todo[d] /\ fds'[d] = fds[d] /\ cpc'[d] = cpc[d]
      BY <1>0, <1>1, OthersUnchanged
    <3>2. HasRun(d)' = HasRun(d)
      BY <3>1 DEF HasRun
    <3> QED
      BY <1>0, <3>1, <3>2, UnseenFrame
  <2>2. Seen(c)
    <3>1. CASE BindStdin(c)
      BY <3>1, BeginIsSeen
    <3>2. CASE CallerStep(c)
      BY <3>2, MidCallSeen, CloseIsSeen, EndIsSeen DEF CallerStep
    <3>3. CASE DropHandle(c)
      BY <3>3, EndIsSeen
    <3>4. CASE ChildStep(c) \/ ProgramEnds(c)
      BY <3>4, ChildIsSeen
    <3> QED
      BY <1>1, <3>1, <3>2, <3>3, <3>4
  <2> QED
    BY <1>0, <2>1, <2>2, SeenIsContract
<1>2. ASSUME pc' = pc, todo' = todo, fds' = fds, cpc' = cpc
      PROVE  [Contract!Next]_(Contract!vars)
  <2>1. \A d \in Calls : Unseen(d)
    BY <1>0, <1>2, UnseenFrame DEF HasRun
  <2>2. CASE Calls = {}
    BY <1>0, <2>2 DEF Contract!vars
  <2>3. ASSUME NEW c \in Calls PROVE [Contract!Next]_(Contract!vars)
    BY <1>0, <2>1, SeenIsContract DEF Seen
  <2> QED
    BY <2>2, <2>3
<1>3. CASE \/ \E f \in use.userFiles : UserOpen(f)
           \/ \E fd \in Fds : UserClose(fd)
  BY <1>2, <1>3 DEF UserOpen, UserClose, childVars
<1>4. CASE UNCHANGED vars
  BY <1>2, <1>4 DEF vars
<1> QED
  BY <1>1, <1>3, <1>4 DEF Next, AllDone

LEMMA InitKeepsContract == Init => Contract!Init
<1> SUFFICES ASSUME Init PROVE Contract!Init
  OBVIOUS
<1>1. \A c \in Calls : ~HasRun(c) /\ AnswerOf(c) = "idle" /\ ~Answered(c)
  BY DEF Init, HasRun, AnswerOf, Answered, At
<1>2. \A c \in Calls : HasRun(c) = FALSE
  BY <1>1 DEF HasRun
<1>3. [c \in Calls |-> HasRun(c)] = [c \in Calls |-> FALSE]
  BY <1>2, Zenon
<1>4. [c \in Calls |-> AnswerOf(c)] = [c \in Calls |-> "idle"]
  BY <1>1
<1>5. [c \in Calls |-> EndsHeld(c)] = [c \in Calls |-> {}]
  BY <1>1 DEF EndsHeld
<1> QED
  BY <1>3, <1>4, <1>5 DEF Contract!Init, EndsHeld, HoldsEnd

(* start() and the destructor implement SpawnContract, as long as no call  *)
(* goes to close a redirect target and every child finds its fail pipe     *)
(* spared: whatever fails and whatever runs in between, an answer "started"*)
(* comes with a program that runs and with all its ends, a throw with      *)
(* neither, and nothing but the destructor takes an end away.  Liveness is *)
(* left to TLC.                                                            *)
FailFdsSpared == \A c \in Calls : FailFdSpared(c)

THEOREM StartImplementsContract ==
    Spec /\ TargetsOpen /\ []TargetsSpared /\ []FailFdsSpared
        => Contract!Init /\ [][Contract!Next]_(Contract!vars)
<1>1. DutyInv => View
  BY ViewIsRight
<1>2. DutyInv /\ DutyInv' /\ TruthInv /\ View /\ View' /\ FailFdsSpared /\ [Next]_vars
        => [Contract!Next]_(Contract!vars)
  BY StepKeepsContract DEF FailFdsSpared
<1> QED
  BY <1>1, <1>2, InitKeepsContract, DutyInvariant, TruthInvariant, PTL DEF Spec
================================================================================
