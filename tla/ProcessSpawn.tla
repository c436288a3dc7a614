------------------------------ MODULE ProcessSpawn -----------------------------
(***************************************************************************)
(* process_builder::start(): create_process (process.cpp), create_process_ *)
(* impl and child_proc (process_unix.cpp), down to the descriptors.        *)
(*                                                                         *)
(* Every call of start() runs in a thread of the parent; the threads share *)
(* the parent's descriptor table.  A child has the copy of the table and   *)
(* of the caller's local variables that fork(2) made.  One action is one   *)
(* system call of a caller, since the other threads can run in between; a  *)
(* child has a table of its own, so its runs of dup2 and close are one     *)
(* action each.                                                            *)
(***************************************************************************)
EXTENDS Descriptors, Sequences

CONSTANTS
    Calls,          \* the calls of start(), one thread and one child each
    Files,          \* what the user's own descriptors name
    Uses            \* the ways the program uses the library, see Use

Streams == {"in", "out", "err"}
Pipes == Streams \cup {"fail"}

(* One end of a pipe that create_process or create_process_impl made.      *)
PipeEnd(c, p, e) == [call |-> c, pipe |-> p, end |-> e]
PipeObjects == [call : Calls, pipe : Pipes, end : PipeEnds]
Objects == Files \cup PipeObjects
Tables == [Fds -> Objects \cup {Closed}]

FdOrInvalid == Fds \cup {FD_INVALID}
Startup == [target : [Streams -> FdOrInvalid], merge : BOOLEAN]

(* A use of the library: the parent's table before the first call, with    *)
(* stdio open; the files the user opens and closes as the calls run; and   *)
(* whether all of this is done by one thread; the _startup of each call.   *)
Use == [table : [Fds -> Files \cup {Closed}], userFiles : SUBSET Files,
        oneThread : BOOLEAN, startup : [Calls -> Startup]]

ASSUME ObjectsAssumption == Closed \notin Objects /\ Files \cap PipeObjects = {}
ASSUME UsesAssumption ==
    /\ Uses \subseteq Use
    /\ \A u \in Uses : \A fd \in Stdio : /\ u.table[fd] # Closed
                                       /\ u.table[fd] \notin u.userFiles

VARIABLES
    use,        \* the use of the library under way; it never changes
    table,      \* the parent's descriptor table
    held,       \* the numbers the user opened and has not closed himself
    pc,         \* where each caller is
    todo,       \* the ends a caller is still to close before it goes on
    fds,        \* pstdin, pstdout, pstderr and pfail of each call
    cpc,        \* where each child is
    ctable,     \* each child's descriptor table
    cfds,       \* each child's copy of fds
    report      \* whether the fail pipe of a call holds an errno

callerVars == <<table, pc, todo, fds>>
childVars == <<cpc, ctable, cfds, report>>
vars == <<use, table, held, pc, todo, fds, cpc, ctable, cfds, report>>

CallerPCs == {"idle", "bindOut", "bindErr", "failPipe", "fork", "read", "reap",
              "live", "dropped", "threw"}
ChildPCs == {"unborn", "forked", "wired", "swept", "inCwd", "armed", "failing",
             "told", "exited", "reaped", "program", "ended"}

Target(c, s) == use.startup[c].target[s]
Redirected(c, s) == Target(c, s) # FD_INVALID
Merged(c) == use.startup[c].merge
At(c, label) == pc[c] = label /\ todo[c] = <<>>
InStart(c) == pc[c] \notin {"idle", "live", "dropped", "threw"} \/ todo[c] # <<>>

(* A new piece of work in the parent waits for nothing, unless there is    *)
(* only one thread to do it.                                               *)
ThreadFree == use.oneThread => \A c \in Calls : ~InStart(c)

AllInvalid == [p \in Pipes |-> [e \in PipeEnds |-> FD_INVALID]]
AllClosed == [fd \in Fds |-> Closed]

Init ==
    /\ use \in Uses
    /\ table = use.table
    /\ held = use.table
    /\ pc = [c \in Calls |-> "idle"]
    /\ todo = [c \in Calls |-> <<>>]
    /\ fds = [c \in Calls |-> AllInvalid]
    /\ cpc = [c \in Calls |-> "unborn"]
    /\ ctable = [c \in Calls |-> AllClosed]
    /\ cfds = [c \in Calls |-> AllInvalid]
    /\ report = [c \in Calls |-> FALSE]

--------------------------------------------------------------------------------
(* The caller.                                                             *)

(* Close the ends in the sequence, in order, then go on at the label.      *)
Goto(c, label, ends) == /\ pc' = [pc EXCEPT ![c] = label]
                        /\ todo' = [todo EXCEPT ![c] = ends]

BothEnds(p) == <<<<p, "read">>, <<p, "write">>>>
PipedOnly(c, s, ends) == IF Redirected(c, s) THEN <<>> ELSE ends

(* Mutant: close(2) is tried again after EINTR, which has closed the number*)
(* already.                                                                *)
CloseNextRetried(c) ==
    /\ todo[c] # <<>>
    /\ LET p == Head(todo[c])[1]
           e == Head(todo[c])[2]
       IN  /\ table' = CloseFd(table, fds[c][p][e])
           /\ \/ UNCHANGED <<fds, todo>>
              \/ /\ fds' = [fds EXCEPT ![c][p][e] = FD_INVALID]
                 /\ todo' = [todo EXCEPT ![c] = Tail(@)]
    /\ UNCHANGED <<use, held, pc, childVars>>

(* close_fd(fd&): closes whatever the number names now, and resets it.     *)
CloseNext(c) ==
    /\ todo[c] # <<>>
    /\ LET p == Head(todo[c])[1]
           e == Head(todo[c])[2]
       IN  /\ table' = CloseFd(table, fds[c][p][e])
           /\ fds' = [fds EXCEPT ![c][p][e] = FD_INVALID]
    /\ todo' = [todo EXCEPT ![c] = Tail(@)]
    /\ UNCHANGED <<use, held, pc, childVars>>

CreatePipe(c, p) ==
    \E r, w \in Fds :
        /\ NewPipe(table, r, w)
        /\ table' = [table EXCEPT ![r] = PipeEnd(c, p, "read"),
                                  ![w] = PipeEnd(c, p, "write")]
        /\ fds' = [fds EXCEPT ![c][p] = [read |-> r, write |-> w]]

(* Mutant: the result of pipe() is not looked at.                          *)
RedirectOrPipeUnchecked(c, s) ==
    \/ ~Redirected(c, s) /\ CreatePipe(c, s)
    \/ /\ Redirected(c, s) \/ ~CanCreatePipe(table)
       /\ fds' = [fds EXCEPT ![c][s] =
                     [e \in PipeEnds |-> IF Redirected(c, s) THEN Target(c, s)
                                         ELSE MaxFd + 1]]
       /\ UNCHANGED table

RedirectOrPipe(c, s) ==
    \/ /\ Redirected(c, s)
       /\ fds' = [fds EXCEPT ![c][s] = [e \in PipeEnds |-> Target(c, s)]]
       /\ UNCHANGED table
    \/ ~Redirected(c, s) /\ CreatePipe(c, s)

Bind(c, s, from, to) ==
    /\ At(c, from)
    /\ RedirectOrPipe(c, s)
    /\ Goto(c, to, <<>>)
    /\ UNCHANGED <<use, held, childVars>>

(* The catch-less failures of create_process: no test for redirected().    *)
BindFails(c, s, from, undo) ==
    /\ At(c, from)
    /\ ~Redirected(c, s) /\ ~CanCreatePipe(table)
    /\ Goto(c, "threw", undo)
    /\ UNCHANGED <<use, table, held, fds, childVars>>

BindStdin(c) == /\ ThreadFree
                /\ \/ Bind(c, "in", "idle", "bindOut")
                   \/ BindFails(c, "in", "idle", <<>>)

(* Mutant: the stdin pipe is forgotten when stdout cannot be bound.        *)
BindStdoutNoUndo(c) ==
    \/ Bind(c, "out", "bindOut", IF Merged(c) THEN "failPipe" ELSE "bindErr")
    \/ BindFails(c, "out", "bindOut", <<>>)

BindStdout(c) ==
    \/ Bind(c, "out", "bindOut", IF Merged(c) THEN "failPipe" ELSE "bindErr")
    \/ BindFails(c, "out", "bindOut", BothEnds("in"))

BindStderr(c) ==
    \/ Bind(c, "err", "bindErr", "failPipe")
    \/ BindFails(c, "err", "bindErr", BothEnds("in") \o BothEnds("out"))

(* Mutant: the rollback keeps the ends the caller would have used.         *)
RollbackChildEnds(c) == PipedOnly(c, "in", <<<<"in", "read">>>>)
                        \o PipedOnly(c, "out", <<<<"out", "write">>>>)
                        \o PipedOnly(c, "err", <<<<"err", "write">>>>)

(* The catch block of create_process: the fail pipe is not its concern.    *)
RollbackEnds(c) == PipedOnly(c, "in", BothEnds("in"))
                   \o PipedOnly(c, "out", BothEnds("out"))
                   \o PipedOnly(c, "err", BothEnds("err"))

CreateFailPipe(c) ==
    /\ At(c, "failPipe")
    /\ \/ CreatePipe(c, "fail") /\ Goto(c, "fork", <<>>)
       \/ /\ ~CanCreatePipe(table)
          /\ Goto(c, "threw", RollbackEnds(c))
          /\ UNCHANGED <<table, fds>>
    /\ UNCHANGED <<use, held, childVars>>

Fork(c) ==
    /\ At(c, "fork")
    /\ cpc' = [cpc EXCEPT ![c] = "forked"]
    /\ ctable' = [ctable EXCEPT ![c] = table]
    /\ cfds' = [cfds EXCEPT ![c] = fds[c]]
    /\ Goto(c, "read", <<<<"fail", "write">>>>)
    /\ UNCHANGED <<use, table, held, fds, report>>

ForkFails(c) ==
    /\ At(c, "fork")
    /\ Goto(c, "threw", RollbackEnds(c))
    /\ UNCHANGED <<use, table, held, fds, childVars>>

(* A write end of call c's fail pipe is open in some process.              *)
FailPipeHasWriter(c) ==
    \E fd \in Fds : \/ table[fd] = PipeEnd(c, "fail", "write")
                    \/ \E d \in Calls : ctable[d][fd] = PipeEnd(c, "fail", "write")

(* What read_fully may return.  The number may no longer name the fail     *)
(* pipe when another thread closed it; what a read of somebody else's      *)
(* object brings is left open, except that a write end cannot be read.     *)
ReadFullyResults(c) ==
    LET fd == fds[c]["fail"]["read"]
        object == IF fd \in Fds THEN table[fd] ELSE Closed
    IN  CASE object = PipeEnd(c, "fail", "read") ->
                 IF report[c] THEN {"errno"}
                 ELSE IF FailPipeHasWriter(c) THEN {} ELSE {"eof"}
          [] object \in {Closed} \cup {PipeEnd(d, p, "write") : d \in Calls, p \in Pipes} ->
                 {"error"}
          [] OTHER -> {"eof", "error"}

(* Mutant: the whole stdin pipe is closed once the child runs.             *)
NearEndsAndStdin(c) == <<<<"fail", "read">>>>
                       \o PipedOnly(c, "in", BothEnds("in"))
                       \o PipedOnly(c, "out", <<<<"out", "write">>>>)
                       \o (IF Merged(c) THEN <<>>
                           ELSE PipedOnly(c, "err", <<<<"err", "write">>>>))

(* The parent's copies of the ends that only the child needs.              *)
NearEnds(c) == <<<<"fail", "read">>>>
               \o PipedOnly(c, "in", <<<<"in", "read">>>>)
               \o PipedOnly(c, "out", <<<<"out", "write">>>>)
               \o (IF Merged(c) THEN <<>>
                   ELSE PipedOnly(c, "err", <<<<"err", "write">>>>))

(* Mutant: an exec failure is reported without a waitpid for the child.    *)
ReadFullyNoWait(c) ==
    /\ At(c, "read")
    /\ \E result \in ReadFullyResults(c) :
          IF result = "eof" THEN Goto(c, "live", NearEnds(c))
                            ELSE Goto(c, "threw", RollbackEnds(c))
    /\ UNCHANGED <<use, table, held, fds, childVars>>

ReadFully(c) ==
    /\ At(c, "read")
    /\ \E result \in ReadFullyResults(c) :
          CASE result = "eof"   -> Goto(c, "live", NearEnds(c))
            [] result = "errno" -> Goto(c, "reap", <<>>)
            [] result = "error" -> Goto(c, "threw", RollbackEnds(c))
    /\ UNCHANGED <<use, table, held, fds, childVars>>

(* waitpid for the child that could not exec.                              *)
ReapFailedChild(c) ==
    /\ At(c, "reap")
    /\ cpc[c] = "exited"
    /\ cpc' = [cpc EXCEPT ![c] = "reaped"]
    /\ Goto(c, "threw", RollbackEnds(c))
    /\ UNCHANGED <<use, table, held, fds, ctable, cfds, report>>

(* Mutant: the typo of member_holder's third initializer (process.hpp:94)  *)
(* in close_process: _stdout stands where _stderr should.                  *)
HandleEndsTypo == <<<<"in", "write">>, <<"err", "read">>, <<"err", "read">>>>

(* info._stdin, _stdout and _stderr: what close_process closes when the    *)
(* process object goes away.                                               *)
HandleEnds == <<<<"in", "write">>, <<"out", "read">>, <<"err", "read">>>>

DropHandle(c) ==
    /\ At(c, "live") /\ ThreadFree
    /\ Goto(c, "dropped", HandleEnds)
    /\ UNCHANGED <<use, table, held, fds, childVars>>

CallerStep(c) == \/ CloseNext(c)
                 \/ BindStdout(c)
                 \/ BindStderr(c)
                 \/ CreateFailPipe(c)
                 \/ Fork(c)
                 \/ ForkFails(c)
                 \/ ReadFully(c)
                 \/ ReapFailedChild(c)

--------------------------------------------------------------------------------
(* The child, from fork to exec.                                           *)

ChildGoes(c, from, to) == cpc[c] = from /\ cpc' = [cpc EXCEPT ![c] = to]

FailFd(c) == cfds[c]["fail"]["write"]

(* Mutant: with merged outputs stderr is not duplicated from stdout.       *)
RewiredNoMerge(c, t0) ==
    LET p == cfds[c]
        piped(s, e) == IF Redirected(c, s) THEN {} ELSE {p[s][e]}
        t1 == CloseFds(t0, {p["fail"]["read"]} \cup piped("in", "write")
                           \cup piped("out", "read") \cup piped("err", "read"))
        t2 == Dup2(t1, p["in"]["read"], STDIN_FILENO)
        t3 == Dup2(t2, p["out"]["write"], STDOUT_FILENO)
        t4 == Dup2(t3, p["err"]["write"], STDERR_FILENO)
    IN  CloseFds(t4, {p["in"]["read"], p["out"]["write"], p["err"]["write"]})

(* The child's table after the block of close_fd and dup2 calls.           *)
Rewired(c, t0) ==
    LET p == cfds[c]
        piped(s, e) == IF Redirected(c, s) THEN {} ELSE {p[s][e]}
        t1 == CloseFds(t0, {p["fail"]["read"]} \cup piped("in", "write")
                                               \cup piped("out", "read"))
        t2 == Dup2(t1, p["in"]["read"], STDIN_FILENO)
        t3 == Dup2(t2, p["out"]["write"], STDOUT_FILENO)
        t4 == IF Merged(c)
              THEN Dup2(t3, p["out"]["write"], STDERR_FILENO)
              ELSE Dup2(CloseFds(t3, piped("err", "read")),
                        p["err"]["write"], STDERR_FILENO)
    IN  CloseFds(t4, {p["in"]["read"], p["out"]["write"], p["err"]["write"]})

Rewire(c) ==
    /\ ChildGoes(c, "forked", "wired")
    /\ ctable' = [ctable EXCEPT ![c] = Rewired(c, @)]
    /\ UNCHANGED <<use, callerVars, held, cfds, report>>

FromFd == STDERR_FILENO + 1

(* Mutant: only the pipe ends of the call itself are closed, as if the     *)
(* table of the parent held nothing else.                                  *)
SweptOwnOnly(c) == {cfds[c][p][e] : p \in Streams, e \in PipeEnds} \ {FD_INVALID}

(* Mutant: the two numbers reserved for opendir are left open.             *)
SweptFromFive(c) == {fd \in Fds : fd >= FromFd + 2 /\ fd # FailFd(c)}

(* The first two numbers above stdio go without a look at fail_fd, whether *)
(* opendir succeeds or the fallback loop does the rest.                    *)
Swept(c) == {fd \in Fds : /\ fd >= FromFd
                          /\ fd >= FromFd + 2 => fd # FailFd(c)}

CloseAllDescriptors(c) ==
    /\ ChildGoes(c, "wired", "swept")
    /\ ctable' = [ctable EXCEPT ![c] = CloseFds(@, Swept(c))]
    /\ UNCHANGED <<use, callerVars, held, cfds, report>>

Chdir(c) ==
    /\ \/ ChildGoes(c, "swept", "inCwd")
       \/ ChildGoes(c, "swept", "failing")
    /\ UNCHANGED <<use, callerVars, held, ctable, cfds, report>>

(* fcntl(fail_fd, F_SETFD, FD_CLOEXEC)                                     *)
SetCloexec(c) ==
    /\ \/ ChildGoes(c, "inCwd", "armed") /\ ctable[c][FailFd(c)] # Closed
       \/ ChildGoes(c, "inCwd", "failing") /\ ctable[c][FailFd(c)] = Closed
    /\ UNCHANGED <<use, callerVars, held, ctable, cfds, report>>

(* Mutant: the fail pipe survives the exec.                                *)
ExecKeepsFailFd(c) ==
    /\ ChildGoes(c, "armed", "program")
    /\ UNCHANGED <<use, callerVars, held, ctable, cfds, report>>

(* A successful exec closes the one descriptor marked FD_CLOEXEC.          *)
Exec(c) ==
    /\ ChildGoes(c, "armed", "program")
    /\ ctable' = [ctable EXCEPT ![c] = CloseFd(@, FailFd(c))]
    /\ UNCHANGED <<use, callerVars, held, cfds, report>>

ExecFails(c) ==
    /\ ChildGoes(c, "armed", "failing")
    /\ UNCHANGED <<use, callerVars, held, ctable, cfds, report>>

(* Mutant: the child leaves without a word.                                *)
WriteErrorNothing(c) ==
    /\ ChildGoes(c, "failing", "told")
    /\ UNCHANGED <<use, callerVars, held, ctable, cfds, report>>

(* exit_with_error: the errno is lost when fail_fd is not the fail pipe.   *)
WriteError(c) ==
    /\ ChildGoes(c, "failing", "told")
    /\ report' = [report EXCEPT ![c] =
                     @ \/ ctable[c][FailFd(c)] = PipeEnd(c, "fail", "write")]
    /\ UNCHANGED <<use, callerVars, held, ctable, cfds>>

ChildExit(c) ==
    /\ ChildGoes(c, "told", "exited")
    /\ ctable' = [ctable EXCEPT ![c] = AllClosed]
    /\ UNCHANGED <<use, callerVars, held, cfds, report>>

ChildStep(c) == \/ Rewire(c)
                \/ CloseAllDescriptors(c)
                \/ Chdir(c)
                \/ SetCloexec(c)
                \/ Exec(c)
                \/ ExecFails(c)
                \/ WriteError(c)
                \/ ChildExit(c)

(* The program that was started ends, in its own time.                     *)
ProgramEnds(c) ==
    /\ ChildGoes(c, "program", "ended")
    /\ ctable' = [ctable EXCEPT ![c] = AllClosed]
    /\ UNCHANGED <<use, callerVars, held, cfds, report>>

--------------------------------------------------------------------------------
(* The rest of the parent: the user opens and closes files of his own.  He *)
(* keeps a redirect target open until the call that uses it has returned.  *)

UserOpen(f) ==
    /\ ThreadFree
    /\ \A fd \in Fds : held[fd] # f /\ table[fd] # f
    /\ \E fd \in Fds : /\ LowestFree(table, fd)
                       /\ table' = [table EXCEPT ![fd] = f]
                       /\ held' = [held EXCEPT ![fd] = f]
    /\ UNCHANGED <<use, pc, todo, fds, childVars>>

UserClose(fd) ==
    /\ held[fd] \in use.userFiles /\ ThreadFree
    /\ \A c \in Calls : \A s \in Streams :
          Target(c, s) = fd => pc[c] # "idle" /\ ~InStart(c)
    /\ table' = CloseFd(table, fd)
    /\ held' = CloseFd(held, fd)
    /\ UNCHANGED <<use, pc, todo, fds, childVars>>

(* Every handle is gone and no child is left that could move.              *)
AllDone ==
    /\ \A c \in Calls : /\ pc[c] \in {"dropped", "threw"} /\ todo[c] = <<>>
                        /\ cpc[c] \in {"unborn", "exited", "reaped", "ended"}
    /\ UNCHANGED vars

Next ==
    \/ \E c \in Calls : \/ BindStdin(c)
                        \/ CallerStep(c)
                        \/ DropHandle(c)
                        \/ ChildStep(c)
                        \/ ProgramEnds(c)
    \/ \E f \in use.userFiles : UserOpen(f)
    \/ \E fd \in Fds : UserClose(fd)
    \/ AllDone

(* The threads of the parent and the children are scheduled: a caller that *)
(* is inside start() or the destructor, and a child short of its exec, are *)
(* not suspended for ever.  Nothing makes the user call start(), drop a    *)
(* handle, or a program end.                                               *)
Fairness == \A c \in Calls : WF_vars(CallerStep(c)) /\ WF_vars(ChildStep(c))

Spec == Init /\ [][Next]_vars
FairSpec == Spec /\ Fairness
--------------------------------------------------------------------------------
(* The type of every variable.                                             *)
TypeOK ==
    /\ use \in Uses
    /\ table \in Tables
    /\ held \in [Fds -> Files \cup {Closed}]
    /\ pc \in [Calls -> CallerPCs]
    /\ todo \in [Calls -> Seq(Pipes \X PipeEnds)]
    /\ fds \in [Calls -> [Pipes -> [PipeEnds -> FdOrInvalid]]]
    /\ cpc \in [Calls -> ChildPCs]
    /\ ctable \in [Calls -> Tables]
    /\ cfds \in [Calls -> [Pipes -> [PipeEnds -> FdOrInvalid]]]
    /\ report \in [Calls -> BOOLEAN]

NoRedirects == \A c \in Calls : \A s \in Streams : ~Redirected(c, s)

(* Every number a caller remembers names the very pipe end the caller made:*)
(* no other call, no handle and no rollback closes a number that has been  *)
(* given to somebody else since.                                           *)
OwnedEnds ==
    \A c \in Calls : \A p \in Pipes : \A e \in PipeEnds :
        fds[c][p][e] # FD_INVALID => table[fds[c][p][e]] = PipeEnd(c, p, e)

(* A handle that start() has returned has the parent's end of every stream *)
(* that was not redirected, until it is dropped.                           *)
HandleConnected ==
    \A c \in Calls : At(c, "live") =>
        /\ fds[c]["in"]["write"] # FD_INVALID
        /\ fds[c]["out"]["read"] # FD_INVALID
        /\ ~Merged(c) => fds[c]["err"]["read"] # FD_INVALID

(* The library closes no descriptor of the user: what he opened and has    *)
(* not closed himself is still his.  "note: we should NOT close user       *)
(* provided redirect target fd, let users to close" (process.cpp:52-53).   *)
UserFdsKept == \A fd \in Fds : held[fd] # Closed => table[fd] = held[fd]

HoldsAny(t, c, pipes) ==
    \E fd \in Fds : t[fd] \in {PipeEnd(c, p, e) : p \in pipes, e \in PipeEnds}

(* When start() has thrown, its rollback has closed every end of the three *)
(* stream pipes in the parent, whichever step failed.                      *)
RollbackClosesStreams ==
    \A c \in Calls : At(c, "threw") => ~HoldsAny(table, c, Streams)

(* After a start() that threw nothing it opened is open: the "rollback     *)
(* work" of process.cpp:51 leaves no descriptor behind.                    *)
RollbackIsTotal == \A c \in Calls : At(c, "threw") => ~HoldsAny(table, c, Pipes)

(* After the destructor nothing that start() opened is open in the parent. *)
DropClosesAll == \A c \in Calls : At(c, "dropped") => ~HoldsAny(table, c, Pipes)

(* The child keeps its fail pipe through close_all_descriptors.            *)
FailFdSpared(c) == FailFd(c) \notin Swept(c) \cup Stdio

HasRun(c) == cpc[c] \in {"program", "ended"}

(* start() returns a handle only for a program that runs: the end of file  *)
(* on the fail pipe comes from the exec and from nothing else, in any      *)
(* interleaving of the calls -- as long as fail_fd is a number that        *)
(* close_all_descriptors spares.                                           *)
SuccessIsTruthful ==
    \A c \in Calls : pc[c] \in {"live", "dropped"} /\ FailFdSpared(c) => HasRun(c)

(* "case 0: child exec succeeded" (process_unix.cpp:457-459), with no      *)
(* reservation about the number of the fail pipe.                          *)
EofMeansExec == \A c \in Calls : pc[c] \in {"live", "dropped"} => HasRun(c)

(* A start() that threw has no child: none was forked, or the one that     *)
(* could not exec has been waited for.                                     *)
ThrowLeavesNoChild ==
    \A c \in Calls : pc[c] = "threw" => cpc[c] \in {"unborn", "reaped"}

(* The object the child's standard stream s has to be.                     *)
Wanted(c, s) ==
    IF s = "err" /\ Merged(c) THEN
        IF Redirected(c, "out") THEN use.table[Target(c, "out")]
        ELSE PipeEnd(c, "out", "write")
    ELSE IF Redirected(c, s) THEN use.table[Target(c, s)]
    ELSE PipeEnd(c, s, IF s = "in" THEN "read" ELSE "write")

(* The program that exec starts has exactly three descriptors: its own     *)
(* pipe ends, or the redirect targets the caller named, on 0, 1 and 2.     *)
(* Nothing of the caller, of its other calls or of the fail pipe leaks in, *)
(* though pipe() sets no close-on-exec flag and fork copies everything.    *)
ProgramHasItsStreams ==
    \A c \in Calls : cpc[c] = "program" =>
        /\ ctable[c][STDIN_FILENO]  = Wanted(c, "in")
        /\ ctable[c][STDOUT_FILENO] = Wanted(c, "out")
        /\ ctable[c][STDERR_FILENO] = Wanted(c, "err")
        /\ \A fd \in Fds \ Stdio : ctable[c][fd] = Closed

(* start() comes to an answer: the parent does not "get stuck in           *)
(* read_fully" (process_unix.cpp:413-414), even when a child of another    *)
(* call was forked with a copy of the fail pipe.                           *)
StartReturns ==
    \A c \in Calls : InStart(c) ~> At(c, "live") \/ pc[c] \in {"threw", "dropped"}

StdinHasWriter(c) ==
    \E fd \in Fds : \/ table[fd] = PipeEnd(c, "in", "write")
                    \/ \E d \in Calls : ctable[d][fd] = PipeEnd(c, "in", "write")

(* Once the handle is dropped the program reads end of file on its stdin:  *)
(* no copy of the write end lives on in a child of another call.           *)
DropEndsStdin == \A c \in Calls : pc[c] = "dropped" ~> ~StdinHasWriter(c)

--------------------------------------------------------------------------------
(* What the caller can see of this state, for SpawnContract.               *)
Answered(c) == /\ pc[c] \in {"live", "dropped", "threw"}
               /\ todo[c] = <<>> \/ pc[c] = "dropped"

AnswerOf(c) == IF At(c, "idle") THEN "idle"
               ELSE IF ~Answered(c) THEN "pending"
               ELSE IF pc[c] = "threw" THEN "threw" ELSE "started"

ParentEnd(s) == IF s = "in" THEN "write" ELSE "read"

Contract == INSTANCE SpawnContract WITH
    piped <- [c \in Calls |->
                 {s \in Streams : ~Redirected(c, s) /\ ~(s = "err" /\ Merged(c))}],
    ran <- [c \in Calls |-> HasRun(c)],
    answer <- [c \in Calls |-> AnswerOf(c)],
    ends <- [c \in Calls |->
                IF Answered(c)
                THEN {s \in Streams : \E fd \in Fds :
                         table[fd] = PipeEnd(c, s, ParentEnd(s))}
                ELSE {}]

(* start() and the destructor, at the level of descriptors, keep the       *)
(* promises of SpawnContract.                                              *)
KeepsContract == Contract!Spec
================================================================================
