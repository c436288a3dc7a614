----------------------------- MODULE ProcessStatus -----------------------------
(***************************************************************************)
(* What a process object tells about its child: poll_process_status,       *)
(* wait_for, process_exited and terminate_process (process_unix.cpp) under *)
(* wait_for, has_exited and interrupt (process.hpp).                       *)
(*                                                                         *)
(* The child is a state of the kernel's process table.  The library looks  *)
(* at it with one system call at a time, and never reaps: a child that has *)
(* ended stays a zombie, and its number is not given out again, unless the *)
(* rest of the program ignores SIGCHLD or waits for any child.             *)
(*                                                                         *)
(* One thread at a time waits on a handle; interrupt() may come from any.  *)
(***************************************************************************)
EXTENDS Integers

CONSTANTS
    Handles,        \* the process objects, one child each
    Stranger,       \* the owner of a process that is no child of ours
    Pids,           \* bound: the process numbers of the system
    Free,           \* the entry of a number that is not in use
    ExitCodes,      \* what a program may pass to exit
    Outputs,        \* how much a program may write to its stdout
    Capacity,       \* how much the pipe at its stdout holds
    Worlds          \* what the program around the library does, see World

PROCESS_STILL_ALIVE == -1
PROCESS_POLL_FAILED == -2
FD_INVALID == -1
SIGKILL == 9
SIGTERM == 15
SIGSTOP == 19

(* The disposition of SIGCHLD; whether somebody calls waitpid(-1); whether *)
(* children are stopped and continued (job control, kill -STOP).           *)
World == [sigchld : {"default", "ignored"}, reaper : BOOLEAN, stops : BOOLEAN]

States == {"running", "stopped", "exited", "killed"}

ASSUME StatusAssumption ==
    /\ Stranger \notin Handles
    /\ Pids \subseteq Nat \ {0}
    /\ Free \notin [owner : Handles \cup {Stranger}, state : States, status : 0..255]
    /\ ExitCodes \subseteq 0..255
    /\ Outputs \subseteq Nat /\ Capacity \in Nat
    /\ Worlds \subseteq World

VARIABLES
    world,      \* the surroundings; they never change
    proc,       \* the process table
    pid,        \* info._pid of each handle
    exitCode,   \* _exit_code of each handle
    pc,         \* where the thread that uses the handle is
    call,       \* the function it is in
    left,       \* what each child has still to write to its stdout
    inPipe,     \* what the pipe holds of it
    said        \* history: the last answer was that the child has ended

childVars == <<left, inPipe>>
handleVars == <<pid, exitCode, pc, call, said>>
vars == <<world, proc, pid, exitCode, pc, call, left, inPipe, said>>

Entry(o, s, n) == [owner |-> o, state |-> s, status |-> n]
InUse(p) == proc[p] # Free
Ended(e) == e.state \in {"exited", "killed"}
IsChild(p) == InUse(p) /\ proc[p].owner # Stranger

Init ==
    /\ world \in Worlds
    /\ proc = [p \in Pids |-> Free]
    /\ pid = [h \in Handles |-> FD_INVALID]
    /\ exitCode = [h \in Handles |-> -1]
    /\ pc = [h \in Handles |-> "unborn"]
    /\ call = [h \in Handles |-> "none"]
    /\ left \in [Handles -> Outputs]
    /\ inPipe = [h \in Handles |-> 0]
    /\ said = [h \in Handles |-> FALSE]

--------------------------------------------------------------------------------
(* The kernel.                                                             *)

(* Process p ends: it stays as a zombie for its parent to wait for, unless *)
(* the parent ignores SIGCHLD.                                             *)
Ends(p, how, n) ==
    proc' = [proc EXCEPT ![p] =
                IF proc[p].owner = Stranger \/ world.sigchld = "ignored" THEN Free
                ELSE Entry(proc[p].owner, how, n)]

WTERMSIG(status) == status % 128
WSTOPSIG(status) == (status \div 256) % 256

(* Mutant: the signal number is returned as it is.                         *)
PollBareSignal(h) ==
    LET p == pid[h]
    IN  IF ~IsChild(p) THEN PROCESS_POLL_FAILED
        ELSE CASE proc[p].state = "running" -> PROCESS_STILL_ALIVE
               [] proc[p].state = "stopped" -> 128 + WSTOPSIG(proc[p].status)
               [] OTHER -> proc[p].status

(* poll_process_status: waitid with WEXITED, WSTOPPED, WNOHANG, WNOWAIT.   *)
(* si_status is a plain signal number already when WSTOPSIG shifts it.     *)
Poll(h) ==
    LET p == pid[h]
    IN  IF ~IsChild(p) THEN PROCESS_POLL_FAILED
        ELSE CASE proc[p].state = "exited"  -> proc[p].status
               [] proc[p].state = "killed"  -> 128 + WTERMSIG(proc[p].status)
               [] proc[p].state = "stopped" -> 128 + WSTOPSIG(proc[p].status)
               [] proc[p].state = "running" -> PROCESS_STILL_ALIVE

--------------------------------------------------------------------------------
(* The handle.                                                             *)

(* start() has returned: the kernel gave the child a free number.          *)
Start(h) ==
    /\ pc[h] = "unborn"
    /\ \E p \in Pids : /\ ~InUse(p)
                       /\ proc' = [proc EXCEPT ![p] = Entry(h, "running", 0)]
                       /\ pid' = [pid EXCEPT ![h] = p]
    /\ pc' = [pc EXCEPT ![h] = "idle"]
    /\ UNCHANGED <<world, exitCode, call, childVars, said>>

Call(h) ==
    /\ pc[h] = "idle"
    /\ \E f \in {"wait_for", "has_exited"} : call' = [call EXCEPT ![h] = f]
    /\ pc' = [pc EXCEPT ![h] = "check"]
    /\ UNCHANGED <<world, proc, pid, exitCode, childVars, said>>

Return(h) == /\ pc' = [pc EXCEPT ![h] = "idle"]
             /\ call' = [call EXCEPT ![h] = "none"]

(* Mutant: wait_for asks the kernel again although it knows the code.      *)
KnownNotCached(h, exited) ==
    IF call[h] = "has_exited"
    THEN /\ Return(h)
         /\ said' = [said EXCEPT ![h] = exited]
         /\ UNCHANGED exitCode
    ELSE /\ pc' = [pc EXCEPT ![h] = "loop"]
         /\ UNCHANGED <<call, exitCode, said>>

(* What has_exited returns is the answer, or wait_for goes on with it.     *)
Known(h, exited) ==
    IF call[h] = "has_exited"
    THEN /\ Return(h)
         /\ said' = [said EXCEPT ![h] = exited]
         /\ UNCHANGED exitCode
    ELSE IF exited /\ exitCode[h] >= 0
    THEN /\ Return(h)
         /\ said' = [said EXCEPT ![h] = TRUE]
         /\ UNCHANGED exitCode
    ELSE /\ pc' = [pc EXCEPT ![h] = "loop"]
         /\ UNCHANGED <<call, exitCode, said>>

(* Mutant: a child that cannot be found is taken for one that runs.        *)
ProcessExitedUnlessLost(h) ==
    /\ pc[h] = "check"
    /\ IF Poll(h) = PROCESS_POLL_FAILED /\ world.sigchld = "ignored"
       THEN /\ pc' = [pc EXCEPT ![h] = "stat"]
            /\ UNCHANGED <<exitCode, call, said>>
       ELSE Known(h, Poll(h) >= 0)
    /\ UNCHANGED <<world, proc, pid, childVars>>

(* process_exited, to the end or to its look at /proc.                     *)
ProcessExited(h) ==
    /\ pc[h] = "check"
    /\ IF Poll(h) = PROCESS_POLL_FAILED /\ world.sigchld = "ignored"
       THEN /\ pc' = [pc EXCEPT ![h] = "stat"]
            /\ UNCHANGED <<exitCode, call, said>>
       ELSE Known(h, Poll(h) # PROCESS_STILL_ALIVE)
    /\ UNCHANGED <<world, proc, pid, childVars>>

(* stat("/proc/<pid>"): whoever has the number by now.                     *)
Stat(h) ==
    /\ pc[h] = "stat"
    /\ Known(h, ~InUse(pid[h]))
    /\ UNCHANGED <<world, proc, pid, childVars>>

(* Mutant: the poll of wait_for reaps the child (no WNOWAIT).              *)
WaitForReaps(h) ==
    /\ pc[h] = "loop"
    /\ Poll(h) # PROCESS_STILL_ALIVE
    /\ exitCode' = [exitCode EXCEPT ![h] =
                       IF Poll(h) = PROCESS_POLL_FAILED THEN 0 ELSE Poll(h)]
    /\ said' = [said EXCEPT ![h] = TRUE]
    /\ proc' = IF IsChild(pid[h]) /\ Ended(proc[pid[h]])
               THEN [proc EXCEPT ![pid[h]] = Free] ELSE proc
    /\ Return(h)
    /\ UNCHANGED <<world, pid, childVars>>

(* Mutant: PROCESS_POLL_FAILED is returned as if it were a code.           *)
WaitForRawError(h) ==
    /\ pc[h] = "loop"
    /\ Poll(h) # PROCESS_STILL_ALIVE
    /\ exitCode' = [exitCode EXCEPT ![h] = Poll(h)]
    /\ said' = [said EXCEPT ![h] = TRUE]
    /\ Return(h)
    /\ UNCHANGED <<world, proc, pid, childVars>>

(* Mutant: the loop goes on when waitid fails.                             *)
WaitForRetries(h) ==
    /\ pc[h] = "loop"
    /\ Poll(h) >= 0
    /\ exitCode' = [exitCode EXCEPT ![h] = Poll(h)]
    /\ said' = [said EXCEPT ![h] = TRUE]
    /\ Return(h)
    /\ UNCHANGED <<world, proc, pid, childVars>>

(* The loop of wait_for.  A poll that finds the child alive changes        *)
(* nothing; the error of waitid is ECHILD, and the answer 0.               *)
WaitFor(h) ==
    /\ pc[h] = "loop"
    /\ Poll(h) # PROCESS_STILL_ALIVE
    /\ exitCode' = [exitCode EXCEPT ![h] =
                       IF Poll(h) = PROCESS_POLL_FAILED THEN 0 ELSE Poll(h)]
    /\ said' = [said EXCEPT ![h] = TRUE]
    /\ Return(h)
    /\ UNCHANGED <<world, proc, pid, childVars>>

(* interrupt(force): kill whatever has the number.  SIGTERM may be caught, *)
(* and waits while the process is stopped.                                 *)
Interrupt(h) ==
    LET p == pid[h]
    IN  /\ p # FD_INVALID /\ InUse(p) /\ ~Ended(proc[p])
        /\ \/ Ends(p, "killed", SIGKILL)
           \/ proc[p].state = "running" /\ Ends(p, "killed", SIGTERM)
           \/ UNCHANGED proc
        /\ UNCHANGED <<world, handleVars, childVars>>

CallerStep(h) == ProcessExited(h) \/ Stat(h) \/ WaitFor(h)

--------------------------------------------------------------------------------
(* The rest of the world.                                                  *)

(* The user reads the child's output, between two calls.                   *)
ReadOut(h) ==
    /\ pc[h] = "idle" /\ inPipe[h] > 0
    /\ inPipe' = [inPipe EXCEPT ![h] = @ - 1]
    /\ UNCHANGED <<world, proc, handleVars, left>>

Runs(p, h) == InUse(p) /\ proc[p].owner = h /\ proc[p].state = "running"

(* The program of h writes while the pipe has room, then exits.            *)
ProgramStep(h) ==
    \E p \in Pids :
        /\ Runs(p, h)
        /\ \/ /\ left[h] > 0 /\ inPipe[h] < Capacity
              /\ left' = [left EXCEPT ![h] = @ - 1]
              /\ inPipe' = [inPipe EXCEPT ![h] = @ + 1]
              /\ UNCHANGED proc
           \/ /\ left[h] = 0
              /\ \E code \in ExitCodes : Ends(p, "exited", code)
              /\ UNCHANGED childVars
        /\ UNCHANGED <<world, handleVars>>

Stop(p) ==
    /\ world.stops /\ IsChild(p) /\ proc[p].state = "running"
    /\ proc' = [proc EXCEPT ![p] = Entry(@.owner, "stopped", SIGSTOP)]
    /\ UNCHANGED <<world, handleVars, childVars>>

Continue(p) ==
    /\ InUse(p) /\ proc[p].state = "stopped"
    /\ proc' = [proc EXCEPT ![p] = Entry(@.owner, "running", 0)]
    /\ UNCHANGED <<world, handleVars, childVars>>

(* A waitpid(-1) somewhere else in the program.                            *)
Reap(p) ==
    /\ world.reaper /\ IsChild(p) /\ Ended(proc[p])
    /\ proc' = [proc EXCEPT ![p] = Free]
    /\ UNCHANGED <<world, handleVars, childVars>>

(* Other processes of the system come and go.                              *)
StrangerStep(p) ==
    /\ \/ ~InUse(p) /\ proc' = [proc EXCEPT ![p] = Entry(Stranger, "running", 0)]
       \/ InUse(p) /\ proc[p].owner = Stranger /\ proc' = [proc EXCEPT ![p] = Free]
    /\ UNCHANGED <<world, handleVars, childVars>>

Next ==
    \/ \E h \in Handles : \/ Start(h) \/ Call(h) \/ CallerStep(h)
                          \/ Interrupt(h) \/ ReadOut(h) \/ ProgramStep(h)
    \/ \E p \in Pids : Stop(p) \/ Continue(p) \/ Reap(p) \/ StrangerStep(p)

(* The thread that waits and the programs are scheduled; a program that is *)
(* stopped and continued for ever still gets its turns.  Nothing makes the *)
(* user read, call or interrupt.                                           *)
Fairness == \A h \in Handles : WF_vars(CallerStep(h)) /\ SF_vars(ProgramStep(h))

Spec == Init /\ [][Next]_vars
FairSpec == Spec /\ Fairness
--------------------------------------------------------------------------------
Codes == 0..255
Entries == [owner : Handles \cup {Stranger}, state : States, status : Codes]

(* The type of every variable.                                             *)
TypeOK ==
    /\ world \in Worlds
    /\ proc \in [Pids -> Entries \cup {Free}]
    /\ pid \in [Handles -> Pids \cup {FD_INVALID}]
    /\ exitCode \in [Handles -> Codes \cup {-1}]
    /\ pc \in [Handles -> {"unborn", "idle", "check", "stat", "loop"}]
    /\ call \in [Handles -> {"none", "wait_for", "has_exited"}]
    /\ left \in [Handles -> Nat]
    /\ inPipe \in [Handles -> 0..Capacity]
    /\ said \in [Handles -> BOOLEAN]

(* Nobody but the library looks after the children, and it never reaps.    *)
KeepsZombies == world.sigchld = "default" /\ ~world.reaper

(* wait_for() has returned, and this is what it returned last.             *)
Told(h) == exitCode[h] >= 0

HasEnded(h) == InUse(pid[h]) /\ Ended(proc[pid[h]])

(* What a shell would report of the end of h's child: its exit code, or    *)
(* "0x80 + signal number" (process_unix.cpp:72).                           *)
ShellCode(h) == LET e == proc[pid[h]]
                IN  IF e.state = "killed" THEN 128 + e.status ELSE e.status

(* The number in a handle is its own child's for ever: an interrupt(),     *)
(* however late and from whatever thread, can reach no other process,      *)
(* because no poll of the library gives the number back to the kernel.     *)
PidStaysOwn ==
    KeepsZombies => \A h \in Handles :
        pc[h] # "unborn" => InUse(pid[h]) /\ proc[pid[h]].owner = h

(* wait_for() returns how the child ended, and nothing before that, though *)
(* the child may end between any two polls and be interrupted from other   *)
(* threads.  A stopped child is reported as 128.                           *)
WaitTellsFate ==
    KeepsZombies => \A h \in Handles :
        Told(h) => \/ HasEnded(h) /\ exitCode[h] = ShellCode(h)
                   \/ world.stops /\ exitCode[h] = 128

(* "the process has exited" (process_unix.cpp:530): wait_for() returns     *)
(* only when the child has ended.                                          *)
WaitMeansEnded == \A h \in Handles : Told(h) => HasEnded(h)

PidUnshared(h) == \A g \in Handles \ {h} : pid[g] # pid[h]

(* Every wait_for() on a handle returns the same, even when another part   *)
(* of the program reaps the child between two of them: the code is cached. *)
(* (Unless the number has gone to another child by then.)                  *)
AnswersAgree ==
    [][\A h \in Handles :
          Told(h) /\ ~world.stops /\ PidUnshared(h)' => UNCHANGED exitCode[h]]_vars

(* A child that wait_for() or has_exited() reported as ended is never      *)
(* reported as alive later, though its number may be given to a stranger   *)
(* in between.                                                             *)
ExitedIsFinal ==
    [][\A h \in Handles :
          said[h] /\ ~world.stops /\ world.sigchld = "default" /\ PidUnshared(h)'
          => said'[h]]_vars

AllFit == \A h \in Handles : left[h] + inPipe[h] <= Capacity

(* wait_for() returns if the output of the programs fits into their pipes, *)
(* undrained, and they end by themselves: in every world, also when the    *)
(* child is reaped by others or its number reused while it spins.          *)
WaitReturns ==
    \A h \in Handles : []AllFit => (call[h] = "wait_for" ~> call[h] = "none")
================================================================================
