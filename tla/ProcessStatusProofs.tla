-------------------------- MODULE ProcessStatusProofs --------------------------
(***************************************************************************)
(* What a process object tells about its child, for every number of        *)
(* handles and process numbers and in every world.                         *)
(***************************************************************************)
EXTENDS ProcessStatus, TLAPS

(* What the kernel keeps to.  A child in the table is known to its handle  *)
(* by that number.                                                         *)
KernelInv ==
    \A p \in Pids : InUse(p) =>
        /\ proc[p].owner # Stranger => pid[proc[p].owner] = p
        /\ proc[p].owner = Stranger => proc[p].state = "running"
        /\ proc[p].state = "stopped" => world.stops /\ proc[p].status = SIGSTOP
        /\ proc[p].state = "killed" => proc[p].status \in {SIGKILL, SIGTERM}
        /\ world.sigchld = "ignored" => ~Ended(proc[p])

(* A handle has a number from start() on, and has said nothing before.     *)
HandleInv ==
    \A h \in Handles :
        /\ pc[h] = "unborn" <=> pid[h] = FD_INVALID
        /\ pc[h] = "unborn" => ~said[h] /\ ~Told(h)
        /\ pc[h] = "stat" => world.sigchld = "ignored"

Alive(h) == IsChild(pid[h]) /\ proc[pid[h]].state = "running"

(* Where nobody stops children, what has been said of a child that still   *)
(* has its number for itself stays right.                                  *)
Settled(h) ==
    ~world.stops /\ pid[h] \in Pids /\ PidUnshared(h) =>
        /\ world.sigchld = "default" /\ (said[h] \/ Told(h)) => ~Alive(h)
        /\ world.sigchld = "default" /\ Told(h) => pc[h] # "loop"
        /\ world.sigchld = "ignored" => exitCode[h] <= 0

Inv == /\ TypeOK
       /\ KernelInv
       /\ HandleInv
       /\ PidStaysOwn
       /\ WaitTellsFate
       /\ \A h \in Handles : Settled(h)

--------------------------------------------------------------------------------
LEMMA NumberFacts ==
    /\ FD_INVALID \notin Pids
    /\ \A o \in Handles \cup {Stranger}, s \in States, n \in Codes :
          Entry(o, s, n) \in Entries /\ Entry(o, s, n) # Free
    /\ SIGKILL \in Codes /\ SIGTERM \in Codes /\ SIGSTOP \in Codes /\ 0 \in Codes
BY StatusAssumption DEF FD_INVALID, Entry, Entries, Codes, SIGKILL, SIGTERM, SIGSTOP

(* What poll_process_status can answer, and when.                          *)
LEMMA PollAnswers ==
    ASSUME TypeOK, KernelInv, NEW h \in Handles, pid[h] \in Pids
    PROVE  /\ Poll(h) \in Codes \cup {PROCESS_STILL_ALIVE, PROCESS_POLL_FAILED}
           /\ Poll(h) = PROCESS_STILL_ALIVE <=> Alive(h)
           /\ Poll(h) = PROCESS_POLL_FAILED <=> ~IsChild(pid[h])
           /\ IsChild(pid[h]) /\ Ended(proc[pid[h]]) => Poll(h) = ShellCode(h)
           /\ IsChild(pid[h]) /\ proc[pid[h]].state = "stopped" => Poll(h) = 128
<1> DEFINE p == pid[h]
           e == proc[p]
<1>1. CASE ~IsChild(p)
  BY <1>1 DEF Poll, Alive, PROCESS_POLL_FAILED, PROCESS_STILL_ALIVE
<1>2. CASE IsChild(p)
  <2>1. e \in Entries
    BY <1>2 DEF IsChild, InUse, TypeOK
  <2>2. e.status \in Codes /\ e.state \in States
    BY <2>1 DEF Entries
  <2>3. CASE e.state = "exited"
    BY SMTT(30), <1>2, <2>2, <2>3 DEF Poll, Alive, ShellCode, Ended, Codes,
       PROCESS_POLL_FAILED, PROCESS_STILL_ALIVE
  <2>4. CASE e.state = "killed"
    <3>1. e.status = 9 \/ e.status = 15
      BY <1>2, <2>4 DEF KernelInv, IsChild, SIGKILL, SIGTERM
    <3>2. WTERMSIG(e.status) = e.status
      BY <3>1 DEF WTERMSIG
    <3> QED
      BY <1>2, <2>4, <3>1, <3>2 DEF Poll, Alive, ShellCode, Ended, Codes,
         PROCESS_POLL_FAILED, PROCESS_STILL_ALIVE
  <2>5. CASE e.state = "stopped"
    <3>1. e.status = 19
      BY <1>2, <2>5 DEF KernelInv, IsChild, SIGSTOP
    <3>2. WSTOPSIG(e.status) = 0
      BY <3>1 DEF WSTOPSIG
    <3> QED
      BY <1>2, <2>5, <3>2 DEF Poll, Alive, Ended, Codes,
         PROCESS_POLL_FAILED, PROCESS_STILL_ALIVE
  <2>6. CASE e.state = "running"
    BY <1>2, <2>6 DEF Poll, Alive, Ended, Codes,
       PROCESS_POLL_FAILED, PROCESS_STILL_ALIVE
  <2> QED
    BY <2>2, <2>3, <2>4, <2>5, <2>6 DEF States
<1> QED
  BY <1>1, <1>2

--------------------------------------------------------------------------------
LEMMA InitInv == Init => Inv
<1> SUFFICES ASSUME Init PROVE Inv
  OBVIOUS
<1>1. TypeOK
  <2>1. left \in [Handles -> Nat]
    BY StatusAssumption DEF Init
  <2>0. inPipe \in [Handles -> 0..Capacity]
    <3>1. 0 \in 0..Capacity
      BY StatusAssumption
    <3> QED
      BY <3>1 DEF Init
  <2>2. /\ proc \in [Pids -> Entries \cup {Free}]
        /\ pid \in [Handles -> Pids \cup {FD_INVALID}]
        /\ exitCode \in [Handles -> Codes \cup {-1}]
    BY DEF Init
  <2> QED
    BY <2>0, <2>1, <2>2 DEF Init, TypeOK
<1>2. KernelInv /\ HandleInv
  BY DEF Init, KernelInv, HandleInv, InUse, Told
<1>3. PidStaysOwn /\ WaitTellsFate
  BY DEF Init, PidStaysOwn, WaitTellsFate, Told
<1>4. \A h \in Handles : Settled(h)
  BY NumberFacts DEF Init, Settled
<1> QED
  BY <1>1, <1>2, <1>3, <1>4 DEF Inv

--------------------------------------------------------------------------------
(* One entry of the process table changes and the handles do not.          *)
LEMMA EntryChange ==
    ASSUME Inv, NEW p \in Pids, NEW e \in Entries \cup {Free},
           proc' = [proc EXCEPT ![p] = e],
           UNCHANGED <<world, handleVars>>,
           left' \in [Handles -> Nat], inPipe' \in [Handles -> 0..Capacity],
           e # Free => \/ InUse(p) /\ e.owner = proc[p].owner
                       \/ ~InUse(p) /\ e.owner = Stranger,
           e # Free => /\ e.owner = Stranger => e.state = "running"
                       /\ e.state = "stopped" => world.stops /\ e.status = SIGSTOP
                       /\ e.state = "killed" => e.status \in {SIGKILL, SIGTERM}
                       /\ world.sigchld = "ignored" => ~Ended(e),
           KeepsZombies /\ IsChild(p) => e # Free /\ ~Ended(proc[p]),
           e # Free /\ e.owner # Stranger /\ e.state = "running" =>
              \/ world.stops
              \/ IsChild(p) /\ proc[p].state = "running"
    PROVE  Inv'
<1> USE DEF handleVars
<1>1. TypeOK'
  BY DEF Inv, TypeOK
<1>2. \A q \in Pids : proc'[q] = IF q = p THEN e ELSE proc[q]
  BY DEF Inv, TypeOK
<1>3. KernelInv'
  <2> SUFFICES ASSUME NEW q \in Pids, InUse(q)'
               PROVE  /\ proc'[q].owner # Stranger => pid'[proc'[q].owner] = q
                      /\ proc'[q].owner = Stranger => proc'[q].state = "running"
                      /\ proc'[q].state = "stopped" =>
                            world'.stops /\ proc'[q].status = SIGSTOP
                      /\ proc'[q].state = "killed" => proc'[q].status \in {SIGKILL, SIGTERM}
                      /\ world'.sigchld = "ignored" => ~Ended(proc'[q])
    BY DEF KernelInv, Ended
  <2>1. CASE q = p
    BY <1>2, <2>1 DEF Inv, KernelInv, InUse, Ended
  <2>2. CASE q # p
    BY <1>2, <2>2 DEF Inv, KernelInv, InUse, Ended
  <2> QED
    BY <2>1, <2>2
<1>4. HandleInv'
  BY DEF Inv, HandleInv, Told
<1>5. PidStaysOwn'
  <2> SUFFICES ASSUME KeepsZombies, NEW h \in Handles, pc[h] # "unborn"
               PROVE  proc'[pid[h]] # Free /\ proc'[pid[h]].owner = h
    BY DEF PidStaysOwn, KeepsZombies, InUse
  <2>1. pid[h] \in Pids /\ proc[pid[h]] # Free /\ proc[pid[h]].owner = h
    BY DEF Inv, TypeOK, HandleInv, PidStaysOwn, InUse
  <2>2. h # Stranger
    BY StatusAssumption
  <2> QED
    BY <1>2, <2>1, <2>2 DEF IsChild, InUse
<1>6. WaitTellsFate'
  <2> SUFFICES ASSUME KeepsZombies, NEW h \in Handles, Told(h),
                      ~(world.stops /\ exitCode[h] = 128)
               PROVE  HasEnded(h)' /\ exitCode[h] = ShellCode(h)'
    BY DEF WaitTellsFate, KeepsZombies, Told
  <2>1. HasEnded(h) /\ exitCode[h] = ShellCode(h)
    BY DEF Inv, WaitTellsFate
  <2>2. pid[h] \in Pids /\ InUse(pid[h]) /\ proc[pid[h]].owner = h
    BY DEF Inv, TypeOK, HandleInv, PidStaysOwn
  <2>3. pid[h] # p
    BY <2>1, <2>2, StatusAssumption DEF HasEnded, IsChild
  <2> QED
    BY <1>2, <2>1, <2>2, <2>3 DEF HasEnded, ShellCode, InUse, Ended
<1>7. ASSUME NEW h \in Handles
      PROVE  Settled(h)'
  <2>1. Settled(h)
    BY DEF Inv
  <2>2. ~world.stops /\ pid[h] \in Pids /\ Alive(h)' => Alive(h)
    BY <1>2 DEF Alive, IsChild, InUse
  <2> QED
    BY <2>1, <2>2 DEF Settled, PidUnshared, Told
<1> QED
  BY <1>1, <1>3, <1>4, <1>5, <1>6, <1>7 DEF Inv

(* An end of a process that has not ended is such a change.                *)
LEMMA EndsInv ==
    ASSUME Inv, NEW p \in Pids, InUse(p), ~Ended(proc[p]),
           NEW how \in {"exited", "killed"}, NEW n \in Codes,
           how = "killed" => n \in {SIGKILL, SIGTERM},
           Ends(p, how, n),
           UNCHANGED <<world, handleVars, childVars>>
    PROVE  Inv'
<1> DEFINE e == IF proc[p].owner = Stranger \/ world.sigchld = "ignored" THEN Free
                ELSE Entry(proc[p].owner, how, n)
<1>1. proc[p] \in Entries
  BY DEF Inv, TypeOK, InUse
<1>2. e \in Entries \cup {Free} /\ (e # Free => e = Entry(proc[p].owner, how, n))
  BY <1>1, NumberFacts DEF Entries, States
<1>3. world \in World
  BY StatusAssumption DEF Inv, TypeOK
<1>4. proc' = [proc EXCEPT ![p] = e]
  BY DEF Ends
<1>5. left' \in [Handles -> Nat] /\ inPipe' \in [Handles -> 0..Capacity]
  BY DEF Inv, TypeOK, childVars
<1>6. KeepsZombies /\ IsChild(p) => e # Free
  <2>1. proc[p].owner \in Handles \cup {Stranger} /\ how \in States
    BY <1>1 DEF Entries, States
  <2>2. Entry(proc[p].owner, how, n) # Free
    BY <2>1, NumberFacts
  <2> QED
    BY <2>2 DEF KeepsZombies, IsChild
<1>7. e # Free => /\ proc[p].owner # Stranger /\ world.sigchld # "ignored"
                  /\ e.owner = proc[p].owner /\ e.state = how /\ e.status = n
  BY <1>2 DEF Entry
<1> HIDE DEF e
<1> QED
  BY <1>2, <1>4, <1>5, <1>6, <1>7, EntryChange

--------------------------------------------------------------------------------
(* Steps of the kernel's processes.                                        *)
LEMMA WorldSteps ==
    ASSUME Inv, NEW p \in Pids, Stop(p) \/ Continue(p) \/ Reap(p) \/ StrangerStep(p)
    PROVE  Inv'
<1>0. UNCHANGED <<world, handleVars>> /\ UNCHANGED childVars
  BY DEF Stop, Continue, Reap, StrangerStep
<1>1. left' \in [Handles -> Nat] /\ inPipe' \in [Handles -> 0..Capacity]
  BY <1>0 DEF Inv, TypeOK, childVars
<1>2. InUse(p) => proc[p] \in Entries
  BY DEF Inv, TypeOK, InUse
<1>3. proc \in [Pids -> Entries \cup {Free}]
  BY DEF Inv, TypeOK
<1>4. CASE Stop(p)
  <2> DEFINE e == Entry(proc[p].owner, "stopped", SIGSTOP)
  <2>1. /\ world.stops /\ InUse(p) /\ proc[p].owner # Stranger
        /\ proc[p].state = "running"
        /\ proc' = [proc EXCEPT ![p] = Entry(@.owner, "stopped", SIGSTOP)]
    BY <1>4 DEF Stop, IsChild
  <2>3. proc' = [proc EXCEPT ![p] = e]
    BY <1>3, <2>1
  <2>4. e \in Entries
    BY <1>2, <2>1, NumberFacts DEF Entries, States
  <2>5. e.owner = proc[p].owner /\ e.state = "stopped" /\ e.status = SIGSTOP
    BY DEF Entry
  <2>6. ~Ended(e) /\ ~Ended(proc[p]) /\ e # Free
    BY <2>1, <2>4, <2>5, StatusAssumption DEF Ended, Entries, Codes
  <2> HIDE DEF e
  <2> QED
    BY <1>0, <1>1, <2>1, <2>3, <2>4, <2>5, <2>6, EntryChange
<1>5. CASE Continue(p)
  <2> DEFINE e == Entry(proc[p].owner, "running", 0)
  <2>1. /\ InUse(p) /\ proc[p].state = "stopped"
        /\ proc' = [proc EXCEPT ![p] = Entry(@.owner, "running", 0)]
    BY <1>5 DEF Continue
  <2>3. proc' = [proc EXCEPT ![p] = e]
    BY <1>3, <2>1
  <2>4. e \in Entries
    BY <1>2, <2>1, NumberFacts DEF Entries, States
  <2>5. e.owner = proc[p].owner /\ e.state = "running" /\ e.status = 0
    BY DEF Entry
  <2>6. ~Ended(e) /\ ~Ended(proc[p]) /\ e # Free
    BY <2>1, <2>4, <2>5, StatusAssumption DEF Ended, Entries, Codes
  <2>7. world.stops
    BY <2>1 DEF Inv, KernelInv
  <2> HIDE DEF e
  <2> QED
    BY <1>0, <1>1, <2>1, <2>3, <2>4, <2>5, <2>6, <2>7, EntryChange
<1>6. CASE Reap(p)
  <2>1. ~KeepsZombies /\ proc' = [proc EXCEPT ![p] = Free]
    BY <1>6 DEF Reap, KeepsZombies
  <2> QED
    BY <1>0, <1>1, <2>1, EntryChange
<1>7. CASE StrangerStep(p)
  <2>1. CASE ~InUse(p) /\ proc' = [proc EXCEPT ![p] = Entry(Stranger, "running", 0)]
    <3> DEFINE e == Entry(Stranger, "running", 0)
    <3>1. e \in Entries /\ e.owner = Stranger /\ e.state = "running"
      BY NumberFacts DEF Entry, States
    <3>2. ~Ended(e) /\ ~IsChild(p)
      BY <2>1, <3>1 DEF Ended, IsChild
    <3> HIDE DEF e
    <3> QED
      BY <1>0, <1>1, <2>1, <3>1, <3>2, EntryChange DEF e
  <2>2. CASE InUse(p) /\ proc[p].owner = Stranger /\ proc' = [proc EXCEPT ![p] = Free]
    <3>1. ~IsChild(p)
      BY <2>2 DEF IsChild
    <3> QED
      BY <1>0, <1>1, <2>2, <3>1, EntryChange
  <2> QED
    BY <1>7, <2>1, <2>2 DEF StrangerStep
<1> QED
  BY <1>4, <1>5, <1>6, <1>7

(* A step that leaves the table and the handles alone.                     *)
LEMMA PipeChange ==
    ASSUME Inv, UNCHANGED <<world, proc, handleVars>>,
           left' \in [Handles -> Nat], inPipe' \in [Handles -> 0..Capacity]
    PROVE  Inv'
<1> USE DEF handleVars
<1>1. TypeOK'
  BY DEF Inv, TypeOK
<1>2. KernelInv' /\ HandleInv'
  BY DEF Inv, KernelInv, HandleInv, InUse, Told
<1>3. PidStaysOwn' /\ WaitTellsFate'
  BY DEF Inv, PidStaysOwn, WaitTellsFate, KeepsZombies, InUse, Told, HasEnded, ShellCode
<1>4. \A h \in Handles : Settled(h)'
  BY DEF Inv, Settled, PidUnshared, Told, Alive, IsChild, InUse
<1> QED
  BY <1>1, <1>2, <1>3, <1>4 DEF Inv

LEMMA ProgramSteps ==
    ASSUME Inv, NEW h \in Handles, ProgramStep(h) \/ ReadOut(h) \/ Interrupt(h)
    PROVE  Inv'
<1>0. /\ left \in [Handles -> Nat] /\ inPipe \in [Handles -> 0..Capacity]
      /\ Capacity \in Nat /\ ExitCodes \subseteq Codes
      /\ pid \in [Handles -> Pids \cup {FD_INVALID}]
  BY StatusAssumption DEF Inv, TypeOK, Codes
<1>1. CASE ProgramStep(h)
  <2> PICK p \in Pids :
         /\ Runs(p, h)
         /\ \/ /\ left[h] > 0 /\ inPipe[h] < Capacity
               /\ left' = [left EXCEPT ![h] = @ - 1]
               /\ inPipe' = [inPipe EXCEPT ![h] = @ + 1]
               /\ UNCHANGED proc
            \/ /\ left[h] = 0
               /\ \E code \in ExitCodes : Ends(p, "exited", code)
               /\ UNCHANGED childVars
         /\ UNCHANGED <<world, handleVars>>
    BY <1>1 DEF ProgramStep
  <2>1. CASE /\ left[h] > 0 /\ inPipe[h] < Capacity
             /\ left' = [left EXCEPT ![h] = @ - 1]
             /\ inPipe' = [inPipe EXCEPT ![h] = @ + 1]
             /\ UNCHANGED proc
    <3>1. left' \in [Handles -> Nat] /\ inPipe' \in [Handles -> 0..Capacity]
      BY <1>0, <2>1
    <3> QED
      BY <2>1, <3>1, PipeChange
  <2>2. CASE UNCHANGED childVars /\ \E code \in ExitCodes : Ends(p, "exited", code)
    <3> PICK code \in ExitCodes : Ends(p, "exited", code)
      BY <2>2
    <3>1. InUse(p) /\ ~Ended(proc[p])
      BY DEF Runs, Ended
    <3> QED
      BY <1>0, <2>2, <3>1, EndsInv
  <2> QED
    BY <2>1, <2>2
<1>2. CASE ReadOut(h)
  <2>1. left' \in [Handles -> Nat] /\ inPipe' \in [Handles -> 0..Capacity]
    BY <1>0, <1>2 DEF ReadOut
  <2> QED
    BY <1>2, <2>1, PipeChange DEF ReadOut
<1>3. CASE Interrupt(h)
  <2> DEFINE p == pid[h]
  <2>1. /\ p \in Pids /\ InUse(p) /\ ~Ended(proc[p])
        /\ Ends(p, "killed", SIGKILL) \/ Ends(p, "killed", SIGTERM) \/ UNCHANGED proc
        /\ UNCHANGED <<world, handleVars, childVars>>
    BY <1>0, <1>3 DEF Interrupt
  <2>2. CASE UNCHANGED proc
    BY <1>0, <2>1, <2>2, PipeChange DEF childVars
  <2>3. CASE Ends(p, "killed", SIGKILL)
    BY <2>1, <2>3, NumberFacts, EndsInv
  <2>4. CASE Ends(p, "killed", SIGTERM)
    BY <2>1, <2>4, NumberFacts, EndsInv
  <2> QED
    BY <2>1, <2>2, <2>3, <2>4
<1> QED
  BY <1>1, <1>2, <1>3

--------------------------------------------------------------------------------
(* Steps of the handles.                                                   *)

(* A call changes nothing but the handle it is made on: what is still to   *)
(* be shown is about that handle.                                          *)
LEMMA HandleChange ==
    ASSUME Inv, NEW h \in Handles, UNCHANGED <<world, proc, pid, childVars>>,
           pid[h] \in Pids,
           exitCode' \in [Handles -> Codes \cup {-1}],
           pc' \in [Handles -> {"idle", "unborn", "check", "stat", "loop"}],
           call' \in [Handles -> {"none", "wait_for", "has_exited"}],
           said' \in [Handles -> BOOLEAN],
           \A g \in Handles \ {h} : /\ exitCode'[g] = exitCode[g] /\ pc'[g] = pc[g]
                                    /\ said'[g] = said[g],
           pc'[h] # "unborn",
           pc'[h] = "stat" => world.sigchld = "ignored",
           KeepsZombies /\ exitCode'[h] # exitCode[h] =>
              \/ HasEnded(h) /\ exitCode'[h] = ShellCode(h)
              \/ world.stops /\ exitCode'[h] = 128,
           Settled(h)'
    PROVE  Inv'
<1> USE DEF childVars
<1>1. TypeOK'
  BY DEF Inv, TypeOK
<1>2. KernelInv'
  BY DEF Inv, KernelInv, InUse
<1>3. HandleInv'
  <2>1. pid[h] # FD_INVALID
    BY NumberFacts
  <2> QED
    BY <2>1 DEF Inv, HandleInv, Told
<1>4. PidStaysOwn'
  <2>1. pc[h] # "unborn"
    BY NumberFacts DEF Inv, HandleInv
  <2> QED
    BY <2>1 DEF Inv, PidStaysOwn, KeepsZombies, InUse
<1>5. WaitTellsFate'
  BY DEF Inv, WaitTellsFate, KeepsZombies, Told, HasEnded, ShellCode, InUse
<1>6. ASSUME NEW g \in Handles PROVE Settled(g)'
  <2>1. CASE g = h
    BY <2>1
  <2>2. CASE g # h
    BY <2>2 DEF Inv, Settled, PidUnshared, Told, Alive, IsChild, InUse
  <2> QED
    BY <2>1, <2>2
<1> QED
  BY <1>1, <1>2, <1>3, <1>4, <1>5, <1>6 DEF Inv

(* has_exited answers, or wait_for goes on, with a knowledge that is right *)
(* where it matters.                                                       *)
LEMMA KnownInv ==
    ASSUME Inv, NEW h \in Handles, NEW exited \in BOOLEAN, pid[h] \in Pids,
           world.sigchld = "default" => (exited <=> ~Alive(h)),
           Known(h, exited),
           UNCHANGED <<world, proc, pid, childVars>>
    PROVE  Inv'
<1>1. exitCode' = exitCode
  BY DEF Known
<1>2. /\ pc' = [pc EXCEPT ![h] = "idle"] \/ pc' = [pc EXCEPT ![h] = "loop"]
      /\ call' = call \/ call' = [call EXCEPT ![h] = "none"]
      /\ \/ said' = said
         \/ said' = [said EXCEPT ![h] = exited]
         \/ exited /\ said' = [said EXCEPT ![h] = TRUE]
      /\ pc' = [pc EXCEPT ![h] = "loop"] => ~(exited /\ exitCode[h] >= 0) /\ said' = said
  <2>1. CASE call[h] = "has_exited"
    BY <2>1 DEF Known, Return, Inv, TypeOK
  <2>2. CASE call[h] # "has_exited" /\ exited /\ exitCode[h] >= 0
    BY <2>2 DEF Known, Return, Inv, TypeOK
  <2>3. CASE call[h] # "has_exited" /\ ~(exited /\ exitCode[h] >= 0)
    BY <2>3 DEF Known, Inv, TypeOK
  <2> QED
    BY <2>1, <2>2, <2>3
<1>3. /\ pc \in [Handles -> {"unborn", "idle", "check", "stat", "loop"}]
      /\ call \in [Handles -> {"none", "wait_for", "has_exited"}]
      /\ said \in [Handles -> BOOLEAN]
      /\ exitCode \in [Handles -> Codes \cup {-1}]
  BY DEF Inv, TypeOK
<1>4. said'[h] => exited \/ said[h]
  BY <1>2, <1>3
<1>5. Settled(h)'
  <2>1. Settled(h) /\ (Alive(h)' <=> Alive(h)) /\ (Told(h)' <=> Told(h))
    BY <1>1 DEF Inv, Alive, IsChild, InUse, Told
  <2>2. world.sigchld = "default" /\ Told(h) /\ ~Alive(h) => pc'[h] # "loop"
    BY <1>2, <1>3 DEF Told
  <2> QED
    BY <1>1, <1>4, <2>1, <2>2 DEF Settled, PidUnshared, Told
<1>6. /\ pc' \in [Handles -> {"idle", "unborn", "check", "stat", "loop"}]
      /\ call' \in [Handles -> {"none", "wait_for", "has_exited"}]
      /\ pc'[h] # "unborn" /\ pc'[h] # "stat"
      /\ \A g \in Handles \ {h} : pc'[g] = pc[g]
  BY <1>2, <1>3
<1>7. /\ said' \in [Handles -> BOOLEAN]
      /\ \A g \in Handles \ {h} : said'[g] = said[g]
  <2>1. ASSUME NEW b \in BOOLEAN, said' = [said EXCEPT ![h] = b]
        PROVE  /\ said' \in [Handles -> BOOLEAN]
               /\ \A g \in Handles \ {h} : said'[g] = said[g]
    BY <1>3, <2>1
  <2> QED
    BY <1>2, <1>3, <2>1
<1>8. /\ exitCode' \in [Handles -> Codes \cup {-1}]
      /\ \A g \in Handles : exitCode'[g] = exitCode[g]
      /\ UNCHANGED <<world, proc, pid, childVars>>
  BY <1>1, <1>3
<1> QED
  BY <1>5, <1>6, <1>7, <1>8, HandleChange

LEMMA CallInv ==
    ASSUME Inv, NEW h \in Handles, Call(h)
    PROVE  Inv'
<1>1. pid[h] \in Pids
  BY DEF Call, Inv, HandleInv, TypeOK
<1>2. /\ pc' = [pc EXCEPT ![h] = "check"]
      /\ call' \in [Handles -> {"none", "wait_for", "has_exited"}]
      /\ UNCHANGED <<world, proc, pid, exitCode, childVars, said>>
  BY DEF Call, Inv, TypeOK
<1>3. Settled(h)'
  BY <1>2 DEF Inv, TypeOK, Settled, PidUnshared, Told, Alive, IsChild, InUse
<1>4. /\ exitCode \in [Handles -> Codes \cup {-1}]
      /\ pc \in [Handles -> {"unborn", "idle", "check", "stat", "loop"}]
      /\ said \in [Handles -> BOOLEAN]
  BY DEF Inv, TypeOK
<1> QED
  BY <1>1, <1>2, <1>3, <1>4, HandleChange

LEMMA CallerInv ==
    ASSUME Inv, NEW h \in Handles, CallerStep(h)
    PROVE  Inv'
<1>0. pid[h] \in Pids /\ UNCHANGED <<world, proc, pid, childVars>>
  BY DEF CallerStep, ProcessExited, Stat, WaitFor, Inv, HandleInv, TypeOK
<1>1. Poll(h) = PROCESS_STILL_ALIVE <=> Alive(h)
  BY <1>0, PollAnswers DEF Inv
<1>2. /\ exitCode \in [Handles -> Codes \cup {-1}]
      /\ pc \in [Handles -> {"idle", "unborn", "check", "stat", "loop"}]
      /\ call \in [Handles -> {"none", "wait_for", "has_exited"}]
      /\ said \in [Handles -> BOOLEAN]
  BY DEF Inv, TypeOK
<1>3. CASE ProcessExited(h)
  <2>1. CASE Poll(h) = PROCESS_POLL_FAILED /\ world.sigchld = "ignored"
    <3>1. pc' = [pc EXCEPT ![h] = "stat"] /\ UNCHANGED <<exitCode, call, said>>
      BY <1>3, <2>1 DEF ProcessExited
    <3>2. Settled(h)'
      BY <1>0, <1>2, <3>1 DEF Inv, Settled, PidUnshared, Told, Alive, IsChild, InUse
    <3> QED
      BY <1>0, <1>2, <2>1, <3>1, <3>2, HandleChange
  <2>2. CASE ~(Poll(h) = PROCESS_POLL_FAILED /\ world.sigchld = "ignored")
    <3>1. Known(h, Poll(h) # PROCESS_STILL_ALIVE)
      BY <1>3, <2>2 DEF ProcessExited
    <3> QED
      BY <1>0, <1>1, <3>1, KnownInv
  <2> QED
    BY <2>1, <2>2
<1>4. CASE Stat(h)
  <2>1. Known(h, ~InUse(pid[h])) /\ world.sigchld = "ignored"
    BY <1>4 DEF Stat, Inv, HandleInv
  <2> QED
    BY <1>0, <2>1, KnownInv
<1>5. CASE WaitFor(h)
  <2> DEFINE code == IF Poll(h) = PROCESS_POLL_FAILED THEN 0 ELSE Poll(h)
  <2>1. /\ ~Alive(h)
        /\ exitCode' = [exitCode EXCEPT ![h] = code]
        /\ said' = [said EXCEPT ![h] = TRUE]
        /\ pc' = [pc EXCEPT ![h] = "idle"] /\ call' = [call EXCEPT ![h] = "none"]
    BY <1>1, <1>5 DEF WaitFor, Return
  <2>2. code \in Codes
    BY <1>0, <1>1, <2>1, PollAnswers, NumberFacts DEF Inv
  <2>3. KeepsZombies => \/ HasEnded(h) /\ code = ShellCode(h)
                        \/ world.stops /\ code = 128
    <3> SUFFICES ASSUME KeepsZombies
                 PROVE  \/ HasEnded(h) /\ code = ShellCode(h)
                        \/ world.stops /\ code = 128
      OBVIOUS
    <3>1. IsChild(pid[h])
      <4>1. pc[h] # "unborn"
        BY <1>5 DEF WaitFor
      <4> QED
        BY <4>1, StatusAssumption DEF Inv, PidStaysOwn, IsChild
    <3>2. proc[pid[h]] \in Entries
      BY <1>0, <3>1 DEF Inv, TypeOK, IsChild, InUse
    <3>3. code = Poll(h)
      BY <1>0, <3>1, PollAnswers DEF Inv
    <3>4. CASE Ended(proc[pid[h]])
      BY <1>0, <3>1, <3>3, <3>4, PollAnswers DEF Inv, HasEnded, IsChild
    <3>5. CASE proc[pid[h]].state = "stopped"
      BY <1>0, <3>1, <3>3, <3>5, PollAnswers DEF Inv, KernelInv, IsChild
    <3> QED
      BY <2>1, <3>1, <3>2, <3>4, <3>5 DEF Alive, Ended, Entries, States
  <2>4. world.sigchld = "ignored" /\ ~world.stops => code <= 0
    <3> SUFFICES ASSUME world.sigchld = "ignored", ~world.stops, IsChild(pid[h])
                 PROVE  FALSE
      BY <1>0, PollAnswers DEF Inv
    <3>1. proc[pid[h]] \in Entries
      BY <1>0 DEF Inv, TypeOK, IsChild, InUse
    <3>2. ~Ended(proc[pid[h]]) /\ proc[pid[h]].state # "stopped"
      BY <1>0 DEF Inv, KernelInv, IsChild
    <3> QED
      BY <2>1, <3>1, <3>2 DEF Alive, Ended, Entries, States
  <2> HIDE DEF code
  <2>5. Settled(h)'
    BY <1>0, <1>2, <2>1, <2>4 DEF Settled, PidUnshared, Told, Alive, IsChild, InUse
  <2>6. exitCode' \in [Handles -> Codes \cup {-1}] /\ exitCode'[h] = code
    BY <1>2, <2>1, <2>2
  <2> QED
    BY <1>0, <1>2, <2>1, <2>3, <2>5, <2>6, HandleChange
<1> QED
  BY <1>3, <1>4, <1>5 DEF CallerStep

LEMMA StartInv ==
    ASSUME Inv, NEW h \in Handles, Start(h)
    PROVE  Inv'
<1>0. PICK p \in Pids : /\ ~InUse(p)
                        /\ proc' = [proc EXCEPT ![p] = Entry(h, "running", 0)]
                        /\ pid' = [pid EXCEPT ![h] = p]
  BY DEF Start
<1>1. /\ pc[h] = "unborn" /\ pc' = [pc EXCEPT ![h] = "idle"]
      /\ UNCHANGED <<world, exitCode, call, childVars, said>>
  BY DEF Start
<1>2. pid[h] = FD_INVALID /\ ~said[h] /\ ~Told(h)
  BY <1>1 DEF Inv, HandleInv
<1> DEFINE e == Entry(h, "running", 0)
<1>3. e \in Entries /\ e # Free
  BY NumberFacts DEF States
<1>4. e.owner = h /\ e.state = "running" /\ h # Stranger /\ ~Ended(e)
  BY StatusAssumption DEF Entry, Ended
<1>5. /\ proc' = [proc EXCEPT ![p] = e]
      /\ proc \in [Pids -> Entries \cup {Free}]
      /\ pid \in [Handles -> Pids \cup {FD_INVALID}]
      /\ pc \in [Handles -> {"unborn", "idle", "check", "stat", "loop"}]
  BY <1>0 DEF Inv, TypeOK
<1> HIDE DEF e
<1>6. /\ \A q \in Pids : proc'[q] = IF q = p THEN e ELSE proc[q]
      /\ \A g \in Handles : pid'[g] = IF g = h THEN p ELSE pid[g]
      /\ \A g \in Handles : pc'[g] = IF g = h THEN "idle" ELSE pc[g]
  BY <1>0, <1>1, <1>5
<1>7. TypeOK'
  <2>1. proc' \in [Pids -> Entries \cup {Free}]
    BY <1>3, <1>5
  <2>2. pid' \in [Handles -> Pids \cup {FD_INVALID}]
    BY <1>0, <1>5
  <2>3. pc' \in [Handles -> {"unborn", "idle", "check", "stat", "loop"}]
    BY <1>1, <1>5
  <2> QED
    BY <1>1, <2>1, <2>2, <2>3 DEF Inv, TypeOK, childVars
<1>8. KernelInv'
  <2> SUFFICES ASSUME NEW q \in Pids, InUse(q)'
               PROVE  /\ proc'[q].owner # Stranger => pid'[proc'[q].owner] = q
                      /\ proc'[q].owner = Stranger => proc'[q].state = "running"
                      /\ proc'[q].state = "stopped" =>
                            world'.stops /\ proc'[q].status = SIGSTOP
                      /\ proc'[q].state = "killed" => proc'[q].status \in {SIGKILL, SIGTERM}
                      /\ world'.sigchld = "ignored" => ~Ended(proc'[q])
    BY DEF KernelInv, Ended
  <2>1. CASE q = p
    BY <1>1, <1>4, <1>6, <2>1 DEF Ended
  <2>2. CASE q # p
    <3>1. InUse(q) /\ proc'[q] = proc[q] /\ proc[q] \in Entries
      BY <1>5, <1>6, <2>2 DEF InUse
    <3>2. proc[q].owner # Stranger => proc[q].owner \in Handles \ {h}
      BY <1>2, <3>1, NumberFacts DEF Inv, KernelInv, Entries
    <3> QED
      BY <1>1, <1>6, <3>1, <3>2 DEF Inv, KernelInv, Ended
  <2> QED
    BY <2>1, <2>2
<1>9. HandleInv'
  BY <1>1, <1>6, NumberFacts DEF Inv, HandleInv, Told
<1>10. ASSUME NEW g \in Handles, KeepsZombies, pc[g] # "unborn"
       PROVE  g # h /\ pid[g] \in Pids /\ pid[g] # p /\ InUse(pid[g]) /\ proc[pid[g]].owner = g
  <2>1. pid[g] \in Pids /\ InUse(pid[g]) /\ proc[pid[g]].owner = g
    BY <1>5, <1>10 DEF Inv, HandleInv, PidStaysOwn
  <2> QED
    BY <1>0, <1>1, <1>10, <2>1
<1>11. PidStaysOwn'
  <2> SUFFICES ASSUME KeepsZombies, NEW g \in Handles, pc'[g] # "unborn"
               PROVE  proc'[pid'[g]] # Free /\ proc'[pid'[g]].owner = g
    BY <1>1 DEF PidStaysOwn, KeepsZombies, InUse
  <2>1. CASE g = h
    BY <1>3, <1>4, <1>6, <2>1 DEF e
  <2>2. CASE g # h
    BY <1>6, <1>10, <2>2 DEF InUse
  <2> QED
    BY <2>1, <2>2
<1>12. WaitTellsFate'
  <2> SUFFICES ASSUME KeepsZombies, NEW g \in Handles, Told(g),
                      ~(world.stops /\ exitCode[g] = 128)
               PROVE  HasEnded(g)' /\ exitCode[g] = ShellCode(g)'
    BY <1>1 DEF WaitTellsFate, KeepsZombies, Told
  <2>1. HasEnded(g) /\ exitCode[g] = ShellCode(g) /\ pc[g] # "unborn"
    BY DEF Inv, HandleInv, WaitTellsFate
  <2> QED
    BY <1>6, <1>10, <2>1 DEF HasEnded, ShellCode, InUse, Ended
<1>13. ASSUME NEW g \in Handles
       PROVE  Settled(g)'
  <2>1. CASE g = h
    <3>1. exitCode \in [Handles -> Codes \cup {-1}]
      BY DEF Inv, TypeOK
    <3>2. exitCode[h] = -1
      BY <1>2, <3>1 DEF Told, Codes
    <3> QED
      BY <1>1, <1>2, <2>1, <3>2 DEF Settled, Told
  <2>2. CASE g # h
    <3>1. pid'[g] = pid[g] /\ pc'[g] = pc[g]
      BY <1>6, <2>2
    <3>2. PidUnshared(g)' => pid[g] # p
      BY <1>6, <2>2, <3>1 DEF PidUnshared
    <3>3. PidUnshared(g)' => PidUnshared(g) \/ pid[g] = FD_INVALID
      BY <1>2, <1>6, <3>1 DEF PidUnshared
    <3>4. pid[g] \in Pids /\ pid[g] # p => (Alive(g)' <=> Alive(g))
      BY <1>6, <3>1 DEF Alive, IsChild, InUse
    <3> QED
      BY <1>1, <3>1, <3>2, <3>3, <3>4, NumberFacts DEF Inv, Settled, Told
  <2> QED
    BY <2>1, <2>2
<1> QED
  BY <1>7, <1>8, <1>9, <1>11, <1>12, <1>13 DEF Inv

--------------------------------------------------------------------------------
LEMMA NextInv == Inv /\ [Next]_vars => Inv'
<1> SUFFICES ASSUME Inv, [Next]_vars PROVE Inv'
  OBVIOUS
<1>1. CASE \E h \in Handles : \/ Start(h) \/ Call(h) \/ CallerStep(h)
                             \/ Interrupt(h) \/ ReadOut(h) \/ ProgramStep(h)
  BY <1>1, StartInv, CallInv, CallerInv, ProgramSteps
<1>2. CASE \E p \in Pids : Stop(p) \/ Continue(p) \/ Reap(p) \/ StrangerStep(p)
  BY <1>2, WorldSteps
<1>3. CASE UNCHANGED vars
  BY <1>3, PipeChange DEF vars, handleVars, Inv, TypeOK
<1> QED
  BY <1>1, <1>2, <1>3 DEF Next

LEMMA Invariance == Spec => []Inv
BY InitInv, NextInv, PTL DEF Spec

(* Every variable keeps its type: _exit_code is -1 or a code.              *)
THEOREM StatusTypes == Spec => []TypeOK
BY Invariance, PTL DEF Inv

(* Where nobody but the library looks after the children, the number in a  *)
(* handle is its own child's for ever, for any number of handles, process  *)
(* numbers and strangers: interrupt() reaches nobody else.                 *)
THEOREM NumbersStay == Spec => []PidStaysOwn
BY Invariance, PTL DEF Inv

(* There, wait_for() returns how the child ended, or 128 for a stopped one.*)
THEOREM WaitIsTruthful == Spec => []WaitTellsFate
BY Invariance, PTL DEF Inv

--------------------------------------------------------------------------------
(* What only the calls on a handle change.                                 *)
LEMMA OnlyCallers ==
    ASSUME Inv, [Next]_vars, NEW h \in Handles,
           ~ProcessExited(h), ~Stat(h), ~WaitFor(h)
    PROVE  exitCode'[h] = exitCode[h] /\ said'[h] = said[h]
<1>0. exitCode \in [Handles -> Codes \cup {-1}] /\ said \in [Handles -> BOOLEAN]
  BY DEF Inv, TypeOK
<1>1. ASSUME NEW g \in Handles, Known(g, TRUE) \/ Known(g, FALSE), g # h
      PROVE  exitCode'[h] = exitCode[h] /\ said'[h] = said[h]
  BY <1>0, <1>1 DEF Known
<1>2. ASSUME NEW g \in Handles, CallerStep(g)
      PROVE  exitCode'[h] = exitCode[h] /\ said'[h] = said[h]
  <2>1. g # h
    BY <1>2 DEF CallerStep
  <2>2. CASE ProcessExited(g)
    <3>1. UNCHANGED <<exitCode, said>> \/ Known(g, TRUE) \/ Known(g, FALSE)
      <4>1. CASE Poll(g) = PROCESS_STILL_ALIVE
        BY <2>2, <4>1 DEF ProcessExited, Known
      <4>2. CASE Poll(g) # PROCESS_STILL_ALIVE
        BY <2>2, <4>2 DEF ProcessExited, Known
      <4> QED
        BY <4>1, <4>2
    <3> QED
      BY <1>1, <2>1, <3>1
  <2>3. CASE Stat(g)
    <3>1. Known(g, TRUE) \/ Known(g, FALSE)
      BY <2>3 DEF Stat, Known
    <3> QED
      BY <1>1, <2>1, <3>1
  <2>4. CASE WaitFor(g)
    BY <1>0, <2>1, <2>4 DEF WaitFor
  <2> QED
    BY <1>2, <2>2, <2>3, <2>4 DEF CallerStep
<1>3. CASE \/ \E g \in Handles : Start(g) \/ Call(g) \/ Interrupt(g) \/ ReadOut(g) \/ ProgramStep(g)
           \/ \E p \in Pids : Stop(p) \/ Continue(p) \/ Reap(p) \/ StrangerStep(p)
           \/ UNCHANGED vars
  BY <1>3 DEF Start, Call, Interrupt, ReadOut, ProgramStep, Stop, Continue, Reap,
              StrangerStep, handleVars, vars
<1> QED
  BY <1>2, <1>3 DEF Next

(* A step cannot share a number that was not shared, except by start(): a  *)
(* number that is unshared after a step was so before.                     *)
LEMMA UnsharedBefore ==
    ASSUME Inv, [Next]_vars, NEW h \in Handles, PidUnshared(h)',
           ProcessExited(h) \/ Stat(h) \/ WaitFor(h)
    PROVE  pid[h] \in Pids /\ PidUnshared(h)
BY DEF ProcessExited, Stat, WaitFor, Inv, TypeOK, HandleInv, PidUnshared

LEMMA AgreeStep ==
    Inv /\ [Next]_vars =>
        \A h \in Handles :
           Told(h) /\ ~world.stops /\ PidUnshared(h)' => UNCHANGED exitCode[h]
<1> SUFFICES ASSUME Inv, [Next]_vars, NEW h \in Handles,
                    Told(h), ~world.stops, PidUnshared(h)'
             PROVE  exitCode'[h] = exitCode[h]
  OBVIOUS
<1>1. CASE ProcessExited(h) \/ Stat(h)
  BY <1>1 DEF ProcessExited, Stat, Known
<1>2. CASE WaitFor(h)
  <2>1. pid[h] \in Pids /\ PidUnshared(h)
    BY <1>2, UnsharedBefore
  <2>2. world.sigchld = "ignored"
    <3>1. world.sigchld \in {"default", "ignored"}
      BY StatusAssumption DEF Inv, TypeOK, World
    <3>2. pc[h] = "loop"
      BY <1>2 DEF WaitFor
    <3> QED
      BY <2>1, <3>1, <3>2 DEF Inv, Settled
  <2>3. exitCode[h] = 0
    <3>1. exitCode[h] <= 0 /\ exitCode[h] \in Codes \cup {-1}
      BY <2>1, <2>2 DEF Inv, Settled, TypeOK
    <3> QED
      BY <3>1 DEF Told, Codes
  <2>4. Poll(h) = PROCESS_POLL_FAILED
    <3>1. Poll(h) # PROCESS_STILL_ALIVE
      BY <1>2 DEF WaitFor
    <3>2. ~Alive(h)
      BY <2>1, <3>1, PollAnswers DEF Inv
    <3>3. ~IsChild(pid[h])
      <4> SUFFICES ASSUME IsChild(pid[h]) PROVE FALSE
        OBVIOUS
      <4>1. proc[pid[h]].state \in States
        BY <2>1 DEF Inv, TypeOK, IsChild, InUse, Entries
      <4>2. ~Ended(proc[pid[h]]) /\ proc[pid[h]].state # "stopped"
        BY <2>1, <2>2 DEF Inv, KernelInv, IsChild
      <4> QED
        BY <3>2, <4>1, <4>2 DEF Alive, Ended, States
    <3> QED
      BY <2>1, <3>3, PollAnswers DEF Inv
  <2> QED
    BY <1>2, <2>3, <2>4 DEF WaitFor, Inv, TypeOK
<1>3. CASE ~ProcessExited(h) /\ ~Stat(h) /\ ~WaitFor(h)
  BY <1>3, OnlyCallers
<1> QED
  BY <1>1, <1>2, <1>3

LEMMA FinalStep ==
    Inv /\ [Next]_vars =>
        \A h \in Handles :
           said[h] /\ ~world.stops /\ world.sigchld = "default" /\ PidUnshared(h)'
           => said'[h]
<1> SUFFICES ASSUME Inv, [Next]_vars, NEW h \in Handles, said[h], ~world.stops,
                    world.sigchld = "default", PidUnshared(h)'
             PROVE  said'[h]
  OBVIOUS
<1>0. said \in [Handles -> BOOLEAN]
  BY DEF Inv, TypeOK
<1>1. CASE ProcessExited(h)
  <2>1. pid[h] \in Pids /\ ~Alive(h)
    BY <1>1, UnsharedBefore DEF Inv, Settled
  <2>2. Poll(h) # PROCESS_STILL_ALIVE
    BY <2>1, PollAnswers DEF Inv
  <2>3. Known(h, TRUE)
    BY <1>1, <2>2 DEF ProcessExited, Known
  <2> QED
    BY <1>0, <2>3 DEF Known
<1>2. CASE Stat(h)
  BY <1>2 DEF Stat, Inv, HandleInv
<1>3. CASE WaitFor(h)
  BY <1>0, <1>3 DEF WaitFor
<1>4. CASE ~ProcessExited(h) /\ ~Stat(h) /\ ~WaitFor(h)
  BY <1>4, OnlyCallers
<1> QED
  BY <1>1, <1>2, <1>3, <1>4

(* Without job control, every wait_for() on a handle whose number has not  *)
(* gone to another child returns the same code, also when SIGCHLD is       *)
(* ignored or somebody else reaps the child in between.                    *)
THEOREM CodesAgree == Spec => AnswersAgree
BY Invariance, AgreeStep, PTL DEF Spec, AnswersAgree

(* Without job control and with the default SIGCHLD, a child reported as   *)
(* ended is never reported as alive again.                                 *)
THEOREM EndIsFinal == Spec => ExitedIsFinal
BY Invariance, FinalStep, PTL DEF Spec, ExitedIsFinal
================================================================================
