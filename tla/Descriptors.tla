------------------------------ MODULE Descriptors ------------------------------
(***************************************************************************)
(* Descriptor tables, and what pipe(2), close(2), dup2(2) and the helpers  *)
(* of mpp_foundation/io.hpp do to one.  A table maps every descriptor      *)
(* number to the open object it names, or to Closed.  The kernel gives out *)
(* the lowest free number, which is why a number that is closed too early  *)
(* or twice soon names somebody else's object.                             *)
(***************************************************************************)
EXTENDS Integers

CONSTANTS
    MaxFd,      \* bound: the highest descriptor number (RLIMIT_NOFILE - 1)
    Closed      \* the entry of a number that names nothing

ASSUME MaxFdAssumption == MaxFd \in Nat /\ MaxFd >= 4

FD_INVALID == -1
Fds == 0..MaxFd

STDIN_FILENO  == 0
STDOUT_FILENO == 1
STDERR_FILENO == 2
Stdio == {STDIN_FILENO, STDOUT_FILENO, STDERR_FILENO}

PipeEnds == {"read", "write"}

(* r is the number the next open, dup or pipe in table t returns.          *)
LowestFree(t, r) == /\ t[r] = Closed
                    /\ \A fd \in Fds : fd < r => t[fd] # Closed

(* pipe(2) in table t returns the read end r and the write end w.          *)
NewPipe(t, r, w) == /\ LowestFree(t, r)
                    /\ r < w
                    /\ t[w] = Closed
                    /\ \A fd \in Fds : r < fd /\ fd < w => t[fd] # Closed

(* pipe(2) fails (EMFILE) when fewer than two numbers are free.            *)
CanCreatePipe(t) == \E r, w \in Fds : NewPipe(t, r, w)

(* close(2) is a no-op (EBADF) on a number that is closed already, and     *)
(* close_fd on FD_INVALID.                                                 *)
CloseFds(t, S) == [fd \in Fds |-> IF fd \in S THEN Closed ELSE t[fd]]
CloseFd(t, fd) == CloseFds(t, {fd})

(* dup2(2): a closed source fails and changes nothing; old = new is a      *)
(* no-op.                                                                  *)
Dup2(t, old, new) ==
    IF old \in Fds /\ t[old] # Closed THEN [t EXCEPT ![new] = t[old]] ELSE t
================================================================================
