---------------------------- MODULE MCProcessSpawn -----------------------------
(* Small instances of ProcessSpawn for TLC.                                *)
EXTENDS ProcessSpawn, TLC

CONSTANTS c1, c2, tty, log, sink

(* The parent's table with stdio and the given files.                      *)
TableWith(files) ==
    [fd \in Fds |-> IF fd \in Stdio THEN tty
                    ELSE IF fd \in DOMAIN files THEN files[fd] ELSE Closed]

Piped == [s \in Streams |-> FD_INVALID]
AllTo(fd) == [s \in Streams |-> fd]

(* Two threads that pipe every stream: one use with a third thread that    *)
(* opens and closes a file, and so few numbers left that each pipe() may   *)
(* fail; one with numbers to spare, so that both children can be between   *)
(* fork and exec at the same time.                                         *)
PipedUse(files, userFiles) ==
    [table |-> TableWith(files), userFiles |-> userFiles, oneThread |-> FALSE,
     startup |-> [c \in Calls |-> [target |-> Piped, merge |-> TRUE]]]
Crowded == [fd \in 10..MaxFd |-> sink]
PipedUses == {PipedUse(Crowded, {log}), PipedUse(<<>>, {})}
RoomyUses == {PipedUse(<<>>, {})}

(* One thread, and every choice of targets among two files and no target,  *)
(* with numbers to spare or so few that a second pipe() fails.             *)
Targets == 3 :> log @@ 4 :> sink
RedirectUses ==
    [table : {TableWith(Targets), TableWith(Targets @@ [fd \in 7..MaxFd |-> tty])},
     userFiles : {{log, sink}},
     oneThread : {TRUE},
     startup : [Calls -> [target : [Streams -> {FD_INVALID, 3, 4}], merge : BOOLEAN]]]

(* The same with numbers to spare only, so that a call reaches its end.    *)
RoomyRedirects == {u \in RedirectUses : u.table = TableWith(Targets)}

(* One call sends every stream to one file, the other pipes all.           *)
SharedUses ==
    {[table |-> TableWith(3 :> log), userFiles |-> {}, oneThread |-> FALSE,
      startup |-> [c \in Calls |-> [target |-> IF c = c1 THEN AllTo(3) ELSE Piped,
                                    merge |-> TRUE]]]}

Symmetric == Permutations(Calls)
================================================================================
