----------------------------- MODULE ExecSearch -----------------------------
(***************************************************************************)
(* process_builder (process.hpp) and the last part of the child: the       *)
(* argument vector of child_proc, mpp_execvpe and its search of PATH, and  *)
(* the errno that reaches the parent (process_unix.cpp).                   *)
(*                                                                         *)
(* What execve answers for a file is chosen anew at every attempt: other   *)
(* programs change the file system meanwhile.                              *)
(***************************************************************************)
EXTENDS Integers, Sequences, FiniteSets, Functions

CONSTANTS
    Words,          \* command names and arguments
    NoWord,         \* the empty word
    Slashed,        \* the words with a '/' in them
    Null, Sh,       \* the terminator of argv; "/bin/sh"
    Arguments,      \* the lists given to arguments()
    Keys, Values,   \* of environment()
    PathVars,       \* values of PATH: a list of components, or Unset
    Unset, Empty,   \* Empty: the component between two colons
    LongDirs,       \* components too long for absolute_path
    DefaultPath,    \* default_path_env
    Skipped, Fatal, \* errnos execve answers with: those that the search passes over, others
    MaxCalls        \* bound: calls of the builder

ASSUME SearchAssumption ==
    /\ NoWord \in Words /\ Slashed \subseteq Words \ {NoWord}
    /\ Arguments \subseteq Seq(Words)
    /\ Null \notin Words \cup {Sh, ".", "as it is"}
    /\ \A list \in (PathVars \ {Unset}) \cup {DefaultPath} :
          /\ list \in Seq(Range(list)) \ {<<>>}
          /\ Null \notin Range(list) /\ "as it is" \notin Range(list)
    /\ {"EACCES", "ENOENT"} \subseteq Skipped /\ {"ENAMETOOLONG", "ENOEXEC"} \subseteq Fatal
    /\ Skipped \cap Fatal = {}
    /\ {"none", "nothing", "started", "done", "too long"} \cap (Skipped \cup Fatal) = {}
    /\ Unset \in PathVars
    /\ MaxCalls \in Nat

VARIABLES
    cmdline, env,   \* of process_startup
    calls,          \* history: the setters called so far
    path,           \* the parent's PATH
    child,          \* where the child is
    argv,           \* its argument vector, with the word behind its end
    dirs,           \* pathv from *dirs on
    errno, sticky,
    attempts,       \* history: the files it tried, one by one
    told            \* what the parent learned from the fail pipe

exVars == <<cmdline, env, calls, path, child, argv, dirs, errno, sticky, attempts, told>>
builderVars == <<cmdline, env, calls, path>>
childVars == <<child, argv, dirs, errno, sticky, attempts, told>>

ExInit ==
    /\ cmdline = <<>> /\ env = <<>> /\ calls = <<>>
    /\ path \in PathVars
    /\ child = "none" /\ argv = <<>> /\ dirs = <<>>
    /\ errno = "none" /\ sticky = "none" /\ attempts = <<>> /\ told = "nothing"

-----------------------------------------------------------------------------
Building == child = "none" /\ Len(calls) < MaxCalls

Command(w) ==
    /\ Building
    /\ cmdline' = IF cmdline = <<>> THEN <<w>> ELSE [cmdline EXCEPT ![1] = w]
    /\ calls' = Append(calls, [op |-> "command", words |-> <<w>>])
    /\ UNCHANGED <<env, path, childVars>>

(* Mutant: every list is appended.                                         *)
SetArgumentsAlways(c) ==
    /\ Building
    /\ cmdline' = cmdline \o c
    /\ calls' = Append(calls, [op |-> "arguments", words |-> c])
    /\ UNCHANGED <<env, path, childVars>>
(* A list that comes when there are two words already is dropped.          *)
SetArguments(c) ==
    /\ Building
    /\ cmdline' = IF Len(cmdline) <= 1 THEN cmdline \o c ELSE cmdline
    /\ calls' = Append(calls, [op |-> "arguments", words |-> c])
    /\ UNCHANGED <<env, path, childVars>>

(* emplace keeps the value a key has.                                      *)
Environment(k, v) ==
    /\ Building
    /\ env' = IF k \in DOMAIN env THEN env
              ELSE [x \in DOMAIN env \cup {k} |-> IF x = k THEN v ELSE env[x]]
    /\ calls' = Append(calls, [op |-> "environment", words |-> <<k, v>>])
    /\ UNCHANGED <<cmdline, path, childVars>>

(* start(), up to the child's call of mpp_execvpe.                         *)
Start ==
    /\ child = "none"
    /\ child' = "execvpe"
    /\ argv' = cmdline \o <<Null, Null>>
    /\ UNCHANGED <<builderVars, dirs, errno, sticky, attempts, told>>

-----------------------------------------------------------------------------
Given(v) == LET end == CHOOSE i \in DOMAIN v : v[i] = Null /\ \A j \in 1..(i - 1) : v[j] # Null
            IN  SubSeq(v, 1, end - 1)

EffectivePathv ==
    LET components == IF path = Unset THEN DefaultPath ELSE path
    IN  [i \in DOMAIN components |-> IF components[i] = Empty THEN "." ELSE components[i]]

(* The new program runs, or the child is gone without a word: the parent   *)
(* reads end of file in both cases.                                        *)
Becomes(end) ==
    /\ child' = end
    /\ told' = "started"

(* Mutant: the child exits without the write to the fail pipe.             *)
ExitQuietly(e) ==
    /\ child' = "exited" /\ e # "none"
    /\ told' = "started"
ExitWithError(e) ==
    /\ child' = "exited"
    /\ told' = e

(* file is null when there is no word at all; *file is read.               *)
NoFile ==
    /\ child = "execvpe" /\ argv[1] = Null
    /\ Becomes("crashed")
    /\ UNCHANGED <<builderVars, argv, dirs, errno, sticky, attempts>>

EmptyFile ==
    /\ child = "execvpe" /\ argv[1] = NoWord
    /\ errno' = "ENOENT"
    /\ ExitWithError("ENOENT")
    /\ UNCHANGED <<builderVars, argv, dirs, sticky, attempts>>

(* A file with a slash is tried as it is, any other in the directories.    *)
ChooseFiles ==
    /\ child = "execvpe" /\ argv[1] \in Words \ {NoWord}
    /\ child' = "search"
    /\ dirs' = IF argv[1] \in Slashed THEN <<"as it is">> ELSE EffectivePathv
    /\ UNCHANGED <<builderVars, argv, errno, sticky, attempts, told>>

Tried(answer, shell) ==
    [dir |-> Head(dirs), argv |-> Given(argv), answer |-> answer, shell |-> shell]

TooLong ==
    /\ child = "search" /\ dirs # <<>>
    /\ Head(dirs) \in LongDirs
    /\ errno' = "ENAMETOOLONG"
    /\ attempts' = Append(attempts, Tried("too long", FALSE))
    /\ dirs' = Tail(dirs)
    /\ UNCHANGED <<builderVars, child, argv, sticky, told>>

(* The switch after an attempt that failed with e; after a file with a     *)
(* slash there is no switch.                                               *)
AfterFailure(e) ==
    /\ errno' = e
    /\ IF e \in Skipped /\ Head(dirs) # "as it is"
       THEN /\ sticky' = IF e = "EACCES" THEN e ELSE sticky
            /\ dirs' = Tail(dirs)
            /\ child' = "search"
            /\ UNCHANGED told
       ELSE /\ ExitWithError(e)
            /\ UNCHANGED <<dirs, sticky>>

Execve ==
    /\ child = "search" /\ dirs # <<>>
    /\ Head(dirs) \notin LongDirs
    /\ \/ /\ Becomes("running")
          /\ attempts' = Append(attempts, Tried("done", FALSE))
          /\ UNCHANGED <<argv, dirs, errno, sticky>>
       \/ \E e \in (Skipped \cup Fatal) \ {"ENOEXEC"} :
             /\ AfterFailure(e)
             /\ attempts' = Append(attempts, Tried(e, FALSE))
             /\ UNCHANGED argv
       \/ /\ child' = "shell"
          /\ errno' = "ENOEXEC"
          /\ argv' = <<Sh, Head(dirs)>> \o SubSeq(argv, 2, Len(argv) - 1)
          /\ UNCHANGED <<dirs, sticky, attempts, told>>
    /\ UNCHANGED builderVars

(* Mutant: argv[0] stays /bin/sh.                                          *)
UnshiftedTail == <<Sh>> \o SubSeq(argv, 3, Len(argv)) \o <<argv[Len(argv)]>>
(* argv[0] = argv0 and the second memmove of execve_without_shebang.       *)
Unshifted == <<cmdline[1]>> \o SubSeq(argv, 3, Len(argv)) \o <<argv[Len(argv)]>>

(* /bin/sh itself may be no executable: ENOEXEC comes through to the switch*)
(* on errno then, which passes over it no more than over any other.        *)
ExecveShell ==
    /\ child = "shell"
    /\ \/ /\ Becomes("running")
          /\ attempts' = Append(attempts, Tried("done", TRUE))
          /\ UNCHANGED <<argv, dirs, errno, sticky>>
       \/ \E e \in Skipped \cup Fatal :
             /\ AfterFailure(e)
             /\ attempts' = Append(attempts, Tried(e, TRUE))
             /\ argv' = Unshifted
    /\ UNCHANGED builderVars

(* The first memmove has written the word behind the array of child_proc,  *)
(* which is asize + 1 words long: whatever was there is lost.              *)
Overrun ==
    /\ child = "shell"
    /\ Becomes("crashed")
    /\ UNCHANGED <<builderVars, argv, dirs, errno, sticky, attempts>>

SearchEnds ==
    /\ child = "search" /\ dirs = <<>>
    /\ errno' = IF sticky # "none" THEN sticky ELSE errno
    /\ ExitWithError(errno')
    /\ UNCHANGED <<builderVars, argv, dirs, sticky, attempts>>

ExNext ==
    \/ \E w \in Words : Command(w)
    \/ \E c \in Arguments : SetArguments(c)
    \/ \E k \in Keys, v \in Values : Environment(k, v)
    \/ Start \/ NoFile \/ EmptyFile \/ ChooseFiles
    \/ TooLong \/ Execve \/ ExecveShell \/ Overrun \/ SearchEnds

ExSpec == ExInit /\ [][ExNext]_exVars

-----------------------------------------------------------------------------
Errnos == Skipped \cup Fatal
WordLists == Seq(Words \cup {Null, Sh, "as it is"} \cup Range(EffectivePathv))

ExTypeOK ==
    /\ cmdline \in Seq(Words) /\ env \in [DOMAIN env -> Values]
    /\ DOMAIN env \subseteq Keys
    /\ path \in PathVars
    /\ child \in {"none", "execvpe", "search", "shell", "running", "crashed", "exited"}
    /\ argv \in WordLists
    /\ errno \in Errnos \cup {"none"}
    /\ sticky \in {"none", "EACCES"}
    /\ told \in Errnos \cup {"nothing", "started"}

(* Who names the command first and gives one list of arguments gets these  *)
(* words, the last command and the first list that is not empty, and the   *)
(* first value of each key, whatever else is called in between.            *)
BuilderKeepsWords ==
    LET given(op) == {i \in DOMAIN calls : calls[i].op = op /\ calls[i].words # <<>>}
        commandFirst == \A a \in given("arguments") : \E c \in given("command") : c < a
        last(c) == \A d \in given("command") : d <= c
        first(a) == \A b \in given("arguments") : a <= b
        key(e) == calls[e].words[1]
    IN  /\ commandFirst => \A c \in given("command") : last(c) =>
              /\ given("arguments") = {} => cmdline = calls[c].words
              /\ \A a \in given("arguments") : first(a) =>
                    cmdline = calls[c].words \o calls[a].words
        /\ \A e \in given("environment") :
              (\A d \in given("environment") : d < e => key(d) # key(e)) =>
                  env[key(e)] = calls[e].words[2]

(* A bare name is tried in the components of PATH, each once, in their     *)
(* order, with the words of the command line (a shell gets the file before *)
(* the arguments), until a file runs or fails for a reason of its own.     *)
(* "If permission is denied for a file ..., these functions will continue  *)
(* searching ...  If no other file is found, however, they will return     *)
(* with ... EACCES" (process_unix.cpp:269); else the last errno is told.   *)
SearchAnswers ==
    LET n == Len(attempts)
        files == IF cmdline # <<>> /\ cmdline[1] \in Slashed THEN <<"as it is">> ELSE EffectivePathv
        passed(a) == a.answer \in Skipped \cup {"too long"}
        lastErrno == IF attempts[n].answer = "too long" THEN "ENAMETOOLONG" ELSE attempts[n].answer
    IN  /\ n <= Len(files)
        /\ \A i \in 1..n :
              /\ attempts[i].dir = files[i]
              /\ i < n => passed(attempts[i])
              /\ attempts[i].argv = IF attempts[i].shell THEN <<Sh, files[i]>> \o Tail(cmdline)
                                    ELSE cmdline
        /\ child = "running" <=> n > 0 /\ attempts[n].answer = "done"
        /\ child = "exited" /\ cmdline[1] # NoWord =>
              /\ passed(attempts[n]) => n = Len(files)
              /\ told = IF passed(attempts[n]) /\ files # <<"as it is">>
                           /\ \E i \in 1..n : attempts[i].answer = "EACCES"
                        THEN "EACCES" ELSE lastErrno

(* The parent takes end of file for a running program.  It is wrong only   *)
(* when the builder was given no word at all or when a script without      *)
(* shebang was met: the overrun of argv.                                   *)
SilentDeath ==
    /\ told = "started" /\ child # "running" =>
          child = "crashed" /\ (cmdline = <<>> \/ errno = "ENOEXEC")
    /\ child = "exited" => told \in Errnos
=============================================================================
