# A TLA+ model of mozart++

mozart++ is a C++ template library (`mozart++/`, `src/`): child processes over
raw descriptors, an event emitter, type-erased values over a pooled allocator,
lazy streams, strings and formatting.  This directory holds TLA+ modules that
follow its code, configurations that check them with TLC, and proofs checked by
TLAPS.  All line numbers below refer to the repository's files.

## 1. Inventory

### Process creation (`src/process.cpp`, `src/process_unix.cpp`, `mpp_system/process.hpp`, `mpp_foundation/io.hpp`)

* State: four descriptor pairs on the stack of each call (`pstdin`, `pstdout`,
  `pstderr`, `pfail`), the descriptor table of the calling process, shared by
  all of its threads, one descriptor table per child, the `process_info` that
  the returned `process` owns.
* Operations: `process_builder::start` = `create_process` (bind three streams,
  undo what was bound on failure) -> `create_process_impl` (fail pipe, fork,
  read the child's answer, close the near ends) ; `child_proc` (rewire 0, 1, 2,
  close everything, chdir, mark the fail pipe close-on-exec, exec, or report
  errno and exit) ; `~process` = `close_process`.
* Interaction: parent and child through the fail pipe (an `int`, or end of
  file) and `waitpid`; concurrent calls, and the rest of the program, through
  the shared descriptor numbers; children of concurrent calls through the
  inherited copies of each other's pipe ends.
* Hard: every step can fail; descriptor numbers are reused at once, so closing
  one number twice or late hits somebody else; `pipe()` without close-on-exec
  lets a child forked by another thread hold copies of the ends; the blocking
  read of the fail pipe ends only when every copy of its write end is closed.
* Correct when: no number is closed that is not one's own; a failed `start()`
  leaves nothing behind; a handle means the program runs, an exception that it
  never will; the program sees its own three streams and nothing else;
  `start()` comes to an answer.

### Process status (`process_unix.cpp` 42-87, 505-591; `process.hpp` 132-146)

* State: the kernel's state of the child (running, stopped, zombie with exit
  code or signal, gone), `_exit_code` cached in the handle.
* Operations: `poll_process_status` (one `waitid` with WNOHANG and WNOWAIT),
  `wait_for` (busy loop), `has_exited`, `interrupt`.
* Hard: the child changes state between two polls of one `wait_for`; stop and
  continue; SIGCHLD ignored, so that the child vanishes unreaped; pipes of
  bounded capacity make a parent that waits before it drains wait for ever.
* Correct when: a code that is reported is the code the child exited with; once
  reported, always reported; `wait_for` returns if the child ends.

### Exec search and builder (`process_unix.cpp` 153-304, 361-388; `process.hpp` 155-243)

* State: `_cmdline`, `_env`; the sticky errno of the search.
* Operations: `command`, `arguments`, `environment`, ..., `mpp_execvpe` with
  `effective_pathv`, `execve_or_shebang`, `execve_without_shebang`.
* Hard: which errno ends the search and which one is reported after it; the
  order of builder calls; `argv` shifted by one word and back.
* Correct when: the first executable file of the path runs; the errno reported
  is the one the comments promise; `argv` is what the user asked for.

### Other components

| component | files | state | operations | what is hard | correct when |
|---|---|---|---|---|---|
| fdstream | `fdstream.hpp` | the buffer and its three pointers | `underflow`, `overflow`, `xsputn` | putback across refills, partial and failing reads and writes, two buffers on one pipe | bytes come out in order, once; a byte put back comes out again; a good stream has written all |
| event emitter | `event_emitter.hpp`, `core.cpp` | a vector of handlers per event | `on`, `unregister_event`, `emit`, `throw_ex` | handlers that call these while an emit iterates; arguments forwarded to several handlers; two implementations | an emit calls the handlers that were there, in order, with whole arguments |
| any, pool | `any.hpp`, `memory.hpp` | a pool of raw blocks per type, status and pointer of a value | `alloc`, `free`; construct, assign, copy, move, destroy | ownership across recycle, swap and exceptions; one pool for all threads | a block has one owner; a copy is independent and equal |
| optional | `optional.hpp` | flag and raw bytes | construct, assign, swap, destroy | objects moved by their bytes | the flag tells whether a value lives there; a value is destroyed once |
| stream | `stream.hpp` | element in hand, rest of the list or producer, mapper, predicate | `map`, `filter`, `drop`, `collect`, `travel`, `take`, ... | the end of a list is known one element late; no end | what comes out is the sequence mapped and filtered; the call returns |
| string_ref | `string.hpp` | pointer and length | `find*`, `rfind*`, `compare*`, `split`, `trim`, `substr`, ... | wrapping sizes, the skip table, runs of digits | inside its text; finds the first or last; splitting loses nothing |
| format | `format.hpp` | flags, fill, precision and width of the stream | `format` | state left by one argument for the next | an argument is written under its own placeholder |
| codecvt | `codecvt.hpp` | pending lead byte | `local2wide`, `wide2local` | signed bytes, a trailing lead byte | encoding inverts decoding |
| timer | `timer.hpp`, `timer.cpp` | a time point | `time`, `measure`, `delay` | - | - |
| compile-time helpers | `base.hpp`, `function.hpp`, `type_traits.hpp`, `exception.hpp`, `iterator_range.hpp` | none | - | - | - |
| process (windows) | `process_win32.cpp` | - | the same interface | - | - |

The hazards of each component, line by line, are in `PROJECT.json`.

## 2. Plan

Done, model-checked: process creation (section 3), process status (4); the exec
search and the descriptor streams (5); emitter, any and optional (6); stream,
string_ref, format and codecvt (7).  Done, proved: every safety property that the
passing runs check, those of `ProcessSpawn` under the conditions on redirects that
section 3 explains; the refinements of `ByteReader` and `ValueHolder`, and the
safety part of that of `SpawnContract`.

Left to TLC: the liveness properties, and the behaviours of `ProcessSpawn` in which
the library has closed a redirect target.

No module declares a RECURSIVE operator; what recurses over data
(`CompareNumeric`, `Horspool`, `Split`, `Number`) is a function over numbers, so that
what it computes for every input can be proved by induction over them
(`FormatProofs.Induct`, from the least member of a set of numbers).

## 3. Process creation

### Modules

| module | what it is |
|---|---|
| `Descriptors` | descriptor tables; `pipe`, `close`, `dup2` of the kernel; `close_fd` of `io.hpp` |
| `ProcessSpawn` | callers, children, the fail pipe, the user's own files; properties |
| `SpawnContract` | what `start()` promises, without descriptors: answer, program, ends |
| `MCProcessSpawn` | values of the constants for TLC |
| `ProcessSpawnProofs` | theorems about `ProcessSpawn` |

### State and actions

`table` is the parent's descriptor table, `ctable[c]` the one of call c's child,
`fds[c]` the local variables `pstdin` ... `pfail` of the call, `cfds[c]` the copy
that fork gave the child.  An object in a table is a user's file or
`PipeEnd(c, p, e)`, so that a number that has come to name something else is
seen.  `pc[c]` is the next statement of the caller and `todo[c]` the ends it has
still to `close_fd` before it gets there: a rollback, the near ends or the
destructor are a sequence of single closes between which other threads run.

| action | code |
|---|---|
| `BindStdin`, `BindStdout`, `BindStderr` | the three `redirect_or_pipe` of `create_process`, with their undo |
| `CreateFailPipe`, `Fork`, `ForkFails` | `create_process_impl` up to the fork |
| `ReadFully`, `ReapFailedChild` | the `switch (read_fully(...))`: end of file, an errno, an error |
| `CloseNext` | one `close_fd` |
| `DropHandle` | `~member_holder` = `close_process` |
| `Rewire` ... `ChildExit` | `child_proc`; a child is alone with its table, so runs of `dup2`/`close` are one step |
| `ProgramEnds`, `UserOpen`, `UserClose` | the environment: the program, and the user's own files |

`ReadFullyResults` lets the read end only by what is in the tables: a pending
errno, or end of file when no process, the parent included, holds the write end.
`Swept` keeps the order of the code: 3 and 4 go first, without a test against
`fail_fd`.

The use of the library is chosen in `Init` from the constant `Uses`: the table
before the first call, the files the user may open and close, the startup of
each call, and whether one thread does it all.  A user keeps a redirect target
open until the call that uses it has returned.

Abstracted: payloads and errno values; signals and EINTR (the two retry loops
make them invisible); which step of exec fails; failures of `close`; memory
exhaustion.  The child's argument vectors are in section 5.  A descriptor number
that another thread has taken over is *read* in `ReadFullyResults` as end of file
or error, whichever the object could bring.

### Runs

| run | kind | what it shows |
|---|---|---|
| `spawn_piped` | pass | two concurrent calls and a user thread; a table with exactly seven free numbers (3..9), so that each of the four `pipe()` may be the one that fails, and a roomy one, so that two children coexist between fork and exec: `OwnedEnds`, `HandleConnected`, `UserFdsKept`, `RollbackClosesStreams`, `DropClosesAll`, `ThrowLeavesNoChild`, `SuccessIsTruthful`, `ProgramHasItsStreams`, and the types |
| `spawn_shared` | pass | one call sends its three streams to one file (its destructor closes that number three times, and so may close an end of the other call), the other pipes: `StartReturns`, `DropEndsStdin` under fairness |
| `spawn_redirect` | pass | one call, all 27 choices of targets among two files and none, merged or not, in a table with six free numbers more and in one with two: `ProgramHasItsStreams`, and the refinement `KeepsContract` |
| `spawn_user_fd` | violation | `~process` closes the redirect target (process_unix.cpp:496-498, 505-509), against process.cpp:52-53; the table has numbers to spare, so that the call succeeds and its handle is dropped |
| `spawn_leak` | violation | a `start()` that throws leaves `pfail` open, against process.cpp:51 |
| `spawn_eof` | violation | a handle for a child that never ran, against process_unix.cpp:457-458 |

Bounds.  Two calls are the least that interleave; the properties speak of one
call or of two.  `MaxFd` bounds the table.  Four pipes per call need eight
numbers, so numbers 3..10 hold one call and 3..14 leave room for a second call
with merged outputs (six numbers, less the ends closed by then); the crowded
use of `spawn_piped` marks 10..14 as taken so that the failures of `pipe()` occur.
The two calls of `spawn_piped` have equal startups and are symmetric; no temporal
property is checked under symmetry.

Fairness (`FairSpec`): weak fairness of each caller inside `start()` or the
destructor and of each child before its exec: the kernel schedules threads and
processes.  Nothing obliges the user to call `start()`, to drop a handle or a
program to end, so no liveness rests on these.

Deadlock is checked: `AllDone` is the only way to stop.

### Proofs

`ProcessSpawnProofs` proves, for any number of calls, any `MaxFd` of at least 4 and any
set of uses:

* `TypeCorrect`: `Spec => []TypeOK`;
* `CallsOwnTheirEnds`: `OwnedEnds`, where no stream is redirected;
* and, as long as no call goes to close a redirect target (`[]TargetsSpared`):
  `UserDescriptorsSafe`, `HandleStaysConnected`, `RollbackComplete`, `DropComplete`,
  `NoChildAfterThrow`; `HandleMeansProgram`, if moreover the targets are open before
  the calls (`TargetsOpen`); `ProgramIsIsolated`, if moreover none of them is a
  standard stream of the parent (`TargetsAboveStdio`).

Why these hypotheses.  The destructor, and the undoing of a failed bind, close the
ends of a stream without asking whether it is redirected (`spawn_user_fd`).  After
that `UserFdsKept` is false, and the target's number, remembered twice more, may come
to name an end of another call: ownership is really lost, not only unprovable.
`TargetsSparedElsewhere` shows that the hypothesis excludes no more than that: the
only steps that falsify `TargetsSpared` are those two, of a call that redirects
something.  `TargetsOpen` is the user's part.  `TargetsAboveStdio` is needed because
the child ends its rewiring with `close_fd` of what it has duplicated, and a target
numbered 0..2 is then the stream itself.  Where nothing is redirected all three hold
(`NothingToSpare`).

Neither `OwnedEnds` nor `UserFdsKept` is inductive.  A close is safe only if the
number still names the caller's own pipe end, and that the object in the table
is whose it claims to be is a fact about all other calls: `Ownership` conjoins
`UserFdsKept` with `Remembers`, that a number a call remembers names the pipe end it
made, or else is the target of a redirected stream.  The two need each other: a
close spares the user because its number names a pipe end, and the user's closes
spare the calls because his numbers name files.

`SuccessIsTruthful` needs to know that the end of file could not come early:
`ChildTruth` says of each place of the child what its copy of the write end is (open
until exec, or until it has written its errno), and `CallerHolds` that the caller
in its read still holds the read end and no write end.  Two streams may share a
target, so that two ends may share a number: what the numbers of a child name is
said by `Named` (a pipe end, or the file that the target named before the calls),
which `TargetsHeld` carries from the start to the fork, the user keeping a target
until then; an end that is a pipe differs in number from every other.
`ProgramIsIsolated` follows the child's table from the fork (`ChildStreams`: its
ends are where `cfds` says) through the four `dup2` of `Rewired`, which may overwrite
one another's sources unless these are above 2, and through `Swept`.  `HoldInv` is
`Ownership` with `CallerHolds`, and `TruthInv` conjoins it with the rest; each action
has a lemma.

The same facts do not say what a call still *has*.  `DutyInv` adds to `HoldInv`: at
each place of the caller the ends it remembers are those made so far, or on its list
of ends to close (`CallerOwes`, with `Kept` for each place; the ends of a redirected
stream are not among them); the parent's table has a pipe end only under the number
its call remembers (`TableKnown`); a call has a child only between its fork and the
reap (`Childless`).  From it follow `HandleStaysConnected`, `RollbackComplete`,
`DropComplete` and `NoChildAfterThrow`.  `CallerOwes` is per place because a rollback
is a sequence of single closes: between two of them ends are open that
`RollbackClosesStreams` forbids at the end.  The fail pipe of a call that threw stays
in `Kept`, which is the leak of `spawn_leak`.

`StartImplementsContract` is the safety part of `KeepsContract`, step by step: each
action of `ProcessSpawn` is a step of `SpawnContract` or leaves its variables alone.
It assumes `TargetsOpen`, `[]TargetsSpared` and `[]FailFdsSpared`, that no child's
fail pipe has a number which `close_all_descriptors` or the rewiring overwrites;
without the last the answer is false, as `spawn_eof` shows.

The assumptions on the constants say that a closed number is no object, a user's
file no pipe end, and that numbers 0..2 are open at the start and are not the
user's to close.

Only model-checked: behaviours that go on after a redirect target has been closed
(`spawn_shared`; the contract in `spawn_redirect` across its destructor or a failed
bind); and the liveness `StartReturns` and `DropEndsStdin` (and the fairness part of
the contract), which is not within the prover's reach.

## 4. Process status

### Modules

| module | what it is |
|---|---|
| `ProcessStatus` | the kernel's process table, the handles, the surroundings; properties |
| `MCProcessStatus` | values of the constants for TLC |
| `ProcessStatusProofs` | theorems about `ProcessStatus` |

### State and actions

`proc` is the kernel's process table: a number is free or names a process with
its owner (a handle, or a `Stranger`), its state and the status it ended or
stopped with.  `pid` and `exitCode` are `_info._pid` and `_exit_code` of a handle.
`world` fixes what the rest of the program does: SIGCHLD default or ignored,
somebody calling `waitpid(-1)` or not, children being stopped or not.

| action | code |
|---|---|
| `Poll` | `poll_process_status`, with what `WTERMSIG` and `WSTOPSIG` do to a plain signal number |
| `Call`, `ProcessExited`, `Stat` | `has_exited` and the first half of `wait_for`: one `waitid`, and the look at `/proc` when SIGCHLD is ignored |
| `Known` | what is done with the answer: return it, return the stored code, or go on waiting |
| `WaitFor` | one round of the loop that ends it; a round that finds the child alive changes nothing |
| `Interrupt` | `terminate_process`, from any thread at any time, hitting whatever has the number |
| `Start`, `ProgramStep`, `ReadOut`, `Stop`, `Continue`, `Reap`, `StrangerStep` | `start()` has returned; the child's program, the user, the shell, other parts of the program, other processes |

One thread at a time waits on a handle (the class has no lock).  The destructor
is in section 3; it does nothing to the child.  Errors of `waitid` other than
ECHILD and of `sigaction` cannot occur with these arguments.

### Runs

| run | kind | what it shows |
|---|---|---|
| `status_worlds` | pass | two handles, two numbers, six worlds: `WaitTellsFate`, `PidStaysOwn`, `AnswersAgree`, `ExitedIsFinal`, and the types; under fairness `WaitReturns`, for programs that write nothing, one unit (it fits into the pipe) or two (it does not, unless somebody reads) |
| `status_stopped` | violation | `wait_for()` answers 128 for a stopped child, against process_unix.cpp:530 |

The properties name their conditions: `KeepsZombies` (SIGCHLD default and no other
reaper) for what depends on the number staying the child's; `~world.stops` for
what a stopped child spoils; `PidUnshared(h)` where another child may have got
the number.  These conditions are the result as much as the properties are:
outside them the runs find counterexamples.

Bounds.  Two handles and two numbers are the least with which a number can be
kept, lost to a stranger and lost to a sibling.  `MCSpec` lets programs write only in the
world with the default SIGCHLD where nobody reaps or stops children: how far a program
is with its output matters to nothing but `WaitReturns`.  In the other worlds
`WaitReturns` is about children that are reaped, lost or stopped.  Two exit codes, 0 (which is
also the answer for a lost child) and 7, and the signals 9 and 15.

Fairness: the waiting thread is scheduled (weak); a program gets its turns even
if it is stopped and continued for ever (strong).  Nothing makes the user read.

### Proofs

`ProcessStatusProofs` proves the five safety properties of `status_worlds` for
any number of handles, process numbers and worlds.  The inductive invariant adds
to them: `KernelInv` (a child in the table is the one its handle's number names;
only a world with job control has stopped processes; with SIGCHLD ignored there
are no zombies), `HandleInv` (a handle has a number from `start()` on and has said
nothing before) and `Settled` (where a number is unshared and nobody stops
children, a child that was reported as ended is not alive, `wait_for` never enters
its loop again with a stored code, and with SIGCHLD ignored the code is 0).  The
last is why the two action properties hold: they are about one step, but whether
that step is harmless depends on what was said long before.  `EntryChange` and
`HandleChange` reduce each action to what it does to one entry or one handle.

Only model-checked: `WaitReturns`.

## 5. The child's program and its streams

| module | what it is |
|---|---|
| `ExecSearch` | `process_builder`, the vectors of `child_proc`, `mpp_execvpe`, the errno that is reported |
| `FdStreams` | an `fdostream` and several `fdistream` on the two ends of a pipe |
| `ByteReader` | what an input stream promises: the bytes that arrived and a cursor; the contract of `FdStreams` |
| `MCChild` | values of the constants for TLC |
| `ExecSearchProofs`, `FdStreamsProofs` | theorems about the first two; the second also about `MCChild` |

### State and actions

`ExecSearch` has the builder's `_cmdline` and `_env`, the child's `argv` with the
one word behind its end that `execve_without_shebang` writes to, the directories
still to be tried, `errno` and `sticky_errno`.  `attempts` and `told` remember which
files were given to execve with which words, and what the fail pipe brought.

| action | code |
|---|---|
| `Command`, `SetArguments`, `Environment` | the setters (`SetArguments` is `arguments`) |
| `Start` | the copies of `child_proc`, up to its call of `mpp_execvpe` |
| `NoFile`, `EmptyFile`, `ChooseFiles` | `mpp_execvpe` before the search; a file with a slash is a search of one |
| `TooLong`, `Execve`, `ExecveShell` | one turn of the loop over `dirs`, with the switch on errno (`AfterFailure`) |
| `Overrun` | what the word behind the array held was needed |
| `SearchEnds` | errno becomes `sticky_errno`, `exit_with_error` |

What execve answers is chosen at each attempt: other programs change the
file system.  A crash and a program that runs look alike to the parent, end of
file; `SilentDeath` says that this happens only with an empty command line
(`*file` is read at process_unix.cpp:235 and `file` is null) or after the overrun
at line 204.  The loop's turns are the source's; errnos are grouped as
the switch groups them.  ENOEXEC is told only when /bin/sh answers it.

In `FdStreams` a byte is the number of its place in what the user of the
`fdostream` inserted.  `WriteResults` lets a write take all, or less, or fail;
a read brings any number of bytes up to what the pipe has and the buffer takes,
meets the end, or fails.  `Underflow` is the whole function: the putback area moved, the
bytes read behind it, the three pointers reset; `UnderflowFails` is the return
at line 112, which leaves the putback area moved and the pointers as they were.
`Bump` and `Unget` are std::streambuf's.  The two readers stand for `_stdout` and
`_stderr` of `process` as `member_holder` makes them: both from the descriptor of
stdout (process.hpp:94), so that each byte of the output goes to one of them.
`BytesAccounted` holds of the two together; that `err()` shows the child's output and
not its errors is a remark on that line, as no document says otherwise.

`ReadsAsPromised` is the refinement of `ByteReader`.  Its exception, `cut`, is
real: after a read that failed, up to `PUTBACK_SIZE` bytes that `unget` gives
back may be others.

### Run `child_io` and its bounds

Three calls of the builder are enough for every order of `command`, `arguments`
and `environment` with one repetition.  Three directories, one of them too long,
an empty component and the default path make each errno come before and after
each other one.  `PUTBACK_SIZE` 2, `BUFFER_SIZE` 3 and a pipe of three bytes give, with
five bytes, refills that fill the buffer, that bring one byte, and that find a
putback area larger, equal and smaller than `PUTBACK_SIZE`.  `MaxFaults` is two, as
a second failing read moves a putback area that the first has moved; at the end of
the input any number of reads fail.  The parts of an MC
module share no variable, so a behaviour follows one of them.  Deadlock is not checked
in the runs of sections 5 to 7: a program that runs, a closed pipe, bounded
calls and undefined behaviour are ends.

### Proofs

`ExecSearchProofs`, for any words, keys, search paths and number of calls.
`SearchAnswers` looks back at all attempts when the search is over; in between one
must know what remains: `Searching` says that `dirs` is the rest of the list behind as
many entries as there were attempts, that all of these failed with an errno the loop
passes over, and that `sticky_errno` is EACCES exactly if one of them was refused;
`Tries` that attempt i had directory i and the words of `argv`; `Idle` and
`Over` say what there is before and after.  `SilentDeath` follows from `Over`.
`BuilderKeepsWords` is about the whole history of the setters and yet each setter
sees only `_cmdline`: `BuilderInv` gives the line for *every* history in which a
command came first (before that, nothing is promised), and `History` that a set of
calls that is not empty has a last and a first member and that a command is one
word, without which "longer than one" (`SetArguments`) says nothing about the calls.

`SearchAssumption` asks of a path what splitting at ':' gives: a list that is not
empty, of directories, none of which is the null pointer.

`FdStreamsProofs`, for any sizes of buffer and putback area, any number of readers
and bytes.  `Pointers` and `Buffered` relate the buffer to the input: offset k between
`eback` and `egptr` has byte `Base(r) + k` of what the reader has taken, except below
`failed`, where a failed refill has been; `AsFarBackAsCan` that `eback` is at the
start of the area or of the input.  From these follow `PutbackRoom` and, with the
cursor `pos`, that each step of a reader is one of `ByteReader`.
`Places` has for the pipe and each reader that their bytes increase, that no byte is
in two places and that each on the wire is in one; `BytesAccounted` counts places
and so needs both halves.

All assumptions of `StreamAssumption` are that sizes are numbers, the buffer and
the pipe not empty.  `ChildTypeCorrect` is the type invariant that the run checks, of
the search and the streams next to each other.

## 6. Emitter, any, optional

| module | what it is |
|---|---|
| `EventEmitter` | both emitters, `throw_ex`, and handlers that use them |
| `AnyValue` | `any` over the pools of `allocator_type` |
| `Optional` | `optional` |
| `ValueHolder` | what the two promise: variables with a value or none; their contract |
| `MCObjects` | values of the constants for TLC |
| `EventEmitterProofs`, `ObjectsProofs` | theorems about the first; about `any`, `optional` and `MCObjects` |

### State and actions

`EventEmitter`: `vec[e]` is the vector of an event with the number of the buffer it
lives in; `stack` has a frame for each emit in progress, with the bounds of its
loop as they were at its start.  `On` may or may not move the vector to a new
buffer, `UnregisterEvent` erases it; a loop whose buffer is gone is `Dangling`, and
nothing is promised after it.  (A handler that erases its own vector also destroys the
function object it runs in.  What that breaks depends on what the handler still reads
of its captures; here it ends, and only the next turn of the loop is undefined.)  The top frame either runs a handler, which may do
anything the user may, or its loop goes on: `CallNext`, `Mismatch` (which calls
`throw_ex`, itself an emit), `LoopEnds`.  `Unwind` takes an exception from frame to
frame; in the attentive emitter `call_on` is noexcept and the program ends.
`FailuresHaveCauses` names what user code must do to get there; one of these is a
handler of `throw_ex` that does not take the exception, with which `throw_ex` and
`emit` call each other without end.  It speaks of the handlers that a `throw_ex` on the
stack found at its start, and not of those registered now: a handler that runs in
between may unregister the culprit before the stack overflows, which takes five calls.  An on() that does not move the vector also
leaves the loop's end as it was, so `DeliversInOrder` holds for it too.

`AnyValue`: blocks are numbers, `mem.pool[t]` is `mPool` up to `mOffset`,
`mem.content` what each block holds, `mem.lost` the blocks that left the pool for a
constructor that threw.  `Alloc` gives the possible outcomes of `alloc`, `Free` is
`free`, `StoreInto` the end of every operation that stores: it can throw after
`recycle` has freed the old block, and then the variable still points to it
(`damaged`).  The same happens when a value is assigned to the any it lives in
(`AssignInside`, by way of `get`), whichever block the new value then gets.  `BlocksOwnedOnce` and the refinement
`HoldsWhatWasGiven` say that these two are the only ways.  Blocks lost to a throw
are leaks and are counted as such.

`Optional`: the flag, the content and where the object was made.  `Placed` sees an
object of a type that is not relocatable, a short `std::string` for one, come to
lie elsewhere; that ends the promises.  So `OptionalHolds` says for those types
only what holds until the first assignment or move of a value.

`ValueHolder` has one step per operation; a parameter tells the two apart, as
assigning an empty `any` leaves the old value (any.hpp:371) and assigning an
empty `optional` does not.

### Run `objects` and its bounds

Four calls of user code: enough for two handlers, an emit and what one of them does,
or for one handler of `throw_ex`, a mismatched one and the emit between; the
stack's limit is above what any terminating use of four calls can reach.  Three
`any`, two types with pools of two and four blocks in all: pools run empty, fill
up, and memory is exhausted.  Variables of type `any` and `optional` are symmetric
and only safety is checked; the events and handlers are not reduced.

### Proofs

`EventEmitterProofs`, for any number of calls, nested to any depth.  `FramesOK` says of
each frame of the stack, and not only of the top one, what an emit has done:
`Delivered` (the handlers called are the first ones of those due), `Whole` (an argument
is whole as long as no handler before took it by value), and
`Current`: as long as the frame's buffer is the event's the vector begins with the
handlers due; when it is not, the event was disturbed.  `Current` is what keeps
`DeliversInOrder` through the handlers' own `on`.
That the stack overflows only through a misfit handler needs a count: without
a `Misfit` among the frames at most every second frame was not called for by the user
(`Cost`), and the user has `MaxCalls` calls.  Hence `StackLimit > 2 * MaxCalls` in
`EmitterAssumption`: the real stack is far deeper than any bound used here.

`ObjectsProofs`, for any variables of type `any`, types, values and pool sizes.  Until a
constructor throws in an assignment (`damaged`), the objects in memory are the blocks
that variables point to, no two to one block (`Distinct`), and every other raw block
is lost or in a pool, once (`Sane(mem, Owned(any))`).  `Sane` has
the set of owned blocks as a parameter, as the operations work in two halves: after
`recycle` and before the new block is stored the set is smaller by one (`FreeSane`,
and a lemma of this kind for each outcome of `Alloc`).  `HoldsWhatWasGiven` is the
refinement of `ValueHolder`; that a step leaves the *other* variables' values alone is
where `Distinct` is needed.  `AnyAssumption` says that the pools, which the first
use fills, fit into memory, and that the types are finitely many.

`ObjectsProofs` also has `optional`: `OptTypeOK` relates the flag to the content and to the number of values
alive, made less destroyed (so `Opts` is finite), and each operation must change
both alike; `OptInv` adds that a variable out of life has the fields it began with.
From it each operation is a step of `ValueHolder` (`OptionalHolds`) until an
object of a type that is not relocatable came to lie elsewhere.

`ObjectsTypeCorrect` is the type invariant that the run checks, of the emitter, `any`
and `optional` next to each other.

## 7. Streams of elements, strings, formatting

| module | what it is |
|---|---|
| `LazyStream` | `stream<T>`, with `compose` of `function.hpp` |
| `StringRef` | `string_ref`: views as state, searches and comparisons as operators |
| `Format` | `format` on an `std::ostream` |
| `Codecvt` | the decoder and encoder of gbk, and ascii |
| `MCTexts` | values of the constants for TLC; `ComparesAndFinds`, `SplitsAndTrims` |
| `MCStream` | a smaller instance of `LazyStream` |
| `FormatProofs` | induction over numbers, flattened and cut sequences; theorems about `Format` |
| `TextsProofs` | theorems about `Codecvt`, `LazyStream`, `StringRef` and `MCTexts` |

### State and actions

`LazyStream`: `stream` has the fields of the class.  An operation begins (`Begin`)
and `EvalStep` is one turn of `eval_head`'s loop with what the caller does
with the element; "first" stands for `drop`, `collect(n)`, `head`, `tail`; "while" for
`collect(p)` and `count`; "travel" for `travel`, `peek`, `for_each`, `reduce`, `any`,
`none`, `all`.  `given` are the stages put on the stream in the order of the calls, and
a call remembers those it began with; a `drop_while` through which a call has gone has
nothing more to drop (`Spent`).  `InOrder` is what the stages mean: each is applied to the
sequence that the one before it lets through.  `Answered` says of a call that has
returned that its result is what `InOrder` makes of the source, up to where the call
stops, and that the elements not looked at are still there.

`StagesInOrder` asks that of every call.  The code does not keep it: it composes all
mappers and, apart from them, all predicates (stream.hpp:129-137), and `drop_while(p)` is
`filter(not p)` (146-150).  `AnswersAsPromised` asks it of the calls that this does not
concern, on streams whose maps were given before their filters and without
`drop_while` (`MapsThenFilters`).  `none(p)` is "some element fails p" (259-263) and `all`
its negation, as `AnyOf`, `NoneOf` and `AllOf` have it; the properties speak of `any` and
`all`.

`TasksReturn` is the liveness of these calls: `eval_head` goes round without end
when a list ends on an element that the filter rejects, as `take_head` gives the
last element for ever.  The property says of which streams a call returns.
Fairness is weak and of `EvalStep` alone: the thread that runs the call is
scheduled.  Nobody is obliged to begin one.

`StringRef`: each state is a view (`at`, `len`) of a text; `Cut`, `Strip` and
`SplitOff` apply any operation that makes a view of a view, with any arguments
up to `npos`, and `SrTypeOK` says that the result stays inside.  `size_t` wraps:
`Wrap` where the code computes 0 - 1 or npos + 1.  The searches are compared with
their meaning in `FindsFirst`, whichever of memchr, the naive loop or the skip
table `find` takes: the table's entries are `uint8_t`, so that needles longer than
`MAX_SKIP` go the naive way; `NumericOrder` says that `compare_numeric` is an order, that
of numbers for numbers; `SplitsRejoin` quotes the promises at string.hpp:822, 847
and 879.  With an empty separator and no limit `split` never ends
(`SplitReturns` excludes it).

`Format`: `os` is the stream's state; `FormatOne` is one placeholder with its
argument, `FormatRest` what follows.  What is written is recorded with the state
it was written under.  `FormatsAsAsked` says that flags and width are an
argument's own, and that fill and precision are those given last, by whichever
placeholder: `~stream_flags_saver` restores neither (format.hpp:270).

`Codecvt`: `ReadHead`, `ReadTail` and `Finish` are the branches of `gbk::local2wide`;
a byte is sign-extended to a word before `head << 8`, as `char` is signed.  `Encode` is
one turn of the loop of `gbk::wide2local` over what the decoder made, `EncodeReturns` its
return.  `DecodingInverts` says that the bytes written back are at every turn the
first ones of the text and at the end all of it.  The converse does not hold: a wide character
between 0x80 and 0x7FFF, which the decoder never makes, loses its high byte on encoding.

### Runs and their bounds

| run | kind | what it shows |
|---|---|---|
| `texts` | pass | `ComparesAndFinds`, `SplitsAndTrims`, `AnswersAsPromised`, `TasksReturn`, `FormatsAsAsked`, `DecodingInverts`, and the types |
| `stream_order` | violation | of {2}, `filter(x == 1)`, then `map` of 2 to 1, then `collect` gives 1, against stream.hpp:18 ("Java-like") and the chain that test-stream.cpp:18-24 reads as a composition of its stages |

`stream_order` has lists of one element at most, one map and one predicate: with these
`drop_while(p)` means `filter(not p)`, so that what the run shows is the order of `map` and
`filter` alone.

`npos` is 7, so each wrap occurs with texts of up to six characters; the naive search
gives way to the skip table at three characters instead of 16, so that short texts
take both ways.  Needles have up to three characters, and `MAX_SKIP` is three, not 255, so
that the two needles of four are too long for the table.  Lists of three elements of three values and functions with
a fixed point, a cycle of two and of three, show each way a stream can end or
not; a call is followed until it has collected seven elements.  Two calls of
`format` on one stream show what the first leaves for the second.  Strings of four
bytes put every kind of byte after every other one in both states of the decoder;
`Words` is 2^24 in place of 2^32, all bits above the sixteenth being alike.

### Proofs

`TextsProofs` proves `DecodingInverts` for texts of any length and any width of a word that
has 24 bits and more (`CodecvtAssumption`; it is 32 in the code).  The inductive
invariant `CvInv` has a list of marks, one between any two characters: character i
was made from the bytes between marks i - 1 and i, and decides alone how many these
were, as `IsBlock` of it holds exactly if they were two (`TwoBytes`).  The encoder
passes the same marks.  `Pending` gives the byte whose sign still is in `head`.

`FormatProofs` proves `FormatsAsAsked` for any format strings, numbers of arguments,
calls and streams.  `FmInv` says of a call under way (`At`) how far it is, by two
numbers: q tokens of the format string and k arguments are behind it, among these q
are exactly k placeholders, and what is left is the rest of both.  Up to there the
output flattened is the first q tokens with the placeholders replaced; each piece was
written under the flags of its own placeholder; the stream now has the flags of the
caller's, and the fill and the precision that were given last among the first k
(`Latest`).  The step must show that the next placeholder is the (k + 1)-th, that the
text before it is text in the whole string too, and that `Latest` of k + 1 is what
`Controlled` leaves: `WithAlign` and `WithDigits` overwrite a field exactly where the
placeholder gives it.

`TextsProofs` proves for `LazyStream`, for any lists, producers, maps and predicates,
`AnswersAsPromised`.  The stream keeps one function and one predicate, composed as the
operations come; `LsInv` says that, where the maps came before the filters, these make of
every sequence what the stages make of it in order (`Composed`): a map given after
maps, or a filter given last, adds its stage to both alike.  Nothing is claimed of other
orders, as `stream_order` shows.  For a call there is a sequence xs, the
elements it has taken, and the source it began with is xs before the source now
(`Follows`); what it has collected is what comes out of xs (`CallGoes`: `Going` while
it runs, `Gone` when it has returned).  A list that has given its last element still has it as
`head`, and only `remaining` tells so: a call that goes on then has met an
element that the filter rejects, and never ends.  Of an iterated function the
property compares the first `Shown` values, so a call that returns must not have taken
more.  `NearAt` counts for that: there are `Cardinality(Elements)` values at most, so that
what does not come within so many steps never comes.

For `StringRef`, for all ASCII texts, needles and arguments up to `npos` and every size
below which the naive search is used:

* *Views stay inside* (`ViewsStayInside`).  Each operation is `Substr` or `Slice` of the
  view before, which cut the start to the length and the end to both, so that no
  difference wraps whatever the arguments, `npos` among them, and whatever a search
  returned.  What `split` gives lies inside at every turn of its loop.
* *Searches* (`FindsFirstIs`).  `Positions` is the set of occurrences; a lemma for each
  search says that it returns the least or the greatest of them.  For the search with
  the skip table this needs that the table never skips an occurrence: were there one
  between the place looked at and the next one, its needle would have the byte that
  was looked at nearer to its end than the table says.  From there, the agreement of
  the searches, and of those that ignore case with the same on lower-case texts,
  is about sets.
* *Comparisons* (`NumericOrderIs`).  `compare_numeric` walks through both texts, counting
  digits on the way.  `Verdict` gives its answer without a walk: at the first
  difference, the text whose run of digits ends later is the greater if the difference is
  in a number of both (`SameRun`), else the one with the greater character.  The function equals
  `Verdict` at every index (induction over what is left), and the verdict is
  antisymmetric and transitive, which is decided by the places of three differences.
  For numbers without leading zero a longer one is at least a power of ten above, so
  the order is that of `Number`.
* *Splitting* (`SplitsRejoinIs`).  After each turn of `split` the pieces so far, each
  followed by the separator, and then the rest, are the view (`SplitSoFar`), and no
  piece has the separator in it; the turns end because the rest gets shorter.  Running
  the loop with and without empty pieces side by side gives the same rest, so the
  second result is the first without the empty ones.

Texts have fewer than `npos` characters, as `StringAssumption` says: `npos` is the
answer for "nowhere", and no object of the program is so large.

`TextsInvariant` puts the four together, as the run does; `TextsTypeCorrect`,
`ComparesAndFindsAlways` and `SplitsAndTrimsAlways` are what follows of it.

Only model-checked: `TasksReturn`, which is liveness, as is `WaitReturns` of section 4.

## 8. Not modelled

* The small-data status of `any`: a `stor_impl` is never as small as the eight
  bytes it compares with.  `any_ref`, which nothing uses: its destructor
  (any.hpp:512) frees what it refers to, a null pointer after a move or by
  default, and keeps what it owns, so there is no promise to state.
* Threads in the emitter and in the pools of `any`: neither has a lock, so two threads
  in one of them are a data race and nothing holds.
* `utf8`, which is the standard library's; `is_identifier`, a test of ranges.
* Outputs of `format` that are no `std::ostream`; how a container is laid out (a
  number of pieces here).
* Characters above 127 in `string_ref`, for which `isdigit` and `tolower` of a
  negative `char` are undefined.
* `timer`: differences of readings of a clock; no decision depends on them.
* The compile-time helpers have no state.  `process_win32.cpp` has another
  platform's handles, with none of the hazards of a descriptor table.
* The errors of waitid and sigaction that cannot occur; failures of `close`; memory
  exhaustion outside `any`.
