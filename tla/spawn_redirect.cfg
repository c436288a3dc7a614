\* One call with every choice of redirect targets among two files; the user
\* opens and closes the files before and after it.
SPECIFICATION FairSpec
CONSTANTS
    c1 = c1  c2 = c2  tty = tty  log = log  sink = sink
    Closed = Closed
    MaxFd = 10
    Calls = {c1}
    Files = {tty, log, sink}
    Uses <- RedirectUses
INVARIANTS
    ProgramHasItsStreams
PROPERTIES
    KeepsContract
