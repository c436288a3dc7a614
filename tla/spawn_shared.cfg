\* Two concurrent calls; one sends all its streams to one file, whose number
\* its destructor closes three times while the other call makes its pipes.
SPECIFICATION FairSpec
CONSTANTS
    c1 = c1  c2 = c2  tty = tty  log = log  sink = sink
    Closed = Closed
    MaxFd = 9
    Calls = {c1, c2}
    Files = {tty, log, sink}
    Uses <- SharedUses
PROPERTIES
    StartReturns DropEndsStdin
