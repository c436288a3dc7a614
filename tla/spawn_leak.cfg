\* All streams piped: does a start() that throws leave anything open?
SPECIFICATION Spec
CONSTANTS
    c1 = c1  c2 = c2  tty = tty  log = log  sink = sink
    Closed = Closed
    MaxFd = 14
    Calls = {c1, c2}
    Files = {tty, log, sink}
    Uses <- RoomyUses
INVARIANT
    RollbackIsTotal
