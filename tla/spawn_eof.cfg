\* Two concurrent calls: does end of file on the fail pipe mean that the
\* program runs?
SPECIFICATION Spec
CONSTANTS
    c1 = c1  c2 = c2  tty = tty  log = log  sink = sink
    Closed = Closed
    MaxFd = 14
    Calls = {c1, c2}
    Files = {tty, log, sink}
    Uses <- RoomyUses
INVARIANT
    EofMeansExec
