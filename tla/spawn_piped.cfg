\* Two concurrent calls of start() with all streams piped.
SPECIFICATION Spec
CONSTANTS
    c1 = c1  c2 = c2  tty = tty  log = log  sink = sink
    Closed = Closed
    MaxFd = 14
    Calls = {c1, c2}
    Files = {tty, log, sink}
    Uses <- PipedUses
SYMMETRY Symmetric
INVARIANTS
    TypeOK OwnedEnds HandleConnected UserFdsKept RollbackClosesStreams
    DropClosesAll ThrowLeavesNoChild SuccessIsTruthful ProgramHasItsStreams
