\* One call with redirects: does the library leave the user his descriptors?
SPECIFICATION Spec
CONSTANTS
    c1 = c1  c2 = c2  tty = tty  log = log  sink = sink
    Closed = Closed
    MaxFd = 12
    Calls = {c1}
    Files = {tty, log, sink}
    Uses <- RoomyRedirects
INVARIANT
    UserFdsKept
