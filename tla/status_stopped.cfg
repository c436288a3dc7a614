\* Does wait_for() return only when the child has ended?
SPECIFICATION Spec
CONSTANTS
    h1 = h1  h2 = h2
    Handles = {h1, h2}
    Stranger = Stranger
    Free = Free
    Pids <- PidNumbers
    ExitCodes <- SomeCodes
    Outputs <- NoOutput
    Capacity = 1
    Worlds <- PlainWorlds
INVARIANT
    WaitMeansEnded
