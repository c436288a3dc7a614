\* Two children, two process numbers, every combination of SIGCHLD, another
\* reaper and job control; pipes nobody need read in the plainest of them.
SPECIFICATION MCSpec
CONSTANTS
    h1 = h1  h2 = h2
    Handles = {h1, h2}
    Stranger = Stranger
    Free = Free
    Pids <- PidNumbers
    ExitCodes <- SomeCodes
    Outputs <- SomeOutputs
    Capacity = 1
    Worlds <- AllWorlds
INVARIANTS
    TypeOK PidStaysOwn WaitTellsFate
PROPERTIES
    AnswersAgree ExitedIsFinal WaitReturns
