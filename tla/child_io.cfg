\* The builder and the child's search for its program; the streams over the
\* two ends of a pipe.
SPECIFICATION Spec
CONSTANTS
    prog = prog  other = other  script = script  opt = opt  arg = arg
    k1 = k1  k2 = k2  v1 = v1  v2 = v2  d1 = d1  d2 = d2  d3 = d3
    NoWord = NoWord  Null = Null  Sh = Sh  Unset = Unset  Empty = Empty
    Words = {prog, script, NoWord, opt, arg}
    Slashed = {script}
    Arguments <- SomeArguments
    Keys = {k1, k2}
    Values = {v1, v2}
    PathVars <- SomePaths
    LongDirs = {d3}
    DefaultPath <- DefaultDirs
    Skipped = {"EACCES", "ENOENT", "ELOOP"}
    Fatal = {"ENAMETOOLONG", "ENOEXEC", "ENOMEM"}
    MaxCalls = 3
    NoByte = NoByte
    Readers = {"out", "err"}
    PUTBACK_SIZE = 2
    BUFFER_SIZE = 3
    Capacity = 3
    Chunks = {1, 2}
    MaxBytes = 5
    MaxFaults = 2
CHECK_DEADLOCK FALSE
INVARIANTS
    TypeOK BuilderKeepsWords SearchAnswers SilentDeath PutbackRoom BytesAccounted
PROPERTY
    ReadsAsPromised
