\* string_ref, the lazy stream, format and the decoders.
SPECIFICATION Spec
CONSTANTS
    Texts <- SomeTexts
    Needles <- SomeNeedles
    npos = 7
    NAIVE_BELOW = 3
    MAX_SKIP = 3
    Elements = {0, 1, 2}
    Initial = 0
    Lists <- SomeLists
    Producers <- SomeProducers
    Mappers <- SomeMappers
    Tests <- SomeTests
    MaxTake = 2
    MaxGiven = 3
    MaxOut = 7
    Unset = Unset
    t1 = t1
    FmtTexts = {t1}
    Placeholders <- SomePlaceholders
    Formats <- SomeFormats
    Values <- SomeValues
    Streams <- SomeStreams
    MaxArgs = 2
    MaxFormats = 2
    Locals <- SomeLocals
    Words = 16777216
CHECK_DEADLOCK FALSE
INVARIANTS
    TypeOK ComparesAndFinds SplitsAndTrims AnswersAsPromised FormatsAsAsked DecodingInverts
PROPERTY
    TasksReturn
