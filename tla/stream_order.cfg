\* Do the stages of a stream act in the order in which they were given?
SPECIFICATION LsSpec
CONSTANTS
    Elements = {0, 1, 2}
    Initial = 0
    Lists <- ShortLists
    Producers = {}
    Mappers <- OneMapper
    Tests <- OneTest
    MaxTake = 1
    MaxGiven = 2
    MaxOut = 7
INVARIANT
    StagesInOrder
