\* The event emitter with re-entrant handlers; any over its pools; optional.
SPECIFICATION Spec
CONSTANTS
    a1 = a1  a2 = a2  b1 = b1  ta = ta  tb = tb
    v1 = v1  v2 = v2  v3 = v3  o1 = o1  o2 = o2
    Events = {"throw_ex", "e"}
    ArgTypes = {"exception", "number"}
    Signatures <- SomeSignatures
    MaxCalls = 4
    StackLimit = 9
    Anys = {v1, v2, v3}
    Data = {a1, a2, b1}
    Types = {ta, tb}
    TypeOf <- KindOf
    blck_size = 2
    HeapBlocks = 4
    NoBlock = NoBlock  Raw = Raw  Unallocated = Unallocated  None = None  Gone = Gone
    Opts = {o1, o2}
    Temporary = Temporary
    OptData = {a1, a2}
    OptNone = None  OptGone = Gone
SYMMETRY Symmetric
CHECK_DEADLOCK FALSE
INVARIANTS
    TypeOK DeliversInOrder ArgumentsWhole FailuresHaveCauses BlocksOwnedOnce
PROPERTIES
    HoldsWhatWasGiven 
