\* Three concurrent callers, two calls each, one application key.
CONSTANTS
    Caller = {c1, c2, c3}
    Key = {genesis, k1}
    GenesisKey = genesis
    NoKey = NoKey
    NoRecord = NoRecord
    GenesisPrev = GenesisPrev
    MaxHeight = 6
    MaxCalls = 2
    VerifyEveryN = 2
SPECIFICATION Spec
SYMMETRY CallerSymmetry
INVARIANTS ChainUnbroken KeyOnceUnlessRaced NoFalseAlarm ObserversComplete
PROPERTIES ImplementsAppendLog
CHECK_DEADLOCK FALSE
