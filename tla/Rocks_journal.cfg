\* One writer at a time with crashes and failing puts between the puts, or
\* overlapping writers after boot; every append is verified.
CONSTANTS
    Caller = {c1, c2}
    Key = {genesis, k1}
    GenesisKey = genesis
    NoKey = NoKey
    NoRecord = NoRecord
    GenesisPrev = GenesisPrev
    MaxHeight = 5
    MaxCalls = 3
    VerifyEveryN = 1
    MaxCrashes = 2
    MaxFailures = 1
SPECIFICATION MCSpec
SYMMETRY CallerSymmetry
INVARIANTS StoreIsSound BrokenChainFailsClosed
PROPERTIES ImplementsAppendLog
CHECK_DEADLOCK FALSE
