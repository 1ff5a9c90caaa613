\* Two callers from an unhydrated service, one at a time with every operation or at once
\* with three of them; a restart and a failing append.
CONSTANTS
    Caller = {c1, c2}
    Process = {p, q, u}
    Holder = {a, b}
    Verified = {p, q}
    Amount = {1}
    Value = {1, 2}
    Operation = {"mint", "remint", "burn", "transfer", "reval"}
    Busy = {p}
    Overlapping <- BusyRequests
    NoFact = NoFact
    MaxCalls = 2
    MaxFacts = 4
    MaxCrashes = 1
    MaxFailures = 1
SPECIFICATION Spec
SYMMETRY Symmetry
INVARIANTS LedgerFollowsJournal MintedOnceUnlessRaced
PROPERTIES RefusedMintIsJournalled
CHECK_DEADLOCK FALSE
