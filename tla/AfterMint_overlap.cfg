\* Two callers, every operation, a restart or a failing append.
CONSTANTS
    Caller = {c, d}
    Minted = {p}
    Node = {n, m}
    Holder = {a, b}
    Nobody = Nobody
    First = a
    Owner <- AllFirst
    Payment = 1
    AstShare = 2
    Volume = 2
    Threshold = 1
    Amount = {1, 2}
    Value = {1, 4}
    MaxSupply = 4
    MaxCalls = 2
    MaxFaults = 1
SPECIFICATION Spec
SYMMETRY Symmetry
INVARIANTS MemoryIsReplay SettledIsPaid ReserveStands 
CHECK_DEADLOCK FALSE
