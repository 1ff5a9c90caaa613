SPECIFICATION MCSpec
CONSTANTS
    bond = bond
    vehicle = vehicle
    terms = terms
    registration = registration
    Type = {bond, vehicle}
    Slot = {terms, registration}
    SlotsOf <- MCSlotsOf
    Required <- MCRequired
    File = {f1, f2}
    Institution = {i1, i2}
    IdempotencyKey = {k1, k2}
    Nil = Nil
    MaxTypes = 1
    MaxFiles = 3
    MaxStarts = 2
    MaxOutages = 1
    MaxBacks = 3
    First = bond
SYMMETRY MCSymmetry
INVARIANTS SubmittedFits 
CHECK_DEADLOCK FALSE
