SPECIFICATION CopiesSpec
CONSTANTS
    Writer = {c1, c2}
    Client = {k1, k2}
    Puller = {p1, p2}
    MaxRecords = 3
    MaxFaults = 2
    ReplicaRecords = 2
    ReplicaFaults = 1
    Replay = {r1, r2}
    MaxTop = 2
    MaxCuts = 1
    MaxReplays = 2
    MirrorEvents = 2
    PageLimit = 2
    Process = {core, cli}
    MaxSecrets = 3
    MaxEntries = 2
    MaxStarts = 4
    KeyId = {pot, token}
    Master = {w1, w2}
    Versions <- MCVersions
    MaxPairs = 4
    MaxProgramStarts = 3
SYMMETRY CopiesSymmetry
INVARIANTS FilesKeepJournal ObserversFollow
PROPERTIES KeysFit
CHECK_DEADLOCK FALSE
