SPECIFICATION FairSpec
CONSTANTS
    Key = {k1}
    Pid = {1, 2}
    Hash = {d1, d2}
    Handler = {h1, h2}
    Second = {d2}
    Watcher = {h2}
    Orphan = {o1}
    None = None
    MaxFaults = 1
    MaxRestarts = 1
INVARIANTS SaidIsSo KeyOpensOneProcess
PROPERTIES MintedIsShown HandoffGetsThrough
