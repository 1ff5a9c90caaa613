\* Four validators, of which two or three confirm.
SPECIFICATION FairSpec
CONSTANTS
    Node = {v1, v2, v3, v4}
    Run = {r1}
    Resume = {s1}
    Closer = {c1}
    KMin = 3
    Suspendable = {v1}
    Groups = {{v1, v2}, {v1, v2, v3}}
    MaxChallenges = 1
    MaxSuspensions = 1
    MaxFaults = 1
INVARIANTS VerdictIsSound MintRestsOnVerdict
 
CHECK_DEADLOCK FALSE
