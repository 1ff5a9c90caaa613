\* Three holders, every order of the map, a series of valuations; seven
\* certificates and chains one shorter than the longest way up; journals longer
\* than every window; two fetches in flight; two tabs and two sessions; requests,
\* bodies and configurations wrong in up to two respects; two processes before a
\* panel; two nodes; two processes' lives
\* in the velocity's window.
CONSTANTS
    Holder = {a, b, c}
    MaxBalance = 4
    MaxValue = 4
    MaxSupply = 16
    Cert <- MCCert
    Signed <- MCSigned
    Depth = 4
    Reader = {r1, r2}
    Owner = {r1, r3}
    NoProcess = none
    PageCap = 2
    OverFetch = 2
    FetchCap = 4
    RecentCap = 3
    MaxRows = 4
    Proc = {p1, p2}
    Visited = p1
    Fetch = {g1, g2}
    Filter = {all, minted}
    Every = all
    Blank = blank
    MaxRecords = 3
    FinalCount = 2
    Tab = {t1, t2}
    Member = {m1, m2, m3}
    Account = {m1, m2}
    Listed = {m1}
    Certified = {m2, m3}
    MaxSessions = 2
    MaxEdgeStarts = 1
    Expired = {2, 4, 6}
    Bound <- MCBound
    Absent = absent
    Broken = broken
    DemoAnchors = {5}
    Content = {"c1", "c2"}
    GoodId = "id1"
    BadId = "id2"
    Foreign = "comment"
    Oracle = {o1, o2, o3}
    Registered = {o1, o2}
    Subject = {s1, s2}
    Unnamed = unnamed
    MinOracles = 2
    MaxAttestations = 3
    Process = {u1, u2}
    Committees <- MCCommittees
    Panels <- MCPanels
    Scores = {60}
    MaxStarts = 1
    Node = {v1, v2}
    Role = {"confirmer", "observer"}
    Founders = {v1}
    MaxPending = 2
    MaxDisturbances = 2
    MaxCredentials = 2
    Institution = {"i1", "i2"}
    Token = {"x", "y"}
    NotSent = notsent
    BuiltIn <- MCBuiltIn
    EdgeBuiltIn <- MCEdgeBuiltIn
    NoName = "noname"
    Endless = "endless"
    Wallets = {"w1"}
    EmissionCap = 2
    Fragment = {"a", "b"}
    Nameless = "nameless"
    MadeUp = "madeup"
    Radix = 3
    Scale = 2
    PageDigits = 3
    RateUnit = 8
    ShareUnit = 4
    NoText = notext
    NotListed = notlisted
    MaxDigits = 4
SPECIFICATION MCSpec
INVARIANTS TrustIsEarned AccessRulesAgree PlacesAgree  PagesShowWhatIsSo SessionsAreKnown NodesAreKnown
PROPERTIES AmountsAddUp
CHECK_DEADLOCK FALSE
