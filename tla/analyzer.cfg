SPECIFICATION FairSpec
CONSTANTS
    orders = orders
    s = s
    a = a
    b = b
    c = c
    f1 = f1
    f2 = f2
    x = x
    y = y
    Topics = {orders}
    Nodes <- MCNodes
    Fields = {f1, f2}
    Teams = {x, y}
    Canonical <- MCCanonical
    NoName = NoName
    NoTeam = NoTeam
    Graphs <- MCGraphs
    Worlds <- MCWorlds
    Changes <- MCChanges
    MaxDepth = 2
    TTL = 2
    FetchTimeout = 1
    Outage = Outage
    Unknown = Unknown
    NoEntry = NoEntry
    NoAnswer = NoAnswer
INVARIANTS
    TypeOK
    Layered
    ReportIsExact
    OwnersAsked
PROPERTIES
    KeepsFreshnessPromise
    AnalysisReturns
