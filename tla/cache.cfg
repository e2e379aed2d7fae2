SPECIFICATION FairSpec
CONSTANTS
    Topics = {t1}
    Versions = {1, 2}
    Readers = {r1, r2}
    TTL = 3
    FetchTimeout = 2
    Bound <- MCBound
    FailOpen <- MCFailOpen
    WireFormats = {TRUE, FALSE}
    EmptyTopic = EmptyTopic
    NoEntry = NoEntry
    NoTopic = NoTopic
    NoVersion = NoVersion
    NoAnswer = NoAnswer
INVARIANTS
    TypeOK
PROPERTIES
    KeepsStalenessPromise
    GetReturns
