SPECIFICATION FairSpec
CONSTANTS
    Topics = {t1}
    Versions = {1, 2}
    Threads = {r1, r2, r3}
    TTL = 3
    FetchTimeout = 2
    NoVersion = NoVersion
    NoEntry = NoEntry
    NoTopic = NoTopic
    NoAnswer = NoAnswer
INVARIANTS
    TypeOK
PROPERTIES
    KeepsStalenessPromise
    NotFoundWasTrue
    ResolveReturns
