SPECIFICATION FairSpec
CONSTANTS
    w1 = w1
    w2 = w2
    p1 = p1
    p2 = p2
    Workers = {w1, w2}
    Partitions = {p1, p2}
    CommitInterval = 2
    Logs <- MCLogs
    MarquezMayFail = FALSE
    MaxFaults = 2
    NoPartition = NoPartition
INVARIANTS
    TypeOK
    CommittedWasHandled
    RedoBounded
    RecordedWhileMarquezAnswers
PROPERTIES
    CommittedNeverRegresses
    EveryMessageHandled
\* Faults are bounded and the partitions finite: in the end every worker idles.
CHECK_DEADLOCK FALSE
