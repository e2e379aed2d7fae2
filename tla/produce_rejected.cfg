SPECIFICATION Spec
CONSTANTS
    m0 = m0
    m2 = m2
    v1 = v1
    v2 = v2
    Calls = {m0, m2}
    Versions = {v1, v2}
    Attempts = 2
    MaxRetries <- MCMaxRetries
    Pods = {g1, g2}
    AsyncCalls = {m0}
    Shapes <- MCShapes
    Conforms <- MCConforms
    WireFormats = {TRUE, FALSE}
    NoVersion = NoVersion
    NoPod = NoPod
INVARIANTS
    RejectedNotWritten
