SPECIFICATION Spec
CONSTANTS
    Fields <- MCFields
    Paths <- MCPaths
    Below <- MCBelow
    Elements <- MCElements
    PathOf <- MCPathOf
    PiiNamed <- MCPiiNamed
    PolicyLists <- MCPolicyLists
    MaxPolicies = 3
INVARIANTS
    TypeOK
    PoliciesEnforced
    OthersUntouched
    AuditComplete
    PiiMentioned
    BlockedForReason
