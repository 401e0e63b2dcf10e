CONSTANTS
    Events <- MCEvents
    Policies <- MCPolicies
    MaxRepairs = 2
SPECIFICATION GraphSpec
INVARIANTS
    TypeOK
    CandidateWithinOriginal
    ValidationNeverFails
    AcceptedOnlyIfVerified
    RemovalsAccountedFor
    StepsAreBounded
PROPERTIES
    EventuallyEnds
CHECK_DEADLOCK FALSE
