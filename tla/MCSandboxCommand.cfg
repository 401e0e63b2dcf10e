CONSTANTS
    Services <- MCServices
    Events <- MCEvents
    Policies <- MCPolicies
    Namespace = "kuber-sandbox"
    MaxLag <- MCLag
    MaxRepairs = 5
    MaxAttempts = 2
    MaxRuns = 3
SPECIFICATION CommandSpec
INVARIANTS
    CommandTypeOK
    AcceptedPolicyKeepsServing
    RejectionIsJustified
    ServiceSurvivesCommand
    PassedServiceIsServed
PROPERTIES
    PreparationEnds
CHECK_DEADLOCK FALSE
