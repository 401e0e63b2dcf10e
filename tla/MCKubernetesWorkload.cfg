CONSTANTS
    Events <- MCEvents
    Policies <- MCPolicies
    MaxRepairs = 1
    Namespace = "n1"
    MaxAttempts = 2
    MaxRuns = 2
SPECIFICATION KubernetesSpec
INVARIANTS
    ClusterWithinOriginal
    AcceptedPolicyIsEnforced
    OriginalAccessIsBack
PROPERTIES
    DryRunChangesNothing
CHECK_DEADLOCK FALSE
