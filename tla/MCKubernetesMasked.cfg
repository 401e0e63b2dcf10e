CONSTANTS
    Events <- MCEvents
    Policies <- MCPolicies
    MaxRepairs = 1
    Namespace = "n1"
    MaxAttempts = 2
    MaxRuns = 1
SPECIFICATION KubernetesSpec
INVARIANT AcceptedPolicyPassesDeclaredTests
CHECK_DEADLOCK FALSE
