CONSTANTS
    Events <- MCEvents
    Policies <- MCPolicies
    MaxRepairs = 2
SPECIFICATION SimulatorSpec
INVARIANTS
    ReportedPolicyIsEnforced
    AcceptedPolicyIsLeast
    ReportedMetricsAgree
PROPERTIES
    EveryCaseIsDecided
    ImplementsLifecycle
CHECK_DEADLOCK FALSE
