CONSTANTS
    MaxGrants = 2
    MaxInputs = 3
    MaxDocuments = 3
SPECIFICATION Spec
INVARIANTS
    ExpansionKeepsAuthorization
    RoundTripIsExact
    ReductionIsLeast
    ResolvesWhatIsGranted
    ReducingNeverAddsRisk
CHECK_DEADLOCK FALSE
