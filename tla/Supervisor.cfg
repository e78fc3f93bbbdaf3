SPECIFICATION Spec
CONSTANTS
    Calls = {v1, v2}
    Freshness = 1
    MaxTime = 2
    MaxProcesses = 2
    NoRecord = NoRecord
INVARIANTS
    TypeOK
    AttestationEarned
    ConfirmedIsGone
PROPERTIES
    VerifiedStops
SYMMETRY Interchangeable
