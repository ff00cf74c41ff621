SPECIFICATION Spec
CONSTANTS
    Workers = {w1, w2, w3}
    Jobs <- FleetJobs
    Kind <- FleetKind
    Key <- FleetKey
    NoKey = NoKey
    NoJob = NoJob
    extract = extract
    MaxAttempts = 2
    LostAcks = TRUE
    IdSurvives = TRUE
SYMMETRY DaemonSymmetry
INVARIANTS
    TypeOK
    ExclusiveExecution
    CompletedHasEffects
    BuriedOnlyWhenExhausted
    UnknownBuriedOnce
    OneRowPerKey
