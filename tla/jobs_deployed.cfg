SPECIFICATION FairSpec
CONSTANTS
    Workers = {w1, w2}
    Jobs <- FleetJobs
    Kind <- FleetKind
    Key <- FleetKey
    NoKey = NoKey
    NoJob = NoJob
    extract = extract
    MaxAttempts = 2
    LostAcks = TRUE
    IdSurvives = FALSE
PROPERTIES
    ImplementsLedger
    OlderJobsSettle
