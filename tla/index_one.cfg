SPECIFICATION FairSpec
CONSTANTS
    Workers = {w1}
    Docs = {d1}
    ExternalId <- OneId
    Contents <- DraftFinalEmpty
    Shape <- ShapeOf
    Blank = {empty}
    NoContent = NoContent
    Nobody = Nobody
    Rebuilds = FALSE
    Restores = FALSE
    MaxRequests = 3
    d1 = d1
    draft = draft
    final = final
    empty = empty
INVARIANTS
    Converged
PROPERTIES
    VersionIndexedAtLast
CHECK_DEADLOCK FALSE
