SPECIFICATION Spec
CONSTANTS
    Workers = {w1, w2}
    Docs = {d1}
    ExternalId <- OneId
    Contents <- DraftFinal
    Shape <- ShapeOf
    Blank = {}
    NoContent = NoContent
    Nobody = Nobody
    Rebuilds = TRUE
    Restores = TRUE
    MaxRequests = 3
    d1 = d1
    draft = draft
    final = final
    empty = empty
SYMMETRY WorkerSymmetry
INVARIANTS
    TypeOK
    OneVersionIndexed
    NoDuplicateVersion
PROPERTIES
    NothingIndexedAfterDeactivation
