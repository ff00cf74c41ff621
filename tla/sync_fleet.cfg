SPECIFICATION Spec
CONSTANTS
    Workers = {w1, w2}
    Files = {f1, f2}
    NoCursor = NoCursor
    NoFile = NoFile
    NoJob = NoJob
    MaxChanges = 2
SYMMETRY DaemonAndFileSymmetry
INVARIANTS
    TypeOK
    NoRemovalSkipped
