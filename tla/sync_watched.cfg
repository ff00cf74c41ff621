SPECIFICATION FairSpec
CONSTANTS
    Workers = {w1, w2}
    Files = {f1}
    NoCursor = NoCursor
    NoFile = NoFile
    NoJob = NoJob
    MaxChanges = 2
PROPERTIES
    WatchedAreDeactivated
