SPECIFICATION FairSpec
CONSTANTS
    Memories = {m1, m2}
    Chunks = {c1, c2}
    Reviewers = {r1, r2}
    Evictors = {e1}
    Classes <- SomeClasses
    Unborn = Unborn
    MaxRequests = 3
    ChunkList <- OneChunk
    Replies <- SomeReplies
    ThinkingDisabled = FALSE
    NoChunk = NoChunk
    c1 = c1
    c2 = c2
INVARIANTS
    ExtractionTypeOK
    NoUnreviewedApproval
    UnsupportedMeansOrphaned
    OrphansAreReported
    LastEntryDecides
    ChunksSettled
PROPERTIES
    TerminalLeftOnlyByOverride
    EveryRequestEnds
CHECK_DEADLOCK FALSE
