SPECIFICATION Spec
CONSTANTS
    MaxTokens = 3
    Overlap = 1
    MaxChars = 5
    SubIndex = 100
    BlockTypes = {"paragraph", "heading"}
    TopK = 3
    Window = 2
    PerDocument = 2
    Top = 4
    Scale = 3782
    Documents = {d1, d2}
    Texts <- SomeTexts
    MaxHits = 2
    Scores = {0, 1}
    TokenBudget = 4
SYMMETRY DocumentSymmetry
INVARIANTS
    ChunksCoverText
    DropsAreJustified
    TextReturnedOnce
    
CHECK_DEADLOCK FALSE
