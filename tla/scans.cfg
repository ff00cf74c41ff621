SPECIFICATION Spec
CONSTANTS
    Folders = {d1, d2}
    Files = {f1, f2}
    FolderRoot = folder
    Accepted = {f1}
    MaxMoves = 1
    Pages = {page, p1, p2}
    Databases = {db}
    Containers = {box}
    PageRoot = page
    Nowhere = nowhere
    MaxDepth = 2
    MaxEdits = 1
INVARIANTS
    TypeOK
    DocumentsUnique
    SettledFilesFound
    PagesOnce
    BlocksOnce
    SettledPagesFound
CHECK_DEADLOCK FALSE
