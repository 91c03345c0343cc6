SPECIFICATION CopySpec
CONSTANTS
    N = 3
    SameName = {1, 2, 3}
    Sidecars = {1, 3}
    Size = 2
    MaxForeign = 2
INVARIANTS
    FolderMatchesReport
