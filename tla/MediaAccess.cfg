SPECIFICATION Spec
CONSTANTS
    Photos = {1}
    Songs = {2, 3}
    Videos = {4, 5}
    AtFirst = {2, 4}
    Coming = {2, 5}
    Subtitled = {4, 5}
    BadNames = {3}
    Limit = 9
    MaxChanges = 2
INVARIANTS
    AccessIsKept
    ArenaSettles
    CatalogFits
    QuietBuildIsComplete
