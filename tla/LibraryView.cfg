SPECIFICATION Spec
CONSTANTS
    v1 = v1
    v2 = v2
    Vitas = {v1, v2}
    Cabled = v1
    Kinds = {"photo", "music"}
    Library <- MCLibrary
    Ids = {1, 2}
    InOrder <- MCInOrder
    Changing <- MCChanging
    PageSize = 1
    MaxViews = 2
    MaxChanges = 2
INVARIANTS
    OneFolder
    OneLoadPerView
    PagingIsComplete
    CopyGetsWhatWasShown
