\* Any tree after any other: a keyed List, a VStack of unkeyed views.
SPECIFICATION WebSpec
CONSTANTS
    None = None
    MaxRenders = 1
    Key = {0, 1, 7}
    Longest = 3
    Stacked = 2
    Toggles = FALSE
    TreeRoots <- Trees
INVARIANTS PatchesReachTree ElementsSurvive DomInOrder
CHECK_DEADLOCK FALSE
