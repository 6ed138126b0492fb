\* A NavigationStack onto which a screen is pushed.
SPECIFICATION WebSpec
CONSTANTS
    None = None
    MaxRenders = 1
    Key = {0}
    Longest = 1
    Stacked = 2
    Toggles = FALSE
    TreeRoots <- Stacks
INVARIANTS TopmostVisible
\* The program stops after MaxRenders.
CHECK_DEADLOCK FALSE
