\* Groups whose children are taken with next() and waitForAll(), by a program whose bodies return.
SPECIFICATION LiveSpec
CONSTANTS
    MaxTasks = 3
    MaxGroups = 1
    MaxConts = 0
    Streams = FALSE
    ForAwait = FALSE
    Outcomes = {"value", "throw", "error"}
INVARIANTS GroupsFinish CancelReachesGroup 
PROPERTY ProgramEnds
\* The program ends.
CHECK_DEADLOCK FALSE
