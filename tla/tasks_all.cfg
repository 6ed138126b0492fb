\* Three tasks, a group read with for await, a continuation and streams, with bodies that return or trap.
SPECIFICATION Spec
CONSTANTS
    MaxTasks = 3
    MaxGroups = 1
    MaxConts = 1
    Streams = TRUE
    ForAwait = TRUE
    Outcomes = {"value", "error"}
INVARIANTS RunningOnStack SlotHasReader EndMeansDone
\* The program ends.
CHECK_DEADLOCK FALSE
