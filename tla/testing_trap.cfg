\* A body that swallows a #require in a withKnownIssue, and then traps.
SPECIFICATION Spec
CONSTANTS
    a = a  b = b  None = None
    Case = {a}
    MaxRuns = 1
    MaxOps = 4
    MaxNest = 2
INVARIANTS TrapsFail
\* The runner ends.
CHECK_DEADLOCK FALSE
