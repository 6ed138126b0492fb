\* Two tests with any traits, arguments and bodies, run all or by id.
SPECIFICATION Spec
CONSTANTS
    a = a  b = b  None = None
    Case = {a, b}
    MaxRuns = 2
    MaxOps = 4
    MaxNest = 3
SYMMETRY SameCases
INVARIANTS StatusHonest KnownScopesBalance SelectionHeard
\* The runner ends.
CHECK_DEADLOCK FALSE
