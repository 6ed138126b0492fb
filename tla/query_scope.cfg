\* A View or an App whose views have containers anywhere.
SPECIFICATION Spec
CONSTANTS
    Container = {m1, m2}
    None = None
    MaxChain = 2
    MaxNest = 2
INVARIANT NearestContainer
