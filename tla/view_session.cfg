\* Three branches over the same ids, any closure, any failure, a host that checks late loads.
SPECIFICATION Spec
CONSTANTS
    p1 = p1  p2 = p2  p3 = p3  p4 = p4  home = home  detail = detail  modal = modal
    btn = btn  toggle = toggle  stk = stk  pstk = pstk  lnk = lnk  img = img  tabs = tabs
    v1 = v1  v2 = v2  alrt = alrt  ok = ok  None = None
    Pos = {p1, p2, p3, p4}
    View = {btn, toggle, stk, pstk, lnk, img, tabs, alrt, ok}
    Page = {home, detail, modal}
    Layout <- Layouts
    Kind <- ViewKinds
    Watching = {btn, toggle}
    Tasking <- Tasks
    Enclosing <- Stacks
    Val = {v1, v2}
    MaxDepth = 1
    MaxEvents = 3
    MaxPasses = 2
    Throws = TRUE
    LoadGuard = TRUE
CONSTRAINT Unfailed
SYMMETRY SameValues
INVARIANTS HostMirrors WatchersInformed SpawnedWorkDone RecordedTasksRan PhaseMatchesUrl
\* The host stops after MaxEvents calls.
CHECK_DEADLOCK FALSE
