\* Every transport, and a host that pushes anything at any time.
SPECIFICATION RunSpec
CONSTANTS
    t1 = t1  t2 = t2  a = a  b = b  None = None
    Task = {t1, t2}
    Chunk = {a}
    MaxPush = 3
    MaxBody = 2
INVARIANTS TypeOK TerminalAwaits NothingAfterTerminal EventsInOrder NoLostWakeup NoEarlyFailure
PROPERTIES  PollReturns
\* Requests can all be over.
CHECK_DEADLOCK FALSE
