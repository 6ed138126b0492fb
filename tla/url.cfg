\* A data task and a data(from:) call nested in each other's callbacks, over any
\* transport that ends a cancelled request in time.
SPECIFICATION LiveSpec
CONSTANTS
    t1 = t1  t2 = t2  a1 = a1
    DataTask = {t1}
    AsyncTask = {a1}
    MaxDepth = 2
    MaxEvents = 2
    MaxBuffered = 1
    MaxDrain = 2
INVARIANTS
    HandlesDrained CallbackOrder RunningIsDriven CancelledStopsPolling SecondResultNeedsCancel
    DispositionHonoured
PROPERTY ResumedCompletes
\* A trap at the top level ends the program.
CHECK_DEADLOCK FALSE
