\* Wakers and destructors of either service call it again, from two threads; the waker of
\* an orphaned slot ("dropped") does not.
SPECIFICATION FairSpec
CONSTANTS
    Threads = {th1, th2}
    Reentrant = {"capacity", "termination", "result", "user"}
    MaxReentries = 1
\* Nobody has to call the service.  Threads that block each other inside operations
\* violate OperationsReturn.
CHECK_DEADLOCK FALSE
INVARIANTS
    NoSelfDeadlock
PROPERTIES
    OperationsReturn
