SPECIFICATION Spec
CONSTANTS
    Calls <- MCCalls
    Components = 3
INVARIANTS
    CleanedUpOnce
\* A call returns, and then there is nothing left to do.
CHECK_DEADLOCK FALSE
