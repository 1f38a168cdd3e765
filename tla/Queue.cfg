SPECIFICATION Spec
CONSTANTS
    high = high
    mid = mid
    low = low
    x = x
    y = y
    Task <- MCTask
    Priority <- MCPriority
    Item = {x, y}
    uxLength = 2
    Calls <- MCCalls
    IsrSends <- MCIsr
    IsrReceives = TRUE
    LockMax = 2
INVARIANTS NobodyForgotten NoLostWakeup
PROPERTIES IsBoundedQueue FirstComeFirstServed
CHECK_DEADLOCK FALSE
