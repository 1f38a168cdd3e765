SPECIFICATION FairSpec
CONSTANTS
    high = high
    mid = mid
    low = low
    x = x
    y = y
    Task = {high, mid}
    Priority <- MailboxPriority
    Item = {x, y}
    uxLength = 1
    Calls <- MailboxCalls
    IsrSends <- MailboxIsr
    IsrReceives = TRUE
    LockMax = 2
PROPERTIES IsBoundedQueue LimitedSendEnds
CHECK_DEADLOCK FALSE
