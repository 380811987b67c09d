\* A ping after Close, when an earlier one was given up.
CONSTANTS
    p1 = p1  p2 = p2  p3 = p3
    Pingers = {p1, p2}
    Cancellable = {p1}
    MaxTick = 2
    NoPinger = NoPinger
SPECIFICATION FairSpec
PROPERTY PingAfterCloseReturns
CHECK_DEADLOCK FALSE
