\* Three goroutines share three pings; two of them may give up.
CONSTANTS
    p1 = p1  p2 = p2  p3 = p3
    Pingers = {p1, p2, p3}
    Cancellable = {p1, p2}
    MaxTick = 3
    NoPinger = NoPinger
SPECIFICATION FairSpec
INVARIANTS StrayBound FalseAlarmHasCause OkUsesOwnAnswer
PROPERTY PingReturns
CHECK_DEADLOCK FALSE
