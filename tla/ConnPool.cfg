\* Two senders, three cachedConns one after the other, SiteNode.Close at any time.
CONSTANTS
    s1 = s1  s2 = s2
    Senders = {s1, s2}
    MaxConn = 3
    Node = Node
    None = None
SPECIFICATION FairSpec
INVARIANTS ConnOrError PooledIsAlive OnlyNodeClosesOthers
PROPERTY DeadConnsLeave
CHECK_DEADLOCK FALSE
