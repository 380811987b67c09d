\* One session that is closed while a ping is between its write and its wait.
CONSTANTS
    s1 = s1  s2 = s2  s3 = s3  a1 = a1  a2 = a2  p1 = p1  p2 = p2  h1 = h1  h2 = h2  c1 = c1
    Sessions = {s1}
    Addrs = {a1, a2}
    AddrOf <- MCAddrOf
    Pingers = {p1}
    SessionOf <- MCSessionOf
    Loopers = {}
    Handlers = {h1}
    Closers = {c1}
    AgentCloser = agentCloser
    Together <- MCOnePing
    MaxGen = 2
    NoSession = NoSession
SPECIFICATION FairSpec

PROPERTY CloseUnlocksPings
CHECK_DEADLOCK FALSE
