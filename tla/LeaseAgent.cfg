\* Two sessions with one address, a plain ping and a PingLoop, a closer and Agent.Close.
CONSTANTS
    s1 = s1  s2 = s2  s3 = s3  a1 = a1  a2 = a2  p1 = p1  p2 = p2  h1 = h1  h2 = h2  c1 = c1
    Sessions = {s1, s2, s3}
    Addrs = {a1, a2}
    AddrOf <- MCAddrOf
    Pingers = {p1, p2}
    SessionOf <- MCSessionOf
    Loopers = {p2}
    Handlers = {h1}
    Closers = {c1}
    AgentCloser = agentCloser
    Together <- MCTogether
    MaxGen = 1
    NoSession = NoSession
SPECIFICATION FairSpec
INVARIANTS OpenSessionIsRegistered AgentCloseReaches OkNeedsPong
PROPERTIES CloseUnlocksWaiters LoopReturns
CHECK_DEADLOCK FALSE
