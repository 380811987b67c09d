\* One seed and another node, two messages handled at once, Bootstrap and Discover.
CONSTANTS
    n1 = n1  n2 = n2  self = self  h1 = h1  h2 = h2
    NodeIds = {n1, n2, self}
    Self = self
    Seeds = {n1}
    MaxInstance = 2
    Headers <- MCHeaders
    Handlers = {h1, h2}
    Round = 1
    NoInfo = NoInfo
    NoHandler = NoHandler
SPECIFICATION FairSpec
INVARIANTS IndInv RoutingPartnerStartsJoin WokenSeesJoining
PROPERTIES CtxEndsBootstrap DiscoverEnds
CHECK_DEADLOCK FALSE
