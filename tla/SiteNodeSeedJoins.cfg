\* A seed heard of while it joins finishes its join.
CONSTANTS
    n1 = n1  n2 = n2  self = self  h1 = h1  h2 = h2
    NodeIds = {n1, self}
    Self = self
    Seeds = {n1}
    MaxInstance = 1
    Headers <- MCSeedJoins
    Handlers = {h1}
    Round = 0
    NoInfo = NoInfo
    NoHandler = NoHandler
SPECIFICATION FairSpec
PROPERTY RoutingHeardStartsJoin
CHECK_DEADLOCK FALSE
