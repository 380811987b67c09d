\* A call that may expire and is answered twice, and another call; or a call and a
\* ping that may be given up.  Close by a user and by Wait.
CONSTANTS
    r1 = r1  r2 = r2  p1 = p1  m1 = m1  m2 = m2  c1 = c1
    Requests = {r1, r2}
    Pingers = {p1}
    Messages = {m1, m2}
    RelatesTo <- MCReplies
    PresetId <- MCNoPreset
    IdSpace = 5
    NoReq = NoReq  NoMsg = NoMsg  NoId = NoId  NoPinger = NoPinger
    Cancellable = {r1}
    PingCancellable = {p1}
    Reader = reader
    Closers = {c1}
    RangeCloser = rangeCloser
    Together <- MCTogether
    MaxTick = 1
    MaxInbox = 1
SPECIFICATION FairSpec
INVARIANTS NoLateWaiter OnlyCancellationWedgesWait
PROPERTIES ImplementsCalls CloseEndsCalls WaitReturns
CHECK_DEADLOCK FALSE
