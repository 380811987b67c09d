\* A ping after a call whose context expired.
CONSTANTS
    r1 = r1  r2 = r2  p1 = p1  m1 = m1  m2 = m2  c1 = c1
    Requests = {r1}
    Pingers = {p1}
    Messages = {m1}
    RelatesTo <- MCOneReply
    PresetId <- MCNoPreset
    IdSpace = 5
    NoReq = NoReq  NoMsg = NoMsg  NoId = NoId  NoPinger = NoPinger
    Cancellable = {r1}
    PingCancellable = {}
    Reader = reader
    Closers = {c1}
    RangeCloser = rangeCloser
    Together <- MCWithPing
    MaxTick = 1
    MaxInbox = 1
SPECIFICATION FairSpec
PROPERTY PingReturnsWhileOpen
CHECK_DEADLOCK FALSE
