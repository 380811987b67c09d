\* Two calls whose ids may collide, two feeders, a duplicated answer, a counter
\* that wraps, Close at any time.
CONSTANTS
    r1 = r1  r2 = r2 
    f1 = f1  f2 = f2
    m1 = m1  m2 = m2  m3 = m3
    Requests = {r1, r2}
    Feeders = {f1, f2}
    Closer = closer
    Messages = {m1, m2, m3}
    RelatesTo <- MCReplies
    PresetId <- MCPreset
    Cancellable = {r1}
    IdSpace = 3
    NoReq = NoReq  NoMsg = NoMsg  NoId = NoId
SPECIFICATION Spec
SYMMETRY Symm
INVARIANTS SingleOwner RightReply NoOrphan CancelledOnlyByClose NoLeak
