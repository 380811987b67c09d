\* A registration, a notification whose callback queries, an early end of
\* every party; with and without TLS.
CONSTANTS
    u1 = u1  cb1 = cb1  n1 = n1
    Flights <- MCFlights
    Dropped = {"ack"}
    Registers = {u1}
    Queries = {cb1}
    Expiring = {cb1}
    Notes = {n1}
    CallbackOf <- MCCallback
    NoId = NoId
SPECIFICATION FairSpec
INVARIANTS OkMeansAccepted FramesAreWhole OnlyFailedSetupLeaks
PROPERTIES PipeEnds CallbacksComplete PiperKeepsCalls
CHECK_DEADLOCK FALSE
