\* One call of each function per input; 24-bit words, ids of two limbs of three values.
CONSTANTS
    WordBits = 24
    Limb = 3
    MaxPartners = 3
    MaxConnects = 2
    NoNode = NoNode
    HeaderUnits = 5
    AF_INET = 2
    LengthLimit = 36
    CustomIds = {10, 11}
    FixedHeaders <- MCFixedHeaders
    Data <- MCData
    Bodies <- MCBodies
    FieldTypes <- MCFieldTypes
    LastTypes <- MCLastTypes
    Values <- MCValues
    Sizes = {2, 3}
    Integers <- MCIntegers
    LeaseMessages <- MCLeaseMessages
    Trailers <- MCTrailers
SPECIFICATION Spec
INVARIANTS VersionTolerant IntegersReadBack HeadersReadBack LeaseEndpointReadBack RangesAreSound SendersReachTheirNode
CHECK_DEADLOCK FALSE
