------------------------------ MODULE LeaseBody ------------------------------
(***************************************************************************)
(* lease/serialize.go: the layout of a lease message.  The header holds a  *)
(* descriptor (count, offset, size) for each of nine relationship lists    *)
(* and for the listen endpoint, whose bytes follow the header.             *)
(* lease/frame.go: the frame a message travels in, behind connect frames.  *)
(* Everything is made of 16-bit units; offsets and sizes are in bytes.     *)
(***************************************************************************)
EXTENDS Integers, SequencesExt

CONSTANTS
    HeaderUnits,   \* bound: the header's length, 92 units in the code
    AF_INET

ASSUME LeaseAssumption == HeaderUnits \in Nat /\ AF_INET \in Nat

\* uint32 as two units.
Uint32(n)   == <<n % 65536, (n \div 65536) % 65536>>
IsUint32(n) == n \div 65536 < 65536

\* marshalWithSize.
WithSize(units) == Uint32(2 * Len(units)) \o units

\* marshalRelationshipList, of pairs of the application's id and a name.
Relationships(appId, names) ==
    WithSize(Uint32(Len(names))
               \o FlattenSeq([i \in DOMAIN names |-> WithSize(appId) \o WithSize(names[i])]))

Endpoint(address, port) == address \o <<0, AF_INET, port>>

\* Mutant: offsets count from the end of the header.
AfterHeader  == 0
FirstOffset == 2 * HeaderUnits

\* marshalLeaseBody: the descriptors of the lists; what is written before a list
\* moves its offset.
Before(encoded, i) == FlattenSeq(SubSeq(encoded, 1, i - 1))
Layout(encoded) ==
    [i \in DOMAIN encoded |-> [StartOffset |-> FirstOffset + 2 * Len(Before(encoded, i)),
                               Size        |-> 2 * Len(encoded[i])]]

Encoded(m) == [i \in DOMAIN m.lists |-> Relationships(m.appId, m.lists[i])]
                \o <<Endpoint(m.address, m.port)>>

Descriptors(m) == Layout(Encoded(m))

\* The header's units stand for the descriptors, which unmarshal reads by name;
\* more is what another implementation writes after the endpoint.
MarshalLease(m, more) ==
    [header |-> Descriptors(m),
     data   |-> [i \in 1 .. HeaderUnits |-> 0] \o FlattenSeq(Encoded(m)) \o more]

\* dataAtList; an empty result is an error.
dataAtList(data, desc) ==
    LET ed == desc.StartOffset + desc.Size
    IN  IF desc.StartOffset >= 2 * Len(data) \/ ed >= 2 * Len(data) THEN <<>>
        ELSE SubSeq(data, desc.StartOffset \div 2 + 1, ed \div 2)

NoMessage == [address |-> <<>>, port |-> -1]

\* unmarshal, as far as the endpoint: a final zero is cut off, the family skipped.
UnmarshalLease(msg) ==
    LET d == dataAtList(msg.data, Last(msg.header))
        s == SubSeq(d, 1, Len(d) - 2)
    IN  IF d = <<>> THEN NoMessage
        ELSE [address |-> IF Last(s) = 0 THEN Front(s) ELSE s, port |-> d[Len(d)]]

-----------------------------------------------------------------------------
(* Frames.                                                                 *)

Message == 1
Connect == 2
sizeOfLtFrameheader == 12

FrameHeader(type, size) == <<type, 0>> \o Uint32(size) \o <<0, 0>>
writeConnectFrame       == FrameHeader(Connect, sizeOfLtFrameheader)
writeDataWithFrame(units) ==
    FrameHeader(Message, sizeOfLtFrameheader + 2 * Len(units)) \o units

\* What follows k frame headers is another, and which.
HasHeader(s, k)     == 6 * k + 6 <= Len(s)
IsFrame(s, k, type) == HasHeader(s, k) /\ s[6 * k + 1] = type

\* nextLtFrame calls itself after each of the connect frames that s begins with.
LeadingConnects(s) ==
    CHOOSE k \in 0 .. Len(s) :
        ~ IsFrame(s, k, Connect) /\ \A j \in 0 .. k - 1 : IsFrame(s, j, Connect)

\* The body of the first frame that is no connect frame; an error is empty.
nextLtFrame(s) ==
    LET k    == LeadingConnects(s)
        size == (s[6 * k + 3] + 65536 * s[6 * k + 4]) - sizeOfLtFrameheader
        rest == SubSeq(s, 6 * k + 7, Len(s))
    IN  IF IsFrame(s, k, Message) /\ size \div 2 <= Len(rest)
        THEN SubSeq(rest, 1, size \div 2)
        ELSE <<>>

-----------------------------------------------------------------------------
\* Each descriptor addresses the bytes of its own list, and the endpoint is read
\* back as written when anything follows it.  When nothing does, as in every
\* message this code writes, unmarshal refuses the message (serialize.go:134).
\* The message read is the one sent, behind any number of connect frames and
\* before any other frame (frame.go:26-49).  This needs a frame whose size fits
\* its field.
EndpointReadBack(m, more, connects) ==
    LET msg    == MarshalLease(m, more)
        stream == FlattenSeq([i \in 1 .. connects |-> writeConnectFrame])
                    \o writeDataWithFrame(msg.data) \o writeDataWithFrame(<<0>>)
        data   == nextLtFrame(stream)
        unit(i, k) == data[msg.header[i].StartOffset \div 2 + k]
    IN  IsUint32(sizeOfLtFrameheader + 2 * Len(msg.data)) =>
        /\ Len(data) = Len(msg.data)
        /\ \A i \in DOMAIN msg.header : \A k \in 1 .. msg.header[i].Size \div 2 :
               unit(i, k) = Encoded(m)[i][k]
        /\ UnmarshalLease([header |-> msg.header, data |-> data]) =
               IF more = <<>> THEN NoMessage ELSE [address |-> m.address, port |-> m.port]
=============================================================================
