----------------------------- MODULE CodecCalls -----------------------------
(***************************************************************************)
(* The functions of serialization, transport, lease and federation that    *)
(* keep no state, called with one input each: an integer, a message, a     *)
(* lease message, a range that is asked whether it contains an id, and a   *)
(* table in which SendOneWay looks for the partner to send to.             *)
(***************************************************************************)
EXTENDS NodeRing, Compress, LeaseBody, MessageHeaders

CONSTANTS
    Sizes, Integers,           \* sizes in bytes, and values that fit some of them
    LeaseMessages, Trailers,   \* lease messages, and what follows their endpoint
    FixedHeaders, Data, Bodies, \* of messages: fields, custom headers, bodies
    MaxConnects,               \* bound: connect frames before a lease message
    MaxPartners                \* bound: partners in the table

\* The code's sizes are 2, 4 and 8.
ASSUME IntegersAssumption ==
    /\ \A s \in Sizes : s \in Nat \ {0} /\ s % 7 # 0 /\ 8 * s <= WordBits
    /\ Integers \subseteq -Word .. Word - 1

\* A byte of a header, or a unit of a lease message.
Cell  == Nat
Cells == Seq(Cell)

\* The application's id, an address with its port, and lists of names.
IsMessage(m) ==
    /\ m.appId \in Cells /\ m.address \in Cells /\ m.port \in Nat
    /\ m.lists \in Seq(Seq(Cells))

ASSUME LeaseMessagesAssumption ==
    /\ MaxConnects \in Nat
    /\ \A m \in LeaseMessages : IsMessage(m)
    /\ Trailers \subseteq Cells

\* The data of the fields; a zero value has one encoding.
IsFixed(fixed) ==
    /\ fixed \in [Fixed -> Cells]
    /\ \A k \in Fixed : AllZero(fixed[k]) => fixed[k] = Blank(k)

ASSUME MessagesAssumption ==
    /\ \A fixed \in FixedHeaders : IsFixed(fixed)
    /\ Data \subseteq Cells /\ Bodies \subseteq Cells

ASSUME PartnersAssumption == MaxPartners \in Nat

VARIABLE call   \* the function called, and its input

Init == call = [fn |-> "none"]

Unused == call.fn = "none"

CallCompress ==
    /\ Unused
    /\ \E size \in Sizes, v \in Integers :
          call' = [fn |-> "Compress", size |-> size, value |-> v]

CallLease ==
    /\ Unused
    /\ \E m \in LeaseMessages, more \in Trailers, connects \in 0 .. MaxConnects :
          call' = [fn |-> "Lease", message |-> m, more |-> more, connects |-> connects]

HeaderOps == [type : CustomIds, values : BoundedSeq(Data, 2) \ {<<>>}]

CallHeaders ==
    /\ Unused
    /\ \E fixed \in FixedHeaders, body \in Bodies, order \in Orders :
       \E ops \in BoundedSeq(HeaderOps, 2) :
          call' = [fn |-> "Headers", fixed |-> fixed, ops |-> ops, order |-> order, body |-> body]

CallContains ==
    /\ Unused
    /\ \E s, e, i \in NodeID : call' = [fn |-> "Contains", s |-> s, e |-> e, i |-> i]

\* The table's partners, in any order of iteration.
Tables == {parts \in UNION {[1 .. k -> NodeID] : k \in 0 .. MaxPartners} :
             \A j, k \in DOMAIN parts : parts[j] = parts[k] => j = k}

CallConnect ==
    /\ Unused
    /\ \E parts \in Tables, id \in NodeID :
          call' = [fn |-> "Connect", parts |-> parts, id |-> id]

NextCall == CallCompress \/ CallHeaders \/ CallLease \/ CallContains \/ CallConnect

CallsSpec == Init /\ [][NextCall]_call

-----------------------------------------------------------------------------
(* Properties.                                                             *)

\* Every integer that its type holds is read back, sign included, from the bytes
\* writeCompressed makes of it, and from no part of them (bytecompress.go:13-88).
IntegersReadBack == call.fn = "Compress" => IntegerReadBack(call.size, call.value)

\* Every message is read as it was written: the values of the first call that set
\* each type of custom header, whatever the order in which the map was iterated,
\* every field, and the body from its first byte (message.go:20-70).
HeadersReadBack ==
    call.fn = "Headers" => MessageReadBack(call.fixed, call.ops, call.order, call.body)

\* Of every lease message, behind any number of connect frames, the descriptors
\* address their own lists, and the endpoint is read back if anything follows it
\* (lease/serialize.go:126-269, lease/frame.go:26-49).
LeaseEndpointReadBack ==
    call.fn = "Lease" => EndpointReadBack(call.message, call.more, call.connects)

\* Whatever the range and the id, Contains is right or wrong in the one way that
\* nodeid_range.go:19 makes it wrong: it forgets the part of a wrapping range
\* before zero.
RangesAreSound == call.fn = "Contains" => ContainsIsSound(call.s, call.e, call.i)

\* Whatever the table and the order of its iteration, an exact send reaches the
\* node it names or none (sitenode_sender.go:76-91).
SendersReachTheirNode == call.fn = "Connect" => ExactNodeOrNone(call.parts, call.id)
=============================================================================
