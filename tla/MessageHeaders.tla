--------------------------- MODULE MessageHeaders ---------------------------
(***************************************************************************)
(* The headers of a message and the frame around it (transport/            *)
(* messageheaders.go, message.go, frame.go).  Bytes are cells: a header is *)
(* its id, the length of its data and that many cells, and a frame says    *)
(* how many cells of its content are headers.  Both lengths are cut to 16  *)
(* bits.  The data of a header is what Marshal makes of it, and what an    *)
(* activator or the []byte of an unknown header keeps.                     *)
(***************************************************************************)
EXTENDS Integers, Sequences, SequencesExt, FiniteSets

CONSTANTS
    LengthLimit,   \* 2^16
    CustomIds      \* ids other than those below and Invalid, which is 0

\* MessageId, RelatesTo, Actor, Action, ExpectsReply, HighPriority, Idempotent,
\* Fault and Retry, in the order in which writeTo writes them.
Fixed         == 1 .. 9

ASSUME HeadersAssumption ==
    /\ LengthLimit \in Nat \ {0}
    /\ IsFiniteSet(CustomIds) /\ CustomIds \subseteq Nat \ ({0} \cup Fixed)

AlwaysWritten == {1, 3}
Fault         == 8
SecurityNegotiation == 10

\* A fault has an error code and a flag.
Blank(k) == IF k = Fault THEN <<0, 0>> ELSE <<0>>

NoHeaders == [fixed |-> [k \in Fixed |-> Blank(k)], custom |-> [t \in CustomIds |-> <<>>]]
Unreadable == [error |-> TRUE]

-----------------------------------------------------------------------------
\* SetCustomHeader, and AppendCustomHeader with several values: a type that has
\* headers keeps them.  An append of no values at all, which nobody makes, would
\* take the type as well; here values are never empty.
Store(custom, op) ==
    IF custom[op.type] = <<>> THEN [custom EXCEPT ![op.type] = op.values] ELSE custom
Stored(ops) ==
    LET after[n \in 0 .. Len(ops)] ==
            IF n = 0 THEN NoHeaders.custom ELSE Store(after[n - 1], ops[n])
    IN  after[Len(ops)]

WriteHeader(id, data) == <<id, Len(data) % LengthLimit>> \o data

AllZero(data) == \A i \in DOMAIN data : data[i] = 0

\* Mutant: a fault needs an error code and a body.
WriteNoZero(k, data) ==
    IF (\E i \in DOMAIN data : data[i] = 0) /\ k \notin AlwaysWritten THEN <<>>
    ELSE WriteHeader(k, data)
WriteField(k, data) ==
    IF AllZero(data) /\ k \notin AlwaysWritten THEN <<>> ELSE WriteHeader(k, data)

\* The order of the types in which Go iterates over the map: each type, once.
Orders ==
    {order \in [1 .. Cardinality(CustomIds) -> CustomIds] :
        /\ IsInjective(order)
        /\ \A t \in CustomIds : \E i \in DOMAIN order : order[i] = t}

WriteTo(h, order) ==
    FlattenSeq([k \in Fixed |-> WriteField(k, h.fixed[k])])
      \o FlattenSeq([i \in DOMAIN order |->
             FlattenSeq([j \in DOMAIN h.custom[order[i]] |->
                 WriteHeader(order[i], h.custom[order[i]][j])])])

WriteMessage(h, order, body) ==
    LET headers == WriteTo(h, order)
    IN  [HeaderLength |-> Len(headers) % LengthLimit, content |-> headers \o body]

-----------------------------------------------------------------------------
\* parseFabricMessageHeaders.  A stream that ends before an id, a length or the
\* data ends the headers; one that ends inside the data is refused.
Keep(h, id, data) ==
    CASE id \in Fixed     -> [h EXCEPT !.fixed[id] = data]
      [] id \in CustomIds \ {SecurityNegotiation} ->
             [h EXCEPT !.custom[id] = Append(@, data)]
      [] OTHER            -> h

\* One header is read from what is left of the stream.
ReadHeader(state) ==
    LET s == state.rest  size == s[2]  data == SubSeq(s, 3, 2 + size)
    IN  IF Len(s) < 2 \/ (size > 0 /\ Len(s) = 2) THEN state
        ELSE IF Len(s) < 2 + size THEN [rest |-> <<>>, headers |-> Unreadable]
        ELSE [rest |-> SubSeq(s, 3 + size, Len(s)), headers |-> Keep(state.headers, s[1], data)]

\* Every header takes two cells or more, so the loop ends within as many turns as there are.
Parse(s, h) ==
    LET after[n \in 0 .. Len(s)] ==
            IF n = 0 THEN [rest |-> s, headers |-> h] ELSE ReadHeader(after[n - 1])
    IN  after[Len(s)].headers

ReadMessage(frame) ==
    [headers |-> Parse(SubSeq(frame.content, 1, frame.HeaderLength), NoHeaders),
     body |-> SubSeq(frame.content, frame.HeaderLength + 1, Len(frame.content))]

-----------------------------------------------------------------------------
\* A message is read as it was written: of each type of custom header the values
\* of the first call that set it, in whatever order the map was iterated, every
\* field, and the body from its first byte (message.go:20-70).  This needs
\* headers that fit 16 bits, each and together (messageheaders.go:224,
\* frame.go:94).  A SecurityNegotiation header is not kept.
FirstCall(ops, t) ==
    LET calls == {i \in DOMAIN ops : ops[i].type = t}
        first == CHOOSE i \in calls : \A j \in calls : i <= j
    IN  IF calls = {} \/ t = SecurityNegotiation THEN <<>> ELSE ops[first].values

MessageReadBack(fixed, ops, order, body) ==
    LET h == [fixed |-> fixed, custom |-> Stored(ops)]
    IN  Len(WriteTo(h, order)) < LengthLimit =>
            LET read == ReadMessage(WriteMessage(h, order, body))
            IN  /\ read.body = body
                /\ read.headers = [fixed |-> fixed, custom |-> [t \in CustomIds |-> FirstCall(ops, t)]]
=============================================================================
