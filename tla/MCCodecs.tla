------------------------------ MODULE MCCodecs ------------------------------
(* Inputs for Codecs: every kind of type, and values at the boundaries.    *)
EXTENDS Codecs, TLC

Slice(t) == T("slice", <<t>>)
Ptr(t)   == T("ptr", <<t>>)
Inner    == T("struct", <<Scalar("string"), Scalar("bool")>>)

MCFieldTypes ==
    {Scalar(k) : k \in {"bool", "int8", "uint8", "int16", "uint16", "int32", "uint32", "int64",
                        "uint64", "float64", "string", "guid", "nodeid", "range"}}
      \cup {Ptr(Scalar("int16")), Ptr(Inner), Inner, Slice(Scalar("uint8")), Slice(Scalar("bool")),
            Slice(Scalar("string")), Slice(Ptr(Scalar("string"))), Slice(Inner),
            Slice(Scalar("range")), Slice(Slice(Scalar("bool"))),
            T("map", <<Scalar("int16"), Scalar("string")>>)}

MCLastTypes == {Scalar("uint16"), Scalar("string"), Inner}

\* 47 is ScopeEnd and 63 ObjectEnd, as payload.
RECURSIVE MCValues(_)
MCValues(t) ==
    CASE t.kind = "bool"   -> BOOLEAN
      [] t.kind = "int8"   -> {0, 47, -8}
      [] t.kind = "uint8"  -> {0, 47, 248}
      [] t.kind = "uint16" -> {0, 47, 64, 65535}
      [] t.kind \in {"uint32", "uint64"} -> {0, 128, 70000}
      [] t.kind = "int16"  -> {0, -1, 64, -32768}
      [] t.kind \in {"int32", "int64"}   -> {0, -65, 70000}
      [] t.kind = "string" -> {<<>>, <<47, 16175>>}
      [] t.kind = "range"  -> {<<0, 47>>}
      [] t.kind = "ptr"    -> {<<>>} \cup {<<v>> : v \in MCValues(t.of[1])}
      [] t.kind = "struct" -> {<<v, w>> : v \in MCValues(t.of[1]), w \in MCValues(t.of[2])}
      [] t.kind = "slice"  ->
           {[nil |-> TRUE, at |-> <<>>], [nil |-> FALSE, at |-> <<>>]}
             \cup {[nil |-> FALSE, at |-> <<v, w>>] : v, w \in MCValues(t.of[1])}
      [] t.kind = "map"    ->
           {[nil |-> n, at |-> <<>>] : n \in BOOLEAN}
             \cup {[nil |-> FALSE, at |-> es] :
                     es \in { << <<0, <<>> >>, <<47, <<47>> >> >>, << <<47, <<>> >>, <<-1, <<>> >> >> }}
      [] OTHER             -> {0, 47}

Near(n) == {n - 2, n - 1, n, n + 1}

MCIntegers == UNION {Near(2^k) \cup Near(-(2^k)) : k \in 0 .. 23}

Names == {<<>>, << <<65>> >>, << <<65, 66>>, <<>> >>}

MCLeaseMessages ==
    {[appId |-> <<7>>, address |-> a, port |-> p, lists |-> <<x, <<>>, y, <<>>, <<>>, <<>>, <<>>, <<>>, z>>]
       : a \in {<<>>, <<49, 48>>}, p \in {0, 1025}, x, y, z \in Names}

\* Fields set one at a time, all of them, and faults with one part zero.
MCFixedHeaders ==
    LET none == NoHeaders.fixed
        one(k, data) == [none EXCEPT ![k] = data]
    IN  {none, [k \in Fixed |-> IF k = Fault THEN <<6, 1>> ELSE <<7>>]}
          \cup {one(k, <<1>>) : k \in Fixed \ {Fault}}
          \cup {one(Fault, <<0, 1>>), one(Fault, <<6, 0>>)}

\* Data that looks like a header, and data at the limit: with the two fields
\* that are always written, 8 cells come before it.
MCData   == {<<>>, <<11, 1>>, [i \in 1 .. LengthLimit - 9 |-> 0], [i \in 1 .. LengthLimit - 8 |-> 0]}
MCBodies == {<<>>, <<5>>}

MCTrailers == {<<>>, <<0>>, <<5, 6>>}
=============================================================================
