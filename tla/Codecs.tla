------------------------------- MODULE Codecs -------------------------------
(***************************************************************************)
(* A value written by one version of a program and read by another         *)
(* (serialization), beside the calls of CodecCalls.                        *)
(***************************************************************************)
EXTENDS CodecCalls, Serialization

CONSTANTS
    FieldTypes, LastTypes,  \* types of the first and of the second field of a struct
    Values(_)               \* the values of a type that are tried

Struct(ts) == T("struct", ts)

\* A later version appends fields.  Reader's structs have n of the fields.
Appended       == Scalar("uint8")
Version(ts, n) == Struct(SubSeq(Append(ts, Appended), 1, n))

\* The struct whose fields changed is the message or is inside its first field.
Shape(struct, last, nested) ==
    IF nested THEN Struct(<<T("slice", <<struct>>), last>>) ELSE struct

Exchange == [a : FieldTypes, b : LastTypes, n : 0 .. 3, nested : BOOLEAN]

Writer(x) == Shape(Struct(<<x.a, x.b>>), x.b, x.nested)
Reader(x) == Shape(Version(<<x.a, x.b>>, x.n), x.b, x.nested)

Sent(x, va, vb) ==
    IF x.nested THEN <<[nil |-> FALSE, at |-> << <<va, vb>>, <<va, vb>> >>], vb>> ELSE <<va, vb>>

\* What another implementation adds: information about the type of the root.
WithTypeInfo(bytes, info) ==
    <<bytes[1]>> \o Bytes(Number(bytes, 2, 4) + Len(info) + 1, 4) \o <<1, 0, 0, 0>>
      \o WriteCompressed(Len(info)) \o info \o SubSeq(bytes, 10, Len(bytes))

CallMarshal ==
    /\ Unused
    /\ \E x \in Exchange, typed \in BOOLEAN :
          /\ typed => ~ x.nested
          /\ \E va \in Values(x.a), vb \in Values(x.b) :
                call' = [fn |-> "Marshal", versions |-> x, value |-> Sent(x, va, vb),
                         typed |-> typed]

Next == CallMarshal \/ NextCall

Spec == Init /\ [][Next]_call

-----------------------------------------------------------------------------
(* Properties.                                                             *)

\* A value of a writer's type as a reader's type has it: fields the reader does
\* not know are left out, those the writer did not know are zero, and an empty
\* slice or map is nil.
RECURSIVE View(_, _, _)
View(tw, tr, v) ==
    CASE tw.kind = "struct" ->
           [i \in DOMAIN tr.of |-> IF i \in DOMAIN tw.of THEN View(tw.of[i], tr.of[i], v[i])
                                                          ELSE Zero(tr.of[i])]
      [] tw.kind = "ptr"   -> [i \in DOMAIN v |-> View(tw.of[1], tr.of[1], v[i])]
      [] tw.kind = "slice" ->
           IF v.at = <<>> THEN Zero(tr)
           ELSE [nil |-> FALSE, at |-> [i \in DOMAIN v.at |-> View(tw.of[1], tr.of[1], v.at[i])]]
      [] tw.kind = "map"   ->
           IF v.at = <<>> THEN Zero(tr)
           ELSE [nil |-> FALSE, at |-> {View(EntryOf(tw).of[1], EntryOf(tr).of[1], v.at[i])
                                          : i \in DOMAIN v.at}]
      [] OTHER -> v

\* What one version of a struct writes, any version reads, to the last byte: its
\* own values come back, and fields only one of them has do no harm to those
\* that follow (unmarshal.go:88-145, 266-292).  A type that cannot be written is
\* refused and not written in part.
VersionTolerant ==
    call.fn = "Marshal" =>
        LET x     == call.versions
            bytes == Marshal(Writer(x), call.value)
            data  == IF call.typed THEN WithTypeInfo(bytes, <<ScopeEnd>>) ELSE bytes
            read  == Unmarshal(Reader(x), data)
        IN  bytes # <<Error>> =>
            /\ read.pos = Len(data) + 1
            /\ read.val = View(Writer(x), Reader(x), call.value)

=============================================================================
