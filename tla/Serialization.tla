---------------------------- MODULE Serialization ----------------------------
(***************************************************************************)
(* serialization/marshal.go and unmarshal.go: values of Go types to bytes  *)
(* and back.  Every value is preceded by its type's meta byte; a struct is *)
(* a scope whose header tells its size, so that a reader whose struct has  *)
(* fewer or more fields than the writer's can go on.                       *)
(*                                                                         *)
(* A type is its kind and the types it is made of; a struct's are those of *)
(* its settable fields, with the fields of embedded structs in their       *)
(* place.  Values: numbers and GUIDs as numbers, floats and node ids by    *)
(* their bits, a string as its UTF-16 units, a pointer as what it points   *)
(* to (nothing or one value), slices and maps with whether they are nil.   *)
(***************************************************************************)
EXTENDS Compress, SequencesExt

T(kind, of)  == [kind |-> kind, of |-> of]
Scalar(kind) == T(kind, <<>>)

EmptyValueBit == 64   Array == 128
Object == 0   Pointer == 1   Bool == 2   BoolFalse == 50   UInt32 == 8
Double == 11  Guid == 12     WString == 13   NodeIdMeta == 4 + Array
ScopeBegin == 31   ScopeEnd == 47   ObjectEnd == 63   NotAMeta == 255

Unsigned == {"uint16", "uint32", "uint64"}
Signed   == {"int16", "int32", "int64"}
Floats   == {"float32", "float64"}
Custom   == {"guid", "nodeid", "range"}
Numbers  == Unsigned \cup Signed \cup Floats \cup {"int8", "uint8"}

\* kindToFabricSerializationType.
BaseMeta(kind) ==
    CASE kind = "int8"   -> 3  [] kind = "uint8"  -> 4
      [] kind = "int16"  -> 5  [] kind = "uint16" -> 6
      [] kind = "int32"  -> 7  [] kind = "uint32" -> UInt32
      [] kind = "int64"  -> 9  [] kind = "uint64" -> 10
      [] kind \in Floats -> Double
      [] kind = "bool"   -> Bool
      [] kind = "string" -> WString
      [] kind = "ptr"    -> Pointer
      [] kind \in Custom \cup {"struct"} -> Object
      [] OTHER -> NotAMeta

SizeOf(kind) ==
    CASE kind \in {"int16", "uint16"} -> 2
      [] kind \in {"int32", "uint32"} -> 4
      [] kind \in {"int64", "uint64"} -> 8

IsEmptyMeta(m) == (m \div EmptyValueBit) % 2 = 1
IsStruct(t)    == BaseMeta(t.kind) = Object

\* n bytes of a number, little endian.
RECURSIVE Bytes(_, _)
Bytes(v, n) == IF n = 0 THEN <<>> ELSE <<v % 256>> \o Bytes(v \div 256, n - 1)

RECURSIVE Zero(_)
Zero(t) ==
    CASE t.kind = "bool"              -> FALSE
      [] t.kind \in {"string", "ptr"} -> <<>>
      [] t.kind = "slice"             -> [nil |-> TRUE, at |-> <<>>]
      [] t.kind = "map"               -> [nil |-> TRUE, at |-> {}]
      [] t.kind = "struct"            -> [i \in DOMAIN t.of |-> Zero(t.of[i])]
      [] t.kind = "range"             -> <<0, 0>>
      [] OTHER                        -> 0

IsZero(t, v) == IF t.kind \in {"slice", "map"} THEN v.nil ELSE v = Zero(t)

EntryOf(t) == T("slice", <<T("struct", t.of)>>)

-----------------------------------------------------------------------------
(* marshal.go.  Error among the bytes: Marshal returned an error.          *)

Error == -1

\* The meta of a slice, empty or not.
SliceMeta(elem) ==
    IF elem.kind \in {"string", "ptr"} THEN UInt32
    ELSE IF BaseMeta(elem.kind) = NotAMeta THEN Error ELSE BaseMeta(elem.kind) + Array

Empty(m) == IF m = Error THEN Error ELSE EmptyValueBit + m

WriteEmpty(t, v) ==
    CASE t.kind = "bool"   -> <<Empty(IF v THEN Bool ELSE BoolFalse)>>
      [] t.kind = "string" -> <<Empty(Array + WString)>>
      [] t.kind = "slice"  -> <<Empty(SliceMeta(t.of[1]))>>
      [] t.kind = "map"    -> <<Empty(Array)>>
      [] OTHER             -> <<Empty(BaseMeta(t.kind))>>

\* With the three metas around the fields.
ScopeSize(body) == Len(body) + 3 + 8

\* objectScopeEnd: the header is the size, a flag byte and padding.
ObjectScope(body) ==
    <<Object>> \o Bytes(ScopeSize(body), 4) \o Bytes(0, 4)
      \o <<ScopeBegin>> \o body \o <<ScopeEnd, ObjectEnd>>

WriteNodeId(id) == <<NodeIdMeta>> \o WriteCompressed(16) \o Bytes(id, 16)

WriteGuid(g) == IF g = 0 THEN <<Empty(Guid)>> ELSE <<Guid>> \o Bytes(g, 16)

RECURSIVE Write(_, _), WriteAll(_, _)

WriteAll(ts, vs) ==
    IF vs = <<>> THEN <<>> ELSE Write(Head(ts), Head(vs)) \o WriteAll(Tail(ts), Tail(vs))

Write(t, v) ==
    IF ~ IsStruct(t) /\ (t.kind = "bool" \/ IsZero(t, v))
    THEN WriteEmpty(t, v)
    ELSE CASE t.kind \in {"int8", "uint8"}   -> <<BaseMeta(t.kind), v % 256>>
           [] t.kind \in Unsigned \cup Signed -> <<BaseMeta(t.kind)>> \o WriteCompressed(v)
           [] t.kind \in Floats  -> <<Double>> \o Bytes(v, 8)
           [] t.kind = "string"  -> <<WString + Array>> \o WriteCompressed(Len(v))
                                       \o FlattenSeq([i \in DOMAIN v |-> Bytes(v[i], 2)])
           [] t.kind = "ptr"     -> <<Pointer>> \o Write(t.of[1], v[1])
           [] t.kind = "guid"    -> WriteGuid(v)
           [] t.kind = "nodeid"  -> WriteNodeId(v)
           [] t.kind = "range"   -> WriteNodeId(v[1]) \o WriteNodeId(v[2])
           [] t.kind = "struct"  -> ObjectScope(WriteAll(t.of, v))
           [] t.kind = "slice"   ->
                IF v.at = <<>>
                THEN WriteEmpty(t, v)
                ELSE <<SliceMeta(t.of[1])>> \o WriteCompressed(Len(v.at))
                       \o WriteAll([i \in DOMAIN v.at |-> t.of[1]], v.at)
           [] t.kind = "map"     ->   \* in the order the map is iterated in
                Write(EntryOf(t), [nil |-> v.at = <<>>, at |-> v.at])

Marshal(t, v) == LET b == Write(t, v) IN IF Contains(b, Error) THEN <<Error>> ELSE b

-----------------------------------------------------------------------------
(* unmarshal.go.                                                           *)

At(d, p) == IF p \in DOMAIN d THEN d[p] ELSE NotAMeta

RECURSIVE Number(_, _, _)
Number(d, p, n) == IF n = 0 THEN 0 ELSE d[p] + 256 * Number(d, p + 1, n - 1)

\* n bytes as a number, and a value's low bytes when its field is narrower.
ReadBytes(d, p, n) == IF p + n - 1 > Len(d) THEN Failed ELSE Result(Number(d, p, n), p + n)

Narrow(v, kind) ==
    LET w == IF SizeOf(kind) * 8 < WordBits THEN Pow2[SizeOf(kind) * 8] ELSE Word
    IN  IF kind \in Unsigned THEN v % w ELSE ((v + w \div 2) % w) - w \div 2

ReadNumber(kind, d, p) ==
    LET r == IF kind \in Unsigned THEN ReadUnsigned(d, p, SizeOf(kind))
                                  ELSE ReadSigned(d, p, SizeOf(kind))
    IN  IF Fails(r) THEN Failed ELSE Result(Narrow(r.val, kind), r.pos)

\* A meta of the other signedness makes reflect panic: no value either.
ReadByte(kind, m, d, p) ==
    LET r == ReadBytes(d, p, 1)
    IN  IF m # BaseMeta(kind) \/ Fails(r) THEN Failed
        ELSE IF kind = "uint8" \/ r.val < 128 THEN r ELSE Result(r.val - 256, r.pos)

ReadString(d, p) ==
    LET len  == ReadUnsigned(d, p, 4)
        unit(i) == Number(d, len.pos + 2 * (i - 1), 2)
    IN  IF Fails(len) \/ len.pos + 2 * len.val - 1 > Len(d)
        THEN Failed
        ELSE Result([i \in 1 .. len.val |-> unit(i)], len.pos + 2 * len.val)

ReadNodeId(m, d, p) ==
    LET len == ReadUnsigned(d, p, 4)
    IN  IF m # NodeIdMeta \/ Fails(len) \/ len.val # 16 THEN Failed ELSE ReadBytes(d, len.pos, 16)

ReadRange(m, d, p) ==
    LET b == ReadNodeId(m, d, p)
        e == ReadNodeId(At(d, b.pos), d, b.pos + 1)
    IN  IF Fails(b) THEN Failed ELSE IF Fails(e) THEN Failed
        ELSE Result(<<b.val, e.val>>, e.pos)

\* readObjectBegin: where the scope ends, and where its fields begin.
ReadObjectBegin(m, d, p) ==
    IF m # Object THEN Result(-1, p)
    ELSE LET size == ReadBytes(d, p, 4)
             info == ReadUnsigned(d, p + 8, 4)
             body == IF At(d, p + 4) % 2 = 0 THEN p + 8
                     ELSE IF Fails(info) \/ info.val = 0 THEN 0 ELSE info.pos + info.val
         IN  IF p + 7 > Len(d) \/ body = 0 \/ At(d, body) # ScopeBegin
             THEN Failed
             ELSE Result(p + size.val - 2, body + 1)

\* Mutant: the object ends where the last known field ends.
WhereFieldsEnd(endpos, pos) == pos
ScopeEndsAt(endpos, pos)    == endpos

ConsumeObjectEnd(m, endpos, r, d) ==
    LET at == ScopeEndsAt(endpos, r.pos)
    IN  IF m # Object \/ Fails(r) THEN r
        ELSE IF At(d, at) = ScopeEnd /\ At(d, at + 1) = ObjectEnd THEN Result(r.val, at + 2)
        ELSE Failed

\* A map holds the last entry of each key.
AsMap(es) == {es[i] : i \in {i \in DOMAIN es : \A j \in i + 1 .. Len(es) : es[j][1] # es[i][1]}}

RECURSIVE Read(_, _, _, _), ReadAll(_, _, _, _)

\* Values of the types ts, one after the other.  The end of the scope leaves the
\* remaining fields of a struct as they were.
ReadAll(ts, d, p, inScope) ==
    IF ts = <<>> THEN Result(<<>>, p)
    ELSE IF p > Len(d) THEN Failed
    ELSE IF inScope /\ d[p] = ScopeEnd THEN Result([i \in DOMAIN ts |-> Zero(ts[i])], p + 1)
    ELSE LET r    == Read(Head(ts), d[p], d, p + 1)
             rest == ReadAll(Tail(ts), d, r.pos, inScope)
         IN  IF Fails(r) THEN Failed ELSE IF Fails(rest) THEN Failed
             ELSE Result(<<r.val>> \o rest.val, rest.pos)

ReadStruct(t, m, d, p) ==
    LET begin == ReadObjectBegin(m, d, p)
    IN  IF Fails(begin) THEN Failed
        ELSE ConsumeObjectEnd(m, begin.val, ReadAll(t.of, d, begin.pos, TRUE), d)

ReadSlice(elem, m, d, p) ==
    LET len == ReadUnsigned(d, p, 4)
        r   == ReadAll([i \in 1 .. len.val |-> elem], d, len.pos, FALSE)
        wanted == elem.kind \in {"string", "ptr"} \/ IsStruct(elem)
    IN  IF (wanted /\ m # SliceMeta(elem)) \/ Fails(len) THEN Failed
        ELSE IF Fails(r) THEN Failed ELSE Result([nil |-> FALSE, at |-> r.val], r.pos)

ReadEmpty(t, m, p) ==
    IF t.kind # "bool" THEN Result(Zero(t), p)
    ELSE IF m = Empty(Bool) THEN Result(TRUE, p)
    ELSE IF m = Empty(BoolFalse) THEN Result(FALSE, p) ELSE Failed

\* A value of type t whose meta m was read.
Read(t, m, d, p) ==
    IF IsEmptyMeta(m) THEN ReadEmpty(t, m, p)
    ELSE CASE t.kind \in {"int8", "uint8"} -> ReadByte(t.kind, m, d, p)
           [] t.kind \in Unsigned -> IF m \in {6, 8, 10} THEN ReadNumber(t.kind, d, p) ELSE Failed
           [] t.kind \in Signed   -> IF m \in {5, 7, 9} THEN ReadNumber(t.kind, d, p) ELSE Failed
           [] t.kind \in Floats   -> IF m = Double THEN ReadBytes(d, p, 8) ELSE Failed
           [] t.kind = "string"   -> IF m = WString + Array THEN ReadString(d, p) ELSE Failed
           [] t.kind = "ptr"      ->
                LET r == IF p > Len(d) THEN Failed ELSE Read(t.of[1], d[p], d, p + 1)
                IN  IF Fails(r) THEN Failed ELSE Result(<<r.val>>, r.pos)
           [] t.kind = "guid"     -> IF m % 16 = Guid THEN ReadBytes(d, p, 16) ELSE Failed
           [] t.kind = "nodeid"   -> ReadNodeId(m, d, p)
           [] t.kind = "range"    -> ReadRange(m, d, p)
           [] t.kind = "struct"   -> ReadStruct(t, m, d, p)
           [] t.kind = "slice"    -> ReadSlice(t.of[1], m, d, p)
           [] t.kind = "map"      ->
                LET r == ReadSlice(T("struct", t.of), m, d, p)
                IN  IF Fails(r) THEN Failed
                    ELSE Result([nil |-> FALSE, at |-> AsMap(r.val.at)], r.pos)
           [] OTHER -> Failed

Unmarshal(t, d) == IF d = <<>> THEN Failed ELSE Read(t, d[1], d, 2)
=============================================================================
