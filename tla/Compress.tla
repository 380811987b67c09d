------------------------------ MODULE Compress ------------------------------
(***************************************************************************)
(* serialization/bytecompress.go: integers in groups of seven bits, the    *)
(* most significant first.  A byte's highest bit says that more follow;    *)
(* bit 0x40 of the first byte is the sign.                                 *)
(*                                                                         *)
(* A reader is given the bytes d and the position p of the next one, and   *)
(* returns the value and the position after it.                            *)
(***************************************************************************)
EXTENDS Integers, Sequences

CONSTANT WordBits   \* bound: width of the int64 or uint64 the loops work on

ASSUME WordAssumption == WordBits \in Nat

Pow2[n \in Nat] == IF n = 0 THEN 1 ELSE 2 * Pow2[n - 1]
Word == Pow2[WordBits]

Result(v, p) == [val |-> v, pos |-> p]
Failed       == Result(0, 0)
Fails(r)     == r.pos = 0

MaxSize(size) == (size * 8 + 6) \div 7
SignBit(n)    == (n \div 64) % 2

-----------------------------------------------------------------------------
\* Mutant: the loop ends without a look at the sign bit.
NoBitsLeft(temp, target, b) == temp = target

\* temp is what is left of the value, target what a sign extension leaves.
LastGroup(temp, target, b) == temp = target /\ SignBit(b) = SignBit(target)

\* temp after k rounds of the loop, which writes its lowest seven bits.
Shifted(v) == LET temp[k \in Nat] == IF k = 0 THEN v ELSE temp[k - 1] \div 128
              IN  temp

EndsWith(v, k) == LastGroup(Shifted(v)[k + 1], IF v < 0 THEN -1 ELSE 0, Shifted(v)[k] % 128)

\* The first round after which the loop ends, counted from zero.
LastRound(v) == CHOOSE k \in 0 .. WordBits : EndsWith(v, k) /\ \A j \in 0 .. k - 1 : ~ EndsWith(v, j)

\* Zero is written as nothing.
WriteCompressed(v) ==
    LET last == LastRound(v)
    IN  IF v = 0 THEN <<>>
        ELSE [i \in 1 .. last + 1 |->
                 (Shifted(v)[last + 1 - i] % 128) + IF i = last + 1 THEN 0 ELSE 128]

-----------------------------------------------------------------------------
\* The value after k rounds: the groups from p on, below the first bits.
Gathered(d, p, first) ==
    LET value[k \in 0 .. Len(d) - p + 1] ==
            IF k = 0 THEN first ELSE (value[k - 1] * 128 + (d[p + k - 1] % 128)) % Word
    IN  value

\* The rounds that meet a byte which nothing follows.
Ends(d, p, size) == {k \in 1 .. MaxSize(size) : p + k - 1 <= Len(d) /\ d[p + k - 1] < 128}

\* The word read, as an unsigned one.
ReadCompressed(d, p, size) ==
    LET end == CHOOSE k \in Ends(d, p, size) : \A j \in Ends(d, p, size) : k <= j
    IN  IF Ends(d, p, size) = {} THEN Failed
        ELSE Result(Gathered(d, p, IF SignBit(d[p] % 128) = 1 THEN Word - 1 ELSE 0)[end], p + end)

AsSigned(v) == IF v >= Word \div 2 THEN v - Word ELSE v

ReadUnsigned(d, p, size) == ReadCompressed(d, p, size)
ReadSigned(d, p, size) ==
    LET r == ReadCompressed(d, p, size) IN IF Fails(r) THEN Failed ELSE Result(AsSigned(r.val), r.pos)

-----------------------------------------------------------------------------
InRange(kind, bits, v) ==
    IF kind = "unsigned" THEN v \in 0 .. Pow2[bits] - 1 ELSE v \in -Pow2[bits - 1] .. Pow2[bits - 1] - 1

\* An integer that fits its type is written within the buffer and read back as it
\* was, sign included, whatever byte follows, and no prefix of the bytes is taken
\* for the whole (bytecompress.go:13-88).  Zero is written as nothing; its writers
\* write the meta of the empty value instead.
IntegerReadBack(size, v) ==
    LET bytes   == WriteCompressed(v)
        good(r) == r = Result(v, Len(bytes) + 1)
    IN  v # 0 =>
          /\ InRange("unsigned", 8 * size, v) =>
                /\ Len(bytes) <= MaxSize(size)
                /\ \A after \in 0 .. 255 : good(ReadUnsigned(Append(bytes, after), 1, size))
          /\ InRange("signed", 8 * size, v) =>
                /\ Len(bytes) <= MaxSize(size)
                /\ \A after \in 0 .. 255 : good(ReadSigned(Append(bytes, after), 1, size))
          /\ \A n \in 1 .. Len(bytes) - 1 : Fails(ReadUnsigned(SubSeq(bytes, 1, n), 1, size))
=============================================================================
