------------------------------ MODULE NodeRing ------------------------------
(***************************************************************************)
(* The ring of node ids in federation: the arithmetic on 128-bit numbers   *)
(* (nodeid.go), NodeIdRange.Contains and the choice of the partner to send *)
(* to (closestPartnerNode, connectToNode).  An id has two limbs.           *)
(***************************************************************************)
EXTENDS Integers, Sequences

CONSTANTS
    Limb,     \* bound: 2^64 in the code
    NoNode

NodeID == [Hi : 0 .. Limb - 1, Lo : 0 .. Limb - 1]

ASSUME RingAssumption == Limb \in Nat \ {0} /\ NoNode \notin NodeID

u128zero == [Hi |-> 0, Lo |-> 0]
u128max  == [Hi |-> Limb - 1, Lo |-> Limb - 1]

\* bits.Sub64.
Wrap(n)      == IF n < 0 THEN n + Limb ELSE n
Borrow(x, y) == IF x < y THEN 1 ELSE 0

sub(u, v) == [Hi |-> Wrap(u.Hi - v.Hi - Borrow(u.Lo, v.Lo)), Lo |-> Wrap(u.Lo - v.Lo)]

cmp(u, v) ==
    IF u = v THEN 0
    ELSE IF u.Hi < v.Hi \/ (u.Hi = v.Hi /\ u.Lo < v.Lo) THEN -1 ELSE 1

\* Mutant: the part of a wrapping range below its end takes in everything.
UpToAnything(i, e) == TRUE
UpTo(i, e)         == cmp(i, e) <= 0

\* A range that wraps; the first disjunct compares the end, not the id.
WrappedContains(s, e, i) ==
    \/ cmp(s, i) <= 0 /\ cmp(u128max, e) <= 0
    \/ cmp(u128zero, i) <= 0 /\ UpTo(i, e)

\* NodeIdRange.Contains.
RangeContains(s, e, i) ==
    IF cmp(s, e) > 0 THEN WrappedContains(s, e, i) ELSE cmp(s, i) <= 0 /\ UpTo(i, e)

-----------------------------------------------------------------------------
(* closestPartnerNode: the partners come in the order of the map's         *)
(* iteration.  The address kept is that of the loop variable, so what is   *)
(* returned is the partner the loop ended with.                            *)

\* Mutant: the loop goes on after an exact match.
NeverAt(parts, id, k) == FALSE
AtNode(parts, id, k)  == sub(parts[k], id) = u128zero

closestPartnerNode(parts, id) ==
    IF \E k \in DOMAIN parts : AtNode(parts, id, k)
    THEN parts[CHOOSE k \in DOMAIN parts : AtNode(parts, id, k)]
    ELSE IF \E k \in DOMAIN parts : cmp(sub(parts[k], id), u128max) < 0
         THEN parts[Len(parts)]
         ELSE NoNode

\* connectToNode's choice.  The node itself is filtered out of parts; match is
\* set by SendOneWay.
ConnectTo(parts, id, match) ==
    LET t == closestPartnerNode(parts, id)
    IN  IF t = NoNode \/ (match /\ t # id) THEN NoNode ELSE t

-----------------------------------------------------------------------------
(* What these functions promise.                                           *)

\* Clockwise from s, e is not passed before i.
OnArc(s, e, i) == IF cmp(s, e) > 0 THEN cmp(s, i) <= 0 \/ cmp(i, e) <= 0
                                   ELSE cmp(s, i) <= 0 /\ cmp(i, e) <= 0

\* An id said to be in a range is on the arc from its begin to its end, and one
\* said not to be is off it or in the part of a wrapping range before zero, which
\* the code forgets (nodeid_range.go:19).
ContainsIsSound(s, e, i) ==
    /\ RangeContains(s, e, i) => OnArc(s, e, i)
    /\ OnArc(s, e, i) /\ ~ RangeContains(s, e, i) => cmp(s, e) > 0 /\ cmp(s, i) <= 0

\* SendOneWay reaches the node it names or none, although closestPartnerNode
\* does not return the closest one (sitenode_parteners.go:58), and a partner in
\* the table is always found.
ExactNodeOrNone(parts, id) ==
    ConnectTo(parts, id, TRUE) = IF \E k \in DOMAIN parts : parts[k] = id THEN id ELSE NoNode

\* The distance from v to u, added to v, is u again.
Plus(u, v) ==
    LET lo == u.Lo + v.Lo
        hi == u.Hi + v.Hi + IF lo >= Limb THEN 1 ELSE 0
    IN  [Hi |-> hi % Limb, Lo |-> lo % Limb]

SubIsInverse(u, v) == sub(u, v) \in NodeID /\ Plus(sub(u, v), v) = u
=============================================================================
