---------------------------- MODULE CodecProofs -----------------------------
(***************************************************************************)
(* Theorems about Compress, LeaseBody, MessageHeaders and NodeRing, for    *)
(* every input, and about CodecCalls.                                      *)
(*                                                                         *)
(* Induction is over sets of numbers: a set of numbers that is not empty   *)
(* has a least one, so a set that has 0, and with a number the next, has   *)
(* them all (NatInd).  From that follow that recursive functions exist     *)
(* (Recursion, GoesFar), and so what those of the modules compute.         *)
(***************************************************************************)
EXTENDS CodecCalls, TLAPS, WellFoundedInduction, SequenceTheorems, FiniteSetTheorems

-----------------------------------------------------------------------------
(* Induction and recursive functions.                                      *)

\* A set of natural numbers has a least element.
LEMMA NatMin ==
    ASSUME NEW T, T \subseteq Nat, T # {}
    PROVE  \E n \in T : \A m \in T : n <= m
<1> DEFINE R == OpToRel(<, Nat)
<1>1. IsWellFoundedOn(R, Nat)
  BY NatLessThanWellFounded
<1>2. \A m, n \in Nat : <<m, n>> \in R <=> m < n
  BY DEF OpToRel
<1> HIDE DEF R
<1>3. PICK n \in T : \A m \in T : ~ (<<m, n>> \in R)
  BY <1>1, WFMin
<1>4. ASSUME NEW m \in T PROVE n <= m
  <2>1. m \in Nat /\ n \in Nat
    OBVIOUS
  <2>2. ~ (m < n)
    BY <2>1, <1>2, <1>3
  <2> QED BY <2>1, <2>2
<1> QED BY <1>4

\* Induction: a set that has 0, and with a number the next, has every number.
LEMMA NatInd ==
    ASSUME NEW S, 0 \in S, \A n \in Nat : n \in S => n + 1 \in S
    PROVE  Nat \subseteq S
<1>1. SUFFICES ASSUME Nat \ S # {} PROVE FALSE
  OBVIOUS
<1>2. PICK n \in Nat \ S : \A m \in Nat \ S : n <= m
  BY <1>1, NatMin
<1>3. n # 0 /\ n - 1 \in Nat
  BY <1>2
<1>4. n - 1 \in S
  BY <1>2, <1>3
<1>5. n - 1 + 1 = n
  OBVIOUS
<1> QED BY <1>2, <1>3, <1>4, <1>5

\* What a function on the natural numbers goes on by.
Steps(g, S) == g \in [Nat \X S -> S]

\* A function on the numbers up to n that starts with a and goes on by g.
Goes(f, n, S, a, g) ==
    /\ f \in [0 .. n -> S]
    /\ f[0] = a
    /\ \A i \in 0 .. n - 1 : f[i + 1] = g[<<i, f[i]>>]

\* What starts with a and goes on by g is one function, however far it goes.
LEMMA GoesOnce ==
    ASSUME NEW S, NEW a, NEW g, NEW n \in Nat, NEW m \in Nat, NEW f, NEW h,
           Goes(f, n, S, a, g), Goes(h, m, S, a, g), NEW i \in Nat, i <= n, i <= m
    PROVE  f[i] = h[i]
<1> DEFINE I == {k \in Nat : k <= n /\ k <= m => f[k] = h[k]}
<1>1. 0 \in I
  BY DEF Goes
<1>2. ASSUME NEW k \in Nat, k \in I PROVE k + 1 \in I
  <2>1. SUFFICES ASSUME k + 1 <= n, k + 1 <= m PROVE f[k + 1] = h[k + 1]
    OBVIOUS
  <2>2. k \in 0 .. n - 1 /\ k \in 0 .. m - 1 /\ f[k] = h[k]
    BY <1>2, <2>1
  <2> QED BY <2>2 DEF Goes
<1> HIDE DEF I
<1>3. Nat \subseteq I
  BY <1>1, <1>2, NatInd
<1> QED BY <1>3 DEF I

\* It goes as far as we like.
LEMMA GoesFar ==
    ASSUME NEW S, NEW a, NEW g, a \in S, Steps(g, S), NEW n \in Nat
    PROVE  \E f : Goes(f, n, S, a, g)
<1> USE DEF Steps
<1> DEFINE I == {k \in Nat : \E f : Goes(f, k, S, a, g)}
<1>1. 0 \in I
  <2>1. Goes([i \in 0 .. 0 |-> a], 0, S, a, g)
    BY DEF Goes
  <2> QED BY <2>1
<1>2. ASSUME NEW k \in Nat, k \in I PROVE k + 1 \in I
  <2>1. PICK f : Goes(f, k, S, a, g)
    BY <1>2
  <2>2. f[k] \in S /\ g[<<k, f[k]>>] \in S
    BY <2>1 DEF Goes
  <2> DEFINE h == [i \in 0 .. k + 1 |-> IF i = k + 1 THEN g[<<k, f[k]>>] ELSE f[i]]
  <2>3. h \in [0 .. k + 1 -> S]
    <3>1. ASSUME NEW i \in 0 .. k + 1, i # k + 1 PROVE f[i] \in S
      <4>1. i \in 0 .. k
        BY <3>1
      <4> QED BY <4>1, <2>1 DEF Goes
    <3> QED BY <2>2, <3>1
  <2>4. h[0] = a
    BY <2>1 DEF Goes
  <2>5. ASSUME NEW i \in 0 .. k + 1 - 1 PROVE h[i + 1] = g[<<i, h[i]>>]
    <3>1. i \in Nat /\ i <= k /\ i # k + 1 /\ i \in 0 .. k + 1 /\ i + 1 \in 0 .. k + 1
      OBVIOUS
    <3>2. CASE i = k
      BY <3>1, <3>2
    <3>3. CASE i # k
      <4>1. i \in 0 .. k - 1 /\ i + 1 # k + 1
        BY <3>1, <3>3
      <4>2. f[i + 1] = g[<<i, f[i]>>]
        BY <4>1, <2>1 DEF Goes
      <4> QED BY <3>1, <4>1, <4>2
    <3> QED BY <3>2, <3>3
  <2> HIDE DEF h
  <2>6. Goes(h, k + 1, S, a, g)
    BY <2>3, <2>4, <2>5 DEF Goes
  <2> QED BY <2>6
<1> HIDE DEF I
<1>3. Nat \subseteq I
  BY <1>1, <1>2, NatInd
<1> QED BY <1>3 DEF I

\* The function that starts with a and goes on by g.
Follows(f, S, a, g) == f \in [Nat -> S] /\ f[0] = a /\ \A n \in Nat : f[n + 1] = g[<<n, f[n]>>]

\* There is one.
LEMMA Recursion ==
    ASSUME NEW S, NEW a, NEW g, a \in S, Steps(g, S)
    PROVE  \E f : Follows(f, S, a, g)
<1> DEFINE At(n) == CHOOSE f : Goes(f, n, S, a, g)
           F == [n \in Nat |-> At(n)[n]]
<1>1. \A n \in Nat : Goes(At(n), n, S, a, g)
  BY GoesFar
<1> HIDE DEF At
<1>2. \A n \in Nat : At(n)[n] \in S
  BY <1>1 DEF Goes
<1>3. F \in [Nat -> S]
  BY <1>2
<1>4. F[0] = a
  BY <1>1 DEF Goes
<1>5. ASSUME NEW n \in Nat PROVE F[n + 1] = g[<<n, F[n]>>]
  <2>1. n \in 0 .. n + 1 - 1 /\ n + 1 \in Nat
    OBVIOUS
  <2>2. At(n + 1)[n + 1] = g[<<n, At(n + 1)[n]>>]
    BY <1>1, <2>1 DEF Goes
  <2>3. At(n + 1)[n] = At(n)[n]
    <3>1. Goes(At(n + 1), n + 1, S, a, g) /\ Goes(At(n), n, S, a, g)
      BY <1>1, <2>1
    <3>2. n <= n + 1 /\ n <= n
      OBVIOUS
    <3> QED BY ONLY <2>1, <3>1, <3>2, GoesOnce
  <2> QED BY <2>1, <2>2, <2>3
<1> HIDE DEF F
<1> QED BY <1>3, <1>4, <1>5 DEF Follows

\* A function on the natural numbers stays in S if its steps do.
LEMMA StaysIn ==
    ASSUME NEW S, NEW f, NEW h,
           f \in [Nat -> S], h = [n \in Nat |-> h[n]], h[0] = f[0],
           \A n \in Nat : h[n] = f[n] => h[n + 1] = f[n + 1]
    PROVE  h \in [Nat -> S]
<1> DEFINE I == {n \in Nat : h[n] = f[n]}
<1>1. 0 \in I /\ \A n \in Nat : n \in I => n + 1 \in I
  OBVIOUS
<1> HIDE DEF I
<1>2. Nat \subseteq I
  BY <1>1, NatInd
<1>3. \A n \in Nat : h[n] \in S
  BY <1>2 DEF I
<1> QED BY <1>3

-----------------------------------------------------------------------------
(* Compress: integers in groups of seven bits.                             *)

\* Pow2 is what its recursive definition says it is.
LEMMA Pow2Def ==
           /\ Pow2 \in [Nat -> Nat \ {0}]
           /\ Pow2[0] = 1
           /\ \A k \in Nat : Pow2[k + 1] = 2 * Pow2[k]
<1> DEFINE g == [z \in Nat \X (Nat \ {0}) |-> 2 * z[2]]
<1>1. g \in [Nat \X (Nat \ {0}) -> Nat \ {0}] /\ 1 \in Nat \ {0}
  OBVIOUS
<1>2. \A k \in Nat, x \in Nat \ {0} : g[<<k, x>>] = 2 * x
  OBVIOUS
<1> DEFINE S == Nat \ {0}
           a == 1
<1> HIDE DEF g, S, a
<1>3. a \in S /\ Steps(g, S)
  BY <1>1 DEF S, a, Steps
<1>4. \E f : Follows(f, S, a, g)
  BY ONLY <1>3, Recursion
<1>5. PICK f \in [Nat -> Nat \ {0}] : f[0] = 1 /\ \A k \in Nat : f[k + 1] = g[<<k, f[k]>>]
  BY <1>4 DEF S, a, Follows
<1>6. \A k \in Nat : f[k + 1] = 2 * f[k]
  BY <1>2, <1>5
<1>7. ASSUME NEW k \in Nat PROVE f[k] = IF k = 0 THEN 1 ELSE 2 * f[k - 1]
  <2>1. k = 0 \/ (k - 1 \in Nat /\ k - 1 + 1 = k)
    OBVIOUS
  <2> QED BY <1>5, <1>6, <2>1
<1>8. f = [k \in Nat |-> IF k = 0 THEN 1 ELSE 2 * f[k - 1]]
  BY <1>5, <1>7
<1>9. Pow2 = [k \in Nat |-> IF k = 0 THEN 1 ELSE 2 * Pow2[k - 1]]
  BY <1>8 DEF Pow2
<1>10. Pow2[0] = 1 /\ Pow2 = [k \in Nat |-> Pow2[k]]
  BY <1>9
<1>11. ASSUME NEW k \in Nat PROVE Pow2[k + 1] = 2 * Pow2[k]
  <2>1. k + 1 \in Nat /\ k + 1 # 0 /\ k + 1 - 1 = k
    OBVIOUS
  <2> QED BY <1>9, <2>1
<1>12. \A k \in Nat : Pow2[k] = f[k] => Pow2[k + 1] = f[k + 1]
  BY <1>6, <1>11
<1>13. Pow2 \in [Nat -> Nat \ {0}]
  BY ONLY <1>5, <1>10, <1>12, StaysIn
<1> QED BY <1>10, <1>11, <1>13

\* So is the rest of a value after the rounds of writeCompressed.
LEMMA ShiftedDef ==
    ASSUME NEW v \in Int
    PROVE  /\ Shifted(v) \in [Nat -> Int]
           /\ Shifted(v)[0] = v
           /\ \A k \in Nat : Shifted(v)[k + 1] = Shifted(v)[k] \div 128
<1> DEFINE g == [z \in Nat \X (Int) |-> z[2] \div 128]
<1>1. g \in [Nat \X (Int) -> Int] /\ v \in Int
  OBVIOUS
<1>2. \A k \in Nat, x \in Int : g[<<k, x>>] = x \div 128
  OBVIOUS
<1> DEFINE S == Int
           a == v
<1> HIDE DEF g, S, a
<1>3. a \in S /\ Steps(g, S)
  BY <1>1 DEF S, a, Steps
<1>4. \E f : Follows(f, S, a, g)
  BY ONLY <1>3, Recursion
<1>5. PICK f \in [Nat -> Int] : f[0] = v /\ \A k \in Nat : f[k + 1] = g[<<k, f[k]>>]
  BY <1>4 DEF S, a, Follows
<1>6. ASSUME NEW k \in Nat PROVE f[k + 1] = f[k] \div 128
  <2>1. f[k] \in Int /\ f[k + 1] = g[<<k, f[k]>>]
    BY <1>5
  <2> QED BY ONLY <1>2, <2>1, k \in Nat
<1>7. ASSUME NEW k \in Nat PROVE f[k] = IF k = 0 THEN v ELSE f[k - 1] \div 128
  <2>1. k = 0 \/ (k - 1 \in Nat /\ k - 1 + 1 = k)
    OBVIOUS
  <2> QED BY <1>5, <1>6, <2>1
<1>8. f = [k \in Nat |-> IF k = 0 THEN v ELSE f[k - 1] \div 128]
  BY <1>5, <1>7
<1>9. Shifted(v) = [k \in Nat |-> IF k = 0 THEN v ELSE Shifted(v)[k - 1] \div 128]
  BY <1>8 DEF Shifted
<1>10. Shifted(v)[0] = v /\ Shifted(v) = [k \in Nat |-> Shifted(v)[k]]
  BY <1>9
<1>11. ASSUME NEW k \in Nat PROVE Shifted(v)[k + 1] = Shifted(v)[k] \div 128
  <2>1. k + 1 \in Nat /\ k + 1 # 0 /\ k + 1 - 1 = k
    OBVIOUS
  <2> QED BY <1>9, <2>1
<1>12. \A k \in Nat : Shifted(v)[k] = f[k] => Shifted(v)[k + 1] = f[k + 1]
  BY <1>6, <1>11
<1>13. Shifted(v) \in [Nat -> Int]
  BY ONLY <1>5, <1>10, <1>12, StaysIn
<1> QED BY <1>10, <1>11, <1>13

\* Seven bits are a factor of 128.
LEMMA Pow2Seven == \A n \in Nat : Pow2[n + 7] = 128 * Pow2[n]
<1> SUFFICES ASSUME NEW n \in Nat PROVE Pow2[n + 7] = 128 * Pow2[n]
  OBVIOUS
<1>1. /\ Pow2[(n + 1) + 1] = 2 * Pow2[n + 1] /\ Pow2[(n + 2) + 1] = 2 * Pow2[n + 2]
      /\ Pow2[(n + 3) + 1] = 2 * Pow2[n + 3] /\ Pow2[(n + 4) + 1] = 2 * Pow2[n + 4]
      /\ Pow2[(n + 5) + 1] = 2 * Pow2[n + 5] /\ Pow2[(n + 6) + 1] = 2 * Pow2[n + 6]
  <2>1. n + 1 \in Nat /\ n + 2 \in Nat /\ n + 3 \in Nat /\ n + 4 \in Nat /\ n + 5 \in Nat /\ n + 6 \in Nat
    OBVIOUS
  <2> QED BY <2>1, Pow2Def
<1>2. /\ (n + 1) + 1 = n + 2 /\ (n + 2) + 1 = n + 3 /\ (n + 3) + 1 = n + 4
      /\ (n + 4) + 1 = n + 5 /\ (n + 5) + 1 = n + 6 /\ (n + 6) + 1 = n + 7
  OBVIOUS
<1>3. Pow2[n + 1] = 2 * Pow2[n] /\ Pow2[n] \in Nat
  BY Pow2Def
<1>4. Pow2[n + 2] = 4 * Pow2[n]
  BY ONLY <1>1, <1>3, <1>2
<1>5. Pow2[n + 3] = 8 * Pow2[n]
  BY ONLY <1>1, <1>3, <1>4, <1>2
<1>6. Pow2[n + 4] = 16 * Pow2[n]
  BY ONLY <1>1, <1>3, <1>5, <1>2
<1>7. Pow2[n + 5] = 32 * Pow2[n]
  BY ONLY <1>1, <1>3, <1>6, <1>2
<1>8. Pow2[n + 6] = 64 * Pow2[n]
  BY ONLY <1>1, <1>3, <1>7, <1>2
<1> QED BY ONLY <1>1, <1>3, <1>8, <1>2

\* Powers of two grow with the exponent.
LEMMA Pow2Grows ==
    ASSUME NEW m \in Nat, NEW n \in Nat, m <= n
    PROVE  Pow2[m] <= Pow2[n]
<1> DEFINE I == {k \in Nat : Pow2[m] <= Pow2[m + k]}
<1>1. 0 \in I
  BY Pow2Def
<1>2. ASSUME NEW k \in Nat, k \in I PROVE k + 1 \in I
  <2>1. m + k \in Nat /\ m + (k + 1) = (m + k) + 1
    OBVIOUS
  <2>2. Pow2[m + (k + 1)] = 2 * Pow2[m + k] /\ Pow2[m + k] \in Nat /\ Pow2[m] \in Nat
    BY <2>1, Pow2Def
  <2>3. Pow2[m] <= Pow2[m + k]
    BY <1>2
  <2>4. Pow2[m] <= Pow2[m + (k + 1)]
    BY <2>2, <2>3
  <2> QED BY <2>4
<1> HIDE DEF I
<1>3. Nat \subseteq I
  BY <1>1, <1>2, NatInd
<1>4. n - m \in I /\ m + (n - m) = n
  BY <1>3
<1> QED BY <1>4 DEF I

\* The numbers that e bits and a sign hold.
Fits(v, e) == v \in -Pow2[e] .. Pow2[e] - 1

\* Each round of writeCompressed takes away seven bits.
LEMMA ShiftedFits ==
    ASSUME NEW v \in Int, NEW e \in Nat, Fits(v, e), NEW k \in Nat, 7 * k <= e
    PROVE  Fits(Shifted(v)[k], e - 7 * k)
<1> DEFINE I == {j \in Nat : 7 * j <= e => Fits(Shifted(v)[j], e - 7 * j)}
<1>1. 0 \in I
  <2>1. e - 7 * 0 = e /\ Shifted(v)[0] = v
    BY ShiftedDef
  <2>2. Fits(Shifted(v)[0], e - 7 * 0)
    BY <2>1
  <2> QED BY <2>2
<1>2. ASSUME NEW j \in Nat, j \in I PROVE j + 1 \in I
  <2> SUFFICES ASSUME 7 * (j + 1) <= e PROVE Fits(Shifted(v)[j + 1], e - 7 * (j + 1))
    OBVIOUS
  <2> DEFINE n == e - 7 * (j + 1)
  <2>1. n \in Nat /\ e - 7 * j = n + 7 /\ 7 * j <= e
    OBVIOUS
  <2>2. Fits(Shifted(v)[j], n + 7)
    BY <1>2, <2>1
  <2> HIDE DEF n
  <2>3. Pow2[n + 7] = 128 * Pow2[n] /\ Pow2[n] \in Nat
    BY <2>1, Pow2Seven, Pow2Def
  <2>4. Shifted(v)[j + 1] = Shifted(v)[j] \div 128 /\ Shifted(v)[j] \in Int
    BY ONLY v \in Int, j \in Nat, ShiftedDef
  <2> DEFINE x == Shifted(v)[j]  p == Pow2[n]
  <2>5. x \in -(128 * p) .. 128 * p - 1 /\ p \in Nat
    BY <2>2, <2>3 DEF Fits
  <2> HIDE DEF x, p
  <2>6. x \div 128 \in -p .. p - 1
    BY ONLY <2>5
  <2>7. Fits(Shifted(v)[j + 1], n)
    BY <2>4, <2>6 DEF Fits, x, p
  <2> QED BY <2>7 DEF n
<1> HIDE DEF I
<1>3. Nat \subseteq I
  BY <1>1, <1>2, NatInd
<1> QED BY <1>3 DEF I

\* The rest has the sign of the value.
LEMMA ShiftedSign ==
    ASSUME NEW v \in Int, NEW k \in Nat
    PROVE  Shifted(v)[k] < 0 <=> v < 0
<1> DEFINE I == {j \in Nat : Shifted(v)[j] < 0 <=> v < 0}
<1>1. 0 \in I
  BY ShiftedDef
<1>2. ASSUME NEW j \in Nat, j \in I PROVE j + 1 \in I
  <2>1. Shifted(v)[j + 1] = Shifted(v)[j] \div 128 /\ Shifted(v)[j] \in Int
    BY ShiftedDef
  <2>2. Shifted(v)[j + 1] < 0 <=> Shifted(v)[j] < 0
    BY <2>1
  <2> QED BY <1>2, <2>2
<1> HIDE DEF I
<1>3. Nat \subseteq I
  BY <1>1, <1>2, NatInd
<1> QED BY <1>3 DEF I

\* A negative target, all ones, has the sign bit set.
LEMMA SignOfMinusOne == SignBit(-1) = 1
<1>1. \A z \in Int : z < 0 /\ z > -2 => SignBit(z) = 1
  <2>1. SUFFICES ASSUME NEW z \in Int, z < 0, z > -2 PROVE SignBit(z) = 1
    OBVIOUS
  <2>2. z \div 64 < 0 /\ z \div 64 > -2 /\ z \div 64 \in Int
    BY <2>1
  <2> DEFINE y == z \div 64
  <2> HIDE DEF y
  <2>3. y % 2 = 1
    BY <2>2 DEF y
  <2> QED BY <2>3 DEF SignBit, y
<1>2. -1 \in Int /\ -1 < 0 /\ -1 > -2
  OBVIOUS
<1> QED BY <1>1, <1>2

\* The loop of writeCompressed ends once seven bits hold the rest and its sign.
LEMMA LoopEnds ==
    ASSUME NEW v \in Int, NEW e \in Nat, Fits(v, e)
    PROVE  EndsWith(v, e \div 7)
<1> DEFINE q == e \div 7
           x == Shifted(v)[q]
           y == Shifted(v)[q + 1]
<1>1. q \in Nat /\ 7 * q <= e /\ e - 7 * q \in 0 .. 6
  OBVIOUS
<1> HIDE DEF q
<1>2. Pow2[6] = 64
  <2>1. /\ Pow2[0 + 1] = 2 * Pow2[0] /\ Pow2[1 + 1] = 2 * Pow2[1] /\ Pow2[2 + 1] = 2 * Pow2[2]
        /\ Pow2[3 + 1] = 2 * Pow2[3] /\ Pow2[4 + 1] = 2 * Pow2[4] /\ Pow2[5 + 1] = 2 * Pow2[5]
        /\ Pow2[0] = 1
    BY Pow2Def
  <2> QED BY <2>1
<1>3. Pow2[e - 7 * q] <= 64 /\ Pow2[e - 7 * q] \in Nat
  <2>1. e - 7 * q \in Nat /\ 6 \in Nat /\ e - 7 * q <= 6
    BY <1>1
  <2>2. Pow2[e - 7 * q] <= Pow2[6]
    BY ONLY <2>1, Pow2Grows
  <2> QED BY <2>1, <2>2, <1>2, Pow2Def
<1>4. Fits(x, e - 7 * q)
  BY <1>1, ShiftedFits
<1>5. x \in -64 .. 63
  BY <1>3, <1>4 DEF Fits
<1>6. y = x \div 128 /\ (x < 0 <=> v < 0)
  <2>1. q \in Nat
    BY <1>1
  <2> QED BY ONLY <2>1, v \in Int, ShiftedDef, ShiftedSign
<1> HIDE DEF x, y
<1>7. CASE v < 0
  <2>1. x < 0 /\ y = -1
    BY <1>5, <1>6, <1>7
  <2>2. x % 128 = x + 128 /\ (x + 128) \div 64 = 1
    BY <1>5, <2>1
  <2>3. SignBit(x % 128) = 1 /\ SignBit(-1) = 1
    <3>1. ((x + 128) \div 64) % 2 = 1
      BY <2>2
    <3> QED BY <2>2, <3>1, SignOfMinusOne DEF SignBit
  <2> QED BY <1>7, <2>1, <2>3 DEF EndsWith, LastGroup, x, y, q
<1>8. CASE ~ (v < 0)
  <2>1. x >= 0 /\ y = 0
    BY <1>5, <1>6, <1>8
  <2>2. SignBit(x % 128) = 0 /\ SignBit(0) = 0
    BY <1>5, <2>1 DEF SignBit
  <2> QED BY <1>8, <2>1, <2>2 DEF EndsWith, LastGroup, x, y, q
<1> QED BY <1>7, <1>8

\* The loop of writeCompressed has a last round, and one that the buffer holds.
LEMMA LastRoundIs ==
    ASSUME NEW v \in Int, NEW e \in Nat, e <= WordBits, Fits(v, e)
    PROVE  LastRound(v) \in 0 .. e \div 7 /\ EndsWith(v, LastRound(v))
<1> USE WordAssumption
<1> DEFINE R == {k \in 0 .. e \div 7 : EndsWith(v, k)}
<1>1. e \div 7 \in R /\ R \subseteq Nat
  BY LoopEnds
<1>2. PICK n \in R : \A m \in R : n <= m
  BY <1>1, NatMin
<1>3. n \in 0 .. e \div 7 /\ EndsWith(v, n) /\ n \in 0 .. WordBits
  BY <1>2
<1>4. \A j \in 0 .. n - 1 : ~ EndsWith(v, j)
  <2> SUFFICES ASSUME NEW j \in 0 .. n - 1, EndsWith(v, j) PROVE FALSE
    OBVIOUS
  <2>1. j \in R /\ j < n
    BY <1>3
  <2> QED BY <1>2, <1>3, <2>1
<1> DEFINE First(k) == EndsWith(v, k) /\ \A j \in 0 .. k - 1 : ~ EndsWith(v, j)
<1>5. \E k \in 0 .. WordBits : First(k)
  BY <1>3, <1>4
<1>6. LastRound(v) = CHOOSE k \in 0 .. WordBits : First(k)
  BY DEF LastRound
<1>7. LastRound(v) \in 0 .. WordBits /\ First(LastRound(v))
  <2> HIDE DEF First
  <2> QED BY <1>5, <1>6
<1>8. ~ (n < LastRound(v))
  BY <1>3, <1>7
<1> QED BY <1>3, <1>7, <1>8

\* Division with remainder.
LEMMA DivMod ==
    ASSUME NEW w \in Nat \ {0}, NEW x \in Int
    PROVE  x = (x \div w) * w + (x % w) /\ x % w \in 0 .. w - 1 /\ x \div w \in Int
OBVIOUS

\* A multiple of w is w or more.
LEMMA ManyTimes ==
    ASSUME NEW w \in Nat \ {0}, NEW k \in Int, k >= 1
    PROVE  k * w >= w
OBVIOUS

\* There is one remainder.
LEMMA ModUnique ==
    ASSUME NEW w \in Nat \ {0}, NEW q \in Int, NEW r \in 0 .. w - 1
    PROVE  (q * w + r) % w = r
<1> DEFINE x == q * w + r  p == x \div w  s == x % w
<1>1. x \in Int
  OBVIOUS
<1> HIDE DEF x
<1>2. x = p * w + s /\ s \in 0 .. w - 1 /\ p \in Int
  BY DivMod, <1>1
<1> HIDE DEF p, s
<1>3. (q - p) * w = s - r
  BY <1>2 DEF x
<1>4. CASE q - p >= 1
  <2>1. (q - p) * w >= w
    BY <1>2, <1>4, ManyTimes
  <2> QED BY <1>2, <1>3, <2>1
<1>5. CASE p - q >= 1
  <2>1. (p - q) * w >= w
    BY <1>2, <1>5, ManyTimes
  <2>2. (p - q) * w = r - s
   BY <1>2 DEF x
  <2> QED BY <1>2, <2>2, <2>1
<1>6. CASE p = q
  <2>1. s = r
    BY <1>2, <1>6 DEF x
  <2> QED BY <2>1 DEF s, x
<1> QED BY <1>2, <1>4, <1>5, <1>6

\* A number below w is its own remainder.
LEMMA SmallMod ==
    ASSUME NEW w \in Nat \ {0}, NEW r \in 0 .. w - 1
    PROVE  r % w = r
<1> DEFINE q == 0
<1>1. q \in Int /\ q * w + r = r
  OBVIOUS
<1> HIDE DEF q
<1>2. (q * w + r) % w = r
  BY ONLY <1>1, w \in Nat \ {0}, r \in 0 .. w - 1, ModUnique
<1> QED BY <1>1, <1>2

\* Twice a number is halved exactly.
LEMMA Halved == \A x \in Nat : (2 * x) \div 2 = x
OBVIOUS

\* A word may be cut before or after the next group is put below it.
LEMMA ModStep ==
    ASSUME NEW w \in Nat \ {0}, NEW a \in Int, NEW b \in Int
    PROVE  ((a % w) * 128 + b) % w = (a * 128 + b) % w
<1> DEFINE y == (a % w) * 128 + b
           q == a \div w
           p == y \div w
           s == y % w
<1>1. a = q * w + (a % w) /\ a % w \in Int /\ q \in Int
  BY DivMod
<1>2. y \in Int
  BY <1>1
<1>3. a * 128 + b = (128 * q) * w + y
  BY <1>1
<1> HIDE DEF y, q
<1>4. y = p * w + s /\ s \in 0 .. w - 1 /\ p \in Int
  BY DivMod, <1>2
<1> HIDE DEF p, s
<1> DEFINE t == 128 * q + p
<1>5. a * 128 + b = t * w + s /\ t \in Int
  BY <1>1, <1>3, <1>4
<1> HIDE DEF t
<1>6. (t * w + s) % w = s
  BY <1>4, <1>5, ModUnique
<1>7. (a * 128 + b) % w = s
  BY <1>5, <1>6
<1> QED BY <1>7 DEF s, y

\* So is what readCompressed has gathered after its rounds.
LEMMA GatheredDef ==
    ASSUME NEW d \in Seq(Nat), NEW p \in 1 .. Len(d) + 1, NEW first \in Nat
    PROVE  LET value == Gathered(d, p, first)
           IN  /\ value[0] = first
               /\ \A k \in 0 .. Len(d) - p :
                      value[k + 1] = (value[k] * 128 + (d[p + k] % 128)) % Word
<1> DEFINE n == Len(d) - p + 1
           cell(k) == IF k < n THEN d[p + k] % 128 ELSE 0
           next(k, x) == (x * 128 + cell(k)) % Word
           g == [z \in Nat \X Nat |-> next(z[1], z[2])]
<1>1. n \in Nat /\ \A k \in Nat : cell(k) \in Nat
  OBVIOUS
<1>2. Word \in Nat \ {0}
  BY Pow2Def, WordAssumption DEF Word
<1> HIDE DEF cell
<1>3. ASSUME NEW k \in Nat, NEW x \in Nat PROVE next(k, x) \in Nat
  <2> DEFINE y == x * 128 + cell(k)
  <2>1. y \in Int
    BY <1>1
  <2> HIDE DEF y
  <2>2. y % Word \in 0 .. Word - 1
    BY <1>2, <2>1, DivMod
  <2> QED BY <1>2, <2>2 DEF y
<1> HIDE DEF next
<1>4. Steps(g, Nat) /\ \A k \in Nat, x \in Nat : g[<<k, x>>] = next(k, x)
  BY <1>3 DEF Steps
<1> HIDE DEF g, n
<1> DEFINE S == Nat
           a == first
<1> HIDE DEF S, a
<1>5. a \in S /\ Steps(g, S) /\ n \in Nat
  BY <1>1, <1>4 DEF S, a
<1>6. \E f : Goes(f, n, S, a, g)
  BY ONLY <1>5, GoesFar
<1>7. PICK f : Goes(f, n, S, a, g)
  BY <1>6
<1>8. f \in [0 .. n -> Nat] /\ f[0] = first /\ \A k \in 0 .. n - 1 : f[k + 1] = g[<<k, f[k]>>]
  BY <1>7 DEF Goes, S, a
<1>9. f \in [0 .. n -> Nat] /\ f[0] = first /\ \A k \in 0 .. n - 1 : f[k + 1] = next(k, f[k])
  <2>1. ASSUME NEW k \in 0 .. n - 1 PROVE f[k + 1] = next(k, f[k])
    <3>1. k \in Nat /\ k \in 0 .. n
      BY <1>1
    <3>2. f[k] \in Nat
      BY <1>8, <3>1
    <3> QED BY <1>4, <1>8, <3>1, <3>2
  <2> QED BY <1>8, <2>1
<1>10. ASSUME NEW k \in 0 .. n
      PROVE  f[k] = IF k = 0 THEN first ELSE (f[k - 1] * 128 + (d[p + k - 1] % 128)) % Word
  <2>1. CASE k = 0
    BY <1>9, <2>1
  <2>2. CASE k # 0
    <3>1. k - 1 \in 0 .. n - 1 /\ k - 1 + 1 = k /\ k - 1 < n /\ p + (k - 1) = p + k - 1
      BY <1>1, <2>2
    <3>2. f[k] = next(k - 1, f[k - 1])
      BY <1>9, <3>1
    <3> QED BY <2>2, <3>1, <3>2 DEF next, cell
  <2> QED BY <2>1, <2>2
<1>11. f = [k \in 0 .. n |-> IF k = 0 THEN first ELSE (f[k - 1] * 128 + (d[p + k - 1] % 128)) % Word]
  BY <1>9, <1>10
<1> DEFINE value == Gathered(d, p, first)
<1>12. value = [k \in 0 .. n |-> IF k = 0 THEN first ELSE (value[k - 1] * 128 + (d[p + k - 1] % 128)) % Word]
  <2> DEFINE turn(u, k) == IF k = 0 THEN first ELSE (u[k - 1] * 128 + (d[p + k - 1] % 128)) % Word
  <2>1. value = CHOOSE u : u = [k \in 0 .. n |-> turn(u, k)]
    BY DEF Gathered, n
  <2>2. f = [k \in 0 .. n |-> turn(f, k)]
    BY ONLY <1>11
  <2> HIDE DEF turn, n, value
  <2>3. value = [k \in 0 .. n |-> turn(value, k)]
    BY ONLY <2>1, <2>2
  <2> QED BY ONLY <2>3 DEF turn
<1> HIDE DEF value
<1>13. value[0] = first
  BY <1>1, <1>12
<1>14. ASSUME NEW k \in 0 .. Len(d) - p
       PROVE  value[k + 1] = (value[k] * 128 + (d[p + k] % 128)) % Word
  <2>1. k + 1 \in 0 .. n /\ k + 1 # 0 /\ k + 1 - 1 = k /\ p + (k + 1) - 1 = p + k
    BY DEF n
  <2>2. \A j \in 0 .. n : j # 0 => value[j] = (value[j - 1] * 128 + (d[p + j - 1] % 128)) % Word
    BY <1>12
  <2> DEFINE j == k + 1
  <2>3. j \in 0 .. n /\ j # 0 /\ j - 1 = k /\ p + j - 1 = p + k
    BY <2>1
  <2> HIDE DEF j
  <2>4. value[j] = (value[j - 1] * 128 + (d[p + j - 1] % 128)) % Word
    BY ONLY <2>2, <2>3
  <2> QED BY ONLY <2>3, <2>4 DEF j
<1> QED BY <1>13, <1>14 DEF value

\* d begins with the bytes that writeCompressed makes of v in m + 1 rounds.
Begins(d, v, m) ==
    /\ m + 1 <= Len(d)
    /\ \A i \in 1 .. m + 1 : d[i] = (Shifted(v)[m + 1 - i] % 128) + IF i = m + 1 THEN 0 ELSE 128

\* Of these bytes only the last has no bit that says more follow.
LEMMA BytesOf ==
    ASSUME NEW v \in Int, NEW m \in Nat, NEW d \in Seq(Nat), Begins(d, v, m), NEW i \in 1 .. m + 1
    PROVE  /\ d[i] % 128 = Shifted(v)[m + 1 - i] % 128
           /\ d[i] < 128 <=> i = m + 1
<1> DEFINE x == Shifted(v)[m + 1 - i]
<1>1. x \in Int
  BY ShiftedDef
<1>2. d[i] = (x % 128) + IF i = m + 1 THEN 0 ELSE 128
  BY DEF Begins
<1> HIDE DEF x
<1> DEFINE z == x % 128
<1>3. z \in 0 .. 127
  BY <1>1
<1> DEFINE q == IF i = m + 1 THEN 0 ELSE 1
<1>4. d[i] = q * 128 + z
  <2>1. d[i] = z + IF i = m + 1 THEN 0 ELSE 128
    BY ONLY <1>2 DEF z
  <2> HIDE DEF z
  <2> QED BY ONLY <1>3, <2>1
<1> HIDE DEF z
<1>5. q \in Int /\ 128 \in Nat \ {0} /\ z \in 0 .. 128 - 1 /\ (q * 128 + z < 128 <=> i = m + 1)
  <2>1. CASE i = m + 1
    BY ONLY <1>3, <2>1
  <2>2. CASE i # m + 1
    BY ONLY <1>3, <2>2
  <2> QED BY <2>1, <2>2
<1> HIDE DEF q
<1>6. d[i] % 128 = z /\ (d[i] < 128 <=> i = m + 1)
  BY ONLY <1>4, <1>5, ModUnique
<1> QED BY <1>6 DEF x, z

\* The rounds of readCompressed take back those of writeCompressed.
LEMMA GatheredBack ==
    ASSUME NEW v \in Int, NEW m \in Nat, EndsWith(v, m), NEW d \in Seq(Nat), Begins(d, v, m)
    PROVE  Gathered(d, 1, IF SignBit(d[1] % 128) = 1 THEN Word - 1 ELSE 0)[m + 1] = v % Word
<1> DEFINE first == IF SignBit(d[1] % 128) = 1 THEN Word - 1 ELSE 0
           temp == Shifted(v)
           value == Gathered(d, 1, first)
           target == IF v < 0 THEN -1 ELSE 0
<1>1. Word \in Nat \ {0}
  BY Pow2Def, WordAssumption DEF Word
<1>2. temp \in [Nat -> Int] /\ temp[0] = v /\ \A k \in Nat : temp[k + 1] = temp[k] \div 128
  BY ShiftedDef
<1>3. temp[m + 1] = target /\ SignBit(temp[m] % 128) = SignBit(target)
  BY DEF EndsWith, LastGroup
<1>4. d[1] % 128 = temp[m] % 128
  <2>1. 1 \in 1 .. m + 1 /\ m + 1 - 1 = m
    OBVIOUS
  <2> QED BY ONLY <2>1, BytesOf, v \in Int, m \in Nat, d \in Seq(Nat), Begins(d, v, m)
<1>5. first = target % Word /\ first \in Nat
  <2>1. CASE v < 0
    <3> DEFINE q == -1  w == Word  r == w - 1
    <3>1. q * w + r = -1 /\ r \in 0 .. w - 1 /\ q \in Int /\ w \in Nat \ {0}
      BY <1>1
    <3> HIDE DEF q, w, r
    <3>2. (q * w + r) % w = r
      BY ONLY <3>1, ModUnique
    <3>3. (-1) % Word = Word - 1
      BY <3>1, <3>2 DEF w, r
    <3>4. first = Word - 1
      BY <1>3, <1>4, <2>1, SignOfMinusOne
    <3> QED BY <1>1, <2>1, <3>3, <3>4
  <2>2. CASE ~ (v < 0)
    <3>1. SignBit(0) = 0
      BY DEF SignBit
    <3>2. first = 0
      BY <1>3, <1>4, <2>2, <3>1
    <3>3. (0 * Word + 0) % Word = 0
      BY <1>1, ModUnique
    <3> QED BY <1>1, <2>2, <3>2, <3>3
  <2> QED BY <2>1, <2>2
<1> HIDE DEF first
<1>6. 1 \in 1 .. Len(d) + 1 /\ Len(d) \in Nat /\ m + 1 <= Len(d)
  BY DEF Begins
<1>7. value[0] = first /\ \A k \in 0 .. Len(d) - 1 : value[k + 1] = (value[k] * 128 + (d[1 + k] % 128)) % Word
  BY <1>5, <1>6, GatheredDef
<1> HIDE DEF value, target, temp
<1> DEFINE I == {k \in Nat : k <= m + 1 => value[k] = temp[m + 1 - k] % Word}
<1>8. 0 \in I
  <2>1. m + 1 - 0 = m + 1
    OBVIOUS
  <2> QED BY <1>3, <1>5, <1>7, <2>1
<1>9. ASSUME NEW k \in Nat, k \in I PROVE k + 1 \in I
  <2> SUFFICES ASSUME k + 1 <= m + 1 PROVE value[k + 1] = temp[m + 1 - (k + 1)] % Word
    OBVIOUS
  <2>1. k \in 0 .. Len(d) - 1 /\ 1 + k \in 1 .. m + 1 /\ m + 1 - (1 + k) = m - k /\ k <= m + 1
        /\ m - k \in Nat /\ m + 1 - (k + 1) = m - k /\ (m - k) + 1 = m + 1 - k
    BY <1>6
  <2>2. value[k] = temp[m + 1 - k] % Word
    BY <1>9, <2>1
  <2>3. d[1 + k] % 128 = temp[m - k] % 128
    BY <2>1, BytesOf DEF temp
  <2> DEFINE x == temp[m - k]  y == temp[m + 1 - k]
  <2>4. x \in Int /\ y = x \div 128
    BY <1>2, <2>1
  <2>5. value[k + 1] = ((y % Word) * 128 + (x % 128)) % Word
    BY <1>7, <2>1, <2>2, <2>3
  <2> HIDE DEF x, y
  <2>6. y \in Int /\ x % 128 \in Int /\ y * 128 + (x % 128) = x
    BY <2>4
  <2>7. value[k + 1] = (y * 128 + (x % 128)) % Word
    <3> DEFINE b == x % 128  w == Word
    <3>1. b \in Int /\ w \in Nat \ {0} /\ y \in Int
      BY <1>1, <2>6
    <3>2. value[k + 1] = ((y % w) * 128 + b) % w
      BY ONLY <2>5
    <3> HIDE DEF b, w
    <3>3. ((y % w) * 128 + b) % w = (y * 128 + b) % w
      <4> DEFINE Next7(aa, bb) == aa * 128 + bb
      <4>1. \A aa, bb \in Int : Next7(aa % w, bb) % w = Next7(aa, bb) % w
        <5>1. w \in Nat \ {0}
          BY ONLY <3>1
        <5>2. \A n \in Nat \ {0} : \A aa, bb \in Int : ((aa % n) * 128 + bb) % n = (aa * 128 + bb) % n
          BY ModStep, Zenon
        <5> QED BY ONLY <5>1, <5>2
      <4> HIDE DEF Next7
      <4>2. Next7(y % w, b) % w = Next7(y, b) % w
        BY ONLY <3>1, <4>1
      <4> QED BY ONLY <4>2 DEF Next7
    <3>4. value[k + 1] = (y * 128 + b) % w
      BY ONLY <3>2, <3>3
    <3> QED BY ONLY <3>4 DEF b, w
  <2>8. value[k + 1] = x % Word
    BY <2>6, <2>7
  <2> QED BY <2>1, <2>8 DEF x
<1> HIDE DEF I
<1>10. Nat \subseteq I
  BY <1>8, <1>9, NatInd
<1>11. value[m + 1] = temp[0] % Word
  BY <1>10 DEF I
<1> QED BY <1>2, <1>11 DEF value, first

\* readCompressed ends at the last byte written, with the value's word.
LEMMA ReadsBack ==
    ASSUME NEW v \in Int, NEW m \in Nat, EndsWith(v, m), NEW d \in Seq(Nat), Begins(d, v, m),
           NEW size \in Nat, m + 1 <= MaxSize(size)
    PROVE  ReadCompressed(d, 1, size) = Result(v % Word, m + 2)
<1> DEFINE E == Ends(d, 1, size)
<1>1. m + 1 \in E
  <2>1. m + 1 \in 1 .. MaxSize(size) /\ 1 + (m + 1) - 1 = m + 1 /\ m + 1 <= Len(d) /\ m + 1 \in 1 .. m + 1
    BY DEF Begins, MaxSize
  <2>2. d[m + 1] < 128
    BY <2>1, BytesOf
  <2> QED BY <2>1, <2>2 DEF Ends
<1>2. \A j \in E : j \in Nat /\ m + 1 <= j
  <2> SUFFICES ASSUME NEW j \in E, j < m + 1 PROVE FALSE
    BY DEF Ends, MaxSize
  <2>1. j \in 1 .. m + 1 /\ d[1 + j - 1] < 128 /\ 1 + j - 1 = j
    BY DEF Ends, MaxSize
  <2> QED BY <2>1, BytesOf
<1> DEFINE end == CHOOSE k \in E : \A j \in E : k <= j
<1>3. end = m + 1
  <2> HIDE DEF E
  <2>1. \E k \in E : \A j \in E : k <= j
    BY <1>1, <1>2
  <2>2. end \in E /\ \A j \in E : end <= j
    BY <2>1
  <2>3. end \in Nat /\ m + 1 <= end /\ end <= m + 1
    BY <1>1, <1>2, <2>2
  <2> QED BY <2>3
<1>4. Gathered(d, 1, IF SignBit(d[1] % 128) = 1 THEN Word - 1 ELSE 0)[m + 1] = v % Word
  BY GatheredBack
<1>5. 1 + (m + 1) = m + 2
  OBVIOUS
<1> HIDE DEF E
<1>6. E # {}
  BY <1>1
<1> QED BY <1>3, <1>4, <1>5, <1>6 DEF ReadCompressed, E

\* The bytes of writeCompressed begin themselves with any byte after them.
LEMMA BytesWritten ==
    ASSUME NEW v \in Int, v # 0, NEW m \in Nat, LastRound(v) = m
    PROVE  LET bytes == WriteCompressed(v)
           IN  /\ bytes \in Seq(Nat) /\ Len(bytes) = m + 1
               /\ Begins(bytes, v, m)
               /\ \A after \in Nat : Append(bytes, after) \in Seq(Nat) /\ Begins(Append(bytes, after), v, m)
<1> DEFINE cell(i) == (Shifted(v)[m + 1 - i] % 128) + IF i = m + 1 THEN 0 ELSE 128
           bytes == WriteCompressed(v)
<1>1. ASSUME NEW i \in 1 .. m + 1 PROVE cell(i) \in Nat
  <2> DEFINE x == Shifted(v)[m + 1 - i]
  <2>1. x \in Int
    BY ShiftedDef
  <2> HIDE DEF x
  <2> QED BY <2>1 DEF x
<1>2. bytes = [i \in 1 .. m + 1 |-> cell(i)]
  BY DEF WriteCompressed
<1> HIDE DEF cell, bytes
<1>3. bytes \in Seq(Nat) /\ Len(bytes) = m + 1 /\ \A i \in 1 .. m + 1 : bytes[i] = cell(i)
  BY <1>1, <1>2
<1>4. Begins(bytes, v, m)
  BY <1>3 DEF Begins, cell
<1>5. ASSUME NEW after \in Nat
      PROVE  Append(bytes, after) \in Seq(Nat) /\ Begins(Append(bytes, after), v, m)
  <2>1. /\ Append(bytes, after) \in Seq(Nat) /\ Len(Append(bytes, after)) = m + 2
        /\ \A i \in 1 .. m + 1 : Append(bytes, after)[i] = bytes[i]
    BY <1>3
  <2> QED BY <1>3, <2>1 DEF Begins, cell
<1> QED BY <1>3, <1>4, <1>5 DEF bytes

\* No byte before the last ends the value.
LEMMA PrefixFails ==
    ASSUME NEW v \in Int, v # 0, NEW m \in Nat, LastRound(v) = m, NEW n \in 1 .. m, NEW size \in Nat
    PROVE  Fails(ReadUnsigned(SubSeq(WriteCompressed(v), 1, n), 1, size))
<1> DEFINE bytes == WriteCompressed(v)
           d == SubSeq(bytes, 1, n)
<1>1. bytes \in Seq(Nat) /\ Len(bytes) = m + 1 /\ Begins(bytes, v, m)
  BY BytesWritten
<1> HIDE DEF bytes
<1>2. Len(d) = n /\ \A i \in 1 .. n : d[i] = bytes[i]
  BY <1>1
<1>3. \A i \in 1 .. n : ~ (bytes[i] < 128)
  <2> SUFFICES ASSUME NEW i \in 1 .. n PROVE ~ (bytes[i] < 128)
    OBVIOUS
  <2>1. i \in 1 .. m + 1 /\ i # m + 1
    OBVIOUS
  <2> QED BY <1>1, <2>1, BytesOf
<1> HIDE DEF d
<1>4. Ends(d, 1, size) = {}
  <2> SUFFICES ASSUME NEW k \in Ends(d, 1, size) PROVE FALSE
    OBVIOUS
  <2>1. k \in Nat /\ 1 <= k /\ 1 + k - 1 <= n /\ d[1 + k - 1] < 128
    BY <1>2 DEF Ends, MaxSize
  <2>2. 1 + k - 1 = k /\ k \in 1 .. n
    BY <2>1
  <2> QED BY <1>2, <1>3, <2>1, <2>2
<1> QED BY <1>4 DEF ReadUnsigned, ReadCompressed, Fails, Failed, Result, d, bytes

\* What any reader makes of a value that e bits and a sign hold.
LEMMA WordBack ==
    ASSUME NEW v \in Int, v # 0, NEW e \in Nat, e <= WordBits, Fits(v, e),
           NEW size \in Nat, e \div 7 + 1 <= MaxSize(size), NEW after \in Nat
    PROVE  LET bytes == WriteCompressed(v)
           IN  /\ Len(bytes) \in Nat /\ Len(bytes) <= MaxSize(size)
               /\ ReadCompressed(Append(bytes, after), 1, size) = Result(v % Word, Len(bytes) + 1)
<1> DEFINE m == LastRound(v)  bytes == WriteCompressed(v)
<1>1. m \in 0 .. e \div 7 /\ EndsWith(v, m)
  BY LastRoundIs
<1>2. m \in Nat /\ m + 1 <= MaxSize(size)
  BY <1>1 DEF MaxSize
<1> HIDE DEF m
<1>3. Len(bytes) = m + 1 /\ Append(bytes, after) \in Seq(Nat) /\ Begins(Append(bytes, after), v, m)
  BY <1>2, BytesWritten DEF m
<1> HIDE DEF bytes
<1>4. ReadCompressed(Append(bytes, after), 1, size) = Result(v % Word, m + 2)
  BY <1>1, <1>2, <1>3, ReadsBack
<1>5. m + 2 = Len(bytes) + 1
  BY <1>2, <1>3
<1> QED BY <1>2, <1>3, <1>4, <1>5 DEF bytes

\* An integer that its type holds is read back (bytecompress.go:13-88).
THEOREM IntegerRead ==
    ASSUME NEW size \in Nat \ {0}, size % 7 # 0, 8 * size <= WordBits, NEW v \in -Word .. Word - 1
    PROVE  IntegerReadBack(size, v)
<1> USE WordAssumption
<1> SUFFICES ASSUME v # 0 PROVE IntegerReadBack(size, v)
  BY DEF IntegerReadBack
<1> DEFINE bytes == WriteCompressed(v)
<1>1. v \in Int /\ Word \in Nat \ {0}
  BY Pow2Def DEF Word
<1>2. ASSUME InRange("unsigned", 8 * size, v)
      PROVE  /\ Len(bytes) <= MaxSize(size)
             /\ \A after \in 0 .. 255 : ReadUnsigned(Append(bytes, after), 1, size) = Result(v, Len(bytes) + 1)
  <2> DEFINE e == 8 * size
  <2>1. e \in Nat /\ e <= WordBits /\ e \div 7 + 1 <= MaxSize(size)
    BY DEF MaxSize
  <2>2. Pow2[e] \in Nat
    BY <2>1, Pow2Def
  <2>3. v \in 0 .. Pow2[e] - 1
    BY <1>2 DEF InRange
  <2>4. Fits(v, e) /\ v \in Nat /\ v < Pow2[e] /\ Pow2[e] \in Nat
    BY <2>2, <2>3 DEF Fits
  <2> HIDE DEF e
  <2>5. v % Word = v
    <3>1. Pow2[e] <= Word
      BY <2>1, Pow2Grows DEF Word
    <3>2. v \in 0 .. Word - 1
      BY <1>1, <2>4, <3>1
    <3> QED BY <1>1, <3>2
  <2>6. ASSUME NEW after \in Nat
        PROVE  Len(bytes) <= MaxSize(size)
                 /\ ReadCompressed(Append(bytes, after), 1, size) = Result(v % Word, Len(bytes) + 1)
    BY <1>1, <2>1, <2>4, WordBack
  <2> QED BY <2>5, <2>6 DEF ReadUnsigned
<1>3. ASSUME InRange("signed", 8 * size, v)
      PROVE  /\ Len(bytes) <= MaxSize(size)
             /\ \A after \in 0 .. 255 : ReadSigned(Append(bytes, after), 1, size) = Result(v, Len(bytes) + 1)
  <2> DEFINE e == 8 * size - 1
  <2>1. e \in Nat /\ e + 1 <= WordBits /\ e <= WordBits /\ e \div 7 + 1 <= MaxSize(size)
    BY DEF MaxSize
  <2>2. Fits(v, e)
    BY <1>3 DEF InRange, Fits
  <2> HIDE DEF e
  <2> DEFINE h == Pow2[WordBits - 1]
  <2>3. Word = 2 * h /\ h \in Nat \ {0}
    <3>1. WordBits - 1 \in Nat /\ (WordBits - 1) + 1 = WordBits
      BY <2>1
    <3>2. Pow2[(WordBits - 1) + 1] = 2 * h /\ h \in Nat \ {0}
      BY <3>1, Pow2Def
    <3> QED BY <3>1, <3>2 DEF Word
  <2>4. Pow2[e] <= h /\ Pow2[e] \in Nat
    <3>1. WordBits - 1 \in Nat /\ e <= WordBits - 1
      BY <2>1
    <3> QED BY <2>1, <3>1, Pow2Grows, Pow2Def
  <2>5. v \in -h .. h - 1
    BY <2>2, <2>3, <2>4 DEF Fits
  <2> HIDE DEF h
  <2>6. AsSigned(v % Word) = v
    <3>1. CASE v >= 0
      <4>1. v % Word = v
        BY <2>3, <2>5, <3>1
      <4> QED BY <2>3, <2>5, <3>1, <4>1 DEF AsSigned
    <3>2. CASE v < 0
      <4> DEFINE q == -1  r == v + Word
      <4>1. q * Word + r = v /\ q \in Int /\ r \in 0 .. Word - 1 /\ Word \in Nat \ {0}
        BY <2>3, <2>5, <3>2
      <4> HIDE DEF q, r
      <4>2. (q * Word + r) % Word = r
        BY ONLY <4>1, ModUnique
      <4>3. v % Word = v + Word
        BY <4>1, <4>2 DEF r
      <4> QED BY <2>3, <2>5, <3>2, <4>3 DEF AsSigned
    <3> QED BY <2>5, <3>1, <3>2
  <2>7. ASSUME NEW after \in Nat
        PROVE  Len(bytes) \in Nat /\ Len(bytes) <= MaxSize(size)
                 /\ ReadCompressed(Append(bytes, after), 1, size) = Result(v % Word, Len(bytes) + 1)
    BY <1>1, <2>1, <2>2, WordBack
  <2> HIDE DEF bytes
  <2>8. ASSUME NEW after \in Nat
        PROVE  ReadSigned(Append(bytes, after), 1, size) = Result(v, Len(bytes) + 1)
    <3> DEFINE r == ReadCompressed(Append(bytes, after), 1, size)
    <3>1. r = Result(v % Word, Len(bytes) + 1)
      BY <2>7
    <3>2. r.val = v % Word /\ r.pos = Len(bytes) + 1 /\ r.pos # 0
      BY <2>7, <3>1 DEF Result
    <3> HIDE DEF r
    <3> QED BY <2>6, <3>2 DEF ReadSigned, Fails, r
  <2>9. Len(bytes) <= MaxSize(size)
    <3>1. 0 \in Nat
      OBVIOUS
    <3> QED BY <2>7, <3>1
  <2>10. \A after \in 0 .. 255 : after \in Nat
    OBVIOUS
  <2> QED BY <2>8, <2>9, <2>10
<1>4. ASSUME NEW n \in 1 .. Len(bytes) - 1
      PROVE  Fails(ReadUnsigned(SubSeq(bytes, 1, n), 1, size))
  <2> DEFINE m == LastRound(v)
  <2>1. Fits(v, WordBits)
    BY DEF Fits, Word
  <2>2. m \in Nat
    BY <1>1, <2>1, LastRoundIs
  <2> HIDE DEF m
  <2>3. Len(bytes) = m + 1
    BY <1>1, <2>2, BytesWritten DEF m
  <2>4. n \in 1 .. m
    BY <2>2, <2>3
  <2> QED BY <1>1, <2>2, <2>4, PrefixFails DEF m
<1> HIDE DEF bytes
<1> QED BY <1>2, <1>3, <1>4 DEF IntegerReadBack, bytes

-----------------------------------------------------------------------------
(* Sequences that are put together and taken apart.                        *)

\* f gathers the sequences of seqs from the left.
Gathers(f, seqs, X) ==
    /\ f \in [0 .. Len(seqs) -> Seq(X)]
    /\ f[0] = <<>>
    /\ \A i \in 0 .. Len(seqs) - 1 : f[i + 1] = f[i] \o seqs[i + 1]

\* Sequences can be gathered.
LEMMA GathersExist ==
    ASSUME NEW X, NEW seqs \in Seq(Seq(X))
    PROVE  \E f : Gathers(f, seqs, X)
<1> DEFINE n == Len(seqs)
           S == Seq(X)
           g == [z \in Nat \X S |-> IF z[1] < n THEN z[2] \o seqs[z[1] + 1] ELSE z[2]]
<1>1. n \in Nat /\ \A i \in 1 .. n : seqs[i] \in S
  OBVIOUS
<1>2. ASSUME NEW k \in Nat, NEW x \in S PROVE IF k < n THEN x \o seqs[k + 1] \in S ELSE x \in S
  <2>1. CASE k < n
    <3>1. k + 1 \in 1 .. n
      BY <1>1, <2>1
    <3> QED BY <1>1, <2>1, <3>1, ConcatProperties
  <2> QED BY <2>1
<1>3. g \in [Nat \X S -> S]
  <2> HIDE DEF S
  <2> SUFFICES ASSUME NEW z \in Nat \X S PROVE (IF z[1] < n THEN z[2] \o seqs[z[1] + 1] ELSE z[2]) \in S
    OBVIOUS
  <2>1. z[1] \in Nat /\ z[2] \in S
    OBVIOUS
  <2> HIDE DEF n
  <2> QED BY <1>2, <2>1
<1>4. <<>> \in S /\ Steps(g, S) /\ n \in Nat
  BY <1>1, <1>3 DEF Steps
<1> DEFINE a == <<>>
<1>5. a \in S
  BY <1>4
<1>6. \A k \in Nat, x \in S : k < n => g[<<k, x>>] = x \o seqs[k + 1]
  OBVIOUS
<1> HIDE DEF S, n, g, a
<1>7. PICK f : Goes(f, n, S, a, g)
  BY ONLY <1>4, <1>5, GoesFar
<1>8. f \in [0 .. n -> S] /\ f[0] = <<>>
  BY <1>7 DEF Goes, a
<1>9. ASSUME NEW i \in 0 .. n - 1 PROVE f[i + 1] = f[i] \o seqs[i + 1]
  <2>1. i \in Nat /\ i \in 0 .. n /\ i < n
    BY <1>1
  <2>2. f[i] \in S
    BY <1>8, <2>1
  <2>3. f[i + 1] = g[<<i, f[i]>>]
    BY <1>7 DEF Goes
  <2> QED BY <1>6, <2>1, <2>2, <2>3
<1> QED BY <1>8, <1>9 DEF Gathers, S, n

\* FlattenSeq gathers them.
LEMMA FlattenIs ==
    ASSUME NEW X, NEW seqs \in Seq(Seq(X)), NEW f, Gathers(f, seqs, X)
    PROVE  FlattenSeq(seqs) = f[Len(seqs)]
<1> DEFINE n == Len(seqs)
<1>1. n \in Nat /\ \A i \in 1 .. n : seqs[i] \in Seq(X)
  OBVIOUS
<1>2. CASE n = 0
  <2>1. seqs = <<>>
    BY <1>2
  <2> QED BY <1>2, <2>1 DEF FlattenSeq, Gathers
<1>3. CASE n # 0
  <2> DEFINE h == [i \in 1 .. n |-> f[i]]
             flatten == CHOOSE w : w = [i \in 1 .. n |-> IF i = 1 THEN seqs[i] ELSE w[i - 1] \o seqs[i]]
  <2>1. ASSUME NEW i \in 1 .. n PROVE f[i] = IF i = 1 THEN seqs[i] ELSE h[i - 1] \o seqs[i]
    <3>1. CASE i = 1
      <4>1. 0 \in 0 .. n - 1 /\ 1 \in 1 .. n /\ 0 + 1 = 1
        BY <1>1, <1>3
      <4>2. f[0 + 1] = f[0] \o seqs[0 + 1] /\ f[0] = <<>>
        BY <4>1 DEF Gathers
      <4>3. f[0 + 1] = f[0] \o seqs[0 + 1] /\ seqs[1] \in Seq(X) /\ f[0] = <<>>
        BY <1>1, <4>1, <4>2
      <4>4. <<>> \o seqs[1] = seqs[1]
        BY <4>3, ConcatEmptySeq
      <4> QED BY <3>1, <4>3, <4>4
    <3>2. CASE i # 1
      <4>1. i - 1 \in 0 .. n - 1 /\ i - 1 \in 1 .. n /\ i - 1 + 1 = i
        BY <1>1, <3>2
      <4>2. f[i - 1 + 1] = f[i - 1] \o seqs[i - 1 + 1]
        BY <4>1 DEF Gathers
      <4> QED BY <3>2, <4>1, <4>2
    <3> QED BY <3>1, <3>2
  <2>2. h = [i \in 1 .. n |-> IF i = 1 THEN seqs[i] ELSE h[i - 1] \o seqs[i]]
    BY <2>1
  <2> HIDE DEF h
  <2>3. flatten = [i \in 1 .. n |-> IF i = 1 THEN seqs[i] ELSE flatten[i - 1] \o seqs[i]]
    BY <2>2
  <2>4. FlattenSeq(seqs) = flatten[n]
    BY <1>3 DEF FlattenSeq
  <2> HIDE DEF flatten
  <2> DEFINE I == {k \in Nat : k + 1 <= n => flatten[k + 1] = h[k + 1]}
  <2>5. 0 \in I
    <3>1. 1 \in 1 .. n
      BY <1>1, <1>3
    <3> QED BY <2>2, <2>3, <3>1
  <2>6. ASSUME NEW k \in Nat, k \in I PROVE k + 1 \in I
    <3> SUFFICES ASSUME k + 1 + 1 <= n PROVE flatten[k + 1 + 1] = h[k + 1 + 1]
      OBVIOUS
    <3> DEFINE j == k + 1 + 1
    <3>1. j \in 1 .. n /\ j # 1 /\ j - 1 = k + 1 /\ k + 1 <= n
      BY <1>1
    <3>2. flatten[k + 1] = h[k + 1]
      BY <2>6, <3>1
    <3> HIDE DEF j
    <3>3. flatten[j] = flatten[j - 1] \o seqs[j] /\ h[j] = h[j - 1] \o seqs[j]
      BY <2>2, <2>3, <3>1
    <3>4. flatten[j] = h[j]
      BY <3>1, <3>2, <3>3
    <3> QED BY <3>4 DEF j
  <2> HIDE DEF I
  <2>7. Nat \subseteq I
    BY <2>5, <2>6, NatInd
  <2>8. n - 1 \in I /\ (n - 1) + 1 = n /\ n \in 1 .. n
    BY <1>1, <1>3, <2>7
  <2>9. flatten[n] = h[n]
    BY <1>1, <2>8 DEF I
  <2> QED BY <2>4, <2>8, <2>9 DEF h
<1> QED BY <1>2, <1>3

\* The first k sequences, flattened.
Pre(seqs, k) == FlattenSeq(SubSeq(seqs, 1, k))

\* What comes before a sequence of a flattened one grows by one sequence at a time.
LEMMA PreSteps ==
    ASSUME NEW X, NEW seqs \in Seq(Seq(X))
    PROVE  /\ Pre(seqs, 0) = <<>>
           /\ Pre(seqs, Len(seqs)) = FlattenSeq(seqs)
           /\ \A k \in 0 .. Len(seqs) : Pre(seqs, k) \in Seq(X)
           /\ \A k \in 0 .. Len(seqs) - 1 : Pre(seqs, k + 1) = Pre(seqs, k) \o seqs[k + 1]
<1> DEFINE n == Len(seqs)
<1>1. n \in Nat
  OBVIOUS
<1>2. PICK f : Gathers(f, seqs, X)
  BY GathersExist
<1>3. ASSUME NEW k \in 0 .. n PROVE Pre(seqs, k) = f[k] /\ f[k] \in Seq(X)
  <2> DEFINE s == SubSeq(seqs, 1, k)
             h == [i \in 0 .. k |-> f[i]]
  <2>1. s \in Seq(Seq(X)) /\ Len(s) = k /\ \A i \in 1 .. k : s[i] = seqs[i]
    OBVIOUS
  <2> HIDE DEF s
  <2>2. f \in [0 .. n -> Seq(X)] /\ f[0] = <<>>
    BY <1>2 DEF Gathers
  <2>3. k \in 0 .. k /\ 0 \in 0 .. k /\ \A i \in 0 .. k : i \in 0 .. n
    BY <1>1
  <2>4. h \in [0 .. k -> Seq(X)] /\ h[0] = <<>> /\ h[k] = f[k] /\ f[k] \in Seq(X)
    BY <2>3, <2>2
  <2>5. ASSUME NEW i \in 0 .. k - 1 PROVE h[i + 1] = h[i] \o s[i + 1]
    <3>1. i \in 0 .. n - 1 /\ i \in 0 .. k /\ i + 1 \in 0 .. k /\ i + 1 \in 1 .. k
      BY <1>1
    <3> QED BY <1>2, <2>1, <3>1 DEF Gathers
  <2> HIDE DEF h
  <2>6. Gathers(h, s, X)
    BY <2>1, <2>4, <2>5 DEF Gathers
  <2>7. FlattenSeq(s) = h[k]
    BY <2>1, <2>6, FlattenIs
  <2> QED BY <2>4, <2>7 DEF Pre, s
<1>4. f[0] = <<>> /\ FlattenSeq(seqs) = f[n] /\ \A k \in 0 .. n - 1 : f[k + 1] = f[k] \o seqs[k + 1]
  BY <1>2, FlattenIs DEF Gathers
<1>5. 0 \in 0 .. n /\ n \in 0 .. n
  BY <1>1
<1>6. ASSUME NEW k \in 0 .. n - 1 PROVE Pre(seqs, k + 1) = Pre(seqs, k) \o seqs[k + 1]
  <2>1. k \in 0 .. n /\ k + 1 \in 0 .. n
    BY <1>1
  <2> QED BY <1>3, <1>4, <2>1
<1> QED BY <1>3, <1>4, <1>5, <1>6

\* Where the i-th of the sequences is in what they are flattened to.
LEMMA FlattenAt ==
    ASSUME NEW X, NEW seqs \in Seq(Seq(X)), NEW i \in 1 .. Len(seqs)
    PROVE  /\ FlattenSeq(seqs) \in Seq(X)
           /\ Pre(seqs, i - 1) \in Seq(X)
           /\ Len(Pre(seqs, i - 1)) + Len(seqs[i]) <= Len(FlattenSeq(seqs))
           /\ \A j \in 1 .. Len(seqs[i]) : FlattenSeq(seqs)[Len(Pre(seqs, i - 1)) + j] = seqs[i][j]
<1> DEFINE n == Len(seqs)
           p == Pre(seqs, i - 1)
           s == seqs[i]
           Holds(q) == Len(p) + Len(s) <= Len(q) /\ \A j \in 1 .. Len(s) : q[Len(p) + j] = s[j]
           I == {k \in Nat : i + k <= n => Holds(Pre(seqs, i + k))}
<1>1. n \in Nat /\ n \in 0 .. n /\ i \in Nat /\ i - 1 \in 0 .. n - 1 /\ i - 1 \in 0 .. n /\ i - 1 + 1 = i
  OBVIOUS
<1>2. p \in Seq(X) /\ s \in Seq(X) /\ Len(p) \in Nat /\ Len(s) \in Nat
  <2>1. p \in Seq(X)
    BY <1>1, PreSteps
  <2> HIDE DEF p
  <2> QED BY <2>1
<1>3. \A k \in 0 .. n : Pre(seqs, k) \in Seq(X)
  BY PreSteps
<1>4. 0 \in I
  <2>1. Pre(seqs, i) = p \o s
    BY <1>1, PreSteps
  <2> HIDE DEF p, s
  <2>2. Len(p \o s) = Len(p) + Len(s) /\ \A j \in 1 .. Len(s) : (p \o s)[Len(p) + j] = s[j]
    BY <1>2
  <2>3. Holds(Pre(seqs, i + 0))
    BY <1>1, <1>2, <2>1, <2>2
  <2> QED BY <2>3
<1>5. ASSUME NEW k \in Nat, k \in I PROVE k + 1 \in I
  <2> HIDE DEF Holds
  <2> SUFFICES ASSUME i + (k + 1) <= n PROVE Holds(Pre(seqs, i + (k + 1)))
    OBVIOUS
  <2> DEFINE q == Pre(seqs, i + k)  t == seqs[i + k + 1]
  <2>1. i + k \in 0 .. n - 1 /\ i + k \in 0 .. n /\ i + k <= n /\ i + k + 1 \in 1 .. n
        /\ i + (k + 1) = i + k + 1
    BY <1>1
  <2>2. Holds(q)
    BY <1>5, <2>1
  <2>3. Pre(seqs, i + k + 1) = q \o t
    BY <2>1, PreSteps
  <2>4. q \in Seq(X) /\ t \in Seq(X)
    BY <1>3, <2>1
  <2> HIDE DEF q, t, p, s
  <2>5. Len(q \o t) >= Len(q) /\ \A j \in 1 .. Len(q) : (q \o t)[j] = q[j]
    BY <2>4
  <2>6. \A j \in 1 .. Len(s) : Len(p) + j \in 1 .. Len(q)
    BY <1>2, <2>2, <2>4 DEF Holds
  <2>7. Holds(q \o t)
    BY <1>2, <2>2, <2>4, <2>5, <2>6 DEF Holds
  <2> QED BY <2>1, <2>3, <2>7
<1> HIDE DEF I
<1>6. Nat \subseteq I
  BY <1>4, <1>5, NatInd
<1>7. n - i \in Nat /\ i + (n - i) = n
  BY <1>1
<1>8. Holds(Pre(seqs, n))
  <2> HIDE DEF Holds
  <2>1. n - i \in I /\ i + (n - i) <= n
    BY <1>6, <1>7
  <2> QED BY <1>7, <2>1 DEF I
<1>9. Pre(seqs, n) = FlattenSeq(seqs) /\ Pre(seqs, n) \in Seq(X)
  BY <1>1, <1>3, PreSteps
<1> QED BY <1>2, <1>8, <1>9

\* The cells of two sequences that follow one another.
LEMMA Cat ==
    ASSUME NEW X, NEW a \in Seq(X), NEW b \in Seq(X)
    PROVE  /\ a \o b \in Seq(X)
           /\ Len(a \o b) = Len(a) + Len(b) /\ Len(a) \in Nat /\ Len(b) \in Nat
           /\ \A j \in 1 .. Len(a) : (a \o b)[j] = a[j]
           /\ \A j \in 1 .. Len(b) : (a \o b)[Len(a) + j] = b[j]
  OBVIOUS

\* Each of them is where it was put.
LEMMA CatParts ==
    ASSUME NEW X, NEW a \in Seq(X), NEW b \in Seq(X)
    PROVE  /\ SubSeq(a \o b, 1, Len(a)) = a
           /\ SubSeq(a \o b, Len(a) + 1, Len(a) + Len(b)) = b
<1> DEFINE s == a \o b  p == SubSeq(s, 1, Len(a))  q == SubSeq(s, Len(a) + 1, Len(a) + Len(b))
<1>1. /\ s \in Seq(X) /\ Len(s) = Len(a) + Len(b) /\ Len(a) \in Nat /\ Len(b) \in Nat
      /\ \A j \in 1 .. Len(a) : s[j] = a[j]
      /\ \A j \in 1 .. Len(b) : s[Len(a) + j] = b[j]
  BY Cat
<1> HIDE DEF s
<1>2. p \in Seq(X) /\ Len(p) = Len(a) /\ \A j \in 1 .. Len(a) : p[j] = a[j]
  BY <1>1
<1>3. q \in Seq(X) /\ Len(q) = Len(b) /\ \A j \in 1 .. Len(b) : q[j] = b[j]
  BY <1>1
<1> HIDE DEF p, q
<1>4. p = a
  BY <1>2, SeqEqual
<1>5. q = b
  BY <1>3, SeqEqual
<1> QED BY <1>4, <1>5 DEF p, q, s

\* A part of a sequence.
LEMMA Part ==
    ASSUME NEW X, NEW s \in Seq(X), NEW m \in Nat, NEW l \in Nat, m + l <= Len(s)
    PROVE  /\ SubSeq(s, m + 1, m + l) \in Seq(X) /\ Len(SubSeq(s, m + 1, m + l)) = l
           /\ \A j \in 1 .. l : SubSeq(s, m + 1, m + l)[j] = s[m + j]
OBVIOUS

\* Three sequences of two elements each.
LEMMA SixParts ==
    ASSUME NEW X, NEW a \in Seq(X), NEW w \in Seq(X), NEW b \in Seq(X), Len(a) = 2, Len(w) = 2, Len(b) = 2,
           NEW type, a[1] = type, NEW c, w[1] = c, NEW d, w[2] = d
    PROVE  /\ a \o w \o b \in Seq(X) /\ Len(a \o w \o b) = 6
           /\ (a \o w \o b)[1] = type /\ (a \o w \o b)[3] = c /\ (a \o w \o b)[4] = d
<1> DEFINE p == a \o w  h == p \o b
<1>1. /\ p \in Seq(X) /\ Len(p) = Len(a) + Len(w)
      /\ \A j \in 1 .. Len(a) : p[j] = a[j]
      /\ \A j \in 1 .. Len(w) : p[Len(a) + j] = w[j]
  BY ONLY a \in Seq(X), w \in Seq(X), Cat
<1> HIDE DEF p
<1>2. p \in Seq(X)
  BY <1>1
<1>3. /\ p \o b \in Seq(X) /\ Len(p \o b) = Len(p) + Len(b)
      /\ \A j \in 1 .. Len(p) : (p \o b)[j] = p[j]
  BY ONLY <1>2, b \in Seq(X)
<1> HIDE DEF h
<1>4. Len(p) = 4 /\ h \in Seq(X) /\ Len(h) = 6 /\ \A j \in 1 .. 4 : h[j] = p[j]
  BY <1>1, <1>3 DEF h
<1>5. p[1] = a[1] /\ p[2 + 1] = w[1] /\ p[2 + 2] = w[2]
  BY <1>1
<1>6. h[1] = type /\ h[3] = c /\ h[4] = d
  BY <1>4, <1>5
<1> QED BY <1>4, <1>6 DEF h, p

-----------------------------------------------------------------------------
(* LeaseBody: lists and endpoint, and the frames around them.              *)

\* A uint32 is two units.
LEMMA Uint32Cells == ASSUME NEW n \in Nat PROVE Uint32(n) \in Cells /\ Len(Uint32(n)) = 2
<1>1. n % 65536 \in Nat /\ (n \div 65536) % 65536 \in Nat
  OBVIOUS
<1> QED BY <1>1 DEF Uint32, Cells, Cell

\* A number that its 32 bits hold is read back.
LEMMA Uint32Back ==
    ASSUME NEW n \in Nat, IsUint32(n)
    PROVE  Uint32(n)[1] + 65536 * Uint32(n)[2] = n
<1> DEFINE w == 65536  q == n \div w  r == n % w
<1>1. w \in Nat \ {0}
  BY SMT
<1>2. n = r + w * q
  BY SMT
<1>3. q \in 0 .. w - 1
  <2>1. q \in Nat
    BY SMT
  <2>2. q < w
    BY SMT DEF IsUint32
  <2> HIDE DEF w, q
  <2> QED BY ONLY <1>1, <2>1, <2>2
<1>4. Uint32(n)[1] = r /\ Uint32(n)[2] = q % w
  BY SMT DEF Uint32
<1> HIDE DEF w, q, r
<1>5. q % w = q
  BY ONLY <1>1, <1>3, SmallMod
<1>6. Uint32(n)[1] + w * Uint32(n)[2] = n
  BY ONLY <1>2, <1>4, <1>5
<1> QED BY ONLY <1>6, SMT DEF w

\* marshalWithSize makes cells of cells.
LEMMA WithSizeCells == ASSUME NEW u \in Cells PROVE WithSize(u) \in Cells
<1>1. 2 * Len(u) \in Nat
  BY DEF Cells
<1> QED BY <1>1, Uint32Cells DEF WithSize, Cells

\* marshalRelationshipList makes cells.
LEMMA RelationshipsCells ==
    ASSUME NEW appId \in Cells, NEW names \in Seq(Cells)
    PROVE  Relationships(appId, names) \in Cells
<1> DEFINE e == [i \in DOMAIN names |-> WithSize(appId) \o WithSize(names[i])]
<1>1. e \in Seq(Cells)
  <2>1. ASSUME NEW i \in DOMAIN names PROVE WithSize(appId) \o WithSize(names[i]) \in Cells
    <3>1. names[i] \in Cells
      BY <2>1
    <3>2. WithSize(appId) \in Cells /\ WithSize(names[i]) \in Cells
      BY <3>1, WithSizeCells
    <3> QED BY <3>2 DEF Cells
  <2> HIDE DEF Cells
  <2>2. DOMAIN names = 1 .. Len(names) /\ Len(names) \in Nat
    OBVIOUS
  <2> QED BY <2>1, <2>2
<1> HIDE DEF e
<1>2. FlattenSeq(e) \in Cells
  <2>1. Len(e) \in 0 .. Len(e)
    BY <1>1
  <2>2. Pre(e, Len(e)) = FlattenSeq(e) /\ Pre(e, Len(e)) \in Seq(Cell)
    BY <1>1, <2>1, PreSteps DEF Cells
  <2> QED BY <2>2 DEF Cells
<1>3. Uint32(Len(names)) \in Cells
  BY Uint32Cells
<1>4. Uint32(Len(names)) \o FlattenSeq(e) \in Cells
  BY <1>2, <1>3 DEF Cells
<1> QED BY <1>4, WithSizeCells DEF Relationships, e

\* The lists and then the endpoint are encoded as cells.
LEMMA EncodedCells ==
    ASSUME NEW m, IsMessage(m)
    PROVE  /\ Encoded(m) \in Seq(Cells) /\ Len(Encoded(m)) = Len(m.lists) + 1
           /\ Encoded(m)[Len(m.lists) + 1] = Endpoint(m.address, m.port)
<1> USE LeaseAssumption
<1> DEFINE ls == [i \in DOMAIN m.lists |-> Relationships(m.appId, m.lists[i])]
           n == Len(m.lists)
           ep == Endpoint(m.address, m.port)
<1>1. n \in Nat /\ DOMAIN m.lists = 1 .. n /\ \A i \in 1 .. n : m.lists[i] \in Seq(Cells)
  BY DEF IsMessage
<1>2. \A i \in 1 .. n : Relationships(m.appId, m.lists[i]) \in Cells
  BY <1>1, RelationshipsCells DEF IsMessage
<1>3. ep \in Cells
  BY DEF IsMessage, Endpoint, Cells, Cell
<1> HIDE DEF n, ep
<1>4. ls \in Seq(Cells) /\ Len(ls) = n
  BY <1>1, <1>2
<1> HIDE DEF ls, Cells
<1>5. Encoded(m) = ls \o <<ep>>
  BY DEF Encoded, ls, ep
<1> QED BY <1>1, <1>3, <1>4, <1>5 DEF n, ep

-----------------------------------------------------------------------------

\* Cells that follow one another.
LEMMA CatCells ==
    ASSUME NEW a \in Cells, NEW b \in Cells
    PROVE  /\ a \o b \in Cells
           /\ Len(a \o b) = Len(a) + Len(b) /\ Len(a) \in Nat /\ Len(b) \in Nat
           /\ \A j \in 1 .. Len(a) : (a \o b)[j] = a[j]
           /\ \A j \in 1 .. Len(b) : (a \o b)[Len(a) + j] = b[j]
           /\ SubSeq(a \o b, 1, Len(a)) = a
           /\ SubSeq(a \o b, Len(a) + 1, Len(a) + Len(b)) = b
BY Cat, CatParts DEF Cells

\* It does not matter which of three are joined first.
LEMMA CatAssociates ==
    ASSUME NEW a \in Cells, NEW b \in Cells, NEW c \in Cells
    PROVE  (a \o b) \o c = a \o (b \o c)
BY ConcatAssociative DEF Cells

\* So does that of four.
LEMMA CatFour ==
    ASSUME NEW a \in Cells, NEW b \in Cells, NEW c \in Cells, NEW d \in Cells
    PROVE  a \o (b \o c) \o d = (a \o b) \o (c \o d)
<1> DEFINE p == b \o c  q == c \o d
<1>1. p \in Cells
  BY CatCells
<1>2. q \in Cells
  BY CatCells
<1>3. p \o d = b \o q
  BY CatAssociates, SMTT(60)
<1> HIDE DEF p, q
<1>4. (a \o p) \o d = a \o (p \o d)
  BY ONLY <1>1, a \in Cells, d \in Cells, CatAssociates, SMTT(60)
<1>5. (a \o b) \o q = a \o (b \o q)
  BY ONLY <1>2, a \in Cells, b \in Cells, CatAssociates, SMTT(60)
<1> QED BY ONLY <1>3, <1>4, <1>5 DEF p, q

\* Two cells.
LEMMA PairCells ==
    ASSUME NEW a \in Nat, NEW b \in Nat
    PROVE  <<a, b>> \in Cells /\ Len(<<a, b>>) = 2 /\ <<a, b>>[1] = a /\ <<a, b>>[2] = b
BY DEF Cells, Cell

\* The header of a frame.
LEMMA HeaderIs ==
    ASSUME NEW type \in Nat, NEW size \in Nat
    PROVE  /\ FrameHeader(type, size) \in Cells /\ Len(FrameHeader(type, size)) = 6
           /\ FrameHeader(type, size)[1] = type
           /\ FrameHeader(type, size)[3] = Uint32(size)[1] /\ FrameHeader(type, size)[4] = Uint32(size)[2]
<1> DEFINE a == <<type, 0>>  w == Uint32(size)  b == <<0, 0>> c == w[1] d == w[2]
<1>1. size % 65536 \in Nat /\ (size \div 65536) % 65536 \in Nat
  OBVIOUS
<1>2. w \in Cells /\ Len(w) = 2
  BY <1>1, PairCells DEF Uint32
<1>3. a \in Cells /\ b \in Cells /\ Len(a) = 2 /\ Len(b) = 2 /\ a[1] = type
  BY PairCells
<1>4. FrameHeader(type, size) = a \o w \o b
  BY DEF FrameHeader
<1>5. w[1] = c /\ w[2] = d
  OBVIOUS
<1> HIDE DEF a, w, b, c, d
<1>6. a \in Seq(Cell) /\ w \in Seq(Cell) /\ b \in Seq(Cell)
  BY <1>2, <1>3 DEF Cells
<1>7. /\ a \o w \o b \in Seq(Cell) /\ Len(a \o w \o b) = 6
           /\ (a \o w \o b)[1] = type /\ (a \o w \o b)[3] = c /\ (a \o w \o b)[4] = d
  BY ONLY <1>2, <1>3, <1>6, <1>5, SixParts
<1> QED BY <1>4, <1>7, <1>5 DEF Cells, w

\* Connect frames that follow one another.
LEMMA ConnectFrames ==
    ASSUME NEW c \in Nat
    PROVE  LET s == FlattenSeq([i \in 1 .. c |-> writeConnectFrame])
           IN  s \in Cells /\ Len(s) = 6 * c /\ \A j \in 0 .. c - 1 : s[6 * j + 1] = Connect
<1> DEFINE fs == [i \in 1 .. c |-> writeConnectFrame]
           s == FlattenSeq(fs)
<1>1. writeConnectFrame \in Cells /\ Len(writeConnectFrame) = 6 /\ writeConnectFrame[1] = Connect
  <2>1. 12 \in Nat /\ Connect \in Nat
    BY DEF Connect
  <2> QED BY <2>1, HeaderIs DEF writeConnectFrame, sizeOfLtFrameheader
<1>2. fs \in Seq(Cells) /\ Len(fs) = c /\ \A i \in 1 .. c : fs[i] = writeConnectFrame
  BY <1>1
<1> HIDE DEF fs
<1>3. /\ Pre(fs, 0) = <<>> /\ Pre(fs, c) = s
      /\ \A k \in 0 .. c : Pre(fs, k) \in Cells
      /\ \A k \in 0 .. c - 1 : Pre(fs, k + 1) = Pre(fs, k) \o fs[k + 1]
  BY <1>2, PreSteps DEF Cells
<1> DEFINE I == {k \in Nat : k <= c => Len(Pre(fs, k)) = 6 * k}
<1>4. 0 \in I
  BY <1>3
<1>5. ASSUME NEW k \in Nat, k \in I PROVE k + 1 \in I
  <2> SUFFICES ASSUME k + 1 <= c PROVE Len(Pre(fs, k + 1)) = 6 * (k + 1)
    OBVIOUS
  <2> DEFINE p == Pre(fs, k)
  <2>1. k \in 0 .. c /\ k \in 0 .. c - 1 /\ k <= c /\ k + 1 \in 1 .. c
    OBVIOUS
  <2>2. p \in Cells /\ Len(p) = 6 * k /\ Pre(fs, k + 1) = p \o writeConnectFrame
    BY <1>2, <1>3, <1>5, <2>1
  <2> HIDE DEF p
  <2> DEFINE w == writeConnectFrame
  <2>3. w \in Cells /\ Len(w) = 6
    BY <1>1
  <2> HIDE DEF w
  <2>4. p \in Cells
    BY <2>2
  <2>5. Len(p \o w) = Len(p) + Len(w)
    BY ONLY <2>3, <2>4, CatCells
  <2>6. Len(p \o w) = Len(p) + 6
    BY <2>3, <2>5
  <2>7. Len(p \o writeConnectFrame) = Len(p) + 6
    BY <2>6 DEF w
  <2> QED BY <2>2, <2>7
<1> HIDE DEF I
<1>6. Nat \subseteq I
  BY <1>4, <1>5, NatInd
<1>7. \A k \in 0 .. c : Len(Pre(fs, k)) = 6 * k
  BY <1>6 DEF I
<1>8. c \in 0 .. c
  OBVIOUS
<1>9. ASSUME NEW j \in 0 .. c - 1 PROVE s[6 * j + 1] = Connect
  <2>1. j + 1 \in 1 .. Len(fs) /\ j + 1 - 1 = j /\ j \in 0 .. c /\ fs[j + 1] = writeConnectFrame /\ 1 \in 1 .. 6
    BY <1>2
  <2> DEFINE i == j + 1
  <2>2. fs \in Seq(Seq(Cell)) /\ i \in 1 .. Len(fs) /\ Len(fs[i]) = 6
    BY <1>1, <1>2, <2>1 DEF Cells
  <2> HIDE DEF i, fs
  <2>3. \A k \in 1 .. Len(fs[i]) : FlattenSeq(fs)[Len(Pre(fs, i - 1)) + k] = fs[i][k]
    <3>1. fs \in Seq(Seq(Cell))
      BY ONLY <2>2
    <3>2. i \in 1 .. Len(fs)
      BY ONLY <2>2
    <3> QED BY ONLY <3>1, <3>2, FlattenAt
  <2>4. FlattenSeq(fs)[Len(Pre(fs, i - 1)) + 1] = fs[i][1]
    BY <2>1, <2>2, <2>3
  <2>5. i - 1 = j /\ fs[i][1] = Connect /\ Len(Pre(fs, j)) = 6 * j
    BY <1>1, <1>7, <2>1 DEF i
  <2> QED BY <2>4, <2>5
<1> QED BY <1>3, <1>7, <1>8, <1>9 DEF fs

\* The frame that follows connect frames is found.
LEMMA FrameBack ==
    ASSUME NEW c \in Nat, NEW u \in Cells, NEW t \in Cells,
           IsUint32(sizeOfLtFrameheader + 2 * Len(u))
    PROVE  nextLtFrame(FlattenSeq([i \in 1 .. c |-> writeConnectFrame]) \o writeDataWithFrame(u) \o t) = u
<1> DEFINE cs == FlattenSeq([i \in 1 .. c |-> writeConnectFrame])
           z == sizeOfLtFrameheader + 2 * Len(u)
           h == FrameHeader(Message, z)
           s == cs \o writeDataWithFrame(u) \o t
<1>1. cs \in Cells /\ Len(cs) = 6 * c /\ \A j \in 0 .. c - 1 : cs[6 * j + 1] = Connect
  BY ConnectFrames
<1>2. z \in Nat /\ IsUint32(z) /\ z = 12 + 2 * Len(u) /\ Len(u) \in Nat
  BY DEF sizeOfLtFrameheader, Cells
<1> HIDE DEF z
<1>3. h \in Cells /\ Len(h) = 6 /\ h[1] = Message /\ h[3] + 65536 * h[4] = z
  <2>1. Message \in Nat
    BY DEF Message
  <2>2. Uint32(z)[1] + 65536 * Uint32(z)[2] = z
    BY <1>2, Uint32Back
  <2>3. h \in Cells /\ Len(h) = 6 /\ h[1] = Message /\ h[3] = Uint32(z)[1] /\ h[4] = Uint32(z)[2]
    BY <1>2, <2>1, HeaderIs
  <2> QED BY <2>2, <2>3
<1>4. s = cs \o (h \o u) \o t
  BY DEF writeDataWithFrame, z
<1> HIDE DEF cs, h, s
<1> DEFINE ch == cs \o h  ut == u \o t
<1>5. /\ ch \in Cells /\ Len(ch) = 6 * c + 6
      /\ \A j \in 1 .. 6 * c : ch[j] = cs[j]
      /\ \A j \in 1 .. 6 : ch[6 * c + j] = h[j]
  <2>1. cs \in Cells /\ h \in Cells
    BY <1>1, <1>3
  <2>2. /\ ch \in Cells /\ Len(ch) = Len(cs) + Len(h)
        /\ \A j \in 1 .. Len(cs) : ch[j] = cs[j]
        /\ \A j \in 1 .. Len(h) : ch[Len(cs) + j] = h[j]
    BY ONLY <2>1, CatCells
  <2> HIDE DEF ch
  <2>3. Len(cs) = 6 * c /\ Len(h) = 6
    BY <1>1, <1>3
  <2> QED BY <2>2, <2>3
<1>6. ut \in Cells /\ Len(ut) = Len(u) + Len(t) /\ Len(t) \in Nat /\ SubSeq(ut, 1, Len(u)) = u
  BY ONLY u \in Cells, t \in Cells, CatCells
<1>7. s = ch \o ut
  <2>1. cs \in Cells
    BY <1>1
  <2>2. h \in Cells
    BY <1>3
  <2> HIDE DEF ch, ut
  <2>3. cs \o (h \o u) \o t = (cs \o h) \o (u \o t)
    BY ONLY <2>1, <2>2, u \in Cells, t \in Cells, CatFour, SMTT(60)
  <2> QED BY ONLY <1>4, <2>3 DEF ch, ut
<1> HIDE DEF ch, ut
<1>8. /\ s \in Cells /\ Len(s) = 6 * c + 6 + Len(u) + Len(t) /\ Len(t) \in Nat
      /\ \A j \in 1 .. 6 * c : s[j] = cs[j]
      /\ \A j \in 1 .. 6 : s[6 * c + j] = h[j]
  <2>1. /\ s \in Cells /\ Len(s) = Len(ch) + Len(ut)
        /\ \A j \in 1 .. Len(ch) : s[j] = ch[j]
    <3>1. ch \in Cells /\ ut \in Cells
      BY <1>5, <1>6
    <3> QED BY ONLY <3>1, <1>7, CatCells
  <2>2. \A j \in 1 .. 6 * c : j \in 1 .. Len(ch)
    BY <1>5
  <2>3. \A j \in 1 .. 6 : 6 * c + j \in 1 .. Len(ch)
    BY <1>5
  <2>4. \A j \in 1 .. 6 * c : s[j] = cs[j]
    BY <1>5, <2>1, <2>2
  <2>5. \A j \in 1 .. 6 : s[6 * c + j] = h[j]
    BY <1>5, <2>1, <2>3
  <2> QED BY <1>2, <1>5, <1>6, <2>1, <2>4, <2>5
<1>9. IsFrame(s, c, Message) /\ ~ IsFrame(s, c, Connect)
  <2>1. s[6 * c + 1] = Message /\ 6 * c + 6 <= Len(s) /\ Message # Connect
    BY <1>2, <1>3, <1>8 DEF Message, Connect
  <2> QED BY <2>1 DEF IsFrame, HasHeader
<1>10. ASSUME NEW j \in 0 .. c - 1 PROVE IsFrame(s, j, Connect)
  <2>1. 6 * j + 1 \in 1 .. 6 * c /\ 6 * j + 6 <= Len(s)
    BY <1>2, <1>8
  <2> QED BY <1>1, <1>8, <2>1 DEF IsFrame, HasHeader
<1>11. LeadingConnects(s) = c
  <2> DEFINE First(k) == ~ IsFrame(s, k, Connect) /\ \A j \in 0 .. k - 1 : IsFrame(s, j, Connect)
             k == LeadingConnects(s)
  <2>1. c \in 0 .. Len(s) /\ First(c)
    BY <1>2, <1>8, <1>9, <1>10
  <2>2. k = CHOOSE n \in 0 .. Len(s) : First(n)
    BY DEF LeadingConnects
  <2> HIDE DEF First, k
  <2>3. k \in 0 .. Len(s) /\ First(k)
    BY <2>1, <2>2
  <2>4. ~ (k < c) /\ ~ (c < k)
    BY <1>9, <1>10, <2>1, <2>3 DEF First
  <2> QED BY <2>3, <2>4 DEF k
<1>12. (s[6 * c + 3] + 65536 * s[6 * c + 4]) - sizeOfLtFrameheader = 2 * Len(u)
  <2>1. 3 \in 1 .. 6 /\ 4 \in 1 .. 6
    OBVIOUS
  <2> DEFINE y == s[6 * c + 3] + 65536 * s[6 * c + 4]
  <2>2. y = z
    BY <1>3, <1>8, <2>1
  <2> HIDE DEF y
  <2>3. y - sizeOfLtFrameheader = 2 * Len(u)
    BY <1>2, <2>2 DEF sizeOfLtFrameheader
  <2> QED BY <2>3 DEF y
<1> DEFINE rest == SubSeq(s, 6 * c + 7, Len(s))
<1>13. rest = ut
  <2>1. SubSeq(s, Len(ch) + 1, Len(ch) + Len(ut)) = ut
    BY <1>5, <1>6, <1>7, CatCells
  <2>2. Len(ch) + 1 = 6 * c + 7 /\ Len(ch) + Len(ut) = Len(s)
    BY <1>2, <1>8, <1>5, <1>6
  <2> QED BY <2>1, <2>2
<1> HIDE DEF rest
<1>14. SubSeq(rest, 1, Len(u)) = u /\ Len(u) <= Len(rest)
  BY <1>2, <1>13, <1>6
<1>15. (2 * Len(u)) \div 2 = Len(u)
  BY <1>2
<1>16. nextLtFrame(s) = u
  BY <1>9, <1>11, <1>12, <1>14, <1>15 DEF nextLtFrame, rest
<1> QED BY <1>16 DEF s, cs

\* What precedes the address's end, the address, and the port, in an endpoint.
LEMMA EndpointParts ==
    ASSUME NEW address \in Cells, NEW port \in Nat
    PROVE  LET d == Endpoint(address, port)
               s == SubSeq(d, 1, Len(d) - 2)
           IN  d \in Cells /\ d # <<>> /\ Last(s) = 0 /\ Front(s) = address /\ d[Len(d)] = port
<1> USE LeaseAssumption
<1> DEFINE b == <<0, AF_INET, port>>
           d == address \o b
           s == SubSeq(d, 1, Len(d) - 2)
           n == Len(address)
<1>1. b \in Cells /\ Len(b) = 3 /\ b[1] = 0 /\ b[3] = port
  BY DEF Cells, Cell
<1> HIDE DEF b
<1>2. d \in Cells /\ Len(d) = Len(address) + Len(b) /\ (\A j \in 1 .. Len(address) : d[j] = address[j])
      /\ (\A j \in 1 .. Len(b) : d[Len(address) + j] = b[j]) /\ Len(address) \in Nat
  BY ONLY <1>1, address \in Cells, CatCells
<1> HIDE DEF d
<1>3. 1 \in 1 .. Len(b) /\ 3 \in 1 .. Len(b)
  BY <1>1
<1>4. n \in Nat /\ Len(d) = n + 3 /\ (\A j \in 1 .. n : d[j] = address[j]) /\ d[n + 1] = 0 /\ d[n + 3] = port
  BY <1>1, <1>2, <1>3
<1>5. s = SubSeq(d, 1, n + 1)
  BY <1>4
<1> HIDE DEF s, n
<1>6. s \in Seq(Cell) /\ Len(s) = n + 1 /\ \A j \in 1 .. n + 1 : s[j] = d[j]
  BY <1>2, <1>4, <1>5 DEF Cells
<1>7. Last(s) = 0
  BY <1>4, <1>6 DEF Last
<1>8. Front(s) = address
  <2>1. Front(s) = SubSeq(s, 1, n)
    BY <1>4, <1>6 DEF Front
  <2> DEFINE f == SubSeq(s, 1, n)
  <2>2. f \in Seq(Cell) /\ Len(f) = n /\ \A j \in 1 .. n : f[j] = s[j]
    BY <1>4, <1>6
  <2> HIDE DEF f
  <2>3. \A j \in 1 .. n : f[j] = address[j]
    BY <1>4, <1>6, <2>2
  <2>4. address \in Seq(Cell) /\ Len(address) = n
    BY DEF Cells, n
  <2>5. f = address
    BY <2>2, <2>3, <2>4, SeqEqual
  <2> QED BY <2>1, <2>5 DEF f
<1>9. d # <<>>
  BY <1>4
<1> QED BY <1>2, <1>4, <1>7, <1>8, <1>9 DEF Endpoint, d, b, s

\* Where the data of a message has the units of its i-th part.
LEMMA DataParts ==
    ASSUME NEW m, IsMessage(m), NEW more \in Cells
    PROVE  LET e == Encoded(m)  data == MarshalLease(m, more).data
           IN  /\ data \in Cells
               /\ Len(data) = HeaderUnits + Len(FlattenSeq(e)) + Len(more)
               /\ \A i \in 1 .. Len(e) :
                      /\ Pre(e, i - 1) \in Cells
                      /\ Len(Pre(e, i - 1)) + Len(e[i]) <= Len(FlattenSeq(e))
                      /\ \A k \in 1 .. Len(e[i]) : data[HeaderUnits + Len(Pre(e, i - 1)) + k] = e[i][k]
<1> USE LeaseAssumption
<1> DEFINE e == Encoded(m)  zeros == [i \in 1 .. HeaderUnits |-> 0]  f == FlattenSeq(e)
           zf == zeros \o f
           data == zf \o more
<1>1. e \in Seq(Cells) /\ e \in Seq(Seq(Cell))
  BY EncodedCells DEF Cells
<1> HIDE DEF e
<1>2. zeros \in Cells /\ Len(zeros) = HeaderUnits /\ HeaderUnits \in Nat
  BY DEF Cells, Cell
<1>3. f \in Cells
  <2>1. Len(e) \in 0 .. Len(e)
    BY <1>1
  <2>2. Pre(e, Len(e)) = f /\ Pre(e, Len(e)) \in Seq(Cell)
    BY <1>1, <2>1, PreSteps
  <2> QED BY <2>2 DEF Cells
<1> HIDE DEF zeros, f
<1>4. zf \in Cells /\ Len(zf) = Len(zeros) + Len(f) /\ (\A j \in 1 .. Len(f) : zf[Len(zeros) + j] = f[j])
      /\ Len(f) \in Nat
  <2>1. zeros \in Cells
    BY <1>2
  <2> QED BY ONLY <1>3, <2>1, CatCells
<1> HIDE DEF zf
<1>5. data \in Cells /\ Len(data) = Len(zf) + Len(more) /\ \A j \in 1 .. Len(zf) : data[j] = zf[j]
  <2>1. zf \in Cells
    BY <1>4
  <2> QED BY ONLY more \in Cells, <2>1, CatCells
<1> HIDE DEF data
<1>6. Len(data) = HeaderUnits + Len(f) + Len(more)
  BY <1>2, <1>4, <1>5
<1>7. \A j \in 1 .. Len(f) : data[HeaderUnits + j] = f[j]
  <2> SUFFICES ASSUME NEW j \in 1 .. Len(f) PROVE data[HeaderUnits + j] = f[j]
    OBVIOUS
  <2>1. HeaderUnits + j \in 1 .. Len(zf)
    BY <1>2, <1>4
  <2> QED BY <1>2, <1>4, <1>5, <2>1
<1>8. ASSUME NEW i \in 1 .. Len(e)
      PROVE  /\ Pre(e, i - 1) \in Cells
             /\ Len(Pre(e, i - 1)) + Len(e[i]) <= Len(f)
             /\ \A k \in 1 .. Len(e[i]) : data[HeaderUnits + Len(Pre(e, i - 1)) + k] = e[i][k]
  <2> DEFINE p == Pre(e, i - 1)  u == e[i]
  <2>1. /\ p \in Seq(Cell) /\ Len(p) + Len(u) <= Len(f)
        /\ \A j \in 1 .. Len(u) : f[Len(p) + j] = u[j]
    BY <1>1, FlattenAt DEF f
  <2>2. u \in Seq(Cell)
    BY <1>1
  <2> HIDE DEF p, u
  <2>3. Len(p) \in Nat /\ Len(u) \in Nat
    BY <2>1, <2>2
  <2>4. ASSUME NEW k \in 1 .. Len(u) PROVE data[HeaderUnits + Len(p) + k] = u[k]
    <3>1. Len(p) + k \in 1 .. Len(f) /\ HeaderUnits + Len(p) + k = HeaderUnits + (Len(p) + k)
      BY <1>2, <1>4, <2>1, <2>3
    <3> QED BY <1>7, <2>1, <3>1
  <2> QED BY <2>1, <2>4 DEF p, u, Cells
<1>9. data = MarshalLease(m, more).data
  BY DEF data, zf, zeros, f, e, MarshalLease
<1> QED BY <1>5, <1>6, <1>8, <1>9 DEF f, e

\* Where the descriptors point.
LEMMA DescriptorIs ==
    ASSUME NEW m, IsMessage(m), NEW i \in 1 .. Len(Encoded(m))
    PROVE  LET e == Encoded(m)  desc == Descriptors(m)[i]
           IN  /\ desc.StartOffset = 2 * (HeaderUnits + Len(Pre(e, i - 1)))
               /\ desc.StartOffset \div 2 = HeaderUnits + Len(Pre(e, i - 1))
               /\ desc.Size = 2 * Len(e[i])
               /\ desc.Size \div 2 = Len(e[i])
<1> USE LeaseAssumption
<1> DEFINE e == Encoded(m)  x == Len(Pre(e, i - 1))  y == Len(e[i])  desc == Descriptors(m)[i]
<1>1. e \in Seq(Cells) /\ e \in Seq(Seq(Cell))
  BY EncodedCells DEF Cells
<1>2. x \in Nat /\ y \in Nat
  <2>1. i \in 1 .. Len(e)
    OBVIOUS
  <2> HIDE DEF e
  <2>2. Pre(e, i - 1) \in Seq(Cell)
    BY <1>1, <2>1, FlattenAt
  <2>3. e[i] \in Seq(Cell)
    BY <1>1, <2>1
  <2>4. Pre(e, i - 1) \in Seq(Cell) /\ e[i] \in Seq(Cell)
    BY <2>2, <2>3
  <2> QED BY <2>4
<1>3. desc = [StartOffset |-> FirstOffset + 2 * x, Size |-> 2 * y]
  <2>1. i \in DOMAIN e
    BY <1>1
  <2> QED BY <2>1 DEF Descriptors, Layout, Before, Pre
<1> HIDE DEF x, y, desc
<1>4. desc.StartOffset = 2 * HeaderUnits + 2 * x /\ desc.Size = 2 * y
  BY <1>3 DEF FirstOffset
<1>5. desc.StartOffset = 2 * (HeaderUnits + x) /\ desc.StartOffset \div 2 = HeaderUnits + x /\ desc.Size \div 2 = y
  BY <1>2, <1>4
<1> QED BY <1>4, <1>5 DEF x, y, desc

\* A lease message's lists and endpoint are read as they were written
\* (lease/serialize.go:126-269, lease/frame.go:26-49).
THEOREM EndpointRead ==
    ASSUME NEW m, IsMessage(m), NEW more \in Cells, NEW connects \in Nat
    PROVE  EndpointReadBack(m, more, connects)
<1> USE LeaseAssumption
<1> DEFINE msg  == MarshalLease(m, more)
           e    == Encoded(m)
           n    == Len(e)
           t    == writeDataWithFrame(<<0>>)
           data == nextLtFrame(FlattenSeq([i \in 1 .. connects |-> writeConnectFrame])
                      \o writeDataWithFrame(msg.data) \o t)
<1> SUFFICES ASSUME IsUint32(sizeOfLtFrameheader + 2 * Len(msg.data))
             PROVE  /\ Len(data) = Len(msg.data)
                    /\ \A i \in DOMAIN msg.header : \A k \in 1 .. msg.header[i].Size \div 2 :
                           data[msg.header[i].StartOffset \div 2 + k] = e[i][k]
                    /\ UnmarshalLease([header |-> msg.header, data |-> data]) =
                           IF more = <<>> THEN NoMessage ELSE [address |-> m.address, port |-> m.port]
  BY DEF EndpointReadBack
<1>1. /\ msg.data \in Cells
      /\ Len(msg.data) = HeaderUnits + Len(FlattenSeq(e)) + Len(more)
      /\ \A i \in 1 .. n :
             /\ Pre(e, i - 1) \in Cells
             /\ Len(Pre(e, i - 1)) + Len(e[i]) <= Len(FlattenSeq(e))
             /\ \A k \in 1 .. Len(e[i]) : msg.data[HeaderUnits + Len(Pre(e, i - 1)) + k] = e[i][k]
  BY DataParts
<1>2. data = msg.data
  <2>1. t \in Cells
    <3>1. sizeOfLtFrameheader + 2 * 1 \in Nat /\ Message \in Nat
      BY DEF sizeOfLtFrameheader, Message
    <3>2. <<0>> \in Cells /\ Len(<<0>>) = 1
      BY DEF Cells, Cell
    <3>3. FrameHeader(Message, sizeOfLtFrameheader + 2 * Len(<<0>>)) \in Cells
      BY <3>1, <3>2, HeaderIs
    <3> QED BY <3>2, <3>3, CatCells DEF writeDataWithFrame
  <2> DEFINE u == msg.data
  <2>2. u \in Cells /\ IsUint32(sizeOfLtFrameheader + 2 * Len(u))
    BY <1>1
  <2> HIDE DEF u, t
  <2>3. nextLtFrame(FlattenSeq([i \in 1 .. connects |-> writeConnectFrame]) \o writeDataWithFrame(u) \o t) = u
    BY <2>1, <2>2, FrameBack
  <2> QED BY <2>3 DEF u
<1>3. /\ e \in Seq(Cells) /\ n = Len(m.lists) + 1 /\ e[n] = Endpoint(m.address, m.port)
      /\ Len(m.lists) \in Nat
  BY EncodedCells DEF IsMessage
<1>4. /\ msg.header = Descriptors(m) /\ DOMAIN msg.header = 1 .. n /\ Len(msg.header) = n
      /\ n \in 1 .. n
  <2>1. DOMAIN e = 1 .. n /\ n \in Nat /\ n \in 1 .. n
    BY <1>3
  <2> HIDE DEF e, n
  <2>2. msg.header = Layout(e) /\ DOMAIN Layout(e) = 1 .. n
    BY <2>1 DEF MarshalLease, Descriptors, Layout, e
  <2>3. Len(Layout(e)) = n
    BY <2>1 DEF Layout
  <2> QED BY <2>1, <2>2, <2>3 DEF Descriptors, e
<1> HIDE DEF msg, e, n, data
<1>5. ASSUME NEW i \in 1 .. n
      PROVE  /\ msg.header[i].StartOffset = 2 * (HeaderUnits + Len(Pre(e, i - 1)))
             /\ msg.header[i].StartOffset \div 2 = HeaderUnits + Len(Pre(e, i - 1))
             /\ msg.header[i].Size = 2 * Len(e[i])
             /\ msg.header[i].Size \div 2 = Len(e[i])
  BY <1>4, DescriptorIs DEF n, e
<1>6. ASSUME NEW i \in DOMAIN msg.header, NEW k \in 1 .. msg.header[i].Size \div 2
      PROVE  data[msg.header[i].StartOffset \div 2 + k] = e[i][k]
  <2>1. i \in 1 .. n
    BY <1>4
  <2>2. k \in 1 .. Len(e[i]) /\ msg.header[i].StartOffset \div 2 = HeaderUnits + Len(Pre(e, i - 1))
    BY <1>5, <2>1
  <2>3. msg.data[HeaderUnits + Len(Pre(e, i - 1)) + k] = e[i][k]
    BY <1>1, <2>1, <2>2
  <2> QED BY <1>2, <2>2, <2>3
<1> DEFINE p  == Pre(e, n - 1)
           ep == e[n]
           f  == FlattenSeq(e)
           d  == dataAtList(data, Last(msg.header))
           from == HeaderUnits + Len(p)
<1>7. /\ Last(msg.header) = msg.header[n]
      /\ msg.header[n].StartOffset = 2 * from /\ msg.header[n].Size = 2 * Len(ep)
  BY <1>4, <1>5 DEF Last
<1>8. Len(f) = Len(p) + Len(ep) /\ p \in Cells /\ ep \in Cells
  <2>1. n - 1 \in 0 .. n - 1 /\ n - 1 + 1 = n
    BY <1>3
  <2>2. e \in Seq(Seq(Cell)) /\ n = Len(e)
    BY <1>3 DEF Cells, n
  <2>3. f = Pre(e, n) /\ Pre(e, n - 1 + 1) = p \o e[n - 1 + 1]
    BY <2>1, <2>2, PreSteps
  <2>4. p \in Cells /\ ep \in Cells
    <3>1. p \in Cells
      BY <1>1, <1>4
    <3>2. ep \in Cells
      BY <1>3, <1>4, <2>2
    <3> QED BY <3>1, <3>2
  <2>5. f = p \o ep
    BY <2>1, <2>3
  <2> HIDE DEF p, ep, f
  <2>6. Len(p \o ep) = Len(p) + Len(ep)
    BY ONLY <2>4, CatCells
  <2> QED BY <2>4, <2>5, <2>6
<1>9. /\ data \in Cells /\ Len(data) = from + Len(ep) + Len(more)
      /\ \A k \in 1 .. Len(ep) : data[from + k] = ep[k]
      /\ from \in Nat /\ Len(ep) \in Nat /\ Len(more) \in Nat /\ Len(ep) > 0 /\ ep # <<>>
  <2>1. data \in Cells /\ Len(data) = HeaderUnits + Len(f) + Len(more)
        /\ \A k \in 1 .. Len(ep) : data[from + k] = ep[k]
    BY <1>1, <1>2, <1>4
  <2>2. ep # <<>>
    BY <1>3, EndpointParts DEF IsMessage
  <2> HIDE DEF p, ep, f
  <2>3. Len(p) \in Nat /\ Len(ep) \in Nat /\ Len(more) \in Nat /\ Len(ep) # 0
    BY <1>8, <2>2 DEF Cells
  <2> QED BY <1>8, <2>1, <2>2, <2>3
<1> HIDE DEF p, ep, f, from
<1>10. CASE more = <<>>
  <2>1. Len(more) = 0
    BY <1>10
  <2>2. 2 * from + 2 * Len(ep) >= 2 * Len(data)
    BY <1>9, <2>1
  <2>3. d = <<>>
    BY <1>7, <2>2 DEF dataAtList
  <2> QED BY <1>2, <1>6, <1>10, <2>3 DEF UnmarshalLease
<1>11. CASE more # <<>>
  <2>1. Len(more) # 0
    BY <1>11 DEF Cells
  <2>2. ~ (2 * from >= 2 * Len(data)) /\ ~ (2 * from + 2 * Len(ep) >= 2 * Len(data))
    BY <1>9, <2>1
  <2>3. (2 * from) \div 2 = from /\ (2 * from + 2 * Len(ep)) \div 2 = from + Len(ep)
    <3> DEFINE z == from + Len(ep)
    <3>1. z \in Nat /\ 2 * from + 2 * Len(ep) = 2 * z /\ from \in Nat
      BY <1>9
    <3> HIDE DEF z
    <3> QED BY ONLY <3>1, Halved DEF z
  <2>4. d = SubSeq(data, from + 1, from + Len(ep))
    BY <1>7, <2>2, <2>3 DEF dataAtList
  <2>5. d \in Seq(Cell) /\ Len(d) = Len(ep) /\ \A k \in 1 .. Len(ep) : d[k] = data[from + k]
    BY <1>9, <2>1, <2>4 DEF Cells
  <2> HIDE DEF d
  <2>6. ep \in Seq(Cell) /\ \A k \in 1 .. Len(ep) : d[k] = ep[k]
    BY <1>8, <1>9, <2>5 DEF Cells
  <2>7. d = ep
    BY <2>5, <2>6, SeqEqual
  <2>8. d = Endpoint(m.address, m.port) /\ m.address \in Cells /\ m.port \in Nat
    BY <1>3, <2>7 DEF ep, IsMessage
  <2> DEFINE s == SubSeq(d, 1, Len(d) - 2)
  <2>9. d # <<>> /\ Last(s) = 0 /\ Front(s) = m.address /\ d[Len(d)] = m.port
    BY <2>8, EndpointParts
  <2>10. UnmarshalLease([header |-> msg.header, data |-> data]) = [address |-> m.address, port |-> m.port]
    BY <2>9 DEF UnmarshalLease, d
  <2> QED BY <1>2, <1>6, <1>11, <2>10
<1> QED BY <1>10, <1>11

-----------------------------------------------------------------------------
(* MessageHeaders: fields and custom headers.                              *)

\* Headers, and the states of the loop that reads them.
Kept   == [fixed : [Fixed -> Cells], custom : [CustomIds -> Seq(Cells)]]
States == [rest : Cells, headers : Kept] \cup {[rest |-> <<>>, headers |-> Unreadable]}

\* A header read is kept with the others.
LEMMA KeepKept ==
    ASSUME NEW h \in Kept, NEW id \in Nat, NEW data \in Cells
    PROVE  Keep(h, id, data) \in Kept
<1> USE HeadersAssumption
<1> HIDE DEF Cells
<1>1. CASE id \in Fixed
  <2> DEFINE a == [h.fixed EXCEPT ![id] = data]
  <2>1. a \in [Fixed -> Cells] /\ h.custom \in [CustomIds -> Seq(Cells)]
    BY <1>1 DEF Kept
  <2>2. Keep(h, id, data) = [fixed |-> a, custom |-> h.custom]
    BY <1>1 DEF Keep, Kept
  <2> HIDE DEF a
  <2> QED BY <2>1, <2>2 DEF Kept
<1>2. CASE id \notin Fixed /\ id \in CustomIds \ {SecurityNegotiation}
  <2>1. Append(h.custom[id], data) \in Seq(Cells)
    BY <1>2, AppendProperties DEF Kept
  <2> DEFINE a == Append(h.custom[id], data)
             c == [h.custom EXCEPT ![id] = a]
  <2>2. Keep(h, id, data) = [fixed |-> h.fixed, custom |-> c]
    BY <1>2 DEF Keep, Kept
  <2>3. a \in Seq(Cells)
    BY <2>1
  <2> HIDE DEF a
  <2>4. c \in [CustomIds -> Seq(Cells)] /\ h.fixed \in [Fixed -> Cells]
    BY <1>2, <2>3 DEF Kept
  <2> HIDE DEF c
  <2> QED BY <2>2, <2>4 DEF Kept
<1>3. CASE id \notin Fixed /\ id \notin CustomIds \ {SecurityNegotiation}
  BY <1>3 DEF Keep
<1> QED BY <1>1, <1>2, <1>3

\* A turn of the loop stays in these states; one that reads takes cells away.
LEMMA ReadHeaderIs ==
    ASSUME NEW st \in States
    PROVE  /\ ReadHeader(st) \in States /\ Len(st.rest) \in Nat
           /\ ReadHeader(st) = st \/ Len(ReadHeader(st).rest) + 2 <= Len(st.rest)
<1> DEFINE s == st.rest  size == s[2]  data == SubSeq(s, 3, 2 + size)
           left == SubSeq(s, 3 + size, Len(s))
<1>1. s \in Cells /\ Len(s) \in Nat
  <2>1. <<>> \in Cells
    BY DEF Cells
  <2>2. s \in Cells
    <3> HIDE DEF Cells
    <3>1. CASE st \in [rest : Cells, headers : Kept]
      BY <3>1
    <3>2. CASE st = [rest |-> <<>>, headers |-> Unreadable]
      BY <2>1, <3>2
    <3> QED BY <3>1, <3>2 DEF States
  <2> QED BY <2>2 DEF Cells
<1>2. CASE Len(s) < 2 \/ (size > 0 /\ Len(s) = 2)
  BY <1>1, <1>2 DEF ReadHeader
<1>3. CASE ~ (Len(s) < 2 \/ (size > 0 /\ Len(s) = 2)) /\ Len(s) < 2 + size
  <2>1. ReadHeader(st) = [rest |-> <<>>, headers |-> Unreadable]
    BY <1>3 DEF ReadHeader
  <2>2. Len(s) >= 2
    BY <1>1, <1>3
  <2> QED BY <1>1, <2>1, <2>2 DEF States
<1>4. CASE ~ (Len(s) < 2 \/ (size > 0 /\ Len(s) = 2)) /\ ~ (Len(s) < 2 + size)
  <2>1. Len(s) >= 2 /\ s[1] \in Nat /\ size \in Nat /\ 2 + size <= Len(s)
    <3> DEFINE n == Len(s)
    <3>1. n \in Nat /\ ~ (n < 2)
      BY <1>1, <1>4
    <3> HIDE DEF n
    <3>2. n >= 2 /\ 1 \in 1 .. n /\ 2 \in 1 .. n
      BY ONLY <3>1
    <3>3. s[1] \in Nat /\ s[2] \in Nat
      BY <1>1, <3>2 DEF n, Cells, Cell
    <3>4. ~ (n < 2 + size)
      BY <1>4 DEF n
    <3> HIDE DEF size
    <3> QED BY <3>1, <3>2, <3>3, <3>4 DEF n, size
  <2>2. st.headers \in Kept
    <3>1. s # <<>>
      BY <2>1
    <3> QED BY <3>1 DEF States
  <2>3. ReadHeader(st) = [rest |-> left, headers |-> Keep(st.headers, s[1], data)]
    BY <1>4 DEF ReadHeader
  <2> HIDE DEF s
  <2>4. data \in Cells
    BY <1>1, <2>1 DEF Cells
  <2>5. left \in Cells /\ Len(left) + 2 <= Len(s)
    BY <1>1, <2>1 DEF Cells
  <2>6. Keep(st.headers, s[1], data) \in Kept
    BY <2>1, <2>2, <2>4, KeepKept
  <2> HIDE DEF left, data
  <2>7. ReadHeader(st) \in States
    BY <2>3, <2>5, <2>6 DEF States
  <2> QED BY <1>1, <2>3, <2>5, <2>7 DEF s
<1> QED BY <1>2, <1>3, <1>4

\* f takes n turns of the loop, from st.
Turns(f, n, st) == f[0] = st /\ \A k \in 0 .. n - 1 : f[k + 1] = ReadHeader(f[k])

\* The turns of the loop of parseFabricMessageHeaders are determined.
LEMMA TurnsOnce ==
    ASSUME NEW st, NEW f, NEW g, NEW n \in Nat, NEW m \in Nat, n <= m, Turns(f, n, st), Turns(g, m, st)
    PROVE  f[n] = g[n]
<1> DEFINE I == {k \in Nat : k <= n => f[k] = g[k]}
<1>1. 0 \in I
  BY DEF Turns
<1>2. ASSUME NEW k \in Nat, k \in I PROVE k + 1 \in I
  <2> SUFFICES ASSUME k + 1 <= n PROVE f[k + 1] = g[k + 1]
    OBVIOUS
  <2>1. k \in 0 .. n - 1 /\ k \in 0 .. m - 1 /\ k <= n
    OBVIOUS
  <2> QED BY <1>2, <2>1 DEF Turns
<1> HIDE DEF I
<1>3. Nat \subseteq I
  BY <1>1, <1>2, NatInd
<1> QED BY <1>3 DEF I

\* Once there were as many turns as cells, nothing changes.
LEMMA TurnsEnd ==
    ASSUME NEW st \in States, NEW f, NEW n \in Nat, n >= Len(st.rest), Turns(f, n, st)
    PROVE  f[n] = f[Len(st.rest)]
<1> DEFINE l == Len(st.rest)
           Done(k) == ReadHeader(f[k]) = f[k]
           Left(k) == Len(f[k].rest)
           Near(k) == Left(k) + 2 * k <= l
           J == {k \in Nat : k <= n => f[k] \in States /\ (Done(k) \/ Near(k))}
<1>1. l \in Nat
  BY ReadHeaderIs
<1> HIDE DEF l
<1>2. 0 \in J
  BY <1>1 DEF Turns, l
<1>3. ASSUME NEW k \in Nat, k \in J PROVE k + 1 \in J
  <2> HIDE DEF Done, Left, Near
  <2> SUFFICES ASSUME k + 1 <= n
               PROVE  f[k + 1] \in States /\ (Done(k + 1) \/ Near(k + 1))
    OBVIOUS
  <2>1. k \in 0 .. n - 1 /\ k <= n
    OBVIOUS
  <2>2. f[k + 1] = ReadHeader(f[k]) /\ f[k] \in States /\ (Done(k) \/ Near(k))
    BY <1>3, <2>1 DEF Turns
  <2>3. f[k + 1] \in States /\ Left(k) \in Nat /\ Left(k + 1) \in Nat
    BY <2>2, ReadHeaderIs DEF Left
  <2>4. CASE f[k + 1] = f[k]
    <3>1. Done(k + 1)
      BY <2>2, <2>4 DEF Done
    <3> QED BY <2>3, <3>1
  <2>5. CASE f[k + 1] # f[k]
    <3>1. ~ Done(k) /\ Left(k + 1) + 2 <= Left(k)
      BY <2>2, <2>5, ReadHeaderIs DEF Done, Left
    <3>2. Left(k) + 2 * k <= l
      BY <2>2, <3>1 DEF Near
    <3>3. Left(k + 1) + 2 * (k + 1) <= l
      BY <1>1, <2>3, <3>1, <3>2
    <3> QED BY <2>3, <3>3 DEF Near
  <2> QED BY <2>4, <2>5
<1> HIDE DEF J, Done, Left, Near
<1>4. Nat \subseteq J
  BY <1>2, <1>3, NatInd
<1>5. Done(l)
  <2>1. l <= n
    BY DEF l
  <2>2. f[l] \in States /\ (Done(l) \/ Near(l))
    BY <1>1, <1>4, <2>1 DEF J
  <2>3. Left(l) \in Nat
    BY <2>2, ReadHeaderIs DEF Left
  <2>4. CASE ~ Done(l)
    <3>1. Left(l) + 2 * l <= l
      BY <2>2, <2>4 DEF Near
    <3>2. Left(l) < 2
      BY <1>1, <2>3, <3>1
    <3> QED BY <3>2 DEF ReadHeader, Done, Left
  <2> QED BY <2>4
<1> DEFINE I == {k \in Nat : l + k <= n => f[l + k] = f[l]}
<1>6. 0 \in I
  BY <1>1
<1>7. ASSUME NEW k \in Nat, k \in I PROVE k + 1 \in I
  <2> SUFFICES ASSUME l + (k + 1) <= n PROVE f[l + (k + 1)] = f[l]
    OBVIOUS
  <2>1. l + k \in 0 .. n - 1 /\ l + k <= n /\ l + (k + 1) = l + k + 1
    BY <1>1
  <2>2. f[l + k] = f[l] /\ f[l + k + 1] = ReadHeader(f[l + k])
    BY <1>7, <2>1 DEF Turns
  <2> QED BY <1>5, <2>1, <2>2 DEF Done
<1> HIDE DEF I
<1>8. Nat \subseteq I
  BY <1>6, <1>7, NatInd
<1>9. n - l \in Nat /\ l + (n - l) = n
  BY <1>1 DEF l
<1>10. f[l + (n - l)] = f[l]
  BY <1>8, <1>9 DEF I
<1> QED BY <1>9, <1>10 DEF l

\* What Parse computes.
LEMMA ParseIs ==
    ASSUME NEW s \in Cells, NEW h \in Kept
    PROVE  \E f : Turns(f, Len(s), [rest |-> s, headers |-> h]) /\ Parse(s, h) = f[Len(s)].headers
<1> DEFINE n == Len(s)
           a == [rest |-> s, headers |-> h]
           g == [z \in Nat \X States |-> ReadHeader(z[2])]
           after == CHOOSE f : f = [k \in 0 .. n |-> IF k = 0 THEN a ELSE ReadHeader(f[k - 1])]
<1>1. n \in Nat /\ a \in States
  BY DEF Cells, States
<1>2. g \in [Nat \X States -> States]
  BY ReadHeaderIs
<1>3. Steps(g, States)
  BY <1>2 DEF Steps
<1>4. \A k \in Nat, x \in States : g[<<k, x>>] = ReadHeader(x)
  OBVIOUS
<1>5. Parse(s, h) = after[n].headers
  BY DEF Parse
<1> HIDE DEF n, a, g
<1>6. PICK f : Goes(f, n, States, a, g)
  BY ONLY <1>1, <1>3, GoesFar
<1>7. f \in [0 .. n -> States] /\ f[0] = a
  BY <1>6 DEF Goes
<1>8. ASSUME NEW k \in 0 .. n, k # 0 PROVE f[k] = ReadHeader(f[k - 1])
  <2>1. k - 1 \in Nat /\ k - 1 \in 0 .. n /\ k - 1 \in 0 .. n - 1 /\ k - 1 + 1 = k
    BY <1>1, <1>8
  <2>2. f[k - 1] \in States
    BY <1>7, <2>1
  <2>3. f[k - 1 + 1] = g[<<k - 1, f[k - 1]>>]
    BY <1>6, <2>1 DEF Goes
  <2> QED BY <1>4, <2>1, <2>2, <2>3
<1>9. f = [k \in 0 .. n |-> IF k = 0 THEN a ELSE ReadHeader(f[k - 1])]
  BY <1>7, <1>8
<1>10. after = [k \in 0 .. n |-> IF k = 0 THEN a ELSE ReadHeader(after[k - 1])]
  BY <1>9
<1> HIDE DEF after
<1>11. after[0] = a
  BY <1>1, <1>10
<1>12. ASSUME NEW k \in 0 .. n - 1 PROVE after[k + 1] = ReadHeader(after[k])
  <2>1. k + 1 \in 0 .. n /\ k + 1 # 0 /\ k + 1 - 1 = k
    BY <1>1
  <2> DEFINE p == k + 1
  <2>2. p \in 0 .. n /\ p # 0 /\ p - 1 = k
    BY <2>1
  <2> HIDE DEF p
  <2>3. after[p] = ReadHeader(after[p - 1])
    BY <1>10, <2>2
  <2> QED BY <2>2, <2>3 DEF p
<1> QED BY <1>5, <1>11, <1>12 DEF Turns, n, a

-----------------------------------------------------------------------------
\* After w, read from h on, the loop goes on with h2.
Reads(w, h, h2) == w \in Cells /\ h2 \in Kept /\ \A t \in Cells : Parse(w \o t, h) = Parse(t, h2)

\* From no cells no header is read.
LEMMA ReadsNothing == ASSUME NEW h \in Kept PROVE Reads(<<>>, h, h)
<1>1. <<>> \in Cells /\ \A t \in Cells : <<>> \o t = t
  BY ConcatEmptySeq DEF Cells
<1> QED BY <1>1 DEF Reads

\* What is read from two streams in turn is read from one that joins them.
LEMMA ReadsBoth ==
    ASSUME NEW v, NEW w, NEW h, NEW h1, NEW h2, Reads(v, h, h1), Reads(w, h1, h2)
    PROVE  Reads(v \o w, h, h2)
<1>1. v \in Cells /\ w \in Cells /\ h2 \in Kept
  BY DEF Reads
<1>2. v \o w \in Cells
  BY <1>1, CatCells
<1>3. ASSUME NEW t \in Cells PROVE Parse((v \o w) \o t, h) = Parse(t, h2)
  <2>1. (v \o w) \o t = v \o (w \o t)
    BY <1>1, CatAssociates
  <2>2. w \o t \in Cells
    BY <1>1, CatCells
  <2>3. Parse(v \o (w \o t), h) = Parse(w \o t, h1) /\ Parse(w \o t, h1) = Parse(t, h2)
    BY <2>2 DEF Reads
  <2> QED BY <2>1, <2>3
<1> QED BY <1>1, <1>2, <1>3 DEF Reads

\* A header that is written is read as one turn.
LEMMA ReadsHeader ==
    ASSUME NEW h \in Kept, NEW id \in Nat, NEW data \in Cells, Len(data) < LengthLimit
    PROVE  Reads(WriteHeader(id, data), h, Keep(h, id, data))
<1> USE HeadersAssumption
<1> DEFINE w == WriteHeader(id, data)  size == Len(data)  h2 == Keep(h, id, data)
           b == <<id, size>>
<1>1. size \in Nat /\ size % LengthLimit = size
  <2>1. size \in Nat
    BY DEF Cells
  <2> HIDE DEF size
  <2>2. size < LengthLimit
    BY DEF size
  <2> QED BY <2>1, <2>2
<1>2. b \in Cells /\ Len(b) = 2 /\ b[1] = id /\ b[2] = size
  BY <1>1, PairCells
<1>3. w = b \o data
  BY <1>1 DEF WriteHeader
<1>4. h2 \in Kept
  BY KeepKept
<1> HIDE DEF w, b, size, h2
<1>5. w \in Cells /\ Len(w) = Len(b) + Len(data)
  BY <1>2, <1>3, CatCells
<1>6. ASSUME NEW t \in Cells PROVE Parse(w \o t, h) = Parse(t, h2)
  <2> DEFINE dt == data \o t  s == w \o t  st == [rest |-> s, headers |-> h]
             st2 == [rest |-> t, headers |-> h2]
  <2>1. /\ dt \in Cells /\ Len(dt) = Len(data) + Len(t) /\ Len(data) \in Nat /\ Len(t) \in Nat
        /\ SubSeq(dt, 1, Len(data)) = data
        /\ SubSeq(dt, Len(data) + 1, Len(data) + Len(t)) = t
    BY ONLY data \in Cells, t \in Cells, CatCells
  <2>2. s = b \o dt
    BY <1>2, <1>3, CatAssociates
  <2> HIDE DEF dt, s
  <2>3. /\ s \in Cells /\ Len(s) = Len(b) + Len(dt)
        /\ (\A j \in 1 .. Len(b) : s[j] = b[j])
        /\ \A j \in 1 .. Len(dt) : s[Len(b) + j] = dt[j]
    <3>1. b \in Cells /\ dt \in Cells
      BY <1>2, <2>1
    <3> QED BY ONLY <2>2, <3>1, CatCells
  <2>4. /\ s[1] = id /\ s[2] = size /\ Len(s) = 2 + Len(dt) /\ size = Len(data)
        /\ \A j \in 1 .. Len(dt) : s[2 + j] = dt[j]
    BY <1>2, <2>3 DEF size
  <2>5. /\ size \in Nat /\ Len(t) \in Nat /\ Len(s) = 2 + size + Len(t) /\ s \in Seq(Cell)
        /\ 2 + 1 = 3 /\ 2 + size + 1 = 3 + size /\ 2 + size \in Nat /\ 2 + size <= Len(s)
        /\ 2 \in Nat /\ 2 + size + Len(t) <= Len(s)
    <3>1. s \in Seq(Cell)
      BY <2>3 DEF Cells
    <3>2. size \in Nat /\ Len(t) \in Nat
      BY <1>1, <2>1
    <3>3. Len(dt) = size + Len(t) /\ Len(s) = 2 + Len(dt)
      BY <2>1, <2>4
    <3>4. Len(s) = 2 + size + Len(t)
      BY <3>2, <3>3
    <3> QED BY ONLY <3>1, <3>2, <3>4
  <2>6. SubSeq(s, 3, 2 + size) = data
    <3> DEFINE q == SubSeq(s, 3, 2 + size)
    <3>1. q \in Seq(Cell) /\ Len(q) = size /\ \A j \in 1 .. size : q[j] = s[2 + j]
      <4>1. /\ SubSeq(s, 2 + 1, 2 + size) \in Seq(Cell) /\ Len(SubSeq(s, 2 + 1, 2 + size)) = size
            /\ \A j \in 1 .. size : SubSeq(s, 2 + 1, 2 + size)[j] = s[2 + j]
        BY ONLY <2>5, Part
      <4> QED BY <2>5, <4>1
    <3> HIDE DEF q
    <3>2. \A j \in 1 .. size : dt[j] = data[j]
      <4>1. \A j \in 1 .. Len(data) : (data \o t)[j] = data[j]
        BY ONLY data \in Cells, t \in Cells, CatCells
      <4> QED BY <2>4, <4>1 DEF dt
    <3>3. \A j \in 1 .. size : q[j] = data[j]
      BY <2>1, <2>4, <3>1, <3>2
    <3>4. data \in Seq(Cell) /\ Len(data) = size
      BY <2>4 DEF Cells
    <3>5. q = data
      BY ONLY <3>1, <3>3, <3>4, SeqEqual
    <3> QED BY <3>5 DEF q
  <2>7. SubSeq(s, 3 + size, Len(s)) = t
    <3> DEFINE q == SubSeq(s, 3 + size, Len(s))
    <3>1. q \in Seq(Cell) /\ Len(q) = Len(t) /\ \A j \in 1 .. Len(t) : q[j] = s[2 + size + j]
      <4> DEFINE m == 2 + size  l == Len(t)
      <4>1. m \in Nat /\ l \in Nat /\ m + l <= Len(s) /\ s \in Seq(Cell) /\ m + 1 = 3 + size /\ m + l = Len(s)
        BY <2>5
      <4> HIDE DEF m, l
      <4>2. /\ SubSeq(s, m + 1, m + l) \in Seq(Cell) /\ Len(SubSeq(s, m + 1, m + l)) = l
            /\ \A j \in 1 .. l : SubSeq(s, m + 1, m + l)[j] = s[m + j]
        BY ONLY <4>1, Part
      <4> QED BY <4>1, <4>2 DEF m, l
    <3> HIDE DEF q
    <3>2. \A j \in 1 .. Len(t) : dt[size + j] = t[j]
      <4>1. \A j \in 1 .. Len(t) : (data \o t)[Len(data) + j] = t[j]
        BY ONLY data \in Cells, t \in Cells, CatCells
      <4> QED BY <2>4, <4>1 DEF dt
    <3>3. \A j \in 1 .. Len(t) : q[j] = t[j]
      <4> SUFFICES ASSUME NEW j \in 1 .. Len(t) PROVE q[j] = t[j]
        OBVIOUS
      <4>1. size + j \in 1 .. Len(dt) /\ 2 + (size + j) = 2 + size + j
        BY <2>1, <2>4, <2>5
      <4>2. s[2 + (size + j)] = dt[size + j]
        BY <2>4, <4>1
      <4> QED BY <3>1, <3>2, <4>1, <4>2
    <3>4. t \in Seq(Cell)
      BY DEF Cells
    <3>5. q = t
      BY ONLY <3>1, <3>3, <3>4, SeqEqual
    <3> QED BY <3>5 DEF q
  <2>8. ReadHeader(st) = st2
    <3>1. ~ (Len(s) < 2 \/ (size > 0 /\ Len(s) = 2)) /\ ~ (Len(s) < 2 + size)
      BY <2>5
    <3> QED BY <2>4, <2>6, <2>7, <3>1 DEF ReadHeader, h2
  <2>9. st \in States /\ st2 \in States
    BY <1>4, <2>3 DEF States
  <2>10. PICK f : Turns(f, Len(s), st) /\ Parse(s, h) = f[Len(s)].headers
    BY <2>3, ParseIs
  <2>11. PICK g : Turns(g, Len(t), st2) /\ Parse(t, h2) = g[Len(t)].headers
    BY <1>4, ParseIs
  <2> DEFINE n == Len(s) - 1
             e == [k \in 0 .. n |-> f[k + 1]]
  <2>12. n \in Nat /\ Len(t) \in Nat /\ Len(t) <= n /\ n + 1 = Len(s)
    BY <2>1, <2>4
  <2> HIDE DEF n, st, st2
  <2>13. Turns(e, n, st2)
    <3>1. 0 \in 0 .. Len(s) - 1 /\ 0 \in 0 .. n
      BY <2>12
    <3>2. e[0] = st2
      BY <2>8, <2>10, <3>1 DEF Turns
    <3>3. ASSUME NEW k \in 0 .. n - 1 PROVE e[k + 1] = ReadHeader(e[k])
      <4>1. k \in 0 .. n /\ k + 1 \in 0 .. n /\ k + 1 \in 0 .. Len(s) - 1
        BY <2>12
      <4> QED BY <2>10, <4>1 DEF Turns
    <3> HIDE DEF e
    <3> QED BY <3>2, <3>3 DEF Turns
  <2>14. e[n] = f[Len(s)]
    BY <2>12
  <2> HIDE DEF e
  <2>15. e[n] = e[Len(t)]
    <3>1. st2.rest = t
      BY DEF st2
    <3> QED BY <2>9, <2>12, <2>13, <3>1, TurnsEnd
  <2>16. g[Len(t)] = e[Len(t)]
    <3> DEFINE m == Len(t)
    <3>1. m \in Nat /\ n \in Nat /\ m <= n /\ Turns(g, m, st2) /\ Turns(e, n, st2)
      BY <2>11, <2>12, <2>13
    <3> HIDE DEF m
    <3>2. g[m] = e[m]
      BY ONLY <3>1, TurnsOnce
    <3> QED BY <3>2 DEF m
  <2> QED BY <2>10, <2>11, <2>14, <2>15, <2>16 DEF s
<1> QED BY <1>4, <1>5, <1>6 DEF Reads, w, h2

\* A header's id and length come before its data.
LEMMA HeaderCells ==
    ASSUME NEW id \in Nat, NEW data \in Cells
    PROVE  WriteHeader(id, data) \in Cells /\ Len(WriteHeader(id, data)) = 2 + Len(data) /\ Len(data) \in Nat
<1> USE HeadersAssumption
<1> DEFINE size == Len(data) % LengthLimit  b == <<id, size>>
<1>1. size \in Nat
  <2>1. Len(data) \in Nat
    BY DEF Cells
  <2> DEFINE n == Len(data)
  <2> HIDE DEF n
  <2>2. n \in Nat => n % LengthLimit \in Nat
    OBVIOUS
  <2> QED BY <2>1, <2>2 DEF n
<1>2. b \in Cells /\ Len(b) = 2
  BY <1>1, PairCells
<1>3. WriteHeader(id, data) = b \o data
  BY DEF WriteHeader
<1> HIDE DEF b
<1>4. b \in Cells
  BY <1>2
<1>5. b \o data \in Cells /\ Len(b \o data) = Len(b) + Len(data) /\ Len(data) \in Nat
  BY ONLY <1>4, data \in Cells, CatCells
<1> QED BY <1>2, <1>3, <1>5

\* No part of what is written is longer than all of it.
LEMMA PartFits ==
    ASSUME NEW seqs \in Seq(Cells), Len(FlattenSeq(seqs)) < LengthLimit, NEW i \in 1 .. Len(seqs)
    PROVE  Len(seqs[i]) < LengthLimit
<1> USE HeadersAssumption
<1>1. seqs \in Seq(Seq(Cell))
  BY DEF Cells
<1>2. /\ FlattenSeq(seqs) \in Seq(Cell) /\ Pre(seqs, i - 1) \in Seq(Cell)
      /\ Len(Pre(seqs, i - 1)) + Len(seqs[i]) <= Len(FlattenSeq(seqs))
  BY <1>1, FlattenAt
<1>3. seqs[i] \in Seq(Cell)
  BY <1>1
<1> DEFINE p == Pre(seqs, i - 1)  q == seqs[i]  w == FlattenSeq(seqs)
<1>4. p \in Seq(Cell) /\ q \in Seq(Cell) /\ w \in Seq(Cell) /\ Len(p) + Len(q) <= Len(w) /\ Len(w) < LengthLimit
  BY <1>2, <1>3
<1> HIDE DEF p, q, w
<1>5. Len(p) \in Nat /\ Len(q) \in Nat /\ Len(w) \in Nat
  BY <1>4
<1>6. Len(q) < LengthLimit
  BY <1>4, <1>5
<1> QED BY <1>6 DEF q

\* Sequences that are read one after the other, the i-th into the i-th of hs.
LEMMA ReadsAll ==
    ASSUME NEW seqs \in Seq(Cells), NEW hs, hs[0] \in Kept,
           \A i \in 1 .. Len(seqs) : Reads(seqs[i], hs[i - 1], hs[i])
    PROVE  Reads(FlattenSeq(seqs), hs[0], hs[Len(seqs)])
<1> DEFINE n == Len(seqs)
           I == {k \in Nat : k <= n => Reads(Pre(seqs, k), hs[0], hs[k])}
<1>1. /\ n \in Nat /\ Pre(seqs, 0) = <<>> /\ Pre(seqs, n) = FlattenSeq(seqs)
      /\ \A k \in 0 .. n - 1 : Pre(seqs, k + 1) = Pre(seqs, k) \o seqs[k + 1]
  <2>1. seqs \in Seq(Seq(Cell))
    BY DEF Cells
  <2> QED BY <2>1, PreSteps
<1>2. 0 \in I
  BY <1>1, ReadsNothing
<1>3. ASSUME NEW k \in Nat, k \in I PROVE k + 1 \in I
  <2> SUFFICES ASSUME k + 1 <= n PROVE Reads(Pre(seqs, k + 1), hs[0], hs[k + 1])
    OBVIOUS
  <2> DEFINE i == k + 1
  <2>1. i \in 1 .. n /\ i - 1 = k /\ k \in 0 .. n - 1 /\ k <= n
    BY <1>1
  <2>2. Reads(Pre(seqs, k), hs[0], hs[k])
    BY <1>3, <2>1
  <2> HIDE DEF i
  <2>3. Reads(seqs[i], hs[k], hs[i])
    BY <2>1
  <2>4. Reads(Pre(seqs, k) \o seqs[i], hs[0], hs[i])
    BY <2>2, <2>3, ReadsBoth
  <2>5. Pre(seqs, k + 1) = Pre(seqs, k) \o seqs[k + 1]
    BY <1>1, <2>1
  <2> QED BY <2>4, <2>5 DEF i
<1> HIDE DEF I
<1>4. Nat \subseteq I
  BY <1>2, <1>3, NatInd
<1>5. Reads(Pre(seqs, n), hs[0], hs[n])
  BY <1>1, <1>4 DEF I
<1> QED BY <1>1, <1>5

\* A message may have no headers.
LEMMA NoneKept == NoHeaders \in Kept
<1>1. \A k \in Fixed : Blank(k) \in Cells
  BY DEF Blank, Cells, Cell
<1>2. <<>> \in Seq(Cells)
  OBVIOUS
<1> HIDE DEF Cells
<1> QED BY <1>1, <1>2 DEF NoHeaders, Kept

\* The fields are read as they are written.
LEMMA ReadsFields ==
    ASSUME NEW fixed, IsFixed(fixed),
           Len(FlattenSeq([k \in Fixed |-> WriteField(k, fixed[k])])) < LengthLimit
    PROVE  Reads(FlattenSeq([k \in Fixed |-> WriteField(k, fixed[k])]), NoHeaders,
                 [fixed |-> fixed, custom |-> NoHeaders.custom])
<1> DEFINE seqs == [k \in Fixed |-> WriteField(k, fixed[k])]
           have(i) == [k \in Fixed |-> IF k <= i THEN fixed[k] ELSE Blank(k)]
           hs == [i \in 0 .. 9 |-> [fixed |-> have(i), custom |-> NoHeaders.custom]]
<1>1. ASSUME NEW k \in Fixed PROVE WriteField(k, fixed[k]) \in Cells
  <2>1. k \in Nat /\ fixed[k] \in Cells
    BY DEF IsFixed, Fixed
  <2>2. WriteHeader(k, fixed[k]) \in Cells
    BY <2>1, HeaderCells
  <2>3. <<>> \in Cells
    BY DEF Cells
  <2> QED BY <2>2, <2>3 DEF WriteField
<1>2. seqs \in Seq(Cells) /\ Len(seqs) = 9 /\ \A i \in 1 .. 9 : seqs[i] = WriteField(i, fixed[i])
  BY <1>1 DEF Fixed
<1>3. ASSUME NEW i \in 0 .. 9
      PROVE  hs[i] \in Kept /\ hs[i] = [fixed |-> have(i), custom |-> NoHeaders.custom]
  <2>1. NoHeaders.fixed \in [Fixed -> Cells] /\ NoHeaders.custom \in [CustomIds -> Seq(Cells)]
    BY NoneKept DEF Kept
  <2>2. have(i) \in [Fixed -> Cells]
    <3>1. ASSUME NEW k \in Fixed PROVE (IF k <= i THEN fixed[k] ELSE Blank(k)) \in Cells
      <4>1. fixed[k] \in Cells /\ Blank(k) \in Cells
        BY <2>1 DEF IsFixed, NoHeaders
      <4> QED BY <4>1
    <3> HIDE DEF Cells
    <3> QED BY <3>1
  <2> HIDE DEF have
  <2> QED BY <2>1, <2>2 DEF Kept
<1>4. hs[0] = NoHeaders
  <2>1. have(0) = [k \in Fixed |-> Blank(k)]
    BY DEF Fixed
  <2> QED BY <2>1 DEF NoHeaders
<1>5. hs[9] = [fixed |-> fixed, custom |-> NoHeaders.custom]
  <2>1. have(9) = fixed
    BY DEF Fixed, IsFixed
  <2> QED BY <2>1
<1>6. ASSUME NEW i \in 1 .. 9 PROVE Reads(seqs[i], hs[i - 1], hs[i])
  <2> DEFINE d == fixed[i]
  <2>1. i \in Fixed /\ i \in Nat /\ i - 1 \in 0 .. 9 /\ i \in 0 .. 9 /\ d \in Cells
    BY DEF Fixed, IsFixed
  <2>2. /\ hs[i - 1] \in Kept /\ hs[i - 1] = [fixed |-> have(i - 1), custom |-> NoHeaders.custom]
        /\ hs[i] = [fixed |-> have(i), custom |-> NoHeaders.custom]
    BY <1>3, <2>1
  <2>3. have(i) = [have(i - 1) EXCEPT ![i] = d]
    <3>1. ASSUME NEW k \in Fixed PROVE have(i)[k] = [have(i - 1) EXCEPT ![i] = d][k]
      <4>1. (k <= i) <=> (k <= i - 1 \/ k = i)
        BY <2>1 DEF Fixed
      <4>2. k = i => ~ (k <= i - 1)
        BY <2>1
      <4> QED BY <2>1, <4>1, <4>2
    <3> QED BY <3>1
  <2>4. have(i - 1)[i] = Blank(i) /\ DOMAIN have(i - 1) = Fixed
    BY <2>1
  <2> HIDE DEF have, hs
  <2>5. CASE AllZero(d) /\ i \notin AlwaysWritten
    <3>1. seqs[i] = <<>> /\ d = Blank(i)
      BY <1>2, <2>1, <2>5 DEF WriteField, IsFixed
    <3>2. have(i) = have(i - 1)
      BY <2>3, <2>4, <3>1 DEF have
    <3> QED BY <2>2, <3>1, <3>2, ReadsNothing
  <2>6. CASE ~ (AllZero(d) /\ i \notin AlwaysWritten)
    <3>1. seqs[i] = WriteHeader(i, d)
      BY <1>2, <2>1, <2>6 DEF WriteField
    <3>2. Len(d) < LengthLimit
      <4>1. i \in 1 .. Len(seqs)
        BY <1>2
      <4>2. Len(seqs[i]) < LengthLimit
        BY <1>2, <4>1, PartFits
      <4>3. Len(WriteHeader(i, d)) = 2 + Len(d) /\ Len(d) \in Nat
        BY <2>1, HeaderCells
      <4> QED BY <3>1, <4>2, <4>3, HeadersAssumption
    <3>3. Reads(WriteHeader(i, d), hs[i - 1], Keep(hs[i - 1], i, d))
      BY <2>1, <2>2, <3>2, ReadsHeader
    <3>4. Keep(hs[i - 1], i, d) = hs[i]
      <4>1. Keep(hs[i - 1], i, d) = [hs[i - 1] EXCEPT !.fixed[i] = d]
        BY <2>1, HeadersAssumption DEF Keep
      <4> QED BY <2>2, <2>3, <4>1
    <3> QED BY <3>1, <3>3, <3>4
  <2> QED BY <2>5, <2>6
<1>7. hs[0] \in Kept
  BY <1>4, NoneKept
<1> HIDE DEF hs
<1>8. Reads(FlattenSeq(seqs), hs[0], hs[9])
  <2>1. \A i \in 1 .. Len(seqs) : Reads(seqs[i], hs[i - 1], hs[i])
    BY <1>2, <1>6
  <2> HIDE DEF seqs
  <2>2. Reads(FlattenSeq(seqs), hs[0], hs[Len(seqs)])
    BY <1>2, <1>7, <2>1, ReadsAll
  <2> QED BY <1>2, <2>2
<1> QED BY <1>4, <1>5, <1>8

\* h with a custom header of type t that has these values.
With(h, t, values) ==
    [fixed |-> h.fixed, custom |-> [h.custom EXCEPT ![t] = IF t = SecurityNegotiation THEN <<>> ELSE values]]

\* What is written for the values of one type.
WriteValues(t, values) == FlattenSeq([j \in DOMAIN values |-> WriteHeader(t, values[j])])

\* The headers of one type are cells.
LEMMA ValuesCells ==
    ASSUME NEW t \in Nat, NEW values \in Seq(Cells)
    PROVE  /\ [j \in DOMAIN values |-> WriteHeader(t, values[j])] \in Seq(Cells)
           /\ Len([j \in DOMAIN values |-> WriteHeader(t, values[j])]) = Len(values)
           /\ Len(values) \in Nat /\ DOMAIN values = 1 .. Len(values)
           /\ WriteValues(t, values) \in Cells
<1> DEFINE seqs == [j \in DOMAIN values |-> WriteHeader(t, values[j])]
<1>1. Len(values) \in Nat /\ DOMAIN values = 1 .. Len(values) /\ \A j \in DOMAIN values : values[j] \in Cells
  <2> HIDE DEF Cells
  <2> QED OBVIOUS
<1>2. \A j \in DOMAIN values : WriteHeader(t, values[j]) \in Cells
  BY <1>1, HeaderCells
<1>3. seqs \in Seq(Cells) /\ Len(seqs) = Len(values)
  <2> HIDE DEF Cells
  <2> QED BY <1>1, <1>2
<1> HIDE DEF seqs
<1>4. FlattenSeq(seqs) \in Cells
  <2>1. seqs \in Seq(Seq(Cell)) /\ Len(seqs) \in 0 .. Len(seqs)
    BY <1>1, <1>3 DEF Cells
  <2>2. Pre(seqs, Len(seqs)) = FlattenSeq(seqs) /\ Pre(seqs, Len(seqs)) \in Seq(Cell)
    BY <2>1, PreSteps
  <2> QED BY <2>2 DEF Cells
<1> QED BY <1>1, <1>3, <1>4 DEF seqs, WriteValues

\* A prefix grows by one cell.
LEMMA SubSeqNext ==
    ASSUME NEW X, NEW s \in Seq(X), NEW k \in 1 .. Len(s)
    PROVE  Append(SubSeq(s, 1, k - 1), s[k]) = SubSeq(s, 1, k)
OBVIOUS

\* The empty prefix and the whole.
LEMMA SubSeqEnds ==
    ASSUME NEW X, NEW s \in Seq(X)
    PROVE  SubSeq(s, 1, 0) = <<>> /\ SubSeq(s, 1, Len(s)) = s /\ \A k \in 0 .. Len(s) : SubSeq(s, 1, k) \in Seq(X)
OBVIOUS

\* The values of one type are read in their order.
LEMMA ReadsValues ==
    ASSUME NEW h \in Kept, NEW t \in CustomIds, h.custom[t] = <<>>, NEW values \in Seq(Cells),
           Len(WriteValues(t, values)) < LengthLimit
    PROVE  Reads(WriteValues(t, values), h, With(h, t, values))
<1> USE HeadersAssumption
<1> DEFINE seqs == [j \in DOMAIN values |-> WriteHeader(t, values[j])]
           n == Len(values)
           part(i) == SubSeq(values, 1, i)
           hs == [i \in 0 .. n |-> With(h, t, part(i))]
<1>1. t \in Nat /\ t \notin Fixed
  OBVIOUS
<1>2. seqs \in Seq(Cells) /\ Len(seqs) = n /\ n \in Nat /\ DOMAIN values = 1 .. n
  BY <1>1, ValuesCells
<1>3. part(0) = <<>> /\ part(n) = values /\ (\A i \in 0 .. n : part(i) \in Seq(Cells))
  BY SubSeqEnds
<1>4. ASSUME NEW i \in 1 .. n PROVE part(i) = Append(part(i - 1), values[i]) /\ values[i] \in Cells
  <2> HIDE DEF Cells
  <2> QED BY SubSeqNext
<1> HIDE DEF part
<1>5. ASSUME NEW i \in 0 .. n PROVE hs[i] = With(h, t, part(i)) /\ hs[i] \in Kept
  <2> DEFINE p == IF t = SecurityNegotiation THEN <<>> ELSE part(i)
             c == [h.custom EXCEPT ![t] = p]
  <2>1. p \in Seq(Cells) /\ h.custom \in [CustomIds -> Seq(Cells)] /\ h.fixed \in [Fixed -> Cells]
    <3>1. <<>> \in Seq(Cells)
      OBVIOUS
    <3> HIDE DEF Cells
    <3> QED BY <1>3, <3>1 DEF Kept
  <2> HIDE DEF p
  <2>2. c \in [CustomIds -> Seq(Cells)]
    BY <2>1
  <2>3. With(h, t, part(i)) = [fixed |-> h.fixed, custom |-> c]
    BY DEF With, p
  <2> HIDE DEF c
  <2> QED BY <2>1, <2>2, <2>3 DEF Kept
<1>6. hs[0] = h
  <2> DEFINE c == [h.custom EXCEPT ![t] = <<>>]
  <2>1. h.custom \in [CustomIds -> Seq(Cells)] /\ h = [fixed |-> h.fixed, custom |-> h.custom]
    BY DEF Kept
  <2>2. c = h.custom
    BY <2>1
  <2>3. 0 \in 0 .. n
    BY <1>2
  <2> QED BY <1>3, <2>1, <2>2, <2>3 DEF With
<1>7. hs[n] = With(h, t, values) /\ hs[0] \in Kept
  <2>1. 0 \in 0 .. n /\ n \in 0 .. n
    BY <1>2
  <2> QED BY <1>3, <1>5, <2>1
<1>8. ASSUME NEW i \in 1 .. n PROVE Reads(seqs[i], hs[i - 1], hs[i])
  <2> DEFINE d == values[i]
  <2>1. i \in 1 .. Len(seqs) /\ i - 1 \in 0 .. n /\ i \in 0 .. n /\ d \in Cells /\ seqs[i] = WriteHeader(t, d)
    BY <1>2, <1>4
  <2>2. Len(d) < LengthLimit
    <3>1. Len(FlattenSeq(seqs)) < LengthLimit
      BY DEF WriteValues
    <3>2. Len(seqs[i]) < LengthLimit
      <4> HIDE DEF seqs
      <4> QED BY <1>2, <2>1, <3>1, PartFits
    <3>3. Len(WriteHeader(t, d)) = 2 + Len(d) /\ Len(d) \in Nat
      BY <1>1, <2>1, HeaderCells
    <3> HIDE DEF d
    <3> QED BY <2>1, <3>2, <3>3
  <2>3. Reads(seqs[i], hs[i - 1], Keep(hs[i - 1], t, d))
    BY <1>1, <1>5, <2>1, <2>2, ReadsHeader
  <2>4. Keep(hs[i - 1], t, d) = hs[i]
    <3>1. hs[i - 1] = With(h, t, part(i - 1)) /\ hs[i] = With(h, t, part(i)) /\ part(i) = Append(part(i - 1), d)
      BY <1>4, <1>5, <2>1
    <3>2. h.custom \in [CustomIds -> Seq(Cells)]
      BY DEF Kept
    <3> HIDE DEF hs, d
    <3>3. CASE t = SecurityNegotiation
      <4>1. Keep(hs[i - 1], t, d) = hs[i - 1]
        BY <1>1, <3>3 DEF Keep
      <4> QED BY <3>1, <3>3, <4>1 DEF With
    <3>4. CASE t # SecurityNegotiation
      <4> DEFINE c == [h.custom EXCEPT ![t] = part(i - 1)]
      <4>1. hs[i - 1] = [fixed |-> h.fixed, custom |-> c]
        BY <3>1, <3>4 DEF With
      <4>2. c[t] = part(i - 1)
        BY <3>2
      <4>3. Keep(hs[i - 1], t, d) = [hs[i - 1] EXCEPT !.custom[t] = Append(@, d)]
        BY <1>1, <3>4 DEF Keep
      <4>4. Keep(hs[i - 1], t, d) = [fixed |-> h.fixed, custom |-> [c EXCEPT ![t] = Append(c[t], d)]]
        <5> HIDE DEF c
        <5> QED BY ONLY <4>1, <4>3
      <4>5. [c EXCEPT ![t] = part(i)] = [h.custom EXCEPT ![t] = part(i)]
        BY <3>2
      <4> QED BY <3>1, <3>4, <4>2, <4>4, <4>5 DEF With
    <3> QED BY <3>3, <3>4
  <2> QED BY <2>3, <2>4
<1> HIDE DEF hs
<1>9. Reads(FlattenSeq(seqs), hs[0], hs[n])
  <2> HIDE DEF seqs
  <2>1. \A i \in 1 .. Len(seqs) : Reads(seqs[i], hs[i - 1], hs[i])
    BY <1>2, <1>8
  <2> HIDE DEF n
  <2>2. Reads(FlattenSeq(seqs), hs[0], hs[Len(seqs)])
    BY <1>2, <1>7, <2>1, ReadsAll
  <2> QED BY <1>2, <2>2
<1> QED BY <1>6, <1>7, <1>9 DEF WriteValues

\* The custom headers are read, whatever the order of the types.
LEMMA ReadsCustom ==
    ASSUME NEW order \in Orders, NEW fixed \in [Fixed -> Cells], NEW custom \in [CustomIds -> Seq(Cells)],
           Len(FlattenSeq([i \in DOMAIN order |-> WriteValues(order[i], custom[order[i]])])) < LengthLimit
    PROVE  Reads(FlattenSeq([i \in DOMAIN order |-> WriteValues(order[i], custom[order[i]])]),
                 [fixed |-> fixed, custom |-> NoHeaders.custom],
                 [fixed |-> fixed,
                  custom |-> [t \in CustomIds |-> IF t = SecurityNegotiation THEN <<>> ELSE custom[t]]])
<1> USE HeadersAssumption
<1> DEFINE n == Cardinality(CustomIds)
           seqs == [i \in DOMAIN order |-> WriteValues(order[i], custom[order[i]])]
           Seen(i, t) == \E j \in 1 .. i : order[j] = t
           have(i) == [t \in CustomIds |-> IF Seen(i, t) /\ t # SecurityNegotiation THEN custom[t] ELSE <<>>]
           hs == [i \in 0 .. n |-> [fixed |-> fixed, custom |-> have(i)]]
<1>1. n \in Nat
  BY FS_CardinalityType
<1>2. /\ order \in [1 .. n -> CustomIds] /\ DOMAIN order = 1 .. n
      /\ \A i, j \in 1 .. n : order[i] = order[j] => i = j
      /\ \A t \in CustomIds : \E i \in 1 .. n : order[i] = t
  BY DEF Orders, IsInjective
<1> HIDE DEF n
<1>3. ASSUME NEW i \in 1 .. n
      PROVE  /\ order[i] \in CustomIds /\ order[i] \in Nat /\ custom[order[i]] \in Seq(Cells)
             /\ WriteValues(order[i], custom[order[i]]) \in Cells
  <2>1. order[i] \in CustomIds
    BY <1>2
  <2>2. order[i] \in Nat /\ custom[order[i]] \in Seq(Cells)
    <3> HIDE DEF Cells
    <3> QED BY <2>1
  <2> QED BY <2>1, <2>2, ValuesCells
<1>4. seqs \in Seq(Cells) /\ Len(seqs) = n /\ \A i \in 1 .. n : seqs[i] = WriteValues(order[i], custom[order[i]])
  <2> HIDE DEF Cells
  <2> QED BY <1>1, <1>2, <1>3
<1>5. ASSUME NEW i \in 0 .. n PROVE hs[i] = [fixed |-> fixed, custom |-> have(i)] /\ hs[i] \in Kept
  <2>1. have(i) \in [CustomIds -> Seq(Cells)]
    <3>1. <<>> \in Seq(Cells)
      OBVIOUS
    <3> HIDE DEF Cells, Seen
    <3> QED BY <3>1
  <2> HIDE DEF have
  <2> QED BY <2>1 DEF Kept
<1>6. 0 \in 0 .. n /\ n \in 0 .. n
  BY <1>1
<1>7. hs[0] = [fixed |-> fixed, custom |-> NoHeaders.custom] /\ hs[0] \in Kept
  <2>1. have(0) = [t \in CustomIds |-> <<>>]
    OBVIOUS
  <2> QED BY <1>5, <1>6, <2>1 DEF NoHeaders
<1>8. hs[n] = [fixed |-> fixed,
               custom |-> [t \in CustomIds |-> IF t = SecurityNegotiation THEN <<>> ELSE custom[t]]]
  <2>1. have(n) = [t \in CustomIds |-> IF t = SecurityNegotiation THEN <<>> ELSE custom[t]]
    BY <1>2
  <2> QED BY <1>5, <1>6, <2>1
<1>9. ASSUME NEW i \in 1 .. n PROVE Reads(seqs[i], hs[i - 1], hs[i])
  <2> DEFINE t == order[i]
  <2>1. i - 1 \in 0 .. n /\ i \in 0 .. n /\ t \in CustomIds /\ custom[t] \in Seq(Cells)
    <3>1. i - 1 \in 0 .. n /\ i \in 0 .. n
      BY <1>1
    <3>2. t \in CustomIds /\ custom[t] \in Seq(Cells)
      BY <1>3
    <3> QED BY <3>1, <3>2
  <2>2. /\ hs[i - 1] \in Kept /\ hs[i - 1] = [fixed |-> fixed, custom |-> have(i - 1)]
        /\ hs[i] = [fixed |-> fixed, custom |-> have(i)]
    BY <1>5, <2>1
  <2>3. ~ Seen(i - 1, t)
    <3> SUFFICES ASSUME NEW j \in 1 .. i - 1, order[j] = order[i] PROVE FALSE
      OBVIOUS
    <3>1. j \in 1 .. n /\ j # i
      BY <1>1
    <3> QED BY <1>2, <3>1
  <2>4. \A u \in CustomIds : Seen(i, u) <=> (Seen(i - 1, u) \/ u = t)
    <3> SUFFICES ASSUME NEW u \in CustomIds PROVE Seen(i, u) <=> (Seen(i - 1, u) \/ u = t)
      OBVIOUS
    <3>1. \A j \in 1 .. i : j \in 1 .. i - 1 \/ j = i
      OBVIOUS
    <3>2. i \in 1 .. i /\ \A j \in 1 .. i - 1 : j \in 1 .. i
      OBVIOUS
    <3>3. ASSUME Seen(i, u) PROVE Seen(i - 1, u) \/ u = t
      BY <3>1, <3>3
    <3>4. ASSUME Seen(i - 1, u) PROVE Seen(i, u)
      BY <3>2, <3>4
    <3>5. ASSUME u = t PROVE Seen(i, u)
      BY <3>2, <3>5
    <3> QED BY <3>3, <3>4, <3>5
  <2> HIDE DEF Seen, hs, t
  <2>5. hs[i - 1].custom[t] = <<>>
    BY <2>1, <2>2, <2>3
  <2>6. have(i) = [have(i - 1) EXCEPT ![t] = IF t = SecurityNegotiation THEN <<>> ELSE custom[t]]
    BY <2>1, <2>4
  <2>7. With(hs[i - 1], t, custom[t]) = hs[i]
    <3> DEFINE c == have(i - 1)  e == have(i)
    <3>1. hs[i - 1].fixed = fixed /\ hs[i - 1].custom = c /\ hs[i] = [fixed |-> fixed, custom |-> e]
      BY <2>2
    <3>2. e = [c EXCEPT ![t] = IF t = SecurityNegotiation THEN <<>> ELSE custom[t]]
      BY <2>6
    <3> HIDE DEF c, e
    <3> QED BY <3>1, <3>2 DEF With
  <2>8. Len(seqs[i]) < LengthLimit
    <3>1. Len(FlattenSeq(seqs)) < LengthLimit
      OBVIOUS
    <3>2. i \in 1 .. Len(seqs)
      BY <1>4
    <3> HIDE DEF seqs
    <3> QED BY <1>4, <3>1, <3>2, PartFits
  <2>9. seqs[i] = WriteValues(t, custom[t])
    BY <1>4 DEF t
  <2>10. Reads(WriteValues(t, custom[t]), hs[i - 1], With(hs[i - 1], t, custom[t]))
    BY <2>1, <2>2, <2>5, <2>8, <2>9, ReadsValues
  <2> QED BY <2>7, <2>9, <2>10
<1> HIDE DEF hs
<1>10. Reads(FlattenSeq(seqs), hs[0], hs[n])
  <2> HIDE DEF seqs
  <2>1. \A i \in 1 .. Len(seqs) : Reads(seqs[i], hs[i - 1], hs[i])
    BY <1>4, <1>9
  <2>2. Reads(FlattenSeq(seqs), hs[0], hs[Len(seqs)])
    BY <1>4, <1>7, <2>1, ReadsAll
  <2> QED BY <1>4, <2>2
<1> QED BY <1>7, <1>8, <1>10

\* Calls of SetCustomHeader and AppendCustomHeader.
Calls == [type : CustomIds, values : Seq(Cells) \ {<<>>}]

\* The calls that set a type, and the first of them.
CallsOf(ops, t)    == {i \in DOMAIN ops : ops[i].type = t}
IsFirst(ops, t, i) == i \in CallsOf(ops, t) /\ \A j \in CallsOf(ops, t) : i <= j

\* What is stored for a type is what the first call for it gives.
LEMMA StoredIs ==
    ASSUME NEW ops \in Seq(Calls)
    PROVE  /\ Stored(ops) \in [CustomIds -> Seq(Cells)]
           /\ \A t \in CustomIds :
                  \/ CallsOf(ops, t) = {} /\ Stored(ops)[t] = <<>>
                  \/ \E i \in 1 .. Len(ops) : IsFirst(ops, t, i) /\ Stored(ops)[t] = ops[i].values
<1> DEFINE n == Len(ops)
           S == [CustomIds -> Seq(Cells)]
           a == NoHeaders.custom
           next(k, c) == IF k < n THEN Store(c, ops[k + 1]) ELSE c
           g == [z \in Nat \X S |-> next(z[1], z[2])]
           after == CHOOSE f : f = [k \in 0 .. n |-> IF k = 0 THEN a ELSE Store(f[k - 1], ops[k])]
<1>1. /\ n \in Nat /\ DOMAIN ops = 1 .. n
      /\ \A i \in 1 .. n : ops[i].type \in CustomIds /\ ops[i].values \in Seq(Cells) /\ ops[i].values # <<>>
  <2>1. n \in Nat /\ DOMAIN ops = 1 .. n /\ \A i \in 1 .. n : ops[i] \in Calls
    <3> HIDE DEF Calls
    <3> QED OBVIOUS
  <2> HIDE DEF Cells, n
  <2> QED BY <2>1 DEF Calls
<1>2. a \in S
  BY NoneKept DEF Kept
<1>3. Stored(ops) = after[n]
  BY DEF Stored
<1> HIDE DEF n, after
<1>4. ASSUME NEW k \in Nat, NEW c \in S PROVE next(k, c) \in S
  <2>1. CASE k < n
    <3> DEFINE op == ops[k + 1]
    <3>1. op.type \in CustomIds /\ op.values \in Seq(Cells)
      BY <1>1, <2>1
    <3>2. next(k, c) = Store(c, op)
      BY <2>1
    <3> HIDE DEF op, Cells
    <3> QED BY <3>1, <3>2 DEF Store
  <2> QED BY <2>1
<1>5. \A k \in Nat, c \in S : g[<<k, c>>] = next(k, c)
  <2> HIDE DEF S, next
  <2> QED OBVIOUS
<1>6. g \in [Nat \X S -> S]
  <2> HIDE DEF S, next
  <2> SUFFICES ASSUME NEW z \in Nat \X S PROVE next(z[1], z[2]) \in S
    OBVIOUS
  <2>1. z[1] \in Nat /\ z[2] \in S
    OBVIOUS
  <2> QED BY <1>4, <2>1
<1>7. Steps(g, S)
  BY <1>6 DEF Steps
<1> HIDE DEF g, S, a
<1>8. PICK f : Goes(f, n, S, a, g)
  BY ONLY <1>1, <1>2, <1>7, GoesFar
<1>9. f \in [0 .. n -> S] /\ f[0] = a
  BY <1>8 DEF Goes
<1>10. ASSUME NEW k \in 0 .. n, k # 0 PROVE f[k] = Store(f[k - 1], ops[k])
  <2>1. k - 1 \in Nat /\ k - 1 \in 0 .. n /\ k - 1 \in 0 .. n - 1 /\ k - 1 + 1 = k /\ k - 1 < n
    BY <1>1, <1>10
  <2>2. f[k - 1] \in S
    BY <1>9, <2>1
  <2>3. f[k - 1 + 1] = g[<<k - 1, f[k - 1]>>]
    BY <1>8, <2>1 DEF Goes
  <2> QED BY <1>5, <2>1, <2>2, <2>3
<1>11. f = [k \in 0 .. n |-> IF k = 0 THEN a ELSE Store(f[k - 1], ops[k])]
  BY <1>9, <1>10
<1>12. after = [k \in 0 .. n |-> IF k = 0 THEN a ELSE Store(after[k - 1], ops[k])]
  BY <1>11 DEF after
<1> DEFINE Found(k, t) ==
               \/ after[k][t] = <<>> /\ \A i \in 1 .. k : ops[i].type # t
               \/ \E i \in 1 .. k : /\ ops[i].type = t /\ after[k][t] = ops[i].values
                                    /\ \A j \in 1 .. i - 1 : ops[j].type # t
           I == {k \in Nat : k <= n => after[k] \in S /\ \A t \in CustomIds : Found(k, t)}
<1>13. 0 \in I
  <2>1. after[0] = a
    BY <1>1, <1>12
  <2>2. \A t \in CustomIds : a[t] = <<>>
    BY DEF a, NoHeaders
  <2> QED BY <1>2, <2>1, <2>2
<1>14. ASSUME NEW k \in Nat, k \in I PROVE k + 1 \in I
  <2> SUFFICES ASSUME k + 1 <= n PROVE after[k + 1] \in S /\ \A t \in CustomIds : Found(k + 1, t)
    OBVIOUS
  <2> DEFINE p == k + 1  op == ops[p]
  <2>1. p \in 0 .. n /\ p \in 1 .. n /\ p # 0 /\ p - 1 = k /\ k <= n /\ k < n
    BY <1>1
  <2>2. after[k] \in S /\ \A t \in CustomIds : Found(k, t)
    BY <1>14, <2>1
  <2>3. op.type \in CustomIds /\ op.values # <<>>
    BY <1>1, <2>1
  <2>4. next(k, after[k]) = Store(after[k], op)
    BY <2>1
  <2>5. (\A i \in 1 .. p : i \in 1 .. k \/ i = p) /\ (\A i \in 1 .. k : i \in 1 .. p) /\ p \in 1 .. p
        /\ \A j \in 1 .. p - 1 : j \in 1 .. k
    OBVIOUS
  <2> HIDE DEF p
  <2>6. after[p] = Store(after[p - 1], ops[p])
    BY <1>12, <2>1
  <2> HIDE DEF op, next
  <2>7. after[p] = Store(after[k], op)
    BY <2>1, <2>6 DEF op
  <2>8. after[p] \in S
    BY <1>4, <2>2, <2>4, <2>7
  <2>9. ASSUME NEW t \in CustomIds PROVE Found(p, t)
    <3>1. CASE after[k][op.type] = <<>> /\ t = op.type
      <4>1. after[p] = [after[k] EXCEPT ![t] = op.values]
        BY <2>7, <3>1 DEF Store
      <4>2. after[p][t] = op.values
        BY <2>2, <4>1 DEF S
      <4>3. \A i \in 1 .. k : ops[i].type # t
        <5>1. \A i \in 1 .. n : ops[i].values # <<>>
          BY <1>1
        <5>2. \A i \in 1 .. k : i \in 1 .. n
          BY <1>1, <2>1
        <5> QED BY <2>2, <3>1, <5>1, <5>2
      <4>4. ops[p].type = t /\ after[p][t] = ops[p].values
        BY <3>1, <4>2 DEF op
      <4> QED BY <2>5, <4>3, <4>4
    <3>2. CASE ~ (after[k][op.type] = <<>> /\ t = op.type)
      <4>1. after[p][t] = after[k][t]
        BY <2>2, <2>3, <2>7, <3>2 DEF Store, S
      <4>2. CASE after[k][t] = <<>> /\ \A i \in 1 .. k : ops[i].type # t
        <5>1. ops[p].type # t
          BY <3>2, <4>2 DEF op
        <5>2. \A i \in 1 .. p : ops[i].type # t
          BY <2>5, <4>2, <5>1
        <5> QED BY <4>1, <4>2, <5>2
      <4>3. CASE \E i \in 1 .. k : /\ ops[i].type = t /\ after[k][t] = ops[i].values
                                   /\ \A j \in 1 .. i - 1 : ops[j].type # t
        BY <2>5, <4>1, <4>3
      <4> QED BY <2>2, <4>2, <4>3
    <3> QED BY <3>1, <3>2
  <2> QED BY <2>8, <2>9 DEF p
<1> HIDE DEF I
<1>15. Nat \subseteq I
  BY <1>13, <1>14, NatInd
<1>16. after[n] \in S /\ \A t \in CustomIds : Found(n, t)
  BY <1>1, <1>15 DEF I
<1>17. ASSUME NEW t \in CustomIds
       PROVE  \/ CallsOf(ops, t) = {} /\ after[n][t] = <<>>
              \/ \E i \in 1 .. n : IsFirst(ops, t, i) /\ after[n][t] = ops[i].values
  <2>1. CASE after[n][t] = <<>> /\ \A i \in 1 .. n : ops[i].type # t
    BY <1>1, <2>1 DEF CallsOf
  <2>2. ASSUME NEW i \in 1 .. n, ops[i].type = t, after[n][t] = ops[i].values,
               \A j \in 1 .. i - 1 : ops[j].type # t
        PROVE  \E k \in 1 .. n : IsFirst(ops, t, k) /\ after[n][t] = ops[k].values
    <3>1. ASSUME NEW j \in CallsOf(ops, t) PROVE i <= j
      <4>1. j \in 1 .. n /\ ops[j].type = t
        BY <1>1 DEF CallsOf
      <4>2. ~ (j < i)
        <5>1. j < i => j \in 1 .. i - 1
          BY <4>1
        <5> QED BY <2>2, <4>1, <5>1
      <4> QED BY <4>1, <4>2
    <3>2. i \in CallsOf(ops, t)
      BY <1>1, <2>2 DEF CallsOf
    <3> QED BY <2>2, <3>1, <3>2 DEF IsFirst
  <2> QED BY <1>16, <2>1, <2>2
<1> QED BY <1>3, <1>16, <1>17 DEF S, n

\* What FirstCall picks is what the calls stored, if it is kept.
LEMMA FirstCallIs ==
    ASSUME NEW ops \in Seq(Calls), NEW t \in CustomIds
    PROVE  FirstCall(ops, t) = IF t = SecurityNegotiation THEN <<>> ELSE Stored(ops)[t]
<1>1. CASE CallsOf(ops, t) = {}
  <2>1. Stored(ops)[t] = <<>>
    BY <1>1, StoredIs DEF IsFirst
  <2> QED BY <1>1, <2>1 DEF FirstCall, CallsOf
<1>2. CASE CallsOf(ops, t) # {}
  <2>1. PICK i \in 1 .. Len(ops) : IsFirst(ops, t, i) /\ Stored(ops)[t] = ops[i].values
    BY <1>2, StoredIs
  <2> DEFINE first == CHOOSE k \in CallsOf(ops, t) : \A j \in CallsOf(ops, t) : k <= j
  <2>2. \A k \in CallsOf(ops, t) : k \in Nat
    <3>1. DOMAIN ops = 1 .. Len(ops)
      <4> HIDE DEF Calls
      <4> QED OBVIOUS
    <3> QED BY <3>1 DEF CallsOf
  <2>3. first \in CallsOf(ops, t) /\ (\A j \in CallsOf(ops, t) : first <= j)
    BY <2>1 DEF IsFirst
  <2>4. first <= i /\ i <= first /\ i \in Nat /\ first \in Nat
    BY <2>1, <2>2, <2>3 DEF IsFirst
  <2>5. first = i
    BY <2>4
  <2>6. FirstCall(ops, t) = IF CallsOf(ops, t) = {} \/ t = SecurityNegotiation THEN <<>> ELSE ops[first].values
    BY DEF FirstCall, CallsOf
  <2> HIDE DEF first
  <2> QED BY <1>2, <2>1, <2>5, <2>6
<1> QED BY <1>1, <1>2

\* Cells after cells are cells.
LEMMA FlatCells == ASSUME NEW seqs \in Seq(Cells) PROVE FlattenSeq(seqs) \in Cells
<1>1. seqs \in Seq(Seq(Cell))
  BY DEF Cells
<1>2. Len(seqs) \in 0 .. Len(seqs)
  BY <1>1
<1>3. Pre(seqs, Len(seqs)) = FlattenSeq(seqs) /\ Pre(seqs, Len(seqs)) \in Seq(Cell)
  BY <1>1, <1>2, PreSteps
<1> QED BY <1>3 DEF Cells

\* A message is read as it was written (message.go:20-70).
THEOREM MessageRead ==
    ASSUME NEW fixed, IsFixed(fixed), NEW ops \in Seq(Calls), NEW order \in Orders, NEW body \in Cells
    PROVE  MessageReadBack(fixed, ops, order, body)
<1> USE HeadersAssumption
<1> DEFINE custom == Stored(ops)
           h  == [fixed |-> fixed, custom |-> custom]
           fs == [k \in Fixed |-> WriteField(k, fixed[k])]
           cs == [i \in DOMAIN order |-> WriteValues(order[i], custom[order[i]])]
           a  == FlattenSeq(fs)
           b  == FlattenSeq(cs)
           w  == WriteTo(h, order)
           h2 == [fixed |-> fixed, custom |-> [t \in CustomIds |-> FirstCall(ops, t)]]
           read == ReadMessage(WriteMessage(h, order, body))
<1> SUFFICES ASSUME Len(w) < LengthLimit
             PROVE  read.body = body /\ read.headers = h2
  BY DEF MessageReadBack
<1>1. custom \in [CustomIds -> Seq(Cells)] /\ fixed \in [Fixed -> Cells]
  BY StoredIs DEF IsFixed
<1>2. w = a \o b
  BY DEF WriteTo, WriteValues
<1>3. h2 = [fixed |-> fixed,
            custom |-> [t \in CustomIds |-> IF t = SecurityNegotiation THEN <<>> ELSE custom[t]]]
  BY FirstCallIs
<1>4. a \in Cells
  <2>1. ASSUME NEW k \in Fixed PROVE WriteField(k, fixed[k]) \in Cells
    <3>1. k \in Nat /\ fixed[k] \in Cells
      BY <1>1 DEF Fixed
    <3>2. WriteHeader(k, fixed[k]) \in Cells
      BY <3>1, HeaderCells
    <3>3. <<>> \in Cells
      BY DEF Cells
    <3> QED BY <3>2, <3>3 DEF WriteField
  <2>2. fs \in Seq(Cells)
    <3> HIDE DEF Cells
    <3> QED BY <2>1 DEF Fixed
  <2> HIDE DEF fs
  <2> QED BY <2>2, FlatCells
<1>5. b \in Cells
  <2> DEFINE n == Cardinality(CustomIds)
  <2>1. n \in Nat /\ order \in [1 .. n -> CustomIds] /\ DOMAIN order = 1 .. n
    BY FS_CardinalityType DEF Orders
  <2> HIDE DEF n, custom
  <2>2. ASSUME NEW i \in 1 .. n PROVE WriteValues(order[i], custom[order[i]]) \in Cells
    <3>1. order[i] \in CustomIds
      BY <2>1
    <3>2. order[i] \in Nat /\ custom[order[i]] \in Seq(Cells)
      <4> HIDE DEF Cells
      <4> QED BY <1>1, <3>1
    <3> QED BY <3>2, ValuesCells
  <2>3. cs \in Seq(Cells)
    <3> HIDE DEF Cells
    <3> QED BY <2>1, <2>2
  <2> HIDE DEF cs
  <2> QED BY <2>3, FlatCells
<1> HIDE DEF custom, a, b, w
<1>6. w \in Cells /\ Len(w) = Len(a) + Len(b) /\ Len(a) \in Nat /\ Len(b) \in Nat
  BY ONLY <1>2, <1>4, <1>5, CatCells
<1>7. Len(a) < LengthLimit /\ Len(b) < LengthLimit /\ Len(w) % LengthLimit = Len(w) /\ Len(w) \in Nat
  <2> DEFINE la == Len(a)  lb == Len(b)  lw == Len(w)
  <2>1. la \in Nat /\ lb \in Nat /\ lw = la + lb /\ lw < LengthLimit
    BY <1>6
  <2> HIDE DEF la, lb, lw
  <2>2. la < LengthLimit /\ lb < LengthLimit /\ lw % LengthLimit = lw /\ lw \in Nat
    BY <2>1
  <2> QED BY <2>2 DEF la, lb, lw
<1>8. Reads(a, NoHeaders, [fixed |-> fixed, custom |-> NoHeaders.custom])
  BY <1>7, ReadsFields DEF a
<1>9. Reads(b, [fixed |-> fixed, custom |-> NoHeaders.custom], h2)
  BY <1>1, <1>3, <1>7, ReadsCustom DEF b
<1>10. Reads(w, NoHeaders, h2)
  BY <1>2, <1>8, <1>9, ReadsBoth
<1> HIDE DEF h2, h
<1>11. Parse(w, NoHeaders) = h2
  <2>1. <<>> \in Cells /\ w \o <<>> = w
    BY <1>6, ConcatEmptySeq DEF Cells
  <2>2. Parse(w, NoHeaders) = Parse(<<>>, h2) /\ h2 \in Kept
    <3>1. h2 \in Kept /\ Parse(w \o <<>>, NoHeaders) = Parse(<<>>, h2)
      BY <1>10, <2>1 DEF Reads
    <3> QED BY <2>1, <3>1
  <2>3. PICK f : Turns(f, Len(<<>>), [rest |-> <<>>, headers |-> h2]) /\ Parse(<<>>, h2) = f[Len(<<>>)].headers
    BY <2>1, <2>2, ParseIs
  <2>4. f[0] = [rest |-> <<>>, headers |-> h2] /\ Parse(<<>>, h2) = f[0].headers
    BY <2>3 DEF Turns
  <2> QED BY <2>2, <2>4
<1> DEFINE c == w \o body
<1>12. /\ SubSeq(c, 1, Len(w)) = w
       /\ SubSeq(c, Len(w) + 1, Len(w) + Len(body)) = body
       /\ Len(c) = Len(w) + Len(body)
  BY ONLY <1>6, body \in Cells, CatCells
<1>13. WriteMessage(h, order, body) = [HeaderLength |-> Len(w), content |-> c]
  BY <1>7 DEF WriteMessage, w
<1> HIDE DEF c
<1>14. read = [headers |-> Parse(w, NoHeaders), body |-> body]
  <2> DEFINE m == WriteMessage(h, order, body)  l == Len(w)
  <2>1. m.HeaderLength = l /\ m.content = c
    BY <1>13
  <2>2. read = [headers |-> Parse(SubSeq(m.content, 1, m.HeaderLength), NoHeaders),
                body    |-> SubSeq(m.content, m.HeaderLength + 1, Len(m.content))]
    BY DEF ReadMessage
  <2>3. SubSeq(c, 1, l) = w /\ SubSeq(c, l + 1, Len(c)) = body
    BY <1>12
  <2> HIDE DEF m, l, read
  <2> QED BY <2>1, <2>2, <2>3
<1> QED BY <1>11, <1>14

-----------------------------------------------------------------------------
(* NodeRing: ids, ranges and the choice of a partner.                      *)

\* An id as one number.
Val(u) == u.Hi * Limb + u.Lo

\* A limb more outweighs any low limb.
LEMMA HighLimb ==
    ASSUME NEW a \in Nat, NEW b \in Nat, a < b, NEW c \in 0 .. Limb - 1, NEW d \in 0 .. Limb - 1
    PROVE  a * Limb + c < b * Limb + d
<1> USE RingAssumption
<1>1. PICK k \in Nat : b = a + 1 + k
  <2>1. b - a - 1 \in Nat /\ b = a + 1 + (b - a - 1)
    OBVIOUS
  <2> QED BY <2>1
<1>2. b * Limb = a * Limb + Limb + k * Limb
  BY <1>1
<1>3. k * Limb \in Nat /\ a * Limb \in Nat
  OBVIOUS
<1>4. DEFINE x == a * Limb  y == k * Limb  z == b * Limb
<1>5. z = x + Limb + y /\ x \in Nat /\ y \in Nat
  BY <1>2, <1>3
<1> HIDE DEF x, y, z
<1>6. x + c < z + d
  BY <1>5
<1> QED BY <1>6 DEF x, z

\* cmp orders ids as numbers.
THEOREM CmpIsOrder ==
    ASSUME NEW u \in NodeID, NEW v \in NodeID
    PROVE  /\ cmp(u, v) = -1 <=> Val(u) < Val(v)
           /\ cmp(u, v) = 0  <=> u = v
<1> USE RingAssumption
<1>1. /\ u.Hi \in 0 .. Limb - 1 /\ u.Lo \in 0 .. Limb - 1
      /\ v.Hi \in 0 .. Limb - 1 /\ v.Lo \in 0 .. Limb - 1
  BY DEF NodeID
<1>2. u = v <=> u.Hi = v.Hi /\ u.Lo = v.Lo
  BY DEF NodeID
<1>3. ASSUME u.Hi < v.Hi PROVE Val(u) < Val(v)
  <2>1. u.Hi \in Nat /\ v.Hi \in Nat
    BY <1>1
  <2>2. u.Hi * Limb + u.Lo < v.Hi * Limb + v.Lo
    BY ONLY <1>1, <1>3, <2>1, HighLimb
  <2> QED BY <2>2 DEF Val
<1>4. ASSUME v.Hi < u.Hi PROVE Val(v) < Val(u)
  <2>1. u.Hi \in Nat /\ v.Hi \in Nat
    BY <1>1
  <2>2. v.Hi * Limb + v.Lo < u.Hi * Limb + u.Lo
    BY ONLY <1>1, <1>4, <2>1, HighLimb
  <2> QED BY <2>2 DEF Val
<1>5. ASSUME u.Hi = v.Hi PROVE Val(u) < Val(v) <=> u.Lo < v.Lo
  <2> DEFINE x == u.Hi * Limb
  <2>1. x \in Int
    BY <1>1
  <2>2. Val(u) = x + u.Lo /\ Val(v) = x + v.Lo
    BY <1>5 DEF Val
  <2> HIDE DEF x
  <2> QED BY <1>1, <2>1, <2>2
<1>6. Val(u) \in Int /\ Val(v) \in Int
  BY <1>1 DEF Val
<1> HIDE DEF Val
<1>7. cmp(u, v) = -1 <=> u.Hi < v.Hi \/ (u.Hi = v.Hi /\ u.Lo < v.Lo)
  BY <1>1, <1>2 DEF cmp
<1>8. u.Hi < v.Hi \/ u.Hi = v.Hi \/ v.Hi < u.Hi
  BY <1>1
<1>9. cmp(u, v) = -1 <=> Val(u) < Val(v)
  BY <1>1, <1>3, <1>4, <1>5, <1>6, <1>7, <1>8
<1>10. cmp(u, v) = 0 <=> u = v
  BY DEF cmp
<1> QED BY <1>9, <1>10

\* sub is subtraction on the ring: adding v to the result gives u.
THEOREM SubInverts ==
    ASSUME NEW u \in NodeID, NEW v \in NodeID PROVE SubIsInverse(u, v)
<1> USE RingAssumption
<1>1. /\ u.Hi \in 0 .. Limb - 1 /\ u.Lo \in 0 .. Limb - 1
      /\ v.Hi \in 0 .. Limb - 1 /\ v.Lo \in 0 .. Limb - 1
      /\ u = [Hi |-> u.Hi, Lo |-> u.Lo]
  BY DEF NodeID
<1> DEFINE s == sub(u, v)
<1>2. s.Lo = Wrap(u.Lo - v.Lo) /\ s.Hi = Wrap(u.Hi - v.Hi - Borrow(u.Lo, v.Lo))
  BY DEF sub
<1>3. s \in NodeID
  BY <1>1 DEF sub, Wrap, Borrow, NodeID
<1>4. (s.Lo + v.Lo) % Limb = u.Lo /\ (s.Lo + v.Lo >= Limb <=> u.Lo < v.Lo)
  <2>1. CASE u.Lo < v.Lo
    <3>1. s.Lo + v.Lo = u.Lo + Limb
      BY <1>1, <1>2, <2>1 DEF Wrap
    <3> QED BY <1>1, <2>1, <3>1
  <2>2. CASE ~ (u.Lo < v.Lo)
    <3>1. s.Lo + v.Lo = u.Lo
      BY <1>1, <1>2, <2>2 DEF Wrap
    <3> QED BY <1>1, <2>2, <3>1
  <2> QED BY <2>1, <2>2
<1> DEFINE b == Borrow(u.Lo, v.Lo)
<1>5. b \in {0, 1} /\ (b = 1 <=> u.Lo < v.Lo)
  BY <1>1 DEF Borrow
<1>6. (s.Hi + v.Hi + b) % Limb = u.Hi
  <2>1. s.Hi = Wrap(u.Hi - v.Hi - b)
    BY <1>2
  <2> HIDE DEF b, s
  <2>2. CASE u.Hi - v.Hi - b < 0
    <3>1. s.Hi + v.Hi + b = u.Hi + Limb
      BY <1>1, <1>5, <2>1, <2>2 DEF Wrap
    <3> QED BY <1>1, <3>1
  <2>3. CASE ~ (u.Hi - v.Hi - b < 0)
    <3>1. s.Hi + v.Hi + b = u.Hi
      BY <1>1, <1>5, <2>1, <2>3 DEF Wrap
    <3> QED BY <1>1, <3>1
  <2> QED BY <2>2, <2>3
<1>7. Plus(s, v) = [Hi |-> u.Hi, Lo |-> u.Lo]
  <2> HIDE DEF s, b
  <2>1. (IF s.Lo + v.Lo >= Limb THEN 1 ELSE 0) = b
    BY <1>4, <1>5
  <2> QED BY <1>4, <1>6, <2>1 DEF Plus
<1> QED BY <1>1, <1>3, <1>7 DEF SubIsInverse

\* Two ids are at distance zero only when they are one id.
LEMMA ZeroDistance ==
    ASSUME NEW u \in NodeID, NEW v \in NodeID PROVE sub(u, v) = u128zero <=> u = v
<1> USE RingAssumption
<1>1. /\ u.Hi \in 0 .. Limb - 1 /\ u.Lo \in 0 .. Limb - 1
      /\ v.Hi \in 0 .. Limb - 1 /\ v.Lo \in 0 .. Limb - 1
  BY DEF NodeID
<1>2. u = v <=> u.Hi = v.Hi /\ u.Lo = v.Lo
  BY DEF NodeID
<1>3. Wrap(u.Lo - v.Lo) = 0 <=> u.Lo = v.Lo
  BY <1>1 DEF Wrap
<1>4. u.Lo = v.Lo => (Wrap(u.Hi - v.Hi - Borrow(u.Lo, v.Lo)) = 0 <=> u.Hi = v.Hi)
  BY <1>1 DEF Wrap, Borrow
<1> QED BY <1>2, <1>3, <1>4 DEF sub, u128zero

\* NodeIdRange.Contains never takes in an id off its arc, and what it misses of
\* the arc is the part of a wrapping range before zero (nodeid_range.go:12-31).
THEOREM ContainsSound ==
    ASSUME NEW s \in NodeID, NEW e \in NodeID, NEW i \in NodeID PROVE ContainsIsSound(s, e, i)
<1> USE RingAssumption DEF NodeID
<1>1. cmp(s, e) > 0 => ~ (cmp(u128max, e) <= 0)
  BY DEF cmp, u128max
<1>2. cmp(u128zero, i) <= 0
  BY DEF cmp, u128zero
<1>3. CASE cmp(s, e) > 0
  <2>1. RangeContains(s, e, i) <=> cmp(i, e) <= 0
    BY <1>1, <1>2, <1>3 DEF RangeContains, WrappedContains, UpTo
  <2>2. OnArc(s, e, i) <=> cmp(s, i) <= 0 \/ cmp(i, e) <= 0
    BY <1>3 DEF OnArc
  <2> QED BY <1>3, <2>1, <2>2 DEF ContainsIsSound
<1>4. CASE ~ (cmp(s, e) > 0)
  <2>1. RangeContains(s, e, i) <=> OnArc(s, e, i)
    BY <1>4 DEF RangeContains, UpTo, OnArc
  <2> QED BY <2>1 DEF ContainsIsSound
<1> QED BY <1>3, <1>4

\* SendOneWay reaches the node it names or none, in whatever order the map is
\* iterated (sitenode_sender.go:76-91, sitenode_parteners.go:45-63).
THEOREM SendersReachTheNode ==
    ASSUME NEW parts \in Seq(NodeID), NEW id \in NodeID PROVE ExactNodeOrNone(parts, id)
<1> USE RingAssumption
<1>1. \A k \in DOMAIN parts : AtNode(parts, id, k) <=> parts[k] = id
  BY ZeroDistance DEF AtNode
<1>2. CASE \E k \in DOMAIN parts : parts[k] = id
  <2> DEFINE c == CHOOSE k \in DOMAIN parts : AtNode(parts, id, k)
  <2>1. c \in DOMAIN parts /\ AtNode(parts, id, c)
    BY <1>1, <1>2
  <2>2. closestPartnerNode(parts, id) = parts[c]
    BY <2>1 DEF closestPartnerNode
  <2>3. closestPartnerNode(parts, id) = id
    BY <1>1, <2>1, <2>2
  <2> QED BY <1>2, <2>3 DEF ExactNodeOrNone, ConnectTo
<1>3. CASE ~ \E k \in DOMAIN parts : parts[k] = id
  <2>1. \A k \in DOMAIN parts : ~ AtNode(parts, id, k)
    BY <1>1, <1>3
  <2>2. closestPartnerNode(parts, id) # id
    <3>1. CASE \E k \in DOMAIN parts : cmp(sub(parts[k], id), u128max) < 0
      <4>1. Len(parts) \in DOMAIN parts
        BY <3>1
      <4> QED BY <1>3, <2>1, <3>1, <4>1 DEF closestPartnerNode
    <3>2. CASE ~ \E k \in DOMAIN parts : cmp(sub(parts[k], id), u128max) < 0
      BY <2>1, <3>2 DEF closestPartnerNode
    <3> QED BY <3>1, <3>2
  <2> QED BY <1>3, <2>2 DEF ExactNodeOrNone, ConnectTo
<1> QED BY <1>2, <1>3

-----------------------------------------------------------------------------
(* The calls.                                                              *)

\* A call has an input a caller can have.
CallInv ==
    /\ call.fn = "Compress" =>
           /\ call.size \in Nat \ {0} /\ call.size % 7 # 0 /\ 8 * call.size <= WordBits
           /\ call.value \in -Word .. Word - 1
    /\ call.fn = "Lease" => IsMessage(call.message) /\ call.more \in Cells /\ call.connects \in Nat
    /\ call.fn = "Headers" =>
           IsFixed(call.fixed) /\ call.ops \in Seq(Calls) /\ call.order \in Orders /\ call.body \in Cells
    /\ call.fn = "Contains" => call.s \in NodeID /\ call.e \in NodeID /\ call.i \in NodeID
    /\ call.fn = "Connect"  => call.parts \in Seq(NodeID) /\ call.id \in NodeID

\* A table in any order is a sequence of ids.
LEMMA TablesAreSequences == Tables \subseteq Seq(NodeID)
<1> SUFFICES ASSUME NEW parts \in Tables PROVE parts \in Seq(NodeID)
  OBVIOUS
<1>1. PICK k \in 0 .. MaxPartners : parts \in [1 .. k -> NodeID]
  BY DEF Tables
<1>2. k \in Nat
  BY <1>1, PartnersAssumption
<1> QED BY <1>1, <1>2

\* The calls of one message are calls with data.
LEMMA OpsAreCalls == BoundedSeq(HeaderOps, 2) \subseteq Seq(Calls)
<1> USE MessagesAssumption
<1>1. ASSUME NEW S PROVE BoundedSeq(S, 2) \subseteq Seq(S)
  <2> SUFFICES ASSUME NEW s \in BoundedSeq(S, 2) PROVE s \in Seq(S)
    OBVIOUS
  <2>1. PICK n \in 0 .. 2 : s \in [1 .. n -> S]
    BY DEF BoundedSeq, SeqOf
  <2> QED BY <2>1
<1>2. BoundedSeq(Data, 2) \subseteq Seq(Data)
  BY <1>1
<1>3. Seq(Data) \subseteq Seq(Cells)
  <2> HIDE DEF Cells
  <2> QED OBVIOUS
<1>4. HeaderOps \subseteq Calls
  BY <1>2, <1>3 DEF HeaderOps, Calls
<1>5. BoundedSeq(HeaderOps, 2) \subseteq Seq(HeaderOps)
  BY <1>1
<1>6. Seq(HeaderOps) \subseteq Seq(Calls)
  BY <1>4
<1> QED BY <1>5, <1>6

\* In every call the input is one a caller can have.
LEMMA CallsHaveInputs == CallsSpec => []CallInv
<1>1. Init => CallInv
  BY DEF Init, CallInv
<1>2. CallInv /\ [NextCall]_call => CallInv'
  <2> SUFFICES ASSUME CallInv, [NextCall]_call PROVE CallInv'
    OBVIOUS
  <2>1. CASE CallCompress
    BY <2>1, IntegersAssumption DEF CallCompress, CallInv
  <2>2. CASE CallLease
    <3>1. PICK m \in LeaseMessages, more \in Trailers, connects \in 0 .. MaxConnects :
              call' = [fn |-> "Lease", message |-> m, more |-> more, connects |-> connects]
      BY <2>2 DEF CallLease
    <3>2. IsMessage(m) /\ more \in Cells /\ connects \in Nat
      BY LeaseMessagesAssumption
    <3> QED BY <3>1, <3>2 DEF CallInv
  <2>3. CASE CallHeaders
    <3>1. PICK fixed \in FixedHeaders, body \in Bodies, order \in Orders :
          \E ops \in BoundedSeq(HeaderOps, 2) :
              call' = [fn |-> "Headers", fixed |-> fixed, ops |-> ops, order |-> order, body |-> body]
      BY <2>3 DEF CallHeaders
    <3>2. PICK ops \in BoundedSeq(HeaderOps, 2) :
              call' = [fn |-> "Headers", fixed |-> fixed, ops |-> ops, order |-> order, body |-> body]
      BY <3>1
    <3>3. IsFixed(fixed) /\ body \in Cells /\ ops \in Seq(Calls)
      BY MessagesAssumption, OpsAreCalls
    <3> QED BY <3>2, <3>3 DEF CallInv
  <2>4. CASE CallContains
    BY <2>4 DEF CallContains, CallInv
  <2>5. CASE CallConnect
    BY <2>5, TablesAreSequences DEF CallConnect, CallInv
  <2>6. CASE UNCHANGED call
    BY <2>6 DEF CallInv
  <2> QED BY <2>1, <2>2, <2>3, <2>4, <2>5, <2>6 DEF NextCall
<1> QED BY <1>1, <1>2, PTL DEF CallsSpec

\* In every call an integer that its type holds is read back from the bytes
\* written and from no part of them, for words of any width and every size that
\* is no multiple of seven (bytecompress.go:13-88).
THEOREM IntegersAreReadBack == CallsSpec => []IntegersReadBack
<1>1. CallInv => IntegersReadBack
  BY IntegerRead DEF CallInv, IntegersReadBack
<1> QED BY <1>1, CallsHaveInputs, PTL

\* In every call a lease message's descriptors address their lists and its
\* endpoint is read back, for messages of any lists and addresses, behind any
\* number of connect frames (lease/serialize.go:126-269, lease/frame.go:26-49).
THEOREM EndpointsAreReadBack == CallsSpec => []LeaseEndpointReadBack
<1>1. CallInv => LeaseEndpointReadBack
  BY EndpointRead DEF CallInv, LeaseEndpointReadBack
<1> QED BY <1>1, CallsHaveInputs, PTL

\* In every call a message's headers and body are read as they were written, for
\* data of any length and types in any order (message.go:20-70).
THEOREM HeadersAreReadBack == CallsSpec => []HeadersReadBack
<1>1. CallInv => HeadersReadBack
  BY MessageRead DEF CallInv, HeadersReadBack
<1> QED BY <1>1, CallsHaveInputs, PTL

\* In every call Contains is right or forgets the part of a wrapping range before
\* zero (nodeid_range.go:12-31).
THEOREM ContainsIsRightOrForgets == CallsSpec => []RangesAreSound
<1>1. CallInv => RangesAreSound
  BY ContainsSound DEF CallInv, RangesAreSound
<1> QED BY <1>1, CallsHaveInputs, PTL

\* In every call an exact send finds the node it names or none, for tables of any
\* length in any order (sitenode_sender.go:76-91).
THEOREM ExactSendsAreExact == CallsSpec => []SendersReachTheirNode
<1>1. CallInv => SendersReachTheirNode
  BY SendersReachTheNode DEF CallInv, SendersReachTheirNode
<1> QED BY <1>1, CallsHaveInputs, PTL
=============================================================================
