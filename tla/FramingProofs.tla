--------------------------- MODULE FramingProofs ---------------------------
(***************************************************************************)
(* What the reader of a half stream makes of the bytes: the codec loses    *)
(* nothing, and the frames read are the frames written.                    *)
(***************************************************************************)
EXTENDS Framing, WellFoundedInduction, TLAPS

USE SMTT(30)

-----------------------------------------------------------------------------
(* Recursion *)

\* A non-empty set of naturals has a least element. (The provers cannot
\* instantiate the induction theorems of the library; this consequence of the
\* well-foundedness of < serves in their place.)
LEMMA LeastNat ==
  ASSUME NEW T, T \subseteq Nat, T # {}
  PROVE  \E x \in T : \A y \in T : x <= y
<1>1. PICK x \in T : \A y \in T : ~ (<<y, x>> \in OpToRel(<, Nat))
  BY NatLessThanWellFounded, WFMin, Zenon
<1>2. \A y \in T : ~ (y < x) BY <1>1, Zenon DEF OpToRel
<1> QED BY <1>2

\* Induction up to n, the predicate being a set.
LEMMA UpInduction ==
  ASSUME NEW n \in Nat, NEW P, 0 \in P, \A i \in 1 .. n : i - 1 \in P => i \in P
  PROVE  0 .. n \subseteq P
<1> SUFFICES ASSUME NEW r \in 0 .. n, r \notin P PROVE FALSE BY Zenon
<1> DEFINE Bad == {i \in 0 .. n : i \notin P}
<1>1. Bad \subseteq Nat /\ Bad # {} OBVIOUS
<1>2. PICK x \in Bad : \A y \in Bad : x <= y BY <1>1, LeastNat, Zenon
<1>3. x \in 1 .. n /\ x - 1 \in 0 .. n /\ ~ (x <= x - 1) BY <1>2
<1>4. x - 1 \notin Bad BY <1>2, <1>3, Zenon
<1> QED BY <1>2, <1>3, <1>4, Zenon

\* g is computed from base by the steps up to n.
Computes(g, base, step, n) ==
    g = [i \in 0 .. n |-> IF i = 0 THEN base ELSE step[<<i, g[i - 1]>>]]

\* A computation of any length exists.
LEMMA ComputationExists ==
  ASSUME NEW base, NEW step, NEW n \in Nat
  PROVE  \E g : Computes(g, base, step, n)
<1> DEFINE P == {m \in 0 .. n : \E g : Computes(g, base, step, m)}
<1>1. 0 \in P
  <2> DEFINE g == [i \in 0 .. 0 |-> base]
  <2>1. \A i \in 0 .. 0 : i = 0 OBVIOUS
  <2>2. g = [i \in 0 .. 0 |-> IF i = 0 THEN base ELSE step[<<i, g[i - 1]>>]] BY <2>1, Zenon
  <2>3. Computes(g, base, step, 0) BY <2>2, Zenon DEF Computes
  <2>4. 0 \in 0 .. n OBVIOUS
  <2> QED BY <2>3, <2>4, Zenon
<1>2. ASSUME NEW m \in 1 .. n, m - 1 \in P PROVE m \in P
  <2>1. PICK g : Computes(g, base, step, m - 1) BY <1>2, Zenon
  <2> DEFINE h == [i \in 0 .. m |-> IF i = m THEN step[<<m, g[m - 1]>>] ELSE g[i]]
  <2>2. ASSUME NEW i \in 0 .. m PROVE h[i] = IF i = 0 THEN base ELSE step[<<i, h[i - 1]>>]
    <3>1. CASE i = m
      <4>1. m # 0 /\ m - 1 \in 0 .. m /\ m - 1 # m BY <1>2
      <4> QED BY <3>1, <4>1, Zenon
    <3>2. CASE i # m
      <4>1. i \in 0 .. m - 1 /\ (i # 0 => i - 1 \in 0 .. m /\ i - 1 # m) BY <3>2
      <4>2. g[i] = IF i = 0 THEN base ELSE step[<<i, g[i - 1]>>] BY <2>1, <4>1, Zenon DEF Computes
      <4> QED BY <3>2, <4>1, <4>2, Zenon
    <3> QED BY <3>1, <3>2, Zenon
  <2>3. h = [i \in 0 .. m |-> h[i]] BY Zenon
  <2> HIDE DEF h
  <2>4. [i \in 0 .. m |-> h[i]] = [i \in 0 .. m |-> IF i = 0 THEN base ELSE step[<<i, h[i - 1]>>]]
    BY <2>2, Zenon
  <2>5. Computes(h, base, step, m) BY <2>3, <2>4, Zenon DEF Computes
  <2>6. m \in 0 .. n OBVIOUS
  <2> QED BY <2>5, <2>6, Zenon
<1> HIDE DEF P
<1>3. 0 .. n \subseteq P BY <1>1, <1>2, UpInduction, Zenon
<1>4. n \in 0 .. n OBVIOUS
<1>5. n \in P BY <1>3, <1>4, Zenon
<1> QED BY <1>5, Zenon DEF P

\* Computations of different lengths agree.
LEMMA ComputationsAgree ==
  ASSUME NEW base, NEW step, NEW m \in Nat, NEW n \in Nat, m <= n,
         NEW g, Computes(g, base, step, m), NEW h, Computes(h, base, step, n)
  PROVE  \A i \in 0 .. m : g[i] = h[i]
<1> DEFINE P == {i \in 0 .. m : g[i] = h[i]}
<1>1. 0 \in 0 .. m /\ \A i \in 0 .. m : i \in 0 .. n OBVIOUS
<1>2. \A i \in 0 .. m : /\ g[i] = IF i = 0 THEN base ELSE step[<<i, g[i - 1]>>]
                        /\ h[i] = IF i = 0 THEN base ELSE step[<<i, h[i - 1]>>]
  BY <1>1, Zenon DEF Computes
<1>3. 0 \in P BY <1>1, <1>2, Zenon
<1>4. ASSUME NEW i \in 1 .. m, i - 1 \in P PROVE i \in P
  <2>1. i \in 0 .. m /\ i # 0 OBVIOUS
  <2> QED BY <1>2, <1>4, <2>1, Zenon
<1>5. 0 .. m \subseteq P BY <1>3, <1>4, UpInduction, Zenon
<1> QED BY <1>5, Zenon

-----------------------------------------------------------------------------
(* Sequences put together and taken apart *)

\* Sequences with the same entries are the same.
LEMMA SameSeq ==
  ASSUME NEW S, NEW x \in Seq(S), NEW y \in Seq(S), Len(x) = Len(y),
         \A i \in 1 .. Len(x) : x[i] = y[i]
  PROVE  x = y
<1>1. x = [i \in 1 .. Len(x) |-> x[i]] /\ y = [i \in 1 .. Len(y) |-> y[i]] OBVIOUS
<1> QED BY <1>1, Zenon

\* The b - a entries of x after the first a.
LEMMA PieceAt ==
  ASSUME NEW S, NEW x \in Seq(S), NEW a \in Nat, NEW b \in Nat, a <= b, b <= Len(x)
  PROVE  /\ SubSeq(x, a + 1, b) \in Seq(S) /\ Len(SubSeq(x, a + 1, b)) = b - a
         /\ \A i \in 1 .. b - a : SubSeq(x, a + 1, b)[i] = x[a + i]
OBVIOUS

\* What is written one after the other is found there again.
LEMMA Joined ==
  ASSUME NEW S, NEW x \in Seq(S), NEW y \in Seq(S)
  PROVE  /\ x \o y \in Seq(S) /\ Len(x \o y) = Len(x) + Len(y)
         /\ Len(x) \in Nat /\ Len(y) \in Nat
         /\ \A i \in 1 .. Len(x) : (x \o y)[i] = x[i]
         /\ \A i \in 1 .. Len(y) : (x \o y)[Len(x) + i] = y[i]
OBVIOUS

\* What comes first is cut off again.
LEMMA FirstPart ==
  ASSUME NEW S, NEW x \in Seq(S), NEW y \in Seq(S)
  PROVE  SubSeq(x \o y, 1, Len(x)) = x
<1> DEFINE m == Len(x)  z == x \o y
<1>1. z \in Seq(S) /\ m \in Nat /\ m <= Len(z) /\ \A i \in 1 .. m : z[i] = x[i] BY Joined
<1> HIDE DEF m, z
<1>2. /\ SubSeq(z, 0 + 1, m) \in Seq(S) /\ Len(SubSeq(z, 0 + 1, m)) = m - 0
      /\ \A i \in 1 .. m - 0 : SubSeq(z, 0 + 1, m)[i] = z[0 + i]
  BY <1>1, PieceAt
<1>3. /\ SubSeq(z, 1, m) \in Seq(S) /\ Len(SubSeq(z, 1, m)) = m
      /\ \A i \in 1 .. m : SubSeq(z, 1, m)[i] = z[i]
  BY <1>1, <1>2
<1>4. SubSeq(z, 1, m) = x BY <1>1, <1>3, SameSeq, Zenon DEF m
<1> QED BY <1>4, Zenon DEF m, z

\* What comes second is cut off again.
LEMMA SecondPart ==
  ASSUME NEW S, NEW x \in Seq(S), NEW y \in Seq(S)
  PROVE  SubSeq(x \o y, Len(x) + 1, Len(x) + Len(y)) = y
<1> DEFINE m == Len(x)  n == Len(y)  z == x \o y
<1>1. /\ z \in Seq(S) /\ m \in Nat /\ n \in Nat /\ Len(z) = m + n
      /\ \A i \in 1 .. n : z[m + i] = y[i]
  BY Joined
<1> HIDE DEF m, n, z
<1>2. /\ SubSeq(z, m + 1, m + n) \in Seq(S) /\ Len(SubSeq(z, m + 1, m + n)) = (m + n) - m
      /\ \A i \in 1 .. (m + n) - m : SubSeq(z, m + 1, m + n)[i] = z[m + i]
  BY <1>1, PieceAt
<1>3. (m + n) - m = n BY <1>1
<1>4. SubSeq(z, m + 1, m + n) = y BY <1>1, <1>2, <1>3, SameSeq, Zenon DEF n
<1> QED BY <1>4, Zenon DEF m, n, z

\* The first entry and the ones after it.
LEMMA HeadAndRest ==
  ASSUME NEW S, NEW x \in Seq(S), NEW n \in Nat, 1 <= n, n <= Len(x)
  PROVE  SubSeq(x, 1, 1) \o SubSeq(x, 1 + 1, n) = SubSeq(x, 1, n)
<1> DEFINE a == SubSeq(x, 1, 1)  b == SubSeq(x, 1 + 1, n)  c == SubSeq(x, 1, n)  d == a \o b
<1>1. a \in Seq(S) /\ Len(a) = 1 /\ a[1] = x[1] OBVIOUS
<1>2. b \in Seq(S) /\ Len(b) = n - 1 /\ \A i \in 1 .. n - 1 : b[i] = x[1 + i]
  BY PieceAt
<1>3. c \in Seq(S) /\ Len(c) = n /\ \A i \in 1 .. n : c[i] = x[i] OBVIOUS
<1> HIDE DEF a, b, c
<1>4. d \in Seq(S) /\ Len(d) = 1 + (n - 1) /\ d[1] = a[1]
      /\ \A i \in 1 .. n - 1 : d[1 + i] = b[i]
  <2>1. d \in Seq(S) /\ Len(d) = Len(a) + Len(b) BY <1>1, <1>2, Joined, Zenon
  <2>2. /\ \A i \in 1 .. Len(a) : d[i] = a[i]
        /\ \A i \in 1 .. Len(b) : d[Len(a) + i] = b[i]
    <3>1. a \in Seq(S) /\ b \in Seq(S) BY <1>1, <1>2, Zenon
    <3> QED BY <3>1
  <2> HIDE DEF d
  <2> QED BY <1>1, <1>2, <2>1, <2>2
<1> HIDE DEF d
<1>5. ASSUME NEW i \in 1 .. n PROVE d[i] = c[i]
  <2>1. CASE i = 1 BY <1>1, <1>3, <1>4, <2>1, Zenon
  <2>2. CASE i # 1
    <3> PICK j : j = i - 1 BY Zenon
    <3>1. j \in 1 .. n - 1 /\ 1 + j = i BY <2>2
    <3>2. d[1 + j] = x[1 + j] BY <1>2, <1>4, <3>1, Zenon
    <3>3. c[i] = x[i] BY <1>3, Zenon
    <3> QED BY <3>1, <3>2, <3>3, Zenon
  <2> QED BY <2>1, <2>2, Zenon
<1>6. Len(d) = n BY <1>4
<1>7. d = c BY <1>3, <1>4, <1>5, <1>6, SameSeq, Zenon
<1> QED BY <1>7, Zenon DEF a, b, c, d

-----------------------------------------------------------------------------
(* Numbers *)

\* What the proofs need to know of the sizes.
LEMMA Sizes ==
  /\ BASE \in Nat /\ BASE >= 2
  /\ OFFSET_BYTES \in Nat \ {0} /\ LEN_BYTES \in Nat \ {0}
  /\ MAX_JSON_PAYLOAD \in Nat /\ MAX_JSON_PAYLOAD < BASE
BY FramingAssumption

\* Power is defined on all naturals.
LEMMA PowerExists == Power = [n \in Nat |-> IF n = 0 THEN 1 ELSE BASE * Power[n - 1]]
<1> DEFINE step == [x \in Nat \X Nat |-> BASE * x[2]]
           Upto(n) == CHOOSE g : Computes(g, 1, step, n)
           G == [n \in Nat |-> Upto(n)[n]]
<1>1. ASSUME NEW n \in Nat PROVE Computes(Upto(n), 1, step, n)
  BY ComputationExists, Zenon
<1>2. ASSUME NEW n \in Nat PROVE \A i \in 0 .. n : Upto(n)[i] \in Nat
  <2> DEFINE P == {i \in 0 .. n : Upto(n)[i] \in Nat}
  <2>0. Computes(Upto(n), 1, step, n) BY <1>1, Zenon
  <2> HIDE DEF Upto
  <2>1. \A i \in 0 .. n : Upto(n)[i] = IF i = 0 THEN 1 ELSE step[<<i, Upto(n)[i - 1]>>]
    BY <2>0, Zenon DEF Computes
  <2>2. 0 \in P
    <3>1. 0 \in 0 .. n /\ 1 \in Nat OBVIOUS
    <3> QED BY <2>1, <3>1, Zenon
  <2>3. ASSUME NEW i \in 1 .. n, i - 1 \in P PROVE i \in P
    <3> DEFINE v == Upto(n)[i - 1]
    <3>1. i \in 0 .. n /\ i # 0 /\ i \in Nat OBVIOUS
    <3>2. v \in Nat /\ Upto(n)[i] = step[<<i, v>>] BY <2>1, <2>3, <3>1, Zenon
    <3> HIDE DEF v
    <3>3. step[<<i, v>>] \in Nat BY <3>1, <3>2, Sizes
    <3> QED BY <3>1, <3>2, <3>3, Zenon
  <2> HIDE DEF P
  <2>4. 0 .. n \subseteq P BY <2>2, <2>3, UpInduction, Zenon
  <2> QED BY <2>4, Zenon DEF P
<1>3. ASSUME NEW n \in Nat PROVE G[n] = IF n = 0 THEN 1 ELSE BASE * G[n - 1]
  <2>1. n \in 0 .. n OBVIOUS
  <2>2. G[n] = IF n = 0 THEN 1 ELSE step[<<n, Upto(n)[n - 1]>>]
    <3>1. G[n] = Upto(n)[n] BY Zenon
    <3>2. Computes(Upto(n), 1, step, n) BY <1>1, Zenon
    <3> HIDE DEF Upto, step
    <3>3. Upto(n)[n] = IF n = 0 THEN 1 ELSE step[<<n, Upto(n)[n - 1]>>]
      BY <2>1, <3>2, Zenon DEF Computes
    <3> QED BY <3>1, <3>3, Zenon
  <2>3. CASE n # 0
    <3>1. n - 1 \in Nat /\ n - 1 <= n /\ n - 1 \in 0 .. n - 1 /\ n - 1 \in 0 .. n BY <2>3
    <3>2. Upto(n)[n - 1] = Upto(n - 1)[n - 1]
      <4> PICK g : g = Upto(n) BY Zenon
      <4> PICK h : h = Upto(n - 1) BY Zenon
      <4>1. Computes(g, 1, step, n) /\ Computes(h, 1, step, n - 1) BY <1>1, <3>1, Zenon
      <4> HIDE DEF step, Upto
      <4>2. \A i \in 0 .. n - 1 : h[i] = g[i]
        BY <3>1, <4>1, ComputationsAgree
      <4> QED BY <3>1, <4>2, Zenon
    <3>3. Upto(n)[n - 1] \in Nat BY <1>2, <3>1, Zenon
    <3>4. G[n - 1] = Upto(n)[n - 1] BY <3>1, <3>2, Zenon
    <3>5. ASSUME NEW v \in Nat PROVE step[<<n, v>>] = BASE * v OBVIOUS
    <3> HIDE DEF step, Upto, G
    <3> QED BY <2>2, <2>3, <3>3, <3>4, <3>5, Zenon
  <2> QED BY <2>2, <2>3, Zenon
<1>4. G = [n \in Nat |-> G[n]]
  <2> HIDE DEF Upto
  <2> QED BY Zenon
<1> HIDE DEF G
<1>5. [n \in Nat |-> G[n]] = [n \in Nat |-> IF n = 0 THEN 1 ELSE BASE * G[n - 1]] BY <1>3, Zenon
<1>6. \E g : g = [n \in Nat |-> IF n = 0 THEN 1 ELSE BASE * g[n - 1]] BY <1>4, <1>5, Zenon
<1> QED BY <1>6, Zenon DEF Power

\* The powers of BASE.
LEMMA PowerIs ==
  /\ Power[0] = 1
  /\ \A n \in Nat : Power[n] \in Nat \ {0} /\ Power[n + 1] = BASE * Power[n]
<1>1. \A n \in Nat : Power[n] = IF n = 0 THEN 1 ELSE BASE * Power[n - 1]
  BY PowerExists, Zenon
<1>2. Power[0] = 1 BY <1>1
<1>3. ASSUME NEW n \in Nat PROVE Power[n] \in Nat \ {0}
  <2> DEFINE P == {i \in 0 .. n : Power[i] \in Nat \ {0}}
  <2>1. 0 \in P BY <1>2
  <2>2. ASSUME NEW i \in 1 .. n, i - 1 \in P PROVE i \in P
    <3>1. i \in Nat /\ i # 0 /\ i \in 0 .. n OBVIOUS
    <3>2. Power[i] = BASE * Power[i - 1] BY <1>1, <3>1, Zenon
    <3>3. Power[i - 1] \in Nat \ {0} BY <2>2, Zenon
    <3>4. Power[i] \in Nat \ {0} BY <3>2, <3>3, Sizes
    <3> QED BY <3>1, <3>4, Zenon
  <2>3. 0 .. n \subseteq P
    <3> HIDE DEF P
    <3> QED BY <2>1, <2>2, UpInduction, Zenon
  <2>4. n \in 0 .. n OBVIOUS
  <2> QED BY <2>3, <2>4, Zenon
<1>4. ASSUME NEW n \in Nat PROVE Power[n + 1] = BASE * Power[n]
  <2>1. n + 1 \in Nat /\ n + 1 # 0 /\ (n + 1) - 1 = n OBVIOUS
  <2> QED BY <1>1, <2>1, Zenon
<1> QED BY <1>2, <1>3, <1>4, Zenon

\* The value of a sequence of digits is computed from the first to the last.
LEMMA ValueIs ==
  ASSUME NEW s, Len(s) \in Nat, \A i \in 1 .. Len(s) : s[i] \in Nat
  PROVE  \E v : /\ from_be_bytes(s) = v[Len(s)]
                /\ v[0] = 0
                /\ \A i \in 1 .. Len(s) : v[i] = v[i - 1] * BASE + s[i]
<1> DEFINE n == Len(s)
           step == [x \in (1 .. n) \X Nat |-> x[2] * BASE + s[x[1]]]
           Value(v) == v = [i \in 0 .. n |-> IF i = 0 THEN 0 ELSE v[i - 1] * BASE + s[i]]
<1>1. PICK g : Computes(g, 0, step, n) BY ComputationExists, Zenon
<1>2. \A i \in 0 .. n : g[i] = IF i = 0 THEN 0 ELSE step[<<i, g[i - 1]>>]
  BY <1>1, Zenon DEF Computes
<1>3. ASSUME NEW i \in 1 .. n, g[i - 1] \in Nat
      PROVE  step[<<i, g[i - 1]>>] = g[i - 1] * BASE + s[i] /\ step[<<i, g[i - 1]>>] \in Nat
  <2>1. s[i] \in Nat BY Zenon
  <2> PICK w : w = g[i - 1] BY Zenon
  <2> HIDE DEF n
  <2>2. step[<<i, w>>] = w * BASE + s[i] BY <1>3
  <2> HIDE DEF step
  <2>3. w \in Nat BY <1>3, Zenon
  <2>4. w * BASE + s[i] \in Nat BY <2>1, <2>3, Sizes
  <2> QED BY <2>2, <2>4, Zenon
<1>4. \A i \in 0 .. n : g[i] \in Nat
  <2> DEFINE P == {i \in 0 .. n : g[i] \in Nat}
  <2>1. 0 \in P
    <3>1. 0 \in 0 .. n /\ 0 \in Nat OBVIOUS
    <3> QED BY <1>2, <3>1, Zenon
  <2>2. ASSUME NEW i \in 1 .. n, i - 1 \in P PROVE i \in P
    <3>1. i \in 0 .. n /\ i # 0 OBVIOUS
    <3> HIDE DEF step
    <3> QED BY <1>2, <1>3, <2>2, <3>1, Zenon
  <2> HIDE DEF P
  <2>3. 0 .. n \subseteq P BY <2>1, <2>2, UpInduction, Zenon
  <2> QED BY <2>3, Zenon DEF P
<1>5. ASSUME NEW i \in 0 .. n PROVE g[i] = IF i = 0 THEN 0 ELSE g[i - 1] * BASE + s[i]
  <2>1. i # 0 => i \in 1 .. n /\ i - 1 \in 0 .. n OBVIOUS
  <2> HIDE DEF step
  <2> QED BY <1>2, <1>3, <1>4, <2>1, Zenon
<1> HIDE DEF step
<1>6. g = [i \in 0 .. n |-> g[i]] BY <1>1, Zenon DEF Computes
<1>7. Value(g)
  <2>1. [i \in 0 .. n |-> g[i]] = [i \in 0 .. n |-> IF i = 0 THEN 0 ELSE g[i - 1] * BASE + s[i]]
    BY <1>5, Zenon
  <2> QED BY <1>6, <2>1, Zenon
<1> DEFINE v == CHOOSE v : Value(v)
<1>8. Value(v) BY <1>7, Zenon
<1>9. from_be_bytes(s) = v[Len(s)] BY Zenon DEF from_be_bytes
<1> HIDE DEF v
<1>10. \A i \in 0 .. n : v[i] = IF i = 0 THEN 0 ELSE v[i - 1] * BASE + s[i] BY <1>8, Zenon
<1>11. 0 \in 0 .. n /\ \A i \in 1 .. n : i \in 0 .. n /\ i # 0 OBVIOUS
<1>12. v[0] = 0 /\ \A i \in 1 .. n : v[i] = v[i - 1] * BASE + s[i] BY <1>10, <1>11, Zenon
<1> QED BY <1>9, <1>12, Zenon

\* Division by a power, one digit at a time.
LEMMA NextDigit ==
  ASSUME NEW n \in Nat, NEW p \in Nat \ {0}
  PROVE  /\ n \div p \in Nat /\ ((n \div p) % BASE) \in Nat /\ ((n \div p) % BASE) < BASE
         /\ (n \div (BASE * p)) * BASE + ((n \div p) % BASE) = n \div p
<1>1. BASE \in Nat /\ BASE # 0 BY Sizes
<1>2. n \div p \in Nat OBVIOUS
<1>3. n \div (BASE * p) = (n \div p) \div BASE BY <1>1
<1>4. ASSUME NEW a \in Nat
      PROVE  a % BASE \in Nat /\ a % BASE < BASE /\ (a \div BASE) * BASE + (a % BASE) = a
  BY <1>1
<1> QED BY <1>2, <1>3, <1>4

\* A number that fits its field is read as it was written: to_be_bytes and
\* from_be_bytes.
THEOREM RoundTrip ==
  ASSUME NEW w \in Nat, NEW n \in Nat, n < Power[w]
  PROVE  /\ to_be_bytes(n, w) \in Seq(Byte) /\ Len(to_be_bytes(n, w)) = w
         /\ from_be_bytes(to_be_bytes(n, w)) = n
<1> DEFINE s == to_be_bytes(n, w)
           d(i) == (n \div Power[w - i]) % BASE
<1>1. ASSUME NEW i \in 1 .. w
      PROVE  /\ Power[w - i] \in Nat \ {0} /\ d(i) \in Byte
             /\ (n \div Power[w - (i - 1)]) * BASE + d(i) = n \div Power[w - i]
  <2>1. w - i \in Nat /\ w - (i - 1) = (w - i) + 1 OBVIOUS
  <2>2. Power[w - i] \in Nat \ {0} /\ Power[w - (i - 1)] = BASE * Power[w - i]
    BY <2>1, PowerIs, Zenon
  <2>3. /\ d(i) \in Nat /\ d(i) < BASE
        /\ (n \div (BASE * Power[w - i])) * BASE + d(i) = n \div Power[w - i]
    BY <2>2, NextDigit, Zenon
  <2>4. d(i) \in Byte BY <2>3, Sizes DEF Byte
  <2> QED BY <2>2, <2>3, <2>4, Zenon
<1>2. s = [i \in 1 .. w |-> d(i)] BY Zenon DEF to_be_bytes
<1> HIDE DEF d
<1>3. s \in Seq(Byte) /\ Len(s) = w /\ \A i \in 1 .. w : s[i] = d(i)
  BY <1>1, <1>2
<1> HIDE DEF s
<1>4. PICK v : /\ from_be_bytes(s) = v[w] /\ v[0] = 0
               /\ \A i \in 1 .. w : v[i] = v[i - 1] * BASE + d(i)
  <2>1. \A i \in 1 .. w : s[i] \in Nat BY <1>1, <1>3, Sizes DEF Byte
  <2> QED BY <1>3, <2>1, ValueIs
<1> DEFINE P == {i \in 0 .. w : v[i] = n \div Power[w - i]}
<1>5. 0 \in P
  <2>1. n \div Power[w] = 0 BY PowerIs
  <2>2. w - 0 = w /\ 0 \in 0 .. w OBVIOUS
  <2> QED BY <1>4, <2>1, <2>2, Zenon
<1>6. ASSUME NEW i \in 1 .. w, i - 1 \in P PROVE i \in P
  <2>1. v[i - 1] = n \div Power[w - (i - 1)] BY <1>6, Zenon
  <2>2. v[i] = n \div Power[w - i] BY <1>1, <1>4, <2>1, Zenon
  <2>3. i \in 0 .. w OBVIOUS
  <2> QED BY <2>2, <2>3, Zenon
<1>7. 0 .. w \subseteq P
  <2> HIDE DEF P
  <2> QED BY <1>5, <1>6, UpInduction, Zenon
<1>8. w \in 0 .. w /\ w - w = 0 /\ n \div 1 = n OBVIOUS
<1>9. v[w] = n BY <1>7, <1>8, PowerIs, Zenon
<1> QED BY <1>3, <1>4, <1>9, Zenon DEF s

-----------------------------------------------------------------------------
(* Inductive invariant *)

Frame == [type : {"msg"}, msg : Messages]
            \union [type : {"chunk"}, stream_offset : Nat, payload : Seq(Byte)]

Opening == {"New", "Reconnect"}

\* What the writer puts on a half of kind k as its i-th frame.
Proper(f, k, i) ==
    IF k = "forward" /\ i > 1
    THEN f.type = "chunk" /\ f.stream_offset < Power[OFFSET_BYTES] /\ Len(f.payload) <= CHUNK_SIZE
    ELSE f.type = "msg" /\ fits(f.msg) /\ (f.msg \in Opening <=> k = "forward")

\* The bytes of a frame.
Encoded(f) ==
    IF f.type = "msg" THEN FixedHeader(Opcode(f.msg), Len(to_vec(f.msg))) \o to_vec(f.msg)
                      ELSE encode_chunk(f.stream_offset, f.payload)

\* Where the frames end, each after the one before it.
Ends(frames) ==
    LET e[i \in 0 .. Len(frames)] == IF i = 0 THEN 0 ELSE e[i - 1] + Len(Encoded(frames[i])) IN e

TypeOK ==
    /\ kind \in {"forward", "reverse"} /\ fin \in BOOLEAN /\ broken \in BOOLEAN
    /\ data \in Seq(Byte) /\ Len(data) < Power[OFFSET_BYTES] /\ q \in 0 .. Len(data)
    /\ out \in Seq(Frame) /\ in \in Seq(Frame) /\ sent \in Seq(Byte)
    /\ arrived \in 0 .. Len(sent) /\ consumed \in 0 .. arrived
    /\ pc \in {"fixed", "json", "first", "rest", "payload", "eof", "failed"}

\* The bytes sent are those of the frames, one frame after the other.
LaidOut ==
    /\ \A i \in 1 .. Len(out) : Proper(out[i], kind, i) /\ Ends(out)[i] <= Len(sent)
    /\ Len(sent) = Ends(out)[Len(out)]
    /\ \A i \in 1 .. Len(out) : \A j \in 1 .. Len(Encoded(out[i])) :
          sent[Ends(out)[i - 1] + j] = Encoded(out[i])[j]

\* Where the reader is: so many bytes behind the frames it has read, and what
\* it knows of the next one.
Behind(n) == consumed = Ends(out)[Len(in)] + n

Within == Len(in) < Len(out)

Coming == out[Len(in) + 1]

ReaderAt ==
    /\ pc \in {"fixed", "json"} /\ kind = "forward" => in = <<>>
    /\ pc \in {"first", "rest", "payload"} => kind = "forward" /\ in # <<>>
    /\ pc \in {"json", "rest", "payload"} => Within
    /\ pc \in {"fixed", "first"} => Behind(0)
    /\ pc = "json" =>
          /\ Behind(FIXED_HEADER_LEN)
          /\ hdr = [opcode |-> Opcode(Coming.msg), len |-> Len(to_vec(Coming.msg))]
    /\ pc = "rest" => Behind(1) /\ hdr = [first |-> SubSeq(Encoded(Coming), 1, 1)]
    /\ pc = "payload" =>
          /\ Behind(CHUNK_HEADER_LEN)
          /\ hdr = [stream_offset |-> Coming.stream_offset, len |-> Len(Coming.payload)]

FramingInv == TypeOK /\ LaidOut /\ ReadIsPrefix /\ EofMeansFin /\ NoFalseError /\ ReaderAt

-----------------------------------------------------------------------------
(* Frames *)

\* A message frame: a header that says how long its payload is.
LEMMA MsgBytes ==
  ASSUME NEW m \in Messages, fits(m)
  PROVE  LET h == FixedHeader(Opcode(m), Len(to_vec(m))) IN
         /\ h \in Seq(Byte) /\ Len(h) = FIXED_HEADER_LEN /\ to_vec(m) \in Seq(Byte)
         /\ parse(h) /\ h[3] = Opcode(m) /\ from_be_bytes(SubSeq(h, 5, 5)) = Len(to_vec(m))
<1> DEFINE n == Len(to_vec(m))
           x == <<MAGIC, VERSION, Opcode(m), 0>>
           y == to_be_bytes(n, 1)
<1>1. to_vec(m) \in Seq(Byte) BY FramingAssumption, Zenon
<1>2. n \in Nat /\ n <= MAX_JSON_PAYLOAD BY <1>1 DEF fits
<1>3. Power[1] = BASE
  <2>1. Power[0 + 1] = BASE * Power[0] BY PowerIs
  <2> QED BY <2>1, PowerIs, Sizes
<1>4. n < Power[1] BY <1>2, <1>3, Sizes
<1>5. y \in Seq(Byte) /\ Len(y) = 1 /\ from_be_bytes(y) = n
  <2>1. 1 \in Nat OBVIOUS
  <2> HIDE DEF n
  <2> QED BY <1>2, <1>4, <2>1, RoundTrip, Zenon
<1>6. x \in Seq(Byte) /\ Len(x) = 4 /\ x[1] = MAGIC /\ x[2] = VERSION /\ x[3] = Opcode(m)
  <2>1. MAGIC \in Byte /\ VERSION \in Byte /\ Opcode(m) \in Byte /\ 0 \in Byte
    BY FramingAssumption, Sizes DEF Opcode, Byte
  <2> QED BY <2>1
<1> DEFINE h == x \o y
<1>7. FixedHeader(Opcode(m), n) = h BY Zenon DEF FixedHeader
<1> HIDE DEF n, x, y
<1>8. /\ h \in Seq(Byte) /\ Len(h) = Len(x) + Len(y) /\ \A i \in 1 .. Len(x) : h[i] = x[i]
      /\ SubSeq(h, Len(x) + 1, Len(x) + Len(y)) = y
  BY <1>5, <1>6, Joined, SecondPart, Zenon
<1>9. /\ Len(h) = 5 /\ h[1] = MAGIC /\ h[2] = VERSION /\ h[3] = Opcode(m)
      /\ SubSeq(h, 4 + 1, 4 + 1) = y
  <2> HIDE DEF h
  <2> QED BY <1>5, <1>6, <1>8
<1> HIDE DEF h
<1>10. from_be_bytes(SubSeq(h, 5, 5)) = n
  <2>1. SubSeq(h, 5, 5) = y BY <1>9
  <2> QED BY <1>5, <2>1, Zenon
<1>11. ~too_long(from_be_bytes(SubSeq(h, 5, 5)), MAX_JSON_PAYLOAD)
  <2>1. ~ (n > MAX_JSON_PAYLOAD) BY <1>2, Sizes
  <2> QED BY <1>10, <2>1, Zenon DEF too_long
<1>12. parse(h) BY <1>9, <1>11, Zenon DEF parse
<1> QED BY <1>1, <1>7, <1>8, <1>9, <1>10, <1>12, Zenon DEF FIXED_HEADER_LEN, n

\* A chunk: its header says where the payload belongs and how long it is.
ChunkHeader(o, payload) ==
    to_be_bytes(o, OFFSET_BYTES) \o to_be_bytes(Len(payload) % Power[LEN_BYTES], LEN_BYTES)

\* What read_chunk gets out of the bytes of encode_chunk.
LEMMA ChunkBytes ==
  ASSUME NEW o \in Nat, o < Power[OFFSET_BYTES],
         NEW payload \in Seq(Byte), Len(payload) <= CHUNK_SIZE
  PROVE  LET h == ChunkHeader(o, payload) IN
         /\ encode_chunk(o, payload) = h \o payload
         /\ h \in Seq(Byte) /\ Len(h) = CHUNK_HEADER_LEN
         /\ from_be_bytes(SubSeq(h, 1, OFFSET_BYTES)) = o
         /\ from_be_bytes(SubSeq(h, OFFSET_BYTES + 1, CHUNK_HEADER_LEN)) = Len(payload)
<1> DEFINE n == Len(payload)
           x == to_be_bytes(o, OFFSET_BYTES)
           y == to_be_bytes(n % Power[LEN_BYTES], LEN_BYTES)
           h == x \o y
<1>1. n \in Nat /\ n < Power[LEN_BYTES] /\ Power[LEN_BYTES] \in Nat \ {0}
  <2>1. CHUNK_SIZE \in 1 .. Power[LEN_BYTES] - 1 BY FramingAssumption, Zenon
  <2>2. Power[LEN_BYTES] \in Nat \ {0} BY PowerIs, Sizes
  <2> QED BY <2>1, <2>2
<1>2. n % Power[LEN_BYTES] = n BY <1>1
<1>3. y \in Seq(Byte) /\ Len(y) = LEN_BYTES /\ from_be_bytes(y) = n BY <1>1, <1>2, RoundTrip, Sizes
<1>4. x \in Seq(Byte) /\ Len(x) = OFFSET_BYTES /\ from_be_bytes(x) = o BY RoundTrip, Sizes
<1>5. ChunkHeader(o, payload) = h /\ encode_chunk(o, payload) = h \o payload
  BY Zenon DEF encode_chunk, ChunkHeader
<1> HIDE DEF n, x, y
<1>6. /\ h \in Seq(Byte) /\ Len(h) = CHUNK_HEADER_LEN
      /\ SubSeq(h, 1, OFFSET_BYTES) = x /\ SubSeq(h, OFFSET_BYTES + 1, CHUNK_HEADER_LEN) = y
  <2>1. h \in Seq(Byte) /\ Len(h) = Len(x) + Len(y) BY <1>3, <1>4, Joined, Zenon
  <2>2. SubSeq(h, 1, Len(x)) = x BY <1>3, <1>4, FirstPart, Zenon
  <2>3. SubSeq(h, Len(x) + 1, Len(x) + Len(y)) = y BY <1>3, <1>4, SecondPart, Zenon
  <2> QED BY <1>3, <1>4, <2>1, <2>2, <2>3, Zenon DEF CHUNK_HEADER_LEN
<1> HIDE DEF h
<1> QED BY <1>3, <1>4, <1>5, <1>6, Zenon DEF n

\* The two parts of a frame.
Header(f) ==
    IF f.type = "msg" THEN FixedHeader(Opcode(f.msg), Len(to_vec(f.msg)))
                      ELSE ChunkHeader(f.stream_offset, f.payload)

Payload(f) == IF f.type = "msg" THEN to_vec(f.msg) ELSE f.payload

\* The bytes of a frame are those of its header and its payload.
LEMMA FrameParts ==
  ASSUME NEW k, NEW i, NEW f \in Frame, Proper(f, k, i)
  PROVE  /\ Header(f) \in Seq(Byte) /\ Payload(f) \in Seq(Byte)
         /\ Encoded(f) = Header(f) \o Payload(f) /\ Encoded(f) \in Seq(Byte)
         /\ Len(Encoded(f)) = Len(Header(f)) + Len(Payload(f)) /\ Len(Encoded(f)) \in Nat
         /\ Len(Header(f)) = IF f.type = "msg" THEN FIXED_HEADER_LEN ELSE CHUNK_HEADER_LEN
<1>1. /\ Header(f) \in Seq(Byte) /\ Payload(f) \in Seq(Byte)
      /\ Encoded(f) = Header(f) \o Payload(f)
      /\ Len(Header(f)) = IF f.type = "msg" THEN FIXED_HEADER_LEN ELSE CHUNK_HEADER_LEN
  <2>1. CASE f.type = "msg"
    <3>1. f.msg \in Messages /\ fits(f.msg) BY <2>1 DEF Frame, Proper
    <3> QED BY <2>1, <3>1, MsgBytes, Zenon DEF Header, Payload, Encoded
  <2>2. CASE f.type # "msg"
    <3>1. /\ f.stream_offset \in Nat /\ f.payload \in Seq(Byte)
          /\ f.stream_offset < Power[OFFSET_BYTES] /\ Len(f.payload) <= CHUNK_SIZE
      BY <2>2 DEF Frame, Proper
    <3> QED BY <2>2, <3>1, ChunkBytes, Zenon DEF Header, Payload, Encoded
  <2> QED BY <2>1, <2>2, Zenon
<1> DEFINE h == Header(f)  b == Payload(f)
<1> HIDE DEF h, b
<1>2. h \o b \in Seq(Byte) /\ Len(h \o b) = Len(h) + Len(b) BY <1>1, Joined DEF h, b
<1>3. Len(h \o b) \in Nat BY <1>2
<1> QED BY <1>1, <1>2, <1>3, Zenon DEF h, b

-----------------------------------------------------------------------------
(* Where the frames are *)

\* Ends is computed from the first frame on.
LEMMA EndsIs ==
  ASSUME NEW frames, Len(frames) \in Nat,
         \A i \in 1 .. Len(frames) : Len(Encoded(frames[i])) \in Nat
  PROVE  /\ Ends(frames)[0] = 0
         /\ \A i \in 1 .. Len(frames) :
               Ends(frames)[i] = Ends(frames)[i - 1] + Len(Encoded(frames[i]))
         /\ \A i \in 0 .. Len(frames) : Ends(frames)[i] \in Nat
<1> DEFINE n == Len(frames)
           len(i) == Len(Encoded(frames[i]))
           step == [x \in (1 .. n) \X Nat |-> x[2] + len(x[1])]
           IsEnds(e) == e = [i \in 0 .. n |-> IF i = 0 THEN 0 ELSE e[i - 1] + len(i)]
<1>0. n \in Nat /\ \A i \in 1 .. n : len(i) \in Nat BY Zenon
<1>1. PICK g : Computes(g, 0, step, n) BY ComputationExists, Zenon
<1>ends. Ends(frames) = CHOOSE e : IsEnds(e) BY Zenon DEF Ends
<1> HIDE DEF n, len
<1>2. \A i \in 0 .. n : g[i] = IF i = 0 THEN 0 ELSE step[<<i, g[i - 1]>>]
  BY <1>1, Zenon DEF Computes
<1>3. ASSUME NEW i \in 1 .. n, NEW v \in Nat PROVE step[<<i, v>>] = v + len(i) OBVIOUS
<1>4. \A i \in 0 .. n : g[i] \in Nat
  <2> DEFINE P == {i \in 0 .. n : g[i] \in Nat}
  <2>1. 0 \in P
    <3>1. 0 \in 0 .. n /\ 0 \in Nat BY <1>0
    <3> QED BY <1>2, <3>1, Zenon
  <2>2. ASSUME NEW i \in 1 .. n, i - 1 \in P PROVE i \in P
    <3>1. i \in 0 .. n /\ i # 0 BY <1>0
    <3> HIDE DEF step
    <3>2. g[i - 1] \in Nat /\ g[i] = g[i - 1] + len(i) BY <1>2, <1>3, <2>2, <3>1, Zenon
    <3>3. g[i] \in Nat BY <1>0, <3>2
    <3> QED BY <3>1, <3>3, Zenon
  <2> HIDE DEF P
  <2>3. 0 .. n \subseteq P BY <1>0, <2>1, <2>2, UpInduction, Zenon
  <2> QED BY <2>3, Zenon DEF P
<1>5. ASSUME NEW i \in 0 .. n PROVE g[i] = IF i = 0 THEN 0 ELSE g[i - 1] + len(i)
  <2>1. i # 0 => i \in 1 .. n /\ i - 1 \in 0 .. n BY <1>0
  <2> HIDE DEF step
  <2> QED BY <1>2, <1>3, <1>4, <2>1, Zenon
<1> HIDE DEF step
<1>6. g = [i \in 0 .. n |-> g[i]] BY <1>1, Zenon DEF Computes
<1>7. IsEnds(g)
  <2>1. [i \in 0 .. n |-> g[i]] = [i \in 0 .. n |-> IF i = 0 THEN 0 ELSE g[i - 1] + len(i)]
    BY <1>5, Zenon
  <2> QED BY <1>6, <2>1, Zenon
<1>8. IsEnds(Ends(frames)) BY <1>7, <1>ends, Zenon
<1> DEFINE e == Ends(frames)
<1> HIDE DEF e
<1>9. \A i \in 0 .. n : e[i] = IF i = 0 THEN 0 ELSE e[i - 1] + len(i) BY <1>8, Zenon DEF e
<1>10. 0 \in 0 .. n /\ \A i \in 1 .. n : i \in 0 .. n /\ i # 0 BY <1>0
<1>11. e[0] = 0 /\ \A i \in 1 .. n : e[i] = e[i - 1] + len(i) BY <1>9, <1>10, Zenon
<1>12. \A i \in 0 .. n : e[i] \in Nat
  <2> DEFINE P == {i \in 0 .. n : e[i] \in Nat}
  <2>1. 0 \in P BY <1>10, <1>11
  <2>2. ASSUME NEW i \in 1 .. n, i - 1 \in P PROVE i \in P
    <3>1. e[i - 1] \in Nat /\ e[i] = e[i - 1] + len(i) BY <1>11, <2>2, Zenon
    <3>2. e[i] \in Nat BY <1>0, <3>1
    <3> QED BY <1>10, <3>2, Zenon
  <2> HIDE DEF P
  <2>3. 0 .. n \subseteq P BY <1>0, <2>1, <2>2, UpInduction, Zenon
  <2> QED BY <2>3, Zenon DEF P
<1> QED BY <1>11, <1>12, Zenon DEF e, n, len

\* Frames written stay where they are when another one is written.
LEMMA EndsAppend ==
  ASSUME NEW frames \in Seq(Frame), NEW f \in Frame, Len(Encoded(f)) \in Nat,
         \A i \in 1 .. Len(frames) : Len(Encoded(frames[i])) \in Nat
  PROVE  /\ \A i \in 0 .. Len(frames) : Ends(Append(frames, f))[i] = Ends(frames)[i]
         /\ Ends(Append(frames, f))[Len(frames) + 1]
               = Ends(frames)[Len(frames)] + Len(Encoded(f))
<1> DEFINE n == Len(frames)  g == Append(frames, f)
           P == {i \in 0 .. n : Ends(g)[i] = Ends(frames)[i]}
<1>1. /\ n \in Nat /\ Len(g) = n + 1 /\ \A i \in 1 .. n : g[i] = frames[i]
      /\ g[n + 1] = f
  OBVIOUS
<1> HIDE DEF n, g
<1>2. \A i \in 1 .. Len(g) : Len(Encoded(g[i])) \in Nat
  <2> SUFFICES ASSUME NEW i \in 1 .. Len(g) PROVE Len(Encoded(g[i])) \in Nat OBVIOUS
  <2>1. i = n + 1 \/ i \in 1 .. n BY <1>1
  <2>2. CASE i = n + 1 BY <1>1, <2>2, Zenon
  <2>3. CASE i \in 1 .. n BY <1>1, <2>3, Zenon DEF n
  <2> QED BY <2>1, <2>2, <2>3, Zenon
<1>3. Len(g) \in Nat /\ n + 1 \in 1 .. Len(g) /\ (n + 1) - 1 = n /\ n \in 0 .. n
      /\ \A i \in 1 .. n : i \in 1 .. Len(g) /\ i \in 0 .. n
  BY <1>1
<1>4. /\ Ends(g)[0] = 0
      /\ \A i \in 1 .. Len(g) : Ends(g)[i] = Ends(g)[i - 1] + Len(Encoded(g[i]))
  BY <1>2, <1>3, EndsIs, Zenon
<1>5. /\ Ends(frames)[0] = 0
      /\ \A i \in 1 .. n : Ends(frames)[i] = Ends(frames)[i - 1] + Len(Encoded(frames[i]))
  BY <1>1, EndsIs, Zenon DEF n
<1>6. 0 \in P BY <1>1, <1>4, <1>5
<1>7. ASSUME NEW i \in 1 .. n, i - 1 \in P PROVE i \in P
  <2>1. Ends(g)[i - 1] = Ends(frames)[i - 1] BY <1>7, Zenon
  <2> QED BY <1>1, <1>3, <1>4, <1>5, <2>1, Zenon
<1>8. 0 .. n \subseteq P
  <2> HIDE DEF P
  <2> QED BY <1>1, <1>6, <1>7, UpInduction, Zenon
<1>9. \A i \in 0 .. n : Ends(g)[i] = Ends(frames)[i] BY <1>8, Zenon
<1>10. Ends(g)[n + 1] = Ends(frames)[n] + Len(Encoded(f)) BY <1>1, <1>3, <1>4, <1>9, Zenon
<1> QED BY <1>9, <1>10, Zenon DEF n, g

\* The next frame to be read: it is on the half as a whole, at its place.
LEMMA NextFrame ==
  ASSUME TypeOK, LaidOut, ReadIsPrefix, Within
  PROVE  /\ Coming \in Frame /\ Proper(Coming, kind, Len(in) + 1)
         /\ Ends(out)[Len(in)] \in Nat
         /\ Ends(out)[Len(in) + 1] = Ends(out)[Len(in)] + Len(Encoded(Coming))
         /\ Ends(out)[Len(in) + 1] <= Len(sent)
         /\ \A a, b \in 0 .. Len(Encoded(Coming)) : a <= b =>
               SubSeq(sent, Ends(out)[Len(in)] + a + 1, Ends(out)[Len(in)] + b)
                  = SubSeq(Encoded(Coming), a + 1, b)
<1> DEFINE k == Len(in)  n == Len(out)  f == out[k + 1]  e == Ends(out)  x == Encoded(f)
<1>1. k \in Nat /\ n \in Nat /\ k + 1 \in 1 .. n /\ k \in 0 .. n /\ (k + 1) - 1 = k
  BY DEF TypeOK, Within
<1>2. \A i \in 1 .. n : out[i] \in Frame /\ Proper(out[i], kind, i) BY DEF TypeOK, LaidOut
<1>3. \A i \in 1 .. n : Len(Encoded(out[i])) \in Nat BY <1>2, FrameParts, Zenon
<1>4. f \in Frame /\ Proper(f, kind, k + 1) BY <1>1, <1>2, Zenon
<1>5. x \in Seq(Byte) /\ Len(x) \in Nat BY <1>4, FrameParts, Zenon
<1>6. e[k] \in Nat /\ e[k + 1] = e[k] + Len(x) BY <1>1, <1>3, EndsIs, Zenon
<1>7. e[k + 1] <= Len(sent) /\ sent \in Seq(Byte) BY <1>1, Zenon DEF LaidOut, TypeOK
<1>8. \A j \in 1 .. Len(x) : sent[e[k] + j] = x[j] BY <1>1, Zenon DEF LaidOut
<1> HIDE DEF k, n, f, e, x
<1>9. ASSUME NEW a \in 0 .. Len(x), NEW b \in 0 .. Len(x), a <= b
      PROVE  SubSeq(sent, e[k] + a + 1, e[k] + b) = SubSeq(x, a + 1, b)
  <2> DEFINE A == e[k] + a  B == e[k] + b
             s == SubSeq(sent, A + 1, B)  t == SubSeq(x, a + 1, b)
  <2>1. /\ A \in Nat /\ B \in Nat /\ A <= B /\ B <= Len(sent) /\ B - A = b - a
        /\ a \in Nat /\ b \in Nat /\ b <= Len(x)
    BY <1>5, <1>6, <1>7, <1>9
  <2>2. \A i \in 1 .. b - a : a + i \in 1 .. Len(x) /\ A + i = e[k] + (a + i)
    <3> SUFFICES ASSUME NEW i \in 1 .. b - a
                 PROVE  a + i \in 1 .. Len(x) /\ A + i = e[k] + (a + i)
      BY Zenon
    <3> PICK z \in Nat : z = e[k] BY <1>6, Zenon
    <3>1. (z + a) + i = z + (a + i) BY <2>1
    <3>2. a + i \in 1 .. Len(x) BY <1>5, <2>1
    <3> QED BY <3>1, <3>2, Zenon
  <2>3. t \in Seq(Byte) /\ Len(t) = b - a /\ \A i \in 1 .. b - a : t[i] = x[a + i]
    BY <1>5, <1>9, <2>1, PieceAt, Zenon
  <2> HIDE DEF A, B
  <2>4. s \in Seq(Byte) /\ Len(s) = b - a /\ \A i \in 1 .. b - a : s[i] = sent[A + i]
    BY <1>7, <2>1, PieceAt
  <2>5. \A i \in 1 .. b - a : s[i] = t[i] BY <1>8, <2>2, <2>3, <2>4, Zenon
  <2> HIDE DEF s, t
  <2>6. s = t BY <2>3, <2>4, <2>5, SameSeq, Zenon
  <2> QED BY <2>6, Zenon DEF s, t, A, B
<1> QED BY <1>4, <1>6, <1>7, <1>9, Zenon DEF Coming, k, f, e, x

-----------------------------------------------------------------------------
(* Writing *)

\* The frames read stay a prefix when one is written, and when one is read.
LEMMA Prefixes ==
  ASSUME TypeOK, ReadIsPrefix
  PROVE  /\ Len(in) = Len(out) => in = out
         /\ \A f \in Frame : in = SubSeq(Append(out, f), 1, Len(in))
         /\ Within => Append(in, Coming) = SubSeq(out, 1, Len(in) + 1)
<1> DEFINE k == Len(in)  n == Len(out)
<1>1. k \in Nat /\ n \in Nat /\ k <= n /\ in \in Seq(Frame) /\ out \in Seq(Frame)
  BY DEF TypeOK, ReadIsPrefix
<1>2. \A i \in 1 .. k : in[i] = out[i]
  <2>1. in = SubSeq(out, 1, k) BY Zenon DEF ReadIsPrefix
  <2> HIDE DEF k, n
  <2>2. \A i \in 1 .. k : SubSeq(out, 1, k)[i] = out[i] BY <1>1 DEF n
  <2> QED BY <2>1, <2>2, Zenon
<1>3. k = n => in = out BY <1>1, <1>2, SameSeq
<1>4. ASSUME NEW f \in Frame PROVE in = SubSeq(Append(out, f), 1, k)
  <2> DEFINE g == Append(out, f)  s == SubSeq(g, 1, k)
  <2>1. g \in Seq(Frame) /\ Len(g) = n + 1 /\ \A i \in 1 .. n : g[i] = out[i] BY <1>1
  <2> HIDE DEF k, n, g
  <2>2. s \in Seq(Frame) /\ Len(s) = k /\ \A i \in 1 .. k : s[i] = g[i] BY <1>1, <2>1
  <2> HIDE DEF s
  <2>3. \A i \in 1 .. k : in[i] = s[i] BY <1>1, <1>2, <2>1, <2>2
  <2>4. in = s BY <1>1, <2>2, <2>3, SameSeq, Zenon DEF k
  <2> QED BY <2>4, Zenon DEF s, g
<1>5. ASSUME Within PROVE Append(in, Coming) = SubSeq(out, 1, k + 1)
  <2> DEFINE g == Append(in, out[k + 1])  s == SubSeq(out, 1, k + 1)
  <2>1. k + 1 \in 1 .. n /\ out[k + 1] \in Frame BY <1>1, <1>5 DEF Within
  <2>2. g \in Seq(Frame) /\ Len(g) = k + 1 /\ g[k + 1] = out[k + 1]
        /\ \A i \in 1 .. k : g[i] = in[i]
    BY <1>1, <2>1
  <2> HIDE DEF k, g
  <2>3. s \in Seq(Frame) /\ Len(s) = k + 1 /\ \A i \in 1 .. k + 1 : s[i] = out[i]
    BY <1>1, <2>1
  <2> HIDE DEF s
  <2>4. \A i \in 1 .. k + 1 : i \in 1 .. k \/ i = k + 1 BY <1>1
  <2>5. \A i \in 1 .. k + 1 : g[i] = s[i] BY <1>2, <2>2, <2>3, <2>4, Zenon
  <2>6. g = s BY <2>2, <2>3, <2>5, SameSeq, Zenon
  <2> QED BY <2>6, Zenon DEF s, g, k, Coming
<1> QED BY <1>3, <1>4, <1>5, Zenon

\* A frame that is written changes nothing for the reader.
LEMMA WriteKeeps ==
  ASSUME FramingInv, ~fin, NEW f \in Frame, Proper(f, kind, Len(out) + 1),
         Write(f, Encoded(f)), q' \in 0 .. Len(data)
  PROVE  FramingInv'
<1> USE DEF readerVars
<1>1. /\ TypeOK /\ LaidOut /\ ReadIsPrefix /\ EofMeansFin /\ NoFalseError /\ ReaderAt
      /\ out' = Append(out, f) /\ sent' = sent \o Encoded(f)
      /\ UNCHANGED <<kind, data, arrived, fin, broken, consumed, pc, hdr, in>>
  BY Zenon DEF FramingInv, Write, poll_write
<1> DEFINE x == Encoded(f)  n == Len(out)
<1>2. x \in Seq(Byte) /\ Len(x) \in Nat BY FrameParts, Zenon
<1> HIDE DEF x
<1>3. /\ n \in Nat /\ out \in Seq(Frame) /\ sent \in Seq(Byte)
      /\ out' \in Seq(Frame) /\ Len(out') = n + 1 /\ out'[n + 1] = f
      /\ \A i \in 1 .. n : out'[i] = out[i]
  BY <1>1 DEF TypeOK
<1>4. /\ sent' \in Seq(Byte) /\ Len(sent') = Len(sent) + Len(x) /\ Len(sent) \in Nat
      /\ \A i \in 1 .. Len(sent) : sent'[i] = sent[i]
      /\ \A i \in 1 .. Len(x) : sent'[Len(sent) + i] = x[i]
  <2>1. sent' = sent \o x BY <1>1, Zenon DEF x
  <2>2. sent \o x \in Seq(Byte) /\ Len(sent \o x) = Len(sent) + Len(x) /\ Len(sent) \in Nat
    BY <1>2, <1>3, Joined, Zenon
  <2>3. /\ \A i \in 1 .. Len(sent) : (sent \o x)[i] = sent[i]
        /\ \A i \in 1 .. Len(x) : (sent \o x)[Len(sent) + i] = x[i]
    BY <1>2, <1>3
  <2> QED BY <2>1, <2>2, <2>3, Zenon
<1>5. \A i \in 1 .. n : out[i] \in Frame /\ Proper(out[i], kind, i) BY <1>1, <1>3 DEF LaidOut
<1>6. \A i \in 1 .. n : Len(Encoded(out[i])) \in Nat BY <1>5, FrameParts, Zenon
<1>7. /\ \A i \in 0 .. n : Ends(out')[i] = Ends(out)[i]
      /\ Ends(out')[n + 1] = Ends(out)[n] + Len(x)
  BY <1>1, <1>2, <1>3, <1>6, EndsAppend, Zenon DEF x
<1>8. /\ Ends(out)[0] = 0
      /\ \A i \in 1 .. n : Ends(out)[i] = Ends(out)[i - 1] + Len(Encoded(out[i]))
      /\ \A i \in 0 .. n : Ends(out)[i] \in Nat
  BY <1>3, <1>6, EndsIs, Zenon
<1>9. Len(sent) = Ends(out)[n] /\ \A i \in 1 .. n : Ends(out)[i] <= Len(sent)
  BY <1>1, Zenon DEF LaidOut
<1>10. TypeOK'
  <2>1. arrived \in 0 .. Len(sent) /\ consumed \in 0 .. arrived BY <1>1, Zenon DEF TypeOK
  <2>2. arrived \in 0 .. Len(sent') BY <1>2, <1>4, <2>1
  <2> QED BY <1>1, <1>3, <1>4, <2>1, <2>2, Zenon DEF TypeOK
<1>11. LaidOut'
  <2>1. ASSUME NEW i \in 1 .. Len(out')
        PROVE  /\ Proper(out'[i], kind, i) /\ Ends(out')[i] <= Len(sent')
               /\ \A j \in 1 .. Len(Encoded(out'[i])) :
                     sent'[Ends(out')[i - 1] + j] = Encoded(out'[i])[j]
    <3>1. CASE i = n + 1
      <4>1. (n + 1) - 1 = n /\ n \in 0 .. n BY <1>3
      <4>2. Ends(out')[i - 1] = Len(sent) /\ Ends(out')[i] = Len(sent')
        BY <1>4, <1>7, <1>9, <3>1, <4>1, Zenon
      <4>3. Len(sent') <= Len(sent') BY <1>2, <1>4
      <4> QED BY <1>3, <1>4, <3>1, <4>2, <4>3, Zenon DEF x
    <3>2. CASE i # n + 1
      <4>1. i \in 1 .. n /\ i \in 0 .. n /\ i - 1 \in 0 .. n BY <1>3, <3>2
      <4>2. /\ Ends(out')[i] = Ends(out)[i] /\ Ends(out')[i - 1] = Ends(out)[i - 1]
            /\ out'[i] = out[i]
        BY <1>3, <1>7, <4>1, Zenon
      <4>3. Ends(out)[i] \in Nat /\ Ends(out)[i] <= Len(sent') BY <1>2, <1>4, <1>8, <1>9, <4>1
      <4>4. ASSUME NEW j \in 1 .. Len(Encoded(out[i]))
            PROVE  sent'[Ends(out)[i - 1] + j] = Encoded(out[i])[j]
        <5> DEFINE len == Len(Encoded(out[i]))  a == Ends(out)[i - 1]  b == Ends(out)[i]
        <5>1. len \in Nat /\ a \in Nat /\ b = a + len /\ b <= Len(sent)
          BY <1>6, <1>8, <1>9, <4>1, Zenon
        <5>2. sent[a + j] = Encoded(out[i])[j] BY <1>1, <4>1, Zenon DEF LaidOut
        <5> HIDE DEF len, a, b
        <5>3. a + j \in 1 .. Len(sent) BY <1>4, <5>1 DEF len
        <5> QED BY <1>4, <5>2, <5>3, Zenon DEF a
      <4> QED BY <1>5, <4>1, <4>2, <4>3, <4>4, Zenon
    <3> QED BY <3>1, <3>2, Zenon
  <2>2. Len(sent') = Ends(out')[Len(out')] BY <1>3, <1>4, <1>7, <1>9, Zenon
  <2> QED BY <1>1, <2>1, <2>2, Zenon DEF LaidOut
<1>12. ReadIsPrefix'
  <2>1. in = SubSeq(out', 1, Len(in)) BY <1>1, Prefixes, Zenon
  <2>2. Len(in) \in Nat /\ Len(in) <= Len(out') BY <1>1, <1>3 DEF ReadIsPrefix, TypeOK
  <2> QED BY <1>1, <2>1, <2>2, Zenon DEF ReadIsPrefix
<1>13. EofMeansFin' /\ NoFalseError' BY <1>1, Zenon DEF EofMeansFin, NoFalseError
<1>14. ReaderAt'
  <2>1. Len(in) \in 0 .. n BY <1>1, <1>3 DEF ReadIsPrefix, TypeOK
  <2>2. \A a : Behind(a)' <=> Behind(a) BY <1>1, <1>7, <2>1, Zenon DEF Behind
  <2>3. Within => Within' /\ Coming' = Coming
    <3>1. Within => Len(in) < n + 1 /\ Len(in) + 1 \in 1 .. n BY <1>3, <2>1 DEF Within
    <3> QED BY <1>1, <1>3, <3>1, Zenon DEF Within, Coming
  <2> QED BY <1>1, <2>2, <2>3, Zenon DEF ReaderAt
<1> QED BY <1>10, <1>11, <1>12, <1>13, <1>14, Zenon DEF FramingInv

\* write_connect_header, write_reconnect_header, write_wormhole_msg.
LEMMA WriteMsgKeeps ==
  ASSUME FramingInv, NEW m \in Messages, WriteOpen(m) \/ WriteWormhole(m)
  PROVE  FramingInv'
<1> DEFINE f == [type |-> "msg", msg |-> m]
<1>1. /\ fits(m) /\ q' = q /\ ~fin
      /\ Write(f, FixedHeader(Opcode(m), Len(to_vec(m))) \o to_vec(m))
      /\ kind = "forward" => out = <<>>
      /\ m \in Opening <=> kind = "forward"
  BY DEF WriteOpen, WriteWormhole, WriteMsg, Opening, Write, poll_write
<1>2. f \in Frame /\ f.type = "msg" /\ f.msg = m BY DEF Frame
<1>3. Proper(f, kind, Len(out) + 1)
  <2>1. ~ (kind = "forward" /\ Len(out) + 1 > 1) BY <1>1
  <2> HIDE DEF f
  <2> QED BY <1>1, <1>2, <2>1, Zenon DEF Proper
<1>4. Write(f, Encoded(f))
  <2> HIDE DEF f
  <2> QED BY <1>1, <1>2, Zenon DEF Encoded
<1>5. q' \in 0 .. Len(data) BY <1>1, Zenon DEF FramingInv, TypeOK
<1> HIDE DEF f
<1> QED BY <1>1, <1>2, <1>3, <1>4, <1>5, WriteKeeps, Zenon

\* encode_chunk: a piece of the client's data that fits its header.
LEMMA WriteChunkKeeps ==
  ASSUME FramingInv, NEW n \in 1 .. CHUNK_SIZE, WriteChunk(n)
  PROVE  FramingInv'
<1> DEFINE b == SubSeq(data, q + 1, q + n)
           f == [type |-> "chunk", stream_offset |-> q, payload |-> b]
<1>1. /\ kind = "forward" /\ out # <<>> /\ n <= Len(data) - q /\ q' = q + n /\ ~fin
      /\ Write(f, encode_chunk(q, b))
  BY Zenon DEF WriteChunk, Write, poll_write
<1>2. /\ TypeOK /\ data \in Seq(Byte) /\ q \in 0 .. Len(data) /\ out \in Seq(Frame)
      /\ Len(data) < Power[OFFSET_BYTES] /\ Power[OFFSET_BYTES] \in Nat /\ CHUNK_SIZE \in Nat
  <2>1. Power[OFFSET_BYTES] \in Nat BY PowerIs, Sizes
  <2>2. CHUNK_SIZE \in Nat
    <3>1. Power[LEN_BYTES] \in Nat BY PowerIs, Sizes
    <3>2. CHUNK_SIZE \in 1 .. Power[LEN_BYTES] - 1 BY FramingAssumption, Zenon
    <3> QED BY <3>1, <3>2
  <2> QED BY <2>1, <2>2, Zenon DEF FramingInv, TypeOK
<1>3. q \in Nat /\ n \in Nat /\ q + n <= Len(data) /\ q <= q + n /\ q < Power[OFFSET_BYTES]
      /\ n <= CHUNK_SIZE /\ (q + n) - q = n /\ q + n \in Nat /\ q' \in 0 .. Len(data)
  BY <1>1, <1>2
<1>4. b \in Seq(Byte) /\ Len(b) = n BY <1>2, <1>3, PieceAt, Zenon
<1> HIDE DEF b
<1>5. f \in Frame /\ f.type = "chunk" /\ f.stream_offset = q /\ f.payload = b
  BY <1>3, <1>4 DEF Frame
<1>6. Len(out) + 1 > 1 BY <1>1, <1>2
<1> HIDE DEF f
<1>7. Proper(f, kind, Len(out) + 1) BY <1>1, <1>3, <1>4, <1>5, <1>6, Zenon DEF Proper
<1>8. "chunk" # "msg" OBVIOUS
<1>9. Write(f, Encoded(f)) BY <1>1, <1>5, <1>8, Zenon DEF Encoded
<1> QED BY <1>1, <1>3, <1>5, <1>7, <1>9, WriteKeeps, Zenon

\* A FIN, bytes that arrive and the loss of the session move no frame.
LEMMA EndKeeps ==
  ASSUME FramingInv, Shutdown \/ DropStream \/ SessionLost \/ \E n \in 1 .. Len(sent) : Arrive(n)
  PROVE  FramingInv'
<1>1. /\ UNCHANGED <<kind, data, q, out, sent, consumed, pc, hdr, in>>
      /\ arrived' \in 0 .. Len(sent) /\ consumed \in 0 .. arrived' /\ fin' \in BOOLEAN
      /\ broken' \in BOOLEAN /\ (fin => fin') /\ (broken => broken')
  <2>1. /\ arrived \in 0 .. Len(sent) /\ consumed \in 0 .. arrived /\ sent \in Seq(Byte)
        /\ fin \in BOOLEAN /\ broken \in BOOLEAN
    BY Zenon DEF FramingInv, TypeOK
  <2>2. CASE Shutdown \/ DropStream
    <3>1. /\ UNCHANGED <<kind, data, q, out, sent, arrived, broken, consumed, pc, hdr, in>>
          /\ fin' = TRUE
      BY <2>2, Zenon DEF Shutdown, DropStream, poll_shutdown, readerVars
    <3> QED BY <2>1, <3>1
  <2>3. CASE SessionLost
    <3>1. /\ UNCHANGED <<kind, data, q, out, sent, arrived, fin, consumed, pc, hdr, in>>
          /\ broken' = TRUE
      BY <2>3, Zenon DEF SessionLost, readerVars, writerVars
    <3> QED BY <2>1, <3>1
  <2>4. CASE \E n \in 1 .. Len(sent) : Arrive(n)
    <3> PICK n \in 1 .. Len(sent) : Arrive(n) BY <2>4
    <3>1. /\ UNCHANGED <<kind, data, q, out, sent, fin, broken, consumed, pc, hdr, in>>
          /\ arrived' = arrived + n /\ n <= Len(sent) - arrived
      BY Zenon DEF Arrive, readerVars, writerVars
    <3>2. arrived' \in 0 .. Len(sent) /\ consumed \in 0 .. arrived' BY <2>1, <3>1
    <3> QED BY <2>1, <3>1, <3>2
  <2> QED BY <2>2, <2>3, <2>4, Zenon
<1>2. TypeOK' /\ LaidOut' BY <1>1, Zenon DEF FramingInv, TypeOK, LaidOut
<1>3. ReadIsPrefix' /\ EofMeansFin' /\ NoFalseError'
  BY <1>1, Zenon DEF FramingInv, ReadIsPrefix, EofMeansFin, NoFalseError
<1>4. ReaderAt' BY <1>1, Zenon DEF FramingInv, ReaderAt, Behind, Within, Coming
<1> QED BY <1>2, <1>3, <1>4, Zenon DEF FramingInv

-----------------------------------------------------------------------------
(* Reading *)

\* The header and the payload of the next frame are in the bytes sent.
LEMMA NextParts ==
  ASSUME TypeOK, LaidOut, ReadIsPrefix, Within
  PROVE  /\ Coming \in Frame /\ Proper(Coming, kind, Len(in) + 1)
         /\ Ends(out)[Len(in)] \in Nat
         /\ Len(Header(Coming)) \in Nat \ {0} /\ Len(Payload(Coming)) \in Nat
         /\ Ends(out)[Len(in) + 1]
               = Ends(out)[Len(in)] + Len(Header(Coming)) + Len(Payload(Coming))
         /\ Ends(out)[Len(in) + 1] <= Len(sent)
<1> DEFINE f == Coming  k == Len(in)  e == Ends(out)[k]
<1>1. /\ f \in Frame /\ Proper(f, kind, k + 1) /\ e \in Nat
      /\ Ends(out)[k + 1] = e + Len(Encoded(f)) /\ Ends(out)[k + 1] <= Len(sent)
  BY NextFrame, Zenon
<1> HIDE DEF f, k, e
<1>2. /\ Header(f) \in Seq(Byte) /\ Payload(f) \in Seq(Byte)
      /\ Len(Encoded(f)) = Len(Header(f)) + Len(Payload(f))
      /\ Len(Header(f)) = IF f.type = "msg" THEN FIXED_HEADER_LEN ELSE CHUNK_HEADER_LEN
  BY <1>1, FrameParts, Zenon
<1>3. Len(Header(f)) \in Nat \ {0} /\ Len(Payload(f)) \in Nat
  BY <1>2, Sizes DEF FIXED_HEADER_LEN, CHUNK_HEADER_LEN
<1>4. e + Len(Encoded(f)) = e + Len(Header(f)) + Len(Payload(f)) BY <1>1, <1>2, <1>3
<1> QED BY <1>1, <1>3, <1>4, Zenon DEF f, k, e

\* read_exact hands over the bytes of the next frame.
LEMMA NextBytes ==
  ASSUME TypeOK, LaidOut, ReadIsPrefix, Within, NEW a \in Nat, NEW b \in Nat,
         Behind(a), a <= b, b <= Len(Encoded(Coming))
  PROVE  Bytes(b - a) = SubSeq(Encoded(Coming), a + 1, b)
<1> DEFINE f == Coming  e == Ends(out)[Len(in)]  n == Len(Encoded(f))
<1>1. Coming \in Frame /\ Proper(Coming, kind, Len(in) + 1) /\ e \in Nat BY NextFrame, Zenon
<1>2. n \in Nat BY <1>1, FrameParts, Zenon
<1>3. a \in 0 .. n /\ b \in 0 .. n BY <1>2
<1>4. SubSeq(sent, e + a + 1, e + b) = SubSeq(Encoded(f), a + 1, b) BY <1>3, NextFrame, Zenon
<1>5. consumed = e + a BY DEF Behind
<1> HIDE DEF e, f
<1>6. consumed + 1 = e + a + 1 /\ consumed + (b - a) = e + b BY <1>1, <1>5
<1> QED BY <1>4, <1>6, Zenon DEF Bytes, f

\* read_exact for a header, at once or after the first byte.
LEMMA NextHeader ==
  ASSUME TypeOK, LaidOut, ReadIsPrefix, Within
  PROVE  /\ Behind(0) => Bytes(Len(Header(Coming))) = Header(Coming)
         /\ Behind(0) => Bytes(1) = SubSeq(Encoded(Coming), 1, 1)
         /\ Behind(1) => SubSeq(Encoded(Coming), 1, 1) \o Bytes(Len(Header(Coming)) - 1)
                            = Header(Coming)
<1> DEFINE f == Coming  x == Encoded(f)  h == Header(f)  n == Len(h)
<1>1. f \in Frame /\ Proper(f, kind, Len(in) + 1) /\ n \in Nat \ {0} BY NextParts, Zenon
<1> HIDE DEF f
<1>2. /\ x = h \o Payload(f) /\ h \in Seq(Byte) /\ Payload(f) \in Seq(Byte)
      /\ x \in Seq(Byte) /\ Len(x) = n + Len(Payload(f))
  BY <1>1, FrameParts, Zenon
<1>3. SubSeq(x, 1, n) = h BY <1>2, FirstPart, Zenon
<1> HIDE DEF x, h
<1>4. 0 \in Nat /\ 1 \in Nat /\ n \in Nat /\ n <= Len(x) /\ 1 <= n /\ 1 <= Len(x) /\ 0 <= n
      /\ n - 0 = n /\ 1 - 0 = 1 /\ 0 + 1 = 1 /\ 0 <= 1
  BY <1>1, <1>2
<1> HIDE DEF n
<1>5. ASSUME Behind(0) PROVE Bytes(n - 0) = SubSeq(x, 0 + 1, n)
  BY <1>4, <1>5, NextBytes, Zenon DEF f, x
<1>6. ASSUME Behind(0) PROVE Bytes(1 - 0) = SubSeq(x, 0 + 1, 1)
  BY <1>4, <1>6, NextBytes, Zenon DEF f, x
<1>7. ASSUME Behind(1) PROVE Bytes(n - 1) = SubSeq(x, 1 + 1, n)
  BY <1>4, <1>7, NextBytes, Zenon DEF f, x
<1>8. SubSeq(x, 1, 1) \o SubSeq(x, 1 + 1, n) = SubSeq(x, 1, n)
  BY <1>2, <1>4, HeadAndRest, Zenon
<1>9. Behind(0) => Bytes(n) = h /\ Bytes(1) = SubSeq(x, 1, 1)
  BY <1>3, <1>4, <1>5, <1>6, Zenon
<1>10. Behind(1) => SubSeq(x, 1, 1) \o Bytes(n - 1) = h BY <1>3, <1>7, <1>8, Zenon
<1> QED BY <1>9, <1>10, Zenon DEF f, x, h, n

\* read_exact for a payload, behind the header.
LEMMA NextPayload ==
  ASSUME TypeOK, LaidOut, ReadIsPrefix, Within, Behind(Len(Header(Coming)))
  PROVE  Bytes(Len(Payload(Coming))) = Payload(Coming)
<1> DEFINE f == Coming  x == Encoded(f)  h == Header(f)  b == Payload(f)
           m == Len(h)  n == Len(b)
<1>1. f \in Frame /\ Proper(f, kind, Len(in) + 1) /\ m \in Nat \ {0} /\ n \in Nat
  BY NextParts, Zenon
<1> HIDE DEF f
<1>2. /\ x = h \o b /\ h \in Seq(Byte) /\ b \in Seq(Byte)
      /\ x \in Seq(Byte) /\ Len(x) = m + n
  BY <1>1, FrameParts, Zenon
<1>3. SubSeq(x, m + 1, m + n) = b BY <1>2, SecondPart, Zenon
<1> HIDE DEF x, h, b
<1>4. m \in Nat /\ m + n \in Nat /\ m <= m + n /\ m + n <= Len(x) /\ (m + n) - m = n
  BY <1>1, <1>2
<1>5. Behind(m) BY Zenon DEF f, h
<1> HIDE DEF m, n
<1>6. Bytes((m + n) - m) = SubSeq(x, m + 1, m + n) BY <1>4, <1>5, NextBytes, Zenon DEF f, x
<1>7. Bytes(n) = b BY <1>3, <1>4, <1>6, Zenon
<1> QED BY <1>7, Zenon DEF f, b, n

\* The frame that comes is a header or a wormhole message, or a chunk.
LEMMA NextIsMsg ==
  ASSUME TypeOK, LaidOut, ReadIsPrefix, Within, kind = "forward" => in = <<>>
  PROVE  /\ Coming.type = "msg" /\ Coming.msg \in Messages /\ fits(Coming.msg)
         /\ Coming.msg \in Opening <=> kind = "forward"
         /\ Coming = [type |-> "msg", msg |-> Coming.msg]
<1> DEFINE f == Coming
<1>1. f \in Frame /\ Proper(f, kind, Len(in) + 1) BY NextParts, Zenon
<1>2. ~ (kind = "forward" /\ Len(in) + 1 > 1) OBVIOUS
<1> HIDE DEF f
<1>3. f.type = "msg" /\ fits(f.msg) /\ (f.msg \in Opening <=> kind = "forward")
  BY <1>1, <1>2, Zenon DEF Proper
<1>4. f.msg \in Messages /\ f = [type |-> "msg", msg |-> f.msg] BY <1>1, <1>3 DEF Frame
<1> QED BY <1>3, <1>4, Zenon DEF f

\* After the open header of a forward half there are chunks.
LEMMA NextIsChunk ==
  ASSUME TypeOK, LaidOut, ReadIsPrefix, Within, kind = "forward", in # <<>>
  PROVE  /\ Coming.type = "chunk" /\ Coming.stream_offset \in Nat /\ Coming.payload \in Seq(Byte)
         /\ Coming.stream_offset < Power[OFFSET_BYTES] /\ Len(Coming.payload) <= CHUNK_SIZE
         /\ Coming = [type |-> "chunk", stream_offset |-> Coming.stream_offset,
                      payload |-> Coming.payload]
<1> DEFINE f == Coming
<1>1. f \in Frame /\ Proper(f, kind, Len(in) + 1) BY NextParts, Zenon
<1>2. Len(in) + 1 > 1 BY DEF TypeOK
<1> HIDE DEF f
<1>3. f.type = "chunk" /\ f.stream_offset < Power[OFFSET_BYTES] /\ Len(f.payload) <= CHUNK_SIZE
  BY <1>1, <1>2, Zenon DEF Proper
<1>4. /\ f.stream_offset \in Nat /\ f.payload \in Seq(Byte)
      /\ f = [type |-> "chunk", stream_offset |-> f.stream_offset, payload |-> f.payload]
  BY <1>1, <1>3 DEF Frame
<1> QED BY <1>3, <1>4, Zenon DEF f

\* A reader with bytes before it has a frame before it.
LEMMA BytesMeanFrame ==
  ASSUME TypeOK, LaidOut, ReadIsPrefix, Behind(0), NEW n \in Nat \ {0}, read_exact(n)
  PROVE  Within
<1>1. SUFFICES ASSUME ~Within PROVE FALSE OBVIOUS
<1>2. Len(in) = Len(out) BY <1>1 DEF Within, ReadIsPrefix, TypeOK
<1>3. consumed = Len(sent) + 0 BY <1>2, Zenon DEF Behind, LaidOut
<1>4. arrived \in 0 .. Len(sent) /\ sent \in Seq(Byte) BY Zenon DEF TypeOK
<1>5. arrived - consumed >= n BY DEF read_exact
<1> QED BY <1>3, <1>4, <1>5

\* A step of the reader within a frame, or its last one.
LEMMA Within1 ==
  ASSUME FramingInv, NEW st, NEW n \in Nat, Goto(st, n), read_exact(n) \/ n = 0, in' = in,
         st \in {"json", "rest", "payload", "eof", "failed"},
         EofMeansFin', NoFalseError', ReaderAt'
  PROVE  FramingInv'
<1>1. /\ UNCHANGED <<kind, data, q, out, sent, fin, arrived, broken, in>>
      /\ pc' = st /\ consumed' = consumed + n
  BY Zenon DEF Goto, writerVars
<1>2. arrived \in 0 .. Len(sent) /\ consumed \in 0 .. arrived /\ sent \in Seq(Byte)
  BY Zenon DEF FramingInv, TypeOK
<1>3. consumed' \in 0 .. arrived BY <1>1, <1>2 DEF read_exact
<1>4. pc' \in {"fixed", "json", "first", "rest", "payload", "eof", "failed"} BY <1>1
<1>5. TypeOK' BY <1>1, <1>3, <1>4, Zenon DEF FramingInv, TypeOK
<1>6. LaidOut' /\ ReadIsPrefix' BY <1>1, Zenon DEF FramingInv, LaidOut, ReadIsPrefix
<1> QED BY <1>5, <1>6, Zenon DEF FramingInv

\* A frame read to its end.
LEMMA FrameRead ==
  ASSUME FramingInv, Within, NEW st, Goto(st, Len(Payload(Coming))),
         read_exact(Len(Payload(Coming))), Behind(Len(Header(Coming))), in' = Append(in, Coming),
         st = IF kind = "forward" THEN "first" ELSE "fixed"
  PROVE  FramingInv'
<1> DEFINE n == Len(Payload(Coming))  m == Len(Header(Coming))  k == Len(in)
           e == Ends(out)[k]
<1>0. TypeOK /\ LaidOut /\ ReadIsPrefix BY Zenon DEF FramingInv
<1>1. /\ UNCHANGED <<kind, data, q, out, sent, fin, arrived, broken>>
      /\ pc' = st /\ consumed' = consumed + n
  BY Zenon DEF Goto, writerVars
<1>2. /\ arrived \in 0 .. Len(sent) /\ consumed \in 0 .. arrived /\ sent \in Seq(Byte)
      /\ in \in Seq(Frame) /\ out \in Seq(Frame)
  BY Zenon DEF FramingInv, TypeOK
<1>3. /\ Coming \in Frame /\ e \in Nat /\ m \in Nat \ {0} /\ n \in Nat
      /\ Ends(out)[k + 1] = e + m + n
  BY <1>0, NextParts, Zenon
<1>4. consumed = e + m BY Zenon DEF Behind
<1>5. arrived - consumed >= n BY Zenon DEF read_exact
<1> HIDE DEF n, m, e
<1>6. consumed' \in 0 .. arrived BY <1>1, <1>2, <1>3, <1>5
<1>7. consumed' = Ends(out)[k + 1] + 0 BY <1>1, <1>3, <1>4
<1>8. in' \in Seq(Frame) /\ Len(in') = k + 1 /\ k \in Nat /\ k + 1 <= Len(out) /\ in' # <<>>
  BY <1>2, <1>3 DEF Within
<1>9. pc' \in {"fixed", "first"} BY <1>1
<1>10. TypeOK'
  <2>1. pc' \in {"fixed", "json", "first", "rest", "payload", "eof", "failed"} BY <1>9
  <2> QED BY <1>1, <1>6, <1>8, <2>1, Zenon DEF FramingInv, TypeOK
<1>11. LaidOut' BY <1>0, <1>1, Zenon DEF LaidOut
<1>12. ReadIsPrefix'
  <2>1. in' = SubSeq(out, 1, k + 1) BY <1>0, Prefixes, Zenon
  <2> QED BY <1>1, <1>8, <2>1, Zenon DEF ReadIsPrefix
<1>13. EofMeansFin' /\ NoFalseError'
  BY <1>9 DEF EofMeansFin, NoFalseError
<1>14. Behind(0)' BY <1>1, <1>7, <1>8, Zenon DEF Behind
<1>15. ReaderAt'
  <2>1. /\ pc' \in {"fixed", "json"} => kind' # "forward"
        /\ pc' \in {"first", "rest", "payload"} => kind' = "forward"
        /\ pc' \notin {"json", "rest", "payload"}
        /\ pc' # "json" /\ pc' # "rest" /\ pc' # "payload"
    BY <1>0, <1>1 DEF TypeOK
  <2> QED BY <1>8, <1>14, <2>1, Zenon DEF ReaderAt
<1> QED BY <1>10, <1>11, <1>12, <1>13, <1>15, Zenon DEF FramingInv

\* read_stream_open, read_wormhole_msg: a header that is accepted.
LEMMA ReadFixedKeeps ==
  ASSUME FramingInv, ReadFixed
  PROVE  FramingInv'
<1> USE DEF FIXED_HEADER_LEN
<1> DEFINE h == Bytes(5)  m == Coming.msg
<1>0. TypeOK /\ LaidOut /\ ReadIsPrefix /\ ReaderAt /\ pc = "fixed" /\ read_exact(5)
  BY Zenon DEF FramingInv, ReadFixed
<1>1. Behind(0) /\ (kind = "forward" => in = <<>>) BY <1>0 DEF ReaderAt
<1>2. Within BY <1>0, <1>1, BytesMeanFrame
<1>3. Coming.type = "msg" /\ m \in Messages /\ fits(m) BY <1>0, <1>1, <1>2, NextIsMsg, Zenon
<1>4. Header(Coming) = FixedHeader(Opcode(m), Len(to_vec(m))) BY <1>3, Zenon DEF Header
<1>5. /\ Len(Header(Coming)) = 5 /\ parse(Header(Coming)) /\ Header(Coming)[3] = Opcode(m)
      /\ from_be_bytes(SubSeq(Header(Coming), 5, 5)) = Len(to_vec(m))
  BY <1>3, <1>4, MsgBytes, Zenon
<1>6. h = Header(Coming) BY <1>0, <1>1, <1>2, <1>5, NextHeader, Zenon
<1>7. /\ parse(h) => /\ Goto("json", 5) /\ in' = in
                     /\ hdr' = [opcode |-> h[3], len |-> from_be_bytes(SubSeq(h, 5, 5))]
  BY Zenon DEF ReadFixed
<1>8. /\ Goto("json", 5) /\ in' = in
      /\ hdr' = [opcode |-> Opcode(m), len |-> Len(to_vec(m))]
  <2> HIDE DEF h
  <2> QED BY <1>5, <1>6, <1>7, Zenon
<1>9. UNCHANGED <<kind, out, in>> /\ pc' = "json" /\ consumed' = consumed + 5
  BY <1>8, Zenon DEF Goto, writerVars
<1>10. Coming' = Coming /\ Within' BY <1>2, <1>9, Zenon DEF Coming, Within
<1>11. Behind(5)'
  <2>1. Ends(out)[Len(in)] \in Nat /\ consumed = Ends(out)[Len(in)] + 0
    BY <1>0, <1>1, <1>2, NextParts, Zenon DEF Behind
  <2>2. consumed' = Ends(out)[Len(in)] + 5 BY <1>9, <2>1
  <2> QED BY <1>9, <2>2, Zenon DEF Behind
<1>12. ReaderAt'
  <2>1. /\ pc' \notin {"first", "rest", "payload"} /\ pc' \notin {"fixed", "first"}
        /\ pc' # "rest" /\ pc' # "payload"
    BY <1>9
  <2> QED BY <1>1, <1>8, <1>9, <1>10, <1>11, <2>1, Zenon DEF ReaderAt
<1>13. EofMeansFin' /\ NoFalseError' BY <1>9 DEF EofMeansFin, NoFalseError
<1>14. 5 \in Nat /\ "json" \in {"json", "rest", "payload", "eof", "failed"} OBVIOUS
<1> QED BY <1>0, <1>8, <1>12, <1>13, <1>14, Within1, Zenon

\* from_slice: the message that was written.
LEMMA ReadJsonKeeps ==
  ASSUME FramingInv, ReadJson
  PROVE  FramingInv'
<1> DEFINE m == Coming.msg  b == Payload(Coming)
<1>0. TypeOK /\ LaidOut /\ ReadIsPrefix /\ ReaderAt /\ pc = "json" /\ read_exact(hdr.len)
  BY Zenon DEF FramingInv, ReadJson
<1>1. /\ Within /\ Behind(FIXED_HEADER_LEN) /\ (kind = "forward" => in = <<>>)
      /\ hdr.opcode = Opcode(m) /\ hdr.len = Len(to_vec(m))
  BY <1>0 DEF ReaderAt
<1>2. /\ Coming.type = "msg" /\ m \in Messages /\ fits(m)
      /\ m \in Opening <=> kind = "forward"
      /\ Coming = [type |-> "msg", msg |-> m]
  BY <1>0, <1>1, NextIsMsg, Zenon
<1>3. b = to_vec(m) /\ Len(Header(Coming)) = FIXED_HEADER_LEN
  BY <1>2, MsgBytes, Zenon DEF Header, Payload
<1>4. Bytes(hdr.len) = to_vec(m) BY <1>0, <1>1, <1>3, NextPayload, Zenon
<1>5. kind = "forward" <=> kind # "reverse" BY <1>0 DEF TypeOK
<1>6. m \in Decoded(to_vec(m)) BY <1>1, <1>2, <1>5, Zenon DEF Decoded, Opening
<1>7. \A x \in Decoded(to_vec(m)) : x = m BY <1>2, FramingAssumption, Zenon DEF Decoded
<1>8. /\ in' = Append(in, [type |-> "msg", msg |-> m])
      /\ Goto(IF kind = "forward" THEN "first" ELSE "fixed", hdr.len)
  BY <1>4, <1>6, <1>7, Zenon DEF ReadJson
<1>9. in' = Append(in, Coming) BY <1>2, <1>8, Zenon
<1>10. Goto(IF kind = "forward" THEN "first" ELSE "fixed", Len(b)) /\ read_exact(Len(b))
  BY <1>0, <1>1, <1>3, <1>8, Zenon
<1> QED BY <1>1, <1>3, <1>9, <1>10, FrameRead, Zenon

\* read_chunk: the byte that tells a further chunk from the end.
LEMMA ReadFirstKeeps ==
  ASSUME FramingInv, ReadFirst
  PROVE  FramingInv'
<1>0. TypeOK /\ LaidOut /\ ReadIsPrefix /\ ReaderAt /\ pc = "first" /\ read_exact(1)
  BY Zenon DEF FramingInv, ReadFirst
<1>1. Behind(0) /\ kind = "forward" /\ in # <<>> BY <1>0 DEF ReaderAt
<1>2. Within BY <1>0, <1>1, BytesMeanFrame
<1>3. Goto("rest", 1) /\ hdr' = [first |-> SubSeq(Encoded(Coming), 1, 1)] /\ in' = in
  BY <1>0, <1>1, <1>2, NextHeader, Zenon DEF ReadFirst
<1>4. UNCHANGED <<kind, out, in>> /\ pc' = "rest" /\ consumed' = consumed + 1
  BY <1>3, Zenon DEF Goto, writerVars
<1>5. Coming' = Coming /\ Within' BY <1>2, <1>4, Zenon DEF Coming, Within
<1>6. Behind(1)'
  <2>1. Ends(out)[Len(in)] \in Nat /\ consumed = Ends(out)[Len(in)] + 0
    BY <1>0, <1>1, <1>2, NextParts, Zenon DEF Behind
  <2>2. consumed' = Ends(out)[Len(in)] + 1 BY <1>4, <2>1
  <2> QED BY <1>4, <2>2, Zenon DEF Behind
<1>7. ReaderAt'
  <2>1. /\ pc' \notin {"fixed", "json"} /\ pc' \notin {"fixed", "first"}
        /\ pc' # "json" /\ pc' # "payload"
    BY <1>4
  <2> QED BY <1>1, <1>3, <1>4, <1>5, <1>6, <2>1, Zenon DEF ReaderAt
<1>8. EofMeansFin' /\ NoFalseError' BY <1>4 DEF EofMeansFin, NoFalseError
<1>9. 1 \in Nat /\ "rest" \in {"json", "rest", "payload", "eof", "failed"} OBVIOUS
<1> QED BY <1>0, <1>3, <1>7, <1>8, <1>9, Within1, Zenon

\* The rest of the chunk header.
LEMMA ReadRestKeeps ==
  ASSUME FramingInv, ReadRest
  PROVE  FramingInv'
<1> DEFINE n == CHUNK_HEADER_LEN - 1
           h == hdr.first \o Bytes(n)
           o == Coming.stream_offset
           b == Coming.payload
<1>0. TypeOK /\ LaidOut /\ ReadIsPrefix /\ ReaderAt /\ pc = "rest" /\ read_exact(n)
  BY Zenon DEF FramingInv, ReadRest
<1>1. /\ Within /\ Behind(1) /\ kind = "forward" /\ in # <<>>
      /\ hdr.first = SubSeq(Encoded(Coming), 1, 1)
  BY <1>0 DEF ReaderAt
<1>2. /\ Coming.type = "chunk" /\ o \in Nat /\ b \in Seq(Byte)
      /\ o < Power[OFFSET_BYTES] /\ Len(b) <= CHUNK_SIZE
  BY <1>0, <1>1, NextIsChunk, Zenon
<1>3. Header(Coming) = ChunkHeader(o, b)
  <2>1. "chunk" # "msg" OBVIOUS
  <2> QED BY <1>2, <2>1, Zenon DEF Header
<1>4. /\ Len(Header(Coming)) = CHUNK_HEADER_LEN
      /\ from_be_bytes(SubSeq(Header(Coming), 1, OFFSET_BYTES)) = o
      /\ from_be_bytes(SubSeq(Header(Coming), OFFSET_BYTES + 1, CHUNK_HEADER_LEN)) = Len(b)
  <2> HIDE DEF o, b
  <2>1. Len(ChunkHeader(o, b)) = CHUNK_HEADER_LEN BY <1>2, ChunkBytes, Zenon
  <2>2. from_be_bytes(SubSeq(ChunkHeader(o, b), 1, OFFSET_BYTES)) = o
    BY <1>2, ChunkBytes, Zenon
  <2>3. from_be_bytes(SubSeq(ChunkHeader(o, b), OFFSET_BYTES + 1, CHUNK_HEADER_LEN)) = Len(b)
    BY <1>2, ChunkBytes, Zenon
  <2> QED BY <1>3, <2>1, <2>2, <2>3, Zenon
<1>5. h = Header(Coming) BY <1>0, <1>1, <1>4, NextHeader, Zenon
<1>6. ~too_long(Len(b), CHUNK_SIZE)
  <2>1. CHUNK_SIZE \in Int
    <3>1. CHUNK_SIZE \in 1 .. Power[LEN_BYTES] - 1 BY FramingAssumption, Zenon
    <3> QED BY <3>1
  <2>2. Len(b) \in Nat BY <1>2
  <2> QED BY <1>2, <2>1, <2>2 DEF too_long
<1>7. LET len == from_be_bytes(SubSeq(h, OFFSET_BYTES + 1, CHUNK_HEADER_LEN)) IN
      ~too_long(len, CHUNK_SIZE) =>
         /\ Goto("payload", n) /\ in' = in
         /\ hdr' = [stream_offset |-> from_be_bytes(SubSeq(h, 1, OFFSET_BYTES)), len |-> len]
  BY Zenon DEF ReadRest
<1>8. Goto("payload", n) /\ in' = in /\ hdr' = [stream_offset |-> o, len |-> Len(b)]
  <2> HIDE DEF h, n
  <2> QED BY <1>4, <1>5, <1>6, <1>7, Zenon
<1>9. UNCHANGED <<kind, out, in>> /\ pc' = "payload" /\ consumed' = consumed + n
  BY <1>8, Zenon DEF Goto, writerVars
<1>10. Coming' = Coming /\ Within' BY <1>1, <1>9, Zenon DEF Coming, Within
<1>11. CHUNK_HEADER_LEN \in Nat \ {0} BY Sizes DEF CHUNK_HEADER_LEN
<1>12. Behind(CHUNK_HEADER_LEN)'
  <2>1. Ends(out)[Len(in)] \in Nat /\ consumed = Ends(out)[Len(in)] + 1
    BY <1>0, <1>1, NextParts, Zenon DEF Behind
  <2>2. consumed' = Ends(out)[Len(in)] + CHUNK_HEADER_LEN BY <1>9, <1>11, <2>1
  <2> QED BY <1>9, <2>2, Zenon DEF Behind
<1>13. ReaderAt'
  <2>1. /\ pc' \notin {"fixed", "json"} /\ pc' \notin {"fixed", "first"}
        /\ pc' # "json" /\ pc' # "rest"
    BY <1>9
  <2> QED BY <1>1, <1>8, <1>9, <1>10, <1>12, <2>1, Zenon DEF ReaderAt
<1>14. EofMeansFin' /\ NoFalseError' BY <1>9 DEF EofMeansFin, NoFalseError
<1>15. n \in Nat /\ "payload" \in {"json", "rest", "payload", "eof", "failed"} BY <1>11
<1> HIDE DEF n
<1> QED BY <1>0, <1>8, <1>13, <1>14, <1>15, Within1, Zenon

\* A chunk.
LEMMA ReadPayloadKeeps ==
  ASSUME FramingInv, ReadPayload
  PROVE  FramingInv'
<1> DEFINE o == Coming.stream_offset  b == Coming.payload
<1>0. TypeOK /\ LaidOut /\ ReadIsPrefix /\ ReaderAt /\ pc = "payload" /\ read_exact(hdr.len)
  BY Zenon DEF FramingInv, ReadPayload
<1>1. /\ Within /\ Behind(CHUNK_HEADER_LEN) /\ kind = "forward" /\ in # <<>>
      /\ hdr.stream_offset = o /\ hdr.len = Len(b)
  BY <1>0 DEF ReaderAt
<1>2. /\ Coming.type = "chunk" /\ o \in Nat /\ b \in Seq(Byte)
      /\ o < Power[OFFSET_BYTES] /\ Len(b) <= CHUNK_SIZE
      /\ Coming = [type |-> "chunk", stream_offset |-> o, payload |-> b]
  BY <1>0, <1>1, NextIsChunk, Zenon
<1>3. Payload(Coming) = b /\ Len(Header(Coming)) = CHUNK_HEADER_LEN
  <2>1. "chunk" # "msg" OBVIOUS
  <2> QED BY <1>2, <2>1, ChunkBytes, Zenon DEF Header, Payload
<1>4. Bytes(hdr.len) = b BY <1>0, <1>1, <1>3, NextPayload, Zenon
<1>5. /\ in' = Append(in, [type |-> "chunk", stream_offset |-> o, payload |-> b])
      /\ Goto("first", hdr.len)
  BY <1>1, <1>4, Zenon DEF ReadPayload
<1>6. in' = Append(in, Coming) BY <1>2, <1>5, Zenon
<1>7. /\ Goto("first", Len(Payload(Coming))) /\ read_exact(Len(Payload(Coming)))
      /\ Behind(Len(Header(Coming)))
      /\ "first" = IF kind = "forward" THEN "first" ELSE "fixed"
  BY <1>0, <1>1, <1>3, <1>5, Zenon
<1> QED BY <1>1, <1>6, <1>7, FrameRead, Zenon

\* At the FIN the next frame, if there is one, has arrived as a whole.
LEMMA WholeAtFin ==
  ASSUME TypeOK, LaidOut, ReadIsPrefix, Within, AtFin
  PROVE  /\ Behind(0) => read_exact(1) /\ read_exact(Len(Header(Coming)))
         /\ Behind(1) => read_exact(Len(Header(Coming)) - 1)
         /\ Behind(Len(Header(Coming))) => read_exact(Len(Payload(Coming)))
<1> DEFINE m == Len(Header(Coming))  n == Len(Payload(Coming))  e == Ends(out)[Len(in)]
           z == Ends(out)[Len(in) + 1]
<1>1. e \in Nat /\ m \in Nat \ {0} /\ n \in Nat /\ z = e + m + n /\ z <= Len(sent)
  BY NextParts, Zenon
<1>2. arrived = Len(sent) /\ arrived \in 0 .. Len(sent) /\ sent \in Seq(Byte)
  BY Zenon DEF AtFin, TypeOK
<1> HIDE DEF m, n, z
<1>3. Behind(0) => arrived - consumed >= 1 /\ arrived - consumed >= m
  BY <1>1, <1>2 DEF Behind
<1>4. Behind(1) => arrived - consumed >= m - 1 BY <1>1, <1>2 DEF Behind
<1>5. Behind(m) => arrived - consumed >= n BY <1>1, <1>2 DEF Behind
<1> QED BY <1>3, <1>4, <1>5, Zenon DEF read_exact, m, n

\* read_chunk returns None.
LEMMA ReadEofKeeps ==
  ASSUME FramingInv, ReadEof
  PROVE  FramingInv'
<1>0. /\ TypeOK /\ LaidOut /\ ReadIsPrefix /\ ReaderAt /\ pc = "first" /\ AtFin
      /\ ~read_exact(1) /\ Goto("eof", 0) /\ in' = in
  BY Zenon DEF FramingInv, ReadEof
<1>1. Behind(0) /\ kind = "forward" BY <1>0 DEF ReaderAt
<1>2. ~Within BY <1>0, <1>1, WholeAtFin, Zenon
<1>3. Len(in) = Len(out) BY <1>0, <1>2 DEF TypeOK, ReadIsPrefix, Within
<1>4. in = out BY <1>0, <1>3, Prefixes, Zenon
<1>5. fin BY <1>0, Zenon DEF AtFin
<1>6. UNCHANGED <<fin, in, out>> /\ pc' = "eof"
  BY <1>0, Zenon DEF Goto, writerVars
<1>7. EofMeansFin' BY <1>4, <1>5, <1>6, Zenon DEF EofMeansFin
<1>8. NoFalseError' BY <1>6 DEF NoFalseError
<1>9. ReaderAt'
  <2>1. /\ pc' \notin {"fixed", "json"} /\ pc' \notin {"first", "rest", "payload"}
        /\ pc' \notin {"json", "rest", "payload"} /\ pc' \notin {"fixed", "first"}
        /\ pc' # "json" /\ pc' # "rest" /\ pc' # "payload"
    BY <1>6
  <2> QED BY <2>1, Zenon DEF ReaderAt
<1>10. 0 \in Nat /\ "eof" \in {"json", "rest", "payload", "eof", "failed"} OBVIOUS
<1> QED BY <1>0, <1>7, <1>8, <1>9, <1>10, Within1, Zenon

\* A read that fails.
LEMMA ReadErrorKeeps ==
  ASSUME FramingInv, ReadError
  PROVE  FramingInv'
<1>0. /\ TypeOK /\ LaidOut /\ ReadIsPrefix /\ ReaderAt
      /\ pc \in {"fixed", "json", "first", "rest", "payload"}
      /\ ReadFails(Wanted) /\ ~(pc = "first" /\ AtFin) /\ Goto("failed", 0) /\ in' = in
  BY Zenon DEF FramingInv, ReadError, Fail
<1>1. ASSUME ~broken PROVE fin /\ in = out /\ (kind = "forward" => out = <<>>)
  <2>1. AtFin /\ ~read_exact(Wanted) /\ pc # "first" /\ fin
    BY <1>0, <1>1, Zenon DEF ReadFails, AtFin
  <2>2. /\ pc # "json" /\ pc # "rest" /\ pc # "payload"
    <3>1. ASSUME pc = "json" PROVE FALSE
      <4>1. /\ Within /\ Behind(FIXED_HEADER_LEN) /\ hdr.len = Len(to_vec(Coming.msg))
            /\ (kind = "forward" => in = <<>>)
        BY <1>0, <3>1 DEF ReaderAt
      <4>2. Wanted = hdr.len BY <3>1 DEF Wanted
      <4>3. Coming.type = "msg" /\ Coming.msg \in Messages /\ fits(Coming.msg)
        BY <1>0, <4>1, NextIsMsg, Zenon
      <4>4. Payload(Coming) = to_vec(Coming.msg) /\ Len(Header(Coming)) = FIXED_HEADER_LEN
        BY <4>3, MsgBytes, Zenon DEF Header, Payload
      <4> QED BY <1>0, <2>1, <4>1, <4>2, <4>4, WholeAtFin, Zenon
    <3>2. ASSUME pc \in {"rest", "payload"} PROVE FALSE
      <4>1. Within /\ kind = "forward" /\ in # <<>> BY <1>0, <3>2 DEF ReaderAt
      <4>2. /\ Coming.type = "chunk" /\ Coming.stream_offset \in Nat
            /\ Coming.payload \in Seq(Byte) /\ Coming.stream_offset < Power[OFFSET_BYTES]
            /\ Len(Coming.payload) <= CHUNK_SIZE
        BY <1>0, <4>1, NextIsChunk, Zenon
      <4>3. Payload(Coming) = Coming.payload /\ Len(Header(Coming)) = CHUNK_HEADER_LEN
        <5>1. "chunk" # "msg" OBVIOUS
        <5> QED BY <4>2, <5>1, ChunkBytes, Zenon DEF Header, Payload
      <4>4. CASE pc = "rest"
        <5>1. Behind(1) BY <1>0, <4>4 DEF ReaderAt
        <5>2. Wanted = CHUNK_HEADER_LEN - 1 BY <4>4 DEF Wanted
        <5> QED BY <1>0, <2>1, <4>1, <4>3, <5>1, <5>2, WholeAtFin, Zenon
      <4>5. CASE pc = "payload"
        <5>1. Behind(CHUNK_HEADER_LEN) /\ hdr.len = Len(Coming.payload)
          BY <1>0, <4>5 DEF ReaderAt
        <5>2. Wanted = hdr.len BY <4>5 DEF Wanted
        <5> QED BY <1>0, <2>1, <4>1, <4>3, <5>1, <5>2, WholeAtFin, Zenon
      <4> QED BY <3>2, <4>4, <4>5
    <3> QED BY <3>1, <3>2
  <2>3. pc = "fixed" BY <1>0, <2>1, <2>2
  <2>4. Behind(0) /\ (kind = "forward" => in = <<>>) BY <1>0, <2>3 DEF ReaderAt
  <2>5. Wanted = FIXED_HEADER_LEN BY <2>3 DEF Wanted
  <2>6. ~Within
    <3>1. SUFFICES ASSUME Within PROVE FALSE OBVIOUS
    <3>2. Coming.type = "msg" /\ Coming.msg \in Messages /\ fits(Coming.msg)
      BY <1>0, <2>4, <3>1, NextIsMsg, Zenon
    <3>3. Len(Header(Coming)) = FIXED_HEADER_LEN BY <3>2, MsgBytes, Zenon DEF Header
    <3> QED BY <1>0, <2>1, <2>4, <2>5, <3>1, <3>3, WholeAtFin, Zenon
  <2>7. Len(in) = Len(out) BY <1>0, <2>6 DEF TypeOK, ReadIsPrefix, Within
  <2>8. in = out BY <1>0, <2>7, Prefixes, Zenon
  <2> QED BY <2>1, <2>4, <2>8, Zenon
<1>2. UNCHANGED <<kind, fin, in, out, broken>> /\ pc' = "failed"
  BY <1>0, Zenon DEF Goto, writerVars
<1>3. NoFalseError' BY <1>1, <1>2, Zenon DEF NoFalseError
<1>4. EofMeansFin' BY <1>2 DEF EofMeansFin
<1>5. ReaderAt'
  <2>1. /\ pc' \notin {"fixed", "json"} /\ pc' \notin {"first", "rest", "payload"}
        /\ pc' \notin {"json", "rest", "payload"} /\ pc' \notin {"fixed", "first"}
        /\ pc' # "json" /\ pc' # "rest" /\ pc' # "payload"
    BY <1>2
  <2> QED BY <2>1, Zenon DEF ReaderAt
<1>6. 0 \in Nat /\ "failed" \in {"json", "rest", "payload", "eof", "failed"} OBVIOUS
<1> QED BY <1>0, <1>3, <1>4, <1>5, <1>6, Within1, Zenon

-----------------------------------------------------------------------------
(* Theorems *)

\* A half stream before anything is written.
LEMMA InitFraming == Init => FramingInv
<1> SUFFICES ASSUME Init PROVE FramingInv OBVIOUS
<1>1. data \in Seq(Byte) /\ Len(data) < Power[OFFSET_BYTES]
  <2>1. CASE data \in Data BY <2>1, FramingAssumption, Zenon
  <2>2. CASE data = <<>>
    <3>1. Power[OFFSET_BYTES] \in Nat \ {0} BY PowerIs, Sizes
    <3> QED BY <2>2, <3>1
  <2>3. data \in Data \/ data = <<>>
    <3>1. CASE kind = "forward" BY <3>1, Zenon DEF Init
    <3>2. CASE kind # "forward" BY <3>2 DEF Init
    <3> QED BY <3>1, <3>2
  <2> QED BY <2>1, <2>2, <2>3, Zenon
<1>2. TypeOK
  <2>1. out \in Seq(Frame) /\ in \in Seq(Frame) /\ sent \in Seq(Byte) /\ Len(sent) = 0
    BY DEF Init
  <2>2. q \in 0 .. Len(data) /\ arrived \in 0 .. Len(sent) /\ consumed \in 0 .. arrived
    BY <1>1, <2>1 DEF Init
  <2>3. /\ pc \in {"fixed", "json", "first", "rest", "payload", "eof", "failed"}
        /\ kind \in {"forward", "reverse"} /\ fin \in BOOLEAN /\ broken \in BOOLEAN
    BY Zenon DEF Init
  <2> QED BY <1>1, <2>1, <2>2, <2>3, Zenon DEF TypeOK
<1>3. Ends(out)[0] = 0 /\ Len(out) = 0 /\ Len(in) = 0 /\ Len(sent) = 0 /\ 1 .. Len(out) = {}
  <2>1. Len(<<>>) \in Nat /\ \A i \in 1 .. Len(<<>>) : Len(Encoded(<<>>[i])) \in Nat OBVIOUS
  <2>2. Ends(<<>>)[0] = 0 BY <2>1, EndsIs, Zenon
  <2>3. out = <<>> /\ in = <<>> /\ sent = <<>> BY Zenon DEF Init
  <2>4. Len(<<>>) = 0 /\ 1 .. Len(<<>>) = {} OBVIOUS
  <2> QED BY <2>2, <2>3, <2>4, Zenon
<1>4. LaidOut
  BY <1>3, Zenon DEF LaidOut
<1>5. ReadIsPrefix BY <1>3 DEF ReadIsPrefix, Init
<1>6. EofMeansFin /\ NoFalseError BY DEF Init, EofMeansFin, NoFalseError
<1>7. ReaderAt
  <2>1. /\ pc \notin {"first", "rest", "payload"} /\ pc \notin {"json", "rest", "payload"}
        /\ pc # "json" /\ pc # "rest" /\ pc # "payload" /\ in = <<>>
    BY DEF Init
  <2>2. Behind(0)
    <3>1. consumed = 0 /\ 0 + 0 = 0 BY DEF Init
    <3> QED BY <1>3, <3>1, Zenon DEF Behind
  <2> QED BY <2>1, <2>2, Zenon DEF ReaderAt
<1> QED BY <1>2, <1>4, <1>5, <1>6, <1>7, Zenon DEF FramingInv

\* Every step of the writer, of the transport and of the reader.
LEMMA NextFraming == FramingInv /\ [Next]_vars => FramingInv'
<1> SUFFICES ASSUME FramingInv, [Next]_vars PROVE FramingInv' OBVIOUS
<1>1. ASSUME NEW m \in Messages, WriteOpen(m) \/ WriteWormhole(m) PROVE FramingInv'
  BY <1>1, WriteMsgKeeps, Zenon
<1>2. ASSUME NEW n \in 1 .. CHUNK_SIZE, WriteChunk(n) PROVE FramingInv'
  BY <1>2, WriteChunkKeeps, Zenon
<1>3. CASE Shutdown \/ DropStream \/ SessionLost \/ \E n \in 1 .. Len(sent) : Arrive(n)
  BY <1>3, EndKeeps, Zenon
<1>4. CASE Read
  BY <1>4, ReadFixedKeeps, ReadJsonKeeps, ReadFirstKeeps, ReadEofKeeps, ReadRestKeeps,
     ReadPayloadKeeps, ReadErrorKeeps, Zenon DEF Read
<1>5. CASE UNCHANGED vars
  <2>1. UNCHANGED <<kind, data, q, out, sent, fin, arrived, broken, consumed, pc, hdr, in>>
    BY <1>5, Zenon DEF vars, writerVars, readerVars
  <2> QED BY <2>1, Zenon DEF FramingInv, TypeOK, LaidOut, ReadIsPrefix, EofMeansFin,
             NoFalseError, ReaderAt, Behind, Within, Coming
<1> QED BY <1>1, <1>2, <1>3, <1>4, <1>5, Zenon DEF Next

\* The bytes of a half are its frames laid end to end, and the reader is always
\* at a known place of the next frame, with that frame's header in its hands.
THEOREM FramingCorrect == Spec => []FramingInv
BY InitFraming, NextFraming, PTL DEF Spec

\* framing.rs: for every width of the header fields, every data and every set of
\* messages, however the bytes arrive, the frames read are the first written.
THEOREM FramingReadIsPrefix == Spec => []ReadIsPrefix
<1>1. FramingInv => ReadIsPrefix BY Zenon DEF FramingInv
<1> QED BY <1>1, FramingCorrect, PTL

\* read_chunk reports the end of the stream only at a FIN, with every frame read
\* that the writer wrote before it.
THEOREM FramingEofMeansFin == Spec => []EofMeansFin
<1>1. FramingInv => EofMeansFin BY Zenon DEF FramingInv
<1> QED BY <1>1, FramingCorrect, PTL

\* No frame that the writer lets out is refused by the reader.
THEOREM FramingNoFalseError == Spec => []NoFalseError
<1>1. FramingInv => NoFalseError BY Zenon DEF FramingInv
<1> QED BY <1>1, FramingCorrect, PTL
=============================================================================
