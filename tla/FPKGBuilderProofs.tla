------------------------- MODULE FPKGBuilderProofs -------------------------
(***************************************************************************)
(* Machine-checked proofs about a build of a package, for any trees, sizes *)
(* of blocks and entries, and numbers of workers.  The estimates of the    *)
(* table of chunk digests come to an end, and the entries lie one behind   *)
(* the other.  The signatures of an image come in an order in which none   *)
(* is disturbed by a later one, and from that follows the invariant of a   *)
(* build.  Who opens the package finds the inner image in it, and in that  *)
(* the tree (PFSLayoutProofs).                                             *)
(***************************************************************************)
EXTENDS FPKGBuilder, PFSLayoutProofs

----------------------------------------------------------------------------
(* Multiples, quotients and rounding.                                       *)

\* A number rounded up is the least multiple that is not below it.
LEMMA Rounding ==
    ASSUME NEW n \in Nat, NEW a \in Nat \ {0}
    PROVE  /\ ceilDiv(n, a) \in Nat /\ align(n, a) \in Nat
           /\ align(n, a) = ceilDiv(n, a) * a
           /\ n <= align(n, a) /\ align(n, a) <= n + a - 1
           /\ \A k \in Nat : n <= k * a => ceilDiv(n, a) <= k
<1> DEFINE q == ceilDiv(n, a)
<1>1. n + a - 1 \in Nat
  OBVIOUS
<1>2. q \in Nat /\ (n + a - 1) % a \in 0 .. a - 1
      /\ n + a - 1 = a * q + ((n + a - 1) % a)
  BY <1>1, Division DEF ceilDiv
<1>3. align(n, a) = q * a
  BY DEF align
<1> HIDE DEF q
<1>4. q * a = a * q /\ q * a \in Nat
  BY <1>2, Multiples
<1>5. n <= q * a /\ q * a <= n + a - 1
  <2> DEFINE m == a * q
             r == (n + a - 1) % a
  <2>1. m \in Nat /\ r \in 0 .. a - 1 /\ n + a - 1 = m + r
    BY <1>2, <1>4
  <2> HIDE DEF m, r
  <2>2. \A v, w, x, y \in Nat : y <= v - 1 /\ w + v - 1 = x + y => w <= x /\ x <= w + v - 1
    OBVIOUS
  <2>3. n <= m /\ m <= n + a - 1
    <3>1. r \in Nat /\ a \in Nat /\ r <= a - 1
      BY <2>1
    <3>2. QED
      BY <2>1, <2>2, <3>1
  <2>4. QED
    BY <1>4, <2>3 DEF m
<1>6. ASSUME NEW k \in Nat, n <= k * a
      PROVE  q <= k
  <2> SUFFICES ASSUME k + 1 <= q
               PROVE  FALSE
    BY <1>2
  <2>1. a * (k + 1) <= a * q
    BY <1>2, Multiples
  <2>2. a * (k + 1) = a * k + a
    <3>1. (k + 1) * a = k * a + 1 * a
      BY Multiples
    <3>2. (k + 1) * a = a * (k + 1) /\ k * a = a * k
      BY Multiples
    <3>3. QED
      BY <3>1, <3>2
  <2>3. k * a = a * k /\ k * a \in Nat
    BY Multiples
  <2> DEFINE m == a * q
             p == k * a
  <2>4. m \in Nat /\ p \in Nat /\ p + a <= m /\ n <= p /\ m <= n + a - 1
    BY <1>2, <1>4, <1>5, <1>6, <2>1, <2>2, <2>3
  <2> HIDE DEF m, p
  <2>5. \A v, w, x, y \in Nat : ~(x + v <= y /\ w <= x /\ y <= w + v - 1)
    OBVIOUS
  <2>6. QED
    <3>1. a \in Nat
      OBVIOUS
    <3>2. QED
      BY <2>4, <2>5, <3>1
<1>7. QED
  BY <1>2, <1>3, <1>4, <1>5, <1>6 DEF q

\* Rounding does not change a multiple, and what is added to one is rounded alone.
LEMMA RoundingOfSums ==
    ASSUME NEW k \in Nat, NEW n \in Nat, NEW a \in Nat \ {0}
    PROVE  align(k * a + n, a) = k * a + align(n, a)
<1>1. k * a \in Nat /\ k * a + n \in Nat
  BY Multiples
<1> DEFINE p == ceilDiv(k * a + n, a)
           q == ceilDiv(n, a)
<1>2. /\ p \in Nat /\ k * a + n <= p * a
      /\ \A j \in Nat : k * a + n <= j * a => p <= j
      /\ align(k * a + n, a) = p * a
  BY <1>1, Rounding
<1>3. /\ q \in Nat /\ n <= q * a /\ q * a \in Nat
      /\ \A j \in Nat : n <= j * a => q <= j
      /\ align(n, a) = q * a
  BY Rounding, Multiples
<1> HIDE DEF p, q
<1>4. (k + q) * a = k * a + q * a
  BY <1>3, Multiples
<1>5. p <= k + q
  <2>1. k * a + n <= (k + q) * a
    BY <1>1, <1>3, <1>4
  <2>2. QED
    BY <1>2, <1>3, <2>1
<1>6. p >= k
  <2> SUFFICES ASSUME p + 1 <= k
               PROVE  FALSE
    BY <1>2
  <2>1. a * (p + 1) <= a * k
    BY <1>2, Multiples
  <2>2. a * (p + 1) = p * a + a
    <3>1. (p + 1) * a = p * a + 1 * a
      BY <1>2, Multiples
    <3>2. (p + 1) * a = a * (p + 1)
      BY <1>2, Multiples
    <3>3. QED
      BY <3>1, <3>2
  <2>3. a * k = k * a /\ p * a \in Nat
    BY <1>2, Multiples
  <2> DEFINE x == p * a
             y == k * a
  <2>4. x \in Nat /\ y \in Nat /\ x + a <= y /\ y + n <= x
    BY <1>1, <1>2, <2>1, <2>2, <2>3
  <2> HIDE DEF x, y
  <2>5. QED
    BY <2>4
<1>7. p - k \in Nat /\ q <= p - k
  <2>1. p - k \in Nat
    BY <1>2, <1>6
  <2>2. ((p - k) + k) * a = (p - k) * a + k * a
    BY <2>1, Multiples
  <2>3. (p - k) + k = p /\ (p - k) * a \in Nat
    BY <1>2, <2>1, Multiples
  <2> DEFINE x == (p - k) * a
             y == k * a
  <2>4. x \in Nat /\ y \in Nat /\ y + n <= x + y
    BY <1>1, <1>2, <2>2, <2>3
  <2> HIDE DEF x, y
  <2>5. n <= x
    BY <2>4
  <2>6. QED
    BY <1>3, <2>1, <2>5 DEF x
<1>8. p = k + q
  BY <1>2, <1>3, <1>5, <1>7
<1>9. QED
  BY <1>2, <1>3, <1>4, <1>8

\* Nothing needs no padding.
LEMMA RoundingOfNothing ==
    ASSUME NEW a \in Nat \ {0}
    PROVE  align(0, a) = 0
<1>1. PICK z \in Nat : z = 0
  OBVIOUS
<1>2. ceilDiv(z, a) \in Nat /\ align(z, a) = ceilDiv(z, a) * a
      /\ \A n \in Nat : z <= n * a => ceilDiv(z, a) <= n
  BY Rounding
<1>3. z <= z * a
  BY <1>1
<1>4. ceilDiv(z, a) = 0
  BY <1>1, <1>2, <1>3
<1>5. 0 * a = 0
  OBVIOUS
<1>6. QED
  BY <1>1, <1>2, <1>4, <1>5

\* A larger number is not rounded to less.
LEMMA RoundingIsMonotone ==
    ASSUME NEW x \in Nat, NEW y \in Nat, NEW a \in Nat \ {0}, x <= y
    PROVE  ceilDiv(x, a) <= ceilDiv(y, a) /\ align(x, a) <= align(y, a)
<1>1. ceilDiv(y, a) \in Nat /\ align(y, a) = ceilDiv(y, a) * a /\ y <= align(y, a)
      /\ align(y, a) \in Nat
  BY Rounding
<1>2. x <= ceilDiv(y, a) * a
  BY <1>1
<1>3. ceilDiv(x, a) \in Nat /\ ceilDiv(x, a) <= ceilDiv(y, a) /\ align(x, a) = ceilDiv(x, a) * a
  BY <1>1, <1>2, Rounding
<1> DEFINE p == ceilDiv(x, a)
           q == ceilDiv(y, a)
<1>4. a * p <= a * q /\ a * p = p * a /\ a * q = q * a
  <2>1. p \in Nat /\ q \in Nat /\ p <= q /\ a \in Nat
    BY <1>1, <1>3
  <2> HIDE DEF p, q
  <2>2. QED
    BY <2>1, Multiples
<1>5. QED
  BY <1>1, <1>3, <1>4

----------------------------------------------------------------------------
(* The estimates of the table of chunk digests.                             *)

\* G is the number of alignments of size P of something that grows and is padded by
\* less than E.
Grows(G, P, E) ==
    /\ \A x, y \in Nat : x <= y => G[x] <= G[y]
    /\ \A x, y, n \in Nat : x <= y /\ y + E <= x + n * P => G[y] <= G[x] + n

\* Each estimate s[i] of a table of K for each of them, and c, follows from the last.
Estimates(s, G, K, c) ==
    s \in [0 .. 8 -> Nat] /\ s[0] = 0 /\ \A i \in 0 .. 7 : s[i + 1] = K * G[s[i]] + c

\* A table that grows slower than what it is part of, and is small without itself.
Table(G, K, c, P, E) ==
    /\ G \in [Nat -> Nat] /\ {K, c, P, E} \subseteq Nat
    /\ Grows(G, P, E)
    /\ 2 * K + E <= P /\ K * G[0] + c + E <= 32 * P

\* From none, eight estimates of such a table are enough: the alignments that one adds
\* halve with each round, from at most 32.
LEMMA Convergence ==
    ASSUME NEW G, NEW K, NEW c, NEW P, NEW E, NEW s,
           Table(G, K, c, P, E), Estimates(s, G, K, c)
    PROVE  /\ \A i \in 0 .. 7 : s[i] <= s[i + 1]
           /\ K * G[s[8]] + c = s[8]
<1> /\ G \in [Nat -> Nat] /\ K \in Nat /\ c \in Nat /\ P \in Nat /\ E \in Nat
    /\ Grows(G, P, E) /\ 2 * K + E <= P /\ K * G[0] + c + E <= 32 * P
  BY DEF Table
<1> s \in [0 .. 8 -> Nat] /\ s[0] = 0
  BY DEF Estimates
<1> DEFINE g(i) == G[s[i]]
<1>1. \A i \in 0 .. 7 : i \in 0 .. 8 /\ i + 1 \in 0 .. 8
  OBVIOUS
<1>2. \A i \in 0 .. 8 : s[i] \in Nat /\ g(i) \in Nat
  OBVIOUS
<1>3. ASSUME NEW i \in 0 .. 7, NEW j \in 0 .. 7, s[i] <= s[j]
      PROVE  s[i + 1] <= s[j + 1]
  <2>1. g(i) \in Nat /\ g(j) \in Nat /\ g(i) <= g(j)
    BY <1>1, <1>2, <1>3 DEF Grows
  <2>2. K * g(i) <= K * g(j) /\ K * g(i) \in Nat /\ K * g(j) \in Nat
    BY <2>1, Multiples
  <2>3. s[i + 1] = K * g(i) + c /\ s[j + 1] = K * g(j) + c
    BY DEF Estimates
  <2> DEFINE p == K * g(i)
             q == K * g(j)
  <2> HIDE DEF p, q
  <2>4. p <= q /\ p \in Nat /\ q \in Nat /\ s[i + 1] = p + c /\ s[j + 1] = q + c
    BY <2>2, <2>3 DEF p, q
  <2>5. QED
    BY <2>4
<1>4. ASSUME NEW i \in 0 .. 7, NEW j \in 0 .. 7, NEW m \in Nat \ {0},
             s[i] <= s[j], g(j) <= g(i) + 2 * m
      PROVE  g(j + 1) <= g(i + 1) + m
  <2>1. s[i + 1] <= s[j + 1]
    BY <1>3, <1>4
  <2>2. /\ K * g(j) <= K * (g(i) + 2 * m)
        /\ K * (g(i) + 2 * m) = K * g(i) + m * (2 * K)
    <3>1. g(j) \in Nat /\ g(i) \in Nat /\ g(i) + 2 * m \in Nat
      BY <1>1, <1>2
    <3>2. \A x, y, z \in Nat : z * (x + 2 * y) = z * x + y * (2 * z)
      BY Z3
    <3> HIDE DEF g
    <3>3. K * g(j) <= K * (g(i) + 2 * m)
      BY <1>4, <3>1, Multiples
    <3>4. K * (g(i) + 2 * m) = K * g(i) + m * (2 * K)
      BY <3>1, <3>2
    <3>5. QED
      BY <3>3, <3>4
  <2>3. m * (2 * K) + E <= m * P
    <3>1. m * (2 * K + E) <= m * P
      BY Multiples
    <3>2. m * (2 * K + E) = m * (2 * K) + m * E
      <4>1. \A x, y, z \in Nat : z * (x + y) = z * x + z * y
        BY Z3
      <4>2. QED
        BY <4>1
    <3>3. E <= m * E
      <4>1. \A x, y \in Nat : y # 0 => x <= y * x
        BY Z3
      <4>2. QED
        BY <4>1
    <3>4. m * (2 * K) \in Nat /\ m * E \in Nat /\ m * P \in Nat
      BY Multiples
    <3> DEFINE u == m * (2 * K)
               v == m * E
               w == m * P
               x == m * (2 * K + E)
    <3>5. u \in Nat /\ v \in Nat /\ w \in Nat /\ x = u + v /\ x <= w /\ E <= v
      BY <3>1, <3>2, <3>3, <3>4
    <3> HIDE DEF u, v, w, x
    <3>6. u + E <= w
      BY <3>5
    <3>7. QED
      BY <3>6 DEF u, w
  <2>4. s[j + 1] + E <= s[i + 1] + m * P
    <3> DEFINE p == K * g(i)
               q == K * g(j)
               u == m * (2 * K)
               w == m * P
    <3>1. p \in Nat /\ q \in Nat /\ u \in Nat /\ w \in Nat
      <4>1. g(i) \in Nat /\ g(j) \in Nat /\ 2 * K \in Nat /\ m \in Nat
        BY <1>1, <1>2
      <4> HIDE DEF g
      <4>2. QED
        BY <4>1, Multiples
    <3>2. s[i + 1] = p + c /\ s[j + 1] = q + c /\ q <= p + u /\ u + E <= w
      <4>1. s[i + 1] = p + c /\ s[j + 1] = q + c
        BY DEF Estimates
      <4>2. QED
        BY <2>2, <2>3, <4>1
    <3> HIDE DEF p, q, u, w
    <3>3. s[j + 1] + E <= s[i + 1] + w
      BY <3>1, <3>2
    <3>4. QED
      BY <3>3 DEF w
  <2>5. s[i + 1] \in Nat /\ s[j + 1] \in Nat /\ m \in Nat
    BY <1>1
  <2>6. G[s[j + 1]] <= G[s[i + 1]] + m
    BY <2>1, <2>4, <2>5 DEF Grows
  <2>7. QED
    BY <2>6
<1>5. \A i \in 0 .. 7 : s[i] <= s[i + 1]
  <2> DEFINE T == {i \in Nat : i <= 7 => s[i] <= s[i + 1]}
  <2>1. 0 \in T
    <3>1. s[0] <= s[0 + 1] <=> 0 <= s[1]
      OBVIOUS
    <3>2. QED
      BY <3>1
  <2>2. ASSUME NEW i \in Nat, i \in T
        PROVE  i + 1 \in T
    <3> SUFFICES ASSUME i + 1 <= 7
                 PROVE  s[i + 1] <= s[(i + 1) + 1]
      OBVIOUS
    <3>1. i \in 0 .. 7 /\ i + 1 \in 0 .. 7 /\ s[i] <= s[i + 1]
      BY <2>2
    <3>2. QED
      BY <1>3, <3>1
  <2>3. Nat \subseteq T
    <3> HIDE DEF T
    <3>1. QED
      BY <2>1, <2>2, Induction
  <2>4. QED
    BY <2>3
<1>6. g(1) <= g(0) + 32
  <2>1. s[0 + 1] = K * G[s[0]] + c
    BY DEF Estimates
  <2>2. s[1] = K * G[0] + c
    BY <2>1
  <2>3. s[1] + E <= s[0] + 32 * P /\ s[0] <= s[1] /\ s[0] \in Nat /\ s[1] \in Nat
    BY <2>2
  <2>4. QED
    BY <2>3 DEF Grows
<1> HIDE DEF g
<1>7. ASSUME NEW i \in 0 .. 6, NEW m \in Nat \ {0}, g(i + 1) <= g(i) + 2 * m
      PROVE  g(i + 2) <= g(i + 1) + m
  <2>1. i \in 0 .. 7 /\ i + 1 \in 0 .. 7 /\ (i + 1) + 1 = i + 2
    OBVIOUS
  <2>2. s[i] <= s[i + 1]
    BY <1>5, <2>1
  <2>3. g((i + 1) + 1) <= g(i + 1) + m
    BY <1>4, <1>7, <2>1, <2>2
  <2>4. QED
    BY <2>1, <2>3
<1>8. g(2) <= g(1) + 16
  BY <1>6, <1>7
<1>9. g(3) <= g(2) + 8
  BY <1>7, <1>8
<1>10. g(4) <= g(3) + 4
  BY <1>7, <1>9
<1>11. g(5) <= g(4) + 2
  BY <1>7, <1>10
<1>12. g(6) <= g(5) + 1
  BY <1>7, <1>11
<1>13. g(7) <= g(6) + 1
  <2>1. g(6) <= g(5) + 2
    BY <1>2, <1>12
  <2>2. QED
    BY <1>7, <2>1
<1>14. g(8) <= g(6) + 1
  <2>1. s[5] <= s[7]
    <3>1. s[5] <= s[5 + 1] /\ s[6] <= s[6 + 1]
      BY <1>5
    <3>2. s[5] \in Nat /\ s[6] \in Nat /\ s[7] \in Nat
      OBVIOUS
    <3>3. QED
      BY <3>1, <3>2
  <2>2. g(7) <= g(5) + 2 * 1
    BY <1>2, <1>12, <1>13
  <2>3. g(7 + 1) <= g(5 + 1) + 1
    BY <1>4, <2>1, <2>2
  <2>4. QED
    BY <2>3
<1>15. g(6) <= g(7) /\ g(7) <= g(8)
  <2>1. s[6] <= s[6 + 1] /\ s[7] <= s[7 + 1]
    BY <1>5
  <2>2. s[6] \in Nat /\ s[7] \in Nat /\ s[8] \in Nat
    OBVIOUS
  <2>3. QED
    BY <2>1, <2>2 DEF g, Grows
<1>16. s[8] = K * g(7) + c
  <2>1. s[7 + 1] = K * G[s[7]] + c
    BY DEF Estimates
  <2>2. QED
    BY <2>1 DEF g
<1>17. g(8) = g(7)
  <2>1. CASE g(7) = g(6)
    <3>1. s[6 + 1] = K * G[s[6]] + c
      BY DEF Estimates
    <3>2. s[7] = K * g(6) + c
      BY <3>1 DEF g
    <3>3. s[8] = s[7]
      BY <1>16, <2>1, <3>2
    <3>4. QED
      BY <3>3 DEF g
  <2>2. CASE g(7) = g(6) + 1
    BY <1>2, <1>14, <1>15, <2>2
  <2>3. g(6) \in Nat /\ g(7) \in Nat
    BY <1>2
  <2>4. g(7) = g(6) \/ g(7) = g(6) + 1
    <3>1. \A x, y \in Nat : x <= y /\ y <= x + 1 => y = x \/ y = x + 1
      OBVIOUS
    <3>2. QED
      BY <1>13, <1>15, <2>3, <3>1
  <2>5. QED
    BY <2>1, <2>2, <2>4
<1>18. QED
  BY <1>5, <1>16, <1>17 DEF g

\* The number of alignments of the body, if something padded is added to it.
LEMMA BodyGrows ==
    ASSUME NEW bytes \in Nat
    PROVE  LET G == [x \in Nat |->
                        ceilDiv(BodyOffset + (bytes + align(x, EntryAlign)), PkgAlign)]
           IN  G \in [Nat -> Nat] /\ Grows(G, PkgAlign, EntryAlign)
<1> DEFINE pad(x) == align(x, EntryAlign)
           all(x) == BodyOffset + (bytes + pad(x))
           G == [x \in Nat |-> ceilDiv(all(x), PkgAlign)]
<1>1. EntryAlign \in Nat \ {0} /\ PkgAlign \in Nat \ {0} /\ BodyOffset \in Nat
  BY PackageAssumption
<1>2. \A x \in Nat : pad(x) \in Nat /\ x <= pad(x) /\ pad(x) <= x + EntryAlign - 1
  BY <1>1, Rounding
<1>3. \A x \in Nat : all(x) \in Nat
  <2> HIDE DEF pad
  <2>1. QED
    BY <1>1, <1>2
<1>4. G \in [Nat -> Nat]
  <2>1. \A x \in Nat : ceilDiv(all(x), PkgAlign) \in Nat
    <3> HIDE DEF all
    <3>1. QED
      BY <1>1, <1>3, Rounding
  <2> HIDE DEF all
  <2>2. QED
    BY <2>1
<1>5. ASSUME NEW x \in Nat, NEW y \in Nat, x <= y
      PROVE  G[x] <= G[y]
  <2>1. pad(x) <= pad(y)
    BY <1>1, <1>5, RoundingIsMonotone
  <2>2. all(x) <= all(y)
    <3>1. pad(x) \in Nat /\ pad(y) \in Nat
      BY <1>2
    <3> HIDE DEF pad
    <3>2. QED
      BY <1>1, <2>1, <3>1
  <2> HIDE DEF all
  <2>3. ceilDiv(all(x), PkgAlign) <= ceilDiv(all(y), PkgAlign)
    BY <1>1, <1>3, <2>2, RoundingIsMonotone
  <2>4. QED
    BY <2>3
<1>6. ASSUME NEW x \in Nat, NEW y \in Nat, NEW n \in Nat, x <= y,
             y + EntryAlign <= x + n * PkgAlign
      PROVE  G[y] <= G[x] + n
  <2> DEFINE q == ceilDiv(all(x), PkgAlign)
  <2>1. all(x) \in Nat /\ all(y) \in Nat
    BY <1>3
  <2>2. q \in Nat /\ all(x) <= q * PkgAlign
    <3> HIDE DEF all
    <3>1. align(all(x), PkgAlign) = q * PkgAlign /\ all(x) <= align(all(x), PkgAlign) /\ q \in Nat
      BY <1>1, <2>1, Rounding
    <3>2. QED
      BY <3>1
  <2>3. (q + n) * PkgAlign = q * PkgAlign + n * PkgAlign /\ q * PkgAlign \in Nat
        /\ n * PkgAlign \in Nat
    <3> HIDE DEF q
    <3>1. QED
      BY <1>1, <2>2, Multiples
  <2>4. all(y) <= (q + n) * PkgAlign
    <3> DEFINE u == q * PkgAlign
               v == n * PkgAlign
               w == (q + n) * PkgAlign
               px == pad(x)
               py == pad(y)
    <3>1. /\ u \in Nat /\ v \in Nat /\ w = u + v /\ px \in Nat /\ py \in Nat
          /\ x <= px /\ py <= y + EntryAlign - 1 /\ y + EntryAlign <= x + v
          /\ BodyOffset + (bytes + px) <= u
      BY <1>2, <1>6, <2>2, <2>3
    <3>2. all(y) = BodyOffset + (bytes + py)
      OBVIOUS
    <3> HIDE DEF u, v, w, px, py, all
    <3>3. py <= px + v
      BY <1>1, <3>1
    <3>4. BodyOffset + (bytes + py) <= w
      BY <1>1, <3>1, <3>3
    <3>5. QED
      BY <3>2, <3>4 DEF w
  <2>5. ceilDiv(all(y), PkgAlign) <= q + n
    <3>1. q + n \in Nat
      BY <2>2
    <3> HIDE DEF all, q
    <3>2. QED
      BY <1>1, <2>1, <2>4, <3>1, Rounding
  <2>6. QED
    BY <2>5
<1> HIDE DEF G
<1>7. Grows(G, PkgAlign, EntryAlign)
  BY <1>5, <1>6 DEF Grows
<1>8. QED
  BY <1>4, <1>7 DEF G

\* The chunks of a package, whose body is aligned to whole ones.
LEMMA ChunksOfPackage ==
    ASSUME NEW bytes \in Nat, NEW outer \in Nat
    PROVE  LET body == ceilDiv(BodyOffset + bytes, PkgAlign)
           IN  /\ PkgAlign \div ChunkSize \in Nat /\ body \in Nat
               /\ align(BodyOffset + bytes, PkgAlign) \in Nat
               /\ Chunks(bytes, outer * ChunkSize)
                  = body * (PkgAlign \div ChunkSize) + outer
<1> DEFINE q == ceilDiv(BodyOffset + bytes, PkgAlign)
           k == PkgAlign \div ChunkSize
           x == q * k + outer
<1>1. PkgAlign \in Nat \ {0} /\ ChunkSize \in Nat \ {0} /\ BodyOffset \in Nat
      /\ PkgAlign % ChunkSize = 0
  BY PackageAssumption
<1>2. BodyOffset + bytes \in Nat
  BY <1>1
<1>3. /\ q \in Nat /\ align(BodyOffset + bytes, PkgAlign) \in Nat
      /\ BodySize(bytes) = q * PkgAlign
  BY <1>1, <1>2, Rounding DEF BodySize
<1>4. k \in Nat /\ PkgAlign = ChunkSize * k
  <2>1. k \in Nat /\ PkgAlign = ChunkSize * k + 0
    BY <1>1, Division
  <2> HIDE DEF k
  <2>2. ChunkSize * k \in Nat
    BY <1>1, <2>1, Multiples
  <2>3. QED
    BY <2>1, <2>2
<1> HIDE DEF q, k
<1>5. q * PkgAlign + outer * ChunkSize = x * ChunkSize /\ x \in Nat
  <2>1. \A a, b, c, d \in Nat : a * (c * b) + d * c = (a * b + d) * c
    BY Z3
  <2>2. q * (ChunkSize * k) + outer * ChunkSize = (q * k + outer) * ChunkSize
    BY <1>1, <1>3, <1>4, <2>1
  <2>3. q * k \in Nat
    BY <1>3, <1>4, Multiples
  <2>4. QED
    BY <1>4, <2>2, <2>3
<1> HIDE DEF x
<1>6. (x * ChunkSize) \div ChunkSize = x
  <2>1. \A a, b \in Nat : b # 0 => (a * b) \div b = a
    BY Z3
  <2>2. QED
    BY <1>1, <1>5, <2>1
<1>7. Chunks(bytes, outer * ChunkSize) = x
  BY <1>3, <1>5, <1>6 DEF Chunks
<1>8. QED
  BY <1>3, <1>4, <1>7 DEF q, k, x

\* Eight rounds of something, from nothing.
LEMMA EightRounds ==
    ASSUME NEW F \in [Nat \X (1 .. 8) -> Nat]
    PROVE  \E s \in [0 .. 8 -> Nat] :
              s[0] = 0 /\ \A i \in 1 .. 8 : s[i] = F[<<s[i - 1], i>>]
<1>1. 8 \in Nat /\ 0 \in Nat
  OBVIOUS
<1>2. QED
  BY <1>1, Rounds, ZenonT(60)

\* The room that is made for the chunk digests is enough for the package with it.
LEMMA TableHasRoom ==
    ASSUME NEW e, NEW outer \in Nat, Sizes(e) \in Nat,
           ChunkDigest * Chunks(Sizes(e), outer * ChunkSize) <= 32 * PkgAlign - EntryAlign
    PROVE  LET room == chunkTableSize(e, outer * ChunkSize)
           IN  /\ room \in Nat
               /\ ChunkDigest * Chunks(Sizes(e) + align(room, EntryAlign), outer * ChunkSize)
                  <= room
<1> DEFINE bytes == Sizes(e)
           k == PkgAlign \div ChunkSize
           needed(x) == ChunkDigest * Chunks(bytes + align(x, EntryAlign), outer * ChunkSize)
           G == [x \in Nat |-> ceilDiv(BodyOffset + (bytes + align(x, EntryAlign)), PkgAlign)]
           K == ChunkDigest * k
           c == ChunkDigest * outer
           round(x) == IF needed(x) <= x THEN x ELSE needed(x)
<1>1. EntryAlign \in Nat \ {0} /\ PkgAlign \in Nat \ {0} /\ ChunkDigest \in Nat
      /\ 2 * ChunkDigest * k + EntryAlign <= PkgAlign
  BY PackageAssumption
<1>2. \A x \in Nat : align(x, EntryAlign) \in Nat /\ bytes + align(x, EntryAlign) \in Nat
  <2>1. \A x \in Nat : align(x, EntryAlign) \in Nat
    BY <1>1, Rounding
  <2>2. QED
    BY <2>1
<1>3. k \in Nat
  BY ChunksOfPackage
<1>4. K \in Nat /\ c \in Nat
  BY <1>1, <1>3, Multiples
<1>5. G \in [Nat -> Nat] /\ Grows(G, PkgAlign, EntryAlign)
  BY BodyGrows
<1>6. \A x \in Nat : needed(x) = K * G[x] + c
  <2> TAKE x \in Nat
  <2>1. bytes + align(x, EntryAlign) \in Nat
    BY <1>2
  <2>2. Chunks(bytes + align(x, EntryAlign), outer * ChunkSize) = G[x] * k + outer
    <3>1. ceilDiv(BodyOffset + (bytes + align(x, EntryAlign)), PkgAlign) = G[x]
      OBVIOUS
    <3> HIDE DEF G
    <3>2. QED
      BY <2>1, <3>1, ChunksOfPackage
  <2>3. G[x] \in Nat
    BY <1>5
  <2>4. \A u, v, w, z \in Nat : u * (v * w + z) = (u * w) * v + u * z
    BY Z3
  <2> HIDE DEF G, k
  <2>5. ChunkDigest * (G[x] * k + outer) = K * G[x] + c
    BY <1>1, <1>3, <2>3, <2>4
  <2>6. QED
    BY <2>2, <2>5
<1>7. 2 * K + EntryAlign <= PkgAlign
  <2>1. \A u, v \in Nat : 2 * u * v = 2 * (u * v)
    BY Z3
  <2> HIDE DEF k
  <2>2. 2 * ChunkDigest * k = 2 * K
    BY <1>1, <1>3, <2>1
  <2>3. QED
    BY <1>1, <2>2
<1>8. K * G[0] + c + EntryAlign <= 32 * PkgAlign
  <2>1. align(0, EntryAlign) = 0
    BY <1>1, RoundingOfNothing
  <2>2. bytes + align(0, EntryAlign) = bytes
    BY <2>1
  <2>3. needed(0) = ChunkDigest * Chunks(bytes, outer * ChunkSize)
    BY <2>2
  <2>4. needed(0) = K * G[0] + c
    BY <1>6
  <2> DEFINE first == ChunkDigest * Chunks(bytes, outer * ChunkSize)
             value == K * G[0] + c
  <2>5. first = value /\ first <= 32 * PkgAlign - EntryAlign
    BY <2>3, <2>4
  <2>6. value \in Nat
    <3>1. G[0] \in Nat
      BY <1>5
    <3> HIDE DEF G, K, c
    <3>2. K * G[0] \in Nat
      BY <1>4, <3>1, Multiples
    <3>3. QED
      BY <1>4, <3>2
  <2> HIDE DEF first, value
  <2>7. value + EntryAlign <= 32 * PkgAlign
    BY <1>1, <2>5, <2>6
  <2>8. QED
    BY <2>7 DEF value
<1> HIDE DEF G, K, c, k, bytes
<1>9. PICK s \in [0 .. 8 -> Nat] : s[0] = 0 /\ \A i \in 1 .. 8 : s[i] = K * G[s[i - 1]] + c
  <2> DEFINE F == [p \in Nat \X (1 .. 8) |-> K * G[p[1]] + c]
  <2>1. \A x \in Nat : K * G[x] + c \in Nat
    <3>1. \A x \in Nat : K * G[x] \in Nat
      <4>1. \A x \in Nat : G[x] \in Nat
        BY <1>5
      <4>2. QED
        BY <1>4, <4>1, Multiples
    <3>2. QED
      BY <1>4, <3>1
  <2>2. F \in [Nat \X (1 .. 8) -> Nat]
    BY <2>1
  <2>3. PICK s \in [0 .. 8 -> Nat] : s[0] = 0 /\ \A i \in 1 .. 8 : s[i] = F[<<s[i - 1], i>>]
    <3> HIDE DEF F, needed, round
    <3>1. QED
      BY <2>2, EightRounds
  <2>4. \A i \in 1 .. 8 : i \in 0 .. 8 /\ i # 0 /\ i - 1 \in 0 .. 8 /\ s[i - 1] \in Nat
    OBVIOUS
  <2>5. \A i \in 1 .. 8 : F[<<s[i - 1], i>>] = K * G[s[i - 1]] + c
    BY <2>4
  <2> HIDE DEF F
  <2>6. s[0] = 0 /\ \A i \in 1 .. 8 : s[i] = K * G[s[i - 1]] + c
    BY <2>3, <2>5
  <2>7. QED
    BY <2>6
<1>10. Estimates(s, G, K, c)
  <2>1. \A i \in 0 .. 7 : i + 1 \in 1 .. 8 /\ (i + 1) - 1 = i
    OBVIOUS
  <2>2. QED
    BY <1>9, <2>1 DEF Estimates
<1>11. /\ \A i \in 0 .. 7 : s[i] <= s[i + 1]
       /\ K * G[s[8]] + c = s[8]
  <2>1. Table(G, K, c, PkgAlign, EntryAlign)
    BY <1>1, <1>4, <1>5, <1>7, <1>8 DEF Table
  <2>2. QED
    BY <1>10, <2>1, Convergence
<1>12. \A i \in 0 .. 7 : round(s[i]) = s[i + 1]
  <2> TAKE i \in 0 .. 7
  <2>1. s[i] \in Nat /\ s[i + 1] \in Nat
    <3>1. i \in 0 .. 8 /\ i + 1 \in 0 .. 8
      OBVIOUS
    <3>2. QED
      BY <1>9, <3>1
  <2>2. needed(s[i]) = s[i + 1]
    BY <1>6, <1>10, <2>1 DEF Estimates
  <2>3. s[i] <= s[i + 1]
    BY <1>11
  <2> HIDE DEF needed
  <2>4. QED
    BY <2>1, <2>2, <2>3
<1>13. chunkTableSize(e, outer * ChunkSize) = s[8]
  <2> DEFINE Right(f) == f = [i \in 0 .. 8 |-> IF i = 0 THEN 0 ELSE round(f[i - 1])]
             room == CHOOSE f : Right(f)
  <2>1. chunkTableSize(e, outer * ChunkSize) = room[8]
    BY DEF chunkTableSize, bytes
  <2> HIDE DEF round
  <2>2. Right(s)
    <3>1. \A i \in 0 .. 8 : i # 0 => s[i] = round(s[i - 1])
      <4>1. \A i \in 0 .. 8 : i # 0 => i - 1 \in 0 .. 7 /\ (i - 1) + 1 = i
        OBVIOUS
      <4>2. QED
        BY <1>12, <4>1
    <3>2. QED
      BY <1>9, <3>1
  <2>3. Right(room)
    <3> HIDE DEF Right
    <3>1. QED
      BY <2>2
  <2> HIDE DEF room
  <2>4. room[0] = 0 /\ \A i \in 0 .. 7 : room[i + 1] = round(room[i])
    <3>1. \A i \in 0 .. 7 : i + 1 \in 0 .. 8 /\ i + 1 # 0 /\ (i + 1) - 1 = i
      OBVIOUS
    <3>2. QED
      BY <2>3, <3>1
  <2> DEFINE T == {i \in Nat : i <= 8 => room[i] = s[i]}
  <2>5. 0 \in T
    BY <1>9, <2>4
  <2>6. ASSUME NEW i \in Nat, i \in T
        PROVE  i + 1 \in T
    <3> SUFFICES ASSUME i + 1 <= 8
                 PROVE  room[i + 1] = s[i + 1]
      OBVIOUS
    <3>1. i \in 0 .. 7 /\ room[i] = s[i]
      BY <2>6
    <3>2. QED
      BY <1>12, <2>4, <3>1
  <2>7. Nat \subseteq T
    <3> HIDE DEF T
    <3>1. QED
      BY <2>5, <2>6, Induction
  <2>8. QED
    BY <2>1, <2>7
<1>14. s[8] \in Nat /\ needed(s[8]) = s[8]
  <2>1. s[8] \in Nat
    BY <1>9
  <2>2. QED
    BY <1>6, <1>11, <2>1
<1>15. QED
  BY <1>13, <1>14 DEF bytes

----------------------------------------------------------------------------
(* Where the entries are.                                                   *)

\* What entries take is a number of alignments.
LEMMA SumsOfEntries ==
    ASSUME NEW e, Len(e) \in Nat, \A i \in 1 .. Len(e) : e[i].size \in Nat
    PROVE  /\ Sums(e)[0] = 0
           /\ \A i \in 1 .. Len(e) :
                 Sums(e)[i] = Sums(e)[i - 1] + align(e[i].size, EntryAlign)
           /\ \A i \in 0 .. Len(e) :
                 Sums(e)[i] \in Nat /\ \E k \in Nat : Sums(e)[i] = k * EntryAlign
<1> DEFINE n == Len(e)
           A(i) == align(e[i].size, EntryAlign)
           F == [p \in Nat \X (1 .. n) |-> p[1] + A(p[2])]
           Right(f) == f = [i \in 0 .. n |-> IF i = 0 THEN 0 ELSE f[i - 1] + A(i)]
<1>1. \A i \in 1 .. n : A(i) \in Nat /\ \E k \in Nat : A(i) = k * EntryAlign
  <2>1. EntryAlign \in Nat \ {0}
    BY PackageAssumption
  <2>2. QED
    BY <2>1, Rounding
<1>2. \E f : Right(f)
  <2>1. F \in [Nat \X (1 .. n) -> Nat]
    <3> HIDE DEF A
    <3>1. QED
      BY <1>1
  <2>2. PICK f \in [0 .. n -> Nat] : f = [i \in 0 .. n |-> IF i = 0 THEN 0 ELSE F[<<f[i - 1], i>>]]
    <3> HIDE DEF F, A
    <3>1. PICK b \in Nat : b = 0
      OBVIOUS
    <3>2. \E f \in [0 .. n -> Nat] : f = [i \in 0 .. n |-> IF i = 0 THEN b ELSE F[<<f[i - 1], i>>]]
      <4>1. n \in Nat
        OBVIOUS
      <4> HIDE DEF n
      <4>2. QED
        BY <2>1, <4>1, Loop, ZenonT(60)
    <3>3. QED
      BY <3>1, <3>2
  <2>3. \A i \in 0 .. n : i # 0 => i \in 1 .. n /\ i - 1 \in 0 .. n /\ f[i - 1] \in Nat
    BY SMTT(30)
  <2>4. \A i \in 0 .. n : i # 0 => F[<<f[i - 1], i>>] = f[i - 1] + A(i)
    <3> HIDE DEF A
    <3>1. QED
      BY <2>3
  <2> HIDE DEF F, A
  <2>5. Right(f)
    BY <2>2, <2>4
  <2>6. QED
    BY <2>5
<1>3. Right(Sums(e))
  <2> DEFINE sum == CHOOSE f : Right(f)
  <2>1. Sums(e) = sum
    BY DEF Sums
  <2> HIDE DEF Right
  <2>2. QED
    BY <1>2, <2>1
<1> DEFINE s == Sums(e)
<1> HIDE DEF s, A
<1>4. Right(s)
  BY <1>3 DEF s
<1>5. s[0] = 0 /\ \A i \in 1 .. n : s[i] = s[i - 1] + A(i)
  <2>1. \A i \in 1 .. n : i \in 0 .. n /\ i # 0
    OBVIOUS
  <2>2. QED
    BY <1>4, <2>1
<1>6. \A i \in 0 .. n : s[i] \in Nat /\ \E k \in Nat : s[i] = k * EntryAlign
  <2> DEFINE Multiple(x) == x \in Nat /\ \E k \in Nat : x = k * EntryAlign
             T == {i \in Nat : i <= n => Multiple(s[i])}
  <2>1. \A x, y : Multiple(x) /\ Multiple(y) => Multiple(x + y)
    <3> TAKE x, y
    <3> HAVE Multiple(x) /\ Multiple(y)
    <3>1. PICK k \in Nat, l \in Nat : x = k * EntryAlign /\ y = l * EntryAlign
      OBVIOUS
    <3>2. (k + l) * EntryAlign = k * EntryAlign + l * EntryAlign
      <4>1. EntryAlign \in Int /\ k \in Int /\ l \in Int
        BY PackageAssumption
      <4>2. QED
        BY <4>1, Multiples
    <3>3. x \in Nat /\ y \in Nat /\ k + l \in Nat
      OBVIOUS
    <3>4. x + y \in Nat /\ x + y = (k + l) * EntryAlign
      BY <3>1, <3>2, <3>3
    <3>5. QED
      BY <3>3, <3>4
  <2>2. Multiple(0)
    <3>1. 0 * EntryAlign = 0
      BY PackageAssumption
    <3>2. QED
      BY <3>1
  <2>3. \A i \in 1 .. n : Multiple(A(i))
    BY <1>1
  <2> HIDE DEF Multiple
  <2>4. 0 \in T
    BY <1>5, <2>2
  <2>5. ASSUME NEW i \in Nat, i \in T
        PROVE  i + 1 \in T
    <3> SUFFICES ASSUME i + 1 <= n
                 PROVE  Multiple(s[i + 1])
      OBVIOUS
    <3>1. i + 1 \in 1 .. n /\ i <= n /\ (i + 1) - 1 = i
      OBVIOUS
    <3>2. s[i + 1] = s[i] + A(i + 1)
      BY <1>5, <3>1
    <3>3. QED
      BY <2>1, <2>3, <2>5, <3>1, <3>2
  <2>6. Nat \subseteq T
    <3> HIDE DEF T
    <3>1. QED
      BY <2>4, <2>5, Induction
  <2>7. QED
    BY <2>6 DEF Multiple
<1>7. QED
  BY <1>5, <1>6 DEF s, A

\* Where they end: what they take behind the beginning of the body.
LEMMA EndsOfEntries ==
    ASSUME NEW e, Len(e) \in Nat, \A i \in 1 .. Len(e) : e[i].size \in Nat
    PROVE  /\ \A i \in 1 .. Len(e) :
                 Ends(e)[i] = align(Ends(e)[i - 1] + e[i].size, EntryAlign)
           /\ \A i \in 0 .. Len(e) : Ends(e)[i] = BodyOffset + Sums(e)[i]
<1> DEFINE n == Len(e)
           z(i) == e[i].size
           F == [p \in Nat \X (1 .. n) |-> align(p[1] + z(p[2]), EntryAlign)]
           Right(f) == f = [i \in 0 .. n |-> IF i = 0 THEN BodyOffset
                                             ELSE align(f[i - 1] + z(i), EntryAlign)]
<1>1. EntryAlign \in Nat \ {0} /\ BodyOffset \in Nat
  BY PackageAssumption
<1>2. \E f : Right(f)
  <2>1. F \in [Nat \X (1 .. n) -> Nat]
    <3>1. \A x \in Nat, i \in 1 .. n : align(x + z(i), EntryAlign) \in Nat
      <4>1. \A x \in Nat, i \in 1 .. n : x + z(i) \in Nat
        OBVIOUS
      <4> HIDE DEF z
      <4>2. QED
        BY <1>1, <4>1, Rounding
    <3> HIDE DEF z
    <3>2. QED
      BY <3>1
  <2>2. PICK f \in [0 .. n -> Nat] :
           f = [i \in 0 .. n |-> IF i = 0 THEN BodyOffset ELSE F[<<f[i - 1], i>>]]
    <3> HIDE DEF F
    <3>1. QED
      BY <1>1, <2>1, Loop, ZenonT(60)
  <2>3. \A i \in 0 .. n : i # 0 => i \in 1 .. n /\ i - 1 \in 0 .. n /\ f[i - 1] \in Nat
    BY SMTT(30)
  <2>4. \A i \in 0 .. n : i # 0 => F[<<f[i - 1], i>>] = align(f[i - 1] + z(i), EntryAlign)
    <3> HIDE DEF z
    <3>1. QED
      BY <2>3
  <2> HIDE DEF F, z
  <2>5. Right(f)
    BY <2>2, <2>4
  <2>6. QED
    BY <2>5
<1>3. Right(Ends(e))
  <2> DEFINE end == CHOOSE f : Right(f)
  <2>1. Ends(e) = end
    BY DEF Ends
  <2> HIDE DEF Right
  <2>2. QED
    BY <1>2, <2>1
<1> DEFINE t == Ends(e)
           s == Sums(e)
<1> HIDE DEF t, s
<1>4. Right(t)
  BY <1>3 DEF t
<1>5. t[0] = BodyOffset /\ \A i \in 1 .. n : t[i] = align(t[i - 1] + z(i), EntryAlign)
  <2>1. \A i \in 1 .. n : i \in 0 .. n /\ i # 0
    OBVIOUS
  <2> HIDE DEF z
  <2>2. QED
    BY <1>4, <2>1
<1>6. /\ s[0] = 0
      /\ \A i \in 1 .. n : s[i] = s[i - 1] + align(z(i), EntryAlign)
      /\ \A i \in 0 .. n : s[i] \in Nat /\ \E k \in Nat : s[i] = k * EntryAlign
  BY SumsOfEntries DEF s
<1>7. PICK b \in Nat : BodyOffset = b * EntryAlign
  <2>1. BodyOffset % EntryAlign = 0
    BY PackageAssumption
  <2> DEFINE b == BodyOffset \div EntryAlign
  <2>2. b \in Nat /\ BodyOffset = EntryAlign * b + 0
    BY <1>1, <2>1, Division
  <2> HIDE DEF b
  <2>3. EntryAlign * b = b * EntryAlign /\ EntryAlign * b \in Nat
    BY <1>1, <2>2, Multiples
  <2>4. QED
    BY <2>2, <2>3
<1>8. ASSUME NEW i \in 0 .. n, i + 1 <= n, t[i] = BodyOffset + s[i]
      PROVE  t[i + 1] = BodyOffset + s[i + 1]
  <2>1. i + 1 \in 1 .. n /\ (i + 1) - 1 = i
    <3>1. \A j \in 0 .. n : j + 1 <= n => j + 1 \in 1 .. n /\ (j + 1) - 1 = j
      OBVIOUS
    <3>2. i \in 0 .. n /\ i + 1 <= n
      BY <1>8
    <3>3. QED
      BY <3>1, <3>2
  <2>2. PICK k \in Nat : s[i] = k * EntryAlign
    BY <1>6
  <2>3. t[i] = (b + k) * EntryAlign /\ b + k \in Nat
    BY <1>1, <1>7, <1>8, <2>2, Multiples
  <2>4. z(i + 1) \in Nat
    BY <2>1
  <2> HIDE DEF z
  <2>5. t[i + 1] = align(t[i] + z(i + 1), EntryAlign)
    BY <1>5, <2>1
  <2>6. align((b + k) * EntryAlign + z(i + 1), EntryAlign)
        = (b + k) * EntryAlign + align(z(i + 1), EntryAlign)
    BY <1>1, <2>3, <2>4, RoundingOfSums, ZenonT(60)
  <2>7. t[i + 1] = t[i] + align(z(i + 1), EntryAlign)
    BY <2>3, <2>5, <2>6
  <2>8. s[i + 1] = s[i] + align(z(i + 1), EntryAlign)
    BY <1>6, <2>1
  <2>9. align(z(i + 1), EntryAlign) \in Nat /\ s[i] \in Nat
    BY <1>1, <1>6, <2>4, Rounding
  <2>10. QED
    BY <1>1, <1>8, <2>7, <2>8, <2>9
<1>9. \A i \in 0 .. n : t[i] = BodyOffset + s[i]
  <2> DEFINE T == {i \in Nat : i <= n => t[i] = BodyOffset + s[i]}
  <2>1. 0 \in T
    <3>1. BodyOffset + 0 = BodyOffset
      BY <1>1
    <3>2. t[0] = BodyOffset + s[0]
      BY <1>5, <1>6, <3>1
    <3>3. QED
      BY <3>2
  <2>2. ASSUME NEW i \in Nat, i \in T
        PROVE  i + 1 \in T
    <3> SUFFICES ASSUME i + 1 <= n
                 PROVE  t[i + 1] = BodyOffset + s[i + 1]
      OBVIOUS
    <3>1. i \in 0 .. n /\ t[i] = BodyOffset + s[i]
      BY <2>2
    <3>2. QED
      BY <1>8, <3>1
  <2>3. Nat \subseteq T
    <3> HIDE DEF T
    <3>1. QED
      BY <2>1, <2>2, Induction
  <2>4. QED
    BY <2>3
<1>10. QED
  BY <1>5, <1>9 DEF t, s, z

\* The entries of a package: one of them is the table of chunk digests, which has no
\* size yet.
LEMMA EntriesOfPackage ==
    ASSUME NEW t, IsFiniteSet(DOMAIN t.files)
    PROVE  LET e == Entries(t)
           IN  /\ Len(e) \in Nat /\ DOMAIN e = 1 .. Len(e) /\ 8 \in 1 .. Len(e)
               /\ e[8] = [name |-> "chunk_sha", size |-> 0]
               /\ \A i \in 1 .. Len(e) : i # 8 => e[i].name # "chunk_sha"
<1> DEFINE S     == {f \in DOMAIN t.files : isPkgEntryFile(f) /\ f # ParamSFO}
           n     == Cardinality(S)
           count == Len(GeneratedEntries) + Len(FileEntries(t))
           size(e) == CASE e \in {"metas", "digests"} -> count * MetaSize
                        [] e = "chunk_sha" -> 0
                        [] OTHER -> EntrySize[e]
           head == [i \in DOMAIN GeneratedEntries |->
                       [name |-> GeneratedEntries[i], size |-> size(GeneratedEntries[i])]]
           tail == [i \in DOMAIN FileEntries(t) |->
                       [name |-> "file", size |-> t.files[FileEntries(t)[i]]]]
           Records == {head[i] : i \in 1 .. 13} \cup {tail[i] : i \in 1 .. n}
           all == head \o tail
<1>1. n \in Nat
  <2>1. S \subseteq DOMAIN t.files
    OBVIOUS
  <2>2. IsFiniteSet(S)
    BY <2>1, FS_Subset
  <2>3. QED
    BY <2>2, FS_CardinalityType
<1>2. DOMAIN FileEntries(t) = 1 .. n
  BY DEF FileEntries, Sorted, Ordered
<1>3. Entries(t) = all
  BY DEF Entries
<1>4. DOMAIN GeneratedEntries = 1 .. 13
  BY DEF GeneratedEntries
<1>5. /\ GeneratedEntries[8] = "chunk_sha"
      /\ \A i \in 1 .. 13 : i # 8 => GeneratedEntries[i] # "chunk_sha"
  <2>1. \A i \in 1 .. 13 : i \in {1, 2, 3, 4, 5, 6, 7, 8, 9, 10, 11, 12, 13}
    OBVIOUS
  <2>2. QED
    BY <2>1 DEF GeneratedEntries
<1>6. size("chunk_sha") = 0
  OBVIOUS
<1> HIDE DEF size, S, n
<1>7. head[8] = [name |-> "chunk_sha", size |-> 0]
  BY <1>4, <1>5, <1>6
<1>8. \A i \in 1 .. 13 : i # 8 => head[i].name # "chunk_sha"
  BY <1>4, <1>5
<1>9. \A i \in 1 .. n : tail[i].name = "file"
  BY <1>2
<1>10. head \in Seq(Records) /\ Len(head) = 13
  <2>1. DOMAIN head = 1 .. 13 /\ \A i \in 1 .. 13 : head[i] \in Records
    BY <1>4
  <2>2. head = [i \in 1 .. 13 |-> head[i]]
    BY <1>4
  <2> HIDE DEF head, Records
  <2>3. QED
    BY <2>1, <2>2
<1>11. tail \in Seq(Records) /\ Len(tail) = n
  <2>1. DOMAIN tail = 1 .. n /\ \A i \in 1 .. n : tail[i] \in Records
    BY <1>2
  <2>2. tail = [i \in 1 .. n |-> tail[i]]
    BY <1>2
  <2> HIDE DEF tail, Records
  <2>3. QED
    BY <1>1, <2>1, <2>2
<1> HIDE DEF head, tail, Records
<1>12. /\ all \in Seq(Records)
       /\ Len(all) = Len(head) + Len(tail)
       /\ \A i \in 1 .. Len(head) + Len(tail) :
             all[i] = IF i <= Len(head) THEN head[i] ELSE tail[i - Len(head)]
  BY <1>10, <1>11, ConcatProperties
<1> HIDE DEF all
<1>13. Len(all) = 13 + n /\ Len(all) \in Nat
  BY <1>1, <1>10, <1>11, <1>12
<1>14. DOMAIN all = 1 .. Len(all)
  <2>1. \A q \in Seq(Records) : DOMAIN q = 1 .. Len(q)
    OBVIOUS
  <2>2. QED
    BY <1>12, <2>1
<1>15. \A i \in 1 .. 13 + n : all[i] = IF i <= 13 THEN head[i] ELSE tail[i - 13]
  BY <1>10, <1>11, <1>12
<1>16. 8 \in 1 .. 13 + n /\ all[8] = head[8]
  <2>1. 8 \in 1 .. 13 + n
    BY <1>1
  <2>2. QED
    BY <1>15, <2>1
<1>17. \A i \in 1 .. 13 + n : i # 8 => all[i].name # "chunk_sha"
  <2> TAKE i \in 1 .. 13 + n
  <2>1. i \in 1 .. 13 \/ (i - 13 \in 1 .. n /\ ~(i <= 13))
    BY <1>1
  <2>2. CASE i \in 1 .. 13
    <3>1. i <= 13
      BY <2>2
    <3>2. all[i] = head[i]
      BY <1>15, <3>1
    <3>3. QED
      BY <1>8, <2>2, <3>2
  <2>3. CASE i - 13 \in 1 .. n /\ ~(i <= 13)
    <3>1. all[i] = tail[i - 13]
      BY <1>15, <2>3
    <3>2. all[i].name = "file"
      BY <1>9, <2>3, <3>1
    <3>3. QED
      BY <3>2
  <2>4. QED
    BY <2>1, <2>2, <2>3
<1>18. QED
  BY <1>3, <1>7, <1>13, <1>14, <1>16, <1>17

\* What EntriesAssumption says of each tree.
SmallEnough(t, outer) ==
    /\ IsFiniteSet(DOMAIN t.files)
    /\ \A i \in DOMAIN Entries(t) : Entries(t)[i].size \in Nat
    /\ ChunkDigest * Chunks(Sizes(Entries(t)), outer * ChunkSize)
       <= 32 * PkgAlign - EntryAlign

\* A package that is small enough has its entries one behind the other, before the
\* image, with room for the digests of its chunks.
LEMMA PackageFits ==
    ASSUME NEW t, NEW outer \in Nat, SmallEnough(t, outer)
    PROVE  LET hdr == buildHeaderAndEntries(t, outer * ChunkSize)
               e   == hdr.entries
           IN  /\ \A i \in DOMAIN e :
                     e[i].at + e[i].size <= IF i = Len(e) THEN hdr.image
                                            ELSE e[i + 1].at
               /\ hdr.chunks * ChunkDigest <= hdr.room
<1> DEFINE plain == Entries(t)
           L     == Len(plain)
           pfs   == outer * ChunkSize
           sha   == chunkTableSize(plain, pfs)
           pad   == align(sha, EntryAlign)
           sized == [i \in DOMAIN plain |->
                        IF plain[i].name = "chunk_sha"
                        THEN [plain[i] EXCEPT !.size = sha] ELSE plain[i]]
           end   == Ends(sized)
           place(i) == [name |-> sized[i].name, size |-> sized[i].size, at |-> end[i - 1]]
           e     == [i \in DOMAIN sized |-> place(i)]
           body  == align(end[Len(sized)], PkgAlign)
           chunks == (body + pfs) \div ChunkSize
           hdr   == buildHeaderAndEntries(t, pfs)
<1>1. EntryAlign \in Nat \ {0} /\ PkgAlign \in Nat \ {0} /\ ChunkDigest \in Nat
      /\ BodyOffset \in Nat
  BY PackageAssumption
<1>2. hdr = [entries |-> e, image |-> body, chunks |-> chunks, room |-> sha]
  BY DEF buildHeaderAndEntries
<1>3. /\ L \in Nat /\ DOMAIN plain = 1 .. L /\ 8 \in 1 .. L
      /\ plain[8] = [name |-> "chunk_sha", size |-> 0]
      /\ \A i \in 1 .. L : i # 8 => plain[i].name # "chunk_sha"
  BY EntriesOfPackage DEF SmallEnough
<1>4. \A i \in 1 .. L : plain[i].size \in Nat
  BY <1>3 DEF SmallEnough
<1> HIDE DEF plain
<1>5. Sizes(plain) = Sums(plain)[L] /\ Sizes(plain) \in Nat
  <2>1. \A i \in 0 .. L : Sums(plain)[i] \in Nat
    BY <1>3, <1>4, SumsOfEntries
  <2>2. L \in 0 .. L
    BY <1>3
  <2>3. QED
    BY <2>1, <2>2 DEF Sizes
<1>6. /\ sha \in Nat
      /\ ChunkDigest * Chunks(Sizes(plain) + pad, pfs) <= sha
  <2>1. ChunkDigest * Chunks(Sizes(plain), pfs) <= 32 * PkgAlign - EntryAlign
    BY DEF SmallEnough, plain
  <2>2. QED
    BY <1>5, <2>1, TableHasRoom
<1> HIDE DEF sha
<1>7. /\ DOMAIN sized = 1 .. L
      /\ sized[8].size = sha
      /\ \A i \in 1 .. L : i # 8 => sized[i] = plain[i]
      /\ \A i \in 1 .. L : sized[i].size \in Nat
  <2>1. DOMAIN sized = 1 .. L
    BY <1>3
  <2>2. sized[8].size = sha
    BY <1>3
  <2>3. \A i \in 1 .. L : i # 8 => sized[i] = plain[i]
    BY <1>3
  <2> HIDE DEF sized
  <2>4. QED
    BY <1>4, <1>6, <2>1, <2>2, <2>3
<1>8. Len(sized) = L
  <2> DEFINE Records == {sized[i] : i \in 1 .. L}
  <2>1. sized = [i \in 1 .. L |-> sized[i]]
    BY <1>3
  <2>2. \A i \in 1 .. L : sized[i] \in Records
    OBVIOUS
  <2> HIDE DEF sized, Records
  <2>3. QED
    BY <1>3, <2>1, <2>2
<1> HIDE DEF sized
<1> DEFINE s == Sums(plain)
           u == Sums(sized)
<1>9. /\ s[0] = 0 /\ \A i \in 1 .. L : s[i] = s[i - 1] + align(plain[i].size, EntryAlign)
      /\ \A i \in 0 .. L : s[i] \in Nat
  BY <1>3, <1>4, SumsOfEntries
<1>10. /\ u[0] = 0 /\ \A i \in 1 .. L : u[i] = u[i - 1] + align(sized[i].size, EntryAlign)
       /\ \A i \in 0 .. L : u[i] \in Nat
  BY <1>3, <1>7, <1>8, SumsOfEntries
<1> HIDE DEF s, u
<1>11. pad \in Nat
  BY <1>1, <1>6, Rounding
<1>12. \A i \in 0 .. L : u[i] = IF i < 8 THEN s[i] ELSE s[i] + pad
  <2> DEFINE T == {i \in Nat : i <= L => u[i] = IF i < 8 THEN s[i] ELSE s[i] + pad}
  <2>1. 0 \in T
    BY <1>9, <1>10
  <2>2. ASSUME NEW i \in Nat, i \in T
        PROVE  i + 1 \in T
    <3> SUFFICES ASSUME i + 1 <= L
                 PROVE  u[i + 1] = IF i + 1 < 8 THEN s[i + 1] ELSE s[i + 1] + pad
      OBVIOUS
    <3>1. i + 1 \in 1 .. L /\ (i + 1) - 1 = i /\ i <= L /\ i \in 0 .. L
      BY <1>3
    <3> DEFINE a == align(plain[i + 1].size, EntryAlign)
               b == align(sized[i + 1].size, EntryAlign)
    <3>2. s[i + 1] = s[i] + a
      BY <1>9, <3>1
    <3>3. u[i + 1] = u[i] + b
      BY <1>10, <3>1
    <3>4. u[i] = IF i < 8 THEN s[i] ELSE s[i] + pad
      BY <2>2, <3>1
    <3>5. s[i] \in Nat
      BY <1>9, <3>1
    <3>6. a \in Nat
      BY <1>1, <1>4, <3>1, Rounding
    <3>7. CASE i + 1 = 8
      <4>1. plain[i + 1].size = 0
        BY <1>3, <3>7
      <4>2. sized[i + 1].size = sha
        BY <1>7, <3>7
      <4>3. a = 0 /\ b = pad
        BY <1>1, <4>1, <4>2, RoundingOfNothing
      <4> HIDE DEF a, b, pad
      <4>4. i < 8 /\ ~(i + 1 < 8)
        BY <3>7
      <4>5. QED
        BY <1>11, <3>2, <3>3, <3>4, <3>5, <4>3, <4>4
    <3>8. CASE i + 1 # 8
      <4>1. a = b
        BY <1>7, <3>1, <3>8
      <4>2. i < 8 <=> i + 1 < 8
        BY <3>8
      <4> HIDE DEF a, b, pad
      <4>3. QED
        BY <1>11, <3>2, <3>3, <3>4, <3>5, <3>6, <4>1, <4>2
    <3>9. QED
      BY <3>7, <3>8
  <2>3. Nat \subseteq T
    <3> HIDE DEF T
    <3>1. QED
      BY <2>1, <2>2, Induction
  <2>4. QED
    BY <2>3
<1>13. /\ \A i \in 1 .. L : end[i] = align(end[i - 1] + sized[i].size, EntryAlign)
       /\ \A i \in 0 .. L : end[i] = BodyOffset + u[i]
  BY <1>3, <1>7, <1>8, EndsOfEntries DEF u
<1> HIDE DEF end, pad
<1>14. \A i \in 0 .. L : end[i] \in Nat
  BY <1>1, <1>10, <1>13
<1>15. end[L] = BodyOffset + (Sizes(plain) + pad)
  <2>1. L \in 0 .. L /\ ~(L < 8)
    BY <1>3
  <2>2. u[L] = s[L] + pad
    BY <1>12, <2>1
  <2>3. QED
    BY <1>5, <1>13, <2>1, <2>2 DEF s
<1>16. body = align(end[L], PkgAlign) /\ end[L] <= body
  <2>1. end[L] \in Nat
    <3>1. L \in 0 .. L
      BY <1>3
    <3>2. QED
      BY <1>14, <3>1
  <2>2. end[L] <= align(end[L], PkgAlign)
    BY <1>1, <2>1, Rounding
  <2>3. QED
    BY <1>8, <2>2
<1>17. \A i \in 1 .. L : end[i - 1] + sized[i].size <= end[i]
  <2> TAKE i \in 1 .. L
  <2> DEFINE x == end[i - 1] + sized[i].size
  <2>1. i - 1 \in 0 .. L
    BY <1>3
  <2>2. x \in Nat
    BY <1>7, <1>14, <2>1
  <2>3. end[i] = align(x, EntryAlign)
    BY <1>13
  <2> HIDE DEF x
  <2>4. x <= end[i]
    BY <1>1, <2>2, <2>3, Rounding
  <2>5. QED
    BY <2>4 DEF x
<1>18. DOMAIN e = 1 .. L
  BY <1>7
<1>19. Len(e) = L
  <2> DEFINE Records == {e[i] : i \in 1 .. L}
  <2>1. e = [i \in 1 .. L |-> e[i]]
    BY <1>7
  <2>2. \A i \in 1 .. L : e[i] \in Records
    OBVIOUS
  <2> HIDE DEF e, Records
  <2>3. QED
    BY <1>3, <2>1, <2>2
<1>20. \A i \in 1 .. L : e[i].at = end[i - 1] /\ e[i].size = sized[i].size
  BY <1>18
<1> HIDE DEF e
<1>21. ASSUME NEW i \in 1 .. L
       PROVE  e[i].at + e[i].size <= IF i = L THEN body ELSE e[i + 1].at
  <2>1. e[i].at + e[i].size <= end[i]
    BY <1>17, <1>20
  <2>2. CASE i = L
    <3>1. e[i].at \in Nat /\ e[i].size \in Nat /\ end[i] \in Nat /\ body \in Nat
      <4>1. i - 1 \in 0 .. L /\ i \in 0 .. L
        BY <1>3
      <4>2. align(end[L], PkgAlign) \in Nat
        BY <1>1, <1>14, <2>2, <4>1, Rounding
      <4>3. QED
        BY <1>7, <1>14, <1>16, <1>20, <4>1, <4>2
    <3> HIDE DEF body
    <3>2. QED
      BY <1>16, <2>1, <2>2, <3>1
  <2>3. CASE i # L
    <3>1. i + 1 \in 1 .. L /\ (i + 1) - 1 = i
      <4>1. \A n \in Nat : \A j \in 1 .. n : j # n => j + 1 \in 1 .. n /\ (j + 1) - 1 = j
        OBVIOUS
      <4>2. L \in Nat
        BY <1>3
      <4> HIDE DEF L
      <4>3. QED
        BY <2>3, <4>1, <4>2
    <3>2. e[i + 1].at = end[i]
      BY <1>20, <3>1
    <3>3. QED
      BY <2>1, <2>3, <3>2
  <2>4. QED
    BY <2>2, <2>3
<1>22. chunks * ChunkDigest <= sha
  <2> DEFINE bytes == Sizes(plain) + pad
  <2>1. bytes \in Nat
    BY <1>5, <1>11
  <2>2. chunks = Chunks(bytes, pfs)
    BY <1>15, <1>16 DEF Chunks, BodySize
  <2> HIDE DEF bytes
  <2>3. Chunks(bytes, pfs) \in Nat
    <3> DEFINE k == PkgAlign \div ChunkSize
               q == ceilDiv(BodyOffset + bytes, PkgAlign)
    <3>1. k \in Nat /\ q \in Nat /\ Chunks(bytes, pfs) = q * k + outer
      BY <2>1, ChunksOfPackage
    <3> HIDE DEF k, q
    <3>2. q * k \in Nat
      BY <3>1, Multiples
    <3>3. QED
      BY <3>1, <3>2
  <2>4. chunks * ChunkDigest = ChunkDigest * Chunks(bytes, pfs)
    <3> DEFINE n == Chunks(bytes, pfs)
    <3>1. n \in Nat /\ chunks = n
      BY <2>2, <2>3
    <3> HIDE DEF n, chunks
    <3>2. n * ChunkDigest = ChunkDigest * n
      BY <1>1, <3>1, Multiples
    <3>3. QED
      BY <3>1, <3>2 DEF n
  <2>5. QED
    BY <1>6, <2>4 DEF bytes
<1>23. QED
  <2> HIDE DEF body, chunks
  <2>1. hdr.entries = e /\ hdr.image = body /\ hdr.chunks = chunks /\ hdr.room = sha
    BY <1>2
  <2> HIDE DEF hdr
  <2>2. /\ \A i \in DOMAIN hdr.entries :
              hdr.entries[i].at + hdr.entries[i].size
              <= IF i = Len(hdr.entries) THEN hdr.image ELSE hdr.entries[i + 1].at
        /\ hdr.chunks * ChunkDigest <= hdr.room
    BY <1>18, <1>19, <1>21, <1>22, <2>1
  <2>3. QED
    BY <2>2 DEF hdr

----------------------------------------------------------------------------
(* The lists of signatures of an image of n blocks.                         *)

\* The indirect blocks are between inodes and uroot.
LEMMA IndirectBlocks ==
    ASSUME NEW n \in Nat
    PROVE  /\ indirectBlockCount(n) \in Nat
           /\ UrootBlock(n) \in Nat /\ UrootBlock(n) >= 5
           /\ OuterSize(n) \in Nat /\ OuterSize(n) = UrootBlock(n) + 1 + n
           /\ n > Direct => UrootBlock(n) > IB0
           /\ n > Direct + SigsPerBlock =>
                /\ ceilDiv(n - Direct - SigsPerBlock, SigsPerBlock) \in Nat
                /\ UrootBlock(n) = IB1 + 1 + ceilDiv(n - Direct - SigsPerBlock, SigsPerBlock)
<1>1. Direct \in Nat \ {0} /\ SigsPerBlock \in Nat \ {0}
  BY PFSAssumption
<1> DEFINE c == ceilDiv(n - Direct - SigsPerBlock, SigsPerBlock)
<1>2. n > Direct + SigsPerBlock => c \in Nat
  <2> SUFFICES ASSUME n > Direct + SigsPerBlock
               PROVE  c \in Nat
    OBVIOUS
  <2>1. n - Direct - SigsPerBlock \in Nat /\ 0 < n - Direct - SigsPerBlock
    BY <1>1
  <2>2. QED
    BY <1>1, <2>1, QuotientBound
<1> HIDE DEF c
<1>3. indirectBlockCount(n) = (IF n > Direct THEN 1 ELSE 0)
                              + (IF n > Direct + SigsPerBlock THEN 1 + c ELSE 0)
  <2>1. /\ n - Direct > 0 <=> n > Direct
        /\ n - Direct > SigsPerBlock <=> n > Direct + SigsPerBlock
    BY <1>1
  <2>2. QED
    BY <2>1 DEF indirectBlockCount, c
<1>4. QED
  BY <1>1, <1>2, <1>3 DEF UrootBlock, OuterSize, IB0, IB1, c

\* The slots of the blocks of the file are in front of it, and no two are one.
LEMMA FileSlots ==
    ASSUME NEW n \in Nat, NEW k \in 0 .. n - 1
    PROVE  /\ FileSlot(k)[1] \in {"inode", "block"}
           /\ FileSlot(k)[1] = "inode" => FileSlot(k) = Ino(3, k) /\ k < Direct
           /\ FileSlot(k)[1] = "block" =>
                 /\ k >= Direct /\ FileSlot(k)[2] \in IB0 .. UrootBlock(n) - 1
                 /\ FileSlot(k)[2] # IB1
           /\ SlotBlock(FileSlot(k)) \in 1 .. UrootBlock(n) - 1
           /\ \A j \in 0 .. n - 1 : FileSlot(j) = FileSlot(k) => j = k
<1>1. Direct \in Nat \ {0} /\ SigsPerBlock \in Nat \ {0} /\ k \in Nat /\ k < n
  BY PFSAssumption
<1> DEFINE past(i) == i - Direct - SigsPerBlock
           q(i) == past(i) \div SigsPerBlock
<1>2. ASSUME NEW i \in 0 .. n - 1
      PROVE  \/ i < Direct /\ FileSlot(i) = Ino(3, i)
             \/ i >= Direct /\ past(i) < 0 /\ FileSlot(i) = Ind(IB0, i - Direct)
             \/ i >= Direct /\ past(i) \in Nat
                /\ FileSlot(i) = Ind(IB1 + 1 + q(i), past(i) % SigsPerBlock)
  BY <1>1 DEF FileSlot
<1>3. ASSUME NEW i \in 0 .. n - 1, past(i) \in Nat
      PROVE  q(i) \in Nat /\ IB1 + 1 + q(i) < UrootBlock(n)
  <2>1. n - Direct - SigsPerBlock \in Nat /\ past(i) < n - Direct - SigsPerBlock
    BY <1>1, <1>3
  <2>2. /\ ceilDiv(n - Direct - SigsPerBlock, SigsPerBlock) \in Nat
        /\ q(i) < ceilDiv(n - Direct - SigsPerBlock, SigsPerBlock)
    BY <1>1, <1>3, <2>1, QuotientBound
  <2>3. q(i) \in Nat
    BY <1>1, <1>3, Division
  <2>4. n > Direct + SigsPerBlock
    BY <1>1, <1>3, <2>1
  <2> HIDE DEF q, past
  <2>5. QED
    BY <2>2, <2>3, <2>4, IndirectBlocks DEF IB1
<1> HIDE DEF q, past
<1>4. ASSUME NEW j \in 0 .. n - 1, FileSlot(j) = FileSlot(k)
      PROVE  j = k
  <2>1. /\ \A i, m, b, o : Ino(i, m) # Ind(b, o)
        /\ \A i, m, b, o : Ino(i, m) = Ino(b, o) <=> i = b /\ m = o
        /\ \A i, m, b, o : Ind(i, m) = Ind(b, o) <=> i = b /\ m = o
    BY DEF Ino, Ind
  <2>2. CASE j < Direct \/ k < Direct
    BY <1>1, <1>2, <1>4, <2>1, <2>2
  <2>3. CASE past(j) < 0 \/ past(k) < 0
    BY <1>1, <1>2, <1>3, <1>4, <2>1, <2>3 DEF IB0, IB1
  <2>4. CASE past(j) \in Nat /\ past(k) \in Nat /\ j >= Direct /\ k >= Direct
    <3>1. q(j) = q(k) /\ past(j) % SigsPerBlock = past(k) % SigsPerBlock
      <4>1. FileSlot(j) = Ind(IB1 + 1 + q(j), past(j) % SigsPerBlock)
        BY <1>1, <1>2, <2>4
      <4>2. FileSlot(k) = Ind(IB1 + 1 + q(k), past(k) % SigsPerBlock)
        BY <1>1, <1>2, <2>4
      <4>3. q(j) \in Nat /\ q(k) \in Nat
        BY <1>3, <2>4
      <4>4. IB1 + 1 + q(j) = IB1 + 1 + q(k) /\ past(j) % SigsPerBlock = past(k) % SigsPerBlock
        <5> DEFINE a == IB1 + 1 + q(j)
                   b == past(j) % SigsPerBlock
                   c == IB1 + 1 + q(k)
                   d == past(k) % SigsPerBlock
        <5>1. Ind(a, b) = Ind(c, d)
          BY <1>4, <4>1, <4>2
        <5> HIDE DEF a, b, c, d
        <5>2. a = c /\ b = d
          BY <2>1, <5>1
        <5>3. QED
          BY <5>2 DEF a, b, c, d
      <4>5. QED
        BY <4>3, <4>4 DEF IB1
    <3>2. past(j) = past(k)
      BY <1>1, <2>4, <3>1, DivisionIsUnique DEF q
    <3>3. QED
      BY <1>1, <3>2 DEF past
  <2>5. QED
    BY <1>1, <1>2, <2>2, <2>3, <2>4
<1>5. CASE k < Direct /\ FileSlot(k) = Ino(3, k)
  <2>1. SlotBlock(FileSlot(k)) = 1 /\ FileSlot(k)[1] = "inode"
        /\ UrootBlock(n) \in Nat /\ UrootBlock(n) >= 5
    BY <1>5, IndirectBlocks DEF SlotBlock, Ino
  <2>2. QED
    BY <1>5, <1>4, <2>1
<1>6. CASE k >= Direct /\ past(k) < 0 /\ FileSlot(k) = Ind(IB0, k - Direct)
  <2>1. SlotBlock(FileSlot(k)) = IB0 /\ FileSlot(k)[1] = "block" /\ FileSlot(k)[2] = IB0
    BY <1>6 DEF SlotBlock, Ind
  <2>2. QED
    BY <1>1, <1>6, <1>4, <2>1, IndirectBlocks, SMTT(30) DEF IB0, IB1
<1>7. CASE k >= Direct /\ past(k) \in Nat
           /\ FileSlot(k) = Ind(IB1 + 1 + q(k), past(k) % SigsPerBlock)
  <2>1. /\ SlotBlock(FileSlot(k)) = IB1 + 1 + q(k) /\ FileSlot(k)[1] = "block"
        /\ FileSlot(k)[2] = IB1 + 1 + q(k)
    BY <1>7 DEF SlotBlock, Ind
  <2>2. QED
    BY <1>3, <1>7, <1>4, <2>1, IndirectBlocks DEF IB0, IB1
<1>8. QED
  BY <1>2, <1>5, <1>6, <1>7

\* The signatures of the file, and that of uroot before them.
LEMMA DataSignatures ==
    ASSUME NEW n \in Nat
    PROVE  /\ Len(dataSigs(n)) = n + 1 /\ DOMAIN dataSigs(n) = 1 .. n + 1
           /\ dataSigs(n)[1] = Sig(UrootBlock(n), Ino(2, 0))
           /\ \A i \in 2 .. n + 1 :
                 dataSigs(n)[i] = Sig(UrootBlock(n) + (i - 1), FileSlot(i - 2))
<1> DEFINE head == <<Sig(UrootBlock(n), Ino(2, 0))>>
           tail == [k \in 1 .. n |-> Sig(UrootBlock(n) + k, FileSlot(k - 1))]
           Sigs == {head[1]} \cup {tail[k] : k \in 1 .. n}
           all  == head \o tail
<1>1. head \in Seq(Sigs) /\ Len(head) = 1
  OBVIOUS
<1>2. tail \in Seq(Sigs) /\ Len(tail) = n
  <2>1. \A k \in 1 .. n : tail[k] \in Sigs
    OBVIOUS
  <2> HIDE DEF Sigs
  <2>2. QED
    BY <2>1
<1>3. dataSigs(n) = all
  BY DEF dataSigs
<1>4. head[1] = Sig(UrootBlock(n), Ino(2, 0))
  OBVIOUS
<1>5. \A k \in 1 .. n : tail[k] = Sig(UrootBlock(n) + k, FileSlot(k - 1))
  OBVIOUS
<1> HIDE DEF head, tail, Sigs
<1>6. /\ all \in Seq(Sigs)
      /\ Len(all) = Len(head) + Len(tail)
      /\ \A i \in 1 .. Len(head) + Len(tail) :
            all[i] = IF i <= Len(head) THEN head[i] ELSE tail[i - Len(head)]
  BY <1>1, <1>2, ConcatProperties
<1> HIDE DEF all
<1>7. Len(all) = n + 1
  BY <1>1, <1>2, <1>6
<1>8. DOMAIN all = 1 .. n + 1
  <2>1. \A q \in Seq(Sigs) : DOMAIN q = 1 .. Len(q)
    OBVIOUS
  <2>2. DOMAIN all = 1 .. Len(all)
    BY <1>6, <2>1
  <2>3. QED
    BY <1>7, <2>2
<1>9. all[1] = Sig(UrootBlock(n), Ino(2, 0))
  <2>1. 1 \in 1 .. Len(head) + Len(tail)
    BY <1>1, <1>2
  <2>2. all[1] = head[1]
    BY <1>1, <1>6, <2>1
  <2>3. QED
    BY <1>4, <2>2
<1>10. ASSUME NEW i \in 2 .. n + 1
       PROVE  all[i] = Sig(UrootBlock(n) + (i - 1), FileSlot(i - 2))
  <2>1. i - 1 \in 1 .. n /\ (i - 1) - 1 = i - 2 /\ ~(i <= 1)
    OBVIOUS
  <2>2. i \in 1 .. Len(head) + Len(tail)
    BY <1>1, <1>2
  <2>3. all[i] = tail[i - 1]
    BY <1>1, <1>6, <2>1, <2>2
  <2>4. QED
    BY <1>5, <2>1, <2>3
<1>11. QED
  BY <1>3, <1>7, <1>8, <1>9, <1>10

\* The blocks of the file come after every slot of a digest, and each block has
\* its own slot.
LEMMA DataSlots ==
    ASSUME NEW n \in Nat, NEW i \in DOMAIN dataSigs(n)
    PROVE  /\ dataSigs(n)[i].block \in UrootBlock(n) .. OuterSize(n) - 1
           /\ SlotBlock(dataSigs(n)[i].at) \in 1 .. UrootBlock(n) - 1
           /\ \/ dataSigs(n)[i].at = Ino(2, 0)
              \/ \E k \in 0 .. Direct - 1 : dataSigs(n)[i].at = Ino(3, k)
              \/ /\ dataSigs(n)[i].at[1] = "block"
                 /\ dataSigs(n)[i].at[2] # IB1
           /\ \A j \in DOMAIN dataSigs(n) :
                 dataSigs(n)[j].at = dataSigs(n)[i].at => j = i
<1>1. UrootBlock(n) \in Nat /\ UrootBlock(n) >= 5 /\ OuterSize(n) = UrootBlock(n) + 1 + n
  BY IndirectBlocks
<1>2. DOMAIN dataSigs(n) = 1 .. n + 1
  BY DataSignatures
<1>3. ASSUME NEW j \in 2 .. n + 1
      PROVE  /\ j - 2 \in 0 .. n - 1 /\ j - 2 \in Nat
             /\ dataSigs(n)[j].at = FileSlot(j - 2)
             /\ dataSigs(n)[j].block = UrootBlock(n) + (j - 1)
             /\ FileSlot(j - 2) # Ino(2, 0)
  <2>1. /\ dataSigs(n)[j].at = FileSlot(j - 2)
        /\ dataSigs(n)[j].block = UrootBlock(n) + (j - 1)
    <3>1. dataSigs(n)[j] = Sig(UrootBlock(n) + (j - 1), FileSlot(j - 2))
      BY DataSignatures
    <3>2. QED
      BY <3>1 DEF Sig
  <2>2. j - 2 \in 0 .. n - 1 /\ j - 2 \in Nat
    OBVIOUS
  <2>3. /\ Ino(2, 0)[1] = "inode" /\ \A k : Ino(2, 0) # Ino(3, k)
    BY DEF Ino
  <2>4. QED
    BY <2>1, <2>2, <2>3, FileSlots
<1>4. dataSigs(n)[1].at = Ino(2, 0) /\ dataSigs(n)[1].block = UrootBlock(n)
  <2>1. dataSigs(n)[1] = Sig(UrootBlock(n), Ino(2, 0))
    BY DataSignatures
  <2>2. QED
    BY <2>1 DEF Sig
<1>5. CASE i = 1
  <2>1. SlotBlock(dataSigs(n)[i].at) = 1
    BY <1>4, <1>5 DEF SlotBlock, Ino
  <2>2. ASSUME NEW j \in 1 .. n + 1, dataSigs(n)[j].at = dataSigs(n)[i].at
        PROVE  j = i
    <3>1. j = 1 \/ j \in 2 .. n + 1
      OBVIOUS
    <3>2. QED
      BY <1>3, <1>4, <1>5, <2>2, <3>1
  <2>3. QED
    BY <1>1, <1>2, <1>4, <1>5, <2>1, <2>2
<1>6. CASE i \in 2 .. n + 1
  <2> DEFINE k == i - 2
  <2>1. k \in 0 .. n - 1 /\ dataSigs(n)[i].at = FileSlot(k)
    BY <1>3, <1>6
  <2>2. dataSigs(n)[i].block \in UrootBlock(n) .. OuterSize(n) - 1
    BY <1>1, <1>3, <1>6
  <2>3. \/ \E m \in 0 .. Direct - 1 : FileSlot(k) = Ino(3, m)
        \/ FileSlot(k)[1] = "block" /\ FileSlot(k)[2] # IB1
    <3>1. Direct \in Nat /\ k \in Nat
      BY <2>1, PFSAssumption
    <3>2. k < Direct => k \in 0 .. Direct - 1
      BY <3>1
    <3> HIDE DEF k
    <3>3. QED
      BY <2>1, <3>2, FileSlots
  <2>4. ASSUME NEW j \in 1 .. n + 1, dataSigs(n)[j].at = dataSigs(n)[i].at
        PROVE  j = i
    <3>1. j = 1 \/ j \in 2 .. n + 1
      OBVIOUS
    <3>2. j \in 2 .. n + 1
      BY <1>3, <1>4, <1>6, <2>4, <3>1
    <3>3. j - 2 = k
      BY <1>3, <2>1, <2>4, <3>2, FileSlots
    <3>4. QED
      BY <1>6, <3>2, <3>3
  <2> HIDE DEF k
  <2>5. SlotBlock(FileSlot(k)) \in 1 .. UrootBlock(n) - 1
    BY <2>1, FileSlots
  <2>6. QED
    BY <1>2, <2>1, <2>2, <2>3, <2>4, <2>5
<1>7. QED
  BY <1>2, <1>5, <1>6

\* The signatures of finalSigs: the i-th one, and how many there are.
FinalSig(i) ==
    CASE i = 1 -> Sig(0, Super(0))
      [] i = 2 -> Sig(1, Super(1))
      [] i = 3 -> Sig(2, Ino(0, 0))
      [] i = 4 -> Sig(FptBlock, Ino(1, 0))
      [] i = 5 -> Sig(IB0, Ino(3, Direct))
      [] i = 6 -> Sig(IB1, Ino(3, Direct + 1))
      [] OTHER -> Sig(IB1 + (i - 6), Ind(IB1, i - 7))

\* The signatures of finalSigs are these, in this order, and as many indirect blocks
\* as there are.
LEMMA FinalSignatures ==
    ASSUME NEW n \in Nat
    PROVE  /\ Len(finalSigs(n)) \in Nat \ {0} /\ DOMAIN finalSigs(n) = 1 .. Len(finalSigs(n))
           /\ Len(finalSigs(n)) =
                 IF n > Direct + SigsPerBlock
                 THEN 6 + ceilDiv(n - Direct - SigsPerBlock, SigsPerBlock)
                 ELSE IF n > Direct THEN 5 ELSE 4
           /\ \A i \in DOMAIN finalSigs(n) :
                 /\ finalSigs(n)[i] = FinalSig(i)
                 /\ i > 6 => IB1 + (i - 6) < UrootBlock(n)
                 /\ i = 6 => IB1 < UrootBlock(n)
                 /\ i = 5 => IB0 < UrootBlock(n)
<1> DEFINE c == ceilDiv(n - Direct - SigsPerBlock, SigsPerBlock)
           one == <<Sig(0, Super(0)), Sig(1, Super(1)), Sig(2, Ino(0, 0)),
                    Sig(FptBlock, Ino(1, 0))>>
           two == IF n > Direct THEN <<Sig(IB0, Ino(3, Direct))>> ELSE <<>>
           ind == [i \in 1 .. c |-> Sig(IB1 + i, Ind(IB1, i - 1))]
           six == <<Sig(IB1, Ino(3, Direct + 1))>>
           end == IF n > Direct + SigsPerBlock THEN six \o ind ELSE <<>>
           Sigs == [block : Int, at : {FinalSig(i).at : i \in Nat}]
<1>1. Direct \in Nat \ {0} /\ SigsPerBlock \in Nat \ {0}
  BY PFSAssumption
<1>2. \A i \in Nat : FinalSig(i) \in Sigs
  BY DEF FinalSig, Sig, FptBlock, IB0, IB1
<1>3. finalSigs(n) = one \o two \o end
  BY DEF finalSigs
<1> HIDE DEF Sigs
<1>4. /\ one \in Seq(Sigs) /\ Len(one) = 4
      /\ \A i \in 1 .. 4 : one[i] = FinalSig(i)
  <2>1. one = <<FinalSig(1), FinalSig(2), FinalSig(3), FinalSig(4)>>
    BY DEF FinalSig
  <2> HIDE DEF one
  <2>2. QED
    BY <1>2, <2>1
<1>5. /\ two \in Seq(Sigs) /\ Len(two) = IF n > Direct THEN 1 ELSE 0
      /\ n > Direct => two[1] = FinalSig(5)
  <2>1. n > Direct => two = <<FinalSig(5)>>
    BY DEF FinalSig
  <2>2. ~(n > Direct) => two = <<>>
    OBVIOUS
  <2> HIDE DEF two
  <2>3. FinalSig(5) \in Sigs
    BY <1>2
  <2>4. <<FinalSig(5)>> \in Seq(Sigs) /\ Len(<<FinalSig(5)>>) = 1
        /\ <<FinalSig(5)>>[1] = FinalSig(5)
    BY <2>3
  <2>5. CASE n > Direct
    BY <2>1, <2>4, <2>5
  <2>6. CASE ~(n > Direct)
    BY <2>2, <2>6
  <2>7. QED
    BY <2>5, <2>6
<1>6. ASSUME n > Direct + SigsPerBlock
      PROVE  /\ end \in Seq(Sigs) /\ Len(end) = 1 + c /\ c \in Nat
             /\ end[1] = FinalSig(6)
             /\ \A i \in 2 .. 1 + c : end[i] = FinalSig(5 + i)
  <2>1. c \in Nat
    BY <1>6, IndirectBlocks
  <2> HIDE DEF c
  <2>2. six = <<FinalSig(6)>>
    BY DEF FinalSig
  <2>3. six \in Seq(Sigs) /\ Len(six) = 1 /\ six[1] = FinalSig(6)
    <3> HIDE DEF six
    <3>1. QED
      BY <1>2, <2>2
  <2>4. \A i \in 1 .. c : ind[i] = FinalSig(6 + i) /\ 6 + i \in Nat
    <3> SUFFICES ASSUME NEW i \in 1 .. c
                 PROVE  ind[i] = FinalSig(6 + i)
      OBVIOUS
    <3>1. FinalSig(6 + i) = Sig(IB1 + ((6 + i) - 6), Ind(IB1, (6 + i) - 7))
      BY <2>1 DEF FinalSig
    <3>2. (6 + i) - 6 = i /\ (6 + i) - 7 = i - 1
      BY <2>1
    <3>3. QED
      BY <3>1, <3>2
  <2>5. ind \in Seq(Sigs) /\ Len(ind) = c
    <3>1. \A i \in 1 .. c : ind[i] \in Sigs
      <4> HIDE DEF ind
      <4>1. QED
        BY <1>2, <2>4
    <3>2. QED
      BY <2>1, <3>1
  <2> HIDE DEF six, ind
  <2>6. /\ six \o ind \in Seq(Sigs)
        /\ Len(six \o ind) = Len(six) + Len(ind)
        /\ \A i \in 1 .. Len(six) + Len(ind) :
              (six \o ind)[i] = IF i <= Len(six) THEN six[i] ELSE ind[i - Len(six)]
    BY <2>3, <2>5, ConcatProperties
  <2>7. end = six \o ind
    BY <1>6
  <2>8. ASSUME NEW i \in 2 .. 1 + c
        PROVE  end[i] = FinalSig(5 + i)
    <3>1. i - 1 \in 1 .. c /\ 6 + (i - 1) = 5 + i /\ ~(i <= 1)
      BY <2>1
    <3>2. end[i] = ind[i - 1]
      BY <2>1, <2>3, <2>5, <2>6, <2>7, <3>1
    <3>3. QED
      BY <2>4, <3>1, <3>2
  <2>9. end[1] = six[1]
    BY <2>1, <2>3, <2>5, <2>6, <2>7
  <2>10. QED
    BY <2>1, <2>3, <2>5, <2>6, <2>7, <2>8, <2>9
<1>7. ~(n > Direct + SigsPerBlock) => end = <<>>
  OBVIOUS
<1> HIDE DEF one, two, end, ind, six, c
<1>8. /\ one \o two \in Seq(Sigs)
      /\ Len(one \o two) = Len(one) + Len(two)
      /\ \A i \in 1 .. Len(one) + Len(two) :
            (one \o two)[i] = IF i <= Len(one) THEN one[i] ELSE two[i - Len(one)]
  BY <1>4, <1>5, ConcatProperties
<1>9. end \in Seq(Sigs) /\ Len(end) \in Nat
  <2>1. CASE n > Direct + SigsPerBlock
    BY <1>6, <2>1
  <2>2. CASE ~(n > Direct + SigsPerBlock)
    BY <1>7, <2>2
  <2>3. QED
    BY <2>1, <2>2
<1> DEFINE q == one \o two
<1>10. /\ finalSigs(n) = q \o end /\ q \in Seq(Sigs)
       /\ Len(q) = IF n > Direct THEN 5 ELSE 4
       /\ \A i \in 1 .. 4 : q[i] = FinalSig(i)
       /\ n > Direct => q[5] = FinalSig(5)
  BY <1>3, <1>4, <1>5, <1>8
<1> HIDE DEF q
<1>11. /\ finalSigs(n) \in Seq(Sigs)
       /\ Len(finalSigs(n)) = Len(q) + Len(end)
       /\ \A i \in 1 .. Len(q) + Len(end) :
             finalSigs(n)[i] = IF i <= Len(q) THEN q[i] ELSE end[i - Len(q)]
  <2>1. /\ q \o end \in Seq(Sigs)
        /\ Len(q \o end) = Len(q) + Len(end)
        /\ \A i \in 1 .. Len(q) + Len(end) :
              (q \o end)[i] = IF i <= Len(q) THEN q[i] ELSE end[i - Len(q)]
    <3>1. q \in Seq(Sigs)
      BY <1>10
    <3>2. QED
      BY <1>9, <3>1, ConcatProperties
  <2>2. finalSigs(n) = q \o end
    BY <1>10
  <2>3. QED
    BY <2>1, <2>2
<1>12. DOMAIN finalSigs(n) = 1 .. Len(finalSigs(n))
  <2>1. \A s \in Seq(Sigs) : DOMAIN s = 1 .. Len(s)
    OBVIOUS
  <2>2. QED
    BY <1>11, <2>1
<1>13. Len(finalSigs(n)) \in Nat \ {0}
  BY <1>9, <1>10, <1>11
<1>14. ASSUME NEW i \in DOMAIN finalSigs(n), i <= Len(q)
       PROVE  finalSigs(n)[i] = FinalSig(i) /\ i <= 5 /\ (i = 5 => n > Direct)
  <2>1. i \in 1 .. 4 \/ (i = 5 /\ n > Direct)
    BY <1>9, <1>10, <1>11, <1>12, <1>14
  <2>2. QED
    BY <1>9, <1>10, <1>11, <1>12, <1>14, <2>1
<1>15. ASSUME NEW i \in DOMAIN finalSigs(n), ~(i <= Len(q))
       PROVE  /\ n > Direct + SigsPerBlock /\ c \in Nat
              /\ finalSigs(n)[i] = FinalSig(i)
              /\ i = 6 \/ (i > 6 /\ i - 6 <= c)
  <2>1. i \in 1 .. Len(q) + Len(end)
    BY <1>11, <1>12
  <2>2. Len(end) > 0
    BY <1>9, <1>10, <1>15, <2>1
  <2>3. n > Direct + SigsPerBlock
    BY <1>7, <2>2
  <2>4. Len(q) = 5
    BY <1>1, <1>10, <2>3
  <2>5. Len(end) = 1 + c /\ c \in Nat
    BY <1>6, <2>3
  <2>6. /\ i - 5 \in 1 .. 1 + c /\ 5 + (i - 5) = i /\ i \in Nat
        /\ i = 6 \/ (i > 6 /\ i - 6 <= c)
    BY <1>15, <2>1, <2>4, <2>5
  <2>7. finalSigs(n)[i] = end[i - 5]
    BY <1>11, <1>15, <2>1, <2>4
  <2>8. CASE i = 6
    <3>1. i - 5 = 1
      BY <2>8
    <3>2. QED
      BY <1>6, <2>3, <2>5, <2>6, <2>7, <2>8, <3>1
  <2>9. CASE i > 6
    <3>1. i - 5 \in 2 .. 1 + c
      BY <2>5, <2>6, <2>9
    <3>2. end[i - 5] = FinalSig(5 + (i - 5))
      BY <1>6, <2>3, <3>1
    <3>3. QED
      BY <2>3, <2>5, <2>6, <2>7, <3>2
  <2>10. QED
    BY <2>6, <2>8, <2>9
<1>16. /\ n > Direct => UrootBlock(n) > IB0
       /\ UrootBlock(n) \in Nat
       /\ n > Direct + SigsPerBlock => UrootBlock(n) = IB1 + 1 + c
  BY IndirectBlocks DEF c
<1>17. Len(finalSigs(n)) = IF n > Direct + SigsPerBlock THEN 6 + c
                           ELSE IF n > Direct THEN 5 ELSE 4
  <2>1. CASE n > Direct + SigsPerBlock
    <3>1. Len(end) = 1 + c /\ c \in Nat
      BY <1>6, <2>1
    <3>2. Len(q) = 5
      BY <1>1, <1>10, <2>1
    <3>3. QED
      BY <1>11, <2>1, <3>1, <3>2
  <2>2. CASE ~(n > Direct + SigsPerBlock)
    <3>1. Len(end) = 0
      BY <1>7, <2>2
    <3>2. QED
      BY <1>10, <1>11, <2>2, <3>1
  <2>3. QED
    BY <2>1, <2>2
<1>18. QED
  BY <1>12, <1>13, <1>14, <1>15, <1>16, <1>17 DEF IB1, IB0, c

\* Whoever signs a block, last to first, never writes into one that was signed.
LEMMA FinalSlots ==
    ASSUME NEW n \in Nat, NEW i \in DOMAIN finalSigs(n)
    PROVE  /\ finalSigs(n)[i].block \in 0 .. UrootBlock(n) - 1
           /\ SlotBlock(finalSigs(n)[i].at) \in 0 .. UrootBlock(n) - 1
           /\ \/ SlotBlock(finalSigs(n)[i].at) = finalSigs(n)[i].block
              \/ \A j \in DOMAIN finalSigs(n) :
                    j >= i => finalSigs(n)[j].block # SlotBlock(finalSigs(n)[i].at)
           /\ \A j \in DOMAIN finalSigs(n) :
                 finalSigs(n)[j].at = finalSigs(n)[i].at => j = i
           /\ \A j \in DOMAIN dataSigs(n) : dataSigs(n)[j].at # finalSigs(n)[i].at
<1>1. /\ Direct \in Nat \ {0} /\ UrootBlock(n) \in Nat /\ UrootBlock(n) >= 5
      /\ i \in Nat /\ i >= 1
  <2>1. DOMAIN finalSigs(n) = 1 .. Len(finalSigs(n)) /\ Len(finalSigs(n)) \in Nat
    BY FinalSignatures
  <2>2. Direct \in Nat \ {0} /\ UrootBlock(n) \in Nat /\ UrootBlock(n) >= 5
    BY PFSAssumption, IndirectBlocks
  <2>3. QED
    BY <2>1, <2>2
<1> DEFINE B(j) == CASE j \in 1 .. 4 -> j - 1 [] OTHER -> j
           S(j) == CASE j \in {1, 2} -> 0 [] j \in 3 .. 6 -> 1 [] OTHER -> IB1
<1>2. ASSUME NEW j \in DOMAIN finalSigs(n)
      PROVE  /\ j \in Nat /\ j >= 1
             /\ finalSigs(n)[j] = FinalSig(j)
             /\ FinalSig(j).block = B(j) /\ SlotBlock(FinalSig(j).at) = S(j)
             /\ B(j) < UrootBlock(n) /\ S(j) < UrootBlock(n)
  <2>1. /\ j \in Nat /\ j >= 1 /\ finalSigs(n)[j] = FinalSig(j)
        /\ j > 6 => IB1 + (j - 6) < UrootBlock(n)
        /\ j = 6 => IB1 < UrootBlock(n)
        /\ j = 5 => IB0 < UrootBlock(n)
    <3>1. DOMAIN finalSigs(n) = 1 .. Len(finalSigs(n)) /\ Len(finalSigs(n)) \in Nat
      BY FinalSignatures
    <3>2. /\ finalSigs(n)[j] = FinalSig(j)
          /\ j > 6 => IB1 + (j - 6) < UrootBlock(n)
          /\ j = 6 => IB1 < UrootBlock(n)
          /\ j = 5 => IB0 < UrootBlock(n)
      BY FinalSignatures
    <3>3. QED
      BY <3>1, <3>2
  <2>2. j = 1 \/ j = 2 \/ j = 3 \/ j = 4 \/ j = 5 \/ j = 6 \/ j > 6
    BY <2>1
  <2>3. FinalSig(j).block = B(j) /\ SlotBlock(FinalSig(j).at) = S(j)
    <3>1. CASE j \in 1 .. 6
      BY <2>1, <2>2, <3>1 DEF FinalSig, Sig, SlotBlock, Super, Ino, FptBlock, IB0, IB1
    <3>2. CASE j > 6
      BY <2>1, <3>2 DEF FinalSig, Sig, SlotBlock, Ind, IB1
    <3>3. QED
      BY <2>1, <3>1, <3>2
  <2>4. B(j) < UrootBlock(n) /\ S(j) < UrootBlock(n)
    BY <1>1, <2>1, <2>2 DEF IB0, IB1
  <2>5. QED
    BY <2>1, <2>3, <2>4
<1>3. B(i) \in Nat /\ S(i) \in Nat
  BY <1>1 DEF IB1
<1>4. S(i) = B(i) \/ \A j \in DOMAIN finalSigs(n) : j >= i => B(j) # S(i)
  <2> SUFFICES ASSUME NEW j \in DOMAIN finalSigs(n), j >= i, B(j) = S(i)
               PROVE  S(i) = B(i)
    OBVIOUS
  <2>1. j \in Nat
    BY <1>2
  <2>2. QED
    BY <1>1, <2>1 DEF IB1
<1>5. ASSUME NEW j \in DOMAIN finalSigs(n), FinalSig(j).at = FinalSig(i).at
      PROVE  j = i
  <2>1. j \in Nat /\ j >= 1
    BY <1>2
  <2>2. /\ \A k \in Nat : k > 6 => FinalSig(k).at = <<"block", IB1, k - 7>>
        /\ FinalSig(1).at = <<"super", 0, 0>> /\ FinalSig(2).at = <<"super", 0, 1>>
        /\ FinalSig(3).at = <<"inode", 0, 0>> /\ FinalSig(4).at = <<"inode", 1, 0>>
        /\ FinalSig(5).at = <<"inode", 3, Direct>>
        /\ FinalSig(6).at = <<"inode", 3, Direct + 1>>
    BY DEF FinalSig, Sig, Super, Ino, Ind
  <2>3. \A k \in Nat : k >= 1 => k \in {1, 2, 3, 4, 5, 6} \/ k > 6
    OBVIOUS
  <2>4. CASE i > 6
    BY <1>1, <1>5, <2>1, <2>2, <2>3, <2>4
  <2>5. CASE i \in {1, 2, 3, 4, 5, 6}
    BY <1>1, <1>5, <2>1, <2>2, <2>3, <2>5
  <2>6. QED
    BY <1>1, <2>3, <2>4, <2>5
<1>6. ASSUME NEW j \in DOMAIN dataSigs(n)
      PROVE  dataSigs(n)[j].at # FinalSig(i).at
  <2> DEFINE a == dataSigs(n)[j].at
  <2>1. \/ a = Ino(2, 0)
        \/ \E k \in 0 .. Direct - 1 : a = Ino(3, k)
        \/ a[1] = "block" /\ a[2] # IB1
    BY DataSlots
  <2> HIDE DEF a
  <2>2. \/ i \in {1, 2} /\ FinalSig(i).at = Super(i - 1)
        \/ i = 3 /\ FinalSig(i).at = Ino(0, 0)
        \/ i = 4 /\ FinalSig(i).at = Ino(1, 0)
        \/ i = 5 /\ FinalSig(i).at = Ino(3, Direct)
        \/ i = 6 /\ FinalSig(i).at = Ino(3, Direct + 1)
        \/ i > 6 /\ FinalSig(i).at = Ind(IB1, i - 7)
    BY <1>1 DEF FinalSig, Sig
  <2>3. QED
    BY <1>1, <2>1, <2>2 DEF Super, Ino, Ind, a
<1>7. QED
  BY <1>1, <1>2, <1>3, <1>4, <1>5, <1>6

\* The digests of finish: each has its own name, and no step writes a region that an
\* earlier digest, or its own, covers.
LEMMA FinishOrder ==
    /\ Len(finish) = 12 /\ DOMAIN finish = 1 .. 12
    /\ \A i \in 1 .. 12 :
          /\ finish[i].into \in Regions /\ finish[i].name # "chunk"
          /\ \A j \in 1 .. 12 :
                /\ i <= j => finish[j].into \notin finish[i].over
                /\ finish[i].name = finish[j].name => i = j
<1>1. Len(finish) = 12 /\ DOMAIN finish = 1 .. 12
  BY DEF finish
<1>2. /\ finish[1] = pfsSignedDgst /\ finish[2] = pfsImageDigest
      /\ finish[3] = generalDigests /\ finish[4] = writeEntry
      /\ finish[5] = entryDigests /\ finish[6] = bodyDigest
      /\ finish[7] = digestTableHash /\ finish[8] = scEntries1Hash
      /\ finish[9] = scEntries2Hash /\ finish[10] = marshalHeader
      /\ finish[11] = headerDigest /\ finish[12] = signature
  BY DEF finish
<1> DEFINE into == [i \in 1 .. 12 |->
              CASE i \in {1, 2} -> "pfs_fields" [] i = 3 -> "general" [] i = 4 -> "body"
                [] i = 5 -> "digests" [] i \in 6 .. 9 -> "header" [] i = 10 -> "file"
                [] i = 11 -> "digest" [] i = 12 -> "signature"]
<1>3. \A i \in 1 .. 12 : i \in {1, 2, 3, 4, 5, 6, 7, 8, 9, 10, 11, 12}
  OBVIOUS
<1>4. ASSUME NEW i \in 1 .. 12
      PROVE  /\ finish[i].into = into[i] /\ into[i] \in Regions
             /\ finish[i].name # "chunk"
             /\ \A j \in 1 .. 12 : i <= j => into[j] \notin finish[i].over
  BY <1>2, <1>3 DEF Regions, Put, pfsSignedDgst, pfsImageDigest, generalDigests,
     writeEntry, entryDigests, bodyDigest, digestTableHash, scEntries1Hash,
     scEntries2Hash, marshalHeader, headerDigest, signature
<1>5. ASSUME NEW i \in 1 .. 12, NEW j \in 1 .. 12, finish[i].name = finish[j].name
      PROVE  i = j
  BY <1>2, <1>3, <1>5 DEF Put, pfsSignedDgst, pfsImageDigest, generalDigests,
     writeEntry, entryDigests, bodyDigest, digestTableHash, scEntries1Hash,
     scEntries2Hash, marshalHeader, headerDigest, signature
<1> HIDE DEF into
<1>6. QED
  BY <1>1, <1>4, <1>5

\* The size of pfs_image.dat with its header.
LEMMA OuterBlocks ==
    ASSUME length \in Nat
    PROVE  N \in Nat
<1>1. BlockSize \in Nat \ {0} /\ PfscHead \in Nat /\ PfscHead < BlockSize
  BY PFSAssumption
<1> DEFINE table == length + 1 - (BlockSize - PfscHead)
<1>2. CASE table > 0
  <2>1. table \in Nat /\ 0 < table
    BY <1>1, <1>2
  <2>2. BlocksOf(table) \in Nat
    BY <1>1, <2>1, QuotientBound DEF BlocksOf
  <2>3. QED
    BY <1>2, <2>2 DEF N, PfscHeader
<1>3. CASE ~(table > 0)
  BY <1>3 DEF N, PfscHeader
<1>4. QED
  BY <1>2, <1>3

\* The sectors of the blocks of an image are sectors of the image.
LEMMA SectorsOfBlocks ==
    ASSUME NEW n \in Nat, NEW b \in 0 .. n - 1
    PROVE  SectorsOf(b) \subseteq 0 .. n * SectorsPerBlock - 1
<1>1. SectorsPerBlock \in Nat \ {0}
  BY PackageAssumption
<1> SUFFICES ASSUME NEW s \in SectorsOf(b)
             PROVE  s \in 0 .. n * SectorsPerBlock - 1
  OBVIOUS
<1> DEFINE S == SectorsPerBlock
<1>2. S \in Nat /\ b \in Nat /\ b + 1 <= n
  BY <1>1
<1>3. b * S \in Nat /\ (b + 1) * S \in Nat /\ n * S \in Nat /\ (b + 1) * S <= n * S
  <2> HIDE DEF S
  <2>1. \A x, y, z \in Nat : x <= y => x * z <= y * z
    BY Z3
  <2>2. QED
    BY <1>2, <2>1
<1>4. s \in Int /\ b * S <= s /\ s <= (b + 1) * S - 1
  <2>1. s \in b * S .. (b + 1) * S - 1
    BY DEF SectorsOf
  <2> DEFINE x == b * S
             y == (b + 1) * S
  <2>2. x \in Nat /\ y \in Nat /\ s \in x .. y - 1
    BY <1>3, <2>1
  <2> HIDE DEF x, y
  <2>3. s \in Int /\ x <= s /\ s <= y - 1
    BY <2>2
  <2>4. QED
    BY <2>3 DEF x, y
<1>5. QED
  <2> DEFINE x == b * S
             y == (b + 1) * S
             z == n * S
  <2>1. x \in Nat /\ y \in Nat /\ z \in Nat /\ y <= z /\ s \in Int /\ x <= s /\ s <= y - 1
    BY <1>3, <1>4
  <2> HIDE DEF x, y, z
  <2>2. s \in 0 .. z - 1
    BY <2>1
  <2>3. QED
    BY <2>2 DEF z

----------------------------------------------------------------------------
(* The invariant of a build.                                                *)

PastWrite == {"sign", "final", "encrypt", "chunks", "finish", "built"}

BuildTypeOK ==
    /\ step \in {"none", "prepare", "write", "failed"} \cup PastWrite
    /\ next \in Nat \ {0} /\ busy \subseteq 1 .. next - 1
    /\ step = "prepare" => tree \in GameTrees
    /\ step \in {"none", "prepare", "write"} => next = 1
    /\ step \notin {"sign", "encrypt", "chunks"} => busy = {} /\ failing = FALSE
    /\ step \in {"write"} \cup PastWrite => length \in Nat
    /\ step \in PastWrite =>
          DOMAIN rev = 0 .. OuterSize(N) - 1 /\ DOMAIN enc = 0 .. SectorCount - 1
    /\ step \in {"sign", "final"} => \A s \in DOMAIN enc : enc[s] = 0

\* The slot of a signature holds what it has to say of the block as it is now.
Signed(sig) ==
    /\ sig.at \in DOMAIN slots
    /\ slots[sig.at] = [block |-> sig.block, over |-> Plain(sig.block)]

\* The slots of the blocks that are done hold their signatures, and no block that
\* is done has changed since.
BlocksAreSigned ==
    /\ step = "sign" =>
          /\ next <= Len(dataSigs(N)) + 1
          /\ ~failing => \A i \in 1 .. next - 1 : i \notin busy => Signed(dataSigs(N)[i])
    /\ step \in PastWrite \ {"sign"} =>
          \A i \in DOMAIN dataSigs(N) : Signed(dataSigs(N)[i])
    /\ step = "final" =>
          /\ next <= Len(finalSigs(N)) + 1
          /\ \A i \in DOMAIN finalSigs(N) :
                i > Len(finalSigs(N)) - (next - 1) => Signed(finalSigs(N)[i])
    /\ step \in PastWrite \ {"sign", "final"} =>
          \A i \in DOMAIN finalSigs(N) : Signed(finalSigs(N)[i])

Digested(b) == <<"chunk", b>> \in DOMAIN seals /\ seals[<<"chunk", b>>] = Block(b)

ChunksAreDigested ==
    /\ step = "chunks" =>
          /\ next <= OuterSize(N) + 1
          /\ ~failing => \A i \in 1 .. next - 1 : i \notin busy => Digested(i - 1)
    /\ step \in {"finish", "built"} => \A b \in DOMAIN rev : Digested(b)

Covered(i) ==
    /\ <<finish[i].name, 0>> \in DOMAIN seals
    /\ seals[<<finish[i].name, 0>>] = [r \in finish[i].over |-> Region(r)]

RegionsAreCovered ==
    /\ step \in {"finish", "built"} => DOMAIN regions = Regions
    /\ step = "finish" =>
          next <= Len(finish) + 1 /\ \A i \in 1 .. next - 1 : Covered(i)
    /\ step = "built" => \A i \in DOMAIN finish : Covered(i)

BuildInv == BuildTypeOK /\ BlocksAreSigned /\ ChunksAreDigested /\ RegionsAreCovered

\* Nothing that an invariant of the image reads has changed.
LEMMA BuildStutters ==
    BuildInv /\ UNCHANGED pkgVars => BuildInv'
<1> SUFFICES ASSUME BuildInv, UNCHANGED pkgVars
             PROVE  BuildInv'
  OBVIOUS
<1> USE DEF pkgVars, imageVars, sealVars, loopVars
<1>1. BuildTypeOK'
  BY DEF BuildInv, BuildTypeOK, PastWrite, N, SectorCount
<1>2. BlocksAreSigned'
  BY DEF BuildInv, BlocksAreSigned, Signed, Plain, N
<1>3. ChunksAreDigested'
  BY DEF BuildInv, ChunksAreDigested, Digested, Block, N
<1>4. RegionsAreCovered'
  BY DEF BuildInv, RegionsAreCovered, Covered, Region
<1>5. QED
  BY <1>1, <1>2, <1>3, <1>4 DEF BuildInv

\* What the image looks like once it is written.
LEMMA BuildFacts ==
    ASSUME BuildInv, step \in PastWrite
    PROVE  /\ N \in Nat /\ OuterSize(N) \in Nat
           /\ DOMAIN rev = 0 .. OuterSize(N) - 1
           /\ DOMAIN enc = 0 .. OuterSize(N) * SectorsPerBlock - 1
<1>1. length \in Nat /\ DOMAIN rev = 0 .. OuterSize(N) - 1
      /\ DOMAIN enc = 0 .. SectorCount - 1
  BY DEF BuildInv, BuildTypeOK
<1>2. N \in Nat
  BY <1>1, OuterBlocks
<1>3. OuterSize(N) \in Nat
  BY <1>2, IndirectBlocks
<1>4. QED
  BY <1>1, <1>2, <1>3 DEF SectorCount

\* A build that failed, or has no image yet, has nothing to keep.
LEMMA NothingToKeep ==
    ASSUME step' \in {"none", "prepare", "write", "failed"}
    PROVE  BlocksAreSigned' /\ ChunksAreDigested' /\ RegionsAreCovered'
BY DEF BlocksAreSigned, ChunksAreDigested, RegionsAreCovered, PastWrite

\* The steps of Build.
LEMMA BuildFailsStep ==
    BuildInv /\ BuildFails => BuildInv'
<1> SUFFICES ASSUME BuildInv, BuildFails
             PROVE  BuildInv'
  OBVIOUS
<1>1. BuildTypeOK'
  BY DEF BuildInv, BuildTypeOK, BuildFails, loopVars, PastWrite
<1>2. step' = "failed"
  BY DEF BuildFails
<1>3. QED
  BY <1>1, <1>2, NothingToKeep DEF BuildInv

\* What the trees of games are, and how large.
LEMMA TreesAreTrees ==
    ASSUME NEW t \in GameTrees, <<SceSys>> \in t.dirs
    PROVE  /\ IsTree(WithKeystone(t))
           /\ Layout(setup(WithKeystone(t))).ndblock \in Nat
<1>1. IsTree(WithKeystone(t))
  BY TreesAssumption
<1> DEFINE b == setup(WithKeystone(t))
<1>2. HasLayout(b, Layout(b))
  BY <1>1, TreeHasLayout
<1>3. QED
  BY <1>1, <1>2 DEF HasLayout

\* prepare: the tree is one of GameTrees, so it has a size.
LEMMA PrepareStep ==
    BuildInv /\ prepare => BuildInv'
<1> SUFFICES ASSUME BuildInv, prepare
             PROVE  BuildInv'
  OBVIOUS
<1>1. step = "prepare" /\ tree \in GameTrees /\ next = 1 /\ busy = {} /\ failing = FALSE
  BY DEF BuildInv, BuildTypeOK, prepare
<1>2. <<SceSys>> \in tree.dirs => Layout(setup(WithKeystone(tree))).ndblock \in Nat
  BY <1>1, TreesAreTrees
<1>3. step' \in {"write", "failed"} /\ (step' = "write" => length' \in Nat)
      /\ next' = next /\ busy' = busy /\ failing' = failing
  <2> DEFINE full == WithKeystone(tree)
             m    == Layout(setup(full)).ndblock
             hdr  == buildHeaderAndEntries(full, PfsSize(m))
             ok   == hdr.chunks * ChunkDigest <= hdr.room
  <2>1. /\ IF <<SceSys>> \in tree.dirs /\ ParamSFO \in DOMAIN tree.files
           THEN /\ tree' = full
                /\ length' = m
                /\ step' = IF ok THEN "write" ELSE "failed"
           ELSE step' = "failed" /\ UNCHANGED <<tree, length>>
        /\ UNCHANGED <<image, sealVars, loopVars>>
    BY DEF prepare
  <2>2. <<SceSys>> \in tree.dirs => m \in Nat
    BY <1>2
  <2> HIDE DEF full, m, ok
  <2>3. QED
    BY <2>1, <2>2 DEF loopVars
<1>4. BuildTypeOK'
  BY <1>1, <1>3 DEF BuildTypeOK, PastWrite
<1>5. QED
  BY <1>3, <1>4, NothingToKeep DEF BuildInv

\* writeData: nothing is signed yet.
LEMMA WriteDataStep ==
    BuildInv /\ writeData => BuildInv'
<1> SUFFICES ASSUME BuildInv, writeData
             PROVE  BuildInv'
  OBVIOUS
<1>1. step = "write" /\ next = 1 /\ busy = {} /\ failing = FALSE /\ length \in Nat
  BY DEF BuildInv, BuildTypeOK, writeData
<1>2. N \in Nat
  BY <1>1, OuterBlocks
<1>3. length' = length /\ next' = next /\ busy' = busy /\ failing' = failing /\ N' = N
  BY DEF writeData, loopVars, N
<1>4. CASE DirFits(setup(tree))
  <2>1. /\ step' = "sign"
        /\ rev' = [b \in 0 .. OuterSize(N) - 1 |-> 0]
        /\ enc' = [s \in 0 .. SectorCount - 1 |-> 0]
    BY <1>4 DEF writeData
  <2>2. SectorCount' = SectorCount
    BY <1>3 DEF SectorCount
  <2>3. BuildTypeOK'
    BY <1>1, <1>3, <2>1, <2>2 DEF BuildTypeOK, PastWrite
  <2>4. BlocksAreSigned'
    <3>1. Len(dataSigs(N)) \in Nat
      BY <1>2, DataSignatures
    <3>2. QED
      BY <1>1, <1>3, <2>1, <3>1 DEF BlocksAreSigned, PastWrite
  <2>5. ChunksAreDigested' /\ RegionsAreCovered'
    BY <2>1 DEF ChunksAreDigested, RegionsAreCovered
  <2>6. QED
    BY <2>3, <2>4, <2>5 DEF BuildInv
<1>5. CASE ~DirFits(setup(tree))
  <2>1. step' = "failed"
    BY <1>5 DEF writeData
  <2>2. BuildTypeOK'
    BY <1>1, <1>3, <2>1 DEF BuildTypeOK, PastWrite
  <2>3. QED
    BY <2>1, <2>2, NothingToKeep DEF BuildInv
<1>6. QED
  BY <1>4, <1>5

\* A worker gets the next index, which is not done.
LEMMA TakeStep ==
    BuildInv /\ Take => BuildInv'
<1> SUFFICES ASSUME BuildInv, Take
             PROVE  BuildInv'
  OBVIOUS
<1>1. /\ next <= Count /\ ~failing /\ busy' = busy \cup {next} /\ next' = next + 1
      /\ step' = step /\ length' = length /\ tree' = tree /\ slots' = slots
      /\ rev' = rev /\ enc' = enc /\ seals' = seals /\ regions' = regions
      /\ failing' = failing
  BY DEF Take, imageVars, sealVars
<1>2. N' = N /\ SectorCount' = SectorCount
  BY <1>1 DEF N, SectorCount
<1>3. step \in {"sign", "encrypt", "chunks"} /\ next \in Nat /\ next >= 1
      /\ busy \subseteq 1 .. next - 1
  BY <1>1 DEF BuildInv, BuildTypeOK, Count
<1>4. BuildTypeOK'
  BY <1>1, <1>2, <1>3 DEF BuildInv, BuildTypeOK
<1>5. \A i \in 1 .. next' - 1 : i \notin busy' => i \in 1 .. next - 1 /\ i \notin busy
  BY <1>1, <1>3
<1>6. BlocksAreSigned'
  <2>1. step = "sign" => next' <= Len(dataSigs(N)) + 1
    <3> SUFFICES ASSUME step = "sign"
                 PROVE  next' <= Len(dataSigs(N)) + 1
      OBVIOUS
    <3>1. N \in Nat
      BY BuildFacts DEF PastWrite
    <3>2. Len(dataSigs(N)) = N + 1
      BY <3>1, DataSignatures
    <3>3. next <= Len(dataSigs(N))
      BY <1>1 DEF Count
    <3>4. QED
      BY <1>1, <1>3, <3>1, <3>2, <3>3
  <2>2. \A sig : Signed(sig) => Signed(sig)'
    BY <1>1 DEF Signed, Plain
  <2>3. QED
    BY <1>1, <1>2, <1>3, <1>5, <2>1, <2>2 DEF BuildInv, BlocksAreSigned, PastWrite, Signed, Plain
<1>7. ChunksAreDigested'
  <2>1. step = "chunks" => next' <= OuterSize(N) + 1
    <3> SUFFICES ASSUME step = "chunks"
                 PROVE  next' <= OuterSize(N) + 1
      OBVIOUS
    <3>1. OuterSize(N) \in Nat
      BY BuildFacts DEF PastWrite
    <3>2. next <= OuterSize(N)
      BY <1>1 DEF Count
    <3>3. QED
      BY <1>1, <1>3, <3>1, <3>2
  <2>2. QED
    BY <1>1, <1>2, <1>3, <1>5, <2>1 DEF BuildInv, ChunksAreDigested, Digested, Block
<1>8. RegionsAreCovered'
  BY <1>1, <1>3 DEF RegionsAreCovered
<1>9. QED
  BY <1>4, <1>6, <1>7, <1>8 DEF BuildInv

\* A signature goes into the slot it is for.  It disturbs those whose slot it
\* takes, and those of the block this slot is in; that of a block which holds its
\* own slot it does not disturb.
LEMMA SignEffect ==
    ASSUME NEW n \in Nat, NEW sig, sign(sig),
           DOMAIN rev = 0 .. OuterSize(n) - 1,
           DOMAIN enc = 0 .. OuterSize(n) * SectorsPerBlock - 1,
           \A s \in DOMAIN enc : enc[s] = 0,
           sig.block \in 0 .. OuterSize(n) - 1
    PROVE  /\ DOMAIN rev' = DOMAIN rev /\ enc' = enc
           /\ regions' = regions /\ seals' = seals
           /\ Signed(sig)'
           /\ \A x : /\ Signed(x) /\ x.block \in DOMAIN rev
                     /\ x.at # sig.at
                     /\ SlotBlock(sig.at) \notin {x.block} \ {sig.block}
                     => Signed(x)'
<1> DEFINE b == SlotBlock(sig.at)
<1>1. /\ slots' = [a \in DOMAIN slots \cup {sig.at} |->
                      IF a = sig.at THEN [block |-> sig.block, over |-> Block(sig.block)]
                      ELSE slots[a]]
      /\ rev' = IF b = sig.block THEN rev ELSE [rev EXCEPT ![b] = @ + 1]
      /\ enc' = enc /\ regions' = regions /\ seals' = seals
  BY DEF sign
<1> HIDE DEF b
<1>2. /\ DOMAIN rev' = DOMAIN rev
      /\ \A c \in DOMAIN rev : c # b \/ b = sig.block => rev'[c] = rev[c]
  <2>1. CASE b = sig.block
    BY <1>1, <2>1
  <2>2. CASE b # sig.block
    <3>1. rev' = [rev EXCEPT ![b] = rev[b] + 1]
      BY <1>1, <2>2
    <3>2. QED
      BY <2>2, <3>1
  <2>3. QED
    BY <2>1, <2>2
<1>3. Block(sig.block) = Plain(sig.block)
  <2>1. OuterSize(n) \in Nat
    BY IndirectBlocks
  <2>2. SectorsOf(sig.block) \subseteq DOMAIN enc
    BY <2>1, SectorsOfBlocks
  <2>3. QED
    BY <2>2 DEF Block, Plain
<1>4. rev'[sig.block] = rev[sig.block]
  BY <1>2
<1>5. Signed(sig)'
  <2>1. sig.at \in DOMAIN slots'
        /\ slots'[sig.at] = [block |-> sig.block, over |-> Block(sig.block)]
    BY <1>1
  <2>2. Plain(sig.block)' = Plain(sig.block)
    BY <1>4 DEF Plain
  <2>3. QED
    BY <1>3, <2>1, <2>2 DEF Signed
<1>6. ASSUME NEW x, Signed(x), x.block \in DOMAIN rev, x.at # sig.at,
             b \notin {x.block} \ {sig.block}
      PROVE  Signed(x)'
  <2>1. x.at \in DOMAIN slots' /\ slots'[x.at] = slots[x.at]
    BY <1>1, <1>6 DEF Signed
  <2>2. rev'[x.block] = rev[x.block]
    BY <1>2, <1>6
  <2>3. Plain(x.block)' = Plain(x.block)
    BY <2>2 DEF Plain
  <2>4. QED
    BY <1>6, <2>1, <2>3 DEF Signed
<1>7. QED
  BY <1>1, <1>2, <1>5, <1>6 DEF b

\* A worker is done: with its block, its sector or its chunk.
LEMMA WorkStep ==
    BuildInv /\ Work => BuildInv'
<1> SUFFICES ASSUME BuildInv, Work
             PROVE  BuildInv'
  OBVIOUS
<1>1. PICK k \in busy :
        /\ busy' = busy \ {k}
        /\ \/ step = "sign"    /\ sign(dataSigs(N)[k])
           \/ step = "encrypt" /\ encrypt(xtsSectors[k])
           \/ step = "chunks"  /\ chunkDigest(k - 1)
        /\ UNCHANGED <<step, imageVars, next, failing>>
  BY DEF Work
<1>2. /\ step' = step /\ length' = length /\ tree' = tree /\ next' = next
      /\ failing' = failing /\ N' = N /\ SectorCount' = SectorCount
  BY <1>1 DEF imageVars, N, SectorCount
<1>3. /\ step \in {"sign", "encrypt", "chunks"} /\ step \in PastWrite
      /\ next \in Nat /\ busy \subseteq 1 .. next - 1 /\ k \in 1 .. next - 1
  BY <1>1 DEF BuildInv, BuildTypeOK, PastWrite
<1>4. PICK n \in Nat : n = N
  BY <1>3, BuildFacts
<1>5. /\ OuterSize(n) \in Nat /\ DOMAIN rev = 0 .. OuterSize(n) - 1
      /\ DOMAIN enc = 0 .. OuterSize(n) * SectorsPerBlock - 1
      /\ SectorCount = OuterSize(n) * SectorsPerBlock
  BY <1>3, <1>4, BuildFacts DEF SectorCount
<1>6. ASSUME DOMAIN rev' = DOMAIN rev, DOMAIN enc' = DOMAIN enc,
             step = "sign" => enc' = enc
      PROVE  BuildTypeOK'
  BY <1>1, <1>2, <1>3, <1>6 DEF BuildInv, BuildTypeOK
<1>7. CASE step = "sign"
  <2> DEFINE D == dataSigs(n)
  <2>1. /\ Len(D) = n + 1 /\ DOMAIN D = 1 .. n + 1 /\ next <= n + 2
    BY <1>4, <1>7, DataSignatures DEF BuildInv, BlocksAreSigned
  <2>2. k \in DOMAIN D
    BY <1>3, <2>1
  <2>3. \A i \in DOMAIN D :
          /\ D[i].block \in 0 .. OuterSize(n) - 1
          /\ SlotBlock(D[k].at) # D[i].block
          /\ D[i].at = D[k].at => i = k
    <3>1. UrootBlock(n) \in Nat
      BY IndirectBlocks
    <3>2. \A i \in DOMAIN D :
            /\ D[i].block \in UrootBlock(n) .. OuterSize(n) - 1
            /\ SlotBlock(D[k].at) \in 1 .. UrootBlock(n) - 1
            /\ D[i].at = D[k].at => i = k
      BY <2>2, DataSlots
    <3> HIDE DEF D
    <3>3. QED
      BY <1>5, <3>1, <3>2
  <2>4. sign(D[k])
    BY <1>1, <1>4, <1>7
  <2>5. \A s \in DOMAIN enc : enc[s] = 0
    BY <1>7 DEF BuildInv, BuildTypeOK
  <2> HIDE DEF D
  <2>6. /\ DOMAIN rev' = DOMAIN rev /\ enc' = enc /\ regions' = regions /\ seals' = seals
        /\ Signed(D[k])'
        /\ \A x : /\ Signed(x) /\ x.block \in DOMAIN rev /\ x.at # D[k].at
                  /\ SlotBlock(D[k].at) \notin {x.block} \ {D[k].block}
                  => Signed(x)'
    <3>1. D[k].block \in 0 .. OuterSize(n) - 1
      BY <2>2, <2>3
    <3>2. QED
      BY <1>5, <2>4, <2>5, <3>1, SignEffect
  <2>7. ASSUME NEW i \in DOMAIN D, i # k, Signed(D[i])
        PROVE  Signed(D[i])'
    <3>1. D[i].block \in DOMAIN rev /\ D[i].at # D[k].at /\ SlotBlock(D[k].at) # D[i].block
      BY <1>5, <2>3, <2>7
    <3>2. QED
      BY <2>6, <2>7, <3>1
  <2>8. ASSUME ~failing, NEW i \in 1 .. next - 1, i \notin busy'
        PROVE  Signed(D[i])'
    <3>1. i \in DOMAIN D
      BY <1>3, <2>1, <2>8
    <3>2. CASE i = k
      BY <2>6, <3>2
    <3>3. CASE i # k
      <4>1. i \notin busy
        BY <1>1, <2>8, <3>3
      <4>2. Signed(D[i])
        BY <1>4, <1>7, <2>8, <4>1 DEF BuildInv, BlocksAreSigned, D
      <4>3. QED
        BY <2>7, <3>1, <3>3, <4>2
    <3>4. QED
      BY <3>2, <3>3
  <2>9. BlocksAreSigned'
    <3>1. step' = "sign" /\ N' = n /\ next' = next /\ failing' = failing
      BY <1>2, <1>4, <1>7
    <3>2. next <= Len(D) + 1
      BY <1>3, <2>1
    <3>3. next' <= Len(dataSigs(N)')+ 1
      BY <3>1, <3>2 DEF D
    <3>4. QED
      BY <2>8, <3>1, <3>3 DEF BlocksAreSigned, PastWrite, D
  <2>10. ChunksAreDigested' /\ RegionsAreCovered'
    BY <1>2, <1>7 DEF ChunksAreDigested, RegionsAreCovered
  <2>11. QED
    BY <1>6, <2>6, <2>9, <2>10 DEF BuildInv
<1>8. CASE step = "encrypt"
  <2>1. /\ enc' = [enc EXCEPT ![xtsSectors[k]] = @ + 1]
        /\ slots' = slots /\ rev' = rev /\ regions' = regions /\ seals' = seals
    BY <1>1, <1>8 DEF encrypt
  <2>2. DOMAIN enc' = DOMAIN enc
    BY <2>1
  <2>3. BuildTypeOK'
    BY <1>6, <1>8, <2>1, <2>2
  <2>4. BlocksAreSigned'
    BY <1>2, <1>8, <2>1 DEF BuildInv, BlocksAreSigned, Signed, Plain, PastWrite
  <2>5. ChunksAreDigested' /\ RegionsAreCovered'
    BY <1>2, <1>8 DEF ChunksAreDigested, RegionsAreCovered
  <2>6. QED
    BY <2>3, <2>4, <2>5 DEF BuildInv
<1>9. CASE step = "chunks"
  <2>1. /\ seals' = [x \in DOMAIN seals \cup {<<"chunk", k - 1>>} |->
                        IF x = <<"chunk", k - 1>> THEN Block(k - 1) ELSE seals[x]]
        /\ slots' = slots /\ rev' = rev /\ enc' = enc /\ regions' = regions
    BY <1>1, <1>9 DEF chunkDigest, Seal
  <2>2. BuildTypeOK'
    BY <1>6, <1>9, <2>1
  <2>3. BlocksAreSigned'
    BY <1>2, <1>9, <2>1 DEF BuildInv, BlocksAreSigned, Signed, Plain, PastWrite
  <2>4. Digested(k - 1)' /\ \A b : Digested(b) => Digested(b)'
    <3>1. \A b : Block(b)' = Block(b)
      BY <2>1 DEF Block
    <3>2. QED
      BY <2>1, <3>1 DEF Digested
  <2>5. ChunksAreDigested'
    <3>1. ASSUME ~failing, NEW i \in 1 .. next - 1, i \notin busy'
          PROVE  Digested(i - 1)'
      <4>1. CASE i = k
        BY <2>4, <4>1
      <4>2. CASE i # k
        BY <1>1, <1>9, <2>4, <3>1, <4>2 DEF BuildInv, ChunksAreDigested
      <4>3. QED
        BY <4>1, <4>2
    <3>2. next' <= OuterSize(N)' + 1
      BY <1>2, <1>9 DEF BuildInv, ChunksAreDigested
    <3>3. QED
      BY <1>2, <1>9, <3>1, <3>2 DEF ChunksAreDigested
  <2>6. RegionsAreCovered'
    BY <1>2, <1>9 DEF RegionsAreCovered
  <2>7. QED
    BY <2>2, <2>3, <2>5, <2>6 DEF BuildInv
<1>10. QED
  BY <1>3, <1>7, <1>8, <1>9

\* A worker has an error: the build is going to fail.
LEMMA WorkFailsStep ==
    BuildInv /\ WorkFails => BuildInv'
<1> SUFFICES ASSUME BuildInv, WorkFails
             PROVE  BuildInv'
  OBVIOUS
<1>1. PICK k \in busy :
        /\ busy' = busy \ {k} /\ failing' = TRUE
        /\ UNCHANGED <<step, imageVars, sealVars, next>>
  BY DEF WorkFails
<1>2. /\ step' = step /\ length' = length /\ tree' = tree /\ next' = next
      /\ slots' = slots /\ rev' = rev /\ enc' = enc /\ seals' = seals
      /\ regions' = regions /\ N' = N /\ SectorCount' = SectorCount
  BY <1>1 DEF imageVars, sealVars, N, SectorCount
<1>3. step \in {"sign", "encrypt", "chunks"}
  BY <1>1 DEF BuildInv, BuildTypeOK
<1>4. BuildTypeOK'
  BY <1>1, <1>2, <1>3 DEF BuildInv, BuildTypeOK
<1>5. BlocksAreSigned'
  BY <1>1, <1>2, <1>3 DEF BuildInv, BlocksAreSigned, Signed, Plain
<1>6. ChunksAreDigested'
  BY <1>1, <1>2, <1>3 DEF BuildInv, ChunksAreDigested
<1>7. RegionsAreCovered'
  BY <1>2, <1>3 DEF RegionsAreCovered
<1>8. QED
  BY <1>4, <1>5, <1>6, <1>7 DEF BuildInv

\* All workers are done, and all indexes if none had an error.
LEMMA JoinedStep ==
    BuildInv /\ Joined => BuildInv'
<1> SUFFICES ASSUME BuildInv, Joined
             PROVE  BuildInv'
  OBVIOUS
<1>1. /\ step \in {"sign", "encrypt", "chunks"} /\ busy = {} /\ busy' = {}
      /\ failing \/ next > Count
      /\ next' = 1 /\ failing' = FALSE
      /\ length' = length /\ tree' = tree /\ slots' = slots /\ rev' = rev
      /\ enc' = enc /\ seals' = seals
  BY DEF Joined, imageVars
<1>2. N' = N /\ SectorCount' = SectorCount
  BY <1>1 DEF N, SectorCount
<1>3. PICK n \in Nat : n = N
  BY <1>1, BuildFacts DEF PastWrite
<1>4. next \in Nat /\ next >= 1
  BY DEF BuildInv, BuildTypeOK
<1>5. CASE failing
  <2>1. step' = "failed"
    BY <1>5 DEF Joined
  <2>2. BuildTypeOK'
    BY <1>1, <2>1 DEF BuildTypeOK, PastWrite
  <2>3. QED
    BY <2>1, <2>2, NothingToKeep DEF BuildInv
<1>6. CASE ~failing /\ step = "sign"
  <2>1. step' = "final" /\ next > Len(dataSigs(n))
    BY <1>1, <1>3, <1>6 DEF Joined, Count
  <2>2. BuildTypeOK'
    BY <1>1, <1>2, <1>6, <2>1 DEF BuildInv, BuildTypeOK, PastWrite
  <2>3. ASSUME NEW i \in DOMAIN dataSigs(n)
        PROVE  Signed(dataSigs(n)[i])'
    <3>1. Len(dataSigs(n)) = n + 1 /\ DOMAIN dataSigs(n) = 1 .. n + 1
      BY DataSignatures
    <3>2. i \in 1 .. next - 1
      BY <1>4, <2>1, <3>1
    <3>3. Signed(dataSigs(n)[i])
      BY <1>1, <1>3, <1>6, <3>2 DEF BuildInv, BlocksAreSigned
    <3>4. QED
      BY <1>1, <3>3 DEF Signed, Plain
  <2>4. BlocksAreSigned'
    <3>1. N' = n /\ Len(finalSigs(n)) \in Nat /\ DOMAIN finalSigs(n) = 1 .. Len(finalSigs(n))
      BY <1>2, <1>3, FinalSignatures
    <3>2. \A i \in DOMAIN finalSigs(n) : ~(i > Len(finalSigs(n)) - (next' - 1))
      BY <1>1, <3>1
    <3>3. next' <= Len(finalSigs(n)) + 1
      BY <1>1, <3>1
    <3>4. QED
      BY <2>1, <2>3, <3>1, <3>2, <3>3 DEF BlocksAreSigned, PastWrite
  <2>5. ChunksAreDigested' /\ RegionsAreCovered'
    BY <2>1 DEF ChunksAreDigested, RegionsAreCovered
  <2>6. QED
    BY <2>2, <2>4, <2>5 DEF BuildInv
<1>7. CASE ~failing /\ step \in {"encrypt", "chunks"}
  <2>1. step' \in {"chunks", "finish"} /\ (step = "encrypt" <=> step' = "chunks")
    BY <1>7 DEF Joined
  <2>2. BuildTypeOK'
    BY <1>1, <1>2, <1>7, <2>1 DEF BuildInv, BuildTypeOK, PastWrite
  <2>3. BlocksAreSigned'
    BY <1>1, <1>2, <1>7, <2>1 DEF BuildInv, BlocksAreSigned, Signed, Plain, PastWrite
  <2>4. ChunksAreDigested'
    <3>1. OuterSize(N) \in Nat /\ DOMAIN rev = 0 .. OuterSize(N) - 1
      BY <1>7, BuildFacts DEF PastWrite
    <3>2. CASE step = "encrypt"
      BY <1>1, <1>2, <2>1, <3>1, <3>2 DEF ChunksAreDigested
    <3>3. CASE step = "chunks"
      <4>1. next > OuterSize(N)
        BY <1>1, <1>7, <3>3 DEF Count
      <4>2. ASSUME NEW b \in DOMAIN rev
            PROVE  Digested(b)'
        <5>1. b + 1 \in 1 .. next - 1 /\ (b + 1) - 1 = b
          BY <1>4, <3>1, <4>1
        <5>2. Digested((b + 1) - 1)
          BY <1>1, <1>7, <3>3, <5>1 DEF BuildInv, ChunksAreDigested
        <5>3. Digested(b)
          BY <5>1, <5>2
        <5>4. QED
          BY <1>1, <5>3 DEF Digested, Block
      <4>3. QED
        BY <1>1, <2>1, <3>3, <4>2 DEF ChunksAreDigested
    <3>4. QED
      BY <1>7, <3>2, <3>3
  <2>5. RegionsAreCovered'
    <3>1. step' = "finish" => DOMAIN regions' = Regions
      BY <2>1, <1>7 DEF Joined
    <3>2. Len(finish) = 12
      BY FinishOrder
    <3>3. QED
      BY <1>1, <2>1, <3>1, <3>2 DEF RegionsAreCovered
  <2>6. QED
    BY <2>2, <2>3, <2>4, <2>5 DEF BuildInv
<1>8. QED
  BY <1>1, <1>5, <1>6, <1>7

\* A signature of finalSigs leaves those of the file and the earlier ones alone.
LEMMA SignFinalStep ==
    BuildInv /\ SignFinal => BuildInv'
<1> SUFFICES ASSUME BuildInv, SignFinal
             PROVE  BuildInv'
  OBVIOUS
<1>1. /\ step = "final" /\ step' = "final" /\ next <= Len(finalSigs(N))
      /\ sign(finalSigs(N)[Len(finalSigs(N)) - next + 1])
      /\ next' = next + 1 /\ busy' = busy /\ failing' = failing
      /\ length' = length /\ tree' = tree
  BY DEF SignFinal, imageVars
<1>2. N' = N /\ SectorCount' = SectorCount
  BY <1>1 DEF N, SectorCount
<1>3. PICK n \in Nat : n = N
  BY <1>1, BuildFacts DEF PastWrite
<1> DEFINE F == finalSigs(n)
           D == dataSigs(n)
<1>4. /\ next \in Nat /\ next >= 1 /\ busy = {} /\ failing = FALSE
      /\ \A s \in DOMAIN enc : enc[s] = 0
  BY <1>1 DEF BuildInv, BuildTypeOK
<1>5. Len(F) \in Nat /\ DOMAIN F = 1 .. Len(F) /\ next <= Len(F)
  BY <1>1, <1>3, FinalSignatures
<1>6. PICK k \in DOMAIN F : k = Len(F) - next + 1
  BY <1>4, <1>5
<1>7. /\ OuterSize(n) \in Nat /\ DOMAIN rev = 0 .. OuterSize(n) - 1
      /\ DOMAIN enc = 0 .. OuterSize(n) * SectorsPerBlock - 1
      /\ UrootBlock(n) \in Nat /\ UrootBlock(n) <= OuterSize(n)
  <2>1. UrootBlock(n) \in Nat /\ OuterSize(n) = UrootBlock(n) + 1 + n
    BY IndirectBlocks
  <2>2. QED
    BY <1>1, <1>3, <2>1, BuildFacts DEF PastWrite
<1>8. /\ F[k].block \in 0 .. OuterSize(n) - 1
      /\ SlotBlock(F[k].at) \in 0 .. UrootBlock(n) - 1
      /\ \A i \in DOMAIN F :
            /\ F[i].block \in 0 .. OuterSize(n) - 1
            /\ F[i].at = F[k].at => i = k
            /\ i > k => SlotBlock(F[k].at) \notin {F[i].block} \ {F[k].block}
      /\ \A i \in DOMAIN D :
            /\ D[i].block \in 0 .. OuterSize(n) - 1
            /\ D[i].at # F[k].at /\ SlotBlock(F[k].at) # D[i].block
  <2>1. /\ SlotBlock(F[k].at) \in 0 .. UrootBlock(n) - 1
        /\ \/ SlotBlock(F[k].at) = F[k].block
           \/ \A j \in DOMAIN F : j >= k => F[j].block # SlotBlock(F[k].at)
        /\ \A j \in DOMAIN F : F[j].at = F[k].at => j = k
        /\ \A j \in DOMAIN D : D[j].at # F[k].at
    BY FinalSlots
  <2>2. \A i \in DOMAIN F : F[i].block \in 0 .. UrootBlock(n) - 1
    BY FinalSlots
  <2>3. \A i \in DOMAIN D : D[i].block \in UrootBlock(n) .. OuterSize(n) - 1
    BY DataSlots
  <2> HIDE DEF F, D
  <2>4. \A i \in DOMAIN F : F[i].block \in 0 .. OuterSize(n) - 1
    BY <1>7, <2>2
  <2>5. \A i \in DOMAIN F : i > k => i >= k
    BY <1>5
  <2>6. \A i \in DOMAIN D : D[i].block \in 0 .. OuterSize(n) - 1 /\ SlotBlock(F[k].at) # D[i].block
    BY <1>7, <2>1, <2>3
  <2>7. QED
    BY <2>1, <2>4, <2>5, <2>6
<1>9. sign(F[k])
  BY <1>1, <1>3, <1>6
<1> HIDE DEF F, D
<1>10. /\ DOMAIN rev' = DOMAIN rev /\ enc' = enc /\ regions' = regions /\ seals' = seals
       /\ Signed(F[k])'
       /\ \A x : /\ Signed(x) /\ x.block \in DOMAIN rev /\ x.at # F[k].at
                 /\ SlotBlock(F[k].at) \notin {x.block} \ {F[k].block}
                 => Signed(x)'
  BY <1>4, <1>7, <1>8, <1>9, SignEffect
<1>11. BuildTypeOK'
  BY <1>1, <1>2, <1>4, <1>10 DEF BuildInv, BuildTypeOK, PastWrite
<1>12. ASSUME NEW i \in DOMAIN D
       PROVE  Signed(D[i])'
  <2>1. Signed(D[i])
    BY <1>1, <1>3 DEF BuildInv, BlocksAreSigned, PastWrite, D
  <2>2. D[i].block \in DOMAIN rev
    BY <1>7, <1>8
  <2>3. QED
    BY <1>8, <1>10, <2>1, <2>2
<1>13. ASSUME NEW i \in DOMAIN F, i > Len(F) - (next' - 1)
       PROVE  Signed(F[i])'
  <2>1. i = k \/ (i > k /\ i > Len(F) - (next - 1))
    BY <1>1, <1>4, <1>5, <1>6, <1>13
  <2>2. CASE i = k
    BY <1>10, <2>2
  <2>3. CASE i > k /\ i > Len(F) - (next - 1)
    <3>1. Signed(F[i])
      BY <1>1, <1>3, <2>3 DEF BuildInv, BlocksAreSigned, F
    <3>2. F[i].block \in DOMAIN rev
      BY <1>7, <1>8
    <3>3. i # k
      BY <1>5, <2>3
    <3>4. QED
      BY <1>8, <1>10, <2>3, <3>1, <3>2, <3>3
  <2>4. QED
    BY <2>1, <2>2, <2>3
<1>14. BlocksAreSigned'
  <2>1. next' <= Len(F) + 1
    BY <1>1, <1>4, <1>5
  <2>2. N' = n
    BY <1>2, <1>3
  <2>3. QED
    BY <1>1, <1>12, <1>13, <2>1, <2>2 DEF BlocksAreSigned, PastWrite, F, D
<1>15. ChunksAreDigested' /\ RegionsAreCovered'
  BY <1>1 DEF ChunksAreDigested, RegionsAreCovered
<1>16. QED
  BY <1>11, <1>14, <1>15 DEF BuildInv

\* All signatures are in their slots before the first sector is encrypted.
LEMMA FinalDoneStep ==
    BuildInv /\ FinalDone => BuildInv'
<1> SUFFICES ASSUME BuildInv, FinalDone
             PROVE  BuildInv'
  OBVIOUS
<1>1. /\ step = "final" /\ step' = "encrypt" /\ next > Len(finalSigs(N)) /\ next' = 1
      /\ busy' = busy /\ failing' = failing
      /\ length' = length /\ tree' = tree /\ slots' = slots /\ rev' = rev
      /\ enc' = enc /\ seals' = seals /\ regions' = regions
  BY DEF FinalDone, imageVars, sealVars
<1>2. N' = N /\ SectorCount' = SectorCount
  BY <1>1 DEF N, SectorCount
<1>3. PICK n \in Nat : n = N
  BY <1>1, BuildFacts DEF PastWrite
<1>4. next \in Nat /\ busy = {}
  BY <1>1 DEF BuildInv, BuildTypeOK
<1>5. BuildTypeOK'
  BY <1>1, <1>2, <1>4 DEF BuildInv, BuildTypeOK, PastWrite
<1>6. ASSUME NEW i \in DOMAIN finalSigs(n)
      PROVE  Signed(finalSigs(n)[i])
  <2>1. Len(finalSigs(n)) \in Nat /\ DOMAIN finalSigs(n) = 1 .. Len(finalSigs(n))
    BY FinalSignatures
  <2>2. i > Len(finalSigs(n)) - (next - 1)
    BY <1>1, <1>3, <1>4, <2>1
  <2>3. QED
    BY <1>1, <1>3, <2>2 DEF BuildInv, BlocksAreSigned
<1>7. \A i \in DOMAIN dataSigs(n) : Signed(dataSigs(n)[i])
  BY <1>1, <1>3 DEF BuildInv, BlocksAreSigned, PastWrite
<1>8. BlocksAreSigned'
  <2>1. \A x : Signed(x) => Signed(x)'
    BY <1>1 DEF Signed, Plain
  <2>2. N' = n
    BY <1>2, <1>3
  <2>3. QED
    BY <1>1, <1>6, <1>7, <2>1, <2>2 DEF BlocksAreSigned
<1>9. ChunksAreDigested' /\ RegionsAreCovered'
  BY <1>1 DEF ChunksAreDigested, RegionsAreCovered
<1>10. QED
  BY <1>5, <1>8, <1>9 DEF BuildInv

\* A digest of the package covers regions that no later step writes.
LEMMA FinishStepStep ==
    BuildInv /\ FinishStep => BuildInv'
<1> SUFFICES ASSUME BuildInv, FinishStep
             PROVE  BuildInv'
  OBVIOUS
<1>1. /\ step = "finish" /\ step' = "finish" /\ next <= Len(finish)
      /\ seals' = [x \in DOMAIN seals \cup {<<finish[next].name, 0>>} |->
                      IF x = <<finish[next].name, 0>>
                      THEN [r \in finish[next].over |-> Region(r)] ELSE seals[x]]
      /\ regions' = [regions EXCEPT ![finish[next].into] = @ + 1]
      /\ next' = next + 1 /\ busy' = busy /\ failing' = failing
      /\ length' = length /\ tree' = tree /\ slots' = slots /\ rev' = rev /\ enc' = enc
  BY DEF FinishStep, Seal, imageVars
<1>2. N' = N /\ SectorCount' = SectorCount
  BY <1>1 DEF N, SectorCount
<1>3. next \in Nat /\ next >= 1 /\ busy = {} /\ DOMAIN regions = Regions
  BY <1>1 DEF BuildInv, BuildTypeOK, RegionsAreCovered
<1>4. PICK k \in 1 .. 12 : k = next
  <2>1. Len(finish) = 12
    BY FinishOrder
  <2>2. next <= 12
    BY <1>1, <2>1
  <2>3. QED
    BY <1>3, <2>2
<1>5. BuildTypeOK'
  BY <1>1, <1>2, <1>3 DEF BuildInv, BuildTypeOK, PastWrite
<1>6. BlocksAreSigned'
  BY <1>1, <1>2 DEF BuildInv, BlocksAreSigned, Signed, Plain, PastWrite
<1>7. ChunksAreDigested'
  <2>1. ASSUME NEW b \in DOMAIN rev
        PROVE  Digested(b)'
    <3>1. Digested(b)
      BY <1>1 DEF BuildInv, ChunksAreDigested
    <3>2. <<"chunk", b>> # <<finish[next].name, 0>>
      BY <1>4, FinishOrder
    <3>3. /\ <<"chunk", b>> \in DOMAIN seals'
          /\ seals'[<<"chunk", b>>] = seals[<<"chunk", b>>]
      BY <1>1, <3>1, <3>2 DEF Digested
    <3>4. Block(b)' = Block(b)
      BY <1>1 DEF Block
    <3>5. QED
      BY <3>1, <3>3, <3>4 DEF Digested
  <2>2. QED
    BY <1>1, <2>1 DEF ChunksAreDigested
<1>8. RegionsAreCovered'
  <2>1. DOMAIN regions' = Regions
    BY <1>1, <1>3
  <2>2. ASSUME NEW i \in 1 .. k, NEW r \in finish[i].over
        PROVE  Region(r)' = Region(r)
    <3>1. r # finish[k].into
      BY FinishOrder
    <3>2. CASE r = "image"
      BY <1>1, <3>2 DEF Region
    <3>3. CASE r # "image"
      <4>1. regions'[r] = regions[r]
        BY <1>1, <1>4, <3>1
      <4>2. QED
        BY <3>3, <4>1 DEF Region
    <3>4. QED
      BY <3>2, <3>3
  <2>3. ASSUME NEW i \in 1 .. k
        PROVE  [r \in finish[i].over |-> Region(r)]' = [r \in finish[i].over |-> Region(r)]
    BY <2>2
  <2>4. Covered(k)'
    <3>1. /\ <<finish[k].name, 0>> \in DOMAIN seals'
          /\ seals'[<<finish[k].name, 0>>] = [r \in finish[k].over |-> Region(r)]
      BY <1>1, <1>4
    <3>2. [r \in finish[k].over |-> Region(r)]' = [r \in finish[k].over |-> Region(r)]
      BY <2>3
    <3>3. QED
      BY <3>1, <3>2 DEF Covered
  <2>5. ASSUME NEW i \in 1 .. 12, i < k
        PROVE  Covered(i)'
    <3>1. Covered(i)
      BY <1>1, <1>4, <2>5 DEF BuildInv, RegionsAreCovered
    <3>2. <<finish[i].name, 0>> # <<finish[next].name, 0>>
      BY <1>4, <2>5, FinishOrder
    <3>3. /\ <<finish[i].name, 0>> \in DOMAIN seals'
          /\ seals'[<<finish[i].name, 0>>] = seals[<<finish[i].name, 0>>]
      BY <1>1, <3>1, <3>2 DEF Covered
    <3>4. [r \in finish[i].over |-> Region(r)]' = [r \in finish[i].over |-> Region(r)]
      BY <2>3, <2>5
    <3>5. QED
      BY <3>1, <3>3, <3>4 DEF Covered
  <2>6. ASSUME NEW i \in 1 .. next' - 1
        PROVE  Covered(i)'
    <3>1. i \in 1 .. 12 /\ (i = k \/ i < k)
      BY <1>1, <1>3, <1>4, FinishOrder
    <3>2. QED
      BY <2>4, <2>5, <3>1
  <2>7. next' <= Len(finish) + 1
    <3>1. Len(finish) = 12
      BY FinishOrder
    <3>2. next' = next + 1 /\ next <= Len(finish)
      BY <1>1
    <3>3. QED
      BY <1>3, <3>1, <3>2
  <2>8. QED
    BY <1>1, <2>1, <2>6, <2>7 DEF RegionsAreCovered
<1>9. QED
  BY <1>5, <1>6, <1>7, <1>8 DEF BuildInv

\* The package has all its digests.
LEMMA BuiltStep ==
    BuildInv /\ Built => BuildInv'
<1> SUFFICES ASSUME BuildInv, Built
             PROVE  BuildInv'
  OBVIOUS
<1>1. /\ step = "finish" /\ step' = "built" /\ next > Len(finish)
      /\ next' = next /\ busy' = busy /\ failing' = failing
      /\ length' = length /\ tree' = tree /\ slots' = slots /\ rev' = rev /\ enc' = enc
      /\ seals' = seals /\ regions' = regions
  BY DEF Built, imageVars, sealVars, loopVars
<1>2. N' = N /\ SectorCount' = SectorCount
  BY <1>1 DEF N, SectorCount
<1>3. next \in Nat /\ next >= 1 /\ busy = {}
  BY <1>1 DEF BuildInv, BuildTypeOK
<1>4. BuildTypeOK'
  BY <1>1, <1>2, <1>3 DEF BuildInv, BuildTypeOK, PastWrite
<1>5. BlocksAreSigned'
  BY <1>1, <1>2 DEF BuildInv, BlocksAreSigned, Signed, Plain, PastWrite
<1>6. ChunksAreDigested'
  BY <1>1 DEF BuildInv, ChunksAreDigested, Digested, Block
<1>7. RegionsAreCovered'
  <2>1. ASSUME NEW i \in 1 .. 12
        PROVE  Covered(i)'
    <3>1. i \in 1 .. next - 1
      <4>1. Len(finish) = 12
        BY FinishOrder
      <4>2. next > Len(finish)
        BY <1>1
      <4>3. QED
        BY <1>3, <4>1, <4>2
    <3>2. Covered(i)
      BY <1>1, <3>1 DEF BuildInv, RegionsAreCovered
    <3>3. QED
      BY <1>1, <3>2 DEF Covered, Region
  <2>2. DOMAIN regions' = Regions
    BY <1>1 DEF BuildInv, RegionsAreCovered
  <2>3. QED
    BY <1>1, <2>1, <2>2, FinishOrder DEF RegionsAreCovered
<1>8. QED
  BY <1>4, <1>5, <1>6, <1>7 DEF BuildInv

\* Every step of Build keeps the invariant.
LEMMA ImageNextStep ==
    BuildInv /\ ImageNext => BuildInv'
BY BuildFailsStep, PrepareStep, WriteDataStep, TakeStep, WorkStep, WorkFailsStep,
   JoinedStep, SignFinalStep, FinalDoneStep, FinishStepStep, BuiltStep DEF ImageNext

\* What the invariant says of a package that is built.
LEMMA BuildInvImplies ==
    BuildInv => SealsAreFinal
<1> SUFFICES ASSUME BuildInv, step = "built"
             PROVE  SealsAreFinal
  BY DEF SealsAreFinal
<1>1. N \in Nat
  BY BuildFacts DEF PastWrite
<1>2. ASSUME NEW sig \in Range(dataSigs(N)) \cup Range(finalSigs(N))
      PROVE  Signed(sig)
  <2>1. \/ \E i \in DOMAIN dataSigs(N) : sig = dataSigs(N)[i]
        \/ \E i \in DOMAIN finalSigs(N) : sig = finalSigs(N)[i]
    BY DEF Range
  <2>2. QED
    BY <2>1 DEF BuildInv, BlocksAreSigned, PastWrite
<1>3. \A b \in DOMAIN rev : Digested(b)
  BY DEF BuildInv, ChunksAreDigested
<1>4. \A i \in DOMAIN finish : Covered(i)
  BY DEF BuildInv, RegionsAreCovered
<1>5. QED
  BY <1>2, <1>3, <1>4 DEF SealsAreFinal, Signed, Digested, Covered

----------------------------------------------------------------------------
(* Build as a whole.                                                        *)

\* There is no image before there is a tree, and the two parts of OutputIsWhole.
StageOK ==
    /\ fpc \in {"idle", "started", "lstat", "extract", "import"} => step = "none"
    /\ OutputIsWhole

\* So does every step around it.
LEMMA PackageInvariance ==
    BuildInv /\ StageOK /\ (FPKGNext \/ UNCHANGED fpkgVars) => BuildInv' /\ StageOK'
<1> SUFFICES ASSUME BuildInv, StageOK, FPKGNext \/ UNCHANGED fpkgVars
             PROVE  BuildInv' /\ StageOK'
  OBVIOUS
<1>1. CASE Import
  <2>1. /\ fpc = "import" /\ fpc' = "build" /\ step' = "prepare" /\ tree' \in GameTrees
        /\ next' = next /\ busy' = busy /\ failing' = failing
        /\ work' = work /\ output' = output
    BY <1>1 DEF Import, loopVars, GameTrees
  <2>2. step = "none"
    BY <2>1 DEF StageOK
  <2>3. next = 1 /\ busy = {} /\ failing = FALSE
    BY <2>2 DEF BuildInv, BuildTypeOK
  <2>4. BuildTypeOK'
    BY <2>1, <2>3 DEF BuildTypeOK, PastWrite
  <2>5. StageOK'
    BY <2>1 DEF StageOK, OutputIsWhole
  <2>6. QED
    BY <2>1, <2>4, <2>5, NothingToKeep DEF BuildInv
<1>2. CASE OrbisBuild
  <2>1. BuildInv'
    BY <1>2, ImageNextStep DEF OrbisBuild
  <2>2. StageOK'
    BY <1>2 DEF OrbisBuild, StageOK, OutputIsWhole
  <2>3. QED
    BY <2>1, <2>2
<1>3. CASE Returned \/ FPKGCrash
  <2>1. /\ step' = "none" /\ next' = 1 /\ busy' = {} /\ failing' = FALSE
        /\ fpc' = "idle" /\ work' = FALSE
        /\ output' = output \/ output' = "orphan"
    BY <1>3 DEF Returned, FPKGCrash, ForgetImage
  <2>2. BuildTypeOK'
    BY <2>1 DEF BuildTypeOK, PastWrite
  <2>3. output' # "partial"
    BY <1>3 DEF Returned, FPKGCrash, StageOK, OutputIsWhole
  <2>4. StageOK'
    BY <2>1, <2>3 DEF StageOK, OutputIsWhole
  <2>5. QED
    BY <2>1, <2>2, <2>4, NothingToKeep DEF BuildInv
<1>4. CASE ~(Import \/ OrbisBuild \/ Returned \/ FPKGCrash)
  <2>1. UNCHANGED pkgVars
    BY <1>4 DEF FPKGNext, Build, MkdirTemp, Lstat, Extract, BuildStepFails, BuildReturns,
       VerifyMagic, Publish, StartCopy, EndCopy, Appear, Withdraw, Goto, fpkgVars
  <2>2. BuildInv' /\ step' = step
    BY <2>1, BuildStutters DEF pkgVars
  <2>3. CASE UNCHANGED fpkgVars
    BY <2>2, <2>3 DEF fpkgVars, StageOK, OutputIsWhole
  <2>4. CASE Build \/ MkdirTemp \/ Lstat \/ Extract \/ BuildStepFails \/ BuildReturns
             \/ VerifyMagic
    BY <2>2, <2>4 DEF Build, MkdirTemp, Lstat, Extract, BuildStepFails, BuildReturns,
       VerifyMagic, Goto, StageOK, OutputIsWhole
  <2>5. CASE Publish \/ StartCopy \/ EndCopy \/ Appear \/ Withdraw
    BY <2>2, <2>5 DEF Publish, StartCopy, EndCopy, Appear, Withdraw, StageOK, OutputIsWhole
  <2>6. QED
    BY <1>4, <2>3, <2>4, <2>5 DEF FPKGNext
<1>5. QED
  BY <1>1, <1>2, <1>3, <1>4

\* No build has begun.
LEMMA PackageInit ==
    FPKGInit => BuildInv /\ StageOK
<1> SUFFICES ASSUME FPKGInit
             PROVE  BuildInv /\ StageOK
  OBVIOUS
<1>1. /\ step = "none" /\ next = 1 /\ busy = {} /\ failing = FALSE /\ fpc = "idle"
      /\ work = FALSE /\ output = "absent"
  BY DEF FPKGInit, ImageInit
<1>2. BuildTypeOK
  BY <1>1 DEF BuildTypeOK, PastWrite
<1>3. BlocksAreSigned /\ ChunksAreDigested /\ RegionsAreCovered
  BY <1>1 DEF BlocksAreSigned, ChunksAreDigested, RegionsAreCovered, PastWrite
<1>4. StageOK
  BY <1>1 DEF StageOK, OutputIsWhole
<1>5. QED
  BY <1>2, <1>3, <1>4 DEF BuildInv

----------------------------------------------------------------------------
(* The header of the package.                                               *)

\* The size of an image is that of the tree it is of.
SizeOf(n, t) ==
    \E u \in GameTrees : /\ <<SceSys>> \in u.dirs
                         /\ t = WithKeystone(u) /\ n = Layout(setup(t)).ndblock

TreeIsSized ==
    /\ step \in {"none", "prepare"} => length = 0
    /\ step \notin {"none", "prepare"} => length = 0 \/ SizeOf(length, tree)

\* Only prepare sets the two.
LEMMA SizeInvariance ==
    BuildInv /\ StageOK /\ TreeIsSized /\ (FPKGNext \/ UNCHANGED fpkgVars) => TreeIsSized'
<1> SUFFICES ASSUME BuildInv, StageOK, TreeIsSized, FPKGNext \/ UNCHANGED fpkgVars
             PROVE  TreeIsSized'
  OBVIOUS
<1>1. ASSUME length' = length, tree' = tree,
             step \in {"none", "prepare"} \/ step' \notin {"none", "prepare"}
      PROVE  TreeIsSized'
  <2>1. SizeOf(length, tree) => SizeOf(length, tree)'
    BY <1>1 DEF SizeOf
  <2>2. QED
    BY <1>1, <2>1 DEF TreeIsSized
<1>2. CASE prepare /\ OrbisBuild
  <2>1. step = "prepare" /\ tree \in GameTrees /\ length = 0
    BY <1>2 DEF BuildInv, BuildTypeOK, TreeIsSized, prepare
  <2> DEFINE full == WithKeystone(tree)
             m    == Layout(setup(full)).ndblock
             ok   == buildHeaderAndEntries(full, PfsSize(m)).chunks * ChunkDigest
                     <= buildHeaderAndEntries(full, PfsSize(m)).room
  <2>2. \/ /\ <<SceSys>> \in tree.dirs
           /\ tree' = full /\ length' = m /\ step' = IF ok THEN "write" ELSE "failed"
        \/ step' = "failed" /\ UNCHANGED <<tree, length>>
    BY <1>2 DEF prepare
  <2>3. step' \in {"write", "failed"}
    <3> HIDE DEF full, m, ok
    <3>1. QED
      BY <2>2
  <2>4. CASE <<SceSys>> \in tree.dirs /\ tree' = full /\ length' = m
    <3>1. length' = Layout(setup(tree')).ndblock
      <4> HIDE DEF full
      <4>1. QED
        BY <2>4
    <3>2. SizeOf(length, tree)'
      BY <2>1, <2>4, <3>1 DEF SizeOf
    <3>3. QED
      BY <2>3, <3>2 DEF TreeIsSized
  <2>5. CASE tree' = tree /\ length' = length
    BY <1>1, <2>1, <2>5
  <2>6. QED
    BY <2>2, <2>4, <2>5
<1>3. CASE OrbisBuild /\ ~prepare
  <2>1. \/ BuildFails \/ writeData \/ Take \/ Work \/ WorkFails \/ Joined \/ SignFinal
        \/ FinalDone \/ FinishStep \/ Built
    BY <1>3 DEF OrbisBuild, ImageNext
  <2>2. tree' = tree /\ length' = length
    BY <2>1 DEF BuildFails, writeData, Take, Work, WorkFails, Joined, SignFinal, FinalDone,
       FinishStep, Built, imageVars
  <2>3. step \in {"none", "prepare"} \/ step' \notin {"none", "prepare"}
    <3>1. CASE Take \/ Work \/ WorkFails \/ SignFinal \/ FinishStep
      BY <3>1 DEF Take, Work, WorkFails, SignFinal, FinishStep
    <3>2. CASE BuildFails \/ writeData \/ FinalDone \/ Built
      BY <3>2 DEF BuildFails, writeData, FinalDone, Built
    <3>3. CASE Joined
      BY <3>3 DEF Joined
    <3>4. QED
      BY <2>1, <3>1, <3>2, <3>3
  <2>4. QED
    BY <1>1, <2>2, <2>3
<1>4. CASE Import
  <2>1. step = "none"
    BY <1>4 DEF Import, StageOK
  <2>2. length' = length /\ step' = "prepare"
    BY <1>4 DEF Import
  <2>3. QED
    BY <2>1, <2>2 DEF TreeIsSized
<1>5. CASE Returned \/ FPKGCrash
  <2>1. step' = "none" /\ length' = 0
    BY <1>5 DEF Returned, FPKGCrash, ForgetImage
  <2>2. QED
    BY <2>1 DEF TreeIsSized
<1>6. CASE ~(Import \/ OrbisBuild \/ Returned \/ FPKGCrash)
  <2>1. UNCHANGED pkgVars
    BY <1>6 DEF FPKGNext, Build, MkdirTemp, Lstat, Extract, BuildStepFails, BuildReturns,
       VerifyMagic, Publish, StartCopy, EndCopy, Appear, Withdraw, Goto, fpkgVars
  <2>2. length' = length /\ tree' = tree /\ step' = step
    BY <2>1 DEF pkgVars, imageVars
  <2>3. QED
    BY <1>1, <2>2
<1>7. QED
  BY <1>2, <1>3, <1>4, <1>5, <1>6

\* So the header that prepare computed is that of a package that is small enough.
LEMMA SizedTreesFit ==
    BuildInv /\ TreeIsSized => EntriesFit
<1> SUFFICES ASSUME BuildInv, TreeIsSized, step \in {"write", "failed"}, length > 0
             PROVE  LET hdr == buildHeaderAndEntries(tree, PfsSize(length))
                        e   == hdr.entries
                    IN  /\ \A i \in DOMAIN e :
                              e[i].at + e[i].size <= IF i = Len(e) THEN hdr.image
                                                     ELSE e[i + 1].at
                        /\ hdr.chunks * ChunkDigest <= hdr.room
  BY DEF EntriesFit
<1>1. PICK u \in GameTrees :
         /\ <<SceSys>> \in u.dirs
         /\ tree = WithKeystone(u) /\ length = Layout(setup(tree)).ndblock
  BY DEF TreeIsSized, SizeOf
<1> DEFINE outer == OuterSize(PfscHeader(length) + length)
<1>2. length \in Nat
  BY <1>1, TreesAreTrees
<1>3. outer \in Nat
  <2>1. N \in Nat
    BY <1>2, OuterBlocks
  <2>2. QED
    BY <2>1, IndirectBlocks DEF N
<1>4. PfsSize(length) = outer * ChunkSize
  BY DEF PfsSize
<1>5. SmallEnough(tree, outer)
  <2>1. PfsSize(Layout(setup(WithKeystone(u))).ndblock) = outer * ChunkSize
    BY <1>1, <1>4
  <2>2. QED
    BY <1>1, <2>1, EntriesAssumption DEF SmallEnough
<1> HIDE DEF outer
<1>6. QED
  BY <1>3, <1>4, <1>5, PackageFits

----------------------------------------------------------------------------
(* The sectors of the image.                                                *)

\* Every sector behind the super block that is not of the empty block is encrypted
\* once.
LEMMA EncryptedSectors ==
    ASSUME length \in Nat
    PROVE  /\ Len(xtsSectors) \in Nat /\ DOMAIN xtsSectors = 1 .. Len(xtsSectors)
           /\ SectorCount \in Nat /\ SectorsPerBlock <= SectorCount
           /\ \A i \in DOMAIN xtsSectors :
                 /\ xtsSectors[i] \in SectorsPerBlock .. SectorCount - 1
                 /\ \A j \in DOMAIN xtsSectors : xtsSectors[j] = xtsSectors[i] => j = i
           /\ \A s \in SectorsPerBlock .. SectorCount - 1 :
                 s \in SectorsOf(EmptyBlock) \/ \E i \in DOMAIN xtsSectors : xtsSectors[i] = s
<1> DEFINE S == SectorsPerBlock
           X == SectorCount
           m == X - S - S
           Nth(i) == (IF i <= S + S + S THEN S ELSE S + S) + i - 1
<1>1. S \in Nat \ {0}
  BY PackageAssumption
<1>2. OuterSize(N) \in Nat /\ OuterSize(N) >= 6
  <2>1. N \in Nat
    BY OuterBlocks
  <2>2. QED
    BY <2>1, IndirectBlocks
<1>3. X \in Nat /\ X >= 6 * S /\ (OuterSize(N) - 2) * S = m
  <2> DEFINE o == OuterSize(N)
  <2>1. X = o * S
    BY DEF SectorCount
  <2>2. o \in Nat /\ o >= 6
    BY <1>2
  <2> HIDE DEF S, X, o
  <2>3. o * S \in Nat /\ 6 * S <= o * S
    BY <1>1, <2>2, Multiples
  <2>4. o - 2 \in Int /\ (o - 2) * S + 2 * S = o * S
    <3>1. o = (o - 2) + 2 /\ o - 2 \in Int
      BY <2>2
    <3>2. QED
      BY <1>1, <3>1, Multiples
  <2>5. (o - 2) * S \in Int
    BY <1>1, <2>4, Multiples
  <2>6. QED
    BY <1>1, <2>1, <2>3, <2>4, <2>5 DEF o
<1>4. xtsSectors = [i \in 1 .. m |-> Nth(i)]
  <2>1. (EmptyBlock - 1) * S = S + S + S /\ 2 * S = S + S
    BY <1>1 DEF EmptyBlock
  <2> HIDE DEF m
  <2>2. QED
    BY <1>3, <2>1 DEF xtsSectors
<1>5. SectorsOf(EmptyBlock) = S + S + S + S .. S + S + S + S + S - 1
  <2>1. EmptyBlock * S = S + S + S + S /\ (EmptyBlock + 1) * S = S + S + S + S + S
    BY <1>1 DEF EmptyBlock
  <2> DEFINE x == EmptyBlock * S
             y == (EmptyBlock + 1) * S
  <2>2. SectorsOf(EmptyBlock) = x .. y - 1
    BY DEF SectorsOf
  <2>3. x = S + S + S + S /\ y = S + S + S + S + S
    BY <2>1
  <2> HIDE DEF x, y, S
  <2>4. QED
    BY <1>1, <2>2, <2>3
<1>6. m \in Nat /\ m = X - S - S
  BY <1>1, <1>3
<1> HIDE DEF m, X, S
<1>7. DOMAIN xtsSectors = 1 .. m /\ Len(xtsSectors) = m
  BY <1>4, <1>6
<1>8. \A i \in 1 .. m : xtsSectors[i] = Nth(i)
  BY <1>4
<1>9. \A i \in 1 .. m : Nth(i) \in S .. X - 1
  BY <1>1, <1>3, <1>6
<1>10. \A i, j \in 1 .. m : Nth(i) = Nth(j) => j = i
  BY <1>1, <1>6
<1>11. ASSUME NEW s \in S .. X - 1, s \notin S + S + S + S .. S + S + S + S + S - 1
       PROVE  \E i \in 1 .. m : Nth(i) = s
  <2>1. s \in Int /\ s >= S /\ s <= X - 1
    BY <1>1, <1>3
  <2>2. CASE s < S + S + S + S
    <3> DEFINE i == s - S + 1
    <3>1. i \in 1 .. m /\ i <= S + S + S /\ S + i - 1 = s
      BY <1>1, <1>3, <1>6, <2>1, <2>2
    <3> HIDE DEF i
    <3>2. QED
      BY <3>1
  <2>3. CASE ~(s < S + S + S + S)
    <3> DEFINE i == s - S - S + 1
    <3>1. s >= S + S + S + S + S
      BY <1>1, <1>11, <2>1, <2>3
    <3>2. i \in 1 .. m /\ ~(i <= S + S + S) /\ S + S + i - 1 = s
      BY <1>1, <1>3, <1>6, <2>1, <3>1
    <3> HIDE DEF i
    <3>3. QED
      BY <3>2
  <2>4. QED
    BY <2>2, <2>3
<1> HIDE DEF Nth
<1>12. ASSUME NEW s \in S .. X - 1, s \notin SectorsOf(EmptyBlock)
       PROVE  \E i \in DOMAIN xtsSectors : xtsSectors[i] = s
  BY <1>5, <1>7, <1>8, <1>11, <1>12
<1>13. \A i \in DOMAIN xtsSectors :
          /\ xtsSectors[i] \in S .. X - 1
          /\ \A j \in DOMAIN xtsSectors : xtsSectors[j] = xtsSectors[i] => j = i
  BY <1>7, <1>8, <1>9, <1>10
<1>14. S <= X
  BY <1>1, <1>3
<1>15. QED
  BY <1>3, <1>6, <1>7, <1>12, <1>13, <1>14 DEF S, X

\* So every block but the empty one is encrypted as a reader takes it.
LEMMA BlocksAreDecrypted ==
    ASSUME length \in Nat, NEW b \in 0 .. OuterSize(N) - 1, b # EmptyBlock,
           \A i \in DOMAIN xtsSectors : enc[xtsSectors[i]] = 1,
           \A s \in 0 .. SectorsPerBlock - 1 : enc[s] = 0
    PROVE  Decrypted(b)
<1> DEFINE S == SectorsPerBlock
           X == SectorCount
<1>1. S \in Nat \ {0}
  BY PackageAssumption
<1>2. OuterSize(N) \in Nat
  <2>1. N \in Nat
    BY OuterBlocks
  <2>2. QED
    BY <2>1, IndirectBlocks
<1>3. X \in Nat /\ SectorsOf(b) \subseteq 0 .. X - 1
  <2>1. SectorsOf(b) \subseteq 0 .. OuterSize(N) * S - 1
    BY <1>2, SectorsOfBlocks
  <2>2. QED
    BY <2>1, EncryptedSectors DEF SectorCount
<1>4. ASSUME NEW s \in SectorsOf(b)
      PROVE  s \in Int /\ s \notin SectorsOf(EmptyBlock)
  <2>1. s \in b * S .. (b + 1) * S - 1
    BY DEF SectorsOf
  <2>2. b \in Nat /\ b # 4
    BY DEF EmptyBlock
  <2>3. SectorsOf(EmptyBlock) = 4 * S .. 5 * S - 1
    <3>1. EmptyBlock = 4 /\ EmptyBlock + 1 = 5
      BY DEF EmptyBlock
    <3>2. QED
      BY <3>1 DEF SectorsOf
  <2> DEFINE x == b * S
             y == (b + 1) * S
             v == 4 * S
             w == 5 * S
  <2>4. x \in Nat /\ y \in Nat /\ v \in Nat /\ w \in Nat /\ (y <= v \/ w <= x)
    <3> HIDE DEF S
    <3>1. \A c, d \in Nat : c <= d => c * S <= d * S
      BY <1>1, Multiples
    <3>2. \A c \in Nat : c * S \in Nat
      BY <1>1, Multiples
    <3>3. b + 1 \in Nat /\ 4 \in Nat /\ 5 \in Nat /\ (b + 1 <= 4 \/ 5 <= b)
      BY <2>2
    <3>4. QED
      BY <2>2, <3>1, <3>2, <3>3
  <2>5. s \in x .. y - 1
    BY <2>1
  <2> HIDE DEF x, y, v, w
  <2>6. s \notin v .. w - 1 /\ s \in Int
    BY <2>4, <2>5
  <2>7. QED
    BY <2>3, <2>6 DEF v, w
<1> DEFINE start(s) == IF s < S THEN 0 ELSE 1
<1>5. ASSUME NEW s \in SectorsOf(b)
      PROVE  s < X /\ enc[s] = start(s)
  <2>1. s \in 0 .. X - 1 /\ s \in Int /\ s < X /\ s >= 0
    BY <1>3
  <2> HIDE DEF X
  <2>2. CASE s < S
    <3>1. s \in 0 .. S - 1
      BY <1>1, <2>1, <2>2
    <3>2. QED
      BY <2>1, <2>2, <3>1
  <2>3. CASE ~(s < S)
    <3>1. s \in S .. X - 1
      BY <1>1, <1>3, <2>1, <2>3
    <3>2. PICK i \in DOMAIN xtsSectors : xtsSectors[i] = s
      BY <1>4, <3>1, EncryptedSectors DEF X
    <3>3. QED
      BY <2>1, <2>3, <3>2
  <2>4. QED
    BY <2>2, <2>3
<1>6. QED
  BY <1>5 DEF Decrypted

----------------------------------------------------------------------------
(* The invariant of what is read.                                           *)

\* The blocks of pfs_image.dat are those of the inner image of the tree.
ImageIsWritten ==
    /\ step \in {"write"} \cup PastWrite =>
          IsTree(tree) /\ length = Layout(setup(tree)).ndblock
    /\ step \in PastWrite => DirFits(setup(tree)) /\ image = InnerImage(setup(tree))

\* No block with slots is one of uroot or of the file.
SlotsAreInBlocks ==
    step \in PastWrite =>
        \A a \in DOMAIN slots : a[1] = "block" => a[2] \in IB0 .. UrootBlock(N) - 1

\* The super block stays as it is; a sector that is to be encrypted has been, once,
\* when its worker is done.
SectorsAreEncrypted ==
    /\ step \in PastWrite => \A s \in 0 .. SectorsPerBlock - 1 : enc[s] = 0
    /\ step = "encrypt" =>
          /\ next <= Len(xtsSectors) + 1
          /\ ~failing => \A i \in DOMAIN xtsSectors :
                            enc[xtsSectors[i]] = IF i < next /\ i \notin busy THEN 1 ELSE 0
    /\ step \in {"chunks", "finish", "built"} =>
          \A i \in DOMAIN xtsSectors : enc[xtsSectors[i]] = 1

ReadInv == ImageIsWritten /\ SlotsAreInBlocks /\ SectorsAreEncrypted

\* The slots of signatures that are in a block are in one before uroot.
LEMMA SlotsOfBlocks ==
    ASSUME NEW n \in Nat
    PROVE  /\ \A a \in DOMAIN FirstPointers(n) : a[1] # "block"
           /\ \A i \in DOMAIN dataSigs(n) :
                 dataSigs(n)[i].at[1] = "block" =>
                    dataSigs(n)[i].at[2] \in IB0 .. UrootBlock(n) - 1
           /\ \A i \in DOMAIN finalSigs(n) :
                 finalSigs(n)[i].at[1] = "block" =>
                    finalSigs(n)[i].at[2] \in IB0 .. UrootBlock(n) - 1
<1>1. UrootBlock(n) \in Nat /\ UrootBlock(n) >= 5
  BY IndirectBlocks
<1>2. ASSUME NEW a \in DOMAIN FirstPointers(n)
      PROVE  a[1] # "block"
  <2> DEFINE plain == {Sig(1, Super(1)), Sig(2, Ino(0, 0)), Sig(FptBlock, Ino(1, 0)),
                       Sig(UrootBlock(n), Ino(2, 0)), Sig(UrootBlock(n) + 1, Ino(3, 0))}
             known == plain \cup {x \in Range(finalSigs(n)) : x.at[1] = "inode"}
  <2>1. DOMAIN FirstPointers(n) = {x.at : x \in known}
    BY DEF FirstPointers
  <2>2. \A x \in plain : x.at[1] # "block"
    BY DEF Sig, Super, Ino
  <2> HIDE DEF plain
  <2>3. PICK x \in known : a = x.at
    BY <2>1
  <2>4. x \in plain \/ x.at[1] = "inode"
    OBVIOUS
  <2>5. QED
    BY <2>2, <2>3, <2>4
<1>3. ASSUME NEW i \in DOMAIN dataSigs(n), dataSigs(n)[i].at[1] = "block"
      PROVE  dataSigs(n)[i].at[2] \in IB0 .. UrootBlock(n) - 1
  <2>1. DOMAIN dataSigs(n) = 1 .. n + 1
    BY DataSignatures
  <2>2. i # 1
    <3>1. dataSigs(n)[1] = Sig(UrootBlock(n), Ino(2, 0))
      BY DataSignatures
    <3>2. dataSigs(n)[1].at[1] = "inode"
      BY <3>1 DEF Sig, Ino
    <3>3. QED
      BY <1>3, <3>2
  <2>3. i \in 2 .. n + 1 /\ i - 2 \in 0 .. n - 1
    BY <2>1, <2>2
  <2>4. dataSigs(n)[i].at = FileSlot(i - 2)
    <3>1. dataSigs(n)[i] = Sig(UrootBlock(n) + (i - 1), FileSlot(i - 2))
      BY <2>3, DataSignatures
    <3>2. QED
      BY <3>1 DEF Sig
  <2>5. QED
    BY <1>3, <2>3, <2>4, FileSlots
<1>4. ASSUME NEW i \in DOMAIN finalSigs(n), finalSigs(n)[i].at[1] = "block"
      PROVE  finalSigs(n)[i].at[2] \in IB0 .. UrootBlock(n) - 1
  <2>1. i \in Nat /\ i >= 1 /\ finalSigs(n)[i] = FinalSig(i)
        /\ (i > 6 => IB1 + (i - 6) < UrootBlock(n))
    <3>1. DOMAIN finalSigs(n) = 1 .. Len(finalSigs(n)) /\ Len(finalSigs(n)) \in Nat
      BY FinalSignatures
    <3>2. finalSigs(n)[i] = FinalSig(i) /\ (i > 6 => IB1 + (i - 6) < UrootBlock(n))
      BY FinalSignatures
    <3>3. QED
      BY <3>1, <3>2
  <2>2. i \in 1 .. 6 => FinalSig(i).at[1] # "block"
    <3>1. i \in 1 .. 6 => i \in {1, 2, 3, 4, 5, 6}
      BY <2>1
    <3>2. QED
      BY <3>1 DEF FinalSig, Sig, Super, Ino
  <2>3. i > 6
    BY <1>4, <2>1, <2>2
  <2>4. finalSigs(n)[i].at[2] = IB1
    BY <2>1, <2>3 DEF FinalSig, Sig, Ind
  <2>5. QED
    BY <1>1, <2>1, <2>3, <2>4 DEF IB0, IB1
<1>5. QED
  BY <1>2, <1>3, <1>4

\* What the three parts say as long as what they read stays as it is.
LEMMA ImageIsKept ==
    ASSUME ImageIsWritten, tree' = tree, image' = image, length' = length,
           step' = "write" => step = "write", step' \in PastWrite => step \in PastWrite
    PROVE  ImageIsWritten'
  BY DEF ImageIsWritten

\* Nor does any block of the file get slots.
LEMMA SlotsAreKept ==
    ASSUME SlotsAreInBlocks, slots' = slots, length' = length,
           step' \in PastWrite => step \in PastWrite
    PROVE  SlotsAreInBlocks'
<1>1. UrootBlock(N)' = UrootBlock(N)
  BY DEF N
<1>2. QED
  BY <1>1 DEF SlotsAreInBlocks

\* A step that encrypts nothing leaves the sectors as they are, whatever part of Build
\* it ends.
LEMMA SectorsAreKept ==
    ASSUME SectorsAreEncrypted, enc' = enc, length' = length, step' \in PastWrite,
           \/ step' = step /\ next' = next /\ busy' = busy /\ failing' = failing
           \/ step' = step /\ step # "encrypt"
           \/ step = "sign" /\ step' = "final"
           \/ step = "chunks" /\ step' = "finish"
           \/ step = "finish" /\ step' = "built"
    PROVE  SectorsAreEncrypted'
<1>1. xtsSectors' = xtsSectors
  BY DEF xtsSectors, N
<1>2. step \in PastWrite
  BY DEF PastWrite
<1>3. QED
  BY <1>1, <1>2 DEF SectorsAreEncrypted

\* Before the images are written, and after a failure, nothing is claimed.
LEMMA NothingToRead ==
    ASSUME step' \in {"none", "prepare", "failed"}
    PROVE  ReadInv'
  BY DEF ReadInv, ImageIsWritten, SlotsAreInBlocks, SectorsAreEncrypted, PastWrite

\* prepare: the tree is one of GameTrees with the keystone.
LEMMA PrepareReads ==
    BuildInv /\ ReadInv /\ prepare => ReadInv'
<1> SUFFICES ASSUME BuildInv, ReadInv, prepare
             PROVE  ReadInv'
  OBVIOUS
<1>1. step = "prepare" /\ tree \in GameTrees
  BY DEF BuildInv, BuildTypeOK, prepare
<1> DEFINE full == WithKeystone(tree)
           m    == Layout(setup(full)).ndblock
           hdr  == buildHeaderAndEntries(full, PfsSize(m))
           ok   == hdr.chunks * ChunkDigest <= hdr.room
<1>2. \/ /\ <<SceSys>> \in tree.dirs /\ tree' = full /\ length' = m
         /\ step' = IF ok THEN "write" ELSE "failed"
      \/ step' = "failed"
  BY DEF prepare
<1>3. CASE step' = "failed"
  BY <1>3, NothingToRead
<1>4. CASE <<SceSys>> \in tree.dirs /\ tree' = full /\ length' = m /\ step' = "write"
  <2>1. IsTree(full)
    BY <1>1, <1>4, TreesAreTrees
  <2>2. IsTree(tree') /\ length' = Layout(setup(tree')).ndblock
    <3>1. \A t : t = full => Layout(setup(t)).ndblock = m
      OBVIOUS
    <3> HIDE DEF full, m
    <3>2. QED
      BY <1>4, <2>1, <3>1
  <2>3. ImageIsWritten'
    BY <1>4, <2>2 DEF ImageIsWritten, PastWrite
  <2>4. SlotsAreInBlocks' /\ SectorsAreEncrypted'
    BY <1>4 DEF SlotsAreInBlocks, SectorsAreEncrypted, PastWrite
  <2>5. QED
    BY <2>3, <2>4 DEF ReadInv
<1>5. QED
  <2> HIDE DEF full, m, ok
  <2>1. QED
    BY <1>2, <1>3, <1>4

\* writeData: the image is written, nothing is encrypted, and the first pointers are
\* in the inodes.
LEMMA WriteDataReads ==
    BuildInv /\ ReadInv /\ writeData => ReadInv'
<1> SUFFICES ASSUME BuildInv, ReadInv, writeData
             PROVE  ReadInv'
  OBVIOUS
<1>1. step = "write" /\ tree' = tree /\ length' = length /\ length \in Nat
  BY DEF BuildInv, BuildTypeOK, writeData
<1>2. N \in Nat /\ N' = N
  BY <1>1, OuterBlocks DEF N
<1>3. CASE ~DirFits(setup(tree))
  <2>1. step' = "failed"
    BY <1>3 DEF writeData
  <2>2. QED
    BY <2>1, NothingToRead
<1>4. CASE DirFits(setup(tree))
  <2>1. /\ image' = InnerImage(setup(tree)) /\ slots' = FirstPointers(N)
        /\ enc' = [s \in 0 .. SectorCount - 1 |-> 0] /\ step' = "sign"
    BY <1>4 DEF writeData
  <2>2. ImageIsWritten'
    BY <1>1, <1>4, <2>1 DEF ReadInv, ImageIsWritten, PastWrite
  <2>3. SlotsAreInBlocks'
    <3>1. \A a \in DOMAIN slots' : a[1] # "block"
      BY <1>2, <2>1, SlotsOfBlocks
    <3>2. QED
      BY <3>1 DEF SlotsAreInBlocks
  <2>4. SectorsAreEncrypted'
    <3>1. SectorsPerBlock \in Nat /\ SectorCount \in Nat /\ SectorsPerBlock <= SectorCount
      BY <1>1, EncryptedSectors, PackageAssumption
    <3>2. \A s \in 0 .. SectorsPerBlock - 1 : s \in 0 .. SectorCount - 1
      BY <3>1
    <3>3. \A s \in 0 .. SectorsPerBlock - 1 : enc'[s] = 0
      BY <2>1, <3>2
    <3>4. QED
      BY <2>1, <3>3 DEF SectorsAreEncrypted
  <2>5. QED
    BY <2>2, <2>3, <2>4 DEF ReadInv
<1>5. QED
  BY <1>3, <1>4

\* A worker gets the next index: its sector is not encrypted yet.
LEMMA TakeReads ==
    BuildInv /\ ReadInv /\ Take => ReadInv'
<1> SUFFICES ASSUME BuildInv, ReadInv, Take
             PROVE  ReadInv'
  OBVIOUS
<1>1. /\ next <= Count /\ ~failing /\ busy' = busy \cup {next} /\ next' = next + 1
      /\ step' = step /\ length' = length /\ tree' = tree /\ image' = image
      /\ slots' = slots /\ enc' = enc /\ failing' = failing
  BY DEF Take, imageVars, sealVars
<1>2. /\ step \in {"sign", "encrypt", "chunks"} /\ step \in PastWrite
      /\ next \in Nat /\ length \in Nat
  BY <1>1 DEF BuildInv, BuildTypeOK, Count, PastWrite
<1>3. ImageIsWritten' /\ SlotsAreInBlocks'
  BY <1>1, ImageIsKept, SlotsAreKept DEF ReadInv
<1>4. CASE step # "encrypt"
  <2>1. SectorsAreEncrypted'
    BY <1>1, <1>2, <1>4, SectorsAreKept DEF ReadInv
  <2>2. QED
    BY <1>3, <2>1 DEF ReadInv
<1>5. CASE step = "encrypt"
  <2>1. next <= Len(xtsSectors) /\ Len(xtsSectors) \in Nat
        /\ DOMAIN xtsSectors = 1 .. Len(xtsSectors)
    BY <1>1, <1>2, <1>5, EncryptedSectors DEF Count
  <2>2. xtsSectors' = xtsSectors
    BY <1>1 DEF xtsSectors, N
  <2>3. \A i \in DOMAIN xtsSectors : (i < next' /\ i \notin busy') <=> (i < next /\ i \notin busy)
    BY <1>1, <1>2, <2>1
  <2>4. next' <= Len(xtsSectors) + 1
    BY <1>1, <1>2, <2>1
  <2>5. SectorsAreEncrypted'
    BY <1>1, <1>2, <1>5, <2>2, <2>3, <2>4 DEF ReadInv, SectorsAreEncrypted
  <2>6. QED
    BY <1>3, <2>5 DEF ReadInv
<1>6. QED
  BY <1>4, <1>5

\* A signature goes into a slot before uroot.
LEMMA SignReads ==
    ASSUME NEW sig, sign(sig), SlotsAreInBlocks, length' = length, step' = step,
           step \in PastWrite,
           sig.at[1] = "block" => sig.at[2] \in IB0 .. UrootBlock(N) - 1
    PROVE  enc' = enc /\ SlotsAreInBlocks'
<1>1. slots' = [a \in DOMAIN slots \cup {sig.at} |->
                   IF a = sig.at THEN [block |-> sig.block, over |-> Block(sig.block)]
                   ELSE slots[a]]
      /\ enc' = enc
  BY DEF sign
<1>2. DOMAIN slots' = DOMAIN slots \cup {sig.at}
  BY <1>1
<1>3. UrootBlock(N)' = UrootBlock(N)
  BY DEF N
<1>4. QED
  BY <1>1, <1>2, <1>3 DEF SlotsAreInBlocks

\* A worker is done.
LEMMA WorkReads ==
    BuildInv /\ ReadInv /\ Work => ReadInv'
<1> SUFFICES ASSUME BuildInv, ReadInv, Work
             PROVE  ReadInv'
  OBVIOUS
<1>1. PICK k \in busy :
        /\ busy' = busy \ {k}
        /\ \/ step = "sign"    /\ sign(dataSigs(N)[k])
           \/ step = "encrypt" /\ encrypt(xtsSectors[k])
           \/ step = "chunks"  /\ chunkDigest(k - 1)
        /\ UNCHANGED <<step, imageVars, next, failing>>
  BY DEF Work
<1>2. /\ step' = step /\ length' = length /\ tree' = tree /\ image' = image /\ next' = next
      /\ failing' = failing
  BY <1>1 DEF imageVars
<1>3. /\ step \in {"sign", "encrypt", "chunks"} /\ step \in PastWrite
      /\ next \in Nat /\ busy \subseteq 1 .. next - 1 /\ k \in 1 .. next - 1
      /\ length \in Nat
  BY <1>1 DEF BuildInv, BuildTypeOK, PastWrite
<1>4. N \in Nat
  BY <1>3, OuterBlocks
<1>5. ImageIsWritten'
  BY <1>2, ImageIsKept DEF ReadInv
<1>6. CASE step = "sign"
  <2>1. DOMAIN dataSigs(N) = 1 .. N + 1 /\ next <= N + 2
    BY <1>4, <1>6, DataSignatures DEF BuildInv, BlocksAreSigned
  <2>2. k \in DOMAIN dataSigs(N)
    BY <1>3, <1>4, <2>1
  <2>3. sign(dataSigs(N)[k])
    BY <1>1, <1>6
  <2>4. dataSigs(N)[k].at[1] = "block" =>
           dataSigs(N)[k].at[2] \in IB0 .. UrootBlock(N) - 1
    BY <1>4, <2>2, SlotsOfBlocks
  <2>5. enc' = enc /\ SlotsAreInBlocks'
    BY <1>2, <1>3, <2>3, <2>4, SignReads DEF ReadInv
  <2>6. SectorsAreEncrypted'
    BY <1>2, <1>3, <1>6, <2>5, SectorsAreKept DEF ReadInv
  <2>7. QED
    BY <1>5, <2>5, <2>6 DEF ReadInv
<1>7. CASE step = "encrypt"
  <2>1. enc' = [enc EXCEPT ![xtsSectors[k]] = @ + 1] /\ slots' = slots
    BY <1>1, <1>7 DEF encrypt
  <2>2. /\ Len(xtsSectors) \in Nat /\ DOMAIN xtsSectors = 1 .. Len(xtsSectors)
        /\ SectorCount \in Nat
        /\ \A i \in DOMAIN xtsSectors :
              /\ xtsSectors[i] \in SectorsPerBlock .. SectorCount - 1
              /\ \A j \in DOMAIN xtsSectors : xtsSectors[j] = xtsSectors[i] => j = i
    BY <1>3, EncryptedSectors
  <2>3. xtsSectors' = xtsSectors
    BY <1>2 DEF xtsSectors, N
  <2> DEFINE x == xtsSectors
  <2>4. next <= Len(x) + 1 /\ k \in DOMAIN x /\ k < next
    <3>1. next <= Len(x) + 1
      BY <1>7 DEF ReadInv, SectorsAreEncrypted
    <3>2. QED
      BY <1>3, <2>2, <3>1
  <2>5. SlotsAreInBlocks'
    BY <1>2, <2>1, SlotsAreKept DEF ReadInv
  <2>6. DOMAIN enc = 0 .. SectorCount - 1 /\ SectorsPerBlock \in Nat \ {0}
    BY <1>3, PackageAssumption DEF BuildInv, BuildTypeOK
  <2> HIDE DEF x
  <2>7. \A s \in 0 .. SectorsPerBlock - 1 : enc'[s] = 0
    <3> TAKE s \in 0 .. SectorsPerBlock - 1
    <3>1. x[k] \in SectorsPerBlock .. SectorCount - 1
      BY <2>2, <2>4 DEF x
    <3>2. x[k] # s
      BY <2>2, <2>6, <3>1
    <3>3. enc'[s] = enc[s]
      BY <2>1, <2>6, <3>2 DEF x
    <3>4. QED
      BY <1>3, <3>3 DEF ReadInv, SectorsAreEncrypted
  <2>8. ASSUME ~failing, NEW i \in DOMAIN x
        PROVE  enc'[x[i]] = IF i < next /\ i \notin busy' THEN 1 ELSE 0
    <3>1. \A j \in DOMAIN x : enc[x[j]] = IF j < next /\ j \notin busy THEN 1 ELSE 0
      BY <1>7, <2>8 DEF ReadInv, SectorsAreEncrypted, x
    <3>2. x[k] \in DOMAIN enc
      <4>1. x[k] \in SectorsPerBlock .. SectorCount - 1
        BY <2>2, <2>4 DEF x
      <4>2. QED
        BY <2>2, <2>6, <4>1
    <3>3. CASE i = k
      <4>1. enc[x[k]] = 0
        BY <2>4, <3>1
      <4>2. enc'[x[k]] = 1
        BY <2>1, <3>2, <4>1 DEF x
      <4>3. QED
        BY <1>1, <2>4, <3>3, <4>2
    <3>4. CASE i # k
      <4>1. x[i] # x[k]
        BY <2>2, <2>4, <3>4 DEF x
      <4>2. enc'[x[i]] = enc[x[i]]
        <5>1. x[i] \in DOMAIN enc
          <6>1. x[i] \in SectorsPerBlock .. SectorCount - 1
            BY <2>2 DEF x
          <6>2. QED
            BY <2>2, <2>6, <6>1
        <5>2. QED
          BY <2>1, <4>1, <5>1 DEF x
      <4>3. i \notin busy' <=> i \notin busy
        BY <1>1, <3>4
      <4>4. QED
        BY <3>1, <4>2, <4>3
    <3>5. QED
      BY <3>3, <3>4
  <2>9. SectorsAreEncrypted'
    BY <1>2, <1>7, <2>3, <2>4, <2>7, <2>8 DEF SectorsAreEncrypted, x
  <2>10. QED
    BY <1>5, <2>5, <2>9 DEF ReadInv
<1>8. CASE step = "chunks"
  <2>1. slots' = slots /\ enc' = enc
    BY <1>1, <1>8 DEF chunkDigest
  <2>2. SlotsAreInBlocks' /\ SectorsAreEncrypted'
    BY <1>2, <1>3, <1>8, <2>1, SlotsAreKept, SectorsAreKept DEF ReadInv
  <2>3. QED
    BY <1>5, <2>2 DEF ReadInv
<1>9. QED
  BY <1>3, <1>6, <1>7, <1>8

\* After an error nobody asks how many sectors are encrypted.
LEMMA WorkFailsReads ==
    BuildInv /\ ReadInv /\ WorkFails => ReadInv'
<1> SUFFICES ASSUME BuildInv, ReadInv, WorkFails
             PROVE  ReadInv'
  OBVIOUS
<1>1. PICK k \in busy :
        /\ busy' = busy \ {k} /\ failing' = TRUE
        /\ UNCHANGED <<step, imageVars, sealVars, next>>
  BY DEF WorkFails
<1>2. /\ step' = step /\ length' = length /\ tree' = tree /\ image' = image /\ next' = next
      /\ slots' = slots /\ enc' = enc /\ failing' = TRUE
  BY <1>1 DEF imageVars, sealVars
<1>3. ImageIsWritten' /\ SlotsAreInBlocks'
  BY <1>2, ImageIsKept, SlotsAreKept DEF ReadInv
<1>4. xtsSectors' = xtsSectors
  BY <1>2 DEF xtsSectors, N
<1>5. SectorsAreEncrypted'
  BY <1>2, <1>4 DEF ReadInv, SectorsAreEncrypted
<1>6. QED
  BY <1>3, <1>5 DEF ReadInv

\* The workers have returned: when nobody had an error, every sector is encrypted.
LEMMA JoinedReads ==
    BuildInv /\ ReadInv /\ Joined => ReadInv'
<1> SUFFICES ASSUME BuildInv, ReadInv, Joined
             PROVE  ReadInv'
  OBVIOUS
<1>1. /\ step \in {"sign", "encrypt", "chunks"} /\ step \in PastWrite
      /\ busy = {} /\ (failing \/ next > Count)
      /\ length' = length /\ tree' = tree /\ image' = image /\ slots' = slots /\ enc' = enc
      /\ length \in Nat /\ next \in Nat
  BY DEF Joined, imageVars, BuildInv, BuildTypeOK, PastWrite
<1>2. CASE failing
  <2>1. step' = "failed"
    BY <1>2 DEF Joined
  <2>2. QED
    BY <2>1, NothingToRead
<1>3. CASE ~failing
  <2>1. /\ step = "sign" => step' = "final"
        /\ step = "encrypt" => step' = "chunks"
        /\ step = "chunks" => step' = "finish"
    BY <1>3 DEF Joined
  <2>2. step' \in {"final", "chunks", "finish"} /\ step' \in PastWrite
    BY <1>1, <2>1 DEF PastWrite
  <2>3. ImageIsWritten' /\ SlotsAreInBlocks'
    BY <1>1, <2>2, ImageIsKept, SlotsAreKept DEF ReadInv
  <2>4. CASE step # "encrypt"
    <3>1. SectorsAreEncrypted'
      BY <1>1, <2>1, <2>2, <2>4, SectorsAreKept DEF ReadInv
    <3>2. QED
      BY <2>3, <3>1 DEF ReadInv
  <2>5. CASE step = "encrypt"
    <3>1. xtsSectors' = xtsSectors
      BY <1>1 DEF xtsSectors, N
    <3>2. Len(xtsSectors) \in Nat /\ DOMAIN xtsSectors = 1 .. Len(xtsSectors)
      BY <1>1, EncryptedSectors
    <3>3. next > Len(xtsSectors)
      BY <1>1, <1>3, <2>5 DEF Count
    <3>4. \A i \in DOMAIN xtsSectors : i < next /\ i \notin busy
      BY <1>1, <3>2, <3>3
    <3>5. \A i \in DOMAIN xtsSectors : enc[xtsSectors[i]] = 1
      BY <1>3, <2>5, <3>4 DEF ReadInv, SectorsAreEncrypted
    <3>6. SectorsAreEncrypted'
      BY <1>1, <2>1, <2>5, <3>1, <3>5 DEF ReadInv, SectorsAreEncrypted
    <3>7. QED
      BY <2>3, <3>6 DEF ReadInv
  <2>6. QED
    BY <2>4, <2>5
<1>4. QED
  BY <1>2, <1>3

\* Nor does a final signature go into uroot or the file.
LEMMA SignFinalReads ==
    BuildInv /\ ReadInv /\ SignFinal => ReadInv'
<1> SUFFICES ASSUME BuildInv, ReadInv, SignFinal
             PROVE  ReadInv'
  OBVIOUS
<1>1. /\ step = "final" /\ step' = step /\ next <= Len(finalSigs(N))
      /\ length' = length /\ tree' = tree /\ image' = image
      /\ sign(finalSigs(N)[Len(finalSigs(N)) - next + 1])
      /\ length \in Nat /\ next \in Nat \ {0} /\ step \in PastWrite
  BY DEF SignFinal, imageVars, BuildInv, BuildTypeOK, PastWrite
<1> DEFINE i == Len(finalSigs(N)) - next + 1
<1>2. N \in Nat
  BY <1>1, OuterBlocks
<1>3. i \in DOMAIN finalSigs(N)
  <2>1. Len(finalSigs(N)) \in Nat /\ DOMAIN finalSigs(N) = 1 .. Len(finalSigs(N))
    BY <1>2, FinalSignatures
  <2>2. QED
    BY <1>1, <2>1
<1>4. sign(finalSigs(N)[i])
  BY <1>1
<1> HIDE DEF i
<1>5. enc' = enc /\ SlotsAreInBlocks'
  <2>1. finalSigs(N)[i].at[1] = "block" =>
           finalSigs(N)[i].at[2] \in IB0 .. UrootBlock(N) - 1
    BY <1>2, <1>3, SlotsOfBlocks
  <2>2. QED
    BY <1>1, <1>4, <2>1, SignReads DEF ReadInv
<1>6. ImageIsWritten' /\ SectorsAreEncrypted'
  BY <1>1, <1>5, ImageIsKept, SectorsAreKept DEF ReadInv
<1>7. QED
  BY <1>5, <1>6 DEF ReadInv

\* Everything is signed and nothing is encrypted.
LEMMA FinalDoneReads ==
    BuildInv /\ ReadInv /\ FinalDone => ReadInv'
<1> SUFFICES ASSUME BuildInv, ReadInv, FinalDone
             PROVE  ReadInv'
  OBVIOUS
<1>1. /\ step = "final" /\ step' = "encrypt" /\ next' = 1
      /\ length' = length /\ tree' = tree /\ image' = image /\ slots' = slots
      /\ enc' = enc /\ busy' = busy /\ failing' = failing
  BY DEF FinalDone, imageVars, sealVars
<1>2. /\ length \in Nat /\ step \in PastWrite
      /\ DOMAIN enc = 0 .. SectorCount - 1 /\ \A s \in DOMAIN enc : enc[s] = 0
  BY <1>1 DEF BuildInv, BuildTypeOK, PastWrite
<1>3. ImageIsWritten' /\ SlotsAreInBlocks'
  BY <1>1, <1>2, ImageIsKept, SlotsAreKept DEF ReadInv
<1>4. xtsSectors' = xtsSectors
  BY <1>1 DEF xtsSectors, N
<1>5. /\ Len(xtsSectors) \in Nat /\ DOMAIN xtsSectors = 1 .. Len(xtsSectors)
      /\ \A i \in DOMAIN xtsSectors : xtsSectors[i] \in SectorsPerBlock .. SectorCount - 1
      /\ SectorsPerBlock \in Nat /\ SectorCount \in Nat
  BY <1>2, EncryptedSectors, PackageAssumption
<1>6. \A i \in DOMAIN xtsSectors : enc[xtsSectors[i]] = 0 /\ ~(i < 1)
  <2> TAKE i \in DOMAIN xtsSectors
  <2>1. xtsSectors[i] \in 0 .. SectorCount - 1
    <3>1. xtsSectors[i] \in SectorsPerBlock .. SectorCount - 1
      BY <1>5
    <3>2. QED
      BY <1>5, <3>1
  <2>2. QED
    BY <1>2, <1>5, <2>1
<1>7. 1 <= Len(xtsSectors) + 1
  BY <1>5
<1>8. SectorsAreEncrypted'
  BY <1>1, <1>2, <1>4, <1>6, <1>7 DEF ReadInv, SectorsAreEncrypted
<1>9. QED
  BY <1>3, <1>8 DEF ReadInv

\* The other steps of Build change nothing of it.
LEMMA OtherReads ==
    ReadInv /\ (BuildFails \/ FinishStep \/ Built) => ReadInv'
<1> SUFFICES ASSUME ReadInv, BuildFails \/ FinishStep \/ Built
             PROVE  ReadInv'
  OBVIOUS
<1>1. CASE BuildFails
  <2>1. step' = "failed"
    BY <1>1 DEF BuildFails
  <2>2. QED
    BY <2>1, NothingToRead
<1>2. CASE FinishStep \/ Built
  <2>1. /\ step = "finish" /\ step' \in {"finish", "built"} /\ length' = length
        /\ tree' = tree /\ image' = image /\ slots' = slots /\ enc' = enc
    BY <1>2 DEF FinishStep, Built, imageVars, sealVars
  <2>2. step \in PastWrite /\ step' \in PastWrite
    BY <2>1 DEF PastWrite
  <2>3. ImageIsWritten' /\ SlotsAreInBlocks' /\ SectorsAreEncrypted'
    BY <2>1, <2>2, ImageIsKept, SlotsAreKept, SectorsAreKept DEF ReadInv
  <2>4. QED
    BY <2>3 DEF ReadInv
<1>3. QED
  BY <1>1, <1>2

\* What can be read of a package that is being built, whatever step is taken.
LEMMA ReadInvariance ==
    BuildInv /\ ReadInv /\ (FPKGNext \/ UNCHANGED fpkgVars) => ReadInv'
<1> SUFFICES ASSUME BuildInv, ReadInv, FPKGNext \/ UNCHANGED fpkgVars
             PROVE  ReadInv'
  OBVIOUS
<1>1. CASE OrbisBuild
  BY <1>1, PrepareReads, WriteDataReads, TakeReads, WorkReads, WorkFailsReads, JoinedReads,
     SignFinalReads, FinalDoneReads, OtherReads DEF OrbisBuild, ImageNext
<1>2. CASE Import
  <2>1. step' = "prepare"
    BY <1>2 DEF Import
  <2>2. QED
    BY <2>1, NothingToRead
<1>3. CASE Returned \/ FPKGCrash
  <2>1. step' = "none"
    BY <1>3 DEF Returned, FPKGCrash, ForgetImage
  <2>2. QED
    BY <2>1, NothingToRead
<1>4. CASE ~(Import \/ OrbisBuild \/ Returned \/ FPKGCrash)
  <2>1. UNCHANGED pkgVars
    BY <1>4 DEF FPKGNext, Build, MkdirTemp, Lstat, Extract, BuildStepFails, BuildReturns,
       VerifyMagic, Publish, StartCopy, EndCopy, Appear, Withdraw, Goto, fpkgVars
  <2>2. /\ step' = step /\ tree' = tree /\ image' = image /\ length' = length
        /\ slots' = slots /\ enc' = enc /\ next' = next /\ busy' = busy /\ failing' = failing
    BY <2>1 DEF pkgVars, imageVars, sealVars, loopVars
  <2>3. ImageIsWritten' /\ SlotsAreInBlocks'
    BY <2>2, ImageIsKept, SlotsAreKept DEF ReadInv
  <2>4. CASE step \in PastWrite
    <3>1. SectorsAreEncrypted'
      BY <2>2, <2>4, SectorsAreKept DEF ReadInv
    <3>2. QED
      BY <2>3, <3>1 DEF ReadInv
  <2>5. CASE step \notin PastWrite
    <3>1. SectorsAreEncrypted'
      BY <2>2, <2>5 DEF SectorsAreEncrypted, PastWrite
    <3>2. QED
      BY <2>3, <3>1 DEF ReadInv
  <2>6. QED
    BY <2>4, <2>5
<1>5. QED
  BY <1>1, <1>2, <1>3, <1>4

----------------------------------------------------------------------------
(* The outer image.                                                         *)

RootEntries  == <<Dirent("file", 1, flat_path_table), Dirent("dir", 2, uroot)>>
UrootEntries == <<Dirent("dot", 2, 0), Dirent("dotdot", 2, 0),
                  Dirent("file", 3, pfs_image_dat)>>
\* The k-th block of pfs_image.dat.
ImageBlock(k) == IF k <= PfscHeader(length) THEN [pfsc |-> length, nth |-> k]
                 ELSE image[k - PfscHeader(length) - 1]
HasOuter(img) ==
    LET node(blocks) == [blocks |-> blocks]
    IN  /\ DOMAIN img = 0 .. OuterSize(N) - 1
        /\ img[1] = [ino |-> <<node(1), node(1), node(1), node(N)>>]
        /\ img[2] = [dir |-> Chain(RootEntries), nth |-> 1]
        /\ img[UrootBlock(N)] = [dir |-> Chain(UrootEntries), nth |-> 1]
        /\ \A k \in 1 .. N : img[UrootBlock(N) + k] = ImageBlock(k)

\* The container has a header.
LEMMA HeaderBlocks ==
    ASSUME length \in Nat
    PROVE  /\ PfscHeader(length) \in Nat /\ PfscHeader(length) >= 1
           /\ N \in Nat /\ N = PfscHeader(length) + length
<1>1. BlockSize \in Nat \ {0} /\ PfscHead \in Nat /\ PfscHead < BlockSize
  BY PFSAssumption
<1> DEFINE table == length + 1 - (BlockSize - PfscHead)
<1>2. CASE table > 0
  <2>1. table \in Nat /\ 0 < table
    BY <1>1, <1>2
  <2>2. BlocksOf(table) \in Nat
    BY <1>1, <2>1, QuotientBound DEF BlocksOf
  <2>3. PfscHeader(length) = 1 + BlocksOf(table)
    BY <1>2 DEF PfscHeader
  <2> HIDE DEF table
  <2>4. QED
    BY <2>2, <2>3 DEF N
<1>3. CASE ~(table > 0)
  BY <1>3 DEF N, PfscHeader
<1>4. QED
  BY <1>2, <1>3

\* What the outer image has in its blocks.
LEMMA OuterContents ==
    ASSUME length \in Nat
    PROVE  HasOuter(OuterImage)
<1> DEFINE u == UrootBlock(N)
           m == OuterSize(N)
           node(blocks) == [blocks |-> blocks]
           A == <<SuperBlock(OuterInodes, 1)>>
           B == <<[ino |-> <<node(1), node(1), node(1), node(N)>>]>>
           C == <<[dir |-> Chain(RootEntries), nth |-> 1]>>
           D == <<EntryBlock("table", {[at |-> 0, inode |-> 3]}, 1, 1)>>
           E == <<[dir |-> Chain(UrootEntries), nth |-> 1]>>
           F == [k \in 1 .. N |-> ImageBlock(k)]
           x == <<Extent(0, A), Extent(1, B), Extent(2, C), Extent(FptBlock, D),
                  Extent(u, E), Extent(u + 1, F)>>
<1>1. N \in Nat /\ u \in Nat /\ u >= 5 /\ m = u + 1 + N /\ m \in Nat
  BY HeaderBlocks, IndirectBlocks
<1>2. OuterImage = Written(m, x)
  BY DEF OuterImage, RootEntries, UrootEntries, ImageBlock
<1>3. /\ DOMAIN A = {1} /\ DOMAIN B = {1} /\ DOMAIN C = {1} /\ DOMAIN D = {1} /\ DOMAIN E = {1}
      /\ DOMAIN F = 1 .. N
  <2>1. \A y : DOMAIN <<y>> = {1}
    OBVIOUS
  <2>2. QED
    BY <2>1
<1>4. /\ B[1] = [ino |-> <<node(1), node(1), node(1), node(N)>>]
      /\ C[1] = [dir |-> Chain(RootEntries), nth |-> 1]
      /\ E[1] = [dir |-> Chain(UrootEntries), nth |-> 1]
      /\ \A k \in 1 .. N : F[k] = ImageBlock(k)
  OBVIOUS
<1> HIDE DEF u, m, A, B, C, D, E, F
<1>5. /\ x[1] = Extent(0, A) /\ x[2] = Extent(1, B) /\ x[3] = Extent(2, C)
      /\ x[4] = Extent(FptBlock, D) /\ x[5] = Extent(u, E) /\ x[6] = Extent(u + 1, F)
      /\ IsList(x, 6)
  <2>1. IsList(x, 6)
    <3>1. x = [i \in 1 .. 6 |-> x[i]]
      OBVIOUS
    <3> HIDE DEF x
    <3>2. QED
      BY <3>1 DEF IsList
  <2>2. QED
    BY <2>1
<1> HIDE DEF x
<1>6. /\ x[1].at = 0 /\ x[2].at = 1 /\ x[3].at = 2 /\ x[4].at = 3 /\ x[5].at = u
      /\ x[6].at = u + 1
      /\ x[1].contents = A /\ x[2].contents = B /\ x[3].contents = C /\ x[4].contents = D
      /\ x[5].contents = E /\ x[6].contents = F
  BY <1>5 DEF Extent, FptBlock
<1>7. \A j \in 1 .. 6 : j = 1 \/ j = 2 \/ j = 3 \/ j = 4 \/ j = 5 \/ j = 6
  OBVIOUS
<1>8. \A j \in 1 .. 6 : x[j].at \in Nat /\ DOMAIN x[j].contents \subseteq Nat \ {0}
  <2>1. 1 .. N \subseteq Nat \ {0} /\ {1} \subseteq Nat \ {0} /\ u + 1 \in Nat
    BY <1>1
  <2>2. \A j \in 1 .. 6 : x[j].at \in Nat
    BY <1>1, <1>6, <1>7, <2>1
  <2>3. /\ DOMAIN A \subseteq Nat \ {0} /\ DOMAIN B \subseteq Nat \ {0}
        /\ DOMAIN C \subseteq Nat \ {0} /\ DOMAIN D \subseteq Nat \ {0}
        /\ DOMAIN E \subseteq Nat \ {0} /\ DOMAIN F \subseteq Nat \ {0}
    BY <1>3, <2>1
  <2>4. \A j \in 1 .. 6 : x[j].contents \in {A, B, C, D, E, F}
    BY <1>6, <1>7
  <2>5. \A j \in 1 .. 6 : DOMAIN x[j].contents \subseteq Nat \ {0}
    BY <2>3, <2>4
  <2>6. QED
    BY <2>2, <2>5
<1>9. ASSUME NEW k \in 0 .. m - 1, NEW i \in 1 .. 6, NEW l \in DOMAIN x[i].contents,
             k = x[i].at + l - 1, \A j \in 1 .. 6 : i < j => k < x[j].at
      PROVE  OuterImage[k] = x[i].contents[l]
  <2> DEFINE c == 6
  <2>1. IsList(x, c) /\ i \in 1 .. c
    BY <1>5
  <2>2. /\ \A j \in 1 .. c : x[j].at \in Nat /\ DOMAIN x[j].contents \subseteq Nat \ {0}
        /\ \A j \in 1 .. c : i < j => k < x[j].at
    BY <1>8, <1>9
  <2>3. m \in Nat
    BY <1>1
  <2> HIDE DEF c
  <2>4. Written(m, x)[k] = x[i].contents[l]
    BY <1>9, <2>1, <2>2, <2>3, WrittenHere
  <2>5. QED
    BY <1>2, <2>4
<1>10. OuterImage[1] = B[1]
  <2>1. 1 \in 0 .. m - 1 /\ 2 \in 1 .. 6 /\ 1 \in DOMAIN x[2].contents /\ 1 = x[2].at + 1 - 1
    BY <1>1, <1>3, <1>6
  <2>2. \A j \in 1 .. 6 : 2 < j => 1 < x[j].at
    BY <1>1, <1>6, <1>7
  <2>3. OuterImage[1] = x[2].contents[1]
    BY <1>9, <2>1, <2>2
  <2>4. QED
    BY <1>6, <2>3
<1>11. OuterImage[2] = C[1]
  <2>1. 2 \in 0 .. m - 1 /\ 3 \in 1 .. 6 /\ 1 \in DOMAIN x[3].contents /\ 2 = x[3].at + 1 - 1
    BY <1>1, <1>3, <1>6
  <2>2. \A j \in 1 .. 6 : 3 < j => 2 < x[j].at
    BY <1>1, <1>6, <1>7
  <2>3. OuterImage[2] = x[3].contents[1]
    BY <1>9, <2>1, <2>2
  <2>4. QED
    BY <1>6, <2>3
<1>12. OuterImage[u] = E[1]
  <2>1. u \in 0 .. m - 1 /\ 5 \in 1 .. 6 /\ 1 \in DOMAIN x[5].contents /\ u = x[5].at + 1 - 1
    BY <1>1, <1>3, <1>6
  <2>2. \A j \in 1 .. 6 : 5 < j => u < x[j].at
    BY <1>1, <1>6, <1>7
  <2>3. OuterImage[u] = x[5].contents[1]
    BY <1>9, <2>1, <2>2
  <2>4. QED
    BY <1>6, <2>3
<1>13. ASSUME NEW k \in 1 .. N
       PROVE  OuterImage[u + k] = ImageBlock(k)
  <2>1. u + k \in 0 .. m - 1 /\ 6 \in 1 .. 6 /\ k \in DOMAIN x[6].contents
        /\ u + k = x[6].at + k - 1
    BY <1>1, <1>3, <1>6, SMTT(30)
  <2>2. \A j \in 1 .. 6 : 6 < j => u + k < x[j].at
    OBVIOUS
  <2>3. OuterImage[u + k] = x[6].contents[k]
    BY <1>9, <2>1, <2>2
  <2>4. QED
    BY <1>4, <1>6, <2>3
<1>14. DOMAIN OuterImage = 0 .. m - 1
  BY <1>2 DEF Written
<1>15. QED
  BY <1>4, <1>10, <1>11, <1>12, <1>13, <1>14 DEF HasOuter, u, m

\* Its directories.
LEMMA OuterDirectories ==
    /\ {e.number : e \in {x \in ParseBlock([dir |-> Chain(RootEntries), nth |-> 1]) :
                             x.name = uroot}} = {2}
    /\ {e.number : e \in {x \in ParseBlock([dir |-> Chain(UrootEntries), nth |-> 1]) :
                             x.name = pfs_image_dat}} = {3}
<1>1. /\ EntSize[flat_path_table] \in Nat /\ EntSize[flat_path_table] > 0
      /\ EntSize[collision_resolver] \in Nat
      /\ EntSize[uroot] \in Nat /\ EntSize[uroot] > 0
      /\ EntSize[pfs_image_dat] \in Nat /\ EntSize[pfs_image_dat] > 0
      /\ EntSize[flat_path_table] + EntSize[collision_resolver] + EntSize[uroot] <= BlockSize
      /\ DotSize + DotSize + EntSize[pfs_image_dat] <= BlockSize
      /\ DotSize \in Nat /\ DotSize > 0 /\ BlockSize \in Nat
  <2>1. \A name \in DOMAIN EntSize : EntSize[name] \in Nat /\ EntSize[name] > 0
    BY PFSAssumption, Amounts
  <2>2. QED
    BY <2>1, PFSAssumption
<1>2. ParseBlock([dir |-> Chain(RootEntries), nth |-> 1])
      = {Dirent("file", 1, flat_path_table), Dirent("dir", 2, uroot)}
  <2> DEFINE e == RootEntries
             A == Dirent("file", 1, flat_path_table)
             C == Dirent("dir", 2, uroot)
             a == EntSize[flat_path_table]
             c == EntSize[uroot]
             z == entSizes(e)
  <2>1. entSize(A) = a /\ entSize(C) = c
    BY DEF entSize, Dirent
  <2>2. e = <<A, C>>
    BY DEF RootEntries
  <2>3. a \in Nat /\ c \in Nat /\ a > 0 /\ c > 0 /\ a + c <= BlockSize
    BY <1>1
  <2> HIDE DEF e, A, C, a, c
  <2>4. IsList(e, 2) /\ e[1] = A /\ e[2] = C
    BY <2>2 DEF IsList
  <2>5. DOMAIN e = 1 .. 2
    BY <2>4, IndexOfListed
  <2>6. \A i \in 1 .. 2 : i = 1 \/ i = 2
    OBVIOUS
  <2>7. \A i \in 1 .. 2 : entSize(e[i]) \in Nat \ {0}
    BY <2>1, <2>3, <2>4, <2>6
  <2>8. IsList(z, 2) /\ z[1] = a /\ z[2] = c /\ \A i \in 1 .. 2 : z[i] \in Nat
    <3>1. z = [i \in 1 .. 2 |-> entSize(e[i])]
      BY <2>5 DEF entSizes
    <3> HIDE DEF z
    <3>2. QED
      BY <2>1, <2>3, <2>4, <2>6, <3>1 DEF IsList
  <2>9. SumOf(z) = a + c
    <3> HIDE DEF z
    <3> DEFINE s == Totals(z)
    <3>1. s[0] = 0 /\ (\A i \in 1 .. 2 : s[i] = s[i - 1] + z[i]) /\ SumOf(z) = s[2]
      BY <2>8, TotalsAdd
    <3> HIDE DEF s
    <3>2. s[1] = s[1 - 1] + z[1] /\ s[2] = s[2 - 1] + z[2]
      BY <3>1
    <3>3. s[1] = s[0] + z[1] /\ s[2] = s[1] + z[2]
      BY <3>2
    <3>4. QED
      BY <2>3, <2>8, <3>1, <3>3
  <2>10. ParseBlock([dir |-> Chain(e), nth |-> 1]) = {e[i] : i \in 1 .. 2}
    BY <2>3, <2>4, <2>7, <2>9, ChainIsParsed
  <2>11. {e[i] : i \in 1 .. 2} = {A, C}
    BY <2>4, <2>6
  <2>12. QED
    BY <2>10, <2>11 DEF e, A, C
<1>3. ParseBlock([dir |-> Chain(UrootEntries), nth |-> 1])
      = {Dirent("dot", 2, 0), Dirent("dotdot", 2, 0), Dirent("file", 3, pfs_image_dat)}
  <2> DEFINE e == UrootEntries
             A == Dirent("dot", 2, 0)
             B == Dirent("dotdot", 2, 0)
             C == Dirent("file", 3, pfs_image_dat)
             c == EntSize[pfs_image_dat]
             z == entSizes(e)
  <2>1. entSize(A) = DotSize /\ entSize(B) = DotSize /\ entSize(C) = c
    BY DEF entSize, Dirent
  <2>2. e = <<A, B, C>>
    BY DEF UrootEntries
  <2>3. c \in Nat /\ c > 0 /\ DotSize + DotSize + c <= BlockSize /\ DotSize \in Nat /\ DotSize > 0
    BY <1>1
  <2> HIDE DEF e, A, B, C, c
  <2>4. IsList(e, 3) /\ e[1] = A /\ e[2] = B /\ e[3] = C
    BY <2>2 DEF IsList
  <2>5. DOMAIN e = 1 .. 3
    BY <2>4, IndexOfListed
  <2>6. \A i \in 1 .. 3 : i = 1 \/ i = 2 \/ i = 3
    OBVIOUS
  <2>7. \A i \in 1 .. 3 : entSize(e[i]) \in Nat \ {0}
    BY <2>1, <2>3, <2>4, <2>6
  <2>8. IsList(z, 3) /\ z[1] = DotSize /\ z[2] = DotSize /\ z[3] = c
        /\ \A i \in 1 .. 3 : z[i] \in Nat
    <3>1. z = [i \in 1 .. 3 |-> entSize(e[i])]
      BY <2>5 DEF entSizes
    <3> HIDE DEF z
    <3>2. QED
      BY <2>1, <2>3, <2>4, <2>6, <3>1 DEF IsList
  <2>9. SumOf(z) = DotSize + DotSize + c
    <3> HIDE DEF z
    <3> DEFINE s == Totals(z)
    <3>1. s[0] = 0 /\ (\A i \in 1 .. 3 : s[i] = s[i - 1] + z[i]) /\ SumOf(z) = s[3]
      BY <2>8, TotalsAdd
    <3> HIDE DEF s
    <3>2. s[1] = s[1 - 1] + z[1] /\ s[2] = s[2 - 1] + z[2] /\ s[3] = s[3 - 1] + z[3]
      BY <3>1
    <3>3. s[1] = s[0] + z[1] /\ s[2] = s[1] + z[2] /\ s[3] = s[2] + z[3]
      BY <3>2
    <3>4. QED
      BY <2>3, <2>8, <3>1, <3>3
  <2>10. ParseBlock([dir |-> Chain(e), nth |-> 1]) = {e[i] : i \in 1 .. 3}
    BY <2>3, <2>4, <2>7, <2>9, ChainIsParsed
  <2>11. {e[i] : i \in 1 .. 3} = {A, B, C}
    BY <2>4, <2>6
  <2>12. QED
    BY <2>10, <2>11 DEF e, A, B, C
<1>4. /\ \A x \in {Dirent("file", 1, flat_path_table), Dirent("dir", 2, uroot)} :
            x.name = uroot <=> x = Dirent("dir", 2, uroot)
      /\ \A x \in {Dirent("dot", 2, 0), Dirent("dotdot", 2, 0), Dirent("file", 3, pfs_image_dat)} :
            x.name = pfs_image_dat <=> x = Dirent("file", 3, pfs_image_dat)
      /\ Dirent("dir", 2, uroot).number = 2 /\ Dirent("file", 3, pfs_image_dat).number = 3
  BY DEF Dirent, uroot, flat_path_table, pfs_image_dat
<1>5. {x \in ParseBlock([dir |-> Chain(RootEntries), nth |-> 1]) : x.name = uroot}
      = {Dirent("dir", 2, uroot)}
  BY <1>2, <1>4
<1>6. {x \in ParseBlock([dir |-> Chain(UrootEntries), nth |-> 1]) : x.name = pfs_image_dat}
      = {Dirent("file", 3, pfs_image_dat)}
  BY <1>3, <1>4
<1>7. QED
  BY <1>4, <1>5, <1>6

----------------------------------------------------------------------------
(* What is read.                                                            *)

\* In a built package the pointers of inodes and indirect blocks are those that were
\* signed, and the blocks without pointers can be read.
LEMMA PackageIsReadable ==
    ASSUME BuildInv, ReadInv, step = "built"
    PROVE  /\ length \in Nat /\ N \in Nat
           /\ \A i \in DOMAIN dataSigs(N) :
                 Pointer(dataSigs(N)[i].at) = dataSigs(N)[i].block
           /\ \A i \in DOMAIN finalSigs(N) :
                 finalSigs(N)[i].at[1] \in {"inode", "block"} =>
                    Pointer(finalSigs(N)[i].at) = finalSigs(N)[i].block
           /\ \A img : HasOuter(img) =>
                 \A b \in {1, 2} \cup (UrootBlock(N) .. OuterSize(N) - 1) :
                    ReadBlock(img, b) = img[b]
<1>1. length \in Nat /\ step \in PastWrite
  BY DEF BuildInv, BuildTypeOK, PastWrite
<1>2. N \in Nat
  BY <1>1, OuterBlocks
<1>3. UrootBlock(N) \in Nat /\ UrootBlock(N) >= 5 /\ OuterSize(N) = UrootBlock(N) + 1 + N
  BY <1>2, IndirectBlocks
<1>4. \A b \in 0 .. OuterSize(N) - 1 : b # EmptyBlock => Decrypted(b)
  <2>1. /\ \A i \in DOMAIN xtsSectors : enc[xtsSectors[i]] = 1
        /\ \A s \in 0 .. SectorsPerBlock - 1 : enc[s] = 0
    BY <1>1 DEF ReadInv, SectorsAreEncrypted
  <2>2. QED
    BY <1>1, <2>1, BlocksAreDecrypted
<1>5. ASSUME NEW sig, Signed(sig), sig.at[1] \in {"inode", "block"},
             SlotBlock(sig.at) < UrootBlock(N)
      PROVE  Pointer(sig.at) = sig.block
  <2>1. sig.at \in DOMAIN slots /\ slots[sig.at] = [block |-> sig.block, over |-> Plain(sig.block)]
    BY <1>5 DEF Signed
  <2>2. slots[sig.at].block = sig.block
    BY <2>1
  <2>3. SlotBlock(sig.at) \in 0 .. OuterSize(N) - 1 /\ SlotBlock(sig.at) # EmptyBlock
    <3>1. CASE sig.at[1] = "inode"
      <4>1. SlotBlock(sig.at) = 1
        BY <3>1 DEF SlotBlock
      <4>2. QED
        BY <1>2, <1>3, <4>1 DEF EmptyBlock
    <3>2. CASE sig.at[1] = "block"
      <4>1. SlotBlock(sig.at) = sig.at[2]
        BY <3>2 DEF SlotBlock
      <4>2. sig.at[2] \in IB0 .. UrootBlock(N) - 1
        BY <1>1, <2>1, <3>2 DEF ReadInv, SlotsAreInBlocks
      <4>3. QED
        BY <1>2, <1>3, <4>1, <4>2 DEF EmptyBlock, IB0
    <3>3. QED
      BY <1>5, <3>1, <3>2
  <2>4. Decrypted(SlotBlock(sig.at))
    BY <1>4, <2>3
  <2>5. QED
    BY <2>1, <2>2, <2>4 DEF Pointer
<1>6. ASSUME NEW i \in DOMAIN dataSigs(N)
      PROVE  Pointer(dataSigs(N)[i].at) = dataSigs(N)[i].block
  <2> DEFINE sig == dataSigs(N)[i]
  <2>1. Signed(sig)
    BY <1>1 DEF BuildInv, BlocksAreSigned, PastWrite
  <2>2. sig.at[1] \in {"inode", "block"}
    <3>1. Ino(2, 0)[1] = "inode" /\ \A k : Ino(3, k)[1] = "inode"
      BY DEF Ino
    <3>2. \/ sig.at = Ino(2, 0) \/ \E k \in 0 .. Direct - 1 : sig.at = Ino(3, k)
          \/ sig.at[1] = "block"
      BY <1>2, DataSlots
    <3> HIDE DEF sig
    <3>3. QED
      BY <3>1, <3>2
  <2>3. SlotBlock(sig.at) < UrootBlock(N)
    <3>1. SlotBlock(sig.at) \in 1 .. UrootBlock(N) - 1
      BY <1>2, DataSlots
    <3> HIDE DEF sig
    <3>2. QED
      BY <1>3, <3>1
  <2> HIDE DEF sig
  <2>4. Pointer(sig.at) = sig.block
    BY <1>5, <2>1, <2>2, <2>3
  <2>5. QED
    BY <2>4 DEF sig
<1>7. ASSUME NEW i \in DOMAIN finalSigs(N), finalSigs(N)[i].at[1] \in {"inode", "block"}
      PROVE  Pointer(finalSigs(N)[i].at) = finalSigs(N)[i].block
  <2> DEFINE sig == finalSigs(N)[i]
  <2>1. Signed(sig)
    BY <1>1 DEF BuildInv, BlocksAreSigned, PastWrite
  <2>2. SlotBlock(sig.at) < UrootBlock(N)
    <3>1. SlotBlock(sig.at) \in 0 .. UrootBlock(N) - 1
      BY <1>2, FinalSlots
    <3> HIDE DEF sig
    <3>2. QED
      BY <1>3, <3>1
  <2>3. sig.at[1] \in {"inode", "block"}
    BY <1>7
  <2> HIDE DEF sig
  <2>4. Pointer(sig.at) = sig.block
    BY <1>5, <2>1, <2>2, <2>3
  <2>5. QED
    BY <2>4 DEF sig
<1>8. ASSUME NEW img, HasOuter(img), NEW b \in {1, 2} \cup (UrootBlock(N) .. OuterSize(N) - 1)
      PROVE  ReadBlock(img, b) = img[b]
  <2>1. b \in 0 .. OuterSize(N) - 1 /\ b # EmptyBlock /\ b \notin IB0 .. UrootBlock(N) - 1
    BY <1>2, <1>3 DEF EmptyBlock, IB0
  <2>2. Decrypted(b)
    BY <1>4, <2>1
  <2>3. ~Shared(b)
    BY <1>1, <2>1 DEF Shared, ReadInv, SlotsAreInBlocks
  <2>4. b \in DOMAIN img
    BY <1>8, <2>1 DEF HasOuter
  <2>5. QED
    BY <2>2, <2>3, <2>4 DEF ReadBlock
<1>9. QED
  BY <1>1, <1>2, <1>6, <1>7, <1>8

\* The pointers to the directories, and to the indirect blocks of the file.
LEMMA PointersOfNodes ==
    ASSUME BuildInv, ReadInv, step = "built"
    PROVE  /\ Pointer(Ino(0, 0)) = 2 /\ Pointer(Ino(2, 0)) = UrootBlock(N)
           /\ N > Direct => Pointer(Ino(3, Direct)) = IB0
           /\ N > Direct + SigsPerBlock =>
                 /\ Pointer(Ino(3, Direct + 1)) = IB1
                 /\ \A q \in 0 .. ceilDiv(N - Direct - SigsPerBlock, SigsPerBlock) - 1 :
                       Pointer(Ind(IB1, q)) = IB1 + 1 + q
           /\ \A k \in 0 .. N - 1 : Pointer(FileSlot(k)) = UrootBlock(N) + (k + 1)
<1> DEFINE F == finalSigs(N)
           D == dataSigs(N)
           c == ceilDiv(N - Direct - SigsPerBlock, SigsPerBlock)
<1>1. N \in Nat
  BY PackageIsReadable
<1>2. Direct \in Nat \ {0} /\ SigsPerBlock \in Nat \ {0}
  BY PFSAssumption
<1>3. /\ \A i \in DOMAIN D : Pointer(D[i].at) = D[i].block
      /\ \A i \in DOMAIN F : F[i].at[1] \in {"inode", "block"} => Pointer(F[i].at) = F[i].block
  BY PackageIsReadable
<1>4. /\ Len(F) \in Nat /\ DOMAIN F = 1 .. Len(F)
      /\ Len(F) = IF N > Direct + SigsPerBlock THEN 6 + c ELSE IF N > Direct THEN 5 ELSE 4
      /\ \A i \in DOMAIN F : F[i] = FinalSig(i)
  BY <1>1, FinalSignatures
<1>5. N > Direct + SigsPerBlock => c \in Nat
  BY <1>1, IndirectBlocks
<1>6. /\ DOMAIN D = 1 .. N + 1 /\ D[1] = Sig(UrootBlock(N), Ino(2, 0))
      /\ \A i \in 2 .. N + 1 : D[i] = Sig(UrootBlock(N) + (i - 1), FileSlot(i - 2))
  BY <1>1, DataSignatures
<1> HIDE DEF F, D, c
<1>7. \A i, k : Ino(i, k)[1] = "inode" /\ Ind(i, k)[1] = "block"
  BY DEF Ino, Ind
<1>8. \A b, a : Sig(b, a).at = a /\ Sig(b, a).block = b
  BY DEF Sig
<1>9. ASSUME NEW i \in DOMAIN F, NEW b, NEW a, FinalSig(i) = Sig(b, a),
             a[1] \in {"inode", "block"}
      PROVE  Pointer(a) = b
  <2>1. F[i].at = a /\ F[i].block = b
    BY <1>4, <1>8, <1>9
  <2>2. QED
    BY <1>3, <1>9, <2>1
<1>10. Pointer(Ino(0, 0)) = 2
  <2>1. 3 \in DOMAIN F
    BY <1>1, <1>2, <1>4, <1>5
  <2>2. FinalSig(3) = Sig(2, Ino(0, 0))
    BY DEF FinalSig
  <2>3. QED
    BY <1>7, <1>9, <2>1, <2>2
<1>11. Pointer(Ino(2, 0)) = UrootBlock(N)
  <2>1. 1 \in DOMAIN D
    BY <1>1, <1>6
  <2>2. QED
    BY <1>3, <1>6, <1>8, <2>1
<1>12. ASSUME N > Direct
       PROVE  Pointer(Ino(3, Direct)) = IB0
  <2>1. 5 \in DOMAIN F
    BY <1>1, <1>2, <1>4, <1>5, <1>12
  <2>2. FinalSig(5) = Sig(IB0, Ino(3, Direct))
    BY DEF FinalSig
  <2>3. QED
    BY <1>7, <1>9, <2>1, <2>2
<1>13. ASSUME N > Direct + SigsPerBlock
       PROVE  /\ Pointer(Ino(3, Direct + 1)) = IB1
              /\ \A q \in 0 .. c - 1 : Pointer(Ind(IB1, q)) = IB1 + 1 + q
  <2>1. 6 \in DOMAIN F
    BY <1>1, <1>2, <1>4, <1>5, <1>13
  <2>2. FinalSig(6) = Sig(IB1, Ino(3, Direct + 1))
    BY DEF FinalSig
  <2>3. Pointer(Ino(3, Direct + 1)) = IB1
    BY <1>7, <1>9, <2>1, <2>2
  <2>4. ASSUME NEW q \in 0 .. c - 1
        PROVE  Pointer(Ind(IB1, q)) = IB1 + 1 + q
    <3> DEFINE i == 7 + q
    <3>1. q \in Nat /\ i \in 1 .. Len(F) /\ i > 6 /\ i - 6 = 1 + q /\ i - 7 = q
      BY <1>4, <1>5, <1>13
    <3>2. i \in DOMAIN F
      BY <1>4, <3>1
    <3> HIDE DEF i
    <3>3. i \in Nat /\ i > 6
      BY <1>4, <3>1
    <3>4. FinalSig(i) = Sig(IB1 + (i - 6), Ind(IB1, i - 7))
      BY <3>3 DEF FinalSig
    <3>5. FinalSig(i) = Sig(IB1 + (1 + q), Ind(IB1, q))
      BY <3>1, <3>4
    <3>6. Pointer(Ind(IB1, q)) = IB1 + (1 + q)
      BY <1>7, <1>9, <3>2, <3>5
    <3>7. QED
      BY <3>1, <3>6 DEF IB1
  <2>5. QED
    BY <2>3, <2>4
<1>14. ASSUME NEW k \in 0 .. N - 1
       PROVE  Pointer(FileSlot(k)) = UrootBlock(N) + (k + 1)
  <2>1. k + 2 \in 2 .. N + 1 /\ (k + 2) - 1 = k + 1 /\ (k + 2) - 2 = k
    BY <1>1
  <2>2. D[k + 2] = Sig(UrootBlock(N) + (k + 1), FileSlot(k))
    <3>1. D[k + 2] = Sig(UrootBlock(N) + ((k + 2) - 1), FileSlot((k + 2) - 2))
      BY <1>6, <2>1
    <3>2. QED
      BY <2>1, <3>1
  <2>3. k + 2 \in DOMAIN D
    BY <1>1, <1>6, <2>1
  <2>4. QED
    BY <1>3, <1>8, <2>2, <2>3
<1>15. QED
  BY <1>10, <1>11, <1>12, <1>13, <1>14 DEF c

\* The block list of the file is that of its blocks, one behind the other.
LEMMA BlockListIsRead ==
    ASSUME BuildInv, ReadInv, step = "built"
    PROVE  readBlockList(3, N) = [k \in 1 .. N |-> UrootBlock(N) + k]
<1> DEFINE ib(slot, k) == Pointer(Ind(Pointer(Ino(3, slot)), k))
           past(k) == k - Direct - SigsPerBlock
           block(k) == IF k < Direct THEN Pointer(Ino(3, k))
                       ELSE IF past(k) < 0 THEN ib(Direct, k - Direct)
                       ELSE Pointer(Ind(ib(Direct + 1, past(k) \div SigsPerBlock),
                                        past(k) % SigsPerBlock))
           c == ceilDiv(N - Direct - SigsPerBlock, SigsPerBlock)
<1>1. N \in Nat
  BY PackageIsReadable
<1>2. Direct \in Nat \ {0} /\ SigsPerBlock \in Nat \ {0}
  BY PFSAssumption
<1>3. readBlockList(3, N) = [k \in 1 .. N |-> block(k - 1)]
  BY DEF readBlockList
<1>4. /\ N > Direct => Pointer(Ino(3, Direct)) = IB0
      /\ N > Direct + SigsPerBlock =>
            /\ Pointer(Ino(3, Direct + 1)) = IB1
            /\ \A q \in 0 .. c - 1 : Pointer(Ind(IB1, q)) = IB1 + 1 + q
      /\ \A k \in 0 .. N - 1 : Pointer(FileSlot(k)) = UrootBlock(N) + (k + 1)
  BY PointersOfNodes
<1> HIDE DEF c
<1>5. ASSUME NEW k \in 0 .. N - 1
      PROVE  block(k) = Pointer(FileSlot(k))
  <2>1. k \in Nat /\ k < N
    BY <1>1
  <2>2. CASE k < Direct
    BY <2>2 DEF FileSlot
  <2>3. CASE ~(k < Direct) /\ past(k) < 0
    <3>1. N > Direct
      BY <1>1, <1>2, <2>1, <2>3
    <3>2. FileSlot(k) = Ind(IB0, k - Direct)
      BY <2>3 DEF FileSlot
    <3>3. block(k) = Pointer(Ind(Pointer(Ino(3, Direct)), k - Direct))
      BY <2>3
    <3>4. QED
      BY <1>4, <3>1, <3>2, <3>3
  <2>4. CASE ~(k < Direct) /\ ~(past(k) < 0)
    <3> DEFINE p == past(k)
               q == p \div SigsPerBlock
               r == p % SigsPerBlock
    <3>1. p \in Nat /\ N - Direct - SigsPerBlock \in Nat /\ p < N - Direct - SigsPerBlock
          /\ N > Direct + SigsPerBlock
      BY <1>1, <1>2, <2>1, <2>4
    <3>2. FileSlot(k) = Ind(IB1 + 1 + q, r)
      BY <2>4 DEF FileSlot
    <3>3. block(k) = Pointer(Ind(ib(Direct + 1, q), r))
      BY <2>4
    <3> HIDE DEF p, block
    <3>4. q \in Nat /\ c \in Nat /\ q < c
      BY <1>2, <3>1, QuotientBound, Division DEF c
    <3> HIDE DEF q, r
    <3>5. q \in 0 .. c - 1
      BY <3>4
    <3>6. ib(Direct + 1, q) = IB1 + 1 + q
      BY <1>4, <3>1, <3>5
    <3>7. QED
      BY <3>2, <3>3, <3>6
  <2>5. QED
    BY <2>2, <2>3, <2>4
<1> HIDE DEF block
<1>6. ASSUME NEW k \in 1 .. N
      PROVE  block(k - 1) = UrootBlock(N) + k
  <2>1. k - 1 \in 0 .. N - 1 /\ (k - 1) + 1 = k
    BY <1>1
  <2>2. block(k - 1) = UrootBlock(N) + ((k - 1) + 1)
    BY <1>4, <1>5, <2>1
  <2>3. QED
    BY <2>1, <2>2
<1>7. QED
  BY <1>3, <1>6

\* So the reader gets the inner image.
LEMMA PackageIsRead ==
    ASSUME BuildInv, ReadInv, step = "built"
    PROVE  ReadPackage = image
<1> DEFINE outer == OuterImage
           u == UrootBlock(N)
           h == PfscHeader(length)
           list == readBlockList(3, N)
           node(blocks) == [blocks |-> blocks]
<1>1. length \in Nat /\ N \in Nat /\ h \in Nat /\ h >= 1 /\ N = h + length
  <2>1. length \in Nat
    BY PackageIsReadable
  <2>2. QED
    BY <2>1, HeaderBlocks
<1>2. u \in Nat /\ u >= 5 /\ OuterSize(N) = u + 1 + N
  BY <1>1, IndirectBlocks
<1>3. HasOuter(outer)
  BY <1>1, OuterContents
<1>4. /\ outer[1] = [ino |-> <<node(1), node(1), node(1), node(N)>>]
      /\ outer[2] = [dir |-> Chain(RootEntries), nth |-> 1]
      /\ outer[u] = [dir |-> Chain(UrootEntries), nth |-> 1]
      /\ \A k \in 1 .. N : outer[u + k] = ImageBlock(k)
  BY <1>3 DEF HasOuter
<1>5. \A b \in {1, 2} \cup (u .. OuterSize(N) - 1) : ReadBlock(outer, b) = outer[b]
  <2>1. \A img : HasOuter(img) =>
           \A b \in {1, 2} \cup (u .. OuterSize(N) - 1) : ReadBlock(img, b) = img[b]
    BY PackageIsReadable
  <2>2. QED
    BY <1>3, <2>1
<1>6. list = [k \in 1 .. N |-> u + k]
  BY BlockListIsRead
<1>7. ReadPackage =
         LET file == UNION {Find(outer, r, pfs_image_dat) : r \in Find(outer, 0, uroot)}
             all  == readBlockList(3, ReadBlock(outer, 1).ino[4].blocks)
         IN  IF "ino" \in DOMAIN ReadBlock(outer, 1) /\ file = {3}
             THEN [i \in newPfscReader(outer, all) |-> readSector(outer, all, i)]
             ELSE <<>>
  BY DEF ReadPackage
<1> HIDE DEF outer, u, h, list
<1>8. ReadBlock(outer, 1) = outer[1] /\ ReadBlock(outer, 2) = outer[2]
      /\ ReadBlock(outer, u) = outer[u]
      /\ \A k \in 1 .. N : ReadBlock(outer, u + k) = ImageBlock(k)
  <2>1. u \in u .. OuterSize(N) - 1 /\ \A k \in 1 .. N : u + k \in u .. OuterSize(N) - 1
    BY <1>1, <1>2
  <2>2. QED
    BY <1>4, <1>5, <2>1
<1>9. "ino" \in DOMAIN ReadBlock(outer, 1) /\ ReadBlock(outer, 1).ino[4].blocks = N
  BY <1>4, <1>8
<1>10. Find(outer, 0, uroot) = {2}
  <2>1. ReadBlock(outer, Pointer(Ino(0, 0))) = [dir |-> Chain(RootEntries), nth |-> 1]
    BY <1>4, <1>8, PointersOfNodes
  <2>2. QED
    BY <2>1, OuterDirectories DEF Find
<1>11. Find(outer, 2, pfs_image_dat) = {3}
  <2>1. ReadBlock(outer, Pointer(Ino(2, 0))) = [dir |-> Chain(UrootEntries), nth |-> 1]
    <3>1. Pointer(Ino(2, 0)) = u
      BY PointersOfNodes DEF u
    <3>2. QED
      BY <1>4, <1>8, <3>1
  <2>2. QED
    BY <2>1, OuterDirectories DEF Find
<1>12. UNION {Find(outer, r, pfs_image_dat) : r \in Find(outer, 0, uroot)} = {3}
  BY <1>10, <1>11
<1>13. ReadPackage = [i \in newPfscReader(outer, list) |-> readSector(outer, list, i)]
  BY <1>7, <1>9, <1>12 DEF list
<1>14. newPfscReader(outer, list) = 0 .. length - 1
  <2>1. 1 \in 1 .. N /\ list[1] = u + 1
    BY <1>1, <1>6
  <2>2. ReadBlock(outer, list[1]) = ImageBlock(1)
    BY <1>8, <2>1
  <2>3. ImageBlock(1) = [pfsc |-> length, nth |-> 1]
    BY <1>1 DEF ImageBlock, h
  <2>4. QED
    BY <2>2, <2>3 DEF newPfscReader
<1>15. ASSUME NEW i \in 0 .. length - 1
       PROVE  readSector(outer, list, i) = image[i]
  <2> DEFINE k == SectorMap(length, i) + 1
  <2>1. k = h + i + 1
    BY DEF SectorMap, h
  <2>2. k \in 1 .. N /\ ~(k <= h) /\ k - h - 1 = i
    BY <1>1, <2>1
  <2>3. k \in DOMAIN list /\ list[k] = u + k
    BY <1>6, <2>2
  <2>4. readSector(outer, list, i) = ReadBlock(outer, list[k])
    BY <2>3 DEF readSector
  <2> HIDE DEF k
  <2>5. ReadBlock(outer, u + k) = ImageBlock(k)
    BY <1>8, <2>2
  <2>6. ImageBlock(k) = image[k - h - 1]
    BY <2>2 DEF ImageBlock, h
  <2>7. QED
    BY <2>2, <2>3, <2>4, <2>5, <2>6
<1>16. image = [i \in 0 .. length - 1 |-> image[i]]
  <2>1. image = InnerImage(setup(tree)) /\ length = Layout(setup(tree)).ndblock
    BY DEF ReadInv, ImageIsWritten, PastWrite
  <2>2. QED
    BY <2>1 DEF InnerImage, Written
<1>17. QED
  BY <1>13, <1>14, <1>15, <1>16

\* And in it the tree it was built from.
LEMMA BuiltIsReadBack ==
    BuildInv /\ ReadInv => ReadsBack
<1> SUFFICES ASSUME BuildInv, ReadInv, step = "built"
             PROVE  ReadsBackAs(ReadPackage, tree)
  BY DEF ReadsBack
<1>1. IsTree(tree) /\ DirFits(setup(tree)) /\ image = InnerImage(setup(tree))
  BY DEF ReadInv, ImageIsWritten, PastWrite
<1>2. ReadsBackAs(InnerImage(setup(tree)), tree)
  BY <1>1, TreeReadsBack
<1>3. QED
  BY <1>1, <1>2, PackageIsRead

=============================================================================
