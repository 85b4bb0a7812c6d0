-------------------------- MODULE PFSLayoutProofs --------------------------
(***************************************************************************)
(* Machine-checked proofs about the inner image of a package, for any tree *)
(* and any sizes of names, blocks and tables.                              *)
(***************************************************************************)
EXTENDS PFSLayout, SequenceTheorems, FiniteSetTheorems, TLAPS

----------------------------------------------------------------------------
(* Numbers.                                                                 *)

\* A set of numbers that is not empty has a least one.
LEMMA Least ==
    ASSUME NEW T \in SUBSET Nat, T # {}
    PROVE  \E x \in T : \A y \in T : x <= y
<1>1. IsWellFoundedOn(OpToRel(<,Nat), Nat)
  BY NatLessThanWellFounded
<1> DEFINE R == OpToRel(<, Nat)
<1>2. \A x, y \in Nat : x < y => <<x, y>> \in R
  BY DEF OpToRel
<1> HIDE DEF R
<1>3. \E x \in T : \A y \in T : ~(<<y, x>> \in R)
  BY <1>1, WFMin DEF R
<1>4. PICK x \in T : \A y \in T : ~(<<y, x>> \in R)
  BY <1>3
<1>5. \A y \in T : x \in Nat /\ y \in Nat /\ ~(y < x)
  BY <1>2, <1>4
<1>6. \A y \in T : x <= y
  BY <1>5
<1>7. QED
  BY <1>6

\* Induction, about a set: the library's is about an operator, which no prover here
\* can instantiate.
LEMMA Induction ==
    ASSUME NEW T, 0 \in T, \A n \in Nat : n \in T => n + 1 \in T
    PROVE  Nat \subseteq T
<1> SUFFICES ASSUME Nat \ T # {} PROVE FALSE
  OBVIOUS
<1>1. PICK x \in Nat \ T : \A y \in Nat \ T : x <= y
  BY Least
<1>2. x - 1 \in Nat \/ x = 0
  OBVIOUS
<1>3. QED
  BY <1>1, <1>2

\* Quotient and rest.
LEMMA Division ==
    ASSUME NEW x \in Nat, NEW y \in Nat \ {0}
    PROVE  /\ x \div y \in Nat /\ x % y \in 0 .. y - 1
           /\ x = y * (x \div y) + (x % y)
<1>1. \A a, b \in Int : b > 0 => a = b * (a \div b) + (a % b)
  BY Z3
<1>2. x \div y \in Nat /\ x % y \in 0 .. y - 1
  OBVIOUS
<1>3. QED
  BY <1>1, <1>2

\* What the provers need of multiplication.
LEMMA Multiples ==
    /\ \A x, y, z \in Nat : x <= y => z * x <= z * y
    /\ \A x, y, z \in Int : (x + y) * z = x * z + y * z
    /\ \A x, y \in Int : x * y \in Int /\ x * y = y * x
    /\ \A x, y \in Nat : x * y \in Nat
<1>1. \A x, y, z \in Nat : x <= y => z * x <= z * y
  BY Z3
<1>2. \A x, y, z \in Int : (x + y) * z = x * z + y * z
  BY Z3
<1>3. \A x, y \in Int : x * y \in Int /\ x * y = y * x
  BY Z3
<1>4. \A x, y \in Nat : x * y \in Nat
  BY Z3
<1>5. QED
  BY <1>1, <1>2, <1>3, <1>4

\* What is divided, rounded up, is more than a number before it divided.
LEMMA QuotientBound ==
    ASSUME NEW x \in Nat, NEW m \in Nat, NEW y \in Nat \ {0}, x < m
    PROVE  ceilDiv(m, y) \in Nat /\ x \div y < ceilDiv(m, y)
<1> DEFINE q == x \div y
           c == (m + y - 1) \div y
<1>1. q \in Nat /\ x % y \in 0 .. y - 1 /\ x = y * q + (x % y)
  BY Division
<1>2. c \in Nat /\ (m + y - 1) % y \in 0 .. y - 1 /\ m + y - 1 = y * c + ((m + y - 1) % y)
  <2>1. m + y - 1 \in Nat
    OBVIOUS
  <2>2. QED
    BY <2>1, Division
<1>3. q < c
  <2> SUFFICES ASSUME c <= q
               PROVE  FALSE
    BY <1>1, <1>2
  <2> HIDE DEF q, c
  <2>1. y * c <= y * q
    BY <1>1, <1>2
  <2>2. QED
    BY <1>1, <1>2, <2>1
<1>4. QED
  BY <1>2, <1>3 DEF ceilDiv

\* A number is its quotient and its rest.
LEMMA DivisionIsUnique ==
    ASSUME NEW x \in Nat, NEW z \in Nat, NEW y \in Nat \ {0},
           x \div y = z \div y, x % y = z % y
    PROVE  x = z
  BY Division

\* A loop over the numbers to n, which starts with b and takes the steps F, is there.
LEMMA Rounds ==
    ASSUME NEW n \in Nat, NEW b \in Nat, NEW F \in [Nat \X (1 .. n) -> Nat]
    PROVE  \E f \in [0 .. n -> Nat] :
              f[0] = b /\ \A i \in 1 .. n : f[i] = F[<<f[i - 1], i>>]
<1> DEFINE Good(f, m) == /\ f \in [0 .. m -> Nat] /\ f[0] = b
                         /\ \A i \in 1 .. m : f[i] = F[<<f[i - 1], i>>]
           T == {m \in Nat : m <= n => \E f : Good(f, m)}
<1>1. 0 \in T
  <2>1. Good([i \in 0 .. 0 |-> b], 0)
    OBVIOUS
  <2> HIDE DEF Good
  <2>2. QED
    BY <2>1
<1>2. ASSUME NEW m \in Nat, m \in T
      PROVE  m + 1 \in T
  <2> SUFFICES ASSUME m + 1 <= n
               PROVE  \E f : Good(f, m + 1)
    <3> HIDE DEF Good
    <3>1. QED
      OBVIOUS
  <2>1. PICK f : Good(f, m)
    <3> HIDE DEF Good
    <3>1. QED
      BY <1>2
  <2> DEFINE h == [i \in 0 .. m + 1 |-> IF i = m + 1 THEN F[<<f[m], m + 1>>] ELSE f[i]]
  <2>2. F[<<f[m], m + 1>>] \in Nat
    <3>1. f[m] \in Nat /\ m + 1 \in 1 .. n
      BY <2>1
    <3>2. QED
      BY <3>1
  <2>3. \A i \in 0 .. m + 1 : i = m + 1 \/ i \in 0 .. m
    OBVIOUS
  <2>4. \A i \in 0 .. m : h[i] = f[i] /\ f[i] \in Nat
    BY <2>1
  <2>5. h[m + 1] = F[<<f[m], m + 1>>]
    OBVIOUS
  <2>6. h \in [0 .. m + 1 -> Nat] /\ h[0] = b
    BY <2>1, <2>2, <2>3
  <2>7. ASSUME NEW i \in 1 .. m + 1
        PROVE  h[i] = F[<<h[i - 1], i>>]
    <3>1. i - 1 \in 0 .. m /\ (i = m + 1 => i - 1 = m) /\ (i # m + 1 => i \in 1 .. m)
      OBVIOUS
    <3> HIDE DEF h
    <3>2. CASE i = m + 1
      BY <2>4, <2>5, <3>1, <3>2
    <3>3. CASE i # m + 1
      BY <2>1, <2>4, <3>1, <3>3
    <3>4. QED
      BY <3>2, <3>3
  <2> HIDE DEF h
  <2>8. QED
    BY <2>6, <2>7
<1>3. n \in T
  <2> HIDE DEF T
  <2>1. Nat \subseteq T
    BY <1>1, <1>2, Induction
  <2>2. QED
    BY <2>1
<1>4. PICK f : Good(f, n)
  <2> HIDE DEF Good
  <2>1. QED
    BY <1>3
<1>5. QED
  BY <1>4

\* And it is the function it is defined as.
LEMMA Loop ==
    ASSUME NEW n \in Nat, NEW b \in Nat, NEW F \in [Nat \X (1 .. n) -> Nat]
    PROVE  \E f \in [0 .. n -> Nat] :
              f = [i \in 0 .. n |-> IF i = 0 THEN b ELSE F[<<f[i - 1], i>>]]
<1>1. PICK f \in [0 .. n -> Nat] : f[0] = b /\ \A i \in 1 .. n : f[i] = F[<<f[i - 1], i>>]
  BY Rounds, ZenonT(60)
<1>2. \A i \in 0 .. n : i = 0 \/ i \in 1 .. n
  OBVIOUS
<1>3. f = [i \in 0 .. n |-> IF i = 0 THEN b ELSE F[<<f[i - 1], i>>]]
  BY <1>1, <1>2
<1>4. QED
  BY <1>1, <1>3

----------------------------------------------------------------------------
(* Sequences, and sets in their order.                                      *)

\* s is a sequence of n.
IsList(s, n) == n \in Nat /\ s = [i \in 1 .. n |-> s[i]]

\* s has every element of S once.
Enumerates(s, S) ==
    /\ IsList(s, Len(s))
    /\ \A i \in 1 .. Len(s) : s[i] \in S
    /\ \A x \in S : \E i \in 1 .. Len(s) : s[i] = x
    /\ \A i, j \in 1 .. Len(s) : s[i] = s[j] => i = j

\* The length and the indexes of a sequence.
LEMMA IndexOfListed ==
    ASSUME NEW s, NEW n, IsList(s, n)
    PROVE  /\ DOMAIN s = 1 .. n /\ Len(s) = n
           /\ \A S : (\A i \in 1 .. n : s[i] \in S) => s \in Seq(S)
<1>1. n \in Nat /\ s = [i \in 1 .. n |-> s[i]]
  BY DEF IsList
<1>2. ASSUME NEW S, \A i \in 1 .. n : s[i] \in S
      PROVE  s \in Seq(S)
  <2>1. s \in [1 .. n -> S]
    BY <1>1, <1>2
  <2>2. QED
    BY <1>1, <2>1, SeqDef
<1>3. DOMAIN s = 1 .. n
  BY <1>1
<1>4. Len(s) = n
  <2>1. s \in Seq({s[i] : i \in 1 .. n})
    BY <1>2
  <2>2. Len(s) \in Nat /\ DOMAIN s = 1 .. Len(s)
    BY <2>1, LenProperties
  <2> HIDE <1>2
  <2>3. \A i \in Nat \ {0} : (i <= n) <=> (i <= Len(s))
    BY <1>1, <1>3, <2>2
  <2>4. n = 0 \/ n \in Nat \ {0}
    BY <1>1
  <2>5. Len(s) = 0 \/ Len(s) \in Nat \ {0}
    BY <2>2
  <2>6. QED
    BY <1>1, <2>2, <2>3, <2>4, <2>5
<1>5. QED
  BY <1>2, <1>3, <1>4

\* A sequence is the list of its elements.
LEMMA SeqIsList ==
    ASSUME NEW S, NEW s \in Seq(S)
    PROVE  IsList(s, Len(s)) /\ \A i \in 1 .. Len(s) : s[i] \in S
  BY LenProperties DEF IsList

\* u is the m elements of s and behind them the n elements of t.
Joins(u, s, m, t, n) ==
    /\ IsList(u, m + n)
    /\ \A i \in 1 .. m : u[i] = s[i]
    /\ \A i \in 1 .. n : u[m + i] = t[i]

\* One sequence behind the other.
LEMMA Behind ==
    ASSUME NEW s, NEW t, NEW m, NEW n, IsList(s, m), IsList(t, n)
    PROVE  Joins(s \o t, s, m, t, n)
<1> DEFINE S == {s[i] : i \in 1 .. m} \cup {t[i] : i \in 1 .. n}
           u == s \o t
<1>1. \A i \in 1 .. m : s[i] \in S
  OBVIOUS
<1>2. \A i \in 1 .. n : t[i] \in S
  OBVIOUS
<1> HIDE DEF S
<1>3. s \in Seq(S) /\ t \in Seq(S) /\ Len(s) = m /\ Len(t) = n
  BY <1>1, <1>2, IndexOfListed
<1>4. m \in Nat /\ n \in Nat
  BY DEF IsList
<1>5. /\ u \in Seq(S) /\ Len(u) = m + n
      /\ \A i \in 1 .. m + n : u[i] = IF i <= m THEN s[i] ELSE t[i - m]
  BY <1>3, ConcatProperties
<1> HIDE DEF u
<1>6. IsList(u, m + n)
  BY <1>5, SeqIsList
<1>7. ASSUME NEW i \in 1 .. n
      PROVE  u[m + i] = t[i]
  <2>1. m + i \in 1 .. m + n /\ ~(m + i <= m) /\ (m + i) - m = i
    BY <1>4
  <2>2. QED
    BY <1>5, <2>1
<1>8. \A i \in 1 .. m : i \in 1 .. m + n /\ i <= m
  BY <1>4
<1>9. Joins(u, s, m, t, n)
  BY <1>5, <1>6, <1>7, <1>8 DEF Joins
<1>10. QED
  BY <1>9 DEF u

\* Two sequences without a common element, one behind the other, enumerate both sets.
LEMMA EnumeratesBoth ==
    ASSUME NEW s, NEW t, NEW S, NEW T, Enumerates(s, S), Enumerates(t, T),
           S \cap T = {}
    PROVE  Enumerates(s \o t, S \cup T) /\ Len(s \o t) = Len(s) + Len(t)
<1> DEFINE m == Len(s)
           n == Len(t)
           u == s \o t
<1>1. IsList(s, m) /\ IsList(t, n) /\ m \in Nat /\ n \in Nat
  BY DEF Enumerates, IsList
<1>2. /\ IsList(u, m + n)
      /\ \A i \in 1 .. m : u[i] = s[i]
      /\ \A i \in 1 .. n : u[m + i] = t[i]
  <2>1. Joins(u, s, m, t, n)
    BY <1>1, Behind
  <2> HIDE DEF u
  <2>2. QED
    BY <2>1 DEF Joins
<1>3. Len(u) = m + n
  BY <1>2, IndexOfListed
<1> HIDE DEF u
<1>4. \A i \in 1 .. m + n : i \in 1 .. m \/ (i - m \in 1 .. n /\ i = m + (i - m))
  BY <1>1
<1>5. \A i \in 1 .. m : u[i] \in S
  BY <1>2 DEF Enumerates
<1>6. \A i \in 1 .. n : u[m + i] \in T
  BY <1>2 DEF Enumerates
<1>7. \A i \in 1 .. m + n : u[i] \in S \cup T
  BY <1>4, <1>5, <1>6
<1>8. ASSUME NEW x \in S \cup T
      PROVE  \E i \in 1 .. m + n : u[i] = x
  <2>1. CASE x \in S
    <3>1. PICK i \in 1 .. m : s[i] = x
      BY <2>1 DEF Enumerates
    <3>2. i \in 1 .. m + n
      BY <1>1
    <3>3. QED
      BY <1>2, <3>1, <3>2
  <2>2. CASE x \in T
    <3>1. PICK i \in 1 .. n : t[i] = x
      BY <2>2 DEF Enumerates
    <3>2. m + i \in 1 .. m + n
      BY <1>1
    <3>3. QED
      BY <1>2, <3>1, <3>2
  <2>3. QED
    BY <2>1, <2>2
<1>9. ASSUME NEW i \in 1 .. m + n, NEW j \in 1 .. m + n, u[i] = u[j]
      PROVE  i = j
  <2>1. CASE i \in 1 .. m /\ j \in 1 .. m
    BY <1>2, <1>9, <2>1 DEF Enumerates
  <2>2. CASE i - m \in 1 .. n /\ j - m \in 1 .. n
    <3>1. u[i] = t[i - m] /\ u[j] = t[j - m]
      BY <1>2, <1>4, <2>2, <1>1
    <3>2. i - m = j - m
      BY <1>9, <2>2, <3>1 DEF Enumerates
    <3>3. QED
      BY <1>1, <3>2
  <2>3. CASE i \in 1 .. m /\ j - m \in 1 .. n
    <3>1. u[i] \in S /\ u[j] \in T
      BY <1>4, <1>5, <1>6, <1>1, <2>3
    <3>2. QED
      BY <1>9, <3>1
  <2>4. CASE i - m \in 1 .. n /\ j \in 1 .. m
    <3>1. u[i] \in T /\ u[j] \in S
      BY <1>4, <1>5, <1>6, <1>1, <2>4
    <3>2. QED
      BY <1>9, <3>1
  <2>5. QED
    BY <1>4, <2>1, <2>2, <2>3, <2>4
<1>10. QED
  BY <1>2, <1>3, <1>7, <1>8, <1>9 DEF Enumerates, u

\* The members of a finite set in a strict order that is total: each once.
LEMMA OrderedEnumerates ==
    ASSUME NEW S, IsFiniteSet(S), NEW before,
           \A x \in S : before[x] \subseteq S /\ x \notin before[x],
           \A x, y \in S : y \in before[x] => before[y] \subseteq before[x],
           \A x, y \in S : x = y \/ x \in before[y] \/ y \in before[x]
    PROVE  Enumerates(Ordered(S, before), S) /\ Len(Ordered(S, before)) = Cardinality(S)
<1> DEFINE n == Cardinality(S)
           rank == [x \in S |-> Cardinality(before[x]) + 1]
           o == Ordered(S, before)
<1>1. n \in Nat
  BY FS_CardinalityType
<1>2. ASSUME NEW x \in S
      PROVE  /\ IsFiniteSet(before[x]) /\ Cardinality(before[x]) \in Nat
             /\ Cardinality(before[x]) < n
  <2>1. before[x] \in SUBSET S /\ before[x] # S
    OBVIOUS
  <2>2. IsFiniteSet(before[x]) /\ Cardinality(before[x]) <= n /\ Cardinality(before[x]) # n
    BY <2>1, FS_Subset
  <2>3. Cardinality(before[x]) \in Nat
    BY <2>2, FS_CardinalityType
  <2>4. QED
    BY <1>1, <2>2, <2>3
<1>3. ASSUME NEW x \in S, NEW y \in S, y \in before[x]
      PROVE  Cardinality(before[y]) < Cardinality(before[x])
  <2>1. before[y] \in SUBSET before[x] /\ before[y] # before[x]
    BY <1>3
  <2>2. Cardinality(before[y]) <= Cardinality(before[x])
        /\ Cardinality(before[y]) # Cardinality(before[x])
    BY <1>2, <2>1, FS_Subset
  <2>3. QED
    BY <1>2, <2>2
<1> HIDE DEF n
<1>4. rank \in [S -> 1 .. n]
  BY <1>1, <1>2
<1>5. \A x, y \in S : rank[x] = rank[y] => x = y
  <2> SUFFICES ASSUME NEW x \in S, NEW y \in S, rank[x] = rank[y], x # y
               PROVE  FALSE
    OBVIOUS
  <2>1. Cardinality(before[x]) = Cardinality(before[y])
    BY <1>2
  <2>2. QED
    BY <1>2, <1>3, <2>1
<1> HIDE DEF rank
<1>6. rank \in Injection(S, 1 .. n)
  BY <1>4, <1>5 DEF Injection, IsInjective
<1>7. IsFiniteSet(1 .. n) /\ Cardinality(1 .. n) = n
  BY <1>1, FS_Interval
<1>8. rank \in Surjection(S, 1 .. n)
  BY <1>6, <1>7, FS_Injection DEF n
<1>9. \A i \in 1 .. n : \E x \in S : rank[x] = i
  BY <1>8 DEF Surjection
<1>10. ASSUME NEW i \in 1 .. n
       PROVE  \E x \in S : Cardinality(before[x]) = i - 1
  <2>1. PICK x \in S : rank[x] = i
    BY <1>9
  <2>2. Cardinality(before[x]) = i - 1
    BY <1>1, <1>2, <2>1 DEF rank
  <2>3. QED
    BY <2>2
<1>11. o = [i \in 1 .. n |-> CHOOSE x \in S : Cardinality(before[x]) = i - 1]
  BY DEF Ordered, n
<1> HIDE DEF o
<1>12. \A i \in 1 .. n : o[i] \in S /\ Cardinality(before[o[i]]) = i - 1
  BY <1>10, <1>11
<1>13. \A i \in 1 .. n : rank[o[i]] = i
  <2>1. \A i \in 1 .. n : rank[o[i]] = (i - 1) + 1
    BY <1>12 DEF rank
  <2>2. QED
    BY <1>1, <2>1
<1>14. IsList(o, n) /\ Len(o) = n
  <2>1. IsList(o, n)
    BY <1>1, <1>11 DEF IsList
  <2>2. QED
    BY <2>1, IndexOfListed
<1>15. \A x \in S : rank[x] \in 1 .. n /\ o[rank[x]] = x
  <2>1. \A x \in S : rank[x] \in 1 .. n
    BY <1>4
  <2>2. QED
    BY <1>5, <1>12, <1>13, <2>1
<1>16. Enumerates(o, S)
  BY <1>12, <1>13, <1>14, <1>15 DEF Enumerates
<1>17. QED
  BY <1>14, <1>16 DEF o, n

\* PathLess is a strict total order.
LEMMA PathsAreOrdered ==
    /\ \A p \in Seq(Nat) : ~PathLess(p, p)
    /\ \A p, q, r \in Seq(Nat) : PathLess(p, q) /\ PathLess(q, r) => PathLess(p, r)
    /\ \A p, q \in Seq(Nat) : p = q \/ PathLess(p, q) \/ PathLess(q, p)
<1> DEFINE Branch(p, q, i) == /\ i \in Nat /\ i <= Len(p) /\ i < Len(q)
                              /\ \A k \in 1 .. i : p[k] = q[k]
                              /\ i = Len(p) \/ p[i + 1] < q[i + 1]
<1>1. ASSUME NEW p \in Seq(Nat), NEW q \in Seq(Nat)
      PROVE  PathLess(p, q) <=> \E i : Branch(p, q, i)
  <2>1. Len(p) \in Nat /\ Len(q) \in Nat
    BY LenProperties
  <2>2. ASSUME NEW i \in Nat, i <= Len(p), i <= Len(q)
        PROVE  SubSeq(p, 1, i) = SubSeq(q, 1, i) <=> \A k \in 1 .. i : p[k] = q[k]
    <3>1. \A k \in 1 .. i : p[k] \in Nat /\ q[k] \in Nat
      BY <2>1, <2>2, ElementOfSeq, SMTT(30)
    <3>2. /\ SubSeq(p, 1, i) \in Seq(Nat) /\ Len(SubSeq(p, 1, i)) = i
          /\ \A k \in 1 .. i : SubSeq(p, 1, i)[k] = p[k]
      BY <2>1, <2>2, <3>1, SubSeqProperties
    <3>3. /\ SubSeq(q, 1, i) \in Seq(Nat) /\ Len(SubSeq(q, 1, i)) = i
          /\ \A k \in 1 .. i : SubSeq(q, 1, i)[k] = q[k]
      BY <2>1, <2>2, <3>1, SubSeqProperties
    <3> DEFINE a == SubSeq(p, 1, i)
               b == SubSeq(q, 1, i)
    <3> HIDE DEF a, b
    <3>4. a = b <=> \A k \in 1 .. i : a[k] = b[k]
      BY <3>2, <3>3, SeqEqual DEF a, b
    <3>5. QED
      BY <3>2, <3>3, <3>4 DEF a, b
  <2>3. ASSUME PathLess(p, q)
        PROVE  \E i : Branch(p, q, i)
    <3>1. PICK i \in 0 .. Len(p) : /\ i < Len(q) /\ SubSeq(p, 1, i) = SubSeq(q, 1, i)
                                   /\ i = Len(p) \/ p[i + 1] < q[i + 1]
      BY <2>3 DEF PathLess
    <3>2. i \in Nat /\ i <= Len(p) /\ i <= Len(q)
      BY <2>1, <3>1
    <3>3. Branch(p, q, i)
      BY <2>2, <3>1, <3>2
    <3> HIDE DEF Branch
    <3>4. QED
      BY <3>3
  <2>4. ASSUME NEW i, Branch(p, q, i)
        PROVE  PathLess(p, q)
    <3>1. i \in 0 .. Len(p) /\ i <= Len(q)
      BY <2>1, <2>4
    <3>2. SubSeq(p, 1, i) = SubSeq(q, 1, i)
      BY <2>2, <2>4, <3>1
    <3>3. QED
      BY <2>4, <3>1, <3>2 DEF PathLess
  <2> HIDE DEF Branch
  <2>5. QED
    BY <2>3, <2>4
<1>2. \A p \in Seq(Nat) : \A k : k \in 1 .. Len(p) => p[k] \in Nat
  BY ElementOfSeq
<1>3. \A p \in Seq(Nat) : Len(p) \in Nat
  BY LenProperties
<1>4. ASSUME NEW p \in Seq(Nat), NEW i, Branch(p, p, i)
      PROVE  FALSE
  <2>1. i + 1 \in 1 .. Len(p) /\ Len(p) \in Nat
    BY <1>3, <1>4
  <2>2. p[i + 1] \in Nat
    BY <1>2, <2>1
  <2>3. QED
    BY <1>4, <2>1, <2>2
<1>5. ASSUME NEW p \in Seq(Nat), NEW q \in Seq(Nat), NEW r \in Seq(Nat), NEW i, NEW j,
             Branch(p, q, i), Branch(q, r, j)
      PROVE  \E m : Branch(p, r, m)
  <2>1. Len(p) \in Nat /\ Len(q) \in Nat /\ Len(r) \in Nat
    BY <1>3
  <2>2. CASE i < j
    <3>1. i + 1 \in 1 .. j
      BY <1>5, <2>2
    <3>2. q[i + 1] = r[i + 1]
      BY <1>5, <3>1
    <3>3. \A k \in 1 .. i : k \in 1 .. j
      BY <1>5, <2>2
    <3>4. Branch(p, r, i)
      BY <1>5, <2>1, <2>2, <3>2, <3>3, SMTT(30)
    <3> HIDE DEF Branch
    <3>5. QED
      BY <3>4
  <2>3. CASE j < i
    <3>1. j + 1 \in 1 .. i /\ j # Len(q)
      BY <1>5, <2>1, <2>3
    <3>2. p[j + 1] = q[j + 1]
      BY <1>5, <3>1
    <3>3. \A k \in 1 .. j : k \in 1 .. i
      BY <1>5, <2>3
    <3>4. j \in Nat /\ j <= Len(p) /\ j < Len(r)
      BY <1>5, <2>1, <2>3
    <3>5. \A k \in 1 .. j : p[k] = r[k]
      BY <1>5, <3>3
    <3>6. p[j + 1] < r[j + 1]
      BY <1>5, <3>1, <3>2
    <3>7. Branch(p, r, j)
      BY <3>4, <3>5, <3>6
    <3> HIDE DEF Branch
    <3>8. QED
      BY <3>7
  <2>4. CASE i = j
    <3>1. i = Len(p) \/ p[i + 1] < r[i + 1]
      <4> SUFFICES ASSUME i # Len(p)
                   PROVE  p[i + 1] < r[i + 1]
        OBVIOUS
      <4>1. i + 1 \in 1 .. Len(p) /\ i + 1 \in 1 .. Len(q) /\ i + 1 \in 1 .. Len(r)
        BY <1>5, <2>1, <2>4, SMTT(30)
      <4>2. p[i + 1] \in Nat /\ q[i + 1] \in Nat /\ r[i + 1] \in Nat
        BY <1>2, <4>1
      <4>3. p[i + 1] < q[i + 1] /\ q[i + 1] < r[i + 1]
        BY <1>5, <2>1, <2>4
      <4>4. QED
        BY <4>2, <4>3
    <3>2. Branch(p, r, i)
      BY <1>5, <2>4, <3>1
    <3> HIDE DEF Branch
    <3>3. QED
      BY <3>2
  <2>5. i \in Nat /\ j \in Nat
    BY <1>5
  <2>6. QED
    BY <2>2, <2>3, <2>4, <2>5
<1>6. ASSUME NEW p \in Seq(Nat), NEW q \in Seq(Nat), p # q
      PROVE  (\E i : Branch(p, q, i)) \/ \E i : Branch(q, p, i)
  <2>1. Len(p) \in Nat /\ Len(q) \in Nat
    BY <1>3
  <2> DEFINE m == IF Len(p) <= Len(q) THEN Len(p) ELSE Len(q)
             T == {k \in Nat : k + 1 <= m /\ p[k + 1] # q[k + 1]}
  <2>2. m \in Nat /\ m <= Len(p) /\ m <= Len(q) /\ (m = Len(p) \/ m = Len(q))
    BY <2>1
  <2> HIDE DEF m
  <2>3. CASE T = {}
    <3>1. ASSUME NEW k \in 1 .. m
          PROVE  p[k] = q[k]
      <4>1. k - 1 \in Nat /\ (k - 1) + 1 = k /\ k <= m
        BY <2>2
      <4>2. k - 1 \notin T
        BY <2>3
      <4>3. QED
        BY <4>1, <4>2
    <3>2. Len(p) # Len(q)
      <4> SUFFICES ASSUME Len(p) = Len(q)
                   PROVE  FALSE
        OBVIOUS
      <4>1. \A k \in 1 .. Len(p) : p[k] = q[k]
        BY <2>2, <3>1
      <4>2. QED
        BY <1>6, <4>1, SeqEqual
    <3>3. Branch(p, q, m) \/ Branch(q, p, m)
      BY <2>1, <2>2, <3>1, <3>2
    <3> HIDE DEF Branch
    <3>4. QED
      BY <3>3
  <2>4. CASE T # {}
    <3>1. PICK i \in T : \A y \in T : i <= y
      <4>1. T \in SUBSET Nat
        OBVIOUS
      <4> HIDE DEF T
      <4>2. QED
        BY <2>4, <4>1, Least
    <3>2. i \in Nat /\ i + 1 <= m /\ p[i + 1] # q[i + 1]
      BY <3>1
    <3>3. ASSUME NEW k \in 1 .. i
          PROVE  p[k] = q[k]
      <4>1. k - 1 \in Nat /\ (k - 1) + 1 = k /\ k <= m /\ ~(i <= k - 1)
        BY <2>2, <3>2
      <4>2. k - 1 \notin T
        BY <3>1, <4>1
      <4>3. QED
        BY <4>1, <4>2
    <3> HIDE DEF T
    <3>4. p[i + 1] \in Nat /\ q[i + 1] \in Nat
      <4>1. i + 1 \in 1 .. Len(p) /\ i + 1 \in 1 .. Len(q)
        BY <2>1, <2>2, <3>2, SMTT(30)
      <4>2. QED
        BY <1>2, <4>1
    <3>5. i <= Len(p) /\ i < Len(q) /\ i <= Len(q) /\ i < Len(p)
      BY <2>1, <2>2, <3>2, SMTT(30)
    <3>6. \A k \in 1 .. i : p[k] = q[k]
      BY <3>3
    <3>7. CASE p[i + 1] < q[i + 1]
      <4>1. Branch(p, q, i)
        BY <3>2, <3>5, <3>6, <3>7
      <4> HIDE DEF Branch
      <4>2. QED
        BY <4>1
    <3>8. CASE q[i + 1] < p[i + 1]
      <4>1. Branch(q, p, i)
        BY <3>2, <3>5, <3>6, <3>8
      <4> HIDE DEF Branch
      <4>2. QED
        BY <4>1
    <3>9. QED
      BY <3>2, <3>4, <3>7, <3>8
  <2>5. QED
    BY <2>3, <2>4
<1> HIDE DEF Branch
<1>7. \A p \in Seq(Nat) : ~PathLess(p, p)
  BY <1>1, <1>4
<1>8. \A p, q, r \in Seq(Nat) : PathLess(p, q) /\ PathLess(q, r) => PathLess(p, r)
  BY <1>1, <1>5
<1>9. \A p, q \in Seq(Nat) : p = q \/ PathLess(p, q) \/ PathLess(q, p)
  BY <1>1, <1>6
<1>10. QED
  BY <1>7, <1>8, <1>9

\* sortDirsByPath and sortFilesByPath list each path once.
LEMMA SortedEnumerates ==
    ASSUME NEW S, IsFiniteSet(S), S \subseteq Seq(Nat)
    PROVE  Enumerates(Sorted(S), S) /\ Len(Sorted(S)) = Cardinality(S)
<1> DEFINE before == [p \in S |-> {q \in S : PathLess(q, p)}]
<1>1. \A x \in S : before[x] \subseteq S /\ x \notin before[x]
  BY PathsAreOrdered
<1>2. \A x, y \in S : y \in before[x] => before[y] \subseteq before[x]
  BY PathsAreOrdered
<1>3. \A x, y \in S : x = y \/ x \in before[y] \/ y \in before[x]
  BY PathsAreOrdered
<1> HIDE DEF before
<1>4. Enumerates(Ordered(S, before), S) /\ Len(Ordered(S, before)) = Cardinality(S)
  BY <1>1, <1>2, <1>3, OrderedEnumerates
<1>5. QED
  BY <1>4 DEF Sorted, before

\* allNodes lists each directory and each file once.
LEMMA InOrderEnumerates ==
    ASSUME NEW S, NEW T, IsFiniteSet(S), IsFiniteSet(T), S \cup T \subseteq Seq(Nat),
           S \cap T = {}
    PROVE  Enumerates(InOrder(S, T), S \cup T)
<1>1. Enumerates(Sorted(S), S) /\ Enumerates(Sorted(T), T)
  BY SortedEnumerates
<1>2. QED
  BY <1>1, EnumeratesBoth DEF InOrder

----------------------------------------------------------------------------
(* Sums, and offsets in directories.                                        *)

\* What the first i sizes are together grows with i.
LEMMA TotalsAdd ==
    ASSUME NEW sizes, NEW n, IsList(sizes, n), \A i \in 1 .. n : sizes[i] \in Nat
    PROVE  /\ Totals(sizes) \in [0 .. n -> Nat] /\ Totals(sizes)[0] = 0
           /\ \A i \in 1 .. n : Totals(sizes)[i] = Totals(sizes)[i - 1] + sizes[i]
           /\ \A i, j \in 0 .. n : i <= j => Totals(sizes)[i] <= Totals(sizes)[j]
           /\ SumOf(sizes) = Totals(sizes)[n]
<1> DEFINE F == [p \in Nat \X (1 .. n) |-> p[1] + sizes[p[2]]]
           Right(f) == f = [i \in 0 .. n |-> IF i = 0 THEN 0 ELSE f[i - 1] + sizes[i]]
           s == Totals(sizes)
<1>1. n \in Nat /\ Len(sizes) = n
  BY IndexOfListed DEF IsList
<1>2. \E f \in [0 .. n -> Nat] : Right(f)
  <2>1. F \in [Nat \X (1 .. n) -> Nat]
    OBVIOUS
  <2>2. PICK f \in [0 .. n -> Nat] : f = [i \in 0 .. n |-> IF i = 0 THEN 0 ELSE F[<<f[i - 1], i>>]]
    <3> HIDE DEF F
    <3>1. PICK b \in Nat : b = 0
      OBVIOUS
    <3>2. \E f \in [0 .. n -> Nat] : f = [i \in 0 .. n |-> IF i = 0 THEN b ELSE F[<<f[i - 1], i>>]]
      <4>1. n \in Nat
        BY <1>1
      <4>2. QED
        BY <2>1, <4>1, Loop, ZenonT(60)
    <3>3. QED
      BY <3>1, <3>2
  <2>3. \A i \in 0 .. n : i # 0 => i \in 1 .. n /\ i - 1 \in 0 .. n /\ f[i - 1] \in Nat
    BY <1>1
  <2>4. \A i \in 0 .. n : i # 0 => F[<<f[i - 1], i>>] = f[i - 1] + sizes[i]
    BY <2>3
  <2> HIDE DEF F
  <2>5. Right(f)
    BY <2>2, <2>4
  <2>6. QED
    BY <2>5
<1>3. Right(s)
  <2> DEFINE sum == CHOOSE f : Right(f)
  <2>1. s = sum
    BY <1>1 DEF Totals
  <2> HIDE DEF Right, s
  <2>2. QED
    BY <1>2, <2>1
<1> HIDE DEF s, F
<1>4. s[0] = 0 /\ \A i \in 1 .. n : s[i] = s[i - 1] + sizes[i]
  <2>1. \A i \in 1 .. n : i \in 0 .. n /\ i # 0
    BY <1>1
  <2>2. 0 \in 0 .. n
    BY <1>1
  <2>3. QED
    BY <1>3, <2>1, <2>2
<1>5. \A i \in 0 .. n : s[i] \in Nat
  <2> DEFINE T == {i \in Nat : i <= n => s[i] \in Nat}
  <2>1. 0 \in T
    BY <1>4
  <2>2. ASSUME NEW i \in Nat, i \in T
        PROVE  i + 1 \in T
    <3>1. i + 1 <= n => i + 1 \in 1 .. n /\ i <= n /\ (i + 1) - 1 = i
      BY <1>1
    <3>2. QED
      BY <1>4, <2>2, <3>1
  <2>3. Nat \subseteq T
    <3> HIDE DEF T
    <3>1. QED
      BY <2>1, <2>2, Induction
  <2>4. QED
    BY <1>1, <2>3
<1>6. s \in [0 .. n -> Nat]
  <2>1. s = [i \in 0 .. n |-> s[i]]
    BY <1>3
  <2>2. QED
    BY <1>5, <2>1
<1>7. ASSUME NEW i \in 0 .. n
      PROVE  \A j \in 0 .. n : i <= j => s[i] <= s[j]
  <2> DEFINE T == {j \in Nat : j <= n /\ i <= j => s[i] <= s[j]}
  <2>1. 0 \in T
    BY <1>5, <1>1
  <2>2. ASSUME NEW j \in Nat, j \in T
        PROVE  j + 1 \in T
    <3> SUFFICES ASSUME j + 1 <= n, i <= j + 1
                 PROVE  s[i] <= s[j + 1]
      OBVIOUS
    <3>1. CASE i = j + 1
      BY <1>5, <3>1
    <3>2. CASE i <= j
      <4>1. s[i] <= s[j]
        BY <2>2, <3>2, <1>1
      <4>2. j + 1 \in 1 .. n /\ j \in 0 .. n /\ (j + 1) - 1 = j
        BY <1>1
      <4>3. s[j + 1] = s[j] + sizes[j + 1]
        BY <1>4, <4>2
      <4>4. QED
        BY <1>5, <4>1, <4>2, <4>3
    <3>3. QED
      BY <3>1, <3>2, <1>1
  <2>3. Nat \subseteq T
    <3> HIDE DEF T
    <3>1. QED
      BY <2>1, <2>2, Induction
  <2>4. QED
    BY <1>1, <2>3
<1>8. SumOf(sizes) = s[n]
  BY <1>1 DEF SumOf, s
<1>9. QED
  BY <1>4, <1>6, <1>7, <1>8 DEF s

\* The constants.
LEMMA Amounts ==
    /\ BlockSize \in Nat \ {0} /\ DirentMax \in Nat \ {0} /\ DotSize \in Nat \ {0}
    /\ DotSize <= DirentMax /\ DirentMax <= BlockSize
    /\ InodesPerBlock \in Nat \ {0} /\ PathEntSize \in Nat \ {0}
    /\ Direct \in Nat \ {0} /\ SigsPerBlock \in Nat \ {0}
    /\ MinBlocks \in Nat /\ ListGap \in Nat /\ PfscHead \in Nat /\ PfscHead < BlockSize
  BY PFSAssumption

\* A quotient is known from its number and rest.
LEMMA Quotient ==
    ASSUME NEW x \in Nat, NEW y \in Nat \ {0}, NEW q \in Nat, NEW r \in Nat,
           r < y, x = y * q + r
    PROVE  x \div y = q /\ x % y = r
<1> DEFINE a == x \div y
           c == x % y
<1>1. a \in Nat /\ c \in 0 .. y - 1 /\ x = y * a + c
  BY Division
<1> HIDE DEF a, c
<1>2. y * (a + 1) = y * a + y /\ y * (q + 1) = y * q + y
  <2>1. (a + 1) * y = a * y + 1 * y /\ (q + 1) * y = q * y + 1 * y
    BY <1>1, Multiples
  <2>2. a * y = y * a /\ q * y = y * q /\ (a + 1) * y = y * (a + 1) /\ (q + 1) * y = y * (q + 1)
    BY <1>1, Multiples
  <2>3. QED
    BY <2>1, <2>2
<1>3. y * a \in Nat /\ y * q \in Nat
  BY <1>1, Multiples
<1>4. CASE a < q
  <2>1. y * (a + 1) <= y * q
    BY <1>1, <1>4, Multiples
  <2>2. QED
    BY <1>1, <1>2, <1>3, <2>1
<1>5. CASE q < a
  <2>1. y * (q + 1) <= y * a
    BY <1>1, <1>5, Multiples
  <2>2. QED
    BY <1>1, <1>2, <1>3, <2>1
<1>6. CASE a = q
  BY <1>1, <1>3, <1>6 DEF a, c
<1>7. QED
  BY <1>1, <1>4, <1>5, <1>6

\* The starts of blocks are in order.
LEMMA BlockStarts ==
    /\ \A c \in Nat : c * BlockSize \in Nat /\ (c + 1) * BlockSize = c * BlockSize + BlockSize
    /\ \A c, d \in Nat : c <= d => c * BlockSize <= d * BlockSize
    /\ \A c, d \in Nat : c < d => c * BlockSize + BlockSize <= d * BlockSize
    /\ \A x \in Nat : \E c, r \in Nat : x = c * BlockSize + r /\ r < BlockSize
                                        /\ x \div BlockSize = c /\ x % BlockSize = r
<1>1. BlockSize \in Nat \ {0}
  BY Amounts
<1>2. \A c \in Nat : c * BlockSize \in Nat /\ (c + 1) * BlockSize = c * BlockSize + BlockSize
  <2> TAKE c \in Nat
  <2>1. (c + 1) * BlockSize = c * BlockSize + 1 * BlockSize
    BY <1>1, Multiples
  <2>2. QED
    BY <1>1, <2>1, Multiples
<1>3. \A c, d \in Nat : c <= d => c * BlockSize <= d * BlockSize
  <2> TAKE c, d \in Nat
  <2>1. c <= d => BlockSize * c <= BlockSize * d
    BY <1>1, Multiples
  <2>2. QED
    BY <1>1, <2>1, Multiples
<1>4. \A c, d \in Nat : c < d => c * BlockSize + BlockSize <= d * BlockSize
  <2> TAKE c, d \in Nat
  <2>1. c < d => c + 1 <= d
    OBVIOUS
  <2>2. QED
    BY <1>2, <1>3, <2>1
<1>5. ASSUME NEW x \in Nat
      PROVE  \E c, r \in Nat : x = c * BlockSize + r /\ r < BlockSize
                               /\ x \div BlockSize = c /\ x % BlockSize = r
  <2> DEFINE c == x \div BlockSize
             r == x % BlockSize
  <2>1. c \in Nat /\ r \in 0 .. BlockSize - 1 /\ x = BlockSize * c + r
    BY <1>1, Division
  <2>2. BlockSize * c = c * BlockSize
    BY <1>1, <2>1, Multiples
  <2>3. c \in Nat /\ r \in Nat /\ r < BlockSize
    BY <1>1, <2>1
  <2> HIDE DEF c, r
  <2>4. x = c * BlockSize + r
    BY <2>1, <2>2
  <2>5. QED
    BY <2>3, <2>4 DEF c, r
<1>6. QED
  BY <1>2, <1>3, <1>4, <1>5

\* Blocks of something.
LEMMA BlocksAreEnough ==
    /\ \A x \in Nat : BlocksOf(x) \in Nat /\ x <= BlocksOf(x) * BlockSize
                      /\ BlocksOf(x * BlockSize) = x
                      /\ (x > 0 => BlocksOf(x) > 0)
    /\ \A x, c, r \in Nat : x = c * BlockSize + r /\ r > 0 /\ r <= BlockSize
                            => BlocksOf(x) = c + 1
<1>1. BlockSize \in Nat \ {0}
  BY Amounts
<1>2. ASSUME NEW x \in Nat, NEW c \in Nat, NEW r \in Nat, x = c * BlockSize + r,
             r > 0, r <= BlockSize
      PROVE  BlocksOf(x) = c + 1
  <2>1. c * BlockSize \in Nat /\ (c + 1) * BlockSize = c * BlockSize + BlockSize
    BY BlockStarts
  <2>2. BlockSize * (c + 1) = (c + 1) * BlockSize
    BY <1>1, Multiples
  <2>3. x + BlockSize - 1 = BlockSize * (c + 1) + (r - 1)
    BY <1>1, <1>2, <2>1, <2>2
  <2>4. r - 1 \in Nat /\ r - 1 < BlockSize /\ c + 1 \in Nat /\ x + BlockSize - 1 \in Nat
    BY <1>1, <1>2
  <2>5. (x + BlockSize - 1) \div BlockSize = c + 1
    BY <1>1, <2>3, <2>4, Quotient
  <2>6. QED
    BY <2>5 DEF BlocksOf, ceilDiv
<1>3. ASSUME NEW x \in Nat
      PROVE  BlocksOf(x * BlockSize) = x
  <2>1. x * BlockSize \in Nat /\ BlockSize * x = x * BlockSize
    BY <1>1, Multiples
  <2>2. x * BlockSize + BlockSize - 1 \in Nat /\ BlockSize - 1 \in Nat /\ BlockSize - 1 < BlockSize
        /\ x * BlockSize + BlockSize - 1 = BlockSize * x + (BlockSize - 1)
    BY <1>1, <2>1
  <2>3. (x * BlockSize + BlockSize - 1) \div BlockSize = x
    BY <1>1, <2>2, Quotient
  <2>4. QED
    BY <2>3 DEF BlocksOf, ceilDiv
<1>4. ASSUME NEW x \in Nat
      PROVE  BlocksOf(x) \in Nat /\ x <= BlocksOf(x) * BlockSize /\ (x > 0 => BlocksOf(x) > 0)
  <2>1. PICK c \in Nat, r \in Nat : x = c * BlockSize + r /\ r < BlockSize
    BY BlockStarts
  <2>2. c * BlockSize \in Nat /\ (c + 1) * BlockSize = c * BlockSize + BlockSize
    BY BlockStarts
  <2>3. CASE r = 0
    <3>1. x = c * BlockSize
      BY <2>1, <2>2, <2>3
    <3>2. BlocksOf(x) = c
      BY <1>3, <3>1
    <3>3. c = 0 => x = 0
      BY <1>1, <3>1
    <3>4. QED
      BY <3>1, <3>2, <3>3, <2>2
  <2>4. CASE r > 0
    <3>1. r <= BlockSize
      BY <1>1, <2>1
    <3>2. BlocksOf(x) = c + 1
      BY <1>2, <2>1, <2>4, <3>1
    <3>3. QED
      BY <1>1, <2>1, <2>2, <3>2
  <2>5. QED
    BY <2>3, <2>4
<1>5. QED
  BY <1>2, <1>3, <1>4

\* Where an entry may start: not before the end of the one in front of it, in the
\* same block if both are in one, and with room for an entry before the next block.
LEMMA Offsets ==
    ASSUME NEW x \in Nat
    PROVE  /\ NextOffset(x) \in Nat /\ x <= NextOffset(x)
           /\ \A c \in Nat : x <= c * BlockSize => NextOffset(x) <= c * BlockSize
           /\ \A c \in Nat : NextOffset(x) < c * BlockSize
                             => NextOffset(x) + DirentMax <= c * BlockSize
           /\ \A c \in Nat : c * BlockSize < x /\ NextOffset(x) < (c + 1) * BlockSize
                             => NextOffset(x) = x
<1> DEFINE y == NextOffset(x)
<1>1. BlockSize \in Nat \ {0} /\ DirentMax \in Nat \ {0} /\ DirentMax <= BlockSize
  BY Amounts
<1>2. PICK q \in Nat, r \in Nat : x = q * BlockSize + r /\ r < BlockSize /\ x % BlockSize = r
  BY BlockStarts
<1>3. q * BlockSize \in Nat /\ (q + 1) * BlockSize = q * BlockSize + BlockSize
  BY BlockStarts
<1>4. CASE r > BlockSize - DirentMax
  <2>1. BlocksOf(x) = q + 1
    <3>1. r > 0 /\ r <= BlockSize
      BY <1>1, <1>2, <1>4
    <3>2. QED
      BY <1>2, <3>1, BlocksAreEnough
  <2>2. y = (q + 1) * BlockSize
    BY <1>2, <1>4, <2>1 DEF NextOffset
  <2> HIDE DEF y
  <2>3. y \in Nat /\ x <= y
    BY <1>1, <1>2, <1>3, <2>2
  <2>4. ASSUME NEW c \in Nat
        PROVE  /\ x <= c * BlockSize => y <= c * BlockSize
               /\ y < c * BlockSize => y + DirentMax <= c * BlockSize
               /\ ~(c * BlockSize < x /\ y < (c + 1) * BlockSize)
    <3>1. c * BlockSize \in Nat /\ (c + 1) * BlockSize = c * BlockSize + BlockSize
      BY BlockStarts
    <3>2. CASE c <= q
      <4>1. c * BlockSize <= q * BlockSize
        BY <3>2, BlockStarts
      <4>2. QED
        BY <1>1, <1>2, <1>3, <1>4, <2>2, <3>1, <4>1
    <3>3. CASE c = q + 1
      BY <1>1, <1>2, <1>3, <2>2, <3>1, <3>3
    <3>4. CASE q + 1 < c
      <4>1. (q + 1) * BlockSize + BlockSize <= c * BlockSize
        BY <3>4, BlockStarts
      <4>2. QED
        BY <1>1, <1>2, <1>3, <2>2, <3>1, <4>1
    <3>5. QED
      BY <3>2, <3>3, <3>4
  <2>5. QED
    BY <2>3, <2>4 DEF y
<1>5. CASE ~(r > BlockSize - DirentMax)
  <2>1. y = x
    BY <1>2, <1>5 DEF NextOffset
  <2>2. ASSUME NEW c \in Nat, x < c * BlockSize
        PROVE  x + DirentMax <= c * BlockSize
    <3>1. c * BlockSize \in Nat
      BY BlockStarts
    <3>2. CASE c <= q
      <4>1. c * BlockSize <= q * BlockSize
        BY <3>2, BlockStarts
      <4>2. QED
        BY <1>2, <1>3, <2>2, <3>1, <4>1
    <3>3. CASE q < c
      <4>1. q * BlockSize + BlockSize <= c * BlockSize
        BY <3>3, BlockStarts
      <4>2. QED
        BY <1>1, <1>2, <1>3, <1>5, <3>1, <4>1
    <3>4. QED
      BY <3>2, <3>3
  <2>3. QED
    BY <2>1, <2>2
<1>6. QED
  BY <1>1, <1>2, <1>4, <1>5

\* Where the entries of a directory start.
LEMMA StartsFollow ==
    ASSUME NEW e, NEW n, IsList(e, n), \A i \in 1 .. n : entSize(e[i]) \in 1 .. DirentMax
    PROVE  /\ Starts(e)[0] = 0 /\ \A i \in 0 .. n : Starts(e)[i] \in Nat
           /\ \A i \in 1 .. n : Starts(e)[i] = NextOffset(Starts(e)[i - 1] + entSize(e[i]))
<1> DEFINE G(x, i) == NextOffset(x + entSize(e[i]))
           F == [p \in Nat \X (1 .. n) |-> G(p[1], p[2])]
           Right(f) == f = [i \in 0 .. n |-> IF i = 0 THEN 0
                                             ELSE NextOffset(f[i - 1] + entSize(e[i]))]
           s == Starts(e)
<1>1. n \in Nat /\ Len(e) = n
  BY IndexOfListed DEF IsList
<1>2. \A x \in Nat, i \in 1 .. n : G(x, i) \in Nat
  <2> TAKE x \in Nat, i \in 1 .. n
  <2>1. x + entSize(e[i]) \in Nat
    BY Amounts
  <2>2. QED
    BY <2>1, Offsets
<1>3. \E f \in [0 .. n -> Nat] : Right(f)
  <2>1. F \in [Nat \X (1 .. n) -> Nat]
    <3> HIDE DEF G
    <3>1. QED
      BY <1>2
  <2>2. PICK f \in [0 .. n -> Nat] : f = [i \in 0 .. n |-> IF i = 0 THEN 0 ELSE F[<<f[i - 1], i>>]]
    <3> HIDE DEF F
    <3>1. PICK b \in Nat : b = 0
      OBVIOUS
    <3>2. \E f \in [0 .. n -> Nat] : f = [i \in 0 .. n |-> IF i = 0 THEN b ELSE F[<<f[i - 1], i>>]]
      <4>1. n \in Nat
        BY <1>1
      <4>2. QED
        BY <2>1, <4>1, Loop, ZenonT(60)
    <3>3. QED
      BY <3>1, <3>2
  <2>3. \A i \in 0 .. n : i # 0 => i \in 1 .. n /\ i - 1 \in 0 .. n /\ f[i - 1] \in Nat
    BY <1>1
  <2>4. \A i \in 0 .. n : i # 0 => F[<<f[i - 1], i>>] = G(f[i - 1], i)
    <3> HIDE DEF G
    <3>1. QED
      BY <2>3
  <2> HIDE DEF F
  <2>5. Right(f)
    BY <2>2, <2>4
  <2>6. QED
    BY <2>5
<1>4. Right(s)
  <2> DEFINE at == CHOOSE f : Right(f)
  <2>1. s = at
    BY <1>1 DEF Starts
  <2> HIDE DEF Right, s
  <2>2. QED
    BY <1>3, <2>1
<1> HIDE DEF s, F
<1>5. s[0] = 0 /\ \A i \in 1 .. n : s[i] = G(s[i - 1], i)
  <2>1. \A i \in 1 .. n : i \in 0 .. n /\ i # 0
    BY <1>1
  <2>2. 0 \in 0 .. n
    BY <1>1
  <2>3. QED
    BY <1>4, <2>1, <2>2
<1>6. \A i \in 0 .. n : s[i] \in Nat
  <2> DEFINE T == {i \in Nat : i <= n => s[i] \in Nat}
  <2> HIDE DEF G
  <2>1. 0 \in T
    BY <1>5
  <2>2. ASSUME NEW i \in Nat, i \in T
        PROVE  i + 1 \in T
    <3>1. i + 1 <= n => i + 1 \in 1 .. n /\ i <= n /\ (i + 1) - 1 = i
      BY <1>1
    <3>2. QED
      BY <1>2, <1>5, <2>2, <3>1
  <2>3. Nat \subseteq T
    <3> HIDE DEF T
    <3>1. QED
      BY <2>1, <2>2, Induction
  <2>4. QED
    BY <1>1, <2>3
<1>7. QED
  BY <1>5, <1>6 DEF s

\* How the parser goes through a block from s on.
LEMMA CursorRuns ==
    ASSUME NEW p, NEW n, IsList(p, n), \A i \in 1 .. n : entSize(p[i].entry) \in Nat,
           NEW s \in Nat, NEW e, e = s + BlockSize
    PROVE  /\ Cursor(p, e)[0] = s
           /\ \A i \in 1 .. n :
                 Cursor(p, e)[i] = IF Follows(p, i, Cursor(p, e)[i - 1], e)
                                   THEN Cursor(p, e)[i - 1] + entSize(p[i].entry)
                                   ELSE Cursor(p, e)[i - 1]
           /\ \A i \in 0 .. n : Cursor(p, e)[i] \in Nat /\ s <= Cursor(p, e)[i]
<1> DEFINE G(x, i) == IF Follows(p, i, x, e) THEN x + entSize(p[i].entry) ELSE x
           F == [a \in Nat \X (1 .. n) |-> G(a[1], a[2])]
           Right(f) == f = [i \in 0 .. n |->
                               IF i = 0 THEN e - BlockSize
                               ELSE IF Follows(p, i, f[i - 1], e)
                                    THEN f[i - 1] + entSize(p[i].entry) ELSE f[i - 1]]
           c == Cursor(p, e)
<1>1. n \in Nat /\ Len(p) = n
  BY IndexOfListed DEF IsList
<1>2. \A x \in Nat, i \in 1 .. n : G(x, i) \in Nat /\ x <= G(x, i)
  OBVIOUS
<1>3. e - BlockSize = s
  BY Amounts
<1>4. \E f \in [0 .. n -> Nat] : Right(f)
  <2>1. F \in [Nat \X (1 .. n) -> Nat]
    <3> HIDE DEF G
    <3>1. QED
      BY <1>2
  <2>2. PICK f \in [0 .. n -> Nat] : f = [i \in 0 .. n |-> IF i = 0 THEN s ELSE F[<<f[i - 1], i>>]]
    <3> HIDE DEF F
    <3>1. n \in Nat
      BY <1>1
    <3>2. QED
      BY <2>1, <3>1, Loop, ZenonT(60)
  <2>3. \A i \in 0 .. n : i # 0 => i \in 1 .. n /\ i - 1 \in 0 .. n /\ f[i - 1] \in Nat
    BY <1>1
  <2>4. \A i \in 0 .. n : i # 0 => F[<<f[i - 1], i>>] = G(f[i - 1], i)
    <3> HIDE DEF G
    <3>1. QED
      BY <2>3
  <2> HIDE DEF F
  <2>5. Right(f)
    BY <1>3, <2>2, <2>4
  <2>6. QED
    BY <2>5
<1>5. Right(c)
  <2> DEFINE at == CHOOSE f : Right(f)
  <2>1. c = at
    BY <1>1 DEF Cursor
  <2> HIDE DEF Right, c
  <2>2. QED
    BY <1>4, <2>1
<1> HIDE DEF c, F
<1>6. c[0] = s /\ \A i \in 1 .. n : c[i] = G(c[i - 1], i)
  <2>1. \A i \in 1 .. n : i \in 0 .. n /\ i # 0
    BY <1>1
  <2>2. 0 \in 0 .. n
    BY <1>1
  <2>3. QED
    BY <1>3, <1>5, <2>1, <2>2
<1>7. \A i \in 0 .. n : c[i] \in Nat /\ s <= c[i]
  <2> DEFINE T == {i \in Nat : i <= n => c[i] \in Nat /\ s <= c[i]}
  <2> HIDE DEF G
  <2>1. 0 \in T
    BY <1>6
  <2>2. ASSUME NEW i \in Nat, i \in T
        PROVE  i + 1 \in T
    <3> SUFFICES ASSUME i + 1 <= n
                 PROVE  c[i + 1] \in Nat /\ s <= c[i + 1]
      OBVIOUS
    <3>1. i + 1 \in 1 .. n /\ i <= n /\ (i + 1) - 1 = i
      BY <1>1
    <3>2. c[i] \in Nat /\ s <= c[i]
      BY <2>2, <3>1
    <3>3. c[i + 1] = G(c[i], i + 1)
      BY <1>6, <3>1
    <3>4. G(c[i], i + 1) \in Nat /\ c[i] <= G(c[i], i + 1)
      BY <1>2, <3>1, <3>2
    <3>5. QED
      BY <3>2, <3>3, <3>4
  <2>3. Nat \subseteq T
    <3> HIDE DEF T
    <3>1. QED
      BY <2>1, <2>2, Induction
  <2>4. QED
    BY <1>1, <2>3
<1>8. QED
  BY <1>6, <1>7 DEF c

\* The parser finds in a block the entries that start in it: they begin at its start,
\* go on without a gap and end within it.
LEMMA BlockIsParsed ==
    ASSUME NEW p, NEW n, IsList(p, n),
           \A i \in 1 .. n : p[i].at \in Nat /\ entSize(p[i].entry) \in Nat \ {0},
           NEW k \in Nat, NEW s \in Nat, NEW e, e = s + BlockSize, k * BlockSize = e,
           n > 0 => p[1].at = 0,
           \A i \in 1 .. n : i + 1 <= n =>
              LET end == p[i].at + entSize(p[i].entry)
              IN  /\ end <= p[i + 1].at
                  /\ end <= s => p[i + 1].at <= s
                  /\ s < end /\ p[i + 1].at < e => p[i + 1].at = end,
           \A i \in 1 .. n :
              LET end == p[i].at + entSize(p[i].entry)
              IN  (p[i].at < e => end <= e) /\ (p[i].at < s => end <= s)
    PROVE  ParseBlock([dir |-> p, nth |-> k])
           = {p[i].entry : i \in {j \in 1 .. n : s <= p[j].at /\ p[j].at < e}}
<1> DEFINE c == Cursor(p, e)
           z(i) == entSize(p[i].entry)
<1>1. n \in Nat /\ DOMAIN p = 1 .. n
  BY IndexOfListed DEF IsList
<1>2. /\ c[0] = s
      /\ \A i \in 1 .. n : c[i] = IF Follows(p, i, c[i - 1], e) THEN c[i - 1] + z(i) ELSE c[i - 1]
      /\ \A i \in 0 .. n : c[i] \in Nat /\ s <= c[i]
  BY CursorRuns
<1> HIDE DEF c
<1>3. \A i \in 1 .. n : p[i].at \in Nat /\ z(i) \in Nat /\ z(i) > 0
  OBVIOUS
<1>4. \A i \in 1 .. n : i + 1 <= n =>
         /\ p[i].at + z(i) <= p[i + 1].at
         /\ p[i].at + z(i) <= s => p[i + 1].at <= s
         /\ s < p[i].at + z(i) /\ p[i + 1].at < e => p[i + 1].at = p[i].at + z(i)
  OBVIOUS
<1>5. \A i \in 1 .. n : /\ p[i].at < e => p[i].at + z(i) <= e
                        /\ p[i].at < s => p[i].at + z(i) <= s
  OBVIOUS
<1>6. e \in Nat /\ s < e
  BY Amounts
<1> HIDE DEF z
<1> DEFINE Before(i) == p[i].at < s => c[i] = s
           Here(i)   == s <= p[i].at /\ p[i].at < e =>
                           c[i - 1] = p[i].at /\ c[i] = p[i].at + z(i)
           T == {i \in Nat : i + 1 <= n => Before(i + 1) /\ Here(i + 1)}
<1>7. \A i \in 1 .. n : \A x : Follows(p, i, x, e) <=> p[i].at = x /\ x + z(i) <= e
  BY DEF Follows, z
<1>8. 0 \in T
  <2> SUFFICES ASSUME 1 <= n
               PROVE  Before(1) /\ Here(1)
    OBVIOUS
  <2>1. 1 \in 1 .. n /\ p[1].at = 0 /\ c[1 - 1] = s
    BY <1>1, <1>2
  <2>2. c[1] = IF Follows(p, 1, s, e) THEN s + z(1) ELSE s
    BY <1>2, <2>1
  <2>3. Before(1)
    BY <1>7, <2>1, <2>2
  <2>4. Here(1)
    <3> SUFFICES ASSUME s <= p[1].at, p[1].at < e
                 PROVE  c[1 - 1] = p[1].at /\ c[1] = p[1].at + z(1)
      OBVIOUS
    <3>1. s = p[1].at
      BY <2>1
    <3>2. Follows(p, 1, s, e)
      BY <1>5, <1>7, <2>1, <3>1
    <3>3. QED
      BY <2>1, <2>2, <3>1, <3>2
  <2>5. QED
    BY <2>3, <2>4
<1>9. ASSUME NEW j \in Nat, j \in T
      PROVE  j + 1 \in T
  <2> DEFINE i == j + 1
             m == i + 1
  <2> SUFFICES ASSUME m <= n
               PROVE  Before(m) /\ Here(m)
    OBVIOUS
  <2>1. i \in 1 .. n /\ m \in 1 .. n /\ m - 1 = i /\ i + 1 <= n
    BY <1>1
  <2>2. Before(i) /\ Here(i)
    BY <1>9, <2>1
  <2> HIDE DEF i
  <2>3. p[i].at + z(i) <= p[m].at /\ p[i].at < p[m].at
    BY <1>3, <1>4, <2>1
  <2>4. c[m] = IF Follows(p, m, c[i], e) THEN c[i] + z(m) ELSE c[i]
    BY <1>2, <2>1
  <2> HIDE DEF m
  <2>5. Before(m)
    <3> SUFFICES ASSUME p[m].at < s
                 PROVE  c[m] = s
      OBVIOUS
    <3>1. p[i].at < s
      BY <1>3, <2>1, <2>3
    <3>2. c[i] = s
      BY <2>2, <3>1
    <3>3. ~Follows(p, m, s, e)
      BY <1>3, <1>7, <2>1
    <3>4. QED
      BY <2>4, <3>2, <3>3
  <2>6. Here(m)
    <3> SUFFICES ASSUME s <= p[m].at, p[m].at < e
                 PROVE  c[m - 1] = p[m].at /\ c[m] = p[m].at + z(m)
      OBVIOUS
    <3>1. c[i] = p[m].at
      <4>1. CASE p[i].at < s
        <5>1. c[i] = s /\ p[i].at + z(i) <= s
          BY <1>5, <2>1, <2>2, <4>1
        <5>2. p[m].at <= s
          BY <1>4, <2>1, <5>1 DEF m
        <5>3. QED
          BY <1>3, <2>1, <5>1, <5>2
      <4>2. CASE s <= p[i].at
        <5>1. p[i].at < e
          BY <1>3, <1>6, <2>1, <2>3
        <5>2. c[i] = p[i].at + z(i)
          BY <2>2, <4>2, <5>1
        <5>3. s < p[i].at + z(i)
          BY <1>3, <2>1, <4>2
        <5>4. p[m].at = p[i].at + z(i)
          BY <1>4, <2>1, <5>3 DEF m
        <5>5. QED
          BY <5>2, <5>4
      <4>3. QED
        BY <1>3, <2>1, <4>1, <4>2
    <3>2. Follows(p, m, c[i], e)
      BY <1>5, <1>7, <2>1, <3>1
    <3>3. QED
      BY <2>1, <2>4, <3>1, <3>2
  <2>7. QED
    BY <2>5, <2>6 DEF m, i
<1>10. \A i \in 1 .. n : Before(i) /\ Here(i)
  <2>1. Nat \subseteq T
    <3> HIDE DEF T
    <3>1. QED
      BY <1>8, <1>9, Induction
  <2>2. ASSUME NEW i \in 1 .. n
        PROVE  Before(i) /\ Here(i)
    <3>1. i - 1 \in Nat /\ (i - 1) + 1 = i /\ i <= n
      BY <1>1
    <3> HIDE DEF Before, Here
    <3>2. i - 1 \in T
      BY <2>1, <3>1
    <3>3. QED
      BY <3>1, <3>2
  <2>3. QED
    BY <2>2
<1>11. ASSUME NEW i \in 1 .. n
       PROVE  Follows(p, i, c[i - 1], e) <=> s <= p[i].at /\ p[i].at < e
  <2>1. c[i - 1] \in Nat /\ s <= c[i - 1]
    <3>1. i - 1 \in 0 .. n
      BY <1>1
    <3>2. QED
      BY <1>2, <3>1
  <2>2. ASSUME Follows(p, i, c[i - 1], e)
        PROVE  s <= p[i].at /\ p[i].at < e
    BY <1>3, <1>6, <1>7, <2>1, <2>2
  <2>3. ASSUME s <= p[i].at, p[i].at < e
        PROVE  Follows(p, i, c[i - 1], e)
    BY <1>5, <1>7, <1>10, <2>3
  <2>4. QED
    BY <2>2, <2>3
<1>12. ParseBlock([dir |-> p, nth |-> k])
       = {p[i].entry : i \in {j \in 1 .. n : Follows(p, j, c[j - 1], e)}}
  BY <1>1 DEF ParseBlock, c
<1>13. {j \in 1 .. n : Follows(p, j, c[j - 1], e)}
       = {j \in 1 .. n : s <= p[j].at /\ p[j].at < e}
  BY <1>11
<1>14. QED
  BY <1>12, <1>13

\* Entries with their offsets.
LEMMA PlacedIsList ==
    ASSUME NEW e, NEW n, IsList(e, n), NEW at
    PROVE  /\ IsList(Placed(e, at), n)
           /\ \A i \in 1 .. n : Placed(e, at)[i].at = at[i - 1] /\ Placed(e, at)[i].entry = e[i]
<1>1. DOMAIN e = 1 .. n /\ n \in Nat
  BY IndexOfListed DEF IsList
<1>2. QED
  BY <1>1 DEF Placed, IsList

\* All entries of a directory are found in the blocks that are enough for them, and
\* nothing else is.
LEMMA DirectoryIsParsed ==
    ASSUME NEW e, NEW n, IsList(e, n), \A i \in 1 .. n : entSize(e[i]) \in 1 .. DirentMax,
           NEW c \in Nat,
           \A i \in 1 .. n : Starts(e)[i - 1] + entSize(e[i]) <= c * BlockSize
    PROVE  UNION {ParseBlock([dir |-> Placed(e, Starts(e)), nth |-> k]) : k \in 1 .. c}
           = {e[i] : i \in 1 .. n}
<1> DEFINE a == Starts(e)
           z(i) == entSize(e[i])
           p == Placed(e, a)
           In(k) == {j \in 1 .. n : (k - 1) * BlockSize <= a[j - 1] /\ a[j - 1] < k * BlockSize}
<1>1. n \in Nat /\ DirentMax \in Nat
  BY Amounts DEF IsList
<1>2. a[0] = 0 /\ (\A i \in 0 .. n : a[i] \in Nat)
      /\ \A i \in 1 .. n : a[i] = NextOffset(a[i - 1] + z(i))
  BY StartsFollow
<1> HIDE DEF a
<1>3. IsList(p, n) /\ \A i \in 1 .. n : p[i].at = a[i - 1] /\ p[i].entry = e[i]
  BY PlacedIsList
<1>4. \A i \in 1 .. n : z(i) \in Nat /\ z(i) > 0 /\ z(i) <= DirentMax
  BY <1>1
<1>5. \A i \in 1 .. n : entSize(p[i].entry) = z(i)
  BY <1>3
<1> HIDE DEF p, z
<1>6. ASSUME NEW i \in 1 .. n, NEW d \in Nat, a[i - 1] < d * BlockSize
      PROVE  a[i - 1] + z(i) <= d * BlockSize
  <2>1. d * BlockSize \in Nat /\ 0 * BlockSize = 0
    BY Amounts, BlockStarts
  <2>2. a[i - 1] + DirentMax <= d * BlockSize
    <3>1. CASE i = 1
      <4>1. a[i - 1] = 0
        BY <1>2, <3>1
      <4>2. d # 0
        BY <1>6, <2>1, <4>1
      <4>3. 0 * BlockSize + BlockSize <= d * BlockSize
        BY <4>2, BlockStarts
      <4>4. QED
        BY <2>1, <4>1, <4>3, Amounts
    <3>2. CASE i # 1
      <4>1. i - 1 \in 1 .. n /\ (i - 1) - 1 \in 0 .. n
        BY <1>1, <3>2
      <4>2. a[i - 1] = NextOffset(a[(i - 1) - 1] + z(i - 1))
        BY <1>2, <4>1
      <4>3. a[(i - 1) - 1] + z(i - 1) \in Nat
        BY <1>2, <1>4, <4>1
      <4>4. QED
        BY <1>6, <4>2, <4>3, Offsets
    <3>3. QED
      BY <3>1, <3>2
  <2>3. i - 1 \in 0 .. n
    BY <1>1
  <2>4. QED
    BY <1>1, <1>2, <1>4, <2>1, <2>2, <2>3
<1>7. ASSUME NEW k \in 1 .. c
      PROVE  ParseBlock([dir |-> p, nth |-> k]) = {e[i] : i \in In(k)}
  <2> DEFINE s == (k - 1) * BlockSize
             end == k * BlockSize
  <2>1. k - 1 \in Nat /\ (k - 1) + 1 = k /\ k \in Nat
    OBVIOUS
  <2>2. s \in Nat /\ end = s + BlockSize
    BY <2>1, BlockStarts
  <2>3. n > 0 => p[1].at = 0
    BY <1>1, <1>2, <1>3
  <2>4. ASSUME NEW i \in 1 .. n, i + 1 <= n
        PROVE  /\ p[i].at + entSize(p[i].entry) <= p[i + 1].at
               /\ p[i].at + entSize(p[i].entry) <= s => p[i + 1].at <= s
               /\ s < p[i].at + entSize(p[i].entry) /\ p[i + 1].at < end
                     => p[i + 1].at = p[i].at + entSize(p[i].entry)
    <3>1. i + 1 \in 1 .. n /\ (i + 1) - 1 = i /\ i - 1 \in 0 .. n
      BY <1>1, <2>4
    <3>2. p[i].at = a[i - 1] /\ entSize(p[i].entry) = z(i) /\ p[i + 1].at = a[i]
      BY <1>3, <1>5, <3>1
    <3>3. a[i] = NextOffset(a[i - 1] + z(i)) /\ a[i - 1] + z(i) \in Nat
      BY <1>2, <1>4, <3>1
    <3> DEFINE x == a[i - 1] + z(i)
    <3> HIDE DEF x, s, end
    <3>4. /\ x <= NextOffset(x)
          /\ x <= (k - 1) * BlockSize => NextOffset(x) <= (k - 1) * BlockSize
          /\ (k - 1) * BlockSize < x /\ NextOffset(x) < ((k - 1) + 1) * BlockSize
             => NextOffset(x) = x
      BY <2>1, <3>3, Offsets DEF x
    <3>5. QED
      BY <2>1, <3>2, <3>3, <3>4 DEF x, s, end
  <2>5. ASSUME NEW i \in 1 .. n
        PROVE  /\ p[i].at < end => p[i].at + entSize(p[i].entry) <= end
               /\ p[i].at < s => p[i].at + entSize(p[i].entry) <= s
    <3>1. p[i].at = a[i - 1] /\ entSize(p[i].entry) = z(i)
      BY <1>3, <1>5
    <3>2. QED
      BY <1>6, <2>1, <3>1
  <2>6. \A i \in 1 .. n : p[i].at \in Nat /\ entSize(p[i].entry) \in Nat \ {0}
    <3>1. \A i \in 1 .. n : i - 1 \in 0 .. n
      BY <1>1
    <3>2. QED
      BY <1>2, <1>3, <1>4, <1>5, <3>1
  <2>7. ParseBlock([dir |-> p, nth |-> k])
        = {p[i].entry : i \in {j \in 1 .. n : s <= p[j].at /\ p[j].at < end}}
    <3>1. k * BlockSize = end
      OBVIOUS
    <3> HIDE DEF s, end
    <3>2. QED
      BY <1>3, <2>1, <2>2, <2>3, <2>4, <2>5, <2>6, <3>1, BlockIsParsed, SMTT(30)
  <2>8. {j \in 1 .. n : s <= p[j].at /\ p[j].at < end} = In(k)
    BY <1>3
  <2>9. {p[i].entry : i \in In(k)} = {e[i] : i \in In(k)}
    BY <1>3
  <2>10. QED
    BY <2>7, <2>8, <2>9
<1>8. ASSUME NEW i \in 1 .. n
      PROVE  \E k \in 1 .. c : i \in In(k)
  <2>1. i - 1 \in 0 .. n
    BY <1>1
  <2>2. a[i - 1] \in Nat /\ a[i - 1] + z(i) <= c * BlockSize
    BY <1>2, <2>1 DEF a, z
  <2>3. PICK q \in Nat, r \in Nat : a[i - 1] = q * BlockSize + r /\ r < BlockSize
    BY <2>2, BlockStarts
  <2>4. /\ q * BlockSize \in Nat /\ (q + 1) * BlockSize = q * BlockSize + BlockSize
        /\ c * BlockSize \in Nat
    BY BlockStarts
  <2>5. q < c
    <3> SUFFICES ASSUME c <= q
                 PROVE  FALSE
      OBVIOUS
    <3>1. c * BlockSize <= q * BlockSize
      BY BlockStarts
    <3>2. QED
      BY <1>4, <2>2, <2>3, <2>4, <3>1
  <2>6. q + 1 \in 1 .. c /\ (q + 1) - 1 = q
    BY <2>5
  <2>7. q * BlockSize <= a[i - 1] /\ a[i - 1] < (q + 1) * BlockSize
    BY <2>2, <2>3, <2>4, Amounts
  <2>8. i \in In(q + 1)
    BY <2>6, <2>7
  <2> HIDE DEF In
  <2>9. QED
    BY <2>6, <2>8
<1>9. \A k \in 1 .. c : In(k) \subseteq 1 .. n
  OBVIOUS
<1> HIDE DEF In
<1>10. UNION {ParseBlock([dir |-> p, nth |-> k]) : k \in 1 .. c} = {e[i] : i \in 1 .. n}
  <2>1. {ParseBlock([dir |-> p, nth |-> k]) : k \in 1 .. c} = {{e[i] : i \in In(k)} : k \in 1 .. c}
    BY <1>7
  <2>2. UNION {{e[i] : i \in In(k)} : k \in 1 .. c} = {e[i] : i \in 1 .. n}
    BY <1>8, <1>9
  <2>3. QED
    BY <2>1, <2>2
<1>11. QED
  BY <1>10 DEF p, a

\* The same of a chain of entries that is in one block.
LEMMA ChainIsParsed ==
    ASSUME NEW e, NEW n, IsList(e, n), \A i \in 1 .. n : entSize(e[i]) \in Nat \ {0},
           SumOf(entSizes(e)) <= BlockSize
    PROVE  ParseBlock([dir |-> Chain(e), nth |-> 1]) = {e[i] : i \in 1 .. n}
<1> DEFINE z == entSizes(e)
           a == Totals(z)
           p == Chain(e)
<1>1. n \in Nat /\ DOMAIN e = 1 .. n
  BY IndexOfListed DEF IsList
<1>2. IsList(z, n) /\ \A i \in 1 .. n : z[i] = entSize(e[i]) /\ z[i] \in Nat /\ z[i] > 0
  BY <1>1 DEF entSizes, IsList
<1> HIDE DEF z
<1>3. /\ a \in [0 .. n -> Nat] /\ a[0] = 0
      /\ \A i \in 1 .. n : a[i] = a[i - 1] + z[i]
      /\ \A i, j \in 0 .. n : i <= j => a[i] <= a[j]
      /\ SumOf(z) = a[n]
  BY <1>2, TotalsAdd
<1>4. IsList(p, n) /\ \A i \in 1 .. n : p[i].at = a[i - 1] /\ p[i].entry = e[i]
  BY PlacedIsList DEF Chain, z
<1>5. a[n] <= BlockSize
  BY <1>3 DEF z
<1> HIDE DEF a, p
<1>6. \A i \in 1 .. n : i - 1 \in 0 .. n /\ i \in 0 .. n /\ i <= n
  BY <1>1
<1>7. \A i \in 1 .. n : entSize(p[i].entry) = z[i]
  BY <1>2, <1>4
<1>8. \A i \in 1 .. n : p[i].at \in Nat /\ entSize(p[i].entry) \in Nat \ {0}
  BY <1>2, <1>3, <1>4, <1>6, <1>7
<1>9. \A i \in 1 .. n : p[i].at + entSize(p[i].entry) = a[i] /\ a[i] \in Nat /\ a[i] <= BlockSize
                        /\ a[i] > 0
  <2> TAKE i \in 1 .. n
  <2>1. a[i] \in Nat /\ a[i - 1] \in Nat /\ a[n] \in Nat /\ a[i] <= a[n] /\ a[i] = a[i - 1] + z[i]
    BY <1>1, <1>3, <1>6
  <2>2. QED
    BY <1>2, <1>4, <1>5, <1>7, <2>1, Amounts
<1>10. BlockSize \in Nat \ {0} /\ 0 + BlockSize = BlockSize /\ 1 * BlockSize = BlockSize
  BY Amounts
<1>11. \A i \in 1 .. n : i + 1 <= n =>
          /\ p[i].at + entSize(p[i].entry) <= p[i + 1].at
          /\ p[i].at + entSize(p[i].entry) <= 0 => p[i + 1].at <= 0
          /\ 0 < p[i].at + entSize(p[i].entry) /\ p[i + 1].at < BlockSize
                => p[i + 1].at = p[i].at + entSize(p[i].entry)
  <2> TAKE i \in 1 .. n
  <2> HAVE i + 1 <= n
  <2>1. i + 1 \in 1 .. n /\ (i + 1) - 1 = i
    BY <1>1
  <2>2. p[i + 1].at = a[i]
    BY <1>4, <2>1
  <2>3. QED
    BY <1>9, <2>2
<1>12. \A i \in 1 .. n :
          /\ p[i].at < BlockSize => p[i].at + entSize(p[i].entry) <= BlockSize
          /\ p[i].at < 0 => p[i].at + entSize(p[i].entry) <= 0
  BY <1>8, <1>9
<1>13. n > 0 => p[1].at = 0
  BY <1>1, <1>3, <1>4
<1>14. ParseBlock([dir |-> p, nth |-> 1])
       = {p[i].entry : i \in {j \in 1 .. n : 0 <= p[j].at /\ p[j].at < BlockSize}}
  <2>1. \E s, k \in Nat : s = 0 /\ k = 1
    OBVIOUS
  <2>2. QED
    BY <1>4, <1>8, <1>10, <1>11, <1>12, <1>13, <2>1, BlockIsParsed
<1>15. {j \in 1 .. n : 0 <= p[j].at /\ p[j].at < BlockSize} = 1 .. n
  <2>1. \A j \in 1 .. n : 0 <= p[j].at /\ p[j].at < BlockSize
    BY <1>8, <1>9, Amounts
  <2>2. QED
    BY <2>1
<1>16. {p[i].entry : i \in 1 .. n} = {e[i] : i \in 1 .. n}
  BY <1>4
<1>17. QED
  BY <1>14, <1>15, <1>16 DEF p

----------------------------------------------------------------------------
(* Trees and their builders.                                                *)

\* What an image of a tree has, its root included.
Nodes(t) == {<<>>} \cup t.dirs \cup InImage(t)
WithHash(t, h) == {p \in t.dirs \cup InImage(t) : PathHash[p] = h}
Kind(t, p) == IF p \in t.dirs \cup {<<>>} THEN "dir" ELSE "file"

\* A path is the name of a directory and a name in it.
LEMMA PathsOfTree ==
    ASSUME NEW t, IsTree(t)
    PROVE  /\ IsFiniteSet(t.dirs) /\ IsFiniteSet(InImage(t)) /\ t.dirs \cap InImage(t) = {}
           /\ InImage(t) \subseteq DOMAIN t.files
           /\ \A f \in InImage(t) : t.files[f] \in Nat
           /\ \A p \in t.dirs \cup InImage(t) :
                 /\ p \in Seq(Nat) /\ p # <<>> /\ Len(p) \in Nat \ {0} /\ PathHash[p] \in Int
                 /\ Front(p) \in t.dirs \cup {<<>>} /\ Front(p) \in Seq(Nat)
                 /\ Len(Front(p)) = Len(p) - 1
                 /\ Last(p) \in Nat \cap DOMAIN EntSize
                 /\ Append(Front(p), Last(p)) = p
<1>1. /\ IsFiniteSet(t.dirs) /\ IsFiniteSet(DOMAIN t.files) /\ t.dirs \cap DOMAIN t.files = {}
      /\ \A f \in DOMAIN t.files : t.files[f] \in Nat
  BY DEF IsTree
<1>2. InImage(t) \subseteq DOMAIN t.files
  BY DEF InImage
<1>3. IsFiniteSet(InImage(t))
  BY <1>1, <1>2, FS_Subset
<1>4. ASSUME NEW p \in t.dirs \cup InImage(t)
      PROVE  /\ p \in Seq(Nat) /\ p # <<>> /\ Len(p) \in Nat \ {0} /\ PathHash[p] \in Int
             /\ Front(p) \in t.dirs \cup {<<>>} /\ Front(p) \in Seq(Nat)
             /\ Len(Front(p)) = Len(p) - 1
             /\ Last(p) \in Nat \cap DOMAIN EntSize
             /\ Append(Front(p), Last(p)) = p
  <2> DEFINE S == Nat \cap DOMAIN EntSize
             n == Len(p)
             f == Front(p)
             x == Last(p)
  <2>1. p \in Seq(S) /\ p # <<>> /\ f \in t.dirs \cup {<<>>} /\ PathHash[p] \in Int
    BY <1>2 DEF IsTree
  <2>2. S \subseteq Nat
    OBVIOUS
  <2> HIDE DEF S
  <2>3. p \in Seq(Nat)
    BY <2>1, <2>2, SeqMonotonic
  <2>4. n \in Nat \ {0}
    <3>1. n \in Nat
      BY <2>1, LenProperties
    <3>2. n # 0
      BY <2>1, EmptySeq
    <3>3. QED
      BY <3>1, <3>2
  <2>5. \A i \in 1 .. n : p[i] \in S
    BY <2>1, ElementOfSeq
  <2>6. x \in S
    BY <2>4, <2>5 DEF Last
  <2>7. f \in Seq(S) /\ Len(f) = n - 1 /\ \A i \in 1 .. n - 1 : f[i] = p[i]
    <3>1. \A i \in 1 .. n - 1 : p[i] \in S
      BY <2>4, <2>5
    <3>2. n - 1 \in Int /\ 1 \in Int
      BY <2>4
    <3> HIDE DEF n
    <3>3. /\ SubSeq(p, 1, n - 1) \in Seq(S)
          /\ Len(SubSeq(p, 1, n - 1)) = IF 1 <= n - 1 THEN (n - 1) - 1 + 1 ELSE 0
          /\ \A i \in 1 .. (n - 1) - 1 + 1 : SubSeq(p, 1, n - 1)[i] = p[1 + i - 1]
      BY <3>1, <3>2, SubSeqProperties
    <3>4. f = SubSeq(p, 1, n - 1)
      BY DEF Front, n
    <3> HIDE DEF f
    <3>5. \A i \in 1 .. n - 1 : i \in 1 .. (n - 1) - 1 + 1 /\ 1 + i - 1 = i
      BY <2>4
    <3>6. \A i \in 1 .. n - 1 : f[i] = p[i]
      BY <3>3, <3>4, <3>5
    <3>7. QED
      BY <2>4, <3>3, <3>4, <3>6
  <2>8. f \in Seq(Nat)
    BY <2>2, <2>7, SeqMonotonic
  <2>9. Append(f, x) = p
    <3> DEFINE q == Append(f, x)
    <3> HIDE DEF f, x
    <3>1. /\ q \in Seq(S) /\ Len(q) = Len(f) + 1
          /\ (\A i \in 1 .. Len(f) : q[i] = f[i]) /\ q[Len(f) + 1] = x
      BY <2>6, <2>7, AppendProperties
    <3> HIDE DEF q
    <3>2. Len(q) = n /\ \A i \in 1 .. n : i \in 1 .. n - 1 \/ i = n
      BY <2>4, <2>7, <3>1
    <3>3. (\A i \in 1 .. n - 1 : q[i] = p[i]) /\ q[n] = p[n]
      BY <2>4, <2>7, <3>1 DEF x, Last
    <3>4. q = p
      BY <2>1, <3>1, <3>2, <3>3, SeqEqual
    <3>5. QED
      BY <3>4 DEF q
  <2>10. QED
    BY <2>1, <2>3, <2>4, <2>6, <2>7, <2>8, <2>9 DEF S
<1>5. QED
  BY <1>1, <1>2, <1>3, <1>4

\* A function gives a finite set a finite set of values.
LEMMA FiniteRange ==
    ASSUME NEW S, IsFiniteSet(S), NEW f
    PROVE  IsFiniteSet({f[x] : x \in S})
<1> DEFINE T == {f[x] : x \in S}
           g == [x \in S |-> f[x]]
<1>1. g \in Surjection(S, T)
  BY DEF Surjection
<1> HIDE DEF g, T
<1>2. IsFiniteSet(T)
  BY <1>1, FS_Surjection
<1>3. QED
  BY <1>2 DEF T

\* The nodes of a builder are those of its tree, each once, and the groups have the
\* nodes of their hash.
LEMMA Setup ==
    ASSUME NEW t, IsTree(t), NEW b, b = setup(t)
    PROVE  /\ b.dirs = t.dirs /\ b.files = t.files /\ InImage(b) = InImage(t)
           /\ Enumerates(b.nodes, Nodes(t)) /\ Len(b.nodes) \in Nat \ {0} /\ b.nodes[1] = <<>>
           /\ b.root \in {2, 3}
           /\ b.root = 3 <=> \E h \in DOMAIN b.groups : Len(b.groups[h]) > 1
           /\ DOMAIN b.groups = {PathHash[p] : p \in t.dirs \cup InImage(t)}
           /\ IsFiniteSet(DOMAIN b.groups) /\ DOMAIN b.groups \subseteq Int
           /\ \A h \in DOMAIN b.groups :
                 Enumerates(b.groups[h], WithHash(t, h))
<1> DEFINE F == InImage(t)
           H(S, h) == {p \in S : PathHash[p] = h}
<1>1. /\ IsFiniteSet(t.dirs) /\ IsFiniteSet(F) /\ t.dirs \cap F = {}
      /\ \A p \in t.dirs \cup F : p \in Seq(Nat) /\ p # <<>> /\ PathHash[p] \in Int
  BY PathsOfTree
<1>2. /\ b.dirs = t.dirs /\ b.files = t.files
      /\ b.nodes = <<<<>>>> \o InOrder(t.dirs, F)
      /\ b.groups = [h \in {PathHash[p] : p \in t.dirs \cup F} |->
                        InOrder(H(t.dirs, h), H(F, h))]
      /\ b.root = IF hasHashCollision(b.groups) THEN 3 ELSE 2
  BY DEF setup
<1>3. InImage(b) = F
  BY <1>2 DEF InImage
<1> HIDE DEF F
<1>4. Enumerates(b.nodes, Nodes(t)) /\ Len(b.nodes) \in Nat \ {0} /\ b.nodes[1] = <<>>
  <2> DEFINE s == <<<<>>>>
             u == InOrder(t.dirs, F)
  <2>1. IsList(s, 1) /\ s[1] = <<>> /\ Len(s) = 1
    BY DEF IsList
  <2>2. Enumerates(s, {<<>>})
    BY <2>1 DEF Enumerates
  <2>3. Enumerates(u, t.dirs \cup F)
    <3>1. t.dirs \cup F \subseteq Seq(Nat)
      BY <1>1
    <3>2. QED
      BY <1>1, <3>1, InOrderEnumerates
  <2>4. {<<>>} \cap (t.dirs \cup F) = {}
    BY <1>1
  <2> HIDE DEF s, u
  <2>5. Enumerates(s \o u, {<<>>} \cup (t.dirs \cup F)) /\ Len(s \o u) = 1 + Len(u)
    BY <2>1, <2>2, <2>3, <2>4, EnumeratesBoth
  <2>6. Len(u) \in Nat /\ IsList(u, Len(u))
    BY <2>3 DEF Enumerates, IsList
  <2>7. (s \o u)[1] = s[1]
    <3>1. Joins(s \o u, s, 1, u, Len(u))
      BY <2>1, <2>6, Behind
    <3> DEFINE w == s \o u
    <3> HIDE DEF w
    <3>2. Joins(w, s, 1, u, Len(u))
      BY <3>1 DEF w
    <3>3. w[1] = s[1]
      BY <3>2 DEF Joins
    <3>4. QED
      BY <3>3 DEF w
  <2>8. b.nodes = s \o u /\ Nodes(t) = {<<>>} \cup (t.dirs \cup F)
    BY <1>2 DEF s, u, Nodes, F
  <2>9. QED
    BY <2>1, <2>5, <2>6, <2>7, <2>8
<1>5. b.root \in {2, 3} /\ (b.root = 3 <=> \E h \in DOMAIN b.groups : Len(b.groups[h]) > 1)
  <2>1. b.root = IF hasHashCollision(b.groups) THEN 3 ELSE 2
    BY <1>2
  <2>2. QED
    BY <2>1 DEF hasHashCollision
<1>6. DOMAIN b.groups = {PathHash[p] : p \in t.dirs \cup F}
  BY <1>2
<1>7. IsFiniteSet(DOMAIN b.groups) /\ DOMAIN b.groups \subseteq Int
  <2>1. IsFiniteSet(t.dirs \cup F)
    BY <1>1, FS_Union
  <2>2. IsFiniteSet({PathHash[p] : p \in t.dirs \cup F})
    BY <2>1, FiniteRange
  <2>3. QED
    BY <1>1, <1>6, <2>2
<1>8. ASSUME NEW h \in DOMAIN b.groups
      PROVE  Enumerates(b.groups[h], H(t.dirs \cup F, h))
  <2>1. H(t.dirs, h) \subseteq t.dirs /\ H(F, h) \subseteq F
    OBVIOUS
  <2>2. H(t.dirs, h) \cup H(F, h) = H(t.dirs \cup F, h)
    OBVIOUS
  <2>3. b.groups[h] = InOrder(H(t.dirs, h), H(F, h))
    BY <1>2
  <2> HIDE DEF H
  <2>4. IsFiniteSet(H(t.dirs, h)) /\ IsFiniteSet(H(F, h))
    BY <1>1, <2>1, FS_Subset
  <2>5. H(t.dirs, h) \cup H(F, h) \subseteq Seq(Nat) /\ H(t.dirs, h) \cap H(F, h) = {}
    BY <1>1, <2>1
  <2>6. Enumerates(InOrder(H(t.dirs, h), H(F, h)), H(t.dirs, h) \cup H(F, h))
    BY <2>4, <2>5, InOrderEnumerates
  <2>7. QED
    BY <2>2, <2>3, <2>6
<1>9. \A h \in DOMAIN b.groups : Enumerates(b.groups[h], WithHash(t, h))
  BY <1>8 DEF F, WithHash
<1>10. QED
  BY <1>2, <1>3, <1>4, <1>5, <1>6, <1>7, <1>9 DEF F

\* Every node has an inode of its own, behind those of the image.
LEMMA NumbersOfNodes ==
    ASSUME NEW t, IsTree(t), NEW b, b = setup(t)
    PROVE  /\ InodeCount(b) \in Nat /\ InodeCount(b) = b.root + Len(b.nodes)
           /\ \A p \in Nodes(t) :
                 /\ Place(b, p) \in 1 .. Len(b.nodes) /\ b.nodes[Place(b, p)] = p
                 /\ Number(b, p) = b.root - 1 + Place(b, p)
                 /\ Number(b, p) \in Nat /\ b.root <= Number(b, p) /\ Number(b, p) < InodeCount(b)
           /\ Place(b, <<>>) = 1 /\ Number(b, <<>>) = b.root
<1>1. /\ Enumerates(b.nodes, Nodes(t)) /\ Len(b.nodes) \in Nat \ {0} /\ b.nodes[1] = <<>>
      /\ b.root \in {2, 3}
  BY Setup
<1>2. DOMAIN b.nodes = 1 .. Len(b.nodes)
  BY <1>1, IndexOfListed DEF Enumerates
<1>3. ASSUME NEW p \in Nodes(t)
      PROVE  Place(b, p) \in 1 .. Len(b.nodes) /\ b.nodes[Place(b, p)] = p
  <2>1. \E i \in DOMAIN b.nodes : b.nodes[i] = p
    BY <1>1, <1>2 DEF Enumerates
  <2>2. QED
    BY <1>2, <2>1 DEF Place
<1>4. \A p : Number(b, p) = b.root - 1 + Place(b, p)
  BY DEF Number
<1>5. InodeCount(b) \in Nat /\ InodeCount(b) = b.root + Len(b.nodes)
  BY <1>1 DEF InodeCount
<1>6. Place(b, <<>>) = 1
  <2>1. <<>> \in Nodes(t)
    BY DEF Nodes
  <2>2. Place(b, <<>>) \in 1 .. Len(b.nodes) /\ b.nodes[Place(b, <<>>)] = b.nodes[1]
    BY <1>1, <1>3, <2>1
  <2>3. 1 \in 1 .. Len(b.nodes)
    BY <1>1
  <2>4. QED
    BY <1>1, <2>2, <2>3 DEF Enumerates
<1>7. ASSUME NEW p \in Nodes(t)
      PROVE  Number(b, p) \in Nat /\ b.root <= Number(b, p) /\ Number(b, p) < InodeCount(b)
  <2>1. Place(b, p) \in 1 .. Len(b.nodes)
    BY <1>3
  <2>2. QED
    BY <1>1, <1>4, <1>5, <2>1
<1>8. QED
  BY <1>1, <1>3, <1>4, <1>5, <1>6, <1>7

\* What a directory holds, and the entry of each.
Held(t, d) == {p \in t.dirs \cup InImage(t) : Front(p) = d}
EntryOf(t, b, p) == Dirent(Kind(t, p), Number(b, p), Last(p))

\* The two entries of every directory and those of what it holds.
AllEntries(t, b, d, up) ==
    {Dirent("dot", Number(b, d), 0), Dirent("dotdot", up, 0)}
    \cup {EntryOf(t, b, p) : p \in Held(t, d)}

HasEntries(t, b, d, e, n) ==
    /\ IsList(e, n)
    /\ \A i \in 1 .. n : entSize(e[i]) \in 1 .. DirentMax
    /\ \E up : {e[i] : i \in 1 .. n} = AllEntries(t, b, d, up)

\* The entries of a directory.
LEMMA EntriesOfDirectory ==
    ASSUME NEW t, IsTree(t), NEW b, b = setup(t), NEW d \in t.dirs \cup {<<>>}
    PROVE  \E n \in Nat : HasEntries(t, b, d, dirents(b, d), n)
<1> DEFINE up == IF d = <<>> THEN d ELSE Front(d)
           In(S) == {p \in S : Front(p) = d}
           kids == InOrder(In(t.dirs), In(InImage(t)))
           s == <<Dirent("dot", Number(b, d), 0), Dirent("dotdot", Number(b, up), 0)>>
           u == [i \in DOMAIN kids |->
                    Dirent(IF kids[i] \in t.dirs THEN "dir" ELSE "file",
                           Number(b, kids[i]), Last(kids[i]))]
           e == s \o u
<1>1. b.dirs = t.dirs /\ InImage(b) = InImage(t)
  BY Setup
<1>2. dirents(b, d) = e
  BY <1>1 DEF dirents
<1>3. Enumerates(kids, Held(t, d))
  <2>1. /\ IsFiniteSet(t.dirs) /\ IsFiniteSet(InImage(t)) /\ t.dirs \cap InImage(t) = {}
        /\ \A p \in t.dirs \cup InImage(t) : p \in Seq(Nat)
    BY PathsOfTree
  <2>2. In(t.dirs) \subseteq t.dirs /\ In(InImage(t)) \subseteq InImage(t)
        /\ In(t.dirs) \cup In(InImage(t)) = Held(t, d)
    BY DEF Held
  <2> HIDE DEF In
  <2>3. IsFiniteSet(In(t.dirs)) /\ IsFiniteSet(In(InImage(t)))
    BY <2>1, <2>2, FS_Subset
  <2>4. In(t.dirs) \cup In(InImage(t)) \subseteq Seq(Nat) /\ In(t.dirs) \cap In(InImage(t)) = {}
    BY <2>1, <2>2
  <2>5. Enumerates(kids, In(t.dirs) \cup In(InImage(t)))
    BY <2>3, <2>4, InOrderEnumerates
  <2>6. QED
    BY <2>2, <2>5
<1> HIDE DEF kids
<1> DEFINE m == Len(kids)
<1>4. m \in Nat /\ DOMAIN kids = 1 .. m /\ IsList(kids, m)
  BY <1>3, IndexOfListed DEF Enumerates, IsList
<1>5. \A p \in Held(t, d) : p \in t.dirs \cup InImage(t) /\ p # <<>>
                            /\ Last(p) \in Nat \cap DOMAIN EntSize
  BY PathsOfTree DEF Held
<1>6. ASSUME NEW i \in 1 .. m
      PROVE  u[i] = EntryOf(t, b, kids[i])
  <2>1. kids[i] \in Held(t, d)
    BY <1>3 DEF Enumerates
  <2>2. kids[i] # <<>>
    BY <1>5, <2>1
  <2>3. Kind(t, kids[i]) = IF kids[i] \in t.dirs THEN "dir" ELSE "file"
    BY <2>2 DEF Kind
  <2>4. QED
    BY <1>4, <2>3 DEF EntryOf
<1>7. IsList(u, m)
  BY <1>4 DEF IsList
<1>8. IsList(s, 2) /\ s[1] = Dirent("dot", Number(b, d), 0)
      /\ s[2] = Dirent("dotdot", Number(b, up), 0)
  BY DEF IsList
<1> HIDE DEF u, s, up
<1>9. Joins(e, s, 2, u, m)
  BY <1>7, <1>8, Behind
<1> HIDE DEF e
<1>10. /\ IsList(e, 2 + m)
       /\ \A i \in 1 .. 2 : e[i] = s[i]
       /\ \A i \in 1 .. m : e[2 + i] = u[i]
  BY <1>9 DEF Joins
<1>11. e[1] = Dirent("dot", Number(b, d), 0) /\ e[2] = Dirent("dotdot", Number(b, up), 0)
  BY <1>8, <1>10
<1>12. \A i \in 1 .. 2 + m : i = 1 \/ i = 2 \/ (i - 2 \in 1 .. m /\ 2 + (i - 2) = i)
  BY <1>4
<1>13. \A i \in 1 .. m : e[2 + i] = EntryOf(t, b, kids[i]) /\ kids[i] \in Held(t, d)
  BY <1>3, <1>6, <1>10 DEF Enumerates
<1>14. ASSUME NEW i \in 1 .. 2 + m
       PROVE  entSize(e[i]) \in 1 .. DirentMax
  <2>1. CASE i = 1 \/ i = 2
    <3>1. e[i].type \in {"dot", "dotdot"}
      BY <1>11, <2>1 DEF Dirent
    <3>2. QED
      BY <3>1, Amounts DEF entSize
  <2>2. CASE i - 2 \in 1 .. m /\ 2 + (i - 2) = i
    <3> DEFINE p == kids[i - 2]
    <3>1. e[i] = EntryOf(t, b, p) /\ p \in Held(t, d)
      <4>1. e[2 + (i - 2)] = EntryOf(t, b, p) /\ p \in Held(t, d)
        BY <1>13, <2>2
      <4>2. QED
        BY <2>2, <4>1
    <3> HIDE DEF p
    <3>2. e[i].type = Kind(t, p) /\ e[i].name = Last(p)
      BY <3>1 DEF EntryOf, Dirent
    <3>3. Kind(t, p) \in {"dir", "file"}
      BY DEF Kind
    <3>4. entSize(e[i]) = EntSize[Last(p)]
      BY <3>2, <3>3 DEF entSize
    <3>5. QED
      BY <1>5, <3>1, <3>4, PFSAssumption
  <2>3. QED
    BY <1>12, <2>1, <2>2
<1>15. {e[i] : i \in 1 .. 2 + m} = {Dirent("dot", Number(b, d), 0), Dirent("dotdot", Number(b, up), 0)}
                                   \cup {EntryOf(t, b, p) : p \in Held(t, d)}
  <2> DEFINE R == {Dirent("dot", Number(b, d), 0), Dirent("dotdot", Number(b, up), 0)}
                  \cup {EntryOf(t, b, p) : p \in Held(t, d)}
  <2>1. ASSUME NEW i \in 1 .. 2 + m
        PROVE  e[i] \in R
    <3>1. CASE i = 1 \/ i = 2
      BY <1>11, <3>1
    <3>2. CASE i - 2 \in 1 .. m /\ 2 + (i - 2) = i
      <4>1. e[2 + (i - 2)] = EntryOf(t, b, kids[i - 2]) /\ kids[i - 2] \in Held(t, d)
        BY <1>13, <3>2
      <4>2. QED
        BY <3>2, <4>1
    <3>3. QED
      BY <1>12, <3>1, <3>2
  <2>2. ASSUME NEW x \in R
        PROVE  \E i \in 1 .. 2 + m : e[i] = x
    <3>1. 1 \in 1 .. 2 + m /\ 2 \in 1 .. 2 + m
      BY <1>4
    <3>2. CASE x = Dirent("dot", Number(b, d), 0)
      BY <1>11, <3>1, <3>2
    <3>3. CASE x = Dirent("dotdot", Number(b, up), 0)
      BY <1>11, <3>1, <3>3
    <3>4. CASE \E p \in Held(t, d) : x = EntryOf(t, b, p)
      <4>1. PICK p \in Held(t, d) : x = EntryOf(t, b, p)
        BY <3>4
      <4>2. PICK i \in 1 .. m : kids[i] = p
        BY <1>3, <4>1 DEF Enumerates
      <4>3. 2 + i \in 1 .. 2 + m
        BY <1>4
      <4>4. QED
        BY <1>13, <4>1, <4>2, <4>3
    <3>5. QED
      BY <3>2, <3>3, <3>4
  <2> HIDE DEF R
  <2>3. {e[i] : i \in 1 .. 2 + m} = R
    BY <2>1, <2>2
  <2>4. QED
    BY <2>3 DEF R
<1>16. HasEntries(t, b, d, e, 2 + m)
  BY <1>10, <1>14, <1>15 DEF HasEntries, AllEntries
<1>17. 2 + m \in Nat
  BY <1>4
<1>18. QED
  BY <1>2, <1>16, <1>17

\* The entries of a super root, which are in one block.
SuperEntries(b) ==
    {Dirent("file", 1, flat_path_table), Dirent("dir", b.root, uroot)}
    \cup (IF b.root = 3 THEN {Dirent("file", 2, collision_resolver)} ELSE {})

\* The entries of a super root are read back from its block.
LEMMA SuperRootIsParsed ==
    ASSUME NEW b, b.root \in {2, 3}
    PROVE  ParseBlock([dir |-> Chain(superRootDirents(b)), nth |-> 1]) = SuperEntries(b)
<1> DEFINE e == superRootDirents(b)
           A == Dirent("file", 1, flat_path_table)
           B == Dirent("file", 2, collision_resolver)
           C == Dirent("dir", b.root, uroot)
           a == EntSize[flat_path_table]
           r == EntSize[collision_resolver]
           c == EntSize[uroot]
<1>1. a \in Nat /\ r \in Nat /\ c \in Nat /\ a > 0 /\ r > 0 /\ c > 0
  <2>1. \A name \in DOMAIN EntSize : EntSize[name] \in Nat /\ EntSize[name] > 0
    BY PFSAssumption, Amounts
  <2>2. QED
    BY <2>1, PFSAssumption
<1>2. a + r + c <= BlockSize
  BY PFSAssumption
<1>3. entSize(A) = a /\ entSize(B) = r /\ entSize(C) = c
  BY DEF entSize, Dirent
<1> HIDE DEF A, B, C, a, r, c
<1>4. CASE b.root = 3
  <2>1. e = <<A, B, C>>
    BY <1>4 DEF superRootDirents, A, B, C
  <2> HIDE DEF e
  <2>2. IsList(e, 3) /\ e[1] = A /\ e[2] = B /\ e[3] = C
    BY <2>1 DEF IsList
  <2> DEFINE z == entSizes(e)
  <2>3. DOMAIN e = 1 .. 3
    BY <2>2, IndexOfListed
  <2>4. \A i \in 1 .. 3 : i = 1 \/ i = 2 \/ i = 3
    OBVIOUS
  <2>5. \A i \in 1 .. 3 : entSize(e[i]) \in Nat /\ entSize(e[i]) > 0
    BY <1>1, <1>3, <2>2, <2>4
  <2>6. IsList(z, 3) /\ z[1] = a /\ z[2] = r /\ z[3] = c /\ \A i \in 1 .. 3 : z[i] \in Nat
    <3>1. z = [i \in 1 .. 3 |-> entSize(e[i])]
      BY <2>3 DEF entSizes
    <3> HIDE DEF z
    <3>2. QED
      BY <1>1, <1>3, <2>2, <2>4, <3>1 DEF IsList
  <2>7. SumOf(z) = a + r + c
    <3> HIDE DEF z
    <3> DEFINE s == Totals(z)
    <3>1. s[0] = 0 /\ (\A i \in 1 .. 3 : s[i] = s[i - 1] + z[i]) /\ SumOf(z) = s[3]
      BY <2>6, TotalsAdd
    <3> HIDE DEF s
    <3>2. s[1] = s[0] + z[1] /\ s[2] = s[1] + z[2] /\ s[3] = s[2] + z[3]
      <4>1. s[1] = s[1 - 1] + z[1] /\ s[2] = s[2 - 1] + z[2] /\ s[3] = s[3 - 1] + z[3]
        BY <3>1
      <4>2. QED
        BY <4>1
    <3>3. QED
      BY <1>1, <2>6, <3>1, <3>2
  <2>8. ParseBlock([dir |-> Chain(e), nth |-> 1]) = {e[i] : i \in 1 .. 3}
    BY <1>2, <2>2, <2>5, <2>7, ChainIsParsed
  <2>9. {e[i] : i \in 1 .. 3} = {A, B, C}
    BY <2>2, <2>4
  <2>10. QED
    BY <1>4, <2>8, <2>9 DEF SuperEntries, e, A, B, C
<1>5. CASE b.root = 2
  <2>1. e = <<A, C>>
    BY <1>5 DEF superRootDirents, A, C
  <2> HIDE DEF e
  <2>2. IsList(e, 2) /\ e[1] = A /\ e[2] = C
    BY <2>1 DEF IsList
  <2> DEFINE z == entSizes(e)
  <2>3. DOMAIN e = 1 .. 2
    BY <2>2, IndexOfListed
  <2>4. \A i \in 1 .. 2 : i = 1 \/ i = 2
    OBVIOUS
  <2>5. \A i \in 1 .. 2 : entSize(e[i]) \in Nat /\ entSize(e[i]) > 0
    BY <1>1, <1>3, <2>2, <2>4
  <2>6. IsList(z, 2) /\ z[1] = a /\ z[2] = c /\ \A i \in 1 .. 2 : z[i] \in Nat
    <3>1. z = [i \in 1 .. 2 |-> entSize(e[i])]
      BY <2>3 DEF entSizes
    <3> HIDE DEF z
    <3>2. QED
      BY <1>1, <1>3, <2>2, <2>4, <3>1 DEF IsList
  <2>7. SumOf(z) = a + c
    <3> HIDE DEF z
    <3> DEFINE s == Totals(z)
    <3>1. s[0] = 0 /\ (\A i \in 1 .. 2 : s[i] = s[i - 1] + z[i]) /\ SumOf(z) = s[2]
      BY <2>6, TotalsAdd
    <3> HIDE DEF s
    <3>2. s[1] = s[0] + z[1] /\ s[2] = s[1] + z[2]
      <4>1. s[1] = s[1 - 1] + z[1] /\ s[2] = s[2 - 1] + z[2]
        BY <3>1
      <4>2. QED
        BY <4>1
    <3>3. QED
      BY <1>1, <2>6, <3>1, <3>2
  <2>8. SumOf(z) <= BlockSize
    BY <1>1, <1>2, <2>7, Amounts
  <2>9. ParseBlock([dir |-> Chain(e), nth |-> 1]) = {e[i] : i \in 1 .. 2}
    BY <2>2, <2>5, <2>8, ChainIsParsed
  <2>10. {e[i] : i \in 1 .. 2} = {A, C}
    BY <2>2, <2>4
  <2>11. QED
    BY <1>5, <2>9, <2>10 DEF SuperEntries, e, A, C
<1>6. QED
  BY <1>4, <1>5

\* Sizes are numbers; the blocks of a directory are enough for its entries.
LEMMA NodeSizes ==
    ASSUME NEW t, IsTree(t), NEW b, b = setup(t)
    PROVE  /\ \A p \in Nodes(t) : nodeSize(b, p) \in Nat
           /\ \A f \in InImage(t) : nodeSize(b, f) = t.files[f] /\ f \in DOMAIN b.files
           /\ \A d \in t.dirs \cup {<<>>} : d \notin DOMAIN b.files
<1>1. b.files = t.files /\ b.dirs = t.dirs
  BY Setup
<1>2. \A f \in InImage(t) : f \in DOMAIN t.files /\ t.files[f] \in Nat
  BY PathsOfTree
<1>3. \A d \in t.dirs \cup {<<>>} : d \notin DOMAIN t.files
  BY DEF IsTree
<1>4. ASSUME NEW d \in t.dirs \cup {<<>>}
      PROVE  nodeSize(b, d) \in Nat
  <2> DEFINE e == dirents(b, d)
             z == entSizes(e)
  <2>1. PICK n \in Nat : IsList(e, n) /\ \A i \in 1 .. n : entSize(e[i]) \in 1 .. DirentMax
    BY EntriesOfDirectory DEF HasEntries
  <2> HIDE DEF e
  <2>2. DOMAIN e = 1 .. n
    BY <2>1, IndexOfListed
  <2>3. IsList(z, n) /\ \A i \in 1 .. n : z[i] \in Nat
    BY <2>1, <2>2, Amounts DEF entSizes, IsList
  <2> HIDE DEF z
  <2>4. SumOf(z) \in Nat
    BY <2>1, <2>3, TotalsAdd, SMTT(30)
  <2>5. nodeSize(b, d) = SumOf(z)
    BY <1>1, <1>3 DEF nodeSize, z, e
  <2>6. QED
    BY <2>4, <2>5
<1>5. \A f \in InImage(t) : nodeSize(b, f) = t.files[f]
  BY <1>1, <1>2 DEF nodeSize
<1>6. QED
  BY <1>1, <1>2, <1>3, <1>4, <1>5 DEF Nodes

\* Every entry of a directory is read back from its blocks.
LEMMA DirectoryBlocks ==
    ASSUME NEW t, IsTree(t), NEW b, b = setup(t), DirFits(b), NEW d \in t.dirs \cup {<<>>}
    PROVE  \E up : UNION {ParseBlock(NodeBlock(b, d, k)) : k \in 1 .. BlocksOf(nodeSize(b, d))}
                   = AllEntries(t, b, d, up)
<1> DEFINE e == dirents(b, d)
           c == BlocksOf(nodeSize(b, d))
<1>1. PICK n \in Nat : HasEntries(t, b, d, e, n)
  BY EntriesOfDirectory
<1>2. b.dirs = t.dirs /\ d \notin DOMAIN b.files /\ d \in Nodes(t) /\ nodeSize(b, d) \in Nat
  BY Setup, NodeSizes DEF Nodes
<1>3. c \in Nat
  BY <1>2, BlocksAreEnough
<1>4. DOMAIN e = 1 .. n
  BY <1>1, IndexOfListed DEF HasEntries
<1>5. marshalDirents(b, d).out = Placed(e, Starts(e))
      /\ (marshalDirents(b, d).fits <=>
          \A i \in DOMAIN e : Starts(e)[i - 1] + entSize(e[i]) <= c * BlockSize)
  BY DEF marshalDirents
<1>6. marshalDirents(b, d).fits
  BY <1>2 DEF DirFits
<1>7. \A k : NodeBlock(b, d, k) = [dir |-> Placed(e, Starts(e)), nth |-> k]
  BY <1>2, <1>5 DEF NodeBlock
<1> HIDE DEF e, c
<1>8. \A i \in 1 .. n : Starts(e)[i - 1] + entSize(e[i]) <= c * BlockSize
  BY <1>4, <1>5, <1>6
<1>9. UNION {ParseBlock([dir |-> Placed(e, Starts(e)), nth |-> k]) : k \in 1 .. c}
      = {e[i] : i \in 1 .. n}
  BY <1>1, <1>3, <1>8, DirectoryIsParsed DEF HasEntries
<1>10. {ParseBlock(NodeBlock(b, d, k)) : k \in 1 .. c}
       = {ParseBlock([dir |-> Placed(e, Starts(e)), nth |-> k]) : k \in 1 .. c}
  BY <1>7
<1>11. QED
  BY <1>1, <1>9, <1>10 DEF c, HasEntries

----------------------------------------------------------------------------
(* The layout of the image, and what is in its blocks.                      *)

\* The hashes with more than one path, each once.
LEMMA CollidingEnumerates ==
    ASSUME NEW t, IsTree(t), NEW b, b = setup(t)
    PROVE  Enumerates(Colliding(b), {h \in DOMAIN b.groups : Len(b.groups[h]) > 1})
<1> DEFINE S == {h \in DOMAIN b.groups : Len(b.groups[h]) > 1}
           before == [h \in S |-> {g \in S : g < h}]
<1>1. IsFiniteSet(DOMAIN b.groups) /\ DOMAIN b.groups \subseteq Int
  BY Setup
<1>2. S \subseteq DOMAIN b.groups
  OBVIOUS
<1>3. Colliding(b) = Ordered(S, before)
  BY DEF Colliding
<1> HIDE DEF S
<1>4. IsFiniteSet(S) /\ \A x \in S : x \in Int
  BY <1>1, <1>2, FS_Subset
<1>5. \A x \in S : before[x] \subseteq S /\ x \notin before[x]
  BY <1>4
<1>6. \A x, y \in S : y \in before[x] => before[y] \subseteq before[x]
  BY <1>4
<1>7. \A x, y \in S : x = y \/ x \in before[y] \/ y \in before[x]
  BY <1>4
<1> HIDE DEF before
<1>8. Enumerates(Ordered(S, before), S)
  BY <1>4, <1>5, <1>6, <1>7, OrderedEnumerates
<1>9. QED
  BY <1>3, <1>8 DEF S

\* The lists of the resolver have sizes and offsets.
LEMMA ResolverLists ==
    ASSUME NEW t, IsTree(t), NEW b, b = setup(t)
    PROVE  /\ ResolverSize(b) \in Nat /\ DOMAIN Colliding(b) = 1 .. Len(Colliding(b))
           /\ \A i \in DOMAIN Colliding(b) :
                 LET l == Len(b.groups[Colliding(b)[i]])
                 IN  /\ ListOffset(b, i) \in Nat /\ l \in Nat
                     /\ ListOffset(b, i) + l * PathEntSize <= ResolverSize(b)
           /\ b.root = 3 => ResolverSize(b) > 0
<1> DEFINE c == Colliding(b)
           m == Len(c)
           z == ListSizes(b)
<1>1. Enumerates(c, {h \in DOMAIN b.groups : Len(b.groups[h]) > 1})
  BY CollidingEnumerates
<1>2. m \in Nat /\ DOMAIN c = 1 .. m
  BY <1>1, IndexOfListed DEF Enumerates, IsList
<1>3. \A h \in DOMAIN b.groups : Len(b.groups[h]) \in Nat
  BY Setup DEF Enumerates, IsList
<1>4. \A i \in 1 .. m : c[i] \in DOMAIN b.groups
  BY <1>1 DEF Enumerates
<1>5. z = [i \in 1 .. m |-> Len(b.groups[c[i]]) * PathEntSize + ListGap]
  BY <1>2 DEF ListSizes
<1> HIDE DEF c, m, z
<1>6. \A i \in 1 .. m : z[i] \in Nat
  <2> TAKE i \in 1 .. m
  <2>1. Len(b.groups[c[i]]) \in Nat /\ PathEntSize \in Nat /\ ListGap \in Nat
    BY <1>3, <1>4, Amounts
  <2> DEFINE l == Len(b.groups[c[i]])
  <2> HIDE DEF l
  <2>2. l * PathEntSize \in Nat
    BY <2>1, Multiples DEF l
  <2>3. z[i] = l * PathEntSize + ListGap
    BY <1>5 DEF l
  <2>4. QED
    BY <2>1, <2>2, <2>3
<1>7. IsList(z, m)
  BY <1>2, <1>5 DEF IsList
<1>8. Totals(z) \in [0 .. m -> Nat] /\ SumOf(z) = Totals(z)[m]
  BY <1>6, <1>7, TotalsAdd
<1>9. \A i \in 1 .. m : i - 1 \in 0 .. m
  BY <1>2
<1>10. \A i \in 1 .. m : ListOffset(b, i) = Totals(z)[i - 1]
  BY DEF ListOffset, z
<1>11. ResolverSize(b) = SumOf(z)
  BY DEF ResolverSize, z
<1>12. ASSUME b.root = 3
       PROVE  SumOf(z) > 0
  <2>1. PICK h \in DOMAIN b.groups : Len(b.groups[h]) > 1
    BY <1>12, Setup
  <2>2. PICK i \in 1 .. m : c[i] = h
    BY <1>1, <2>1 DEF Enumerates, c, m
  <2> DEFINE l == Len(b.groups[h])
  <2>3. l \in Nat /\ l > 1 /\ PathEntSize \in Nat /\ PathEntSize > 0 /\ ListGap \in Nat
    BY <1>3, <2>1, Amounts
  <2>4. z[i] = l * PathEntSize + ListGap
    BY <1>5, <2>2
  <2> HIDE DEF l
  <2>5. 1 * PathEntSize <= l * PathEntSize /\ l * PathEntSize \in Nat
    <3>1. PathEntSize * 1 <= PathEntSize * l
      BY <2>3, Multiples
    <3>2. PathEntSize * 1 = 1 * PathEntSize /\ PathEntSize * l = l * PathEntSize
          /\ l * PathEntSize \in Nat
      BY <2>3, Multiples
    <3>3. QED
      BY <3>1, <3>2
  <2>6. z[i] > 0 /\ z[i] \in Nat
    BY <2>3, <2>4, <2>5
  <2> DEFINE s == Totals(z)
  <2>7. /\ s \in [0 .. m -> Nat] /\ \A j \in 1 .. m : s[j] = s[j - 1] + z[j]
        /\ \A j, k \in 0 .. m : j <= k => s[j] <= s[k]
        /\ SumOf(z) = s[m]
    BY <1>6, <1>7, TotalsAdd
  <2> HIDE DEF s
  <2>8. i - 1 \in 0 .. m /\ i \in 0 .. m /\ m \in 0 .. m /\ i <= m
    BY <1>2
  <2>9. s[i] = s[i - 1] + z[i] /\ s[i] <= s[m]
    BY <2>7, <2>8
  <2>10. s[i - 1] \in Nat /\ s[i] \in Nat /\ s[m] \in Nat
    BY <2>7, <2>8
  <2>11. QED
    BY <2>6, <2>7, <2>9, <2>10
<1>13. ASSUME NEW i \in 1 .. m
       PROVE  /\ ListOffset(b, i) \in Nat /\ Len(b.groups[c[i]]) \in Nat
              /\ ListOffset(b, i) + Len(b.groups[c[i]]) * PathEntSize <= SumOf(z)
  <2> DEFINE s == Totals(z)
             l == Len(b.groups[c[i]])
  <2>1. /\ s \in [0 .. m -> Nat] /\ \A j \in 1 .. m : s[j] = s[j - 1] + z[j]
        /\ \A j, k \in 0 .. m : j <= k => s[j] <= s[k]
        /\ SumOf(z) = s[m]
    BY <1>6, <1>7, TotalsAdd
  <2>2. l \in Nat /\ PathEntSize \in Nat /\ ListGap \in Nat
    BY <1>3, <1>4, Amounts
  <2>3. z[i] = l * PathEntSize + ListGap /\ ListOffset(b, i) = s[i - 1]
    BY <1>5, <1>10
  <2> HIDE DEF s, l
  <2>4. l * PathEntSize \in Nat
    BY <2>2, Multiples
  <2> DEFINE a == l * PathEntSize
  <2> HIDE DEF a
  <2>5. i - 1 \in 0 .. m /\ i \in 0 .. m /\ m \in 0 .. m /\ i <= m
    BY <1>2
  <2>6. s[i] = s[i - 1] + z[i] /\ s[i] <= s[m]
    BY <2>1, <2>5
  <2>7. s[i - 1] \in Nat /\ s[i] \in Nat /\ s[m] \in Nat
    BY <2>1, <2>5
  <2>8. ListOffset(b, i) + a <= s[m]
    BY <2>2, <2>3, <2>4, <2>6, <2>7 DEF a
  <2>9. QED
    BY <2>1, <2>2, <2>3, <2>7, <2>8 DEF a, l
<1>14. QED
  BY <1>2, <1>8, <1>9, <1>10, <1>11, <1>12, <1>13 DEF c, m

\* What is reserved for the path table, and for the resolver or the empty block.
ForTable(b)    == Reserved(BlocksOf(Cardinality(DOMAIN b.groups)))
ForResolver(b) == IF b.root = 3 THEN Reserved(BlocksOf(ResolverSize(b))) ELSE 1

\* Nothing is where something else is, but what is reserved for the path table and
\* the resolver may be less than they take.
HasLayout(b, at) ==
    LET n == Len(b.nodes)
        c(i) == BlocksOf(nodeSize(b, b.nodes[i]))
    IN  /\ at.inodes \in Nat \ {0} /\ InodeCount(b) <= at.inodes * InodesPerBlock
        /\ at.superRoot = at.inodes + 1 /\ at.table = at.inodes + 2
        /\ at.resolver = at.table + ForTable(b)
        /\ at.resolver \in Nat /\ at.table < at.resolver
        /\ at.ndblock \in Nat
        /\ \A i \in 1 .. n :
              /\ c(i) \in Nat /\ at.start[i] \in Nat
              /\ at.resolver + ForResolver(b) <= at.start[i]
              /\ at.resolver < at.start[i] /\ at.start[i] + c(i) <= at.ndblock
              /\ \A j \in 1 .. n : i < j => at.start[i] + c(i) <= at.start[j]

\* A block is reserved, and as many of those that are needed as there are slots.
LEMMA ReservedAmounts ==
    \A x \in Nat : /\ Reserved(x) \in Nat /\ Reserved(x) >= 1
                   /\ \A k \in 1 .. x : k <= Direct => k <= Reserved(x)
  BY Amounts DEF Reserved, Larger, Smaller

\* calculateDataBlockLayout puts everything behind what is before it.
LEMMA TreeHasLayout ==
    ASSUME NEW t, IsTree(t), NEW b, b = setup(t)
    PROVE  HasLayout(b, Layout(b))
<1> DEFINE n == Len(b.nodes)
           z == [i \in DOMAIN b.nodes |-> BlocksOf(nodeSize(b, b.nodes[i]))]
           sum == Totals(z)
           inodes == ceilDiv(InodeCount(b), InodesPerBlock)
           table == inodes + 2
           res == table + Reserved(BlocksOf(Cardinality(DOMAIN b.groups)))
           first == res + (IF b.root = 3 THEN Reserved(BlocksOf(ResolverSize(b))) ELSE 1)
           at == Layout(b)
<1>1. /\ Enumerates(b.nodes, Nodes(t)) /\ n \in Nat \ {0} /\ b.root \in {2, 3}
      /\ IsFiniteSet(DOMAIN b.groups)
  BY Setup
<1>2. DOMAIN b.nodes = 1 .. n
  BY <1>1, IndexOfListed DEF Enumerates
<1>3. InodeCount(b) \in Nat /\ InodeCount(b) > 0
  BY <1>1, NumbersOfNodes
<1>4. \A x \in Nat : Reserved(x) \in Nat /\ Reserved(x) >= 1
  BY ReservedAmounts
<1>5. BlocksOf(Cardinality(DOMAIN b.groups)) \in Nat
  BY <1>1, FS_CardinalityType, BlocksAreEnough
<1>6. BlocksOf(ResolverSize(b)) \in Nat
  BY ResolverLists, BlocksAreEnough
<1>7. \A i \in 1 .. n : z[i] = BlocksOf(nodeSize(b, b.nodes[i])) /\ z[i] \in Nat
  <2>1. \A i \in 1 .. n : nodeSize(b, b.nodes[i]) \in Nat
    BY <1>1, NodeSizes DEF Enumerates
  <2>2. QED
    BY <1>2, <2>1, BlocksAreEnough
<1>8. IsList(z, n)
  BY <1>1, <1>2 DEF IsList
<1>9. inodes \in Nat \ {0} /\ InodeCount(b) <= inodes * InodesPerBlock
  <2> DEFINE c == InodeCount(b)
             y == InodesPerBlock
             q == (c + y - 1) \div y
             r == (c + y - 1) % y
  <2>1. y \in Nat \ {0} /\ c \in Nat /\ c > 0
    BY <1>3, Amounts
  <2>2. inodes = q
    BY DEF ceilDiv
  <2> HIDE DEF c, y, inodes
  <2>3. c + y - 1 \in Nat
    BY <2>1
  <2>4. q \in Nat /\ r \in 0 .. y - 1 /\ c + y - 1 = y * q + r
    BY <2>1, <2>3, Division
  <2> HIDE DEF q, r
  <2>5. y * q \in Nat /\ y * q = q * y
    BY <2>1, <2>4, Multiples
  <2>6. c <= q * y
    BY <2>1, <2>4, <2>5
  <2>7. q # 0
    <3>1. 0 * y = 0
      BY <2>1
    <3>2. QED
      BY <2>1, <2>6, <3>1
  <2>8. QED
    BY <2>2, <2>4, <2>6, <2>7 DEF c, y
<1>10. /\ at.inodes = inodes /\ at.superRoot = inodes + 1 /\ at.table = table
       /\ at.resolver = res /\ at.start = [i \in DOMAIN b.nodes |-> first + sum[i - 1]]
       /\ at.ndblock = Larger(MinBlocks, first + sum[n])
  BY DEF Layout
<1> HIDE DEF at, inodes, z
<1>11. /\ sum \in [0 .. n -> Nat] /\ sum[0] = 0
       /\ \A i \in 1 .. n : sum[i] = sum[i - 1] + z[i]
       /\ \A i, j \in 0 .. n : i <= j => sum[i] <= sum[j]
  BY <1>7, <1>8, TotalsAdd
<1> HIDE DEF sum
<1>12. res \in Nat /\ table < res /\ first \in Nat /\ res < first
  BY <1>4, <1>5, <1>6, <1>9
<1>13. res = table + ForTable(b) /\ first = res + ForResolver(b) /\ ForResolver(b) \in Nat
  BY <1>4, <1>6 DEF ForTable, ForResolver
<1> HIDE DEF res, table, first
<1>14. \A i \in 1 .. n : i - 1 \in 0 .. n /\ i \in 0 .. n /\ sum[i - 1] \in Nat /\ sum[i] \in Nat
                         /\ sum[i] = sum[i - 1] + z[i] /\ sum[i] <= sum[n]
  BY <1>1, <1>11, SMTT(30)
<1>15. sum[n] \in Nat
  BY <1>1, <1>11
<1>16. at.ndblock \in Nat /\ first + sum[n] <= at.ndblock
  <2>1. first + sum[n] \in Nat /\ MinBlocks \in Nat
    BY <1>12, <1>15, Amounts
  <2>2. QED
    BY <1>10, <2>1 DEF Larger
<1>17. \A i \in 1 .. n : at.start[i] = first + sum[i - 1]
  BY <1>2, <1>10
<1>18. ASSUME NEW i \in 1 .. n
       PROVE  /\ BlocksOf(nodeSize(b, b.nodes[i])) \in Nat /\ at.start[i] \in Nat
              /\ at.resolver + ForResolver(b) <= at.start[i]
              /\ at.resolver < at.start[i]
              /\ at.start[i] + BlocksOf(nodeSize(b, b.nodes[i])) <= at.ndblock
              /\ \A j \in 1 .. n : i < j => at.start[i] + BlocksOf(nodeSize(b, b.nodes[i])) <= at.start[j]
  <2>1. at.start[i] + z[i] = first + sum[i] /\ at.start[i] \in Nat /\ first <= at.start[i]
    <3>1. /\ first \in Nat /\ sum[i - 1] \in Nat /\ sum[i] \in Nat /\ z[i] \in Nat
          /\ sum[i] = sum[i - 1] + z[i] /\ at.start[i] = first + sum[i - 1]
      BY <1>7, <1>12, <1>14, <1>17
    <3>2. QED
      BY <3>1, SMTT(30)
  <2>2. ASSUME NEW j \in 1 .. n, i < j
        PROVE  first + sum[i] <= at.start[j]
    <3>1. i <= j - 1 /\ i \in 0 .. n /\ j - 1 \in 0 .. n
      BY <1>1, <2>2
    <3>2. sum[i] <= sum[j - 1]
      BY <1>11, <3>1
    <3>3. at.start[j] = first + sum[j - 1]
      BY <1>17
    <3>4. QED
      BY <1>12, <1>14, <3>2, <3>3, SMTT(30)
  <2>3. first + sum[i] <= at.ndblock
    BY <1>12, <1>14, <1>15, <1>16, SMTT(30)
  <2>4. z[i] = BlocksOf(nodeSize(b, b.nodes[i])) /\ z[i] \in Nat
    BY <1>7
  <2>5. at.resolver < at.start[i] /\ at.resolver + ForResolver(b) <= at.start[i]
    BY <1>10, <1>12, <1>13, <2>1
  <2>6. at.start[i] + z[i] <= at.ndblock /\ \A j \in 1 .. n : i < j => at.start[i] + z[i] <= at.start[j]
    BY <2>1, <2>2, <2>3
  <2>7. QED
    BY <2>1, <2>4, <2>5, <2>6
<1>19. /\ at.inodes \in Nat \ {0} /\ InodeCount(b) <= at.inodes * InodesPerBlock
       /\ at.superRoot = at.inodes + 1 /\ at.table = at.inodes + 2
       /\ at.resolver = at.table + ForTable(b)
       /\ at.resolver \in Nat /\ at.table < at.resolver
  BY <1>9, <1>10, <1>12, <1>13 DEF table
<1>20. QED
  BY <1>16, <1>18, <1>19 DEF HasLayout, at

\* A block has what was written to it last.
LEMMA WrittenLast ==
    ASSUME NEW x, NEW m, IsList(x, m), NEW n \in Nat, NEW k \in 0 .. n - 1, NEW i \in 1 .. m,
           k - x[i].at + 1 \in DOMAIN x[i].contents,
           \A j \in 1 .. m : i < j => k - x[j].at + 1 \notin DOMAIN x[j].contents
    PROVE  Written(n, x)[k] = x[i].contents[k - x[i].at + 1]
<1> DEFINE C == {j \in DOMAIN x : k - x[j].at + 1 \in DOMAIN x[j].contents}
<1>1. DOMAIN x = 1 .. m /\ m \in Nat
  BY IndexOfListed DEF IsList
<1>2. i \in C
  BY <1>1
<1>3. \A j \in C : j \in Nat /\ i \in Nat /\ ~(i < j)
  BY <1>1
<1>4. Written(n, x)[k] = IF C = {} THEN Zero ELSE x[Max(C)].contents[k - x[Max(C)].at + 1]
  BY DEF Written
<1> HIDE DEF C
<1>5. \A j \in C : i >= j
  BY <1>3
<1>6. \A y \in C : (\A j \in C : y >= j) => y = i
  BY <1>2, <1>3
<1>7. Max(C) = i
  BY <1>2, <1>5, <1>6 DEF Max
<1>8. QED
  BY <1>2, <1>4, <1>7

\* What starts behind a block does not write to it.
LEMMA WrittenHere ==
    ASSUME NEW x, NEW m, IsList(x, m),
           \A j \in 1 .. m : x[j].at \in Nat /\ DOMAIN x[j].contents \subseteq Nat \ {0},
           NEW n \in Nat, NEW k \in 0 .. n - 1, NEW i \in 1 .. m,
           NEW l \in DOMAIN x[i].contents, k = x[i].at + l - 1,
           \A j \in 1 .. m : i < j => k < x[j].at
    PROVE  Written(n, x)[k] = x[i].contents[l]
<1>1. k - x[i].at + 1 = l
  <2>1. l \in Nat /\ x[i].at \in Nat
    OBVIOUS
  <2>2. QED
    BY <2>1
<1>2. ASSUME NEW j \in 1 .. m, i < j
      PROVE  k - x[j].at + 1 \notin DOMAIN x[j].contents
  <2>1. x[j].at \in Nat /\ k \in Nat /\ k < x[j].at
    BY <1>2
  <2>2. k - x[j].at + 1 \notin Nat \ {0}
    BY <2>1
  <2>3. QED
    BY <2>2
<1>3. QED
  BY <1>1, <1>2, WrittenLast

\* The extents of an image: the first four, that of the resolver, and the nodes.
HasExtents(b, at, x) ==
    LET n == Len(b.nodes)
        first == b.root + 2
    IN  /\ IsList(x, first + n)
        /\ x[1] = Extent(0, <<SuperBlock(InodeCount(b), at.inodes)>>)
        /\ x[2] = Extent(1, [k \in 1 .. at.inodes |-> InodeBlock(b, k)])
        /\ x[3] = Extent(at.superRoot, <<[dir |-> Chain(superRootDirents(b)), nth |-> 1]>>)
        /\ x[4] = Extent(at.table, [k \in 1 .. BlocksOf(Cardinality(DOMAIN b.groups)) |->
                                       EntryBlock("table", newFlatPathTable(b), 1, k)])
        /\ b.root = 3 =>
              x[5] = Extent(at.resolver, [k \in 1 .. BlocksOf(ResolverSize(b)) |->
                                             EntryBlock("resolver", collisionResolver(b), PathEntSize, k)])
        /\ \A i \in 1 .. n :
              x[first + i] = Extent(at.start[i], [k \in 1 .. BlocksOf(nodeSize(b, b.nodes[i])) |->
                                                     NodeBlock(b, b.nodes[i], k)])

\* What writeData writes, in its order.
LEMMA TreeHasExtents ==
    ASSUME NEW t, IsTree(t), NEW b, b = setup(t)
    PROVE  HasExtents(b, Layout(b), Extents(b))
<1> DEFINE at == Layout(b)
           n == Len(b.nodes)
           A == Extent(0, <<SuperBlock(InodeCount(b), at.inodes)>>)
           B == Extent(1, [k \in 1 .. at.inodes |-> InodeBlock(b, k)])
           C == Extent(at.superRoot, <<[dir |-> Chain(superRootDirents(b)), nth |-> 1]>>)
           D == Extent(at.table, [k \in 1 .. BlocksOf(Cardinality(DOMAIN b.groups)) |->
                                     EntryBlock("table", newFlatPathTable(b), 1, k)])
           E == Extent(at.resolver, [k \in 1 .. BlocksOf(ResolverSize(b)) |->
                                        EntryBlock("resolver", collisionResolver(b), PathEntSize, k)])
           X(i) == Extent(at.start[i], [k \in 1 .. BlocksOf(nodeSize(b, b.nodes[i])) |->
                                           NodeBlock(b, b.nodes[i], k)])
           u == <<A, B, C, D>>
           v == IF b.root = 3 THEN <<E>> ELSE <<>>
           w == [i \in DOMAIN b.nodes |-> X(i)]
           m == b.root - 2
<1>1. /\ Enumerates(b.nodes, Nodes(t)) /\ n \in Nat \ {0} /\ b.root \in {2, 3}
  BY Setup
<1>2. DOMAIN b.nodes = 1 .. n
  BY <1>1, IndexOfListed DEF Enumerates
<1>3. Extents(b) = (u \o v) \o w
  BY DEF Extents
<1> HIDE DEF A, B, C, D, E, X
<1>4. IsList(u, 4) /\ u[1] = A /\ u[2] = B /\ u[3] = C /\ u[4] = D
  BY DEF IsList
<1>5. IsList(v, m) /\ (b.root = 3 => v[1] = E)
  BY <1>1 DEF IsList
<1>6. IsList(w, n) /\ \A i \in 1 .. n : w[i] = X(i)
  BY <1>1, <1>2 DEF IsList
<1>7. m \in Nat /\ (b.root = 3 => m = 1) /\ 4 + m = b.root + 2
  BY <1>1
<1> HIDE DEF u, v, w, m, n
<1> DEFINE y == u \o v
<1>8. Joins(y, u, 4, v, m)
  BY <1>4, <1>5, Behind
<1> HIDE DEF y
<1>9. IsList(y, 4 + m)
  BY <1>8 DEF Joins
<1>10. /\ y[1] = A /\ y[2] = B /\ y[3] = C /\ y[4] = D
       /\ b.root = 3 => y[5] = E
  <2>1. \A i \in 1 .. 4 : y[i] = u[i]
    BY <1>8 DEF Joins
  <2>2. b.root = 3 => y[4 + 1] = v[1]
    BY <1>7, <1>8 DEF Joins
  <2>3. QED
    BY <1>4, <1>5, <2>1, <2>2
<1> DEFINE x == y \o w
<1>11. Joins(x, y, 4 + m, w, n)
  BY <1>6, <1>9, Behind
<1> HIDE DEF x
<1>12. /\ IsList(x, (4 + m) + n)
       /\ \A i \in 1 .. 4 + m : x[i] = y[i]
       /\ \A i \in 1 .. n : x[(4 + m) + i] = w[i]
  BY <1>11 DEF Joins
<1>13. x[1] = A /\ x[2] = B /\ x[3] = C /\ x[4] = D /\ (b.root = 3 => x[5] = E)
  <2>1. 1 \in 1 .. 4 + m /\ 2 \in 1 .. 4 + m /\ 3 \in 1 .. 4 + m /\ 4 \in 1 .. 4 + m
        /\ (b.root = 3 => 5 \in 1 .. 4 + m)
    BY <1>7
  <2>2. QED
    BY <1>10, <1>12, <2>1
<1>14. IsList(x, (b.root + 2) + n) /\ \A i \in 1 .. n : x[(b.root + 2) + i] = X(i)
  BY <1>6, <1>7, <1>12
<1>15. Extents(b) = x
  BY <1>3 DEF x, y
<1>16. HasExtents(b, at, x)
  BY <1>13, <1>14 DEF HasExtents, A, B, C, D, E, X, n
<1>17. QED
  BY <1>15, <1>16

\* What is in the blocks of an image: all that was laid out, but for what the path
\* table and the resolver take beyond what is reserved for them.
HasBlocks(b, at, img) ==
    /\ DOMAIN img = 0 .. at.ndblock - 1
    /\ img[0] = SuperBlock(InodeCount(b), at.inodes)
    /\ \A k \in 1 .. at.inodes : img[k] = InodeBlock(b, k)
    /\ img[at.superRoot] = [dir |-> Chain(superRootDirents(b)), nth |-> 1]
    /\ \A k \in 1 .. BlocksOf(Cardinality(DOMAIN b.groups)) :
          k <= Direct => img[at.table + k - 1]
                         = EntryBlock("table", newFlatPathTable(b), 1, k)
    /\ b.root = 3 =>
          \A k \in 1 .. BlocksOf(ResolverSize(b)) :
             k <= Direct => img[at.resolver + k - 1]
                            = EntryBlock("resolver", collisionResolver(b), PathEntSize, k)
    /\ \A i \in 1 .. Len(b.nodes) : \A k \in 1 .. BlocksOf(nodeSize(b, b.nodes[i])) :
          img[at.start[i] + k - 1] = NodeBlock(b, b.nodes[i], k)

\* What the blocks of the image hold when everything is written.
LEMMA TreeHasBlocks ==
    ASSUME NEW t, IsTree(t), NEW b, b = setup(t)
    PROVE  /\ HasBlocks(b, Layout(b), InnerImage(b))
           /\ {0, Layout(b).superRoot} \cup (1 .. Layout(b).inodes) \subseteq DOMAIN InnerImage(b)
           /\ \A k \in 1 .. BlocksOf(Cardinality(DOMAIN b.groups)) :
                 k <= Direct => Layout(b).table + k - 1 \in DOMAIN InnerImage(b)
           /\ b.root = 3 =>
                 \A k \in 1 .. BlocksOf(ResolverSize(b)) :
                    k <= Direct => Layout(b).resolver + k - 1 \in DOMAIN InnerImage(b)
           /\ \A i \in 1 .. Len(b.nodes) : \A k \in 1 .. BlocksOf(nodeSize(b, b.nodes[i])) :
                 Layout(b).start[i] + k - 1 \in DOMAIN InnerImage(b)
<1> DEFINE at == Layout(b)
           x == Extents(b)
           n == Len(b.nodes)
           c(i) == BlocksOf(nodeSize(b, b.nodes[i]))
           first == b.root + 2
           img == InnerImage(b)
<1>1. n \in Nat \ {0} /\ b.root \in {2, 3} /\ IsFiniteSet(DOMAIN b.groups)
  BY Setup
<1>2. HasLayout(b, at)
  BY TreeHasLayout
<1>3. HasExtents(b, at, x)
  BY TreeHasExtents
<1>4. img = Written(at.ndblock, x)
  BY DEF InnerImage
<1> HIDE DEF at, x, img
<1>5. /\ at.inodes \in Nat \ {0} /\ at.superRoot = at.inodes + 1 /\ at.table = at.inodes + 2
      /\ at.resolver \in Nat /\ at.table < at.resolver /\ at.ndblock \in Nat
      /\ at.resolver = at.table + ForTable(b)
  BY <1>2 DEF HasLayout
<1>6. \A i \in 1 .. n : /\ c(i) \in Nat /\ at.start[i] \in Nat
                        /\ at.resolver + ForResolver(b) <= at.start[i]
                        /\ at.resolver < at.start[i] /\ at.start[i] + c(i) <= at.ndblock
                        /\ \A j \in 1 .. n : i < j => at.start[i] + c(i) <= at.start[j]
  BY <1>2 DEF HasLayout
<1>7. IsList(x, first + n)
  BY <1>3 DEF HasExtents
<1>8. /\ x[1].at = 0 /\ x[1].contents = <<SuperBlock(InodeCount(b), at.inodes)>>
      /\ x[2].at = 1 /\ x[2].contents = [k \in 1 .. at.inodes |-> InodeBlock(b, k)]
      /\ x[3].at = at.superRoot
      /\ x[3].contents = <<[dir |-> Chain(superRootDirents(b)), nth |-> 1]>>
      /\ x[4].at = at.table
      /\ x[4].contents = [k \in 1 .. BlocksOf(Cardinality(DOMAIN b.groups)) |->
                             EntryBlock("table", newFlatPathTable(b), 1, k)]
      /\ b.root = 3 => /\ x[5].at = at.resolver
                       /\ x[5].contents = [k \in 1 .. BlocksOf(ResolverSize(b)) |->
                                              EntryBlock("resolver", collisionResolver(b), PathEntSize, k)]
  <2>1. \A a, s : Extent(a, s).at = a /\ Extent(a, s).contents = s
    BY DEF Extent
  <2>2. x[1] = Extent(0, <<SuperBlock(InodeCount(b), at.inodes)>>)
    BY <1>3 DEF HasExtents
  <2>3. x[2] = Extent(1, [k \in 1 .. at.inodes |-> InodeBlock(b, k)])
    BY <1>3 DEF HasExtents
  <2>4. x[3] = Extent(at.superRoot, <<[dir |-> Chain(superRootDirents(b)), nth |-> 1]>>)
    BY <1>3 DEF HasExtents
  <2>5. x[4] = Extent(at.table, [k \in 1 .. BlocksOf(Cardinality(DOMAIN b.groups)) |->
                                    EntryBlock("table", newFlatPathTable(b), 1, k)])
    BY <1>3 DEF HasExtents
  <2>6. b.root = 3 =>
           x[5] = Extent(at.resolver, [k \in 1 .. BlocksOf(ResolverSize(b)) |->
                                          EntryBlock("resolver", collisionResolver(b), PathEntSize, k)])
    BY <1>3 DEF HasExtents
  <2>7. x[1].at = 0 /\ x[1].contents = <<SuperBlock(InodeCount(b), at.inodes)>>
    BY <2>1, <2>2
  <2>8. x[2].at = 1 /\ x[2].contents = [k \in 1 .. at.inodes |-> InodeBlock(b, k)]
    BY <2>1, <2>3
  <2>9. x[3].at = at.superRoot
        /\ x[3].contents = <<[dir |-> Chain(superRootDirents(b)), nth |-> 1]>>
    BY <2>1, <2>4
  <2>10. x[4].at = at.table
         /\ x[4].contents = [k \in 1 .. BlocksOf(Cardinality(DOMAIN b.groups)) |->
                                EntryBlock("table", newFlatPathTable(b), 1, k)]
    BY <2>1, <2>5
  <2>11. b.root = 3 => /\ x[5].at = at.resolver
                       /\ x[5].contents = [k \in 1 .. BlocksOf(ResolverSize(b)) |->
                                              EntryBlock("resolver", collisionResolver(b), PathEntSize, k)]
    BY <2>1, <2>6
  <2>12. QED
    BY <2>7, <2>8, <2>9, <2>10, <2>11
<1>9. \A i \in 1 .. n : /\ x[first + i].at = at.start[i]
                        /\ x[first + i].contents = [k \in 1 .. c(i) |-> NodeBlock(b, b.nodes[i], k)]
  <2>1. \A a, s : Extent(a, s).at = a /\ Extent(a, s).contents = s
    BY DEF Extent
  <2>2. \A i \in 1 .. n : x[first + i] = Extent(at.start[i], [k \in 1 .. c(i) |-> NodeBlock(b, b.nodes[i], k)])
    BY <1>3 DEF HasExtents
  <2>3. QED
    BY <2>1, <2>2
<1> HIDE DEF c
<1>10. \A j \in 1 .. first + n : \/ j \in {1, 2, 3, 4} \/ (b.root = 3 /\ j = 5)
                                 \/ (j - first \in 1 .. n /\ first + (j - first) = j)
  BY <1>1, SMTT(30)
<1>11. ASSUME NEW j \in 1 .. first + n
       PROVE  x[j].at \in Nat /\ DOMAIN x[j].contents \subseteq Nat \ {0}
  <2>1. \A m : 1 .. m \subseteq Nat \ {0}
    OBVIOUS
  <2>2. CASE j \in {1, 2, 3, 4}
    <3>1. x[j].at \in Nat
      BY <1>5, <1>8, <2>2
    <3>2. /\ DOMAIN x[1].contents = 1 .. 1 /\ DOMAIN x[2].contents = 1 .. at.inodes
          /\ DOMAIN x[3].contents = 1 .. 1
          /\ DOMAIN x[4].contents = 1 .. BlocksOf(Cardinality(DOMAIN b.groups))
      BY <1>8
    <3>3. QED
      BY <2>1, <2>2, <3>1, <3>2
  <2>3. CASE b.root = 3 /\ j = 5
    <3>1. x[j].at \in Nat
      BY <1>5, <1>8, <2>3
    <3>2. DOMAIN x[5].contents = 1 .. BlocksOf(ResolverSize(b))
      BY <1>8, <2>3
    <3>3. QED
      BY <2>1, <2>3, <3>1, <3>2
  <2>4. CASE j - first \in 1 .. n /\ first + (j - first) = j
    <3> DEFINE i == j - first
    <3>1. i \in 1 .. n /\ first + i = j
      BY <2>4
    <3> HIDE DEF i, first
    <3>2. x[j].at = at.start[i] /\ DOMAIN x[j].contents = 1 .. c(i)
      BY <1>9, <3>1
    <3>3. QED
      BY <1>6, <2>1, <3>1, <3>2
  <2>5. QED
    BY <1>10, <2>2, <2>3, <2>4
<1>12. ASSUME NEW j \in 1 .. first + n
       PROVE  /\ j > 1 => x[j].at > 0
              /\ j > 2 => x[j].at > at.inodes
              /\ j > 3 => x[j].at > at.superRoot
              /\ j > 4 => x[j].at >= at.resolver
              /\ b.root = 3 /\ j > 5 => x[j].at >= at.resolver + ForResolver(b)
  <2>1. CASE j \in {1, 2, 3, 4}
    BY <1>5, <1>8, <2>1
  <2>2. CASE b.root = 3 /\ j = 5
    BY <1>5, <1>8, <2>2
  <2>3. CASE j - first \in 1 .. n /\ first + (j - first) = j
    <3>1. x[first + (j - first)].at = at.start[j - first]
      BY <1>9, <2>3
    <3>2. x[j].at > at.resolver /\ x[j].at >= at.resolver + ForResolver(b)
      BY <1>6, <2>3, <3>1
    <3>3. QED
      BY <1>5, <1>11, <3>2
  <2>4. QED
    BY <1>10, <2>1, <2>2, <2>3
<1>13. ForResolver(b) \in Nat \ {0}
  <2>1. BlocksOf(ResolverSize(b)) \in Nat
    BY ResolverLists, BlocksAreEnough
  <2>2. QED
    BY <2>1, ReservedAmounts DEF ForResolver
<1>14. \A i \in 1 .. n : at.resolver + ForResolver(b) <= at.ndblock
  <2> TAKE i \in 1 .. n
  <2>1. /\ at.resolver + ForResolver(b) <= at.start[i]
        /\ at.start[i] + c(i) <= at.ndblock /\ c(i) \in Nat /\ at.start[i] \in Nat
    BY <1>6
  <2>2. QED
    BY <1>5, <1>13, <2>1, SMTT(30)
<1>15. at.resolver + ForResolver(b) <= at.ndblock
  BY <1>1, <1>14
<1>16. DOMAIN img = 0 .. at.ndblock - 1
  BY <1>4 DEF Written
<1>17. /\ 0 \in 0 .. at.ndblock - 1 /\ 1 .. at.inodes \subseteq 0 .. at.ndblock - 1
       /\ at.superRoot \in 0 .. at.ndblock - 1
  BY <1>5, <1>15, <1>13
<1>18. {1, 2, 3, 4} \subseteq 1 .. first + n /\ (b.root = 3 => 5 \in 1 .. first + n)
  BY <1>1
<1>19. ASSUME NEW k \in 0 .. at.ndblock - 1, NEW i \in 1 .. first + n,
              NEW l \in DOMAIN x[i].contents, k = x[i].at + l - 1,
              \A j \in 1 .. first + n : i < j => k < x[j].at
       PROVE  img[k] = x[i].contents[l]
  <2> HIDE DEF first, n
  <2>1. Written(at.ndblock, x)[k] = x[i].contents[l]
    BY <1>5, <1>7, <1>11, <1>19, WrittenHere, SMTT(30)
  <2>2. QED
    BY <1>4, <2>1
<1> HIDE DEF first, n
<1>20. img[0] = SuperBlock(InodeCount(b), at.inodes)
  <2>1. 1 \in DOMAIN x[1].contents /\ 0 = x[1].at + 1 - 1
    BY <1>8
  <2>2. \A j \in 1 .. first + n : 1 < j => 0 < x[j].at
    BY <1>11, <1>12
  <2>3. img[0] = x[1].contents[1]
    BY <1>17, <1>18, <1>19, <2>1, <2>2
  <2>4. QED
    BY <1>8, <2>3
<1>21. ASSUME NEW k \in 1 .. at.inodes
       PROVE  img[k] = InodeBlock(b, k)
  <2>1. k \in DOMAIN x[2].contents /\ k = x[2].at + k - 1
    BY <1>5, <1>8
  <2>2. \A j \in 1 .. first + n : 2 < j => k < x[j].at
    BY <1>5, <1>11, <1>12
  <2>3. img[k] = x[2].contents[k]
    BY <1>17, <1>18, <1>19, <2>1, <2>2
  <2>4. QED
    BY <1>8, <2>3
<1>22. img[at.superRoot] = [dir |-> Chain(superRootDirents(b)), nth |-> 1]
  <2>1. 1 \in DOMAIN x[3].contents /\ at.superRoot = x[3].at + 1 - 1
    BY <1>5, <1>8
  <2>2. \A j \in 1 .. first + n : 3 < j => at.superRoot < x[j].at
    BY <1>5, <1>11, <1>12
  <2>3. img[at.superRoot] = x[3].contents[1]
    BY <1>17, <1>18, <1>19, <2>1, <2>2
  <2>4. QED
    BY <1>8, <2>3
<1>23. ASSUME NEW k \in 1 .. BlocksOf(Cardinality(DOMAIN b.groups)), k <= Direct
       PROVE  /\ at.table + k - 1 \in 0 .. at.ndblock - 1
              /\ img[at.table + k - 1] = EntryBlock("table", newFlatPathTable(b), 1, k)
  <2> DEFINE q == at.table + k - 1
  <2>1. BlocksOf(Cardinality(DOMAIN b.groups)) \in Nat
    BY <1>1, FS_CardinalityType, BlocksAreEnough
  <2>2. k \in Nat \ {0} /\ k <= ForTable(b) /\ ForTable(b) \in Nat
    BY <1>23, <2>1, ReservedAmounts DEF ForTable
  <2>3. q \in 0 .. at.ndblock - 1 /\ q < at.resolver
    BY <1>5, <1>15, <1>13, <2>2
  <2>4. k \in DOMAIN x[4].contents /\ q = x[4].at + k - 1
    BY <1>8
  <2>5. \A j \in 1 .. first + n : 4 < j => q < x[j].at
    BY <1>5, <1>11, <1>12, <2>3
  <2> HIDE DEF q
  <2>6. img[q] = x[4].contents[k]
    BY <1>18, <1>19, <2>3, <2>4, <2>5
  <2>7. QED
    BY <1>8, <2>3, <2>6 DEF q
<1>24. ASSUME b.root = 3, NEW k \in 1 .. BlocksOf(ResolverSize(b)), k <= Direct
       PROVE  /\ at.resolver + k - 1 \in 0 .. at.ndblock - 1
              /\ img[at.resolver + k - 1]
                 = EntryBlock("resolver", collisionResolver(b), PathEntSize, k)
  <2> DEFINE q == at.resolver + k - 1
  <2>1. BlocksOf(ResolverSize(b)) \in Nat
    BY ResolverLists, BlocksAreEnough
  <2>2. k \in Nat \ {0} /\ k <= ForResolver(b)
    BY <1>24, <2>1, ReservedAmounts DEF ForResolver
  <2>3. q \in 0 .. at.ndblock - 1 /\ q < at.resolver + ForResolver(b)
    BY <1>5, <1>15, <1>13, <2>2
  <2>4. k \in DOMAIN x[5].contents /\ q = x[5].at + k - 1
    BY <1>8, <1>24
  <2>5. \A j \in 1 .. first + n : 5 < j => q < x[j].at
    BY <1>5, <1>11, <1>12, <1>24, <1>13, <2>3
  <2> HIDE DEF q
  <2>6. img[q] = x[5].contents[k]
    BY <1>18, <1>19, <1>24, <2>3, <2>4, <2>5
  <2>7. QED
    BY <1>8, <1>24, <2>3, <2>6 DEF q
<1>25. ASSUME NEW i \in 1 .. n, NEW k \in 1 .. c(i)
       PROVE  /\ at.start[i] + k - 1 \in 0 .. at.ndblock - 1
              /\ img[at.start[i] + k - 1] = NodeBlock(b, b.nodes[i], k)
  <2> DEFINE q == at.start[i] + k - 1
  <2>1. c(i) \in Nat /\ at.start[i] \in Nat /\ at.start[i] + c(i) <= at.ndblock
    BY <1>6
  <2>2. q \in 0 .. at.ndblock - 1 /\ q < at.start[i] + c(i)
    BY <1>5, <2>1
  <2>3. first + i \in 1 .. first + n /\ first \in Nat
    BY <1>1 DEF first, n
  <2>4. x[first + i].at = at.start[i]
        /\ x[first + i].contents = [l \in 1 .. c(i) |-> NodeBlock(b, b.nodes[i], l)]
    BY <1>9
  <2>5. k \in DOMAIN x[first + i].contents /\ q = x[first + i].at + k - 1
    BY <2>4
  <2>6. ASSUME NEW j \in 1 .. first + n, first + i < j
        PROVE  q < x[j].at
    <3>1. j - first \in 1 .. n /\ first + (j - first) = j /\ i < j - first
      BY <1>1, <2>3, <2>6 DEF n
    <3>2. x[first + (j - first)].at = at.start[j - first]
      BY <1>9, <3>1
    <3>3. at.start[i] + c(i) <= at.start[j - first]
      BY <1>6, <3>1
    <3>4. at.start[j - first] \in Nat
      BY <1>6, <3>1
    <3>5. QED
      BY <2>1, <2>2, <3>1, <3>2, <3>3, <3>4
  <2> HIDE DEF q
  <2>7. img[q] = x[first + i].contents[k]
    BY <1>19, <2>2, <2>3, <2>5, <2>6
  <2>8. QED
    BY <2>2, <2>4, <2>7 DEF q
<1>26. HasBlocks(b, at, img)
  BY <1>16, <1>20, <1>21, <1>22, <1>23, <1>24, <1>25 DEF HasBlocks, n, c
<1>27. QED
  BY <1>16, <1>17, <1>23, <1>24, <1>25, <1>26 DEF at, img, n, c

----------------------------------------------------------------------------
(* The inodes, as they are laid out and as they are read.                   *)

HasInodes(b, at, x) ==
    /\ IsList(x, InodeCount(b))
    /\ x[1] = inode(at.superRoot, BlockSize)
    /\ x[2] = inode(at.table, Cardinality(DOMAIN b.groups))
    /\ b.root = 3 => x[3] = inode(at.resolver, ResolverSize(b))
    /\ \A i \in 1 .. Len(b.nodes) :
          x[b.root + i] = inode(at.start[i],
                                IF b.nodes[i] \in DOMAIN b.files THEN b.files[b.nodes[i]]
                                ELSE BlocksOf(nodeSize(b, b.nodes[i])) * BlockSize)

\* The inodes as setup and the layout number and place them.
LEMMA TreeHasInodes ==
    ASSUME NEW t, IsTree(t), NEW b, b = setup(t)
    PROVE  HasInodes(b, Layout(b), Inodes(b))
<1> DEFINE at == Layout(b)
           n == Len(b.nodes)
           size(path) == IF path \in DOMAIN b.files THEN b.files[path]
                         ELSE BlocksOf(nodeSize(b, path)) * BlockSize
           A == inode(at.superRoot, BlockSize)
           B == inode(at.table, Cardinality(DOMAIN b.groups))
           C == inode(at.resolver, ResolverSize(b))
           X(i) == inode(at.start[i], size(b.nodes[i]))
           u == <<A, B>>
           v == IF b.root = 3 THEN <<C>> ELSE <<>>
           w == [i \in DOMAIN b.nodes |-> X(i)]
           m == b.root - 2
<1>1. /\ Enumerates(b.nodes, Nodes(t)) /\ n \in Nat \ {0} /\ b.root \in {2, 3}
  BY Setup
<1>2. DOMAIN b.nodes = 1 .. n /\ InodeCount(b) = b.root + n
  BY <1>1, IndexOfListed DEF Enumerates, InodeCount
<1>3. Inodes(b) = (u \o v) \o w
  BY DEF Inodes
<1> HIDE DEF A, B, C, X
<1>5. IsList(u, 2) /\ u[1] = A /\ u[2] = B
  BY DEF IsList
<1>6. IsList(v, m) /\ (b.root = 3 => v[1] = C)
  BY <1>1 DEF IsList
<1>7. IsList(w, n) /\ \A i \in 1 .. n : w[i] = X(i)
  BY <1>1, <1>2 DEF IsList
<1>8. m \in Nat /\ (b.root = 3 => m = 1) /\ 2 + m = b.root
  BY <1>1
<1> HIDE DEF u, v, w, m, n
<1> DEFINE y == u \o v
<1>9. Joins(y, u, 2, v, m)
  BY <1>5, <1>6, Behind
<1> HIDE DEF y
<1>10. IsList(y, 2 + m)
  BY <1>9 DEF Joins
<1>11. y[1] = A /\ y[2] = B /\ (b.root = 3 => y[3] = C)
  <2>1. \A i \in 1 .. 2 : y[i] = u[i]
    BY <1>9 DEF Joins
  <2>2. b.root = 3 => y[2 + 1] = v[1]
    BY <1>8, <1>9 DEF Joins
  <2>3. QED
    BY <1>5, <1>6, <2>1, <2>2
<1> DEFINE x == y \o w
<1>12. Joins(x, y, 2 + m, w, n)
  BY <1>7, <1>10, Behind
<1> HIDE DEF x
<1>13. /\ IsList(x, (2 + m) + n)
       /\ \A i \in 1 .. 2 + m : x[i] = y[i]
       /\ \A i \in 1 .. n : x[(2 + m) + i] = w[i]
  BY <1>12 DEF Joins
<1>14. x[1] = A /\ x[2] = B /\ (b.root = 3 => x[3] = C)
  <2>1. 1 \in 1 .. 2 + m /\ 2 \in 1 .. 2 + m /\ (b.root = 3 => 3 \in 1 .. 2 + m)
    BY <1>8
  <2>2. QED
    BY <1>11, <1>13, <2>1
<1>15. IsList(x, b.root + n) /\ \A i \in 1 .. n : x[b.root + i] = X(i)
  BY <1>7, <1>8, <1>13
<1>16. Inodes(b) = x
  BY <1>3 DEF x, y
<1>17. HasInodes(b, at, x)
  BY <1>2, <1>14, <1>15 DEF HasInodes, A, B, C, X, n
<1>18. QED
  BY <1>16, <1>17

\* The reader has the inodes that were laid out.
LEMMA InodesAreRead ==
    ASSUME NEW t, IsTree(t), NEW b, b = setup(t)
    PROVE  InodeTable(InnerImage(b)) = Inodes(b)
<1> DEFINE at == Layout(b)
           img == InnerImage(b)
           c == InodeCount(b)
           y == InodesPerBlock
           x == Inodes(b)
           sb == SuperBlock(c, at.inodes)
           read(block, i) == IF "ino" \in DOMAIN block /\ i \in DOMAIN block.ino
                             THEN block.ino[i] ELSE inode(0, 0)
<1>1. HasBlocks(b, at, img) /\ {0} \cup (1 .. at.inodes) \subseteq DOMAIN img
  BY TreeHasBlocks
<1>2. at.inodes \in Nat \ {0} /\ c <= at.inodes * y /\ at.inodes = ceilDiv(c, y)
  BY TreeHasLayout DEF HasLayout, Layout
<1>3. c \in Nat /\ c > 0 /\ y \in Nat \ {0}
  <2>1. c \in Nat /\ c = b.root + Len(b.nodes) /\ b.root \in {2, 3} /\ Len(b.nodes) \in Nat
    BY Setup, NumbersOfNodes
  <2>2. c > 0
    BY <2>1
  <2>3. QED
    BY <2>1, <2>2, Amounts
<1>4. x = [k \in 1 .. c |-> x[k]]
  BY TreeHasInodes DEF HasInodes, IsList
<1>5. At(img, 0) = sb
  BY <1>1 DEF At, HasBlocks
<1>6. "inodes" \in DOMAIN sb /\ sb.inodes = c /\ sb.blocks = at.inodes
  BY DEF SuperBlock
<1> DEFINE T == [k \in 1 .. Smaller(sb.inodes, sb.blocks * y) |->
                    read(At(img, 1 + (k - 1) \div y), 1 + ((k - 1) % y))]
<1>7. InodeTable(img) = T
  BY <1>5, <1>6 DEF InodeTable
<1>8. Smaller(sb.inodes, sb.blocks * y) = c
  <2>1. at.inodes * y \in Nat
    BY <1>2, <1>3, Multiples
  <2> HIDE DEF sb, at, c, y
  <2>2. QED
    BY <1>2, <1>3, <1>6, <2>1 DEF Smaller
<1>9. ASSUME NEW k \in 1 .. c
      PROVE  read(At(img, 1 + (k - 1) \div y), 1 + ((k - 1) % y)) = x[k]
  <2> DEFINE q == (k - 1) \div y
             r == (k - 1) % y
             size == Smaller(y, c - ((1 + q) - 1) * y)
             blk == [ino |-> [i \in 1 .. size |-> x[((1 + q) - 1) * y + i]]]
  <2>1. k - 1 \in Nat /\ k - 1 < c
    BY <1>3
  <2>2. q \in Nat /\ r \in 0 .. y - 1 /\ k - 1 = y * q + r
    <3> HIDE DEF y
    <3>1. QED
      BY <1>3, <2>1, Division
  <2>3. q < at.inodes
    <3>1. q < ceilDiv(c, y)
      <4> HIDE DEF y, c, q
      <4>1. QED
        BY <1>3, <2>1, QuotientBound DEF q
    <3> HIDE DEF q, y, c, at
    <3>2. QED
      BY <1>2, <3>1
  <2> HIDE DEF q, r, y, at, c
  <2>4. 1 + q \in 1 .. at.inodes
    BY <1>2, <2>2, <2>3
  <2>5. At(img, 1 + q) = InodeBlock(b, 1 + q)
    <3>1. At(img, 1 + q) = img[1 + q]
      BY <1>1, <2>4 DEF At
    <3>2. QED
      BY <1>1, <2>4, <3>1 DEF HasBlocks
  <2>6. InodeBlock(b, 1 + q) = blk
    BY DEF InodeBlock, c, y
  <2>7. (1 + q) - 1 = q /\ q * y = y * q /\ q * y \in Nat
    BY <1>3, <2>2, Multiples
  <2>8. 1 + r \in 1 .. size /\ ((1 + q) - 1) * y + (1 + r) = k
    <3>1. y \in Nat /\ c \in Nat /\ r \in Nat /\ r <= y - 1 /\ k <= c /\ k \in Nat
          /\ k - 1 = q * y + r
      BY <1>3, <2>2, <2>7
    <3>2. size = Smaller(y, c - q * y)
      BY <2>7
    <3> DEFINE p == q * y
    <3> HIDE DEF p, size
    <3>3. p \in Nat /\ k - 1 = p + r /\ size = Smaller(y, c - p)
      BY <2>7, <3>1, <3>2 DEF p
    <3>4. 1 + r <= y /\ 1 + r <= c - p /\ p + (1 + r) = k
      BY <3>1, <3>3
    <3>5. 1 + r \in 1 .. size
      BY <3>1, <3>3, <3>4 DEF Smaller
    <3>6. QED
      BY <2>7, <3>4, <3>5 DEF p
  <2>9. "ino" \in DOMAIN blk /\ blk.ino = [i \in 1 .. size |-> x[((1 + q) - 1) * y + i]]
    OBVIOUS
  <2> HIDE DEF blk
  <2>10. 1 + r \in DOMAIN blk.ino /\ blk.ino[1 + r] = x[k]
    BY <2>8, <2>9
  <2>11. read(At(img, 1 + q), 1 + r) = x[k]
    BY <2>5, <2>6, <2>9, <2>10
  <2>12. QED
    BY <2>11 DEF q, r
<1>10. T = [k \in 1 .. c |-> x[k]]
  <2> HIDE DEF read, sb, c, y, x, img
  <2>1. QED
    BY <1>8, <1>9
<1>11. QED
  BY <1>4, <1>7, <1>10

----------------------------------------------------------------------------
(* Directories, as they are read.                                           *)

\* The reader finds the entries of the super root at inode 0.
LEMMA SuperRootIsRead ==
    ASSUME NEW t, IsTree(t), NEW b, b = setup(t)
    PROVE  Children(InnerImage(b), Inodes(b)[1]) = SuperEntries(b)
<1> DEFINE at == Layout(b)
           img == InnerImage(b)
           c == [dir |-> Chain(superRootDirents(b)), nth |-> 1]
           ino == Inodes(b)[1]
<1>1. HasBlocks(b, at, img) /\ at.superRoot \in DOMAIN img /\ HasInodes(b, at, Inodes(b))
  BY TreeHasBlocks, TreeHasInodes
<1>2. img[at.superRoot] = c
  BY <1>1 DEF HasBlocks
<1>3. ino = inode(at.superRoot, BlockSize)
  BY <1>1 DEF HasInodes
<1>4. at.superRoot \in Nat
  BY TreeHasLayout DEF HasLayout
<1>5. BlocksOf(BlockSize) = 1
  <2>1. 1 \in Nat /\ 1 * BlockSize = BlockSize
    BY Amounts
  <2>2. BlocksOf(1 * BlockSize) = 1
    BY <2>1, BlocksAreEnough
  <2>3. QED
    BY <2>1, <2>2
<1>6. ino.start = at.superRoot /\ ino.blocks = 1
  BY <1>3, <1>5 DEF inode
<1> HIDE DEF ino, img, at, c
<1>7. {ParseBlock(At(img, ino.start + k - 1)) : k \in 1 .. ino.blocks} = {ParseBlock(c)}
  <2>1. \A k \in 1 .. ino.blocks : At(img, ino.start + k - 1) = c
    <3>1. \A k \in 1 .. ino.blocks : ino.start + k - 1 = at.superRoot
      BY <1>4, <1>6
    <3>2. At(img, at.superRoot) = c
      BY <1>1, <1>2 DEF At
    <3>3. QED
      BY <3>1, <3>2
  <2>2. 1 \in 1 .. ino.blocks
    BY <1>6
  <2>3. QED
    BY <2>1, <2>2
<1>8. ParseBlock(c) = SuperEntries(b)
  BY Setup, SuperRootIsParsed DEF c
<1>9. QED
  BY <1>7, <1>8 DEF Children, ino, img

\* And those of each directory at its inode.
LEMMA DirectoryIsRead ==
    ASSUME NEW t, IsTree(t), NEW b, b = setup(t), DirFits(b), NEW d \in t.dirs \cup {<<>>}
    PROVE  \E up : Children(InnerImage(b), Inodes(b)[Number(b, d) + 1]) = AllEntries(t, b, d, up)
<1> DEFINE at == Layout(b)
           img == InnerImage(b)
           i == Place(b, d)
           ino == Inodes(b)[Number(b, d) + 1]
           n == BlocksOf(nodeSize(b, d))
<1>1. /\ i \in 1 .. Len(b.nodes) /\ b.nodes[i] = d /\ Number(b, d) = b.root - 1 + i
      /\ b.root \in {2, 3} /\ d \notin DOMAIN b.files /\ nodeSize(b, d) \in Nat
  <2>1. d \in Nodes(t)
    BY DEF Nodes
  <2>2. i \in 1 .. Len(b.nodes) /\ b.nodes[i] = d /\ Number(b, d) = b.root - 1 + i
    BY <2>1, NumbersOfNodes
  <2>3. b.root \in {2, 3}
    BY Setup
  <2>4. d \notin DOMAIN b.files /\ nodeSize(b, d) \in Nat
    BY <2>1, NodeSizes
  <2>5. QED
    BY <2>2, <2>3, <2>4
<1>2. n \in Nat /\ BlocksOf(n * BlockSize) = n
  BY <1>1, BlocksAreEnough
<1>3. Number(b, d) + 1 = b.root + i
  BY <1>1
<1>4. ino = inode(at.start[i], n * BlockSize)
  <2>1. HasInodes(b, at, Inodes(b))
    BY TreeHasInodes
  <2>2. Inodes(b)[b.root + i] = inode(at.start[i], n * BlockSize)
    BY <1>1, <2>1 DEF HasInodes
  <2>3. QED
    BY <1>3, <2>2
<1>5. ino.start = at.start[i] /\ ino.blocks = n
  BY <1>2, <1>4 DEF inode
<1> HIDE DEF ino
<1>6. \A k \in 1 .. n : At(img, ino.start + k - 1) = NodeBlock(b, d, k)
  <2>1. HasBlocks(b, at, img)
    BY TreeHasBlocks
  <2>2. \A k \in 1 .. BlocksOf(nodeSize(b, b.nodes[i])) : at.start[i] + k - 1 \in DOMAIN img
    BY <1>1, TreeHasBlocks
  <2> HIDE DEF at, img
  <2>3. \A k \in 1 .. BlocksOf(nodeSize(b, b.nodes[i])) :
           img[at.start[i] + k - 1] = NodeBlock(b, b.nodes[i], k)
    BY <1>1, <2>1 DEF HasBlocks
  <2>4. QED
    BY <1>1, <1>5, <2>2, <2>3 DEF At
<1> HIDE DEF at, img, n
<1>7. {ParseBlock(At(img, ino.start + k - 1)) : k \in 1 .. ino.blocks}
      = {ParseBlock(NodeBlock(b, d, k)) : k \in 1 .. n}
  BY <1>5, <1>6
<1>8. PICK up : UNION {ParseBlock(NodeBlock(b, d, k)) : k \in 1 .. n} = AllEntries(t, b, d, up)
  BY DirectoryBlocks DEF n
<1>9. Children(img, ino) = AllEntries(t, b, d, up)
  BY <1>7, <1>8 DEF Children
<1>10. QED
  BY <1>9 DEF img, ino

\* Paths below uroot.
LEMMA PathsBelow ==
    ASSUME NEW u \in Int
    PROVE  /\ \A p \in Seq(Nat) :
                 /\ <<u>> \o p \in Seq(Int) /\ Len(<<u>> \o p) = 1 + Len(p)
                 /\ (<<u>> \o p)[1] = u /\ Tail(<<u>> \o p) = p
           /\ \A f \in Seq(Nat), x \in Nat : Append(<<u>> \o f, x) = <<u>> \o Append(f, x)
           /\ <<u>> \o <<>> = <<u>>
<1>1. <<u>> \in Seq(Int) /\ Len(<<u>>) = 1
  OBVIOUS
<1>2. \A p \in Seq(Nat) : p \in Seq(Int)
  BY SeqMonotonic
<1>3. ASSUME NEW p \in Seq(Nat)
      PROVE  /\ <<u>> \o p \in Seq(Int) /\ Len(<<u>> \o p) = 1 + Len(p)
             /\ (<<u>> \o p)[1] = u /\ Tail(<<u>> \o p) = p
  <2> DEFINE s == <<u>>
             w == s \o p
  <2>1. s \in Seq(Int) /\ p \in Seq(Int) /\ Len(s) = 1 /\ s[1] = u
    BY <1>1, <1>2
  <2> HIDE DEF s
  <2>2. Len(p) \in Nat
    BY LenProperties
  <2>3. /\ w \in Seq(Int) /\ Len(w) = 1 + Len(p)
        /\ \A i \in 1 .. 1 + Len(p) : w[i] = IF i <= 1 THEN s[i] ELSE p[i - 1]
    <3>1. /\ s \o p \in Seq(Int) /\ Len(s \o p) = Len(s) + Len(p)
          /\ \A i \in 1 .. Len(s) + Len(p) :
                (s \o p)[i] = IF i <= Len(s) THEN s[i] ELSE p[i - Len(s)]
      BY <2>1, ConcatProperties
    <3>2. QED
      BY <2>1, <3>1
  <2> HIDE DEF w
  <2>4. w # <<>>
    BY <2>2, <2>3, EmptySeq
  <2>5. /\ Tail(w) \in Seq(Int) /\ Len(Tail(w)) = Len(w) - 1
        /\ \A i \in 1 .. Len(Tail(w)) : Tail(w)[i] = w[i + 1]
    BY <2>3, <2>4, HeadTailProperties
  <2>6. Len(Tail(w)) = Len(p)
    BY <2>2, <2>3, <2>5
  <2>7. ASSUME NEW i \in 1 .. Len(p)
        PROVE  Tail(w)[i] = p[i]
    <3>1. i + 1 \in 1 .. 1 + Len(p) /\ ~(i + 1 <= 1) /\ (i + 1) - 1 = i
      BY <2>2
    <3>2. w[i + 1] = p[i]
      BY <2>3, <3>1
    <3>3. QED
      BY <2>5, <2>6, <3>2
  <2>8. Tail(w) = p
    BY <2>1, <2>5, <2>6, <2>7, SeqEqual
  <2>9. w[1] = u
    BY <2>1, <2>2, <2>3
  <2>10. QED
    BY <2>3, <2>8, <2>9 DEF w, s
<1>4. ASSUME NEW f \in Seq(Nat), NEW x \in Nat
      PROVE  Append(<<u>> \o f, x) = <<u>> \o Append(f, x)
  <2> DEFINE s == <<u>>
             n == Len(f)
             sf == s \o f
             fx == Append(f, x)
             v == Append(sf, x)
             w == s \o fx
  <2>1. s \in Seq(Int) /\ f \in Seq(Int) /\ x \in Int /\ Len(s) = 1 /\ n \in Nat
    BY <1>1, <1>2, LenProperties
  <2> HIDE DEF s, n
  <2>2. sf \in Seq(Int) /\ Joins(sf, s, 1, f, n)
    <3>1. IsList(s, 1) /\ IsList(f, n)
      BY <2>1, SeqIsList DEF n
    <3>2. s \o f \in Seq(Int)
      BY <2>1, ConcatProperties
    <3>3. QED
      BY <3>1, <3>2, Behind
  <2>3. /\ fx \in Seq(Int) /\ Len(fx) = n + 1 /\ fx[n + 1] = x
        /\ \A i \in 1 .. n : fx[i] = f[i]
    <3>1. /\ Append(f, x) \in Seq(Int) /\ Len(Append(f, x)) = Len(f) + 1
          /\ (\A i \in 1 .. Len(f) : Append(f, x)[i] = f[i]) /\ Append(f, x)[Len(f) + 1] = x
      BY <2>1, AppendProperties
    <3>2. QED
      BY <3>1 DEF n
  <2> HIDE DEF sf, fx
  <2>4. Len(sf) = 1 + n
    BY <2>2, IndexOfListed DEF Joins
  <2>5. /\ v \in Seq(Int) /\ Len(v) = (1 + n) + 1 /\ v[(1 + n) + 1] = x
        /\ \A i \in 1 .. 1 + n : v[i] = sf[i]
    <3>1. /\ Append(sf, x) \in Seq(Int) /\ Len(Append(sf, x)) = Len(sf) + 1
          /\ (\A i \in 1 .. Len(sf) : Append(sf, x)[i] = sf[i]) /\ Append(sf, x)[Len(sf) + 1] = x
      BY <2>1, <2>2, AppendProperties
    <3>2. QED
      BY <2>4, <3>1
  <2>6. w \in Seq(Int) /\ Joins(w, s, 1, fx, n + 1)
    <3>1. IsList(s, 1) /\ IsList(fx, n + 1)
      BY <2>1, <2>3, SeqIsList
    <3>2. s \o fx \in Seq(Int)
      BY <2>1, <2>3, ConcatProperties
    <3>3. QED
      BY <3>1, <3>2, Behind
  <2> HIDE DEF v, w
  <2>7. Len(w) = 1 + (n + 1)
    BY <2>6, IndexOfListed DEF Joins
  <2>8. Len(v) = Len(w) /\ Len(v) = n + 2
    BY <2>1, <2>5, <2>7
  <2>9. ASSUME NEW i \in 1 .. n + 2
        PROVE  v[i] = w[i]
    <3>1. i = 1 \/ i = n + 2 \/ i - 1 \in 1 .. n
      BY <2>1
    <3>2. CASE i = 1
      <4>1. v[1] = sf[1]
        BY <2>1, <2>5
      <4>2. sf[1] = s[1] /\ w[1] = s[1]
        BY <2>2, <2>6 DEF Joins
      <4>3. QED
        BY <3>2, <4>1, <4>2
    <3>3. CASE i = n + 2
      <4>1. (1 + n) + 1 = n + 2 /\ 1 + (n + 1) = n + 2 /\ n + 1 \in 1 .. n + 1
        BY <2>1
      <4>2. w[1 + (n + 1)] = fx[n + 1]
        BY <2>6, <4>1 DEF Joins
      <4>3. QED
        BY <2>3, <2>5, <3>3, <4>1, <4>2
    <3>4. CASE i - 1 \in 1 .. n
      <4> DEFINE j == i - 1
      <4>1. 1 + j = i /\ j \in 1 .. n + 1 /\ i \in 1 .. 1 + n
        BY <2>1, <3>4
      <4>2. j \in 1 .. n
        BY <3>4
      <4> HIDE DEF j
      <4>3. sf[1 + j] = f[j]
        BY <2>2, <4>2 DEF Joins
      <4>4. w[1 + j] = fx[j]
        BY <2>6, <4>1 DEF Joins
      <4>5. QED
        BY <2>3, <2>5, <4>1, <4>2, <4>3, <4>4
    <3>5. QED
      BY <3>1, <3>2, <3>3, <3>4
  <2>10. v = w
    BY <2>5, <2>6, <2>8, <2>9, SeqEqual
  <2>11. QED
    BY <2>10 DEF v, w, sf, fx, s
<1>5. <<u>> \o <<>> = <<u>>
  BY <1>1, ConcatEmptySeq
<1>6. QED
  BY <1>3, <1>4, <1>5

\* A path is no longer than there are nodes: every beginning of it is one.
LEMMA PathsAreShort ==
    ASSUME NEW t, IsTree(t), NEW b, b = setup(t), NEW p \in Nodes(t)
    PROVE  Len(p) \in Nat /\ Len(p) <= Len(b.nodes)
<1> DEFINE n == Len(b.nodes)
           D == t.dirs \cup {<<>>}
<1>1. n \in Nat \ {0} /\ b.root \in {2, 3}
  BY Setup
<1>2. \A q \in Nodes(t) : Place(b, q) \in 1 .. n /\ b.nodes[Place(b, q)] = q
  BY NumbersOfNodes
<1>3. \A q \in Nodes(t) : q = <<>> \/ (/\ q \in Seq(Nat) /\ Len(q) \in Nat \ {0}
                                       /\ Front(q) \in D /\ Len(Front(q)) = Len(q) - 1)
  BY PathsOfTree DEF Nodes
<1>4. \A q \in Nodes(t) : Len(q) \in Nat
  BY <1>3
<1>5. D \subseteq Nodes(t)
  BY DEF Nodes
<1> DEFINE T == {k \in Nat : k <= Len(p) => \E q \in Nodes(t) : Len(q) = Len(p) - k}
<1>6. 0 \in T
  BY <1>4
<1>7. ASSUME NEW k \in Nat, k \in T
      PROVE  k + 1 \in T
  <2> SUFFICES ASSUME k + 1 <= Len(p)
               PROVE  \E q \in Nodes(t) : Len(q) = Len(p) - (k + 1)
    OBVIOUS
  <2>1. PICK q \in Nodes(t) : Len(q) = Len(p) - k
    BY <1>4, <1>7
  <2>2. q # <<>>
    BY <1>4, <2>1
  <2>3. Front(q) \in Nodes(t) /\ Len(Front(q)) = Len(q) - 1
    BY <1>3, <1>5, <2>2
  <2>4. Len(Front(q)) = Len(p) - (k + 1)
    BY <1>4, <2>1, <2>3
  <2>5. QED
    BY <2>3, <2>4
<1>8. Nat \subseteq T
  <2> HIDE DEF T
  <2>1. QED
    BY <1>6, <1>7, Induction
<1>9. ASSUME NEW l \in 1 .. Len(p)
      PROVE  \E q \in Nodes(t) : Len(q) = l
  <2>1. Len(p) - l \in Nat /\ Len(p) - (Len(p) - l) = l /\ Len(p) - l <= Len(p)
    BY <1>4
  <2>2. Len(p) - l \in T
    <3> HIDE DEF T
    <3>1. QED
      BY <1>8, <2>1
  <2>3. QED
    BY <2>1, <2>2
<1> DEFINE node(l) == CHOOSE q \in Nodes(t) : Len(q) = l
           f == [l \in 1 .. Len(p) |-> Place(b, node(l))]
<1>10. \A l \in 1 .. Len(p) : node(l) \in Nodes(t) /\ Len(node(l)) = l
  BY <1>9
<1> HIDE DEF node
<1>11. f \in [1 .. Len(p) -> 1 .. n]
  BY <1>2, <1>10
<1>12. \A l, m \in 1 .. Len(p) : f[l] = f[m] => l = m
  <2>1. \A l \in 1 .. Len(p) : b.nodes[f[l]] = node(l)
    BY <1>2, <1>10
  <2>2. QED
    BY <1>10, <2>1
<1> HIDE DEF f
<1>13. f \in Injection(1 .. Len(p), 1 .. n)
  BY <1>11, <1>12 DEF Injection, IsInjective
<1>14. IsFiniteSet(1 .. n) /\ Cardinality(1 .. n) = n
  <2> HIDE DEF n
  <2>1. n \in Int /\ 1 \in Int
    BY <1>1
  <2>2. IsFiniteSet(1 .. n) /\ Cardinality(1 .. n) = IF 1 > n THEN 0 ELSE n - 1 + 1
    BY <2>1, FS_Interval
  <2>3. QED
    BY <1>1, <2>2
<1>15. Cardinality(1 .. Len(p)) <= n
  BY <1>13, <1>14, FS_Injection
<1>16. Cardinality(1 .. Len(p)) = Len(p)
  <2>1. Len(p) \in Nat /\ 1 \in Int
    BY <1>4
  <2>2. Cardinality(1 .. Len(p)) = IF 1 > Len(p) THEN 0 ELSE Len(p) - 1 + 1
    BY <2>1, FS_Interval, SMTT(30)
  <2>3. QED
    BY <2>1, <2>2
<1>17. QED
  BY <1>4, <1>15, <1>16

----------------------------------------------------------------------------
(* What is below inode 0, level by level.                                   *)

\* A node as the reader has it, and the files beside uroot.
Seen(t, b, p) == <<<<uroot>> \o p, Kind(t, p), Number(b, p)>>
Tables(b) ==
    {<<<<flat_path_table>>, "file", 1>>}
    \cup (IF b.root = 3 THEN {<<<<collision_resolver>>, "file", 2>>} ELSE {})
Level(t, b, k) ==
    IF k = 0 THEN {<<<<>>, "dir", 0>>}
    ELSE {Seen(t, b, p) : p \in {q \in Nodes(t) : Len(q) = k - 1}}
         \cup (IF k = 1 THEN Tables(b) ELSE {})

\* The first level below inode 0 is what the super root lists.
LEMMA SuperRootLevel ==
    ASSUME NEW t, IsTree(t), NEW b, b = setup(t)
    PROVE  InDirectory(InnerImage(b), <<<<>>, "dir", 0>>) = Level(t, b, 1)
<1> DEFINE img == InnerImage(b)
           x == <<<<>>, "dir", 0>>
           S == SuperEntries(b)
           tuple(e) == <<Append(x[1], e.name), e.type, e.number>>
           n == InodeCount(b)
<1>1. InodeTable(img) = Inodes(b) /\ Children(img, Inodes(b)[1]) = S
  BY InodesAreRead, SuperRootIsRead
<1>2. Len(Inodes(b)) = n
  <2>1. HasInodes(b, Layout(b), Inodes(b))
    BY TreeHasInodes
  <2>2. QED
    BY <2>1, IndexOfListed DEF HasInodes
<1>3. b.root \in {2, 3} /\ n \in Nat /\ b.root < n /\ Number(b, <<>>) = b.root /\ <<>> \in Nodes(t)
  <2>1. Len(b.nodes) \in Nat \ {0} /\ b.root \in {2, 3}
    BY Setup
  <2>2. n \in Nat /\ n = b.root + Len(b.nodes) /\ Number(b, <<>>) = b.root
    BY NumbersOfNodes
  <2>3. QED
    BY <2>1, <2>2 DEF Nodes
<1>4. x[1] = <<>> /\ x[3] = 0 /\ 0 + 1 = 1
  OBVIOUS
<1> HIDE DEF img, n
<1>5. \A e \in S : e.type \in {"file", "dir"} /\ e.number < n
  BY <1>3 DEF SuperEntries, Dirent
<1> HIDE DEF x
<1>6. InDirectory(img, x) = {tuple(e) : e \in S}
  <2>1. {c \in Children(img, InodeTable(img)[x[3] + 1]) :
            c.type \in {"file", "dir"} /\ c.number < Len(InodeTable(img))} = S
    BY <1>1, <1>2, <1>4, <1>5
  <2> HIDE DEF S
  <2>2. QED
    BY <2>1 DEF InDirectory
<1>7. \A u : Append(<<>>, u) = <<u>>
  OBVIOUS
<1>8. {tuple(e) : e \in S} = {<<<<uroot>>, "dir", b.root>>} \cup Tables(b)
  <2>1. \A type, number, name : tuple(Dirent(type, number, name)) = <<<<name>>, type, number>>
    BY <1>4, <1>7 DEF Dirent
  <2> HIDE DEF tuple
  <2>2. CASE b.root = 3
    <3>1. S = {Dirent("file", 1, flat_path_table), Dirent("dir", b.root, uroot),
               Dirent("file", 2, collision_resolver)}
      BY <2>2 DEF SuperEntries
    <3>2. {tuple(e) : e \in S} = {tuple(Dirent("file", 1, flat_path_table)),
              tuple(Dirent("dir", b.root, uroot)), tuple(Dirent("file", 2, collision_resolver))}
      BY <3>1
    <3>3. QED
      BY <2>1, <2>2, <3>2 DEF Tables
  <2>3. CASE b.root # 3
    <3>1. S = {Dirent("file", 1, flat_path_table), Dirent("dir", b.root, uroot)}
      BY <2>3 DEF SuperEntries
    <3>2. {tuple(e) : e \in S} = {tuple(Dirent("file", 1, flat_path_table)),
              tuple(Dirent("dir", b.root, uroot))}
      BY <3>1
    <3>3. QED
      BY <2>1, <2>3, <3>2 DEF Tables
  <2>4. QED
    BY <2>2, <2>3
<1>9. {q \in Nodes(t) : Len(q) = 1 - 1} = {<<>>}
  <2>1. \A q \in Nodes(t) : q = <<>> \/ Len(q) \in Nat \ {0}
    BY PathsOfTree DEF Nodes
  <2>2. Len(<<>>) = 0 /\ 1 - 1 = 0
    OBVIOUS
  <2>3. QED
    BY <1>3, <2>1, <2>2
<1>10. Seen(t, b, <<>>) = <<<<uroot>>, "dir", b.root>>
  <2>1. <<uroot>> \o <<>> = <<uroot>>
    BY PathsBelow DEF uroot
  <2>2. QED
    BY <1>3, <2>1 DEF Seen, Kind
<1>11. Level(t, b, 1) = {Seen(t, b, <<>>)} \cup Tables(b)
  BY <1>9 DEF Level
<1>12. QED
  BY <1>6, <1>8, <1>10, <1>11 DEF img, x

\* What the reader finds in a directory is what the tree has in it.
LEMMA DirectoryLevel ==
    ASSUME NEW t, IsTree(t), NEW b, b = setup(t), DirFits(b), NEW d \in t.dirs \cup {<<>>}
    PROVE  InDirectory(InnerImage(b), Seen(t, b, d)) = {Seen(t, b, p) : p \in Held(t, d)}
<1> DEFINE img == InnerImage(b)
           x == Seen(t, b, d)
           n == InodeCount(b)
           tuple(e) == <<Append(x[1], e.name), e.type, e.number>>
           C == Children(img, InodeTable(img)[x[3] + 1])
           good(e) == e.type \in {"file", "dir"} /\ e.number < n
<1>1. PICK up : C = AllEntries(t, b, d, up)
  <2>1. InodeTable(img) = Inodes(b) /\ x[3] = Number(b, d)
    BY InodesAreRead DEF Seen
  <2>2. QED
    BY <2>1, DirectoryIsRead
<1>2. Len(InodeTable(img)) = n
  <2>1. HasInodes(b, Layout(b), Inodes(b))
    BY TreeHasInodes
  <2>2. Len(Inodes(b)) = n
    BY <2>1, IndexOfListed DEF HasInodes
  <2>3. QED
    BY <2>2, InodesAreRead
<1>3. Held(t, d) \subseteq t.dirs \cup InImage(t)
  BY DEF Held
<1>4. \A p \in Held(t, d) : good(EntryOf(t, b, p))
  <2>1. \A p \in Held(t, d) : p \in Nodes(t)
    BY <1>3 DEF Nodes
  <2>2. \A p \in Held(t, d) : Number(b, p) < n
    BY <2>1, NumbersOfNodes
  <2>3. QED
    BY <2>2 DEF EntryOf, Kind, Dirent
<1>5. InDirectory(img, x) = {tuple(e) : e \in {c \in C : good(c)}}
  <2> HIDE DEF C, img, x
  <2>1. {c \in C : c.type \in {"file", "dir"} /\ c.number < Len(InodeTable(img))}
        = {c \in C : good(c)}
    BY <1>2
  <2>2. QED
    BY <2>1 DEF InDirectory, C
<1>6. {c \in C : good(c)} = {EntryOf(t, b, p) : p \in Held(t, d)}
  <2>1. C = {Dirent("dot", Number(b, d), 0), Dirent("dotdot", up, 0)}
            \cup {EntryOf(t, b, p) : p \in Held(t, d)}
    BY <1>1 DEF AllEntries
  <2>2. \A m : ~good(Dirent("dot", m, 0)) /\ ~good(Dirent("dotdot", m, 0))
    BY DEF Dirent
  <2> HIDE DEF C, good
  <2>3. QED
    BY <1>4, <2>1, <2>2
<1>7. \A p \in Held(t, d) : tuple(EntryOf(t, b, p)) = Seen(t, b, p)
  <2> TAKE p \in Held(t, d)
  <2>1. /\ Front(p) = d /\ Front(p) \in Seq(Nat) /\ Last(p) \in Nat
        /\ Append(Front(p), Last(p)) = p
    BY <1>3, PathsOfTree DEF Held
  <2>2. Append(<<uroot>> \o d, Last(p)) = <<uroot>> \o p
    <3>1. uroot \in Int
      BY DEF uroot
    <3>2. QED
      BY <2>1, <3>1, PathsBelow
  <2>3. x[1] = <<uroot>> \o d
    BY DEF Seen
  <2>4. /\ EntryOf(t, b, p).name = Last(p) /\ EntryOf(t, b, p).type = Kind(t, p)
        /\ EntryOf(t, b, p).number = Number(b, p)
    BY DEF EntryOf, Dirent
  <2> HIDE DEF x
  <2>5. QED
    BY <2>2, <2>3, <2>4 DEF Seen
<1> HIDE DEF C, good, img, x, tuple
<1>8. {tuple(e) : e \in {c \in C : good(c)}} = {tuple(EntryOf(t, b, p)) : p \in Held(t, d)}
  BY <1>6
<1>9. {tuple(EntryOf(t, b, p)) : p \in Held(t, d)} = {Seen(t, b, p) : p \in Held(t, d)}
  BY <1>7
<1>10. QED
  BY <1>5, <1>8, <1>9 DEF img, x

\* A level below uroot gives the next one.
LEMMA NextLevel ==
    ASSUME NEW t, IsTree(t), NEW b, b = setup(t), DirFits(b), NEW k \in Nat
    PROVE  UNION {InDirectory(InnerImage(b), x) : x \in {y \in Level(t, b, k) : y[2] = "dir"}}
           = Level(t, b, k + 1)
<1> DEFINE img == InnerImage(b)
           D == t.dirs \cup {<<>>}
           X == {y \in Level(t, b, k) : y[2] = "dir"}
           E == {d \in D : Len(d) = k - 1}
<1>1. CASE k = 0
  <2>1. X = {<<<<>>, "dir", 0>>}
    BY <1>1 DEF Level
  <2>2. UNION {InDirectory(img, x) : x \in X} = InDirectory(img, <<<<>>, "dir", 0>>)
    <3> HIDE DEF X
    <3>1. QED
      BY <2>1
  <2>3. k + 1 = 1
    BY <1>1
  <2>4. QED
    BY <2>2, <2>3, SuperRootLevel
<1>2. CASE k # 0
  <2>1. D \subseteq Nodes(t)
    BY DEF Nodes
  <2>2. X = {Seen(t, b, d) : d \in E}
    <3>1. \A p \in Nodes(t) : Seen(t, b, p)[2] = Kind(t, p) /\ (Kind(t, p) = "dir" <=> p \in D)
      BY DEF Seen, Kind
    <3>2. \A y \in Tables(b) : y[2] # "dir"
      BY DEF Tables
    <3>3. Level(t, b, k) = {Seen(t, b, p) : p \in {q \in Nodes(t) : Len(q) = k - 1}}
                           \cup (IF k = 1 THEN Tables(b) ELSE {})
      BY <1>2 DEF Level
    <3>4. ASSUME NEW y \in X
          PROVE  y \in {Seen(t, b, d) : d \in E}
      <4>1. PICK p \in Nodes(t) : Len(p) = k - 1 /\ y = Seen(t, b, p)
        BY <3>2, <3>3
      <4>2. p \in E
        BY <3>1, <4>1
      <4>3. QED
        BY <4>1, <4>2
    <3>5. ASSUME NEW d \in E
          PROVE  Seen(t, b, d) \in X
      BY <2>1, <3>1, <3>3
    <3>6. QED
      BY <3>4, <3>5
  <2>3. \A d \in E : InDirectory(img, Seen(t, b, d)) = {Seen(t, b, p) : p \in Held(t, d)}
    BY DirectoryLevel
  <2> HIDE DEF img
  <2>4. UNION {InDirectory(img, x) : x \in X}
        = UNION {InDirectory(img, Seen(t, b, d)) : d \in E}
    <3> HIDE DEF X, E
    <3>1. QED
      BY <2>2
  <2>5. UNION {InDirectory(img, Seen(t, b, d)) : d \in E}
        = UNION {{Seen(t, b, p) : p \in Held(t, d)} : d \in E}
    BY <2>3
  <2>6. {q \in Nodes(t) : Len(q) = (k + 1) - 1} = UNION {Held(t, d) : d \in E}
    <3>1. ASSUME NEW q \in Nodes(t), Len(q) = (k + 1) - 1
          PROVE  q \in UNION {Held(t, d) : d \in E}
      <4>1. Len(<<>>) = 0 /\ q # <<>>
        BY <1>2, <3>1
      <4>2. q \in t.dirs \cup InImage(t)
        BY <4>1 DEF Nodes
      <4>3. Front(q) \in D /\ Len(Front(q)) = Len(q) - 1
        BY <4>2, PathsOfTree
      <4>4. Front(q) \in E
        BY <3>1, <4>3
      <4>5. q \in Held(t, Front(q))
        BY <4>2 DEF Held
      <4>6. QED
        BY <4>4, <4>5
    <3>2. ASSUME NEW d \in E, NEW q \in Held(t, d)
          PROVE  q \in Nodes(t) /\ Len(q) = (k + 1) - 1
      <4>1. q \in t.dirs \cup InImage(t) /\ Front(q) = d
        BY DEF Held
      <4>2. Len(q) \in Nat /\ Len(d) = Len(q) - 1 /\ Len(d) = k - 1
        BY <4>1, PathsOfTree
      <4>3. QED
        BY <4>1, <4>2 DEF Nodes
    <3>3. QED
      BY <3>1, <3>2
  <2>7. Level(t, b, k + 1) = {Seen(t, b, p) : p \in {q \in Nodes(t) : Len(q) = (k + 1) - 1}}
    <3>1. k + 1 # 0 /\ k + 1 # 1
      BY <1>2
    <3>2. QED
      BY <3>1 DEF Level
  <2> HIDE DEF E
  <2>8. UNION {{Seen(t, b, p) : p \in Held(t, d)} : d \in E}
        = {Seen(t, b, p) : p \in UNION {Held(t, d) : d \in E}}
    OBVIOUS
  <2>9. QED
    BY <2>4, <2>5, <2>6, <2>7, <2>8 DEF img, X
<1>3. QED
  BY <1>1, <1>2

\* The reader's levels are those of the tree.
LEMMA LevelsAreRead ==
    ASSUME NEW t, IsTree(t), NEW b, b = setup(t), DirFits(b)
    PROVE  /\ Len(InodeTable(InnerImage(b))) = InodeCount(b)
           /\ \A k \in 0 .. InodeCount(b) : Levels(InnerImage(b))[k] = Level(t, b, k)
<1> DEFINE img == InnerImage(b)
           n == InodeCount(b)
           Step(L) == UNION {InDirectory(img, x) : x \in {y \in L : y[2] = "dir"}}
           loop(f) == [k \in 0 .. n |-> IF k = 0 THEN {<<<<>>, "dir", 0>>} ELSE Step(f[k - 1])]
           w == [k \in 0 .. n |-> Level(t, b, k)]
           level == Levels(img)
<1>1. n \in Nat
  BY NumbersOfNodes
<1>2. Len(InodeTable(img)) = n
  <2>1. HasInodes(b, Layout(b), Inodes(b))
    BY TreeHasInodes
  <2>2. Len(Inodes(b)) = n
    BY <2>1, IndexOfListed DEF HasInodes
  <2>3. QED
    BY <2>2, InodesAreRead
<1>3. level = CHOOSE f : f = loop(f)
  <2> HIDE DEF n
  <2>1. QED
    BY <1>2 DEF Levels
<1>4. \A k \in Nat : Step(Level(t, b, k)) = Level(t, b, k + 1)
  BY NextLevel
<1>5. Level(t, b, 0) = {<<<<>>, "dir", 0>>}
  BY DEF Level
<1> HIDE DEF Step, n, img, level
<1>6. w = loop(w)
  <2>1. \A k \in 0 .. n : k # 0 => k - 1 \in 0 .. n /\ k - 1 \in Nat /\ (k - 1) + 1 = k
    BY <1>1
  <2>2. \A k \in 0 .. n : k # 0 => Step(w[k - 1]) = Level(t, b, k)
    <3>1. \A k \in 0 .. n : k # 0 => w[k - 1] = Level(t, b, k - 1)
      BY <2>1
    <3> HIDE DEF w
    <3>2. QED
      BY <1>4, <2>1, <3>1
  <2>3. \A k \in 0 .. n : Level(t, b, k) = IF k = 0 THEN {<<<<>>, "dir", 0>>} ELSE Step(w[k - 1])
    BY <1>5, <2>2
  <2>4. QED
    BY <2>3
<1> HIDE DEF w
<1>7. level = loop(level)
  BY <1>3, <1>6
<1> DEFINE T == {k \in Nat : k <= n => level[k] = Level(t, b, k)}
<1>8. 0 \in T
  <2>1. 0 \in 0 .. n
    BY <1>1
  <2>2. level[0] = {<<<<>>, "dir", 0>>}
    BY <1>7, <2>1
  <2>3. QED
    BY <1>5, <2>2
<1>9. ASSUME NEW k \in Nat, k \in T
      PROVE  k + 1 \in T
  <2> SUFFICES ASSUME k + 1 <= n
               PROVE  level[k + 1] = Level(t, b, k + 1)
    OBVIOUS
  <2>1. k + 1 \in 0 .. n /\ k + 1 # 0 /\ (k + 1) - 1 = k /\ k <= n
    BY <1>1
  <2>2. level[k + 1] = Step(level[k])
    BY <1>7, <2>1
  <2>3. level[k] = Level(t, b, k)
    BY <1>9, <2>1
  <2>4. QED
    BY <1>4, <2>2, <2>3
<1>10. Nat \subseteq T
  <2> HIDE DEF T
  <2>1. QED
    BY <1>8, <1>9, Induction
<1>11. \A k \in 0 .. n : level[k] = Level(t, b, k)
  <2>1. \A k \in 0 .. n : k \in Nat /\ k <= n
    BY <1>1
  <2>2. QED
    BY <1>10, <2>1
<1>12. QED
  BY <1>2, <1>11 DEF level, img, n

\* Below uroot the reader finds the nodes of the tree, and nothing else.
LEMMA BelowIsTheTree ==
    ASSUME NEW t, IsTree(t), NEW b, b = setup(t), DirFits(b)
    PROVE  Below(InnerImage(b))
           = {<<p, Kind(t, p), Number(b, p)>> : p \in t.dirs \cup InImage(t)}
<1> DEFINE img == InnerImage(b)
           n == InodeCount(b)
           L == loadDir(img)
           good(y) == Len(y[1]) > 1 /\ y[1][1] = uroot
           cut(x) == <<Tail(x[1]), x[2], x[3]>>
           P == t.dirs \cup InImage(t)
<1>1. L = UNION {Level(t, b, k) : k \in 1 .. n}
  <2>1. Len(InodeTable(img)) = n /\ \A k \in 0 .. n : Levels(img)[k] = Level(t, b, k)
    BY LevelsAreRead
  <2>2. \A k \in 1 .. n : k \in 0 .. n
    BY NumbersOfNodes
  <2> HIDE DEF img, n
  <2>3. \A k \in 1 .. n : Levels(img)[k] = Level(t, b, k)
    BY <2>1, <2>2
  <2>4. L = UNION {Levels(img)[k] : k \in 1 .. n}
    BY <2>1 DEF loadDir
  <2> HIDE DEF L
  <2>5. QED
    BY <2>3, <2>4
<1> HIDE DEF L
<1>2. \A p \in P : p \in Nodes(t) /\ p # <<>> /\ p \in Seq(Nat) /\ Len(p) \in Nat \ {0}
  BY PathsOfTree DEF Nodes
<1>3. \A p \in P : Len(p) + 1 \in 1 .. n
  <2>1. b.root \in {2, 3} /\ n = b.root + Len(b.nodes) /\ Len(b.nodes) \in Nat
    BY Setup, NumbersOfNodes
  <2>2. \A p \in P : Len(p) <= Len(b.nodes)
    BY <1>2, PathsAreShort
  <2> HIDE DEF n
  <2>3. QED
    BY <1>2, <2>1, <2>2, SMTT(30)
<1>4. \A p \in Seq(Nat) : /\ Len(<<uroot>> \o p) = 1 + Len(p) /\ (<<uroot>> \o p)[1] = uroot
                          /\ Tail(<<uroot>> \o p) = p
  BY PathsBelow DEF uroot
<1>5. \A p \in P : good(Seen(t, b, p)) /\ cut(Seen(t, b, p)) = <<p, Kind(t, p), Number(b, p)>>
  <2> TAKE p \in P
  <2>1. p \in Seq(Nat) /\ Len(p) \in Nat \ {0}
    BY <1>2
  <2>2. Len(<<uroot>> \o p) > 1 /\ (<<uroot>> \o p)[1] = uroot /\ Tail(<<uroot>> \o p) = p
    BY <1>4, <2>1
  <2>3. /\ Seen(t, b, p)[1] = <<uroot>> \o p /\ Seen(t, b, p)[2] = Kind(t, p)
        /\ Seen(t, b, p)[3] = Number(b, p)
    BY DEF Seen
  <2>4. QED
    BY <2>2, <2>3
<1> HIDE DEF cut
<1>6. {y \in L : good(y)} = {Seen(t, b, p) : p \in P}
  <2>1. ASSUME NEW y \in L, good(y)
        PROVE  y \in {Seen(t, b, p) : p \in P}
    <3>1. PICK k \in 1 .. n : y \in Level(t, b, k)
      BY <1>1, <2>1
    <3>2. y \notin Tables(b)
      <4>1. \A z \in Tables(b) : z[1] = <<flat_path_table>> \/ z[1] = <<collision_resolver>>
        BY DEF Tables
      <4>2. \A u : Len(<<u>>) = 1
        OBVIOUS
      <4>3. Len(y[1]) # 1
        <5> DEFINE l == Len(y[1])
        <5>1. l > 1
          BY <2>1
        <5> HIDE DEF l
        <5>2. l # 1
          BY <5>1
        <5>3. QED
          BY <5>2 DEF l
      <4>4. QED
        BY <4>1, <4>2, <4>3
    <3>3. PICK p \in Nodes(t) : y = Seen(t, b, p)
      BY <3>1, <3>2, NumbersOfNodes DEF Level
    <3>4. p # <<>>
      <4>1. ~good(Seen(t, b, <<>>))
        <5>1. Len(<<uroot>> \o <<>>) = 1
          BY PathsBelow DEF uroot
        <5>2. QED
          BY <5>1 DEF Seen
      <4>2. QED
        BY <2>1, <3>3, <4>1
    <3>5. p \in P
      BY <3>4 DEF Nodes
    <3>6. QED
      BY <3>3, <3>5
  <2>2. ASSUME NEW p \in P
        PROVE  Seen(t, b, p) \in L /\ good(Seen(t, b, p))
    <3>1. Len(p) + 1 \in 1 .. n /\ p \in Nodes(t) /\ (Len(p) + 1) - 1 = Len(p) /\ Len(p) + 1 # 0
      BY <1>2, <1>3
    <3>2. Seen(t, b, p) \in Level(t, b, Len(p) + 1)
      BY <3>1 DEF Level
    <3>3. QED
      BY <1>1, <1>5, <3>1, <3>2
  <2> HIDE DEF good
  <2>3. QED
    BY <2>1, <2>2
<1>7. Below(img) = {cut(x) : x \in {y \in L : good(y)}}
  BY DEF Below, L, cut
<1> HIDE DEF good
<1>8. Below(img) = {cut(Seen(t, b, p)) : p \in P}
  BY <1>6, <1>7
<1>9. QED
  BY <1>5, <1>8

----------------------------------------------------------------------------
(* Files, and paths by their hash.                                          *)

\* The inode of a file leads to its size and its contents.
LEMMA FileIsRead ==
    ASSUME NEW t, IsTree(t), NEW b, b = setup(t), NEW f \in InImage(t)
    PROVE  ReadFile(InnerImage(b), Number(b, f))
           = [size |-> t.files[f],
              contents |-> [k \in 1 .. BlocksOf(t.files[f]) |-> [file |-> f, nth |-> k]]]
<1> DEFINE at == Layout(b)
           img == InnerImage(b)
           i == Place(b, f)
           ino == InodeTable(img)[Number(b, f) + 1]
           size == t.files[f]
           n == BlocksOf(size)
<1>1. f \in Nodes(t) /\ b.files = t.files
  BY Setup DEF Nodes
<1>2. /\ i \in 1 .. Len(b.nodes) /\ b.nodes[i] = f /\ Number(b, f) = b.root - 1 + i
      /\ b.root \in {2, 3} /\ f \in DOMAIN b.files /\ nodeSize(b, f) = size
  <2>1. i \in 1 .. Len(b.nodes) /\ b.nodes[i] = f /\ Number(b, f) = b.root - 1 + i
    BY <1>1, NumbersOfNodes
  <2>2. b.root \in {2, 3}
    BY Setup
  <2>3. f \in DOMAIN b.files /\ nodeSize(b, f) = size
    BY NodeSizes
  <2>4. QED
    BY <2>1, <2>2, <2>3
<1>3. ino = inode(at.start[i], size)
  <2>1. HasInodes(b, at, Inodes(b))
    BY TreeHasInodes
  <2>2. Inodes(b)[b.root + i] = inode(at.start[i], b.files[f])
    <3> HIDE DEF at
    <3>1. QED
      BY <1>2, <2>1 DEF HasInodes
  <2>3. Number(b, f) + 1 = b.root + i
    BY <1>2
  <2>4. QED
    BY <1>1, <2>2, <2>3, InodesAreRead
<1>4. ino.start = at.start[i] /\ ino.blocks = n /\ ino.size = size
  BY <1>3 DEF inode
<1> HIDE DEF ino
<1>5. \A k \in 1 .. n : At(img, ino.start + k - 1) = [file |-> f, nth |-> k]
  <2>1. HasBlocks(b, at, img)
    BY TreeHasBlocks
  <2>2. \A k \in 1 .. BlocksOf(nodeSize(b, b.nodes[i])) : at.start[i] + k - 1 \in DOMAIN img
    BY <1>2, TreeHasBlocks
  <2> HIDE DEF at, img
  <2>3. \A k \in 1 .. BlocksOf(nodeSize(b, b.nodes[i])) :
           img[at.start[i] + k - 1] = NodeBlock(b, b.nodes[i], k)
    BY <1>2, <2>1 DEF HasBlocks
  <2>4. \A k : NodeBlock(b, f, k) = [file |-> f, nth |-> k]
    BY <1>2 DEF NodeBlock
  <2>5. QED
    BY <1>2, <1>4, <2>2, <2>3, <2>4 DEF At
<1> HIDE DEF at, img, n
<1>6. [k \in 1 .. ino.blocks |-> At(img, ino.start + k - 1)]
      = [k \in 1 .. n |-> [file |-> f, nth |-> k]]
  BY <1>4, <1>5
<1>7. QED
  BY <1>4, <1>6 DEF ReadFile, ino, img, n

\* Entries that are in the blocks of an inode are there as a whole.
LEMMA EntriesAreIntact ==
    ASSUME NEW img, NEW ino, NEW kind, NEW size \in Nat \ {0}, NEW E, ino.blocks \in Nat,
           \A e \in E : e.at \in Nat /\ e.at < ino.blocks * BlockSize,
           \A k \in 1 .. ino.blocks :
              At(img, ino.start + k - 1) = EntryBlock(kind, E, size, k)
    PROVE  Intact(img, ino, kind, size) = E
<1> DEFINE y == BlockSize
           n == ino.blocks
           block(k) == At(img, ino.start + k - 1)
           held(k)  == IF "kind" \in DOMAIN block(k) /\ block(k).kind = kind
                       THEN block(k).entries ELSE {}
<1>1. Intact(img, ino, kind, size)
      = {e \in UNION {held(k) : k \in 1 .. n} :
            \A k \in 1 .. n : Touches(e, size, k) => e \in held(k)}
  BY DEF Intact
<1>2. \A k \in 1 .. n : held(k) = {e \in E : Touches(e, size, k)}
  <2> TAKE k \in 1 .. n
  <2>1. block(k) = [kind |-> kind, entries |-> {e \in E : Touches(e, size, k)}]
    BY DEF EntryBlock
  <2> HIDE DEF block
  <2>2. QED
    BY <2>1
<1> HIDE DEF held
<1>3. ASSUME NEW e \in E
      PROVE  \E k \in 1 .. n : Touches(e, size, k)
  <2> DEFINE q == e.at \div y
             r == e.at % y
  <2>1. y \in Nat \ {0} /\ e.at \in Nat /\ e.at < n * y
    BY Amounts
  <2> DEFINE a == e.at
  <2>2. q \in Nat /\ r \in 0 .. y - 1 /\ a = y * q + r
    BY <2>1, Division
  <2> HIDE DEF q, r, a, y
  <2>3. y * q \in Nat /\ y * q = q * y /\ (q + 1) * y = q * y + 1 * y /\ 1 * y = y
        /\ n * y = y * n
    BY <2>1, <2>2, Multiples
  <2>4. q < n
    <3> SUFFICES ASSUME n <= q
                 PROVE  FALSE
      BY <2>2
    <3>1. y * n <= y * q
      BY <2>1, <2>2, Multiples
    <3>2. a < n * y /\ n * y \in Nat
      BY <2>1, <2>3, Multiples DEF a
    <3>3. QED
      BY <2>1, <2>2, <2>3, <3>1, <3>2
  <2>5. q + 1 \in 1 .. n /\ (q + 1) - 1 = q
    BY <2>2, <2>4
  <2>6. a < (q + 1) * y /\ q * y < a + size
    BY <2>1, <2>2, <2>3
  <2>7. Touches(e, size, q + 1)
    BY <2>5, <2>6 DEF Touches, a, y
  <2>8. QED
    BY <2>5, <2>7
<1>4. QED
  BY <1>1, <1>2, <1>3

\* The entry of a hash in the table, and how many hashes are before it.
TableAt(b, h)    == Cardinality({g \in DOMAIN b.groups : g < h})
TableEntry(b, h) ==
    IF Len(b.groups[h]) = 1
    THEN [at |-> TableAt(b, h), hash |-> h, inode |-> Number(b, b.groups[h][1])]
    ELSE [at |-> TableAt(b, h), hash |-> h,
          list |-> ListOffset(b, CHOOSE i \in DOMAIN Colliding(b) : Colliding(b)[i] = h)]

\* The table has one entry for each hash, in front of its end.
LEMMA TableEntries ==
    ASSUME NEW t, IsTree(t), NEW b, b = setup(t)
    PROVE  /\ newFlatPathTable(b) = {TableEntry(b, h) : h \in DOMAIN b.groups}
           /\ \A h : TableEntry(b, h).hash = h /\ TableEntry(b, h).at = TableAt(b, h)
           /\ \A h \in DOMAIN b.groups :
                 TableAt(b, h) \in Nat /\ TableAt(b, h) < Cardinality(DOMAIN b.groups)
<1>1. newFlatPathTable(b) = {TableEntry(b, h) : h \in DOMAIN b.groups}
  BY DEF newFlatPathTable, TableEntry, TableAt
<1>2. \A h : TableEntry(b, h).hash = h /\ TableEntry(b, h).at = TableAt(b, h)
  BY DEF TableEntry
<1>3. ASSUME NEW h \in DOMAIN b.groups
      PROVE  TableAt(b, h) \in Nat /\ TableAt(b, h) < Cardinality(DOMAIN b.groups)
  <2> DEFINE D == DOMAIN b.groups
             S == {g \in D : g < h}
  <2>1. IsFiniteSet(D) /\ D \subseteq Int
    BY Setup
  <2>2. S \subseteq D \ {h}
    BY <2>1
  <2>3. IsFiniteSet(D \ {h}) /\ Cardinality(D \ {h}) = Cardinality(D) - 1
    BY <2>1, FS_RemoveElement
  <2>4. Cardinality(S) <= Cardinality(D \ {h}) /\ IsFiniteSet(S)
    BY <2>2, <2>3, FS_Subset
  <2>5. Cardinality(S) \in Nat /\ Cardinality(D) \in Nat
    BY <2>1, <2>4, FS_CardinalityType
  <2>6. QED
    BY <2>3, <2>4, <2>5 DEF TableAt
<1>4. QED
  BY <1>1, <1>2, <1>3

\* The reader has all of the table, if there is room for it.
LEMMA TableIsRead ==
    ASSUME NEW t, IsTree(t), NEW b, b = setup(t), TablesFit(b)
    PROVE  Intact(InnerImage(b), Inodes(b)[2], "table", 1) = newFlatPathTable(b)
<1> DEFINE at == Layout(b)
           img == InnerImage(b)
           c == Cardinality(DOMAIN b.groups)
           n == BlocksOf(c)
           E == newFlatPathTable(b)
<1>1. c \in Nat /\ n \in Nat /\ c <= n * BlockSize /\ n <= Direct /\ Direct \in Nat
      /\ n * BlockSize \in Nat
  BY Setup, FS_CardinalityType, BlocksAreEnough, Amounts, Multiples DEF TablesFit
<1>2. \A e \in E : e.at \in Nat /\ e.at < c
  BY TableEntries
<1>3. Inodes(b)[2].start = at.table /\ Inodes(b)[2].blocks = n
  <2>1. Inodes(b)[2] = inode(at.table, c)
    BY TreeHasInodes DEF HasInodes
  <2> HIDE DEF at, c
  <2>2. QED
    BY <2>1 DEF inode
<1>4. HasBlocks(b, at, img)
      /\ \A k \in 1 .. n : k <= Direct => at.table + k - 1 \in DOMAIN img
  BY TreeHasBlocks
<1> HIDE DEF at, img, E
<1>5. \A k \in 1 .. n : k <= Direct => img[at.table + k - 1] = EntryBlock("table", E, 1, k)
  BY <1>4 DEF HasBlocks, E
<1> HIDE DEF c, n
<1>6. \A k \in 1 .. n : At(img, at.table + k - 1) = EntryBlock("table", E, 1, k)
  BY <1>1, <1>4, <1>5 DEF At
<1>7. \A e \in E : e.at \in Nat /\ e.at < n * BlockSize
  BY <1>1, <1>2
<1> DEFINE ino == Inodes(b)[2]
<1>8. ino.start = at.table /\ ino.blocks = n
  BY <1>3
<1> HIDE DEF ino
<1>9. Intact(img, ino, "table", 1) = E
  <2>1. ino.blocks \in Nat /\ 1 \in Nat \ {0}
    BY <1>1, <1>8
  <2>2. \A e \in E : e.at \in Nat /\ e.at < ino.blocks * BlockSize
    BY <1>7, <1>8
  <2>3. \A k \in 1 .. ino.blocks :
           At(img, ino.start + k - 1) = EntryBlock("table", E, 1, k)
    BY <1>6, <1>8
  <2>4. QED
    BY <2>1, <2>2, <2>3, EntriesAreIntact
<1>10. QED
  BY <1>9 DEF img, E, ino

\* The entries of a list, and what is in the resolver.
ListItem(b, i, j) ==
    [at |-> ListOffset(b, i) + (j - 1) * PathEntSize,
     path |-> b.groups[Colliding(b)[i]][j],
     inode |-> Number(b, b.groups[Colliding(b)[i]][j])]

\* The entries of the resolver are in front of its end.
LEMMA ResolverEntries ==
    ASSUME NEW t, IsTree(t), NEW b, b = setup(t)
    PROVE  /\ collisionResolver(b)
              = UNION {{ListItem(b, i, j) : j \in DOMAIN b.groups[Colliding(b)[i]]} :
                          i \in DOMAIN Colliding(b)}
           /\ \A e \in collisionResolver(b) : e.at \in Nat /\ e.at < ResolverSize(b)
<1> DEFINE c == Colliding(b)
           g(i) == b.groups[c[i]]
<1>1. collisionResolver(b)
      = UNION {{ListItem(b, i, j) : j \in DOMAIN g(i)} : i \in DOMAIN c}
  BY DEF collisionResolver, ListItem
<1>2. /\ ResolverSize(b) \in Nat
      /\ \A i \in DOMAIN c : /\ ListOffset(b, i) \in Nat /\ Len(g(i)) \in Nat
                              /\ ListOffset(b, i) + Len(g(i)) * PathEntSize <= ResolverSize(b)
  BY ResolverLists
<1>3. \A i \in DOMAIN c : DOMAIN g(i) = 1 .. Len(g(i))
  <2> TAKE i \in DOMAIN c
  <2>1. Enumerates(c, {h \in DOMAIN b.groups : Len(b.groups[h]) > 1})
    BY CollidingEnumerates
  <2>2. DOMAIN c = 1 .. Len(c)
    BY ResolverLists
  <2>3. c[i] \in DOMAIN b.groups
    BY <2>1, <2>2 DEF Enumerates
  <2>4. Enumerates(g(i), WithHash(t, c[i]))
    BY <2>3, Setup
  <2>5. QED
    BY <2>4, IndexOfListed DEF Enumerates
<1>4. ASSUME NEW i \in DOMAIN c, NEW j \in DOMAIN g(i)
      PROVE  ListItem(b, i, j).at \in Nat /\ ListItem(b, i, j).at < ResolverSize(b)
  <2> DEFINE o == ListOffset(b, i)
             l == Len(g(i))
             y == PathEntSize
             a == (j - 1) * y
  <2>1. /\ o \in Nat /\ l \in Nat /\ y \in Nat \ {0} /\ ResolverSize(b) \in Nat
        /\ o + l * y <= ResolverSize(b)
    BY <1>2, Amounts
  <2>2. j \in 1 .. l
    BY <1>3
  <2>3. ListItem(b, i, j).at = o + a
    BY DEF ListItem
  <2> HIDE DEF o, l, y
  <2>4. j - 1 \in Nat /\ j <= l /\ j \in Nat /\ (j - 1) + 1 = j
    BY <2>1, <2>2
  <2>5. a \in Nat /\ y * j <= y * l /\ y * j = j * y /\ y * l = l * y /\ l * y \in Nat
    BY <2>1, <2>4, Multiples
  <2>6. ((j - 1) + 1) * y = a + 1 * y /\ 1 * y = y
    BY <2>1, <2>4, Multiples
  <2>7. j * y = a + y
    BY <2>4, <2>6
  <2> HIDE DEF a
  <2> DEFINE u == l * y
             v == j * y
  <2>8. v <= u /\ v = a + y /\ u \in Nat /\ o + u <= ResolverSize(b)
    BY <2>1, <2>5, <2>7
  <2> HIDE DEF u, v
  <2>9. QED
    BY <2>1, <2>3, <2>5, <2>8
<1>5. QED
  BY <1>1, <1>4

\* The reader has all of the resolver, if there is room for it.
LEMMA ResolverIsRead ==
    ASSUME NEW t, IsTree(t), NEW b, b = setup(t), TablesFit(b), b.root = 3
    PROVE  Intact(InnerImage(b), Inodes(b)[3], "resolver", PathEntSize) = collisionResolver(b)
<1> DEFINE at == Layout(b)
           img == InnerImage(b)
           c == ResolverSize(b)
           n == BlocksOf(c)
           E == collisionResolver(b)
<1>1. c \in Nat /\ n \in Nat /\ c <= n * BlockSize /\ n <= Direct /\ Direct \in Nat
      /\ n * BlockSize \in Nat /\ PathEntSize \in Nat \ {0}
  BY ResolverLists, BlocksAreEnough, Amounts, Multiples DEF TablesFit
<1>2. \A e \in E : e.at \in Nat /\ e.at < c
  BY ResolverEntries
<1>3. Inodes(b)[3].start = at.resolver /\ Inodes(b)[3].blocks = n
  <2>1. Inodes(b)[3] = inode(at.resolver, c)
    BY TreeHasInodes DEF HasInodes
  <2> HIDE DEF at, c
  <2>2. QED
    BY <2>1 DEF inode
<1>4. HasBlocks(b, at, img)
      /\ \A k \in 1 .. n : k <= Direct => at.resolver + k - 1 \in DOMAIN img
  BY TreeHasBlocks
<1> HIDE DEF at, img, E
<1>5. \A k \in 1 .. n :
         k <= Direct => img[at.resolver + k - 1] = EntryBlock("resolver", E, PathEntSize, k)
  BY <1>4 DEF HasBlocks, E
<1> HIDE DEF c, n
<1>6. \A k \in 1 .. n : At(img, at.resolver + k - 1) = EntryBlock("resolver", E, PathEntSize, k)
  BY <1>1, <1>4, <1>5 DEF At
<1>7. \A e \in E : e.at \in Nat /\ e.at < n * BlockSize
  BY <1>1, <1>2
<1> DEFINE ino == Inodes(b)[3]
<1>8. ino.start = at.resolver /\ ino.blocks = n
  BY <1>3
<1> HIDE DEF ino
<1>9. Intact(img, ino, "resolver", PathEntSize) = E
  <2>1. ino.blocks \in Nat /\ PathEntSize \in Nat \ {0}
    BY <1>1, <1>8
  <2>2. \A e \in E : e.at \in Nat /\ e.at < ino.blocks * BlockSize
    BY <1>7, <1>8
  <2>3. \A k \in 1 .. ino.blocks :
           At(img, ino.start + k - 1) = EntryBlock("resolver", E, PathEntSize, k)
    BY <1>6, <1>8
  <2>4. QED
    BY <2>1, <2>2, <2>3, EntriesAreIntact
<1>10. QED
  BY <1>9 DEF img, E, ino

\* The hash of a path has a group, and the path is in it.
LEMMA PathHasGroup ==
    ASSUME NEW t, IsTree(t), NEW b, b = setup(t), NEW p \in t.dirs \cup InImage(t)
    PROVE  /\ PathHash[p] \in DOMAIN b.groups
           /\ \E j \in 1 .. Len(b.groups[PathHash[p]]) : b.groups[PathHash[p]][j] = p
<1> DEFINE h == PathHash[p]
<1>1. h \in DOMAIN b.groups
  BY Setup
<1>2. Enumerates(b.groups[h], WithHash(t, h)) /\ p \in WithHash(t, h)
  <2>1. Enumerates(b.groups[h], WithHash(t, h))
    <3> HIDE DEF h
    <3>1. QED
      BY <1>1, Setup
  <2>2. p \in WithHash(t, h)
    BY DEF WithHash
  <2>3. QED
    BY <2>1, <2>2
<1>3. QED
  BY <1>1, <1>2 DEF Enumerates

\* The reader finds the inode of a path by the hash of the path, if there is room for
\* the table and the resolver.
LEMMA PathIsLookedUp ==
    ASSUME NEW t, IsTree(t), NEW b, b = setup(t), TablesFit(b),
           NEW p \in t.dirs \cup InImage(t)
    PROVE  Lookup(InnerImage(b), p) = Number(b, p)
<1> DEFINE img == InnerImage(b)
           h == PathHash[p]
           g == b.groups[h]
           found == TableEntry(b, h)
           lists == Intact(img, Inodes(b)[3], "resolver", PathEntSize)
           run == {x \in lists : x.path = p /\
                      \A k \in 0 .. x.at - found.list :
                         k % PathEntSize = 0 =>
                            \E y \in lists : y.at = found.list + k}
           c == Colliding(b)
           y == PathEntSize
<1>1. h \in DOMAIN b.groups /\ \E j \in 1 .. Len(g) : g[j] = p
  BY PathHasGroup
<1>2. Lookup(img, p) = IF "inode" \in DOMAIN found THEN found.inode
                       ELSE IF run = {} THEN -1 ELSE (CHOOSE x \in run : TRUE).inode
  <2> DEFINE hits == {e \in newFlatPathTable(b) : e.hash = h}
             one == CHOOSE e \in hits : TRUE
  <2>1. InodeTable(img) = Inodes(b)
    BY InodesAreRead
  <2>2. Intact(img, Inodes(b)[2], "table", 1) = newFlatPathTable(b)
    BY TableIsRead
  <2>3. hits = {found}
    <3> HIDE DEF h
    <3>1. QED
      BY <1>1, TableEntries
  <2>4. one = found /\ hits # {}
    <3> HIDE DEF found, hits
    <3>1. QED
      BY <2>3
  <2> HIDE DEF img, found
  <2>5. hits = {e \in Intact(img, InodeTable(img)[2], "table", 1) : e.hash = PathHash[p]}
        /\ lists = Intact(img, InodeTable(img)[3], "resolver", PathEntSize)
    BY <2>1, <2>2
  <2>6. Lookup(img, p) = IF hits = {} THEN -1
                         ELSE IF "inode" \in DOMAIN one THEN one.inode
                         ELSE LET r == {x \in lists : x.path = p /\
                                          \A k \in 0 .. x.at - one.list :
                                             k % PathEntSize = 0 =>
                                                \E z \in lists : z.at = one.list + k}
                              IN  IF r = {} THEN -1 ELSE (CHOOSE x \in r : TRUE).inode
    <3> HIDE DEF hits, lists
    <3>1. QED
      BY <2>5 DEF Lookup
  <2> HIDE DEF hits, lists, one
  <2>7. QED
    BY <2>4, <2>6
<1>3. Enumerates(g, WithHash(t, h))
  BY <1>1, Setup
<1>4. Len(g) \in Nat /\ IsList(g, Len(g)) /\ DOMAIN g = 1 .. Len(g)
  BY <1>3, IndexOfListed DEF Enumerates, IsList
<1>5. CASE Len(g) = 1
  <2>1. found = [at |-> TableAt(b, h), hash |-> h, inode |-> Number(b, g[1])]
    BY <1>5 DEF TableEntry
  <2>2. g[1] = p
    BY <1>1, <1>5
  <2> HIDE DEF found
  <2>3. "inode" \in DOMAIN found /\ found.inode = Number(b, p)
    BY <2>1, <2>2
  <2>4. QED
    BY <1>2, <2>3
<1>6. CASE Len(g) # 1
  <2> DEFINE i == CHOOSE j \in DOMAIN c : c[j] = h
             base == ListOffset(b, i)
             item(j) == [at |-> base + (j - 1) * y, path |-> g[j], inode |-> Number(b, g[j])]
  <2>1. Len(g) > 1
    <3> DEFINE l == Len(g)
    <3>1. PICK j : j \in 1 .. l
      BY <1>1
    <3>2. l \in Nat /\ l # 1
      BY <1>4, <1>6
    <3> HIDE DEF l
    <3>3. l > 1
      BY <3>1, <3>2
    <3>4. QED
      BY <3>3 DEF l
  <2>2. b.root = 3
    BY <1>1, <2>1, Setup
  <2>3. found = [at |-> TableAt(b, h), hash |-> h, list |-> base]
    BY <1>6 DEF TableEntry
  <2>4. i \in DOMAIN c /\ c[i] = h
    <3>1. Enumerates(c, {x \in DOMAIN b.groups : Len(b.groups[x]) > 1})
      BY CollidingEnumerates
    <3>2. DOMAIN c = 1 .. Len(c)
      BY ResolverLists
    <3> HIDE DEF c
    <3>3. \E j \in DOMAIN c : c[j] = h
      BY <1>1, <2>1, <3>1, <3>2 DEF Enumerates
    <3>4. QED
      BY <3>3
  <2>5. base \in Nat /\ y \in Nat \ {0}
    BY <2>4, ResolverLists, Amounts
  <2>6. lists = collisionResolver(b)
    BY <2>2, ResolverIsRead
  <2> HIDE DEF img, found, lists, i, base
  <2>7. \A j \in 1 .. Len(g) : item(j) \in lists
    <3>1. lists = UNION {{ListItem(b, m, j) : j \in DOMAIN b.groups[c[m]]} : m \in DOMAIN c}
      BY <2>6, ResolverEntries
    <3>2. \A j \in DOMAIN b.groups[c[i]] : ListItem(b, i, j) \in lists
      BY <2>4, <3>1
    <3>3. \A j : ListItem(b, i, j) = item(j)
      BY <2>4 DEF base, ListItem
    <3> HIDE DEF c, item
    <3>4. QED
      BY <1>4, <2>4, <3>2, <3>3
  <2>8. \A x \in lists : x.inode = Number(b, x.path)
    BY <2>6 DEF collisionResolver
  <2>9. found.list = base /\ "inode" \notin DOMAIN found
    BY <2>3
  <2>10. PICK j \in 1 .. Len(g) : g[j] = p
    BY <1>1
  <2>11. item(j).path = p /\ item(j).at = base + (j - 1) * y
    BY <2>10
  <2>12. \A k \in 0 .. item(j).at - base : k % y = 0 => \E z \in lists : z.at = base + k
    <3> TAKE k \in 0 .. item(j).at - base
    <3> HAVE k % y = 0
    <3> DEFINE m == k \div y
               a == (j - 1) * y
    <3>1. j - 1 \in Nat /\ a \in Nat
      BY <1>4, <2>5, Multiples
    <3>2. k \in Nat /\ k <= a
      <4> HIDE DEF a
      <4>1. item(j).at - base = a
        BY <2>5, <2>11, <3>1 DEF a
      <4> HIDE DEF item
      <4>2. k \in 0 .. a
        BY <4>1
      <4>3. QED
        BY <3>1, <4>2
    <3>3. m \in Nat /\ k = y * m + (k % y)
      BY <2>5, <3>2, Division
    <3>4. m * y = y * m /\ y * m \in Nat /\ (m + 1) - 1 = m
      BY <2>5, <3>3, Multiples
    <3>5. m * y = k
      <4>1. y * m = k
        <5> DEFINE q == y * m
        <5>1. q \in Nat /\ k = q + (k % y)
          BY <3>3, <3>4
        <5> HIDE DEF q
        <5>2. k % y = 0
          OBVIOUS
        <5>3. k = q + 0
          BY <5>1, <5>2
        <5>4. q = k
          BY <5>1, <5>3
        <5>5. QED
          BY <5>4 DEF q
      <4>2. QED
        BY <3>4, <4>1
    <3> HIDE DEF m, item
    <3>6. m <= j - 1
      <4> SUFFICES ASSUME j <= m
                   PROVE  FALSE
        BY <1>4, <3>3
      <4>1. (j - 1) + 1 <= m /\ (j - 1) + 1 \in Nat
        BY <1>4, <3>3
      <4>2. y * ((j - 1) + 1) <= y * m
        BY <2>5, <3>3, <4>1, Multiples
      <4>3. y * ((j - 1) + 1) = ((j - 1) + 1) * y /\ ((j - 1) + 1) * y = a + 1 * y
        BY <2>5, <3>1, <4>1, Multiples
      <4>4. 1 * y = y
        BY <2>5
      <4>5. a + y <= k
        BY <3>4, <3>5, <4>2, <4>3, <4>4
      <4> HIDE DEF a
      <4>6. QED
        BY <2>5, <3>1, <3>2, <4>5
    <3>7. m + 1 \in 1 .. Len(g)
      BY <1>4, <3>3, <3>6
    <3>8. item(m + 1) \in lists
      BY <2>7, <3>7
    <3>9. item(m + 1).at = base + ((m + 1) - 1) * y
      BY DEF item
    <3>10. QED
      BY <3>4, <3>5, <3>8, <3>9
  <2>13. item(j) \in run
    <3> HIDE DEF item
    <3>1. item(j) \in lists
      BY <2>7
    <3>2. \A k \in 0 .. item(j).at - found.list :
              k % PathEntSize = 0 => \E z \in lists : z.at = found.list + k
      BY <2>9, <2>12
    <3>3. QED
      BY <2>11, <3>1, <3>2
  <2>14. \A x \in run : x.inode = Number(b, p)
    BY <2>8
  <2> HIDE DEF run
  <2>15. (CHOOSE x \in run : TRUE).inode = Number(b, p)
    <3>1. (CHOOSE x \in run : TRUE) \in run
      BY <2>13
    <3>2. QED
      BY <2>14, <3>1
  <2> HIDE DEF item
  <2>16. run # {}
    BY <2>13
  <2>17. Lookup(img, p) = (CHOOSE x \in run : TRUE).inode
    <3> DEFINE one == (CHOOSE x \in run : TRUE).inode
    <3>1. Lookup(img, p) = IF "inode" \in DOMAIN found THEN found.inode
                           ELSE IF run = {} THEN -1 ELSE one
      BY <1>2
    <3> HIDE DEF one
    <3>2. Lookup(img, p) = one
      BY <2>9, <2>16, <3>1
    <3>3. QED
      BY <3>2 DEF one
  <2>18. QED
    BY <2>15, <2>17 DEF img
<1>7. QED
  BY <1>5, <1>6

\* The image of a tree whose directories fit is read back as the tree by name, and by the
\* hash of each path if the path table and the resolver are within the blocks that are
\* reserved for them (pfsBuilder, pfsReader.loadDir).
THEOREM TreeReadsBack ==
    ASSUME NEW t, IsTree(t), DirFits(setup(t))
    PROVE  ReadsBackAs(InnerImage(setup(t)), t)
<1> DEFINE b == setup(t)
           img == InnerImage(b)
           P == t.dirs \cup InImage(t)
           Row(p) == <<p, Kind(t, p), Number(b, p)>>
           below == Below(img)
<1>1. below = {Row(p) : p \in P}
  BY BelowIsTheTree
<1>2. \A p \in P : Row(p)[1] = p /\ Row(p)[2] = Kind(t, p) /\ Row(p)[3] = Number(b, p)
  OBVIOUS
<1>3. \A p \in P : TablesFit(b) => Lookup(img, p) = Number(b, p)
  BY PathIsLookedUp
<1>4. \A f \in InImage(t) :
         ReadFile(img, Number(b, f))
         = [size |-> t.files[f],
            contents |-> [k \in 1 .. BlocksOf(t.files[f]) |-> [file |-> f, nth |-> k]]]
  BY FileIsRead
<1>5. t.dirs \cap InImage(t) = {} /\ <<>> \notin InImage(t)
  BY PathsOfTree
<1>6. /\ \A d \in t.dirs : Kind(t, d) = "dir"
      /\ \A f \in InImage(t) : Kind(t, f) = "file"
      /\ \A p \in P : Kind(t, p) = "file" => p \in InImage(t)
  BY <1>5 DEF Kind
<1> HIDE DEF b, img, Row, below
<1>7. {<<x[1], x[2]>> : x \in below} = {<<p, Kind(t, p)>> : p \in P}
  <2>1. {<<x[1], x[2]>> : x \in below} = {<<Row(p)[1], Row(p)[2]>> : p \in P}
    BY <1>1
  <2>2. QED
    BY <1>2, <2>1
<1>8. {<<p, Kind(t, p)>> : p \in P}
      = {<<d, "dir">> : d \in t.dirs} \cup {<<f, "file">> : f \in InImage(t)}
  <2>1. {<<p, Kind(t, p)>> : p \in P}
        = {<<d, Kind(t, d)>> : d \in t.dirs} \cup {<<f, Kind(t, f)>> : f \in InImage(t)}
    OBVIOUS
  <2>2. QED
    BY <1>6, <2>1
<1>9. ASSUME NEW x \in below
      PROVE  /\ TablesFit(b) => Lookup(img, x[1]) = x[3]
             /\ x[2] = "file" =>
                   ReadFile(img, x[3]) =
                       [size |-> t.files[x[1]],
                        contents |-> [k \in 1 .. BlocksOf(t.files[x[1]]) |->
                                         [file |-> x[1], nth |-> k]]]
  <2>1. PICK p \in P : x = Row(p)
    BY <1>1
  <2>2. x[1] = p /\ x[2] = Kind(t, p) /\ x[3] = Number(b, p)
    BY <1>2, <2>1
  <2>3. QED
    BY <1>3, <1>4, <1>6, <2>2
<1>10. QED
  BY <1>7, <1>8, <1>9 DEF ReadsBackAs, b, img, below

=============================================================================
