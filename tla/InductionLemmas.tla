-------------------------- MODULE InductionLemmas --------------------------
(***************************************************************************)
(* Induction on the naturals with sets in the place of predicates,         *)
(* definition by recursion, finite sets in order, sequences put together,  *)
(* division and digits.  The proofs about the components build on these.   *)
(***************************************************************************)
EXTENDS Integers, Sequences, SequencesExt, FiniteSetTheorems, WellFoundedInduction, TLAPS

\* The least element of a set of naturals.
LEMMA Least ==
    ASSUME NEW S, S \subseteq Nat, S # {}
    PROVE  \E n \in S : \A m \in S : n <= m
<1>1. IsWellFoundedOn(OpToRel(<, Nat), Nat)
  BY NatLessThanWellFounded
<1>2. PICK n \in S : \A m \in S : ~(<<m, n>> \in OpToRel(<, Nat))
  BY <1>1, WFMin
<1>3. ASSUME NEW m \in S PROVE n <= m
  <2>1. m \in Nat /\ n \in Nat
    OBVIOUS
  <2>2. ~(m < n)
    BY <1>2, <2>1 DEF OpToRel
  <2> QED BY <2>1, <2>2
<1> QED
  BY <1>3

\* The greatest element of a bounded set of naturals.
LEMMA Greatest ==
    ASSUME NEW S, S \subseteq Nat, S # {}, NEW b \in Nat, \A n \in S : n <= b
    PROVE  \E n \in S : \A m \in S : m <= n
<1> DEFINE T == {b - n : n \in S}
<1>1. T \subseteq Nat /\ T # {}
  <2>1. \A n \in S : b - n \in Nat
    OBVIOUS
  <2> QED BY <2>1
<1>2. PICK t \in T : \A u \in T : t <= u
  <2> HIDE DEF T
  <2> QED BY <1>1, Least
<1>3. PICK n \in S : t = b - n
  BY <1>2
<1>4. ASSUME NEW m \in S PROVE m <= n
  <2>1. b - m \in T
    OBVIOUS
  <2>2. b - n <= b - m
    BY <1>2, <1>3, <2>1
  <2> QED BY <2>2
<1> QED
  BY <1>4

\* A set with 0 and with the successor of each of its naturals has them all.
LEMMA NatStep ==
    ASSUME NEW S, 0 \in S, \A n \in Nat : n \in S => n + 1 \in S
    PROVE  Nat \subseteq S
<1> SUFFICES ASSUME Nat \ S # {} PROVE FALSE
  OBVIOUS
<1>1. PICK k \in Nat \ S : \A m \in Nat \ S : k <= m
  BY Least
<1>2. k # 0
  OBVIOUS
<1>3. k - 1 \in Nat /\ ~(k <= k - 1)
  BY <1>2
<1>4. k - 1 \in S
  BY <1>1, <1>3
<1>5. (k - 1) + 1 \in S /\ (k - 1) + 1 = k
  BY <1>3, <1>4
<1> QED
  BY <1>5

\* Definition by recursion.
Recurs(f, X, base, step) ==
    /\ f \in [Nat -> X]
    /\ f[0] = base
    /\ \A n \in Nat : f[n + 1] = step[<<f[n], n>>]

LEMMA RecursionExists ==
    ASSUME NEW X, NEW base \in X, NEW step \in [X \X Nat -> X]
    PROVE  \E f : Recurs(f, X, base, step)
<1> DEFINE Goes(g, k) == /\ g \in [0..k -> X] /\ g[0] = base
                         /\ \A n \in 0..(k - 1) : g[n + 1] = step[<<g[n], n>>]
           Reached == {k \in Nat : \E g : Goes(g, k)}
<1>1. Nat \subseteq Reached
  <2>1. 0 \in Reached
    <3>1. Goes([n \in 0..0 |-> base], 0)
      OBVIOUS
    <3> QED BY <3>1
  <2>2. ASSUME NEW k \in Nat, k \in Reached PROVE k + 1 \in Reached
    <3>1. PICK g : Goes(g, k)
      BY <2>2
    <3> DEFINE h == [n \in 0..(k + 1) |-> IF n = k + 1 THEN step[<<g[k], k>>] ELSE g[n]]
    <3>2. g[k] \in X /\ \A n \in 0..k : g[n] \in X
      BY <3>1
    <3>3. h \in [0..(k + 1) -> X]
      BY <3>2
    <3>4. h[0] = base
      BY <3>1
    <3>5. ASSUME NEW n \in 0..k PROVE h[n + 1] = step[<<h[n], n>>]
      <4>1. n \in 0..(k + 1) /\ n + 1 \in 0..(k + 1) /\ n # k + 1
        OBVIOUS
      <4>2. h[n] = g[n]
        BY <4>1
      <4>3. CASE n = k
        BY <4>1, <4>2, <4>3
      <4>4. CASE n # k
        <5>1. n \in 0..(k - 1) /\ n + 1 # k + 1
          BY <4>4
        <5>2. h[n + 1] = g[n + 1]
          BY <4>1, <5>1
        <5> QED BY <3>1, <4>2, <5>1, <5>2
      <4> QED BY <4>3, <4>4
    <3>6. Goes(h, k + 1)
      <4>1. (k + 1) - 1 = k
        OBVIOUS
      <4> HIDE DEF h
      <4> QED BY <3>3, <3>4, <3>5, <4>1
    <3> HIDE DEF Goes, h
    <3> QED BY <3>6
  <2> HIDE DEF Reached
  <2> QED BY <2>1, <2>2, NatStep
<1>2. ASSUME NEW k \in Nat, NEW j \in Nat, NEW g, NEW h, Goes(g, k), Goes(h, j)
      PROVE  \A n \in 0..k \cap 0..j : g[n] = h[n]
  <2> DEFINE Same == {n \in Nat : n \in 0..k \cap 0..j => g[n] = h[n]}
  <2>1. 0 \in Same
    BY <1>2
  <2>2. ASSUME NEW n \in Nat, n \in Same PROVE n + 1 \in Same
    <3> SUFFICES ASSUME n + 1 \in 0..k \cap 0..j PROVE g[n + 1] = h[n + 1]
      OBVIOUS
    <3>1. n \in 0..k \cap 0..j /\ n \in 0..(k - 1) /\ n \in 0..(j - 1)
      OBVIOUS
    <3> QED BY <1>2, <2>2, <3>1
  <2>3. Nat \subseteq Same
    <3> HIDE DEF Same
    <3> QED BY <2>1, <2>2, NatStep
  <2> QED BY <2>3
<1> DEFINE Upto(k) == CHOOSE g : Goes(g, k)
           f == [k \in Nat |-> Upto(k)[k]]
<1>3. ASSUME NEW k \in Nat PROVE Goes(Upto(k), k)
  <2>1. \E g : Goes(g, k)
    BY <1>1
  <2> HIDE DEF Goes
  <2> QED BY <2>1
<1>4. f \in [Nat -> X]
  <2>1. ASSUME NEW k \in Nat PROVE Upto(k)[k] \in X
    <3>1. Goes(Upto(k), k)
      BY <1>3
    <3> HIDE DEF Upto
    <3>2. Upto(k) \in [0..k -> X] /\ k \in 0..k
      BY <3>1
    <3> QED BY <3>2
  <2> HIDE DEF Upto
  <2> QED BY <2>1
<1>5. f[0] = base
  <2>1. Goes(Upto(0), 0)
    BY <1>3
  <2> HIDE DEF Upto
  <2> QED BY <2>1
<1>6. ASSUME NEW n \in Nat PROVE f[n + 1] = step[<<f[n], n>>]
  <2>1. Goes(Upto(n), n) /\ Goes(Upto(n + 1), n + 1)
    <3>1. n + 1 \in Nat
      OBVIOUS
    <3> HIDE DEF Goes, Upto
    <3> QED BY <1>3, <3>1
  <2>2. n \in 0..n \cap 0..(n + 1) /\ n \in 0..((n + 1) - 1) /\ n + 1 \in Nat
    OBVIOUS
  <2>3. Upto(n + 1)[n] = Upto(n)[n]
    <3> HIDE DEF Upto, Goes
    <3>1. \A k, j \in Nat : \A g, h : Goes(g, k) /\ Goes(h, j)
             => \A i \in 0..k \cap 0..j : g[i] = h[i]
      BY <1>2
    <3>2. \A i \in 0..n \cap 0..(n + 1) : Upto(n)[i] = Upto(n + 1)[i]
      BY <2>1, <2>2, <3>1
    <3> QED BY <2>2, <3>2
  <2>4. Upto(n + 1)[n + 1] = step[<<Upto(n + 1)[n], n>>]
    <3> HIDE DEF Upto
    <3> QED BY <2>1, <2>2
  <2> HIDE DEF Upto
  <2> QED BY <2>3, <2>4
<1> HIDE DEF f
<1> QED
  BY <1>4, <1>5, <1>6 DEF Recurs

-----------------------------------------------------------------------------
(* Finite sets in order.                                                   *)

\* A function of finitely many arguments has finitely many values.
LEMMA FiniteRange ==
    ASSUME NEW S, IsFiniteSet(S), NEW f, DOMAIN f = S
    PROVE  IsFiniteSet({f[x] : x \in S})
<1> DEFINE g == [x \in S |-> f[x]]
           T == {f[x] : x \in S}
<1>1. g \in [S -> T] /\ \A t \in T : \E x \in S : g[x] = t
  OBVIOUS
<1>2. g \in Surjection(S, T)
  <2> HIDE DEF g, T
  <2> QED BY <1>1 DEF Surjection
<1> HIDE DEF g
<1> QED
  BY <1>2, FS_Surjection

\* s lists the members of S, each before those that are greater under R.
Lists(s, S, R) ==
    /\ s \in [1..Cardinality(S) -> S]
    /\ \A x \in S : \E k \in 1..Cardinality(S) : s[k] = x
    /\ \A j, k \in 1..Cardinality(S) : j < k => <<s[j], s[k]>> \in R

\* R orders the members of X strictly and totally.
Orders(R, X) ==
    /\ \A x \in X : <<x, x>> \notin R
    /\ \A x, y, z \in X : <<x, y>> \in R /\ <<y, z>> \in R => <<x, z>> \in R
    /\ \A x, y \in X : x = y \/ <<x, y>> \in R \/ <<y, x>> \in R

\* Of a list and one more member, which is greater than all of the list.
LEMMA ListsLonger ==
    ASSUME NEW R, NEW S, IsFiniteSet(S), NEW x \in S, NEW s, Lists(s, S \ {x}, R),
           \A y \in S \ {x} : <<y, x>> \in R
    PROVE  \E t : Lists(t, S, R)
<1> DEFINE n == Cardinality(S \ {x})
           t == [k \in 1..(n + 1) |-> IF k = n + 1 THEN x ELSE s[k]]
<1>1. n \in Nat /\ Cardinality(S) = n + 1
  <2>1. IsFiniteSet(S \ {x}) /\ n = Cardinality(S) - 1
    BY FS_RemoveElement
  <2>2. Cardinality(S) \in Nat /\ n \in Nat
    BY <2>1, FS_CardinalityType
  <2> HIDE DEF n
  <2> QED BY <2>1, <2>2
<1> HIDE DEF n
<1>2. \A k \in 1..n : s[k] \in S \ {x} /\ k \in 1..(n + 1) /\ t[k] = s[k]
  <2>1. s \in [1..n -> S \ {x}]
    BY DEF Lists, n
  <2>2. \A k \in 1..n : k \in 1..(n + 1) /\ k # n + 1
    BY <1>1
  <2> QED BY <2>1, <2>2
<1>3. n + 1 \in 1..(n + 1) /\ t[n + 1] = x
  BY <1>1
<1>4. \A k \in 1..(n + 1) : k = n + 1 \/ k \in 1..n
  BY <1>1
<1>5. t \in [1..(n + 1) -> S]
  BY <1>2, <1>3, <1>4
<1> HIDE DEF t
<1>6. ASSUME NEW y \in S PROVE \E k \in 1..(n + 1) : t[k] = y
  <2>1. CASE y = x
    BY <1>3, <2>1
  <2>2. CASE y # x
    <3>1. PICK k \in 1..n : s[k] = y
      BY <2>2 DEF Lists, n
    <3> QED BY <1>2, <3>1
  <2> QED BY <2>1, <2>2
<1>7. ASSUME NEW j \in 1..(n + 1), NEW k \in 1..(n + 1), j < k
      PROVE  <<t[j], t[k]>> \in R
  <2>1. j \in 1..n
    BY <1>1, <1>7
  <2>2. CASE k = n + 1
    BY <1>2, <1>3, <2>1, <2>2
  <2>3. CASE k # n + 1
    <3>1. k \in 1..n
      BY <1>4, <2>3
    <3>2. <<s[j], s[k]>> \in R
      BY <1>7, <2>1, <3>1 DEF Lists, n
    <3> QED BY <1>2, <2>1, <3>1, <3>2
  <2> QED BY <2>2, <2>3
<1> QED
  BY <1>1, <1>5, <1>6, <1>7 DEF Lists

\* Every finite set has a list.
LEMMA ListExists ==
    ASSUME NEW X, NEW R, Orders(R, X), NEW S \in SUBSET X, IsFiniteSet(S)
    PROVE  \E s : Lists(s, S, R)
<1> DEFINE N == {n \in Nat : \A T \in SUBSET X :
                   IsFiniteSet(T) /\ Cardinality(T) = n => \E s : Lists(s, T, R)}
<1>1. 0 \in N
  <2> SUFFICES ASSUME NEW T \in SUBSET X, IsFiniteSet(T), Cardinality(T) = 0
               PROVE  \E s : Lists(s, T, R)
    OBVIOUS
  <2>1. T = {}
    BY FS_EmptySet
  <2>2. Lists([k \in 1..0 |-> k], T, R)
    BY <2>1 DEF Lists
  <2> QED BY <2>2
<1>2. ASSUME NEW n \in Nat, n \in N PROVE n + 1 \in N
  <2> SUFFICES ASSUME NEW T \in SUBSET X, IsFiniteSet(T), Cardinality(T) = n + 1
               PROVE  \E s : Lists(s, T, R)
    OBVIOUS
  <2>1. ASSUME NEW x \in T PROVE \E s : Lists(s, T \ {x}, R)
    <3>1. IsFiniteSet(T \ {x}) /\ Cardinality(T \ {x}) = Cardinality(T) - 1
      BY FS_RemoveElement
    <3>2. Cardinality(T \ {x}) = n
      BY <3>1
    <3> QED BY <1>2, <3>1, <3>2
  <2>2. PICK x : x \in T
    BY FS_EmptySet
  <2>3. PICK s : Lists(s, T \ {x}, R)
    BY <2>1, <2>2
  <2>4. \E m \in T : \A y \in T \ {m} : <<y, m>> \in R
    <3>1. IsFiniteSet(T \ {x}) /\ Cardinality(T \ {x}) = n
      <4>1. IsFiniteSet(T \ {x}) /\ Cardinality(T \ {x}) = Cardinality(T) - 1
        BY <2>2, FS_RemoveElement
      <4> QED BY <4>1
    <3>2. CASE n = 0
      <4>1. T \ {x} = {}
        BY <3>1, <3>2, FS_EmptySet
      <4> QED BY <2>2, <4>1
    <3>3. CASE n # 0
      <4> DEFINE m == s[n]
      <4>1. n \in 1..n /\ m \in T \ {x}
        <5>1. s \in [1..n -> T \ {x}]
          BY <2>3, <3>1 DEF Lists
        <5>2. n \in 1..n
          BY <3>3
        <5> QED BY <5>1, <5>2
      <4>2. \A y \in T \ {x} : y = m \/ <<y, m>> \in R
        <5> SUFFICES ASSUME NEW y \in T \ {x} PROVE y = m \/ <<y, m>> \in R
          OBVIOUS
        <5>1. PICK k \in 1..n : s[k] = y
          BY <2>3, <3>1 DEF Lists
        <5>2. k = n \/ k < n
          OBVIOUS
        <5> QED BY <2>3, <3>1, <4>1, <5>1, <5>2 DEF Lists
      <4> HIDE DEF m
      <4>3. CASE <<m, x>> \in R
        <5>1. \A y \in T \ {x} : <<y, x>> \in R
          BY <2>2, <4>1, <4>2, <4>3 DEF Orders
        <5> QED BY <2>2, <5>1
      <4>4. CASE <<x, m>> \in R
        <5>1. \A y \in T \ {m} : <<y, m>> \in R
          BY <4>2, <4>4
        <5> QED BY <4>1, <5>1
      <4> QED BY <2>2, <4>1, <4>3, <4>4 DEF Orders
    <3> QED BY <3>2, <3>3
  <2>5. PICK m \in T : \A y \in T \ {m} : <<y, m>> \in R
    BY <2>4
  <2>6. PICK r : Lists(r, T \ {m}, R)
    BY <2>1
  <2> QED BY <2>5, <2>6, ListsLonger
<1>3. Nat \subseteq N
  <2> HIDE DEF N
  <2> QED BY <1>1, <1>2, NatStep
<1> QED
  BY <1>3, FS_CardinalityType

\* There is no second such list.
LEMMA ListsAgree ==
    ASSUME NEW X, NEW R, Orders(R, X), NEW S \in SUBSET X, IsFiniteSet(S),
           NEW s, NEW t, Lists(s, S, R), Lists(t, S, R)
    PROVE  s = t
<1> DEFINE n == Cardinality(S)
           Apart == {k \in 1..n : s[k] # t[k]}
<1>1. n \in Nat
  BY FS_CardinalityType
<1>2. /\ s \in [1..n -> S] /\ t \in [1..n -> S]
      /\ \A x \in S : (\E k \in 1..n : s[k] = x) /\ (\E k \in 1..n : t[k] = x)
      /\ \A j, k \in 1..n : j < k => <<s[j], s[k]>> \in R /\ <<t[j], t[k]>> \in R
  BY DEF Lists
<1> HIDE DEF n
<1>0. ASSUME Apart = {} PROVE s = t
  <2>1. \A k \in 1..n : s[k] = t[k]
    BY <1>0
  <2>2. s = [k \in 1..n |-> s[k]] /\ t = [k \in 1..n |-> t[k]]
    BY <1>2
  <2>3. [k \in 1..n |-> s[k]] = [k \in 1..n |-> t[k]]
    BY <2>1, Zenon
  <2> QED BY <2>2, <2>3
<1> SUFFICES ASSUME Apart # {} PROVE FALSE
  BY <1>0
<1>3. PICK k \in Apart : \A j \in Apart : k <= j
  <2>1. Apart \subseteq Nat
    OBVIOUS
  <2> HIDE DEF Apart
  <2> QED BY <2>1, Least
<1>4. k \in 1..n /\ s[k] # t[k] /\ s[k] \in S /\ t[k] \in S
  BY <1>2, <1>3
<1>5. ASSUME NEW j \in 1..n, j < k PROVE s[j] = t[j]
  <2>1. j \in Nat /\ k \in Nat
    BY <1>4
  <2>2. ~(k <= j)
    BY <1>5, <2>1
  <2> QED BY <1>3, <2>2
<1>6. \A x \in S : <<x, x>> \notin R
  BY DEF Orders
<1>7. <<t[k], s[k]>> \in R
  <2>1. PICK j \in 1..n : t[j] = s[k]
    BY <1>2, <1>4
  <2>2. ~(j < k)
    <3> SUFFICES ASSUME j < k PROVE FALSE
      OBVIOUS
    <3>1. s[j] = s[k] /\ <<s[j], s[k]>> \in R
      BY <1>2, <1>4, <1>5, <2>1
    <3> QED BY <1>4, <1>6, <3>1
  <2>3. k < j
    <3>1. j # k /\ j \in Nat /\ k \in Nat
      BY <1>4, <2>1
    <3> QED BY <2>2, <3>1
  <2> QED BY <1>2, <1>4, <2>1, <2>3
<1>8. <<s[k], t[k]>> \in R
  <2>1. PICK j \in 1..n : s[j] = t[k]
    BY <1>2, <1>4
  <2>2. ~(j < k)
    <3> SUFFICES ASSUME j < k PROVE FALSE
      OBVIOUS
    <3>1. t[j] = t[k] /\ <<t[j], t[k]>> \in R
      BY <1>2, <1>4, <1>5, <2>1
    <3> QED BY <1>4, <1>6, <3>1
  <2>3. k < j
    <3>1. j # k /\ j \in Nat /\ k \in Nat
      BY <1>4, <2>1
    <3> QED BY <2>2, <3>1
  <2> QED BY <1>2, <1>4, <2>1, <2>3
<1>9. \A x, y, z \in X : <<x, y>> \in R /\ <<y, z>> \in R => <<x, z>> \in R
  BY DEF Orders
<1>10. s[k] \in X /\ t[k] \in X
  BY <1>4
<1>11. <<s[k], s[k]>> \in R
  BY <1>7, <1>8, <1>9, <1>10, Zenon
<1> QED
  BY <1>4, <1>6, <1>11

-----------------------------------------------------------------------------
(* FlattenSeq, the concatenation of a sequence of sequences.               *)

\* p[n] is the concatenation of the first n sequences.
Joins(p, ss, X) ==
    /\ p \in [Nat -> Seq(X)]
    /\ p[0] = <<>>
    /\ \A n \in Nat : n < Len(ss) => p[n + 1] = p[n] \o ss[n + 1]

LEMMA JoinsExists ==
    ASSUME NEW X, NEW ss \in Seq(Seq(X))
    PROVE  \E p : Joins(p, ss, X)
<1> DEFINE step == [q \in Seq(X) \X Nat |->
                      IF q[2] < Len(ss) THEN q[1] \o ss[q[2] + 1] ELSE q[1]]
<1>1. step \in [Seq(X) \X Nat -> Seq(X)]
  <2>1. ASSUME NEW q \in Seq(X) \X Nat, q[2] < Len(ss)
        PROVE  q[1] \o ss[q[2] + 1] \in Seq(X)
    <3>1. q[1] \in Seq(X) /\ q[2] \in Nat
      OBVIOUS
    <3>2. q[2] + 1 \in 1..Len(ss)
      BY <2>1, <3>1
    <3>3. ss[q[2] + 1] \in Seq(X)
      BY <3>2
    <3> QED BY <3>1, <3>3
  <2>2. \A q \in Seq(X) \X Nat : q[1] \in Seq(X)
    OBVIOUS
  <2> QED BY <2>1, <2>2
<1>2. <<>> \in Seq(X)
  OBVIOUS
<1> HIDE DEF step
<1>3. PICK p : Recurs(p, Seq(X), <<>>, step)
  BY <1>1, <1>2, RecursionExists
<1>4. ASSUME NEW n \in Nat, n < Len(ss) PROVE p[n + 1] = p[n] \o ss[n + 1]
  <2>1. p[n] \in Seq(X) /\ p[n + 1] = step[<<p[n], n>>]
    BY <1>3 DEF Recurs
  <2>2. <<p[n], n>> \in Seq(X) \X Nat
    BY <2>1
  <2> QED BY <1>4, <2>1, <2>2 DEF step
<1> QED
  BY <1>3, <1>4 DEF Recurs, Joins

LEMMA FlattenIsJoin ==
    ASSUME NEW X, NEW ss \in Seq(Seq(X)), NEW p, Joins(p, ss, X)
    PROVE  FlattenSeq(ss) = p[Len(ss)]
<1>1. CASE Len(ss) = 0
  BY <1>1 DEF FlattenSeq, Joins
<1>2. CASE Len(ss) # 0
  <2> DEFINE Flat(f) == f = [i \in 1..Len(ss) |-> IF i = 1 THEN ss[i] ELSE f[i - 1] \o ss[i]]
             g == [i \in 1..Len(ss) |-> p[i]]
  <2>1. Flat(g)
    <3> SUFFICES ASSUME NEW i \in 1..Len(ss)
                 PROVE  p[i] = IF i = 1 THEN ss[i] ELSE g[i - 1] \o ss[i]
      OBVIOUS
    <3>1. i - 1 \in Nat /\ i - 1 < Len(ss) /\ (i - 1) + 1 = i /\ ss[i] \in Seq(X)
      OBVIOUS
    <3>2. p[i] = p[i - 1] \o ss[i]
      BY <3>1 DEF Joins
    <3>3. CASE i = 1
      <4>1. p[i - 1] = <<>>
        BY <3>3 DEF Joins
      <4> QED BY <3>1, <3>2, <3>3, <4>1
    <3>4. CASE i # 1
      <4>1. i - 1 \in 1..Len(ss)
        BY <3>4
      <4> QED BY <3>2, <3>4, <4>1
    <3> QED BY <3>3, <3>4
  <2>2. ASSUME NEW f, Flat(f) PROVE f[Len(ss)] = p[Len(ss)]
    <3> DEFINE S == {n \in Nat : n + 1 \in 1..Len(ss) => f[n + 1] = p[n + 1]}
    <3>1. \A i \in 1..Len(ss) : f[i] = IF i = 1 THEN ss[i] ELSE f[i - 1] \o ss[i]
      BY <2>2
    <3> HIDE DEF Flat
    <3>2. \A i \in 1..Len(ss) : p[i] = IF i = 1 THEN ss[i] ELSE p[i - 1] \o ss[i]
      <4> HIDE DEF g
      <4>1. \A i \in 1..Len(ss) : g[i] = IF i = 1 THEN ss[i] ELSE g[i - 1] \o ss[i]
        BY <2>1 DEF Flat
      <4>2. \A i \in 1..Len(ss) : g[i] = p[i] /\ (i # 1 => g[i - 1] = p[i - 1])
        BY DEF g
      <4> QED BY <4>1, <4>2
    <3>3. 0 \in S
      BY <3>1, <3>2
    <3>4. ASSUME NEW n \in Nat, n \in S PROVE n + 1 \in S
      <4> SUFFICES ASSUME (n + 1) + 1 \in 1..Len(ss) PROVE f[(n + 1) + 1] = p[(n + 1) + 1]
        OBVIOUS
      <4>1. n + 1 \in 1..Len(ss) /\ (n + 1) + 1 # 1 /\ ((n + 1) + 1) - 1 = n + 1
        OBVIOUS
      <4>2. f[n + 1] = p[n + 1]
        BY <3>4, <4>1
      <4> QED BY <3>1, <3>2, <4>1, <4>2
    <3>5. Nat \subseteq S
      <4> HIDE DEF S
      <4> QED BY <3>3, <3>4, NatStep
    <3>6. Len(ss) - 1 \in Nat /\ (Len(ss) - 1) + 1 = Len(ss) /\ Len(ss) \in 1..Len(ss)
      BY <1>2
    <3>7. Len(ss) - 1 \in S
      BY <3>5, <3>6
    <3> QED BY <3>6, <3>7
  <2>3. FlattenSeq(ss) = (CHOOSE f : Flat(f))[Len(ss)]
    BY <1>2 DEF FlattenSeq
  <2>4. Flat(CHOOSE f : Flat(f))
    <3> HIDE DEF Flat, g
    <3> QED BY <2>1
  <2> HIDE DEF Flat
  <2> QED BY <2>2, <2>3, <2>4
<1> QED
  BY <1>1, <1>2

LEMMA FlattenEmpty == FlattenSeq(<<>>) = <<>>
  BY DEF FlattenSeq

\* One sequence more.
LEMMA FlattenAppends ==
    ASSUME NEW X, NEW ss \in Seq(Seq(X)), NEW x \in Seq(X)
    PROVE  /\ FlattenSeq(ss) \in Seq(X)
           /\ FlattenSeq(Append(ss, x)) = FlattenSeq(ss) \o x
<1> DEFINE tt == Append(ss, x)
<1>1. tt \in Seq(Seq(X)) /\ Len(tt) = Len(ss) + 1 /\ Len(ss) \in Nat
  OBVIOUS
<1>2. tt[Len(ss) + 1] = x /\ \A n \in 1..Len(ss) : tt[n] = ss[n]
  <2>1. tt[Len(ss) + 1] = x
    OBVIOUS
  <2>2. ASSUME NEW n \in 1..Len(ss) PROVE tt[n] = ss[n]
    OBVIOUS
  <2> QED BY <2>1, <2>2
<1> HIDE DEF tt
<1>3. PICK p : Joins(p, tt, X)
  BY <1>1, JoinsExists
<1>4. Joins(p, ss, X)
  <2>1. ASSUME NEW n \in Nat, n < Len(ss) PROVE p[n + 1] = p[n] \o ss[n + 1]
    <3>1. n < Len(tt) /\ n + 1 \in 1..Len(ss)
      BY <1>1, <2>1
    <3> QED BY <1>2, <1>3, <3>1 DEF Joins
  <2> QED BY <1>3, <2>1 DEF Joins
<1>5. FlattenSeq(ss) = p[Len(ss)] /\ p[Len(ss)] \in Seq(X)
  BY <1>1, <1>4, FlattenIsJoin DEF Joins
<1>6. FlattenSeq(tt) = p[Len(ss) + 1]
  BY <1>1, <1>3, FlattenIsJoin
<1>7. p[Len(ss) + 1] = p[Len(ss)] \o x
  <2>1. Len(ss) < Len(tt)
    BY <1>1
  <2> QED BY <1>1, <1>2, <1>3, <2>1 DEF Joins
<1> QED
  BY <1>5, <1>6, <1>7 DEF tt

LEMMA IsSequence ==
    ASSUME NEW X, NEW n \in Nat, NEW f \in [1..n -> X]
    PROVE  f \in Seq(X) /\ Len(f) = n
OBVIOUS

\* off[k] is the length of the first k sequences.
Cumulates(off, ss) ==
    /\ off[0] = 0
    /\ \A k \in 1..Len(ss) : off[k] = off[k - 1] + Len(ss[k])

\* Each sequence is found in flat where those before it end.
LaidOut(flat, ss, off) ==
    /\ \A k \in 0..Len(ss) : off[k] \in Nat
    /\ Len(flat) = off[Len(ss)]
    /\ \A k \in 1..Len(ss) : \A j \in 1..Len(ss[k]) :
          /\ off[k - 1] + j \in 1..off[Len(ss)]
          /\ flat[off[k - 1] + j] = ss[k][j]

LEMMA FlattenAt ==
    ASSUME NEW X, NEW ss \in Seq(Seq(X)), NEW off, Cumulates(off, ss)
    PROVE  FlattenSeq(ss) \in Seq(X) /\ LaidOut(FlattenSeq(ss), ss, off)
<1>0. /\ off[0] = 0
      /\ \A k \in 1..Len(ss) : off[k] = off[k - 1] + Len(ss[k])
  BY DEF Cumulates
<1>1. PICK p : Joins(p, ss, X)
  BY JoinsExists
<1> DEFINE Placed(n) ==
              /\ Len(p[n]) = off[n]
              /\ \A k \in 1..n : \A j \in 1..Len(ss[k]) :
                    off[k - 1] + j \in 1..off[n] /\ p[n][off[k - 1] + j] = ss[k][j]
           S == {n \in Nat : n <= Len(ss) => Placed(n)}
<1>2. /\ Len(ss) \in Nat
      /\ \A k \in 1..Len(ss) : ss[k] \in Seq(X) /\ Len(ss[k]) \in Nat
      /\ \A n \in Nat : p[n] \in Seq(X) /\ Len(p[n]) \in Nat
  <2>1. \A k \in 1..Len(ss) : ss[k] \in Seq(X)
    OBVIOUS
  <2>2. \A n \in Nat : p[n] \in Seq(X)
    BY <1>1 DEF Joins
  <2> QED BY <2>1, <2>2
<1>3. 0 \in S
  <2>1. Len(p[0]) = off[0]
    BY <1>0, <1>1 DEF Joins
  <2>2. 1..0 = {}
    OBVIOUS
  <2> QED BY <2>1, <2>2
<1>4. ASSUME NEW n \in Nat, n \in S PROVE n + 1 \in S
  <2> SUFFICES ASSUME n + 1 <= Len(ss) PROVE Placed(n + 1)
    OBVIOUS
  <2>1. n < Len(ss) /\ n + 1 \in 1..Len(ss) /\ (n + 1) - 1 = n
    BY <1>2
  <2>2. Placed(n)
    BY <1>2, <1>4, <2>1
  <2>3. p[n + 1] = p[n] \o ss[n + 1]
    BY <1>1, <2>1 DEF Joins
  <2>4. off[n + 1] = off[n] + Len(ss[n + 1])
    BY <1>0, <2>1
  <2> DEFINE old == p[n]
             new == ss[n + 1]
             both == p[n + 1]
  <2>5. old \in Seq(X) /\ new \in Seq(X) /\ both = old \o new
    BY <1>2, <2>1, <2>3
  <2>6. Len(old) = off[n] /\ off[n] \in Nat
    BY <1>2, <2>2
  <2>7. off[n + 1] = off[n] + Len(new) /\ Len(new) \in Nat
    BY <1>2, <2>1, <2>4
  <2> HIDE DEF old, new, both
  <2>8. Len(both) = off[n + 1]
    <3>1. Len(both) = Len(old) + Len(new)
      BY <2>5
    <3> QED BY <2>6, <2>7, <3>1
  <2>9. ASSUME NEW k \in 1..(n + 1), NEW j \in 1..Len(ss[k])
        PROVE  off[k - 1] + j \in 1..off[n + 1] /\ both[off[k - 1] + j] = ss[k][j]
    <3>1. CASE k = n + 1
      <4>1. off[k - 1] = off[n] /\ j \in 1..Len(new) /\ ss[k] = new
        BY <2>1, <3>1 DEF new
      <4>2. both[Len(old) + j] = new[j]
        BY <2>5, <4>1
      <4>3. off[n] + j \in 1..off[n + 1]
        BY <2>6, <2>7, <4>1
      <4> QED BY <2>6, <4>1, <4>2, <4>3
    <3>2. CASE k # n + 1
      <4>1. k \in 1..n
        BY <3>2
      <4>2. off[k - 1] + j \in 1..off[n] /\ old[off[k - 1] + j] = ss[k][j]
        BY <2>2, <4>1 DEF old
      <4> DEFINE i == off[k - 1] + j
      <4>3. i \in 1..Len(old) /\ old[i] = ss[k][j]
        BY <2>6, <4>2
      <4> HIDE DEF i
      <4>4. both[i] = old[i]
        BY <2>5, <4>3
      <4>5. i \in 1..off[n + 1]
        <5>1. i \in 1..off[n]
          BY <4>2 DEF i
        <5>2. off[n + 1] \in Nat /\ off[n] <= off[n + 1]
          BY <2>6, <2>7
        <5> QED BY <2>6, <5>1, <5>2
      <4>6. both[i] = ss[k][j]
        BY <4>3, <4>4
      <4> QED BY <4>5, <4>6 DEF i
    <3> QED BY <3>1, <3>2
  <2> QED BY <2>8, <2>9 DEF both
<1>5. Nat \subseteq S
  <2> HIDE DEF S
  <2> QED BY <1>3, <1>4, NatStep
<1>6. \A n \in 0..Len(ss) : Placed(n)
  <2>1. \A n \in 0..Len(ss) : n \in Nat /\ n <= Len(ss)
    BY <1>2
  <2> HIDE DEF Placed
  <2> QED BY <1>5, <2>1
<1>7. FlattenSeq(ss) = p[Len(ss)]
  BY <1>1, FlattenIsJoin
<1>8. \A k \in 0..Len(ss) : off[k] \in Nat
  <2> SUFFICES ASSUME NEW k \in 0..Len(ss) PROVE off[k] \in Nat
    OBVIOUS
  <2>1. Len(p[k]) = off[k] /\ k \in Nat
    BY <1>6
  <2> QED BY <1>2, <2>1
<1>9. Len(ss) \in 0..Len(ss) /\ Placed(Len(ss))
  <2>1. Len(ss) \in 0..Len(ss)
    BY <1>2
  <2> HIDE DEF Placed
  <2> QED BY <1>6, <2>1
<1> QED
  BY <1>2, <1>7, <1>8, <1>9 DEF LaidOut

LEMMA Joined ==
    ASSUME NEW X, NEW a \in Seq(X), NEW b \in Seq(X)
    PROVE  /\ a \o b \in Seq(X) /\ Len(a \o b) = Len(a) + Len(b)
           /\ \A j \in 1..Len(a) : (a \o b)[j] = a[j]
           /\ \A j \in 1..Len(b) : (a \o b)[Len(a) + j] = b[j]
OBVIOUS

-----------------------------------------------------------------------------
(* Division.                                                               *)

LEMMA DivisionIs ==
    ASSUME NEW q \in Nat, NEW d \in Nat \ {0}, NEW r \in 0..(d - 1)
    PROVE  (q * d + r) \div d = q /\ (q * d + r) % d = r
OBVIOUS

LEMMA Divides ==
    ASSUME NEW n \in Nat, NEW d \in Nat \ {0}
    PROVE  \E q \in Nat, r \in 0..(d - 1) : n \div d = q /\ n % d = r /\ n = q * d + r
<1> DEFINE q == n \div d
           r == n % d
<1>1. q \in Nat /\ r \in 0..(d - 1) /\ n = q * d + r
  OBVIOUS
<1>2. n \div d = q /\ n % d = r
  OBVIOUS
<1> HIDE DEF q, r
<1> QED
  BY <1>1, <1>2

\* To divide twice is to divide by the product.
LEMMA DividesTwice ==
    ASSUME NEW a \in Nat, NEW b \in Nat \ {0}, NEW c \in Nat \ {0}
    PROVE  (a \div b) \div c = a \div (b * c)
<1>1. PICK q \in Nat, r \in 0..(b - 1) : a \div b = q /\ a = q * b + r
  BY Divides
<1>2. PICK p \in Nat, s \in 0..(c - 1) : q \div c = p /\ q = p * c + s
  BY Divides
<1>3. a = p * (b * c) + (s * b + r) /\ b * c \in Nat \ {0}
  BY <1>1, <1>2
<1>4. s * b + r \in 0..(b * c - 1)
  <2>1. s * b \in Nat
    OBVIOUS
  <2>2. (c - 1 - s) * b \in Nat
    OBVIOUS
  <2>3. (c - 1 - s) * b = b * c - b - s * b
    OBVIOUS
  <2> QED BY <1>3, <2>1, <2>2, <2>3
<1> DEFINE m == b * c
           t == s * b + r
<1>5. m \in Nat \ {0} /\ t \in 0..(m - 1) /\ a = p * m + t
  BY <1>3, <1>4
<1> HIDE DEF m, t
<1>6. a \div m = p
  BY <1>5, DivisionIs
<1> QED
  BY <1>1, <1>2, <1>6 DEF m

-----------------------------------------------------------------------------
(* Digits, most significant first, and what they mean in base b.           *)

\* value[k] is what the first k digits of s say in base b.
Evaluates(value, s, b) ==
    /\ DOMAIN value = 0..Len(s)
    /\ value[0] = 0
    /\ \A k \in 1..Len(s) : value[k] = value[k - 1] * b + s[k]

\* f gives the digits of every natural.
DigitsOf(f, b) ==
    f = [n \in Nat |-> IF n < b THEN <<n>> ELSE Append(f[n \div b], n % b)]

LEMMA RadixDivides ==
    ASSUME NEW b \in Nat \ {0, 1}, NEW n \in Nat, ~(n < b)
    PROVE  \E q \in Nat, r \in 0..(b - 1) :
              n \div b = q /\ n % b = r /\ n = q * b + r /\ q < n
<1>1. PICK q \in Nat, r \in 0..(b - 1) :
         n \div b = q /\ n % b = r /\ n = q * b + r
  BY Divides
<1>2. q < n
  <2>1. q * b >= 2 * q
    OBVIOUS
  <2>2. q = 0 \/ q >= 1
    OBVIOUS
  <2>3. q = 0 => n = r
    BY <1>1
  <2> QED BY <1>1, <2>1, <2>2, <2>3
<1> QED
  BY <1>1, <1>2

LEMMA DigitsExist ==
    ASSUME NEW b \in Nat \ {0, 1}
    PROVE  \E f \in [Nat -> Seq(Nat)] : DigitsOf(f, b)
<1> DEFINE X == [Nat -> Seq(Nat)]
           Once(g) == [n \in Nat |-> IF n < b THEN <<n>>
                                     ELSE Append(g[n \div b], n % b)]
           step == [a \in X \X Nat |-> Once(a[1])]
           base == [n \in Nat |-> <<n>>]
<1>1. ASSUME NEW g \in X PROVE Once(g) \in X
  <2> SUFFICES ASSUME NEW n \in Nat, ~(n < b)
               PROVE  Append(g[n \div b], n % b) \in Seq(Nat)
    <3>1. \A n \in Nat : <<n>> \in Seq(Nat)
      OBVIOUS
    <3> QED BY <3>1
  <2>1. PICK q \in Nat, r \in 0..(b - 1) : n \div b = q /\ n % b = r
    BY RadixDivides
  <2>2. g[q] \in Seq(Nat) /\ r \in Nat
    OBVIOUS
  <2>3. \A t \in Seq(Nat) : Append(t, r) \in Seq(Nat)
    BY <2>2
  <2> QED BY <2>1, <2>2, <2>3
<1>2. base \in X /\ step \in [X \X Nat -> X]
  <2>1. base \in X
    OBVIOUS
  <2> HIDE DEF X, Once, base
  <2>2. step \in [X \X Nat -> X]
    BY <1>1
  <2> QED BY <2>1, <2>2
<1>3. PICK g : Recurs(g, X, base, step)
  <2> HIDE DEF X, base, step
  <2> QED BY <1>2, RecursionExists
<1>4. \A t \in Nat : g[t] \in X /\ g[t + 1] = Once(g[t])
  BY <1>3 DEF Recurs
<1> HIDE DEF step
<1> DEFINE Same(t) == \A n \in 0..t : g[t + 1][n] = g[t][n]
           S == {t \in Nat : Same(t)}
<1>5. \A t \in Nat : \A n \in Nat : g[t + 1][n] = IF n < b THEN <<n>>
                                     ELSE Append(g[t][n \div b], n % b)
  BY <1>4
<1>6. 0 \in S
  <2>1. 0 < b
    OBVIOUS
  <2>2. g[0][0] = <<0>>
    BY <1>3 DEF Recurs
  <2>3. g[0 + 1][0] = <<0>>
    BY <1>5, <2>1
  <2> QED BY <2>2, <2>3
<1>7. ASSUME NEW t \in Nat, t \in S PROVE t + 1 \in S
  <2> SUFFICES ASSUME NEW n \in 0..(t + 1) PROVE g[(t + 1) + 1][n] = g[t + 1][n]
    OBVIOUS
  <2>0. n \in Nat /\ t + 1 \in Nat
    OBVIOUS
  <2>1. CASE n < b
    <3>1. g[(t + 1) + 1][n] = <<n>> /\ g[t + 1][n] = <<n>>
      BY <1>5, <2>0, <2>1
    <3> QED BY <3>1
  <2>2. CASE ~(n < b)
    <3>1. PICK q \in Nat, r \in 0..(b - 1) : n \div b = q /\ n % b = r /\ q < n
      BY <2>0, <2>2, RadixDivides
    <3>2. g[t + 1][q] = g[t][q]
      <4>1. q \in 0..t
        BY <3>1
      <4> QED BY <1>7, <4>1
    <3>3. g[(t + 1) + 1][n] = Append(g[t + 1][q], r)
      BY <1>5, <2>0, <2>2, <3>1
    <3>4. g[t + 1][n] = Append(g[t][q], r)
      BY <1>5, <2>0, <2>2, <3>1
    <3> QED BY <3>2, <3>3, <3>4
  <2> QED BY <2>1, <2>2
<1>8. \A t \in Nat : Same(t)
  <2>1. Nat \subseteq S
    <3> HIDE DEF S
    <3> QED BY <1>6, <1>7, NatStep
  <2> QED BY <2>1
<1> DEFINE f == [n \in Nat |-> g[n][n]]
<1>9. ASSUME NEW n \in Nat, NEW d \in Nat PROVE g[n + d][n] = g[n][n]
  <2> DEFINE T == {e \in Nat : g[n + e][n] = g[n][n]}
  <2>1. 0 \in T
    OBVIOUS
  <2>2. ASSUME NEW e \in Nat, e \in T PROVE e + 1 \in T
    <3>1. n + e \in Nat /\ n \in 0..(n + e) /\ n + (e + 1) = (n + e) + 1
      OBVIOUS
    <3>2. g[(n + e) + 1][n] = g[n + e][n]
      BY <1>8, <3>1
    <3> QED BY <2>2, <3>1, <3>2
  <2>3. Nat \subseteq T
    <3> HIDE DEF T
    <3> QED BY <2>1, <2>2, NatStep
  <2> QED BY <2>3
<1>10. ASSUME NEW n \in Nat
       PROVE  g[n][n] = IF n < b THEN <<n>> ELSE Append(f[n \div b], n % b)
  <2>1. CASE n < b
    <3>1. CASE n = 0
      BY <1>3, <2>1, <3>1 DEF Recurs
    <3>2. CASE n # 0
      <4>1. n - 1 \in Nat /\ (n - 1) + 1 = n
        BY <3>2
      <4>2. g[(n - 1) + 1][n] = <<n>>
        BY <1>5, <2>1, <4>1
      <4> QED BY <2>1, <4>1, <4>2
    <3> QED BY <3>1, <3>2
  <2>2. CASE ~(n < b)
    <3>1. PICK q \in Nat, r \in 0..(b - 1) : n \div b = q /\ n % b = r /\ q < n
      BY <2>2, RadixDivides
    <3>2. n - 1 \in Nat /\ (n - 1) + 1 = n /\ (n - 1) - q \in Nat /\ q + ((n - 1) - q) = n - 1
      BY <3>1
    <3>3. g[(n - 1) + 1][n] = Append(g[n - 1][q], r)
      BY <1>5, <2>2, <3>1, <3>2
    <3>4. g[n - 1][q] = g[q][q]
      BY <1>9, <3>2
    <3>5. f[q] = g[q][q]
      OBVIOUS
    <3> QED BY <2>2, <3>1, <3>2, <3>3, <3>4, <3>5
  <2> QED BY <2>1, <2>2
<1>11. DigitsOf(f, b)
  BY <1>10 DEF DigitsOf
<1>12. f \in [Nat -> Seq(Nat)]
  BY <1>4
<1> QED
  BY <1>11, <1>12

LEMMA DigitsChosen ==
    ASSUME NEW b \in Nat \ {0, 1}
    PROVE  DigitsOf(CHOOSE f : DigitsOf(f, b), b)
BY DigitsExist

LEMMA DigitsUnfold ==
    ASSUME NEW b \in Nat \ {0, 1}, NEW d, DigitsOf(d, b)
    PROVE  \A n \in Nat :
              /\ d[n] \in Seq(Nat)
              /\ d[n] = IF n < b THEN <<n>> ELSE Append(d[n \div b], n % b)
<1>2. PICK f \in [Nat -> Seq(Nat)] : DigitsOf(f, b)
  BY DigitsExist
<1>4. \A n \in Nat : d[n] = IF n < b THEN <<n>> ELSE Append(d[n \div b], n % b)
  BY DEF DigitsOf
<1>5. \A n \in Nat : f[n] = IF n < b THEN <<n>> ELSE Append(f[n \div b], n % b)
  BY <1>2 DEF DigitsOf
<1>6. \A n \in Nat : d[n] = f[n]
  <2> DEFINE S == {n \in Nat : d[n] # f[n]}
  <2> SUFFICES ASSUME S # {} PROVE FALSE
    OBVIOUS
  <2>1. PICK n \in S : \A m \in S : n <= m
    <3>1. S \subseteq Nat
      OBVIOUS
    <3> HIDE DEF S
    <3> QED BY <3>1, Least
  <2>2. n \in Nat /\ d[n] # f[n] /\ ~(n < b)
    BY <1>4, <1>5
  <2>3. PICK q \in Nat, r \in 0..(b - 1) : n \div b = q /\ n % b = r /\ q < n
    BY <2>2, RadixDivides
  <2>4. d[q] = f[q]
    <3>1. ~(n <= q)
      BY <2>2, <2>3
    <3>2. q \notin S
      BY <2>1, <3>1
    <3> QED BY <3>2
  <2>5. d[n] = Append(d[q], r) /\ f[n] = Append(f[q], r)
    BY <1>4, <1>5, <2>2, <2>3
  <2> QED BY <2>2, <2>4, <2>5
<1>7. \A n \in Nat : d[n] \in Seq(Nat)
  BY <1>2, <1>6
<1> QED
  BY <1>4, <1>7

\* s are digits in base b that come to n.
Numeral(s, b, n) ==
    /\ s \in Seq(Nat)
    /\ \A k \in 1..Len(s) : s[k] < b
    /\ \E v : Evaluates(v, s, b) /\ v[Len(s)] = n

LEMMA NumeralAppends ==
    ASSUME NEW b \in Nat \ {0, 1}, NEW t, NEW q \in Nat, Numeral(t, b, q),
           NEW r \in 0..(b - 1)
    PROVE  Numeral(Append(t, r), b, q * b + r)
<1> DEFINE s == Append(t, r)
<1>1. PICK w : Evaluates(w, t, b) /\ w[Len(t)] = q
  BY DEF Numeral
<1>2. /\ t \in Seq(Nat) /\ Len(t) \in Nat
      /\ \A k \in 1..Len(t) : t[k] < b
  BY DEF Numeral
<1>3. /\ s \in Seq(Nat) /\ Len(s) = Len(t) + 1 /\ s[Len(t) + 1] = r
      /\ \A k \in 1..Len(t) : s[k] = t[k]
  BY <1>2
<1> DEFINE v == [k \in 0..(Len(t) + 1) |-> IF k = Len(t) + 1 THEN q * b + r ELSE w[k]]
<1>4. /\ DOMAIN v = 0..(Len(t) + 1)
      /\ v[Len(t) + 1] = q * b + r
      /\ \A k \in 0..Len(t) : v[k] = w[k]
  BY <1>2
<1> HIDE DEF s, v
<1>5. ASSUME NEW k \in 1..Len(s)
      PROVE  s[k] < b /\ v[k] = v[k - 1] * b + s[k]
  <2>1. CASE k = Len(t) + 1
    <3>1. k - 1 = Len(t) /\ Len(t) \in 0..Len(t)
      BY <1>2, <2>1
    <3>2. v[k - 1] = q
      BY <1>1, <1>4, <3>1
    <3>3. v[k] = q * b + r /\ s[k] = r
      BY <1>3, <1>4, <2>1
    <3> QED BY <3>2, <3>3
  <2>2. CASE k # Len(t) + 1
    <3>1. k \in 1..Len(t) /\ k \in 0..Len(t) /\ k - 1 \in 0..Len(t)
      BY <1>2, <1>3, <2>2
    <3>2. w[k] = w[k - 1] * b + t[k]
      BY <1>1, <3>1 DEF Evaluates
    <3> QED BY <1>2, <1>3, <1>4, <3>1, <3>2
  <2> QED BY <2>1, <2>2
<1>6. v[0] = 0
  <2>1. 0 \in 0..Len(t)
    BY <1>2
  <2> QED BY <1>1, <1>4, <2>1 DEF Evaluates
<1>7. Evaluates(v, s, b) /\ v[Len(s)] = q * b + r
  BY <1>3, <1>4, <1>5, <1>6 DEF Evaluates
<1> QED
  BY <1>3, <1>5, <1>7 DEF Numeral, s

LEMMA DigitsMean ==
    ASSUME NEW b \in Nat \ {0, 1}, NEW d, DigitsOf(d, b)
    PROVE  \A n \in Nat : Numeral(d[n], b, n)
<1> DEFINE S == {n \in Nat : ~Numeral(d[n], b, n)}
<1> SUFFICES ASSUME S # {} PROVE FALSE
  OBVIOUS
<1>1. PICK n \in S : \A m \in S : n <= m
  <2>1. S \subseteq Nat
    OBVIOUS
  <2> HIDE DEF S
  <2> QED BY <2>1, Least
<1>2. n \in Nat /\ ~Numeral(d[n], b, n)
  OBVIOUS
<1>3. d[n] = IF n < b THEN <<n>> ELSE Append(d[n \div b], n % b)
  BY <1>2, DigitsUnfold
<1>4. CASE n < b
  <2> DEFINE s == <<n>>
             v == [k \in 0..1 |-> IF k = 0 THEN 0 ELSE n]
  <2>1. s \in Seq(Nat) /\ Len(s) = 1 /\ s[1] = n
    BY <1>2
  <2>2. v[0] = 0 /\ v[1] = n /\ DOMAIN v = 0..1
    BY <1>2
  <2> HIDE DEF s, v
  <2>3. \A k \in 1..1 : v[k] = v[k - 1] * b + s[k] /\ s[k] < b
    BY <1>2, <1>4, <2>1, <2>2
  <2>4. Evaluates(v, s, b) /\ v[Len(s)] = n
    BY <2>1, <2>2, <2>3 DEF Evaluates
  <2>5. Numeral(s, b, n)
    BY <2>1, <2>3, <2>4 DEF Numeral
  <2> QED BY <1>2, <1>3, <1>4, <2>5 DEF s
<1>5. CASE ~(n < b)
  <2>1. PICK q \in Nat, r \in 0..(b - 1) :
           n \div b = q /\ n % b = r /\ n = q * b + r /\ q < n
    BY <1>2, <1>5, RadixDivides
  <2>2. Numeral(d[q], b, q)
    BY <1>1, <1>2, <2>1
  <2>3. Numeral(Append(d[q], r), b, q * b + r)
    BY <2>2, NumeralAppends
  <2> QED BY <1>2, <1>3, <1>5, <2>1, <2>3
<1> QED
  BY <1>4, <1>5

\* Zeros in front change nothing.
LEMMA ZerosMean ==
    ASSUME NEW b \in Nat \ {0, 1}, NEW s, NEW n, Numeral(s, b, n), NEW z \in Nat
    PROVE  LET t == [k \in 1..z |-> 0] \o s
           IN  Numeral(t, b, n) /\ Len(t) = z + Len(s)
<1> DEFINE zeros == [k \in 1..z |-> 0]
           t == zeros \o s
<1>1. PICK w : Evaluates(w, s, b) /\ w[Len(s)] = n
  BY DEF Numeral
<1>2. /\ s \in Seq(Nat) /\ Len(s) \in Nat
      /\ \A k \in 1..Len(s) : s[k] < b
  BY DEF Numeral
<1>3. zeros \in Seq(Nat) /\ Len(zeros) = z /\ \A k \in 1..z : zeros[k] = 0
  OBVIOUS
<1>4. t = zeros \o s
  OBVIOUS
<1> HIDE DEF zeros, t
<1>5. t \in Seq(Nat) /\ Len(t) = z + Len(s)
      /\ (\A k \in 1..z : t[k] = 0) /\ (\A k \in 1..Len(s) : t[z + k] = s[k])
  <2>0. zeros \in Seq(Nat) /\ s \in Seq(Nat)
    BY <1>2, <1>3
  <2>1. /\ zeros \o s \in Seq(Nat) /\ Len(zeros \o s) = Len(zeros) + Len(s)
        /\ \A k \in 1..Len(zeros) : (zeros \o s)[k] = zeros[k]
        /\ \A k \in 1..Len(s) : (zeros \o s)[Len(zeros) + k] = s[k]
    BY <2>0, Joined
  <2> QED BY <1>3, <1>4, <2>1
<1> DEFINE v == [k \in 0..(z + Len(s)) |-> IF k <= z THEN 0 ELSE w[k - z]]
<1>6. /\ DOMAIN v = 0..(z + Len(s))
      /\ \A k \in 0..z : v[k] = 0
      /\ \A k \in 0..Len(s) : v[z + k] = w[k]
  <2>1. \A k \in 0..z : v[k] = 0
    BY <1>2
  <2>2. ASSUME NEW k \in 0..Len(s) PROVE v[z + k] = w[k]
    <3>1. z + k \in 0..(z + Len(s)) /\ (z + k <= z <=> k = 0) /\ (z + k) - z = k
      BY <1>2
    <3>2. w[0] = 0
      BY <1>1 DEF Evaluates
    <3> QED BY <3>1, <3>2
  <2> QED BY <2>1, <2>2
<1> HIDE DEF v
<1>7. ASSUME NEW k \in 1..(z + Len(s))
      PROVE  t[k] < b /\ v[k] = v[k - 1] * b + t[k]
  <2>1. CASE k <= z
    <3>1. k \in 0..z /\ k - 1 \in 0..z /\ k \in 1..z
      BY <1>2, <2>1
    <3>2. v[k] = 0 /\ v[k - 1] = 0 /\ t[k] = 0
      BY <1>5, <1>6, <3>1
    <3> QED BY <1>2, <3>2
  <2>2. CASE ~(k <= z)
    <3> DEFINE j == k - z
    <3>1. j \in 1..Len(s) /\ j \in 0..Len(s) /\ j - 1 \in 0..Len(s) /\ k = z + j
          /\ k - 1 = z + (j - 1)
      BY <1>2, <2>2
    <3> HIDE DEF j
    <3>2. v[k] = w[j] /\ v[k - 1] = w[j - 1] /\ t[k] = s[j]
      BY <1>5, <1>6, <3>1
    <3>3. w[j] = w[j - 1] * b + s[j] /\ s[j] < b
      BY <1>1, <1>2, <3>1 DEF Evaluates
    <3> QED BY <3>2, <3>3
  <2> QED BY <2>1, <2>2
<1>8. v[0] = 0 /\ v[Len(t)] = n
  <2>1. 0 \in 0..z /\ Len(s) \in 0..Len(s)
    BY <1>2
  <2> QED BY <1>1, <1>5, <1>6, <2>1
<1>9. Evaluates(v, t, b)
  BY <1>5, <1>6, <1>7, <1>8 DEF Evaluates
<1>10. Numeral(t, b, n)
  BY <1>5, <1>7, <1>8, <1>9 DEF Numeral
<1> QED
  BY <1>5, <1>10 DEF t, zeros

\* What some digits come to is determined.
LEMMA ReadingsAgree ==
    ASSUME NEW b \in Nat, NEW s \in Seq(Nat), NEW v, NEW w, Evaluates(v, s, b), Evaluates(w, s, b)
    PROVE  v[Len(s)] = w[Len(s)]
<1> DEFINE S == {k \in Nat : k <= Len(s) => v[k] = w[k]}
<1>1. 0 \in S
  BY DEF Evaluates
<1>2. ASSUME NEW k \in Nat, k \in S PROVE k + 1 \in S
  <2> SUFFICES ASSUME k + 1 <= Len(s) PROVE v[k + 1] = w[k + 1]
    OBVIOUS
  <2>1. k + 1 \in 1..Len(s) /\ (k + 1) - 1 = k /\ k <= Len(s)
    OBVIOUS
  <2>2. v[k + 1] = v[k] * b + s[k + 1] /\ w[k + 1] = w[k] * b + s[k + 1]
    BY <2>1 DEF Evaluates
  <2>3. v[k] = w[k]
    BY <1>2, <2>1
  <2> QED BY <2>2, <2>3
<1>3. Nat \subseteq S
  <2> HIDE DEF S
  <2> QED BY <1>1, <1>2, NatStep
<1>4. Len(s) \in S
  <2> HIDE DEF S
  <2> QED BY <1>3
<1> QED
  BY <1>4

LEMMA NumeralUnique ==
    ASSUME NEW b \in Nat \ {0, 1}, NEW s, NEW m, NEW n, Numeral(s, b, m), Numeral(s, b, n)
    PROVE  m = n
<1>1. PICK v : Evaluates(v, s, b) /\ v[Len(s)] = m
  BY DEF Numeral
<1>2. PICK w : Evaluates(w, s, b) /\ w[Len(s)] = n
  BY DEF Numeral
<1>3. s \in Seq(Nat)
  BY DEF Numeral
<1>4. v[Len(s)] = w[Len(s)]
  BY <1>1, <1>2, <1>3, ReadingsAgree
<1> QED
  BY <1>1, <1>2, <1>4

LEMMA EvaluatesType ==
    ASSUME NEW b \in Nat, NEW s \in Seq(Nat), NEW v, Evaluates(v, s, b)
    PROVE  \A k \in 0..Len(s) : v[k] \in Nat
<1> DEFINE S == {k \in Nat : k <= Len(s) => v[k] \in Nat}
<1>1. 0 \in S
  BY DEF Evaluates
<1>2. ASSUME NEW k \in Nat, k \in S PROVE k + 1 \in S
  <2> SUFFICES ASSUME k + 1 <= Len(s) PROVE v[k + 1] \in Nat
    OBVIOUS
  <2>1. k + 1 \in 1..Len(s) /\ (k + 1) - 1 = k /\ k <= Len(s)
    OBVIOUS
  <2>2. v[k + 1] = v[k] * b + s[k + 1] /\ s[k + 1] \in Nat
    BY <2>1 DEF Evaluates
  <2>3. v[k] \in Nat
    BY <1>2, <2>1
  <2>4. v[k] * b \in Nat
    BY <2>3
  <2> QED BY <2>2, <2>4
<1>3. Nat \subseteq S
  <2> HIDE DEF S
  <2> QED BY <1>1, <1>2, NatStep
<1> QED
  BY <1>3

LEMMA Scales ==
    ASSUME NEW b \in Nat, NEW p \in Nat, NEW q \in Nat, p + 1 <= q
    PROVE  p * b + b <= q * b
<1> DEFINE e == q - (p + 1)
<1>1. e \in Nat /\ q = p + 1 + e
  OBVIOUS
<1> HIDE DEF e
<1>2. q * b = (p + 1 + e) * b
  BY <1>1
<1>3. (p + 1 + e) * b = p * b + b + e * b
  BY <1>1
<1>4. e * b \in Nat /\ p * b \in Nat
  BY <1>1
<1> QED
  BY <1>2, <1>3, <1>4

LEMMA StaysBelow ==
    ASSUME NEW b \in Nat, NEW p \in Nat, NEW q \in Nat, p + 1 <= q,
           NEW c \in Nat, NEW d \in Nat, c < b
    PROVE  p * b + c + 1 <= q * b + d
<1> DEFINE x == p * b
           y == q * b
<1>1. x \in Nat /\ y \in Nat /\ x + b <= y
  BY Scales
<1> HIDE DEF x, y
<1>2. x + c + 1 <= y + d
  BY <1>1
<1> QED
  BY <1>2 DEF x, y

\* Of two numerals of one length, the one with the smaller digit where they
\* first differ comes to less.
LEMMA NumeralOrder ==
    ASSUME NEW b \in Nat \ {0, 1}, NEW s, NEW t, NEW m, NEW n,
           Numeral(s, b, m), Numeral(t, b, n), Len(s) = Len(t),
           NEW k \in 1..Len(s), s[k] < t[k], \A j \in 1..(k - 1) : s[j] = t[j]
    PROVE  m < n
<1>1. PICK v : Evaluates(v, s, b) /\ v[Len(s)] = m
  BY DEF Numeral
<1>2. PICK w : Evaluates(w, t, b) /\ w[Len(t)] = n
  BY DEF Numeral
<1>3. /\ s \in Seq(Nat) /\ t \in Seq(Nat) /\ Len(s) \in Nat
      /\ \A j \in 1..Len(s) : s[j] \in Nat /\ t[j] \in Nat /\ s[j] < b
  BY DEF Numeral
<1>4. \A j \in 0..Len(s) : v[j] \in Nat /\ w[j] \in Nat
  <2>1. \A j \in 0..Len(s) : v[j] \in Nat
    BY <1>1, <1>3, EvaluatesType
  <2>2. \A j \in 0..Len(t) : w[j] \in Nat
    BY <1>2, <1>3, EvaluatesType
  <2> QED BY <2>1, <2>2
<1>5. ASSUME NEW j \in Nat, j + 1 <= Len(s)
      PROVE  /\ v[j + 1] = v[j] * b + s[j + 1]
             /\ w[j + 1] = w[j] * b + t[j + 1]
             /\ v[j] \in Nat /\ w[j] \in Nat
             /\ s[j + 1] \in Nat /\ t[j + 1] \in Nat /\ s[j + 1] < b
  <2>1. j + 1 \in 1..Len(s) /\ (j + 1) - 1 = j /\ j \in 0..Len(s)
    BY <1>3, <1>5
  <2> QED BY <1>1, <1>2, <1>3, <1>4, <2>1 DEF Evaluates
<1> DEFINE S == {j \in Nat : j <= Len(s) =>
                   IF j < k THEN v[j] = w[j] ELSE v[j] + 1 <= w[j]}
<1>6. 0 \in S
  BY <1>1, <1>2 DEF Evaluates
<1>7. ASSUME NEW j \in Nat, j \in S PROVE j + 1 \in S
  <2> SUFFICES ASSUME j + 1 <= Len(s)
               PROVE  IF j + 1 < k THEN v[j + 1] = w[j + 1] ELSE v[j + 1] + 1 <= w[j + 1]
    OBVIOUS
  <2>1. j <= Len(s)
    BY <1>3
  <2>2. /\ v[j + 1] = v[j] * b + s[j + 1]
        /\ w[j + 1] = w[j] * b + t[j + 1]
        /\ v[j] \in Nat /\ w[j] \in Nat
        /\ s[j + 1] \in Nat /\ t[j + 1] \in Nat /\ s[j + 1] < b
    BY <1>5
  <2>3. CASE j + 1 < k
    <3>1. v[j] = w[j] /\ s[j + 1] = t[j + 1]
      BY <1>7, <2>1, <2>3
    <3> QED BY <2>2, <2>3, <3>1
  <2>4. CASE j + 1 = k
    <3>1. v[j] = w[j] /\ s[j + 1] < t[j + 1]
      BY <1>7, <2>1, <2>4
    <3> DEFINE x == v[j] * b
    <3>2. x \in Nat /\ v[j + 1] = x + s[j + 1] /\ w[j + 1] = x + t[j + 1]
      BY <2>2, <3>1
    <3> HIDE DEF x
    <3> QED BY <2>2, <2>4, <3>1, <3>2
  <2>5. CASE k < j + 1
    <3>1. v[j] + 1 <= w[j]
      BY <1>7, <2>1, <2>5
    <3>3. v[j] * b + s[j + 1] + 1 <= w[j] * b + t[j + 1]
      BY <2>2, <3>1, StaysBelow
    <3>4. v[j + 1] + 1 <= w[j + 1]
      BY <2>2, <3>3
    <3>5. ~(j + 1 < k)
      BY <2>5
    <3> QED BY <3>4, <3>5
  <2> QED BY <2>3, <2>4, <2>5
<1>8. Nat \subseteq S
  <2> HIDE DEF S
  <2> QED BY <1>6, <1>7, NatStep
<1>9. Len(s) \in S
  <2> HIDE DEF S
  <2> QED BY <1>3, <1>8
<1>10. v[Len(s)] + 1 <= w[Len(s)]
  BY <1>3, <1>9
<1>11. Len(s) \in 0..Len(s)
  BY <1>3
<1>12. v[Len(s)] \in Nat /\ w[Len(s)] \in Nat
  BY <1>4, <1>11
<1> QED
  BY <1>1, <1>2, <1>10, <1>12

=============================================================================
