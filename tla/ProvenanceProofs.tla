-------------------------- MODULE ProvenanceProofs --------------------------
(***************************************************************************)
(* Theorems about tools/hash_file.py, for any files, any canonical rate,   *)
(* floats of any precision and any number of replacements.                 *)
(***************************************************************************)
EXTENDS Provenance, InductionLemmas

-----------------------------------------------------------------------------
(* What a report says of a file that stayed in place.                      *)

\* The steps of main at which a field of the report is known.
AfterHash == {"stat", "header", "decide", "reported", "mismatch"}
AfterStat == {"header", "decide", "reported", "mismatch"}

\* What was seen so far was seen of the file that is still there.
SeenIsOnDisk ==
    /\ run.at \in {"idle", "hash"} => seen = Nothing
    /\ run.at \in AfterHash => "sha256" \in DOMAIN seen
    /\ run.at \in AfterStat => "size_bytes" \in DOMAIN seen
    /\ run.at \in {"stat", "header"} => "frames" \notin DOMAIN seen
    /\ stable /\ run.at \in AfterHash =>
          /\ disk # Absent
          /\ seen["sha256"] = disk
          /\ "frames" \in DOMAIN seen => seen["frames"] = disk.frames
    /\ stable /\ run.at \in AfterStat => seen["size_bytes"] = disk.size
    /\ stable /\ run.at = "reported" => run.expected \subseteq {disk}
    /\ stable /\ run.at = "mismatch" => ~(run.expected \subseteq {disk})

\* A run is a record with a place, and once invoked what it was asked.
Asked ==
    \/ run = [at |-> "idle"]
    \/ run = [at |-> run.at, container |-> run.container, expected |-> run.expected]

LEMMA SeenInit == Init => SeenIsOnDisk /\ Asked
BY DEF Init, SeenIsOnDisk, Asked, AfterHash, AfterStat

LEMMA SeenSteps == SeenIsOnDisk /\ Asked /\ [Next]_vars => (SeenIsOnDisk /\ Asked)'
<1> SUFFICES ASSUME SeenIsOnDisk, Asked, [Next]_vars PROVE (SeenIsOnDisk /\ Asked)'
  OBVIOUS
<1> USE DEF SeenIsOnDisk, Asked, AfterHash, AfterStat, Goto
<1>1. ASSUME NEW c, NEW x, Invoke(c, x) PROVE (SeenIsOnDisk /\ Asked)'
  BY <1>1 DEF Invoke
<1>2. CASE Hash
  BY <1>2 DEF Hash, Also, Nothing
<1>3. CASE Stat
  BY <1>3 DEF Stat, Also
<1>4. CASE Header
  <2>1. CASE disk = Absent \/ disk.kind # "wav"
    <3>1. /\ run.at = "header" /\ seen' = seen /\ disk' = disk /\ stable' = stable
          /\ \/ run' = [run EXCEPT !.at = "failed"]
             \/ run' = [run EXCEPT !.at = "decide"]
      BY <1>4, <2>1 DEF Header
    <3> QED BY <3>1
  <2>2. CASE disk # Absent /\ disk.kind = "wav"
    <3>1. run.at = "header" /\ run' = [run EXCEPT !.at = "decide"]
          /\ disk' = disk /\ stable' = stable
      BY <1>4, <2>2 DEF Header
    <3>2. /\ {"sha256", "size_bytes", "frames"} \subseteq DOMAIN seen'
          /\ seen'["sha256"] = seen["sha256"]
          /\ seen'["size_bytes"] = seen["size_bytes"]
          /\ seen'["frames"] = disk.frames
      BY <1>4, <2>2 DEF Header, Fields
    <3>3. run'.at = "decide"
      BY <3>1
    <3> QED BY <3>1, <3>2, <3>3
  <2> QED BY <2>1, <2>2
<1>5. CASE Decide
  BY <1>5 DEF Decide
<1>6. CASE Exit
  BY <1>6 DEF Exit
<1>7. ASSUME NEW f, Replace(f) PROVE (SeenIsOnDisk /\ Asked)'
  BY <1>7 DEF Replace
<1>8. CASE UNCHANGED vars
  BY <1>8 DEF vars
<1> QED
  BY <1>1, <1>2, <1>3, <1>4, <1>5, <1>6, <1>7, <1>8 DEF Next

\* A report printed while the file stayed in place is that of one file, and a
\* mismatch is one.
THEOREM ReportsOneFile == Spec => []ReportIsOfOneFile
<1>1. SeenIsOnDisk => ReportIsOfOneFile
  BY DEF SeenIsOnDisk, ReportIsOfOneFile, AfterHash, AfterStat
<1> QED
  BY <1>1, SeenInit, SeenSteps, PTL DEF Spec

-----------------------------------------------------------------------------
(* Powers of two.                                                          *)

\* The recursive definition of Two has a solution.
LEMMA TwoUnfolds ==
    Two = [k \in Nat |-> IF k = 0 THEN 1 ELSE 2 * Two[k - 1]]
<1> DEFINE step == [a \in Nat \X Nat |-> 2 * a[1]]
           Solves(f) == f = [k \in Nat |-> IF k = 0 THEN 1 ELSE 2 * f[k - 1]]
<1>1. step \in [Nat \X Nat -> Nat]
  OBVIOUS
<1>2. PICK f : Recurs(f, Nat, 1, step)
  <2>1. 1 \in Nat
    OBVIOUS
  <2> HIDE DEF step
  <2> QED BY <1>1, <2>1, RecursionExists
<1>3. ASSUME NEW k \in Nat, k # 0 PROVE f[k] = 2 * f[k - 1]
  <2>1. k - 1 \in Nat /\ (k - 1) + 1 = k
    BY <1>3
  <2>2. f[k] = step[<<f[k - 1], k - 1>>] /\ f[k - 1] \in Nat
    BY <1>2, <2>1 DEF Recurs
  <2> QED BY <2>1, <2>2
<1>4. Solves(f)
  <2>1. \A k \in Nat : f[k] = IF k = 0 THEN 1 ELSE 2 * f[k - 1]
    BY <1>2, <1>3 DEF Recurs
  <2> QED BY <1>2, <2>1 DEF Recurs
<1>5. Two = CHOOSE f1 : Solves(f1)
  BY DEF Two
<1> HIDE DEF Solves
<1>6. Solves(Two)
  BY <1>4, <1>5
<1> QED
  BY <1>6 DEF Solves

LEMMA TwoNext ==
    /\ Two[0] = 1
    /\ \A k \in Nat : Two[k + 1] = 2 * Two[k]
<1>1. Two[0] = 1
  BY TwoUnfolds
<1>2. ASSUME NEW k \in Nat PROVE Two[k + 1] = 2 * Two[k]
  <2>1. k + 1 \in Nat /\ k + 1 # 0 /\ (k + 1) - 1 = k
    OBVIOUS
  <2> QED BY <2>1, TwoUnfolds
<1> QED
  BY <1>1, <1>2

LEMMA TwoType == \A k \in Nat : Two[k] \in Nat \ {0}
<1> DEFINE S == {k \in Nat : Two[k] \in Nat \ {0}}
<1>1. 0 \in S
  BY TwoNext
<1>2. ASSUME NEW k \in Nat, k \in S PROVE k + 1 \in S
  BY <1>2, TwoNext
<1>3. Nat \subseteq S
  <2> HIDE DEF S
  <2> QED BY <1>1, <1>2, NatStep
<1> QED
  BY <1>3

LEMMA TwoAdds ==
    ASSUME NEW a \in Nat, NEW b \in Nat PROVE Two[a + b] = Two[a] * Two[b]
<1> DEFINE S == {k \in Nat : Two[a + k] = Two[a] * Two[k]}
<1>1. 0 \in S
  BY TwoNext, TwoType
<1>2. ASSUME NEW k \in Nat, k \in S PROVE k + 1 \in S
  <2>1. Two[a + k] \in Nat /\ Two[a] \in Nat /\ Two[k] \in Nat /\ Two[a + k] = Two[a] * Two[k]
    BY <1>2, TwoType
  <2>2. Two[k + 1] = 2 * Two[k]
    BY TwoNext
  <2>3. a + (k + 1) = (a + k) + 1 /\ a + k \in Nat
    OBVIOUS
  <2>4. Two[a + (k + 1)] = 2 * Two[a + k]
    BY <2>3, TwoNext
  <2>5. 2 * (Two[a] * Two[k]) = Two[a] * (2 * Two[k])
    BY <2>1
  <2> QED BY <2>1, <2>2, <2>4, <2>5
<1>3. Nat \subseteq S
  <2> HIDE DEF S
  <2> QED BY <1>1, <1>2, NatStep
<1> QED
  BY <1>3

\* The power of two by which x, less than y, reaches y without reaching 2 * y.
LEMMA Scaling ==
    ASSUME NEW x \in Nat, NEW y \in Nat, x < y, NEW limit \in Nat, y <= x * Two[limit]
    PROVE  \E k \in 1..limit : y <= x * Two[k] /\ x * Two[k] < 2 * y
<1> DEFINE S == {k \in Nat : y <= x * Two[k]}
<1>1. PICK k \in S : \A m \in S : k <= m
  <2>1. limit \in S
    OBVIOUS
  <2>2. S \subseteq Nat /\ S # {}
    BY <2>1
  <2> HIDE DEF S
  <2> QED BY <2>2, Least
<1>2. k <= limit
  BY <1>1
<1>3. k # 0
  BY <1>1, TwoNext
<1>4. k - 1 \in Nat /\ (k - 1) + 1 = k /\ k - 1 \notin S
  BY <1>1, <1>3
<1>5. Two[k] = 2 * Two[k - 1] /\ Two[k - 1] \in Nat
  BY <1>4, TwoNext, TwoType
<1>6. x * Two[k - 1] < y
  BY <1>4, <1>5
<1>7. x * Two[k] = 2 * (x * Two[k - 1]) /\ x * Two[k - 1] \in Nat
  BY <1>5
<1> QED
  BY <1>1, <1>2, <1>3, <1>6, <1>7

-----------------------------------------------------------------------------
(* Rounding.                                                               *)

\* The nearest integer is no further than one half from the fraction.
LEMMA NearestIsNear ==
    ASSUME NEW n \in Nat, NEW d \in Nat \ {0}
    PROVE  /\ HalfEven(n, d) \in Nat
           /\ 2 * (HalfEven(n, d) * d) <= 2 * n + d
           /\ 2 * n <= 2 * (HalfEven(n, d) * d) + d
<1> DEFINE q == n \div d
           r == n % d
<1>1. q \in Nat /\ r \in 0..(d - 1) /\ n = q * d + r
  OBVIOUS
<1>2. HalfEven(n, d) = IF 2 * r > d \/ (2 * r = d /\ q % 2 = 1) THEN q + 1 ELSE q
  BY DEF HalfEven
<1> HIDE DEF q, r
<1>3. CASE HalfEven(n, d) = q /\ 2 * r <= d
  BY <1>1, <1>3
<1>4. CASE HalfEven(n, d) = q + 1 /\ 2 * r >= d
  <2>1. (q + 1) * d = q * d + d /\ q * d \in Nat
    BY <1>1
  <2> QED BY <1>1, <1>4, <2>1
<1> QED
  BY <1>1, <1>2, <1>3, <1>4

\* A common factor cancels.
LEMMA Cancels ==
    ASSUME NEW a \in Int, NEW b \in Int, NEW d \in Nat \ {0}, a * d < b * d
    PROVE  a < b
<1> SUFFICES ASSUME b <= a PROVE b * d <= a * d
  OBVIOUS
<1>1. PICK x \in Nat : a = b + x
  <2>1. a - b \in Nat /\ a = b + (a - b)
    OBVIOUS
  <2> QED BY <2>1
<1>2. a * d = b * d + x * d /\ x * d \in Nat
  BY <1>1
<1> QED
  BY <1>2

\* Cutting off what is less than t * (x + 1), and by at most t less than t * x.
LEMMA CutOff ==
    ASSUME NEW y \in Nat, NEW x \in Nat, NEW t \in Nat \ {0},
           y < t * (x + 1), t * x <= y + t
    PROVE  y \div t \in {x - 1, x}
<1> DEFINE w == y \div t
           r == y % t
<1>1. w \in Nat /\ r \in 0..(t - 1) /\ y = w * t + r
  OBVIOUS
<1> HIDE DEF w, r
<1>2. w * t < (x + 1) * t
  BY <1>1
<1>3. w < x + 1
  BY <1>1, <1>2, Cancels
<1>4. x * t < (w + 2) * t
  <2>1. (w + 2) * t = w * t + 2 * t
    BY <1>1
  <2> QED BY <1>1, <2>1
<1>5. x < w + 2
  BY <1>1, <1>4, Cancels
<1>6. w \in {x - 1, x}
  BY <1>1, <1>3, <1>5
<1> QED
  BY <1>6 DEF w

\* y/t is less than 1/d away from n/d: so their integral parts differ by one at
\* the most, and that of y/t is not the greater.
LEMMA CloseEnough ==
    ASSUME NEW n \in Nat, NEW d \in Nat \ {0}, NEW t \in Nat \ {0}, NEW y \in Nat,
           y * d < n * t + t, n * t < y * d + t
    PROVE  /\ y < t * (n \div d + 1)
           /\ t * (n \div d) <= y + t
<1> DEFINE x == n \div d
           r == n % d
<1>1. x \in Nat /\ r \in 0..(d - 1) /\ n = x * d + r
  OBVIOUS
<1> HIDE DEF x, r
<1>2. y < t * (x + 1)
  <2>1. n * t + t <= (t * (x + 1)) * d
    <3>1. PICK s \in Nat : n + 1 + s = (x + 1) * d
      <4>1. (x + 1) * d = x * d + d
        BY <1>1
      <4>2. (x + 1) * d - (n + 1) \in Nat
        BY <1>1, <4>1
      <4> QED BY <4>2, <1>1
    <3>2. (n + 1 + s) * t = n * t + t + s * t /\ s * t \in Nat
      OBVIOUS
    <3>3. ((x + 1) * d) * t = (t * (x + 1)) * d
      BY <1>1
    <3> QED BY <3>1, <3>2, <3>3, <1>1
  <2>2. y * d < (t * (x + 1)) * d /\ t * (x + 1) \in Nat
    BY <2>1, <1>1
  <2> QED BY <2>2, Cancels
<1>3. t * x < y + t + 1
  <2>1. (t * x) * d <= n * t
    <3>1. (x * d + r) * t = (x * d) * t + r * t /\ r * t \in Nat
      BY <1>1
    <3>2. (x * d) * t = (t * x) * d
      BY <1>1
    <3> QED BY <3>1, <3>2, <1>1
  <2>2. (y + t + 1) * d = y * d + t * d + d /\ t <= t * d
    <3>1. PICK e \in Nat : d = e + 1
      <4>1. d - 1 \in Nat
        OBVIOUS
      <4> QED BY <4>1
    <3>2. t * (e + 1) = t * e + t /\ t * e \in Nat
      OBVIOUS
    <3> QED BY <3>1, <3>2
  <2>3. (t * x) * d < (y + t + 1) * d
    BY <2>1, <2>2, <1>1
  <2>4. t * x \in Int /\ y + t + 1 \in Int
    BY <1>1
  <2> QED BY <2>3, <2>4, Cancels
<1>4. t * x \in Int
  BY <1>1
<1> QED
  BY <1>2, <1>3, <1>4 DEF x

Half == Two[Precision - 1]

LEMMA HalfType == Half \in Nat \ {0} /\ Two[Precision] = 2 * Half
<1>1. Precision - 1 \in Nat /\ (Precision - 1) + 1 = Precision
  BY ProvenanceAssumption
<1> QED
  BY <1>1, TwoNext, TwoType DEF Half

\* Factors order products.
LEMMA Multiplies ==
    ASSUME NEW a \in Nat, NEW b \in Nat, a <= b, NEW c \in Nat
    PROVE  a * c <= b * c
<1>1. PICK x \in Nat : b = a + x
  <2>1. b - a \in Nat /\ b = a + (b - a)
    OBVIOUS
  <2> QED BY <2>1
<1>2. b * c = a * c + x * c /\ x * c \in Nat
  BY <1>1
<1> QED
  BY <1>2

-----------------------------------------------------------------------------
(* The two roundings of canonical_samples.                                 *)

\* Seconds: a significand m and an exponent -k, with k > 0, and m at most half
\* away from n * 2^k / d.
Quotient(n, d, m, k) ==
    /\ k \in Nat \ {0} /\ m \in Nat /\ m <= Two[Precision]
    /\ Divide(n, d) = [m |-> m, e |-> -k]
    /\ d * Half <= n * Two[k]
    /\ 2 * (m * d) <= 2 * (n * Two[k]) + d
    /\ 2 * (n * Two[k]) <= 2 * (m * d) + d

LEMMA DivideIsNear ==
    ASSUME NEW n \in Nat \ {0}, NEW d \in Nat \ {0}, n < Half, d < Two[Precision]
    PROVE  \E m, k : Quotient(n, d, m, k)
<1> DEFINE Fits(k) == /\ d * Two[Precision - 1] <= n * Two[k]
                      /\ n * Two[k] < d * Two[Precision]
           k == CHOOSE k \in 0..2 * Precision : Fits(k)
<1>1. /\ Precision \in Nat /\ 2 * Precision \in Nat
      /\ Two[Precision] \in Nat /\ Two[2 * Precision] \in Nat
  BY ProvenanceAssumption, TwoType
<1>2. \E i \in 0..2 * Precision : i # 0 /\ Fits(i)
  <2>1. d * Half \in Nat /\ n < d * Half
    <3>1. 1 * Half <= d * Half /\ d * Half \in Nat
      BY HalfType, Multiplies
    <3> QED BY <3>1, HalfType
  <2>2. d * Half <= n * Two[2 * Precision]
    <3>1. Two[2 * Precision] = Two[Precision] * Two[Precision]
      <4>1. 2 * Precision = Precision + Precision
        BY <1>1
      <4> QED BY <1>1, <4>1, TwoAdds
    <3>2. d * Half <= Two[Precision] * Half
      BY <1>1, HalfType, Multiplies
    <3>3. Half * Two[Precision] <= Two[Precision] * Two[Precision]
      BY <1>1, HalfType, Multiplies
    <3>4. Two[Precision] * Half = Half * Two[Precision]
      BY <1>1, HalfType
    <3>5. 1 * Two[2 * Precision] <= n * Two[2 * Precision]
      BY <1>1, Multiplies
    <3>6. n * Two[2 * Precision] \in Nat /\ Two[Precision] * Half \in Nat
      BY <1>1, HalfType
    <3> QED BY <1>1, <2>1, <3>1, <3>2, <3>3, <3>4, <3>5, <3>6
  <2>3. PICK i \in 1..2 * Precision :
           d * Half <= n * Two[i] /\ n * Two[i] < 2 * (d * Half)
    BY <1>1, <2>1, <2>2, Scaling
  <2>4. 2 * (d * Half) = d * Two[Precision]
    BY HalfType
  <2>5. i \in 0..2 * Precision /\ i # 0 /\ Fits(i)
    BY <1>1, <2>3, <2>4 DEF Half
  <2> HIDE DEF Fits
  <2> QED BY <2>5
<1>3. k \in 0..2 * Precision /\ Fits(k)
  <2> HIDE DEF Fits
  <2> QED BY <1>2
<1>4. Divide(n, d) = [m |-> HalfEven(n * Two[k], d), e |-> -k]
  BY DEF Divide
<1> HIDE DEF k
<1>5. k \in Nat /\ Two[k] \in Nat /\ n * Two[k] \in Nat
  BY <1>1, <1>3, TwoType
<1>6. k # 0
  <2>1. 1 * Half <= d * Half
    BY HalfType, Multiplies
  <2> QED BY <1>3, <1>5, <2>1, HalfType, TwoNext DEF Half
<1> DEFINE m == HalfEven(n * Two[k], d)
<1>7. /\ m \in Nat
      /\ 2 * (m * d) <= 2 * (n * Two[k]) + d
      /\ 2 * (n * Two[k]) <= 2 * (m * d) + d
  BY <1>5, NearestIsNear
<1>8. m <= Two[Precision]
  <2> HIDE DEF m
  <2>1. (Two[Precision] + 1) * d = d * Two[Precision] + d /\ m * d \in Nat
    BY <1>1, <1>7
  <2>2. m * d < (Two[Precision] + 1) * d
    BY <1>1, <1>3, <1>5, <1>7, <2>1
  <2>3. m < Two[Precision] + 1
    BY <1>1, <1>7, <2>2, Cancels
  <2> QED BY <1>1, <1>7, <2>3
<1> HIDE DEF m
<1>9. Quotient(n, d, m, k)
  BY <1>3, <1>4, <1>5, <1>6, <1>7, <1>8 DEF Quotient, Half, m
<1> QED
  BY <1>9

\* The product with c, rounded again: a significand w and an exponent j - k,
\* j = 0 if nothing is rounded.
Product(m, k, c, w, j) ==
    /\ j \in Nat /\ w \in Nat
    /\ Multiply([m |-> m, e |-> -k], c) = [m |-> w, e |-> j - k]
    /\ \/ j = 0 /\ w = m * c
       \/ /\ Half * Two[j] <= m * c
          /\ 2 * (w * Two[j]) <= 2 * (m * c) + Two[j]
          /\ 2 * (m * c) <= 2 * (w * Two[j]) + Two[j]

\* Division by a power of two, as the choice of an exponent tests it.
LEMMA QuotientBounds ==
    ASSUME NEW a \in Nat, NEW t \in Nat \ {0}, NEW h \in Nat, h * t <= a, a < (2 * h) * t
    PROVE  h <= a \div t /\ a \div t < 2 * h
<1> DEFINE q == a \div t
           r == a % t
<1>1. q \in Nat /\ r \in 0..(t - 1) /\ a = q * t + r
  OBVIOUS
<1> HIDE DEF q, r
<1>2. q * t < (2 * h) * t
  BY <1>1
<1>3. h * t < (q + 1) * t
  <2>1. (q + 1) * t = q * t + t
    BY <1>1
  <2> QED BY <1>1, <2>1
<1>4. q < 2 * h /\ h < q + 1
  BY <1>1, <1>2, <1>3, Cancels
<1> QED
  BY <1>1, <1>4 DEF q

LEMMA DivisionBounds ==
    ASSUME NEW a \in Nat, NEW t \in Nat \ {0}, NEW h \in Nat, h <= a \div t
    PROVE  h * t <= a
<1> DEFINE q == a \div t
           r == a % t
<1>1. q \in Nat /\ r \in 0..(t - 1) /\ a = q * t + r
  OBVIOUS
<1> HIDE DEF q, r
<1>2. h * t <= q * t /\ q * t \in Nat /\ h * t \in Nat
  <2>1. h <= q
    BY DEF q
  <2> QED BY <1>1, <2>1, Multiplies
<1> QED
  BY <1>1, <1>2

LEMMA MultiplyIsNear ==
    ASSUME NEW m \in Nat, NEW k \in Nat, NEW c \in Nat, m * c < Half * Two[Precision]
    PROVE  \E w, j : Product(m, k, c, w, j)
<1> DEFINE f == [m |-> m, e |-> -k]
           a == m * c
<1>1. a \in Nat /\ f.m * c = a /\ f.e = -k
  OBVIOUS
<1>p. Precision \in Nat /\ Two[Precision] \in Nat
  BY ProvenanceAssumption, TwoType
<1> HIDE DEF f, a
<1>2. CASE a < Two[Precision]
  <2>1. Multiply(f, c) = [m |-> a, e |-> 0 - k]
    BY <1>1, <1>2 DEF Multiply
  <2>2. Product(m, k, c, a, 0)
    BY <1>1, <2>1 DEF Product, f, a
  <2> QED BY <2>2
<1>3. CASE Two[Precision] <= a
  <2> DEFINE Fits(i) == /\ Two[Precision - 1] <= a \div Two[i]
                        /\ a \div Two[i] < Two[Precision]
             j == CHOOSE i \in 0..Precision : Fits(i)
  <2>1. \E i \in 0..Precision : Fits(i)
    <3> DEFINE S == {i \in Nat : a < Two[Precision] * Two[i]}
    <3>0. PICK i \in S : \A o \in S : i <= o
      <4>1. Precision \in S
        <5>1. Half * Two[Precision] <= Two[Precision] * Two[Precision]
          BY <1>p, HalfType, Multiplies
        <5>2. Half * Two[Precision] \in Nat /\ Two[Precision] * Two[Precision] \in Nat
          BY <1>p, HalfType
        <5> QED BY <1>1, <1>p, <5>1, <5>2 DEF a
      <4> HIDE DEF S
      <4>2. S \subseteq Nat
        BY DEF S
      <4> QED BY <4>1, <4>2, Least
    <3>1. i <= Precision
      <4>1. Half * Two[Precision] <= Two[Precision] * Two[Precision]
        BY <1>p, HalfType, Multiplies
      <4>2. Half * Two[Precision] \in Nat /\ Two[Precision] * Two[Precision] \in Nat
        BY <1>p, HalfType
      <4>3. Precision \in S
        BY <1>1, <1>p, <4>1, <4>2 DEF a
      <4> QED BY <3>0, <4>3
    <3>2. i # 0
      BY <1>1, <1>3, <1>p, <3>0, TwoNext
    <3>3. i - 1 \in Nat /\ (i - 1) + 1 = i /\ i - 1 \notin S
      BY <3>0, <3>2
    <3>4. Two[i] = 2 * Two[i - 1] /\ Two[i - 1] \in Nat /\ Two[i] \in Nat \ {0}
      BY <3>3, TwoNext, TwoType
    <3>5. Two[Precision] * Two[i - 1] <= a
      <4>1. ~(a < Two[Precision] * Two[i - 1])
        BY <3>3
      <4>2. Two[Precision] * Two[i - 1] \in Nat
        BY <1>p, <3>4
      <4> QED BY <1>1, <4>1, <4>2
    <3>6. Half * Two[i] <= a
      <4>1. (2 * Half) * Two[i - 1] = Half * (2 * Two[i - 1])
        BY <3>4, HalfType
      <4> QED BY <3>4, <3>5, <4>1, HalfType
    <3>7. a < (2 * Half) * Two[i]
      BY <3>0, HalfType
    <3>8. Half <= a \div Two[i] /\ a \div Two[i] < 2 * Half
      BY <1>1, <3>4, <3>6, <3>7, HalfType, QuotientBounds
    <3>9. i \in 0..Precision /\ Fits(i)
      BY <1>p, <3>0, <3>1, <3>8, HalfType DEF Half
    <3> HIDE DEF Fits
    <3> QED BY <3>9
  <2>2. j \in 0..Precision /\ Fits(j)
    <3> HIDE DEF Fits
    <3> QED BY <2>1
  <2>3. Multiply(f, c) = [m |-> HalfEven(a, Two[j]), e |-> -k + j]
    <3>1. ~(a < Two[Precision])
      BY <1>1, <1>3, <1>p
    <3> QED BY <1>1, <3>1 DEF Multiply
  <2> HIDE DEF j
  <2>4. j \in Nat /\ Two[j] \in Nat \ {0} /\ -k + j = j - k
    BY <1>p, <2>2, TwoType
  <2>5. Half * Two[j] <= a
    BY <1>1, <2>2, <2>4, HalfType, DivisionBounds DEF Half
  <2>6. Product(m, k, c, HalfEven(a, Two[j]), j)
    BY <1>1, <2>3, <2>4, <2>5, NearestIsNear DEF Product, f, a
  <2> QED BY <2>6
<1> QED
  BY <1>1, <1>2, <1>3, <1>p

LEMMA WholeCutsOff ==
    ASSUME NEW w \in Nat, NEW e \in Int, e < 0
    PROVE  Whole([m |-> w, e |-> e]) = w \div Two[-e]
<1> DEFINE f == [m |-> w, e |-> e]
<1>1. f.m = w /\ f.e = e
  OBVIOUS
<1>2. ~(e >= 0)
  OBVIOUS
<1> HIDE DEF f
<1>3. Whole(f) = w \div Two[-e]
  BY <1>1, <1>2 DEF Whole
<1> QED
  BY <1>3 DEF f

LEMMA TwoOrders ==
    ASSUME NEW a \in Nat, NEW b \in Nat, Two[a] < Two[b]
    PROVE  a < b /\ Two[b] = Two[a] * Two[b - a]
<1>1. ASSUME b <= a PROVE FALSE
  <2>1. a - b \in Nat /\ a = b + (a - b)
    BY <1>1
  <2>2. Two[a] = Two[b] * Two[a - b] /\ Two[b] \in Nat /\ Two[a - b] \in Nat \ {0}
    BY <2>1, TwoAdds, TwoType
  <2>3. 1 * Two[b] <= Two[a - b] * Two[b] /\ Two[a] \in Nat
    BY <2>2, Multiplies
  <2>4. Two[b] <= Two[a]
    BY <2>2, <2>3
  <2> QED BY <2>2, <2>3, <2>4
<1>2. b - a \in Nat /\ b = a + (b - a)
  BY <1>1
<1> QED
  BY <1>1, <1>2, TwoAdds

\* The count of canonical samples of a WAV is the exact one or one less.
LEMMA CanonicalIsNear ==
    ASSUME NEW file \in Files, file.rate # 0
    PROVE  LET exact == (file.frames * CanonicalRate) \div file.rate
           IN  CanonicalSamples(file) \in Nat \cap {exact - 1, exact}
<1> DEFINE n == file.frames
           d == file.rate
           c == CanonicalRate
           exact == (n * c) \div d
<1>1. n \in Nat /\ d \in Nat \ {0} /\ c \in Nat \ {0} /\ n * c < Half /\ d < Two[Precision]
  BY ProvenanceAssumption DEF Half
<1>2. CanonicalSamples(file) = Whole(Multiply(Divide(n, d), c))
  BY DEF CanonicalSamples
<1>3. exact \in Nat
  <2>1. n * c \in Nat
    BY <1>1
  <2> HIDE DEF n, d, c
  <2> QED BY <1>1, <2>1
<1> SUFFICES Whole(Multiply(Divide(n, d), c)) \in Nat \cap {exact - 1, exact}
  BY <1>2
<1> HIDE DEF n, d, c
<1>4. CASE n = 0
  <2>1. Divide(n, d) = [m |-> 0, e |-> 0]
    BY <1>4 DEF Divide
  <2>2. 0 * c = 0 /\ 0 < Two[Precision]
    BY <1>1, HalfType
  <2>3. Multiply(Divide(n, d), c) = [m |-> 0, e |-> 0]
    BY <2>1, <2>2 DEF Multiply
  <2>4. Whole([m |-> 0, e |-> 0]) = 0
    BY TwoNext DEF Whole
  <2>5. n * c = 0 /\ 0 \div d = 0
    BY <1>1, <1>4
  <2> QED BY <2>3, <2>4, <2>5
<1>5. CASE n # 0
  <2>1. n < Half /\ c < Half
    <3>1. 1 * n <= c * n /\ 1 * c <= n * c /\ n * c = c * n
      BY <1>1, <1>5, Multiplies
    <3> QED BY <1>1, <3>1, HalfType
  <2>2. PICK m, k : Quotient(n, d, m, k)
    BY <1>1, <1>5, <2>1, DivideIsNear
  <2> DEFINE t == Two[k]
             a == m * c
  <2>3. /\ k \in Nat \ {0} /\ m \in Nat /\ t \in Nat \ {0} /\ a \in Nat
        /\ Divide(n, d) = [m |-> m, e |-> -k]
        /\ m <= Two[Precision]
    BY <1>1, <2>2, TwoType DEF Quotient
  <2>4. d * Half <= n * t
    BY <2>2 DEF Quotient
  <2>5. /\ 2 * (a * d) <= 2 * ((n * c) * t) + d * c
        /\ 2 * ((n * c) * t) <= 2 * (a * d) + d * c
    <3>1. /\ 2 * (m * d) <= 2 * (n * t) + d
          /\ 2 * (n * t) <= 2 * (m * d) + d
          /\ m * d \in Nat /\ n * t \in Nat
      BY <1>1, <2>2, <2>3 DEF Quotient
    <3>2. /\ (2 * (m * d)) * c <= (2 * (n * t) + d) * c
          /\ (2 * (n * t)) * c <= (2 * (m * d) + d) * c
      <4>1. /\ 2 * (m * d) \in Nat /\ 2 * (n * t) + d \in Nat
            /\ 2 * (n * t) \in Nat /\ 2 * (m * d) + d \in Nat /\ c \in Nat
        BY <1>1, <3>1
      <4> QED BY <3>1, <4>1, Multiplies
    <3>3. (2 * (m * d)) * c = 2 * (a * d) /\ (2 * (n * t)) * c = 2 * ((n * c) * t)
      BY <1>1, <2>3
    <3>4. /\ (2 * (n * t) + d) * c = (2 * (n * t)) * c + d * c
          /\ (2 * (m * d) + d) * c = (2 * (m * d)) * c + d * c
      BY <1>1, <3>1
    <3> QED BY <3>2, <3>3, <3>4
  <2>6. d * c < t
    <3>1. (n * c + 1) * d <= Half * d
      <4>1. n * c + 1 \in Nat /\ n * c + 1 <= Half
        BY <1>1, HalfType
      <4> QED BY <1>1, <4>1, HalfType, Multiplies
    <3>2. (n * c + 1) * d = (d * c) * n + d
      BY <1>1
    <3>3. (d * c) * n < t * n
      BY <1>1, <2>3, <2>4, <3>1, <3>2, HalfType
    <3>4. d * c \in Int /\ t \in Int /\ n \in Nat \ {0}
      BY <1>1, <1>5, <2>3
    <3> HIDE DEF t
    <3> QED BY <3>3, <3>4, Cancels
  <2>7. a * d < Half * t /\ a * d \in Nat /\ (n * c) * t \in Nat
    <3>1. (n * c + 1) * t <= Half * t
      <4>1. n * c + 1 \in Nat /\ n * c + 1 <= Half
        BY <1>1, HalfType
      <4> QED BY <2>3, <4>1, HalfType, Multiplies
    <3>2. (n * c + 1) * t = (n * c) * t + t /\ a * d \in Nat /\ (n * c) * t \in Nat
      BY <1>1, <2>3
    <3>3. Half * t \in Nat /\ d * c \in Nat
      BY <1>1, <2>3, HalfType
    <3> HIDE DEF t, a
    <3> QED BY <2>3, <2>5, <2>6, <3>1, <3>2, <3>3
  <2>8. PICK w, j : Product(m, k, c, w, j)
    <3>1. m * c <= Two[Precision] * c
      BY <1>1, <2>3, HalfType, Multiplies
    <3>2. (c + 1) * Two[Precision] <= Half * Two[Precision]
      <4>1. c + 1 <= Half /\ c + 1 \in Nat /\ Two[Precision] \in Nat
        BY <1>1, <2>1, HalfType
      <4> QED BY <4>1, HalfType, Multiplies
    <3>3. /\ (c + 1) * Two[Precision] = Two[Precision] * c + Two[Precision]
          /\ Two[Precision] * c \in Nat /\ Half * Two[Precision] \in Nat
          /\ Two[Precision] \in Nat \ {0}
      BY <1>1, HalfType
    <3>4. m * c < Half * Two[Precision]
      BY <2>3, <3>1, <3>2, <3>3
    <3> QED BY <1>1, <2>3, <3>4, MultiplyIsNear
  <2>9. /\ j \in Nat /\ w \in Nat /\ Two[j] \in Nat \ {0}
        /\ Multiply(Divide(n, d), c) = [m |-> w, e |-> j - k]
    BY <2>3, <2>8, TwoType DEF Product
  <2>10. CASE j = 0 /\ w = a
    <3>1. Whole([m |-> w, e |-> j - k]) = a \div t
      <4>1. j - k \in Int /\ j - k < 0 /\ -(j - k) = k
        BY <2>3, <2>10
      <4>2. Whole([m |-> w, e |-> j - k]) = w \div Two[-(j - k)]
        BY <2>9, <4>1, WholeCutsOff
      <4> QED BY <2>10, <4>1, <4>2
    <3>2. a * d < (n * c) * t + t /\ (n * c) * t < a * d + t
      <4>1. d * c \in Nat
        BY <1>1
      <4> HIDE DEF t, a
      <4> QED BY <2>3, <2>5, <2>6, <2>7, <4>1
    <3>3. n * c \in Nat
      BY <1>1
    <3>4. a < t * (exact + 1) /\ t * exact <= a + t
      <4> HIDE DEF t, a
      <4> QED BY <1>1, <2>3, <3>2, <3>3, CloseEnough
    <3>5. a \div t \in {exact - 1, exact} /\ a \div t \in Nat
      <4> HIDE DEF t, a, exact
      <4> QED BY <1>3, <2>3, <3>4, CutOff
    <3> QED BY <2>9, <3>1, <3>5
  <2>11. CASE ~(j = 0 /\ w = a)
    <3> DEFINE u == Two[j]
               v == Two[k - j]
               y == w * u
    <3>1. /\ Half * u <= a
          /\ 2 * y <= 2 * a + u
          /\ 2 * a <= 2 * y + u
      BY <2>8, <2>11 DEF Product
    <3>2. u * d < t
      <4>1. (Half * u) * d <= a * d
        BY <1>1, <2>3, <2>9, <3>1, HalfType, Multiplies
      <4>2. (Half * u) * d = (u * d) * Half /\ Half * t = t * Half
        BY <1>1, <2>3, <2>9, HalfType
      <4>3. u * d \in Int /\ t \in Int /\ (u * d) * Half \in Int /\ t * Half \in Int
        BY <1>1, <2>3, <2>9, HalfType
      <4> HIDE DEF t, u, a
      <4>4. (u * d) * Half < t * Half
        BY <2>7, <4>1, <4>2, <4>3
      <4> QED BY <4>3, <4>4, HalfType, Cancels
    <3>3. u < t
      <4>1. 1 * u <= d * u /\ d * u = u * d
        BY <1>1, <2>9, Multiplies
      <4> QED BY <1>1, <2>3, <2>9, <3>2, <4>1
    <3>4. /\ k - j \in Nat /\ k - j # 0 /\ t = u * v /\ v \in Nat \ {0}
      <4>1. j < k /\ t = u * v
        BY <2>3, <2>9, <3>3, TwoOrders
      <4>2. k - j \in Nat \ {0}
        BY <2>3, <2>9, <4>1
      <4> QED BY <4>1, <4>2, TwoType
    <3>5. Whole([m |-> w, e |-> j - k]) = w \div v
      <4>1. j - k \in Int /\ j - k < 0 /\ -(j - k) = k - j
        BY <2>3, <2>9, <3>4
      <4>2. Whole([m |-> w, e |-> j - k]) = w \div Two[-(j - k)]
        BY <2>9, <4>1, WholeCutsOff
      <4> QED BY <4>1, <4>2
    <3>6. y \in Nat /\ n * c \in Nat
      BY <1>1, <2>9
    <3>7. y * d < (n * c) * t + t /\ (n * c) * t < y * d + t
      <4>1. (2 * y) * d <= (2 * a + u) * d /\ (2 * a) * d <= (2 * y + u) * d
        <5>1. /\ 2 * y \in Nat /\ 2 * a + u \in Nat /\ 2 * a \in Nat
              /\ 2 * y + u \in Nat /\ d \in Nat
          BY <1>1, <2>3, <2>9, <3>6
        <5> HIDE DEF y, u, a
        <5> QED BY <3>1, <5>1, Multiplies
      <4>2. /\ (2 * y) * d = 2 * (y * d) /\ (2 * a + u) * d = 2 * (a * d) + u * d
            /\ (2 * a) * d = 2 * (a * d) /\ (2 * y + u) * d = 2 * (y * d) + u * d
        <5> HIDE DEF y, u, a
        <5> QED BY <1>1, <2>3, <2>9, <3>6 DEF u
      <4>3. u * d \in Nat /\ y * d \in Nat /\ d * c \in Nat
        <5> HIDE DEF y
        <5> QED BY <1>1, <2>9, <3>6
      <4> HIDE DEF t, u, a, y
      <4> QED BY <2>3, <2>5, <2>6, <2>7, <3>2, <4>1, <4>2, <4>3
    <3>8. y < t * (exact + 1) /\ t * exact <= y + t
      <4> HIDE DEF t, y
      <4> QED BY <1>1, <2>3, <3>6, <3>7, CloseEnough
    <3> HIDE DEF exact, v
    <3>9. w < v * (exact + 1)
      <4>1. t * (exact + 1) = (v * (exact + 1)) * u /\ v * (exact + 1) \in Int
        <5> HIDE DEF t, u
        <5> QED BY <1>3, <2>9, <3>4 DEF u
      <4> HIDE DEF t, u
      <4> QED BY <2>9, <3>8, <4>1, Cancels DEF u, y
    <3>10. v * exact <= w + v
      <4>1. /\ t * exact = (v * exact) * u /\ y + t = (w + v) * u
            /\ v * exact \in Int /\ w + v \in Int
        <5> HIDE DEF t, u
        <5> QED BY <1>3, <2>9, <3>4 DEF u, y
      <4>2. ASSUME w + v < v * exact PROVE FALSE
        <5>1. PICK x \in Nat : v * exact = (w + v) + 1 + x
          <6>1. v * exact - ((w + v) + 1) \in Nat
            BY <4>1, <4>2
          <6> QED BY <4>1, <6>1
        <5>2. ((w + v) + 1 + x) * u = (w + v) * u + u + x * u /\ x * u \in Nat
          <6> HIDE DEF u
          <6> QED BY <2>9, <4>1 DEF u
        <5>3. u \in Nat \ {0} /\ (w + v) * u \in Int
          BY <2>9, <4>1
        <5> HIDE DEF t, u, y
        <5> QED BY <3>8, <4>1, <5>1, <5>2, <5>3
      <4> QED BY <4>1, <4>2
    <3>11. w \div v \in {exact - 1, exact} /\ w \div v \in Nat
      <4>1. exact \in Nat /\ w \in Nat /\ v \in Nat \ {0}
        BY <1>3, <2>9, <3>4
      <4>2. w \div v \in {exact - 1, exact}
        BY <3>9, <3>10, <4>1, CutOff
      <4>3. w \div v \in Nat
        BY <4>1
      <4> QED BY <4>2, <4>3
    <3> QED BY <2>9, <3>5, <3>11
  <2>12. QED
    BY <2>10, <2>11
<1> QED
  BY <1>4, <1>5

-----------------------------------------------------------------------------
(* What a report says of its fields.                                       *)

\* A count of canonical samples is that of a file, seen with its rate and frames.
Counted ==
    "canonical" \in DOMAIN seen =>
        /\ {"sha256", "sample_rate_hz", "frames"} \subseteq DOMAIN seen
        /\ \E f \in Files : /\ f.rate # 0
                            /\ seen["canonical"] = CanonicalSamples(f)
                            /\ seen["sample_rate_hz"] = f.rate
                            /\ seen["frames"] = f.frames

Ranges ==
    /\ disk \in Files \cup {Absent}
    /\ DOMAIN seen \subseteq Fields
    /\ "size_bytes" \in DOMAIN seen => "sha256" \in DOMAIN seen
    /\ replaced \in 0..MaxReplaced
    /\ stable \in BOOLEAN

ReportInv == SeenIsOnDisk /\ Asked /\ Ranges /\ Counted

LEMMA ReportInit == Init => ReportInv
<1> SUFFICES ASSUME Init PROVE Ranges /\ Counted
  BY SeenInit DEF ReportInv
<1>1. DOMAIN seen = {} /\ replaced = 0 /\ stable = TRUE /\ disk \in Files \cup {Absent}
  BY DEF Init, Nothing
<1>2. 0 \in 0..MaxReplaced
  BY ProvenanceAssumption
<1> QED
  BY <1>1, <1>2 DEF Ranges, Counted

LEMMA ReportSteps == ReportInv /\ [Next]_vars => ReportInv'
<1> SUFFICES ASSUME ReportInv, [Next]_vars PROVE Ranges' /\ Counted'
  BY SeenSteps DEF ReportInv
<1>1. ASSUME seen' = seen, disk' = disk, replaced' = replaced, stable' = stable
      PROVE  Ranges' /\ Counted'
  BY <1>1 DEF ReportInv, Ranges, Counted
<1>2. ASSUME NEW c, NEW x, Invoke(c, x) PROVE Ranges' /\ Counted'
  BY <1>2, <1>1 DEF Invoke
<1>3. CASE Hash
  <2>1. CASE disk = Absent
    BY <1>3, <2>1, <1>1 DEF Hash
  <2>2. CASE disk # Absent
    <3>1. seen = Nothing /\ seen' = Also("sha256", disk)
      BY <1>3, <2>2 DEF Hash, ReportInv, SeenIsOnDisk
    <3>2. DOMAIN seen' = {"sha256"}
      BY <3>1 DEF Also, Nothing
    <3>3. disk' = disk /\ replaced' = replaced /\ stable' = stable
      BY <1>3 DEF Hash
    <3> QED BY <3>2, <3>3 DEF ReportInv, Ranges, Counted, Fields
  <2> QED BY <2>1, <2>2
<1>4. CASE Stat
  <2>1. CASE disk = Absent
    BY <1>4, <2>1, <1>1 DEF Stat
  <2>2. CASE disk # Absent
    <3>1. seen' = Also("size_bytes", disk.size) /\ "sha256" \in DOMAIN seen
      BY <1>4, <2>2 DEF Stat, ReportInv, SeenIsOnDisk, AfterHash
    <3>2. /\ DOMAIN seen' = DOMAIN seen \cup {"size_bytes"}
          /\ \A f \in DOMAIN seen : f # "size_bytes" => seen'[f] = seen[f]
      BY <3>1 DEF Also
    <3>3. disk' = disk /\ replaced' = replaced /\ stable' = stable
      BY <1>4 DEF Stat
    <3> QED BY <3>1, <3>2, <3>3 DEF ReportInv, Ranges, Counted, Fields
  <2> QED BY <2>1, <2>2
<1>5. CASE Header
  <2>1. CASE disk = Absent \/ disk.kind # "wav"
    BY <1>5, <2>1, <1>1 DEF Header
  <2>2. CASE disk # Absent /\ disk.kind = "wav"
    <3>1. disk \in Files /\ disk' = disk /\ replaced' = replaced /\ stable' = stable
      BY <1>5, <2>2 DEF Header, ReportInv, Ranges
    <3>2. /\ DOMAIN seen' = Fields \ (IF disk.rate = 0 THEN {"canonical"} ELSE {})
          /\ seen'["sample_rate_hz"] = disk.rate /\ seen'["frames"] = disk.frames
          /\ disk.rate # 0 => seen'["canonical"] = CanonicalSamples(disk)
      BY <1>5, <2>2 DEF Header, Fields
    <3>3. Counted'
      BY <3>1, <3>2 DEF Counted, Fields
    <3> QED BY <3>1, <3>2, <3>3 DEF ReportInv, Ranges, Fields
  <2> QED BY <2>1, <2>2
<1>6. CASE Decide
  BY <1>6, <1>1 DEF Decide
<1>7. CASE Exit
  <2>1. DOMAIN seen' = {} /\ disk' = disk /\ replaced' = replaced /\ stable' = TRUE
    BY <1>7 DEF Exit, Nothing
  <2> QED BY <2>1 DEF ReportInv, Ranges, Counted
<1>8. ASSUME NEW f \in Files \cup {Absent}, Replace(f) PROVE Ranges' /\ Counted'
  <2>1. seen' = seen /\ disk' = f
    BY <1>8 DEF Replace
  <2>2. replaced' \in 0..MaxReplaced
    <3>1. replaced < MaxReplaced /\ replaced' = replaced + 1
      BY <1>8 DEF Replace
    <3>2. replaced \in 0..MaxReplaced /\ MaxReplaced \in Nat
      BY ProvenanceAssumption DEF ReportInv, Ranges
    <3> QED BY <3>1, <3>2
  <2>3. stable' \in BOOLEAN
    BY <1>8 DEF Replace
  <2> QED BY <1>8, <2>1, <2>2, <2>3 DEF ReportInv, Ranges, Counted
<1>9. CASE UNCHANGED vars
  BY <1>9, <1>1 DEF vars
<1> QED
  BY <1>2, <1>3, <1>4, <1>5, <1>6, <1>7, <1>8, <1>9 DEF Next

\* The fields of a report are found in the order of inspect(), and the count of
\* canonical samples is a natural number that comes with the rate and the frames.
THEOREM ProvenanceTypeCorrect == Spec => []ProvenanceTypeOK
<1>1. ReportInv => ProvenanceTypeOK
  <2> SUFFICES ASSUME ReportInv PROVE ProvenanceTypeOK
    OBVIOUS
  <2>1. "canonical" \in DOMAIN seen => seen["canonical"] \in Nat
    BY CanonicalIsNear DEF ReportInv, Counted
  <2>2. "canonical" \in DOMAIN seen =>
           {"sample_rate_hz", "frames"} \subseteq DOMAIN seen
    BY DEF ReportInv, Counted
  <2>3. run.at \in {"reported", "mismatch"} =>
           {"sha256", "size_bytes"} \subseteq DOMAIN seen
    BY DEF ReportInv, SeenIsOnDisk, AfterHash, AfterStat
  <2> QED BY <2>1, <2>2, <2>3 DEF ReportInv, Ranges, ProvenanceTypeOK
<1> QED
  BY <1>1, ReportInit, ReportSteps, PTL DEF Spec

\* int(frames / rate * 16000), with two roundings, counts no sample that the
\* file does not have and loses at most one that it has, in floats of any
\* precision that hold the number of frames times the canonical rate.
THEOREM LosesAtMostOne == Spec => []LosesAtMostOneSample
<1>1. ReportInv => LosesAtMostOneSample
  BY CanonicalIsNear DEF ReportInv, Counted, LosesAtMostOneSample, Exact
<1> QED
  BY <1>1, ReportInit, ReportSteps, PTL DEF Spec

=============================================================================
