---------------------------- MODULE StreamProofs ----------------------------
(***************************************************************************)
(* Theorems about the frame codec and the recording made from its frames,  *)
(* for any widths of the fields, any number of streams and frames, and     *)
(* whatever becomes of the frames on their way.                            *)
(***************************************************************************)
EXTENDS Stream, InductionLemmas

Bytes == 0..(Byte - 1)

-----------------------------------------------------------------------------
(* Powers of the byte.                                                     *)

LEMMA ByteType == Byte \in Nat \ {0, 1}
  BY FrameAssumption

LEMMA PowerUnfolds ==
    Power = [n \in Nat |-> IF n = 0 THEN 1 ELSE Byte * Power[n - 1]]
<1> DEFINE step == [a \in Nat \X Nat |-> Byte * a[1]]
           Solves(f) == f = [n \in Nat |-> IF n = 0 THEN 1 ELSE Byte * f[n - 1]]
<1>1. step \in [Nat \X Nat -> Nat]
  BY ByteType
<1>2. PICK f : Recurs(f, Nat, 1, step)
  <2>1. 1 \in Nat
    OBVIOUS
  <2> HIDE DEF step
  <2> QED BY <1>1, <2>1, RecursionExists
<1>3. ASSUME NEW k \in Nat, k # 0 PROVE f[k] = Byte * f[k - 1]
  <2>1. k - 1 \in Nat /\ (k - 1) + 1 = k
    BY <1>3
  <2>2. f[k] = step[<<f[k - 1], k - 1>>] /\ f[k - 1] \in Nat
    BY <1>2, <2>1 DEF Recurs
  <2> QED BY <2>1, <2>2
<1>4. Solves(f)
  <2>1. \A k \in Nat : f[k] = IF k = 0 THEN 1 ELSE Byte * f[k - 1]
    BY <1>2, <1>3 DEF Recurs
  <2> QED BY <1>2, <2>1 DEF Recurs
<1>5. Power = CHOOSE f1 : Solves(f1)
  BY DEF Power
<1> HIDE DEF Solves
<1>6. Solves(Power)
  BY <1>4, <1>5
<1> QED
  BY <1>6 DEF Solves

LEMMA PowerNext ==
    /\ Power[0] = 1
    /\ \A k \in Nat : Power[k + 1] = Byte * Power[k]
<1>1. Power[0] = 1
  BY PowerUnfolds
<1>2. ASSUME NEW k \in Nat PROVE Power[k + 1] = Byte * Power[k]
  <2>1. k + 1 \in Nat /\ k + 1 # 0 /\ (k + 1) - 1 = k
    OBVIOUS
  <2> QED BY <2>1, PowerUnfolds
<1> QED
  BY <1>1, <1>2

LEMMA PowerType == \A k \in Nat : Power[k] \in Nat \ {0}
<1> DEFINE S == {k \in Nat : Power[k] \in Nat \ {0}}
<1>1. 0 \in S
  BY PowerNext
<1>2. ASSUME NEW k \in Nat, k \in S PROVE k + 1 \in S
  BY <1>2, PowerNext, ByteType
<1>3. Nat \subseteq S
  <2> HIDE DEF S
  <2> QED BY <1>1, <1>2, NatStep
<1> QED
  BY <1>3

-----------------------------------------------------------------------------
(* Digits, read from the most significant on.                              *)

Horner(f, s, b) ==
    f = [k \in 0..Len(s) |-> IF k = 0 THEN 0 ELSE f[k - 1] * b + s[k]]

LEMMA HornerReads ==
    ASSUME NEW b \in Nat, NEW s \in Seq(Nat)
    PROVE  /\ \E f : Horner(f, s, b)
           /\ \A f : Horner(f, s, b) => Evaluates(f, s, b)
<1> DEFINE n == Len(s)
<1>1. n \in Nat /\ \A k \in 1..n : s[k] \in Nat
  OBVIOUS
<1>2. ASSUME NEW f, Horner(f, s, b) PROVE Evaluates(f, s, b)
  <2>1. /\ DOMAIN f = 0..n
        /\ \A k \in 0..n : f[k] = IF k = 0 THEN 0 ELSE f[k - 1] * b + s[k]
    BY <1>2 DEF Horner
  <2>2. 0 \in 0..n /\ \A k \in 1..n : k \in 0..n /\ k # 0
    BY <1>1
  <2> HIDE DEF n
  <2>3. f[0] = 0 /\ \A k \in 1..n : f[k] = f[k - 1] * b + s[k]
    BY <2>1, <2>2
  <2> QED BY <2>1, <2>3 DEF Evaluates, n
<1>3. \E f : Horner(f, s, b)
  <2> DEFINE step == [a \in Nat \X Nat |-> IF a[2] < n THEN a[1] * b + s[a[2] + 1] ELSE 0]
  <2>1. step \in [Nat \X Nat -> Nat]
    <3>1. ASSUME NEW a \in Nat \X Nat, a[2] < n PROVE a[1] * b + s[a[2] + 1] \in Nat
      <4>1. a[2] + 1 \in 1..n /\ a[1] \in Nat
        BY <1>1, <3>1
      <4>2. s[a[2] + 1] \in Nat /\ a[1] * b \in Nat
        BY <1>1, <4>1
      <4> QED BY <4>2
    <3> HIDE DEF n
    <3> QED BY <3>1
  <2>2. PICK g : Recurs(g, Nat, 0, step)
    <3>1. 0 \in Nat
      OBVIOUS
    <3> HIDE DEF step
    <3> QED BY <2>1, <3>1, RecursionExists
  <2> DEFINE f == [k \in 0..n |-> g[k]]
  <2>3. ASSUME NEW k \in 0..n PROVE g[k] = IF k = 0 THEN 0 ELSE f[k - 1] * b + s[k]
    <3>1. CASE k = 0
      BY <2>2, <3>1 DEF Recurs
    <3>2. CASE k # 0
      <4>1. k - 1 \in Nat /\ (k - 1) + 1 = k /\ k - 1 < n /\ k - 1 \in 0..n
        BY <1>1, <3>2
      <4>2. g[k] = step[<<g[k - 1], k - 1>>] /\ g[k - 1] \in Nat
        BY <2>2, <4>1 DEF Recurs
      <4>3. <<g[k - 1], k - 1>> \in Nat \X Nat
        BY <4>1, <4>2
      <4>4. g[k] = g[k - 1] * b + s[(k - 1) + 1]
        BY <4>1, <4>2, <4>3
      <4> QED BY <3>2, <4>1, <4>4
    <3> QED BY <3>1, <3>2
  <2>4. f = [k \in 0..n |-> IF k = 0 THEN 0 ELSE f[k - 1] * b + s[k]]
    BY <2>3
  <2> HIDE DEF f
  <2> QED BY <2>4 DEF Horner
<1> QED
  BY <1>2, <1>3

LEMMA UnpackReads ==
    ASSUME NEW bytes \in Seq(Nat), NEW s \in Seq(Nat), Len(s) = Len(bytes),
           \A k \in 1..Len(s) : s[k] = bytes[Len(bytes) + 1 - k]
    PROVE  \E value : Evaluates(value, s, Byte) /\ Unpack(bytes) = value[Len(s)]
<1> DEFINE n == Len(bytes)
           Solves(f) == f = [k \in 0..n |->
                          IF k = 0 THEN 0 ELSE f[k - 1] * Byte + bytes[n + 1 - k]]
           value == CHOOSE f : Solves(f)
<1>1. n \in Nat /\ Len(s) = n /\ \A k \in 0..n : k = 0 \/ k \in 1..n
  OBVIOUS
<1>2. ASSUME NEW f PROVE Solves(f) <=> Horner(f, s, Byte)
  <2>1. [k \in 0..n |-> IF k = 0 THEN 0 ELSE f[k - 1] * Byte + bytes[n + 1 - k]]
          = [k \in 0..n |-> IF k = 0 THEN 0 ELSE f[k - 1] * Byte + s[k]]
    <3> HIDE DEF n
    <3>1. \A k \in 1..n : s[k] = bytes[n + 1 - k]
      BY <1>1 DEF n
    <3> QED BY <1>1, <3>1
  <2> QED BY <1>1, <2>1 DEF Horner
<1>3. Unpack(bytes) = value[n]
  BY DEF Unpack
<1> HIDE DEF Solves
<1>4. Solves(value)
  <2>1. \E f : Horner(f, s, Byte)
    BY ByteType, HornerReads
  <2> QED BY <1>2, <2>1
<1>5. Evaluates(value, s, Byte)
  <2> HIDE DEF value
  <2> QED BY <1>2, <1>4, ByteType, HornerReads
<1> HIDE DEF value
<1> QED
  BY <1>1, <1>3, <1>5

\* Unpacking undoes packing of what fits.
LEMMA UnpackPack ==
    ASSUME NEW size \in Nat, NEW n \in Nat, n < Power[size]
    PROVE  Pack(n, size) \in [1..size -> Bytes] /\ Unpack(Pack(n, size)) = n
<1> DEFINE bytes == Pack(n, size)
           s == [k \in 1..size |-> bytes[size + 1 - k]]
<1>1. ASSUME NEW k \in 0..size PROVE n \div Power[k] \in Nat
  <2>1. Power[k] \in Nat \ {0}
    BY PowerType
  <2> QED BY <2>1, Divides
<1>2. ASSUME NEW m \in Nat PROVE m % Byte \in Bytes
  <2>1. \E q \in Nat, r \in 0..(Byte - 1) : m % Byte = r
    BY ByteType, Divides
  <2> QED BY <2>1 DEF Bytes
<1>3. bytes \in [1..size -> Bytes]
  <2>1. \A k \in 1..size : k - 1 \in 0..size
    OBVIOUS
  <2> QED BY <1>1, <1>2, <2>1 DEF Pack
<1>4. /\ Bytes \subseteq Nat /\ bytes \in Seq(Nat) /\ Len(bytes) = size
      /\ DOMAIN bytes = 1..size
  <2>1. Bytes \subseteq Nat
    BY ByteType DEF Bytes
  <2> HIDE DEF bytes
  <2>2. bytes \in [1..size -> Nat]
    BY <1>3, <2>1
  <2> QED BY <2>1, <2>2
<1>5. s \in Seq(Nat) /\ Len(s) = size
      /\ \A k \in 1..size : s[k] = (n \div Power[size - k]) % Byte
  <2>1. \A k \in 1..size : size + 1 - k \in 1..size /\ (size + 1 - k) - 1 = size - k
    OBVIOUS
  <2>2. \A k \in 1..size : bytes[size + 1 - k] = (n \div Power[size - k]) % Byte
    BY <2>1 DEF Pack
  <2> HIDE DEF bytes
  <2>3. s \in [1..size -> Nat]
    BY <1>3, <1>4, <2>1
  <2> QED BY <2>2, <2>3
<1> HIDE DEF bytes
<1>6. PICK value : Evaluates(value, s, Byte) /\ Unpack(bytes) = value[size]
  <2>1. \A k \in 1..Len(s) : s[k] = bytes[Len(bytes) + 1 - k]
    BY <1>4, <1>5
  <2>2. \E value : Evaluates(value, s, Byte) /\ Unpack(bytes) = value[Len(s)]
    <3> HIDE DEF s
    <3> QED BY <1>4, <1>5, <2>1, UnpackReads
  <2> QED BY <1>5, <2>2
<1> HIDE DEF s
<1> DEFINE S == {k \in Nat : k <= size => value[k] = n \div Power[size - k]}
<1>7. 0 \in S
  <2>1. Power[size] \in Nat \ {0} /\ size - 0 = size
    <3> HIDE DEF s, bytes
    <3> QED BY PowerType
  <2>2. n \div Power[size] = 0
    <3>1. PICK q \in Nat, r \in 0..(Power[size] - 1) :
             n \div Power[size] = q /\ n = q * Power[size] + r
      BY <2>1, Divides
    <3>2. q = 0
      BY <2>1, <3>1
    <3> QED BY <3>1, <3>2
  <2>3. value[0] = 0
    BY <1>6 DEF Evaluates
  <2>4. value[0] = n \div Power[size - 0]
    BY <2>1, <2>2, <2>3
  <2> QED BY <2>4
<1>8. ASSUME NEW k \in Nat, k \in S PROVE k + 1 \in S
  <2> SUFFICES ASSUME k + 1 <= size PROVE value[k + 1] = n \div Power[size - (k + 1)]
    OBVIOUS
  <2> DEFINE e == size - (k + 1)
  <2>1. e \in Nat /\ e + 1 = size - k /\ k + 1 \in 1..size /\ (k + 1) - 1 = k /\ e \in 0..size
    OBVIOUS
  <2>2. value[k] = n \div Power[e + 1]
    BY <1>8, <2>1
  <2>3. value[k + 1] = value[k] * Byte + ((n \div Power[e]) % Byte)
    BY <1>5, <1>6, <2>1 DEF Evaluates
  <2>4. Power[e + 1] = Power[e] * Byte /\ Power[e] \in Nat \ {0}
    <3> HIDE DEF e
    <3>1. Power[e + 1] = Byte * Power[e] /\ Power[e] \in Nat \ {0}
      BY <2>1, PowerNext, PowerType
    <3> QED BY <3>1, ByteType
  <2> DEFINE q == n \div Power[e]
  <2>5. q \in Nat /\ q \div Byte = n \div (Power[e] * Byte)
    BY <1>1, <2>1, <2>4, ByteType, DividesTwice
  <2> HIDE DEF q, e
  <2>6. PICK p \in Nat, r \in 0..(Byte - 1) : q \div Byte = p /\ q % Byte = r /\ q = p * Byte + r
    BY <2>5, ByteType, Divides
  <2>7. value[k] = p
    BY <2>2, <2>4, <2>5, <2>6
  <2>8. value[k + 1] = value[k] * Byte + (q % Byte)
    BY <2>3 DEF q
  <2>9. value[k + 1] = p * Byte + r
    BY <2>6, <2>7, <2>8
  <2> QED BY <2>6, <2>9 DEF q, e
<1>9. Nat \subseteq S
  <2> HIDE DEF S
  <2> QED BY <1>7, <1>8, NatStep
<1>10. value[size] = n
  <2>1. value[size] = n \div Power[size - size]
    BY <1>9
  <2>2. size - size = 0 /\ Power[0] = 1 /\ n \div 1 = n
    BY PowerNext
  <2> QED BY <2>1, <2>2
<1> QED
  BY <1>3, <1>6, <1>10 DEF bytes

-----------------------------------------------------------------------------
(* The header, field by field.                                             *)

LEMMA FieldsAre ==
    /\ Len(Fields) = 8 /\ DOMAIN Fields = 1..8
    /\ \A j, k \in 1..8 : Fields[j] = Fields[k] => j = k
    /\ Fields[1] = "protocol_major" /\ Fields[2] = "header_size_bytes"
    /\ Fields[5] = "start_sample"
<1>1. Len(Fields) = 8 /\ DOMAIN Fields = 1..8
  BY DEF Fields
<1>2. \A k \in 1..8 : k \in {1, 2, 3, 4, 5, 6, 7, 8}
  OBVIOUS
<1>3. /\ Fields[1] = "protocol_major" /\ Fields[2] = "header_size_bytes"
      /\ Fields[3] = "stream_ordinal" /\ Fields[4] = "sequence"
      /\ Fields[5] = "start_sample" /\ Fields[6] = "capture_monotonic_ns"
      /\ Fields[7] = "sample_count" /\ Fields[8] = "flags"
  BY DEF Fields
<1> QED
  BY <1>1, <1>2, <1>3

LEMMA SizeType == \A k \in 1..8 : Size[Fields[k]] \in Nat \ {0}
BY FrameAssumption, FieldsAre

LEMMA OffsetNext ==
    /\ Offset[0] = 0
    /\ \A k \in 1..8 : Offset[k] = Offset[k - 1] + Size[Fields[k]]
<1> DEFINE s == [k \in 1..8 |-> Size[Fields[k]]]
           Solves(f) == f = [k \in 0..8 |-> IF k = 0 THEN 0 ELSE f[k - 1] + Size[Fields[k]]]
<1>1. s \in Seq(Nat) /\ Len(s) = 8
  BY SizeType
<1>2. PICK f : Horner(f, s, 1) /\ Evaluates(f, s, 1)
  <2> HIDE DEF s
  <2> QED BY <1>1, HornerReads
<1>3. \A k \in 0..8 : f[k] \in Nat
  <2> HIDE DEF s
  <2> QED BY <1>1, <1>2, EvaluatesType
<1>4. Solves(f)
  <2>1. f = [k \in 0..8 |-> IF k = 0 THEN 0 ELSE f[k - 1] * 1 + s[k]]
    BY <1>1, <1>2 DEF Horner
  <2>2. ASSUME NEW k \in 0..8, k # 0 PROVE f[k - 1] * 1 + s[k] = f[k - 1] + Size[Fields[k]]
    <3>1. k - 1 \in 0..8 /\ k \in 1..8
      BY <2>2
    <3>2. f[k - 1] \in Nat /\ s[k] = Size[Fields[k]] /\ Size[Fields[k]] \in Nat
      BY <1>3, <3>1, SizeType
    <3> QED BY <3>2
  <2> HIDE DEF s
  <2> QED BY <2>1, <2>2
<1>5. Offset = CHOOSE g : Solves(g)
  BY FieldsAre DEF Offset
<1>6. Solves(Offset)
  <2> HIDE DEF Solves
  <2> QED BY <1>4, <1>5
<1>7. \A k \in 0..8 : Offset[k] = IF k = 0 THEN 0 ELSE Offset[k - 1] + Size[Fields[k]]
  BY <1>6
<1> QED
  BY <1>7

\* What the fields of a header are written from.
Values(header, headerSize) ==
    [k \in 1..8 |-> IF Fields[k] = "header_size_bytes" THEN headerSize ELSE header[Fields[k]]]

LEMMA PackType ==
    ASSUME NEW n \in Nat, NEW size \in Nat
    PROVE  Pack(n, size) \in [1..size -> Bytes]
<1> SUFFICES ASSUME NEW k \in 1..size PROVE (n \div Power[k - 1]) % Byte \in Bytes
  BY DEF Pack
<1>1. Power[k - 1] \in Nat \ {0}
  BY PowerType
<1>2. n \div Power[k - 1] \in Nat
  BY <1>1, Divides
<1> DEFINE q == n \div Power[k - 1]
<1> HIDE DEF q
<1>3. q \in Nat => \E r \in 0..(Byte - 1) : q % Byte = r
  BY ByteType, Divides
<1> QED
  BY <1>2, <1>3 DEF q, Bytes

\* Each value is found at the offset of its field.
HoldsFields(bytes, header, headerSize) ==
    \A k \in 1..8 : \A j \in 1..Size[Fields[k]] :
        /\ Offset[k - 1] + j \in 1..HeaderSize
        /\ bytes[Offset[k - 1] + j] = Pack(Values(header, headerSize)[k], Size[Fields[k]])[j]

LEMMA PackedAt ==
    ASSUME NEW header, NEW headerSize, Values(header, headerSize) \in [1..8 -> Nat]
    PROVE  /\ Packed(header, headerSize) \in Seq(Bytes)
           /\ \A k \in 0..8 : Offset[k] \in Nat
           /\ Len(Packed(header, headerSize)) = HeaderSize
           /\ HoldsFields(Packed(header, headerSize), header, headerSize)
<1> DEFINE v == Values(header, headerSize)
           ss == [k \in 1..8 |-> Pack(v[k], Size[Fields[k]])]
<1>1. Packed(header, headerSize) = FlattenSeq(ss)
  BY FieldsAre DEF Packed, Values
<1>2. \A k \in 1..8 : ss[k] \in Seq(Bytes) /\ Len(ss[k]) = Size[Fields[k]]
  <2> SUFFICES ASSUME NEW k \in 1..8
               PROVE  ss[k] \in Seq(Bytes) /\ Len(ss[k]) = Size[Fields[k]]
    OBVIOUS
  <2> DEFINE n == v[k]
             size == Size[Fields[k]]
  <2>1. n \in Nat /\ size \in Nat
    BY SizeType
  <2> HIDE DEF n, size
  <2>2. Pack(n, size) \in [1..size -> Bytes]
    BY <2>1, PackType
  <2>3. Pack(n, size) \in Seq(Bytes) /\ Len(Pack(n, size)) = size
    BY <2>1, <2>2, IsSequence
  <2> QED BY <2>3 DEF n, size
<1>3. ss \in Seq(Seq(Bytes)) /\ Len(ss) = 8 /\ \A k \in 1..8 : ss[k] = Pack(v[k], Size[Fields[k]])
  BY <1>2
<1> HIDE DEF ss, v
<1>4. Cumulates(Offset, ss)
  BY <1>2, <1>3, OffsetNext DEF Cumulates
<1>5. FlattenSeq(ss) \in Seq(Bytes) /\ LaidOut(FlattenSeq(ss), ss, Offset)
  BY <1>3, <1>4, FlattenAt
<1>6. HeaderSize = Offset[8]
  BY FieldsAre DEF HeaderSize
<1>7. \A k \in 1..8 : \A j \in 1..Size[Fields[k]] :
         /\ Offset[k - 1] + j \in 1..HeaderSize
         /\ FlattenSeq(ss)[Offset[k - 1] + j] = Pack(v[k], Size[Fields[k]])[j]
  <2>1. \A k \in 1..Len(ss) : \A j \in 1..Len(ss[k]) :
           /\ Offset[k - 1] + j \in 1..Offset[Len(ss)]
           /\ FlattenSeq(ss)[Offset[k - 1] + j] = ss[k][j]
    BY <1>5 DEF LaidOut
  <2> SUFFICES ASSUME NEW k \in 1..8, NEW j \in 1..Size[Fields[k]]
               PROVE  /\ Offset[k - 1] + j \in 1..HeaderSize
                      /\ FlattenSeq(ss)[Offset[k - 1] + j] = ss[k][j]
    BY <1>3
  <2>2. k \in 1..Len(ss) /\ j \in 1..Len(ss[k]) /\ Offset[Len(ss)] = HeaderSize
    BY <1>2, <1>3, <1>6
  <2> QED BY <2>1, <2>2
<1>8. (\A k \in 0..8 : Offset[k] \in Nat) /\ Len(FlattenSeq(ss)) = HeaderSize
  BY <1>3, <1>5, <1>6 DEF LaidOut
<1> QED
  BY <1>1, <1>5, <1>7, <1>8 DEF v, HoldsFields

\* Every value fits its field.
Fits(header, headerSize) ==
    /\ Values(header, headerSize) \in [1..8 -> Nat]
    /\ \A k \in 1..8 : Values(header, headerSize)[k] < Power[Size[Fields[k]]]
    /\ header["start_sample"] <= MaxSampleOffset

\* The buffer begins with this header.
Begins(buffer, header, headerSize) ==
    /\ buffer \in Seq(Bytes)
    /\ HeaderSize <= Len(buffer)
    /\ \A j \in 1..HeaderSize : buffer[j] = Packed(header, headerSize)[j]

LEMMA OffsetIn ==
    /\ HeaderSize \in Nat
    /\ \A k \in 1..8 : /\ Offset[k] \in Nat /\ Offset[k - 1] \in Nat
                       /\ Offset[k] = Offset[k - 1] + Size[Fields[k]]
                       /\ Offset[k] <= HeaderSize
<1> DEFINE zeros == [f \in {Fields[k] : k \in 1..8} |-> 0]
<1>1. Values(zeros, 0) \in [1..8 -> Nat]
  BY DEF Values
<1>2. /\ \A k \in 0..8 : Offset[k] \in Nat
      /\ \A k \in 1..8 : \A j \in 1..Size[Fields[k]] : Offset[k - 1] + j \in 1..HeaderSize
  <2> HIDE DEF zeros
  <2> QED BY <1>1, PackedAt DEF HoldsFields
<1>3. HeaderSize = Offset[8]
  BY FieldsAre DEF HeaderSize
<1>4. ASSUME NEW k \in 1..8
      PROVE  /\ Offset[k] \in Nat /\ Offset[k - 1] \in Nat
             /\ Offset[k] = Offset[k - 1] + Size[Fields[k]]
             /\ Offset[k] <= HeaderSize
  <2>1. k \in 0..8 /\ k - 1 \in 0..8 /\ 8 \in 0..8
    OBVIOUS
  <2>2. Offset[k] = Offset[k - 1] + Size[Fields[k]]
    BY OffsetNext
  <2>3. Size[Fields[k]] \in 1..Size[Fields[k]]
    BY SizeType
  <2>4. Offset[k - 1] + Size[Fields[k]] \in 1..HeaderSize
    BY <1>2, <2>3
  <2> QED BY <1>2, <2>1, <2>2, <2>4
<1> QED
  BY <1>2, <1>3, <1>4

LEMMA FieldIs ==
    ASSUME NEW buffer, NEW header, NEW headerSize, Fits(header, headerSize),
           Begins(buffer, header, headerSize), NEW k \in 1..8
    PROVE  Field(buffer, k) = Values(header, headerSize)[k]
<1> DEFINE v == Values(header, headerSize)[k]
           size == Size[Fields[k]]
           from == Offset[k - 1]
           packed == Packed(header, headerSize)
           bytes == SubSeq(buffer, Offset[k - 1] + 1, Offset[k])
<1>1. v \in Nat /\ size \in Nat /\ v < Power[size]
  BY SizeType DEF Fits
<1>2. from \in Nat /\ Offset[k] = from + size /\ from + size <= HeaderSize /\ HeaderSize \in Nat
  BY OffsetIn
<1>3. \A j \in 1..size : packed[from + j] = Pack(v, size)[j]
  <2>1. Values(header, headerSize) \in [1..8 -> Nat]
    BY DEF Fits
  <2>2. HoldsFields(packed, header, headerSize)
    BY <2>1, PackedAt
  <2> QED BY <2>2 DEF HoldsFields
<1>4. buffer \in Seq(Bytes) /\ HeaderSize <= Len(buffer) /\ Len(buffer) \in Nat
      /\ \A j \in 1..HeaderSize : buffer[j] = packed[j]
  BY DEF Begins
<1>5. bytes = SubSeq(buffer, from + 1, from + size)
  BY <1>2
<1> HIDE DEF v, size, from, packed, bytes
<1>6. bytes = [j \in 1..size |-> buffer[from + j]]
  <2>1. from + 1 \in 1..(Len(buffer) + 1) /\ from + size \in 0..Len(buffer)
    BY <1>1, <1>2, <1>4
  <2>2. SubSeq(buffer, from + 1, from + size)
          = [j \in 1..((from + size) - (from + 1) + 1) |-> buffer[j + (from + 1) - 1]]
    BY <1>1, <1>2, <1>4, <2>1
  <2>3. (from + size) - (from + 1) + 1 = size
    BY <1>1, <1>2
  <2>4. \A j \in 1..size : j + (from + 1) - 1 = from + j
    BY <1>1, <1>2
  <2> QED BY <1>5, <2>2, <2>3, <2>4
<1>7. Pack(v, size) = [j \in 1..size |-> Pack(v, size)[j]]
  BY DEF Pack
<1>8. \A j \in 1..size : buffer[from + j] = Pack(v, size)[j]
  <2> SUFFICES ASSUME NEW j \in 1..size PROVE buffer[from + j] = Pack(v, size)[j]
    OBVIOUS
  <2>1. from + j \in 1..HeaderSize
    BY <1>1, <1>2
  <2> QED BY <1>3, <1>4, <2>1
<1>9. bytes = Pack(v, size)
  BY <1>6, <1>7, <1>8
<1>10. Unpack(bytes) = v
  BY <1>1, <1>9, UnpackPack
<1>11. Fields[k] = "start_sample" => Signed(v, Size["start_sample"]) = v
  <2> SUFFICES ASSUME Fields[k] = "start_sample"
               PROVE  Signed(v, Size["start_sample"]) = v
    OBVIOUS
  <2>1. v = header["start_sample"]
    BY DEF v, Values
  <2>2. v <= MaxSampleOffset
    BY <2>1 DEF Fits
  <2>3. 2 * (MaxSampleOffset + 1) = Power[Size["start_sample"]] /\ MaxSampleOffset \in Nat
    BY FrameAssumption, TimelineAssumption
  <2>4. 2 * v < Power[Size["start_sample"]]
    BY <1>1, <2>2, <2>3
  <2> QED BY <2>4 DEF Signed
<1>12. Field(buffer, k) = IF Fields[k] = "start_sample"
                          THEN Signed(Unpack(bytes), Size["start_sample"]) ELSE Unpack(bytes)
  BY DEF Field, bytes
<1> QED
  BY <1>10, <1>11, <1>12 DEF v

LEMMA HeaderFields ==
    /\ HeaderField = {Fields[k] : k \in 1..8} \ {"header_size_bytes"}
    /\ {"protocol_major", "stream_ordinal", "sequence", "start_sample",
        "capture_monotonic_ns", "sample_count", "flags"} = HeaderField
<1>1. HeaderField = {Fields[k] : k \in 1..8} \ {"header_size_bytes"}
  BY FieldsAre DEF HeaderField
<1>2. 1..8 = {1, 2, 3, 4, 5, 6, 7, 8}
  OBVIOUS
<1>3. /\ Fields[1] = "protocol_major" /\ Fields[2] = "header_size_bytes"
      /\ Fields[3] = "stream_ordinal" /\ Fields[4] = "sequence"
      /\ Fields[5] = "start_sample" /\ Fields[6] = "capture_monotonic_ns"
      /\ Fields[7] = "sample_count" /\ Fields[8] = "flags"
  BY DEF Fields
<1>4. {Fields[k] : k \in 1..8}
        = {Fields[1], Fields[2], Fields[3], Fields[4], Fields[5], Fields[6], Fields[7], Fields[8]}
  BY <1>2
<1> QED
  BY <1>1, <1>3, <1>4

LEMMA RawIs ==
    ASSUME NEW buffer, NEW header, NEW headerSize, Fits(header, headerSize),
           Begins(buffer, header, headerSize)
    PROVE  /\ \A f \in HeaderField : Raw(buffer)[f] = header[f]
           /\ Raw(buffer)["header_size_bytes"] = headerSize
<1>1. ASSUME NEW k \in 1..8 PROVE Raw(buffer)[Fields[k]] = Values(header, headerSize)[k]
  <2>1. (CHOOSE i \in 1..8 : Fields[i] = Fields[k]) = k
    BY FieldsAre
  <2>2. Raw(buffer)[Fields[k]] = Field(buffer, CHOOSE i \in 1..8 : Fields[i] = Fields[k])
    BY FieldsAre DEF Raw
  <2>3. Field(buffer, k) = Values(header, headerSize)[k]
    BY FieldIs
  <2> QED BY <2>1, <2>2, <2>3
<1>2. ASSUME NEW f \in HeaderField PROVE Raw(buffer)[f] = header[f]
  <2>1. PICK k \in 1..8 : f = Fields[k]
    BY HeaderFields
  <2>2. f # "header_size_bytes"
    BY HeaderFields
  <2> QED BY <1>1, <2>1, <2>2 DEF Values
<1>3. Raw(buffer)["header_size_bytes"] = headerSize
  <2>1. Fields[2] = "header_size_bytes" /\ 2 \in 1..8
    BY FieldsAre
  <2> QED BY <1>1, <2>1 DEF Values
<1> QED
  BY <1>2, <1>3

\* A buffer that begins with a header of this major that fits, and ends with
\* as many bytes as the header announces, is read as what it was.
LEMMA DecodeIs ==
    ASSUME NEW buffer, NEW header \in [HeaderField -> Int], NEW headerSize \in Nat,
           Fits(header, headerSize), Begins(buffer, header, headerSize),
           header.protocol_major = ProtocolMajor,
           header.sample_count <= MaxSamples,
           HeaderSize <= headerSize, headerSize <= Len(buffer),
           Len(buffer) <= MaxFrameBytes,
           Len(buffer) - headerSize = PayloadBytes(header)
    PROVE  DecodeFrame(buffer)
             = Return([ header |-> header,
                        payload |-> SubSeq(buffer, headerSize + 1, Len(buffer)) ])
<1> DEFINE raw == Raw(buffer)
<1>1. /\ raw.protocol_major = ProtocolMajor /\ raw.sample_count = header.sample_count
      /\ raw.start_sample = header.start_sample /\ raw.header_size_bytes = headerSize
      /\ [f \in HeaderField |-> raw[f]] = header
  <2>1. /\ \A f \in HeaderField : raw[f] = header[f]
        /\ raw.header_size_bytes = headerSize
    BY RawIs
  <2>2. {"protocol_major", "sample_count", "start_sample"} \subseteq HeaderField
    BY HeaderFields
  <2> HIDE DEF raw
  <2>3. [f \in HeaderField |-> raw[f]] = header
    <3>1. header = [f \in HeaderField |-> header[f]]
      OBVIOUS
    <3> QED BY <2>1, <3>1
  <2> QED BY <2>1, <2>2, <2>3
<1>2. ValidSampleOffset(header.start_sample)
  <2>1. header.start_sample \in Nat /\ header.start_sample <= MaxSampleOffset
    <3>1. Values(header, headerSize)[5] = header.start_sample
      <4>1. Fields[5] = "start_sample" /\ 5 \in 1..8
        BY FieldsAre
      <4> QED BY <4>1 DEF Values
    <3>2. Values(header, headerSize)[5] \in Nat /\ header.start_sample <= MaxSampleOffset
      BY DEF Fits
    <3> QED BY <3>1, <3>2
  <2>2. MaxSampleOffset \in Nat
    BY TimelineAssumption
  <2> QED BY <2>1, <2>2 DEF ValidSampleOffset
<1>3. MaxSamples \in Nat /\ MaxFrameBytes \in Nat /\ HeaderSize \in Nat
      /\ Len(buffer) \in Nat /\ buffer \in Seq(Bytes)
  BY FrameAssumption, OffsetIn DEF Begins
<1>4. header.sample_count \in Int
  BY HeaderFields
<1> DEFINE decoded == [header |-> header, payload_offset |-> headerSize]
<1>5. Validated(raw, buffer) = Return(decoded)
  <2>1. HeaderSizeFits(raw, buffer)
    BY <1>1, <1>3 DEF HeaderSizeFits
  <2>2. ~(raw.sample_count > MaxSamples)
    BY <1>1, <1>3, <1>4
  <2> HIDE DEF raw
  <2> QED BY <1>1, <1>2, <2>1, <2>2 DEF Validated, PayloadOffset
<1>6. DecodeHeader(buffer) = Return(decoded)
  BY <1>3, <1>5 DEF DecodeHeader, Begins
<1> DEFINE payload == SubSeq(buffer, headerSize + 1, Len(buffer))
<1>7. Len(payload) = PayloadBytes(header)
  BY <1>3
<1>8. Unframed(Return(decoded), buffer) = Return([header |-> header, payload |-> payload])
  <2>1. /\ Return(decoded).error = NoError
        /\ Return(decoded).value.header = header
        /\ Return(decoded).value.payload_offset = headerSize
    BY DEF Return
  <2> HIDE DEF decoded
  <2> QED BY <1>7, <2>1 DEF Unframed
<1>9. ~(Len(buffer) > MaxFrameBytes)
  BY <1>3
<1> QED
  BY <1>6, <1>8, <1>9 DEF DecodeFrame

LEMMA StreamConstants ==
    /\ HeaderSize \in Nat /\ MaxSamples \in Nat /\ MaxFrameBytes \in Nat
    /\ BytesPerSample \in Nat \ {0} /\ MaxSampleOffset \in Nat
    /\ HeaderSize + 1 <= UnsignedMax("header_size_bytes")
    /\ HeaderSize + 1 + MaxSamples * BytesPerSample <= MaxFrameBytes
BY OffsetIn, FrameAssumption, TimelineAssumption, StreamAssumption

\* What passes the tests of the encoder fits its fields.
LEMMA EncodableFits ==
    ASSUME NEW header \in [HeaderField -> Int], FitsUnsigned(header),
           ValidSampleOffset(header.start_sample),
           NEW headerSize \in Nat, headerSize <= UnsignedMax("header_size_bytes")
    PROVE  Fits(header, headerSize)
<1>1. header.start_sample \in Nat /\ header.start_sample <= MaxSampleOffset
      /\ header.start_sample < Power[Size["start_sample"]]
  <2>1. header.start_sample \in Int /\ MaxSampleOffset \in Nat
    BY HeaderFields, TimelineAssumption
  <2>2. header.start_sample \in Nat /\ header.start_sample <= MaxSampleOffset
    BY <2>1 DEF ValidSampleOffset
  <2>3. 2 * (MaxSampleOffset + 1) = Power[Size["start_sample"]]
    BY FrameAssumption
  <2> QED BY <2>1, <2>2, <2>3
<1>2. ASSUME NEW k \in 1..8
      PROVE  /\ Values(header, headerSize)[k] \in Nat
             /\ Values(header, headerSize)[k] < Power[Size[Fields[k]]]
  <2> DEFINE f == Fields[k]
             v == Values(header, headerSize)[k]
             limit == Power[Size[Fields[k]]]
  <2>1. limit \in Nat /\ UnsignedMax(f) = limit - 1
    BY SizeType, PowerType DEF UnsignedMax
  <2>2. CASE f = "header_size_bytes"
    <3>1. v = headerSize
      BY <2>2 DEF Values
    <3>2. headerSize <= UnsignedMax(f)
      BY <2>2
    <3> HIDE DEF v, limit, f
    <3> QED BY <2>1, <3>1, <3>2 DEF v, limit
  <2>3. CASE f = "start_sample"
    BY <1>1, <2>3 DEF Values
  <2>4. CASE f \notin {"header_size_bytes", "start_sample"}
    <3>1. v = header[f]
      BY <2>4 DEF Values
    <3>2. f \in HeaderField \ {"start_sample"}
      BY <2>4, HeaderFields
    <3>3. header[f] \in Int /\ 0 <= header[f] /\ header[f] <= UnsignedMax(f)
      BY <3>2 DEF FitsUnsigned
    <3> HIDE DEF v, limit, f
    <3> QED BY <2>1, <3>1, <3>3 DEF v, limit
  <2> QED BY <2>2, <2>3, <2>4
<1>3. Values(header, headerSize) \in [1..8 -> Nat]
  BY <1>2 DEF Values
<1> QED
  BY <1>1, <1>2, <1>3 DEF Fits

\* What the encoder lets out.
LEMMA EncodedIs ==
    ASSUME NEW header \in [HeaderField -> Int], NEW payload \in Seq(Bytes),
           EncodeFrame(header, payload).error = NoError
    PROVE  /\ FitsUnsigned(header) /\ ValidSampleOffset(header.start_sample)
           /\ header.sample_count <= MaxSamples
           /\ Len(payload) = PayloadBytes(header)
           /\ EncodeFrame(header, payload).value = Packed(header, HeaderSize) \o payload
           /\ Len(Packed(header, HeaderSize) \o payload) <= MaxFrameBytes
<1> DEFINE whole == Packed(header, HeaderSize) \o payload
<1>1. \A code \in {MalformedHeader, FrameTooLarge} : Raise(code).error # NoError
  BY DEF Raise, NoError, MalformedHeader, FrameTooLarge
<1>2. /\ Len(payload) = PayloadBytes(header)
      /\ EncodeFrame(header, payload) = Framed(EncodeHeader(header), payload)
  BY <1>1 DEF EncodeFrame
<1>3. EncodeHeader(header).error = NoError
  BY <1>2 DEF Framed
<1>4. /\ FitsUnsigned(header) /\ ValidSampleOffset(header.start_sample)
      /\ ~(header.sample_count > MaxSamples)
      /\ EncodeHeader(header) = Return(Packed(header, HeaderSize))
  BY <1>1, <1>3 DEF EncodeHeader
<1>5. header.sample_count <= MaxSamples
  <2>1. header.sample_count \in Int /\ MaxSamples \in Nat
    BY HeaderFields, StreamConstants
  <2> QED BY <1>4, <2>1
<1>6. /\ ~(Len(whole) > MaxFrameBytes)
      /\ EncodeFrame(header, payload) = Return(whole)
  <2> DEFINE encoded == EncodeHeader(header)
  <2>1. encoded.error = NoError /\ encoded.value = Packed(header, HeaderSize)
    BY <1>4 DEF Return
  <2>2. Framed(encoded, payload) = IF Len(whole) > MaxFrameBytes THEN Raise(FrameTooLarge)
                                   ELSE Return(whole)
    <3> HIDE DEF encoded
    <3> QED BY <2>1 DEF Framed
  <2> QED BY <1>1, <1>2, <2>2
<1>7. Packed(header, HeaderSize) \in Seq(Bytes)
  <2>1. HeaderSize \in Nat /\ HeaderSize <= UnsignedMax("header_size_bytes")
    BY OffsetIn, FrameAssumption
  <2>2. Values(header, HeaderSize) \in [1..8 -> Nat]
    BY <1>4, <2>1, EncodableFits DEF Fits
  <2> QED BY <2>2, PackedAt
<1>8. Len(whole) <= MaxFrameBytes
  <2>1. Len(whole) \in Nat
    BY <1>7
  <2> QED BY <1>6, <2>1, StreamConstants
<1> QED
  BY <1>2, <1>4, <1>5, <1>6, <1>8 DEF Return

LEMMA SubSeqAt ==
    ASSUME NEW X, NEW s \in Seq(X), NEW n \in Nat, NEW m \in Nat, n + m <= Len(s)
    PROVE  SubSeq(s, n + 1, n + m) = [j \in 1..m |-> s[n + j]]
<1>1. SubSeq(s, n + 1, n + m)
        = [j \in 1..((n + m) - (n + 1) + 1) |-> s[j + (n + 1) - 1]]
  OBVIOUS
<1>2. (n + m) - (n + 1) + 1 = m /\ \A j \in 1..m : j + (n + 1) - 1 = n + j
  OBVIOUS
<1> QED
  BY <1>1, <1>2

\* A frame with this header and payload, as an encoder of this major writes it.
IsFrame(bytes, header, payload) ==
    /\ header \in [HeaderField -> Int] /\ payload \in Seq(Bytes)
    /\ header.protocol_major = ProtocolMajor
    /\ header.sample_count <= MaxSamples
    /\ Len(payload) = PayloadBytes(header)
    /\ Len(bytes) <= MaxFrameBytes
    /\ DecodeFrame(bytes) = Return([header |-> header, payload |-> payload])
    /\ \E headerSize \in Nat :
          /\ Fits(header, headerSize) /\ Begins(bytes, header, headerSize)
          /\ HeaderSize <= headerSize
          /\ Len(bytes) = headerSize + Len(payload)

\* Whatever a header of this major is followed by, up to where it says it
\* ends, a receiver finds the header and the payload.
LEMMA ReadsBackFrame ==
    ASSUME NEW header \in [HeaderField -> Int], NEW payload \in Seq(Bytes),
           NEW extension \in Seq(Bytes), NEW headerSize,
           headerSize = HeaderSize + Len(extension),
           headerSize <= UnsignedMax("header_size_bytes"),
           FitsUnsigned(header), ValidSampleOffset(header.start_sample),
           header.protocol_major = ProtocolMajor,
           header.sample_count <= MaxSamples,
           Len(payload) = PayloadBytes(header),
           headerSize + Len(payload) <= MaxFrameBytes
    PROVE  LET bytes == Packed(header, headerSize) \o extension \o payload
           IN  bytes \in Seq(Bytes) /\ IsFrame(bytes, header, payload)
<1> DEFINE packed == Packed(header, headerSize)
           bytes == packed \o extension \o payload
<1>1. headerSize \in Nat /\ HeaderSize \in Nat /\ Len(extension) \in Nat
      /\ HeaderSize <= headerSize /\ Len(payload) \in Nat
  <2>1. HeaderSize \in Nat /\ Len(extension) \in Nat /\ Len(payload) \in Nat
    BY StreamConstants
  <2> QED BY <2>1
<1>2. Fits(header, headerSize)
  BY <1>1, EncodableFits
<1>3. packed \in Seq(Bytes) /\ Len(packed) = HeaderSize
  BY <1>2, PackedAt DEF Fits
<1> HIDE DEF packed
<1>4. bytes \in Seq(Bytes) /\ Len(bytes) = headerSize + Len(payload)
  <2>1. packed \o extension \in Seq(Bytes) /\ Len(packed \o extension) = headerSize
    BY <1>3, Joined
  <2> QED BY <2>1, Joined
<1>5. \A j \in 1..HeaderSize : bytes[j] = packed[j]
  <2> DEFINE front == packed \o extension
  <2>1. /\ front \in Seq(Bytes) /\ Len(front) = HeaderSize + Len(extension)
        /\ \A j \in 1..HeaderSize : front[j] = packed[j]
    BY <1>3, Joined
  <2>2. bytes = front \o payload
    OBVIOUS
  <2> HIDE DEF front, bytes
  <2>3. \A j \in 1..Len(front) : (front \o payload)[j] = front[j]
    BY <2>1, Joined
  <2>4. \A j \in 1..HeaderSize : j \in 1..Len(front)
    BY <1>1, <2>1
  <2> QED BY <2>1, <2>2, <2>3, <2>4
<1>6. SubSeq(bytes, headerSize + 1, Len(bytes)) = payload
  <2> DEFINE front == packed \o extension
  <2>1. front \in Seq(Bytes) /\ Len(front) = headerSize /\ bytes = front \o payload
    <3>1. front \in Seq(Bytes) /\ Len(front) = HeaderSize + Len(extension)
      BY <1>3, Joined
    <3> QED BY <3>1
  <2> HIDE DEF front, bytes
  <2>2. \A j \in 1..Len(payload) : bytes[headerSize + j] = payload[j]
    <3>1. \A j \in 1..Len(payload) : (front \o payload)[Len(front) + j] = payload[j]
      BY <2>1, Joined
    <3> QED BY <2>1, <3>1
  <2>3. SubSeq(bytes, headerSize + 1, headerSize + Len(payload))
          = [j \in 1..Len(payload) |-> bytes[headerSize + j]]
    <3>1. bytes \in Seq(Bytes) /\ headerSize + Len(payload) <= Len(bytes)
      BY <1>1, <1>4
    <3>2. headerSize \in Nat /\ Len(payload) \in Nat
      BY <1>1
    <3> QED BY <3>1, <3>2, SubSeqAt, SMTT(20)
  <2>4. [j \in 1..Len(payload) |-> payload[j]] = payload
    OBVIOUS
  <2> QED BY <1>4, <2>2, <2>3, <2>4
<1> HIDE DEF bytes
<1>7. Begins(bytes, header, headerSize)
  BY <1>1, <1>4, <1>5 DEF Begins, packed
<1>8. DecodeFrame(bytes)
        = Return([ header |-> header, payload |-> SubSeq(bytes, headerSize + 1, Len(bytes)) ])
  <2>1. Len(bytes) <= MaxFrameBytes /\ headerSize <= Len(bytes)
        /\ Len(bytes) - headerSize = PayloadBytes(header)
    BY <1>1, <1>4
  <2> QED BY <1>1, <1>2, <1>7, <2>1, DecodeIs
<1>9. IsFrame(bytes, header, payload)
  BY <1>1, <1>2, <1>4, <1>6, <1>7, <1>8 DEF IsFrame
<1> QED
  BY <1>4, <1>9 DEF bytes, packed

\* What the encoder lets out under another major is refused as that.
LEMMA ForeignIsRefused ==
    ASSUME NEW header \in [HeaderField -> Int], NEW payload \in Seq(Bytes),
           header.protocol_major # ProtocolMajor,
           EncodeFrame(header, payload).error = NoError
    PROVE  DecodeFrame(EncodeFrame(header, payload).value).error = UnsupportedMajor
<1> DEFINE packed == Packed(header, HeaderSize)
           bytes == packed \o payload
           raw == Raw(packed \o payload)
<1>1. /\ FitsUnsigned(header) /\ ValidSampleOffset(header.start_sample)
      /\ EncodeFrame(header, payload).value = bytes
      /\ Len(bytes) <= MaxFrameBytes
  BY EncodedIs
<1>2. HeaderSize \in Nat /\ MaxFrameBytes \in Nat
      /\ HeaderSize <= UnsignedMax("header_size_bytes")
  BY StreamConstants, FrameAssumption
<1>3. Fits(header, HeaderSize)
  BY <1>1, <1>2, EncodableFits
<1>4. packed \in Seq(Bytes) /\ Len(packed) = HeaderSize
  BY <1>3, PackedAt DEF Fits
<1>5. bytes \in Seq(Bytes) /\ HeaderSize <= Len(bytes) /\ Len(bytes) \in Nat
      /\ \A j \in 1..HeaderSize : bytes[j] = packed[j]
  <2> HIDE DEF packed
  <2>1. /\ bytes \in Seq(Bytes) /\ Len(bytes) = Len(packed) + Len(payload)
        /\ \A j \in 1..Len(packed) : bytes[j] = packed[j]
    BY <1>4, Joined
  <2>2. Len(payload) \in Nat
    OBVIOUS
  <2> QED BY <1>2, <1>4, <2>1, <2>2
<1>6. Begins(bytes, header, HeaderSize)
  BY <1>5 DEF Begins
<1>7. raw.protocol_major # ProtocolMajor
  <2>1. "protocol_major" \in HeaderField
    BY HeaderFields
  <2>2. \A f \in HeaderField : Raw(bytes)[f] = header[f]
    <3> HIDE DEF bytes
    <3> QED BY <1>3, <1>6, RawIs
  <2> QED BY <2>1, <2>2
<1>8. DecodeHeader(bytes) = Raise(UnsupportedMajor)
  <2> HIDE DEF packed
  <2>1. ~(Len(bytes) < HeaderSize)
    BY <1>2, <1>5
  <2>2. Validated(raw, bytes) = Raise(UnsupportedMajor)
    <3> HIDE DEF raw
    <3> QED BY <1>7 DEF Validated
  <2> QED BY <2>1, <2>2 DEF DecodeHeader
<1>9. Raise(UnsupportedMajor).error = UnsupportedMajor /\ UnsupportedMajor # NoError
  BY DEF Raise, NoError, UnsupportedMajor
<1>10. Unframed(DecodeHeader(bytes), bytes) = Raise(UnsupportedMajor)
  <2> HIDE DEF bytes
  <2> QED BY <1>8, <1>9 DEF Unframed
<1>11. ~(Len(bytes) > MaxFrameBytes)
  BY <1>1, <1>2, <1>5
<1> QED
  BY <1>1, <1>9, <1>10, <1>11 DEF DecodeFrame

\* A frame that is cut short is refused.
LEMMA CutIsRefused ==
    ASSUME NEW bytes, NEW header, NEW payload, IsFrame(bytes, header, payload),
           NEW size \in Nat, size < Len(bytes)
    PROVE  DecodeFrame(SubSeq(bytes, 1, size)).error # NoError
<1> DEFINE cut == SubSeq(bytes, 1, size)
           raw == Raw(SubSeq(bytes, 1, size))
<1>1. PICK headerSize \in Nat :
         /\ Fits(header, headerSize) /\ Begins(bytes, header, headerSize)
         /\ HeaderSize <= headerSize
         /\ Len(bytes) = headerSize + Len(payload)
  BY DEF IsFrame
<1>2. /\ header \in [HeaderField -> Int] /\ Len(payload) = PayloadBytes(header)
      /\ header.protocol_major = ProtocolMajor
  BY DEF IsFrame
<1>3. bytes \in Seq(Bytes) /\ Len(bytes) \in Nat /\ HeaderSize \in Nat
      /\ \A j \in 1..HeaderSize : bytes[j] = Packed(header, headerSize)[j]
  BY <1>1, StreamConstants DEF Begins
<1>4. cut \in Seq(Bytes) /\ Len(cut) = size /\ \A j \in 1..size : cut[j] = bytes[j]
  BY <1>3
<1>5. \A code \in {MalformedHeader, FrameTooLarge, UnsupportedMajor} :
         Raise(code).error # NoError
  BY DEF Raise, NoError, MalformedHeader, FrameTooLarge, UnsupportedMajor
<1>6. Unframed(DecodeHeader(cut), cut).error # NoError
  <2>1. CASE size < HeaderSize
    <3>1. DecodeHeader(cut) = Raise(MalformedHeader)
      BY <1>4, <2>1 DEF DecodeHeader
    <3> QED BY <1>5, <3>1 DEF Unframed
  <2>2. CASE ~(size < HeaderSize)
    <3>1. DecodeHeader(cut) = Validated(raw, cut)
      BY <1>4, <2>2 DEF DecodeHeader
    <3>2. Begins(cut, header, headerSize)
      <4> HIDE DEF cut
      <4> QED BY <1>3, <1>4, <2>2 DEF Begins
    <3>3. /\ \A f \in HeaderField : raw[f] = header[f]
          /\ raw["header_size_bytes"] = headerSize
      <4>1. /\ \A f \in HeaderField : Raw(cut)[f] = header[f]
            /\ Raw(cut)["header_size_bytes"] = headerSize
        <5> HIDE DEF cut
        <5> QED BY <1>1, <3>2, RawIs
      <4> QED BY <4>1
    <3> DEFINE decoded == Validated(raw, cut)
    <3>4. \/ \E code \in {MalformedHeader, FrameTooLarge, UnsupportedMajor} :
                decoded = Raise(code)
          \/ /\ headerSize <= size
             /\ decoded = Return([header |-> header, payload_offset |-> headerSize])
      <4>1. [f \in HeaderField |-> raw[f]] = header
        BY <1>2, <3>3
      <4>2. HeaderSizeFits(raw, cut) => headerSize <= size
        BY <1>3, <1>4, <3>3 DEF HeaderSizeFits
      <4>3. PayloadOffset(raw) = headerSize
        BY <3>3 DEF PayloadOffset
      <4> HIDE DEF raw, cut
      <4> QED BY <4>1, <4>2, <4>3 DEF Validated
    <3>5. CASE \E code \in {MalformedHeader, FrameTooLarge, UnsupportedMajor} :
                  decoded = Raise(code)
      <4> HIDE DEF decoded
      <4>1. decoded.error # NoError
        BY <1>5, <3>5
      <4>2. Unframed(decoded, cut) = decoded
        BY <4>1 DEF Unframed
      <4> QED BY <3>1, <4>1, <4>2 DEF decoded
    <3>6. CASE /\ headerSize <= size
               /\ decoded = Return([header |-> header, payload_offset |-> headerSize])
      <4> DEFINE rest == SubSeq(cut, headerSize + 1, Len(cut))
      <4>1. Len(rest) = size - headerSize
        <5> HIDE DEF cut
        <5> QED BY <1>3, <1>4, <3>6
      <4>2. Len(rest) # PayloadBytes(header)
        <5>1. Len(payload) = Len(bytes) - headerSize
          BY <1>1, <1>3
        <5> HIDE DEF rest
        <5> QED BY <1>2, <1>3, <4>1, <5>1
      <4>3. decoded.value.header = header /\ decoded.value.payload_offset = headerSize
            /\ decoded.error = NoError
        BY <3>6 DEF Return
      <4> HIDE DEF decoded, cut
      <4>4. Unframed(decoded, cut) = Raise(MalformedHeader)
        BY <4>2, <4>3 DEF Unframed, rest
      <4> QED BY <1>5, <3>1, <4>4 DEF decoded
    <3> QED BY <3>4, <3>5, <3>6
  <2> QED BY <2>1, <2>2
<1> QED
  BY <1>5, <1>6 DEF DecodeFrame

-----------------------------------------------------------------------------
(* Stream ordinals.                                                        *)

LEMMA DigitsAre == \A n \in Nat : Numeral(Digits(n), Radix, n)
<1> DEFINE d == CHOOSE f : DigitsOf(f, Radix)
<1>1. \A n \in Nat : Digits(n) = d[n]
  BY DEF Digits, DigitsOf
<1>2. Radix \in Nat \ {0, 1}
  BY IdentifiersAssumption
<1>3. DigitsOf(d, Radix)
  BY <1>2, DigitsChosen
<1> HIDE DEF d
<1> QED
  BY <1>1, <1>2, <1>3, DigitsMean

\* Zeros in front change nothing.
LEMMA PaddingMeans ==
    ASSUME NEW s, NEW n, Numeral(s, Radix, n), NEW width \in Nat
    PROVE  Numeral(Padded(s, width), Radix, n)
<1> DEFINE z == IF Len(s) < width THEN width - Len(s) ELSE 0
<1>1. z \in Nat /\ Radix \in Nat \ {0, 1}
  BY IdentifiersAssumption DEF Numeral
<1>2. Padded(s, width) = [k \in 1..z |-> 0] \o s
  BY DEF Padded
<1> HIDE DEF z
<1> QED
  BY <1>1, <1>2, ZerosMean

LEMMA ParsingIs ==
    ASSUME NEW identifier, NEW n, Numeral(identifier.digits, Radix, n)
    PROVE  ParseOrdinal(identifier) = n
<1> DEFINE s == identifier.digits
           value == CHOOSE f : Horner(f, s, Radix)
<1>1. PICK v : Evaluates(v, s, Radix) /\ v[Len(s)] = n
  BY DEF Numeral
<1>2. s \in Seq(Nat) /\ Radix \in Nat
  BY IdentifiersAssumption DEF Numeral
<1>3. ParseOrdinal(identifier) = value[Len(s)]
  BY DEF ParseOrdinal, Horner
<1> HIDE DEF s
<1>4. Horner(value, s, Radix)
  BY <1>2, HornerReads
<1> HIDE DEF value
<1>5. Evaluates(value, s, Radix)
  BY <1>2, <1>4, HornerReads
<1> QED
  BY <1>1, <1>2, <1>3, <1>5, ReadingsAgree

\* The ordinal that the n-th identifier of an allocator stands for.
OrdinalOf(prefix, n) == IF prefix = "speaker-" THEN n + 1 ELSE n

LEMMA AllocatedIs ==
    ASSUME NEW prefix \in Prefix, NEW n \in Nat
    PROVE  LET id == Allocate(prefix, n)
           IN  id.prefix = prefix /\ Numeral(id.digits, Radix, OrdinalOf(prefix, n))
<1> DEFINE m == OrdinalOf(prefix, n)
           s == IF prefix = "speaker-" THEN Digits(m) ELSE Padded(Digits(m), Pad(prefix))
<1>1. Allocate(prefix, n) = [prefix |-> prefix, digits |-> s]
  BY DEF Allocate, Format, OrdinalOf
<1>2. m \in Nat /\ Pad(prefix) \in Nat
  BY IdentifiersAssumption DEF OrdinalOf, Pad
<1> HIDE DEF m
<1>3. Numeral(s, Radix, m)
  BY <1>2, DigitsAre, PaddingMeans
<1> HIDE DEF s
<1> QED
  BY <1>1, <1>3 DEF m

\* An allocator "never returns the same value twice", nor one that another
\* allocator of the session returns, and parse_ordinal undoes the formatting:
\* also of the ordinals that have outgrown their padding.
THEOREM IdentifiersAreUnique ==
    \A prefix \in Prefix, n \in Nat :
        /\ ParseOrdinal(Allocate(prefix, n)) = OrdinalOf(prefix, n)
        /\ \A other \in Prefix, m \in Nat :
              Allocate(other, m) = Allocate(prefix, n) => other = prefix /\ m = n
<1>1. ASSUME NEW prefix \in Prefix, NEW n \in Nat
      PROVE  ParseOrdinal(Allocate(prefix, n)) = OrdinalOf(prefix, n)
  BY AllocatedIs, ParsingIs
<1>2. ASSUME NEW prefix \in Prefix, NEW n \in Nat, NEW other \in Prefix, NEW m \in Nat,
             Allocate(other, m) = Allocate(prefix, n)
      PROVE  other = prefix /\ m = n
  <2>1. other = prefix
    BY <1>2, AllocatedIs
  <2>2. OrdinalOf(prefix, m) = OrdinalOf(prefix, n)
    BY <1>1, <1>2, <2>1
  <2> QED BY <2>1, <2>2 DEF OrdinalOf
<1> QED
  BY <1>1, <1>2

LEMMA OrdinalIs == \A n \in Nat : ParseOrdinal(Allocate("stream-", n)) = n
  BY IdentifiersAreUnique DEF OrdinalOf, Prefix

-----------------------------------------------------------------------------
(* Samples.                                                                *)

PayloadOf(stream, start, count) ==
    FlattenSeq([k \in 1..count |-> Captured(stream, start + k - 1)])

LEMMA CapturedType ==
    ASSUME NEW stream \in Nat, NEW position \in Nat
    PROVE  Captured(stream, position) \in [1..BytesPerSample -> Bytes]
<1> DEFINE n == position + stream
           d == Power[BytesPerSample]
<1>1. n \in Nat /\ d \in Nat \ {0} /\ BytesPerSample \in Nat
  BY StreamConstants, PowerType
<1> HIDE DEF n, d
<1>2. n % d \in Nat
  <2>1. \E q \in Nat, r \in 0..(d - 1) : n % d = r
    BY <1>1, Divides
  <2> QED BY <1>1, <2>1
<1>3. Captured(stream, position) = Pack(n % d, BytesPerSample)
  BY DEF Captured, n, d
<1> QED
  BY <1>1, <1>2, <1>3, PackType

\* A payload is its samples, one after the other.
LEMMA SamplesAre ==
    ASSUME NEW stream \in Nat, NEW start \in Nat, NEW count \in Nat
    PROVE  /\ PayloadOf(stream, start, count) \in Seq(Bytes)
           /\ \A k \in 1..count :
                 SubSeq(PayloadOf(stream, start, count),
                        (k - 1) * BytesPerSample + 1, k * BytesPerSample)
                   = Captured(stream, start + k - 1)
<1> DEFINE B == BytesPerSample
           ss == [k \in 1..count |-> Captured(stream, start + k - 1)]
           off == [k \in 0..count |-> k * B]
           payload == PayloadOf(stream, start, count)
<1>1. B \in Nat \ {0}
  BY StreamConstants
<1>2. ASSUME NEW k \in 1..count PROVE ss[k] \in [1..B -> Bytes]
  <2>1. start + k - 1 \in Nat
    OBVIOUS
  <2> QED BY <2>1, CapturedType
<1>3. ASSUME NEW k \in 1..count PROVE ss[k] \in Seq(Bytes) /\ Len(ss[k]) = B
  <2> DEFINE x == ss[k]
  <2>1. x \in [1..B -> Bytes]
    BY <1>2
  <2> HIDE DEF x, B
  <2>2. x \in Seq(Bytes) /\ Len(x) = B
    BY <1>1, <2>1
  <2> QED BY <2>2 DEF x
<1>4. ss \in Seq(Seq(Bytes)) /\ Len(ss) = count
  <2> DEFINE X == Seq(Bytes)
  <2>1. \A k \in 1..count : ss[k] \in X
    BY <1>3
  <2> HIDE DEF X
  <2>2. ss \in [1..count -> X]
    BY <2>1
  <2> HIDE DEF ss
  <2>3. ss \in Seq(X) /\ Len(ss) = count
    BY <2>2
  <2> QED BY <2>3 DEF X
<1>5. Cumulates(off, ss)
  <2>1. off[0] = 0
    BY <1>1
  <2>2. ASSUME NEW k \in 1..count PROVE off[k] = off[k - 1] + Len(ss[k])
    <3>1. k \in 0..count /\ k - 1 \in 0..count
      OBVIOUS
    <3>2. off[k] = k * B /\ off[k - 1] = (k - 1) * B
      BY <3>1
    <3>3. k * B = (k - 1) * B + B
      BY <1>1
    <3> QED BY <1>3, <3>2, <3>3
  <2> HIDE DEF ss, off
  <2> QED BY <1>4, <2>1, <2>2 DEF Cumulates
<1>6. payload = FlattenSeq(ss)
  BY DEF PayloadOf
<1> HIDE DEF payload, ss, off
<1>7. payload \in Seq(Bytes) /\ LaidOut(payload, ss, off)
  BY <1>4, <1>5, <1>6, FlattenAt
<1>8. ASSUME NEW k \in 1..count
      PROVE  SubSeq(payload, (k - 1) * B + 1, k * B) = Captured(stream, start + k - 1)
  <2> DEFINE from == (k - 1) * B
             x == Captured(stream, start + k - 1)
  <2>1. k \in 0..count /\ k - 1 \in 0..count /\ count \in 0..count
    OBVIOUS
  <2>2. from \in Nat /\ k * B = from + B
    BY <1>1
  <2>3. off[k - 1] = from /\ ss[k] = x /\ x \in [1..B -> Bytes] /\ Len(ss[k]) = B
    BY <1>2, <1>3, <2>1 DEF off, ss
  <2>4. off[count] \in Nat /\ Len(payload) = off[count]
    BY <1>4, <1>7, <2>1 DEF LaidOut
  <2> HIDE DEF from, x
  <2>5. \A j \in 1..B : from + j \in 1..off[count] /\ payload[from + j] = x[j]
    BY <1>4, <1>7, <2>3 DEF LaidOut
  <2> HIDE DEF B
  <2>6. from + B <= Len(payload)
    BY <1>1, <2>4, <2>5
  <2>7. SubSeq(payload, from + 1, from + B) = [j \in 1..B |-> payload[from + j]]
    <3>1. payload \in Seq(Bytes)
      BY <1>7
    <3> QED BY <1>1, <2>2, <2>6, <3>1, SubSeqAt
  <2>8. [j \in 1..B |-> payload[from + j]] = x
    BY <2>3, <2>5
  <2> QED BY <2>2, <2>7, <2>8 DEF from, x
<1> QED
  BY <1>7, <1>8 DEF payload

-----------------------------------------------------------------------------
(* The connection.                                                         *)

PreviousEnd == previous.start_sample + previous.sample_count

Sample == {Missing} \cup Seq(Bytes)

\* A frame sent in some stream so far: its bytes are readable, its ordinal is
\* that of its stream and its payload is what that stream captured there.
Sent ==
    {e \in [ stream : Nat, bytes : Seq(Bytes), header : [HeaderField -> Int],
             payload : Seq(Bytes) ] :
        /\ IsFrame(e.bytes, e.header, e.payload)
        /\ e.header.stream_ordinal = e.stream - 1
        /\ e.header.start_sample \in 0..MaxSampleOffset
        /\ e.header.sample_count \in Nat
        /\ e.payload = PayloadOf(e.stream, e.header.start_sample, e.header.sample_count)}

Start(k) == wire[k].header.start_sample
End(k) == wire[k].header.start_sample + wire[k].header.sample_count

ClientInv ==
    /\ streams \in 0..MaxStreams
    /\ peer.major = ProtocolMajor
    /\ captured \in 0..MaxCapture
    /\ sequence \in Nat
    /\ wire \in Seq(Sent)
    /\ \A k \in DOMAIN wire : wire[k].stream <= streams

GatewayInv ==
    /\ connection \in {"none", "open", "refused"} \cup FatalCodes
    /\ connection = "open" => streams # 0
    /\ arrived \in 0..Len(wire)
    /\ previous \in [start_sample : 0..MaxSampleOffset, sample_count : Nat]
    /\ tape \in Seq(Sample)
    /\ Len(tape) = PreviousEnd
    /\ disturbed \in BOOLEAN

\* The frames of the stream go up, and as long as nothing disturbed it those
\* that have not arrived begin where the recording ends or later.
OrderInv ==
    /\ \A k \in DOMAIN wire : k > arrived => wire[k].stream = streams
    /\ \A k \in DOMAIN wire : wire[k].stream = streams => End(k) <= captured
    /\ \A j, k \in DOMAIN wire :
          j < k /\ wire[j].stream = streams /\ wire[k].stream = streams => End(j) <= Start(k)
    /\ ~disturbed => /\ PreviousEnd <= captured
                     /\ \A k \in DOMAIN wire : k > arrived => PreviousEnd <= Start(k)

StreamInv == ClientInv /\ GatewayInv /\ OrderInv /\ NoFalseAlarm

LEMMA NotFatal == {"none", "open", "refused"} \cap FatalCodes = {}
BY DEF FatalCodes, UnsupportedMajor, MalformedHeader, FrameTooLarge, SampleOverlap

LEMMA StreamInit == Init => StreamInv
<1> SUFFICES ASSUME Init PROVE StreamInv
  OBVIOUS
<1>1. ClientInv
  BY StreamAssumption DEF Init, ClientInv
<1>2. GatewayInv
  <2>1. previous \in [start_sample : 0..MaxSampleOffset, sample_count : Nat] /\ PreviousEnd = 0
    BY StreamConstants DEF Init, PreviousEnd
  <2>2. tape \in Seq(Sample) /\ Len(tape) = 0 /\ arrived \in 0..Len(wire)
    BY DEF Init
  <2> QED BY <2>1, <2>2 DEF Init, GatewayInv
<1>3. OrderInv
  BY DEF Init, OrderInv, PreviousEnd
<1>4. NoFalseAlarm
  BY NotFatal DEF Init, NoFalseAlarm
<1> QED
  BY <1>1, <1>2, <1>3, <1>4 DEF StreamInv

LEMMA ConnectKeeps ==
    ASSUME StreamInv, NEW version, Connect(version)
    PROVE  StreamInv'
<1>1. ClientInv'
  <2>1. /\ streams' = streams + 1 /\ streams < MaxStreams /\ peer' = version
        /\ version.major = ProtocolMajor
        /\ captured' = 0 /\ sequence' = 0 /\ wire' = wire
    BY DEF Connect, IsMajorCompatible
  <2>2. /\ streams \in 0..MaxStreams /\ MaxStreams \in Nat /\ MaxCapture \in Nat
        /\ wire \in Seq(Sent) /\ \A k \in DOMAIN wire : wire[k].stream <= streams
    BY StreamAssumption DEF StreamInv, ClientInv
  <2>3. ASSUME NEW k \in DOMAIN wire PROVE wire[k].stream <= streams + 1
    <3>1. wire[k] \in Sent
      BY <2>2
    <3>2. wire[k].stream \in Nat
      BY <3>1 DEF Sent
    <3> QED BY <2>2, <3>2
  <2> QED BY <2>1, <2>2, <2>3 DEF ClientInv
<1>2. GatewayInv'
  <2>1. /\ previous' = [start_sample |-> 0, sample_count |-> 0]
        /\ tape' = <<>> /\ arrived' = Len(wire) /\ wire' = wire
        /\ disturbed' = FALSE /\ connection' = "open" /\ streams' = streams + 1
    BY DEF Connect
  <2>2. previous' \in [start_sample : 0..MaxSampleOffset, sample_count : Nat] /\ PreviousEnd' = 0
    BY <2>1, StreamConstants DEF PreviousEnd
  <2>3. tape' \in Seq(Sample) /\ Len(tape') = 0
    BY <2>1
  <2>4. arrived' \in 0..Len(wire') /\ streams' # 0
    BY <2>1 DEF StreamInv, ClientInv
  <2> QED BY <2>1, <2>2, <2>3, <2>4 DEF GatewayInv
<1>3. OrderInv'
  <2>1. \A k \in DOMAIN wire' : ~(k > arrived') /\ wire'[k].stream # streams'
    <3> SUFFICES ASSUME NEW k \in DOMAIN wire
                 PROVE  ~(k > Len(wire)) /\ wire[k].stream # streams + 1
      BY DEF Connect
    <3>1. wire \in Seq(Sent) /\ k \in 1..Len(wire) /\ wire[k].stream <= streams /\ streams \in Nat
      BY DEF StreamInv, ClientInv
    <3>2. wire[k].stream \in Nat
      BY <3>1 DEF Sent
    <3> QED BY <3>1, <3>2
  <2>2. PreviousEnd' = 0 /\ captured' = 0
    BY DEF Connect, PreviousEnd
  <2> QED BY <2>1, <2>2 DEF OrderInv
<1>4. NoFalseAlarm'
  BY NotFatal DEF Connect, NoFalseAlarm
<1> QED
  BY <1>1, <1>2, <1>3, <1>4 DEF StreamInv

LEMMA RefuseKeeps ==
    ASSUME StreamInv, NEW version, RefusePeer(version)
    PROVE  StreamInv'
<1>1. UNCHANGED <<streams, peer, captured, sequence, wire, arrived, previous, tape, disturbed>>
      /\ connection' = "refused"
  BY DEF RefusePeer, client
<1>2. ClientInv' /\ OrderInv'
  BY <1>1 DEF StreamInv, ClientInv, OrderInv, Start, End, PreviousEnd
<1>3. GatewayInv'
  BY <1>1 DEF StreamInv, GatewayInv, PreviousEnd
<1>4. NoFalseAlarm'
  BY <1>1, NotFatal DEF NoFalseAlarm
<1> QED
  BY <1>2, <1>3, <1>4 DEF StreamInv

LEMMA AdvanceIs ==
    ASSUME StreamInv, NEW count \in Nat, Advance(count)
    PROVE  /\ captured' = captured + count /\ captured' \in 0..MaxCapture
           /\ captured \in Nat /\ captured <= captured'
           /\ connection = "open" /\ streams \in Nat \ {0}
<1>1. captured \in 0..MaxCapture /\ MaxCapture \in Nat /\ streams \in 0..MaxStreams
      /\ MaxStreams \in Nat /\ (connection = "open" => streams # 0)
  BY StreamAssumption DEF StreamInv, ClientInv, GatewayInv
<1> QED
  BY <1>1 DEF Advance

LEMMA EntriesAre ==
    ASSUME StreamInv
    PROVE  /\ wire \in Seq(Sent) /\ Len(wire) \in Nat /\ DOMAIN wire = 1..Len(wire)
           /\ arrived \in Nat /\ arrived <= Len(wire)
           /\ PreviousEnd \in Nat
           /\ \A k \in DOMAIN wire :
                 /\ wire[k] \in Sent /\ wire[k].stream \in Nat /\ wire[k].stream <= streams
                 /\ Start(k) \in Nat /\ End(k) \in Nat /\ Start(k) <= End(k)
<1>1. /\ wire \in Seq(Sent) /\ Len(wire) \in Nat /\ DOMAIN wire = 1..Len(wire)
      /\ arrived \in 0..Len(wire)
      /\ \A k \in DOMAIN wire : wire[k].stream <= streams
  BY DEF StreamInv, ClientInv, GatewayInv
<1>2. PreviousEnd \in Nat
  BY StreamConstants DEF StreamInv, GatewayInv, PreviousEnd
<1>3. ASSUME NEW k \in DOMAIN wire
      PROVE  /\ wire[k] \in Sent /\ wire[k].stream \in Nat
             /\ Start(k) \in Nat /\ End(k) \in Nat /\ Start(k) <= End(k)
  <2>1. wire[k] \in Sent
    BY <1>1
  <2>2. /\ wire[k].stream \in Nat /\ wire[k].header.start_sample \in Nat
        /\ wire[k].header.sample_count \in Nat
    BY <2>1, StreamConstants DEF Sent
  <2> QED BY <2>1, <2>2 DEF Start, End
<1> QED
  BY <1>1, <1>2, <1>3

\* Samples that are captured and not sent.
LEMMA LostKeeps ==
    ASSUME StreamInv, NEW count \in Nat, Advance(count),
           UNCHANGED <<streams, peer, sequence, wire, gateway, arrived, disturbed>>
    PROVE  StreamInv'
<1>1. captured \in Nat /\ captured' \in 0..MaxCapture /\ captured <= captured' /\ captured' \in Nat
  BY AdvanceIs
<1>2. UNCHANGED <<connection, previous, tape>>
  BY DEF gateway
<1>3. ClientInv'
  BY <1>1 DEF StreamInv, ClientInv
<1>4. GatewayInv' /\ NoFalseAlarm'
  BY <1>2 DEF StreamInv, GatewayInv, NoFalseAlarm, PreviousEnd
<1>5. OrderInv'
  <2>1. PreviousEnd' = PreviousEnd /\ \A k \in DOMAIN wire : Start(k)' = Start(k) /\ End(k)' = End(k)
    BY <1>2 DEF PreviousEnd, Start, End
  <2>2. ASSUME NEW k \in DOMAIN wire, wire[k].stream = streams PROVE End(k) <= captured'
    <3>1. End(k) <= captured /\ End(k) \in Nat
      BY <2>2, EntriesAre DEF StreamInv, OrderInv
    <3> QED BY <1>1, <3>1
  <2>3. ~disturbed => PreviousEnd <= captured'
    <3>1. (~disturbed => PreviousEnd <= captured) /\ PreviousEnd \in Nat
      BY EntriesAre DEF StreamInv, OrderInv
    <3> QED BY <1>1, <3>1
  <2> QED BY <2>1, <2>2, <2>3 DEF StreamInv, OrderInv
<1> QED
  BY <1>3, <1>4, <1>5 DEF StreamInv

\* What a client of this major sends is a frame, also if its header is longer.
LEMMA FrameOf ==
    ASSUME NEW header \in [HeaderField -> Int], NEW payload \in Seq(Bytes),
           header.protocol_major = ProtocolMajor,
           EncodedByPeer(header, payload).error = NoError
    PROVE  LET bytes == EncodedByPeer(header, payload).value
           IN  /\ bytes \in Seq(Bytes) /\ IsFrame(bytes, header, payload)
               /\ header.start_sample \in 0..MaxSampleOffset
<1>1. EncodeFrame(header, payload).error = NoError
  BY DEF EncodedByPeer
<1>2. /\ FitsUnsigned(header) /\ ValidSampleOffset(header.start_sample)
      /\ header.sample_count <= MaxSamples
      /\ Len(payload) = PayloadBytes(header)
      /\ EncodeFrame(header, payload).value = Packed(header, HeaderSize) \o payload
      /\ Len(Packed(header, HeaderSize) \o payload) <= MaxFrameBytes
  BY <1>1, EncodedIs
<1>3. header.start_sample \in 0..MaxSampleOffset
  <2>1. header.start_sample \in Int /\ MaxSampleOffset \in Nat
    BY HeaderFields, StreamConstants
  <2> QED BY <1>2, <2>1 DEF ValidSampleOffset
<1>4. \A n \in {HeaderSize, HeaderSize + 1} :
         /\ n \in Nat /\ n <= UnsignedMax("header_size_bytes")
         /\ Packed(header, n) \in Seq(Bytes) /\ Len(Packed(header, n)) = HeaderSize
  <2> SUFFICES ASSUME NEW n \in {HeaderSize, HeaderSize + 1}
               PROVE  /\ n \in Nat /\ n <= UnsignedMax("header_size_bytes")
                      /\ Packed(header, n) \in Seq(Bytes) /\ Len(Packed(header, n)) = HeaderSize
    OBVIOUS
  <2>1. n \in Nat /\ n <= UnsignedMax("header_size_bytes")
    BY StreamConstants, FrameAssumption
  <2>2. Values(header, n) \in [1..8 -> Nat]
    BY <1>2, <2>1, EncodableFits DEF Fits
  <2> QED BY <2>1, <2>2, PackedAt
<1>5. CASE IsForwardMinor(peer)
  <2> DEFINE one == <<1>>
             n == HeaderSize + 1
  <2>1. one \in Seq(Bytes) /\ Len(one) = 1
    BY ByteType DEF Bytes
  <2>2. n + Len(payload) <= MaxFrameBytes
    <3>1. header.sample_count * BytesPerSample <= MaxSamples * BytesPerSample
      <4>1. header.sample_count \in Int /\ MaxSamples \in Nat /\ BytesPerSample \in Nat
        BY HeaderFields, StreamConstants
      <4>2. (MaxSamples - header.sample_count) * BytesPerSample >= 0
        <5>1. \A x, y \in Nat : x * y >= 0
          OBVIOUS
        <5>2. MaxSamples - header.sample_count \in Nat
          BY <1>2, <4>1
        <5> QED BY <4>1, <5>1, <5>2
      <4> QED BY <4>1, <4>2
    <3>2. header.sample_count * BytesPerSample \in Int /\ MaxSamples * BytesPerSample \in Int
      <4>1. \A x, y \in Int : x * y \in Int
        OBVIOUS
      <4>2. header.sample_count \in Int
        BY HeaderFields
      <4>3. MaxSamples \in Int /\ BytesPerSample \in Int
        BY StreamConstants
      <4> QED BY <4>1, <4>2, <4>3
    <3> QED BY <1>2, <3>1, <3>2, StreamConstants DEF PayloadBytes
  <2>3. EncodedByPeer(header, payload).value = Packed(header, n) \o one \o payload
    BY <1>1, <1>5 DEF EncodedByPeer, Return
  <2> HIDE DEF one, n
  <2>4. LET bytes == Packed(header, n) \o one \o payload
        IN  bytes \in Seq(Bytes) /\ IsFrame(bytes, header, payload)
    <3>1. n = HeaderSize + Len(one) /\ n <= UnsignedMax("header_size_bytes")
      BY <1>4, <2>1 DEF n
    <3> QED BY <1>2, <2>1, <2>2, <3>1, ReadsBackFrame
  <2> QED BY <1>3, <2>3, <2>4
<1>6. CASE ~IsForwardMinor(peer)
  <2> DEFINE none == <<>>
             packed == Packed(header, HeaderSize)
  <2>1. none \in Seq(Bytes) /\ Len(none) = 0
    OBVIOUS
  <2>2. packed \o none = packed /\ packed \in Seq(Bytes) /\ Len(packed) = HeaderSize
    <3>1. packed \in Seq(Bytes) /\ Len(packed) = HeaderSize
      BY <1>4
    <3> HIDE DEF packed
    <3>2. packed \o <<>> = packed
      BY <3>1
    <3> QED BY <3>1, <3>2
  <2>3. HeaderSize + Len(payload) <= MaxFrameBytes
    <3>1. Len(packed \o payload) = HeaderSize + Len(payload)
      <4> HIDE DEF packed
      <4> QED BY <2>2, Joined
    <3> QED BY <1>2, <3>1
  <2>4. EncodedByPeer(header, payload).value = packed \o none \o payload
    BY <1>2, <1>6, <2>2 DEF EncodedByPeer
  <2> HIDE DEF none
  <2>5. LET bytes == Packed(header, HeaderSize) \o none \o payload
        IN  bytes \in Seq(Bytes) /\ IsFrame(bytes, header, payload)
    <3>1. HeaderSize = HeaderSize + Len(none) /\ HeaderSize <= UnsignedMax("header_size_bytes")
      BY <1>4, <2>1
    <3> HIDE DEF packed
    <3> QED BY <1>2, <2>1, <2>3, <3>1, ReadsBackFrame
  <2> QED BY <1>3, <2>4, <2>5
<1> QED
  BY <1>5, <1>6

\* What a client puts into a header and behind it.
LEMMA HeaderIs ==
    ASSUME StreamInv, NEW count \in Nat, streams # 0
    PROVE  LET header == Header(count)
               payload == Payload(captured, count)
           IN  /\ header \in [HeaderField -> Int]
               /\ header.protocol_major = ProtocolMajor
               /\ header.stream_ordinal = streams - 1
               /\ header.start_sample = captured /\ header.sample_count = count
               /\ payload = PayloadOf(streams, captured, count)
               /\ payload \in Seq(Bytes)
<1> DEFINE header == Header(count)
           payload == Payload(captured, count)
<1>0. captured \in Nat /\ streams \in Nat \ {0}
  <2>1. /\ captured \in 0..MaxCapture /\ MaxCapture \in Nat
        /\ streams \in 0..MaxStreams /\ MaxStreams \in Nat
    BY StreamAssumption DEF StreamInv, ClientInv
  <2> QED BY <2>1
<1>1. Ordinal = streams - 1
  <2>1. streams - 1 \in Nat
    BY <1>0
  <2> QED BY <2>1, OrdinalIs DEF Ordinal
<1>2. /\ header \in [HeaderField -> Int]
      /\ header.protocol_major = ProtocolMajor /\ header.stream_ordinal = streams - 1
      /\ header.start_sample = captured /\ header.sample_count = count
  <2>1. peer.major = ProtocolMajor /\ ProtocolMajor \in Int /\ sequence \in Nat
    BY FrameAssumption DEF StreamInv, ClientInv
  <2>2. captured % Byte \in Int
    <3>1. \E q \in Nat, r \in 0..(Byte - 1) : captured % Byte = r
      BY <1>0, ByteType, Divides
    <3> QED BY <3>1
  <2>3. DOMAIN header = HeaderField /\ header = [f \in DOMAIN header |-> header[f]]
    BY HeaderFields DEF Header
  <2>4. \A f \in HeaderField : header[f] \in Int
    <3>1. /\ header["protocol_major"] = peer.major /\ header["stream_ordinal"] = Ordinal
          /\ header["sequence"] = sequence /\ header["start_sample"] = captured
          /\ header["capture_monotonic_ns"] = captured % Byte
          /\ header["sample_count"] = count /\ header["flags"] = 0
      BY DEF Header
    <3>2. Ordinal \in Int /\ peer.major \in Int
      BY <1>0, <1>1, <2>1
    <3> HIDE DEF header
    <3>3. \A f \in { "protocol_major", "stream_ordinal", "sequence", "start_sample",
                    "capture_monotonic_ns", "sample_count", "flags" } : header[f] \in Int
      BY <1>0, <2>1, <2>2, <3>1, <3>2
    <3> QED BY <3>3, HeaderFields
  <2>5. header \in [HeaderField -> Int]
    <3> HIDE DEF header
    <3> QED BY <2>3, <2>4
  <2>6. /\ header.protocol_major = ProtocolMajor /\ header.stream_ordinal = streams - 1
        /\ header.start_sample = captured /\ header.sample_count = count
    BY <1>1, <2>1 DEF Header
  <2> QED BY <2>5, <2>6
<1>3. payload = PayloadOf(streams, captured, count) /\ payload \in Seq(Bytes)
  <2>1. payload = PayloadOf(streams, captured, count)
    BY DEF Payload, PayloadOf
  <2> QED BY <1>0, <2>1, SamplesAre
<1> QED
  BY <1>2, <1>3

LEMMA SendKeeps ==
    ASSUME StreamInv, NEW count \in Nat, Send(count)
    PROVE  StreamInv'
<1> DEFINE header == Header(count)
           payload == Payload(captured, count)
           encoded == EncodedByPeer(header, payload)
           e == [stream |-> streams, bytes |-> encoded.value, header |-> header,
                 payload |-> payload]
<1>1. /\ Advance(count)
      /\ UNCHANGED <<streams, peer, gateway, arrived, disturbed>>
      /\ \/ encoded.error # NoError /\ UNCHANGED <<sequence, wire>>
         \/ /\ encoded.error = NoError /\ sequence' = sequence + 1
            /\ wire' = Append(wire, e)
  BY DEF Send
<1>2. /\ captured' = captured + count /\ captured' \in 0..MaxCapture
      /\ captured \in Nat /\ streams \in Nat \ {0}
  BY <1>1, AdvanceIs
<1>4. /\ header \in [HeaderField -> Int]
      /\ header.protocol_major = ProtocolMajor /\ header.stream_ordinal = streams - 1
      /\ header.start_sample = captured /\ header.sample_count = count
  BY <1>2, HeaderIs
<1>5. payload = PayloadOf(streams, captured, count) /\ payload \in Seq(Bytes)
  BY <1>2, HeaderIs
<1> HIDE DEF header, payload
<1>6. CASE encoded.error # NoError
  BY <1>1, <1>6, LostKeeps
<1>7. CASE encoded.error = NoError
  <2>1. /\ encoded.value \in Seq(Bytes) /\ IsFrame(encoded.value, header, payload)
        /\ captured \in 0..MaxSampleOffset
    BY <1>4, <1>5, <1>7, FrameOf
  <2> HIDE DEF encoded
  <2>2. e \in Sent
    BY <1>2, <1>4, <1>5, <2>1 DEF Sent
  <2>3. /\ wire' = Append(wire, e) /\ sequence' = sequence + 1
        /\ e.stream = streams /\ e.header = header
    BY <1>1, <1>7
  <2> HIDE DEF e
  <2>4. /\ wire' \in Seq(Sent) /\ Len(wire') = Len(wire) + 1 /\ DOMAIN wire' = 1..(Len(wire) + 1)
        /\ wire'[Len(wire) + 1] = e /\ \A k \in 1..Len(wire) : wire'[k] = wire[k]
    BY <2>2, <2>3, EntriesAre
  <2>5. UNCHANGED <<streams, peer, connection, previous, tape, arrived, disturbed>>
    BY <1>1 DEF gateway
  <2>6. ClientInv'
    <3>1. \A k \in DOMAIN wire' : wire'[k].stream <= streams
      <4> SUFFICES ASSUME NEW k \in 1..(Len(wire) + 1) PROVE wire'[k].stream <= streams
        BY <2>4
      <4>1. CASE k = Len(wire) + 1
        BY <1>2, <2>3, <2>4, <4>1
      <4>2. CASE k # Len(wire) + 1
        <5>1. k \in 1..Len(wire)
          BY <4>2, EntriesAre
        <5> QED BY <2>4, <5>1, EntriesAre
      <4> QED BY <4>1, <4>2
    <3> QED BY <1>2, <2>3, <2>4, <2>5, <3>1 DEF StreamInv, ClientInv
  <2>7. GatewayInv' /\ NoFalseAlarm'
    <3>1. arrived \in 0..Len(wire')
      BY <2>4, EntriesAre
    <3> QED BY <2>5, <3>1 DEF StreamInv, GatewayInv, NoFalseAlarm, PreviousEnd
  <2>8. OrderInv'
    <3>0. PICK last \in Nat : last = Len(wire) + 1
      BY EntriesAre
    <3>1. /\ PreviousEnd' = PreviousEnd
          /\ \A k \in 1..Len(wire) : Start(k)' = Start(k) /\ End(k)' = End(k)
      BY <2>4, <2>5 DEF PreviousEnd, Start, End
    <3>2. Start(last)' = captured /\ End(last)' = captured'
      BY <1>2, <1>4, <2>3, <2>4, <3>0 DEF Start, End
    <3>3. /\ \A k \in 1..Len(wire) : End(k) \in Nat /\ Start(k) \in Nat
          /\ Len(wire) \in Nat /\ DOMAIN wire = 1..Len(wire) /\ PreviousEnd \in Nat
          /\ arrived \in Nat /\ arrived <= Len(wire)
      BY EntriesAre
    <3>4. /\ \A k \in 1..Len(wire) : k > arrived => wire[k].stream = streams
          /\ \A k \in 1..Len(wire) : wire[k].stream = streams => End(k) <= captured
          /\ \A j, k \in 1..Len(wire) :
                j < k /\ wire[j].stream = streams /\ wire[k].stream = streams => End(j) <= Start(k)
          /\ ~disturbed => /\ PreviousEnd <= captured
                           /\ \A k \in 1..Len(wire) : k > arrived => PreviousEnd <= Start(k)
      BY <3>3 DEF StreamInv, OrderInv
    <3>5. \A k \in 1..last : k = last \/ k \in 1..Len(wire)
      BY <3>0, <3>3
    <3>6. captured <= captured' /\ captured' \in Nat
      BY <1>2
    <3>7. last \in 1..last /\ last > arrived /\ \A k \in 1..Len(wire) : ~(last < k)
      BY <3>0, <3>3
    <3>8. \A k \in 1..last : k > arrived => wire'[k].stream = streams
      BY <2>3, <2>4, <3>0, <3>4, <3>5
    <3>9. ASSUME NEW k \in 1..last, wire'[k].stream = streams PROVE End(k)' <= captured'
      <4>1. CASE k = last
        BY <3>2, <3>6, <4>1
      <4>2. CASE k \in 1..Len(wire)
        <5>1. End(k) <= captured
          BY <2>4, <3>4, <3>9, <4>2
        <5> QED BY <1>2, <3>1, <3>3, <3>6, <4>2, <5>1
      <4> QED BY <3>5, <4>1, <4>2
    <3>10. ASSUME NEW j \in 1..last, NEW k \in 1..last, j < k,
                  wire'[j].stream = streams, wire'[k].stream = streams
           PROVE  End(j)' <= Start(k)'
      <4>1. j \in 1..Len(wire)
        BY <3>0, <3>3, <3>10
      <4>2. wire[j].stream = streams
        BY <2>4, <3>10, <4>1
      <4>3. CASE k = last
        BY <3>1, <3>2, <3>4, <4>1, <4>2, <4>3
      <4>4. CASE k \in 1..Len(wire)
        BY <2>4, <3>1, <3>4, <3>10, <4>1, <4>2, <4>4
      <4> QED BY <3>5, <4>3, <4>4
    <3>11. ASSUME ~disturbed
           PROVE  /\ PreviousEnd' <= captured'
                  /\ \A k \in 1..last : k > arrived => PreviousEnd' <= Start(k)'
      <4>1. PreviousEnd <= captured
        BY <3>4, <3>11
      <4>2. PreviousEnd <= captured'
        BY <1>2, <3>3, <3>6, <4>1
      <4>3. \A k \in 1..last : k > arrived => PreviousEnd <= Start(k)'
        BY <3>1, <3>2, <3>4, <3>5, <3>11, <4>1
      <4> QED BY <3>1, <4>2, <4>3
    <3> QED BY <2>4, <2>5, <3>0, <3>8, <3>9, <3>10, <3>11 DEF OrderInv
  <2> QED BY <2>6, <2>7, <2>8 DEF StreamInv
<1> QED
  BY <1>6, <1>7

-----------------------------------------------------------------------------
(* A buffer arrives.                                                       *)

\* What an arrival may do to the gateway: leave the recording alone, which a
\* fatal code does too, or record the frame of an entry of the wire.
Halts ==
    /\ connection' \in FatalCodes \cup {connection}
    /\ UNCHANGED <<previous, tape>>

Records(e) ==
    /\ e.stream = streams
    /\ PreviousEnd <= e.header.start_sample
    /\ UNCHANGED connection
    /\ previous' = [ start_sample |-> e.header.start_sample,
                     sample_count |-> e.header.sample_count ]
    /\ tape' = tape \o [k \in 1..(e.header.start_sample - PreviousEnd) |-> Missing]
                    \o [k \in 1..e.header.sample_count |->
                           Captured(streams, e.header.start_sample + k - 1)]

LEMMA MeasureIs ==
    ASSUME NEW start \in Nat, NEW count \in Nat, NEW next \in Nat
    PROVE  LET measured == MeasureGap(start, count, next)
           IN  /\ next < start + count => measured.error = SampleOverlap
               /\ next >= start + count =>
                     measured.error = NoError
                     /\ measured.value.gap_samples = next - (start + count)
<1> DEFINE end == start + count
<1>1. end \in Nat
  OBVIOUS
<1>2. CASE next < end
  BY <1>1, <1>2 DEF MeasureGap, Raise
<1>3. CASE next = end
  <2>1. MeasureGap(start, count, next) = Return(Contiguous)
    BY <1>1, <1>3 DEF MeasureGap
  <2> QED BY <1>1, <1>3, <2>1 DEF Return, Contiguous
<1>4. CASE next > end
  <2>1. MeasureGap(start, count, next) = Return(Gap(end, next))
    BY <1>1, <1>4 DEF MeasureGap
  <2> QED BY <1>1, <1>4, <2>1 DEF Return, Gap
<1> QED
  BY <1>1, <1>2, <1>3, <1>4

LEMMA FailHalts ==
    ASSUME NEW code, Fail(code)
    PROVE  Halts
BY DEF Fail, Halts

LEMMA HandleRefused ==
    ASSUME NEW buffer, DecodeFrame(buffer).error # NoError, Handle(buffer)
    PROVE  Halts
<1>1. Fail(DecodeFrame(buffer).error)
  BY DEF Handle
<1> HIDE DEF Fail
<1> QED
  BY <1>1, FailHalts

\* What was sent is recorded, or left alone if it is of another stream; only
\* audio that is on the recording already ends the connection.
LEMMA HandleSent ==
    ASSUME StreamInv, NEW e \in Sent, e.stream <= streams, Handle(e.bytes)
    PROVE  \/ Records(e)
           \/ /\ Halts
              /\ connection' # connection =>
                    e.stream = streams /\ e.header.start_sample < PreviousEnd
<1> DEFINE start == e.header.start_sample
           count == e.header.sample_count
<1>1. /\ DecodeFrame(e.bytes) = Return([header |-> e.header, payload |-> e.payload])
      /\ start \in Nat /\ count \in Nat /\ e.stream \in Nat
      /\ e.header.stream_ordinal = e.stream - 1
      /\ e.payload = PayloadOf(e.stream, start, count)
  BY StreamConstants DEF Sent, IsFrame
<1>2. Receive(e.header, e.payload) /\ connection = "open"
  BY <1>1 DEF Handle, Return
<1>3. streams \in Nat \ {0} /\ Ordinal = streams - 1
  <2>1. streams \in Nat \ {0}
    BY <1>2, StreamAssumption DEF StreamInv, ClientInv, GatewayInv
  <2>2. streams - 1 \in Nat
    BY <2>1
  <2> QED BY <2>1, <2>2, OrdinalIs DEF Ordinal
<1>4. CASE e.stream # streams
  <2>1. e.header.stream_ordinal # Ordinal
    BY <1>1, <1>3, <1>4
  <2>2. UNCHANGED gateway
    BY <1>2, <2>1 DEF Receive
  <2> QED BY <2>2 DEF Halts, gateway
<1>5. CASE e.stream = streams
  <2> DEFINE measured == MeasureGap(previous.start_sample, previous.sample_count, start)
  <2>1. e.header.stream_ordinal = Ordinal
    BY <1>1, <1>3, <1>5
  <2>2. IF measured.error # NoError THEN Fail(measured.error)
        ELSE Record(e.header, e.payload, measured.value)
    BY <1>2, <2>1 DEF Receive
  <2>3. previous.start_sample \in Nat /\ previous.sample_count \in Nat /\ PreviousEnd \in Nat
    BY StreamConstants DEF StreamInv, GatewayInv, PreviousEnd
  <2>4. /\ start < PreviousEnd => measured.error = SampleOverlap
        /\ start >= PreviousEnd =>
              measured.error = NoError /\ measured.value.gap_samples = start - PreviousEnd
    <3>1. LET m == MeasureGap(previous.start_sample, previous.sample_count, start)
              end == previous.start_sample + previous.sample_count
          IN  /\ start < end => m.error = SampleOverlap
              /\ start >= end => m.error = NoError /\ m.value.gap_samples = start - end
      <4> HIDE DEF start
      <4> QED BY <1>1, <2>3, MeasureIs
    <3> QED BY <3>1 DEF PreviousEnd
  <2> HIDE DEF measured, start, count
  <2>5. CASE start < PreviousEnd
    <3>1. measured.error # NoError
      BY <2>4, <2>5 DEF SampleOverlap, NoError
    <3>2. Fail(measured.error)
      BY <2>2, <3>1
    <3>3. Halts
      BY <3>2, FailHalts
    <3> QED BY <1>5, <2>5, <3>3 DEF start
  <2>6. CASE ~(start < PreviousEnd)
    <3>1. PreviousEnd <= start
      BY <1>1, <2>3, <2>6
    <3>2. Record(e.header, e.payload, measured.value)
          /\ measured.value.gap_samples = start - PreviousEnd
      BY <1>1, <2>2, <2>3, <2>4, <3>1
    <3>3. \A k \in 1..count :
             SubSeq(e.payload, (k - 1) * BytesPerSample + 1, k * BytesPerSample)
               = Captured(streams, start + k - 1)
      <4>1. \A k \in 1..count :
               SubSeq(PayloadOf(streams, start, count),
                      (k - 1) * BytesPerSample + 1, k * BytesPerSample)
                 = Captured(streams, start + k - 1)
        BY <1>1, <1>3, SamplesAre
      <4>2. e.payload = PayloadOf(streams, start, count)
        BY <1>1, <1>5
      <4> QED BY <4>1, <4>2
    <3>4. [k \in 1..count |->
             SubSeq(e.payload, (k - 1) * BytesPerSample + 1, k * BytesPerSample)]
            = [k \in 1..count |-> Captured(streams, start + k - 1)]
      BY <3>3
    <3>5. /\ UNCHANGED connection
          /\ previous' = [start_sample |-> start, sample_count |-> count]
          /\ tape' = tape \o [k \in 1..(start - PreviousEnd) |-> Missing]
                          \o [k \in 1..count |-> Captured(streams, start + k - 1)]
      BY <3>2, <3>4 DEF Record, start, count
    <3> QED BY <1>5, <3>1, <3>5 DEF Records, start, count
  <2> QED BY <2>5, <2>6
<1> QED
  BY <1>4, <1>5

\* The recording after a frame.
LEMMA RecordedTape ==
    ASSUME StreamInv, NEW e \in Sent, Records(e)
    PROVE  /\ tape' \in Seq(Sample)
           /\ Len(tape') = e.header.start_sample + e.header.sample_count
           /\ \A k \in 1..Len(tape) : tape'[k] = tape[k]
           /\ \A k \in (Len(tape) + 1)..Len(tape') :
                 tape'[k] = IF k <= e.header.start_sample THEN Missing
                            ELSE Captured(streams, k - 1)
<1> DEFINE start == e.header.start_sample
           count == e.header.sample_count
           n == start - PreviousEnd
           gap == [k \in 1..n |-> Missing]
           samples == [k \in 1..count |-> Captured(streams, start + k - 1)]
<1>1. /\ start \in Nat /\ count \in Nat /\ PreviousEnd \in Nat /\ PreviousEnd <= start
      /\ tape \in Seq(Sample) /\ Len(tape) = PreviousEnd
      /\ streams \in Nat
      /\ tape' = tape \o gap \o samples
  <2>1. PreviousEnd \in Nat
    BY EntriesAre
  <2> QED BY <2>1, StreamConstants, StreamAssumption DEF Records, Sent, StreamInv, GatewayInv, ClientInv
<1>2. n \in Nat
  BY <1>1
<1>3. gap \in Seq(Sample) /\ Len(gap) = n
  <2>1. Missing \in Sample
    BY DEF Sample
  <2> HIDE DEF n
  <2>2. gap \in [1..n -> Sample]
    BY <2>1
  <2> HIDE DEF gap
  <2>3. gap \in Seq(Sample) /\ DOMAIN gap = 1..n
    BY <1>2, <2>2
  <2> QED BY <1>2, <2>3
<1>4. samples \in Seq(Sample) /\ Len(samples) = count
  <2>1. ASSUME NEW k \in 1..count PROVE Captured(streams, start + k - 1) \in Sample
    <3>1. start + k - 1 \in Nat
      BY <1>1
    <3> DEFINE x == Captured(streams, start + k - 1)
    <3>2. x \in [1..BytesPerSample -> Bytes] /\ BytesPerSample \in Nat
      BY <1>1, <3>1, CapturedType, StreamConstants
    <3> HIDE DEF x
    <3>3. x \in Seq(Bytes)
      BY <3>2
    <3> QED BY <3>3 DEF x, Sample
  <2> HIDE DEF start, count
  <2>2. samples \in [1..count -> Sample]
    BY <2>1
  <2> HIDE DEF samples
  <2>3. samples \in Seq(Sample) /\ DOMAIN samples = 1..count
    BY <1>1, <2>2
  <2> QED BY <1>1, <2>3
<1>5. /\ \A k \in 1..n : gap[k] = Missing
      /\ \A k \in 1..count : samples[k] = Captured(streams, start + k - 1)
  OBVIOUS
<1> HIDE DEF gap, samples
<1>6. /\ tape \o gap \in Seq(Sample) /\ Len(tape \o gap) = PreviousEnd + n
      /\ \A j \in 1..Len(tape) : (tape \o gap)[j] = tape[j]
      /\ \A j \in 1..n : (tape \o gap)[PreviousEnd + j] = gap[j]
  <2>1. tape \in Seq(Sample)
    BY <1>1
  <2>2. /\ tape \o gap \in Seq(Sample) /\ Len(tape \o gap) = Len(tape) + Len(gap)
        /\ \A j \in 1..Len(tape) : (tape \o gap)[j] = tape[j]
        /\ \A j \in 1..Len(gap) : (tape \o gap)[Len(tape) + j] = gap[j]
    BY <1>3, <2>1, Joined
  <2> QED BY <1>1, <1>3, <2>2
<1>7. PreviousEnd + n = start
  BY <1>1
<1> HIDE DEF n
<1>8. /\ tape' \in Seq(Sample) /\ Len(tape') = start + count
      /\ \A j \in 1..start : tape'[j] = (tape \o gap)[j]
      /\ \A j \in 1..count : tape'[start + j] = samples[j]
  <2> DEFINE t == tape \o gap
  <2>0. samples \in Seq(Sample)
    BY <1>4
  <2>1. t \in Seq(Sample) /\ Len(t) = start
    BY <1>6, <1>7
  <2> HIDE DEF t
  <2>2. /\ t \o samples \in Seq(Sample) /\ Len(t \o samples) = Len(t) + Len(samples)
        /\ \A j \in 1..Len(t) : (t \o samples)[j] = t[j]
        /\ \A j \in 1..Len(samples) : (t \o samples)[Len(t) + j] = samples[j]
    <3>1. t \in Seq(Sample)
      BY <2>1
    <3> QED BY <2>0, <3>1, Joined
  <2>3. tape' = t \o samples
    BY <1>1 DEF t
  <2>4. /\ t \o samples \in Seq(Sample) /\ Len(t \o samples) = start + count
        /\ \A j \in 1..start : (t \o samples)[j] = t[j]
        /\ \A j \in 1..count : (t \o samples)[start + j] = samples[j]
    BY <1>4, <2>1, <2>2
  <2> QED BY <2>3, <2>4 DEF t
<1> HIDE DEF start, count
<1>9. \A k \in 1..Len(tape) : tape'[k] = tape[k]
  <2>1. \A k \in 1..Len(tape) : k \in 1..start
    BY <1>1
  <2> QED BY <1>6, <1>8, <2>1
<1>10. ASSUME NEW k \in (Len(tape) + 1)..Len(tape')
       PROVE  tape'[k] = IF k <= start THEN Missing ELSE Captured(streams, k - 1)
  <2>1. CASE k <= start
    <3> DEFINE j == k - PreviousEnd
    <3>1. j \in 1..n /\ k = PreviousEnd + j /\ k \in 1..start
      BY <1>1, <1>2, <1>7, <2>1
    <3> HIDE DEF j
    <3> QED BY <1>5, <1>6, <1>8, <2>1, <3>1
  <2>2. CASE ~(k <= start)
    <3> DEFINE j == k - start
    <3>1. j \in 1..count /\ k = start + j /\ start + j - 1 = k - 1
      BY <1>1, <1>8, <2>2
    <3> HIDE DEF j
    <3> QED BY <1>5, <1>8, <2>2, <3>1
  <2> QED BY <2>1, <2>2
<1> QED
  BY <1>8, <1>9, <1>10 DEF start, count

LEMMA HeaderIsPositive == HeaderSize \in Nat \ {0}
<1>1. Offset[1] = Offset[0] + Size[Fields[1]] /\ Offset[0] = 0
  BY OffsetNext
<1>2. Size[Fields[1]] \in Nat \ {0} /\ Offset[1] <= HeaderSize /\ HeaderSize \in Nat
  BY SizeType, OffsetIn
<1> QED
  BY <1>1, <1>2

\* An arrival keeps the invariant if it halts, or records a frame: the next
\* one in order, or any while the stream is disturbed.
LEMMA HaltKeeps ==
    ASSUME StreamInv, Halts, UNCHANGED client,
           arrived' \in arrived..Len(wire), disturbed' \in BOOLEAN,
           disturbed => disturbed', connection' # connection => disturbed'
    PROVE  StreamInv'
<1>1. UNCHANGED <<streams, peer, captured, sequence, wire, previous, tape>>
      /\ connection' \in FatalCodes \cup {connection}
  BY DEF Halts, client
<1>2. ClientInv'
  BY <1>1 DEF StreamInv, ClientInv
<1>3. arrived \in Nat /\ arrived <= Len(wire) /\ Len(wire) \in Nat /\ DOMAIN wire = 1..Len(wire)
      /\ arrived' \in Nat /\ arrived <= arrived' /\ arrived' <= Len(wire)
  <2>1. arrived \in Nat /\ arrived <= Len(wire) /\ Len(wire) \in Nat /\ DOMAIN wire = 1..Len(wire)
    BY EntriesAre
  <2> QED BY <2>1
<1>4. GatewayInv'
  <2>1. connection' \in {"none", "open", "refused"} \cup FatalCodes
        /\ (connection' = "open" => streams' # 0)
    BY <1>1, NotFatal DEF StreamInv, GatewayInv
  <2>2. arrived' \in 0..Len(wire')
    BY <1>1, <1>3
  <2>3. PreviousEnd' = PreviousEnd
    BY <1>1 DEF PreviousEnd
  <2> QED BY <1>1, <2>1, <2>2, <2>3 DEF StreamInv, GatewayInv
<1>5. OrderInv'
  <2>1. PreviousEnd' = PreviousEnd /\ \A k \in DOMAIN wire : Start(k)' = Start(k) /\ End(k)' = End(k)
    BY <1>1 DEF PreviousEnd, Start, End
  <2>2. \A k \in DOMAIN wire : k > arrived' => k > arrived
    BY <1>3
  <2> QED BY <1>1, <2>1, <2>2 DEF StreamInv, OrderInv
<1>6. NoFalseAlarm'
  BY <1>1 DEF StreamInv, NoFalseAlarm
<1> QED
  BY <1>2, <1>4, <1>5, <1>6 DEF StreamInv

LEMMA RecordKeeps ==
    ASSUME StreamInv, NEW k \in DOMAIN wire, Records(wire[k]), UNCHANGED client,
           connection = "open",
           arrived' \in arrived..Len(wire), disturbed' \in BOOLEAN,
           disturbed => disturbed', disturbed' \/ (k > arrived /\ arrived' = k)
    PROVE  StreamInv'
<1>1. UNCHANGED <<streams, peer, captured, sequence, wire, connection>>
  BY DEF Records, client
<1>2. ClientInv'
  BY <1>1 DEF StreamInv, ClientInv
<1>3. arrived \in Nat /\ arrived <= Len(wire) /\ Len(wire) \in Nat /\ DOMAIN wire = 1..Len(wire)
      /\ arrived' \in Nat /\ arrived <= arrived' /\ arrived' <= Len(wire)
  <2>1. arrived \in Nat /\ arrived <= Len(wire) /\ Len(wire) \in Nat /\ DOMAIN wire = 1..Len(wire)
    BY EntriesAre
  <2> QED BY <2>1
<1>4. wire[k] \in Sent /\ wire[k].stream = streams
  BY EntriesAre DEF Records
<1>5. PreviousEnd' = End(k)
  BY DEF Records, PreviousEnd, End
<1>6. GatewayInv'
  <2>1. tape' \in Seq(Sample) /\ Len(tape') = End(k)
    BY <1>4, RecordedTape DEF End
  <2>2. previous' \in [start_sample : 0..MaxSampleOffset, sample_count : Nat]
    BY <1>4 DEF Records, Sent
  <2>3. arrived' \in 0..Len(wire')
    BY <1>1, <1>3
  <2> QED BY <1>1, <1>5, <2>1, <2>2, <2>3 DEF StreamInv, GatewayInv
<1>7. OrderInv'
  <2>1. \A i \in DOMAIN wire : Start(i)' = Start(i) /\ End(i)' = End(i)
    BY <1>1 DEF Start, End
  <2>2. \A i \in DOMAIN wire : i > arrived' => i > arrived
    BY <1>3
  <2>3. ASSUME ~disturbed'
        PROVE  /\ PreviousEnd' <= captured'
               /\ \A i \in DOMAIN wire : i > arrived' => PreviousEnd' <= Start(i)
    <3>1. arrived' = k /\ k > arrived
      BY <2>3
    <3>2. End(k) <= captured
      BY <1>4 DEF StreamInv, OrderInv
    <3>3. ASSUME NEW i \in DOMAIN wire, i > k PROVE End(k) <= Start(i)
      <4>1. wire[i].stream = streams
        BY <1>3, <2>2, <3>1, <3>3 DEF StreamInv, OrderInv
      <4>2. k < i
        BY <1>3, <3>3
      <4> QED BY <1>4, <4>1, <4>2 DEF StreamInv, OrderInv
    <3> QED BY <1>1, <1>5, <3>1, <3>2, <3>3
  <2> QED BY <1>1, <2>1, <2>2, <2>3 DEF StreamInv, OrderInv
<1>8. NoFalseAlarm'
  BY <1>1, NotFatal DEF NoFalseAlarm
<1> QED
  BY <1>2, <1>6, <1>7, <1>8 DEF StreamInv

LEMMA ArriveDoes ==
    ASSUME StreamInv, NEW k \in DOMAIN wire, Arrive(k)
    PROVE  StreamInv' /\ (Halts \/ Records(wire[k]))
<1>1. /\ Handle(wire[k].bytes) /\ UNCHANGED client
      /\ arrived' = IF k > arrived THEN k ELSE arrived
      /\ disturbed' = (disturbed \/ (k <= arrived /\ wire[k].stream = streams))
  BY DEF Arrive
<1>2. wire[k] \in Sent /\ wire[k].stream <= streams /\ DOMAIN wire = 1..Len(wire)
      /\ arrived \in Nat /\ arrived <= Len(wire) /\ Len(wire) \in Nat
  BY EntriesAre
<1>3. \/ Records(wire[k])
      \/ /\ Halts
         /\ connection' # connection => wire[k].stream = streams /\ Start(k) < PreviousEnd
  BY <1>1, <1>2, HandleSent DEF Start
<1>4. connection = "open"
  BY <1>1 DEF Handle
<1>5. arrived' \in arrived..Len(wire) /\ (k > arrived \/ k <= arrived)
  BY <1>1, <1>2
<1>6. disturbed' \in BOOLEAN /\ (disturbed => disturbed')
  BY <1>1 DEF StreamInv, GatewayInv
<1>7. CASE Records(wire[k])
  <2>1. wire[k].stream = streams
    BY <1>7 DEF Records
  <2>2. disturbed' \/ (k > arrived /\ arrived' = k)
    BY <1>1, <1>5, <2>1
  <2> QED BY <1>1, <1>4, <1>5, <1>6, <1>7, <2>2, RecordKeeps
<1>8. CASE /\ Halts
           /\ connection' # connection => wire[k].stream = streams /\ Start(k) < PreviousEnd
  <2>1. ASSUME connection' # connection PROVE disturbed'
    <3>1. wire[k].stream = streams /\ ~(PreviousEnd <= Start(k))
      <4>1. Start(k) \in Nat /\ PreviousEnd \in Nat
        BY EntriesAre
      <4> QED BY <1>8, <2>1, <4>1
    <3>2. disturbed \/ ~(k > arrived)
      BY <3>1 DEF StreamInv, OrderInv
    <3>3. disturbed \/ k <= arrived
      BY <1>5, <3>2
    <3> QED BY <1>1, <3>1, <3>3
  <2>2. StreamInv'
    BY <1>1, <1>5, <1>6, <1>8, <2>1, HaltKeeps
  <2> QED BY <1>8, <2>2
<1> QED
  BY <1>3, <1>7, <1>8

\* A frame whose last bytes are missing is refused; the whole of it, when one
\* of the cuts misses it, is handled as the frame.
LEMMA ArriveCutDoes ==
    ASSUME StreamInv, NEW k \in DOMAIN wire,
           NEW size \in {0, HeaderSize - 1, HeaderSize, Len(wire[k].bytes) - 1},
           ArriveCut(k, size)
    PROVE  StreamInv' /\ (Halts \/ Records(wire[k]))
<1> DEFINE bytes == wire[k].bytes
<1>1. /\ Handle(SubSeq(bytes, 1, size)) /\ UNCHANGED <<client, arrived>> /\ disturbed' = TRUE
  BY DEF ArriveCut
<1>2. wire[k] \in Sent /\ wire[k].stream <= streams
      /\ arrived \in Nat /\ arrived <= Len(wire) /\ Len(wire) \in Nat
  BY EntriesAre
<1>3. /\ bytes \in Seq(Bytes) /\ IsFrame(bytes, wire[k].header, wire[k].payload)
  BY <1>2 DEF Sent
<1>4. HeaderSize \in Nat \ {0} /\ HeaderSize <= Len(bytes) /\ Len(bytes) \in Nat
  <2>1. PICK headerSize \in Nat : HeaderSize <= headerSize
                                  /\ Len(bytes) = headerSize + Len(wire[k].payload)
    BY <1>3 DEF IsFrame
  <2>2. HeaderSize \in Nat \ {0}
    BY HeaderIsPositive
  <2>3. Len(wire[k].payload) \in Nat
    BY <1>3 DEF IsFrame
  <2>4. Len(bytes) \in Nat
    BY <1>3
  <2> QED BY <2>1, <2>2, <2>3, <2>4
<1>5. arrived' \in arrived..Len(wire) /\ connection = "open" /\ disturbed' \in BOOLEAN
  BY <1>1, <1>2 DEF Handle
<1> HIDE DEF bytes
<1>6. size \in Nat /\ size <= Len(bytes)
  BY <1>4 DEF bytes
<1>7. CASE size < Len(bytes)
  <2>1. DecodeFrame(SubSeq(bytes, 1, size)).error # NoError
    BY <1>3, <1>6, <1>7, CutIsRefused
  <2>2. Halts
    BY <1>1, <2>1, HandleRefused
  <2> QED BY <1>1, <1>5, <2>2, HaltKeeps
<1>8. CASE size = Len(bytes)
  <2>1. SubSeq(bytes, 1, size) = bytes
    BY <1>3, <1>8
  <2>2. Handle(wire[k].bytes)
    BY <1>1, <2>1 DEF bytes
  <2>3. Records(wire[k]) \/ Halts
    BY <1>2, <2>2, HandleSent
  <2>4. CASE Records(wire[k])
    BY <1>1, <1>5, <2>4, RecordKeeps
  <2>5. CASE Halts
    BY <1>1, <1>5, <2>5, HaltKeeps
  <2> QED BY <2>3, <2>4, <2>5
<1> QED
  BY <1>4, <1>6, <1>7, <1>8

LEMMA ArriveForeignDoes ==
    ASSUME StreamInv, NEW buffer \in Foreign, ArriveForeign(buffer)
    PROVE  StreamInv' /\ Halts
<1>1. /\ Handle(buffer) /\ UNCHANGED <<client, arrived>> /\ disturbed' = TRUE
  BY DEF ArriveForeign
<1>2. DecodeFrame(buffer).error # NoError
  BY StreamAssumption
<1>3. Halts
  BY <1>1, <1>2, HandleRefused
<1>4. arrived' \in arrived..Len(wire) /\ disturbed' \in BOOLEAN
  <2>1. arrived \in Nat /\ arrived <= Len(wire) /\ Len(wire) \in Nat
    BY EntriesAre
  <2> QED BY <1>1, <2>1
<1> QED
  BY <1>1, <1>3, <1>4, HaltKeeps

-----------------------------------------------------------------------------
(* Steps and theorems.                                                     *)

LEMMA CountsAre == Counts \subseteq Nat /\ Glitches \subseteq Nat
BY StreamAssumption

LEMMA StreamSteps == StreamInv /\ [Next]_vars => StreamInv'
<1> SUFFICES ASSUME StreamInv, [Next]_vars PROVE StreamInv'
  OBVIOUS
<1>1. ASSUME NEW version \in Versions, Connect(version) PROVE StreamInv'
  BY <1>1, ConnectKeeps
<1>2. ASSUME NEW version \in Versions, RefusePeer(version) PROVE StreamInv'
  BY <1>2, RefuseKeeps
<1>3. ASSUME NEW count \in Counts, Send(count) PROVE StreamInv'
  BY <1>3, CountsAre, SendKeeps
<1>4. ASSUME NEW count \in Glitches, Lose(count) PROVE StreamInv'
  BY <1>4, CountsAre, LostKeeps DEF Lose
<1>5. ASSUME NEW k \in DOMAIN wire, Arrive(k) PROVE StreamInv'
  BY <1>5, ArriveDoes
<1>6. ASSUME NEW k \in DOMAIN wire,
             NEW size \in {0, HeaderSize - 1, HeaderSize, Len(wire[k].bytes) - 1},
             ArriveCut(k, size)
      PROVE  StreamInv'
  BY <1>6, ArriveCutDoes
<1>7. ASSUME NEW buffer \in Foreign, ArriveForeign(buffer) PROVE StreamInv'
  BY <1>7, ArriveForeignDoes
<1>8. CASE UNCHANGED vars
  <2>1. UNCHANGED <<streams, connection, peer, captured, sequence, wire, arrived, previous,
                    tape, disturbed>>
    BY <1>8 DEF vars, client, gateway
  <2>2. PreviousEnd' = PreviousEnd /\ \A k \in DOMAIN wire : Start(k)' = Start(k) /\ End(k)' = End(k)
    BY <2>1 DEF PreviousEnd, Start, End
  <2> QED BY <2>1, <2>2 DEF StreamInv, ClientInv, GatewayInv, OrderInv, NoFalseAlarm
<1> QED
  BY <1>1, <1>2, <1>3, <1>4, <1>5, <1>6, <1>7, <1>8 DEF Next

\* The inductive invariant: what is on the wire was captured by its stream and
\* can be read back, in an order that leaves no overlap to an undisturbed
\* gateway.
THEOREM StreamInvariant == Spec => []StreamInv
<1>1. Init => StreamInv
  BY StreamInit
<1>2. StreamInv /\ [Next]_vars => StreamInv'
  BY StreamSteps
<1> QED
  BY <1>1, <1>2, PTL DEF Spec

\* The states of the connection and of both of its ends: no frame exceeds the
\* limit, the last recorded position is one, and the recording is as long as
\* the frames that were recorded say.
THEOREM StreamTypes == Spec => []StreamTypeOK
<1>1. StreamInv => StreamTypeOK
  <2> SUFFICES ASSUME StreamInv PROVE StreamTypeOK
    OBVIOUS
  <2>1. ASSUME NEW k \in DOMAIN wire
        PROVE  wire[k].bytes \in Seq(0..(Byte - 1)) /\ Len(wire[k].bytes) <= MaxFrameBytes
    <3>1. wire[k] \in Sent
      BY EntriesAre
    <3> QED BY <3>1 DEF Sent, IsFrame, Bytes
  <2>2. ValidSampleOffset(previous.start_sample)
    <3>1. previous.start_sample \in 0..MaxSampleOffset /\ MaxSampleOffset \in Nat
      BY StreamConstants DEF StreamInv, GatewayInv
    <3> QED BY <3>1 DEF ValidSampleOffset
  <2> QED BY <2>1, <2>2 DEF StreamInv, ClientInv, GatewayInv, StreamTypeOK, PreviousEnd
<1> QED
  BY <1>1, StreamInvariant, PTL

\* decode_frame reads every frame under this build's major as it was encoded,
\* also when a newer minor made its header longer.  What encode_frame lets out
\* under any other major it refuses, and as UNSUPPORTED_MAJOR.
THEOREM SentIsReadable == Spec => []WireIsReadable
<1>1. ASSUME StreamInv, NEW k \in DOMAIN wire
      PROVE  DecodeFrame(wire[k].bytes)
               = Return([header |-> wire[k].header, payload |-> wire[k].payload])
  <2>1. wire[k] \in Sent
    BY <1>1, EntriesAre
  <2> QED BY <2>1 DEF Sent, IsFrame
<1>2. ASSUME StreamInv, connection = "open", NEW count \in Counts,
             NEW major \in 0..UnsignedMax("protocol_major") \ {ProtocolMajor},
             EncodeFrame([Header(count) EXCEPT !.protocol_major = major],
                         Payload(captured, count)).error = NoError
      PROVE  DecodeFrame(EncodeFrame([Header(count) EXCEPT !.protocol_major = major],
                                     Payload(captured, count)).value).error
                = UnsupportedMajor
  <2> DEFINE header == [Header(count) EXCEPT !.protocol_major = major]
  <2>1. count \in Nat /\ streams # 0
    BY <1>2, StreamAssumption DEF StreamInv, GatewayInv
  <2>2. Header(count) \in [HeaderField -> Int] /\ Payload(captured, count) \in Seq(Bytes)
    BY <1>2, <2>1, HeaderIs
  <2>3. major \in Int /\ major # ProtocolMajor
    OBVIOUS
  <2>4. header \in [HeaderField -> Int] /\ header.protocol_major = major
    <3>1. "protocol_major" \in HeaderField
      BY HeaderFields
    <3> QED BY <2>2, <2>3, <3>1
  <2> HIDE DEF header
  <2>5. EncodeFrame(header, Payload(captured, count)).error = NoError
    BY <1>2 DEF header
  <2>6. DecodeFrame(EncodeFrame(header, Payload(captured, count)).value).error
          = UnsupportedMajor
    BY <2>2, <2>3, <2>4, <2>5, ForeignIsRefused
  <2> QED BY <2>6 DEF header
<1>3. StreamInv => WireIsReadable
  BY <1>1, <1>2 DEF WireIsReadable
<1> QED
  BY <1>3, StreamInvariant, PTL

\* Only a frame of the stream that is duplicated, late or damaged ends the
\* connection: never one that is lost, short, empty or of an earlier stream.
THEOREM OnlyDisturbedEnds == Spec => []NoFalseAlarm
<1>1. StreamInv => NoFalseAlarm
  BY DEF StreamInv
<1> QED
  BY <1>1, StreamInvariant, PTL

LEMMA RecordExtends ==
    ASSUME StreamInv, NEW e \in Sent, Records(e), UNCHANGED client
    PROVE  [Recording!Next]_<<streams, tape>>
<1> DEFINE start == e.header.start_sample
           count == e.header.sample_count
<1>1. /\ tape' \in Seq(Sample) /\ Len(tape') = start + count
      /\ \A k \in 1..Len(tape) : tape'[k] = tape[k]
      /\ \A k \in (Len(tape) + 1)..Len(tape') :
            tape'[k] = IF k <= start THEN Missing ELSE Captured(streams, k - 1)
  BY RecordedTape
<1>2. /\ tape \in Seq(Sample) /\ Len(tape) = PreviousEnd /\ PreviousEnd <= start
      /\ start \in Nat /\ count \in Nat /\ PreviousEnd \in Nat
  <2>1. PreviousEnd \in Nat
    BY EntriesAre
  <2> QED BY <2>1, StreamConstants DEF Records, Sent, StreamInv, GatewayInv
<1>3. UNCHANGED streams
  BY DEF client
<1> HIDE DEF start, count
<1>4. CASE Len(tape') > Len(tape)
  <2>1. start \in Len(tape)..Len(tape')
    BY <1>1, <1>2
  <2>2. DOMAIN tape = 1..Len(tape)
    BY <1>2
  <2>3. Recording!Extend
    BY <1>1, <1>3, <1>4, <2>1, <2>2 DEF Recording!Extend
  <2> QED BY <2>3 DEF Recording!Next
<1>5. CASE ~(Len(tape') > Len(tape))
  <2>1. Len(tape') = Len(tape)
    BY <1>1, <1>2, <1>5
  <2>2. tape' = tape
    <3>1. PICK t \in Seq(Sample) : t = tape'
      BY <1>1
    <3>2. Len(t) = Len(tape) /\ \A k \in 1..Len(tape) : t[k] = tape[k]
      BY <1>1, <2>1, <3>1
    <3>3. t = tape
      BY <1>2, <3>2
    <3> QED BY <3>1, <3>3
  <2> QED BY <1>3, <2>2
<1> QED
  BY <1>4, <1>5

LEMMA StepIsOfTape == StreamInv /\ [Next]_vars => [Recording!Next]_<<streams, tape>>
<1> SUFFICES ASSUME StreamInv, [Next]_vars PROVE [Recording!Next]_<<streams, tape>>
  OBVIOUS
<1>1. ASSUME NEW version \in Versions, Connect(version)
      PROVE  [Recording!Next]_<<streams, tape>>
  BY <1>1 DEF Connect, Recording!Open, Recording!Next
<1>2. ASSUME UNCHANGED <<streams, tape>> PROVE [Recording!Next]_<<streams, tape>>
  BY <1>2
<1>3. ASSUME NEW version \in Versions, RefusePeer(version) PROVE UNCHANGED <<streams, tape>>
  BY <1>3 DEF RefusePeer, client
<1>4. ASSUME NEW count \in Counts, Send(count) PROVE UNCHANGED <<streams, tape>>
  BY <1>4 DEF Send, gateway
<1>5. ASSUME NEW count \in Glitches, Lose(count) PROVE UNCHANGED <<streams, tape>>
  BY <1>5 DEF Lose, gateway
<1>6. ASSUME NEW k \in DOMAIN wire, UNCHANGED client, Halts \/ Records(wire[k])
      PROVE  [Recording!Next]_<<streams, tape>>
  <2>1. CASE Halts
    BY <1>2, <1>6, <2>1 DEF Halts, client
  <2>2. CASE Records(wire[k])
    <3>1. wire[k] \in Sent
      BY EntriesAre
    <3> QED BY <1>6, <2>2, <3>1, RecordExtends
  <2> QED BY <1>6, <2>1, <2>2
<1>7. ASSUME NEW k \in DOMAIN wire, Arrive(k) PROVE [Recording!Next]_<<streams, tape>>
  <2>1. Halts \/ Records(wire[k])
    BY <1>7, ArriveDoes
  <2>2. UNCHANGED client
    BY <1>7 DEF Arrive
  <2> QED BY <1>6, <2>1, <2>2
<1>8. ASSUME NEW k \in DOMAIN wire,
             NEW size \in {0, HeaderSize - 1, HeaderSize, Len(wire[k].bytes) - 1},
             ArriveCut(k, size)
      PROVE  [Recording!Next]_<<streams, tape>>
  <2>1. Halts \/ Records(wire[k])
    BY <1>8, ArriveCutDoes
  <2>2. UNCHANGED client
    BY <1>8 DEF ArriveCut
  <2> QED BY <1>6, <2>1, <2>2
<1>9. ASSUME NEW buffer \in Foreign, ArriveForeign(buffer) PROVE UNCHANGED <<streams, tape>>
  <2>1. Halts
    BY <1>9, ArriveForeignDoes
  <2>2. UNCHANGED client
    BY <1>9 DEF ArriveForeign
  <2> QED BY <2>1, <2>2 DEF Halts, client
<1>10. CASE UNCHANGED vars
  BY <1>10 DEF vars, client, gateway
<1> QED
  BY <1>1, <1>2, <1>3, <1>4, <1>5, <1>7, <1>8, <1>9, <1>10 DEF Next

\* Whatever is lost, repeated, reordered, cut or malformed, the recording is
\* the tape of its stream: it only grows, each gap keeps its duration and each
\* sample is the one that was captured at its position.
THEOREM RecordingIsTape == Spec => ImplementsTape
<1>1. Init => Recording!Init
  BY DEF Init, Recording!Init
<1>2. StreamInv /\ [Next]_vars => [Recording!Next]_<<streams, tape>>
  BY StepIsOfTape
<1>3. Spec => []StreamInv
  BY StreamInvariant
<1> QED
  BY <1>1, <1>2, <1>3, PTL DEF Spec, ImplementsTape, Recording!Spec

=============================================================================
