-------------------------- MODULE MatrixSyncProofs --------------------------
(***************************************************************************)
(* Theorems about the traceability matrix, for any catalogue, any texts    *)
(* and any number of runs, edits and kills.                                *)
(***************************************************************************)
EXTENDS MatrixSync, InductionLemmas

Cells == Seq(Characters)

\* What the tool or a person puts into the status column.
Statuses == AllowedStatuses \cup {h.status : h \in Hands}

\* The rows of sync, and the lines of a file.
RowSet == [id : Ids, requirement : Texts, evidence : Cells, status : Statuses, notes : Cells]

-----------------------------------------------------------------------------
(* Ids in order.                                                           *)

IdOrder(domains) == {pair \in Ids \X Ids : Before(pair[1], pair[2], domains)}

\* Both sort keys of sync order the ids strictly and totally.
LEMMA BeforeOrders ==
    ASSUME NEW domains \in {DomainOrder, Alphabet}
    PROVE  Orders(IdOrder(domains), Ids)
<1> DEFINE At(id) == Rank(id, domains)
<1>1. domains \in Seq(STRING) /\ ToSet(domains) = ToSet(DomainOrder)
  BY MatrixAssumption
<1>2. ASSUME NEW id \in Ids
      PROVE  /\ At(id) \in Nat /\ domains[At(id)] = id.domain /\ id.number \in Nat
             /\ id = [domain |-> id.domain, number |-> id.number]
  <2>1. id \in [domain : ToSet(DomainOrder), number : Nat]
    BY MatrixAssumption
  <2>2. id.domain \in ToSet(domains)
    BY <1>1, <2>1
  <2>3. \E k \in DOMAIN domains : domains[k] = id.domain
    BY <2>2 DEF ToSet
  <2>4. At(id) \in DOMAIN domains /\ domains[At(id)] = id.domain
    BY <2>3 DEF Rank
  <2>5. DOMAIN domains \subseteq Nat
    BY <1>1
  <2> HIDE DEF At
  <2> QED BY <2>1, <2>4, <2>5
<1>3. \A a, b \in Ids : Before(a, b, domains) <=>
         At(a) < At(b) \/ (a.domain = b.domain /\ a.number < b.number)
  BY DEF Before
<1>4. \A a, b \in Ids : a.domain = b.domain <=> At(a) = At(b)
  BY <1>2 DEF Rank
<1> HIDE DEF At
<1>5. \A a \in Ids : ~Before(a, a, domains)
  BY <1>2, <1>3
<1>6. ASSUME NEW a \in Ids, NEW b \in Ids, NEW c \in Ids,
             Before(a, b, domains), Before(b, c, domains)
      PROVE  Before(a, c, domains)
  BY <1>2, <1>3, <1>4, <1>6
<1>7. ASSUME NEW a \in Ids, NEW b \in Ids
      PROVE  a = b \/ Before(a, b, domains) \/ Before(b, a, domains)
  <2>1. CASE a.domain = b.domain /\ a.number = b.number
    BY <1>2, <2>1
  <2>2. CASE ~(a.domain = b.domain /\ a.number = b.number)
    BY <1>2, <1>3, <1>4, <2>2
  <2> QED BY <2>1, <2>2
<1> QED
  BY <1>5, <1>6, <1>7 DEF Orders, IdOrder

\* What sync sorts is sorted, and each id is in it.
LEMMA SortedLists ==
    ASSUME NEW domains \in {DomainOrder, Alphabet},
           NEW S \in SUBSET Ids, IsFiniteSet(S)
    PROVE  /\ Sorted(S, domains) \in Seq(S)
           /\ ToSet(Sorted(S, domains)) = S
           /\ \A j, k \in DOMAIN Sorted(S, domains) :
                 j < k => Before(Sorted(S, domains)[j], Sorted(S, domains)[k], domains)
<1> DEFINE n == Cardinality(S)
           Good(s) == /\ s \in [1..n -> S]
                      /\ ToSet(s) = S
                      /\ \A j, k \in DOMAIN s : j < k => Before(s[j], s[k], domains)
<1>1. n \in Nat
  BY FS_CardinalityType
<1>2. PICK s : Lists(s, S, IdOrder(domains))
  BY BeforeOrders, ListExists
<1>3. Good(s)
  <2>1. s \in [1..n -> S] /\ DOMAIN s = 1..n
    BY <1>2 DEF Lists
  <2>2. ToSet(s) = S
    BY <1>2, <2>1 DEF Lists, ToSet
  <2>3. \A j, k \in DOMAIN s : j < k => Before(s[j], s[k], domains)
    BY <1>2, <2>1 DEF Lists, IdOrder
  <2> QED BY <2>1, <2>2, <2>3
<1>4. Sorted(S, domains) = CHOOSE t \in [1..n -> S] :
         /\ ToSet(t) = S
         /\ \A j, k \in DOMAIN t : j < k => Before(t[j], t[k], domains)
  BY DEF Sorted, InOrder
<1>5. Good(Sorted(S, domains))
  BY <1>3, <1>4
<1> HIDE DEF n
<1> QED
  BY <1>1, <1>5

-----------------------------------------------------------------------------
(* Cells.                                                                  *)

Escaped(c) == IF c = Pipe THEN <<Slash, Pipe>> ELSE <<c>>

\* Escape goes character by character.
LEMMA EscapeAppends ==
    ASSUME NEW t \in Cells, NEW c \in Characters
    PROVE  /\ Escape(t) \in Cells
           /\ Escape(Append(t, c)) = Escape(t) \o Escaped(c)
<1> DEFINE E(u) == [i \in DOMAIN u |-> IF u[i] = Pipe THEN <<Slash, Pipe>> ELSE <<u[i]>>]
<1>1. Slash \in Characters /\ Pipe \in Characters
  BY MatrixAssumption
<1>2. \A d \in Characters : Escaped(d) \in Cells
  BY <1>1 DEF Escaped, Cells
<1>3. E(t) \in Seq(Cells)
  <2>1. \A i \in DOMAIN t : t[i] \in Characters /\ E(t)[i] = Escaped(t[i])
    BY DEF Cells, Escaped
  <2>2. \A i \in DOMAIN t : E(t)[i] \in Cells
    <3> HIDE DEF E
    <3> QED BY <1>2, <2>1
  <2>3. E(t) \in [1..Len(t) -> Cells] /\ Len(t) \in Nat
    BY <2>2 DEF Cells
  <2> HIDE DEF E
  <2> QED BY <2>3
<1>4. E(Append(t, c)) = Append(E(t), Escaped(c))
  BY DEF Cells, Escaped
<1>5. Escape(t) = FlattenSeq(E(t)) /\ Escape(Append(t, c)) = FlattenSeq(E(Append(t, c)))
  BY DEF Escape
<1> HIDE DEF E
<1>6. FlattenSeq(E(t)) \in Cells /\ FlattenSeq(Append(E(t), Escaped(c))) = FlattenSeq(E(t)) \o Escaped(c)
  BY <1>2, <1>3, FlattenAppends DEF Cells
<1> QED
  BY <1>4, <1>5, <1>6

LEMMA EscapeEmpty == Escape(<<>>) = <<>>
<1>1. [i \in DOMAIN <<>> |-> IF <<>>[i] = Pipe THEN <<Slash, Pipe>> ELSE <<(<<>>[i])>>] = <<>>
  OBVIOUS
<1> QED
  BY <1>1, FlattenEmpty DEF Escape

\* A character that is no pipe stays as it is, and takes nothing with it; a
\* pipe takes the backslash before it.
LEMMA UnescapeAppends ==
    ASSUME NEW t \in Cells, NEW c \in Characters, c # Pipe
    PROVE  /\ Unescape(t) \in Cells
           /\ Unescape(Append(t, c)) = Unescape(t) \o <<c>>
           /\ Unescape(Append(Append(t, Slash), Pipe)) = Unescape(t) \o <<Pipe>>
<1> DEFINE U(u) == [i \in DOMAIN u |->
                      IF u[i] = Slash /\ i < Len(u) /\ u[i + 1] = Pipe
                      THEN <<>> ELSE <<u[i]>>]
<1>1. Slash \in Characters /\ Pipe \in Characters /\ Pipe # Slash
  BY MatrixAssumption
<1>2. ASSUME NEW u \in Cells PROVE U(u) \in Seq(Cells) /\ Unescape(u) = FlattenSeq(U(u))
  <2>1. \A i \in DOMAIN u : u[i] \in Characters
    BY DEF Cells
  <2>2. \A i \in DOMAIN u : U(u)[i] \in Cells
    BY <2>1 DEF Cells
  <2>3. U(u) \in [1..Len(u) -> Cells] /\ Len(u) \in Nat
    BY <2>2 DEF Cells
  <2>4. Unescape(u) = FlattenSeq(U(u))
    BY DEF Unescape
  <2> HIDE DEF U
  <2> QED BY <2>3, <2>4
<1>3. ASSUME NEW d \in Characters, d # Pipe PROVE U(Append(t, d)) = Append(U(t), <<d>>)
  BY <1>3 DEF Cells
<1>4. U(Append(Append(t, Slash), Pipe)) = Append(Append(U(t), <<>>), <<Pipe>>)
  <2> DEFINE v == Append(Append(t, Slash), Pipe)
             w == Append(Append(U(t), <<>>), <<Pipe>>)
             n == Len(t)
  <2>1. n \in Nat /\ DOMAIN v = 1..(n + 2) /\ Len(v) = n + 2 /\ DOMAIN w = 1..(n + 2)
    BY DEF Cells
  <2>2. v[n + 1] = Slash /\ v[n + 2] = Pipe /\ \A i \in 1..n : v[i] = t[i]
    BY DEF Cells
  <2>3. w[n + 1] = <<>> /\ w[n + 2] = <<Pipe>> /\ \A i \in 1..n : w[i] = U(t)[i]
    BY DEF Cells
  <2>4. ASSUME NEW i \in 1..(n + 2) PROVE U(v)[i] = w[i]
    <3>1. CASE i = n + 2
      BY <1>1, <2>1, <2>2, <2>3, <3>1
    <3>2. CASE i = n + 1
      <4>1. i < n + 2 /\ i + 1 = n + 2
        BY <2>1, <3>2
      <4> QED BY <2>1, <2>2, <2>3, <3>2, <4>1
    <3>3. CASE i \in 1..n
      <4>1. i \in DOMAIN t /\ U(t)[i] = IF t[i] = Slash /\ i < n /\ t[i + 1] = Pipe
                                         THEN <<>> ELSE <<t[i]>>
        BY <3>3 DEF Cells
      <4>2. CASE i < n
        <5>1. i + 1 \in 1..n /\ i < n + 2
          BY <2>1, <3>3, <4>2
        <5>2. v[i + 1] = t[i + 1]
          BY <2>2, <5>1
        <5> HIDE DEF v, w
        <5> QED BY <2>1, <2>2, <2>3, <3>3, <4>1, <4>2, <5>1, <5>2
      <4>3. CASE i = n
        <5>1. v[i + 1] = Slash /\ Slash # Pipe
          BY <1>1, <2>2, <4>3
        <5>2. U(v)[i] = <<v[i]>>
          <6> HIDE DEF v, w
          <6> QED BY <2>1, <4>3, <5>1
        <5>3. v[i] = t[i] /\ w[i] = U(t)[i] /\ U(t)[i] = <<t[i]>>
          <6> HIDE DEF v, w, U
          <6> QED BY <2>1, <2>2, <2>3, <3>3, <4>1, <4>3
        <5> HIDE DEF v, w, U
        <5> QED BY <5>2, <5>3
      <4> QED BY <2>1, <3>3, <4>2, <4>3
    <3> QED BY <2>1, <3>1, <3>2, <3>3
  <2>5. U(v) = [i \in 1..(n + 2) |-> w[i]]
    <3>1. U(v) = [i \in 1..(n + 2) |-> U(v)[i]]
      BY <2>1
    <3> HIDE DEF U, v, w
    <3> QED BY <2>4, <3>1
  <2>6. w = [i \in 1..(n + 2) |-> w[i]]
    BY <2>1
  <2> HIDE DEF U, w, n
  <2> QED BY <2>5, <2>6 DEF w
<1> HIDE DEF U
<1>5. Append(t, c) \in Cells /\ Append(Append(t, Slash), Pipe) \in Cells
  BY <1>1 DEF Cells
<1>6. /\ U(t) \in Seq(Cells) /\ <<>> \in Cells /\ <<c>> \in Cells /\ <<Pipe>> \in Cells
      /\ Append(U(t), <<>>) \in Seq(Cells)
  BY <1>1, <1>2 DEF Cells
<1>7. FlattenSeq(U(t)) \in Cells /\ FlattenSeq(Append(U(t), <<c>>)) = FlattenSeq(U(t)) \o <<c>>
  BY <1>6, FlattenAppends DEF Cells
<1>8. FlattenSeq(Append(U(t), <<>>)) = FlattenSeq(U(t)) \o <<>>
  BY <1>6, FlattenAppends DEF Cells
<1>9. FlattenSeq(Append(Append(U(t), <<>>), <<Pipe>>)) = FlattenSeq(Append(U(t), <<>>)) \o <<Pipe>>
  BY <1>6, FlattenAppends DEF Cells
<1>10. FlattenSeq(U(t)) \o <<>> = FlattenSeq(U(t))
  BY <1>7 DEF Cells
<1> QED
  BY <1>2, <1>3, <1>4, <1>5, <1>7, <1>8, <1>9, <1>10

LEMMA UnescapeEmpty == Unescape(<<>>) = <<>>
<1>1. [i \in DOMAIN <<>> |-> IF <<>>[i] = Slash /\ i < Len(<<>>) /\ <<>>[i + 1] = Pipe
                            THEN <<>> ELSE <<(<<>>[i])>>] = <<>>
  OBVIOUS
<1> QED
  BY <1>1, FlattenEmpty DEF Unescape

\* A cell goes on splitting nothing when an escaped character is appended.
LEMMA SplitsAppends ==
    ASSUME NEW u \in Cells, ~Splits(u), NEW c \in Characters
    PROVE  ~Splits(u \o Escaped(c))
<1> DEFINE v == u \o Escaped(c)
<1>1. Slash \in Characters /\ Pipe \in Characters /\ Pipe # Slash
  BY MatrixAssumption
<1>2. \A i \in DOMAIN u : v[i] = u[i]
  BY <1>1 DEF Cells, Escaped
<1>3. \A i \in DOMAIN u : u[i] = Pipe => i # 1 /\ u[i - 1] = Slash /\ i - 1 \in DOMAIN u
  BY DEF Splits, Cells
<1>4. ASSUME NEW i \in DOMAIN v, i \notin DOMAIN u, v[i] = Pipe
      PROVE  i # 1 /\ v[i - 1] = Slash
  <2>1. CASE c = Pipe
    BY <1>1, <1>4, <2>1 DEF Cells, Escaped
  <2>2. CASE c # Pipe
    BY <1>1, <1>4, <2>2 DEF Cells, Escaped
  <2> QED BY <2>1, <2>2
<1>5. \A i \in DOMAIN v : v[i] = Pipe => i # 1 /\ v[i - 1] = Slash
  <2> HIDE DEF v
  <2> QED BY <1>2, <1>3, <1>4
<1> HIDE DEF v
<1>6. ~Splits(v)
  BY <1>5 DEF Splits
<1> QED
  BY <1>6 DEF v

\* What is escaped reads back as it was and never splits its row.
LEMMA CellsRoundTrip ==
    ASSUME NEW cell \in Cells
    PROVE  Escape(cell) \in Cells /\ Unescape(Escape(cell)) = cell /\ ~Splits(Escape(cell))
<1> DEFINE Good(s) == /\ Escape(s) \in Cells
                      /\ Unescape(Escape(s)) = s
                      /\ ~Splits(Escape(s))
           N == {n \in Nat : \A s \in Cells : Len(s) = n => Good(s)}
<1>1. Slash \in Characters /\ Pipe \in Characters /\ Pipe # Slash
  BY MatrixAssumption
<1>2. 0 \in N
  <2>1. \A s \in Cells : Len(s) = 0 => s = <<>>
    BY DEF Cells
  <2>2. ~Splits(<<>>) /\ <<>> \in Cells
    BY DEF Splits, Cells
  <2>3. Good(<<>>)
    BY <2>2, EscapeEmpty, UnescapeEmpty
  <2> HIDE DEF Good
  <2> QED BY <2>1, <2>3
<1>3. ASSUME NEW n \in Nat, n \in N PROVE n + 1 \in N
  <2> SUFFICES ASSUME NEW s \in Cells, Len(s) = n + 1 PROVE Good(s)
    OBVIOUS
  <2> DEFINE t == [i \in 1..n |-> s[i]]
             c == s[n + 1]
  <2>1. t \in Cells /\ Len(t) = n /\ c \in Characters /\ s = Append(t, c)
    BY DEF Cells
  <2>2. Good(t)
    <3> HIDE DEF Good, t
    <3> QED BY <1>3, <2>1
  <2> HIDE DEF t, c
  <2>3. Escape(s) = Escape(t) \o Escaped(c)
    BY <2>1, EscapeAppends
  <2>4. Escape(s) \in Cells
    BY <1>1, <2>1, <2>2, <2>3 DEF Escaped, Cells
  <2>5. ~Splits(Escape(s))
    BY <2>1, <2>2, <2>3, SplitsAppends
  <2>6. Unescape(Escape(s)) = t \o <<c>>
    <3>1. CASE c = Pipe
      <4>1. Escape(s) = Append(Append(Escape(t), Slash), Pipe)
        BY <2>2, <2>3, <3>1 DEF Escaped, Cells
      <4>2. Unescape(Append(Append(Escape(t), Slash), Pipe)) = Unescape(Escape(t)) \o <<Pipe>>
        BY <1>1, <2>2, UnescapeAppends
      <4> QED BY <2>2, <3>1, <4>1, <4>2
    <3>2. CASE c # Pipe
      <4>1. Escape(s) = Append(Escape(t), c)
        BY <2>2, <2>3, <3>2 DEF Escaped, Cells
      <4>2. Unescape(Append(Escape(t), c)) = Unescape(Escape(t)) \o <<c>>
        BY <2>1, <2>2, <3>2, UnescapeAppends
      <4> QED BY <2>2, <4>1, <4>2
    <3> QED BY <3>1, <3>2
  <2>7. t \o <<c>> = s
    BY <2>1 DEF Cells
  <2> QED BY <2>4, <2>5, <2>6, <2>7
<1>4. Nat \subseteq N
  <2> HIDE DEF N
  <2> QED BY <1>2, <1>3, NatStep
<1>5. Len(cell) \in Nat
  BY DEF Cells
<1> QED
  BY <1>4, <1>5

LEMMA UnescapeType == \A cell \in Cells : Unescape(cell) \in Cells
<1>1. Slash \in Characters /\ Pipe # Slash
  BY MatrixAssumption
<1> QED
  BY <1>1, UnescapeAppends

-----------------------------------------------------------------------------
(* Reading a file.                                                         *)

WholeLines(lines) == {k \in DOMAIN lines : ~Broken(lines[k])}

\* The last of the whole lines with an id is what a reader finds under it.
Reads(lines, id, row) ==
    \E k \in WholeLines(lines) :
        /\ lines[k].id = id
        /\ \A j \in WholeLines(lines) : lines[j].id = id => j <= k
        /\ row = RowOf(lines[k])

LEMMA ParseReads ==
    ASSUME NEW file, Tables(file) \in Seq(RowSet)
    PROVE  /\ DOMAIN Parse(file) = {Tables(file)[k].id : k \in WholeLines(Tables(file))}
           /\ \A id \in DOMAIN Parse(file) : Reads(Tables(file), id, Parse(file)[id])
<1> DEFINE lines == Tables(file)
           whole == WholeLines(lines)
           Newest(id, k) == /\ k \in whole
                            /\ lines[k].id = id
                            /\ \A j \in whole : lines[j].id = id => j <= k
<1>1. DOMAIN Parse(file) = {lines[k].id : k \in whole}
  BY DEF Parse, WholeLines
<1>2. ASSUME NEW id \in DOMAIN Parse(file) PROVE Reads(lines, id, Parse(file)[id])
  <2> DEFINE latest == CHOOSE k \in whole :
                          /\ lines[k].id = id
                          /\ \A j \in whole : lines[j].id = id => j <= k
  <2>1. \E k : Newest(id, k)
    <3> DEFINE S == {k \in whole : lines[k].id = id}
    <3>1. whole \subseteq 1..Len(lines) /\ Len(lines) \in Nat
      BY DEF WholeLines
    <3>2. S # {}
      BY <1>1
    <3>3. S \subseteq Nat /\ \A n \in S : n <= Len(lines)
      BY <3>1
    <3>4. PICK n \in S : \A m \in S : m <= n
      <4> HIDE DEF S, lines
      <4> QED BY <3>1, <3>2, <3>3, Greatest
    <3> QED BY <3>4
  <2>2. Newest(id, latest)
    <3> HIDE DEF whole, lines
    <3> QED BY <2>1
  <2>3. Parse(file)[id] = RowOf(lines[latest])
    BY <1>1 DEF Parse, WholeLines
  <2> HIDE DEF latest, lines
  <2> QED BY <2>2, <2>3 DEF Reads
<1> QED
  BY <1>1, <1>2

\* The catalogue as main has read it, and the rows as it has read them.
IsCatalogue(r) ==
    DOMAIN r \in SUBSET Ids /\ IsFiniteSet(DOMAIN r) /\ r \in [DOMAIN r -> Texts]

IsExisting(e) ==
    /\ DOMAIN e \in SUBSET Ids /\ IsFiniteSet(DOMAIN e)
    /\ e \in [DOMAIN e -> RowSet]
    /\ \A id \in DOMAIN e : e[id].id = id

LEMMA ParseType ==
    ASSUME NEW file, Tables(file) \in Seq(RowSet)
    PROVE  IsExisting(Parse(file))
<1> DEFINE lines == Tables(file)
           whole == WholeLines(lines)
<1>1. DOMAIN Parse(file) = {lines[k].id : k \in whole}
  BY ParseReads
<1>2. whole \subseteq 1..Len(lines) /\ Len(lines) \in Nat
  BY DEF WholeLines
<1>3. IsFiniteSet({lines[k].id : k \in whole})
  <2>1. IsFiniteSet(whole)
    <3>1. IsFiniteSet(1..Len(lines))
      BY <1>2, FS_Interval
    <3> HIDE DEF whole
    <3> QED BY <1>2, <3>1, FS_Subset
  <2> DEFINE f == [k \in whole |-> lines[k].id]
  <2>2. IsFiniteSet({f[k] : k \in whole})
    <3>1. DOMAIN f = whole
      OBVIOUS
    <3> HIDE DEF f, whole
    <3> QED BY <2>1, <3>1, FiniteRange
  <2>3. {f[k] : k \in whole} = {lines[k].id : k \in whole}
    OBVIOUS
  <2> QED BY <2>2, <2>3
<1>4. \A k \in whole : lines[k] \in RowSet
  BY <1>2
<1>5. DOMAIN Parse(file) \in SUBSET Ids
  BY <1>1, <1>4 DEF RowSet
<1>6. ASSUME NEW id \in DOMAIN Parse(file)
      PROVE  Parse(file)[id] \in RowSet /\ Parse(file)[id].id = id
  <2>1. PICK k \in whole : /\ lines[k].id = id
                           /\ Parse(file)[id] = RowOf(lines[k])
    <3>1. Reads(lines, id, Parse(file)[id])
      BY ParseReads
    <3> HIDE DEF lines
    <3> QED BY <3>1 DEF Reads
  <2>2. lines[k] \in RowSet
    BY <1>4
  <2>3. Unescape(lines[k].evidence) \in Cells /\ Unescape(lines[k].notes) \in Cells
    BY <2>2, UnescapeType DEF RowSet
  <2> DEFINE line == lines[k]
  <2> HIDE DEF lines
  <2>4. line \in RowSet /\ Unescape(line.evidence) \in Cells /\ Unescape(line.notes) \in Cells
    BY <2>2, <2>3
  <2> HIDE DEF line
  <2>5. RowOf(line) \in RowSet /\ RowOf(line).id = line.id
    BY <2>4 DEF RowSet, RowOf
  <2> QED BY <2>1, <2>5 DEF line
<1>7. Parse(file) = [id \in DOMAIN Parse(file) |-> Parse(file)[id]]
  BY DEF Parse
<1> HIDE DEF lines, whole
<1> QED
  BY <1>1, <1>3, <1>5, <1>6, <1>7 DEF IsExisting

\* A file that shows each row of M, once or several times, is read as M.
LEMMA ReadsBack ==
    ASSUME NEW M, IsExisting(M), NEW file, Tables(file) \in Seq(RowSet),
           \A k \in DOMAIN Tables(file) :
              /\ Tables(file)[k].id \in DOMAIN M
              /\ Tables(file)[k] = Line(M[Tables(file)[k].id]),
           \A id \in DOMAIN M : \E k \in DOMAIN Tables(file) : Tables(file)[k].id = id
    PROVE  Parse(file) = M
<1> DEFINE lines == Tables(file)
<1>1. ASSUME NEW id \in DOMAIN M
      PROVE  ~Broken(Line(M[id])) /\ RowOf(Line(M[id])) = M[id]
  <2> DEFINE row == M[id]
  <2>1. row \in RowSet
    BY DEF IsExisting
  <2> HIDE DEF row
  <2>2. /\ ~Splits(Escape(row.evidence)) /\ Unescape(Escape(row.evidence)) = row.evidence
        /\ ~Splits(Escape(row.notes)) /\ Unescape(Escape(row.notes)) = row.notes
    BY <2>1, CellsRoundTrip DEF RowSet
  <2>3. /\ Line(row).evidence = Escape(row.evidence)
        /\ Line(row).notes = Escape(row.notes)
    BY <2>1 DEF Line, RowSet
  <2>4. RowOf(Line(row)) = [row EXCEPT !.evidence = Unescape(Escape(row.evidence)),
                                       !.notes = Unescape(Escape(row.notes))]
    BY <2>1, <2>3 DEF RowOf, Line, RowSet
  <2>5. [row EXCEPT !.evidence = row.evidence, !.notes = row.notes] = row
    BY <2>1 DEF RowSet
  <2> QED BY <2>2, <2>3, <2>4, <2>5 DEF Broken, row
<1>2. WholeLines(lines) = DOMAIN lines
  <2>1. \A k \in DOMAIN lines : lines[k].id \in DOMAIN M /\ lines[k] = Line(M[lines[k].id])
    OBVIOUS
  <2>2. \A k \in DOMAIN lines : ~Broken(lines[k])
    <3> HIDE DEF lines
    <3> QED BY <1>1, <2>1
  <2> QED BY <2>2 DEF WholeLines
<1>3. DOMAIN Parse(file) = DOMAIN M
  <2>1. DOMAIN Parse(file) = {lines[k].id : k \in DOMAIN lines}
    BY <1>2, ParseReads
  <2>2. \A k \in DOMAIN lines : lines[k].id \in DOMAIN M
    OBVIOUS
  <2>3. \A id \in DOMAIN M : \E k \in DOMAIN lines : lines[k].id = id
    OBVIOUS
  <2> HIDE DEF lines
  <2> QED BY <2>1, <2>2, <2>3
<1>4. ASSUME NEW id \in DOMAIN M PROVE Parse(file)[id] = M[id]
  <2>1. PICK k \in DOMAIN lines : /\ lines[k].id = id
                                  /\ Parse(file)[id] = RowOf(lines[k])
    <3>1. Reads(lines, id, Parse(file)[id])
      BY <1>3, ParseReads
    <3> HIDE DEF lines
    <3> QED BY <1>2, <3>1 DEF Reads
  <2>2. lines[k] = Line(M[id])
    BY <2>1
  <2> QED BY <1>1, <2>1, <2>2
<1>5. Parse(file) = [id \in DOMAIN Parse(file) |-> Parse(file)[id]] /\ M = [id \in DOMAIN M |-> M[id]]
  BY DEF Parse, IsExisting
<1> QED
  BY <1>3, <1>4, <1>5

-----------------------------------------------------------------------------
(* What a run renders.                                                     *)

\* The rows after a run: the catalogue's text, and all else as it was.
Merged(requirements, existing) ==
    [id \in DOMAIN requirements \cup DOMAIN existing |->
        IF id \notin DOMAIN requirements THEN existing[id]
        ELSE IF id \in DOMAIN existing THEN Retained(requirements[id], existing[id])
        ELSE Row(id, requirements[id])]

LEMMA MergedType ==
    ASSUME NEW requirements, IsCatalogue(requirements), NEW existing, IsExisting(existing)
    PROVE  IsExisting(Merged(requirements, existing))
<1> DEFINE M == Merged(requirements, existing)
<1>1. DOMAIN M = DOMAIN requirements \cup DOMAIN existing
  BY DEF Merged
<1>2. DOMAIN M \in SUBSET Ids /\ IsFiniteSet(DOMAIN M)
  <2>1. IsFiniteSet(DOMAIN requirements) /\ IsFiniteSet(DOMAIN existing)
    BY DEF IsCatalogue, IsExisting
  <2>2. IsFiniteSet(DOMAIN requirements \cup DOMAIN existing)
    BY <2>1, FS_Union
  <2> HIDE DEF M
  <2> QED BY <1>1, <2>2 DEF IsCatalogue, IsExisting
<1>3. ASSUME NEW id \in DOMAIN M PROVE M[id] \in RowSet /\ M[id].id = id
  <2>1. Empty \in Cells
    BY MatrixAssumption DEF Empty, Cells
  <2>2. ASSUME NEW row \in RowSet, NEW text \in Texts
        PROVE  Retained(text, row) \in RowSet /\ Retained(text, row).id = row.id
    BY DEF Retained, RowSet
  <2>3. ASSUME NEW text \in Texts, id \in Ids
        PROVE  Row(id, text) \in RowSet /\ Row(id, text).id = id
    <3>1. "planned" \in Statuses
      BY DEF Statuses, AllowedStatuses
    <3> HIDE DEF M
    <3> QED BY <2>1, <2>3, <3>1 DEF Row, RowSet
  <2>4. id \in DOMAIN requirements => requirements[id] \in Texts /\ id \in Ids
    BY DEF IsCatalogue
  <2>5. id \in DOMAIN existing => existing[id] \in RowSet /\ existing[id].id = id
    BY DEF IsExisting
  <2>6. M[id] = IF id \notin DOMAIN requirements THEN existing[id]
                ELSE IF id \in DOMAIN existing THEN Retained(requirements[id], existing[id])
                ELSE Row(id, requirements[id])
    BY <1>1 DEF Merged
  <2> HIDE DEF M
  <2> QED BY <1>1, <2>2, <2>3, <2>4, <2>5, <2>6
<1>4. M = [id \in DOMAIN M |-> M[id]]
  BY DEF Merged
<1> HIDE DEF M
<1> QED
  BY <1>2, <1>3, <1>4 DEF IsExisting, M

\* The rows of a sequence are M's, and all those of S among them.
Shows(rows, M, S) ==
    /\ rows \in Seq(RowSet)
    /\ \A k \in DOMAIN rows : rows[k].id \in S /\ rows[k] = M[rows[k].id]
    /\ \A id \in S : \E k \in DOMAIN rows : rows[k].id = id

\* Rows that follow a sorted sequence of ids.
LEMMA SortedShows ==
    ASSUME NEW domains \in {DomainOrder, Alphabet}, NEW M, IsExisting(M),
           NEW S \in SUBSET DOMAIN M, NEW rows,
           rows = [k \in DOMAIN Sorted(S, domains) |-> M[Sorted(S, domains)[k]]]
    PROVE  Shows(rows, M, S) /\ Ascending(rows, domains)
<1> DEFINE ids == Sorted(S, domains)
<1>1. S \in SUBSET Ids /\ IsFiniteSet(S)
  <2>1. IsFiniteSet(DOMAIN M) /\ DOMAIN M \in SUBSET Ids
    BY DEF IsExisting
  <2> QED BY <2>1, FS_Subset
<1>2. /\ ids \in Seq(S) /\ ToSet(ids) = S
      /\ \A j, k \in DOMAIN ids : j < k => Before(ids[j], ids[k], domains)
  BY <1>1, SortedLists
<1> HIDE DEF ids
<1>3. \A k \in DOMAIN ids : ids[k] \in S /\ M[ids[k]] \in RowSet /\ M[ids[k]].id = ids[k]
  BY <1>2 DEF IsExisting
<1>4. rows = [k \in DOMAIN ids |-> M[ids[k]]]
  BY DEF ids
<1>5. rows \in Seq(RowSet)
  <2>1. DOMAIN ids = 1..Len(ids) /\ Len(ids) \in Nat
    BY <1>2
  <2>2. rows \in [1..Len(ids) -> RowSet]
    BY <1>3, <1>4, <2>1
  <2> QED BY <2>1, <2>2
<1>6. \A id \in S : \E k \in DOMAIN ids : ids[k] = id
  BY <1>2 DEF ToSet
<1>7. Shows(rows, M, S)
  BY <1>3, <1>4, <1>5, <1>6 DEF Shows
<1>8. Ascending(rows, domains)
  BY <1>2, <1>3, <1>4 DEF Ascending
<1> QED
  BY <1>7, <1>8

LEMMA RowsShow ==
    ASSUME NEW requirements, IsCatalogue(requirements), NEW existing, IsExisting(existing)
    PROVE  /\ Shows(Rows(requirements, existing), Merged(requirements, existing), DOMAIN requirements)
           /\ Ascending(Rows(requirements, existing), DomainOrder)
           /\ Shows(Orphaned(requirements, existing), Merged(requirements, existing),
                    DOMAIN existing \ DOMAIN requirements)
           /\ Ascending(Orphaned(requirements, existing), Alphabet)
<1> DEFINE M == Merged(requirements, existing)
<1>1. IsExisting(M) /\ DOMAIN M = DOMAIN requirements \cup DOMAIN existing
  BY MergedType DEF Merged
<1>2. DOMAIN requirements \in SUBSET Ids /\ IsFiniteSet(DOMAIN requirements)
  BY DEF IsCatalogue
<1>3. ToSet(Sorted(DOMAIN requirements, DomainOrder)) = DOMAIN requirements
  BY <1>2, SortedLists
<1>4. \A k \in DOMAIN Sorted(DOMAIN requirements, DomainOrder) :
         Sorted(DOMAIN requirements, DomainOrder)[k] \in DOMAIN requirements
  BY <1>3 DEF ToSet
<1>5. Rows(requirements, existing)
        = [k \in DOMAIN Sorted(DOMAIN requirements, DomainOrder) |->
             M[Sorted(DOMAIN requirements, DomainOrder)[k]]]
  BY <1>4 DEF Rows, Merged
<1>6. DOMAIN existing \ DOMAIN requirements \in SUBSET Ids
      /\ IsFiniteSet(DOMAIN existing \ DOMAIN requirements)
  <2>1. IsFiniteSet(DOMAIN existing) /\ DOMAIN existing \in SUBSET Ids
    BY DEF IsExisting
  <2> QED BY <2>1, FS_Subset
<1>7. ToSet(Sorted(DOMAIN existing \ DOMAIN requirements, Alphabet))
        = DOMAIN existing \ DOMAIN requirements
  BY <1>6, SortedLists
<1>8. \A k \in DOMAIN Sorted(DOMAIN existing \ DOMAIN requirements, Alphabet) :
         Sorted(DOMAIN existing \ DOMAIN requirements, Alphabet)[k]
            \in DOMAIN existing \ DOMAIN requirements
  BY <1>7 DEF ToSet
<1>9. Orphaned(requirements, existing)
        = [k \in DOMAIN Sorted(DOMAIN existing \ DOMAIN requirements, Alphabet) |->
             M[Sorted(DOMAIN existing \ DOMAIN requirements, Alphabet)[k]]]
  BY <1>8 DEF Orphaned, Merged
<1> HIDE DEF M
<1>10. DOMAIN requirements \in SUBSET DOMAIN M
       /\ DOMAIN existing \ DOMAIN requirements \in SUBSET DOMAIN M
  BY <1>1
<1>11. Shows(Rows(requirements, existing), M, DOMAIN requirements)
       /\ Ascending(Rows(requirements, existing), DomainOrder)
  <2> DEFINE S == DOMAIN requirements
             rows == Rows(requirements, existing)
  <2>1. S \in SUBSET DOMAIN M /\ IsExisting(M)
        /\ rows = [k \in DOMAIN Sorted(S, DomainOrder) |-> M[Sorted(S, DomainOrder)[k]]]
    BY <1>1, <1>5, <1>10
  <2> HIDE DEF S, rows
  <2>2. Shows(rows, M, S) /\ Ascending(rows, DomainOrder)
    BY <2>1, SortedShows
  <2> QED BY <2>2 DEF S, rows
<1>12. Shows(Orphaned(requirements, existing), M, DOMAIN existing \ DOMAIN requirements)
       /\ Ascending(Orphaned(requirements, existing), Alphabet)
  <2> DEFINE S == DOMAIN existing \ DOMAIN requirements
             rows == Orphaned(requirements, existing)
  <2>1. S \in SUBSET DOMAIN M /\ IsExisting(M)
        /\ rows = [k \in DOMAIN Sorted(S, Alphabet) |-> M[Sorted(S, Alphabet)[k]]]
    BY <1>1, <1>9, <1>10
  <2> HIDE DEF S, rows
  <2>2. Shows(rows, M, S) /\ Ascending(rows, Alphabet)
    BY <2>1, SortedShows
  <2> QED BY <2>2 DEF S, rows
<1> QED
  BY <1>11, <1>12 DEF M

\* The places of rows in ascending order.
LEMMA PlacesInOrder ==
    ASSUME NEW S \in SUBSET Nat, IsFiniteSet(S), NEW places,
           places = CHOOSE t \in [1..Cardinality(S) -> S] :
                      /\ ToSet(t) = S
                      /\ \A j, k \in DOMAIN t : j < k => t[j] < t[k]
    PROVE  /\ places \in Seq(S)
           /\ \A j, k \in DOMAIN places : j < k => places[j] < places[k]
<1> DEFINE R == {p \in Nat \X Nat : p[1] < p[2]}
           n == Cardinality(S)
           D == [1..n -> S]
           Good(s) == /\ ToSet(s) = S
                      /\ \A j, k \in DOMAIN s : j < k => s[j] < s[k]
<1>1. n \in Nat
  BY FS_CardinalityType
<1>2. Orders(R, Nat)
  BY DEF Orders
<1>3. PICK s : Lists(s, S, R)
  <2> HIDE DEF R
  <2> QED BY <1>2, ListExists
<1>4. s \in D /\ Good(s)
  <2> HIDE DEF n
  <2>1. s \in D /\ DOMAIN s = 1..n /\ \A k \in 1..n : s[k] \in Nat
    BY <1>3 DEF Lists, n
  <2>2. ToSet(s) = S
    BY <1>3, <2>1 DEF Lists, ToSet, n
  <2>3. ASSUME NEW j \in 1..n, NEW k \in 1..n, j < k PROVE s[j] < s[k]
    <3>1. <<s[j], s[k]>> \in R
      BY <1>3, <2>3 DEF Lists, n
    <3> QED BY <3>1
  <2> QED BY <2>1, <2>2, <2>3
<1>5. places \in D /\ Good(places)
  <2>1. places = CHOOSE t \in D : Good(t)
    OBVIOUS
  <2> HIDE DEF D, Good
  <2> QED BY <1>4, <2>1
<1>6. /\ places \in [1..n -> S]
      /\ \A j, k \in DOMAIN places : j < k => places[j] < places[k]
  BY <1>5
<1> HIDE DEF n, Good
<1>7. places \in Seq(S)
  BY <1>1, <1>6, IsSequence
<1> QED
  BY <1>6, <1>7

\* The rows that are listed once more are rows of the tables, in their order.
LEMMA AcceptedRows ==
    ASSUME NEW rows \in Seq(RowSet), NEW domains, Ascending(rows, domains)
    PROVE  /\ Accepted(rows) \in Seq(RowSet)
           /\ \A k \in DOMAIN Accepted(rows) : \E j \in DOMAIN rows : Accepted(rows)[k] = rows[j]
           /\ Ascending(Accepted(rows), domains)
<1> DEFINE S == {k \in DOMAIN rows : rows[k].status = "accepted_exception"}
           places == InOrder(S, <)
<1>1. S \in SUBSET Nat /\ IsFiniteSet(S) /\ S \subseteq DOMAIN rows
  <2>1. S \subseteq 1..Len(rows) /\ Len(rows) \in Nat
    OBVIOUS
  <2>2. IsFiniteSet(1..Len(rows))
    BY <2>1, FS_Interval
  <2>3. IsFiniteSet(S)
    <3> HIDE DEF S
    <3> QED BY <2>1, <2>2, FS_Subset
  <2> QED BY <2>1, <2>3
<1>2. /\ places \in Seq(S)
      /\ \A j, k \in DOMAIN places : j < k => places[j] < places[k]
  <2>1. places = CHOOSE t \in [1..Cardinality(S) -> S] :
                    /\ ToSet(t) = S
                    /\ \A j, k \in DOMAIN t : j < k => t[j] < t[k]
    BY DEF InOrder
  <2> HIDE DEF S, places
  <2> QED BY <1>1, <2>1, PlacesInOrder
<1>3. Accepted(rows) = [n \in DOMAIN places |-> rows[places[n]]]
  BY DEF Accepted
<1> HIDE DEF S, places
<1>4. ASSUME NEW n \in DOMAIN places
      PROVE  places[n] \in DOMAIN rows /\ rows[places[n]] \in RowSet
  <2>1. places[n] \in DOMAIN rows
    <3>1. places[n] \in S
      BY <1>2
    <3> QED BY <1>1, <3>1
  <2>2. \A j \in DOMAIN rows : rows[j] \in RowSet
    OBVIOUS
  <2> QED BY <2>1, <2>2
<1>5. Accepted(rows) \in Seq(RowSet)
  <2>1. DOMAIN places = 1..Len(places) /\ Len(places) \in Nat
    BY <1>2
  <2>2. Accepted(rows) \in [1..Len(places) -> RowSet]
    BY <1>3, <1>4, <2>1
  <2> QED BY <2>1, <2>2
<1>6. Ascending(Accepted(rows), domains)
  BY <1>2, <1>3, <1>4 DEF Ascending
<1> QED
  BY <1>3, <1>4, <1>5, <1>6

LEMMA LinesOf ==
    ASSUME NEW rows \in Seq(RowSet)
    PROVE  /\ Lines(rows) \in Seq(RowSet)
           /\ DOMAIN Lines(rows) = DOMAIN rows
           /\ \A k \in DOMAIN rows : /\ Lines(rows)[k] = Line(rows[k])
                                     /\ Lines(rows)[k].id = rows[k].id
           /\ \A domains : Ascending(rows, domains) => Ascending(Lines(rows), domains)
<1>1. ASSUME NEW row \in RowSet PROVE Line(row) \in RowSet /\ Line(row).id = row.id
  <2>1. Escape(row.evidence) \in Cells /\ Escape(row.notes) \in Cells
    BY CellsRoundTrip DEF RowSet
  <2> QED BY <2>1 DEF Line, RowSet
<1>2. \A k \in DOMAIN rows : rows[k] \in RowSet
  OBVIOUS
<1>3. Lines(rows) = [k \in DOMAIN rows |-> Line(rows[k])]
  BY DEF Lines
<1>4. Lines(rows) \in Seq(RowSet)
  <2>1. Lines(rows) \in [1..Len(rows) -> RowSet] /\ Len(rows) \in Nat
    BY <1>1, <1>2, <1>3
  <2> QED BY <2>1
<1>5. ASSUME NEW domains, Ascending(rows, domains) PROVE Ascending(Lines(rows), domains)
  BY <1>1, <1>2, <1>3, <1>5 DEF Ascending
<1> QED
  BY <1>1, <1>2, <1>3, <1>4, <1>5

InTables(file, line) ==
    \/ \E i \in DOMAIN file.domain : line = file.domain[i]
    \/ \E i \in DOMAIN file.orphans : line = file.orphans[i]
    \/ \E i \in DOMAIN file.accepted : line = file.accepted[i]

\* The lines of a file are those of its three tables.
LEMMA TablesOf ==
    ASSUME NEW X, NEW file, file.domain \in Seq(X), file.orphans \in Seq(X),
           file.accepted \in Seq(X)
    PROVE  /\ Tables(file) \in Seq(X)
           /\ \A k \in DOMAIN Tables(file) : InTables(file, Tables(file)[k])
           /\ \A i \in DOMAIN file.domain :
                 \E k \in DOMAIN Tables(file) : Tables(file)[k] = file.domain[i]
           /\ \A i \in DOMAIN file.orphans :
                 \E k \in DOMAIN Tables(file) : Tables(file)[k] = file.orphans[i]
           /\ \A i \in DOMAIN file.accepted :
                 \E k \in DOMAIN Tables(file) : Tables(file)[k] = file.accepted[i]
<1>1. ASSUME NEW a \in Seq(X), NEW b \in Seq(X)
      PROVE  /\ a \o b \in Seq(X)
             /\ \A k \in DOMAIN (a \o b) : \/ \E i \in DOMAIN a : (a \o b)[k] = a[i]
                                          \/ \E i \in DOMAIN b : (a \o b)[k] = b[i]
             /\ \A i \in DOMAIN a : \E k \in DOMAIN (a \o b) : (a \o b)[k] = a[i]
             /\ \A i \in DOMAIN b : \E k \in DOMAIN (a \o b) : (a \o b)[k] = b[i]
  <2>1. a \o b \in Seq(X) /\ DOMAIN (a \o b) = 1..(Len(a) + Len(b))
        /\ Len(a) \in Nat /\ Len(b) \in Nat /\ DOMAIN a = 1..Len(a) /\ DOMAIN b = 1..Len(b)
    OBVIOUS
  <2>2. \A i \in 1..Len(a) : i \in DOMAIN (a \o b) /\ (a \o b)[i] = a[i]
    OBVIOUS
  <2>3. \A i \in 1..Len(b) : Len(a) + i \in DOMAIN (a \o b) /\ (a \o b)[Len(a) + i] = b[i]
    OBVIOUS
  <2>4. ASSUME NEW k \in DOMAIN (a \o b), k \notin 1..Len(a)
        PROVE  k - Len(a) \in 1..Len(b) /\ (a \o b)[k] = b[k - Len(a)]
    BY <2>1, <2>4
  <2> QED BY <2>1, <2>2, <2>3, <2>4
<1> DEFINE Holds(t, u) == \A i \in DOMAIN u : \E k \in DOMAIN t : t[k] = u[i]
           OneOf(t, u, v) == \A k \in DOMAIN t : \/ \E i \in DOMAIN u : t[k] = u[i]
                                                 \/ \E i \in DOMAIN v : t[k] = v[i]
           ab == file.domain \o file.orphans
           abc == Tables(file)
<1>2. abc = ab \o file.accepted
  BY DEF Tables
<1>3. /\ ab \in Seq(X) /\ OneOf(ab, file.domain, file.orphans)
      /\ Holds(ab, file.domain) /\ Holds(ab, file.orphans)
  BY <1>1
<1> HIDE DEF ab
<1>4. /\ abc \in Seq(X) /\ OneOf(abc, ab, file.accepted)
      /\ Holds(abc, ab) /\ Holds(abc, file.accepted)
  <2> DEFINE c == file.accepted
  <2>1. c \in Seq(X) /\ abc = ab \o c
    BY <1>2
  <2> HIDE DEF abc, c
  <2>2. /\ ab \o c \in Seq(X) /\ OneOf(ab \o c, ab, c)
        /\ Holds(ab \o c, ab) /\ Holds(ab \o c, c)
    BY <1>1, <1>3, <2>1
  <2>3. /\ abc \in Seq(X) /\ OneOf(abc, ab, c) /\ Holds(abc, ab) /\ Holds(abc, c)
    <3> HIDE DEF OneOf, Holds
    <3> QED BY <2>1, <2>2
  <2> QED BY <2>3 DEF c
<1> HIDE DEF abc
<1>5. Holds(abc, file.domain) /\ Holds(abc, file.orphans)
  BY <1>3, <1>4
<1>6. \A k \in DOMAIN abc : InTables(file, abc[k])
  <2> SUFFICES ASSUME NEW k \in DOMAIN abc, ~\E i \in DOMAIN file.accepted : abc[k] = file.accepted[i]
               PROVE  \/ \E i \in DOMAIN file.domain : abc[k] = file.domain[i]
                      \/ \E i \in DOMAIN file.orphans : abc[k] = file.orphans[i]
    BY DEF InTables
  <2>1. PICK i \in DOMAIN ab : abc[k] = ab[i]
    BY <1>4
  <2> QED BY <1>3, <2>1
<1> QED
  BY <1>4, <1>5, <1>6 DEF abc

IsFile(file) ==
    /\ file = [counts |-> file.counts, domain |-> file.domain,
               orphans |-> file.orphans, accepted |-> file.accepted]
    /\ file.domain \in Seq(RowSet)
    /\ file.orphans \in Seq(RowSet)
    /\ file.accepted \in Seq(RowSet)
    /\ Ascending(file.domain, DomainOrder)
    /\ Ascending(file.orphans, Alphabet)
    /\ Ascending(file.accepted, DomainOrder)

\* What is rendered is sorted, parses back as the rows it was made of, and lists
\* the ids of the catalogue in the tables of the domains.
LEMMA RenderReads ==
    ASSUME NEW requirements, IsCatalogue(requirements), NEW existing, IsExisting(existing),
           NEW file, file = Render(requirements, existing)
    PROVE  /\ IsFile(file)
           /\ Parse(file) = Merged(requirements, existing)
           /\ {file.domain[k].id : k \in DOMAIN file.domain} = DOMAIN requirements
           /\ \A k \in DOMAIN file.domain :
                 file.domain[k] = Line(Rows(requirements, existing)[k])
           /\ DOMAIN file.domain = DOMAIN Rows(requirements, existing)
<1> DEFINE M == Merged(requirements, existing)
           rows == Rows(requirements, existing)
           orphaned == Orphaned(requirements, existing)
           accepted == Accepted(rows)
<1>1. /\ IsExisting(M)
      /\ Shows(rows, M, DOMAIN requirements) /\ Ascending(rows, DomainOrder)
      /\ Shows(orphaned, M, DOMAIN existing \ DOMAIN requirements)
      /\ Ascending(orphaned, Alphabet)
  BY MergedType, RowsShow
<1>2. DOMAIN M = DOMAIN requirements \cup DOMAIN existing
  BY DEF Merged
<1>3. /\ file = [counts |-> Counts(rows), domain |-> Lines(rows),
                 orphans |-> Lines(orphaned), accepted |-> Lines(accepted)]
  BY DEF Render
<1>4. /\ file.domain = Lines(rows) /\ file.orphans = Lines(orphaned)
      /\ file.accepted = Lines(accepted) /\ file.counts = Counts(rows)
  BY <1>3
<1> HIDE DEF M, rows, orphaned
<1>5. /\ accepted \in Seq(RowSet)
      /\ \A k \in DOMAIN accepted : \E j \in DOMAIN rows : accepted[k] = rows[j]
      /\ Ascending(accepted, DomainOrder)
  BY <1>1, AcceptedRows DEF Shows
<1> HIDE DEF accepted
<1>6. rows \in Seq(RowSet) /\ orphaned \in Seq(RowSet)
  BY <1>1 DEF Shows
<1>7. IsFile(file)
  <2>1. /\ Lines(rows) \in Seq(RowSet) /\ Ascending(Lines(rows), DomainOrder)
        /\ Lines(orphaned) \in Seq(RowSet) /\ Ascending(Lines(orphaned), Alphabet)
        /\ Lines(accepted) \in Seq(RowSet) /\ Ascending(Lines(accepted), DomainOrder)
    BY <1>1, <1>5, <1>6, LinesOf
  <2> QED BY <1>3, <1>4, <2>1 DEF IsFile
<1>8. /\ DOMAIN file.domain = DOMAIN rows
      /\ \A k \in DOMAIN rows : file.domain[k] = Line(rows[k]) /\ file.domain[k].id = rows[k].id
  BY <1>4, <1>6, LinesOf
<1>9. /\ DOMAIN file.orphans = DOMAIN orphaned
      /\ \A k \in DOMAIN orphaned : /\ file.orphans[k] = Line(orphaned[k])
                                    /\ file.orphans[k].id = orphaned[k].id
  BY <1>4, <1>6, LinesOf
<1>10. /\ DOMAIN file.accepted = DOMAIN accepted
       /\ \A k \in DOMAIN accepted : /\ file.accepted[k] = Line(accepted[k])
                                     /\ file.accepted[k].id = accepted[k].id
  BY <1>4, <1>5, LinesOf
<1>11. Parse(file) = M
  <2> DEFINE Good(line) == line.id \in DOMAIN M /\ line = Line(M[line.id])
  <2>1. Tables(file) \in Seq(RowSet)
    BY <1>7, TablesOf DEF IsFile
  <2>2. \A k \in DOMAIN rows : rows[k].id \in DOMAIN M /\ rows[k] = M[rows[k].id]
    BY <1>1, <1>2 DEF Shows
  <2>3. \A k \in DOMAIN orphaned : orphaned[k].id \in DOMAIN M /\ orphaned[k] = M[orphaned[k].id]
    BY <1>1, <1>2 DEF Shows
  <2>4. \A k \in DOMAIN accepted : accepted[k].id \in DOMAIN M /\ accepted[k] = M[accepted[k].id]
    BY <1>5, <2>2
  <2>5. /\ \A k \in DOMAIN file.domain : Good(file.domain[k])
        /\ \A k \in DOMAIN file.orphans : Good(file.orphans[k])
        /\ \A k \in DOMAIN file.accepted : Good(file.accepted[k])
    BY <1>8, <1>9, <1>10, <2>2, <2>3, <2>4
  <2>6. \A k \in DOMAIN Tables(file) : Good(Tables(file)[k])
    <3> HIDE DEF Good
    <3> SUFFICES ASSUME NEW k \in DOMAIN Tables(file) PROVE Good(Tables(file)[k])
      OBVIOUS
    <3>1. InTables(file, Tables(file)[k])
      BY <1>7, TablesOf DEF IsFile
    <3> DEFINE line == Tables(file)[k]
    <3> HIDE DEF line
    <3>2. Good(line)
      BY <2>5, <3>1 DEF InTables, line
    <3> QED BY <3>2 DEF line
  <2>7. ASSUME NEW id \in DOMAIN M PROVE \E k \in DOMAIN Tables(file) : Tables(file)[k].id = id
    <3>1. CASE id \in DOMAIN requirements
      <4>1. PICK i \in DOMAIN rows : rows[i].id = id
        BY <1>1, <3>1 DEF Shows
      <4>2. i \in DOMAIN file.domain /\ file.domain[i].id = id
        BY <1>8, <4>1
      <4>3. \E k \in DOMAIN Tables(file) : Tables(file)[k] = file.domain[i]
        BY <1>7, <4>2, TablesOf DEF IsFile
      <4> QED BY <4>2, <4>3
    <3>2. CASE id \notin DOMAIN requirements
      <4>1. PICK i \in DOMAIN orphaned : orphaned[i].id = id
        BY <1>1, <1>2, <3>2 DEF Shows
      <4>2. i \in DOMAIN file.orphans /\ file.orphans[i].id = id
        BY <1>9, <4>1
      <4>3. \E k \in DOMAIN Tables(file) : Tables(file)[k] = file.orphans[i]
        BY <1>7, <4>2, TablesOf DEF IsFile
      <4> QED BY <4>2, <4>3
    <3> QED BY <3>1, <3>2
  <2> QED BY <1>1, <2>1, <2>6, <2>7, ReadsBack
<1>12. {file.domain[k].id : k \in DOMAIN file.domain} = DOMAIN requirements
  <2>1. \A k \in DOMAIN rows : rows[k].id \in DOMAIN requirements
    BY <1>1 DEF Shows
  <2>2. \A id \in DOMAIN requirements : \E k \in DOMAIN rows : rows[k].id = id
    BY <1>1 DEF Shows
  <2>3. \A k \in DOMAIN file.domain : file.domain[k].id \in DOMAIN requirements
    BY <1>8, <2>1
  <2>4. \A id \in DOMAIN requirements : \E k \in DOMAIN file.domain : file.domain[k].id = id
    BY <1>8, <2>2
  <2> QED BY ONLY <2>3, <2>4
<1> QED
  BY <1>7, <1>8, <1>11, <1>12 DEF M, rows

\* Rendering what was rendered changes nothing.
LEMMA RenderTwice ==
    ASSUME NEW requirements, IsCatalogue(requirements), NEW existing, IsExisting(existing)
    PROVE  Render(requirements, Merged(requirements, existing)) = Render(requirements, existing)
<1> DEFINE M == Merged(requirements, existing)
           ids == Sorted(DOMAIN requirements, DomainOrder)
<1>1. DOMAIN M = DOMAIN requirements \cup DOMAIN existing
  BY DEF Merged
<1>2. \A k \in DOMAIN ids : ids[k] \in DOMAIN requirements
  <2>1. DOMAIN requirements \in SUBSET Ids /\ IsFiniteSet(DOMAIN requirements)
    BY DEF IsCatalogue
  <2>2. ToSet(ids) = DOMAIN requirements
    BY <2>1, SortedLists
  <2> QED BY <2>2 DEF ToSet
<1> HIDE DEF ids
<1>3. ASSUME NEW id \in DOMAIN requirements PROVE Retained(requirements[id], M[id]) = M[id]
  <2>1. id \in DOMAIN existing => existing[id] \in RowSet
    BY DEF IsExisting
  <2>2. ASSUME NEW row \in RowSet, NEW text
        PROVE  Retained(text, Retained(text, row)) = Retained(text, row)
    BY DEF Retained, RowSet
  <2>3. \A text : Retained(text, Row(id, text)) = Row(id, text)
    BY DEF Retained, Row
  <2>4. M[id] = IF id \in DOMAIN existing THEN Retained(requirements[id], existing[id])
                ELSE Row(id, requirements[id])
    BY DEF Merged
  <2> HIDE DEF M
  <2> QED BY <2>1, <2>2, <2>3, <2>4
<1>4. Rows(requirements, M) = [k \in DOMAIN ids |-> M[ids[k]]]
  <2>1. Rows(requirements, M) = [k \in DOMAIN ids |->
            IF ids[k] \in DOMAIN M THEN Retained(requirements[ids[k]], M[ids[k]])
            ELSE Row(ids[k], requirements[ids[k]])]
    BY DEF Rows, ids
  <2> HIDE DEF M
  <2> QED BY <1>1, <1>2, <1>3, <2>1
<1>5. Rows(requirements, existing) = [k \in DOMAIN ids |-> M[ids[k]]]
  BY <1>2 DEF Rows, Merged, ids
<1>6. Orphaned(requirements, M) = Orphaned(requirements, existing)
  <2> DEFINE S == DOMAIN existing \ DOMAIN requirements
             others == Sorted(S, Alphabet)
  <2>1. DOMAIN M \ DOMAIN requirements = S
    BY <1>1
  <2>2. S \in SUBSET Ids /\ IsFiniteSet(S)
    <3>1. IsFiniteSet(DOMAIN existing) /\ DOMAIN existing \in SUBSET Ids
      BY DEF IsExisting
    <3> QED BY <3>1, FS_Subset
  <2>3. ToSet(others) = S
    <3> HIDE DEF S
    <3> QED BY <2>2, SortedLists
  <2>4. \A k \in DOMAIN others : others[k] \in S
    BY <2>3 DEF ToSet
  <2>5. \A id \in S : M[id] = existing[id]
    BY DEF Merged
  <2>6. Orphaned(requirements, M) = [k \in DOMAIN others |-> M[others[k]]]
    BY <2>1 DEF Orphaned
  <2>7. Orphaned(requirements, existing) = [k \in DOMAIN others |-> existing[others[k]]]
    BY DEF Orphaned
  <2> HIDE DEF S, others, M
  <2> QED BY <2>4, <2>5, <2>6, <2>7
<1> HIDE DEF M
<1>7. Rows(requirements, M) = Rows(requirements, existing)
  BY <1>4, <1>5
<1>8. Render(requirements, M) = Render(requirements, existing)
  BY <1>6, <1>7 DEF Render
<1> QED
  BY <1>8 DEF M

-----------------------------------------------------------------------------
(* What a person's edit does to what is read.                              *)

PlacesOf(file) == {place \in {"domain", "orphans", "accepted"} \X (1..Len(Tables(file))) :
                      place[2] <= Len(file[place[1]])}

\* The number of the line at a place.
Index(file, place) ==
    IF place[1] = "domain" THEN place[2]
    ELSE IF place[1] = "orphans" THEN Len(file.domain) + place[2]
    ELSE Len(file.domain) + Len(file.orphans) + place[2]

LEMMA PlacesAreLines ==
    ASSUME NEW file, IsFile(file)
    PROVE  /\ \A place \in PlacesOf(file) :
                 /\ Index(file, place) \in DOMAIN Tables(file)
                 /\ Tables(file)[Index(file, place)] = file[place[1]][place[2]]
                 /\ place[2] \in DOMAIN file[place[1]]
           /\ \A k \in DOMAIN Tables(file) :
                 \E place \in PlacesOf(file) : Index(file, place) = k
<1> DEFINE a == file.domain
           b == file.orphans
           c == file.accepted
           t == Tables(file)
<1>1. a \in Seq(RowSet) /\ b \in Seq(RowSet) /\ c \in Seq(RowSet) /\ t = (a \o b) \o c
  BY DEF IsFile, Tables
<1>2. /\ Len(a) \in Nat /\ Len(b) \in Nat /\ Len(c) \in Nat
      /\ DOMAIN a = 1..Len(a) /\ DOMAIN b = 1..Len(b) /\ DOMAIN c = 1..Len(c)
      /\ DOMAIN t = 1..(Len(a) + Len(b) + Len(c)) /\ Len(t) = Len(a) + Len(b) + Len(c)
  <2> HIDE DEF a, b, c, t
  <2> QED BY <1>1
<1>3. /\ \A i \in 1..Len(a) : t[i] = a[i]
      /\ \A i \in 1..Len(b) : t[Len(a) + i] = b[i]
      /\ \A i \in 1..Len(c) : t[Len(a) + Len(b) + i] = c[i]
  <2> HIDE DEF a, b, c, t
  <2>1. ASSUME NEW i \in 1..Len(a) PROVE t[i] = a[i]
    BY <1>1, <1>2
  <2>2. ASSUME NEW i \in 1..Len(b) PROVE t[Len(a) + i] = b[i]
    <3>1. (a \o b)[Len(a) + i] = b[i]
      BY <1>1, <1>2
    <3> QED BY <1>1, <1>2, <3>1
  <2>3. ASSUME NEW i \in 1..Len(c) PROVE t[Len(a) + Len(b) + i] = c[i]
    BY <1>1, <1>2
  <2> QED BY <2>1, <2>2, <2>3
<1>4. file["domain"] = a /\ file["orphans"] = b /\ file["accepted"] = c
  OBVIOUS
<1> HIDE DEF a, b, c, t
<1>5. ASSUME NEW place \in PlacesOf(file)
      PROVE  /\ Index(file, place) \in DOMAIN t
             /\ t[Index(file, place)] = file[place[1]][place[2]]
             /\ place[2] \in DOMAIN file[place[1]]
  <2>1. /\ place[1] \in {"domain", "orphans", "accepted"} /\ place[2] \in 1..Len(t)
        /\ place[2] <= Len(file[place[1]])
    BY DEF PlacesOf, t
  <2>2. Index(file, place) = IF place[1] = "domain" THEN place[2]
                             ELSE IF place[1] = "orphans" THEN Len(a) + place[2]
                             ELSE Len(a) + Len(b) + place[2]
    BY DEF Index, a, b
  <2>3. CASE place[1] = "domain"
    BY <1>2, <1>3, <1>4, <2>1, <2>2, <2>3
  <2>4. CASE place[1] = "orphans"
    BY <1>2, <1>3, <1>4, <2>1, <2>2, <2>4
  <2>5. CASE place[1] = "accepted"
    BY <1>2, <1>3, <1>4, <2>1, <2>2, <2>5
  <2> QED BY <2>1, <2>3, <2>4, <2>5
<1>6. ASSUME NEW k \in DOMAIN t PROVE \E place \in PlacesOf(file) : Index(file, place) = k
  <2>1. CASE k <= Len(a)
    <3>1. <<"domain", k>> \in PlacesOf(file)
      BY <1>2, <1>4, <2>1 DEF PlacesOf, t
    <3> QED BY <3>1 DEF Index
  <2>2. CASE k > Len(a) /\ k <= Len(a) + Len(b)
    <3>1. <<"orphans", k - Len(a)>> \in PlacesOf(file)
      BY <1>2, <1>4, <2>2 DEF PlacesOf, t
    <3>2. Index(file, <<"orphans", k - Len(a)>>) = k
      BY <1>2 DEF Index, a
    <3> QED BY <3>1, <3>2
  <2>3. CASE k > Len(a) + Len(b)
    <3>1. <<"accepted", k - (Len(a) + Len(b))>> \in PlacesOf(file)
      BY <1>2, <1>4, <2>3 DEF PlacesOf, t
    <3>2. Index(file, <<"accepted", k - (Len(a) + Len(b))>>)
            = Len(a) + Len(b) + (k - (Len(a) + Len(b)))
      BY DEF Index, a, b
    <3>3. Len(a) + Len(b) + (k - (Len(a) + Len(b))) = k
      BY <1>2
    <3> QED BY <3>1, <3>2, <3>3
  <2> QED BY <1>2, <2>1, <2>2, <2>3
<1> QED
  BY <1>5, <1>6 DEF t

\* A line as a person leaves it.
Put(line, h) == [line EXCEPT !.evidence = h.evidence, !.status = h.status, !.notes = h.notes]
Edited(file, place, h) == [file EXCEPT ![place[1]][place[2]] = Put(@, h)]

LEMMA EditOne ==
    ASSUME NEW file, IsFile(file), NEW place \in PlacesOf(file), NEW h \in Hands,
           NEW after, after = Edited(file, place, h)
    PROVE  /\ IsFile(after)
           /\ PlacesOf(after) = PlacesOf(file)
           /\ \A q \in PlacesOf(file) :
                 /\ Index(after, q) = Index(file, q)
                 /\ after[q[1]][q[2]] = IF q = place THEN Put(file[q[1]][q[2]], h)
                                        ELSE file[q[1]][q[2]]
<1>1. ASSUME NEW line \in RowSet PROVE Put(line, h) \in RowSet /\ Put(line, h).id = line.id
  <2>1. h.evidence \in Cells /\ h.status \in Statuses /\ h.notes \in Cells
    BY MatrixAssumption DEF Cells, Statuses
  <2> QED BY <2>1 DEF Put, RowSet
<1>2. place[1] \in {"domain", "orphans", "accepted"} /\ place[2] \in DOMAIN file[place[1]]
  BY PlacesAreLines DEF PlacesOf
<1> DEFINE Kept(f) == after[f] = file[f]
           Changed(f) == after[f] = [file[f] EXCEPT ![place[2]] = Put(@, h)]
<1>3. /\ after.counts = file.counts
      /\ \A f \in {"domain", "orphans", "accepted"} : IF f = place[1] THEN Changed(f) ELSE Kept(f)
      /\ after = [counts |-> after.counts, domain |-> after.domain,
                  orphans |-> after.orphans, accepted |-> after.accepted]
  BY <1>2 DEF IsFile, Edited
<1>4. ASSUME NEW rows \in Seq(RowSet), NEW i \in DOMAIN rows,
             NEW new, new = [rows EXCEPT ![i] = Put(@, h)]
      PROVE  /\ new \in Seq(RowSet) /\ DOMAIN new = DOMAIN rows /\ Len(new) = Len(rows)
             /\ \A k \in DOMAIN rows : new[k] = IF k = i THEN Put(rows[k], h) ELSE rows[k]
             /\ \A domains : Ascending(rows, domains) => Ascending(new, domains)
  <2>1. \A k \in DOMAIN rows : rows[k] \in RowSet
    OBVIOUS
  <2>2. DOMAIN new = DOMAIN rows
        /\ \A k \in DOMAIN rows : new[k] = IF k = i THEN Put(rows[k], h) ELSE rows[k]
    BY <1>4
  <2>3. \A k \in DOMAIN rows : new[k] \in RowSet /\ new[k].id = rows[k].id
    BY <1>1, <2>1, <2>2
  <2>4. new \in Seq(RowSet) /\ Len(new) = Len(rows)
    <3>1. DOMAIN rows = 1..Len(rows) /\ Len(rows) \in Nat
      OBVIOUS
    <3>2. new = [k \in DOMAIN rows |-> new[k]]
      BY <1>4
    <3>3. new \in [1..Len(rows) -> RowSet]
      BY <2>3, <3>1, <3>2
    <3> QED BY <3>1, <3>3
  <2>5. ASSUME NEW domains, Ascending(rows, domains) PROVE Ascending(new, domains)
    BY <2>2, <2>3, <2>5 DEF Ascending
  <2> QED BY <2>2, <2>4, <2>5
<1>5. \A f \in {"domain", "orphans", "accepted"} :
         /\ file[f] \in Seq(RowSet) /\ after[f] \in Seq(RowSet)
         /\ DOMAIN after[f] = DOMAIN file[f] /\ Len(after[f]) = Len(file[f])
         /\ \A domains : Ascending(file[f], domains) => Ascending(after[f], domains)
  <2> SUFFICES ASSUME NEW f \in {"domain", "orphans", "accepted"}
               PROVE  /\ file[f] \in Seq(RowSet) /\ after[f] \in Seq(RowSet)
                      /\ DOMAIN after[f] = DOMAIN file[f] /\ Len(after[f]) = Len(file[f])
                      /\ \A domains : Ascending(file[f], domains) => Ascending(after[f], domains)
    OBVIOUS
  <2>1. file[f] \in Seq(RowSet)
    BY DEF IsFile
  <2>2. CASE f = place[1]
    <3>1. Changed(f) /\ place[2] \in DOMAIN file[f]
      BY <1>2, <1>3, <2>2
    <3> QED BY <1>4, <2>1, <3>1
  <2>3. CASE f # place[1]
    BY <1>3, <2>1, <2>3
  <2> QED BY <2>2, <2>3
<1>6. IsFile(after)
  <2>1. "domain" \in {"domain", "orphans", "accepted"} /\ "orphans" \in {"domain", "orphans", "accepted"}
        /\ "accepted" \in {"domain", "orphans", "accepted"}
    OBVIOUS
  <2> QED BY <1>3, <1>5, <2>1 DEF IsFile
<1>7. /\ Len(after.domain) = Len(file.domain) /\ Len(after.orphans) = Len(file.orphans)
      /\ Len(Tables(after)) = Len(Tables(file))
  <2> DEFINE Fits(f) == /\ file[f] \in Seq(RowSet) /\ after[f] \in Seq(RowSet)
                        /\ Len(after[f]) = Len(file[f])
  <2>1. Fits("domain") /\ Fits("orphans") /\ Fits("accepted")
    BY <1>5
  <2>2. ASSUME NEW a \in Seq(RowSet), NEW b \in Seq(RowSet), NEW c \in Seq(RowSet)
        PROVE  Len(a \o b \o c) = Len(a) + Len(b) + Len(c)
    OBVIOUS
  <2>3. /\ Len(Tables(after)) = Len(after.domain) + Len(after.orphans) + Len(after.accepted)
        /\ Len(Tables(file)) = Len(file.domain) + Len(file.orphans) + Len(file.accepted)
    BY <2>1, <2>2 DEF Tables
  <2> QED BY <2>1, <2>3
<1>8. PlacesOf(after) = PlacesOf(file)
  BY <1>5, <1>7 DEF PlacesOf
<1>9. ASSUME NEW q \in PlacesOf(file)
      PROVE  /\ Index(after, q) = Index(file, q)
             /\ after[q[1]][q[2]] = IF q = place THEN Put(file[q[1]][q[2]], h)
                                    ELSE file[q[1]][q[2]]
  <2>2. q[1] \in {"domain", "orphans", "accepted"} /\ q[2] \in DOMAIN file[q[1]]
        /\ q = <<q[1], q[2]>> /\ place = <<place[1], place[2]>> /\ q[2] \in Nat
    BY PlacesAreLines DEF PlacesOf
  <2>1. Index(after, q) = Index(file, q)
    <3> DEFINE d == Len(after.domain)
               o == Len(after.orphans)
    <3>3. d = Len(file.domain) /\ o = Len(file.orphans)
      BY <1>7
    <3>4. Index(after, q) = IF q[1] = "domain" THEN q[2] ELSE IF q[1] = "orphans" THEN d + q[2]
                            ELSE d + o + q[2]
      BY DEF Index
    <3> HIDE DEF d, o
    <3> QED BY <3>3, <3>4 DEF Index
  <2>3. CASE q[1] = place[1]
    <3>1. Changed(q[1]) /\ file[q[1]] \in Seq(RowSet)
      BY <1>3, <1>5, <2>2, <2>3
    <3>2. after[q[1]][q[2]] = IF q[2] = place[2] THEN Put(file[q[1]][q[2]], h)
                              ELSE file[q[1]][q[2]]
      BY <2>2, <3>1
    <3> QED BY <2>1, <2>2, <2>3, <3>2
  <2>4. CASE q[1] # place[1]
    BY <1>3, <2>1, <2>2, <2>4
  <2> QED BY <2>3, <2>4
<1> QED
  BY <1>6, <1>8, <1>9

TwiceIn(file, id) == \E p, q \in PlacesOf(file) : p # q /\ file[p[1]][p[2]].id = id
                                                       /\ file[q[1]][q[2]].id = id

\* An edit changes one line of the file.
LEMMA EditLines ==
    ASSUME NEW file, IsFile(file), NEW place \in PlacesOf(file), NEW h \in Hands,
           NEW after, after = Edited(file, place, h)
    PROVE  \E n \in DOMAIN Tables(file) :
              /\ Tables(file)[n] = file[place[1]][place[2]]
              /\ DOMAIN Tables(after) = DOMAIN Tables(file)
              /\ \A k \in DOMAIN Tables(file) :
                    /\ Tables(after)[k] = IF k = n THEN Put(Tables(file)[n], h) ELSE Tables(file)[k]
                    /\ k # n /\ Tables(file)[k].id = Tables(file)[n].id
                         => TwiceIn(file, Tables(file)[n].id)
<1> DEFINE lines == Tables(file)
           new == Tables(after)
           n == Index(file, place)
<1>1. /\ IsFile(after) /\ PlacesOf(after) = PlacesOf(file)
      /\ \A q \in PlacesOf(file) :
            /\ Index(after, q) = Index(file, q)
            /\ after[q[1]][q[2]] = IF q = place THEN Put(file[q[1]][q[2]], h)
                                   ELSE file[q[1]][q[2]]
  BY EditOne
<1>2. /\ \A q \in PlacesOf(file) : Index(file, q) \in DOMAIN lines
                                   /\ lines[Index(file, q)] = file[q[1]][q[2]]
      /\ \A k \in DOMAIN lines : \E q \in PlacesOf(file) : Index(file, q) = k
  BY PlacesAreLines
<1>3. /\ \A q \in PlacesOf(file) : Index(file, q) \in DOMAIN new
                                   /\ new[Index(file, q)] = after[q[1]][q[2]]
      /\ \A k \in DOMAIN new : \E q \in PlacesOf(file) : Index(file, q) = k
  <2>1. /\ \A q \in PlacesOf(after) : Index(after, q) \in DOMAIN new
                                      /\ new[Index(after, q)] = after[q[1]][q[2]]
        /\ \A k \in DOMAIN new : \E q \in PlacesOf(after) : Index(after, q) = k
    BY <1>1, PlacesAreLines
  <2> HIDE DEF new
  <2> QED BY <1>1, <2>1
<1> HIDE DEF lines, new, n
<1>4. n \in DOMAIN lines /\ lines[n] = file[place[1]][place[2]]
  BY <1>2 DEF n
<1>5. DOMAIN new = DOMAIN lines
  BY <1>2, <1>3
<1>6. ASSUME NEW k \in DOMAIN lines
      PROVE  /\ new[k] = IF k = n THEN Put(lines[n], h) ELSE lines[k]
             /\ k # n /\ lines[k].id = lines[n].id => TwiceIn(file, lines[n].id)
  <2>1. PICK q \in PlacesOf(file) : Index(file, q) = k
    BY <1>2
  <2>2. new[k] = after[q[1]][q[2]] /\ lines[k] = file[q[1]][q[2]]
    BY <1>2, <1>3, <2>1
  <2>3. CASE k = n
    <3>1. new[n] = after[place[1]][place[2]]
      BY <1>3 DEF n
    <3> QED BY <1>1, <1>4, <2>3, <3>1
  <2>4. CASE k # n
    <3>1. q # place
      BY <2>1, <2>4 DEF n
    <3>2. new[k] = lines[k]
      BY <1>1, <2>2, <3>1
    <3>3. lines[k].id = lines[n].id => TwiceIn(file, lines[n].id)
      BY <1>4, <2>2, <3>1 DEF TwiceIn
    <3> QED BY <2>4, <3>2, <3>3
  <2> QED BY <2>3, <2>4
<1> QED
  BY <1>4, <1>5, <1>6 DEF lines, new

\* Of two rows that a reader finds under one id both are the same.
LEMMA ReadsOnce ==
    ASSUME NEW lines \in Seq(RowSet), NEW id, NEW one, NEW two,
           Reads(lines, id, one), Reads(lines, id, two)
    PROVE  one = two
<1>1. WholeLines(lines) \subseteq Nat
  BY DEF WholeLines
<1>2. PICK j \in WholeLines(lines) :
         /\ lines[j].id = id
         /\ \A i \in WholeLines(lines) : lines[i].id = id => i <= j
         /\ one = RowOf(lines[j])
  BY DEF Reads
<1>3. PICK k \in WholeLines(lines) :
         /\ lines[k].id = id
         /\ \A i \in WholeLines(lines) : lines[i].id = id => i <= k
         /\ two = RowOf(lines[k])
  BY DEF Reads
<1>4. j = k
  <2>1. j <= k /\ k <= j /\ j \in Nat /\ k \in Nat
    BY <1>1, <1>2, <1>3
  <2> QED BY <2>1
<1> QED
  BY <1>2, <1>3, <1>4

\* What a person enters is unescaped like a line.
LEMMA HandsRead ==
    ASSUME NEW h \in Hands
    PROVE  /\ RowOf(h).evidence = Unescape(h.evidence)
           /\ RowOf(h).notes = Unescape(h.notes)
BY MatrixAssumption DEF RowOf

\* What a reader finds after an edit: every other row as it was, and the edited
\* one as it was entered, unless a pipe splits it or it is listed twice.
LEMMA EditReads ==
    ASSUME NEW file, IsFile(file), NEW place \in PlacesOf(file), NEW h \in Hands,
           NEW after, after = Edited(file, place, h),
           NEW id, id = file[place[1]][place[2]].id
    PROVE  /\ id \in Ids
           /\ \A i \in DOMAIN Parse(file) \ {id} :
                 i \in DOMAIN Parse(after) /\ Parse(after)[i] = Parse(file)[i]
           /\ ~Broken(h) => id \in DOMAIN Parse(after)
           /\ ~Broken(h) /\ ~TwiceIn(file, id) =>
                 /\ Parse(after)[id].evidence = RowOf(h).evidence
                 /\ Parse(after)[id].status = h.status
                 /\ Parse(after)[id].notes = RowOf(h).notes
<1> DEFINE lines == Tables(file)
           new == Tables(after)
<1>1. lines \in Seq(RowSet) /\ new \in Seq(RowSet)
  <2>1. IsFile(after)
    BY EditOne
  <2> QED BY <2>1, TablesOf DEF IsFile
<1>2. PICK n \in DOMAIN lines :
         /\ lines[n] = file[place[1]][place[2]]
         /\ DOMAIN new = DOMAIN lines
         /\ \A k \in DOMAIN lines :
               /\ new[k] = IF k = n THEN Put(lines[n], h) ELSE lines[k]
               /\ k # n /\ lines[k].id = lines[n].id => TwiceIn(file, lines[n].id)
  BY EditLines
<1>3. /\ DOMAIN Parse(file) = {lines[k].id : k \in WholeLines(lines)}
      /\ \A i \in DOMAIN Parse(file) : Reads(lines, i, Parse(file)[i])
      /\ DOMAIN Parse(after) = {new[k].id : k \in WholeLines(new)}
      /\ \A i \in DOMAIN Parse(after) : Reads(new, i, Parse(after)[i])
  <2> DEFINE Good(f) ==
                /\ DOMAIN Parse(f) = {Tables(f)[k].id : k \in WholeLines(Tables(f))}
                /\ \A i \in DOMAIN Parse(f) : Reads(Tables(f), i, Parse(f)[i])
  <2>1. \A f : Tables(f) \in Seq(RowSet) => Good(f)
    BY ParseReads
  <2>2. Good(file) /\ Good(after)
    <3> HIDE DEF Good
    <3> QED BY <1>1, <2>1
  <2> QED BY <2>2
<1>4. lines[n].id = id
  BY <1>2
<1> HIDE DEF lines, new
<1>5. \A k \in DOMAIN lines : lines[k] \in RowSet
  BY <1>1
<1>6. /\ new[n].id = id /\ new[n].evidence = h.evidence /\ new[n].status = h.status
      /\ new[n].notes = h.notes
      /\ RowOf(new[n]).evidence = RowOf(h).evidence
      /\ RowOf(new[n]).status = h.status
      /\ RowOf(new[n]).notes = RowOf(h).notes
  <2>1. new[n] = Put(lines[n], h)
    BY <1>2
  <2>2. lines[n] \in RowSet
    BY <1>5
  <2>3. /\ RowOf(h).evidence = Unescape(h.evidence)
        /\ RowOf(h).notes = Unescape(h.notes)
    BY HandsRead
  <2> QED BY <1>4, <2>1, <2>2, <2>3 DEF Put, RowSet, RowOf
<1>7. \A k \in DOMAIN lines : k # n => new[k] = lines[k]
  BY <1>2
<1>8. id \in Ids
  <2>1. lines[n] \in RowSet
    BY <1>5
  <2> QED BY <1>4, <2>1 DEF RowSet
<1>9. /\ DOMAIN new = DOMAIN lines
      /\ \A k \in DOMAIN lines : new[k].id = lines[k].id
      /\ \A k \in DOMAIN lines : k # n => (k \in WholeLines(new) <=> k \in WholeLines(lines))
      /\ n \in WholeLines(new) <=> ~Broken(h)
      /\ WholeLines(lines) \subseteq DOMAIN lines /\ WholeLines(new) \subseteq DOMAIN lines
  BY <1>2, <1>4, <1>6, <1>7 DEF WholeLines, Broken
<1>10. ASSUME NEW i \in DOMAIN Parse(file), i # id
       PROVE  i \in DOMAIN Parse(after) /\ Parse(after)[i] = Parse(file)[i]
  <2>1. PICK k \in WholeLines(lines) :
           /\ lines[k].id = i
           /\ \A j \in WholeLines(lines) : lines[j].id = i => j <= k
           /\ Parse(file)[i] = RowOf(lines[k])
    <3>1. Reads(lines, i, Parse(file)[i])
      BY <1>3
    <3> QED BY <3>1 DEF Reads
  <2>2. k # n /\ k \in DOMAIN lines /\ k \in WholeLines(new)
    BY <1>4, <1>9, <1>10, <2>1
  <2>3. new[k] = lines[k] /\ new[k].id = i
    BY <1>7, <2>1, <2>2
  <2>4. i \in DOMAIN Parse(after)
    BY <1>3, <2>2, <2>3
  <2>5. \A j \in WholeLines(new) : new[j].id = i => j \in WholeLines(lines) /\ lines[j].id = i
    BY <1>4, <1>9, <1>10
  <2>6. Reads(new, i, Parse(file)[i])
    BY <2>1, <2>2, <2>3, <2>5 DEF Reads
  <2>7. Reads(new, i, Parse(after)[i])
    BY <1>3, <2>4
  <2> QED BY <1>1, <2>4, <2>6, <2>7, ReadsOnce
<1>11. ASSUME ~Broken(h) PROVE id \in DOMAIN Parse(after)
  BY <1>3, <1>6, <1>9, <1>11
<1>12. ASSUME ~Broken(h), ~TwiceIn(file, id)
       PROVE  /\ Parse(after)[id].evidence = RowOf(h).evidence
              /\ Parse(after)[id].status = h.status
              /\ Parse(after)[id].notes = RowOf(h).notes
  <2>1. Reads(new, id, Parse(after)[id])
    BY <1>3, <1>11, <1>12
  <2>2. PICK k \in WholeLines(new) :
           new[k].id = id /\ Parse(after)[id] = RowOf(new[k])
    BY <2>1 DEF Reads
  <2>3. k = n
    BY <1>2, <1>4, <1>9, <1>12, <2>2
  <2> QED BY <1>6, <2>2, <2>3
<1> QED
  BY <1>8, <1>10, <1>11, <1>12

-----------------------------------------------------------------------------
(* The inductive invariant.                                                *)

Current == [id \in Catalogued |-> TextOf(id)]

\* The file is what a run renders for these requirements.
Made(file, requirements) ==
    \E existing :
        /\ IsExisting(existing)
        /\ file = Render(requirements, existing)
        /\ \A k \in DOMAIN Rows(requirements, existing) : Valid(Rows(requirements, existing)[k])

CatalogueInv == IsFiniteSet(catalogue) /\ catalogue \subseteq [id : Ids, text : Texts]

\* A run that no edit has touched has read the catalogue as it is.
ReadInv ==
    job.at = "catalogue" =>
        /\ job = [at |-> "catalogue", check |-> job.check, touched |-> job.touched,
                  requirements |-> job.requirements]
        /\ IsCatalogue(job.requirements)
        /\ ~job.touched => Readable /\ job.requirements = Current

RenderedInv ==
    job.at \in {"rendered", "truncated"} =>
        /\ job = [at |-> job.at, check |-> job.check, touched |-> job.touched,
                  rendered |-> job.rendered]
        /\ \E requirements :
              /\ IsCatalogue(requirements)
              /\ Made(job.rendered, requirements)
              /\ ~job.touched => Readable /\ requirements = Current

JobInv ==
    /\ job.at \in {"idle", "catalogue", "rendered", "truncated"}
    /\ job.at = "idle" <=> job = NoJob
    /\ job # NoJob => job.touched \in BOOLEAN /\ job.check \in BOOLEAN
    /\ job.at = "truncated" => matrix = Blank /\ ~job.check /\ ~settled

SettledInv ==
    /\ settled \in BOOLEAN
    /\ settled => Readable /\ Made(matrix, Current)

\* What is owed is shown by the matrix, and by what is about to replace it.
OwedInv ==
    /\ owed \subseteq Ids
    /\ job.at # "truncated" => owed \subseteq DOMAIN Parse(matrix)
    /\ job.at \in {"rendered", "truncated"} => owed \subseteq DOMAIN Parse(job.rendered)

\* What people last put into the rows is what a reader of the file finds.
Keeps(held, file) ==
    \A id \in DOMAIN held : ~held[id].twice =>
        /\ id \in DOMAIN Parse(file)
        /\ Parse(file)[id].evidence = held[id].evidence
        /\ Parse(file)[id].status = held[id].status
        /\ Parse(file)[id].notes = held[id].notes

HandInv ==
    /\ DOMAIN hand \subseteq Ids
    /\ job.at # "truncated" => Keeps(hand, matrix)
    /\ job.at = "truncated" \/ (job.at = "rendered" /\ ~job.check) => Keeps(hand, job.rendered)

MatrixInv ==
    /\ CatalogueInv /\ IsFile(matrix) /\ ReadInv /\ RenderedInv /\ JobInv
    /\ SettledInv /\ OwedInv /\ HandInv

-----------------------------------------------------------------------------
LEMMA CurrentType == CatalogueInv => IsCatalogue(Current)
<1> SUFFICES ASSUME CatalogueInv PROVE IsCatalogue(Current)
  OBVIOUS
<1>1. DOMAIN Current = Catalogued
  BY DEF Current
<1>2. Catalogued \in SUBSET Ids
  BY DEF Catalogued, CatalogueInv
<1>3. IsFiniteSet(Catalogued)
  <2> DEFINE f == [line \in catalogue |-> line.id]
  <2>1. IsFiniteSet({f[line] : line \in catalogue})
    <3>1. DOMAIN f = catalogue
      OBVIOUS
    <3> HIDE DEF f
    <3> QED BY <3>1, FiniteRange DEF CatalogueInv
  <2>2. {f[line] : line \in catalogue} = Catalogued
    BY DEF Catalogued
  <2> QED BY <2>1, <2>2
<1>4. \A id \in Catalogued : TextOf(id) \in Texts
  BY DEF Catalogued, TextOf, CatalogueInv
<1>5. Current \in [Catalogued -> Texts]
  BY <1>4 DEF Current
<1> QED
  BY <1>1, <1>2, <1>3, <1>5 DEF IsCatalogue

\* A file that was made is one, and reads as the rows it was made of.
LEMMA MadeReads ==
    ASSUME NEW requirements, IsCatalogue(requirements), NEW file, Made(file, requirements)
    PROVE  /\ IsFile(file)
           /\ file = Render(requirements, Parse(file))
           /\ {file.domain[k].id : k \in DOMAIN file.domain} = DOMAIN requirements
           /\ \A k \in DOMAIN file.domain :
                 /\ file.domain[k].requirement = requirements[file.domain[k].id]
                 /\ file.domain[k].status = "tested" =>
                       RowOf(file.domain[k]).evidence \notin {<<>>, Empty}
<1>1. PICK existing :
         /\ IsExisting(existing)
         /\ file = Render(requirements, existing)
         /\ \A k \in DOMAIN Rows(requirements, existing) :
               Valid(Rows(requirements, existing)[k])
  BY DEF Made
<1> DEFINE rows == Rows(requirements, existing)
<1>2. /\ IsFile(file)
      /\ Parse(file) = Merged(requirements, existing)
      /\ {file.domain[k].id : k \in DOMAIN file.domain} = DOMAIN requirements
      /\ \A k \in DOMAIN file.domain : file.domain[k] = Line(rows[k])
      /\ DOMAIN file.domain = DOMAIN rows
  BY <1>1, RenderReads
<1>3. file = Render(requirements, Parse(file))
  BY <1>1, <1>2, RenderTwice
<1>4. Shows(rows, Merged(requirements, existing), DOMAIN requirements)
  BY <1>1, RowsShow
<1>5. \A k \in DOMAIN rows : Valid(rows[k])
  BY <1>1
<1> HIDE DEF rows
<1>6. ASSUME NEW k \in DOMAIN rows
      PROVE  /\ file.domain[k].requirement = requirements[file.domain[k].id]
             /\ file.domain[k].status = "tested" => RowOf(file.domain[k]).evidence \notin {<<>>, Empty}
  <2>1. /\ rows[k] \in RowSet /\ rows[k].id \in DOMAIN requirements
        /\ rows[k] = Merged(requirements, existing)[rows[k].id]
    <3>1. \A j \in DOMAIN rows : rows[j] \in RowSet
      BY <1>4 DEF Shows
    <3> QED BY <1>4, <3>1 DEF Shows
  <2>2. rows[k].requirement = requirements[rows[k].id]
    <3> DEFINE id == rows[k].id
    <3>1. id \in DOMAIN existing => existing[id] \in RowSet
      BY <1>1 DEF IsExisting
    <3>2. Merged(requirements, existing)[id]
            = IF id \in DOMAIN existing THEN Retained(requirements[id], existing[id])
              ELSE Row(id, requirements[id])
      BY <2>1 DEF Merged
    <3>3. Merged(requirements, existing)[id].requirement = requirements[id]
      <4> HIDE DEF id
      <4> QED BY <3>1, <3>2 DEF Retained, Row, RowSet
    <3> QED BY <2>1, <3>3
  <2>3. file.domain[k] = Line(rows[k])
    BY <1>2
  <2>4. ASSUME NEW row \in RowSet
        PROVE  /\ Line(row).id = row.id /\ Line(row).requirement = row.requirement
               /\ Line(row).status = row.status /\ RowOf(Line(row)).evidence = row.evidence
    <3>1. Unescape(Escape(row.evidence)) = row.evidence
      BY CellsRoundTrip DEF RowSet
    <3> QED BY <3>1 DEF Line, RowOf, RowSet
  <2>5. ~(rows[k].status = "tested" /\ rows[k].evidence \in {<<>>, Empty})
    BY <1>5 DEF Valid
  <2> QED BY <2>1, <2>2, <2>3, <2>4, <2>5
<1> QED
  BY <1>2, <1>3, <1>6

\* Rendering loses no row, and nothing that a person put into one.
LEMMA RenderKeeps ==
    ASSUME NEW requirements, IsCatalogue(requirements), NEW file, IsFile(file),
           NEW after, after = Render(requirements, Parse(file))
    PROVE  /\ DOMAIN Parse(file) \subseteq DOMAIN Parse(after)
           /\ \A held : Keeps(held, file) => Keeps(held, after)
<1> DEFINE existing == Parse(file)
           M == Merged(requirements, existing)
<1>1. IsExisting(existing)
  BY TablesOf, ParseType DEF IsFile
<1>2. Parse(after) = M
  <2> HIDE DEF existing
  <2>1. after = Render(requirements, existing)
    BY DEF existing
  <2> QED BY <1>1, <2>1, RenderReads
<1> HIDE DEF existing
<1>3. DOMAIN M = DOMAIN requirements \cup DOMAIN existing
  BY DEF Merged
<1>4. ASSUME NEW id \in DOMAIN existing
      PROVE  /\ id \in DOMAIN M
             /\ M[id].evidence = existing[id].evidence
             /\ M[id].status = existing[id].status
             /\ M[id].notes = existing[id].notes
  <2>1. existing[id] \in RowSet
    BY <1>1 DEF IsExisting
  <2>2. M[id] = existing[id] \/ M[id] = Retained(requirements[id], existing[id])
    BY DEF Merged
  <2> HIDE DEF M
  <2> QED BY <1>3, <2>1, <2>2 DEF Retained, RowSet
<1> HIDE DEF M
<1> QED
  BY <1>2, <1>3, <1>4 DEF Keeps, existing

-----------------------------------------------------------------------------
(* The steps.                                                              *)

LEMMA BlankFile == IsFile(Blank) /\ PlacesOf(Blank) = {}
<1>1. <<>> \in Seq(RowSet) /\ Len(<<>>) = 0 /\ DOMAIN <<>> = {}
  OBVIOUS
<1>2. \A domains : Ascending(<<>>, domains)
  BY <1>1 DEF Ascending
<1>3. IsFile(Blank)
  BY <1>1, <1>2 DEF IsFile, Blank
<1>4. Tables(Blank) = <<>>
  BY DEF Tables, Blank
<1> QED
  BY <1>1, <1>3, <1>4 DEF PlacesOf

LEMMA StartsInMatrixInv == Init => MatrixInv
<1> SUFFICES ASSUME Init PROVE MatrixInv
  OBVIOUS
<1>1. CatalogueInv
  BY FS_EmptySet DEF Init, CatalogueInv
<1>2. IsFile(matrix)
  BY BlankFile DEF Init
<1>3. ReadInv /\ RenderedInv /\ JobInv
  BY DEF Init, ReadInv, RenderedInv, JobInv, NoJob
<1>4. SettledInv
  BY DEF Init, SettledInv
<1>5. OwedInv
  BY DEF Init, OwedInv, NoJob
<1>6. HandInv
  BY DEF Init, HandInv, Keeps, NoJob
<1> QED
  BY <1>1, <1>2, <1>3, <1>4, <1>5, <1>6 DEF MatrixInv

\* Who leaves the catalogue alone leaves what it says alone.
LEMMA SameCatalogue ==
    catalogue' = catalogue =>
        /\ CatalogueInv' = CatalogueInv
        /\ Readable' = Readable
        /\ Current' = Current
BY DEF CatalogueInv, Readable, Current, Catalogued, TextOf

LEMMA StartKeeps ==
    ASSUME MatrixInv, NEW check \in BOOLEAN, Start(check)
    PROVE  MatrixInv'
<1>1. /\ job = NoJob /\ UNCHANGED <<catalogue, matrix, owed, hand, settled, edits>>
      /\ Readable' = Readable /\ Current' = Current /\ CatalogueInv'
      /\ job' = IF ~Readable THEN NoJob
                ELSE [at |-> "catalogue", check |-> check, touched |-> FALSE,
                      requirements |-> Current]
  BY SameCatalogue DEF Start, Current, MatrixInv
<1>2. job.at = "idle" /\ job'.at \in {"idle", "catalogue"}
      /\ (job'.at = "catalogue" => Readable)
  BY <1>1 DEF NoJob
<1>3. IsFile(matrix')
  BY <1>1 DEF MatrixInv
<1>4. ReadInv' /\ RenderedInv'
  <2>1. IsCatalogue(Current)
    BY CurrentType DEF MatrixInv
  <2> QED BY <1>1, <1>2, <2>1 DEF ReadInv, RenderedInv
<1>5. JobInv'
  BY <1>1, <1>2 DEF JobInv, NoJob
<1>6. SettledInv'
  BY <1>1 DEF SettledInv, MatrixInv
<1>7. OwedInv'
  BY <1>1, <1>2 DEF OwedInv, MatrixInv
<1>8. HandInv'
  BY <1>1, <1>2 DEF HandInv, MatrixInv
<1> QED
  BY <1>1, <1>3, <1>4, <1>5, <1>6, <1>7, <1>8 DEF MatrixInv

LEMMA ReadMatrixKeeps ==
    ASSUME MatrixInv, ReadMatrix
    PROVE  MatrixInv'
<1> DEFINE existing == Parse(matrix)
           rows == Rows(job.requirements, existing)
<1>1. /\ job.at = "catalogue" /\ UNCHANGED <<catalogue, matrix, owed, hand, settled, edits>>
      /\ Readable' = Readable /\ Current' = Current /\ CatalogueInv' /\ IsFile(matrix)
      /\ job' = IF \E k \in DOMAIN rows : ~Valid(rows[k]) THEN NoJob
                ELSE [at |-> "rendered", check |-> job.check, touched |-> job.touched,
                      rendered |-> Render(job.requirements, existing)]
  BY SameCatalogue DEF ReadMatrix, MatrixInv
<1>2. /\ IsCatalogue(job.requirements)
      /\ ~job.touched => Readable /\ job.requirements = Current
      /\ job # NoJob /\ job.touched \in BOOLEAN /\ job.check \in BOOLEAN
  BY <1>1 DEF MatrixInv, ReadInv, JobInv, NoJob
<1>3. IsExisting(existing)
  BY <1>1, TablesOf, ParseType DEF IsFile
<1>4. /\ owed \subseteq Ids /\ owed \subseteq DOMAIN existing
      /\ DOMAIN hand \subseteq Ids /\ Keeps(hand, matrix)
  BY <1>1 DEF MatrixInv, OwedInv, HandInv
<1>5. /\ owed \subseteq DOMAIN Parse(Render(job.requirements, existing))
      /\ Keeps(hand, Render(job.requirements, existing))
  BY <1>1, <1>2, <1>4, RenderKeeps
<1>6. IsFile(matrix')
  BY <1>1
<1>7. SettledInv'
  BY <1>1 DEF SettledInv, MatrixInv
<1>8. CASE job' = NoJob
  <2>1. job'.at = "idle"
    BY <1>8 DEF NoJob
  <2>2. ReadInv' /\ RenderedInv' /\ JobInv'
    BY <1>8, <2>1 DEF ReadInv, RenderedInv, JobInv
  <2>3. OwedInv' /\ HandInv'
    BY <1>1, <1>4, <2>1 DEF OwedInv, HandInv
  <2> QED BY <1>1, <1>6, <1>7, <2>2, <2>3 DEF MatrixInv
<1>9. CASE job' # NoJob
  <2>1. \A k \in DOMAIN rows : Valid(rows[k])
    BY <1>1, <1>9
  <2>2. Made(Render(job.requirements, existing), job.requirements)
    BY <1>3, <2>1 DEF Made
  <2> HIDE DEF existing, rows
  <2>3. job' = [at |-> "rendered", check |-> job.check, touched |-> job.touched,
                rendered |-> Render(job.requirements, existing)]
    BY <1>1, <1>9
  <2>4. /\ job'.at = "rendered" /\ job'.check = job.check /\ job'.touched = job.touched
        /\ job'.rendered = Render(job.requirements, existing)
    BY <2>3
  <2>5. ReadInv' /\ RenderedInv'
    <3>1. /\ IsCatalogue(job.requirements) /\ Made(job'.rendered, job.requirements)
          /\ ~job'.touched => Readable' /\ job.requirements = Current'
      BY <1>1, <1>2, <2>2, <2>4
    <3>2. job' = [at |-> job'.at, check |-> job'.check, touched |-> job'.touched,
                  rendered |-> job'.rendered]
      BY <2>3
    <3> QED BY <2>4, <3>1, <3>2 DEF ReadInv, RenderedInv
  <2>6. JobInv'
    BY <1>2, <1>9, <2>4 DEF JobInv, NoJob
  <2>7. OwedInv' /\ HandInv'
    BY <1>1, <1>4, <1>5, <2>4 DEF OwedInv, HandInv, existing
  <2> QED BY <1>1, <1>6, <1>7, <2>5, <2>6, <2>7 DEF MatrixInv
<1> QED
  BY <1>8, <1>9

LEMMA CompareKeeps ==
    ASSUME MatrixInv, Compare
    PROVE  MatrixInv'
<1>1. /\ job.at = "rendered" /\ job' = NoJob /\ UNCHANGED <<catalogue, matrix, owed, hand, edits>>
      /\ settled' = (settled \/ (job.rendered = matrix /\ ~job.touched))
      /\ Readable' = Readable /\ Current' = Current /\ CatalogueInv' /\ IsFile(matrix')
  BY SameCatalogue DEF Compare, MatrixInv
<1>2. job'.at = "idle"
  BY <1>1 DEF NoJob
<1>3. ReadInv' /\ RenderedInv' /\ JobInv'
  BY <1>1, <1>2 DEF ReadInv, RenderedInv, JobInv
<1>4. OwedInv' /\ HandInv'
  BY <1>1, <1>2 DEF OwedInv, HandInv, MatrixInv
<1>5. SettledInv'
  <2>1. CASE settled
    BY <1>1, <2>1 DEF SettledInv, MatrixInv
  <2>2. CASE ~settled
    <3>1. settled' = (job.rendered = matrix /\ ~job.touched)
      BY <1>1, <2>2
    <3>2. PICK requirements :
             /\ Made(job.rendered, requirements)
             /\ ~job.touched => Readable /\ requirements = Current
      BY <1>1 DEF MatrixInv, RenderedInv
    <3> QED BY <1>1, <3>1, <3>2 DEF SettledInv
  <2> QED BY <2>1, <2>2
<1> QED
  BY <1>1, <1>3, <1>4, <1>5 DEF MatrixInv

LEMMA TruncateKeeps ==
    ASSUME MatrixInv, Truncate
    PROVE  MatrixInv'
<1>1. /\ job.at = "rendered" /\ ~job.check /\ UNCHANGED <<catalogue, owed, hand, edits>>
      /\ matrix' = Blank /\ settled' = FALSE /\ job' = [job EXCEPT !.at = "truncated"]
      /\ Readable' = Readable /\ Current' = Current /\ CatalogueInv'
  BY SameCatalogue DEF Truncate, MatrixInv
<1>2. /\ job = [at |-> job.at, check |-> job.check, touched |-> job.touched,
                rendered |-> job.rendered]
      /\ job # NoJob /\ job.touched \in BOOLEAN /\ job.check \in BOOLEAN
  BY <1>1 DEF MatrixInv, RenderedInv, JobInv, NoJob
<1>3. /\ job' = [at |-> "truncated", check |-> job.check, touched |-> job.touched,
                 rendered |-> job.rendered]
      /\ job'.at = "truncated" /\ job'.check = job.check /\ job'.touched = job.touched
      /\ job'.rendered = job.rendered
  BY <1>1, <1>2
<1>4. IsFile(matrix')
  BY <1>1, BlankFile
<1>5. ReadInv' /\ RenderedInv'
  <2>1. PICK requirements :
           /\ IsCatalogue(requirements) /\ Made(job.rendered, requirements)
           /\ ~job.touched => Readable /\ requirements = Current
    BY <1>1 DEF MatrixInv, RenderedInv
  <2> QED BY <1>1, <1>3, <2>1 DEF ReadInv, RenderedInv
<1>6. JobInv' /\ SettledInv'
  BY <1>1, <1>2, <1>3 DEF JobInv, SettledInv, NoJob
<1>7. OwedInv' /\ HandInv'
  BY <1>1, <1>3 DEF OwedInv, HandInv, MatrixInv
<1> QED
  BY <1>1, <1>4, <1>5, <1>6, <1>7 DEF MatrixInv

LEMMA WriteKeeps ==
    ASSUME MatrixInv, Write
    PROVE  MatrixInv'
<1>1. /\ job.at = "truncated" /\ UNCHANGED <<catalogue, hand, edits>>
      /\ matrix' = job.rendered /\ settled' = ~job.touched /\ job' = NoJob
      /\ owed' = owed \cup DOMAIN Parse(job.rendered)
      /\ Readable' = Readable /\ Current' = Current /\ CatalogueInv'
  BY SameCatalogue DEF Write, MatrixInv
<1>2. job'.at = "idle"
  BY <1>1 DEF NoJob
<1>3. PICK requirements :
         /\ IsCatalogue(requirements) /\ Made(job.rendered, requirements)
         /\ ~job.touched => Readable /\ requirements = Current
  BY <1>1 DEF MatrixInv, RenderedInv
<1>4. IsFile(matrix')
  BY <1>1, <1>3, MadeReads
<1>5. ReadInv' /\ RenderedInv' /\ JobInv'
  BY <1>1, <1>2 DEF ReadInv, RenderedInv, JobInv
<1>6. SettledInv'
  BY <1>1, <1>3 DEF SettledInv
<1>7. OwedInv'
  <2>1. DOMAIN Parse(job.rendered) \subseteq Ids
    <3>1. IsFile(job.rendered)
      BY <1>3, MadeReads
    <3>2. Tables(job.rendered) \in Seq(RowSet)
      BY <3>1, TablesOf DEF IsFile
    <3> QED BY <3>2, ParseType DEF IsExisting
  <2>2. owed \subseteq Ids /\ owed \subseteq DOMAIN Parse(job.rendered)
    BY <1>1 DEF MatrixInv, OwedInv
  <2> QED BY <1>1, <1>2, <2>1, <2>2 DEF OwedInv
<1>8. HandInv'
  BY <1>1, <1>2 DEF HandInv, MatrixInv
<1> QED
  BY <1>1, <1>4, <1>5, <1>6, <1>7, <1>8 DEF MatrixInv

LEMMA KillKeeps ==
    ASSUME MatrixInv, Kill
    PROVE  MatrixInv'
<1>1. /\ job # NoJob /\ job' = NoJob /\ UNCHANGED <<catalogue, matrix, settled, edits>>
      /\ IF job.at = "truncated" THEN owed' = {} /\ hand' = [id \in {} |-> id]
         ELSE UNCHANGED <<owed, hand>>
      /\ Readable' = Readable /\ Current' = Current /\ CatalogueInv' /\ IsFile(matrix')
  BY SameCatalogue DEF Kill, MatrixInv
<1>2. job'.at = "idle"
  BY <1>1 DEF NoJob
<1>3. ReadInv' /\ RenderedInv' /\ JobInv'
  BY <1>1, <1>2 DEF ReadInv, RenderedInv, JobInv
<1>4. SettledInv'
  BY <1>1 DEF SettledInv, MatrixInv
<1>5. OwedInv' /\ HandInv'
  <2>1. CASE job.at = "truncated"
    <3>1. DOMAIN hand' = {} /\ owed' = {}
      BY <1>1, <2>1
    <3> QED BY <1>2, <3>1 DEF OwedInv, HandInv, Keeps
  <2>2. CASE job.at # "truncated"
    BY <1>1, <1>2, <2>2 DEF OwedInv, HandInv, MatrixInv
  <2> QED BY <2>1, <2>2
<1> QED
  BY <1>1, <1>3, <1>4, <1>5 DEF MatrixInv

\* An edit of either file leaves the run where it is, with what it has read.
LEMMA TouchedRun ==
    ASSUME MatrixInv, job' = Touched
    PROVE  /\ job = NoJob => job' = NoJob
           /\ job # NoJob => /\ job' # NoJob
                             /\ job'.touched = TRUE /\ job'.check = job.check
           /\ job'.at = job.at
           /\ job.at = "catalogue" => job' = [at |-> "catalogue", check |-> job.check,
                 touched |-> TRUE, requirements |-> job.requirements]
           /\ job.at \in {"rendered", "truncated"} => job' = [at |-> job.at,
                 check |-> job.check, touched |-> TRUE, rendered |-> job.rendered]
<1>1. job = NoJob => job' = NoJob
  BY DEF Touched
<1>2. /\ job.at \in {"idle", "catalogue", "rendered", "truncated"}
      /\ job.at = "idle" <=> job = NoJob
  BY DEF MatrixInv, JobInv
<1>3. CASE job.at = "idle"
  BY <1>1, <1>2, <1>3 DEF NoJob
<1>4. CASE job.at = "catalogue"
  <2>1. job = [at |-> "catalogue", check |-> job.check, touched |-> job.touched,
               requirements |-> job.requirements]
    BY <1>4 DEF MatrixInv, ReadInv
  <2>2. job' = [at |-> "catalogue", check |-> job.check, touched |-> TRUE,
                requirements |-> job.requirements]
    BY <1>2, <1>4, <2>1 DEF Touched
  <2> QED BY <1>2, <1>4, <2>2 DEF NoJob
<1>5. CASE job.at \in {"rendered", "truncated"}
  <2>1. job = [at |-> job.at, check |-> job.check, touched |-> job.touched,
               rendered |-> job.rendered]
    BY <1>5 DEF MatrixInv, RenderedInv
  <2>2. job' = [at |-> job.at, check |-> job.check, touched |-> TRUE, rendered |-> job.rendered]
    BY <1>2, <1>5, <2>1 DEF Touched
  <2> QED BY <1>2, <1>5, <2>2 DEF NoJob
<1> QED
  BY <1>2, <1>3, <1>4, <1>5

LEMMA TouchedKeeps ==
    ASSUME MatrixInv, job' = Touched, settled' = FALSE,
           job.at = "truncated" => matrix' = matrix
    PROVE  ReadInv' /\ RenderedInv' /\ JobInv' /\ SettledInv'
<1>1. /\ job = NoJob => job' = NoJob
      /\ job # NoJob => /\ job' # NoJob /\ job'.touched = TRUE /\ job'.check = job.check
      /\ job'.at = job.at
  BY TouchedRun
<1>2. ReadInv'
  <2>1. CASE job.at = "catalogue"
    <3>1. job' = [at |-> "catalogue", check |-> job.check, touched |-> TRUE,
                  requirements |-> job.requirements]
      BY <2>1, TouchedRun
    <3>2. IsCatalogue(job.requirements)
      BY <2>1 DEF MatrixInv, ReadInv
    <3> QED BY <3>1, <3>2 DEF ReadInv
  <2> QED BY <1>1, <2>1 DEF ReadInv
<1>3. RenderedInv'
  <2>1. CASE job.at \in {"rendered", "truncated"}
    <3>1. job' = [at |-> job.at, check |-> job.check, touched |-> TRUE,
                  rendered |-> job.rendered]
      BY <2>1, TouchedRun
    <3>2. PICK requirements : IsCatalogue(requirements) /\ Made(job.rendered, requirements)
      BY <2>1 DEF MatrixInv, RenderedInv
    <3>3. job'.at = job.at /\ job'.check = job.check /\ job'.touched = TRUE
          /\ job'.rendered = job.rendered
      BY <3>1
    <3> QED BY <3>1, <3>2, <3>3 DEF RenderedInv
  <2> QED BY <1>1, <2>1 DEF RenderedInv
<1>4. JobInv'
  BY <1>1 DEF JobInv, MatrixInv
<1>5. SettledInv'
  BY DEF SettledInv
<1> QED
  BY <1>2, <1>3, <1>4, <1>5

LEMMA RecatalogueKeeps ==
    ASSUME MatrixInv, NEW id \in Ids, NEW text \in Texts, NEW line,
           line = [id |-> id, text |-> text],
           Add(line) \/ Withdraw(line)
    PROVE  MatrixInv'
<1>1. /\ job' = Touched /\ settled' = FALSE /\ UNCHANGED <<matrix, owed, hand>>
      /\ catalogue' = catalogue \cup {line} \/ catalogue' = catalogue \ {line}
  BY DEF Add, Withdraw, Recatalogue
<1>2. CatalogueInv'
  <2>1. IsFiniteSet(catalogue) /\ catalogue \subseteq [id : Ids, text : Texts]
    BY DEF MatrixInv, CatalogueInv
  <2>2. IsFiniteSet(catalogue \cup {line}) /\ IsFiniteSet(catalogue \ {line})
    BY <2>1, FS_AddElement, FS_RemoveElement
  <2>3. line \in [id : Ids, text : Texts]
    OBVIOUS
  <2> QED BY <1>1, <2>1, <2>2, <2>3 DEF CatalogueInv
<1>3. ReadInv' /\ RenderedInv' /\ JobInv' /\ SettledInv'
  BY <1>1, TouchedKeeps
<1>4. IsFile(matrix')
  BY <1>1 DEF MatrixInv
<1>5. OwedInv' /\ HandInv'
  <2>1. /\ job'.at = job.at
        /\ job.at = "rendered" => job'.check = job.check
        /\ job.at \in {"rendered", "truncated"} => job'.rendered = job.rendered
    <3>1. job.at \in {"rendered", "truncated"} => job' = [at |-> job.at,
                 check |-> job.check, touched |-> TRUE, rendered |-> job.rendered]
      BY <1>1, TouchedRun
    <3>2. job'.at = job.at
      BY <1>1, TouchedRun
    <3> QED BY <3>1, <3>2
  <2> QED BY <1>1, <2>1 DEF OwedInv, HandInv, MatrixInv
<1> QED
  BY <1>2, <1>3, <1>4, <1>5 DEF MatrixInv

LEMMA EditKeeps ==
    ASSUME MatrixInv, NEW place \in Places, NEW h \in Hands, Edit(place, h)
    PROVE  MatrixInv'
<1> DEFINE id == matrix[place[1]][place[2]].id
           lost == Broken(h) \/ (job.at = "rendered" /\ ~job.check)
           value == [ evidence |-> RowOf(h).evidence, status |-> h.status,
                      notes |-> RowOf(h).notes, twice |-> ListedTwice(id) ]
<1>1. /\ job' = Touched /\ settled' = FALSE /\ catalogue' = catalogue
      /\ matrix' = Edited(matrix, place, h)
      /\ hand' = [i \in (DOMAIN hand \cup {id}) \ (IF lost THEN {id} ELSE {}) |->
                     IF i = id THEN value ELSE hand[i]]
      /\ owed' = IF Broken(h) THEN owed \ {id} ELSE owed
  BY DEF Edit, Edited, Put
<1>2. Places = PlacesOf(matrix) /\ ListedTwice(id) = TwiceIn(matrix, id)
  BY DEF Places, PlacesOf, ListedTwice, TwiceIn
<1>3. IsFile(matrix) /\ OwedInv /\ HandInv /\ JobInv
  BY DEF MatrixInv
<1>4. job.at # "truncated"
  <2>1. PlacesOf(matrix) # {}
    BY <1>2
  <2> QED BY <1>3, <2>1, BlankFile DEF JobInv
<1>5. ReadInv' /\ RenderedInv' /\ JobInv' /\ SettledInv'
  BY <1>1, <1>4, TouchedKeeps
<1>6. CatalogueInv'
  BY <1>1, SameCatalogue DEF MatrixInv
<1>7. IsFile(matrix')
  BY <1>1, <1>2, <1>3, EditOne
<1>8. /\ id \in Ids
      /\ \A i \in DOMAIN Parse(matrix) \ {id} :
            i \in DOMAIN Parse(matrix') /\ Parse(matrix')[i] = Parse(matrix)[i]
      /\ ~Broken(h) => id \in DOMAIN Parse(matrix')
      /\ ~Broken(h) /\ ~TwiceIn(matrix, id) =>
            /\ Parse(matrix')[id].evidence = RowOf(h).evidence
            /\ Parse(matrix')[id].status = h.status
            /\ Parse(matrix')[id].notes = RowOf(h).notes
  <2>1. IsFile(matrix) /\ place \in PlacesOf(matrix) /\ matrix' = Edited(matrix, place, h)
    BY <1>1, <1>2, <1>3
  <2> QED BY <2>1, EditReads
<1>9. /\ job'.at = job.at
      /\ job.at = "rendered" => job'.check = job.check /\ job'.rendered = job.rendered
  <2>1. job.at \in {"rendered", "truncated"} => job' = [at |-> job.at,
               check |-> job.check, touched |-> TRUE, rendered |-> job.rendered]
    BY <1>1, TouchedRun
  <2>2. job'.at = job.at
    BY <1>1, TouchedRun
  <2> QED BY <2>1, <2>2
<1> DEFINE twice == TwiceIn(matrix, id)
<1>10. /\ value.evidence = RowOf(h).evidence /\ value.status = h.status
       /\ value.notes = RowOf(h).notes /\ value.twice = twice
  BY <1>2
<1> HIDE DEF id, lost, value, twice
<1>11. OwedInv'
  <2>1. /\ owed \subseteq Ids /\ owed \subseteq DOMAIN Parse(matrix)
        /\ job.at = "rendered" => owed \subseteq DOMAIN Parse(job.rendered)
    BY <1>3, <1>4 DEF OwedInv
  <2>2. owed' \subseteq owed /\ (id \in owed' => ~Broken(h))
    BY <1>1
  <2>3. owed' \subseteq DOMAIN Parse(matrix')
    BY <1>8, <2>1, <2>2
  <2>4. job'.at = "rendered" => owed' \subseteq DOMAIN Parse(job'.rendered)
    BY <1>9, <2>1, <2>2
  <2> QED BY <1>4, <1>9, <2>1, <2>2, <2>3, <2>4 DEF OwedInv
<1>12. HandInv'
  <2>1. /\ DOMAIN hand \subseteq Ids /\ Keeps(hand, matrix)
        /\ job.at = "rendered" /\ ~job.check => Keeps(hand, job.rendered)
    BY <1>3, <1>4 DEF HandInv
  <2>2. /\ \A i \in DOMAIN hand' : i # id => i \in DOMAIN hand /\ hand'[i] = hand[i]
        /\ id \in DOMAIN hand' => ~lost /\ hand'[id] = value
    BY <1>1
  <2>3. DOMAIN hand' \subseteq Ids
    BY <1>8, <2>1, <2>2
  <2>4. Keeps(hand', matrix')
    <3> SUFFICES ASSUME NEW i \in DOMAIN hand', ~hand'[i].twice
                 PROVE  /\ i \in DOMAIN Parse(matrix')
                        /\ Parse(matrix')[i].evidence = hand'[i].evidence
                        /\ Parse(matrix')[i].status = hand'[i].status
                        /\ Parse(matrix')[i].notes = hand'[i].notes
      BY DEF Keeps
    <3>1. CASE i = id
      <4>1. ~Broken(h) /\ hand'[i] = value /\ ~twice
        BY <1>10, <2>2, <3>1 DEF lost
      <4> QED BY <1>8, <1>10, <3>1, <4>1 DEF twice
    <3>2. CASE i # id
      <4>1. i \in DOMAIN hand /\ hand'[i] = hand[i] /\ ~hand[i].twice
        BY <2>2, <3>2
      <4>2. /\ i \in DOMAIN Parse(matrix)
            /\ Parse(matrix)[i].evidence = hand[i].evidence
            /\ Parse(matrix)[i].status = hand[i].status
            /\ Parse(matrix)[i].notes = hand[i].notes
        BY <2>1, <4>1 DEF Keeps
      <4> QED BY <1>8, <3>2, <4>1, <4>2
    <3> QED BY <3>1, <3>2
  <2>5. job'.at = "rendered" /\ ~job'.check => Keeps(hand', job'.rendered)
    <3> SUFFICES ASSUME job'.at = "rendered", ~job'.check
                 PROVE  Keeps(hand', job'.rendered)
      OBVIOUS
    <3>1. job.at = "rendered" /\ ~job.check /\ job'.rendered = job.rendered
      BY <1>9
    <3>2. \A i \in DOMAIN hand' : i \in DOMAIN hand /\ hand'[i] = hand[i]
      BY <2>2, <3>1 DEF lost
    <3> QED BY <2>1, <3>1, <3>2 DEF Keeps
  <2> QED BY <1>4, <1>9, <2>3, <2>4, <2>5 DEF HandInv
<1> QED
  BY <1>5, <1>6, <1>7, <1>11, <1>12 DEF MatrixInv

LEMMA KeepsMatrixInv ==
    ASSUME MatrixInv, [Next]_vars
    PROVE  MatrixInv'
<1>1. CASE \E check \in BOOLEAN : Start(check)
  BY <1>1, StartKeeps
<1>2. CASE ReadMatrix
  BY <1>2, ReadMatrixKeeps
<1>3. CASE Compare
  BY <1>3, CompareKeeps
<1>4. CASE Truncate
  BY <1>4, TruncateKeeps
<1>5. CASE Write
  BY <1>5, WriteKeeps
<1>6. CASE Kill
  BY <1>6, KillKeeps
<1>7. CASE \E id \in Ids, text \in Texts :
              Add([id |-> id, text |-> text]) \/ Withdraw([id |-> id, text |-> text])
  <2>1. PICK id \in Ids, text \in Texts :
           Add([id |-> id, text |-> text]) \/ Withdraw([id |-> id, text |-> text])
    BY <1>7
  <2> QED BY <2>1, RecatalogueKeeps
<1>8. CASE \E place \in Places, h \in Hands : Edit(place, h)
  BY <1>8, EditKeeps
<1>9. CASE UNCHANGED vars
  <2>1. /\ job' = job /\ matrix' = matrix /\ settled' = settled /\ owed' = owed /\ hand' = hand
        /\ Readable' = Readable /\ Current' = Current /\ CatalogueInv' = CatalogueInv
    BY <1>9, SameCatalogue DEF vars
  <2>2. ReadInv' /\ RenderedInv' /\ JobInv'
    BY <2>1 DEF MatrixInv, ReadInv, RenderedInv, JobInv
  <2>3. SettledInv' /\ OwedInv' /\ HandInv'
    BY <2>1 DEF MatrixInv, SettledInv, OwedInv, HandInv
  <2> QED BY <2>1, <2>2, <2>3 DEF MatrixInv
<1> QED
  BY <1>1, <1>2, <1>3, <1>4, <1>5, <1>6, <1>7, <1>8, <1>9 DEF Next

LEMMA MatrixInvHolds == Spec => []MatrixInv
<1>1. Init => MatrixInv
  BY StartsInMatrixInv
<1>2. MatrixInv /\ [Next]_vars => MatrixInv'
  BY KeepsMatrixInv
<1> QED
  BY <1>1, <1>2, PTL DEF Spec

-----------------------------------------------------------------------------
(* The theorems.                                                           *)

\* The tables stay in the order that sync gives them and each lists an id once,
\* through every run of the tool, every edit by hand and every kill.
THEOREM MatrixTypeCorrect == Spec => []MatrixTypeOK
<1>1. MatrixInv => MatrixTypeOK
  <2> SUFFICES ASSUME MatrixInv PROVE MatrixTypeOK
    OBVIOUS
  <2>1. \A line \in catalogue : line.id \in Ids /\ line.text \in Texts
    BY DEF MatrixInv, CatalogueInv
  <2>2. /\ Ascending(matrix.domain, DomainOrder) /\ Ascending(matrix.orphans, Alphabet)
        /\ Ascending(matrix.accepted, DomainOrder)
    BY DEF MatrixInv, IsFile
  <2>3. \A k \in DOMAIN Tables(matrix) : Tables(matrix)[k].requirement \in Texts
    <3>1. Tables(matrix) \in Seq(RowSet)
      BY TablesOf DEF MatrixInv, IsFile
    <3>2. \A k \in DOMAIN Tables(matrix) : Tables(matrix)[k] \in RowSet
      BY <3>1
    <3> QED BY <3>2 DEF RowSet
  <2>4. /\ owed \subseteq Ids /\ DOMAIN hand \subseteq Ids
        /\ job.at \in {"idle", "catalogue", "rendered", "truncated"} /\ settled \in BOOLEAN
    BY DEF MatrixInv, OwedInv, HandInv, JobInv, SettledInv
  <2> QED BY <2>1, <2>2, <2>3, <2>4 DEF MatrixTypeOK
<1> QED
  BY <1>1, MatrixInvHolds, PTL

\* "An ID that has disappeared from requirement-ids.md is never deleted
\* silently": sync moves it to the orphaned rows and back.
THEOREM IdsAreNeverDeleted == Spec => []NeverDeleted
<1>1. MatrixInv => NeverDeleted
  <2> SUFFICES ASSUME MatrixInv, job.at # "truncated"
               PROVE  owed \subseteq {Tables(matrix)[k].id : k \in DOMAIN Tables(matrix)}
    BY DEF NeverDeleted
  <2>1. owed \subseteq DOMAIN Parse(matrix)
    BY DEF MatrixInv, OwedInv
  <2>2. Tables(matrix) \in Seq(RowSet)
    BY TablesOf DEF MatrixInv, IsFile
  <2>3. DOMAIN Parse(matrix) = {Tables(matrix)[k].id : k \in WholeLines(Tables(matrix))}
    BY <2>2, ParseReads
  <2> QED BY <2>1, <2>3 DEF WholeLines
<1> QED
  BY <1>1, MatrixInvHolds, PTL

\* sync keeps what people put into the rows that are listed once, and escaping
\* brings their evidence and notes through parse and render whole.  Edits that
\* were overwritten, split by a pipe or emptied away by a kill are excepted.
THEOREM EditsStand == Spec => []HandEditsStand
<1>1. MatrixInv => HandEditsStand
  BY DEF MatrixInv, HandInv, Keeps, HandEditsStand
<1> QED
  BY <1>1, MatrixInvHolds, PTL

\* A run after a run changes nothing, for any notes and any catalogue.
THEOREM SyncIsIdempotent == Spec => []Idempotent
<1>1. MatrixInv => Idempotent
  <2> SUFFICES ASSUME MatrixInv, settled PROVE matrix = Render(Current, Parse(matrix))
    BY DEF Idempotent, Current
  <2>1. IsCatalogue(Current) /\ Made(matrix, Current)
    BY CurrentType DEF MatrixInv, SettledInv
  <2> QED BY <2>1, MadeReads
<1> QED
  BY <1>1, MatrixInvHolds, PTL

\* After a run that no edit overlapped, the tables of the domains list exactly
\* the catalogue, and none of their rows claims a test without evidence.
THEOREM GateIsSound == Spec => []GateIsHonest
<1>1. MatrixInv => GateIsHonest
  <2> SUFFICES ASSUME MatrixInv, settled
               PROVE  /\ {matrix.domain[k].id : k \in DOMAIN matrix.domain} = Catalogued
                      /\ \A k \in DOMAIN matrix.domain :
                            /\ matrix.domain[k].requirement = TextOf(matrix.domain[k].id)
                            /\ matrix.domain[k].status = "tested" =>
                                  RowOf(matrix.domain[k]).evidence \notin {<<>>, Empty}
    BY DEF GateIsHonest
  <2>1. IsCatalogue(Current) /\ Made(matrix, Current)
    BY CurrentType DEF MatrixInv, SettledInv
  <2>2. /\ {matrix.domain[k].id : k \in DOMAIN matrix.domain} = DOMAIN Current
        /\ \A k \in DOMAIN matrix.domain :
              /\ matrix.domain[k].requirement = Current[matrix.domain[k].id]
              /\ matrix.domain[k].status = "tested" =>
                    RowOf(matrix.domain[k]).evidence \notin {<<>>, Empty}
    BY <2>1, MadeReads
  <2>3. DOMAIN Current = Catalogued /\ \A id \in Catalogued : Current[id] = TextOf(id)
    BY DEF Current
  <2>4. \A k \in DOMAIN matrix.domain : matrix.domain[k].id \in Catalogued
    BY <2>2, <2>3
  <2> QED BY <2>2, <2>3, <2>4
<1> QED
  BY <1>1, MatrixInvHolds, PTL

=============================================================================
