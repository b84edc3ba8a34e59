---------------------------- MODULE ReplayProofs ----------------------------
(***************************************************************************)
(* Theorems about the consumers of one debug log, for any events the       *)
(* schema admits, any consumers, any sealers and a log of any length.      *)
(*                                                                         *)
(* First the fold: a pass over n + 1 records is a pass over n records and  *)
(* one more turn of the loop.  Then two sessions that differ only by       *)
(* seals: whatever arrives, they keep differing only by those seals.       *)
(***************************************************************************)
EXTENDS Replay, ReducerProofs

-----------------------------------------------------------------------------
(* fold's loop.                                                            *)

ReplayOf(lg, n) == FoldLeft(Folded, EmptySession, SubSeq(lg, 1, n))

\* run[k] is the session after k turns of the loop over lg.
IsPass(run, lg, n) ==
    /\ run[0] = EmptySession
    /\ \A k \in 1..n : run[k] = Folded(run[k-1], lg[k])

\* The fold of the community modules as a function of sets of indices.
IsIteration(iter, seq, n) ==
    iter = [s \in SUBSET (1..n) |->
               IF s = {} THEN EmptySession
               ELSE Folded(iter[s \ {Max(s)}], seq[Max(s)])]

LEMMA MaxIsIt ==
    ASSUME NEW s, s \subseteq Nat, NEW m \in s, \A x \in s : m >= x
    PROVE  Max(s) = m
<1>1. /\ Max(s) \in s
      /\ \A x \in s : Max(s) >= x
  BY DEF Max
<1>2. Max(s) \in Nat /\ m \in Nat /\ Max(s) >= m /\ m >= Max(s)
  BY <1>1
<1> QED
  BY <1>2

\* A non-empty set of indices has a largest one.
LEMMA MaxExists ==
    ASSUME NEW n \in Nat, NEW s, s \subseteq 1..n, s # {}
    PROVE  Max(s) \in s /\ \A x \in s : Max(s) >= x
<1> DEFINE Gap == {n - x : x \in s}
<1>1. PICK g \in Gap : \A h \in Gap : g <= h
  <2>1. \A x \in s : n - x \in Nat
    OBVIOUS
  <2>2. Gap \subseteq Nat /\ Gap # {}
    BY <2>1
  <2> HIDE DEF Gap
  <2> QED BY <2>2, Least
<1>2. PICK m \in s : g = n - m
  OBVIOUS
<1>3. ASSUME NEW x \in s PROVE m >= x
  <2>1. n - x \in Gap /\ m \in Nat /\ x \in Nat
    OBVIOUS
  <2>2. n - m <= n - x
    BY <1>1, <1>2, <2>1
  <2> QED BY <2>1, <2>2
<1> QED
  BY <1>2, <1>3 DEF Max

LEMMA IterationExists ==
    ASSUME NEW seq, NEW n \in Nat
    PROVE  \E iter : IsIteration(iter, seq, n)
<1> DEFINE Done == {k \in Nat : \E iter : IsIteration(iter, seq, k)}
<1> SUFFICES ASSUME Nat \ Done # {} PROVE FALSE
  OBVIOUS
<1>1. PICK k \in Nat \ Done : \A m \in Nat \ Done : k <= m
  BY Least
<1>2. k # 0
  <2> DEFINE iter == [s \in SUBSET (1..0) |-> EmptySession]
  <2>1. IsIteration(iter, seq, 0)
    <3>1. \A s \in SUBSET (1..0) : s = {}
      OBVIOUS
    <3> QED BY <3>1 DEF IsIteration
  <2> HIDE DEF iter
  <2> QED BY <1>1, <2>1
<1>3. k - 1 \in Nat /\ k - 1 \in Done
  BY <1>1, <1>2
<1>4. PICK old : IsIteration(old, seq, k - 1)
  BY <1>3
<1> DEFINE new == [s \in SUBSET (1..k) |->
                      IF k \in s THEN Folded(old[s \ {k}], seq[k]) ELSE old[s]]
<1>5. ASSUME NEW s \in SUBSET (1..k)
      PROVE  new[s] = IF s = {} THEN EmptySession
                      ELSE Folded(new[s \ {Max(s)}], seq[Max(s)])
  <2>1. CASE k \in s
    <3>1. Max(s) = k
      <4>1. \A x \in s : k >= x
        BY <1>1
      <4>2. s \subseteq Nat
        BY <1>1
      <4> QED BY <2>1, <4>1, <4>2, MaxIsIt
    <3>2. s \ {k} \in SUBSET (1..k) /\ k \notin s \ {k}
      OBVIOUS
    <3>3. new[s \ {k}] = old[s \ {k}]
      BY <3>2
    <3>4. new[s] = Folded(old[s \ {k}], seq[k])
      BY <2>1
    <3> HIDE DEF new
    <3> QED BY <2>1, <3>1, <3>3, <3>4
  <2>2. CASE k \notin s
    <3>1. s \in SUBSET (1..(k-1))
      BY <1>1, <2>2
    <3>2. new[s] = old[s]
      BY <2>2
    <3>3. s \ {Max(s)} \in SUBSET (1..(k-1)) /\ s \ {Max(s)} \in SUBSET (1..k)
          /\ k \notin s \ {Max(s)}
      BY <2>2, <3>1
    <3>4. new[s \ {Max(s)}] = old[s \ {Max(s)}]
      BY <3>3
    <3>5. old[s] = IF s = {} THEN EmptySession
                   ELSE Folded(old[s \ {Max(s)}], seq[Max(s)])
      BY <1>4, <3>1 DEF IsIteration
    <3> HIDE DEF new
    <3> QED BY <3>2, <3>4, <3>5
  <2> QED BY <2>1, <2>2
<1>6. new = [s \in SUBSET (1..k) |-> new[s]]
  OBVIOUS
<1>7. IsIteration(new, seq, k)
  <2> HIDE DEF new
  <2> QED BY <1>5, <1>6 DEF IsIteration
<1> QED
  BY <1>1, <1>7

\* What a pass over the first n records returns is where a run of n turns ends.
LEMMA ReplayIsAPass ==
    ASSUME NEW R, NEW lg \in Seq(R), NEW n \in 0..Len(lg)
    PROVE  \E run : IsPass(run, lg, n) /\ run[n] = ReplayOf(lg, n)
<1> DEFINE seq == SubSeq(lg, 1, n)
           iter == CHOOSE iter : IsIteration(iter, seq, n)
<1>0. n \in Nat /\ Len(lg) \in Nat
  OBVIOUS
<1>1. DOMAIN seq = 1..n /\ \A k \in 1..n : seq[k] = lg[k]
  <2>1. Len(seq) = n
    BY <1>0
  <2> QED BY <1>0, <2>1
<1>2. IsIteration(iter, seq, n)
  <2> HIDE DEF seq
  <2> QED BY <1>0, IterationExists
<1>3. ReplayOf(lg, n) = iter[1..n]
  <2>1. DOMAIN SubSeq(lg, 1, n) = 1..n
    BY <1>1
  <2> QED BY <2>1 DEF ReplayOf, FoldLeft, MapThenFoldSet, IsIteration
<1> HIDE DEF seq, iter
<1> DEFINE run == [k \in 0..n |-> iter[1..k]]
<1>4. run[0] = EmptySession
  <2>1. 1..0 = {} /\ 1..0 \in SUBSET (1..n)
    OBVIOUS
  <2>2. iter[{}] = EmptySession
    BY <1>2, <2>1 DEF IsIteration
  <2> QED BY <1>0, <2>1, <2>2
<1>5. ASSUME NEW k \in 1..n PROVE run[k] = Folded(run[k-1], lg[k])
  <2>1. 1..k \in SUBSET (1..n) /\ k \in 1..k /\ 1..k # {}
    <3>1. \A x \in 1..k : x \in 1..n
      BY <1>0
    <3>2. k \in 1..k
      BY <1>0
    <3> QED BY <3>1, <3>2
  <2>2. Max(1..k) = k
    <3>1. 1..k \subseteq Nat /\ \A x \in 1..k : k >= x
      OBVIOUS
    <3> QED BY <2>1, <3>1, MaxIsIt
  <2>3. (1..k) \ {k} = 1..(k-1)
    BY <1>0
  <2>4. iter[1..k] = Folded(iter[(1..k) \ {Max(1..k)}], seq[Max(1..k)])
    <3>1. \A s \in SUBSET (1..n) :
             s # {} => iter[s] = Folded(iter[s \ {Max(s)}], seq[Max(s)])
      BY <1>2 DEF IsIteration
    <3> QED BY <2>1, <3>1, Zenon
  <2>6. iter[1..k] = Folded(iter[1..(k-1)], seq[k])
    BY <2>2, <2>3, <2>4
  <2>5. k \in 0..n /\ k - 1 \in 0..n
    BY <1>0
  <2> QED BY <1>1, <2>5, <2>6
<1>6. run[n] = iter[1..n]
  BY <1>0
<1> HIDE DEF run
<1> QED
  BY <1>3, <1>4, <1>5, <1>6 DEF IsPass

\* Passes over logs with a common prefix agree on it.
LEMMA PassesAgree ==
    ASSUME NEW n \in Nat, NEW f, NEW g, NEW lg, NEW lh,
           IsPass(f, lg, n), IsPass(g, lh, n), \A k \in 1..n : lg[k] = lh[k]
    PROVE  f[n] = g[n]
<1> DEFINE Apart == {k \in 0..n : f[k] # g[k]}
<1> SUFFICES ASSUME Apart # {} PROVE FALSE
  OBVIOUS
<1>1. PICK k \in Apart : \A m \in Apart : k <= m
  <2>1. Apart \subseteq Nat
    OBVIOUS
  <2> QED BY <2>1, Least
<1>2. k # 0
  BY <1>1 DEF IsPass
<1>3. k \in 1..n /\ k - 1 \in 0..n /\ ~(k <= k - 1)
  BY <1>1, <1>2
<1>4. f[k-1] = g[k-1]
  BY <1>1, <1>3
<1>5. f[k] = g[k]
  BY <1>3, <1>4 DEF IsPass
<1> QED
  BY <1>1, <1>5

\* Nothing folded is an empty session.
LEMMA ReplayOfNothing ==
    ASSUME NEW R, NEW lg \in Seq(R)
    PROVE  ReplayOf(lg, 0) = EmptySession
<1>1. 0 \in 0..Len(lg)
  OBVIOUS
<1> QED
  BY <1>1, ReplayIsAPass DEF IsPass

\* One record more is one more turn of the loop.
LEMMA ReplayOfNext ==
    ASSUME NEW R, NEW lg \in Seq(R), NEW n \in Nat, n < Len(lg)
    PROVE  ReplayOf(lg, n+1) = Folded(ReplayOf(lg, n), lg[n+1])
<1>1. n \in 0..Len(lg) /\ n + 1 \in 0..Len(lg) /\ n + 1 \in 1..(n+1)
      /\ (n + 1) - 1 = n
  OBVIOUS
<1>2. PICK f : IsPass(f, lg, n) /\ f[n] = ReplayOf(lg, n)
  BY <1>1, ReplayIsAPass
<1>3. PICK g : IsPass(g, lg, n+1) /\ g[n+1] = ReplayOf(lg, n+1)
  BY <1>1, ReplayIsAPass
<1>4. IsPass(g, lg, n)
  BY <1>3 DEF IsPass
<1>5. f[n] = g[n]
  BY <1>2, <1>4, PassesAgree
<1>6. g[n+1] = Folded(g[n], lg[n+1])
  BY <1>1, <1>3 DEF IsPass
<1> QED
  BY <1>2, <1>3, <1>5, <1>6

\* A record that is appended changes no earlier pass.
LEMMA ReplayOfPrefix ==
    ASSUME NEW R, NEW lg \in Seq(R), NEW record \in R, NEW n \in 0..Len(lg)
    PROVE  ReplayOf(Append(lg, record), n) = ReplayOf(lg, n)
<1> DEFINE longer == Append(lg, record)
<1>1. longer \in Seq(R) /\ n \in 0..Len(longer) /\ n \in Nat
  OBVIOUS
<1>2. \A k \in 1..n : longer[k] = lg[k]
  OBVIOUS
<1> HIDE DEF longer
<1>3. PICK f : IsPass(f, lg, n) /\ f[n] = ReplayOf(lg, n)
  BY ReplayIsAPass
<1>4. PICK g : IsPass(g, longer, n) /\ g[n] = ReplayOf(longer, n)
  BY <1>1, ReplayIsAPass
<1>5. f[n] = g[n]
  BY <1>1, <1>2, <1>3, <1>4, PassesAgree
<1> QED
  BY <1>3, <1>4, <1>5 DEF longer

-----------------------------------------------------------------------------
(* Sessions that differ by seals.                                          *)

\* p is q, except that the segments F were sealed in p and are frozen there.
Twins(F, frozen, p, q) ==
    /\ p.speaker_aliases = q.speaker_aliases
    /\ F \subseteq DOMAIN q.segments
    /\ p.segments = [i \in DOMAIN q.segments |->
                        IF i \in F THEN frozen[i] ELSE q.segments[i]]
    /\ \A i \in F : frozen[i].sealed
    /\ \A i \in DOMAIN q.segments : ~q.segments[i].sealed

\* The segments the two have in common.
LEMMA TwinSegments ==
    ASSUME NEW F, NEW frozen, NEW p, NEW q, Twins(F, frozen, p, q)
    PROVE  /\ DOMAIN p.segments = DOMAIN q.segments
           /\ \A i \in F : i \in DOMAIN p.segments /\ p.segments[i].sealed
           /\ \A i \in DOMAIN q.segments \ F :
                 p.segments[i] = q.segments[i] /\ ~p.segments[i].sealed
           /\ \A i \in DOMAIN q.segments : ~q.segments[i].sealed
  BY DEF Twins

LEMMA TwinAccept ==
    ASSUME NEW F, NEW frozen, NEW p, NEW q, Twins(F, frozen, p, q),
           IsSession(p), IsSession(q), NEW id, NEW t, ~t.sealed
    PROVE  /\ id \in F => Twins(F, frozen, p, Accept(q, id, t).session)
           /\ id \notin F => Twins(F, frozen, Accept(p, id, t).session,
                                           Accept(q, id, t).session)
<1> DEFINE a(x) == [x EXCEPT !.segments = Put(x.segments, id, t)]
<1>1. /\ a(p).segments = Put(p.segments, id, t)
      /\ a(p).speaker_aliases = p.speaker_aliases
      /\ a(q).segments = Put(q.segments, id, t)
      /\ a(q).speaker_aliases = q.speaker_aliases
  BY DEF IsSession
<1>2. Accept(p, id, t).session = a(p) /\ Accept(q, id, t).session = a(q)
  BY DEF Accept
<1> HIDE DEF a
<1>3. ASSUME id \in F PROVE Twins(F, frozen, p, a(q))
  <2>1. id \in DOMAIN q.segments
    BY <1>3 DEF Twins
  <2>2. DOMAIN Put(q.segments, id, t) = DOMAIN q.segments
    BY <2>1 DEF Put
  <2>3. \A i \in DOMAIN q.segments :
           i # id => Put(q.segments, id, t)[i] = q.segments[i]
    BY DEF Put
  <2>4. Put(q.segments, id, t)[id] = t
    BY <2>1 DEF Put
  <2> HIDE DEF Put
  <2> QED BY <1>1, <1>3, <2>2, <2>3, <2>4 DEF Twins
<1>4. ASSUME id \notin F PROVE Twins(F, frozen, a(p), a(q))
  BY <1>1, <1>4 DEF Twins, Put
<1> QED
  BY <1>2, <1>3, <1>4

\* A contradiction is a note in the list of conflicts.
LEMMA TwinContradict ==
    ASSUME NEW F, NEW frozen, NEW p, NEW q, Twins(F, frozen, p, q),
           IsSession(p), IsSession(q), NEW id, NEW dimension, NEW revision
    PROVE  /\ Twins(F, frozen, p, Contradict(q, id, dimension, revision).session)
           /\ Twins(F, frozen, Contradict(p, id, dimension, revision).session,
                               Contradict(q, id, dimension, revision).session)
<1> DEFINE c(x) == Contradict(x, id, dimension, revision).session
<1>1. /\ c(p).segments = p.segments /\ c(p).speaker_aliases = p.speaker_aliases
      /\ c(q).segments = q.segments /\ c(q).speaker_aliases = q.speaker_aliases
  BY DEF IsSession, Contradict
<1> HIDE DEF c
<1>2. Twins(F, frozen, p, c(q)) /\ Twins(F, frozen, c(p), c(q))
  BY <1>1 DEF Twins
<1> QED
  BY <1>2 DEF c

LEMMA TwinVersioned ==
    ASSUME NEW F, NEW frozen, NEW p, NEW q, Twins(F, frozen, p, q),
           IsSession(p), IsSession(q), NEW id, NEW dimension,
           NEW incoming \in Nat, NEW current \in Nat, NEW same,
           NEW t, ~t.sealed
    PROVE  LET v(x) == Versioned(x, id, dimension, incoming, current, same, t)
           IN  /\ id \in F => Twins(F, frozen, p, v(q).session)
               /\ id \notin F => Twins(F, frozen, v(p).session, v(q).session)
<1>1. CASE incoming < current
  BY <1>1 DEF Versioned, Refuse
<1>2. CASE incoming = current
  BY <1>2, TwinContradict DEF Versioned, Refuse
<1>3. CASE incoming > current
  BY <1>3, TwinAccept DEF Versioned
<1> QED
  BY <1>1, <1>2, <1>3

\* The guard of the handlers: a seal is all that can make the two answer
\* differently.
LEMMA TwinOnOpenSegment ==
    ASSUME NEW F, NEW frozen, NEW p, NEW q, Twins(F, frozen, p, q),
           NEW id, NEW rp, NEW rq,
           id \in F => Twins(F, frozen, p, rq.session),
           id \in DOMAIN q.segments \ F =>
              Twins(F, frozen, rp.session, rq.session)
    PROVE  Twins(F, frozen, OnOpenSegment(p, id, rp).session,
                            OnOpenSegment(q, id, rq).session)
<1>1. CASE id \in F
  <2>1. /\ id \in DOMAIN p.segments /\ p.segments[id].sealed
        /\ id \in DOMAIN q.segments /\ ~q.segments[id].sealed
    BY <1>1, TwinSegments
  <2>2. /\ OnOpenSegment(p, id, rp).session = p
        /\ OnOpenSegment(q, id, rq).session = rq.session
    BY <2>1 DEF OnOpenSegment, Refuse
  <2> QED BY <1>1, <2>2
<1>2. CASE id \in DOMAIN q.segments \ F
  BY <1>2, TwinSegments DEF OnOpenSegment, Refuse
<1>3. CASE id \notin DOMAIN q.segments
  BY <1>3, TwinSegments DEF OnOpenSegment, Refuse
<1> QED
  BY <1>1, <1>2, <1>3

\* A segment of q is open, and p shows the same unless it is frozen there.
LEMMA TwinOpen ==
    ASSUME NEW F, NEW frozen, NEW p, NEW q, Twins(F, frozen, p, q),
           IsSession(q), NEW id \in DOMAIN q.segments
    PROVE  /\ q.segments[id] \in Segment /\ ~q.segments[id].sealed
           /\ id \notin F => p.segments[id] = q.segments[id]
  BY TwinSegments, SegmentType

LEMMA LanguageTwins ==
    ASSUME NEW F, NEW frozen, NEW p, NEW q, Twins(F, frozen, p, q),
           IsSession(p), IsSession(q), NEW e \in LanguageEvent
    PROVE  Twins(F, frozen, ApplyLanguage(p, e).session,
                            ApplyLanguage(q, e).session)
<1> DEFINE id == e.segment_id
           same(s) == e.language = s.language
           t(s) == TranslationDropped(
                       [s EXCEPT !.language = e.language,
                           !.language_revision = e.language_revision],
                       PendingIfAccepted(s.status))
           v(x, s) ==
               Versioned(x, id, "language",
                         e.language_revision, s.language_revision,
                         same(s), t(s))
           u(x) == v(x, x.segments[id])
<1>1. ASSUME id \in DOMAIN q.segments
      PROVE  /\ id \in F => Twins(F, frozen, p, u(q).session)
             /\ id \notin F => Twins(F, frozen, u(p).session, u(q).session)
  <2> DEFINE s == q.segments[id]
  <2>1. s \in Segment /\ ~s.sealed /\ (id \notin F => p.segments[id] = s)
    BY <1>1, TwinOpen
  <2>2. e.language_revision \in Nat /\ s.language_revision \in Nat
    BY <2>1 DEF LanguageEvent, Segment
  <2>3. ~t(s).sealed
    BY <2>1 DEF TranslationDropped, Segment
  <2> HIDE DEF s, same, t
  <2>4. /\ id \in F => Twins(F, frozen, p, v(q, s).session)
        /\ id \notin F => Twins(F, frozen, v(p, s).session,
                                           v(q, s).session)
    BY <2>2, <2>3, TwinVersioned
  <2> HIDE DEF v
  <2> QED BY <2>1, <2>4 DEF s
<1>2. id \in F => id \in DOMAIN q.segments
  BY DEF Twins
<1>3. Twins(F, frozen, OnOpenSegment(p, id, u(p)).session,
                       OnOpenSegment(q, id, u(q)).session)
  <2> HIDE DEF u
  <2> QED BY <1>1, <1>2, TwinOnOpenSegment
<1> QED
  BY <1>3 DEF ApplyLanguage

LEMMA SpeakerTwins ==
    ASSUME NEW F, NEW frozen, NEW p, NEW q, Twins(F, frozen, p, q),
           IsSession(p), IsSession(q), NEW e \in AssignEvent
    PROVE  Twins(F, frozen, ApplySpeaker(p, e).session,
                            ApplySpeaker(q, e).session)
<1> DEFINE id == e.segment_id
           incoming(table) == CanonicalSpeaker(table, e.primary_speaker_id)
           same(s, table) == /\ incoming(table) = s.primary_speaker_id
                             /\ e.speaker_status = s.speaker_status
           t(s, table) ==
               [s EXCEPT !.primary_speaker_id = incoming(table),
                         !.speaker_status = e.speaker_status,
                         !.speaker_revision = e.speaker_revision]
           v(x, s, table) ==
               Versioned(x, id, "speaker",
                         e.speaker_revision, s.speaker_revision,
                         same(s, table), t(s, table))
           u(x) == v(x, x.segments[id], x.speaker_aliases)
<1>1. ASSUME id \in DOMAIN q.segments
      PROVE  /\ id \in F => Twins(F, frozen, p, u(q).session)
             /\ id \notin F => Twins(F, frozen, u(p).session, u(q).session)
  <2> DEFINE s == q.segments[id]
  <2>1. s \in Segment /\ ~s.sealed /\ (id \notin F => p.segments[id] = s)
    BY <1>1, TwinOpen
  <2>2. e.speaker_revision \in Nat /\ s.speaker_revision \in Nat
    BY <2>1 DEF AssignEvent, Segment
  <2>3. ~t(s, q.speaker_aliases).sealed
    BY <2>1 DEF Segment
  <2> HIDE DEF s, same, t
  <2>4. /\ id \in F => Twins(F, frozen, p, v(q, s, q.speaker_aliases).session)
        /\ id \notin F => Twins(F, frozen, v(p, s, q.speaker_aliases).session,
                                           v(q, s, q.speaker_aliases).session)
    BY <2>2, <2>3, TwinVersioned
  <2>5. p.speaker_aliases = q.speaker_aliases
    BY DEF Twins
  <2> HIDE DEF v
  <2> QED BY <2>1, <2>4, <2>5 DEF s
<1>2. id \in F => id \in DOMAIN q.segments
  BY DEF Twins
<1>3. Twins(F, frozen, OnOpenSegment(p, id, u(p)).session,
                       OnOpenSegment(q, id, u(q)).session)
  <2> HIDE DEF u
  <2> QED BY <1>1, <1>2, TwinOnOpenSegment
<1> QED
  BY <1>3 DEF ApplySpeaker

LEMMA PartialTwins ==
    ASSUME NEW F, NEW frozen, NEW p, NEW q, Twins(F, frozen, p, q),
           IsSession(p), IsSession(q), NEW e \in PartialEvent
    PROVE  Twins(F, frozen, ApplyPartial(p, e).session,
                            ApplyPartial(q, e).session)
<1> DEFINE id == e.segment_id
           same(s) == e.draft = s.draft
           t(s) == [s EXCEPT !.status = "partial", !.draft = e.draft,
                             !.content_revision = e.content_revision]
           v(x, s) ==
               Versioned(x, id, "content",
                         e.content_revision, s.content_revision,
                         same(s), t(s))
           u(x) == v(x, x.segments[id])
           n(x) == Created(x, e, "partial", e.draft, EmptyText, "not_applicable")
<1>1. ASSUME id \in DOMAIN q.segments
      PROVE  /\ id \in F => Twins(F, frozen, p, u(q).session)
             /\ id \notin F => Twins(F, frozen, u(p).session, u(q).session)
  <2> DEFINE s == q.segments[id]
  <2>1. s \in Segment /\ ~s.sealed /\ (id \notin F => p.segments[id] = s)
    BY <1>1, TwinOpen
  <2>2. e.content_revision \in Nat /\ s.content_revision \in Nat
    BY <2>1 DEF PartialEvent, Segment
  <2>3. ~t(s).sealed
    BY <2>1 DEF Segment
  <2> HIDE DEF s, same, t
  <2>4. /\ id \in F => Twins(F, frozen, p, v(q, s).session)
        /\ id \notin F => Twins(F, frozen, v(p, s).session,
                                           v(q, s).session)
    BY <2>2, <2>3, TwinVersioned
  <2> HIDE DEF v
  <2> QED BY <2>1, <2>4 DEF s
<1>2. id \in F => id \in DOMAIN q.segments
  BY DEF Twins
<1>3. Twins(F, frozen, OnOpenSegment(p, id, u(p)).session,
                       OnOpenSegment(q, id, u(q)).session)
  <2> HIDE DEF u
  <2> QED BY <1>1, <1>2, TwinOnOpenSegment
<1>4. CASE id \in DOMAIN q.segments
  <2>1. id \in DOMAIN p.segments
    BY <1>4, TwinSegments
  <2>2. ApplyPartial(p, e) = OnOpenSegment(p, id, u(p))
    BY <2>1 DEF ApplyPartial
  <2>3. ApplyPartial(q, e) = OnOpenSegment(q, id, u(q))
    BY <1>4 DEF ApplyPartial
  <2> HIDE DEF u
  <2> QED BY <1>3, <2>2, <2>3
<1>5. CASE id \notin DOMAIN q.segments
  <2>1. n(p) = n(q) /\ ~n(q).sealed
    BY DEF Created, Twins
  <2>2. id \notin F /\ id \notin DOMAIN p.segments
    BY <1>2, <1>5, TwinSegments
  <2> HIDE DEF n
  <2>3. Twins(F, frozen, Accept(p, id, n(p)).session,
                         Accept(q, id, n(q)).session)
    BY <2>1, <2>2, TwinAccept
  <2> QED BY <1>5, <2>2, <2>3 DEF ApplyPartial, n
<1> QED
  BY <1>4, <1>5

LEMMA FinalTwins ==
    ASSUME NEW F, NEW frozen, NEW p, NEW q, Twins(F, frozen, p, q),
           IsSession(p), IsSession(q), NEW e \in FinalEvent
    PROVE  Twins(F, frozen, ApplyFinal(p, e).session,
                            ApplyFinal(q, e).session)
<1> DEFINE id == e.segment_id
           same(s) == e.text = s.text /\ e.status = s.status
           t(s) == TranslationDropped(
                       [s EXCEPT !.status = e.status, !.text = e.text,
                           !.draft = EmptyText, !.start_sample = e.start_sample,
                           !.language = e.language,
                           !.content_revision = e.content_revision],
                       PendingIfAccepted(e.status))
           v(x, s) ==
               Versioned(x, id, "content",
                         e.content_revision, s.content_revision,
                         same(s), t(s))
           u(x) == v(x, x.segments[id])
           n(x) == Created(x, e, e.status, EmptyText, e.text,
                           PendingIfAccepted(e.status))
<1>1. ASSUME id \in DOMAIN q.segments
      PROVE  /\ id \in F => Twins(F, frozen, p, u(q).session)
             /\ id \notin F => Twins(F, frozen, u(p).session, u(q).session)
  <2> DEFINE s == q.segments[id]
  <2>1. s \in Segment /\ ~s.sealed /\ (id \notin F => p.segments[id] = s)
    BY <1>1, TwinOpen
  <2>2. e.content_revision \in Nat /\ s.content_revision \in Nat
    BY <2>1 DEF FinalEvent, Segment
  <2>3. ~t(s).sealed
    BY <2>1 DEF TranslationDropped, Segment
  <2> HIDE DEF s, same, t
  <2>4. /\ id \in F => Twins(F, frozen, p, v(q, s).session)
        /\ id \notin F => Twins(F, frozen, v(p, s).session,
                                           v(q, s).session)
    BY <2>2, <2>3, TwinVersioned
  <2> HIDE DEF v
  <2> QED BY <2>1, <2>4 DEF s
<1>2. id \in F => id \in DOMAIN q.segments
  BY DEF Twins
<1>3. Twins(F, frozen, OnOpenSegment(p, id, u(p)).session,
                       OnOpenSegment(q, id, u(q)).session)
  <2> HIDE DEF u
  <2> QED BY <1>1, <1>2, TwinOnOpenSegment
<1>4. CASE id \in DOMAIN q.segments
  <2>1. id \in DOMAIN p.segments
    BY <1>4, TwinSegments
  <2>2. ApplyFinal(p, e) = OnOpenSegment(p, id, u(p))
    BY <2>1 DEF ApplyFinal
  <2>3. ApplyFinal(q, e) = OnOpenSegment(q, id, u(q))
    BY <1>4 DEF ApplyFinal
  <2> HIDE DEF u
  <2> QED BY <1>3, <2>2, <2>3
<1>5. CASE id \notin DOMAIN q.segments
  <2>1. n(p) = n(q) /\ ~n(q).sealed
    BY DEF Created, Twins
  <2>2. id \notin F /\ id \notin DOMAIN p.segments
    BY <1>2, <1>5, TwinSegments
  <2> HIDE DEF n
  <2>3. Twins(F, frozen, Accept(p, id, n(p)).session,
                         Accept(q, id, n(q)).session)
    BY <2>1, <2>2, TwinAccept
  <2> QED BY <1>5, <2>2, <2>3 DEF ApplyFinal, n
<1> QED
  BY <1>4, <1>5

LEMMA TranslatedTwins ==
    ASSUME NEW F, NEW frozen, NEW p, NEW q, Twins(F, frozen, p, q),
           IsSession(p), IsSession(q), NEW e \in TranslatedEvent
    PROVE  Twins(F, frozen, ApplyTranslationFinal(p, e).session,
                            ApplyTranslationFinal(q, e).session)
<1> DEFINE id == e.segment_id
           same(s) == e.text = s.translation_text
           t(s) == [s EXCEPT !.translation_status = "completed",
                       !.translation_text = e.text,
                       !.translation_revision = e.translation_revision,
                       !.translated_from_content_revision =
                           e.translated_from_content_revision,
                       !.translated_from_language_revision =
                           e.translated_from_language_revision]
           v(x, s) ==
               Versioned(x, id, "translation",
                         e.translation_revision, s.translation_revision,
                         same(s), t(s))
           u(x) == v(x, x.segments[id])
           r(x) == IF ~EchoesMatch(x.segments[id], e) THEN Refuse(x, "stale")
                                                      ELSE u(x)
<1>0. ASSUME id \in DOMAIN q.segments
      PROVE  /\ id \in F => Twins(F, frozen, p, u(q).session)
             /\ id \notin F => Twins(F, frozen, u(p).session, u(q).session)
  <2> DEFINE s == q.segments[id]
  <2>1. s \in Segment /\ ~s.sealed /\ (id \notin F => p.segments[id] = s)
    BY <1>0, TwinOpen
  <2>2. e.translation_revision \in Nat /\ s.translation_revision \in Nat
    BY <2>1 DEF TranslatedEvent, Segment
  <2>3. ~t(s).sealed
    BY <2>1 DEF Segment
  <2> HIDE DEF s, same, t
  <2>4. /\ id \in F => Twins(F, frozen, p, v(q, s).session)
        /\ id \notin F => Twins(F, frozen, v(p, s).session,
                                           v(q, s).session)
    BY <2>2, <2>3, TwinVersioned
  <2> HIDE DEF v
  <2> QED BY <2>1, <2>4 DEF s
<1>1. ASSUME id \in DOMAIN q.segments
      PROVE  /\ id \in F => Twins(F, frozen, p, r(q).session)
             /\ id \notin F => Twins(F, frozen, r(p).session, r(q).session)
  <2>1. id \notin F => p.segments[id] = q.segments[id]
    BY <1>1, TwinOpen
  <2> HIDE DEF u
  <2> QED BY <1>0, <1>1, <2>1 DEF Refuse
<1>2. id \in F => id \in DOMAIN q.segments
  BY DEF Twins
<1>3. Twins(F, frozen, OnOpenSegment(p, id, r(p)).session,
                       OnOpenSegment(q, id, r(q)).session)
  <2> HIDE DEF r
  <2> QED BY <1>1, <1>2, TwinOnOpenSegment
<1> QED
  BY <1>3 DEF ApplyTranslationFinal

LEMMA StartedTwins ==
    ASSUME NEW F, NEW frozen, NEW p, NEW q, Twins(F, frozen, p, q),
           IsSession(p), IsSession(q), NEW e \in StartedEvent
    PROVE  Twins(F, frozen, ApplyTranslationStarted(p, e).session,
                            ApplyTranslationStarted(q, e).session)
<1> DEFINE id == e.segment_id
           t(s) == [s EXCEPT !.translation_status = "pending"]
           a(x, s) == IF s.status # "accepted"
                      THEN Refuse(x, "not_applicable") ELSE Accept(x, id, t(s))
           r(x) == a(x, x.segments[id])
<1>1. ASSUME id \in DOMAIN q.segments
      PROVE  /\ id \in F => Twins(F, frozen, p, r(q).session)
             /\ id \notin F => Twins(F, frozen, r(p).session, r(q).session)
  <2> DEFINE s == q.segments[id]
  <2>1. s \in Segment /\ ~s.sealed /\ (id \notin F => p.segments[id] = s)
    BY <1>1, TwinOpen
  <2>2. ~t(s).sealed
    BY <2>1 DEF Segment
  <2> HIDE DEF s, t
  <2>3. /\ id \in F => Twins(F, frozen, p, Accept(q, id, t(s)).session)
        /\ id \notin F => Twins(F, frozen, Accept(p, id, t(s)).session,
                                           Accept(q, id, t(s)).session)
    BY <2>2, TwinAccept
  <2>4. /\ id \in F => Twins(F, frozen, p, a(q, s).session)
        /\ id \notin F => Twins(F, frozen, a(p, s).session, a(q, s).session)
    BY <2>3 DEF Refuse
  <2> HIDE DEF a
  <2> QED BY <2>1, <2>4 DEF s
<1>2. id \in F => id \in DOMAIN q.segments
  BY DEF Twins
<1>3. Twins(F, frozen, OnOpenSegment(p, id, r(p)).session,
                       OnOpenSegment(q, id, r(q)).session)
  <2> HIDE DEF r
  <2> QED BY <1>1, <1>2, TwinOnOpenSegment
<1> QED
  BY <1>3 DEF ApplyTranslationStarted

LEMMA FailedTwins ==
    ASSUME NEW F, NEW frozen, NEW p, NEW q, Twins(F, frozen, p, q),
           IsSession(p), IsSession(q), NEW e \in FailedEvent
    PROVE  Twins(F, frozen, ApplyTranslationFailed(p, e).session,
                            ApplyTranslationFailed(q, e).session)
<1> DEFINE id == e.segment_id
           t(s) == WithoutTranslation(s, e)
           a(x, s) == IF e.translated_from_content_revision # s.content_revision
                      THEN Refuse(x, "stale") ELSE Accept(x, id, t(s))
           r(x) == a(x, x.segments[id])
<1>1. ASSUME id \in DOMAIN q.segments
      PROVE  /\ id \in F => Twins(F, frozen, p, r(q).session)
             /\ id \notin F => Twins(F, frozen, r(p).session, r(q).session)
  <2> DEFINE s == q.segments[id]
  <2>1. s \in Segment /\ ~s.sealed /\ (id \notin F => p.segments[id] = s)
    BY <1>1, TwinOpen
  <2>2. ~t(s).sealed
    BY <2>1 DEF WithoutTranslation, Segment
  <2> HIDE DEF s, t
  <2>3. /\ id \in F => Twins(F, frozen, p, Accept(q, id, t(s)).session)
        /\ id \notin F => Twins(F, frozen, Accept(p, id, t(s)).session,
                                           Accept(q, id, t(s)).session)
    BY <2>2, TwinAccept
  <2>4. /\ id \in F => Twins(F, frozen, p, a(q, s).session)
        /\ id \notin F => Twins(F, frozen, a(p, s).session, a(q, s).session)
    BY <2>3 DEF Refuse
  <2> HIDE DEF a
  <2> QED BY <2>1, <2>4 DEF s
<1>2. id \in F => id \in DOMAIN q.segments
  BY DEF Twins
<1>3. Twins(F, frozen, OnOpenSegment(p, id, r(p)).session,
                       OnOpenSegment(q, id, r(q)).session)
  <2> HIDE DEF r
  <2> QED BY <1>1, <1>2, TwinOnOpenSegment
<1> QED
  BY <1>3 DEF ApplyTranslationFailed

LEMMA MergeTwins ==
    ASSUME NEW F, NEW frozen, NEW p, NEW q, Twins(F, frozen, p, q),
           IsSession(p), IsSession(q), NEW e \in MergeEvent
    PROVE  Twins(F, frozen, ApplySpeakerMerge(p, e).session,
                            ApplySpeakerMerge(q, e).session)
<1> DEFINE m(x) == ApplySpeakerMerge(x, e).session
           views(x) == [i \in DOMAIN x.segments |-> Rewritten(x.segments[i], e)]
<1>1. ASSUME NEW x, IsSession(x)
      PROVE  /\ m(x).segments = views(x)
             /\ m(x).speaker_aliases = Merged(x.speaker_aliases, e)
  <2> DEFINE table == Merged(x.speaker_aliases, e)
             first == [x EXCEPT !.speaker_aliases = table]
             second == [first EXCEPT !.segments = views(x)]
  <2>1. m(x) = second
    BY DEF ApplySpeakerMerge, Merged
  <2> HIDE DEF table, views
  <2>2. first = [ segments        |-> x.segments,
                  seen_event_ids  |-> x.seen_event_ids,
                  speaker_aliases |-> table,
                  conflicts       |-> x.conflicts ]
    BY <1>1 DEF IsSession
  <2>3. second.segments = views(x) /\ second.speaker_aliases = table
    <3> HIDE DEF first
    <3> QED BY <2>2
  <2> HIDE DEF m, second
  <2> QED BY <2>1, <2>3 DEF table
<1>2. ASSUME NEW i \in F PROVE Rewritten(p.segments[i], e) = p.segments[i]
  BY TwinSegments DEF Rewritten
<1>3. ASSUME NEW i \in DOMAIN q.segments
      PROVE  ~Rewritten(q.segments[i], e).sealed
  <2>1. q.segments[i] \in Segment /\ ~q.segments[i].sealed
    BY TwinOpen
  <2> QED BY <2>1 DEF Rewritten, Segment
<1>4. /\ m(p).segments = views(p) /\ m(q).segments = views(q)
      /\ m(p).speaker_aliases = m(q).speaker_aliases
  BY <1>1 DEF Twins
<1> HIDE DEF m
<1>5. Twins(F, frozen, m(p), m(q))
  BY <1>2, <1>3, <1>4 DEF Twins
<1> QED
  BY <1>5 DEF m

LEMMA DispatchTwins ==
    ASSUME NEW F, NEW frozen, NEW p, NEW q, Twins(F, frozen, p, q),
           IsSession(p), IsSession(q), NEW e \in Event
    PROVE  Twins(F, frozen, Dispatch(p, e).session, Dispatch(q, e).session)
<1>1. CASE e \in PartialEvent
  <2>1. e.event_type = "transcript.partial"
    BY <1>1 DEF PartialEvent
  <2> QED BY <1>1, <2>1, PartialTwins DEF Dispatch
<1>2. CASE e \in FinalEvent
  <2>1. e.event_type \in {"transcript.final", "transcript.revised"}
    BY <1>2 DEF FinalEvent
  <2> QED BY <1>2, <2>1, FinalTwins DEF Dispatch
<1>3. CASE e \in LanguageEvent
  <2>1. e.event_type = "language.updated"
    BY <1>3 DEF LanguageEvent
  <2> QED BY <1>3, <2>1, LanguageTwins DEF Dispatch
<1>4. CASE e \in AssignEvent
  <2>1. e.event_type = "speaker.updated" /\ e.operation # "merge"
    BY <1>4 DEF AssignEvent
  <2> QED BY <1>4, <2>1, SpeakerTwins DEF Dispatch
<1>5. CASE e \in MergeEvent
  <2>1. e.event_type = "speaker.updated" /\ e.operation = "merge"
    BY <1>5 DEF MergeEvent
  <2> QED BY <1>5, <2>1, MergeTwins DEF Dispatch
<1>6. CASE e \in StartedEvent
  <2>1. e.event_type = "translation.started"
    BY <1>6 DEF StartedEvent
  <2> QED BY <1>6, <2>1, StartedTwins DEF Dispatch
<1>7. CASE e \in TranslatedEvent
  <2>1. e.event_type = "translation.final"
    BY <1>7 DEF TranslatedEvent
  <2> QED BY <1>7, <2>1, TranslatedTwins DEF Dispatch
<1>8. CASE e \in FailedEvent
  <2>1. e.event_type = "translation.failed"
    BY <1>8 DEF FailedEvent
  <2> QED BY <1>8, <2>1, FailedTwins DEF Dispatch
<1>9. CASE e \in OtherEvent
  <2>1. e.event_type = "other"
    BY <1>9 DEF OtherEvent
  <2> QED BY <2>1 DEF Dispatch, Refuse
<1> QED
  BY <1>1, <1>2, <1>3, <1>4, <1>5, <1>6, <1>7, <1>8, <1>9 DEF Event

\* What apply leaves behind: a session that has seen the event's id.
LEMMA ApplySees ==
    ASSUME NEW p, IsSession(p), NEW eventId \in EventId, NEW e \in Event
    PROVE  LET r == Apply(p, eventId, e).session
           IN  /\ IsSession(r)
               /\ r.seen_event_ids = p.seen_event_ids \cup {eventId}
               /\ eventId \in p.seen_event_ids => r = p
               /\ eventId \notin p.seen_event_ids =>
                     /\ r.segments = Dispatch(p, e).session.segments
                     /\ r.speaker_aliases = Dispatch(p, e).session.speaker_aliases
<1> DEFINE q == Dispatch(p, e).session
           r == Apply(p, eventId, e).session
<1>1. IsSession(r)
  BY ApplyFolds DEF Folds
<1>2. IsSession(q)
  BY DispatchFolds DEF Folds
<1>3. CASE eventId \in p.seen_event_ids
  BY <1>1, <1>3 DEF Apply, Refuse
<1>4. CASE eventId \notin p.seen_event_ids
  <2>1. r = [q EXCEPT !.seen_event_ids = p.seen_event_ids \cup {eventId}]
    BY <1>4 DEF Apply
  <2> HIDE DEF q, r
  <2>2. /\ r.seen_event_ids = p.seen_event_ids \cup {eventId}
        /\ r.segments = q.segments /\ r.speaker_aliases = q.speaker_aliases
    BY <1>2, <2>1 DEF IsSession
  <2> QED BY <1>1, <1>4, <2>2 DEF q, r
<1> QED
  BY <1>3, <1>4

LEMMA FoldedTwins ==
    ASSUME NEW F, NEW frozen, NEW p, NEW q, Twins(F, frozen, p, q),
           IsSession(p), IsSession(q), p.seen_event_ids = q.seen_event_ids,
           NEW record \in Record
    PROVE  Twins(F, frozen, Folded(p, record), Folded(q, record))
<1>1. record.event_id \in EventId /\ record.event \in Event
  BY ReplayAssumption DEF Record
<1>2. CASE record.event_id \in p.seen_event_ids
  BY <1>2, <1>1, ApplySees DEF Folded
<1>3. CASE record.event_id \notin p.seen_event_ids
  <2>1. Twins(F, frozen, Dispatch(p, record.event).session,
                         Dispatch(q, record.event).session)
    BY <1>1, DispatchTwins
  <2>2. /\ Folded(p, record).segments = Dispatch(p, record.event).session.segments
        /\ Folded(p, record).speaker_aliases
              = Dispatch(p, record.event).session.speaker_aliases
        /\ Folded(q, record).segments = Dispatch(q, record.event).session.segments
        /\ Folded(q, record).speaker_aliases
              = Dispatch(q, record.event).session.speaker_aliases
    BY <1>1, <1>3, ApplySees DEF Folded
  <2> QED BY <2>1, <2>2 DEF Twins
<1> QED
  BY <1>2, <1>3

-----------------------------------------------------------------------------
(* One consumer.                                                           *)

LEMMA EmptyIsSession == IsSession(EmptySession)
<1>1. IsFiniteSet({})
  BY FS_EmptySet
<1> QED
  BY <1>1 DEF EmptySession, IsSession, IsDict

LEMMA FoldedType ==
    ASSUME NEW p, IsSession(p), NEW record \in Record
    PROVE  IsSession(Folded(p, record))
<1>1. record.event_id \in EventId /\ record.event \in Event
  BY ReplayAssumption DEF Record
<1> QED
  BY <1>1, ApplySees DEF Folded

\* No clean pass seals anything.
LEMMA ReplayIsClean ==
    ASSUME NEW lg \in Seq(Record), NEW n \in 0..Len(lg)
    PROVE  /\ IsSession(ReplayOf(lg, n))
           /\ \A i \in DOMAIN ReplayOf(lg, n).segments :
                 ~ReplayOf(lg, n).segments[i].sealed
<1> DEFINE Clean(p) == /\ IsSession(p)
                       /\ \A i \in DOMAIN p.segments : ~p.segments[i].sealed
           Unclean == {k \in 0..Len(lg) : ~Clean(ReplayOf(lg, k))}
<1> SUFFICES ASSUME Unclean # {} PROVE FALSE
  OBVIOUS
<1>1. PICK k \in Unclean : \A m \in Unclean : k <= m
  <2>1. Unclean \subseteq Nat
    OBVIOUS
  <2> QED BY <2>1, Least
<1>2. k # 0
  <2>1. Clean(EmptySession)
    BY EmptyIsSession DEF EmptySession
  <2> QED BY <1>1, <2>1, ReplayOfNothing
<1>3. k - 1 \in Nat /\ k - 1 < Len(lg) /\ (k - 1) + 1 = k /\ k \in 1..Len(lg)
  BY <1>1, <1>2
<1> DEFINE p == ReplayOf(lg, k - 1)
<1>4. Clean(p)
  BY <1>1, <1>3
<1>5. lg[k] \in Record
  BY <1>3
<1>6. ReplayOf(lg, k) = Folded(p, lg[k])
  BY <1>3, ReplayOfNext
<1> HIDE DEF p
<1>7. Twins({}, p.segments, p, p)
  BY <1>4 DEF Twins, IsSession, IsDict
<1>8. Twins({}, p.segments, Folded(p, lg[k]), Folded(p, lg[k]))
  BY <1>4, <1>5, <1>7, FoldedTwins
<1>9. Clean(Folded(p, lg[k]))
  BY <1>4, <1>5, <1>8, FoldedType DEF Twins
<1> QED
  BY <1>1, <1>6, <1>9

SealedIn(p) == {i \in DOMAIN p.segments : p.segments[i].sealed}

\* Segment i of p is what a clean pass had made of it when it was sealed.
FrozenAt(p, i, past) ==
    /\ i \in DOMAIN past.segments
    /\ [past.segments[i] EXCEPT !.sealed = TRUE] = p.segments[i]

\* p has folded the first n records of lg, repeats included, and is a clean
\* pass over them except for the segments that were sealed on the way.
Follows(p, lg, n) ==
    /\ IsSession(p)
    /\ n \in 0..Len(lg)
    /\ \A k \in 1..n : lg[k].event_id \in p.seen_event_ids
    /\ p.seen_event_ids = ReplayOf(lg, n).seen_event_ids
    /\ Twins(SealedIn(p), p.segments, p, ReplayOf(lg, n))
    /\ \A i \in SealedIn(p) : \E m \in 0..n : FrozenAt(p, i, ReplayOf(lg, m))

LEMMA FollowsFromStart ==
    ASSUME NEW lg \in Seq(Record)
    PROVE  Follows(EmptySession, lg, 0)
<1>1. ReplayOf(lg, 0) = EmptySession
  BY ReplayOfNothing
<1>2. SealedIn(EmptySession) = {}
  BY DEF SealedIn, EmptySession
<1>3. Twins({}, EmptySession.segments, EmptySession, EmptySession)
  BY DEF Twins, EmptySession
<1> QED
  BY <1>1, <1>2, <1>3, EmptyIsSession DEF Follows

LEMMA FollowsNext ==
    ASSUME NEW lg \in Seq(Record), NEW p, NEW n, Follows(p, lg, n), n < Len(lg)
    PROVE  Follows(Folded(p, lg[n+1]), lg, n+1)
<1> DEFINE record == lg[n+1]
           q == ReplayOf(lg, n)
           F == SealedIn(p)
           pp == Folded(p, record)
           qq == Folded(q, record)
<1>1. /\ n \in Nat /\ n + 1 \in 0..Len(lg) /\ n + 1 \in 1..Len(lg)
      /\ 0..n \subseteq 0..(n+1)
  BY DEF Follows
<1>2. record \in Record
  BY <1>1
<1>3. record.event_id \in EventId /\ record.event \in Event
  BY <1>2, ReplayAssumption DEF Record
<1>4. IsSession(p) /\ IsSession(q)
  BY ReplayIsClean DEF Follows
<1>5. qq = ReplayOf(lg, n+1)
  BY <1>1, ReplayOfNext
<1>6. /\ pp.seen_event_ids = p.seen_event_ids \cup {record.event_id}
      /\ qq.seen_event_ids = q.seen_event_ids \cup {record.event_id}
      /\ IsSession(pp)
  BY <1>3, <1>4, ApplySees DEF Folded
<1>7. Twins(F, p.segments, pp, qq)
  <2> HIDE DEF F, q, record
  <2> QED BY <1>2, <1>4, FoldedTwins DEF Follows, F, q
<1> HIDE DEF pp, qq
<1>8. SealedIn(pp) = F /\ \A i \in F : pp.segments[i] = p.segments[i]
  <2> HIDE DEF F
  <2> QED BY <1>7 DEF SealedIn, Twins
<1>9. Twins(SealedIn(pp), pp.segments, pp, qq)
  <2> HIDE DEF F
  <2> QED BY <1>7, <1>8 DEF Twins
<1>10. \A k \in 1..(n+1) : lg[k].event_id \in pp.seen_event_ids
  <2>1. ASSUME NEW k \in 1..(n+1) PROVE k \in 1..n \/ k = n+1
    BY <1>1
  <2> QED BY <1>6, <2>1 DEF Follows
<1>11. pp.seen_event_ids = qq.seen_event_ids
  BY <1>6 DEF Follows
<1>12. ASSUME NEW i \in SealedIn(pp)
       PROVE  \E m \in 0..(n+1) : FrozenAt(pp, i, ReplayOf(lg, m))
  <2>1. PICK m \in 0..n : FrozenAt(p, i, ReplayOf(lg, m))
    BY <1>8, <1>12 DEF Follows
  <2>2. FrozenAt(pp, i, ReplayOf(lg, m))
    BY <1>8, <1>12, <2>1 DEF FrozenAt
  <2> QED BY <1>1, <2>2
<1>13. Follows(pp, lg, n+1)
  <2> HIDE DEF record, q, F
  <2> QED BY <1>1, <1>5, <1>6, <1>9, <1>10, <1>11, <1>12 DEF Follows
<1> QED
  BY <1>13 DEF pp

\* A record that was folded changes nothing: its id was seen, applied or not.
LEMMA FollowsAgain ==
    ASSUME NEW lg \in Seq(Record), NEW p, NEW n, Follows(p, lg, n), NEW k \in 1..n
    PROVE  Folded(p, lg[k]) = p
<1>1. k \in 1..Len(lg) /\ lg[k] \in Record
  BY DEF Follows
<1>2. /\ IsSession(p)
      /\ lg[k].event_id \in p.seen_event_ids
      /\ lg[k].event_id \in EventId /\ lg[k].event \in Event
  BY <1>1, ReplayAssumption DEF Follows, Record
<1> QED
  BY <1>2, ApplySees DEF Folded

LEMMA FollowsSealed ==
    ASSUME NEW lg \in Seq(Record), NEW p, NEW n, Follows(p, lg, n),
           NEW id \in SegmentId
    PROVE  Follows(Seal(p, id).session, lg, n)
<1> DEFINE q == ReplayOf(lg, n)
           t == [p.segments[id] EXCEPT !.sealed = TRUE]
           pp == [p EXCEPT !.segments = Put(p.segments, id, t)]
<1>1. CASE id \notin DOMAIN p.segments \/ p.segments[id].sealed
  BY <1>1 DEF Seal, Refuse
<1>2. CASE id \in DOMAIN p.segments /\ ~p.segments[id].sealed
  <2>1. Seal(p, id).session = pp
    BY <1>2 DEF Seal, Accept
  <2>2. p.segments[id] \in Segment /\ t \in Segment /\ t.sealed
    <3>1. p.segments[id] \in Segment
      BY <1>2, SegmentType DEF Follows
    <3> QED BY <3>1 DEF Segment
  <2>3. IsSession(pp)
    BY <2>2, PutType DEF Follows
  <2>4. /\ pp.segments = Put(p.segments, id, t)
        /\ pp.seen_event_ids = p.seen_event_ids
        /\ pp.speaker_aliases = p.speaker_aliases
    BY DEF Follows, IsSession
  <2>5. /\ DOMAIN pp.segments = DOMAIN p.segments
        /\ pp.segments[id] = t
        /\ \A i \in DOMAIN p.segments : i # id => pp.segments[i] = p.segments[i]
    BY <1>2, <2>4 DEF Put
  <2>6. SealedIn(pp) = SealedIn(p) \cup {id}
    BY <1>2, <2>2, <2>5 DEF SealedIn
  <2>7. /\ id \in DOMAIN q.segments /\ p.segments[id] = q.segments[id]
        /\ Twins(SealedIn(p), p.segments, p, q)
    BY <1>2 DEF Follows, Twins, SealedIn
  <2>8. pp.segments = [i \in DOMAIN pp.segments |-> pp.segments[i]]
    BY <2>4 DEF Put
  <2> HIDE DEF pp, q, t
  <2>9. Twins(SealedIn(pp), pp.segments, pp, q)
    <3>1. DOMAIN pp.segments = DOMAIN q.segments
      BY <2>5, <2>7 DEF Twins
    <3>2. ASSUME NEW i \in DOMAIN q.segments, i \notin SealedIn(pp)
          PROVE  pp.segments[i] = q.segments[i]
      <4>1. i # id /\ i \notin SealedIn(p) /\ i \in DOMAIN p.segments
        BY <2>5, <2>6, <3>1, <3>2
      <4> QED BY <2>5, <2>7, <4>1 DEF Twins
    <3>3. \A i \in SealedIn(pp) : pp.segments[i].sealed /\ i \in DOMAIN q.segments
      BY <3>1 DEF SealedIn
    <3> QED BY <2>4, <2>7, <2>8, <3>1, <3>2, <3>3 DEF Twins
  <2>10. ASSUME NEW i \in SealedIn(pp)
         PROVE  \E m \in 0..n : FrozenAt(pp, i, ReplayOf(lg, m))
    <3>1. CASE i = id
      <4>1. FrozenAt(pp, id, q)
        BY <2>5, <2>7 DEF FrozenAt, t
      <4>2. n \in 0..n
        BY DEF Follows
      <4> QED BY <3>1, <4>1, <4>2 DEF q
    <3>2. CASE i # id
      <4>1. i \in SealedIn(p) /\ pp.segments[i] = p.segments[i]
        BY <2>5, <2>6, <2>10, <3>2 DEF SealedIn
      <4>2. PICK m \in 0..n : FrozenAt(p, i, ReplayOf(lg, m))
        BY <4>1 DEF Follows
      <4> QED BY <4>1, <4>2 DEF FrozenAt
    <3> QED BY <3>1, <3>2
  <2> QED BY <2>1, <2>3, <2>4, <2>9, <2>10 DEF Follows, q
<1> QED
  BY <1>1, <1>2

LEMMA FollowsAppended ==
    ASSUME NEW lg \in Seq(Record), NEW p, NEW n, Follows(p, lg, n),
           NEW record \in Record
    PROVE  Follows(p, Append(lg, record), n)
<1> DEFINE longer == Append(lg, record)
<1>1. n \in 0..Len(lg) /\ Len(lg) \in Nat
  BY DEF Follows
<1>2. n \in 0..Len(longer) /\ \A k \in 1..n : longer[k] = lg[k]
  BY <1>1
<1>3. \A m \in 0..n : ReplayOf(longer, m) = ReplayOf(lg, m) /\ n \in 0..n
  <2>1. \A m \in 0..n : m \in 0..Len(lg)
    BY <1>1
  <2> QED BY <1>1, <2>1, ReplayOfPrefix
<1> HIDE DEF longer
<1>4. n \in 0..n
  BY <1>1
<1>5. Follows(p, longer, n)
  BY <1>2, <1>3, <1>4 DEF Follows
<1> QED
  BY <1>5 DEF longer

-----------------------------------------------------------------------------
(* All consumers.                                                          *)

AllFollow ==
    /\ log \in Seq(Record)
    /\ DOMAIN projection = Consumer
    /\ position \in [Consumer -> Nat]
    /\ \A c \in Consumer : Follows(projection[c], log, position[c])

ReplayInv == AllFollow /\ ReplayIsExact

LEMMA ReplayedIs == \A n : Replayed(n) = ReplayOf(log, n)
  BY DEF Replayed, ReplayOf

LEMMA AppendFollows ==
    ASSUME ReplayInv, NEW record \in Record, log' = Append(log, record),
           UNCHANGED <<projection, position>>
    PROVE  ReplayInv'
<1>1. log' \in Seq(Record)
  BY DEF ReplayInv, AllFollow
<1>2. \A c \in Consumer : Follows(projection[c], log', position[c])
  BY FollowsAppended DEF ReplayInv, AllFollow
<1>3. ASSUME NEW c \in Consumer
      PROVE  ReplayOf(log', position[c]) = ReplayOf(log, position[c])
  <2>1. position[c] \in 0..Len(log) /\ log \in Seq(Record)
    BY DEF ReplayInv, AllFollow, Follows
  <2> QED BY <2>1, ReplayOfPrefix
<1>4. AllFollow'
  BY <1>1, <1>2 DEF ReplayInv, AllFollow
<1>5. ReplayIsExact'
  BY <1>3 DEF ReplayInv, ReplayIsExact, Replayed, ReplayOf
<1> QED
  BY <1>4, <1>5 DEF ReplayInv

\* A step of one consumer: its session and position are replaced.
LEMMA ConsumerSteps ==
    ASSUME ReplayInv, NEW c \in Consumer, NEW p, NEW n,
           projection' = [projection EXCEPT ![c] = p],
           position' = [position EXCEPT ![c] = n], UNCHANGED log,
           Follows(p, log, n),
           c \notin Sealers => p = ReplayOf(log, n)
    PROVE  ReplayInv'
<1>1. n \in Nat
  BY DEF Follows
<1>2. AllFollow'
  BY <1>1 DEF ReplayInv, AllFollow
<1>3. ReplayIsExact'
  BY <1>1 DEF ReplayInv, AllFollow, ReplayIsExact, Replayed, ReplayOf
<1> QED
  BY <1>2, <1>3 DEF ReplayInv

LEMMA ReplayInit == Init => ReplayInv
<1> SUFFICES ASSUME Init PROVE ReplayInv
  OBVIOUS
<1>1. log \in Seq(Record)
  BY DEF Init
<1>2. AllFollow
  BY <1>1, FollowsFromStart DEF Init, AllFollow
<1>3. ReplayIsExact
  BY <1>1, ReplayOfNothing DEF Init, ReplayIsExact, Replayed, ReplayOf
<1> QED
  BY <1>2, <1>3 DEF ReplayInv

LEMMA ReplaySteps == ReplayInv /\ [Next]_vars => ReplayInv'
<1> SUFFICES ASSUME ReplayInv, [Next]_vars PROVE ReplayInv'
  OBVIOUS
<1>0. /\ log \in Seq(Record)
      /\ DOMAIN projection = Consumer
      /\ position \in [Consumer -> Nat]
      /\ \A c \in Consumer : Follows(projection[c], log, position[c])
      /\ \A c \in Consumer \ Sealers :
            projection[c] = ReplayOf(log, position[c])
  BY DEF ReplayInv, AllFollow, ReplayIsExact, Replayed, ReplayOf
<1>1. ASSUME NEW e \in Events, Emit(e) PROVE ReplayInv'
  <2> DEFINE id == CHOOSE i \in EventId : i \notin LoggedIds
             record == [event_id |-> id, event |-> e]
  <2>1. id \in EventId
    BY <1>1 DEF Emit
  <2>2. log' = Append(log, record) /\ UNCHANGED <<projection, position>>
    BY <1>1 DEF Emit
  <2> HIDE DEF id
  <2>3. record \in Record
    BY <2>1 DEF Record
  <2> QED BY <2>2, <2>3, AppendFollows
<1>2. ASSUME NEW k \in DOMAIN log, EmitAgain(k) PROVE ReplayInv'
  <2>1. log[k] \in Record
    BY <1>0
  <2> QED BY <1>2, <2>1, AppendFollows DEF EmitAgain
<1>3. ASSUME NEW c \in Consumer, Deliver(c) PROVE ReplayInv'
  <2> DEFINE n == position[c]
             p == Folded(projection[c], log[n + 1])
  <2>1. /\ n \in Nat /\ n < Len(log)
        /\ projection' = [projection EXCEPT ![c] = p]
        /\ position' = [position EXCEPT ![c] = n + 1]
        /\ UNCHANGED log
    BY <1>0, <1>3 DEF Deliver
  <2>2. Follows(p, log, n + 1)
    BY <1>0, <2>1, FollowsNext
  <2>3. c \notin Sealers => p = ReplayOf(log, n + 1)
    BY <1>0, <2>1, ReplayOfNext
  <2> HIDE DEF n, p
  <2> QED BY <2>1, <2>2, <2>3, ConsumerSteps
<1>4. ASSUME NEW c \in Consumer, NEW k \in DOMAIN log, Redeliver(c, k)
      PROVE  ReplayInv'
  <2> DEFINE n == position[c]
             p == projection[c]
  <2>1. k \in 1..n
    BY <1>0, <1>4 DEF Redeliver
  <2>2. Folded(p, log[k]) = p
    BY <1>0, <2>1, FollowsAgain
  <2>3. /\ projection' = [projection EXCEPT ![c] = p]
        /\ position' = [position EXCEPT ![c] = n]
        /\ UNCHANGED log
    BY <1>0, <1>4, <2>2 DEF Redeliver
  <2>4. Follows(p, log, n) /\ (c \notin Sealers => p = ReplayOf(log, n))
    BY <1>0
  <2> HIDE DEF n, p
  <2> QED BY <2>3, <2>4, ConsumerSteps
<1>5. ASSUME NEW c \in Consumer, Restart(c) PROVE ReplayInv'
  <2>1. /\ projection' = [projection EXCEPT ![c] = EmptySession]
        /\ position' = [position EXCEPT ![c] = 0]
        /\ UNCHANGED log
    BY <1>5 DEF Restart
  <2>2. Follows(EmptySession, log, 0) /\ EmptySession = ReplayOf(log, 0)
    BY <1>0, FollowsFromStart, ReplayOfNothing
  <2> QED BY <2>1, <2>2, ConsumerSteps
<1>6. ASSUME NEW c \in Sealers, NEW i \in SegmentId, SealSegment(c, i)
      PROVE  ReplayInv'
  <2> DEFINE n == position[c]
             p == Seal(projection[c], i).session
  <2>1. c \in Consumer
    BY ReplayAssumption
  <2>2. /\ projection' = [projection EXCEPT ![c] = p]
        /\ position' = [position EXCEPT ![c] = n]
        /\ UNCHANGED log
    BY <1>0, <1>6 DEF SealSegment
  <2>3. Follows(p, log, n)
    BY <1>0, <2>1, FollowsSealed
  <2> HIDE DEF n, p
  <2> QED BY <2>1, <2>2, <2>3, ConsumerSteps
<1>7. CASE UNCHANGED vars
  BY <1>7 DEF vars, ReplayInv, AllFollow, ReplayIsExact, Replayed
<1> QED
  BY <1>1, <1>2, <1>3, <1>4, <1>5, <1>6, <1>7 DEF Next

LEMMA ReplayAlways == Spec => []ReplayInv
  BY ReplayInit, ReplaySteps, PTL DEF Spec

\* The log and every projection keep the shape the code gives them, and no
\* consumer is ever ahead of the log.
THEOREM ReplayTypeCorrect == Spec => []ReplayTypeOK
<1>1. ReplayInv => ReplayTypeOK
  <2> SUFFICES ASSUME ReplayInv PROVE ReplayTypeOK
    OBVIOUS
  <2>1. /\ log \in Seq(Record)
        /\ DOMAIN projection = Consumer
        /\ position \in [Consumer -> Nat]
        /\ \A c \in Consumer : Follows(projection[c], log, position[c])
    BY DEF ReplayInv, AllFollow
  <2>2. \A c \in Consumer : IsSession(projection[c]) /\ position[c] \in 0..Len(log)
    BY <2>1 DEF Follows
  <2> QED BY <2>1, <2>2 DEF ReplayTypeOK
<1> QED
  BY <1>1, ReplayAlways, PTL

\* Whatever was written twice, handed over twice or rebuilt after a crash, a
\* projection nobody seals is one clean pass over what it has folded of the
\* log (PROT-280): live history, compaction and recovery agree by construction.
THEOREM ReplaysAreExact == Spec => []ReplayIsExact
<1>1. ReplayInv => ReplayIsExact
  BY DEF ReplayInv
<1> QED
  BY <1>1, ReplayAlways, PTL

\* A seal freezes its segment and does nothing else: a projection with sealed
\* segments shows in every other segment, in its aliases and in its seen ids
\* what one without seals shows, however events and seals interleave.
THEOREM SealsOnlyFreeze == Spec => []SealOnlyFreezes
<1>1. ReplayInv => SealOnlyFreezes
  <2> SUFFICES ASSUME ReplayInv, NEW c \in Consumer
               PROVE  LET p == projection[c]
                          clean == Replayed(position[c])
                      IN  /\ DOMAIN p.segments = DOMAIN clean.segments
                          /\ p.speaker_aliases = clean.speaker_aliases
                          /\ p.seen_event_ids = clean.seen_event_ids
                          /\ \A i \in DOMAIN p.segments :
                                IF p.segments[i].sealed
                                THEN \E n \in 0..position[c] :
                                        FrozenAt(p, i, Replayed(n))
                                ELSE p.segments[i] = clean.segments[i]
    BY DEF SealOnlyFreezes, FrozenAt
  <2> DEFINE p == projection[c]
             n == position[c]
  <2>1. Follows(p, log, n)
    BY DEF ReplayInv, AllFollow
  <2> HIDE DEF p, n
  <2>2. /\ DOMAIN p.segments = DOMAIN ReplayOf(log, n).segments
        /\ p.speaker_aliases = ReplayOf(log, n).speaker_aliases
        /\ p.seen_event_ids = ReplayOf(log, n).seen_event_ids
    BY <2>1, TwinSegments DEF Follows, Twins
  <2>3. ASSUME NEW i \in DOMAIN p.segments, p.segments[i].sealed
        PROVE  \E m \in 0..n : FrozenAt(p, i, ReplayOf(log, m))
    BY <2>1, <2>3 DEF Follows, SealedIn
  <2>4. ASSUME NEW i \in DOMAIN p.segments, ~p.segments[i].sealed
        PROVE  p.segments[i] = ReplayOf(log, n).segments[i]
    BY <2>1, <2>2, <2>4 DEF Follows, SealedIn, Twins
  <2> QED BY <2>2, <2>3, <2>4, ReplayedIs DEF p, n
<1> QED
  BY <1>1, ReplayAlways, PTL

=============================================================================
