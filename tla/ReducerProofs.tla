-------------------------- MODULE ReducerProofs ----------------------------
(***************************************************************************)
(* Theorems about the reducer's operators, for any sets of segments, ids,  *)
(* speakers, texts and languages.                                          *)
(***************************************************************************)
EXTENDS Reducer, InductionLemmas, NaturalsInduction

-----------------------------------------------------------------------------
(* canonical_speaker's loop.                                               *)

\* The sequence of hops exists: a function from the naturals that starts at
\* the speaker and follows the alias table.
LEMMA WalkUnfolds ==
    ASSUME NEW table, NEW speaker
    PROVE  LET walk == Walk(table, speaker)
           IN  walk = [n \in Nat |->
                         IF n = 0 THEN speaker ELSE Hop(table, walk[n-1])]
<1> DEFINE IsWalk(g) ==
             g = [n \in Nat |->
                    IF n = 0 THEN speaker ELSE Hop(table, g[n-1])]
           \* g is the walk as far as turn k
           Goes(g, k) ==
             /\ g[0] = speaker
             /\ \A n \in 1..k : g[n] = Hop(table, g[n-1])
           Reached == {k \in Nat : \E g : Goes(g, k)}
<1>1. \A k \in Nat : \E g : Goes(g, k)
  <2> SUFFICES ASSUME Nat \ Reached # {} PROVE FALSE
    OBVIOUS
  <2>1. PICK k \in Nat \ Reached : \A m \in Nat \ Reached : k <= m
    BY Least
  <2>2. k # 0
    <3>1. Goes([n \in {0} |-> speaker], 0)
      OBVIOUS
    <3> QED BY <2>1, <3>1
  <2>3. k - 1 \in Nat /\ k - 1 \in Reached
    BY <2>1, <2>2
  <2>4. PICK g : Goes(g, k - 1)
    BY <2>3
  <2> DEFINE h == [n \in 0..k |-> IF n = k THEN Hop(table, g[k-1]) ELSE g[n]]
  <2>5. Goes(h, k)
    <3>1. h[0] = speaker
      BY <2>2, <2>3, <2>4
    <3>2. ASSUME NEW n \in 1..k PROVE h[n] = Hop(table, h[n-1])
      <4>1. n-1 \in 0..k /\ n \in 0..k /\ n-1 # k
        BY <2>1
      <4>2. h[n-1] = g[n-1]
        BY <4>1
      <4>3. CASE n = k
        BY <4>1, <4>2, <4>3
      <4>4. CASE n # k
        <5>1. n \in 1..(k-1)
          BY <4>4, <2>1
        <5>2. g[n] = Hop(table, g[n-1])
          BY <5>1, <2>4
        <5> QED BY <4>1, <4>2, <4>4, <5>2
      <4> QED BY <4>3, <4>4
    <3> QED BY <3>1, <3>2
  <2> QED
    BY <2>1, <2>5
<1>2. ASSUME NEW k \in Nat, NEW g, NEW h, NEW j \in Nat, j >= k,
             Goes(g, k), Goes(h, j)
      PROVE  g[k] = h[k]
  <2> DEFINE Apart == {n \in 0..k : g[n] # h[n]}
  <2> SUFFICES ASSUME Apart # {} PROVE FALSE
    OBVIOUS
  <2>1. PICK n \in Apart : \A m \in Apart : n <= m
    <3>1. Apart \subseteq Nat
      OBVIOUS
    <3> QED BY <3>1, Least
  <2>2. n # 0
    BY <1>2, <2>1
  <2>3. n - 1 \in 0..k /\ n - 1 \notin Apart /\ n \in 1..k /\ n \in 1..j
    BY <1>2, <2>1, <2>2
  <2>4. g[n-1] = h[n-1]
    BY <2>3
  <2> QED
    BY <1>2, <2>1, <2>3, <2>4
<1> DEFINE Upto(k) == CHOOSE g : Goes(g, k)
           walk == [k \in Nat |-> Upto(k)[k]]
<1>3. \A k \in Nat : Goes(Upto(k), k)
  BY <1>1
<1>4. ASSUME NEW k \in Nat \ {0}
      PROVE  walk[k] = Hop(table, walk[k-1])
  <2>1. k - 1 \in Nat /\ k >= k - 1 /\ k \in 1..k
    OBVIOUS
  <2>2. Goes(Upto(k), k) /\ Goes(Upto(k-1), k-1)
    BY <1>3, <2>1
  <2>3. Upto(k-1)[k-1] = Upto(k)[k-1]
    BY <1>2, <2>1, <2>2
  <2>4. Upto(k)[k] = Hop(table, Upto(k)[k-1])
    BY <2>1, <2>2
  <2> QED BY <2>1, <2>3, <2>4
<1>5. walk[0] = speaker
  BY <1>3
<1>6. IsWalk(walk)
  <2>1. ASSUME NEW n \in Nat
        PROVE  walk[n] = IF n = 0 THEN speaker ELSE Hop(table, walk[n-1])
    <3> HIDE DEF walk
    <3> QED BY <1>4, <1>5
  <2>2. walk = [k \in Nat |-> walk[k]]
    <3> HIDE DEF Upto
    <3> QED OBVIOUS
  <2> HIDE DEF walk
  <2> QED BY <2>1, <2>2
<1>7. Walk(table, speaker) = CHOOSE g : IsWalk(g)
  BY DEF Walk
<1> HIDE DEF IsWalk, walk
<1>8. IsWalk(CHOOSE g : IsWalk(g))
  BY <1>6
<1>9. IsWalk(Walk(table, speaker))
  BY <1>7, <1>8
<1> QED
  BY <1>9 DEF IsWalk

\* The shared facts about a walk over a finite table of ids.
LEMMA WalkType ==
    ASSUME NEW S, NEW table, IsDict(table, S, S), NEW T, S \subseteq T,
           NEW speaker \in T
    PROVE  LET walk == Walk(table, speaker)
           IN  /\ walk \in [Nat -> T]
               /\ walk[0] = speaker
               /\ \A n \in Nat : walk[n+1] = Hop(table, walk[n])
<1> DEFINE walk == Walk(table, speaker)
<1>1. walk = [n \in Nat |-> IF n = 0 THEN speaker ELSE Hop(table, walk[n-1])]
  BY WalkUnfolds
<1> HIDE DEF walk
<1>2. DOMAIN walk = Nat /\ walk[0] = speaker
  BY <1>1
<1>3. ASSUME NEW n \in Nat PROVE walk[n+1] = Hop(table, walk[n])
  <2>1. n + 1 \in Nat /\ n + 1 # 0 /\ (n + 1) - 1 = n
    OBVIOUS
  <2> QED BY <1>1, <2>1
<1>4. ASSUME NEW x \in T PROVE Hop(table, x) \in T
  BY DEF Hop, IsDict
<1>5. \A n \in Nat : walk[n] \in T
  <2> DEFINE Out == {n \in Nat : walk[n] \notin T}
  <2> SUFFICES ASSUME Out # {} PROVE FALSE
    OBVIOUS
  <2>1. PICK n \in Out : \A m \in Out : n <= m
    <3>1. Out \subseteq Nat
      OBVIOUS
    <3> QED BY <3>1, Least
  <2>2. n # 0
    BY <1>2, <2>1
  <2>3. n - 1 \in Nat /\ n - 1 \notin Out /\ (n - 1) + 1 = n
    BY <2>1, <2>2
  <2>4. walk[n-1] \in T
    BY <2>3
  <2>5. walk[n] = Hop(table, walk[n-1])
    BY <1>3, <2>3
  <2> QED BY <1>4, <2>1, <2>4, <2>5
<1>6. walk = [n \in Nat |-> walk[n]]
  BY <1>1
<1>7. walk \in [Nat -> T]
  BY <1>5, <1>6
<1> QED
  BY <1>2, <1>3, <1>7 DEF walk

\* canonical_speaker's loop ends within as many turns as there are aliases,
\* whatever cycles the merges have tied: a longer walk would have to leave
\* more ids than the table has.
THEOREM LoopEnds ==
    ASSUME NEW S, NEW table, IsDict(table, S, S), IsFiniteSet(DOMAIN table),
           NEW T, S \subseteq T, NEW speaker \in T
    PROVE  \E n \in 0..Cardinality(DOMAIN table) :
              LET walk == Walk(table, speaker)
              IN  /\ Stops(table, walk, n)
                  /\ \A m \in 0..(n-1) : ~Stops(table, walk, m)
<1> DEFINE walk == Walk(table, speaker)
           size == Cardinality(DOMAIN table)
           Ends == {n \in 0..size : Stops(table, walk, n)}
<1>1. size \in Nat
  BY FS_CardinalityType
<1>2. Ends # {}
  <2> SUFFICES ASSUME \A n \in 0..size : ~Stops(table, walk, n) PROVE FALSE
    OBVIOUS
  <2> DEFINE left == [n \in 0..size |-> walk[n]]
  <2> HIDE DEF walk, size
  <2>1. left \in [0..size -> DOMAIN table]
    BY <1>1 DEF Stops
  <2>2. IsFiniteSet(0..size) /\ Cardinality(0..size) = size + 1
    BY <1>1, FS_Interval
  <2>3. Cardinality(DOMAIN table) < Cardinality(0..size)
    BY <1>1, <2>2 DEF size
  <2>4. PICK m \in 0..size, n \in 0..size : m # n /\ left[m] = left[n]
    <3> HIDE DEF left
    <3> QED BY <2>1, <2>2, <2>3, FS_PigeonHole
  <2>5. m \in 0..(n-1) \/ n \in 0..(m-1)
    BY <1>1, <2>4
  <2>6. walk[m] = walk[n]
    BY <2>4
  <2>7. CASE m \in 0..(n-1)
    <3>1. Stops(table, walk, n)
      BY <2>6, <2>7 DEF Stops
    <3> QED BY <2>4, <3>1
  <2>8. CASE n \in 0..(m-1)
    <3>1. Stops(table, walk, m)
      BY <2>6, <2>8 DEF Stops
    <3> QED BY <2>4, <3>1
  <2> QED
    BY <2>5, <2>7, <2>8
<1>3. PICK n \in Ends : \A m \in Ends : n <= m
  <2>1. Ends \subseteq Nat
    BY <1>1
  <2> QED BY <1>2, <2>1, Least
<1>4. ASSUME NEW m \in 0..(n-1) PROVE ~Stops(table, walk, m)
  <2>1. m \in 0..size /\ ~(n <= m)
    BY <1>1, <1>3
  <2> QED BY <1>3, <2>1
<1> QED
  BY <1>3, <1>4

\* What canonical_speaker returns is a speaker: the id it was given, None,
\* or the target of a merge.
LEMMA CanonicalSpeakerType ==
    ASSUME NEW S, NEW table, IsDict(table, S, S), IsFiniteSet(DOMAIN table),
           NEW T, S \subseteq T, NEW speaker \in T
    PROVE  CanonicalSpeaker(table, speaker) \in T
<1> DEFINE walk == Walk(table, speaker)
           last == CHOOSE n \in 0..Cardinality(DOMAIN table) :
                      /\ Stops(table, walk, n)
                      /\ \A m \in 0..(n-1) : ~Stops(table, walk, m)
<1>1. CanonicalSpeaker(table, speaker) = walk[last]
  BY DEF CanonicalSpeaker
<1>2. last \in 0..Cardinality(DOMAIN table)
  BY LoopEnds
<1>3. Cardinality(DOMAIN table) \in Nat
  BY FS_CardinalityType
<1>4. walk \in [Nat -> T]
  BY WalkType
<1> HIDE DEF walk, last
<1> QED
  BY <1>1, <1>2, <1>3, <1>4

\* In a table whose aliases all name speakers that are no alias, one hop is
\* enough: what canonical_speaker returns is never an alias.
LEMMA FlatTableIsCanonical ==
    ASSUME NEW S, NEW table, IsDict(table, S, S), IsFiniteSet(DOMAIN table),
           NEW T, S \subseteq T, NEW speaker \in T,
           \A a \in DOMAIN table : table[a] \notin DOMAIN table
    PROVE  CanonicalSpeaker(table, speaker) \notin DOMAIN table
<1> DEFINE walk == Walk(table, speaker)
           Newest(n) == /\ Stops(table, walk, n)
                      /\ \A m \in 0..(n-1) : ~Stops(table, walk, m)
           last == CHOOSE n \in 0..Cardinality(DOMAIN table) : Newest(n)
<1>1. CanonicalSpeaker(table, speaker) = walk[last]
  BY DEF CanonicalSpeaker
<1>2. last \in 0..Cardinality(DOMAIN table) /\ Newest(last)
  BY LoopEnds
<1>3. Cardinality(DOMAIN table) \in Nat
  BY FS_CardinalityType
<1>4. \A n \in Nat : walk[n+1] = Hop(table, walk[n])
  BY WalkType
<1> HIDE DEF walk, last
<1>5. CASE last = 0
  BY <1>1, <1>2, <1>5 DEF Stops
<1>6. CASE last # 0
  <2>1. last - 1 \in Nat /\ last - 1 \in 0..(last - 1) /\ (last - 1) + 1 = last
    BY <1>2, <1>3, <1>6
  <2>2. walk[last - 1] \in DOMAIN table
    BY <1>2, <2>1 DEF Stops
  <2>3. walk[last] = table[walk[last - 1]]
    BY <1>4, <2>1, <2>2 DEF Hop
  <2> QED BY <1>1, <2>2, <2>3
<1> QED
  BY <1>5, <1>6

-----------------------------------------------------------------------------
(* What one handler may do to a segment, and what it may do to a session.  *)

\* A segment as an event creates it.
Fresh(t) ==
    /\ t \in Segment
    /\ ~t.sealed
    /\ t.translation_text = EmptyText
    /\ t.translated_from_content_revision = None
    /\ t.translated_from_language_revision = None
    /\ t.translation_status = PendingIfAccepted(t.status)

Drafted(s, t) ==
    /\ t.content_revision > s.content_revision
    /\ t = [s EXCEPT !.status = "partial", !.draft = t.draft,
                     !.content_revision = t.content_revision]

Finalised(s, t) ==
    /\ t.content_revision > s.content_revision
    /\ t.translation_status = PendingIfAccepted(t.status)
    /\ t = TranslationDropped(
               [s EXCEPT !.status = t.status, !.text = t.text, !.draft = EmptyText,
                         !.start_sample = t.start_sample, !.language = t.language,
                         !.content_revision = t.content_revision],
               t.translation_status)

Relabelled(s, t) ==
    /\ t.language_revision > s.language_revision
    /\ t.translation_status = PendingIfAccepted(s.status)
    /\ t = TranslationDropped(
               [s EXCEPT !.language = t.language,
                         !.language_revision = t.language_revision],
               t.translation_status)

Reassigned(s, t) ==
    /\ t.speaker_revision > s.speaker_revision
    /\ t = [s EXCEPT !.primary_speaker_id = t.primary_speaker_id,
                     !.speaker_status = t.speaker_status,
                     !.speaker_revision = t.speaker_revision]

Requested(s, t) ==
    /\ s.status = "accepted"
    /\ t = [s EXCEPT !.translation_status = "pending"]

Translated(s, t) ==
    /\ t.translation_revision > s.translation_revision
    /\ t = [s EXCEPT !.translation_status = "completed",
                     !.translation_text = t.translation_text,
                     !.translation_revision = t.translation_revision,
                     !.translated_from_content_revision = s.content_revision,
                     !.translated_from_language_revision = s.language_revision]

Failed(s, t) ==
    t = [s EXCEPT !.translation_status = "failed", !.translation_text = EmptyText,
                  !.translation_revision = t.translation_revision]

Closed(s, t) == t = [s EXCEPT !.sealed = TRUE]

Revised(s, t) ==
    \/ Drafted(s, t)
    \/ Finalised(s, t)
    \/ Relabelled(s, t)
    \/ Reassigned(s, t)
    \/ Requested(s, t)
    \/ Translated(s, t)
    \/ Failed(s, t)
    \/ Closed(s, t)

\* A speaker as the handlers show it: looked up in the alias table.
Canonical(table) == {CanonicalSpeaker(table, speaker) : speaker \in Speaker}

\* The alias table after a merge.
Merged(table, e) ==
    [a \in DOMAIN table \cup e.from_speaker_ids |->
        IF a \in e.from_speaker_ids THEN e.to_speaker_id ELSE table[a]]

Opens(p, q, id, t) ==
    /\ q.segments = Put(p.segments, id, t)
    /\ q.speaker_aliases = p.speaker_aliases
    /\ Fresh(t)
    /\ t.primary_speaker_id \in Canonical(p.speaker_aliases)

\* A revision keeps the speaker or shows a canonical one.
Revision(p, s, t) ==
    /\ Revised(s, t)
    /\ t.primary_speaker_id
          \in {s.primary_speaker_id} \cup Canonical(p.speaker_aliases)

Revises(p, q, id, t) ==
    /\ q.segments = Put(p.segments, id, t)
    /\ q.speaker_aliases = p.speaker_aliases
    /\ ~p.segments[id].sealed
    /\ Revision(p, p.segments[id], t)

Merges(p, q, e) ==
    /\ q.segments = [i \in DOMAIN p.segments |-> Rewritten(p.segments[i], e)]
    /\ q.speaker_aliases = Merged(p.speaker_aliases, e)

\* At most one segment is opened or revised, or one of the merges that may
\* arrive rewrites several.
Effect(merges, p, q) ==
    \/ q.segments = p.segments /\ q.speaker_aliases = p.speaker_aliases
    \/ \E id \in SegmentId \ DOMAIN p.segments, t \in Segment : Opens(p, q, id, t)
    \/ \E id \in DOMAIN p.segments, t \in Segment : Revises(p, q, id, t)
    \/ \E e \in merges : Merges(p, q, e)

Folds(merges, p, result) ==
    /\ IsSession(result.session)
    /\ result.reason \in Outcome
    /\ Effect(merges, p, result.session)

-----------------------------------------------------------------------------
(* The ways a handler can return.                                          *)

LEMMA RefuseFolds ==
    ASSUME NEW merges, NEW p, IsSession(p), NEW reason \in Outcome
    PROVE  Folds(merges, p, Refuse(p, reason))
  BY DEF Folds, Refuse, Effect

LEMMA PutType ==
    ASSUME NEW p, IsSession(p), NEW id \in SegmentId, NEW t \in Segment
    PROVE  IsSession([p EXCEPT !.segments = Put(p.segments, id, t)])
<1> DEFINE q == [p EXCEPT !.segments = Put(p.segments, id, t)]
<1>1. q = [ segments        |-> Put(p.segments, id, t),
            seen_event_ids  |-> p.seen_event_ids,
            speaker_aliases |-> p.speaker_aliases,
            conflicts       |-> p.conflicts ]
  BY DEF IsSession
<1>2. IsDict(Put(p.segments, id, t), SegmentId, Segment)
  BY DEF IsSession, IsDict, Put
<1> QED
  BY <1>1, <1>2 DEF IsSession

LEMMA OpenFolds ==
    ASSUME NEW merges, NEW p, IsSession(p), NEW id \in SegmentId \ DOMAIN p.segments,
           NEW t \in Segment, Fresh(t),
           t.primary_speaker_id \in Canonical(p.speaker_aliases)
    PROVE  Folds(merges, p, Accept(p, id, t))
<1>1. IsSession([p EXCEPT !.segments = Put(p.segments, id, t)])
  BY PutType
<1> DEFINE q == [p EXCEPT !.segments = Put(p.segments, id, t)]
<1>2. q.segments = Put(p.segments, id, t) /\ q.speaker_aliases = p.speaker_aliases
  BY DEF IsSession
<1>3. Opens(p, q, id, t)
  BY <1>2 DEF Opens
<1> HIDE DEF q
<1> QED
  BY <1>1, <1>3 DEF Folds, Accept, Effect, Outcome, q

LEMMA ReviseFolds ==
    ASSUME NEW merges, NEW p, IsSession(p), NEW id \in DOMAIN p.segments,
           ~p.segments[id].sealed,
           NEW t \in Segment, Revision(p, p.segments[id], t)
    PROVE  Folds(merges, p, Accept(p, id, t))
<1>0. id \in SegmentId
  BY DEF IsSession, IsDict
<1>1. IsSession([p EXCEPT !.segments = Put(p.segments, id, t)])
  BY <1>0, PutType
<1> DEFINE q == [p EXCEPT !.segments = Put(p.segments, id, t)]
<1>2. q.segments = Put(p.segments, id, t) /\ q.speaker_aliases = p.speaker_aliases
  BY DEF IsSession
<1>3. Revises(p, q, id, t)
  BY <1>2 DEF Revises
<1> HIDE DEF q
<1> QED
  BY <1>1, <1>3 DEF Folds, Accept, Effect, Outcome, q

LEMMA ContradictFolds ==
    ASSUME NEW merges, NEW p, IsSession(p), NEW id \in SegmentId, NEW revision \in Nat,
           NEW dimension \in {"content", "language", "speaker", "translation"}
    PROVE  Folds(merges, p, Contradict(p, id, dimension, revision))
<1> DEFINE conflict == [ segment_id |-> id, dimension |-> dimension,
                         revision |-> revision ]
           longer == Append(p.conflicts, conflict)
           q == [p EXCEPT !.conflicts = longer]
<1>1. q = [ segments        |-> p.segments,
            seen_event_ids  |-> p.seen_event_ids,
            speaker_aliases |-> p.speaker_aliases,
            conflicts       |-> longer ]
  <2> HIDE DEF longer
  <2> QED BY DEF IsSession
<1>2. longer \in Seq(Conflict)
  BY DEF IsSession, Conflict
<1>3. /\ IsSession(q)
      /\ q.segments = p.segments /\ q.speaker_aliases = p.speaker_aliases
  <2> HIDE DEF longer
  <2> QED BY <1>1, <1>2 DEF IsSession
<1> QED
  BY <1>3 DEF Folds, Contradict, Effect, Outcome, RejectionReason

LEMMA VersionedFolds ==
    ASSUME NEW merges, NEW p, IsSession(p), NEW id \in DOMAIN p.segments,
           ~p.segments[id].sealed,
           NEW dimension \in {"content", "language", "speaker", "translation"},
           NEW incoming \in Nat, NEW current \in Nat, NEW same, NEW t \in Segment,
           incoming > current => Revision(p, p.segments[id], t)
    PROVE  Folds(merges, p, Versioned(p, id, dimension, incoming, current, same, t))
<1>0. id \in SegmentId
  BY DEF IsSession, IsDict
<1>1. CASE incoming < current
  BY <1>1, RefuseFolds DEF Versioned, Outcome, RejectionReason
<1>2. CASE incoming = current
  <2>1. Folds(merges, p, Refuse(p, "duplicate"))
    BY RefuseFolds DEF Outcome, RejectionReason
  <2>2. Folds(merges, p, Contradict(p, id, dimension, incoming))
    BY <1>0, ContradictFolds
  <2> QED BY <1>2, <2>1, <2>2 DEF Versioned
<1>3. CASE incoming > current
  BY <1>3, ReviseFolds DEF Versioned
<1> QED
  BY <1>1, <1>2, <1>3

LEMMA OnOpenSegmentFolds ==
    ASSUME NEW merges, NEW p, IsSession(p), NEW id, NEW result,
           id \in DOMAIN p.segments /\ ~p.segments[id].sealed => Folds(merges, p, result)
    PROVE  Folds(merges, p, OnOpenSegment(p, id, result))
  BY RefuseFolds DEF OnOpenSegment, Outcome, RejectionReason

-----------------------------------------------------------------------------
(* The handlers.                                                           *)

LEMMA SegmentType ==
    ASSUME NEW p, IsSession(p), NEW id \in DOMAIN p.segments
    PROVE  p.segments[id] \in Segment /\ id \in SegmentId
  BY DEF IsSession, IsDict

LEMMA CanonicalType ==
    ASSUME NEW p, IsSession(p), NEW speaker \in Speaker
    PROVE  CanonicalSpeaker(p.speaker_aliases, speaker) \in Speaker
<1>1. /\ IsDict(p.speaker_aliases, SpeakerId, SpeakerId)
      /\ IsFiniteSet(DOMAIN p.speaker_aliases)
      /\ SpeakerId \subseteq Speaker
  BY DEF IsSession, Speaker
<1> QED
  BY <1>1, CanonicalSpeakerType

LEMMA CreatedFresh ==
    ASSUME NEW p, IsSession(p), NEW e,
           e.start_sample \in Nat, e.language \in Language,
           e.primary_speaker_id \in Speaker, e.speaker_status \in SpeakerStatus,
           e.content_revision \in Nat, e.language_revision \in Nat,
           e.speaker_revision \in Nat,
           NEW status \in SegmentStatus, NEW draft \in Text, NEW text \in Text
    PROVE  LET t == Created(p, e, status, draft, text, PendingIfAccepted(status))
           IN  Fresh(t) /\ t.primary_speaker_id \in Canonical(p.speaker_aliases)
<1> DEFINE speaker == CanonicalSpeaker(p.speaker_aliases, e.primary_speaker_id)
           ts == PendingIfAccepted(status)
           t == Created(p, e, status, draft, text, ts)
<1>1. speaker \in Speaker /\ speaker \in Canonical(p.speaker_aliases)
  BY CanonicalType DEF Canonical
<1>2. ts \in {"pending", "not_applicable"}
  BY DEF PendingIfAccepted
<1>3. t = [ status |-> status, start_sample |-> e.start_sample,
            draft |-> draft, text |-> text, language |-> e.language,
            primary_speaker_id |-> speaker,
            speaker_status |-> e.speaker_status,
            translation_status |-> ts, translation_text |-> EmptyText,
            content_revision |-> e.content_revision,
            language_revision |-> e.language_revision,
            speaker_revision |-> e.speaker_revision, translation_revision |-> 0,
            translated_from_content_revision |-> None,
            translated_from_language_revision |-> None,
            sealed |-> FALSE ]
  BY DEF Created
<1>4. /\ t.status = status /\ t.primary_speaker_id = speaker
      /\ t.translation_status = ts
  BY <1>3
<1>5. t \in Segment
  <2> HIDE DEF speaker, ts, t
  <2> QED BY <1>1, <1>2, <1>3, ReducerAssumption
          DEF Segment, TranslationStatus, Echo
<1>6. /\ ~t.sealed
      /\ t.translation_text = EmptyText
      /\ t.translated_from_content_revision = None
      /\ t.translated_from_language_revision = None
  BY <1>3
<1>7. Fresh(t)
  <2> HIDE DEF t, speaker
  <2> QED BY <1>4, <1>5, <1>6 DEF Fresh
<1> HIDE DEF speaker
<1> QED
  BY <1>1, <1>4, <1>7

LEMMA PartialFolds ==
    ASSUME NEW merges, NEW p, IsSession(p), NEW e \in PartialEvent
    PROVE  Folds(merges, p, ApplyPartial(p, e))
<1> DEFINE id == e.segment_id
           s == p.segments[id]
           t == [s EXCEPT !.status = "partial", !.draft = e.draft,
                          !.content_revision = e.content_revision]
<1>1. id \in SegmentId /\ e.content_revision \in Nat /\ e.draft \in Text
  BY DEF PartialEvent
<1>2. CASE id \notin DOMAIN p.segments
  <2> DEFINE n == Created(p, e, "partial", e.draft, EmptyText, "not_applicable")
  <2>1. Fresh(n) /\ n.primary_speaker_id \in Canonical(p.speaker_aliases)
    <3>1. PendingIfAccepted("partial") = "not_applicable"
      BY DEF PendingIfAccepted
    <3> QED BY <3>1, CreatedFresh, ReducerAssumption
            DEF PartialEvent, SegmentStatus
  <2>2. Folds(merges, p, Accept(p, id, n))
    <3> HIDE DEF n
    <3> QED BY <1>1, <1>2, <2>1, OpenFolds DEF Fresh
  <2> QED BY <1>2, <2>2 DEF ApplyPartial
<1>3. CASE id \in DOMAIN p.segments
  <2>1. s \in Segment
    BY <1>3, SegmentType
  <2>2. t \in Segment
    BY <1>1, <2>1 DEF Segment, SegmentStatus
  <2>3. e.content_revision > s.content_revision => Revision(p, s, t)
    BY <1>1, <2>1 DEF Revision, Revised, Drafted, Segment
  <2>4. s.content_revision \in Nat
    BY <2>1 DEF Segment
  <2> DEFINE v == Versioned(p, id, "content", e.content_revision,
                            s.content_revision, e.draft = s.draft, t)
  <2>5. ~s.sealed => Folds(merges, p, v)
    <3> HIDE DEF t
    <3> QED BY <1>1, <1>3, <2>2, <2>3, <2>4, VersionedFolds
  <2>6. Folds(merges, p, OnOpenSegment(p, id, v))
    <3> HIDE DEF v
    <3> QED BY <2>5, OnOpenSegmentFolds
  <2> QED BY <1>3, <2>6 DEF ApplyPartial
<1> QED
  BY <1>2, <1>3

LEMMA FinalFolds ==
    ASSUME NEW merges, NEW p, IsSession(p), NEW e \in FinalEvent
    PROVE  Folds(merges, p, ApplyFinal(p, e))
<1> DEFINE id == e.segment_id
           s == p.segments[id]
           ts == PendingIfAccepted(e.status)
           t == TranslationDropped(
                   [s EXCEPT !.status = e.status, !.text = e.text,
                       !.draft = EmptyText, !.start_sample = e.start_sample,
                       !.language = e.language,
                       !.content_revision = e.content_revision], ts)
<1>1. /\ id \in SegmentId /\ e.content_revision \in Nat /\ e.text \in Text
      /\ e.status \in FinalStatus /\ e.start_sample \in Nat
      /\ e.language \in Language
  BY DEF FinalEvent
<1>2. ts \in {"pending", "not_applicable"}
  BY DEF PendingIfAccepted
<1>3. CASE id \notin DOMAIN p.segments
  <2> DEFINE n == Created(p, e, e.status, EmptyText, e.text, ts)
  <2>1. Fresh(n) /\ n.primary_speaker_id \in Canonical(p.speaker_aliases)
    BY <1>1, CreatedFresh, ReducerAssumption DEF FinalEvent, SegmentStatus
  <2>2. Folds(merges, p, Accept(p, id, n))
    <3> HIDE DEF n
    <3> QED BY <1>1, <1>3, <2>1, OpenFolds DEF Fresh
  <2> QED BY <1>3, <2>2 DEF ApplyFinal
<1>4. CASE id \in DOMAIN p.segments
  <2>1. s \in Segment
    BY <1>4, SegmentType
  <2>2. t \in Segment
    <3> HIDE DEF ts
    <3> QED BY <1>1, <1>2, <2>1, ReducerAssumption
            DEF Segment, SegmentStatus, TranslationDropped, TranslationStatus, Echo
  <2>3. e.content_revision > s.content_revision => Revision(p, s, t)
    <3>1. t.translation_status = ts /\ t.status = e.status
      <4> HIDE DEF ts
      <4> QED BY <2>1 DEF Segment, TranslationDropped
    <3>2. t.translation_status = PendingIfAccepted(t.status)
      BY <3>1
    <3> HIDE DEF ts
    <3> QED BY <1>1, <1>2, <2>1, <3>2
            DEF Revision, Revised, Finalised, Segment, TranslationDropped
  <2>4. s.content_revision \in Nat
    BY <2>1 DEF Segment
  <2> DEFINE v == Versioned(p, id, "content", e.content_revision,
                            s.content_revision,
                            e.text = s.text /\ e.status = s.status, t)
  <2>5. ~s.sealed => Folds(merges, p, v)
    <3> HIDE DEF t
    <3> QED BY <1>1, <1>4, <2>2, <2>3, <2>4, VersionedFolds
  <2>6. Folds(merges, p, OnOpenSegment(p, id, v))
    <3> HIDE DEF v
    <3> QED BY <2>5, OnOpenSegmentFolds
  <2> QED BY <1>4, <2>6 DEF ApplyFinal
<1> QED
  BY <1>3, <1>4

LEMMA LanguageFolds ==
    ASSUME NEW merges, NEW p, IsSession(p), NEW e \in LanguageEvent
    PROVE  Folds(merges, p, ApplyLanguage(p, e))
<1> DEFINE id == e.segment_id
           s == p.segments[id]
           ts == PendingIfAccepted(s.status)
           t == TranslationDropped(
                   [s EXCEPT !.language = e.language,
                       !.language_revision = e.language_revision], ts)
           v == Versioned(p, id, "language", e.language_revision,
                          s.language_revision, e.language = s.language, t)
<1>1. e.language_revision \in Nat /\ e.language \in Language
  BY DEF LanguageEvent
<1>2. ts \in {"pending", "not_applicable"}
  BY DEF PendingIfAccepted
<1>3. ASSUME id \in DOMAIN p.segments, ~s.sealed PROVE Folds(merges, p, v)
  <2>1. s \in Segment
    BY <1>3, SegmentType
  <2>2. t \in Segment
    <3> HIDE DEF ts
    <3> QED BY <1>1, <1>2, <2>1, ReducerAssumption
            DEF Segment, TranslationDropped, TranslationStatus, Echo
  <2>3. e.language_revision > s.language_revision => Revision(p, s, t)
    <3>1. t.translation_status = PendingIfAccepted(s.status)
      BY <2>1 DEF Segment, TranslationDropped
    <3> HIDE DEF ts
    <3> QED BY <1>1, <1>2, <2>1, <3>1
            DEF Revision, Revised, Relabelled, Segment, TranslationDropped
  <2>4. s.language_revision \in Nat
    BY <2>1 DEF Segment
  <2> HIDE DEF t
  <2> QED BY <1>1, <1>3, <2>2, <2>3, <2>4, VersionedFolds
<1>4. Folds(merges, p, OnOpenSegment(p, id, v))
  <2> HIDE DEF v
  <2> QED BY <1>3, OnOpenSegmentFolds
<1> QED
  BY <1>4 DEF ApplyLanguage

LEMMA SpeakerFolds ==
    ASSUME NEW merges, NEW p, IsSession(p), NEW e \in AssignEvent
    PROVE  Folds(merges, p, ApplySpeaker(p, e))
<1> DEFINE id == e.segment_id
           s == p.segments[id]
           incoming == CanonicalSpeaker(p.speaker_aliases, e.primary_speaker_id)
           t == [s EXCEPT !.primary_speaker_id = incoming,
                          !.speaker_status = e.speaker_status,
                          !.speaker_revision = e.speaker_revision]
           v == Versioned(p, id, "speaker", e.speaker_revision,
                          s.speaker_revision,
                          /\ incoming = s.primary_speaker_id
                          /\ e.speaker_status = s.speaker_status, t)
<1>1. e.speaker_revision \in Nat /\ e.speaker_status \in SpeakerStatus
  BY DEF AssignEvent
<1>2. incoming \in Speaker /\ incoming \in Canonical(p.speaker_aliases)
  BY CanonicalType DEF AssignEvent, Canonical
<1>3. ASSUME id \in DOMAIN p.segments, ~s.sealed PROVE Folds(merges, p, v)
  <2> HIDE DEF incoming
  <2>1. s \in Segment
    BY <1>3, SegmentType
  <2>2. t \in Segment
    BY <1>1, <1>2, <2>1 DEF Segment
  <2>3. e.speaker_revision > s.speaker_revision => Revision(p, s, t)
    BY <1>1, <1>2, <2>1 DEF Revision, Revised, Reassigned, Segment
  <2>4. s.speaker_revision \in Nat
    BY <2>1 DEF Segment
  <2> HIDE DEF t
  <2> QED BY <1>1, <1>3, <2>2, <2>3, <2>4, VersionedFolds
<1>4. Folds(merges, p, OnOpenSegment(p, id, v))
  <2> HIDE DEF v
  <2> QED BY <1>3, OnOpenSegmentFolds
<1> QED
  BY <1>4 DEF ApplySpeaker

LEMMA MergeFolds ==
    ASSUME NEW merges, NEW p, IsSession(p), NEW e \in MergeEvent, e \in merges
    PROVE  Folds(merges, p, ApplySpeakerMerge(p, e))
<1> DEFINE table ==
             [a \in DOMAIN p.speaker_aliases \cup e.from_speaker_ids |->
                IF a \in e.from_speaker_ids THEN e.to_speaker_id
                                            ELSE p.speaker_aliases[a]]
           views == [i \in DOMAIN p.segments |-> Rewritten(p.segments[i], e)]
           q == [p EXCEPT !.speaker_aliases = table, !.segments = views]
<1>1. /\ e.from_speaker_ids \subseteq SpeakerId
      /\ IsFiniteSet(e.from_speaker_ids)
      /\ e.to_speaker_id \in SpeakerId
      /\ e.speaker_revision \in Nat
  BY DEF MergeEvent
<1>2. IsDict(table, SpeakerId, SpeakerId)
  BY <1>1 DEF IsSession, IsDict
<1>3. IsFiniteSet(DOMAIN table)
  <2>1. DOMAIN table = DOMAIN p.speaker_aliases \cup e.from_speaker_ids
    OBVIOUS
  <2> QED BY <1>1, <2>1, FS_Union DEF IsSession
<1>4. IsDict(views, SegmentId, Segment)
  <2>1. ASSUME NEW i \in DOMAIN p.segments
        PROVE  Rewritten(p.segments[i], e) \in Segment
    <3>1. p.segments[i] \in Segment
      BY SegmentType
    <3> QED BY <1>1, <3>1 DEF Rewritten, Segment, Speaker
  <2> QED BY <2>1 DEF IsSession, IsDict
<1>5. q = [ segments        |-> views,
            seen_event_ids  |-> p.seen_event_ids,
            speaker_aliases |-> table,
            conflicts       |-> p.conflicts ]
  <2> HIDE DEF table, views
  <2> DEFINE first == [p EXCEPT !.speaker_aliases = table]
  <2>1. first = [ segments        |-> p.segments,
                  seen_event_ids  |-> p.seen_event_ids,
                  speaker_aliases |-> table,
                  conflicts       |-> p.conflicts ]
    BY DEF IsSession
  <2>2. q = [first EXCEPT !.segments = views]
    OBVIOUS
  <2> HIDE DEF first
  <2> QED BY <2>1, <2>2
<1>6. IsSession(q) /\ q.segments = views /\ q.speaker_aliases = table
  <2> HIDE DEF table, views
  <2> QED BY <1>2, <1>3, <1>4, <1>5 DEF IsSession
<1>7. ApplySpeakerMerge(p, e) = [session |-> q, reason |-> "applied"]
  BY DEF ApplySpeakerMerge
<1>8. Merges(p, q, e)
  BY <1>6 DEF Merges, Merged
<1> HIDE DEF q
<1> QED
  BY <1>6, <1>7, <1>8 DEF Folds, Effect, Outcome

LEMMA StartedFolds ==
    ASSUME NEW merges, NEW p, IsSession(p), NEW e \in StartedEvent
    PROVE  Folds(merges, p, ApplyTranslationStarted(p, e))
<1> DEFINE id == e.segment_id
           s == p.segments[id]
           t == [s EXCEPT !.translation_status = "pending"]
           r == IF s.status # "accepted" THEN Refuse(p, "not_applicable")
                                         ELSE Accept(p, id, t)
<1>1. ASSUME id \in DOMAIN p.segments, ~s.sealed PROVE Folds(merges, p, r)
  <2>1. s \in Segment
    BY <1>1, SegmentType
  <2>2. t \in Segment
    BY <2>1 DEF Segment, TranslationStatus
  <2>3. s.status = "accepted" => Revision(p, s, t)
    BY <2>1 DEF Revision, Revised, Requested, Segment
  <2>4. s.status = "accepted" => Folds(merges, p, Accept(p, id, t))
    <3> HIDE DEF t
    <3> QED BY <1>1, <2>2, <2>3, ReviseFolds
  <2>5. Folds(merges, p, Refuse(p, "not_applicable"))
    BY RefuseFolds DEF Outcome, RejectionReason
  <2> HIDE DEF t
  <2> QED BY <2>4, <2>5
<1>2. Folds(merges, p, OnOpenSegment(p, id, r))
  <2> HIDE DEF r
  <2> QED BY <1>1, OnOpenSegmentFolds
<1> QED
  BY <1>2 DEF ApplyTranslationStarted

LEMMA TranslatedFolds ==
    ASSUME NEW merges, NEW p, IsSession(p), NEW e \in TranslatedEvent
    PROVE  Folds(merges, p, ApplyTranslationFinal(p, e))
<1> DEFINE id == e.segment_id
           s == p.segments[id]
           t == [s EXCEPT !.translation_status = "completed",
                   !.translation_text = e.text,
                   !.translation_revision = e.translation_revision,
                   !.translated_from_content_revision =
                       e.translated_from_content_revision,
                   !.translated_from_language_revision =
                       e.translated_from_language_revision]
           v == Versioned(p, id, "translation", e.translation_revision,
                          s.translation_revision,
                          e.text = s.translation_text, t)
           r == IF ~EchoesMatch(s, e) THEN Refuse(p, "stale") ELSE v
<1>1. /\ e.translation_revision \in Nat /\ e.text \in Text
      /\ e.translated_from_content_revision \in Nat
      /\ e.translated_from_language_revision \in Nat
  BY DEF TranslatedEvent
<1>2. ASSUME id \in DOMAIN p.segments, ~s.sealed PROVE Folds(merges, p, r)
  <2>1. s \in Segment
    BY <1>2, SegmentType
  <2>2. t \in Segment
    BY <1>1, <2>1 DEF Segment, TranslationStatus, Echo
  <2>3. Folds(merges, p, Refuse(p, "stale"))
    BY RefuseFolds DEF Outcome, RejectionReason
  <2>4. ASSUME EchoesMatch(s, e) PROVE Folds(merges, p, v)
    <3>1. e.translation_revision > s.translation_revision => Revision(p, s, t)
      BY <1>1, <2>1, <2>4 DEF Revision, Revised, Translated, Segment, EchoesMatch
    <3>2. s.translation_revision \in Nat
      BY <2>1 DEF Segment
    <3> HIDE DEF t
    <3> QED BY <1>1, <1>2, <2>2, <3>1, <3>2, VersionedFolds
  <2> HIDE DEF v
  <2> QED BY <2>3, <2>4
<1>3. Folds(merges, p, OnOpenSegment(p, id, r))
  <2> HIDE DEF r
  <2> QED BY <1>2, OnOpenSegmentFolds
<1> QED
  BY <1>3 DEF ApplyTranslationFinal

LEMMA FailedFolds ==
    ASSUME NEW merges, NEW p, IsSession(p), NEW e \in FailedEvent
    PROVE  Folds(merges, p, ApplyTranslationFailed(p, e))
<1> DEFINE id == e.segment_id
           s == p.segments[id]
           t == WithoutTranslation(s, e)
           r == IF e.translated_from_content_revision # s.content_revision
                THEN Refuse(p, "stale") ELSE Accept(p, id, t)
<1>1. e.translation_revision \in Nat
  BY DEF FailedEvent
<1>2. ASSUME id \in DOMAIN p.segments, ~s.sealed PROVE Folds(merges, p, r)
  <2>1. s \in Segment
    BY <1>2, SegmentType
  <2>2. t \in Segment
    BY <1>1, <2>1, ReducerAssumption
       DEF Segment, TranslationStatus, WithoutTranslation
  <2>3. Revision(p, s, t)
    BY <1>1, <2>1 DEF Revision, Revised, Failed, Segment, WithoutTranslation
  <2>4. Folds(merges, p, Accept(p, id, t))
    <3> HIDE DEF t
    <3> QED BY <1>2, <2>2, <2>3, ReviseFolds
  <2>5. Folds(merges, p, Refuse(p, "stale"))
    BY RefuseFolds DEF Outcome, RejectionReason
  <2> HIDE DEF t
  <2> QED BY <2>4, <2>5
<1>3. Folds(merges, p, OnOpenSegment(p, id, r))
  <2> HIDE DEF r
  <2> QED BY <1>2, OnOpenSegmentFolds
<1> QED
  BY <1>3 DEF ApplyTranslationFailed

-----------------------------------------------------------------------------
(* The public operations.                                                  *)

LEMMA DispatchFolds ==
    ASSUME NEW merges, NEW p, IsSession(p), NEW e \in Event,
           e \in MergeEvent => e \in merges
    PROVE  Folds(merges, p, Dispatch(p, e))
<1>1. CASE e \in PartialEvent
  <2>1. e.event_type = "transcript.partial"
    BY <1>1 DEF PartialEvent
  <2> QED BY <1>1, <2>1, PartialFolds DEF Dispatch
<1>2. CASE e \in FinalEvent
  <2>1. e.event_type \in {"transcript.final", "transcript.revised"}
    BY <1>2 DEF FinalEvent
  <2> QED BY <1>2, <2>1, FinalFolds DEF Dispatch
<1>3. CASE e \in LanguageEvent
  <2>1. e.event_type = "language.updated"
    BY <1>3 DEF LanguageEvent
  <2> QED BY <1>3, <2>1, LanguageFolds DEF Dispatch
<1>4. CASE e \in AssignEvent
  <2>1. e.event_type = "speaker.updated" /\ e.operation # "merge"
    BY <1>4 DEF AssignEvent
  <2> QED BY <1>4, <2>1, SpeakerFolds DEF Dispatch
<1>5. CASE e \in MergeEvent
  <2>1. e.event_type = "speaker.updated" /\ e.operation = "merge"
    BY <1>5 DEF MergeEvent
  <2> QED BY <1>5, <2>1, MergeFolds DEF Dispatch
<1>6. CASE e \in StartedEvent
  <2>1. e.event_type = "translation.started"
    BY <1>6 DEF StartedEvent
  <2> QED BY <1>6, <2>1, StartedFolds DEF Dispatch
<1>7. CASE e \in TranslatedEvent
  <2>1. e.event_type = "translation.final"
    BY <1>7 DEF TranslatedEvent
  <2> QED BY <1>7, <2>1, TranslatedFolds DEF Dispatch
<1>8. CASE e \in FailedEvent
  <2>1. e.event_type = "translation.failed"
    BY <1>8 DEF FailedEvent
  <2> QED BY <1>8, <2>1, FailedFolds DEF Dispatch
<1>9. CASE e \in OtherEvent
  <2>1. e.event_type = "other"
    BY <1>9 DEF OtherEvent
  <2>2. Folds(merges, p, Refuse(p, "not_applicable"))
    BY RefuseFolds DEF Outcome, RejectionReason
  <2> QED BY <2>1, <2>2 DEF Dispatch
<1> QED
  BY <1>1, <1>2, <1>3, <1>4, <1>5, <1>6, <1>7, <1>8, <1>9 DEF Event

LEMMA ApplyFolds ==
    ASSUME NEW merges, NEW p, IsSession(p), NEW eventId \in EventId,
           NEW e \in Event, e \in MergeEvent => e \in merges
    PROVE  Folds(merges, p, Apply(p, eventId, e))
<1>1. CASE eventId \in p.seen_event_ids
  BY <1>1, RefuseFolds DEF Apply, Outcome, RejectionReason
<1>2. CASE eventId \notin p.seen_event_ids
  <2> DEFINE q == Dispatch(p, e).session
             ids == p.seen_event_ids \cup {eventId}
             r == [q EXCEPT !.seen_event_ids = ids]
  <2>1. IsSession(q) /\ Dispatch(p, e).reason \in Outcome /\ Effect(merges, p, q)
    BY DispatchFolds DEF Folds
  <2>2. ids \subseteq EventId
    BY DEF IsSession
  <2>3. Apply(p, eventId, e) = [session |-> r, reason |-> Dispatch(p, e).reason]
    BY <1>2 DEF Apply
  <2> HIDE DEF q, ids
  <2>4. r = [ segments        |-> q.segments,
              seen_event_ids  |-> ids,
              speaker_aliases |-> q.speaker_aliases,
              conflicts       |-> q.conflicts ]
    BY <2>1 DEF IsSession
  <2>5. /\ IsSession(r)
        /\ r.segments = q.segments /\ r.speaker_aliases = q.speaker_aliases
    BY <2>1, <2>2, <2>4 DEF IsSession
  <2>6. Effect(merges, p, r)
    BY <2>1, <2>5 DEF Effect, Opens, Revises, Merges
  <2> HIDE DEF r
  <2> QED BY <2>1, <2>3, <2>5, <2>6 DEF Folds
<1> QED
  BY <1>1, <1>2

LEMMA SealFolds ==
    ASSUME NEW merges, NEW p, IsSession(p), NEW id \in SegmentId
    PROVE  Folds(merges, p, Seal(p, id))
<1> DEFINE s == p.segments[id]
           t == [s EXCEPT !.sealed = TRUE]
<1>1. CASE id \notin DOMAIN p.segments
  BY <1>1, RefuseFolds DEF Seal, Outcome, RejectionReason
<1>2. CASE id \in DOMAIN p.segments /\ s.sealed
  BY <1>2, RefuseFolds DEF Seal, Outcome, RejectionReason
<1>3. CASE id \in DOMAIN p.segments /\ ~s.sealed
  <2>1. s \in Segment
    BY <1>3, SegmentType
  <2>2. t \in Segment
    BY <2>1 DEF Segment
  <2>3. Revision(p, s, t)
    BY DEF Revision, Revised, Closed
  <2>4. Folds(merges, p, Accept(p, id, t))
    <3> HIDE DEF t
    <3> QED BY <1>3, <2>2, <2>3, ReviseFolds
  <2> QED BY <1>3, <2>4 DEF Seal
<1> QED
  BY <1>1, <1>2, <1>3

=============================================================================
