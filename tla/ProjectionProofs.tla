-------------------------- MODULE ProjectionProofs --------------------------
(***************************************************************************)
(* Theorems about one SessionProjection, for any sets of segments, ids,    *)
(* speakers, texts and languages and any events the schema admits.         *)
(*                                                                         *)
(* Every theorem rests on StepFolds: a step keeps the types, and what it   *)
(* does to the segments is one of the effects ReducerProofs lists.  Those  *)
(* about the timeline rest on the order of the sort keys as well.          *)
(***************************************************************************)
EXTENDS History, ReducerProofs

-----------------------------------------------------------------------------
(* Types, and the shape of a step.                                         *)

\* The merges that may arrive.
Merging == Events \cap MergeEvent

LEMMA ArrivingIdsType == TypeOK => ArrivingIds \subseteq EventId
  BY DEF TypeOK, IsSession, ArrivingIds, FreshIds

LEMMA ReceiveFolds ==
    ASSUME TypeOK, NEW eventId \in ArrivingIds, NEW e \in Events,
           Receive(eventId, e)
    PROVE  TypeOK' /\ Effect(Merging, session, session')
<1>1. eventId \in EventId /\ e \in Event /\ IsSession(session)
  BY ArrivingIdsType, EventsAssumption DEF TypeOK
<1>2. Folds(Merging, session, Apply(session, eventId, e))
  BY <1>1, ApplyFolds DEF Merging
<1>3. /\ session' = Apply(session, eventId, e).session
      /\ outcome' = Apply(session, eventId, e).reason
  BY DEF Receive
<1> QED
  BY <1>2, <1>3 DEF Folds, TypeOK

LEMMA SealSegmentFolds ==
    ASSUME TypeOK, NEW id \in SegmentId, SealSegment(id)
    PROVE  TypeOK' /\ Effect(Merging, session, session')
<1>1. Folds(Merging, session, Seal(session, id))
  BY SealFolds DEF TypeOK
<1>2. session' = Seal(session, id).session /\ outcome' = Seal(session, id).reason
  BY DEF SealSegment
<1> QED
  BY <1>1, <1>2 DEF Folds, TypeOK

LEMMA StepFolds ==
    ASSUME TypeOK, [Next]_vars
    PROVE  TypeOK' /\ Effect(Merging, session, session')
<1>1. ASSUME NEW eventId \in ArrivingIds, NEW e \in Events,
             \/ TranscriptPartial(eventId, e)
             \/ TranscriptFinal(eventId, e)
             \/ TranscriptRevised(eventId, e)
             \/ LanguageUpdated(eventId, e)
             \/ SpeakerAssigned(eventId, e)
             \/ SpeakerMerged(eventId, e)
             \/ TranslationStarted(eventId, e)
             \/ TranslationFinal(eventId, e)
             \/ TranslationFailed(eventId, e)
             \/ StatelessEvent(eventId, e)
      PROVE  TypeOK' /\ Effect(Merging, session, session')
  <2>1. Receive(eventId, e)
    BY <1>1 DEF TranscriptPartial, TranscriptFinal, TranscriptRevised,
                LanguageUpdated, SpeakerAssigned, SpeakerMerged,
                TranslationStarted, TranslationFinal, TranslationFailed,
                StatelessEvent
  <2> QED BY <2>1, ReceiveFolds
<1>2. ASSUME NEW id \in SegmentId, SealSegment(id)
      PROVE  TypeOK' /\ Effect(Merging, session, session')
  BY <1>2, SealSegmentFolds
<1>3. CASE UNCHANGED vars
  BY <1>3 DEF vars, TypeOK, Effect
<1> QED
  BY <1>1, <1>2, <1>3 DEF Next

LEMMA InitType == Init => TypeOK
<1> SUFFICES ASSUME Init PROVE TypeOK
  OBVIOUS
<1>1. IsFiniteSet({})
  BY FS_EmptySet
<1>2. IsSession(EmptySession)
  BY <1>1 DEF EmptySession, IsSession, IsDict
<1> QED
  BY <1>2 DEF Init, TypeOK

\* The session always has the shape SessionProjection declares, every reason
\* is one apply can return, and the alias table stays finite, so the loop of
\* canonical_speaker ends whatever merges arrive.
THEOREM TypeCorrect == Spec => []TypeOK
<1>1. Init => TypeOK
  BY InitType
<1>2. TypeOK /\ [Next]_vars => TypeOK'
  BY StepFolds
<1> QED
  BY <1>1, <1>2, PTL DEF Spec

-----------------------------------------------------------------------------
(* From the effect of a step to what becomes of one segment.               *)

\* What a merge makes of an open segment of a speaker it renames.
Renamed(s, t) ==
    /\ t = [s EXCEPT !.primary_speaker_id = t.primary_speaker_id,
                     !.speaker_revision = t.speaker_revision]
    /\ s.primary_speaker_id \in DOMAIN aliases'
    /\ t.primary_speaker_id = aliases'[s.primary_speaker_id]

LEMMA RewrittenRenamed ==
    ASSUME NEW s \in Segment, NEW e \in MergeEvent,
           aliases' = Merged(aliases, e)
    PROVE  \/ Rewritten(s, e) = s
           \/ ~s.sealed /\ Renamed(s, Rewritten(s, e))
<1> SUFFICES ASSUME ~s.sealed, s.primary_speaker_id \in e.from_speaker_ids
             PROVE  Renamed(s, Rewritten(s, e))
  BY DEF Rewritten
<1>1. /\ s.primary_speaker_id \in DOMAIN aliases'
      /\ aliases'[s.primary_speaker_id] = e.to_speaker_id
  BY DEF Merged
<1> QED
  BY <1>1 DEF Renamed, Rewritten, Segment

\* A segment that a step finds is left alone, or it was open and is revised or
\* renamed.
LEMMA HeldSegments ==
    ASSUME TypeOK, Effect(Merging, session, session')
    PROVE  /\ DOMAIN segments \subseteq DOMAIN segments'
           /\ \A i \in DOMAIN segments :
                 \/ segments'[i] = segments[i]
                 \/ /\ ~segments[i].sealed
                    /\ \/ Revision(session, segments[i], segments'[i])
                       \/ Renamed(segments[i], segments'[i])
<1>1. CASE segments' = segments
  BY <1>1
<1>2. ASSUME NEW id \in SegmentId \ DOMAIN segments, NEW t,
             segments' = Put(segments, id, t)
      PROVE  /\ DOMAIN segments \subseteq DOMAIN segments'
             /\ \A i \in DOMAIN segments : segments'[i] = segments[i]
  BY <1>2 DEF Put
<1>3. ASSUME NEW id \in DOMAIN segments, NEW t,
             segments' = Put(segments, id, t)
      PROVE  /\ DOMAIN segments' = DOMAIN segments
             /\ segments'[id] = t
             /\ \A i \in DOMAIN segments : i # id => segments'[i] = segments[i]
  BY <1>3 DEF Put
<1>4. ASSUME NEW e \in Merging, Merges(session, session', e)
      PROVE  /\ DOMAIN segments' = DOMAIN segments
             /\ \A i \in DOMAIN segments :
                   \/ segments'[i] = segments[i]
                   \/ ~segments[i].sealed /\ Renamed(segments[i], segments'[i])
  <2>1. /\ segments' = [i \in DOMAIN segments |-> Rewritten(segments[i], e)]
        /\ aliases' = Merged(aliases, e)
    BY <1>4 DEF Merges, segments, aliases
  <2>2. ASSUME NEW i \in DOMAIN segments
        PROVE  segments[i] \in Segment
               /\ segments'[i] = Rewritten(segments[i], e)
    BY <2>1, SegmentType DEF TypeOK, segments
  <2> QED BY <2>1, <2>2, RewrittenRenamed DEF Merging
<1>5. ASSUME NEW id \in SegmentId \ DOMAIN segments, NEW t \in Segment,
             Opens(session, session', id, t)
      PROVE  segments' = Put(segments, id, t)
  BY <1>5 DEF Opens, segments
<1>6. ASSUME NEW id \in DOMAIN segments, NEW t \in Segment,
             Revises(session, session', id, t)
      PROVE  /\ segments' = Put(segments, id, t)
             /\ ~segments[id].sealed
             /\ Revision(session, segments[id], t)
  BY <1>6 DEF Revises, segments
<1>7. CASE \E id \in SegmentId \ DOMAIN segments, t \in Segment :
              Opens(session, session', id, t)
  BY <1>2, <1>5, <1>7
<1>8. CASE \E id \in DOMAIN segments, t \in Segment :
              Revises(session, session', id, t)
  BY <1>3, <1>6, <1>8
<1>9. CASE \E e \in Merging : Merges(session, session', e)
  BY <1>4, <1>9
<1> QED
  BY <1>1, <1>7, <1>8, <1>9 DEF Effect, segments

\* A segment that a step opens is fresh and shows a canonical speaker.
LEMMA OpenedSegments ==
    ASSUME TypeOK, Effect(Merging, session, session')
    PROVE  \A i \in DOMAIN segments' \ DOMAIN segments :
              /\ Fresh(segments'[i])
              /\ segments'[i].primary_speaker_id \in Canonical(aliases)
              /\ aliases' = aliases
<1>1. ASSUME NEW id \in SegmentId \ DOMAIN segments, NEW t \in Segment,
             Opens(session, session', id, t)
      PROVE  \A i \in DOMAIN segments' \ DOMAIN segments :
                /\ Fresh(segments'[i])
                /\ segments'[i].primary_speaker_id \in Canonical(aliases)
                /\ aliases' = aliases
  BY <1>1 DEF Opens, Put, segments, aliases
<1>2. ASSUME NEW id \in DOMAIN segments, NEW t \in Segment,
             Revises(session, session', id, t)
      PROVE  DOMAIN segments' = DOMAIN segments
  BY <1>2 DEF Revises, Put, segments
<1>3. ASSUME NEW e, Merges(session, session', e)
      PROVE  DOMAIN segments' = DOMAIN segments
  BY <1>3 DEF Merges, segments
<1> QED
  BY <1>1, <1>2, <1>3 DEF Effect, segments

LEMMA SegmentsTyped ==
    ASSUME TypeOK
    PROVE  \A i \in DOMAIN segments : segments[i] \in Segment /\ i \in SegmentId
  BY SegmentType DEF TypeOK, segments

\* One lemma for every step property: a relation that holds of a segment and
\* itself and of an open segment and its revision or renaming holds across
\* every step.
LEMMA Stepwise ==
    ASSUME TypeOK, [Next]_vars
    PROVE  /\ TypeOK'
           /\ \A i \in DOMAIN segments :
                 /\ i \in DOMAIN segments'
                 /\ segments[i] \in Segment
                 /\ segments'[i] \in Segment
                 /\ \/ segments'[i] = segments[i]
                    \/ /\ ~segments[i].sealed
                       /\ \/ Revised(segments[i], segments'[i])
                          \/ Renamed(segments[i], segments'[i])
           /\ \A i \in DOMAIN segments' \ DOMAIN segments : Fresh(segments'[i])
<1>1. TypeOK' /\ Effect(Merging, session, session')
  BY StepFolds
<1>2. \A i \in DOMAIN segments' : segments'[i] \in Segment
  BY <1>1, SegmentType DEF TypeOK, segments
<1> QED
  BY <1>1, <1>2, HeldSegments, OpenedSegments, SegmentsTyped DEF Revision

-----------------------------------------------------------------------------
(* Translations.                                                           *)

LEMMA FreshEchoes == ASSUME NEW t, Fresh(t) PROVE EchoesAreCurrent(t)
  BY DEF Fresh, EchoesAreCurrent, PendingIfAccepted

LEMMA RevisedEchoes ==
    ASSUME NEW s \in Segment, NEW t \in Segment,
           Revised(s, t) \/ Renamed(s, t), EchoesAreCurrent(s)
    PROVE  EchoesAreCurrent(t)
<1>0. /\ s.content_revision \in Nat /\ t.content_revision \in Nat
      /\ s.language_revision \in Nat
      /\ s.translated_from_content_revision \in Nat \cup {None}
      /\ None \notin Nat
  BY DEF Segment, Echo, None
<1> USE DEF EchoesAreCurrent, TranslationIsCurrent, Segment
<1>1. CASE Drafted(s, t)
  <2>1. /\ t.content_revision > s.content_revision
        /\ t.status = "partial"
        /\ t.language_revision = s.language_revision
        /\ t.translation_text = s.translation_text
        /\ t.translated_from_content_revision = s.translated_from_content_revision
        /\ t.translated_from_language_revision
              = s.translated_from_language_revision
    BY <1>1 DEF Drafted
  <2> QED BY <1>0, <2>1
<1>2. CASE Finalised(s, t)
  BY <1>2 DEF Finalised, TranslationDropped, PendingIfAccepted
<1>3. CASE Relabelled(s, t)
  BY <1>3 DEF Relabelled, TranslationDropped, PendingIfAccepted
<1>4. CASE Reassigned(s, t)
  BY <1>4 DEF Reassigned
<1>5. CASE Requested(s, t)
  BY <1>5 DEF Requested
<1>6. CASE Translated(s, t)
  <2>1. /\ t.translated_from_content_revision = s.content_revision
        /\ t.translated_from_language_revision = s.language_revision
        /\ t.content_revision = s.content_revision
        /\ t.language_revision = s.language_revision
    BY <1>6 DEF Translated
  <2> QED BY <1>0, <2>1
<1>7. CASE Failed(s, t)
  BY <1>7 DEF Failed
<1>8. CASE Closed(s, t)
  BY <1>8 DEF Closed
<1>9. CASE Renamed(s, t)
  BY <1>9 DEF Renamed
<1> QED
  BY <1>1, <1>2, <1>3, <1>4, <1>5, <1>6, <1>7, <1>8, <1>9 DEF Revised

\* No order of results, revisions and failures leaves a translation, or the
\* echo of one, on a revision the segment has moved past (Section 25.5), with one
\* exception: a partial ahead of an accepted final keeps the text and the echoes
\* of the content revision before it, until the next final.
THEOREM TranslationsAreCurrent == Spec => []NoStaleTranslation
<1> DEFINE IInv == TypeOK /\ NoStaleTranslation
<1>1. Init => IInv
  BY InitType DEF Init, EmptySession, NoStaleTranslation, segments
<1>2. IInv /\ [Next]_vars => IInv'
  <2> SUFFICES ASSUME TypeOK, NoStaleTranslation, [Next]_vars
               PROVE  TypeOK' /\ NoStaleTranslation'
    OBVIOUS
  <2>1. TypeOK'
    BY Stepwise
  <2>2. ASSUME NEW i \in DOMAIN segments' PROVE EchoesAreCurrent(segments'[i])
    <3>1. CASE i \in DOMAIN segments
      <4>1. EchoesAreCurrent(segments[i])
        BY <3>1 DEF NoStaleTranslation
      <4> QED BY <3>1, <4>1, Stepwise, RevisedEchoes
    <3>2. CASE i \notin DOMAIN segments
      BY <3>2, Stepwise, FreshEchoes
    <3> QED BY <3>1, <3>2
  <2> QED BY <2>1, <2>2 DEF NoStaleTranslation
<1> QED
  BY <1>1, <1>2, PTL DEF Spec

\* A translated text appears only under echoes of the current revisions and a
\* higher translation revision (TRN-110), whatever arrived before.
THEOREM CurrentTranslationsLand == Spec => OnlyCurrentTranslationLands
<1>1. ASSUME NEW s \in Segment, NEW t \in Segment,
             t = s \/ Revised(s, t) \/ Renamed(s, t)
      PROVE  LandsCurrent(s, t)
  BY <1>1 DEF LandsCurrent, Revised, Drafted, Finalised, Relabelled, Reassigned,
              Requested, Translated, Failed, Closed, Renamed, TranslationDropped,
              Segment
<1>2. TypeOK /\ [Next]_vars =>
         [\A i \in Held : LandsCurrent(segments[i], segments'[i])]_vars
  BY <1>1, Stepwise DEF Held
<1> QED
  BY <1>2, TypeCorrect, PTL DEF Spec, OnlyCurrentTranslationLands

\* A translation that completes or fails leaves transcript, language and
\* speaker as they were (Section 17.4).
THEOREM TranslationsLeaveTranscripts == Spec => TranscriptOutlivesTranslation
<1>1. ASSUME NEW s \in Segment, NEW t \in Segment,
             t = s \/ Revised(s, t) \/ Renamed(s, t)
      PROVE  OnlyTranslationMoves(s, t)
  <2>1. CASE t = s \/ Drafted(s, t) \/ Reassigned(s, t) \/ Closed(s, t) \/ Renamed(s, t)
    <3>1. t.translation_status = s.translation_status
      BY <2>1 DEF Drafted, Reassigned, Closed, Renamed, Segment
    <3> QED BY <3>1 DEF OnlyTranslationMoves
  <2>2. CASE Finalised(s, t) \/ Relabelled(s, t) \/ Requested(s, t)
    <3>1. t.translation_status \notin {"completed", "failed"}
      BY <2>2 DEF Finalised, Relabelled, Requested, PendingIfAccepted, Segment
    <3> QED BY <3>1 DEF OnlyTranslationMoves
  <2>3. CASE Translated(s, t) \/ Failed(s, t)
    <3>1. \A f \in {"status", "text", "draft", "content_revision", "language",
                    "language_revision", "primary_speaker_id", "speaker_status"} :
             t[f] = s[f]
      BY <2>3 DEF Translated, Failed, Segment
    <3> QED BY <3>1 DEF OnlyTranslationMoves, ContentOf, LanguageOf, SpeakerOf
  <2> QED BY <1>1, <2>1, <2>2, <2>3 DEF Revised
<1>2. TypeOK /\ [Next]_vars =>
         [\A i \in Held : OnlyTranslationMoves(segments[i], segments'[i])]_vars
  BY <1>1, Stepwise DEF Held
<1> QED
  BY <1>2, TypeCorrect, PTL DEF Spec, TranscriptOutlivesTranslation

\* No translation is outstanding for a refused transcript (TRN-160): a segment
\* is created or revised with the request its own status calls for, and a
\* request that arrives later is refused unless the segment is accepted.
THEOREM PendingIsAccepted == Spec => []PendingNeedsTranscript
<1> DEFINE Waits(s) == s.translation_status = "pending" =>
                          s.status \in {"accepted", "partial"}
           IInv == TypeOK /\ PendingNeedsTranscript
<1>1. Init => IInv
  BY InitType DEF Init, EmptySession, PendingNeedsTranscript, segments
<1>2. ASSUME NEW s \in Segment, NEW t \in Segment, Waits(s),
             t = s \/ Revised(s, t) \/ Renamed(s, t)
      PROVE  Waits(t)
  BY <1>2 DEF Revised, Drafted, Finalised, Relabelled, Reassigned, Requested,
              Translated, Failed, Closed, Renamed, TranslationDropped,
              PendingIfAccepted, Segment
<1>3. ASSUME NEW t, Fresh(t) PROVE Waits(t)
  BY <1>3 DEF Fresh, PendingIfAccepted
<1>4. IInv /\ [Next]_vars => IInv'
  <2> SUFFICES ASSUME TypeOK, PendingNeedsTranscript, [Next]_vars
               PROVE  TypeOK' /\ PendingNeedsTranscript'
    OBVIOUS
  <2>1. TypeOK'
    BY Stepwise
  <2>2. ASSUME NEW i \in DOMAIN segments' PROVE Waits(segments'[i])
    <3>1. CASE i \in DOMAIN segments
      <4>1. Waits(segments[i])
        BY <3>1 DEF PendingNeedsTranscript
      <4> HIDE DEF Waits
      <4> QED BY <3>1, <4>1, Stepwise, <1>2
    <3>2. CASE i \notin DOMAIN segments
      <4> HIDE DEF Waits
      <4> QED BY <3>2, Stepwise, <1>3
    <3> QED BY <3>1, <3>2
  <2> QED BY <2>1, <2>2 DEF PendingNeedsTranscript
<1> QED
  BY <1>1, <1>4, PTL DEF Spec

\* The language on display moves only under a higher language or content
\* revision, and a move costs the segment its translation and its echoes.
THEOREM LanguagesMoveForward == Spec => LanguageMovesWithRevision
<1> DEFINE Moves(s, t) ==
             t.language # s.language =>
                /\ \/ t.language_revision > s.language_revision
                   \/ t.content_revision > s.content_revision
                /\ t.translation_text = EmptyText
                /\ t.translated_from_content_revision = None
<1>1. ASSUME NEW s \in Segment, NEW t \in Segment,
             t = s \/ Revised(s, t) \/ Renamed(s, t)
      PROVE  Moves(s, t)
  BY <1>1 DEF Revised, Drafted, Finalised, Relabelled, Reassigned, Requested,
              Translated, Failed, Closed, Renamed, TranslationDropped, Segment
<1>2. TypeOK /\ [Next]_vars =>
         [\A i \in Held : Moves(segments[i], segments'[i])]_vars
  <2> HIDE DEF Moves
  <2> QED BY <1>1, Stepwise DEF Held
<1> QED
  BY <1>2, TypeCorrect, PTL DEF Spec, LanguageMovesWithRevision

\* Late and repeated answers never take a segment back to an older text or
\* language, nor to an older translation except by a failure that erases it.
THEOREM FailuresStepBack == Spec => OnlyFailuresStepBack
<1> DEFINE Forward(s, t) ==
             /\ t.content_revision >= s.content_revision
             /\ t.language_revision >= s.language_revision
             /\ t.translation_revision < s.translation_revision =>
                   t.translation_status = "failed" /\ t.translation_text = EmptyText
<1>1. ASSUME NEW s \in Segment, NEW t \in Segment,
             t = s \/ Revised(s, t) \/ Renamed(s, t)
      PROVE  Forward(s, t)
  <2>1. /\ s.content_revision \in Nat
        /\ s.language_revision \in Nat
        /\ s.translation_revision \in Nat
        /\ t.content_revision \in Nat
        /\ t.language_revision \in Nat
        /\ t.translation_revision \in Nat
    BY DEF Segment
  <2>2. \/ t.content_revision = s.content_revision
        \/ t.content_revision > s.content_revision
    BY <1>1 DEF Revised, Drafted, Finalised, Relabelled, Reassigned,
       Requested, Translated, Failed, Closed, Renamed, TranslationDropped, Segment
  <2>3. \/ t.language_revision = s.language_revision
        \/ t.language_revision > s.language_revision
    BY <1>1 DEF Revised, Drafted, Finalised, Relabelled, Reassigned,
       Requested, Translated, Failed, Closed, Renamed, TranslationDropped, Segment
  <2>4. \/ t.translation_revision = s.translation_revision
        \/ t.translation_revision > s.translation_revision
        \/ t.translation_status = "failed" /\ t.translation_text = EmptyText
    BY <1>1 DEF Revised, Drafted, Finalised, Relabelled, Reassigned,
       Requested, Translated, Failed, Closed, Renamed, TranslationDropped, Segment
  <2> QED BY <2>1, <2>2, <2>3, <2>4
<1>2. TypeOK /\ [Next]_vars =>
         [\A i \in Held : Forward(segments[i], segments'[i])]_vars
  <2> HIDE DEF Forward
  <2> QED BY <1>1, Stepwise DEF Held
<1> QED
  BY <1>2, TypeCorrect, PTL DEF Spec, OnlyFailuresStepBack

-----------------------------------------------------------------------------
(* Speakers and seals.                                                     *)

\* A speaker change moves speaker fields only, by assign or by merge, so it
\* never costs a segment its translation (Section 25.5).
THEOREM SpeakersAreIsolated == Spec => SpeakerChangeIsolated
<1>1. ASSUME NEW s \in Segment, NEW t \in Segment,
             t = s \/ Revised(s, t) \/ Renamed(s, t)
      PROVE  OnlySpeakerMoves(s, t)
  <2>1. CASE Reassigned(s, t) \/ Renamed(s, t)
    <3>1. \A f \in DOMAIN s \ SpeakerFields : t[f] = s[f]
      BY <2>1 DEF Reassigned, Renamed, SpeakerFields, Segment
    <3> QED BY <3>1 DEF OnlySpeakerMoves
  <2>2. CASE ~(Reassigned(s, t) \/ Renamed(s, t))
    <3>1. SpeakerOf(t) = SpeakerOf(s)
      <4>1. CASE Finalised(s, t) \/ Relabelled(s, t)
        BY <4>1 DEF SpeakerOf, Finalised, Relabelled, TranslationDropped, Segment
      <4>2. CASE t = s \/ Drafted(s, t) \/ Requested(s, t) \/ Closed(s, t)
        BY <4>2 DEF SpeakerOf, Drafted, Requested, Closed, Segment
      <4>3. CASE Translated(s, t) \/ Failed(s, t)
        BY <4>3 DEF SpeakerOf, Translated, Failed, Segment
      <4> QED BY <1>1, <2>2, <4>1, <4>2, <4>3 DEF Revised
    <3> QED BY <3>1 DEF OnlySpeakerMoves
  <2> QED BY <2>1, <2>2
<1>2. TypeOK /\ [Next]_vars =>
         [\A i \in Held : OnlySpeakerMoves(segments[i], segments'[i])]_vars
  BY <1>1, Stepwise DEF Held
<1> QED
  BY <1>2, TypeCorrect, PTL DEF Spec, SpeakerChangeIsolated

\* Nothing reaches a sealed segment: no event, no merge, no second seal; and
\* no segment is ever lost.
THEOREM SealsAreFinal == Spec => SealedIsFrozen
<1>1. TypeOK /\ [Next]_vars =>
         [/\ DOMAIN segments \subseteq DOMAIN segments'
          /\ \A i \in DOMAIN segments :
                segments[i].sealed => segments'[i] = segments[i]]_vars
  BY Stepwise
<1> QED
  BY <1>1, TypeCorrect, PTL DEF Spec, SealedIsFrozen

\* A speaker revision falls only where a merge renamed the speaker, and then
\* to the speaker the alias table names.
THEOREM MergesStepBack == Spec => OnlyMergesStepBack
<1> DEFINE Forward(s, t) ==
             t.speaker_revision < s.speaker_revision =>
                /\ s.primary_speaker_id \in DOMAIN aliases'
                /\ t.primary_speaker_id = aliases'[s.primary_speaker_id]
<1>1. ASSUME NEW s \in Segment, NEW t \in Segment,
             t = s \/ Revised(s, t) \/ Renamed(s, t)
      PROVE  Forward(s, t)
  <2>1. s.speaker_revision \in Nat /\ t.speaker_revision \in Nat
    BY DEF Segment
  <2>2. \/ t.speaker_revision = s.speaker_revision
        \/ t.speaker_revision > s.speaker_revision
        \/ Renamed(s, t)
    BY <1>1 DEF Revised, Drafted, Finalised, Relabelled, Reassigned,
       Requested, Translated, Failed, Closed, TranslationDropped, Segment
  <2> QED BY <2>1, <2>2 DEF Renamed
<1>2. TypeOK /\ [Next]_vars =>
         [\A i \in Held : Forward(segments[i], segments'[i])]_vars
  <2> HIDE DEF Forward
  <2> QED BY <1>1, Stepwise DEF Held
<1> QED
  BY <1>2, TypeCorrect, PTL DEF Spec, OnlyMergesStepBack

\* Every alias was merged away and names a speaker something was merged into.
AliasesAreMerged ==
    \A a \in DOMAIN aliases :
       /\ \E m \in Merging : a \in m.from_speaker_ids
       /\ \E m \in Merging : aliases[a] = m.to_speaker_id

\* If no speaker that something is merged into is itself ever merged away, no
\* open segment ever shows a merged-away id, however assigns, finals and merges
\* interleave.  The hypothesis cannot be dropped: the run chain_merge breaks
\* the property with merges that violate it.
THEOREM FlatMergesShowNoAlias ==
    ASSUME \A m, n \in Merging : m.to_speaker_id \notin n.from_speaker_ids
    PROVE  Spec => []NoAliasOnDisplay
<1> DEFINE IInv == TypeOK /\ AliasesAreMerged /\ NoAliasOnDisplay
<1>1. Init => IInv
  BY InitType DEF Init, EmptySession, AliasesAreMerged, NoAliasOnDisplay,
                  segments, aliases
<1>2. IInv /\ [Next]_vars => IInv'
  <2> SUFFICES ASSUME TypeOK, AliasesAreMerged, NoAliasOnDisplay, [Next]_vars
               PROVE  TypeOK' /\ AliasesAreMerged' /\ NoAliasOnDisplay'
    OBVIOUS
  <2>1. TypeOK' /\ Effect(Merging, session, session')
    BY StepFolds
  <2>2. \A a \in DOMAIN aliases : aliases[a] \notin DOMAIN aliases
    BY DEF AliasesAreMerged
  <2>3. \A speaker \in Canonical(aliases) : speaker \notin DOMAIN aliases
    <3>1. /\ IsDict(aliases, SpeakerId, SpeakerId)
          /\ IsFiniteSet(DOMAIN aliases)
          /\ SpeakerId \subseteq Speaker
      BY DEF TypeOK, IsSession, Speaker, aliases
    <3> QED BY <2>2, <3>1, FlatTableIsCanonical DEF Canonical
  <2>4. CASE session'.segments = session.segments
             /\ session'.speaker_aliases = session.speaker_aliases
    BY <2>1, <2>4 DEF AliasesAreMerged, NoAliasOnDisplay, segments, aliases
  <2>5. ASSUME NEW id \in SegmentId \ DOMAIN segments, NEW t \in Segment,
               Opens(session, session', id, t)
        PROVE  AliasesAreMerged' /\ NoAliasOnDisplay'
    <3>1. /\ segments' = Put(segments, id, t)
          /\ aliases' = aliases
          /\ t.primary_speaker_id \notin DOMAIN aliases
      BY <2>3, <2>5 DEF Opens, segments, aliases
    <3> QED BY <3>1 DEF AliasesAreMerged, NoAliasOnDisplay, Put
  <2>6. ASSUME NEW id \in DOMAIN segments, NEW t \in Segment,
               Revises(session, session', id, t)
        PROVE  AliasesAreMerged' /\ NoAliasOnDisplay'
    <3>1. /\ segments' = Put(segments, id, t)
          /\ aliases' = aliases
          /\ ~segments[id].sealed
          /\ t.primary_speaker_id
                \in {segments[id].primary_speaker_id} \cup Canonical(aliases)
      BY <2>6 DEF Revises, Revision, segments, aliases
    <3>2. t.primary_speaker_id \notin DOMAIN aliases
      BY <2>3, <3>1 DEF NoAliasOnDisplay
    <3> QED BY <3>1, <3>2 DEF AliasesAreMerged, NoAliasOnDisplay, Put
  <2>7. ASSUME NEW e \in Merging, Merges(session, session', e)
        PROVE  AliasesAreMerged' /\ NoAliasOnDisplay'
    <3>1. /\ segments' = [i \in DOMAIN segments |-> Rewritten(segments[i], e)]
          /\ aliases' = Merged(aliases, e)
      BY <2>7 DEF Merges, segments, aliases
    <3>2. AliasesAreMerged'
      BY <3>1 DEF AliasesAreMerged, Merged
    <3>3. ASSUME NEW i \in DOMAIN segments, ~segments'[i].sealed
          PROVE  segments'[i].primary_speaker_id \notin DOMAIN aliases'
      <4>1. /\ segments[i] \in Segment
            /\ segments'[i] = Rewritten(segments[i], e)
            /\ DOMAIN aliases' = DOMAIN aliases \cup e.from_speaker_ids
        BY <3>1, SegmentsTyped DEF Merged
      <4>2. ~segments[i].sealed
        BY <3>3, <4>1 DEF Rewritten, Segment
      <4>3. CASE segments[i].primary_speaker_id \in e.from_speaker_ids
        <5>1. segments'[i].primary_speaker_id = e.to_speaker_id
          BY <4>1, <4>2, <4>3 DEF Rewritten, Segment
        <5>2. e.to_speaker_id \notin DOMAIN aliases \cup e.from_speaker_ids
          BY DEF AliasesAreMerged
        <5> QED BY <4>1, <5>1, <5>2
      <4>4. CASE segments[i].primary_speaker_id \notin e.from_speaker_ids
        <5>1. segments'[i] = segments[i]
          BY <4>1, <4>4 DEF Rewritten
        <5>2. segments[i].primary_speaker_id \notin DOMAIN aliases
          BY <4>2 DEF NoAliasOnDisplay
        <5> QED BY <4>1, <4>4, <5>1, <5>2
      <4> QED BY <4>3, <4>4
    <3> QED BY <3>1, <3>2, <3>3 DEF NoAliasOnDisplay
  <2> QED BY <2>1, <2>4, <2>5, <2>6, <2>7 DEF Effect, segments
<1> QED
  BY <1>1, <1>2, PTL DEF Spec

-----------------------------------------------------------------------------
(* The transcripts are a ContentLedger.                                    *)

\* How a revision of a segment looks in its ledger entry.
LEMMA RevisedEntry ==
    ASSUME NEW s \in Segment, NEW t \in Segment, ~s.sealed, Revised(s, t)
    PROVE  \/ Entry(t) = Entry(s)
           \/ /\ Entry(t).revision > Entry(s).revision
              /\ ~Entry(t).sealed
           \/ Entry(t) = [Entry(s) EXCEPT !.sealed = TRUE]
<1>1. CASE Drafted(s, t) \/ Finalised(s, t)
  <2>1. t.content_revision > s.content_revision /\ t.sealed = s.sealed
    BY <1>1 DEF Drafted, Finalised, TranslationDropped, Segment
  <2> QED BY <2>1 DEF Entry
<1>2. CASE Closed(s, t)
  <2>1. /\ t.content_revision = s.content_revision
        /\ ContentOf(t) = ContentOf(s)
        /\ t.sealed = TRUE
    BY <1>2 DEF Closed, ContentOf, Segment
  <2> DEFINE Entries == [ revision : {s.content_revision},
                          content  : {ContentOf(s)}, sealed : BOOLEAN ]
  <2>2. Entry(s) \in Entries /\ Entry(t) \in Entries /\ Entry(t).sealed
    BY <2>1 DEF Entry, Segment
  <2>3. ASSUME NEW x \in Entries, NEW y \in Entries, y.sealed
        PROVE  y = [x EXCEPT !.sealed = TRUE]
    BY <2>3
  <2> QED BY <2>2, <2>3
<1>3. CASE \/ Relabelled(s, t) \/ Reassigned(s, t) \/ Requested(s, t)
           \/ Translated(s, t) \/ Failed(s, t)
  <2>1. /\ t.content_revision = s.content_revision
        /\ ContentOf(t) = ContentOf(s)
        /\ t.sealed = s.sealed
    BY <1>3 DEF Relabelled, Reassigned, Requested, Translated, Failed,
                TranslationDropped, ContentOf, Segment
  <2> QED BY <2>1 DEF Entry
<1> QED
  BY <1>1, <1>2, <1>3 DEF Revised

LEMMA StepImplements ==
    ASSUME TypeOK, [Next]_vars
    PROVE  [Ledger!Next]_transcripts
<1>0. TypeOK' /\ Effect(Merging, session, session')
  BY StepFolds
<1>1. CASE segments' = segments
  BY <1>1 DEF transcripts
<1>2. ASSUME NEW id \in SegmentId \ DOMAIN segments, NEW t \in Segment,
             Opens(session, session', id, t)
      PROVE  Ledger!Open(id)
  <2>1. /\ DOMAIN transcripts' = DOMAIN transcripts \cup {id}
        /\ transcripts'[id] = Entry(t)
        /\ \A j \in DOMAIN transcripts \ {id} : transcripts'[j] = transcripts[j]
    BY <1>2 DEF Opens, Put, transcripts, segments
  <2>2. ~Entry(t).sealed
    BY <1>2 DEF Opens, Fresh, Entry
  <2>3. id \notin DOMAIN transcripts
    BY DEF transcripts
  <2> QED BY <2>1, <2>2, <2>3 DEF Ledger!Open, Ledger!OthersUnchanged
<1>3. ASSUME NEW id \in DOMAIN segments, NEW t \in Segment,
             Revises(session, session', id, t)
      PROVE  [Ledger!Next]_transcripts
  <2>0. /\ segments' = Put(segments, id, t)
        /\ ~segments[id].sealed
        /\ Revised(segments[id], t)
    BY <1>3 DEF Revises, Revision, segments
  <2>1. /\ DOMAIN transcripts' = DOMAIN transcripts
        /\ transcripts'[id] = Entry(t)
        /\ transcripts[id] = Entry(segments[id])
        /\ id \in DOMAIN transcripts
        /\ \A j \in DOMAIN transcripts \ {id} : transcripts'[j] = transcripts[j]
    BY <2>0 DEF Put, transcripts
  <2>2. id \in SegmentId /\ segments[id] \in Segment
    BY SegmentsTyped
  <2>3. ~transcripts[id].sealed
    BY <2>0, <2>1 DEF Entry
  <2>4. /\ transcripts = [j \in DOMAIN transcripts |-> transcripts[j]]
        /\ transcripts' = [j \in DOMAIN transcripts' |-> transcripts'[j]]
    BY DEF transcripts
  <2>5. CASE Entry(t) = Entry(segments[id])
    BY <2>1, <2>4, <2>5
  <2>6. CASE Entry(t).revision > Entry(segments[id]).revision /\ ~Entry(t).sealed
    <3>1. Ledger!Replace(id)
      BY <2>1, <2>3, <2>6 DEF Ledger!Replace, Ledger!OthersUnchanged
    <3> QED BY <2>2, <3>1 DEF Ledger!Next
  <2>7. CASE Entry(t) = [Entry(segments[id]) EXCEPT !.sealed = TRUE]
    <3>1. transcripts' = [transcripts EXCEPT ![id].sealed = TRUE]
      BY <2>1, <2>4, <2>7
    <3>2. Ledger!Close(id)
      BY <2>1, <2>3, <3>1 DEF Ledger!Close
    <3> QED BY <2>2, <3>2 DEF Ledger!Next
  <2> QED BY <2>0, <2>2, <2>5, <2>6, <2>7, RevisedEntry
<1>4. ASSUME NEW e \in Merging, Merges(session, session', e)
      PROVE  transcripts' = transcripts
  <2>1. ASSUME NEW i \in DOMAIN segments
        PROVE  Entry(Rewritten(segments[i], e)) = Entry(segments[i])
    <3>1. segments[i] \in Segment
      BY SegmentsTyped
    <3> QED BY <3>1 DEF Rewritten, Entry, ContentOf, Segment
  <2> QED BY <1>4, <2>1 DEF Merges, transcripts, segments
<1>5. ASSUME NEW id \in SegmentId \ DOMAIN segments, NEW t \in Segment,
             Opens(session, session', id, t)
      PROVE  [Ledger!Next]_transcripts
  BY <1>2, <1>5 DEF Ledger!Next
<1> QED
  BY <1>0, <1>1, <1>3, <1>4, <1>5 DEF Effect, segments

\* The reducer implements the ledger: a transcript is replaced only under a
\* strictly higher content revision, and never once it is sealed (ADR-0008
\* D12), however languages, speakers and translations interleave with it.
THEOREM ImplementsContentLedger == Spec => ImplementsLedger
<1>1. Init => Ledger!Init
  BY DEF Init, EmptySession, segments, transcripts, Ledger!Init
<1>2. TypeOK /\ [Next]_vars => [Ledger!Next]_transcripts
  BY StepImplements
<1> QED
  BY <1>1, <1>2, TypeCorrect, PTL DEF Spec, ImplementsLedger, Ledger!Spec

-----------------------------------------------------------------------------
(* The timeline: the order of the keys.                                    *)

SegmentDigits(i) == Allocate("seg-", i).digits

\* The digits of a segment's id come to its ordinal, and those of two that
\* fit their padding are equally many.
LEMMA SegmentDigitsAre ==
    ASSUME NEW i \in Nat
    PROVE  /\ Numeral(SegmentDigits(i), Radix, i)
           /\ FitsPadding(i) => Len(SegmentDigits(i)) = OrdinalPad
<1> DEFINE d == CHOOSE f : DigitsOf(f, Radix)
           s == Digits(i)
           z == IF Len(s) < OrdinalPad THEN OrdinalPad - Len(s) ELSE 0
<1>1. s = d[i]
  BY DEF Digits, DigitsOf
<1>2. Radix \in Nat \ {0, 1} /\ OrdinalPad \in Nat
  BY IdentifiersAssumption
<1>3. DigitsOf(d, Radix)
  BY <1>2, DigitsChosen
<1> HIDE DEF d
<1>4. Numeral(s, Radix, i)
  BY <1>1, <1>2, <1>3, DigitsMean
<1>5. SegmentDigits(i) = [k \in 1..z |-> 0] \o s
  BY DEF SegmentDigits, Allocate, Format, Pad, Padded
<1>6. FitsPadding(i) <=> Len(s) <= OrdinalPad
  BY DEF FitsPadding
<1>7. Len(s) \in Nat
  BY <1>4 DEF Numeral
<1> HIDE DEF s
<1>8. z \in Nat /\ (Len(s) <= OrdinalPad => z + Len(s) = OrdinalPad)
  BY <1>2, <1>7
<1> HIDE DEF z
<1>9. Numeral(SegmentDigits(i), Radix, i) /\ Len(SegmentDigits(i)) = z + Len(s)
  BY <1>2, <1>4, <1>5, <1>8, ZerosMean
<1> QED
  BY <1>6, <1>8, <1>9

\* Strings are ordered strictly and totally.
LEMMA LexIrreflexive ==
    ASSUME NEW s \in Seq(Nat) PROVE ~LexLess(s, s)
  BY DEF LexLess

LEMMA LexTransitive ==
    ASSUME NEW s \in Seq(Nat), NEW t \in Seq(Nat), NEW u \in Seq(Nat),
           LexLess(s, t), LexLess(t, u)
    PROVE  LexLess(s, u)
<1> DEFINE Smaller(a, b, k) == /\ k \in 1..Len(a) /\ k \in 1..Len(b) /\ a[k] < b[k]
                               /\ \A j \in 1..(k - 1) : a[j] = b[j]
           Shorter(a, b) == Len(a) < Len(b) /\ \A k \in 1..Len(a) : a[k] = b[k]
<1>1. /\ Len(s) \in Nat /\ Len(t) \in Nat /\ Len(u) \in Nat
      /\ DOMAIN s = 1..Len(s) /\ DOMAIN t = 1..Len(t) /\ DOMAIN u = 1..Len(u)
      /\ \A k \in 1..Len(s) : s[k] \in Nat
      /\ \A k \in 1..Len(t) : t[k] \in Nat
      /\ \A k \in 1..Len(u) : u[k] \in Nat
  OBVIOUS
<1>2. (\E k : Smaller(s, t, k)) \/ Shorter(s, t)
  BY <1>1 DEF LexLess
<1>3. (\E k : Smaller(t, u, k)) \/ Shorter(t, u)
  BY <1>1 DEF LexLess
<1>4. (\E k : Smaller(s, u, k)) \/ Shorter(s, u) => LexLess(s, u)
  BY <1>1 DEF LexLess
<1>5. ASSUME NEW k, Smaller(s, t, k), NEW l, Smaller(t, u, l) PROVE LexLess(s, u)
  <2>1. k \in Nat /\ l \in Nat
    BY <1>1, <1>5
  <2>2. CASE k <= l
    <3>1. k \in 1..Len(s) /\ k \in 1..Len(t) /\ k \in 1..Len(u)
      BY <1>1, <1>5, <2>1, <2>2
    <3>2. s[k] < t[k] /\ s[k] \in Nat /\ t[k] \in Nat /\ u[k] \in Nat
      BY <1>1, <1>5, <3>1
    <3>3. t[k] = u[k] \/ t[k] < u[k]
      <4>1. CASE k = l
        BY <1>5, <4>1
      <4>2. CASE k # l
        <5>1. k \in 1..(l - 1)
          BY <2>1, <2>2, <3>1, <4>2
        <5> QED BY <1>5, <5>1
      <4> QED BY <4>1, <4>2
    <3>4. s[k] < u[k]
      BY <3>2, <3>3
    <3>5. ASSUME NEW j \in 1..(k - 1) PROVE s[j] = u[j]
      <4>1. j \in 1..(l - 1)
        BY <2>1, <2>2
      <4> QED BY <1>5, <4>1
    <3>6. Smaller(s, u, k)
      BY <3>1, <3>4, <3>5
    <3> QED BY <1>4, <3>6
  <2>3. CASE l < k
    <3>1. l \in 1..Len(t) /\ l \in 1..Len(u) /\ l \in 1..(k - 1) /\ l \in 1..Len(s)
      <4>1. l \in 1..Len(t) /\ l \in 1..Len(u) /\ k \in 1..Len(s)
        BY <1>5
      <4> QED BY <1>1, <2>1, <2>3, <4>1
    <3>2. s[l] < u[l]
      <4>1. s[l] = t[l] /\ t[l] < u[l]
        BY <1>5, <3>1
      <4> QED BY <4>1
    <3>3. ASSUME NEW j \in 1..(l - 1) PROVE s[j] = u[j]
      <4>1. j \in 1..(k - 1)
        BY <2>1, <2>3
      <4> QED BY <1>5, <4>1
    <3>4. Smaller(s, u, l)
      BY <3>1, <3>2, <3>3
    <3> QED BY <1>4, <3>4
  <2> QED BY <2>1, <2>2, <2>3
<1>6. ASSUME NEW k, Smaller(s, t, k), Shorter(t, u) PROVE LexLess(s, u)
  <2>1. Smaller(s, u, k)
    BY <1>1, <1>6
  <2> QED BY <1>4, <2>1
<1>7. ASSUME Shorter(s, t), NEW k, Smaller(t, u, k) PROVE LexLess(s, u)
  <2>3. k \in Nat
    BY <1>1, <1>7
  <2>1. CASE k <= Len(s)
    <3>1. Smaller(s, u, k)
      BY <1>1, <1>7, <2>1
    <3> QED BY <1>4, <3>1
  <2>2. CASE Len(s) < k
    <3>1. k \in 1..Len(u) /\ Len(s) < Len(u)
      <4>1. k \in 1..Len(u)
        BY <1>7
      <4> QED BY <1>1, <2>2, <4>1
    <3>2. ASSUME NEW j \in 1..Len(s) PROVE s[j] = u[j]
      <4>1. s[j] = t[j]
        BY <1>7
      <4>2. j \in 1..(k - 1)
        BY <1>1, <2>2, <2>3
      <4> QED BY <1>7, <4>1, <4>2
    <3>3. Shorter(s, u)
      BY <3>1, <3>2
    <3> QED BY <1>4, <3>3
  <2> QED BY <1>1, <2>1, <2>2, <2>3
<1>8. ASSUME Shorter(s, t), Shorter(t, u) PROVE LexLess(s, u)
  <2>1. Shorter(s, u)
    BY <1>1, <1>8
  <2> QED BY <1>4, <2>1
<1> HIDE DEF Smaller, Shorter
<1> QED
  BY <1>2, <1>3, <1>5, <1>6, <1>7, <1>8

LEMMA LexTotal ==
    ASSUME NEW s \in Seq(Nat), NEW t \in Seq(Nat), ~LexLess(s, t), ~LexLess(t, s)
    PROVE  s = t
<1> DEFINE Apart == {k \in 1..Len(s) \cap 1..Len(t) : s[k] # t[k]}
<1>1. /\ Len(s) \in Nat /\ Len(t) \in Nat
      /\ DOMAIN s = 1..Len(s) /\ DOMAIN t = 1..Len(t)
      /\ \A k \in 1..Len(s) : s[k] \in Nat
      /\ \A k \in 1..Len(t) : t[k] \in Nat
  OBVIOUS
<1>2. Apart = {}
  <2> SUFFICES ASSUME Apart # {} PROVE FALSE
    OBVIOUS
  <2>1. PICK k \in Apart : \A j \in Apart : k <= j
    <3>1. Apart \subseteq Nat
      OBVIOUS
    <3> HIDE DEF Apart
    <3> QED BY <3>1, Least
  <2>2. k \in 1..Len(s) /\ k \in 1..Len(t) /\ s[k] # t[k]
    BY <1>1
  <2>3. \A j \in 1..(k - 1) : s[j] = t[j]
    <3> SUFFICES ASSUME NEW j \in 1..(k - 1), s[j] # t[j] PROVE FALSE
      OBVIOUS
    <3>1. j \in 1..Len(s) /\ j \in 1..Len(t) /\ ~(k <= j)
      BY <1>1, <2>2
    <3> QED BY <2>1, <3>1
  <2>4. s[k] < t[k] \/ t[k] < s[k]
    BY <1>1, <2>2
  <2>5. \A j \in 1..(k - 1) : t[j] = s[j]
    BY <2>3
  <2>6. k \in DOMAIN s \cap DOMAIN t /\ k \in DOMAIN t \cap DOMAIN s
    BY <1>1, <2>2
  <2>7. ~(s[k] < t[k])
    BY <2>3, <2>6 DEF LexLess
  <2>8. ~(t[k] < s[k])
    BY <2>5, <2>6 DEF LexLess
  <2> QED BY <2>4, <2>7, <2>8
<1>3. \A k \in 1..Len(s) \cap 1..Len(t) : s[k] = t[k]
  BY <1>2
<1>4. Len(s) = Len(t)
  <2>1. ~(Len(s) < Len(t))
    <3> SUFFICES ASSUME Len(s) < Len(t) PROVE FALSE
      OBVIOUS
    <3>1. \A k \in DOMAIN s : s[k] = t[k]
      BY <1>1, <1>3
    <3> QED BY <3>1 DEF LexLess
  <2>2. ~(Len(t) < Len(s))
    <3> SUFFICES ASSUME Len(t) < Len(s) PROVE FALSE
      OBVIOUS
    <3>1. \A k \in DOMAIN t : t[k] = s[k]
      BY <1>1, <1>3
    <3> QED BY <3>1 DEF LexLess
  <2>3. Len(s) \in Nat /\ Len(t) \in Nat
    OBVIOUS
  <2> QED BY <2>1, <2>2, <2>3
<1>5. \A k \in 1..Len(s) : s[k] = t[k]
  BY <1>3, <1>4
<1> QED
  BY <1>1, <1>4, <1>5

\* The sort key orders the segments strictly and totally: no two ids are the
\* same string.
Earlier(p, ids) == {a \in ids \X ids : Precedes(p, a[1], a[2])}

LEMMA PrecedesOrders ==
    ASSUME NEW p, NEW ids, ids \subseteq Nat,
           \A i \in ids : p.segments[i].start_sample \in Nat
    PROVE  Orders(Earlier(p, ids), ids)
<1> DEFINE Start(i) == p.segments[i].start_sample
<1>1. \A i \in ids : SegmentDigits(i) \in Seq(Nat)
  BY SegmentDigitsAre DEF Numeral
<1>2. ASSUME NEW i \in ids, NEW j \in ids, SegmentDigits(i) = SegmentDigits(j)
      PROVE  i = j
  <2>1. /\ Numeral(SegmentDigits(i), Radix, i) /\ Numeral(SegmentDigits(i), Radix, j)
        /\ Radix \in Nat \ {0, 1}
    BY <1>2, SegmentDigitsAre, IdentifiersAssumption
  <2> QED BY <2>1, NumeralUnique
<1>3. ASSUME NEW i \in ids, NEW j \in ids
      PROVE  <<i, j>> \in Earlier(p, ids)
                <=> \/ Start(i) < Start(j)
                    \/ /\ Start(i) = Start(j)
                       /\ LexLess(SegmentDigits(i), SegmentDigits(j))
  BY DEF Earlier, Precedes, SegmentDigits
<1>4. \A i \in ids : Start(i) \in Nat
  OBVIOUS
<1> HIDE DEF Start
<1>5. ASSUME NEW i \in ids PROVE <<i, i>> \notin Earlier(p, ids)
  BY <1>1, <1>3, <1>4, LexIrreflexive
<1>6. ASSUME NEW i \in ids, NEW j \in ids, NEW k \in ids,
             <<i, j>> \in Earlier(p, ids), <<j, k>> \in Earlier(p, ids)
      PROVE  <<i, k>> \in Earlier(p, ids)
  <2>1. \/ Start(i) < Start(j)
        \/ Start(i) = Start(j) /\ LexLess(SegmentDigits(i), SegmentDigits(j))
    BY <1>3, <1>6
  <2>2. \/ Start(j) < Start(k)
        \/ Start(j) = Start(k) /\ LexLess(SegmentDigits(j), SegmentDigits(k))
    BY <1>3, <1>6
  <2>3. LexLess(SegmentDigits(i), SegmentDigits(j)) /\ LexLess(SegmentDigits(j), SegmentDigits(k))
          => LexLess(SegmentDigits(i), SegmentDigits(k))
    BY <1>1, LexTransitive
  <2>4. Start(i) \in Nat /\ Start(j) \in Nat /\ Start(k) \in Nat
    BY <1>4
  <2>5. \/ Start(i) < Start(k)
        \/ Start(i) = Start(k) /\ LexLess(SegmentDigits(i), SegmentDigits(k))
    BY <2>1, <2>2, <2>3, <2>4
  <2> QED BY <1>3, <2>5
<1>7. ASSUME NEW i \in ids, NEW j \in ids
      PROVE  i = j \/ <<i, j>> \in Earlier(p, ids) \/ <<j, i>> \in Earlier(p, ids)
  <2>1. Start(i) < Start(j) \/ Start(j) < Start(i) \/ Start(i) = Start(j)
    BY <1>4
  <2>2. \/ LexLess(SegmentDigits(i), SegmentDigits(j))
        \/ LexLess(SegmentDigits(j), SegmentDigits(i))
        \/ SegmentDigits(i) = SegmentDigits(j)
    BY <1>1, LexTotal
  <2>3. \/ Start(i) < Start(j)
        \/ Start(i) = Start(j) /\ LexLess(SegmentDigits(i), SegmentDigits(j))
        \/ Start(j) < Start(i)
        \/ Start(j) = Start(i) /\ LexLess(SegmentDigits(j), SegmentDigits(i))
        \/ SegmentDigits(i) = SegmentDigits(j)
    BY <2>1, <2>2
  <2> QED BY <1>2, <1>3, <2>3
<1> QED
  BY <1>5, <1>6, <1>7 DEF Orders

\* t shows each of these segments once, in the order of the keys.
SortedBy(t, p, ids) ==
    /\ t \in [1..Cardinality(ids) -> ids]
    /\ ToSet(t) = ids
    /\ \A m, n \in DOMAIN t : m < n => Precedes(p, t[m], t[n])

LEMMA TimelineSorted ==
    ASSUME NEW p, NEW ids, ids \subseteq Nat, IsFiniteSet(ids),
           \A i \in ids : p.segments[i].start_sample \in Nat
    PROVE  SortedBy(InTimelineOrder(p, ids), p, ids)
<1>1. PICK t : Lists(t, ids, Earlier(p, ids))
  BY PrecedesOrders, ListExists
<1>2. SortedBy(t, p, ids)
  <2>1. t \in [1..Cardinality(ids) -> ids] /\ DOMAIN t = 1..Cardinality(ids)
    BY <1>1 DEF Lists
  <2>2. ToSet(t) = ids
    BY <1>1, <2>1 DEF Lists, ToSet
  <2>3. \A m, n \in DOMAIN t : m < n => Precedes(p, t[m], t[n])
    BY <1>1, <2>1 DEF Lists, Earlier
  <2> QED BY <2>1, <2>2, <2>3 DEF SortedBy
<1> QED
  BY <1>2 DEF SortedBy, InTimelineOrder

LEMMA SortedOnce ==
    ASSUME NEW p, NEW ids, ids \subseteq Nat, IsFiniteSet(ids),
           \A i \in ids : p.segments[i].start_sample \in Nat,
           NEW t, NEW u, SortedBy(t, p, ids), SortedBy(u, p, ids)
    PROVE  t = u
<1>1. ASSUME NEW l, SortedBy(l, p, ids) PROVE Lists(l, ids, Earlier(p, ids))
  <2>1. l \in [1..Cardinality(ids) -> ids] /\ DOMAIN l = 1..Cardinality(ids)
    BY <1>1 DEF SortedBy
  <2>2. \A x \in ids : \E k \in 1..Cardinality(ids) : l[k] = x
    BY <1>1, <2>1 DEF SortedBy, ToSet
  <2>3. \A j, k \in 1..Cardinality(ids) : j < k => <<l[j], l[k]>> \in Earlier(p, ids)
    BY <1>1, <2>1 DEF SortedBy, Earlier
  <2> QED BY <2>1, <2>2, <2>3 DEF Lists
<1> QED
  <2> DEFINE R == Earlier(p, ids)
  <2>1. Orders(R, ids) /\ Lists(t, ids, R) /\ Lists(u, ids, R) /\ ids \in SUBSET ids
    BY <1>1, PrecedesOrders
  <2> HIDE DEF R
  <2> QED BY <2>1, ListsAgree

\* A segment stands before another on the timeline if its key is the smaller.
LEMMA PlacesByKey ==
    ASSUME NEW p, NEW ids, ids \subseteq Nat, IsFiniteSet(ids),
           \A i \in ids : p.segments[i].start_sample \in Nat,
           NEW t, SortedBy(t, p, ids), NEW i \in ids, NEW j \in ids
    PROVE  Place(t, i) < Place(t, j) <=> Precedes(p, i, j)
<1>1. /\ DOMAIN t = 1..Cardinality(ids) /\ Cardinality(ids) \in Nat
      /\ \A k \in ids : \E n \in DOMAIN t : t[n] = k
  BY FS_CardinalityType DEF SortedBy, ToSet
<1>2. ASSUME NEW k \in ids PROVE Place(t, k) \in DOMAIN t /\ t[Place(t, k)] = k
  BY <1>1 DEF Place
<1>3. ASSUME NEW k \in ids, NEW l \in ids, Place(t, k) < Place(t, l)
      PROVE  Precedes(p, k, l)
  BY <1>2, <1>3 DEF SortedBy
<1>4. ASSUME Precedes(p, i, j) PROVE Place(t, i) < Place(t, j)
  <2>1. <<i, j>> \in Earlier(p, ids) /\ <<i, i>> \notin Earlier(p, ids)
    BY <1>4, PrecedesOrders DEF Earlier, Orders
  <2>2. <<j, i>> \notin Earlier(p, ids)
    BY <2>1, PrecedesOrders DEF Orders
  <2>3. ~Precedes(p, j, i) /\ i # j
    BY <2>1, <2>2 DEF Earlier
  <2>4. ~(Place(t, j) < Place(t, i)) /\ Place(t, i) # Place(t, j)
    BY <1>2, <1>3, <2>3
  <2>5. Place(t, i) \in Nat /\ Place(t, j) \in Nat
    <3>1. DOMAIN t \subseteq Nat
      BY <1>1
    <3> QED BY <1>2, <3>1
  <2> QED BY <2>4, <2>5
<1> QED
  BY <1>3, <1>4

-----------------------------------------------------------------------------
(* The timeline of every session.                                          *)

FiniteSegments == IsFiniteSet(DOMAIN segments)

LEMMA SegmentsStayFinite ==
    ASSUME TypeOK, FiniteSegments, [Next]_vars
    PROVE  FiniteSegments'
<1>1. Effect(Merging, session, session')
  BY StepFolds
<1>2. ASSUME NEW id \in SegmentId, NEW t, segments' = Put(segments, id, t)
      PROVE  FiniteSegments'
  <2>1. DOMAIN segments' = DOMAIN segments \cup {id}
    BY <1>2 DEF Put
  <2> QED BY <2>1, FS_AddElement DEF FiniteSegments
<1>3. ASSUME NEW e, Merges(session, session', e) PROVE FiniteSegments'
  BY <1>3 DEF Merges, segments, FiniteSegments
<1>4. CASE segments' = segments
  BY <1>4 DEF FiniteSegments
<1>5. DOMAIN segments \subseteq SegmentId
  BY SegmentsTyped
<1> QED
  BY <1>1, <1>2, <1>3, <1>4, <1>5 DEF Effect, Opens, Revises, segments

LEMMA SegmentsFinite == Spec => []FiniteSegments
<1>1. Init => FiniteSegments
  BY FS_EmptySet DEF Init, EmptySession, segments, FiniteSegments
<1>2. TypeOK /\ FiniteSegments /\ [Next]_vars => FiniteSegments'
  BY SegmentsStayFinite
<1> QED
  BY <1>1, <1>2, TypeCorrect, PTL DEF Spec

LEMMA StartsAre ==
    ASSUME TypeOK
    PROVE  /\ DOMAIN segments \subseteq Nat
           /\ \A i \in DOMAIN segments : session.segments[i].start_sample \in Nat
  BY SegmentsTyped, ReducerAssumption DEF Segment, segments

\* The timeline is "total and reproducible" (ordered_segments): it shows every
\* segment once, of any two the one with the smaller key first, and nothing
\* else does.
TimelineIsTotal ==
    /\ SortedBy(OrderedSegments(session), session, DOMAIN segments)
    /\ \A t : SortedBy(t, session, DOMAIN segments) => t = OrderedSegments(session)

LEMMA TypeTimeline ==
    ASSUME TypeOK, FiniteSegments
    PROVE  TimelineIsTotal
<1>1. SortedBy(OrderedSegments(session), session, DOMAIN segments)
  BY StartsAre, TimelineSorted DEF OrderedSegments, FiniteSegments, segments
<1> QED
  BY <1>1, StartsAre, SortedOnce DEF TimelineIsTotal, FiniteSegments

THEOREM TimelinesAreTotal == Spec => []TimelineIsTotal
  BY TypeTimeline, TypeCorrect, SegmentsFinite, PTL

\* Whatever revisions arrive after two segments are sealed, they do not change
\* places (ordered_segments, seal).
THEOREM SealedSegmentsStand == Spec => SealedOrderStands
<1> DEFINE Stand ==
      LET before == OrderedSegments(session)
          after == OrderedSegments(session')
      IN  \A i, j \in DOMAIN segments :
             i < j /\ segments[i].sealed /\ segments[j].sealed =>
                (Place(before, i) < Place(before, j)
                    <=> Place(after, i) < Place(after, j))
<1>1. ASSUME TypeOK, FiniteSegments, [Next]_vars PROVE Stand
  <2> SUFFICES ASSUME NEW i \in DOMAIN segments, NEW j \in DOMAIN segments,
                      segments[i].sealed, segments[j].sealed
               PROVE  Place(OrderedSegments(session), i) < Place(OrderedSegments(session), j)
                         <=> Place(OrderedSegments(session'), i)
                               < Place(OrderedSegments(session'), j)
    OBVIOUS
  <2>1. /\ TypeOK' /\ FiniteSegments'
        /\ i \in DOMAIN segments' /\ segments'[i] = segments[i]
        /\ j \in DOMAIN segments' /\ segments'[j] = segments[j]
    BY <1>1, Stepwise, SegmentsStayFinite
  <2>2. Place(OrderedSegments(session), i) < Place(OrderedSegments(session), j)
          <=> Precedes(session, i, j)
    BY <1>1, TypeTimeline, StartsAre, PlacesByKey DEF TimelineIsTotal, FiniteSegments
  <2>3. Place(OrderedSegments(session'), i) < Place(OrderedSegments(session'), j)
          <=> Precedes(session', i, j)
    <3>1. PICK q : q = session'
      OBVIOUS
    <3> DEFINE ids == DOMAIN q.segments
    <3>2. ids \subseteq SegmentId /\ \A k \in ids : q.segments[k] \in Segment
      BY <2>1, <3>1, SegmentType DEF TypeOK, segments
    <3>3. /\ ids \subseteq Nat /\ IsFiniteSet(ids)
          /\ \A k \in ids : q.segments[k].start_sample \in Nat
      BY <2>1, <3>1, <3>2, ReducerAssumption DEF Segment, FiniteSegments, segments
    <3>4. i \in ids /\ j \in ids
      BY <2>1, <3>1 DEF segments
    <3>5. OrderedSegments(q) = InTimelineOrder(q, ids)
      BY DEF OrderedSegments
    <3> HIDE DEF ids
    <3>6. SortedBy(OrderedSegments(q), q, ids)
      BY <3>3, <3>5, TimelineSorted
    <3>7. Place(OrderedSegments(q), i) < Place(OrderedSegments(q), j) <=> Precedes(q, i, j)
      BY <3>3, <3>4, <3>6, PlacesByKey
    <3> QED BY <3>1, <3>7
  <2>4. Precedes(session, i, j) <=> Precedes(session', i, j)
    BY <2>1 DEF Precedes, segments
  <2> QED BY <2>2, <2>3, <2>4
<1>2. TypeOK /\ FiniteSegments /\ [Next]_vars => [Stand]_vars
  BY <1>1
<1> QED
  BY <1>2, TypeCorrect, SegmentsFinite, PTL DEF Spec, SealedOrderStands

\* The compacted history shows segments that start together in the order in
\* which they were allocated, as far as their ordinals fit the padding.
THEOREM TiesAreAllocationOrder == Spec => []TiesInAllocationOrder
<1>1. ASSUME TypeOK, FiniteSegments PROVE TiesInAllocationOrder
  <2> DEFINE ids == {i \in DOMAIN segments : segments[i].status # "rejected"}
             history == CompactableSegments(session)
  <2>1. /\ ids \subseteq Nat /\ IsFiniteSet(ids)
        /\ \A i \in ids : session.segments[i].start_sample \in Nat
    BY <1>1, StartsAre, FS_Subset DEF FiniteSegments
  <2>2. SortedBy(history, session, ids)
    <3>1. history = InTimelineOrder(session, ids)
      BY DEF CompactableSegments, segments
    <3> HIDE DEF ids, history
    <3> QED BY <2>1, <3>1, TimelineSorted
  <2> HIDE DEF ids, history
  <2> SUFFICES ASSUME NEW m \in DOMAIN history, NEW n \in DOMAIN history, m < n,
                      segments[history[m]].start_sample = segments[history[n]].start_sample,
                      FitsPadding(history[m]), FitsPadding(history[n])
               PROVE  history[m] < history[n]
    BY DEF TiesInAllocationOrder, history
  <2> DEFINE i == history[m]
             j == history[n]
             s == SegmentDigits(i)
             t == SegmentDigits(j)
  <2>3. Precedes(session, i, j) /\ i \in ids /\ j \in ids
    BY <2>2 DEF SortedBy
  <2>4. session.segments[i].start_sample \in Nat /\ i \in Nat /\ j \in Nat
    BY <2>1, <2>3
  <2>5. LexLess(s, t)
    BY <2>1, <2>3, <2>4 DEF Precedes, SegmentDigits, segments
  <2>6. /\ Numeral(s, Radix, i) /\ Numeral(t, Radix, j)
        /\ Len(s) = OrdinalPad /\ Len(t) = OrdinalPad
    BY <2>4, SegmentDigitsAre
  <2> HIDE DEF i, j, s, t
  <2>7. /\ DOMAIN s = 1..Len(s) /\ DOMAIN t = 1..Len(s)
        /\ OrdinalPad \in Nat /\ Radix \in Nat \ {0, 1}
    BY <2>6, IdentifiersAssumption DEF Numeral
  <2>8. PICK k \in 1..Len(s) : s[k] < t[k] /\ \A l \in 1..(k - 1) : s[l] = t[l]
    BY <2>5, <2>6, <2>7 DEF LexLess
  <2>9. i < j
    BY <2>6, <2>7, <2>8, NumeralOrder
  <2> QED BY <2>9 DEF i, j
<1>2. TypeOK /\ FiniteSegments => TiesInAllocationOrder
  BY <1>1
<1> QED
  BY <1>2, TypeCorrect, SegmentsFinite, PTL

=============================================================================
