----------------------------- MODULE Projection -----------------------------
(***************************************************************************)
(* One SessionProjection as its callers drive it: any event the schema     *)
(* admits, in any order, lost, repeated under its own event_id or reissued *)
(* under a new one, interleaved with the orchestrator's seals.             *)
(*                                                                         *)
(* An event_id is used up by the first event that carries it, so EventId   *)
(* bounds how many events a behaviour folds; no other bound is needed.     *)
(* Ids are only compared for equality: which unused one an event gets      *)
(* makes no difference, and FreshIds offers one.                           *)
(***************************************************************************)
EXTENDS Reducer

CONSTANT Events     \* the events that may arrive

ASSUME EventsAssumption == Events \subseteq Event

VARIABLES session,  \* the SessionProjection object
          outcome   \* the reason of the last result returned, "none" at first

vars == <<session, outcome>>

segments == session.segments
aliases == session.speaker_aliases

Init ==
    /\ session = EmptySession
    /\ outcome = "none"

\* new_event_id never returns an id that was used before.
FreshIds ==
    LET unused == EventId \ session.seen_event_ids
    IN  IF unused = {} THEN {} ELSE {CHOOSE eventId \in unused : TRUE}

\* A new event, or a repetition of one that was seen.
ArrivingIds == session.seen_event_ids \cup FreshIds

\* The caller hands one event to apply and gets its result back.
Receive(eventId, e) ==
    LET result == Apply(session, eventId, e)
    IN  /\ session' = result.session
        /\ outcome' = result.reason

TranscriptPartial(eventId, e) ==
    e.event_type = "transcript.partial" /\ Receive(eventId, e)

TranscriptFinal(eventId, e) ==
    e.event_type = "transcript.final" /\ Receive(eventId, e)

TranscriptRevised(eventId, e) ==
    e.event_type = "transcript.revised" /\ Receive(eventId, e)

LanguageUpdated(eventId, e) ==
    e.event_type = "language.updated" /\ Receive(eventId, e)

SpeakerAssigned(eventId, e) ==
    /\ e.event_type = "speaker.updated" /\ e.operation # "merge"
    /\ Receive(eventId, e)

SpeakerMerged(eventId, e) ==
    /\ e.event_type = "speaker.updated" /\ e.operation = "merge"
    /\ Receive(eventId, e)

TranslationStarted(eventId, e) ==
    e.event_type = "translation.started" /\ Receive(eventId, e)

TranslationFinal(eventId, e) ==
    e.event_type = "translation.final" /\ Receive(eventId, e)

TranslationFailed(eventId, e) ==
    e.event_type = "translation.failed" /\ Receive(eventId, e)

StatelessEvent(eventId, e) ==
    e.event_type = "other" /\ Receive(eventId, e)

\* The orchestrator alone decides when; the method accepts any moment.
SealSegment(id) ==
    LET result == Seal(session, id)
    IN  /\ session' = result.session
        /\ outcome' = result.reason

Next ==
    \/ \E eventId \in ArrivingIds, e \in Events :
          \/ TranscriptPartial(eventId, e)
          \/ TranscriptFinal(eventId, e)
          \/ TranscriptRevised(eventId, e)
          \/ LanguageUpdated(eventId, e)
          \/ SpeakerAssigned(eventId, e)
          \/ SpeakerMerged(eventId, e)
          \/ TranslationStarted(eventId, e)
          \/ TranslationFinal(eventId, e)
          \/ TranslationFailed(eventId, e)
          \/ StatelessEvent(eventId, e)
    \/ \E id \in SegmentId : SealSegment(id)

Spec == Init /\ [][Next]_vars

-----------------------------------------------------------------------------
(* Invariants.                                                             *)

\* The types of the four fields of SessionProjection, and the finiteness of
\* the alias table on which canonical_speaker's loop relies to end.
TypeOK ==
    /\ IsSession(session)
    /\ outcome \in Outcome \cup {"none"}

\* Whatever order results, revisions and failures arrive in, an echo that is
\* kept names the segment's current language revision and a content revision
\* it has had; unless a later partial is on display it names the current one,
\* and a completed translation is one translation_is_current vouches for.  A
\* translation text is never kept without its echoes.  (_apply_final and
\* _apply_language clear the echoes, "so nothing downstream can mistake the
\* stale text for current".)
EchoesAreCurrent(s) ==
    /\ s.translated_from_content_revision = None
          <=> s.translated_from_language_revision = None
    /\ s.translated_from_content_revision # None =>
          /\ s.translated_from_language_revision = s.language_revision
          /\ s.translated_from_content_revision <= s.content_revision
          /\ s.status # "partial" =>
                s.translated_from_content_revision = s.content_revision
    /\ s.translation_status = "completed" /\ s.status # "partial" =>
          TranslationIsCurrent(s)
    /\ s.translation_text # EmptyText =>
          s.translated_from_content_revision # None

NoStaleTranslation == \A i \in DOMAIN segments : EchoesAreCurrent(segments[i])

\* No translation is outstanding for a transcript that was refused: whatever
\* order revisions and requests arrive in, only an accepted final, or a partial
\* that has taken its place since, waits for one (TRN-160).
PendingNeedsTranscript ==
    \A i \in DOMAIN segments :
        segments[i].translation_status = "pending" =>
            segments[i].status \in {"accepted", "partial"}

\* After merges, an open segment shows canonical speakers only, never an id
\* that was merged away, however assigns and merges interleave.
NoAliasOnDisplay ==
    \A i \in DOMAIN segments :
        ~segments[i].sealed =>
            segments[i].primary_speaker_id \notin DOMAIN aliases

-----------------------------------------------------------------------------
(* Action properties.  Held(i) are the segments a step finds and leaves.   *)

Held == DOMAIN segments \cap DOMAIN segments'

ContentOf(s) == <<s.status, s.text, s.draft>>
LanguageOf(s) == s.language
SpeakerOf(s) == <<s.primary_speaker_id, s.speaker_status>>

\* Content is never last-write-wins (ADR-0008 D12): seen through its
\* transcripts the session is a ContentLedger.  The content of a segment
\* changes only under a strictly higher content revision and never once the
\* segment is sealed, whatever languages, speakers and translations do.
Entry(s) == [ revision |-> s.content_revision,
              content  |-> ContentOf(s),
              sealed   |-> s.sealed ]

transcripts == [i \in DOMAIN segments |-> Entry(segments[i])]

Ledger == INSTANCE ContentLedger WITH ledger <- transcripts

ImplementsLedger == Ledger!Spec

\* The language a segment shows moves with a higher language revision or with
\* a higher content revision, and then drops any translation of the old one.
LanguageMovesWithRevision ==
    [][\A i \in Held :
          LET s == segments[i]
              t == segments'[i]
          IN  t.language # s.language =>
                 /\ \/ t.language_revision > s.language_revision
                    \/ t.content_revision > s.content_revision
                 /\ t.translation_text = EmptyText
                 /\ t.translated_from_content_revision = None]_vars

\* Late, repeated and retried answers never take the segment a reader sees
\* back to an older revision of its text or language, nor to an older
\* translation, but for one case: a failure report may take back the revision
\* of a translation, whose text it then erases.
OnlyFailuresStepBack ==
    [][\A i \in Held :
          LET s == segments[i]
              t == segments'[i]
          IN  /\ t.content_revision >= s.content_revision
              /\ t.language_revision >= s.language_revision
              /\ t.translation_revision < s.translation_revision =>
                    t.translation_status = "failed" /\ t.translation_text = EmptyText]_vars

\* A speaker revision falls only by a merge that moved the segment's speaker
\* to the one its alias names (_apply_speaker_merge compares no revision).
OnlyMergesStepBack ==
    [][\A i \in Held :
          LET s == segments[i]
              t == segments'[i]
          IN  t.speaker_revision < s.speaker_revision =>
                 /\ s.primary_speaker_id \in DOMAIN aliases'
                 /\ t.primary_speaker_id = aliases'[s.primary_speaker_id]]_vars

\* An event behind the current translation revision is diagnostic only: no
\* step takes a segment's translation revision back.
TranslationRevisionNeverFalls ==
    [][\A i \in Held : segments'[i].translation_revision
                          >= segments[i].translation_revision]_vars

\* Nothing changes a sealed segment, not even a merge that rewrites every
\* other view of the speaker, and no segment disappears.
SealedIsFrozen ==
    [][/\ DOMAIN segments \subseteq DOMAIN segments'
       /\ \A i \in DOMAIN segments :
             segments[i].sealed => segments'[i] = segments[i]]_vars

\* Section 25.5: a speaker change, by assign or by merge, moves the speaker
\* fields of a segment and nothing else, so it never drops a translation.
SpeakerFields == {"primary_speaker_id", "speaker_status", "speaker_revision"}

OnlySpeakerMoves(s, t) ==
    SpeakerOf(t) # SpeakerOf(s) =>
       \A f \in DOMAIN s \ SpeakerFields : t[f] = s[f]

SpeakerChangeIsolated ==
    [][\A i \in Held : OnlySpeakerMoves(segments[i], segments'[i])]_vars

\* Section 17.4: a translation that starts, completes or fails moves the
\* translation fields only.  A step that ends with a failure or a completion
\* it did not begin with leaves transcript, language and speaker alone.
OnlyTranslationMoves(s, t) ==
    (/\ t.translation_status \in {"completed", "failed"}
     /\ t.translation_status # s.translation_status)
    => /\ ContentOf(t) = ContentOf(s)
       /\ t.content_revision = s.content_revision
       /\ LanguageOf(t) = LanguageOf(s)
       /\ t.language_revision = s.language_revision
       /\ SpeakerOf(t) = SpeakerOf(s)

TranscriptOutlivesTranslation ==
    [][\A i \in Held : OnlyTranslationMoves(segments[i], segments'[i])]_vars

\* A translated text reaches the timeline only by a result whose two echoes
\* match the revisions the segment had when it arrived (TRN-110).
LandsCurrent(s, t) ==
    (/\ t.translation_text # s.translation_text
     /\ t.translation_text # EmptyText)
    => /\ t.translated_from_content_revision = s.content_revision
       /\ t.translated_from_language_revision = s.language_revision
       /\ t.translation_revision > s.translation_revision

OnlyCurrentTranslationLands ==
    [][\A i \in Held : LandsCurrent(segments[i], segments'[i])]_vars

=============================================================================
