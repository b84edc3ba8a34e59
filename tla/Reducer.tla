------------------------------ MODULE Reducer ------------------------------
(***************************************************************************)
(* The shared projection reducer, protocol/projection.py.                  *)
(*                                                                         *)
(* A session is the record of one SessionProjection object.  Every handler *)
(* `_apply_x(event)' is an operator from a session and an event to the     *)
(* session it leaves behind and the reason it returns: the code's handlers *)
(* return values and never raise, so the whole reducer is a function.      *)
(*                                                                         *)
(* Abstraction of the data.  A member of Text stands for one text payload  *)
(* (the pair stable_text, unstable_text is one value, `draft'), a member   *)
(* of Language for one pair (language_id, language_status).  The fields    *)
(* the reducer copies and never reads again (utterance_id, end_sample,     *)
(* speaker_candidates, overlap, lineage, source and target language) are   *)
(* left out.                                                               *)
(***************************************************************************)
EXTENDS Integers, Sequences, FiniteSets

CONSTANTS SegmentId,     \* segment_id values
          EventId,       \* event_id values
          SpeakerId,     \* anonymous speaker ids
          Text,          \* text payloads, "" among them
          EmptyText,     \* ""
          Language,      \* (language_id, language_status) pairs
          NoSpeaker      \* primary_speaker_id is None

\* A segment id is the ordinal its allocator formats, so ids have an order.
ASSUME ReducerAssumption ==
    /\ SegmentId \subseteq Nat
    /\ EmptyText \in Text
    /\ NoSpeaker \notin SpeakerId

None == -1     \* Python's None: an absent revision echo or segment id

-----------------------------------------------------------------------------
(* The state: SegmentProjection and SessionProjection.                     *)

FinalStatus == {"accepted", "low_confidence", "rejected"}
SegmentStatus == {"partial"} \cup FinalStatus
SpeakerStatus == {"unknown", "provisional", "confirmed"}
TranslationStatus == {"not_applicable", "pending", "completed", "failed"}
RejectionReason == {"duplicate", "stale", "integrity_conflict", "not_applicable"}
Outcome == {"applied"} \cup RejectionReason
Speaker == SpeakerId \cup {NoSpeaker}
Echo == Nat \cup {None}

Segment ==
    [ status             : SegmentStatus,
      start_sample       : Nat,
      draft              : Text,
      text               : Text,
      language           : Language,
      primary_speaker_id : Speaker,
      speaker_status     : SpeakerStatus,
      translation_status : TranslationStatus,
      translation_text   : Text,
      content_revision     : Nat,
      language_revision    : Nat,
      speaker_revision     : Nat,
      translation_revision : Nat,
      translated_from_content_revision  : Echo,
      translated_from_language_revision : Echo,
      sealed             : BOOLEAN ]

\* The property of SegmentProjection that readers of the timeline consult.
TranslationIsCurrent(s) ==
    /\ s.translation_status = "completed"
    /\ s.translated_from_content_revision = s.content_revision
    /\ s.translated_from_language_revision = s.language_revision

Conflict ==
    [ segment_id : SegmentId,
      dimension  : {"content", "language", "speaker", "translation"},
      revision   : Nat ]

\* Python dicts: functions whose domain is the set of keys present.
IsDict(dict, K, V) == DOMAIN dict \subseteq K /\ dict \in [DOMAIN dict -> V]
Put(dict, key, value) ==
    [k \in DOMAIN dict \cup {key} |-> IF k = key THEN value ELSE dict[k]]

\* canonical_speaker's loop ends because the alias table is finite.
IsSession(p) ==
    /\ p = [ segments        |-> p.segments,
             seen_event_ids  |-> p.seen_event_ids,
             speaker_aliases |-> p.speaker_aliases,
             conflicts       |-> p.conflicts ]
    /\ IsDict(p.segments, SegmentId, Segment)
    /\ p.seen_event_ids \subseteq EventId
    /\ IsDict(p.speaker_aliases, SpeakerId, SpeakerId)
    /\ IsFiniteSet(DOMAIN p.speaker_aliases)
    /\ p.conflicts \in Seq(Conflict)

EmptySession ==
    [ segments        |-> [i \in {} |-> None],
      seen_event_ids  |-> {},
      speaker_aliases |-> [a \in {} |-> NoSpeaker],
      conflicts       |-> <<>> ]

-----------------------------------------------------------------------------
(* The events that may arrive: what protocol/events.py validates.          *)

PartialEvent ==
    [ event_type : {"transcript.partial"}, segment_id : SegmentId,
      start_sample : Nat, content_revision : Nat, draft : Text,
      language : Language, language_revision : Nat,
      primary_speaker_id : Speaker, speaker_status : SpeakerStatus,
      speaker_revision : Nat ]

FinalEvent ==
    [ event_type : {"transcript.final", "transcript.revised"},
      segment_id : SegmentId, start_sample : Nat, content_revision : Nat,
      status : FinalStatus, text : Text,
      language : Language, language_revision : Nat,
      primary_speaker_id : Speaker, speaker_status : SpeakerStatus,
      speaker_revision : Nat ]

LanguageEvent ==
    [ event_type : {"language.updated"}, segment_id : SegmentId,
      language_revision : Nat, language : Language ]

\* operation split carries the fields of an assign and is folded as one.
AssignEvent ==
    [ event_type : {"speaker.updated"}, operation : {"assign", "split"},
      segment_id : SegmentId \cup {None}, speaker_revision : Nat,
      primary_speaker_id : Speaker, speaker_status : SpeakerStatus ]

\* The validator wants sources and a target that is not one of them.
MergeEvent ==
    { m \in [ event_type : {"speaker.updated"}, operation : {"merge"},
              speaker_revision : Nat, to_speaker_id : SpeakerId,
              from_speaker_ids : SUBSET SpeakerId ] :
        /\ m.from_speaker_ids # {}
        /\ IsFiniteSet(m.from_speaker_ids)
        /\ m.to_speaker_id \notin m.from_speaker_ids }

StartedEvent == [ event_type : {"translation.started"}, segment_id : SegmentId ]

TranslatedEvent ==
    [ event_type : {"translation.final"}, segment_id : SegmentId,
      translation_revision : Nat, translated_from_content_revision : Nat,
      translated_from_language_revision : Nat, text : Text ]

FailedEvent ==
    [ event_type : {"translation.failed"}, segment_id : SegmentId,
      translation_revision : Nat, translated_from_content_revision : Nat,
      translated_from_language_revision : Nat ]

\* Every event type that carries no segment state.
OtherEvent == [ event_type : {"other"} ]

Event == PartialEvent \cup FinalEvent \cup LanguageEvent \cup AssignEvent
           \cup MergeEvent \cup StartedEvent \cup TranslatedEvent
           \cup FailedEvent \cup OtherEvent

-----------------------------------------------------------------------------
(* What a handler returns: ProjectionResult and the session it leaves.     *)

Accept(p, id, segment) ==
    [ session |-> [p EXCEPT !.segments = Put(p.segments, id, segment)],
      reason  |-> "applied" ]

Refuse(p, reason) == [session |-> p, reason |-> reason]

Contradict(p, id, dimension, revision) ==
    [ session |-> [p EXCEPT !.conflicts = Append(p.conflicts,
                       [ segment_id |-> id, dimension |-> dimension,
                         revision |-> revision ])],
      reason  |-> "integrity_conflict" ]

\* Faulty variant: the seal is not looked at.
OnAnySegment(p, id, result) ==
    IF id \notin DOMAIN p.segments THEN Refuse(p, "not_applicable") ELSE result

\* The guard of every handler that needs an existing, unsealed segment.
OnOpenSegment(p, id, result) ==
    IF id \notin DOMAIN p.segments \/ p.segments[id].sealed
    THEN Refuse(p, "not_applicable")
    ELSE result

\* Faulty variant: the last write wins, whatever its revision.
LastWriteWins(p, id, dimension, incoming, current, same, segment) ==
    IF incoming = current /\ same THEN Refuse(p, "duplicate")
    ELSE Accept(p, id, segment)

\* The comparison of revisions that the transcript, language, speaker and
\* translation handlers share: behind is stale, equal is a duplicate or a
\* contradiction, ahead replaces the segment.
Versioned(p, id, dimension, incoming, current, same, segment) ==
    CASE incoming < current -> Refuse(p, "stale")
      [] incoming = current ->
            IF same THEN Refuse(p, "duplicate")
                    ELSE Contradict(p, id, dimension, incoming)
      [] incoming > current -> Accept(p, id, segment)

-----------------------------------------------------------------------------
(* Speaker aliases.                                                        *)

Hop(aliases, speaker) ==
    IF speaker \in DOMAIN aliases THEN aliases[speaker] ELSE speaker

\* The variable `current' after n turns of the loop.
Walk(aliases, speaker) ==
    LET current[n \in Nat] ==
            IF n = 0 THEN speaker ELSE Hop(aliases, current[n-1])
    IN  current

\* The loop's condition fails: `seen' holds the ids left in earlier turns.
Stops(aliases, walk, n) ==
    \/ walk[n] \notin DOMAIN aliases
    \/ \E m \in 0..(n-1) : walk[m] = walk[n]

\* No walk is longer than the alias table (LoopEnds in ReducerProofs).
CanonicalSpeaker(aliases, speaker) ==
    LET walk == Walk(aliases, speaker)
    IN  walk[CHOOSE n \in 0..Cardinality(DOMAIN aliases) :
                /\ Stops(aliases, walk, n)
                /\ \A m \in 0..(n-1) : ~Stops(aliases, walk, m)]

-----------------------------------------------------------------------------
(* The handlers.                                                           *)

\* The segment an event creates: nothing translated, nothing sealed.
Created(p, e, status, draft, text, translationStatus) ==
    [ status |-> status, start_sample |-> e.start_sample,
      draft |-> draft, text |-> text, language |-> e.language,
      primary_speaker_id |->
          CanonicalSpeaker(p.speaker_aliases, e.primary_speaker_id),
      speaker_status |-> e.speaker_status,
      translation_status |-> translationStatus, translation_text |-> EmptyText,
      content_revision |-> e.content_revision,
      language_revision |-> e.language_revision,
      speaker_revision |-> e.speaker_revision, translation_revision |-> 0,
      translated_from_content_revision |-> None,
      translated_from_language_revision |-> None,
      sealed |-> FALSE ]

ApplyPartial(p, e) ==
    LET id == e.segment_id
        existing == p.segments[id]
    IN  IF id \notin DOMAIN p.segments
        THEN Accept(p, id, Created(p, e, "partial", e.draft, EmptyText,
                                   "not_applicable"))
        ELSE OnOpenSegment(p, id,
                Versioned(p, id, "content",
                    e.content_revision, existing.content_revision,
                    e.draft = existing.draft,
                    [existing EXCEPT !.status = "partial", !.draft = e.draft,
                        !.content_revision = e.content_revision]))

\* Faulty variant: a new revision leaves the translation of the old one.
TranslationKept(segment, translationStatus) ==
    [segment EXCEPT !.translation_status = translationStatus]

\* A new content or language revision drops the translation of the old one.
TranslationDropped(segment, translationStatus) ==
    [segment EXCEPT !.translation_status = translationStatus,
                    !.translation_text = EmptyText,
                    !.translated_from_content_revision = None,
                    !.translated_from_language_revision = None]

\* Faulty variant: a status of the transcript ends up in the translation.
PendingOrSame(status) == IF status = "accepted" THEN "pending" ELSE status

PendingIfAccepted(status) ==
    IF status = "accepted" THEN "pending" ELSE "not_applicable"

ApplyFinal(p, e) ==
    LET id == e.segment_id
        existing == p.segments[id]
    IN  IF id \notin DOMAIN p.segments
        THEN Accept(p, id, Created(p, e, e.status, EmptyText, e.text,
                                   PendingIfAccepted(e.status)))
        ELSE OnOpenSegment(p, id,
                Versioned(p, id, "content",
                    e.content_revision, existing.content_revision,
                    e.text = existing.text /\ e.status = existing.status,
                    TranslationDropped(
                        [existing EXCEPT !.status = e.status, !.text = e.text,
                            !.draft = EmptyText,
                            !.start_sample = e.start_sample,
                            !.language = e.language,
                            !.content_revision = e.content_revision],
                        PendingIfAccepted(e.status))))

ApplyLanguage(p, e) ==
    LET id == e.segment_id
        existing == p.segments[id]
    IN  OnOpenSegment(p, id,
            Versioned(p, id, "language",
                e.language_revision, existing.language_revision,
                e.language = existing.language,
                TranslationDropped(
                    [existing EXCEPT !.language = e.language,
                        !.language_revision = e.language_revision],
                    PendingIfAccepted(existing.status))))

\* Faulty variant: the incoming speaker is shown as it came, alias or not.
ApplySpeakerVerbatim(p, e) ==
    LET id == e.segment_id
        existing == p.segments[id]
    IN  OnOpenSegment(p, id,
            Versioned(p, id, "speaker",
                e.speaker_revision, existing.speaker_revision,
                /\ e.primary_speaker_id = existing.primary_speaker_id
                /\ e.speaker_status = existing.speaker_status,
                [existing EXCEPT !.primary_speaker_id = e.primary_speaker_id,
                    !.speaker_status = e.speaker_status,
                    !.speaker_revision = e.speaker_revision]))

ApplySpeaker(p, e) ==
    LET id == e.segment_id
        existing == p.segments[id]
        incoming == CanonicalSpeaker(p.speaker_aliases, e.primary_speaker_id)
    IN  OnOpenSegment(p, id,
            Versioned(p, id, "speaker",
                e.speaker_revision, existing.speaker_revision,
                /\ incoming = existing.primary_speaker_id
                /\ e.speaker_status = existing.speaker_status,
                [existing EXCEPT !.primary_speaker_id = incoming,
                    !.speaker_status = e.speaker_status,
                    !.speaker_revision = e.speaker_revision]))

\* Faulty variant: sealed segments are rewritten with the others.
RewrittenEverywhere(segment, e) ==
    IF segment.primary_speaker_id \in e.from_speaker_ids
    THEN [segment EXCEPT !.primary_speaker_id = e.to_speaker_id,
                         !.speaker_revision = e.speaker_revision]
    ELSE segment

\* Faulty variant: the merge drops the translation, as a revision would.
RewrittenUntranslated(segment, e) ==
    IF ~segment.sealed /\ segment.primary_speaker_id \in e.from_speaker_ids
    THEN TranslationDropped(
            [segment EXCEPT !.primary_speaker_id = e.to_speaker_id,
                            !.speaker_revision = e.speaker_revision],
            PendingIfAccepted(segment.status))
    ELSE segment

\* What a merge makes of one segment; it compares no revision.
Rewritten(segment, e) ==
    IF ~segment.sealed /\ segment.primary_speaker_id \in e.from_speaker_ids
    THEN [segment EXCEPT !.primary_speaker_id = e.to_speaker_id,
                         !.speaker_revision = e.speaker_revision]
    ELSE segment

\* A merge answers "applied" whatever it rewrites.
ApplySpeakerMerge(p, e) ==
    [ session |->
        [p EXCEPT !.speaker_aliases =
                      [a \in DOMAIN p.speaker_aliases \cup e.from_speaker_ids
                          |-> IF a \in e.from_speaker_ids
                              THEN e.to_speaker_id
                              ELSE p.speaker_aliases[a]],
                  !.segments =
                      [i \in DOMAIN p.segments |-> Rewritten(p.segments[i], e)]],
      reason |-> "applied" ]

\* Faulty variant: a translation is requested for any final.
ApplyTranslationStartedAnyway(p, e) ==
    LET id == e.segment_id
        existing == p.segments[id]
    IN  OnOpenSegment(p, id,
            IF existing.status = "partial"
            THEN Refuse(p, "not_applicable")
            ELSE Accept(p, id, [existing EXCEPT !.translation_status = "pending"]))

ApplyTranslationStarted(p, e) ==
    LET id == e.segment_id
        existing == p.segments[id]
    IN  OnOpenSegment(p, id,
            IF existing.status # "accepted"
            THEN Refuse(p, "not_applicable")
            ELSE Accept(p, id, [existing EXCEPT !.translation_status = "pending"]))

\* Faulty variant: only the content echo is compared.
ContentEchoMatches(segment, e) ==
    e.translated_from_content_revision = segment.content_revision

\* Both revisions the translation was made from are still current.
EchoesMatch(segment, e) ==
    /\ e.translated_from_content_revision = segment.content_revision
    /\ e.translated_from_language_revision = segment.language_revision

ApplyTranslationFinal(p, e) ==
    LET id == e.segment_id
        existing == p.segments[id]
    IN  OnOpenSegment(p, id,
            IF ~EchoesMatch(existing, e)
            THEN Refuse(p, "stale")
            ELSE Versioned(p, id, "translation",
                    e.translation_revision, existing.translation_revision,
                    e.text = existing.translation_text,
                    [existing EXCEPT !.translation_status = "completed",
                        !.translation_text = e.text,
                        !.translation_revision = e.translation_revision,
                        !.translated_from_content_revision =
                            e.translated_from_content_revision,
                        !.translated_from_language_revision =
                            e.translated_from_language_revision]))

\* Faulty variant: the failure takes the transcript along.
TranscriptFailed(segment, e) ==
    [segment EXCEPT !.translation_status = "failed", !.text = EmptyText,
                    !.translation_text = EmptyText,
                    !.translation_revision = e.translation_revision]

\* Only translation fields move; the echoes stay.
WithoutTranslation(segment, e) ==
    [segment EXCEPT !.translation_status = "failed",
                    !.translation_text = EmptyText,
                    !.translation_revision = e.translation_revision]

ApplyTranslationFailed(p, e) ==
    LET id == e.segment_id
        existing == p.segments[id]
    IN  OnOpenSegment(p, id,
            IF e.translated_from_content_revision # existing.content_revision
            THEN Refuse(p, "stale")
            ELSE Accept(p, id, WithoutTranslation(existing, e)))

-----------------------------------------------------------------------------
(* The public operations.                                                  *)

Dispatch(p, e) ==
    CASE e.event_type = "transcript.partial"  -> ApplyPartial(p, e)
      [] e.event_type \in {"transcript.final", "transcript.revised"}
                                              -> ApplyFinal(p, e)
      [] e.event_type = "language.updated"    -> ApplyLanguage(p, e)
      [] e.event_type = "speaker.updated"     ->
            IF e.operation = "merge" THEN ApplySpeakerMerge(p, e)
                                     ELSE ApplySpeaker(p, e)
      [] e.event_type = "translation.started" -> ApplyTranslationStarted(p, e)
      [] e.event_type = "translation.final"   -> ApplyTranslationFinal(p, e)
      [] e.event_type = "translation.failed"  -> ApplyTranslationFailed(p, e)
      [] OTHER                                -> Refuse(p, "not_applicable")

\* Faulty variant: only an applied event uses up its id.
ApplyForgetful(p, eventId, e) ==
    IF eventId \in p.seen_event_ids
    THEN Refuse(p, "duplicate")
    ELSE LET result == Dispatch(p, e)
         IN  IF result.reason # "applied" THEN result
             ELSE [ session |-> [result.session EXCEPT
                                    !.seen_event_ids =
                                        p.seen_event_ids \cup {eventId}],
                    reason  |-> result.reason ]

\* A refused event is an event that was seen: its id is recorded all the same.
Apply(p, eventId, e) ==
    IF eventId \in p.seen_event_ids
    THEN Refuse(p, "duplicate")
    ELSE LET result == Dispatch(p, e)
         IN  [ session |-> [result.session EXCEPT
                               !.seen_event_ids = p.seen_event_ids \cup {eventId}],
               reason  |-> result.reason ]

Seal(p, id) ==
    IF id \notin DOMAIN p.segments THEN Refuse(p, "not_applicable")
    ELSE IF p.segments[id].sealed THEN Refuse(p, "duplicate")
    ELSE Accept(p, id, [p.segments[id] EXCEPT !.sealed = TRUE])

=============================================================================
