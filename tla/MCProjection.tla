---------------------------- MODULE MCProjection ----------------------------
(* Small instances of History: which    events may arrive in each run.     *)
EXTENDS History

CONSTANTS e1, e2, e3, e4, e5, s1, s2, s3, ja, vi, ta, tb, empty, nobody

Partials(ids, revisions, languageRevisions, speakers) ==
    [ event_type : {"transcript.partial"}, segment_id : ids,
      start_sample : {0}, content_revision : revisions, draft : {ta, tb},
      language : {ja}, language_revision : languageRevisions,
      primary_speaker_id : speakers, speaker_status : {"provisional"},
      speaker_revision : {0} ]

Finals(types, ids, revisions, statuses, languages, speakers) ==
    [ event_type : types, segment_id : ids,
      start_sample : {0}, content_revision : revisions, status : statuses,
      text : {ta, tb}, language : languages, language_revision : {0},
      primary_speaker_id : speakers, speaker_status : {"provisional"},
      speaker_revision : {0} ]

LanguageUpdates(ids, revisions) ==
    [ event_type : {"language.updated"}, segment_id : ids,
      language_revision : revisions, language : {ja, vi} ]

Starts(ids) == [ event_type : {"translation.started"}, segment_id : ids ]

Translations(ids, revisions, contents, languages) ==
    [ event_type : {"translation.final"}, segment_id : ids,
      translation_revision : revisions,
      translated_from_content_revision : contents,
      translated_from_language_revision : languages, text : {ta, tb} ]

Failures(ids, revisions, contents, languages) ==
    [ event_type : {"translation.failed"}, segment_id : ids,
      translation_revision : revisions,
      translated_from_content_revision : contents,
      translated_from_language_revision : languages ]

Assigns(ids, operations, revisions, speakers) ==
    [ event_type : {"speaker.updated"}, operation : operations,
      segment_id : ids, speaker_revision : revisions,
      primary_speaker_id : speakers, speaker_status : {"provisional"} ]

Merges(sources, targets, revisions) ==
    { m \in [ event_type : {"speaker.updated"}, operation : {"merge"},
              speaker_revision : revisions, to_speaker_id : targets,
              from_speaker_ids : sources ] :
        m.to_speaker_id \notin m.from_speaker_ids }

\* One segment: transcript, language and translation results in any order.
TextEvents ==
    Partials({1}, {0, 2}, {0}, {nobody})
    \cup Finals({"transcript.final"}, {1}, {1}, {"accepted", "rejected"},
                {ja}, {nobody})
    \cup Finals({"transcript.revised"}, {1}, {2}, {"accepted"}, {vi}, {nobody})
    \cup LanguageUpdates({1}, {0, 1})
    \cup Starts({1})
    \cup Translations({1}, {1, 2}, {1, 2}, {0, 1})
    \cup Failures({1}, {1, 2}, {1, 2}, {0})
    \cup OtherEvent

\* Two segments and three speakers: assigns against merges into s1; a third
\* segment is only spoken and sealed.  To the radix 3 the ordinals 2, 4 and 9
\* have one, two and three digits, of which two are padded: 02, 11 and 100.
StarEvents ==
    { e \in Finals({"transcript.final"}, {2, 4}, {1}, {"accepted"}, {ja}, {s2, s3})
            \cup Finals({"transcript.final"}, {9}, {1}, {"accepted"}, {ja}, {s1})
            \cup { [f EXCEPT !.start_sample = 9] :
                      f \in Finals({"transcript.revised"}, {2}, {2},
                                   {"accepted", "rejected"}, {ja}, {s2}) } :
        e.text = ta }
    \cup Assigns({2, 4}, {"assign"}, {0, 1, 2}, {s2, s3, nobody})
    \cup Assigns({2, None}, {"split"}, {2}, {s1})
    \cup Merges({{s2}, {s2, s3}}, {s1}, {1, 3})
    \cup Translations({2}, {1}, {1}, {0})

\* The same with merges between any two speakers.
ChainEvents ==
    Finals({"transcript.final"}, {1}, {1}, {"accepted"}, {ja}, {s2, s3})
    \cup Assigns({1}, {"assign"}, {2}, {s2, s3})
    \cup Merges({{s1}, {s2}, {s3}}, {s1, s2, s3}, {1})

=============================================================================
