------------------------------ MODULE MCReplay ------------------------------
(* A small instance of Replay: two consumers, one segment, two speakers.   *)
EXTENDS Replay

CONSTANTS e1, e2, e3, live, recovery, s1, s2, ja, vi, ta, tb, empty, nobody

\* One event of each class, with a rival where rivals matter.
LoggedEvents ==
    [ event_type : {"transcript.partial"}, segment_id : {1},
      start_sample : {0}, content_revision : {0}, draft : {ta},
      language : {ja}, language_revision : {0},
      primary_speaker_id : {s2}, speaker_status : {"provisional"},
      speaker_revision : {0} ]
    \cup
    [ event_type : {"transcript.final"}, segment_id : {1},
      start_sample : {0}, content_revision : {1}, status : {"accepted"},
      text : {ta, tb}, language : {ja}, language_revision : {0},
      primary_speaker_id : {s2}, speaker_status : {"provisional"},
      speaker_revision : {0} ]
    \cup
    [ event_type : {"language.updated"}, segment_id : {1},
      language_revision : {1}, language : {vi} ]
    \cup
    [ event_type : {"translation.final"}, segment_id : {1},
      translation_revision : {1}, translated_from_content_revision : {1},
      translated_from_language_revision : {0}, text : {tb} ]
    \cup
    [ event_type : {"speaker.updated"}, operation : {"merge"},
      speaker_revision : {1}, to_speaker_id : {s1}, from_speaker_ids : {{s2}} ]

=============================================================================
