------------------------------- MODULE History -------------------------------
(***************************************************************************)
(* What readers make of a session: the timeline on screen and the history  *)
(* that is compacted from it (ordered_segments and compactable_segments of *)
(* projection.py).  A segment of Reducer is named by its ordinal; readers  *)
(* sort by the string that identifiers.py makes of it.                     *)
(***************************************************************************)
EXTENDS Projection, Identifiers, SequencesExt

\* The sort key (start_sample, segment_id).
Precedes(p, i, j) ==
    LET s == p.segments[i]
        t == p.segments[j]
    IN  \/ s.start_sample < t.start_sample
        \/ /\ s.start_sample = t.start_sample
           /\ LexLess(Allocate("seg-", i).digits, Allocate("seg-", j).digits)

\* These segments, sorted by that key.
InTimelineOrder(p, ids) ==
    CHOOSE timeline \in [1..Cardinality(ids) -> ids] :
        /\ ToSet(timeline) = ids
        /\ \A m, n \in DOMAIN timeline :
              m < n => Precedes(p, timeline[m], timeline[n])

OrderedSegments(p) == InTimelineOrder(p, DOMAIN p.segments)

\* Leaving out the rejected segments keeps the order of the others.
CompactableSegments(p) ==
    InTimelineOrder(p, {i \in DOMAIN p.segments : p.segments[i].status # "rejected"})

-----------------------------------------------------------------------------

\* Segments that start together stand in the order in which they were
\* allocated: the segment_id is a "monotonic string" (ordered_segments).  That
\* is so of the ordinals that fit their padding; a wider one sorts among the
\* others, "seg-1000000" before "seg-500000".
FitsPadding(ordinal) == Len(Digits(ordinal)) <= OrdinalPad

TiesInAllocationOrder ==
    LET history == CompactableSegments(session)
    IN  \A m, n \in DOMAIN history :
           /\ m < n
           /\ segments[history[m]].start_sample = segments[history[n]].start_sample
           /\ FitsPadding(history[m]) /\ FitsPadding(history[n])
           => history[m] < history[n]

\* Sealed segments stand on the timeline in an order that no later revision,
\* which may move the start of an open segment, changes.
Place(timeline, i) == CHOOSE n \in DOMAIN timeline : timeline[n] = i

SealedOrderStands ==
    [][LET before == OrderedSegments(session)
           after == OrderedSegments(session')
       IN  \A i, j \in DOMAIN segments :
              i < j /\ segments[i].sealed /\ segments[j].sealed =>
                 (Place(before, i) < Place(before, j)
                     <=> Place(after, i) < Place(after, j))]_vars

=============================================================================
