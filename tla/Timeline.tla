------------------------------ MODULE Timeline ------------------------------
(***************************************************************************)
(* protocol/timeline.py with the error codes of protocol/errors.py: the    *)
(* integer sample offset is the position of everything.  A function of the *)
(* code that may raise returns [error |-> code] or, when it does not       *)
(* raise, [error |-> NoError, value |-> result].                           *)
(***************************************************************************)
EXTENDS Integers

CONSTANT MaxSampleOffset  \* 2^63 - 1, the largest i64

ASSUME TimelineAssumption == MaxSampleOffset \in Nat

NoError == "none"
UnsupportedMajor == "PROT_UNSUPPORTED_MAJOR_VERSION"
MalformedHeader == "PROT_MALFORMED_HEADER"
FrameTooLarge == "PROT_FRAME_TOO_LARGE"
SampleOverlap == "PROT_SAMPLE_OVERLAP"

\* FATAL_CODES: these terminate the connection, the others reject one event.
FatalCodes ==
    {UnsupportedMajor, MalformedHeader, FrameTooLarge, "PROT_EVENT_TOO_LARGE",
     "PROT_INVALID_UTF8", "PROT_SEQUENCE_REGRESSION", SampleOverlap,
     "SESSION_SERVER_RESTARTED", "OVERLOAD_SUSTAINED"}

Raise(code) == [error |-> code]
Return(value) == [error |-> NoError, value |-> value]

\* validate_sample_offset does not raise: an i64, and not before the start.
ValidSampleOffset(offset) ==
    /\ -(MaxSampleOffset + 1) <= offset /\ offset <= MaxSampleOffset
    /\ offset >= 0

\* SampleSpan, half-open.
Span(start, end) == [start_sample |-> start, end_sample |-> end]

\* GapMeasurement; no span when the frames are contiguous.
Contiguous == [gap_samples |-> 0, span |-> {}]
Gap(start, end) == [gap_samples |-> end - start, span |-> {Span(start, end)}]

\* Faulty variant: audio that overlaps is merged, as if it were contiguous.
MeasureGapLeniently(previousStart, previousCount, nextStart) ==
    LET previousEnd == previousStart + previousCount
    IN  IF nextStart <= previousEnd THEN Return(Contiguous)
        ELSE Return(Gap(previousEnd, nextStart))

MeasureGap(previousStart, previousCount, nextStart) ==
    LET previousEnd == previousStart + previousCount
    IN  CASE nextStart < previousEnd -> Raise(SampleOverlap)
          [] nextStart = previousEnd -> Return(Contiguous)
          [] nextStart > previousEnd -> Return(Gap(previousEnd, nextStart))

=============================================================================
