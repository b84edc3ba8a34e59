-------------------------------- MODULE Tape --------------------------------
(***************************************************************************)
(* What absolute sample offsets are for (protocol.md, section 3): the      *)
(* recording of a stream decides every sample position once and in order,  *)
(* as missing or as the very sample that was captured there.  It is never  *)
(* compressed to hide missing audio and never takes a sample twice.        *)
(***************************************************************************)
EXTENDS Integers, Sequences

CONSTANTS Captured(_, _),  \* the sample a stream captured at a position
          Missing

VARIABLES streams,  \* how many streams were opened
          tape      \* the recording of the last one, from its sample 0

Init ==
    /\ streams = 0
    /\ tape = <<>>

Open ==
    /\ streams' = streams + 1
    /\ tape' = <<>>

\* A gap, of any length from none on, and then the samples of one frame.
Extend ==
    /\ UNCHANGED streams
    /\ Len(tape') > Len(tape)
    /\ \A k \in DOMAIN tape : tape'[k] = tape[k]
    /\ \E resumed \in Len(tape)..Len(tape') :
          \A k \in Len(tape) + 1 .. Len(tape') :
              tape'[k] = IF k <= resumed THEN Missing ELSE Captured(streams, k - 1)

Next == Open \/ Extend

Spec == Init /\ [][Next]_<<streams, tape>>

=============================================================================
