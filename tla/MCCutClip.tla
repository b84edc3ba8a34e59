----------------------------- MODULE MCCutClip -----------------------------
(* Small instances of CutClip: a recording of six samples, [3,5) locked.   *)
EXTENDS CutClip, TLC

CONSTANTS p1, p2, p3, a, b

SixSamples == 6
LockedMiddle == {[start |-> 3, end |-> 5]}

At(n) == [samples |-> {n}, ms |-> {}]
AtMs(n) == [samples |-> {}, ms |-> {n}]

CommandLine(name, start, end, evaluation) ==
    [ name |-> name, start |-> start, end |-> end, labelled |-> TRUE,
      evaluation_run |-> evaluation, purpose |-> evaluation, dry_run |-> FALSE ]

\* Two ranges under one name, two locked ones on either edge of the locked
\* range, and one that must not be cut; four milliseconds are six samples.
Cuts ==
    { CommandLine(a, At(0), At(3), FALSE), CommandLine(a, At(5), AtMs(4), FALSE),
      CommandLine(a, AtMs(2), At(6), TRUE), CommandLine(b, AtMs(1), At(4), TRUE),
      CommandLine(DefaultName, At(0), At(3), FALSE),
      CommandLine(b, At(2), At(4), FALSE) }

\* Command lines that leave main() before it cuts.
Others ==
    { [CommandLine(a, At(0), At(2), FALSE) EXCEPT !.labelled = FALSE],
      [CommandLine(a, At(0), At(2), FALSE) EXCEPT !.dry_run = TRUE],
      [CommandLine(a, At(2), At(4), TRUE) EXCEPT !.purpose = FALSE],
      CommandLine(b, At(-1), At(1), FALSE), CommandLine(b, At(2), At(2), FALSE),
      CommandLine(b, At(5), AtMs(5), FALSE),
      CommandLine(b, [samples |-> {0}, ms |-> {0}], At(2), FALSE) }

AllRequests == Cuts \cup Others

Invocations == Permutations(Run)

=============================================================================
