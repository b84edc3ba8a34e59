----------------------------- MODULE Provenance -----------------------------
(***************************************************************************)
(* tools/hash_file.py: inspect() hashes a fixture file, asks for its size  *)
(* and reads its WAV header, opening the path each time; main() compares   *)
(* the hash with --expect-sha256 and reports.  The file may be replaced or *)
(* removed in between.                                                     *)
(*                                                                         *)
(* A hash identifies a file, so the model keeps the file itself.  The      *)
(* length in canonical samples goes through a float of seconds: a float is *)
(* a significand of Precision bits and an exponent, rounded to nearest,    *)
(* ties to even.  Channels, sample width and codec are carried like the    *)
(* rate and are left out.                                                  *)
(***************************************************************************)
EXTENDS Integers

CONSTANTS Files,          \* what the path may hold: [size, kind, rate, frames],
                          \* kind one of "wav", "foreign" and "cut off"
          Absent,         \* no file
          CanonicalRate,  \* 16000 in the code
          Precision,      \* bits of a significand, 53 in the code
          MaxReplaced     \* bound: times the file is replaced

Two[k \in Nat] == IF k = 0 THEN 1 ELSE 2 * Two[k - 1]  \* 2^k

ASSUME ProvenanceAssumption ==
    /\ Absent \notin Files /\ MaxReplaced \in Nat
    /\ CanonicalRate \in Nat \ {0} /\ Precision \in Nat \ {0}
    /\ \A f \in Files : f.size \in Nat /\ f.rate \in Nat /\ f.frames \in Nat
    \* A WAV header has 32 bits for either, and 2^32 * 16000 < 2^52.
    /\ \A f \in Files : f.rate < Two[Precision]
    /\ \A f \in Files : f.frames * CanonicalRate < Two[Precision - 1]

VARIABLES disk,      \* the file at the path
          run,       \* the invocation of main(): where it is, what it was asked
          seen,      \* what inspect() has found out so far
          replaced,  \* times the file was replaced
          stable     \* it was not while this invocation ran

vars == <<disk, run, seen, replaced, stable>>

-----------------------------------------------------------------------------
(* Floats: [m, e] is m * 2^e.                                              *)

HalfEven(n, d) ==
    LET q == n \div d  r == n % d
    IN  IF 2 * r > d \/ (2 * r = d /\ q % 2 = 1) THEN q + 1 ELSE q

\* The fraction n/d, n < d * 2^Precision, with as many bits as a significand has.
Divide(n, d) ==
    IF n = 0 THEN [m |-> 0, e |-> 0]
    ELSE LET k == CHOOSE k \in 0..2 * Precision :
                    /\ d * Two[Precision - 1] <= n * Two[k]
                    /\ n * Two[k] < d * Two[Precision]
         IN  [m |-> HalfEven(n * Two[k], d), e |-> -k]

Multiply(f, c) ==
    IF f.m * c < Two[Precision] THEN [m |-> f.m * c, e |-> f.e]
    ELSE LET k == CHOOSE k \in 0..Precision : /\ Two[Precision - 1] <= (f.m * c) \div Two[k]
                                              /\ (f.m * c) \div Two[k] < Two[Precision]
         IN  [m |-> HalfEven(f.m * c, Two[k]), e |-> f.e + k]

\* int() cuts off.
Whole(f) == IF f.e >= 0 THEN f.m * Two[f.e] ELSE f.m \div Two[-f.e]

\* Faulty variant: the count is rounded to the nearest sample.
NearestSamples(file) ==
    LET f == Multiply(Divide(file.frames, file.rate), CanonicalRate)
    IN  IF f.e >= 0 THEN f.m * Two[f.e] ELSE HalfEven(f.m, Two[-f.e])

\* canonical_samples: int(duration_seconds * 16000).
CanonicalSamples(file) ==
    Whole(Multiply(Divide(file.frames, file.rate), CanonicalRate))

-----------------------------------------------------------------------------
(* main.                                                                   *)

Fields == {"sha256", "size_bytes", "sample_rate_hz", "frames", "canonical"}
Nothing == [field \in {} |-> field]
Also(field, value) ==
    [f \in DOMAIN seen \cup {field} |-> IF f = field THEN value ELSE seen[f]]

Init ==
    /\ disk \in Files \cup {Absent}
    /\ run = [at |-> "idle"]
    /\ seen = Nothing
    /\ replaced = 0
    /\ stable = TRUE

Goto(at) == run' = [run EXCEPT !.at = at]

\* A container is the suffix of the path, whatever the file is; an expected
\* hash is the file it is the hash of.
Invoke(container, expected) ==
    /\ run.at = "idle"
    /\ run' = [ at |-> IF disk = Absent THEN "failed" ELSE "hash",
                container |-> container, expected |-> expected ]
    /\ UNCHANGED <<disk, seen, replaced, stable>>

\* Faulty variant: the file hashed is the one expected.
HashExpected ==
    /\ run.at = "hash"
    /\ seen' = Also("sha256", IF run.expected = {} THEN disk
                              ELSE CHOOSE f \in run.expected : TRUE)
    /\ Goto(IF disk = Absent THEN "failed" ELSE "stat")
    /\ UNCHANGED <<disk, replaced, stable>>

\* sha256_of, on the file that was there when it was opened.
Hash ==
    /\ run.at = "hash"
    /\ seen' = IF disk = Absent THEN seen ELSE Also("sha256", disk)
    /\ Goto(IF disk = Absent THEN "failed" ELSE "stat")
    /\ UNCHANGED <<disk, replaced, stable>>

\* Faulty variant: a file that is gone is passed over.
StatIfThere ==
    /\ run.at = "stat"
    /\ seen' = IF disk = Absent THEN seen ELSE Also("size_bytes", disk.size)
    /\ Goto(IF disk # Absent /\ run.container = "wav" THEN "header" ELSE "decide")
    /\ UNCHANGED <<disk, replaced, stable>>

Stat ==
    /\ run.at = "stat"
    /\ seen' = IF disk = Absent THEN seen ELSE Also("size_bytes", disk.size)
    /\ Goto(IF disk = Absent THEN "failed"
            ELSE IF run.container = "wav" THEN "header" ELSE "decide")
    /\ UNCHANGED <<disk, replaced, stable>>

\* read_wav_properties.  What wave refuses leaves a note, a rate of zero no
\* duration; a file that ends in the header raises what nobody catches.
Header ==
    /\ run.at = "header"
    /\ seen' = IF disk = Absent \/ disk.kind # "wav" THEN seen
               ELSE [f \in Fields \ (IF disk.rate = 0 THEN {"canonical"} ELSE {}) |->
                        CASE f = "sample_rate_hz" -> disk.rate
                          [] f = "frames" -> disk.frames
                          [] f = "canonical" -> CanonicalSamples(disk)
                          [] OTHER -> seen[f]]
    /\ Goto(IF disk = Absent \/ disk.kind = "cut off" THEN "failed" ELSE "decide")
    /\ UNCHANGED <<disk, replaced, stable>>

\* The hash is compared last; a report or a mismatch ends the invocation.
Decide ==
    /\ run.at = "decide"
    /\ Goto(IF run.expected \subseteq {seen["sha256"]} THEN "reported" ELSE "mismatch")
    /\ UNCHANGED <<disk, seen, replaced, stable>>

\* The next invocation finds nothing of this one.
Exit ==
    /\ run.at \in {"reported", "mismatch", "failed"}
    /\ run' = [at |-> "idle"]
    /\ seen' = Nothing
    /\ stable' = TRUE
    /\ UNCHANGED <<disk, replaced>>

Replace(file) ==
    /\ replaced < MaxReplaced
    /\ replaced' = replaced + 1
    /\ disk' = file
    /\ stable' = (run.at = "idle")
    /\ UNCHANGED <<run, seen>>

Next ==
    \/ \E container \in {"wav", "other"},
          expected \in {{}} \cup {{f} : f \in Files} : Invoke(container, expected)
    \/ Hash
    \/ Stat
    \/ Header
    \/ Decide
    \/ Exit
    \/ \E file \in Files \cup {Absent} : Replace(file)

Spec == Init /\ [][Next]_vars

-----------------------------------------------------------------------------
(* Properties.                                                             *)

\* The fields of a report are found in the order of inspect(), and what is
\* computed from others only with them.
ProvenanceTypeOK ==
    /\ disk \in Files \cup {Absent}
    /\ DOMAIN seen \subseteq Fields
    /\ "size_bytes" \in DOMAIN seen => "sha256" \in DOMAIN seen
    /\ "canonical" \in DOMAIN seen => /\ seen["canonical"] \in Nat
                                      /\ {"sample_rate_hz", "frames"} \subseteq DOMAIN seen
    /\ run.at \in {"reported", "mismatch"} => {"sha256", "size_bytes"} \subseteq DOMAIN seen
    /\ replaced \in 0..MaxReplaced
    /\ stable \in BOOLEAN

\* "A later run can prove the bytes have not changed": a report printed while
\* the file stayed in place is that of one file, the expected one if a hash was
\* expected, and a mismatch is one.
ReportIsOfOneFile ==
    stable /\ run.at \in {"reported", "mismatch"} =>
        /\ seen["size_bytes"] = disk.size
        /\ "frames" \in DOMAIN seen => seen["frames"] = disk.frames
        /\ run.at = "reported" <=> run.expected \subseteq {disk}

Exact == (seen["frames"] * CanonicalRate) \div seen["sample_rate_hz"]

\* Two roundings and a cut never count a canonical sample the file does not
\* have, and lose at most one that it has.
LosesAtMostOneSample ==
    "canonical" \in DOMAIN seen => seen["canonical"] \in {Exact - 1, Exact}

\* "Length in 16 kHz samples": of a file of that rate, the number of its frames.
CanonicalIsExact ==
    "canonical" \in DOMAIN seen /\ seen["sample_rate_hz"] = CanonicalRate
        => seen["canonical"] = seen["frames"]

=============================================================================
