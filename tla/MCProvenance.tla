---------------------------- MODULE MCProvenance ----------------------------
(* Floats of twelve bits and a canonical rate of fourteen: like 16000, a   *)
(* rate that is no power of two, so that seconds are rounded.              *)
EXTENDS Provenance

Wav(rate, frames) ==
    [size |-> 44 + 2 * frames, kind |-> "wav", rate |-> rate, frames |-> frames]

\* At the canonical rate, at half of it and at two that do not divide it;
\* none at all, and what is not a WAV or breaks off.
Recordings ==
    {Wav(rate, frames) : rate \in {7, 14}, frames \in {0, 1, 31, 117, 146}}
        \cup {Wav(5, 62), Wav(15, 46), Wav(11, 93), Wav(49, 117), Wav(0, 3)}
        \cup {[size |-> size, kind |-> kind, rate |-> 0, frames |-> 0] :
                  <<size, kind>> \in {<<40, "foreign">>, <<3, "cut off">>}}

=============================================================================
