------------------------------ MODULE MCStream ------------------------------
(* A small instance of Stream in which a byte is a bit: a header of 20 of  *)
(* them, start samples up to 15, two stream ordinals, frames of up to 2    *)
(* samples and headers of up to 31 bytes, which fit the frame limit.       *)
EXTENDS Stream

Bits ==
    [ protocol_major |-> 2, header_size_bytes |-> 5, stream_ordinal |-> 1,
      sequence |-> 3, start_sample |-> 5, capture_monotonic_ns |-> 1,
      sample_count |-> 3, flags |-> 1 ]

Builds == {[major |-> 1, minor |-> 0], [major |-> 1, minor |-> 1],
           [major |-> 2, minor |-> 0]}

Well == [ protocol_major |-> 1, stream_ordinal |-> 0, sequence |-> 0,
          start_sample |-> 0, capture_monotonic_ns |-> 0, sample_count |-> 1,
          flags |-> 1 ]

Silence == <<0, 0>>

\* Each fails one test of the decoder.
OutOfRange ==
    { Packed([Well EXCEPT !.protocol_major = 2], HeaderSize) \o Silence,
      Packed(Well, HeaderSize - 1) \o Silence,
      Packed(Well, HeaderSize + 8) \o Silence,
      Packed([Well EXCEPT !.start_sample = -1], HeaderSize) \o Silence,
      Packed([Well EXCEPT !.sample_count = 3], HeaderSize)
          \o Silence \o Silence \o Silence,
      Packed(Well, HeaderSize) \o [k \in 1..20 |-> 0] }

=============================================================================
