-------------------------------- MODULE Frame --------------------------------
(***************************************************************************)
(* protocol/frame.py: the codec of binary audio frames, byte by byte, and  *)
(* the compatibility rules of protocol/version.py.                         *)
(*                                                                         *)
(* A buffer is a sequence of bytes 0..Byte-1.  The number of values of a   *)
(* byte (256), the bytes of each field (1 1 2 4 8 8 2 2) and the limits    *)
(* are parameters: small instances keep every test and reach every edge.   *)
(* A flag word is its number: decoding keeps unknown bits.                 *)
(***************************************************************************)
EXTENDS Timeline, Sequences, SequencesExt

CONSTANTS Byte,             \* values of a byte
          Size,             \* field -> its bytes
          ProtocolMajor, ProtocolMinor,
          BytesPerSample,
          MaxSamples,       \* MAX_SAMPLES_PER_FRAME
          MaxFrameBytes     \* MAX_FRAME_BYTES

\* The fields in the order of the layout "<BBHIqQHH".
Fields == << "protocol_major", "header_size_bytes", "stream_ordinal", "sequence",
             "start_sample", "capture_monotonic_ns", "sample_count", "flags" >>

HeaderField == {Fields[k] : k \in DOMAIN Fields} \ {"header_size_bytes"}

\* The bytes of the first k fields.
Offset[k \in 0..Len(Fields)] == IF k = 0 THEN 0 ELSE Offset[k - 1] + Size[Fields[k]]
HeaderSize == Offset[Len(Fields)]

\* How many values n bytes have.
Power[n \in Nat] == IF n = 0 THEN 1 ELSE Byte * Power[n - 1]

UnsignedMax(f) == Power[Size[f]] - 1

ASSUME FrameAssumption ==
    /\ Byte \in Nat /\ Byte >= 2
    /\ \A k \in DOMAIN Fields : Size[Fields[k]] \in Nat \ {0}
    /\ HeaderSize <= UnsignedMax("header_size_bytes")
    /\ 2 * (MaxSampleOffset + 1) = Power[Size["start_sample"]]
    /\ ProtocolMajor \in 0..UnsignedMax("protocol_major")
    /\ ProtocolMinor \in Nat
    /\ BytesPerSample \in Nat \ {0}
    /\ MaxSamples \in Nat /\ MaxFrameBytes \in Nat

\* A peer of another major is not understood; one of a newer minor of this
\* major may send fields that are ignored.
IsMajorCompatible(version) == version.major = ProtocolMajor
IsForwardMinor(version) ==
    version.major = ProtocolMajor /\ version.minor > ProtocolMinor

PayloadBytes(header) == header.sample_count * BytesPerSample

-----------------------------------------------------------------------------
(* struct: little-endian fields without padding, start_sample signed.      *)

Pack(n, size) == [k \in 1..size |-> (n \div Power[k - 1]) % Byte]

Unpack(bytes) ==
    LET value[k \in 0..Len(bytes)] ==
            IF k = 0 THEN 0 ELSE value[k - 1] * Byte + bytes[Len(bytes) + 1 - k]
    IN  value[Len(bytes)]

Signed(n, size) == IF 2 * n < Power[size] THEN n ELSE n - Power[size]

\* The k-th field of a buffer that holds at least the header of this build.
Field(buffer, k) ==
    LET n == Unpack(SubSeq(buffer, Offset[k - 1] + 1, Offset[k]))
    IN  IF Fields[k] = "start_sample" THEN Signed(n, Size["start_sample"]) ELSE n

Raw(buffer) ==
    [f \in {Fields[k] : k \in DOMAIN Fields} |->
        Field(buffer, CHOOSE k \in DOMAIN Fields : Fields[k] = f)]

Packed(header, headerSize) ==
    FlattenSeq([k \in DOMAIN Fields |->
        Pack(IF Fields[k] = "header_size_bytes" THEN headerSize ELSE header[Fields[k]],
             Size[Fields[k]])])

-----------------------------------------------------------------------------
(* The codec.                                                              *)

FitsUnsigned(header) ==
    \A f \in HeaderField \ {"start_sample"} :
        0 <= header[f] /\ header[f] <= UnsignedMax(f)

EncodeHeader(header) ==
    IF ~FitsUnsigned(header) \/ ~ValidSampleOffset(header.start_sample)
    THEN Raise(MalformedHeader)
    ELSE IF header.sample_count > MaxSamples THEN Raise(FrameTooLarge)
    ELSE Return(Packed(header, HeaderSize))

Framed(encoded, payload) ==
    IF encoded.error # NoError THEN encoded
    ELSE IF Len(encoded.value \o payload) > MaxFrameBytes
    THEN Raise(FrameTooLarge)
    ELSE Return(encoded.value \o payload)

EncodeFrame(header, payload) ==
    IF Len(payload) # PayloadBytes(header) THEN Raise(MalformedHeader)
    ELSE Framed(EncodeHeader(header), payload)

\* Faulty variant: a header longer than this build's is refused.
HeaderSizeIsKnown(raw, buffer) == raw.header_size_bytes = HeaderSize

HeaderSizeFits(raw, buffer) ==
    raw.header_size_bytes \in HeaderSize..Len(buffer)

\* Faulty variant: the payload is expected where this build's header ends.
KnownPayloadOffset(raw) == HeaderSize

PayloadOffset(raw) == raw.header_size_bytes

\* Nothing of another major is trusted, and the payload begins where the
\* frame says, not where this build's own header would end.
Validated(raw, buffer) ==
    IF raw.protocol_major # ProtocolMajor THEN Raise(UnsupportedMajor)
    ELSE IF ~HeaderSizeFits(raw, buffer) THEN Raise(MalformedHeader)
    ELSE IF raw.sample_count > MaxSamples THEN Raise(FrameTooLarge)
    ELSE IF ~ValidSampleOffset(raw.start_sample) THEN Raise(MalformedHeader)
    ELSE Return([ header |-> [f \in HeaderField |-> raw[f]],
                  payload_offset |-> PayloadOffset(raw) ])

DecodeHeader(buffer) ==
    IF Len(buffer) < HeaderSize THEN Raise(MalformedHeader)
    ELSE Validated(Raw(buffer), buffer)

Unframed(decoded, buffer) ==
    LET header == decoded.value.header
        payload == SubSeq(buffer, decoded.value.payload_offset + 1, Len(buffer))
    IN  IF decoded.error # NoError THEN decoded
        ELSE IF Len(payload) # PayloadBytes(header) THEN Raise(MalformedHeader)
        ELSE Return([header |-> header, payload |-> payload])

DecodeFrame(buffer) ==
    IF Len(buffer) > MaxFrameBytes THEN Raise(FrameTooLarge)
    ELSE Unframed(DecodeHeader(buffer), buffer)

=============================================================================
