------------------------------- MODULE Stream -------------------------------
(***************************************************************************)
(* Audio frames on their way from a client to the gateway: the codec, the  *)
(* gap measurement, the version rules and the stream allocator at work.    *)
(*                                                                         *)
(* Client, transport and gateway are empty directories at this commit, so  *)
(* they are external and kept to what the protocol says of them.  A client *)
(* captures samples, encodes some as frames and loses others to overflow   *)
(* or a device glitch.  A frame may get lost, arrive late or again, also   *)
(* after its stream has ended, and arrive cut short; a peer may send what  *)
(* this build would never send.  The gateway decodes, leaves alone frames  *)
(* of other streams, measures the gap to the frame before and records; a   *)
(* fatal code ends the connection, and the next one opens a new stream.    *)
(***************************************************************************)
EXTENDS Frame, Identifiers

CONSTANTS Versions,    \* versions of the clients that connect
          Counts,      \* samples a client puts in a frame
          Glitches,    \* samples a client loses at once
          Foreign,     \* malformed buffers, which no conforming client sends
          Missing,     \* a sample the gateway never got
          MaxCapture,  \* bound: samples of a stream
          MaxSent,     \* bound: frames on the wire
          MaxStreams   \* bound: streams of the session

ASSUME StreamAssumption ==
    /\ Counts \subseteq Nat /\ Glitches \subseteq Nat
    /\ MaxCapture \in Nat /\ MaxSent \in Nat /\ MaxStreams \in Nat
    \* A header of one more byte fits its field and its frame the limit, as
    \* 28 + 1 <= 255 and 28 + 1 + 8000 * 2 <= 16384 do.
    /\ HeaderSize + 1 <= UnsignedMax("header_size_bytes")
    /\ HeaderSize + 1 + MaxSamples * BytesPerSample <= MaxFrameBytes
    /\ \A buffer \in Foreign : /\ buffer \in Seq(0..(Byte - 1))
                              /\ DecodeFrame(buffer).error # NoError

VARIABLES streams,     \* how many stream ids the allocator has issued
          connection,  \* "none", "open", "refused" or the code that ended it
          peer,        \* version of the client
          captured,    \* samples the client has captured in its stream
          sequence,    \* frames the client has sent in its stream
          wire,        \* the frames sent, never removed: any may arrive again
          arrived,     \* the last of them that has arrived in order
          previous,    \* start and count of the last frame recorded
          tape,        \* the gateway's recording of the stream
          disturbed    \* a frame of this stream was duplicated, late or damaged

client == <<streams, peer, captured, sequence, wire>>
gateway == <<connection, previous, tape>>
vars == <<client, gateway, arrived, disturbed>>

\* The ordinal of the current stream: the N of its id "stream-N".
Ordinal == ParseOrdinal(Allocate("stream-", streams - 1))

\* Neighbouring samples differ, and so do the streams' at one position.
Captured(stream, position) ==
    Pack((position + stream) % Power[BytesPerSample], BytesPerSample)

Payload(start, count) ==
    FlattenSeq([k \in 1..count |-> Captured(streams, start + k - 1)])

Header(count) ==
    [ protocol_major |-> peer.major, stream_ordinal |-> Ordinal,
      sequence |-> sequence, start_sample |-> captured,
      capture_monotonic_ns |-> captured % Byte, sample_count |-> count,
      flags |-> 0 ]

\* A newer minor appends a field of one byte to its header and says so.
EncodedByPeer(header, payload) ==
    IF EncodeFrame(header, payload).error = NoError /\ IsForwardMinor(peer)
    THEN Return(Packed(header, HeaderSize + 1) \o <<1>> \o payload)
    ELSE EncodeFrame(header, payload)

Init ==
    /\ streams = 0
    /\ connection = "none"
    /\ peer = [major |-> ProtocolMajor, minor |-> ProtocolMinor]
    /\ captured = 0
    /\ sequence = 0
    /\ wire = <<>>
    /\ arrived = 0
    /\ previous = [start_sample |-> 0, sample_count |-> 0]
    /\ tape = <<>>
    /\ disturbed = FALSE

Connect(version) ==
    /\ connection # "open"
    /\ streams < MaxStreams
    /\ IsMajorCompatible(version)
    /\ streams' = streams + 1
    /\ connection' = "open"
    /\ peer' = version
    /\ captured' = 0
    /\ sequence' = 0
    /\ arrived' = Len(wire)
    /\ previous' = [start_sample |-> 0, sample_count |-> 0]
    /\ tape' = <<>>
    /\ disturbed' = FALSE
    /\ UNCHANGED wire

RefusePeer(version) ==
    /\ connection \notin {"open", "refused"}
    /\ ~IsMajorCompatible(version)
    /\ connection' = "refused"
    /\ UNCHANGED <<client, previous, tape, arrived, disturbed>>

Advance(count) ==
    /\ connection = "open"
    /\ captured + count <= MaxCapture
    /\ captured' = captured + count

\* A frame that the encoder refuses is never sent; its samples are lost.
Send(count) ==
    /\ Advance(count)
    /\ Len(wire) < MaxSent
    /\ \E header \in {Header(count)}, payload \in {Payload(captured, count)} :
       \E encoded \in {EncodedByPeer(header, payload)} :
          \/ /\ encoded.error # NoError
             /\ UNCHANGED <<sequence, wire>>
          \/ /\ encoded.error = NoError
             /\ sequence' = sequence + 1
             /\ wire' = Append(wire, [ stream |-> streams, bytes |-> encoded.value,
                                       header |-> header, payload |-> payload ])
    /\ UNCHANGED <<streams, peer, gateway, arrived, disturbed>>

Lose(count) ==
    /\ Advance(count)
    /\ UNCHANGED <<streams, peer, sequence, wire, gateway, arrived, disturbed>>

Fail(code) ==
    /\ connection' = IF code \in FatalCodes THEN code ELSE connection
    /\ UNCHANGED <<previous, tape>>

Record(header, payload, gap) ==
    /\ previous' = [ start_sample |-> header.start_sample,
                     sample_count |-> header.sample_count ]
    /\ tape' = tape \o [k \in 1..gap.gap_samples |-> Missing]
                    \o [k \in 1..header.sample_count |->
                           SubSeq(payload, (k - 1) * BytesPerSample + 1,
                                           k * BytesPerSample)]
    /\ UNCHANGED connection

\* A readable frame; one of another stream is left alone.
Receive(header, payload) ==
    LET measured == MeasureGap(previous.start_sample, previous.sample_count,
                               header.start_sample)
    IN  IF header.stream_ordinal # Ordinal THEN UNCHANGED gateway
        ELSE IF measured.error # NoError THEN Fail(measured.error)
        ELSE Record(header, payload, measured.value)

\* What the gateway does with a buffer.
Handle(buffer) ==
    /\ connection = "open"
    /\ \E decoded \in {DecodeFrame(buffer)} :
          IF decoded.error # NoError THEN Fail(decoded.error)
          ELSE Receive(decoded.value.header, decoded.value.payload)

\* In order, with losses in between, or late or for a second time.
Arrive(k) ==
    /\ Handle(wire[k].bytes)
    /\ arrived' = IF k > arrived THEN k ELSE arrived
    /\ disturbed' = (disturbed \/ (k <= arrived /\ wire[k].stream = streams))
    /\ UNCHANGED client

ArriveCut(k, size) ==
    /\ Handle(SubSeq(wire[k].bytes, 1, size))
    /\ disturbed' = TRUE
    /\ UNCHANGED <<client, arrived>>

ArriveForeign(buffer) ==
    /\ Handle(buffer)
    /\ disturbed' = TRUE
    /\ UNCHANGED <<client, arrived>>

Next ==
    \/ \E version \in Versions : Connect(version) \/ RefusePeer(version)
    \/ \E count \in Counts : Send(count)
    \/ \E count \in Glitches : Lose(count)
    \/ \E k \in DOMAIN wire :
          \/ Arrive(k)
          \/ \E size \in {0, HeaderSize - 1, HeaderSize, Len(wire[k].bytes) - 1} :
                ArriveCut(k, size)
    \/ \E buffer \in Foreign : ArriveForeign(buffer)

Spec == Init /\ [][Next]_vars

-----------------------------------------------------------------------------
(* Properties.                                                             *)

StreamTypeOK ==
    /\ streams \in 0..MaxStreams
    /\ connection \in {"none", "open", "refused"} \cup FatalCodes
    /\ captured \in 0..MaxCapture
    /\ sequence \in Nat
    /\ arrived \in 0..Len(wire)
    /\ \A k \in DOMAIN wire :
          /\ wire[k].bytes \in Seq(0..(Byte - 1))
          /\ Len(wire[k].bytes) <= MaxFrameBytes
    /\ ValidSampleOffset(previous.start_sample)
    /\ Len(tape) = previous.start_sample + previous.sample_count
    /\ disturbed \in BOOLEAN

\* decode_frame undoes what an encoder did, field for field and byte for byte,
\* for every frame sent under this build's major, also one whose header a newer
\* minor made longer.  encode_header lets any other major out that fits its
\* field; such a frame is refused, and as UNSUPPORTED_MAJOR, whatever else is in
\* its header.
WireIsReadable ==
    /\ \A k \in DOMAIN wire :
          DecodeFrame(wire[k].bytes)
              = Return([header |-> wire[k].header, payload |-> wire[k].payload])
    /\ connection = "open" =>
          \A major \in 0..UnsignedMax("protocol_major") \ {ProtocolMajor},
             count \in Counts :
                \E encoded \in {EncodeFrame(
                        [Header(count) EXCEPT !.protocol_major = major],
                        Payload(captured, count))} :
                    encoded.error = NoError =>
                        DecodeFrame(encoded.value).error = UnsupportedMajor

\* Losses, glitches, short and empty frames, frames of earlier streams and
\* longer headers of a newer minor never end a connection; only duplicated,
\* late or damaged frames of the stream do.
NoFalseAlarm == connection \in FatalCodes => disturbed

\* Whatever is lost, repeated, reordered, cut or out of range, the recording
\* is a Tape: gaps keep their duration on it, and every sample on it is the one
\* captured there, in this stream.
Recording == INSTANCE Tape

ImplementsTape == Recording!Spec

=============================================================================
