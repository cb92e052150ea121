---------------------------- MODULE EnvelopeCodec ----------------------------
(***************************************************************************)
(* The NBZ1 envelope: EncodeEnvelope and DecodeEnvelope, with a link that  *)
(* may shorten, lengthen or change what it carries.                        *)
(*                                                                         *)
(* A byte is a digit of base Base (256 in the code), so that the limits of *)
(* the length fields are within reach of the checker; the widths of the    *)
(* fields, in bytes, are those of the code.  A text is its sequence of     *)
(* bytes.  Encode and Decode yield the empty set where the code returns    *)
(* false, and the set of the result otherwise.                             *)
(***************************************************************************)
EXTENDS Integers, Sequences

CONSTANTS
  Base,         \* values of a byte
  MaxPayload,   \* kMaxEnvelopePayloadBytes
  Envelopes,    \* envelopes the bridge may hand to EncodeEnvelope
  Damage        \* digits the link may put in place of others

ASSUME CodecAssumption == Base \in Nat /\ Base > 5 /\ MaxPayload \in Nat

VARIABLES envelope, wire, stage

envelopeVars == <<envelope, wire, stage>>

Digit   == 0..(Base - 1)
Base2   == Base * Base
Base4   == Base2 * Base2
Modulus == Base4 * Base4

Magic == <<2, 3, 4, 1>>
Version == 1
LastKind == 4    \* PayloadKind::kServiceResponse

\* TransportEnvelope: each field over the values of its type, the time a signed one.
TransportEnvelope ==
  [version : 0..(Base2 - 1), kind : 0..LastKind, sequence : 0..(Modulus - 1),
   time : (Modulus \div 2 - Modulus)..(Modulus \div 2 - 1), header_sequence : 0..(Base4 - 1),
   source_host : Seq(Digit), ros_type : Seq(Digit), ros_md5 : Seq(Digit), frame_id : Seq(Digit),
   payload : Seq(Digit)]

ASSUME EnvelopesAssumption == Envelopes \subseteq TransportEnvelope /\ Damage \subseteq Digit

\* Big-endian digits of an unsigned value as wide as its type: the more significant half first.
AppendUnsigned16(value) == <<value \div Base, value % Base>>
AppendUnsigned32(value) == AppendUnsigned16(value \div Base2) \o AppendUnsigned16(value % Base2)
AppendUnsigned64(value) == AppendUnsigned32(value \div Base4) \o AppendUnsigned32(value % Base4)

ReadUnsigned16(data, at) == data[at] * Base + data[at + 1]
ReadUnsigned32(data, at) == ReadUnsigned16(data, at) * Base2 + ReadUnsigned16(data, at + 2)
ReadUnsigned64(data, at) == ReadUnsigned32(data, at) * Base4 + ReadUnsigned32(data, at + 4)

\* The casts between int64_t and uint64_t.
ToUnsigned(n) == IF n < 0 THEN n + Modulus ELSE n
ToSigned(n) == IF n < Modulus \div 2 THEN n ELSE n - Modulus

\* The length is cut to its field, as the cast does; Encodable refuses the texts it would cut.
AppendString(text) == AppendUnsigned16(Len(text) % Base2) \o text

Texts(e) == {e.source_host, e.ros_type, e.ros_md5, e.frame_id}

\* Faulty variant of Encodable: texts are not checked against the width of their length.
EncodableAnyText(e) == e.version = Version /\ Len(e.payload) <= MaxPayload
Encodable(e) ==
  /\ e.version = Version
  /\ Len(e.payload) <= MaxPayload /\ Len(e.payload) < Base4
  /\ \A text \in Texts(e) : Len(text) < Base2

Header(e) ==
  Magic \o AppendUnsigned16(e.version) \o <<e.kind, 0>> \o AppendUnsigned64(e.sequence)
    \o AppendUnsigned64(ToUnsigned(e.time)) \o AppendUnsigned32(e.header_sequence)

EncodeEnvelope(e) ==
  IF Encodable(e)
  THEN {Header(e) \o AppendString(e.source_host) \o AppendString(e.ros_type)
          \o AppendString(e.ros_md5) \o AppendString(e.frame_id)
          \o AppendUnsigned32(Len(e.payload)) \o e.payload}
  ELSE {}

HeaderSize == 28

\* ReadString at the cursor; a cursor of 0 stands for a failed read.
StringEnd(data, at) ==
  IF at = 0 \/ Len(data) - at + 1 < 2 THEN 0
  ELSE LET length == ReadUnsigned16(data, at) IN
       IF Len(data) - (at + 2) + 1 < length THEN 0 ELSE at + 2 + length
StringAt(data, at) == SubSeq(data, at + 2, StringEnd(data, at) - 1)

\* The cursor at each of the four texts and behind the last one.
HostAt == HeaderSize + 1
TypeAt(data)    == StringEnd(data, HostAt)
Md5At(data)     == StringEnd(data, TypeAt(data))
FrameAt(data)   == StringEnd(data, Md5At(data))
PayloadAt(data) == StringEnd(data, FrameAt(data))

\* Faulty variant of HeaderOK: any version is accepted.
HeaderOKAnyVersion(data) ==
  Len(data) >= HeaderSize /\ SubSeq(data, 1, 4) = Magic /\ data[7] <= LastKind
HeaderOK(data) ==
  /\ Len(data) >= HeaderSize
  /\ SubSeq(data, 1, 4) = Magic
  /\ ReadUnsigned16(data, 5) = Version
  /\ data[7] <= LastKind

\* Faulty variant of PayloadOK: bytes after the payload are accepted.
PayloadOKTrailing(data, at) ==
  /\ at > 0 /\ Len(data) - at + 1 >= 4
  /\ ReadUnsigned32(data, at) <= MaxPayload
  /\ Len(data) - (at + 4) + 1 >= ReadUnsigned32(data, at)
PayloadOK(data, at) ==
  /\ at > 0 /\ Len(data) - at + 1 >= 4
  /\ ReadUnsigned32(data, at) <= MaxPayload
  /\ Len(data) - (at + 4) + 1 = ReadUnsigned32(data, at)

DecodeEnvelope(data) ==
  IF HeaderOK(data) /\ PayloadOK(data, PayloadAt(data))
  THEN {[version |-> ReadUnsigned16(data, 5), kind |-> data[7],
         sequence |-> ReadUnsigned64(data, 9), time |-> ToSigned(ReadUnsigned64(data, 17)),
         header_sequence |-> ReadUnsigned32(data, 25),
         source_host |-> StringAt(data, HostAt), ros_type |-> StringAt(data, TypeAt(data)),
         ros_md5 |-> StringAt(data, Md5At(data)), frame_id |-> StringAt(data, FrameAt(data)),
         payload |-> SubSeq(data, PayloadAt(data) + 4, Len(data))]}
  ELSE {}

ValidateEnvelopeMetadata(e, type, md5) ==
  e.version = Version /\ e.ros_type = type /\ e.ros_md5 = md5
-----------------------------------------------------------------------------
EnvelopeInit == envelope \in Envelopes /\ wire = <<>> /\ stage = "built"

Encode ==
  /\ stage = "built"
  /\ stage' = IF EncodeEnvelope(envelope) = {} THEN "refused" ELSE "sent"
  /\ wire' = IF EncodeEnvelope(envelope) = {} THEN <<>>
             ELSE CHOOSE bytes \in EncodeEnvelope(envelope) : TRUE
  /\ UNCHANGED envelope

Link(bytes, s) == stage = "sent" /\ stage' = s /\ wire' = bytes /\ UNCHANGED envelope

Deliver  == Link(wire, "intact")
Truncate == \E n \in 0..(Len(wire) - 1) : Link(SubSeq(wire, 1, n), "resized")
Extend   == \E d \in Damage : Link(Append(wire, d), "resized")
Corrupt  == \E i \in DOMAIN wire, d \in Damage :
              wire[i] # d /\ Link([wire EXCEPT ![i] = d], "corrupt")

EnvelopeNext == Encode \/ Deliver \/ Truncate \/ Extend \/ Corrupt
-----------------------------------------------------------------------------
\* EnvelopeRoundTrip: what arrives intact decodes to the envelope that was encoded, also at
\* the limits of the length fields and with negative times; and it passes the check of type
\* and MD5 of its own topic.
EnvelopeRoundTrip ==
  stage = "intact" =>
    /\ DecodeEnvelope(wire) = {envelope}
    /\ ValidateEnvelopeMetadata(envelope, envelope.ros_type, envelope.ros_md5)

\* ResizedRejected: an envelope that lost bytes at its end or has more of them is rejected.
ResizedRejected == stage = "resized" => DecodeEnvelope(wire) = {}

\* AcceptedIsCanonical: whatever DecodeEnvelope accepts, damaged or not, EncodeEnvelope would
\* produce, up to the reserved flags: no length field is read past the end or beyond a limit.
AcceptedIsCanonical ==
  stage = "corrupt" =>
    \A e \in DecodeEnvelope(wire) : EncodeEnvelope(e) = {[wire EXCEPT ![8] = 0]}
=============================================================================
