--------------------------- MODULE PointCloudCodec ---------------------------
(***************************************************************************)
(* Point clouds through TopicFactory::ptCloudProcess and                   *)
(* DracoPointCloudCodec.  Positions and colours of the points go through   *)
(* Draco, every other byte of the message through the sidecar.             *)
(*                                                                         *)
(* Draco is external: it returns the points in an order of its own, with   *)
(* exact indices and colours and with quantised positions.  Bytes are      *)
(* integers that the codec only moves, so the message carries a different  *)
(* number in each byte, and Draco turns the bytes of a position into their *)
(* negatives: what ends up where is visible in the decoded message.        *)
(* A message is [width, height, point_step, row_step, fields, bigendian,   *)
(* data]; a field is [name, type, count, offset].  Offsets start at 0.     *)
(***************************************************************************)
EXTENDS Integers, Sequences, FiniteSets, SequencesExt

CONSTANTS
  Clouds,     \* messages a ROS publisher may send
  MaxPoints   \* the largest number of points a message may have (2^31 - 1)

\* The messages a publisher sends have these fields (sensor_msgs::PointCloud2).
PointField == [name : STRING, type : STRING, count : Nat, offset : Nat]
PointCloud2 ==
  [width : Nat, height : Nat, point_step : Nat, row_step : Nat,
   fields : Seq(PointField), bigendian : BOOLEAN, data : Seq(Int)]
ASSUME CloudsAssumption == Clouds \subseteq PointCloud2

VARIABLES cloud, packet, result, step

cloudVars == <<cloud, packet, result, step>>

\* Absent and NoLayout stand for null pointers and a failed parse.
Absent == [name |-> "", type |-> "", count |-> 0, offset |-> 0]

DatatypeSize(type) ==
  CASE type \in {"INT8", "UINT8"} -> 1
    [] type \in {"INT16", "UINT16"} -> 2
    [] type \in {"INT32", "UINT32", "FLOAT32"} -> 4
    [] type = "FLOAT64" -> 8
    [] OTHER -> 0

Size(f) == DatatypeSize(f.type) * f.count
FieldFits(f, point_step) == Size(f) > 0 /\ f.offset <= point_step /\ Size(f) <= point_step - f.offset
Span(f) == f.offset..(f.offset + Size(f) - 1)
SpansOverlap(f, g) == Span(f) \cap Span(g) # {}

FindField(fields, name) ==
  LET first == {i \in DOMAIN fields : /\ fields[i].name = name
                                     /\ \A j \in 1..(i - 1) : fields[j].name # name} IN
  IF first = {} THEN Absent ELSE fields[CHOOSE i \in first : TRUE]

\* IsFloat32Scalar, IsUint8Scalar and IsPackedColor.
IsScalar(f, types, point_step) == f.type \in types /\ f.count = 1 /\ FieldFits(f, point_step)

\* The colour fields that take part: packed, three or four separate ones, or none.
ColorFields(fields, point_step) ==
  LET packed(f) == IsScalar(f, {"FLOAT32", "UINT32"}, point_step)
      byte(f)   == IsScalar(f, {"UINT8"}, point_step)
      field(n)  == FindField(fields, n) IN
  IF packed(field("rgba")) THEN <<field("rgba")>>
  ELSE IF packed(field("rgb")) THEN <<field("rgb")>>
  ELSE IF ~(byte(field("r")) /\ byte(field("g")) /\ byte(field("b"))) THEN <<>>
  ELSE IF field("a") = Absent THEN <<field("r"), field("g"), field("b")>>
  ELSE IF byte(field("a")) THEN <<field("r"), field("g"), field("b"), field("a")>>
  ELSE <<>>

Position(fields) == <<FindField(fields, "x"), FindField(fields, "y"), FindField(fields, "z")>>

\* ParseLayout: every field fits, x, y and z are floats, and no field overlaps an encoded one.
LayoutValid(fields, point_step) ==
  LET encoded == Position(fields) \o ColorFields(fields, point_step) IN
  /\ point_step > 0
  /\ \A i \in DOMAIN fields : FieldFits(fields[i], point_step)
  /\ \A i \in 1..3 : IsScalar(Position(fields)[i], {"FLOAT32"}, point_step)
  /\ \A i, j \in DOMAIN encoded : i # j => ~SpansOverlap(encoded[i], encoded[j])
  /\ \A i \in DOMAIN fields :
       \/ fields[i] \in Range(encoded) /\ \A j \in 1..(i - 1) : fields[j] # fields[i]
       \/ \A e \in Range(encoded) : ~SpansOverlap(fields[i], e)

Encoded(fields, point_step) == UNION {Span(f) : f \in Range(Position(fields) \o ColorFields(fields, point_step))}

\* ValidateMessageStorage
StorageValid(m) ==
  /\ m.height = 0 => m.width = 0
  /\ m.width * m.point_step <= m.row_step
  /\ m.row_step * m.height = Len(m.data)
  /\ m.width * m.height <= MaxPoints
  /\ m.width * m.height > 0 => m.point_step > 0

\* Offset in the message of point i and of its bytes; data is a sequence and starts at 1.
PointDataOffset(m, i) == (i \div m.width) * m.row_step + (i % m.width) * m.point_step
Slice(m, at, n) == SubSeq(m.data, at + 1, at + n)
Points(m) == 0..(m.width * m.height - 1)

\* A 32 bit value as its four bytes, the most significant one first.
ReadUint32(bytes, bigendian) == IF bigendian THEN bytes ELSE Reverse(bytes)
WriteUint32(value, bigendian) == IF bigendian THEN value ELSE Reverse(value)

\* The offsets of the data that are not encoded: bytes of points outside the mask, and the
\* padding of each row.
\* Faulty variant of SidecarOffsets: the padding of the rows is left out.
Offsets(m) == 0..(m.row_step * m.height - 1)
SidecarOffsetsNoPadding(m) ==
  {o \in Offsets(m) :
    /\ o % m.row_step < m.width * m.point_step
    /\ (o % m.row_step) % m.point_step \notin Encoded(m.fields, m.point_step)}
SidecarOffsets(m) ==
  {o \in Offsets(m) :
    \/ o % m.row_step >= m.width * m.point_step
    \/ (o % m.row_step) % m.point_step \notin Encoded(m.fields, m.point_step)}

\* The place in the sidecar of the byte at one of the offsets: they are walked in ascending order.
SidecarPlace(offsets, o) == Cardinality({x \in offsets : x <= o})

ExtractSidecar(m) ==
  LET offsets == SidecarOffsets(m) IN
  [k \in 1..Cardinality(offsets) |->
     m.data[(CHOOSE o \in offsets : SidecarPlace(offsets, o) = k) + 1]]

\* RestoreSidecar as pairs of an offset in the message and the value of its byte.
RestoreSidecar(m, sidecar) ==
  LET offsets == SidecarOffsets(m) IN
  {<<o, sidecar[SidecarPlace(offsets, o)]>> : o \in offsets}

\* ReadColor gives red, green, blue, alpha; WriteColor puts them back where they were.
ReadColor(m, at) ==
  LET fs == ColorFields(m.fields, m.point_step) IN
  IF Len(fs) = 1
  THEN LET v == ReadUint32(Slice(m, at + fs[1].offset, 4), m.bigendian) IN <<v[2], v[3], v[4], v[1]>>
  ELSE [k \in 1..4 |-> IF k <= Len(fs) THEN m.data[at + fs[k].offset + 1] ELSE 255]
ColorBytes(m, color) ==
  LET fs == ColorFields(m.fields, m.point_step) IN
  IF Len(fs) = 1
  THEN LET v == WriteUint32(<<color[4], color[1], color[2], color[3]>>, m.bigendian) IN
       {<<fs[1].offset + k - 1, v[k]>> : k \in 1..4}
  ELSE {<<fs[k].offset, color[k]>> : k \in DOMAIN fs}
-----------------------------------------------------------------------------
(* Encode and Decode                                                       *)

FormatVersion == 2

DracoPoint(m, i) ==
  LET at == PointDataOffset(m, i) IN
  [index |-> i,
   pos   |-> [k \in 1..3 |-> ReadUint32(Slice(m, at + Position(m.fields)[k].offset, 4), m.bigendian)],
   color |-> IF ColorFields(m.fields, m.point_step) = <<>> THEN <<>> ELSE ReadColor(m, at)]

DracoEncode(m) ==
  LET layout == Points(m) # {}
      shape  == [m EXCEPT !.data = <<>>] IN
  IF StorageValid(m) /\ (layout => LayoutValid(m.fields, m.point_step))
  THEN {[version    |-> FormatVersion,
         point_type |-> IF layout /\ ColorFields(m.fields, m.point_step) # <<>> THEN "xyzrgb" ELSE "xyz",
         shape      |-> shape,
         sidecar    |-> IF layout THEN ExtractSidecar(m) ELSE m.data,
         payload    |-> [n \in 1..Cardinality(Points(m)) |-> DracoPoint(m, n - 1)]]}
  ELSE {}

\* Bytes of a decoded point, as pairs of an offset in the message and a value.
PointBytes(m, p) ==
  LET at == PointDataOffset(m, p.index) IN
  {<<at + Position(m.fields)[k].offset + b - 1, WriteUint32(p.pos[k], m.bigendian)[b]>> :
     k \in 1..3, b \in 1..4}
    \cup (IF p.color = <<>> THEN {} ELSE {<<at + c[1], c[2]>> : c \in ColorBytes(m, p.color)})

\* Faulty variant of IndicesRestored: an index may come back twice.
IndicesRestoredTwice(m, points) == \A n \in DOMAIN points : points[n].index \in Points(m)
IndicesRestored(m, points) ==
  /\ \A n \in DOMAIN points : points[n].index \in Points(m)
  /\ \A n, k \in DOMAIN points : n # k => points[n].index # points[k].index

\* The message with the bytes of these pairs at their offsets, and zero elsewhere.
Written(m, bytes) ==
  [m EXCEPT !.data = [k \in DOMAIN m.data |->
     LET at == {b \in bytes : b[1] = k - 1} IN
     IF at = {} THEN 0 ELSE (CHOOSE b \in at : TRUE)[2]]]

\* points is what Draco's decoder makes of the payload.
DracoDecode(p, points) ==
  LET m == [p.shape EXCEPT !.data = [k \in 1..(p.shape.row_step * p.shape.height) |-> 0]]
      count == Cardinality(Points(m)) IN
  IF p.version # FormatVersion \/ ~StorageValid(m) THEN {}
  ELSE IF count = 0
  THEN IF points = <<>> /\ Len(p.sidecar) = Len(m.data) THEN {[m EXCEPT !.data = p.sidecar]} ELSE {}
  ELSE IF /\ LayoutValid(m.fields, m.point_step)
          /\ p.point_type \in {"xyz", "xyzrgb"}
          /\ (p.point_type = "xyzrgb") <=> (ColorFields(m.fields, m.point_step) # <<>>)
          /\ Len(p.sidecar) = Cardinality(SidecarOffsets(m))
          /\ Len(points) = count /\ IndicesRestored(m, points)
  THEN {Written(m, RestoreSidecar(m, p.sidecar) \cup UNION {PointBytes(m, points[n]) : n \in DOMAIN points})}
  ELSE {}

\* Draco (external): any order, quantised positions.
Quantized(v) == [k \in DOMAIN v |-> -v[k]]
DracoOutputs(payload) ==
  {[n \in DOMAIN payload |->
      [payload[order[n]] EXCEPT !.pos = [k \in 1..3 |-> Quantized(@[k])]]] :
     order \in {f \in [DOMAIN payload -> DOMAIN payload] : IsInjective(f)}}
-----------------------------------------------------------------------------
NoPacket == <<>>
CloudInit == cloud \in Clouds /\ packet = NoPacket /\ result = {} /\ step = "source"

\* ptCloudProcess with the Draco codec: a cloud that cannot be encoded is dropped.
PtCloudProcess ==
  /\ step = "source"
  /\ step' = IF DracoEncode(cloud) = {} THEN "dropped" ELSE "packed"
  /\ packet' = IF DracoEncode(cloud) = {} THEN NoPacket
               ELSE CHOOSE p \in DracoEncode(cloud) : TRUE
  /\ UNCHANGED <<cloud, result>>

Decode ==
  /\ step = "packed"
  /\ \E points \in DracoOutputs(packet.payload) : result' = DracoDecode(packet, points)
  /\ step' = "decoded"
  /\ UNCHANGED <<cloud, packet>>

\* A packet whose parts do not belong together, as a sender with another layout, format or
\* codec version would make it.
DecodeDamaged ==
  /\ step = "packed" /\ packet.payload # <<>>
  /\ LET points == packet.payload
         n == Len(points)
         other == IF packet.point_type = "xyz" THEN "xyzrgb" ELSE "xyz" IN
     \E damaged \in {<<[packet EXCEPT !.version = 1], points>>,
                     <<[packet EXCEPT !.point_type = other], points>>,
                     <<[packet EXCEPT !.sidecar = Append(@, 0)], points>>,
                     <<[packet EXCEPT !.shape.width = @ + 1], points>>,
                     <<packet, Tail(points)>>,
                     <<packet, [points EXCEPT ![1].index = n]>>} \cup
                    {<<packet, [points EXCEPT ![1].index = points[n].index]>> : k \in 2..n} :
       result' = DracoDecode(damaged[1], damaged[2])
  /\ step' = "damaged"
  /\ UNCHANGED <<cloud, packet>>

CloudNext == PtCloudProcess \/ Decode \/ DecodeDamaged
-----------------------------------------------------------------------------
PositionOffsets(m) ==
  {PointDataOffset(m, i) + b : i \in Points(m), b \in UNION {Span(f) : f \in Range(Position(m.fields))}}

\* CloudRestored: whatever order Draco returns the points in, each byte of the decoded cloud is
\* the byte the sender had there; only x, y and z of a point are its own quantised ones.
CloudRestored ==
  step = "decoded" =>
    result = {[cloud EXCEPT !.data = [k \in DOMAIN cloud.data |->
                 IF k - 1 \in PositionOffsets(cloud) THEN -cloud.data[k] ELSE cloud.data[k]]]}

\* DamagedRejected: a packet whose sidecar, metadata and points do not fit together is
\* rejected as a whole, never published with bytes of another point or left at zero.
DamagedRejected == step = "damaged" => result = {}
=============================================================================
