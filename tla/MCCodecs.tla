------------------------------ MODULE MCCodecs ------------------------------
(***************************************************************************)
(* Envelopes in base 8 (texts of up to 63 bytes) and point clouds of up to *)
(* four points.                                                            *)
(***************************************************************************)
EXTENDS Codecs

Text(n) == [i \in 1..n |-> i % 8]
Plain == [version |-> 1, kind |-> 0, sequence |-> 1, time |-> 1, header_sequence |-> 1,
          source_host |-> Text(2), ros_type |-> Text(1), ros_md5 |-> Text(3), frame_id |-> <<>>,
          payload |-> <<5>>]
MCEnvelopes ==
  {[Plain EXCEPT !.kind = k, !.payload = Text(n)] : k \in 0..4, n \in 0..4}
    \cup {[Plain EXCEPT !.time = t, !.sequence = s] :
            t \in {-1, 0, -(8^8 \div 2), 8^8 \div 2 - 1}, s \in {0, 8^8 - 1}}
    \cup {[Plain EXCEPT !.frame_id = Text(n), !.header_sequence = 8^4 - 1] : n \in {7, 8, 63, 64, 65}}
    \cup {[Plain EXCEPT !.version = 2]}

F(name, type, offset) == [name |-> name, type |-> type, count |-> 1, offset |-> offset]
Xyz == <<F("x", "FLOAT32", 0), F("y", "FLOAT32", 4), F("z", "FLOAT32", 8)>>
Layouts ==
  {<<Xyz, 12>>, <<Xyz, 14>>,
   <<Append(Xyz, F("rgb", "FLOAT32", 12)), 17>>,
   <<Append(Xyz, F("rgba", "UINT32", 13)), 17>>,
   <<Append(Xyz, F("intensity", "FLOAT32", 12)), 16>>,
   <<<<F("ring", "UINT16", 0), F("z", "FLOAT32", 2), F("x", "FLOAT32", 6), F("y", "FLOAT32", 10)>>, 14>>,
   <<Xyz \o <<F("r", "UINT8", 12), F("g", "UINT8", 14), F("b", "UINT8", 13)>>, 15>>,
   <<Xyz \o <<F("b", "UINT8", 12), F("g", "UINT8", 13), F("r", "UINT8", 14), F("a", "UINT8", 15)>>, 16>>,
   <<Xyz \o <<F("rgba", "UINT8", 12), F("r", "UINT8", 13)>>, 14>>}
Invalid ==
  {<<Append(Xyz, F("rgb", "FLOAT32", 10)), 16>>, <<Append(Xyz, F("dist", "FLOAT64", 8)), 16>>,
   <<Append(Xyz, F("t", "FLOAT32", 9)), 12>>, <<Append(Xyz, Xyz[1]), 12>>, <<SubSeq(Xyz, 1, 2), 12>>,
   <<<<F("x", "FLOAT64", 0), F("y", "FLOAT32", 8), F("z", "FLOAT32", 12)>>, 16>>}
Shapes == {<<1, 1, 0>>, <<2, 1, 1>>, <<2, 2, 0>>, <<1, 2, 2>>, <<3, 1, 0>>, <<0, 0, 3>>, <<0, 2, 1>>}

\* A message of shape s: width, height and padding of each row.
Message(layout, s, big) ==
  LET row == s[1] * layout[2] + s[3] IN
  [width |-> s[1], height |-> s[2], point_step |-> layout[2], row_step |-> row,
   fields |-> layout[1], bigendian |-> big, data |-> [i \in 1..(row * s[2]) |-> i]]
Good == {Message(l, s, b) : l \in Layouts, s \in Shapes, b \in BOOLEAN}
MCClouds ==
  Good \cup {Message(l, <<2, 1, 0>>, FALSE) : l \in Invalid}
    \cup {[Message(<<Xyz, 12>>, <<2, 1, 0>>, FALSE) EXCEPT !.row_step = 23],
          [Message(<<Xyz, 12>>, <<2, 1, 0>>, FALSE) EXCEPT !.height = 0],
          [Message(<<Xyz, 12>>, <<0, 1, 4>>, FALSE) EXCEPT !.point_step = 0]}
=============================================================================
