---------------------------- MODULE CodecsProofs ----------------------------
(***************************************************************************)
(* Proofs about the two wire formats of Codecs.  For every base, limit,    *)
(* envelope and damage, EncodeEnvelope and DecodeEnvelope are inverse to   *)
(* each other, what was shortened or lengthened is rejected, and what is   *)
(* accepted is the encoding of what it decodes to.  For every point cloud  *)
(* and every order of its points, the Draco codec puts each byte back to   *)
(* where it was, and rejects a packet whose parts do not fit together.     *)
(***************************************************************************)
EXTENDS Codecs, SequenceTheorems, FiniteSetTheorems, TLAPS

(***************************************************************************)
(* Numbers.                                                                *)
(***************************************************************************)

\* Quotient and remainder of a value below N * M, and the value from them.
LEMMA DivBound ==
  ASSUME NEW M \in Nat, M > 0, NEW N \in Nat, NEW v \in 0..N * M - 1
  PROVE  /\ v \div M \in 0..N - 1 /\ v % M \in 0..M - 1
         /\ (v \div M) * M + (v % M) = v
<1>1. v \div M \in Nat /\ v % M \in 0..M - 1 /\ (v \div M) * M + (v % M) = v
  OBVIOUS
<1>2. PICK q, r : q = v \div M /\ r = v % M
  OBVIOUS
<1>3. q \in Nat /\ r \in Nat /\ q * M + r = v /\ v < N * M
  BY <1>1, <1>2
<1>4. q < N
  <2>1. ASSUME q >= N PROVE FALSE
    <3>1. q * M >= N * M
      BY <1>3, <2>1
    <3> QED
      BY <1>3, <3>1
  <2> QED
    BY <1>3, <2>1
<1> QED
  BY <1>1, <1>2, <1>3, <1>4

\* A value put together from two digits has these digits.
LEMMA DivUnique ==
  ASSUME NEW M \in Nat, M > 0, NEW h \in Nat, NEW l \in 0..M - 1
  PROVE  (h * M + l) \div M = h /\ (h * M + l) % M = l
OBVIOUS

\* Two digits in their ranges make a value in its range.
LEMMA JoinBound ==
  ASSUME NEW M \in Nat, M > 0, NEW N \in Nat, NEW h \in 0..N - 1, NEW l \in 0..M - 1
  PROVE  h * M + l \in 0..N * M - 1
<1>1. h * M <= (N - 1) * M
  OBVIOUS
<1>2. (N - 1) * M = N * M - M
  OBVIOUS
<1>3. h * M >= 0 /\ h * M \in Int /\ N * M \in Int
  OBVIOUS
<1> QED
  BY <1>1, <1>2, <1>3

\* A value is put together from two digits exactly when they are its quotient and remainder.
LEMMA Split ==
  ASSUME NEW M \in Nat, M > 0, NEW N \in Nat, NEW v \in 0..N * M - 1,
         NEW h \in 0..N - 1, NEW l \in 0..M - 1
  PROVE  h * M + l = v <=> h = v \div M /\ l = v % M
<1>1. h * M + l = v => h = v \div M /\ l = v % M
  BY DivUnique
<1>2. (v \div M) * M + (v % M) = v
  BY DivBound
<1> QED
  BY <1>1, <1>2

\* The sizes of the unsigned types; only that they are more than 5 is used of the base.
LEMMA Bases ==
  /\ Base \in Nat /\ Base > 5 /\ Base2 \in Nat /\ Base2 > 5 /\ Base4 \in Nat /\ Base4 > 5
  /\ Modulus \in Nat /\ Modulus > 5
<1>1. ASSUME NEW n \in Nat, n > 5 PROVE n * n \in Nat /\ n * n > 5
  <2>1. n * n >= 5 * n
    BY <1>1
  <2> QED
    BY <1>1, <2>1
<1>2. Base \in Nat /\ Base > 5
  BY CodecAssumption
<1>3. Base2 \in Nat /\ Base2 > 5
  BY <1>1, <1>2 DEF Base2
<1>4. Base4 \in Nat /\ Base4 > 5
  BY <1>1, <1>3 DEF Base4
<1>5. Modulus \in Nat /\ Modulus > 5
  BY <1>1, <1>4 DEF Modulus
<1> QED
  BY <1>2, <1>3, <1>4, <1>5

(***************************************************************************)
(* Pieces.  Piece(d, at, p): the sequence p stands in d at position at.    *)
(* The encoding of an envelope is a sequence of pieces, and each read of   *)
(* the decoder is about one piece.                                         *)
(***************************************************************************)

Bytes == Seq(Digit)

Piece(d, at, p) == at + Len(p) - 1 <= Len(d) /\ \A i \in 1..Len(p) : d[at + i - 1] = p[i]

\* Bytes put behind bytes.
LEMMA BytesConcat ==
  ASSUME NEW p \in Bytes, NEW q \in Bytes
  PROVE  p \o q \in Bytes /\ Len(p \o q) = Len(p) + Len(q) /\ Len(p) \in Nat /\ Len(q) \in Nat
BY ConcatProperties DEF Bytes

\* The length of a sequence of bytes.
LEMMA LenNat == \A p \in Bytes : Len(p) \in Nat
BY DEF Bytes

\* Behind one piece stands the next.
LEMMA PieceConcat ==
  ASSUME NEW d \in Bytes, NEW at \in Nat \ {0}, NEW p \in Bytes, NEW q \in Bytes
  PROVE  Piece(d, at, p \o q) <=> Piece(d, at, p) /\ Piece(d, at + Len(p), q)
<1>1. PICK pq, m, n : pq = p \o q /\ m = Len(p) /\ n = Len(q)
  OBVIOUS
<1>2. m \in Nat /\ n \in Nat /\ Len(pq) = m + n
  BY <1>1, ConcatProperties DEF Bytes
<1>3. \A i \in 1..m + n : pq[i] = IF i <= m THEN p[i] ELSE q[i - m]
  BY <1>1, ConcatProperties DEF Bytes
<1>4. \A i \in 1..m : pq[i] = p[i]
  BY <1>2, <1>3
<1>5. \A i \in 1..n : pq[m + i] = q[i]
  BY <1>2, <1>3
<1>6. Len(d) \in Nat
  BY DEF Bytes
<1>7. ASSUME Piece(d, at, p \o q) PROVE Piece(d, at, p) /\ Piece(d, at + Len(p), q)
  <2>1. at + (m + n) - 1 <= Len(d) /\ \A i \in 1..m + n : d[at + i - 1] = pq[i]
    BY <1>1, <1>2, <1>7 DEF Piece
  <2>2. \A i \in 1..m : d[at + i - 1] = p[i]
    BY <1>2, <1>4, <2>1
  <2>3. ASSUME NEW i \in 1..n PROVE d[(at + m) + i - 1] = q[i]
    <3>1. PICK j : j = m + i
      OBVIOUS
    <3>2. j \in 1..m + n /\ at + j - 1 = (at + m) + i - 1
      BY <1>2, <3>1
    <3>3. d[at + j - 1] = pq[j]
      BY <2>1, <3>2
    <3> QED
      BY <1>5, <3>1, <3>2, <3>3
  <2>4. at + m - 1 <= Len(d) /\ (at + m) + n - 1 <= Len(d)
    BY <1>2, <1>6, <2>1
  <2> QED
    BY <1>1, <2>2, <2>3, <2>4 DEF Piece
<1>8. ASSUME Piece(d, at, p), Piece(d, at + Len(p), q) PROVE Piece(d, at, p \o q)
  <2>1. \A i \in 1..m : d[at + i - 1] = p[i]
    BY <1>1, <1>8 DEF Piece
  <2>2. (at + m) + n - 1 <= Len(d) /\ \A i \in 1..n : d[(at + m) + i - 1] = q[i]
    BY <1>1, <1>8 DEF Piece
  <2>3. ASSUME NEW i \in 1..m + n PROVE d[at + i - 1] = pq[i]
    <3>1. CASE i <= m
      BY <1>2, <1>4, <2>1, <3>1
    <3>2. CASE ~(i <= m)
      <4>1. PICK j : j = i - m
        OBVIOUS
      <4>2. j \in 1..n /\ m + j = i /\ (at + m) + j - 1 = at + i - 1
        BY <1>2, <3>2, <4>1
      <4> QED
        BY <1>5, <2>2, <4>2
    <3> QED
      BY <3>1, <3>2
  <2>4. at + (m + n) - 1 <= Len(d)
    BY <1>2, <1>6, <2>2
  <2> QED
    BY <1>1, <1>2, <2>3, <2>4 DEF Piece
<1> QED
  BY <1>7, <1>8

\* The same at the start of d.
LEMMA PieceConcatFirst ==
  ASSUME NEW d \in Bytes, NEW p \in Bytes, NEW q \in Bytes
  PROVE  Piece(d, 1, p \o q) <=> Piece(d, 1, p) /\ Piece(d, 1 + Len(p), q)
<1>1. PICK at \in Nat \ {0} : at = 1
  OBVIOUS
<1>2. Piece(d, at, p \o q) <=> Piece(d, at, p) /\ Piece(d, at + Len(p), q)
  BY PieceConcat
<1> QED
  BY <1>1, <1>2

\* A sequence is the piece that stands at its start and is as long.
LEMMA PieceWhole ==
  ASSUME NEW d \in Bytes, NEW p \in Bytes
  PROVE  /\ Piece(d, 1, d)
         /\ Piece(d, 1, p) /\ Len(p) = Len(d) => d = p
<1>1. Len(d) \in Nat /\ Len(p) \in Nat /\ \A i \in Int : 1 + i - 1 = i
  BY DEF Bytes
<1>2. Piece(d, 1, d)
  BY <1>1 DEF Piece
<1>3. ASSUME Piece(d, 1, p), Len(p) = Len(d) PROVE d = p
  <2>1. \A i \in 1..Len(d) : d[i] = p[i]
    BY <1>1, <1>3 DEF Piece
  <2> QED
    BY <1>3, <2>1, SeqEqual DEF Bytes
<1> QED
  BY <1>2, <1>3

\* The piece of a given place and length.
LEMMA PieceOf ==
  ASSUME NEW d \in Bytes, NEW at \in Nat \ {0}, NEW end \in Nat, end <= Len(d), at <= end + 1
  PROVE  /\ SubSeq(d, at, end) \in Bytes
         /\ Len(SubSeq(d, at, end)) = end + 1 - at
         /\ Piece(d, at, SubSeq(d, at, end))
         /\ \A p \in Bytes : Piece(d, at, p) /\ Len(p) = end + 1 - at => p = SubSeq(d, at, end)
<1>1. Len(d) \in Nat
  BY DEF Bytes
<1>2. ASSUME NEW i \in at..end PROVE d[i] \in Digit
  <2>1. i \in 1..Len(d)
    BY <1>1
  <2> QED
    BY <2>1 DEF Bytes
<1>3. PICK s : s = SubSeq(d, at, end)
  OBVIOUS
<1>4. /\ s \in Seq(Digit) /\ Len(s) = IF at <= end THEN end - at + 1 ELSE 0
      /\ \A i \in 1..end - at + 1 : s[i] = d[at + i - 1]
  BY <1>2, <1>3, SubSeqProperties
<1>5. s \in Bytes /\ Len(s) = end + 1 - at
  BY <1>4 DEF Bytes
<1>6. \A i \in 1..Len(s) : d[at + i - 1] = s[i]
  BY <1>4, <1>5
<1>7. Piece(d, at, s)
  BY <1>1, <1>5, <1>6 DEF Piece
<1>8. ASSUME NEW p \in Bytes, Piece(d, at, p), Len(p) = end + 1 - at PROVE p = s
  <2>1. \A i \in 1..Len(p) : p[i] = s[i]
    BY <1>5, <1>6, <1>8 DEF Piece
  <2> QED
    BY <1>4, <1>5, <1>8, <2>1, SeqEqual DEF Bytes
<1> QED
  BY <1>3, <1>5, <1>7, <1>8

(***************************************************************************)
(* Unsigned values.  A read yields the value whose digits stand there.     *)
(***************************************************************************)

\* AppendUnsigned writes two digits of a 16 bit value,
LEMMA Digits16 ==
  ASSUME NEW v \in 0..Base2 - 1
  PROVE  /\ AppendUnsigned16(v) \in Bytes /\ Len(AppendUnsigned16(v)) = 2
         /\ AppendUnsigned16(v)[1] = v \div Base /\ AppendUnsigned16(v)[2] = v % Base
<1>1. Base \in Nat /\ Base > 0 /\ v \in 0..Base * Base - 1
  BY Bases DEF Base2
<1>2. v \div Base \in Digit /\ v % Base \in Digit
  BY <1>1, DivBound DEF Digit
<1> QED
  BY <1>2 DEF AppendUnsigned16, Bytes

\* The two halves of a 32 bit value are 16 bit values,
LEMMA Halves32 ==
  ASSUME NEW v \in 0..Base4 - 1
  PROVE  v \div Base2 \in 0..Base2 - 1 /\ v % Base2 \in 0..Base2 - 1
<1>1. Base2 \in Nat /\ Base2 > 0 /\ v \in 0..Base2 * Base2 - 1
  BY Bases DEF Base4
<1> QED
  BY <1>1, DivBound

\* and those of a 64 bit value are 32 bit values.
LEMMA Halves64 ==
  ASSUME NEW v \in 0..Modulus - 1
  PROVE  v \div Base4 \in 0..Base4 - 1 /\ v % Base4 \in 0..Base4 - 1
<1>1. Base4 \in Nat /\ Base4 > 0 /\ v \in 0..Base4 * Base4 - 1
  BY Bases DEF Modulus
<1> QED
  BY <1>1, DivBound

\* AppendUnsigned writes four digits of a 32 bit value,
LEMMA Digits32 ==
  ASSUME NEW v \in 0..Base4 - 1
  PROVE  AppendUnsigned32(v) \in Bytes /\ Len(AppendUnsigned32(v)) = 4
<1>1. PICK a, b : a = AppendUnsigned16(v \div Base2) /\ b = AppendUnsigned16(v % Base2)
  OBVIOUS
<1>2. a \in Bytes /\ Len(a) = 2 /\ b \in Bytes /\ Len(b) = 2
  BY <1>1, Halves32, Digits16
<1>3. AppendUnsigned32(v) = a \o b
  BY <1>1 DEF AppendUnsigned32
<1>4. a \o b \in Bytes /\ Len(a \o b) = Len(a) + Len(b)
  BY <1>2, BytesConcat
<1> QED
  BY <1>2, <1>3, <1>4

\* and eight of a 64 bit value.
LEMMA Digits64 ==
  ASSUME NEW v \in 0..Modulus - 1
  PROVE  AppendUnsigned64(v) \in Bytes /\ Len(AppendUnsigned64(v)) = 8
<1>1. PICK a, b : a = AppendUnsigned32(v \div Base4) /\ b = AppendUnsigned32(v % Base4)
  OBVIOUS
<1>2. a \in Bytes /\ Len(a) = 4 /\ b \in Bytes /\ Len(b) = 4
  BY <1>1, Halves64, Digits32
<1>3. AppendUnsigned64(v) = a \o b
  BY <1>1 DEF AppendUnsigned64
<1>4. a \o b \in Bytes /\ Len(a \o b) = Len(a) + Len(b)
  BY <1>2, BytesConcat
<1> QED
  BY <1>2, <1>3, <1>4

\* ReadUnsigned on 16 bits: the read yields a value exactly when its digits stand there.
LEMMA Read16 ==
  ASSUME NEW d \in Bytes, NEW at \in Nat \ {0}, at + 1 <= Len(d)
  PROVE  /\ ReadUnsigned16(d, at) \in 0..Base2 - 1
         /\ \A v \in 0..Base2 - 1 : Piece(d, at, AppendUnsigned16(v)) <=> ReadUnsigned16(d, at) = v
<1>1. Len(d) \in Nat
  BY DEF Bytes
<1>2. d[at] \in 0..Base - 1 /\ d[at + 1] \in 0..Base - 1
  <2>1. at \in 1..Len(d) /\ at + 1 \in 1..Len(d)
    BY <1>1
  <2>2. d[at] \in Digit /\ d[at + 1] \in Digit
    BY <2>1 DEF Bytes
  <2> QED
    BY <2>2 DEF Digit
<1>3. PICK h, l : h = d[at] /\ l = d[at + 1]
  OBVIOUS
<1>4. Base \in Nat /\ Base > 0 /\ Base2 = Base * Base /\ h \in 0..Base - 1 /\ l \in 0..Base - 1
  BY Bases, <1>2, <1>3 DEF Base2
<1>5. h * Base + l \in 0..Base2 - 1
  BY <1>4, JoinBound
<1>6. ASSUME NEW v \in 0..Base2 - 1
      PROVE  Piece(d, at, AppendUnsigned16(v)) <=> ReadUnsigned16(d, at) = v
  <2>1. PICK p : p = AppendUnsigned16(v)
    OBVIOUS
  <2>2. Len(p) = 2 /\ p[1] = v \div Base /\ p[2] = v % Base
    BY <2>1, Digits16
  <2>3. Piece(d, at, p) <=> h = p[1] /\ l = p[2]
    <3>1. \A i \in 1..2 : i = 1 \/ i = 2
      OBVIOUS
    <3>2. at + 1 - 1 = at /\ at + 2 - 1 = at + 1 /\ 1 \in 1..2 /\ 2 \in 1..2
      OBVIOUS
    <3>3. Piece(d, at, p) <=> \A i \in 1..2 : d[at + i - 1] = p[i]
      BY <1>1, <2>2, <3>2 DEF Piece
    <3> QED
      BY <1>3, <3>1, <3>2, <3>3
  <2>4. h * Base + l = v <=> h = v \div Base /\ l = v % Base
    <3>1. v \in 0..Base * Base - 1
      BY <1>4
    <3> QED
      BY <1>4, <3>1, Split
  <2> QED
    BY <1>3, <2>1, <2>2, <2>3, <2>4 DEF ReadUnsigned16
<1> QED
  BY <1>3, <1>5, <1>6 DEF ReadUnsigned16

\* The same on 32 bits, half by half,
LEMMA Read32 ==
  ASSUME NEW d \in Bytes, NEW at \in Nat \ {0}, at + 3 <= Len(d)
  PROVE  /\ ReadUnsigned32(d, at) \in 0..Base4 - 1
         /\ \A v \in 0..Base4 - 1 : Piece(d, at, AppendUnsigned32(v)) <=> ReadUnsigned32(d, at) = v
<1>1. Len(d) \in Nat
  BY DEF Bytes
<1>2. PICK h, l : h = ReadUnsigned16(d, at) /\ l = ReadUnsigned16(d, at + 2)
  OBVIOUS
<1>3. /\ at + 1 <= Len(d)
      /\ at + 2 \in Nat \ {0} /\ (at + 2) + 1 <= Len(d)
  BY <1>1
<1>4. /\ h \in 0..Base2 - 1
      /\ \A v \in 0..Base2 - 1 : Piece(d, at, AppendUnsigned16(v)) <=> h = v
  BY <1>2, <1>3, Read16
<1>5. /\ l \in 0..Base2 - 1
      /\ \A v \in 0..Base2 - 1 : Piece(d, at + 2, AppendUnsigned16(v)) <=> l = v
  BY <1>2, <1>3, Read16
<1>6. Base2 \in Nat /\ Base2 > 0 /\ Base4 = Base2 * Base2
  BY Bases DEF Base4
<1>7. h * Base2 + l \in 0..Base4 - 1
  BY <1>4, <1>5, <1>6, JoinBound
<1>8. ASSUME NEW v \in 0..Base4 - 1
      PROVE  Piece(d, at, AppendUnsigned32(v)) <=> ReadUnsigned32(d, at) = v
  <2>1. PICK a, b : a = AppendUnsigned16(v \div Base2) /\ b = AppendUnsigned16(v % Base2)
    OBVIOUS
  <2>2. a \in Bytes /\ Len(a) = 2 /\ b \in Bytes
    BY <2>1, Halves32, Digits16
  <2>3. Piece(d, at, a \o b) <=> Piece(d, at, a) /\ Piece(d, at + 2, b)
    BY <2>2, PieceConcat
  <2>4. Piece(d, at, a) <=> h = v \div Base2
    BY <1>4, <2>1, Halves32
  <2>5. Piece(d, at + 2, b) <=> l = v % Base2
    BY <1>5, <2>1, Halves32
  <2>6. h * Base2 + l = v <=> h = v \div Base2 /\ l = v % Base2
    <3>1. v \in 0..Base2 * Base2 - 1
      BY <1>6
    <3> QED
      BY <1>4, <1>5, <1>6, <3>1, Split
  <2>7. AppendUnsigned32(v) = a \o b
    BY <2>1 DEF AppendUnsigned32
  <2>8. ReadUnsigned32(d, at) = h * Base2 + l
    BY <1>2 DEF ReadUnsigned32
  <2> QED
    BY <2>3, <2>4, <2>5, <2>6, <2>7, <2>8
<1> QED
  BY <1>2, <1>7, <1>8 DEF ReadUnsigned32

\* and on 64 bits.
LEMMA Read64 ==
  ASSUME NEW d \in Bytes, NEW at \in Nat \ {0}, at + 7 <= Len(d)
  PROVE  /\ ReadUnsigned64(d, at) \in 0..Modulus - 1
         /\ \A v \in 0..Modulus - 1 : Piece(d, at, AppendUnsigned64(v)) <=> ReadUnsigned64(d, at) = v
<1>1. Len(d) \in Nat
  BY DEF Bytes
<1>2. PICK h, l : h = ReadUnsigned32(d, at) /\ l = ReadUnsigned32(d, at + 4)
  OBVIOUS
<1>3. /\ at + 3 <= Len(d)
      /\ at + 4 \in Nat \ {0} /\ (at + 4) + 3 <= Len(d)
  BY <1>1
<1>4. /\ h \in 0..Base4 - 1
      /\ \A v \in 0..Base4 - 1 : Piece(d, at, AppendUnsigned32(v)) <=> h = v
  BY <1>2, <1>3, Read32
<1>5. /\ l \in 0..Base4 - 1
      /\ \A v \in 0..Base4 - 1 : Piece(d, at + 4, AppendUnsigned32(v)) <=> l = v
  BY <1>2, <1>3, Read32
<1>6. Base4 \in Nat /\ Base4 > 0 /\ Modulus = Base4 * Base4
  BY Bases DEF Modulus
<1>7. h * Base4 + l \in 0..Modulus - 1
  BY <1>4, <1>5, <1>6, JoinBound
<1>8. ASSUME NEW v \in 0..Modulus - 1
      PROVE  Piece(d, at, AppendUnsigned64(v)) <=> ReadUnsigned64(d, at) = v
  <2>1. PICK a, b : a = AppendUnsigned32(v \div Base4) /\ b = AppendUnsigned32(v % Base4)
    OBVIOUS
  <2>2. a \in Bytes /\ Len(a) = 4 /\ b \in Bytes
    BY <2>1, Halves64, Digits32
  <2>3. Piece(d, at, a \o b) <=> Piece(d, at, a) /\ Piece(d, at + 4, b)
    BY <2>2, PieceConcat
  <2>4. Piece(d, at, a) <=> h = v \div Base4
    BY <1>4, <2>1, Halves64
  <2>5. Piece(d, at + 4, b) <=> l = v % Base4
    BY <1>5, <2>1, Halves64
  <2>6. h * Base4 + l = v <=> h = v \div Base4 /\ l = v % Base4
    <3>1. v \in 0..Base4 * Base4 - 1
      BY <1>6
    <3> QED
      BY <1>4, <1>5, <1>6, <3>1, Split
  <2>7. AppendUnsigned64(v) = a \o b
    BY <2>1 DEF AppendUnsigned64
  <2>8. ReadUnsigned64(d, at) = h * Base4 + l
    BY <1>2 DEF ReadUnsigned64
  <2> QED
    BY <2>3, <2>4, <2>5, <2>6, <2>7, <2>8
<1> QED
  BY <1>2, <1>7, <1>8 DEF ReadUnsigned64

(***************************************************************************)
(* Texts.  ReadString finds what AppendString wrote, and only that.        *)
(***************************************************************************)

\* AppendString writes the length and the text.
LEMMA StringBytes ==
  ASSUME NEW t \in Bytes
  PROVE  AppendString(t) \in Bytes /\ Len(AppendString(t)) = 2 + Len(t)
<1>1. PICK a : a = AppendUnsigned16(Len(t) % Base2)
  OBVIOUS
<1>2. Len(t) % Base2 \in 0..Base2 - 1
  <2>1. Len(t) \in Nat
    BY DEF Bytes
  <2> QED
    BY <2>1, Bases
<1>3. a \in Bytes /\ Len(a) = 2
  BY <1>1, <1>2, Digits16
<1>4. a \o t \in Bytes /\ Len(a \o t) = Len(a) + Len(t)
  BY <1>3, BytesConcat
<1> QED
  BY <1>1, <1>3, <1>4 DEF AppendString

\* A cursor that a read of a text leaves behind.
LEMMA StringEndFacts ==
  ASSUME NEW d \in Bytes, NEW at \in Nat
  PROVE  /\ StringEnd(d, at) \in Nat
         /\ StringEnd(d, at) # 0 =>
              /\ at # 0 /\ at + 1 <= Len(d) /\ StringEnd(d, at) <= Len(d) + 1
              /\ StringEnd(d, at) = at + 2 + ReadUnsigned16(d, at)
              /\ ReadUnsigned16(d, at) \in 0..Base2 - 1
              /\ StringAt(d, at) \in Bytes /\ Len(StringAt(d, at)) = ReadUnsigned16(d, at)
              /\ Piece(d, at + 2, StringAt(d, at))
<1>1. Len(d) \in Nat /\ Base2 \in Nat
  BY Bases DEF Bytes
<1>2. CASE at = 0 \/ Len(d) - at + 1 < 2
  BY <1>2 DEF StringEnd
<1>3. CASE ~(at = 0 \/ Len(d) - at + 1 < 2)
  <2>1. at \in Nat \ {0} /\ at + 1 <= Len(d)
    BY <1>1, <1>3
  <2>2. PICK n : n = ReadUnsigned16(d, at)
    OBVIOUS
  <2>3. n \in 0..Base2 - 1
    BY <2>1, <2>2, Read16
  <2>4. StringEnd(d, at) = IF Len(d) - (at + 2) + 1 < n THEN 0 ELSE at + 2 + n
    BY <1>3, <2>2 DEF StringEnd
  <2>5. n \in Nat
    BY <1>1, <2>3
  <2>6. ASSUME StringEnd(d, at) # 0
        PROVE  /\ StringEnd(d, at) = at + 2 + n /\ at + 2 + n <= Len(d) + 1
               /\ StringAt(d, at) \in Bytes /\ Len(StringAt(d, at)) = n
               /\ Piece(d, at + 2, StringAt(d, at))
    <3>1. StringEnd(d, at) = at + 2 + n /\ ~(Len(d) - (at + 2) + 1 < n)
      BY <2>4, <2>6
    <3>2. PICK b, end : b = at + 2 /\ end = StringEnd(d, at) - 1
      OBVIOUS
    <3>3. /\ b \in Nat \ {0} /\ end \in Nat /\ end <= Len(d) /\ b <= end + 1 /\ end + 1 - b = n
      BY <1>1, <2>1, <2>5, <3>1, <3>2
    <3>4. StringAt(d, at) = SubSeq(d, b, end)
      BY <3>2 DEF StringAt
    <3>5. /\ SubSeq(d, b, end) \in Bytes /\ Len(SubSeq(d, b, end)) = n
          /\ Piece(d, b, SubSeq(d, b, end))
      BY <3>3, PieceOf
    <3>6. at + 2 + n <= Len(d) + 1
      BY <3>2, <3>3, <1>1, <2>1, <2>5
    <3> QED
      BY <3>1, <3>2, <3>4, <3>5, <3>6
  <2>7. StringEnd(d, at) \in Nat
    BY <2>4, <2>5, <2>1
  <2> QED
    BY <2>1, <2>2, <2>3, <2>6, <2>7
<1> QED
  BY <1>2, <1>3

\* ReadString yields a text and the cursor behind it exactly when AppendString's bytes stand there.
LEMMA ReadString ==
  ASSUME NEW d \in Bytes, NEW at \in Nat \ {0}, NEW t \in Bytes, Len(t) < Base2
  PROVE  Piece(d, at, AppendString(t)) <=> StringEnd(d, at) = at + 2 + Len(t) /\ StringAt(d, at) = t
<1>1. Len(d) \in Nat /\ Base2 \in Nat /\ Base2 > 0 /\ Len(t) \in Nat
  BY Bases DEF Bytes
<1>2. PICK n, a : n = Len(t) /\ a = AppendUnsigned16(n)
  OBVIOUS
<1>3. n \in 0..Base2 - 1 /\ n % Base2 = n
  BY <1>1, <1>2
<1>4. AppendString(t) = a \o t
  BY <1>2, <1>3 DEF AppendString
<1>5. a \in Bytes /\ Len(a) = 2
  BY <1>2, <1>3, Digits16
<1>6. Piece(d, at, AppendString(t)) <=> Piece(d, at, a) /\ Piece(d, at + 2, t)
  <2>1. Piece(d, at, a \o t) <=> Piece(d, at, a) /\ Piece(d, at + Len(a), t)
    BY <1>5, PieceConcat
  <2> QED
    BY <1>4, <1>5, <2>1
<1>7. ASSUME Piece(d, at, a), Piece(d, at + 2, t)
      PROVE  StringEnd(d, at) = at + 2 + n /\ StringAt(d, at) = t
  <2>1. at + 1 <= Len(d) /\ at + 2 + n - 1 <= Len(d)
    BY <1>1, <1>2, <1>5, <1>7 DEF Piece
  <2>2. ReadUnsigned16(d, at) = n
    BY <1>2, <1>3, <1>7, <2>1, Read16
  <2>3. ~(at = 0 \/ Len(d) - at + 1 < 2) /\ ~(Len(d) - (at + 2) + 1 < n)
    BY <1>1, <1>2, <2>1
  <2>4. StringEnd(d, at) = at + 2 + n
    BY <2>2, <2>3 DEF StringEnd
  <2>5. PICK b, end : b = at + 2 /\ end = StringEnd(d, at) - 1
    OBVIOUS
  <2>6. b \in Nat \ {0} /\ end \in Nat /\ end <= Len(d) /\ b <= end + 1 /\ Len(t) = end + 1 - b
    BY <1>1, <1>2, <2>1, <2>4, <2>5
  <2>7. t = SubSeq(d, b, end)
    <3>1. \A p \in Bytes : Piece(d, b, p) /\ Len(p) = end + 1 - b => p = SubSeq(d, b, end)
      BY <2>6, PieceOf
    <3>2. Piece(d, b, t)
      BY <1>7, <2>5
    <3> QED
      BY <2>6, <3>1, <3>2
  <2> QED
    BY <2>4, <2>5, <2>7 DEF StringAt
<1>8. ASSUME StringEnd(d, at) = at + 2 + n, StringAt(d, at) = t
      PROVE  Piece(d, at, a) /\ Piece(d, at + 2, t)
  <2>1. StringEnd(d, at) # 0
    BY <1>1, <1>2, <1>8
  <2>2. at + 1 <= Len(d) /\ Len(t) = ReadUnsigned16(d, at) /\ Piece(d, at + 2, t)
    BY <1>8, <2>1, StringEndFacts
  <2>3. Piece(d, at, a)
    BY <1>2, <1>3, <2>2, Read16
  <2> QED
    BY <2>2, <2>3
<1> QED
  BY <1>2, <1>6, <1>7, <1>8

(***************************************************************************)
(* The pieces of an envelope.                                              *)
(***************************************************************************)

Encoding(e) ==
  Header(e) \o AppendString(e.source_host) \o AppendString(e.ros_type)
    \o AppendString(e.ros_md5) \o AppendString(e.frame_id)
    \o AppendUnsigned32(Len(e.payload)) \o e.payload

\* The fields of an envelope.
LEMMA EnvelopeTypes ==
  ASSUME NEW e \in TransportEnvelope
  PROVE  /\ e.version \in 0..Base2 - 1 /\ e.kind \in 0..LastKind
         /\ e.sequence \in 0..Modulus - 1 /\ e.header_sequence \in 0..Base4 - 1
         /\ e.time \in (Modulus \div 2 - Modulus)..(Modulus \div 2 - 1)
         /\ e.source_host \in Bytes /\ e.ros_type \in Bytes /\ e.ros_md5 \in Bytes
         /\ e.frame_id \in Bytes /\ e.payload \in Bytes
BY DEF TransportEnvelope, Bytes

\* The casts between signed and unsigned are inverse to each other.
LEMMA Casts ==
  /\ \A t \in (Modulus \div 2 - Modulus)..(Modulus \div 2 - 1) :
       ToUnsigned(t) \in 0..Modulus - 1 /\ ToSigned(ToUnsigned(t)) = t
  /\ \A u \in 0..Modulus - 1 :
       /\ ToSigned(u) \in (Modulus \div 2 - Modulus)..(Modulus \div 2 - 1)
       /\ ToUnsigned(ToSigned(u)) = u
<1>1. PICK m, h : m = Modulus /\ h = Modulus \div 2
  OBVIOUS
<1>2. m \in Nat /\ h \in Nat /\ h <= m /\ m - h >= h /\ h > 0
  BY Bases, <1>1
<1>3. ASSUME NEW t \in (h - m)..(h - 1) PROVE ToUnsigned(t) \in 0..m - 1 /\ ToSigned(ToUnsigned(t)) = t
  BY <1>1, <1>2 DEF ToUnsigned, ToSigned
<1>4. ASSUME NEW u \in 0..m - 1 PROVE ToSigned(u) \in (h - m)..(h - 1) /\ ToUnsigned(ToSigned(u)) = u
  BY <1>1, <1>2 DEF ToUnsigned, ToSigned
<1> QED
  BY <1>1, <1>3, <1>4

\* The fixed header as 28 bytes in six pieces.
LEMMA HeaderPieces ==
  ASSUME NEW e \in TransportEnvelope
  PROVE  /\ Header(e) \in Bytes /\ Len(Header(e)) = 28
         /\ Magic \in Bytes /\ Len(Magic) = 4 /\ <<e.kind, 0>> \in Bytes
         /\ \A d \in Bytes :
              Piece(d, 1, Header(e)) <=>
                /\ Piece(d, 1, Magic) /\ Piece(d, 5, AppendUnsigned16(e.version))
                /\ Piece(d, 7, <<e.kind, 0>>) /\ Piece(d, 9, AppendUnsigned64(e.sequence))
                /\ Piece(d, 17, AppendUnsigned64(ToUnsigned(e.time)))
                /\ Piece(d, 25, AppendUnsigned32(e.header_sequence))
<1>1. PICK p1, p2, p3, p4, p5, p6 :
        /\ p1 = Magic /\ p2 = AppendUnsigned16(e.version) /\ p3 = <<e.kind, 0>>
        /\ p4 = AppendUnsigned64(e.sequence) /\ p5 = AppendUnsigned64(ToUnsigned(e.time))
        /\ p6 = AppendUnsigned32(e.header_sequence)
  OBVIOUS
<1>2. p1 \in Bytes /\ Len(p1) = 4
  BY <1>1, Bases DEF Magic, Bytes, Digit
<1>3. p2 \in Bytes /\ Len(p2) = 2
  BY <1>1, EnvelopeTypes, Digits16
<1>4. p3 \in Bytes /\ Len(p3) = 2
  <2>1. e.kind \in 0..4
    BY EnvelopeTypes DEF LastKind
  <2>2. e.kind \in Digit /\ 0 \in Digit
    BY <2>1, Bases DEF Digit
  <2> QED
    BY <1>1, <2>2 DEF Bytes
<1>5. p4 \in Bytes /\ Len(p4) = 8
  BY <1>1, EnvelopeTypes, Digits64
<1>6. p5 \in Bytes /\ Len(p5) = 8
  BY <1>1, EnvelopeTypes, Casts, Digits64
<1>7. p6 \in Bytes /\ Len(p6) = 4
  BY <1>1, EnvelopeTypes, Digits32
<1>8. PICK q2, q3, q4, q5, q6 :
        q2 = p1 \o p2 /\ q3 = q2 \o p3 /\ q4 = q3 \o p4 /\ q5 = q4 \o p5 /\ q6 = q5 \o p6
  OBVIOUS
<1>9. /\ q2 \in Bytes /\ Len(q2) = 6
      /\ \A d \in Bytes : Piece(d, 1, q2) <=> Piece(d, 1, p1) /\ Piece(d, 5, p2)
  <2>1. /\ p1 \o p2 \in Bytes /\ Len(p1 \o p2) = Len(p1) + Len(p2)
    BY <1>3, <1>2, BytesConcat
  <2>2. ASSUME NEW d \in Bytes
        PROVE  Piece(d, 1, p1 \o p2) <=> Piece(d, 1, p1) /\ Piece(d, 1 + Len(p1), p2)
    BY <1>3, <1>2, PieceConcatFirst
  <2>3. q2 = p1 \o p2 /\ Len(p1) = 4 /\ Len(p2) = 2
    BY <1>8, <1>3, <1>2
  <2> QED
    BY <2>1, <2>2, <2>3
<1>10. /\ q3 \in Bytes /\ Len(q3) = 8
      /\ \A d \in Bytes : Piece(d, 1, q3) <=> Piece(d, 1, q2) /\ Piece(d, 7, p3)
  <2>1. /\ q2 \o p3 \in Bytes /\ Len(q2 \o p3) = Len(q2) + Len(p3)
    BY <1>4, <1>9, BytesConcat
  <2>2. ASSUME NEW d \in Bytes
        PROVE  Piece(d, 1, q2 \o p3) <=> Piece(d, 1, q2) /\ Piece(d, 1 + Len(q2), p3)
    BY <1>4, <1>9, PieceConcatFirst
  <2>3. q3 = q2 \o p3 /\ Len(q2) = 6 /\ Len(p3) = 2
    BY <1>8, <1>4, <1>9
  <2> QED
    BY <2>1, <2>2, <2>3
<1>11. /\ q4 \in Bytes /\ Len(q4) = 16
      /\ \A d \in Bytes : Piece(d, 1, q4) <=> Piece(d, 1, q3) /\ Piece(d, 9, p4)
  <2>1. /\ q3 \o p4 \in Bytes /\ Len(q3 \o p4) = Len(q3) + Len(p4)
    BY <1>5, <1>10, BytesConcat
  <2>2. ASSUME NEW d \in Bytes
        PROVE  Piece(d, 1, q3 \o p4) <=> Piece(d, 1, q3) /\ Piece(d, 1 + Len(q3), p4)
    BY <1>5, <1>10, PieceConcatFirst
  <2>3. q4 = q3 \o p4 /\ Len(q3) = 8 /\ Len(p4) = 8
    BY <1>8, <1>5, <1>10
  <2> QED
    BY <2>1, <2>2, <2>3
<1>12. /\ q5 \in Bytes /\ Len(q5) = 24
      /\ \A d \in Bytes : Piece(d, 1, q5) <=> Piece(d, 1, q4) /\ Piece(d, 17, p5)
  <2>1. /\ q4 \o p5 \in Bytes /\ Len(q4 \o p5) = Len(q4) + Len(p5)
    BY <1>6, <1>11, BytesConcat
  <2>2. ASSUME NEW d \in Bytes
        PROVE  Piece(d, 1, q4 \o p5) <=> Piece(d, 1, q4) /\ Piece(d, 1 + Len(q4), p5)
    BY <1>6, <1>11, PieceConcatFirst
  <2>3. q5 = q4 \o p5 /\ Len(q4) = 16 /\ Len(p5) = 8
    BY <1>8, <1>6, <1>11
  <2> QED
    BY <2>1, <2>2, <2>3
<1>13. /\ q6 \in Bytes /\ Len(q6) = 28
      /\ \A d \in Bytes : Piece(d, 1, q6) <=> Piece(d, 1, q5) /\ Piece(d, 25, p6)
  <2>1. /\ q5 \o p6 \in Bytes /\ Len(q5 \o p6) = Len(q5) + Len(p6)
    BY <1>7, <1>12, BytesConcat
  <2>2. ASSUME NEW d \in Bytes
        PROVE  Piece(d, 1, q5 \o p6) <=> Piece(d, 1, q5) /\ Piece(d, 1 + Len(q5), p6)
    BY <1>7, <1>12, PieceConcatFirst
  <2>3. q6 = q5 \o p6 /\ Len(q5) = 24 /\ Len(p6) = 4
    BY <1>8, <1>7, <1>12
  <2> QED
    BY <2>1, <2>2, <2>3
<1>14. Header(e) = q6
  BY <1>1, <1>8 DEF Header
<1>15. ASSUME NEW d \in Bytes
       PROVE  Piece(d, 1, q6) <=>
                /\ Piece(d, 1, p1) /\ Piece(d, 5, p2) /\ Piece(d, 7, p3)
                /\ Piece(d, 9, p4) /\ Piece(d, 17, p5) /\ Piece(d, 25, p6)
  BY <1>9, <1>10, <1>11, <1>12, <1>13
<1> QED
  BY <1>1, <1>2, <1>4, <1>13, <1>14, <1>15

\* The places of the texts after the first and of the payload's length.
Places(e, a2, a3, a4, a5) ==
  /\ a2 = 31 + Len(e.source_host) /\ a3 = a2 + 2 + Len(e.ros_type)
  /\ a4 = a3 + 2 + Len(e.ros_md5) /\ a5 = a4 + 2 + Len(e.frame_id)

\* The whole envelope in seven pieces, each where the texts before it end.
LEMMA EncodingPieces ==
  ASSUME NEW e \in TransportEnvelope, Encodable(e),
         NEW a2, NEW a3, NEW a4, NEW a5, Places(e, a2, a3, a4, a5)
  PROVE  /\ EncodeEnvelope(e) = {Encoding(e)}
         /\ Encoding(e) \in Bytes /\ Len(Encoding(e)) = a5 + 3 + Len(e.payload)
         /\ a2 \in Nat \ {0} /\ a3 \in Nat \ {0} /\ a4 \in Nat \ {0} /\ a5 \in Nat \ {0}
         /\ a5 >= 37
         /\ \A d \in Bytes :
              Piece(d, 1, Encoding(e)) <=>
                /\ Piece(d, 1, Header(e)) /\ Piece(d, 29, AppendString(e.source_host))
                /\ Piece(d, a2, AppendString(e.ros_type)) /\ Piece(d, a3, AppendString(e.ros_md5))
                /\ Piece(d, a4, AppendString(e.frame_id))
                /\ Piece(d, a5, AppendUnsigned32(Len(e.payload))) /\ Piece(d, a5 + 4, e.payload)
<1>1. PICK p1, p2, p3, p4, p5, p6, p7 :
        /\ p1 = Header(e) /\ p2 = AppendString(e.source_host) /\ p3 = AppendString(e.ros_type)
        /\ p4 = AppendString(e.ros_md5) /\ p5 = AppendString(e.frame_id)
        /\ p6 = AppendUnsigned32(Len(e.payload)) /\ p7 = e.payload
  OBVIOUS
<1>2. /\ e.source_host \in Bytes /\ e.ros_type \in Bytes /\ e.ros_md5 \in Bytes
      /\ e.frame_id \in Bytes /\ e.payload \in Bytes
  BY EnvelopeTypes
<1>3. PICK n2, n3, n4, n5, n7 :
        /\ n2 = Len(e.source_host) /\ n3 = Len(e.ros_type) /\ n4 = Len(e.ros_md5)
        /\ n5 = Len(e.frame_id) /\ n7 = Len(e.payload)
  OBVIOUS
<1>4. n2 \in Nat /\ n3 \in Nat /\ n4 \in Nat /\ n5 \in Nat /\ n7 \in Nat
  BY <1>2, <1>3, LenNat
<1>5. p1 \in Bytes /\ Len(p1) = 28
  BY <1>1, HeaderPieces
<1>6. p2 \in Bytes /\ Len(p2) = 2 + n2
  BY <1>1, <1>2, <1>3, StringBytes
<1>7. p3 \in Bytes /\ Len(p3) = 2 + n3
  BY <1>1, <1>2, <1>3, StringBytes
<1>8. p4 \in Bytes /\ Len(p4) = 2 + n4
  BY <1>1, <1>2, <1>3, StringBytes
<1>9. p5 \in Bytes /\ Len(p5) = 2 + n5
  BY <1>1, <1>2, <1>3, StringBytes
<1>10. p6 \in Bytes /\ Len(p6) = 4
  <2>1. n7 < Base4
    BY <1>3 DEF Encodable
  <2>2. n7 \in 0..Base4 - 1
    BY <1>4, <2>1, Bases
  <2> QED
    BY <1>1, <1>3, <2>2, Digits32
<1>11. p7 \in Bytes /\ Len(p7) = n7
  BY <1>1, <1>2, <1>3
<1>12. PICK q2, q3, q4, q5, q6, q7 :
         /\ q2 = p1 \o p2 /\ q3 = q2 \o p3 /\ q4 = q3 \o p4 /\ q5 = q4 \o p5 /\ q6 = q5 \o p6
         /\ q7 = q6 \o p7
  OBVIOUS
<1>13. Encoding(e) = q7
  BY <1>1, <1>12 DEF Encoding
<1>14. /\ a2 = 31 + n2 /\ a3 = a2 + 2 + n3 /\ a4 = a3 + 2 + n4 /\ a5 = a4 + 2 + n5
       /\ a2 \in Nat \ {0} /\ a3 \in Nat \ {0} /\ a4 \in Nat \ {0} /\ a5 \in Nat \ {0} /\ a5 >= 37
  <2>1. a2 = 31 + n2 /\ a3 = a2 + 2 + n3 /\ a4 = a3 + 2 + n4 /\ a5 = a4 + 2 + n5
    BY <1>3 DEF Places
  <2>2. a2 \in Nat /\ a2 >= 31
    BY <1>4, <2>1
  <2>3. a3 \in Nat /\ a3 >= 33
    BY <1>4, <2>1, <2>2
  <2>4. a4 \in Nat /\ a4 >= 35
    BY <1>4, <2>1, <2>3
  <2>5. a5 \in Nat /\ a5 >= 37
    BY <1>4, <2>1, <2>4
  <2> QED
    BY <2>1, <2>2, <2>3, <2>4, <2>5
<1>15. /\ q2 \in Bytes /\ Len(q2) = a2 - 1
       /\ \A d \in Bytes : Piece(d, 1, q2) <=> Piece(d, 1, p1) /\ Piece(d, 29, p2)
  <2>1. p1 \o p2 \in Bytes /\ Len(p1 \o p2) = Len(p1) + Len(p2)
    BY <1>6, <1>5, BytesConcat
  <2>2. ASSUME NEW d \in Bytes
        PROVE  Piece(d, 1, p1 \o p2) <=> Piece(d, 1, p1) /\ Piece(d, 1 + Len(p1), p2)
    BY <1>6, <1>5, PieceConcatFirst
  <2>3. q2 = p1 \o p2
    BY <1>12
  <2>4. 1 + Len(p1) = 29 /\ Len(p1) + Len(p2) = a2 - 1
    BY <1>4, <1>14, <1>6, <1>5
  <2> QED
    BY <2>1, <2>2, <2>3, <2>4
<1>16. /\ q3 \in Bytes /\ Len(q3) = a3 - 1
       /\ \A d \in Bytes : Piece(d, 1, q3) <=> Piece(d, 1, q2) /\ Piece(d, a2, p3)
  <2>1. q2 \o p3 \in Bytes /\ Len(q2 \o p3) = Len(q2) + Len(p3)
    BY <1>7, <1>15, BytesConcat
  <2>2. ASSUME NEW d \in Bytes
        PROVE  Piece(d, 1, q2 \o p3) <=> Piece(d, 1, q2) /\ Piece(d, 1 + Len(q2), p3)
    BY <1>7, <1>15, PieceConcatFirst
  <2>3. q3 = q2 \o p3
    BY <1>12
  <2>4. 1 + Len(q2) = a2 /\ Len(q2) + Len(p3) = a3 - 1
    BY <1>4, <1>14, <1>7, <1>15
  <2> QED
    BY <2>1, <2>2, <2>3, <2>4
<1>17. /\ q4 \in Bytes /\ Len(q4) = a4 - 1
       /\ \A d \in Bytes : Piece(d, 1, q4) <=> Piece(d, 1, q3) /\ Piece(d, a3, p4)
  <2>1. q3 \o p4 \in Bytes /\ Len(q3 \o p4) = Len(q3) + Len(p4)
    BY <1>8, <1>16, BytesConcat
  <2>2. ASSUME NEW d \in Bytes
        PROVE  Piece(d, 1, q3 \o p4) <=> Piece(d, 1, q3) /\ Piece(d, 1 + Len(q3), p4)
    BY <1>8, <1>16, PieceConcatFirst
  <2>3. q4 = q3 \o p4
    BY <1>12
  <2>4. 1 + Len(q3) = a3 /\ Len(q3) + Len(p4) = a4 - 1
    BY <1>4, <1>14, <1>8, <1>16
  <2> QED
    BY <2>1, <2>2, <2>3, <2>4
<1>18. /\ q5 \in Bytes /\ Len(q5) = a5 - 1
       /\ \A d \in Bytes : Piece(d, 1, q5) <=> Piece(d, 1, q4) /\ Piece(d, a4, p5)
  <2>1. q4 \o p5 \in Bytes /\ Len(q4 \o p5) = Len(q4) + Len(p5)
    BY <1>9, <1>17, BytesConcat
  <2>2. ASSUME NEW d \in Bytes
        PROVE  Piece(d, 1, q4 \o p5) <=> Piece(d, 1, q4) /\ Piece(d, 1 + Len(q4), p5)
    BY <1>9, <1>17, PieceConcatFirst
  <2>3. q5 = q4 \o p5
    BY <1>12
  <2>4. 1 + Len(q4) = a4 /\ Len(q4) + Len(p5) = a5 - 1
    BY <1>4, <1>14, <1>9, <1>17
  <2> QED
    BY <2>1, <2>2, <2>3, <2>4
<1>19. /\ q6 \in Bytes /\ Len(q6) = a5 + 3
       /\ \A d \in Bytes : Piece(d, 1, q6) <=> Piece(d, 1, q5) /\ Piece(d, a5, p6)
  <2>1. q5 \o p6 \in Bytes /\ Len(q5 \o p6) = Len(q5) + Len(p6)
    BY <1>10, <1>18, BytesConcat
  <2>2. ASSUME NEW d \in Bytes
        PROVE  Piece(d, 1, q5 \o p6) <=> Piece(d, 1, q5) /\ Piece(d, 1 + Len(q5), p6)
    BY <1>10, <1>18, PieceConcatFirst
  <2>3. q6 = q5 \o p6
    BY <1>12
  <2>4. 1 + Len(q5) = a5 /\ Len(q5) + Len(p6) = a5 + 3
    BY <1>4, <1>14, <1>10, <1>18
  <2> QED
    BY <2>1, <2>2, <2>3, <2>4
<1>20. /\ q7 \in Bytes /\ Len(q7) = a5 + 3 + n7
       /\ \A d \in Bytes : Piece(d, 1, q7) <=> Piece(d, 1, q6) /\ Piece(d, a5 + 4, p7)
  <2>1. q6 \o p7 \in Bytes /\ Len(q6 \o p7) = Len(q6) + Len(p7)
    BY <1>11, <1>19, BytesConcat
  <2>2. ASSUME NEW d \in Bytes
        PROVE  Piece(d, 1, q6 \o p7) <=> Piece(d, 1, q6) /\ Piece(d, 1 + Len(q6), p7)
    BY <1>11, <1>19, PieceConcatFirst
  <2>3. q7 = q6 \o p7
    BY <1>12
  <2>4. 1 + Len(q6) = a5 + 4 /\ Len(q6) + Len(p7) = a5 + 3 + n7
    BY <1>4, <1>14, <1>11, <1>19
  <2> QED
    BY <2>1, <2>2, <2>3, <2>4
<1>21. EncodeEnvelope(e) = {Encoding(e)}
  BY DEF EncodeEnvelope, Encoding
<1>22. ASSUME NEW d \in Bytes
       PROVE  Piece(d, 1, q7) <=>
                /\ Piece(d, 1, p1) /\ Piece(d, 29, p2) /\ Piece(d, a2, p3) /\ Piece(d, a3, p4)
                /\ Piece(d, a4, p5) /\ Piece(d, a5, p6) /\ Piece(d, a5 + 4, p7)
  BY <1>15, <1>16, <1>17, <1>18, <1>19, <1>20
<1> QED
  <2>1. Encoding(e) \in Bytes /\ Len(Encoding(e)) = a5 + 3 + Len(e.payload)
    BY <1>3, <1>13, <1>20
  <2>2. ASSUME NEW d \in Bytes
        PROVE  Piece(d, 1, Encoding(e)) <=>
                 /\ Piece(d, 1, Header(e)) /\ Piece(d, 29, AppendString(e.source_host))
                 /\ Piece(d, a2, AppendString(e.ros_type)) /\ Piece(d, a3, AppendString(e.ros_md5))
                 /\ Piece(d, a4, AppendString(e.frame_id))
                 /\ Piece(d, a5, AppendUnsigned32(Len(e.payload))) /\ Piece(d, a5 + 4, e.payload)
    BY <1>1, <1>13, <1>22, Zenon
  <2> QED
    BY <1>14, <1>21, <2>1, <2>2, Zenon

\* What the decoder reads in the header, and the pieces that stand there.
LEMMA HeaderReads ==
  ASSUME NEW d \in Bytes, Len(d) >= 28
  PROVE  /\ SubSeq(d, 1, 4) = Magic <=> Piece(d, 1, Magic)
         /\ ReadUnsigned16(d, 5) \in 0..Base2 - 1
         /\ \A v \in 0..Base2 - 1 : Piece(d, 5, AppendUnsigned16(v)) <=> ReadUnsigned16(d, 5) = v
         /\ d[7] \in Digit
         /\ \A k : Piece(d, 7, <<k, 0>>) <=> d[7] = k /\ d[8] = 0
         /\ ReadUnsigned64(d, 9) \in 0..Modulus - 1
         /\ \A v \in 0..Modulus - 1 : Piece(d, 9, AppendUnsigned64(v)) <=> ReadUnsigned64(d, 9) = v
         /\ ReadUnsigned64(d, 17) \in 0..Modulus - 1
         /\ \A v \in 0..Modulus - 1 : Piece(d, 17, AppendUnsigned64(v)) <=> ReadUnsigned64(d, 17) = v
         /\ ReadUnsigned32(d, 25) \in 0..Base4 - 1
         /\ \A v \in 0..Base4 - 1 : Piece(d, 25, AppendUnsigned32(v)) <=> ReadUnsigned32(d, 25) = v
<1>1. Len(d) \in Nat
  BY LenNat
<1>2. SubSeq(d, 1, 4) = Magic <=> Piece(d, 1, Magic)
  <2>1. PICK at, end : at = 1 /\ end = 4
    OBVIOUS
  <2>2. /\ at \in Nat \ {0} /\ end \in Nat /\ end <= Len(d) /\ at <= end + 1 /\ end + 1 - at = 4
    BY <1>1, <2>1
  <2>3. Magic \in Bytes /\ Len(Magic) = 4
    BY Bases DEF Magic, Bytes, Digit
  <2>4. Piece(d, at, SubSeq(d, at, end))
    BY <2>2, PieceOf
  <2>5. Piece(d, at, Magic) => Magic = SubSeq(d, at, end)
    BY <2>2, <2>3, PieceOf
  <2> QED
    BY <2>1, <2>4, <2>5
<1>3. /\ ReadUnsigned16(d, 5) \in 0..Base2 - 1
      /\ \A v \in 0..Base2 - 1 : Piece(d, 5, AppendUnsigned16(v)) <=> ReadUnsigned16(d, 5) = v
  <2>1. PICK at : at = 5
    OBVIOUS
  <2>2. at \in Nat \ {0} /\ at + 1 <= Len(d)
    BY <1>1, <2>1
  <2>3. /\ ReadUnsigned16(d, at) \in 0..Base2 - 1
        /\ \A v \in 0..Base2 - 1 : Piece(d, at, AppendUnsigned16(v)) <=> ReadUnsigned16(d, at) = v
    BY <2>2, Read16
  <2> QED
    BY <2>1, <2>3
<1>4. d[7] \in Digit
  <2>1. 7 \in 1..Len(d)
    BY <1>1
  <2> QED
    BY <2>1 DEF Bytes
<1>5. ASSUME NEW k PROVE Piece(d, 7, <<k, 0>>) <=> d[7] = k /\ d[8] = 0
  <2>1. PICK p : p = <<k, 0>>
    OBVIOUS
  <2>2. Len(p) = 2 /\ p[1] = k /\ p[2] = 0
    BY <2>1
  <2>3. \A i \in 1..2 : i = 1 \/ i = 2
    OBVIOUS
  <2>4. 7 + 1 - 1 = 7 /\ 7 + 2 - 1 = 8 /\ 1 \in 1..2 /\ 2 \in 1..2 /\ 8 <= Len(d)
    BY <1>1
  <2>5. Piece(d, 7, p) <=> \A i \in 1..2 : d[7 + i - 1] = p[i]
    BY <2>2, <2>4 DEF Piece
  <2> QED
    BY <2>1, <2>2, <2>3, <2>4, <2>5
<1>6. ASSUME NEW at \in Nat \ {0}, at + 7 <= 28
      PROVE  /\ ReadUnsigned64(d, at) \in 0..Modulus - 1
             /\ \A v \in 0..Modulus - 1 : Piece(d, at, AppendUnsigned64(v)) <=> ReadUnsigned64(d, at) = v
  <2>1. at + 7 <= Len(d)
    BY <1>1, <1>6
  <2> QED
    BY <2>1, Read64
<1>7. /\ ReadUnsigned64(d, 9) \in 0..Modulus - 1
      /\ \A v \in 0..Modulus - 1 : Piece(d, 9, AppendUnsigned64(v)) <=> ReadUnsigned64(d, 9) = v
  <2>1. PICK at \in Nat \ {0} : at = 9 /\ at + 7 <= 28
    OBVIOUS
  <2> QED
    BY <1>6, <2>1
<1>8. /\ ReadUnsigned64(d, 17) \in 0..Modulus - 1
      /\ \A v \in 0..Modulus - 1 : Piece(d, 17, AppendUnsigned64(v)) <=> ReadUnsigned64(d, 17) = v
  <2>1. PICK at \in Nat \ {0} : at = 17 /\ at + 7 <= 28
    OBVIOUS
  <2> QED
    BY <1>6, <2>1
<1>9. /\ ReadUnsigned32(d, 25) \in 0..Base4 - 1
      /\ \A v \in 0..Base4 - 1 : Piece(d, 25, AppendUnsigned32(v)) <=> ReadUnsigned32(d, 25) = v
  <2>1. PICK at : at = 25
    OBVIOUS
  <2>2. at \in Nat \ {0} /\ at + 3 <= Len(d)
    BY <1>1, <2>1
  <2>3. /\ ReadUnsigned32(d, at) \in 0..Base4 - 1
        /\ \A v \in 0..Base4 - 1 : Piece(d, at, AppendUnsigned32(v)) <=> ReadUnsigned32(d, at) = v
    BY <2>2, Read32
  <2> QED
    BY <2>1, <2>3
<1> QED
  BY <1>2, <1>3, <1>4, <1>5, <1>7, <1>8, <1>9

\* An encoded envelope decodes to itself.
LEMMA RoundTrip ==
  ASSUME NEW e \in TransportEnvelope, Encodable(e), NEW d, d = Encoding(e)
  PROVE  DecodeEnvelope(d) = {e}
<1>1. PICK a2, a3, a4, a5 : Places(e, a2, a3, a4, a5)
  BY DEF Places
<1>2. /\ d \in Bytes /\ Len(d) = a5 + 3 + Len(e.payload)
      /\ a2 \in Nat \ {0} /\ a3 \in Nat \ {0} /\ a4 \in Nat \ {0} /\ a5 \in Nat \ {0} /\ a5 >= 37
  BY <1>1, EncodingPieces
<1>3. /\ Piece(d, 1, Header(e)) /\ Piece(d, 29, AppendString(e.source_host))
      /\ Piece(d, a2, AppendString(e.ros_type)) /\ Piece(d, a3, AppendString(e.ros_md5))
      /\ Piece(d, a4, AppendString(e.frame_id))
      /\ Piece(d, a5, AppendUnsigned32(Len(e.payload))) /\ Piece(d, a5 + 4, e.payload)
  <2>1. Piece(d, 1, d)
    BY <1>2, PieceWhole
  <2> QED
    BY <1>1, <1>2, <2>1, EncodingPieces
<1>4. /\ e.version \in 0..Base2 - 1 /\ e.kind \in 0..LastKind
      /\ e.sequence \in 0..Modulus - 1 /\ e.header_sequence \in 0..Base4 - 1
      /\ ToUnsigned(e.time) \in 0..Modulus - 1 /\ ToSigned(ToUnsigned(e.time)) = e.time
      /\ e.source_host \in Bytes /\ e.ros_type \in Bytes /\ e.ros_md5 \in Bytes
      /\ e.frame_id \in Bytes /\ e.payload \in Bytes
  BY EnvelopeTypes, Casts
<1>5. PICK n, L : n = Len(e.payload) /\ L = Len(d)
  OBVIOUS
<1>6. /\ n \in Nat /\ n < Base4 /\ n <= MaxPayload
      /\ L \in Nat /\ L >= 28 /\ L = a5 + 3 + n /\ a5 + 3 <= L
  <2>1. n \in Nat /\ n < Base4 /\ n <= MaxPayload
    BY <1>4, <1>5, LenNat DEF Encodable
  <2>2. L = a5 + 3 + n /\ a5 \in Nat /\ a5 >= 37
    BY <1>2, <1>5
  <2> QED
    BY <2>1, <2>2
<1>7. /\ SubSeq(d, 1, 4) = Magic /\ ReadUnsigned16(d, 5) = e.version /\ d[7] = e.kind
      /\ ReadUnsigned64(d, 9) = e.sequence /\ ReadUnsigned64(d, 17) = ToUnsigned(e.time)
      /\ ReadUnsigned32(d, 25) = e.header_sequence
  <2>1. Len(d) >= 28
    BY <1>5, <1>6
  <2>2. /\ Piece(d, 1, Magic) /\ Piece(d, 5, AppendUnsigned16(e.version))
        /\ Piece(d, 7, <<e.kind, 0>>) /\ Piece(d, 9, AppendUnsigned64(e.sequence))
        /\ Piece(d, 17, AppendUnsigned64(ToUnsigned(e.time)))
        /\ Piece(d, 25, AppendUnsigned32(e.header_sequence))
    BY <1>2, <1>3, HeaderPieces
  <2> QED
    BY <1>2, <1>4, <2>1, <2>2, HeaderReads
<1>8. HeaderOK(d)
  <2>1. e.version = Version /\ e.kind <= LastKind
    BY <1>4 DEF Encodable, LastKind
  <2> QED
    BY <1>5, <1>6, <1>7, <2>1 DEF HeaderOK, HeaderSize
<1>9. Len(e.source_host) < Base2 /\ Len(e.ros_type) < Base2 /\ Len(e.ros_md5) < Base2 /\ Len(e.frame_id) < Base2
  BY DEF Encodable, Texts
<1>10. TypeAt(d) = a2 /\ StringAt(d, HostAt) = e.source_host
  <2>1. PICK at : at = 29
    OBVIOUS
  <2>2. at \in Nat \ {0} /\ HostAt = at
    BY <2>1 DEF HostAt, HeaderSize
  <2>3. StringEnd(d, at) = at + 2 + Len(e.source_host) /\ StringAt(d, at) = e.source_host
    <3>1. Piece(d, at, AppendString(e.source_host))
      BY <1>3, <2>1
    <3> QED
      BY <1>2, <1>4, <1>9, <2>2, <3>1, ReadString
  <2>4. at + 2 + Len(e.source_host) = a2
    BY <1>1, <1>4, <2>1, LenNat DEF Places
  <2> QED
    BY <2>2, <2>3, <2>4 DEF TypeAt
<1>11. Md5At(d) = a3 /\ StringAt(d, TypeAt(d)) = e.ros_type
  <2>1. StringEnd(d, a2) = a2 + 2 + Len(e.ros_type) /\ StringAt(d, a2) = e.ros_type
    BY <1>2, <1>3, <1>4, <1>9, ReadString
  <2>2. a3 = a2 + 2 + Len(e.ros_type)
    BY <1>1 DEF Places
  <2> QED
    BY <1>10, <2>1, <2>2 DEF Md5At
<1>12. FrameAt(d) = a4 /\ StringAt(d, Md5At(d)) = e.ros_md5
  <2>1. StringEnd(d, a3) = a3 + 2 + Len(e.ros_md5) /\ StringAt(d, a3) = e.ros_md5
    BY <1>2, <1>3, <1>4, <1>9, ReadString
  <2>2. a4 = a3 + 2 + Len(e.ros_md5)
    BY <1>1 DEF Places
  <2> QED
    BY <1>11, <2>1, <2>2 DEF FrameAt
<1>13. PayloadAt(d) = a5 /\ StringAt(d, FrameAt(d)) = e.frame_id
  <2>1. StringEnd(d, a4) = a4 + 2 + Len(e.frame_id) /\ StringAt(d, a4) = e.frame_id
    BY <1>2, <1>3, <1>4, <1>9, ReadString
  <2>2. a5 = a4 + 2 + Len(e.frame_id)
    BY <1>1 DEF Places
  <2> QED
    BY <1>12, <2>1, <2>2 DEF PayloadAt
<1>14. ReadUnsigned32(d, a5) = n
  <2>1. n \in 0..Base4 - 1
    BY <1>6, Bases
  <2>2. a5 + 3 <= Len(d)
    BY <1>5, <1>6
  <2>3. Piece(d, a5, AppendUnsigned32(n))
    BY <1>3, <1>5
  <2> QED
    BY <1>2, <2>1, <2>2, <2>3, Read32
<1>15. PayloadOK(d, PayloadAt(d))
  <2>1. a5 > 0 /\ L - a5 + 1 >= 4 /\ n <= MaxPayload /\ L - (a5 + 4) + 1 = n
    BY <1>2, <1>6
  <2> QED
    BY <1>5, <1>13, <1>14, <2>1 DEF PayloadOK
<1>16. SubSeq(d, PayloadAt(d) + 4, Len(d)) = e.payload
  <2>1. PICK at : at = a5 + 4
    OBVIOUS
  <2>2. at \in Nat \ {0} /\ L <= L /\ at <= L + 1 /\ n = L + 1 - at
    BY <1>2, <1>6, <2>1
  <2>3. Piece(d, at, e.payload)
    BY <1>3, <2>1
  <2>4. L \in Nat /\ L <= Len(d)
    BY <1>5, <1>6
  <2>5. \A p \in Bytes : Piece(d, at, p) /\ Len(p) = L + 1 - at => p = SubSeq(d, at, L)
    BY <1>2, <2>2, <2>4, PieceOf
  <2>6. e.payload = SubSeq(d, at, L)
    BY <1>4, <1>5, <2>2, <2>3, <2>5
  <2> QED
    BY <1>5, <1>13, <2>1, <2>6
<1>17. DecodeEnvelope(d) =
         {[version |-> e.version, kind |-> e.kind, sequence |-> e.sequence, time |-> e.time,
           header_sequence |-> e.header_sequence, source_host |-> e.source_host,
           ros_type |-> e.ros_type, ros_md5 |-> e.ros_md5, frame_id |-> e.frame_id,
           payload |-> e.payload]}
  BY <1>4, <1>7, <1>8, <1>10, <1>11, <1>12, <1>13, <1>15, <1>16, Zenon DEF DecodeEnvelope
<1>18. e = [version |-> e.version, kind |-> e.kind, sequence |-> e.sequence, time |-> e.time,
            header_sequence |-> e.header_sequence, source_host |-> e.source_host,
            ros_type |-> e.ros_type, ros_md5 |-> e.ros_md5, frame_id |-> e.frame_id,
            payload |-> e.payload]
  BY DEF TransportEnvelope
<1> QED
  BY <1>17, <1>18, Zenon

\* The cursors of an accepted envelope: no text and no length is read past the end.
LEMMA AcceptedCursors ==
  ASSUME NEW d \in Bytes, DecodeEnvelope(d) # {},
         NEW a2, a2 = TypeAt(d), NEW a3, a3 = Md5At(d), NEW a4, a4 = FrameAt(d), NEW a5, a5 = PayloadAt(d),
         NEW L, L = Len(d)
  PROVE  /\ HeaderOK(d) /\ PayloadOK(d, a5) /\ L \in Nat /\ L >= 28
         /\ StringEnd(d, 29) = a2 /\ StringEnd(d, a2) = a3 /\ StringEnd(d, a3) = a4 /\ StringEnd(d, a4) = a5
         /\ a2 \in Nat \ {0} /\ a3 \in Nat \ {0} /\ a4 \in Nat \ {0} /\ a5 \in Nat \ {0}
         /\ a5 + 3 <= L /\ L = a5 + 3 + ReadUnsigned32(d, a5)
         /\ ReadUnsigned32(d, a5) \in 0..Base4 - 1 /\ ReadUnsigned32(d, a5) <= MaxPayload
<1>1. HeaderOK(d) /\ PayloadOK(d, a5)
  BY DEF DecodeEnvelope
<1>2. L \in Nat /\ Len(d) >= 28
  BY <1>1, LenNat DEF HeaderOK, HeaderSize
<1>3. StringEnd(d, 29) = a2 /\ StringEnd(d, a2) = a3 /\ StringEnd(d, a3) = a4 /\ StringEnd(d, a4) = a5
  <2>1. HostAt = 29
    BY DEF HostAt, HeaderSize
  <2> QED
    BY <2>1 DEF TypeAt, Md5At, FrameAt, PayloadAt
<1>4. a2 \in Nat /\ a3 \in Nat /\ a4 \in Nat /\ a5 \in Nat
  <2>1. a2 \in Nat
    BY <1>3, StringEndFacts
  <2>2. a3 \in Nat
    BY <1>3, <2>1, StringEndFacts
  <2>3. a4 \in Nat
    BY <1>3, <2>2, StringEndFacts
  <2>4. a5 \in Nat
    BY <1>3, <2>3, StringEndFacts
  <2> QED
    BY <2>1, <2>2, <2>3, <2>4
<1>5. a5 # 0
  BY <1>1, <1>4 DEF PayloadOK
<1>6. a4 # 0
  BY <1>3, <1>4, <1>5, StringEndFacts
<1>7. a3 # 0
  BY <1>3, <1>4, <1>6, StringEndFacts
<1>8. a2 # 0
  BY <1>3, <1>4, <1>7, StringEndFacts
<1>9. PICK n : n = ReadUnsigned32(d, a5)
  OBVIOUS
<1>10. L - a5 + 1 >= 4 /\ n <= MaxPayload /\ L - (a5 + 4) + 1 = n
  <2>1. /\ Len(d) - a5 + 1 >= 4 /\ ReadUnsigned32(d, a5) <= MaxPayload
        /\ Len(d) - (a5 + 4) + 1 = ReadUnsigned32(d, a5)
    BY <1>1 DEF PayloadOK
  <2> QED
    BY <1>9, <2>1
<1>11. a5 \in Nat \ {0} /\ a5 + 3 <= L
  <2>1. PICK x \in Nat, y \in Nat : x = L /\ y = a5
    BY <1>2, <1>4
  <2>2. x - y + 1 >= 4
    BY <1>10, <2>1
  <2>3. y + 3 <= x
    BY <2>2
  <2> QED
    BY <1>4, <1>5, <2>1, <2>3
<1>12. n \in 0..Base4 - 1
  <2>1. a5 + 3 <= Len(d)
    BY <1>11
  <2> QED
    BY <1>9, <1>11, <2>1, Read32
<1>13. n \in Nat
  BY <1>12, Bases
<1>14. L = a5 + 3 + n
  <2>1. PICK x \in Nat, y \in Nat, z \in Nat : x = L /\ y = a5 /\ z = n
    BY <1>2, <1>4, <1>13
  <2>2. x - (y + 4) + 1 = z
    BY <1>10, <2>1
  <2>3. x = y + 3 + z
    BY <2>2
  <2> QED
    BY <2>1, <2>3
<1>15. L >= 28
  BY <1>2
<1>16. L = a5 + 3 + ReadUnsigned32(d, a5) /\ ReadUnsigned32(d, a5) \in 0..Base4 - 1 /\ ReadUnsigned32(d, a5) <= MaxPayload
  BY <1>9, <1>10, <1>12, <1>14
<1>17. a2 \in Nat \ {0} /\ a3 \in Nat \ {0} /\ a4 \in Nat \ {0}
  BY <1>4, <1>6, <1>7, <1>8
<1> QED
  BY <1>1, <1>2, <1>3, <1>11, <1>15, <1>16, <1>17

\* What a read of 2 or 4 bytes yields in a prefix, it yields in the whole.
LEMMA PrefixReads ==
  ASSUME NEW d \in Bytes, NEW w \in Bytes, \A i \in 1..Len(d) : w[i] = d[i],
         NEW at \in Nat \ {0}
  PROVE  /\ at + 1 <= Len(d) => ReadUnsigned16(w, at) = ReadUnsigned16(d, at)
         /\ at + 3 <= Len(d) => ReadUnsigned32(w, at) = ReadUnsigned32(d, at)
<1>1. PICK L \in Nat : L = Len(d)
  BY LenNat
<1>2. ASSUME NEW k \in Nat \ {0}, k + 1 <= L PROVE ReadUnsigned16(w, k) = ReadUnsigned16(d, k)
  <2>1. k \in 1..L /\ k + 1 \in 1..L
    BY <1>2
  <2>2. w[k] = d[k] /\ w[k + 1] = d[k + 1]
    BY <1>1, <2>1
  <2> QED
    BY <2>2 DEF ReadUnsigned16
<1>3. ASSUME at + 3 <= L PROVE ReadUnsigned32(w, at) = ReadUnsigned32(d, at)
  <2>1. /\ at + 1 <= L
        /\ at + 2 \in Nat \ {0} /\ (at + 2) + 1 <= L
    BY <1>3
  <2>2. ReadUnsigned16(w, at) = ReadUnsigned16(d, at)
    BY <1>2, <2>1
  <2>3. ReadUnsigned16(w, at + 2) = ReadUnsigned16(d, at + 2)
    BY <1>2, <2>1
  <2> QED
    BY <2>2, <2>3 DEF ReadUnsigned32
<1> QED
  BY <1>1, <1>2, <1>3

\* A text that is read from a prefix is read from the whole, up to the same cursor.
LEMMA PrefixString ==
  ASSUME NEW d \in Bytes, NEW w \in Bytes, Len(d) <= Len(w), \A i \in 1..Len(d) : w[i] = d[i],
         NEW at \in Nat, StringEnd(d, at) # 0
  PROVE  StringEnd(w, at) = StringEnd(d, at)
<1>1. PICK L, M, n : L = Len(d) /\ M = Len(w) /\ n = ReadUnsigned16(d, at)
  OBVIOUS
<1>2. L \in Nat /\ M \in Nat /\ L <= M
  BY <1>1, LenNat
<1>3. /\ at # 0 /\ at + 1 <= L /\ StringEnd(d, at) <= L + 1 /\ StringEnd(d, at) = at + 2 + n
      /\ n \in 0..Base2 - 1
  BY <1>1, StringEndFacts
<1>4. n \in Nat /\ at + 2 + n <= L + 1
  <2>1. n \in Nat
    BY <1>3, Bases
  <2>2. PICK k : k = StringEnd(d, at)
    OBVIOUS
  <2>3. k = at + 2 + n /\ k <= L + 1
    BY <1>3, <2>2
  <2> QED
    BY <2>1, <2>3
<1>5. ReadUnsigned16(w, at) = n
  BY <1>1, <1>3, PrefixReads
<1>6. ~(at = 0 \/ M - at + 1 < 2) /\ ~(M - (at + 2) + 1 < n)
  BY <1>2, <1>3, <1>4
<1>7. StringEnd(w, at) = at + 2 + n
  BY <1>1, <1>5, <1>6 DEF StringEnd
<1> QED
  BY <1>3, <1>7

\* Of two different sequences one of which continues the other, at most one is accepted.
LEMMA PrefixRejected ==
  ASSUME NEW d \in Bytes, NEW w \in Bytes, Len(d) < Len(w), \A i \in 1..Len(d) : w[i] = d[i]
  PROVE  DecodeEnvelope(d) = {} \/ DecodeEnvelope(w) = {}
<1> SUFFICES ASSUME DecodeEnvelope(d) # {}, DecodeEnvelope(w) # {} PROVE FALSE
  OBVIOUS
<1>1. PICK a2, a3, a4, a5, L :
        a2 = TypeAt(d) /\ a3 = Md5At(d) /\ a4 = FrameAt(d) /\ a5 = PayloadAt(d) /\ L = Len(d)
  OBVIOUS
<1>2. PICK b2, b3, b4, b5, M :
        b2 = TypeAt(w) /\ b3 = Md5At(w) /\ b4 = FrameAt(w) /\ b5 = PayloadAt(w) /\ M = Len(w)
  OBVIOUS
<1>3. /\ StringEnd(d, 29) = a2 /\ StringEnd(d, a2) = a3 /\ StringEnd(d, a3) = a4 /\ StringEnd(d, a4) = a5
      /\ a2 \in Nat \ {0} /\ a3 \in Nat \ {0} /\ a4 \in Nat \ {0} /\ a5 \in Nat \ {0}
      /\ a5 + 3 <= L /\ L = a5 + 3 + ReadUnsigned32(d, a5) /\ L \in Nat
  BY <1>1, AcceptedCursors
<1>4. /\ StringEnd(w, 29) = b2 /\ StringEnd(w, b2) = b3 /\ StringEnd(w, b3) = b4 /\ StringEnd(w, b4) = b5
      /\ M = b5 + 3 + ReadUnsigned32(w, b5) /\ M \in Nat
  BY <1>2, AcceptedCursors
<1>5. Len(d) <= Len(w)
  BY <1>1, <1>2, <1>3, <1>4
<1>6. b2 = a2
  <2>1. PICK at \in Nat : at = 29
    OBVIOUS
  <2>2. StringEnd(d, at) = a2 /\ StringEnd(d, at) # 0
    BY <1>3, <2>1
  <2>3. StringEnd(w, at) = StringEnd(d, at)
    BY <1>5, <2>2, PrefixString
  <2> QED
    BY <1>4, <2>1, <2>2, <2>3
<1>7. b3 = a3
  BY <1>3, <1>4, <1>5, <1>6, PrefixString
<1>8. b4 = a4
  BY <1>3, <1>4, <1>5, <1>7, PrefixString
<1>9. b5 = a5
  BY <1>3, <1>4, <1>5, <1>8, PrefixString
<1>10. ReadUnsigned32(w, a5) = ReadUnsigned32(d, a5)
  <2>1. a5 + 3 <= Len(d)
    BY <1>1, <1>3
  <2> QED
    BY <1>3, <2>1, PrefixReads
<1>11. M = L
  BY <1>3, <1>4, <1>9, <1>10
<1> QED
  BY <1>1, <1>2, <1>3, <1>11

\* The same bytes without the reserved flags.
WithoutFlags(d) == [d EXCEPT ![8] = 0]

\* A piece that does not cover the reserved flags stands in d whatever the flags are.
LEMMA PieceFlags ==
  ASSUME NEW d \in Bytes, Len(d) >= 28, NEW w, w = WithoutFlags(d)
  PROVE  /\ w \in Bytes /\ Len(w) = Len(d) /\ w[8] = 0 /\ w[7] = d[7]
         /\ \A at \in Nat \ {0}, p \in Bytes :
              Piece(d, at, p) /\ (at > 8 \/ at + Len(p) - 1 < 8) => Piece(w, at, p)
<1>1. PICK L \in Nat : L = Len(d)
  BY LenNat
<1>2. 0 \in Digit
  BY Bases DEF Digit
<1>3. w \in Bytes /\ Len(w) = L /\ \A i \in 1..L : w[i] = IF i = 8 THEN 0 ELSE d[i]
  <2>1. d \in [1..L -> Digit]
    BY <1>1 DEF Bytes
  <2>2. w \in [1..L -> Digit] /\ \A i \in 1..L : w[i] = IF i = 8 THEN 0 ELSE d[i]
    BY <1>2, <2>1 DEF WithoutFlags
  <2> QED
    BY <2>2 DEF Bytes
<1>4. w[8] = 0 /\ w[7] = d[7]
  <2>1. 7 \in 1..L /\ 8 \in 1..L
    BY <1>1
  <2> QED
    BY <1>3, <2>1
<1>5. ASSUME NEW at \in Nat \ {0}, NEW p \in Bytes, Piece(d, at, p), at > 8 \/ at + Len(p) - 1 < 8
      PROVE  Piece(w, at, p)
  <2>1. PICK n \in Nat : n = Len(p)
    BY LenNat
  <2>2. at + n - 1 <= L /\ \A i \in 1..n : d[at + i - 1] = p[i]
    BY <1>1, <1>5, <2>1 DEF Piece
  <2>3. ASSUME NEW i \in 1..n PROVE w[at + i - 1] = p[i]
    <3>1. at + i - 1 \in 1..L /\ at + i - 1 # 8
      BY <1>5, <2>1, <2>2
    <3> QED
      BY <1>3, <2>2, <3>1
  <2> QED
    BY <1>3, <2>1, <2>2, <2>3 DEF Piece
<1> QED
  BY <1>1, <1>3, <1>4, <1>5

\* What is accepted is, up to the reserved flags, the encoding of what it is decoded to.
LEMMA Canonical ==
  ASSUME NEW d \in Bytes, NEW e \in DecodeEnvelope(d)
  PROVE  /\ e \in TransportEnvelope /\ Encodable(e)
         /\ EncodeEnvelope(e) = {[d EXCEPT ![8] = 0]}
<1>1. PICK a2, a3, a4, a5, L :
        a2 = TypeAt(d) /\ a3 = Md5At(d) /\ a4 = FrameAt(d) /\ a5 = PayloadAt(d) /\ L = Len(d)
  OBVIOUS
<1>2. /\ HeaderOK(d) /\ PayloadOK(d, a5) /\ L \in Nat /\ L >= 28
      /\ StringEnd(d, 29) = a2 /\ StringEnd(d, a2) = a3 /\ StringEnd(d, a3) = a4 /\ StringEnd(d, a4) = a5
      /\ a2 \in Nat \ {0} /\ a3 \in Nat \ {0} /\ a4 \in Nat \ {0} /\ a5 \in Nat \ {0}
      /\ a5 + 3 <= L /\ L = a5 + 3 + ReadUnsigned32(d, a5)
      /\ ReadUnsigned32(d, a5) \in 0..Base4 - 1 /\ ReadUnsigned32(d, a5) <= MaxPayload
  <2>1. DecodeEnvelope(d) # {}
    OBVIOUS
  <2> QED
    BY <1>1, <2>1, AcceptedCursors
<1>3. Len(d) >= 28
  BY <1>1, <1>2
<1>4. PICK n : n = ReadUnsigned32(d, a5)
  OBVIOUS
<1>5. e = [version |-> ReadUnsigned16(d, 5), kind |-> d[7],
           sequence |-> ReadUnsigned64(d, 9), time |-> ToSigned(ReadUnsigned64(d, 17)),
           header_sequence |-> ReadUnsigned32(d, 25),
           source_host |-> StringAt(d, 29), ros_type |-> StringAt(d, a2),
           ros_md5 |-> StringAt(d, a3), frame_id |-> StringAt(d, a4),
           payload |-> SubSeq(d, a5 + 4, L)]
  <2>1. HeaderOK(d) /\ PayloadOK(d, PayloadAt(d)) /\ HostAt = 29
    BY <1>1, <1>2 DEF HostAt, HeaderSize
  <2>2. e \in {[version |-> ReadUnsigned16(d, 5), kind |-> d[7],
                sequence |-> ReadUnsigned64(d, 9), time |-> ToSigned(ReadUnsigned64(d, 17)),
                header_sequence |-> ReadUnsigned32(d, 25),
                source_host |-> StringAt(d, HostAt), ros_type |-> StringAt(d, TypeAt(d)),
                ros_md5 |-> StringAt(d, Md5At(d)), frame_id |-> StringAt(d, FrameAt(d)),
                payload |-> SubSeq(d, PayloadAt(d) + 4, Len(d))]}
    BY <2>1, Zenon DEF DecodeEnvelope
  <2> QED
    BY <1>1, <2>1, <2>2, Zenon
<1>6. /\ e.version = ReadUnsigned16(d, 5) /\ e.kind = d[7] /\ e.sequence = ReadUnsigned64(d, 9)
      /\ e.time = ToSigned(ReadUnsigned64(d, 17)) /\ e.header_sequence = ReadUnsigned32(d, 25)
  BY <1>5, Zenon
<1>7. /\ e.source_host = StringAt(d, 29) /\ e.ros_type = StringAt(d, a2) /\ e.ros_md5 = StringAt(d, a3)
      /\ e.frame_id = StringAt(d, a4) /\ e.payload = SubSeq(d, a5 + 4, L)
  BY <1>5, Zenon
<1>8. /\ e.version \in 0..Base2 - 1 /\ e.version = Version /\ e.kind \in 0..LastKind
      /\ e.sequence \in 0..Modulus - 1 /\ e.header_sequence \in 0..Base4 - 1
      /\ e.time \in (Modulus \div 2 - Modulus)..(Modulus \div 2 - 1)
      /\ ToUnsigned(e.time) = ReadUnsigned64(d, 17) /\ ToUnsigned(e.time) \in 0..Modulus - 1
  <2>1. /\ ReadUnsigned16(d, 5) \in 0..Base2 - 1 /\ ReadUnsigned64(d, 9) \in 0..Modulus - 1
        /\ ReadUnsigned64(d, 17) \in 0..Modulus - 1 /\ ReadUnsigned32(d, 25) \in 0..Base4 - 1
        /\ d[7] \in Digit
    BY <1>3, HeaderReads
  <2>2. ReadUnsigned16(d, 5) = Version /\ d[7] <= LastKind
    BY <1>2 DEF HeaderOK
  <2>3. d[7] \in 0..LastKind
    <3>1. PICK k : k = d[7]
      OBVIOUS
    <3>2. k \in 0..Base - 1 /\ k <= 4
      BY <2>1, <2>2, <3>1 DEF Digit, LastKind
    <3>3. k \in 0..4
      BY <3>2, Bases
    <3> QED
      BY <3>1, <3>3 DEF LastKind
  <2>4. PICK u : u = ReadUnsigned64(d, 17)
    OBVIOUS
  <2>5. /\ ToSigned(u) \in (Modulus \div 2 - Modulus)..(Modulus \div 2 - 1)
        /\ ToUnsigned(ToSigned(u)) = u /\ u \in 0..Modulus - 1
    BY <2>1, <2>4, Casts
  <2> QED
    BY <1>6, <2>1, <2>2, <2>3, <2>4, <2>5
<1>9. ASSUME NEW at \in Nat \ {0}, NEW end \in Nat \ {0}, StringEnd(d, at) = end,
             NEW t, t = StringAt(d, at)
      PROVE  /\ t \in Bytes /\ Len(t) < Base2 /\ end = at + 2 + Len(t)
             /\ Piece(d, at, AppendString(t))
  <2>1. PICK m : m = ReadUnsigned16(d, at)
    OBVIOUS
  <2>2. end = at + 2 + m /\ m \in 0..Base2 - 1 /\ t \in Bytes /\ Len(t) = m
    BY <1>9, <2>1, StringEndFacts
  <2>3. m < Base2
    BY <2>2, Bases
  <2>4. Piece(d, at, AppendString(t))
    BY <1>9, <2>2, <2>3, ReadString
  <2> QED
    BY <2>2, <2>3, <2>4
<1>10. /\ e.source_host \in Bytes /\ Len(e.source_host) < Base2 /\ a2 = 31 + Len(e.source_host)
       /\ Piece(d, 29, AppendString(e.source_host))
  <2>1. PICK at \in Nat \ {0} : at = 29
    OBVIOUS
  <2>2. StringEnd(d, at) = a2 /\ e.source_host = StringAt(d, at)
    BY <1>2, <1>7, <2>1
  <2>3. /\ e.source_host \in Bytes /\ Len(e.source_host) < Base2 /\ a2 = at + 2 + Len(e.source_host)
        /\ Piece(d, at, AppendString(e.source_host))
    BY <1>2, <1>9, <2>2
  <2>4. at + 2 + Len(e.source_host) = 31 + Len(e.source_host)
    <3>1. PICK m \in Nat : m = Len(e.source_host)
      BY <2>3, LenNat
    <3> QED
      BY <2>1, <3>1
  <2> QED
    BY <2>1, <2>3, <2>4
<1>11. /\ e.ros_type \in Bytes /\ Len(e.ros_type) < Base2 /\ a3 = a2 + 2 + Len(e.ros_type)
       /\ Piece(d, a2, AppendString(e.ros_type))
  <2>1. a2 \in Nat \ {0} /\ a3 \in Nat \ {0} /\ StringEnd(d, a2) = a3
    BY <1>2
  <2>2. e.ros_type = StringAt(d, a2)
    BY <1>7
  <2> QED
    BY <1>9, <2>1, <2>2
<1>12. /\ e.ros_md5 \in Bytes /\ Len(e.ros_md5) < Base2 /\ a4 = a3 + 2 + Len(e.ros_md5)
       /\ Piece(d, a3, AppendString(e.ros_md5))
  <2>1. a3 \in Nat \ {0} /\ a4 \in Nat \ {0} /\ StringEnd(d, a3) = a4
    BY <1>2
  <2>2. e.ros_md5 = StringAt(d, a3)
    BY <1>7
  <2> QED
    BY <1>9, <2>1, <2>2
<1>13. /\ e.frame_id \in Bytes /\ Len(e.frame_id) < Base2 /\ a5 = a4 + 2 + Len(e.frame_id)
       /\ Piece(d, a4, AppendString(e.frame_id))
  <2>1. a4 \in Nat \ {0} /\ a5 \in Nat \ {0} /\ StringEnd(d, a4) = a5
    BY <1>2
  <2>2. e.frame_id = StringAt(d, a4)
    BY <1>7
  <2> QED
    BY <1>9, <2>1, <2>2
<1>14. n \in Nat /\ n < Base4 /\ n <= MaxPayload /\ L = a5 + 3 + n /\ n \in 0..Base4 - 1
  <2>1. n \in 0..Base4 - 1 /\ n <= MaxPayload /\ L = a5 + 3 + n
    BY <1>2, <1>4
  <2> QED
    BY <2>1, Bases
<1>15. e.payload \in Bytes /\ Len(e.payload) = n /\ Piece(d, a5 + 4, e.payload)
  <2>1. PICK at : at = a5 + 4
    OBVIOUS
  <2>2. at \in Nat \ {0} /\ at <= L + 1 /\ L + 1 - at = n
    BY <1>2, <1>14, <2>1
  <2>3. L \in Nat /\ L <= Len(d)
    BY <1>1, <1>2
  <2>4. /\ SubSeq(d, at, L) \in Bytes /\ Len(SubSeq(d, at, L)) = L + 1 - at
        /\ Piece(d, at, SubSeq(d, at, L))
    BY <2>2, <2>3, PieceOf
  <2> QED
    BY <1>7, <2>1, <2>2, <2>4
<1>16. e \in TransportEnvelope
  <2>1. DOMAIN e = {"version", "kind", "sequence", "time", "header_sequence", "source_host",
                    "ros_type", "ros_md5", "frame_id", "payload"}
    BY <1>5
  <2> QED
    BY <1>5, <1>6, <1>7, <1>8, <1>10, <1>11, <1>12, <1>13, <1>15 DEF TransportEnvelope, Bytes
<1>17. Encodable(e)
  BY <1>8, <1>10, <1>11, <1>12, <1>13, <1>14, <1>15 DEF Encodable, Texts
<1>18. Places(e, a2, a3, a4, a5)
  BY <1>10, <1>11, <1>12, <1>13 DEF Places
<1>19. PICK w : w = WithoutFlags(d)
  OBVIOUS
<1>20. /\ w \in Bytes /\ Len(w) = L /\ w[8] = 0 /\ w[7] = d[7]
       /\ \A at \in Nat \ {0}, p \in Bytes :
            Piece(d, at, p) /\ (at > 8 \/ at + Len(p) - 1 < 8) => Piece(w, at, p)
  <2>1. /\ w \in Bytes /\ Len(w) = Len(d) /\ w[8] = 0 /\ w[7] = d[7]
        /\ \A at \in Nat \ {0}, p \in Bytes :
             Piece(d, at, p) /\ (at > 8 \/ at + Len(p) - 1 < 8) => Piece(w, at, p)
    BY <1>3, <1>19, PieceFlags
  <2> QED
    BY <1>1, <2>1, Zenon
<1>21. Piece(w, 1, Header(e))
  <2>1. Piece(w, 1, Magic)
    <3>1. PICK at \in Nat \ {0} : at = 1 /\ at + 4 - 1 < 8
      OBVIOUS
    <3>2. PICK p : p = Magic
      OBVIOUS
    <3>3. p \in Bytes /\ Len(p) = 4
      BY <3>2, <1>16, HeaderPieces
    <3>4. Piece(d, at, p)
      BY <1>2, <1>3, <3>1, <3>2, HeaderReads DEF HeaderOK
    <3> QED
      BY <1>20, <3>1, <3>2, <3>3, <3>4
  <2>2. Piece(w, 5, AppendUnsigned16(e.version))
    <3>1. PICK at \in Nat \ {0} : at = 5 /\ at + 2 - 1 < 8
      OBVIOUS
    <3>2. PICK p : p = AppendUnsigned16(e.version)
      OBVIOUS
    <3>3. p \in Bytes /\ Len(p) = 2
      BY <1>8, <3>2, Digits16
    <3>4. Piece(d, at, p)
      BY <1>3, <1>6, <1>8, <3>1, <3>2, HeaderReads
    <3> QED
      BY <1>20, <3>1, <3>2, <3>3, <3>4
  <2>3. Piece(w, 7, <<e.kind, 0>>)
    <3>1. Len(w) >= 28
      BY <1>2, <1>20
    <3> QED
      BY <1>6, <1>20, <3>1, HeaderReads
  <2>4. Piece(w, 9, AppendUnsigned64(e.sequence))
    <3>1. PICK at \in Nat \ {0} : at = 9 /\ at > 8
      OBVIOUS
    <3>2. PICK p : p = AppendUnsigned64(e.sequence)
      OBVIOUS
    <3>3. p \in Bytes
      BY <1>8, <3>2, Digits64
    <3>4. Piece(d, at, p)
      BY <1>3, <1>6, <1>8, <3>1, <3>2, HeaderReads
    <3> QED
      BY <1>20, <3>1, <3>2, <3>3, <3>4
  <2>5. Piece(w, 17, AppendUnsigned64(ToUnsigned(e.time)))
    <3>1. PICK at \in Nat \ {0} : at = 17 /\ at > 8
      OBVIOUS
    <3>2. PICK p : p = AppendUnsigned64(ToUnsigned(e.time))
      OBVIOUS
    <3>3. p \in Bytes
      BY <1>8, <3>2, Digits64
    <3>4. Piece(d, at, p)
      BY <1>3, <1>6, <1>8, <3>1, <3>2, HeaderReads
    <3> QED
      BY <1>20, <3>1, <3>2, <3>3, <3>4
  <2>6. Piece(w, 25, AppendUnsigned32(e.header_sequence))
    <3>1. PICK at \in Nat \ {0} : at = 25 /\ at > 8
      OBVIOUS
    <3>2. PICK p : p = AppendUnsigned32(e.header_sequence)
      OBVIOUS
    <3>3. p \in Bytes
      BY <1>8, <3>2, Digits32
    <3>4. Piece(d, at, p)
      BY <1>3, <1>6, <1>8, <3>1, <3>2, HeaderReads
    <3> QED
      BY <1>20, <3>1, <3>2, <3>3, <3>4
  <2> QED
    BY <1>16, <1>20, <2>1, <2>2, <2>3, <2>4, <2>5, <2>6, HeaderPieces
<1>22. a2 > 8 /\ a3 > 8 /\ a4 > 8 /\ a5 > 8
  <2>1. PICK m2 \in Nat, m3 \in Nat, m4 \in Nat, m5 \in Nat :
          /\ m2 = Len(e.source_host) /\ m3 = Len(e.ros_type) /\ m4 = Len(e.ros_md5)
          /\ m5 = Len(e.frame_id)
    BY <1>10, <1>11, <1>12, <1>13, LenNat
  <2>2. a2 = 31 + m2 /\ a3 = a2 + 2 + m3 /\ a4 = a3 + 2 + m4 /\ a5 = a4 + 2 + m5
    BY <1>18, <2>1 DEF Places
  <2> QED
    BY <2>2
<1>23. Piece(w, 1, Encoding(e))
  <2>1. Piece(w, 29, AppendString(e.source_host))
    <3>1. PICK at \in Nat \ {0} : at = 29 /\ at > 8
      OBVIOUS
    <3>2. PICK p : p = AppendString(e.source_host)
      OBVIOUS
    <3>3. p \in Bytes
      BY <1>10, <3>2, StringBytes
    <3>4. Piece(d, at, p)
      BY <1>10, <3>1, <3>2
    <3> QED
      BY <1>20, <3>1, <3>2, <3>3, <3>4
  <2>2. Piece(w, a2, AppendString(e.ros_type))
    <3>1. AppendString(e.ros_type) \in Bytes
      BY <1>11, StringBytes
    <3> QED
      BY <1>2, <1>11, <1>20, <1>22, <3>1
  <2>3. Piece(w, a3, AppendString(e.ros_md5))
    <3>1. AppendString(e.ros_md5) \in Bytes
      BY <1>12, StringBytes
    <3> QED
      BY <1>2, <1>12, <1>20, <1>22, <3>1
  <2>4. Piece(w, a4, AppendString(e.frame_id))
    <3>1. AppendString(e.frame_id) \in Bytes
      BY <1>13, StringBytes
    <3> QED
      BY <1>2, <1>13, <1>20, <1>22, <3>1
  <2>5. Piece(w, a5, AppendUnsigned32(n))
    <3>1. AppendUnsigned32(n) \in Bytes
      BY <1>14, Digits32
    <3>2. Piece(d, a5, AppendUnsigned32(n))
      <4>1. a5 + 3 <= Len(d)
        BY <1>1, <1>2
      <4> QED
        BY <1>2, <1>4, <1>14, <4>1, Read32
    <3> QED
      BY <1>2, <1>20, <1>22, <3>1, <3>2
  <2>6. Piece(w, a5 + 4, e.payload)
    <3>1. PICK at : at = a5 + 4
      OBVIOUS
    <3>2. at \in Nat \ {0} /\ at > 8
      BY <1>2, <1>22, <3>1
    <3>3. Piece(d, at, e.payload)
      BY <1>15, <3>1
    <3>4. Piece(w, at, e.payload)
      BY <1>15, <1>20, <3>2, <3>3
    <3> QED
      BY <3>1, <3>4
  <2> QED
    BY <1>15, <1>16, <1>17, <1>18, <1>20, <1>21, <2>1, <2>2, <2>3, <2>4, <2>5, <2>6, EncodingPieces
<1>24. w = Encoding(e)
  <2>1. Encoding(e) \in Bytes /\ Len(Encoding(e)) = a5 + 3 + Len(e.payload)
    BY <1>16, <1>17, <1>18, EncodingPieces
  <2>2. Len(Encoding(e)) = Len(w)
    BY <1>14, <1>15, <1>20, <2>1
  <2> QED
    BY <1>20, <1>23, <2>1, <2>2, PieceWhole
<1>25. EncodeEnvelope(e) = {Encoding(e)}
  BY <1>17 DEF EncodeEnvelope, Encoding
<1> QED
  BY <1>16, <1>17, <1>19, <1>24, <1>25 DEF WithoutFlags

(***************************************************************************)
(* The invariant.  The link changes only what an encoder produced, so a    *)
(* resized envelope continues, or is continued by, an accepted one; and    *)
(* whatever arrives consists of bytes.                                     *)
(***************************************************************************)

Continues(w, d) == Len(d) < Len(w) /\ \A i \in 1..Len(d) : w[i] = d[i]

Resized(d, w) == d \in Bytes /\ (Continues(d, w) \/ Continues(w, d))

\* The envelope comes from the bridge, what was sent is its encoding, and what a link made of
\* that is of the kind the stage names.
EnvelopeInv ==
  /\ stage \in {"none", "built", "refused", "sent", "intact", "resized", "corrupt"}
  /\ stage # "none" => envelope \in Envelopes
  /\ stage \in {"sent", "intact"} => wire \in EncodeEnvelope(envelope)
  /\ stage = "resized" => \E w \in EncodeEnvelope(envelope) : Resized(wire, w)
  /\ stage = "corrupt" => wire \in Bytes

\* What EncodeEnvelope produces for an envelope of the bridge decodes to it.
LEMMA SentIsAccepted ==
  ASSUME NEW e \in Envelopes, NEW w \in EncodeEnvelope(e)
  PROVE  e.version = Version /\ w \in Bytes /\ DecodeEnvelope(w) = {e}
<1>1. e \in TransportEnvelope
  BY EnvelopesAssumption
<1>2. Encodable(e) /\ w = Encoding(e)
  BY DEF EncodeEnvelope, Encoding
<1>3. PICK a2, a3, a4, a5 : Places(e, a2, a3, a4, a5)
  BY DEF Places
<1>4. w \in Bytes
  BY <1>1, <1>2, <1>3, EncodingPieces
<1>5. DecodeEnvelope(w) = {e}
  BY <1>1, <1>2, RoundTrip
<1> QED
  BY <1>2, <1>4, <1>5 DEF Encodable

\* The invariant holds initially,
LEMMA EnvelopeInvInit == Init => EnvelopeInv
<1>1. Init => stage = "none" \/ (stage = "built" /\ envelope \in Envelopes)
  BY DEF Init, EnvelopeInit, NoEnvelope
<1> QED
  BY <1>1 DEF EnvelopeInv

\* and every step of the encoder, of the link and of the other codec preserves it.
LEMMA EnvelopeInvNext == EnvelopeInv /\ [Next]_<<envelopeVars, cloudVars>> => EnvelopeInv'
<1> SUFFICES ASSUME EnvelopeInv, [Next]_<<envelopeVars, cloudVars>> PROVE EnvelopeInv'
  OBVIOUS
<1>1. CASE Encode
  <2>1. envelope \in Envelopes /\ envelope' = envelope
    BY <1>1 DEF Encode, EnvelopeInv
  <2>2. CASE EncodeEnvelope(envelope) = {}
    <3>1. stage' = "refused"
      BY <1>1, <2>2 DEF Encode
    <3> QED
      BY <2>1, <3>1 DEF EnvelopeInv
  <2>3. CASE EncodeEnvelope(envelope) # {}
    <3>1. stage' = "sent" /\ wire' = CHOOSE bytes \in EncodeEnvelope(envelope) : TRUE
      BY <1>1, <2>3 DEF Encode
    <3>2. wire' \in EncodeEnvelope(envelope)
      BY <2>3, <3>1
    <3>3. wire' \in EncodeEnvelope(envelope')
      BY <2>1, <3>2
    <3> QED
      BY <2>1, <3>1, <3>3 DEF EnvelopeInv
  <2> QED
    BY <2>2, <2>3
<1>2. ASSUME stage = "sent" PROVE envelope \in Envelopes /\ wire \in EncodeEnvelope(envelope) /\ wire \in Bytes
  <2>1. envelope \in Envelopes /\ wire \in EncodeEnvelope(envelope)
    BY <1>2 DEF EnvelopeInv
  <2> QED
    BY <2>1, SentIsAccepted
<1>3. CASE Deliver
  <2>1. stage = "sent" /\ stage' = "intact" /\ wire' = wire /\ envelope' = envelope
    BY <1>3 DEF Deliver, Link
  <2> QED
    BY <1>2, <2>1 DEF EnvelopeInv
<1>4. ASSUME NEW d \in Bytes, Continues(d, wire) \/ Continues(wire, d), Link(d, "resized")
      PROVE  EnvelopeInv'
  <2>1. stage = "sent" /\ stage' = "resized" /\ wire' = d /\ envelope' = envelope
    BY <1>4 DEF Link
  <2>2. Resized(d, wire)
    BY <1>4 DEF Resized
  <2>3. \E w \in EncodeEnvelope(envelope) : Resized(d, w)
    BY <1>2, <2>1, <2>2
  <2>4. \E w \in EncodeEnvelope(envelope') : Resized(wire', w)
    BY <2>1, <2>3
  <2> QED
    BY <1>2, <2>1, <2>4 DEF EnvelopeInv
<1>5. CASE Truncate
  <2>1. PICK n \in 0..(Len(wire) - 1) : Link(SubSeq(wire, 1, n), "resized")
    BY <1>5 DEF Truncate
  <2>2. wire \in Bytes
    BY <1>2, <2>1 DEF Link
  <2>3. PICK L \in Nat : L = Len(wire)
    BY <2>2, LenNat
  <2>4. PICK at, d : at = 1 /\ d = SubSeq(wire, at, n)
    OBVIOUS
  <2>5. at \in Nat \ {0} /\ n \in Nat /\ n <= Len(wire) /\ at <= n + 1 /\ n + 1 - at = n
    BY <2>3, <2>4
  <2>6. d \in Bytes /\ Len(d) = n + 1 - at /\ Piece(wire, at, d)
    BY <2>2, <2>4, <2>5, PieceOf
  <2>7. Len(d) = n /\ n < Len(wire)
    BY <2>3, <2>5, <2>6
  <2>8. ASSUME NEW i \in 1..Len(d) PROVE wire[i] = d[i]
    <3>1. wire[at + i - 1] = d[i]
      BY <2>6 DEF Piece
    <3>2. at + i - 1 = i
      BY <2>4, <2>5, <2>7
    <3> QED
      BY <3>1, <3>2
  <2>9. Continues(wire, d)
    BY <2>7, <2>8 DEF Continues
  <2> QED
    BY <1>4, <2>1, <2>4, <2>6, <2>9
<1>6. CASE Extend
  <2>1. PICK x \in Damage : Link(Append(wire, x), "resized")
    BY <1>6 DEF Extend
  <2>2. wire \in Bytes /\ x \in Digit
    BY <1>2, <2>1, EnvelopesAssumption DEF Link
  <2>3. PICK d : d = Append(wire, x)
    OBVIOUS
  <2>4. /\ d \in Bytes /\ Len(d) = Len(wire) + 1 /\ \A i \in 1..Len(wire) : d[i] = wire[i]
    BY <2>2, <2>3 DEF Bytes
  <2>5. Len(wire) < Len(d)
    <3>1. PICK L \in Nat : L = Len(wire)
      BY <2>2, LenNat
    <3> QED
      BY <2>4, <3>1
  <2>6. Continues(d, wire)
    BY <2>4, <2>5 DEF Continues
  <2> QED
    BY <1>4, <2>1, <2>3, <2>4, <2>6
<1>7. CASE Corrupt
  <2>1. PICK i \in DOMAIN wire, x \in Damage : Link([wire EXCEPT ![i] = x], "corrupt")
    BY <1>7 DEF Corrupt
  <2>2. wire \in Bytes /\ x \in Digit /\ envelope \in Envelopes
    BY <1>2, <2>1, EnvelopesAssumption DEF Link
  <2>3. [wire EXCEPT ![i] = x] \in Bytes
    BY <2>2 DEF Bytes
  <2>4. stage' = "corrupt" /\ wire' = [wire EXCEPT ![i] = x] /\ envelope' = envelope
    BY <2>1 DEF Link
  <2> QED
    BY <2>2, <2>3, <2>4 DEF EnvelopeInv
<1>8. CASE UNCHANGED envelopeVars
  BY <1>8, Zenon DEF EnvelopeInv, envelopeVars
<1> QED
  BY <1>1, <1>3, <1>5, <1>6, <1>7, <1>8 DEF Next, EnvelopeNext

\* Every run: the invariant holds throughout.
THEOREM EnvelopesAsEncoded == Spec => []EnvelopeInv
BY EnvelopeInvInit, EnvelopeInvNext, PTL DEF Spec

\* EncodeEnvelope and DecodeEnvelope are inverse to each other: what arrives intact decodes to the
\* envelope that was handed to EncodeEnvelope, whatever its texts, payload, time and sequences,
\* and passes ValidateEnvelopeMetadata for its own topic.
THEOREM IntactIsDecoded == Spec => []EnvelopeRoundTrip
<1>1. EnvelopeInv => EnvelopeRoundTrip
  <2> SUFFICES ASSUME EnvelopeInv, stage = "intact"
               PROVE  /\ DecodeEnvelope(wire) = {envelope}
                      /\ ValidateEnvelopeMetadata(envelope, envelope.ros_type, envelope.ros_md5)
    BY DEF EnvelopeRoundTrip
  <2>1. envelope \in Envelopes /\ wire \in EncodeEnvelope(envelope)
    BY DEF EnvelopeInv
  <2>2. envelope.version = Version /\ DecodeEnvelope(wire) = {envelope}
    BY <2>1, SentIsAccepted
  <2> QED
    BY <2>2 DEF ValidateEnvelopeMetadata
<1> QED
  BY <1>1, EnvelopesAsEncoded, PTL

\* DecodeEnvelope rejects an envelope that lost bytes at its end, or has one more: the lengths it
\* reads account for every byte.
THEOREM ResizedIsRejected == Spec => []ResizedRejected
<1>1. EnvelopeInv => ResizedRejected
  <2> SUFFICES ASSUME EnvelopeInv, stage = "resized" PROVE DecodeEnvelope(wire) = {}
    BY DEF ResizedRejected
  <2>1. envelope \in Envelopes
    BY DEF EnvelopeInv
  <2>2. PICK w \in EncodeEnvelope(envelope) : Resized(wire, w)
    BY DEF EnvelopeInv
  <2>3. w \in Bytes /\ DecodeEnvelope(w) = {envelope}
    BY <2>1, SentIsAccepted
  <2>4. DecodeEnvelope(w) # {}
    BY <2>3
  <2>5. wire \in Bytes /\ (Continues(wire, w) \/ Continues(w, wire))
    BY <2>2 DEF Resized
  <2>6. CASE Continues(wire, w)
    BY <2>3, <2>4, <2>5, <2>6, PrefixRejected DEF Continues
  <2>7. CASE Continues(w, wire)
    BY <2>3, <2>4, <2>5, <2>7, PrefixRejected DEF Continues
  <2> QED
    BY <2>5, <2>6, <2>7
<1> QED
  BY <1>1, EnvelopesAsEncoded, PTL

\* Whatever bytes DecodeEnvelope accepts are, up to the reserved flags, what EncodeEnvelope
\* produces for the result: no length is read past the end, none beyond its limit.
THEOREM AcceptedIsEncoded == Spec => []AcceptedIsCanonical
<1>1. EnvelopeInv => AcceptedIsCanonical
  <2> SUFFICES ASSUME EnvelopeInv, stage = "corrupt", NEW e \in DecodeEnvelope(wire)
               PROVE  EncodeEnvelope(e) = {[wire EXCEPT ![8] = 0]}
    BY DEF AcceptedIsCanonical
  <2>1. wire \in Bytes
    BY DEF EnvelopeInv
  <2> QED
    BY <2>1, Canonical
<1> QED
  BY <1>1, EnvelopesAsEncoded, PTL

(***************************************************************************)
(* Clouds: the place of a byte.                                            *)
(***************************************************************************)

\* The fields of a message that can take part in the encoding.
Found(m) == {FindField(m.fields, n) : n \in {"x", "y", "z", "rgba", "rgb", "r", "g", "b", "a"}}

\* A message the codec encodes point by point.
CloudOK(m) ==
  /\ m \in PointCloud2 /\ StorageValid(m)
  /\ Points(m) # {} /\ LayoutValid(m.fields, m.point_step)

\* A message's parts have their types.
LEMMA CloudTypes ==
  ASSUME NEW m \in PointCloud2
  PROVE  /\ m.width \in Nat /\ m.height \in Nat /\ m.point_step \in Nat /\ m.row_step \in Nat
         /\ m.fields \in Seq(PointField) /\ m.data \in Seq(Int)
BY DEF PointCloud2

\* Also those of a field that FindField returns, found or Absent.
LEMMA FoundTypes ==
  ASSUME NEW m \in PointCloud2, NEW f \in Found(m)
  PROVE  f.offset \in Nat /\ f.count \in Nat
<1>1. PICK n : f = FindField(m.fields, n)
  BY DEF Found
<1> DEFINE first == {i \in DOMAIN m.fields : /\ m.fields[i].name = n
                                           /\ \A j \in 1..(i - 1) : m.fields[j].name # n}
<1>2. CASE first = {}
  <2>1. f = Absent
    BY <1>1, <1>2, Zenon DEF FindField
  <2> QED
    BY <2>1 DEF Absent
<1>3. CASE first # {}
  <2>1. PICK i \in DOMAIN m.fields : f = m.fields[i]
    BY <1>1, <1>3, Zenon DEF FindField
  <2>2. f \in PointField
    BY <2>1, CloudTypes
  <2> QED
    BY <2>2 DEF PointField
<1> QED
  BY <1>2, <1>3

\* The sizes of a message that is not empty.
Grid(W, H, P, R) ==
  /\ W \in Nat /\ H \in Nat /\ P \in Nat /\ R \in Nat
  /\ W > 0 /\ H > 0 /\ P > 0 /\ W * P <= R

\* Byte c of point i lies in the row and column of the point.
LEMMA PointByte ==
  ASSUME NEW W, NEW H, NEW P, NEW R, Grid(W, H, P, R),
         NEW i \in 0..W * H - 1, NEW c \in 0..P - 1,
         NEW o, o = (i \div W) * R + (i % W) * P + c
  PROVE  /\ o \in 0..R * H - 1 /\ o % R = (i % W) * P + c
         /\ o % R < W * P /\ (o % R) % P = c
<1>0. /\ W \in Nat /\ H \in Nat /\ P \in Nat /\ R \in Nat
      /\ W > 0 /\ H > 0 /\ P > 0 /\ W * P <= R
  BY DEF Grid
<1> USE <1>0
<1>1. PICK q, r : q = i \div W /\ r = i % W
  OBVIOUS
<1>2. W * H = H * W /\ R * H = H * R
  OBVIOUS
<1>3. q \in 0..H - 1 /\ r \in 0..W - 1
  BY <1>1, <1>2, DivBound
<1>4. PICK l : l = r * P + c
  OBVIOUS
<1>5. l \in 0..W * P - 1
  BY <1>3, <1>4, JoinBound
<1>6. W * P \in Nat /\ l \in 0..R - 1 /\ R > 0
  BY <1>5
<1>7. o = q * R + l
  BY <1>1, <1>3, <1>4
<1>8. o \in 0..H * R - 1
  BY <1>3, <1>6, <1>7, JoinBound
<1>9. o % R = l
  <2>1. (q * R + l) % R = l
    BY <1>3, <1>6, DivUnique
  <2> QED
    BY <1>7, <2>1
<1>10. l % P = c
  BY <1>3, <1>4, DivUnique
<1> QED
  BY <1>1, <1>2, <1>4, <1>5, <1>8, <1>9, <1>10

\* Every offset that is not padding is a byte of a point.
LEMMA ByteOwner ==
  ASSUME NEW W, NEW H, NEW P, NEW R, Grid(W, H, P, R),
         NEW o \in 0..R * H - 1, o % R < W * P
  PROVE  \E i \in 0..W * H - 1, c \in 0..P - 1 :
            o = (i \div W) * R + (i % W) * P + c /\ c = (o % R) % P
<1>0. /\ W \in Nat /\ H \in Nat /\ P \in Nat /\ R \in Nat
      /\ W > 0 /\ H > 0 /\ P > 0 /\ W * P <= R
  BY DEF Grid
<1> USE <1>0
<1>10. R > 0 /\ R * H = H * R /\ W * H = H * W
  OBVIOUS
<1>1. PICK q, l : q = o \div R /\ l = o % R
  OBVIOUS
<1>2. q \in 0..H - 1 /\ l \in 0..R - 1 /\ q * R + l = o
  BY <1>10, <1>1, DivBound
<1>3. l \in 0..W * P - 1
  BY <1>1, <1>2
<1>4. PICK r, c : r = l \div P /\ c = l % P
  OBVIOUS
<1>5. r \in 0..W - 1 /\ c \in 0..P - 1 /\ r * P + c = l
  BY <1>3, <1>4, DivBound
<1>6. PICK i : i = q * W + r
  OBVIOUS
<1>7. i \in 0..H * W - 1
  BY <1>2, <1>5, <1>6, JoinBound
<1>8. i \div W = q /\ i % W = r
  BY <1>2, <1>5, <1>6, DivUnique
<1>9. o = (i \div W) * R + (i % W) * P + c
  BY <1>2, <1>5, <1>8
<1> QED
  BY <1>10, <1>1, <1>4, <1>5, <1>7, <1>9

\* What ParseLayout ensures: position and colour fields lie within a point, apart from each other.
LEMMA ScalarFour ==
  ASSUME NEW f, f.offset \in Nat, NEW P \in Nat, NEW T, T \subseteq {"FLOAT32", "UINT32"},
         IsScalar(f, T, P)
  PROVE  Span(f) = f.offset..(f.offset + 3) /\ f.offset + 4 <= P
<1>1. f.type \in {"FLOAT32", "UINT32"} /\ f.count = 1 /\ FieldFits(f, P)
  BY DEF IsScalar
<1>2. DatatypeSize(f.type) = 4
  BY <1>1 DEF DatatypeSize
<1>3. Size(f) = 4
  BY <1>1, <1>2 DEF Size
<1> QED
  BY <1>1, <1>3 DEF FieldFits, Span

\* The same for a scalar of one byte.
LEMMA ScalarOne ==
  ASSUME NEW f, f.offset \in Nat, NEW P \in Nat, IsScalar(f, {"UINT8"}, P)
  PROVE  Span(f) = f.offset..f.offset /\ f.offset + 1 <= P
<1>1. f.type = "UINT8" /\ f.count = 1 /\ FieldFits(f, P)
  BY DEF IsScalar
<1>2. DatatypeSize(f.type) = 1
  BY <1>1 DEF DatatypeSize
<1>3. Size(f) = 1
  BY <1>1, <1>2 DEF Size
<1> QED
  BY <1>1, <1>3 DEF FieldFits, Span

\* x, y and z are four bytes each, within the point.
LEMMA PositionFields ==
  ASSUME NEW m, CloudOK(m)
  PROVE  /\ Position(m.fields) \in Seq(Found(m)) /\ Len(Position(m.fields)) = 3
         /\ \A k \in 1..3 : LET f == Position(m.fields)[k] IN
              f.offset \in Nat /\ Span(f) = f.offset..(f.offset + 3) /\ f.offset + 4 <= m.point_step
<1> DEFINE F(n) == FindField(m.fields, n)
<1>1. F("x") \in Found(m) /\ F("y") \in Found(m) /\ F("z") \in Found(m)
  BY DEF Found
<1>2. Position(m.fields) = <<F("x"), F("y"), F("z")>>
  BY DEF Position
<1> HIDE DEF F
<1>3. Position(m.fields) \in Seq(Found(m)) /\ Len(Position(m.fields)) = 3
  BY <1>1, <1>2
<1>4. ASSUME NEW k \in 1..3
      PROVE LET f == Position(m.fields)[k] IN
              f.offset \in Nat /\ Span(f) = f.offset..(f.offset + 3) /\ f.offset + 4 <= m.point_step
  <2>1. PICK f : f = Position(m.fields)[k]
    OBVIOUS
  <2>2. f \in Found(m)
    BY <1>3, <2>1
  <2>3. m \in PointCloud2 /\ IsScalar(f, {"FLOAT32"}, m.point_step)
    BY <2>1 DEF CloudOK, LayoutValid
  <2>4. f.offset \in Nat /\ m.point_step \in Nat
    BY <2>2, <2>3, FoundTypes, CloudTypes
  <2>5. Span(f) = f.offset..(f.offset + 3) /\ f.offset + 4 <= m.point_step
    BY <2>3, <2>4, ScalarFour
  <2> QED
    BY <2>1, <2>4, <2>5
<1> QED
  BY <1>3, <1>4

\* The colour is one field of four bytes, or three or four of one byte, or none.
LEMMA ColourFields ==
  ASSUME NEW m, m \in PointCloud2
  PROVE  LET fs == ColorFields(m.fields, m.point_step) IN
         /\ fs \in Seq(Found(m))
         /\ Len(fs) \in {0, 1, 3, 4}
         /\ Len(fs) = 1 => /\ fs[1].offset \in Nat
                           /\ Span(fs[1]) = fs[1].offset..(fs[1].offset + 3)
                           /\ fs[1].offset + 4 <= m.point_step
         /\ Len(fs) # 1 => \A k \in DOMAIN fs : /\ fs[k].offset \in Nat
                                                /\ Span(fs[k]) = fs[k].offset..fs[k].offset
                                                /\ fs[k].offset + 1 <= m.point_step
<1> DEFINE F(n) == FindField(m.fields, n)
           P == m.point_step
           four(f) == f.offset \in Nat /\ Span(f) = f.offset..(f.offset + 3) /\ f.offset + 4 <= P
           one(f) == f.offset \in Nat /\ Span(f) = f.offset..f.offset /\ f.offset + 1 <= P
           packed(f) == IsScalar(f, {"FLOAT32", "UINT32"}, P)
           byte(f) == IsScalar(f, {"UINT8"}, P)
<1>1. PICK fs : fs = ColorFields(m.fields, P)
  OBVIOUS
<1>2. /\ F("rgba") \in Found(m) /\ F("rgb") \in Found(m) /\ F("r") \in Found(m)
      /\ F("g") \in Found(m) /\ F("b") \in Found(m) /\ F("a") \in Found(m)
  BY DEF Found
<1>3. \A f \in Found(m) : (packed(f) => four(f)) /\ (byte(f) => one(f))
  BY CloudTypes, FoundTypes, ScalarFour, ScalarOne
<1>4. fs = IF packed(F("rgba")) THEN <<F("rgba")>>
           ELSE IF packed(F("rgb")) THEN <<F("rgb")>>
           ELSE IF ~(byte(F("r")) /\ byte(F("g")) /\ byte(F("b"))) THEN <<>>
           ELSE IF F("a") = Absent THEN <<F("r"), F("g"), F("b")>>
           ELSE IF byte(F("a")) THEN <<F("r"), F("g"), F("b"), F("a")>>
           ELSE <<>>
  BY <1>1, Zenon DEF ColorFields
<1> HIDE DEF F, four, one, packed, byte
<1>5. \/ fs \in Seq(Found(m)) /\ Len(fs) = 1 /\ four(fs[1])
      \/ fs \in Seq(Found(m)) /\ Len(fs) = 3 /\ one(fs[1]) /\ one(fs[2]) /\ one(fs[3])
      \/ fs \in Seq(Found(m)) /\ Len(fs) = 4 /\ one(fs[1]) /\ one(fs[2]) /\ one(fs[3]) /\ one(fs[4])
      \/ fs \in Seq(Found(m)) /\ Len(fs) = 0
  <2>1. CASE packed(F("rgba"))
    <3>1. fs = <<F("rgba")>> /\ four(F("rgba"))
      BY <1>2, <1>3, <1>4, <2>1
    <3> QED
      BY <1>2, <3>1
  <2>2. CASE ~packed(F("rgba")) /\ packed(F("rgb"))
    <3>1. fs = <<F("rgb")>> /\ four(F("rgb"))
      BY <1>2, <1>3, <1>4, <2>2
    <3> QED
      BY <1>2, <3>1
  <2>3. CASE ~packed(F("rgba")) /\ ~packed(F("rgb"))
    <3>1. CASE ~(byte(F("r")) /\ byte(F("g")) /\ byte(F("b")))
      BY <1>4, <2>3, <3>1
    <3>2. CASE byte(F("r")) /\ byte(F("g")) /\ byte(F("b"))
      <4>1. one(F("r")) /\ one(F("g")) /\ one(F("b"))
        BY <1>2, <1>3, <3>2
      <4>2. CASE F("a") = Absent
        <5>1. fs = <<F("r"), F("g"), F("b")>>
          BY <1>4, <2>3, <3>2, <4>2
        <5> QED
          BY <1>2, <4>1, <5>1
      <4>3. CASE F("a") # Absent /\ byte(F("a"))
        <5>1. fs = <<F("r"), F("g"), F("b"), F("a")>> /\ one(F("a"))
          BY <1>2, <1>3, <1>4, <2>3, <3>2, <4>3
        <5> QED
          BY <1>2, <4>1, <5>1
      <4>4. CASE F("a") # Absent /\ ~byte(F("a"))
        BY <1>4, <2>3, <3>2, <4>4
      <4> QED
        BY <4>2, <4>3, <4>4
    <3> QED
      BY <3>1, <3>2
  <2> QED
    BY <2>1, <2>2, <2>3
<1>6. /\ fs \in Seq(Found(m)) /\ Len(fs) \in {0, 1, 3, 4}
      /\ Len(fs) = 1 => four(fs[1])
      /\ Len(fs) # 1 => \A k \in DOMAIN fs : one(fs[k])
  BY <1>5
<1> QED
  BY <1>1, <1>6 DEF four, one

\* The encoded bytes of a point are those of the position and those of the colour, which differ.
LEMMA EncodedBytes ==
  ASSUME NEW m, CloudOK(m)
  PROVE  LET ps == Position(m.fields)
             fs == ColorFields(m.fields, m.point_step) IN
         /\ \A c : c \in Encoded(m.fields, m.point_step) <=>
                     (\E k \in 1..3 : c \in Span(ps[k])) \/ (\E k \in DOMAIN fs : c \in Span(fs[k]))
         /\ \A k \in 1..3, j \in DOMAIN fs : Span(ps[k]) \cap Span(fs[j]) = {}
<1>1. PICK ps, fs : ps = Position(m.fields) /\ fs = ColorFields(m.fields, m.point_step)
  OBVIOUS
<1>2. ps \in Seq(Found(m)) /\ Len(ps) = 3 /\ fs \in Seq(Found(m))
  BY <1>1, PositionFields, ColourFields DEF CloudOK
<1>3. PICK e : e = ps \o fs
  OBVIOUS
<1>4. /\ \A k \in 1..3 : e[k] = ps[k] /\ k \in DOMAIN e
      /\ \A k \in DOMAIN fs : e[k + 3] = fs[k] /\ k + 3 \in DOMAIN e /\ k + 3 \notin 1..3
      /\ \A k \in DOMAIN e : k \in 1..3 \/ (k - 3 \in DOMAIN fs /\ e[k] = fs[k - 3])
  <2>1. PICK n \in Nat : Len(fs) = n /\ DOMAIN fs = 1..n
    BY <1>2
  <2>2. Len(e) = 3 + n /\ e \in Seq(Found(m))
        /\ \A k \in 1..3 + n : e[k] = IF k <= 3 THEN ps[k] ELSE fs[k - 3]
    <3>1. PICK T : T = Found(m)
      OBVIOUS
    <3>2. /\ ps \o fs \in Seq(T) /\ Len(ps \o fs) = Len(ps) + Len(fs)
          /\ \A k \in 1..Len(ps) + Len(fs) :
               (ps \o fs)[k] = IF k <= Len(ps) THEN ps[k] ELSE fs[k - Len(ps)]
      BY <1>2, <3>1, ConcatProperties
    <3> QED
      BY <1>2, <1>3, <2>1, <3>1, <3>2
  <2> QED
    BY <2>1, <2>2
<1>5. \A i, j \in DOMAIN e : i # j => Span(e[i]) \cap Span(e[j]) = {}
  BY <1>1, <1>3 DEF CloudOK, LayoutValid, SpansOverlap
<1>6. \A k \in 1..3, j \in DOMAIN fs : Span(ps[k]) \cap Span(fs[j]) = {}
  BY <1>4, <1>5
<1>7. ASSUME NEW c
      PROVE  c \in Encoded(m.fields, m.point_step) <=>
               (\E k \in 1..3 : c \in Span(ps[k])) \/ (\E k \in DOMAIN fs : c \in Span(fs[k]))
  <2>1. c \in Encoded(m.fields, m.point_step) <=> \E k \in DOMAIN e : c \in Span(e[k])
    BY <1>1, <1>3 DEF Encoded, Range
  <2>2. ASSUME NEW k \in DOMAIN e, c \in Span(e[k])
        PROVE  (\E j \in 1..3 : c \in Span(ps[j])) \/ (\E j \in DOMAIN fs : c \in Span(fs[j]))
    BY <1>4, <2>2
  <2>3. ASSUME NEW k \in 1..3, c \in Span(ps[k]) PROVE \E j \in DOMAIN e : c \in Span(e[j])
    BY <1>4, <2>3
  <2>4. ASSUME NEW k \in DOMAIN fs, c \in Span(fs[k]) PROVE \E j \in DOMAIN e : c \in Span(e[j])
    BY <1>4, <2>4
  <2> QED
    BY <2>1, <2>2, <2>3, <2>4
<1> QED
  BY <1>1, <1>6, <1>7

\* The sizes of a message that is not empty, and the extent of its data.
LEMMA CloudShape ==
  ASSUME NEW m, CloudOK(m)
  PROVE  /\ m.width \in Nat /\ m.height \in Nat /\ m.point_step \in Nat /\ m.row_step \in Nat
         /\ m.width > 0 /\ m.height > 0 /\ m.point_step > 0 /\ m.row_step > 0
         /\ m.width * m.point_step <= m.row_step
         /\ Points(m) = 0..m.width * m.height - 1
         /\ m.data \in Seq(Int) /\ DOMAIN m.data = 1..m.row_step * m.height
         /\ m.row_step * m.height \in Nat /\ m.width * m.height \in Nat
<1>1. /\ m.width \in Nat /\ m.height \in Nat /\ m.point_step \in Nat /\ m.row_step \in Nat
      /\ m.data \in Seq(Int)
  BY CloudTypes DEF CloudOK
<1>2. m.width * m.point_step <= m.row_step /\ m.row_step * m.height = Len(m.data)
  BY DEF CloudOK, StorageValid
<1>3. m.point_step > 0
  BY DEF CloudOK, LayoutValid
<1>4. Points(m) = 0..m.width * m.height - 1 /\ Points(m) # {}
  BY DEF CloudOK, Points
<1>5. PICK W, H, P, R : W = m.width /\ H = m.height /\ P = m.point_step /\ R = m.row_step
  OBVIOUS
<1>6. W * H \in Nat /\ W * H > 0
  BY <1>1, <1>4, <1>5
<1>7. W > 0 /\ H > 0
  BY <1>1, <1>5, <1>6
<1>8. R > 0 /\ R * H \in Nat
  <2>1. W * P > 0
    BY <1>1, <1>3, <1>5, <1>7
  <2> QED
    BY <1>1, <1>2, <1>5, <2>1
<1> QED
  BY <1>1, <1>2, <1>3, <1>4, <1>5, <1>6, <1>7, <1>8

\* A byte of a point lies in the data, in the row and column that ByteOwner finds.
LEMMA PointOffset ==
  ASSUME NEW m, CloudOK(m), NEW i \in Points(m), NEW c \in 0..m.point_step - 1,
         NEW o, o = PointDataOffset(m, i) + c
  PROVE  /\ o \in Offsets(m) /\ o + 1 \in DOMAIN m.data
         /\ o % m.row_step < m.width * m.point_step /\ (o % m.row_step) % m.point_step = c
         /\ PointDataOffset(m, i) \in Nat
<1>1. PICK W, H, P, R : W = m.width /\ H = m.height /\ P = m.point_step /\ R = m.row_step
  OBVIOUS
<1>2. /\ W \in Nat /\ H \in Nat /\ P \in Nat /\ R \in Nat
      /\ W > 0 /\ H > 0 /\ P > 0 /\ W * P <= R
      /\ i \in 0..W * H - 1 /\ c \in 0..P - 1
      /\ DOMAIN m.data = 1..R * H
  BY <1>1, CloudShape
<1>3. PointDataOffset(m, i) = (i \div W) * R + (i % W) * P
  BY <1>1, Zenon DEF PointDataOffset
<1>4. PICK at : at = PointDataOffset(m, i)
  OBVIOUS
<1>5. i \div W \in Nat /\ i % W \in Nat
  BY <1>2
<1>6. at \in Nat
  <2>1. PICK q, r : q = i \div W /\ r = i % W
    OBVIOUS
  <2>2. q \in Nat /\ r \in Nat /\ at = q * R + r * P
    BY <1>3, <1>4, <1>5, <2>1
  <2>3. q * R \in Nat /\ r * P \in Nat
    BY <1>2, <2>2
  <2> QED
    BY <2>2, <2>3
<1>7. o = (i \div W) * R + (i % W) * P + c
  BY <1>3
<1>8. /\ o \in 0..R * H - 1 /\ o % R < W * P /\ (o % R) % P = c
  <2>1. Grid(W, H, P, R)
    BY <1>2 DEF Grid
  <2>2. i \in 0..W * H - 1 /\ c \in 0..P - 1
    BY <1>2
  <2> QED
    BY <1>7, <2>1, <2>2, PointByte
<1>9. o + 1 \in 1..R * H /\ R * H \in Nat
  BY <1>2, <1>8
<1> QED
  BY <1>1, <1>2, <1>4, <1>6, <1>8, <1>9 DEF Offsets

\* An offset in the part of a row that is not padding is a byte of some point.
LEMMA OffsetPoint ==
  ASSUME NEW m, CloudOK(m), NEW o \in Offsets(m), o % m.row_step < m.width * m.point_step
  PROVE  \E i \in Points(m), c \in 0..m.point_step - 1 :
           o = PointDataOffset(m, i) + c /\ c = (o % m.row_step) % m.point_step
<1>1. PICK W, H, P, R : W = m.width /\ H = m.height /\ P = m.point_step /\ R = m.row_step
  OBVIOUS
<1>2. /\ W \in Nat /\ H \in Nat /\ P \in Nat /\ R \in Nat
      /\ W > 0 /\ H > 0 /\ P > 0 /\ W * P <= R
      /\ o \in 0..R * H - 1 /\ o % R < W * P /\ Points(m) = 0..W * H - 1
  BY <1>1, CloudShape DEF Offsets
<1>3. PICK i \in 0..W * H - 1, c \in 0..P - 1 :
         o = (i \div W) * R + (i % W) * P + c /\ c = (o % R) % P
  <2>1. Grid(W, H, P, R)
    BY <1>2 DEF Grid
  <2>2. o \in 0..R * H - 1 /\ o % R < W * P
    BY <1>2
  <2> QED
    BY <2>1, <2>2, ByteOwner
<1>4. PointDataOffset(m, i) = (i \div W) * R + (i % W) * P
  BY <1>1, Zenon DEF PointDataOffset
<1> QED
  BY <1>1, <1>2, <1>3, <1>4

\* The offsets of the positions, by row and column.
LEMMA PositionAt ==
  ASSUME NEW m, CloudOK(m), NEW o \in Offsets(m)
  PROVE  o \in PositionOffsets(m) <=>
           /\ o % m.row_step < m.width * m.point_step
           /\ \E k \in 1..3 : (o % m.row_step) % m.point_step \in Span(Position(m.fields)[k])
<1>1. PICK ps : ps = Position(m.fields)
  OBVIOUS
<1>2. DOMAIN ps = 1..3 /\ \A k \in 1..3 : Span(ps[k]) \subseteq 0..m.point_step - 1
  <2>1. ps \in Seq(Found(m)) /\ Len(ps) = 3
    BY <1>1, PositionFields
  <2>2. ASSUME NEW k \in 1..3 PROVE Span(ps[k]) \subseteq 0..m.point_step - 1
    <3>1. PICK f : f = ps[k]
      OBVIOUS
    <3>2. f.offset \in Nat /\ Span(f) = f.offset..(f.offset + 3) /\ f.offset + 4 <= m.point_step
      BY <1>1, <3>1, PositionFields
    <3>3. m.point_step \in Nat
      BY CloudShape
    <3> QED
      BY <3>1, <3>2, <3>3
  <2> QED
    BY <2>1, <2>2
<1>3. o \in PositionOffsets(m) <=>
        \E i \in Points(m) : \E b :
           (\E k \in DOMAIN ps : b \in Span(ps[k])) /\ o = PointDataOffset(m, i) + b
  BY <1>1 DEF PositionOffsets, Range
<1>5. ASSUME o \in PositionOffsets(m)
      PROVE  /\ o % m.row_step < m.width * m.point_step
             /\ \E k \in 1..3 : (o % m.row_step) % m.point_step \in Span(ps[k])
  <2>1. PICK i, k, b :
           /\ i \in Points(m) /\ k \in 1..3
           /\ b \in Span(ps[k]) /\ o = PointDataOffset(m, i) + b
    BY <1>2, <1>3, <1>5
  <2>2. b \in 0..m.point_step - 1
    BY <1>2, <2>1
  <2>3. o % m.row_step < m.width * m.point_step /\ (o % m.row_step) % m.point_step = b
    BY <2>1, <2>2, PointOffset
  <2> QED
    BY <2>1, <2>3
<1>6. ASSUME NEW k \in 1..3, (o % m.row_step) % m.point_step \in Span(ps[k]),
             o % m.row_step < m.width * m.point_step
      PROVE  o \in PositionOffsets(m)
  <2>1. PICK i \in Points(m), c \in 0..m.point_step - 1 :
           o = PointDataOffset(m, i) + c /\ c = (o % m.row_step) % m.point_step
    BY <1>6, OffsetPoint
  <2> QED
    BY <1>2, <1>3, <1>6, <2>1
<1> QED
  BY <1>1, <1>5, <1>6

(***************************************************************************)
(* Clouds: words and the sidecar.                                          *)
(***************************************************************************)

\* What was read in one byte order is written back in the same order, whatever Draco makes of it.
LEMMA Words ==
  ASSUME NEW w \in [1..4 -> Int], NEW e
  PROVE  /\ WriteUint32(ReadUint32(w, e), e) = w
         /\ WriteUint32(Quantized(ReadUint32(w, e)), e) = [k \in 1..4 |-> -w[k]]
         /\ ReadUint32(w, e) \in [1..4 -> Int]
<1>1. Len(w) = 4 /\ DOMAIN w = 1..4
  OBVIOUS
<1>2. CASE e
  <2>1. ReadUint32(w, e) = w /\ \A v : WriteUint32(v, e) = v
    BY <1>2 DEF ReadUint32, WriteUint32
  <2> QED
    BY <1>1, <2>1 DEF Quantized
<1>3. CASE ~e
  <2>1. ReadUint32(w, e) = Reverse(w) /\ \A v : WriteUint32(v, e) = Reverse(v)
    BY <1>3 DEF ReadUint32, WriteUint32
  <2>2. PICK r : r = Reverse(w)
    OBVIOUS
  <2>3. r = [k \in 1..4 |-> w[5 - k]]
    BY <1>1, <2>2 DEF Reverse
  <2>4. r \in [1..4 -> Int] /\ Len(r) = 4
    BY <2>3
  <2>5. Reverse(r) = [k \in 1..4 |-> r[5 - k]]
    BY <2>4 DEF Reverse
  <2>6. Reverse(r) = w
    BY <2>3, <2>5
  <2>7. PICK q : q = Quantized(r)
    OBVIOUS
  <2>8. q = [k \in 1..4 |-> -r[k]]
    BY <2>4, <2>7 DEF Quantized
  <2>9. q \in [1..4 -> Int] /\ Len(q) = 4
    BY <2>4, <2>8
  <2>10. Reverse(q) = [k \in 1..4 |-> q[5 - k]]
    BY <2>9 DEF Reverse
  <2>11. Reverse(q) = [k \in 1..4 |-> -w[k]]
    BY <2>3, <2>8, <2>10
  <2> QED
    BY <2>1, <2>2, <2>4, <2>6, <2>7, <2>11
<1> QED
  BY <1>2, <1>3

\* Four bytes cut out of the data.
LEMMA SliceWord ==
  ASSUME NEW m, m.data \in Seq(Int), NEW at \in Nat, at + 4 \in DOMAIN m.data
  PROVE  Slice(m, at, 4) = [k \in 1..4 |-> m.data[at + k]] /\ Slice(m, at, 4) \in [1..4 -> Int]
<1>1. PICK d \in Seq(Int) : d = m.data
  OBVIOUS
<1>2. at + 4 <= Len(d)
  BY <1>1
<1>3. SubSeq(d, at + 1, at + 4) = [k \in 1..4 |-> d[at + k]]
  BY <1>2
<1>4. [k \in 1..4 |-> d[at + k]] \in [1..4 -> Int]
  <2>1. \A k \in 1..4 : at + k \in 1..Len(d)
    BY <1>2
  <2>2. \A k \in 1..4 : d[at + k] \in Int
    BY <2>1
  <2> QED
    BY <2>2
<1> QED
  BY <1>1, <1>3, <1>4 DEF Slice

\* Every offset has a place of its own in the sidecar.
LEMMA SidecarPlaces ==
  ASSUME NEW N \in Int, NEW S \in SUBSET (0..N), NEW o \in S
  PROVE  /\ IsFiniteSet(S) /\ Cardinality(S) \in Nat
         /\ SidecarPlace(S, o) \in 1..Cardinality(S)
         /\ \A x \in S : SidecarPlace(S, x) = SidecarPlace(S, o) => x = o
<1> DEFINE U(x) == {y \in S : y <= x}
<1>1. IsFiniteSet(S) /\ Cardinality(S) \in Nat
  <2>1. IsFiniteSet(0..N)
    BY FS_Interval
  <2> QED
    BY <2>1, FS_Subset, FS_CardinalityType
<1>2. \A x \in S : IsFiniteSet(U(x)) /\ Cardinality(U(x)) \in Nat /\ Cardinality(U(x)) <= Cardinality(S)
  <2>1. \A x \in S : U(x) \in SUBSET S
    OBVIOUS
  <2> QED
    BY <1>1, <2>1, FS_Subset, FS_CardinalityType
<1>3. \A x \in S : SidecarPlace(S, x) = Cardinality(U(x))
  BY DEF SidecarPlace
<1>4. Cardinality(U(o)) # 0
  <2>1. o \in U(o)
    OBVIOUS
  <2> QED
    BY <1>2, <2>1, FS_EmptySet
<1>5. ASSUME NEW x \in S, NEW y \in S, x < y PROVE Cardinality(U(x)) # Cardinality(U(y))
  <2>0. S \subseteq Int
    OBVIOUS
  <2>1. U(x) \in SUBSET U(y) /\ y \in U(y) /\ y \notin U(x)
    <3>1. x \in Int /\ y \in Int
      BY <2>0
    <3>2. ASSUME NEW z \in S, z <= x PROVE z <= y
      BY <1>5, <2>0, <3>1, <3>2
    <3>3. y <= y /\ ~(y <= x)
      BY <1>5, <3>1
    <3> QED
      BY <3>2, <3>3
  <2>2. U(x) # U(y)
    BY <2>1
  <2> QED
    BY <1>2, <2>1, <2>2, FS_Subset
<1>6. \A x \in S : Cardinality(U(x)) = Cardinality(U(o)) => x = o
  <2>1. ASSUME NEW x \in S, x # o, Cardinality(U(x)) = Cardinality(U(o)) PROVE FALSE
    <3>1. x < o \/ o < x
      BY <2>1
    <3> QED
      BY <1>5, <2>1, <3>1
  <2> QED
    BY <2>1
<1> HIDE DEF U
<1> QED
  BY <1>1, <1>2, <1>3, <1>4, <1>6

\* The sidecar holds the byte of each of its offsets at the place of the offset.
LEMMA Sidecar ==
  ASSUME NEW m, m.row_step * m.height \in Int
  PROVE  LET S == SidecarOffsets(m) IN
         /\ Len(ExtractSidecar(m)) = Cardinality(S) /\ Cardinality(S) \in Nat
         /\ \A o \in S : ExtractSidecar(m)[SidecarPlace(S, o)] = m.data[o + 1]
<1> DEFINE S == SidecarOffsets(m)
<1>2. PICK N \in Int : N = m.row_step * m.height - 1
  OBVIOUS
<1>3. S \in SUBSET (0..N)
  BY <1>2 DEF SidecarOffsets, Offsets
<1>4. IsFiniteSet(S) /\ Cardinality(S) \in Nat
  <2>1. IsFiniteSet(0..N)
    BY FS_Interval
  <2> QED
    BY <1>3, <2>1, FS_Subset, FS_CardinalityType
<1>5. PICK n \in Nat : n = Cardinality(S)
  BY <1>4
<1>6. PICK x : x = ExtractSidecar(m)
  OBVIOUS
<1>7. x = [k \in 1..Cardinality(S) |-> m.data[(CHOOSE o \in S : SidecarPlace(S, o) = k) + 1]]
  BY <1>6 DEF ExtractSidecar
<1> HIDE DEF S
<1>8. ASSUME NEW o \in S PROVE x[SidecarPlace(S, o)] = m.data[o + 1]
  <2>1. PICK k : k = SidecarPlace(S, o)
    OBVIOUS
  <2>2. k \in 1..n /\ \A y \in S : SidecarPlace(S, y) = k => y = o
    BY <1>3, <1>5, <2>1, SidecarPlaces
  <2>3. (CHOOSE y \in S : SidecarPlace(S, y) = k) = o
    BY <2>1, <2>2
  <2> QED
    BY <1>5, <1>7, <2>1, <2>2, <2>3
<1>9. Len(x) = n
  BY <1>5, <1>7
<1> QED
  BY <1>4, <1>5, <1>6, <1>8, <1>9 DEF S

(***************************************************************************)
(* Clouds: the bytes a decoded point brings.                               *)
(***************************************************************************)

\* What Draco makes of point i of the message.
Returned(m, i) == [DracoPoint(m, i) EXCEPT !.pos = [k \in 1..3 |-> Quantized(@[k])]]

\* The byte that the decoded message is to have at offset o.
ByteOf(m, o) == IF o \in PositionOffsets(m) THEN -m.data[o + 1] ELSE m.data[o + 1]

\* An encoded field of a point lies in the data, and its bytes are position or colour.
LEMMA FieldOffsets ==
  ASSUME NEW m, CloudOK(m), NEW i \in Points(m), NEW c, c \in Encoded(m.fields, m.point_step)
  PROVE  /\ PointDataOffset(m, i) + c \in Offsets(m) /\ PointDataOffset(m, i) + c + 1 \in DOMAIN m.data
         /\ c \in Nat
         /\ PointDataOffset(m, i) + c \in PositionOffsets(m) <=>
              \E k \in 1..3 : c \in Span(Position(m.fields)[k])
<1>1. PICK ps, fs : ps = Position(m.fields) /\ fs = ColorFields(m.fields, m.point_step)
  OBVIOUS
<1>2. m.point_step \in Nat /\ m \in PointCloud2
  BY CloudShape DEF CloudOK
<1>3. c \in 0..m.point_step - 1
  <2>1. (\E k \in 1..3 : c \in Span(ps[k])) \/ (\E k \in DOMAIN fs : c \in Span(fs[k]))
    BY <1>1, EncodedBytes
  <2>2. ASSUME NEW k \in 1..3, c \in Span(ps[k]) PROVE c \in 0..m.point_step - 1
    <3>1. PICK f : f = ps[k]
      OBVIOUS
    <3>2. f.offset \in Nat /\ Span(f) = f.offset..(f.offset + 3) /\ f.offset + 4 <= m.point_step
      BY <1>1, <3>1, PositionFields
    <3> QED
      BY <1>2, <2>2, <3>1, <3>2
  <2>3. ASSUME NEW k \in DOMAIN fs, c \in Span(fs[k]) PROVE c \in 0..m.point_step - 1
    <3>1. PICK f : f = fs[k]
      OBVIOUS
    <3>2. \/ f.offset \in Nat /\ Span(f) = f.offset..(f.offset + 3) /\ f.offset + 4 <= m.point_step
          \/ f.offset \in Nat /\ Span(f) = f.offset..f.offset /\ f.offset + 1 <= m.point_step
      <4>1. /\ fs \in Seq(Found(m))
            /\ Len(fs) = 1 => /\ fs[1].offset \in Nat
                              /\ Span(fs[1]) = fs[1].offset..(fs[1].offset + 3)
                              /\ fs[1].offset + 4 <= m.point_step
            /\ Len(fs) # 1 => \A j \in DOMAIN fs : /\ fs[j].offset \in Nat
                                                   /\ Span(fs[j]) = fs[j].offset..fs[j].offset
                                                   /\ fs[j].offset + 1 <= m.point_step
        BY <1>1, <1>2, ColourFields
      <4>2. Len(fs) = 1 => k = 1
        BY <4>1
      <4> QED
        BY <3>1, <4>1, <4>2
    <3> QED
      BY <1>2, <2>3, <3>1, <3>2
  <2> QED
    BY <2>1, <2>2, <2>3
<1>4. PICK o : o = PointDataOffset(m, i) + c
  OBVIOUS
<1>5. /\ o \in Offsets(m) /\ o + 1 \in DOMAIN m.data
      /\ o % m.row_step < m.width * m.point_step /\ (o % m.row_step) % m.point_step = c
  BY <1>3, <1>4, PointOffset
<1>6. o \in PositionOffsets(m) <=> \E k \in 1..3 : c \in Span(ps[k])
  BY <1>1, <1>5, PositionAt
<1> QED
  BY <1>1, <1>3, <1>4, <1>5, <1>6

\* The word at an encoded field of four bytes.
LEMMA FieldWord ==
  ASSUME NEW m, CloudOK(m), NEW i \in Points(m), NEW f, f.offset \in Nat,
         Span(f) = f.offset..(f.offset + 3), Span(f) \subseteq Encoded(m.fields, m.point_step)
  PROVE  LET at == PointDataOffset(m, i) IN
         /\ at \in Nat
         /\ Slice(m, at + f.offset, 4) = [b \in 1..4 |-> m.data[at + f.offset + b]]
         /\ Slice(m, at + f.offset, 4) \in [1..4 -> Int]
<1>1. PICK at : at = PointDataOffset(m, i)
  OBVIOUS
<1>2. m.point_step \in Nat /\ m.point_step > 0 /\ m.data \in Seq(Int)
  BY CloudShape
<1>3. at \in Nat
  <2>1. 0 \in 0..m.point_step - 1
    BY <1>2
  <2> QED
    BY <1>1, <2>1, PointOffset
<1>4. f.offset + 3 \in Encoded(m.fields, m.point_step)
  OBVIOUS
<1>5. at + (f.offset + 3) + 1 \in DOMAIN m.data
  BY <1>1, <1>4, FieldOffsets
<1>6. PICK a \in Nat : a = at + f.offset
  BY <1>3
<1>7. a + 4 \in DOMAIN m.data
  BY <1>3, <1>5, <1>6
<1> QED
  BY <1>1, <1>2, <1>3, <1>6, <1>7, SliceWord

\* The bytes of the position that a decoded point brings.
LEMMA PositionBytes ==
  ASSUME NEW m, CloudOK(m), NEW i \in Points(m), NEW k \in 1..3, NEW b \in 1..4
  PROVE  LET at == PointDataOffset(m, i)
             f  == Position(m.fields)[k] IN
         /\ f.offset + b - 1 \in Span(f)
         /\ WriteUint32(Returned(m, i).pos[k], m.bigendian)[b] = ByteOf(m, at + f.offset + b - 1)
         /\ at + f.offset + b - 1 \in Offsets(m)
<1>1. PICK at, f : at = PointDataOffset(m, i) /\ f = Position(m.fields)[k]
  OBVIOUS
<1>2. f.offset \in Nat /\ Span(f) = f.offset..(f.offset + 3)
  BY <1>1, PositionFields
<1>3. Span(f) \subseteq Encoded(m.fields, m.point_step)
  BY <1>1, EncodedBytes
<1>4. PICK w : w = Slice(m, at + f.offset, 4)
  OBVIOUS
<1>5. at \in Nat /\ w = [j \in 1..4 |-> m.data[at + f.offset + j]] /\ w \in [1..4 -> Int]
  BY <1>1, <1>2, <1>3, <1>4, FieldWord, SMTT(60)
<1>6. Returned(m, i).pos[k] = Quantized(ReadUint32(w, m.bigendian))
  BY <1>1, <1>4 DEF Returned, DracoPoint
<1>7. WriteUint32(Returned(m, i).pos[k], m.bigendian) = [j \in 1..4 |-> -w[j]]
  BY <1>5, <1>6, Words
<1>8. PICK c : c = f.offset + b - 1
  OBVIOUS
<1>9. c \in Span(f) /\ at + c + 1 = at + f.offset + b /\ at + c = at + f.offset + b - 1
  <2>1. PICK n \in Nat : n = f.offset
    BY <1>2
  <2>2. c \in n..(n + 3) /\ at + c + 1 = at + n + b /\ at + c = at + n + b - 1
    BY <1>5, <1>8, <2>1
  <2> QED
    BY <1>2, <2>1, <2>2
<1>10. at + c \in Offsets(m) /\ at + c \in PositionOffsets(m)
  BY <1>1, <1>3, <1>9, FieldOffsets
<1>11. WriteUint32(Returned(m, i).pos[k], m.bigendian)[b] = -m.data[at + c + 1]
  BY <1>5, <1>7, <1>9
<1> QED
  BY <1>1, <1>8, <1>9, <1>10, <1>11 DEF ByteOf

\* The bytes of the colour that a decoded point brings.
LEMMA ColourBytes ==
  ASSUME NEW m, CloudOK(m), NEW i \in Points(m), ColorFields(m.fields, m.point_step) # <<>>
  PROVE  LET at == PointDataOffset(m, i)
             fs == ColorFields(m.fields, m.point_step)
             cs == ColorBytes(m, ReadColor(m, at)) IN
         /\ ReadColor(m, at) # <<>>
         /\ \A x \in cs : \E c : /\ x = <<c, m.data[at + c + 1]>>
                                 /\ \E j \in DOMAIN fs : c \in Span(fs[j])
         /\ \A j \in DOMAIN fs : \A c \in Span(fs[j]) : <<c, m.data[at + c + 1]>> \in cs
<1>1. PICK at, fs : at = PointDataOffset(m, i) /\ fs = ColorFields(m.fields, m.point_step)
  OBVIOUS
<1>2. /\ fs \in Seq(Found(m)) /\ fs # <<>>
      /\ Len(fs) \in {0, 1, 3, 4}
      /\ Len(fs) = 1 => /\ fs[1].offset \in Nat
                        /\ Span(fs[1]) = fs[1].offset..(fs[1].offset + 3)
      /\ Len(fs) # 1 => \A k \in DOMAIN fs : /\ fs[k].offset \in Nat
                                             /\ Span(fs[k]) = fs[k].offset..fs[k].offset
  BY <1>1, ColourFields DEF CloudOK
<1>3. PICK color, cs : color = ReadColor(m, at) /\ cs = ColorBytes(m, color)
  OBVIOUS
<1>4. at \in Nat
  <2>1. m.point_step \in Nat /\ m.point_step > 0
    BY CloudShape
  <2>2. 0 \in 0..m.point_step - 1
    BY <2>1
  <2> QED
    BY <1>1, <2>2, PointOffset
<1>5. CASE Len(fs) = 1
  <2>1. PICK f : f = fs[1]
    OBVIOUS
  <2>2. DOMAIN fs = {1} /\ f.offset \in Nat /\ Span(f) = f.offset..(f.offset + 3)
    BY <1>2, <1>5, <2>1
  <2>3. Span(f) \subseteq Encoded(m.fields, m.point_step)
    BY <1>1, <2>1, <2>2, EncodedBytes
  <2>4. PICK w : w = Slice(m, at + f.offset, 4)
    OBVIOUS
  <2>5. w = [j \in 1..4 |-> m.data[at + f.offset + j]] /\ w \in [1..4 -> Int]
    BY <1>1, <2>2, <2>3, <2>4, FieldWord
  <2>6. PICK v : v = ReadUint32(w, m.bigendian)
    OBVIOUS
  <2>7. v \in [1..4 -> Int] /\ WriteUint32(v, m.bigendian) = w
    BY <2>5, <2>6, Words
  <2>8. color = <<v[2], v[3], v[4], v[1]>>
    BY <1>1, <1>3, <1>5, <2>1, <2>4, <2>6 DEF ReadColor
  <2>9. <<color[4], color[1], color[2], color[3]>> = v
    <3>1. <<v[1], v[2], v[3], v[4]>> = v
      BY <2>7
    <3> QED
      BY <2>8, <3>1
  <2>10. cs = {<<f.offset + k - 1, w[k]>> : k \in 1..4}
    <3>1. cs = {<<f.offset + k - 1, WriteUint32(<<color[4], color[1], color[2], color[3]>>, m.bigendian)[k]>> :
                  k \in 1..4}
      BY <1>1, <1>3, <1>5, <2>1 DEF ColorBytes
    <3> QED
      BY <2>7, <2>9, <3>1
  <2>11. color # <<>>
    BY <2>8
  <2>12. ASSUME NEW x \in cs PROVE \E c : x = <<c, m.data[at + c + 1]>> /\ c \in Span(f)
    <3>1. PICK k \in 1..4 : x = <<f.offset + k - 1, w[k]>>
      BY <2>10
    <3>2. PICK c : c = f.offset + k - 1
      OBVIOUS
    <3>3. c \in Span(f) /\ at + c + 1 = at + f.offset + k
      <4>1. PICK n \in Nat : n = f.offset
        BY <2>2
      <4>2. c = n + k - 1
        BY <3>2, <4>1
      <4>3. c \in n..(n + 3) /\ at + c + 1 = at + n + k
        BY <1>4, <4>2
      <4> QED
        BY <2>2, <4>1, <4>3
    <3> QED
      BY <2>5, <3>1, <3>2, <3>3
  <2>13. ASSUME NEW c \in Span(f) PROVE <<c, m.data[at + c + 1]>> \in cs
    <3>1. PICK k \in 1..4 : c = f.offset + k - 1
      <4>1. c - f.offset + 1 \in 1..4 /\ c = f.offset + (c - f.offset + 1) - 1
        BY <2>2
      <4> QED
        BY <4>1
    <3>2. at + c + 1 = at + f.offset + k
      <4>1. PICK n \in Nat : n = f.offset
        BY <2>2
      <4>2. c = n + k - 1
        BY <3>1, <4>1
      <4>3. at + c + 1 = at + n + k
        BY <1>4, <4>2
      <4> QED
        BY <4>1, <4>3
    <3> QED
      BY <2>5, <2>10, <3>1, <3>2
  <2> QED
    BY <1>1, <1>3, <2>1, <2>2, <2>11, <2>12, <2>13
<1>6. CASE Len(fs) # 1
  <2>1. Len(fs) \in {3, 4} /\ DOMAIN fs \subseteq 1..4
    BY <1>2, <1>6
  <2>2. color = [k \in 1..4 |-> IF k <= Len(fs) THEN m.data[at + fs[k].offset + 1] ELSE 255]
    BY <1>1, <1>3, <1>6 DEF ReadColor
  <2>3. cs = {<<fs[k].offset, color[k]>> : k \in DOMAIN fs}
    BY <1>1, <1>3, <1>6 DEF ColorBytes
  <2>4. \A k \in DOMAIN fs : color[k] = m.data[at + fs[k].offset + 1]
    BY <1>2, <2>1, <2>2
  <2>5. color # <<>>
    BY <2>2
  <2>6. \A k \in DOMAIN fs : \A c : c \in Span(fs[k]) <=> c = fs[k].offset
    BY <1>2, <1>6
  <2> QED
    BY <1>1, <1>3, <2>3, <2>4, <2>5, <2>6
<1> QED
  BY <1>5, <1>6

\* A decoded point brings only right bytes, and all of the encoded ones.
LEMMA ReturnedBytes ==
  ASSUME NEW m, CloudOK(m), NEW i \in Points(m)
  PROVE  /\ \A x \in PointBytes(m, Returned(m, i)) : x[2] = ByteOf(m, x[1])
         /\ \A c \in Encoded(m.fields, m.point_step) :
              \E x \in PointBytes(m, Returned(m, i)) : x[1] = PointDataOffset(m, i) + c
<1>1. PICK at, ps, fs : /\ at = PointDataOffset(m, i) /\ ps = Position(m.fields)
                        /\ fs = ColorFields(m.fields, m.point_step)
  OBVIOUS
<1>2. PICK p : p = Returned(m, i)
  OBVIOUS
<1>3. /\ p.index = i
      /\ p.color = IF fs = <<>> THEN <<>> ELSE ReadColor(m, at)
  BY <1>1, <1>2 DEF Returned, DracoPoint
<1> DEFINE pb == {<<at + ps[k].offset + b - 1, WriteUint32(p.pos[k], m.bigendian)[b]>> :
                       k \in 1..3, b \in 1..4}
           cb == {<<at + c[1], c[2]>> : c \in ColorBytes(m, ReadColor(m, at))}
<1>4. /\ pb = {<<at + ps[k].offset + b - 1, WriteUint32(p.pos[k], m.bigendian)[b]>> :
                   k \in 1..3, b \in 1..4}
      /\ cb = {<<at + c[1], c[2]>> : c \in ColorBytes(m, ReadColor(m, at))}
  OBVIOUS
<1> HIDE DEF pb, cb
<1>5. fs # <<>> => p.color # <<>> /\ p.color = ReadColor(m, at)
  BY <1>1, <1>3, ColourBytes
<1>6. PointBytes(m, p) = pb \cup (IF fs = <<>> THEN {} ELSE cb)
  <2>1. CASE fs = <<>>
    BY <1>1, <1>3, <1>4, <2>1 DEF PointBytes
  <2>2. CASE fs # <<>>
    BY <1>1, <1>3, <1>4, <1>5, <2>2 DEF PointBytes
  <2> QED
    BY <2>1, <2>2
<1>7. ASSUME NEW k \in 1..3, NEW b \in 1..4
      PROVE  /\ WriteUint32(p.pos[k], m.bigendian)[b] = ByteOf(m, at + ps[k].offset + b - 1)
  BY <1>1, <1>2, PositionBytes
<1>8. \A x \in pb : x[2] = ByteOf(m, x[1])
  BY <1>4, <1>7
<1>9. ASSUME fs # <<>>, NEW x \in cb PROVE x[2] = ByteOf(m, x[1])
  <2>1. PICK y \in ColorBytes(m, ReadColor(m, at)) : x = <<at + y[1], y[2]>>
    BY <1>4
  <2>2. PICK c : y = <<c, m.data[at + c + 1]>> /\ \E j \in DOMAIN fs : c \in Span(fs[j])
    BY <1>1, <1>9, ColourBytes
  <2>3. c \in Encoded(m.fields, m.point_step)
    BY <1>1, <2>2, EncodedBytes
  <2>4. ~ \E k \in 1..3 : c \in Span(ps[k])
    <3>1. \A k \in 1..3, j \in DOMAIN fs : Span(ps[k]) \cap Span(fs[j]) = {}
      BY <1>1, EncodedBytes
    <3> QED
      BY <2>2, <3>1
  <2>5. at + c \notin PositionOffsets(m)
    BY <1>1, <2>3, <2>4, FieldOffsets
  <2>6. x[1] = at + c /\ x[2] = m.data[at + c + 1]
    BY <2>1, <2>2
  <2> QED
    BY <2>5, <2>6 DEF ByteOf
<1>10. ASSUME NEW c \in Encoded(m.fields, m.point_step) PROVE \E x \in PointBytes(m, p) : x[1] = at + c
  <2>1. (\E k \in 1..3 : c \in Span(ps[k])) \/ (\E k \in DOMAIN fs : c \in Span(fs[k]))
    BY <1>1, EncodedBytes
  <2>2. ASSUME NEW k \in 1..3, c \in Span(ps[k]) PROVE \E x \in pb : x[1] = at + c
    <3>1. PICK n \in Nat : n = ps[k].offset /\ Span(ps[k]) = n..(n + 3)
      BY <1>1, PositionFields
    <3>2. PICK b \in 1..4 : c = n + b - 1
      <4>1. c \in n..(n + 3)
        BY <2>2, <3>1
      <4>2. c - n + 1 \in 1..4 /\ c = n + (c - n + 1) - 1
        BY <4>1
      <4> QED
        BY <4>2
    <3>3. at \in Nat
      <4>1. m.point_step \in Nat /\ m.point_step > 0
        BY CloudShape
      <4>2. 0 \in 0..m.point_step - 1
        BY <4>1
      <4> QED
        BY <1>1, <4>2, PointOffset
    <3>4. at + ps[k].offset + b - 1 = at + c
      BY <3>1, <3>2, <3>3
    <3>5. <<at + ps[k].offset + b - 1, WriteUint32(p.pos[k], m.bigendian)[b]>> \in pb
      BY <1>4
    <3> QED
      BY <3>4, <3>5
  <2>3. ASSUME NEW k \in DOMAIN fs, c \in Span(fs[k]), fs # <<>> PROVE \E x \in cb : x[1] = at + c
    <3>1. <<c, m.data[at + c + 1]>> \in ColorBytes(m, ReadColor(m, at))
      BY <1>1, <2>3, ColourBytes
    <3>2. <<at + c, m.data[at + c + 1]>> \in cb
      BY <1>4, <3>1
    <3> QED
      BY <3>2
  <2>4. fs = <<>> => DOMAIN fs = {}
    OBVIOUS
  <2> QED
    BY <1>6, <2>1, <2>2, <2>3, <2>4
<1> QED
  BY <1>1, <1>2, <1>6, <1>8, <1>9, <1>10

\* The offsets of the sidecar are those that no point covers.
LEMMA SidecarBytes ==
  ASSUME NEW m, CloudOK(m), NEW o \in Offsets(m)
  PROVE  /\ o \in SidecarOffsets(m) => ByteOf(m, o) = m.data[o + 1]
         /\ o \notin SidecarOffsets(m) =>
              \E i \in Points(m), c \in Encoded(m.fields, m.point_step) : o = PointDataOffset(m, i) + c
<1>1. PICK P, R, l : P = m.width * m.point_step /\ R = m.row_step /\ l = (o % m.row_step) % m.point_step
  OBVIOUS
<1>2. P \in Nat /\ o % R \in Int
  <2>1. m.width \in Nat /\ m.point_step \in Nat /\ m.row_step \in Nat /\ m.row_step > 0 /\ m.row_step * m.height \in Nat
    BY CloudShape
  <2>2. m.width * m.point_step \in Nat
    BY <2>1
  <2>3. o \in Nat
    BY DEF Offsets
  <2> QED
    BY <1>1, <2>1, <2>2, <2>3
<1>3. o \in SidecarOffsets(m) <=> o % R >= P \/ l \notin Encoded(m.fields, m.point_step)
  BY <1>1 DEF SidecarOffsets
<1>4. ASSUME o \in SidecarOffsets(m) PROVE o \notin PositionOffsets(m)
  <2>1. \A k \in 1..3 : l \in Span(Position(m.fields)[k]) => l \in Encoded(m.fields, m.point_step)
    BY EncodedBytes
  <2>2. o \in PositionOffsets(m) => o % R < P /\ \E k \in 1..3 : l \in Span(Position(m.fields)[k])
    BY <1>1, PositionAt
  <2> QED
    BY <1>2, <1>3, <1>4, <2>1, <2>2
<1>5. ASSUME o \notin SidecarOffsets(m)
      PROVE  \E i \in Points(m), c \in Encoded(m.fields, m.point_step) : o = PointDataOffset(m, i) + c
  <2>1. o % R < P /\ l \in Encoded(m.fields, m.point_step)
    BY <1>2, <1>3, <1>5
  <2>2. PICK i \in Points(m), c \in 0..m.point_step - 1 :
           o = PointDataOffset(m, i) + c /\ c = l
    BY <1>1, <2>1, OffsetPoint
  <2> QED
    BY <2>1, <2>2
<1> QED
  BY <1>4, <1>5 DEF ByteOf

\* The message Decode starts from: as the sender's, with every byte zero.
Blank(m) == [m EXCEPT !.data = [k \in 1..(m.row_step * m.height) |-> 0]]

\* Nothing that the codec computes from a message besides its bytes depends on them.
LEMMA BlankAlike ==
  ASSUME NEW m \in PointCloud2
  PROVE  LET z == Blank(m) IN
         /\ z.width = m.width /\ z.height = m.height /\ z.point_step = m.point_step
         /\ z.row_step = m.row_step /\ z.fields = m.fields /\ z.bigendian = m.bigendian
         /\ z.data = [k \in 1..(m.row_step * m.height) |-> 0]
         /\ \A d : [z EXCEPT !.data = d] = [m EXCEPT !.data = d]
<1>1. m = [width |-> m.width, height |-> m.height, point_step |-> m.point_step, row_step |-> m.row_step,
           fields |-> m.fields, bigendian |-> m.bigendian, data |-> m.data]
  BY DEF PointCloud2
<1> QED
  BY <1>1 DEF Blank

\* So the offsets, the sidecar and the bytes of a point are those of the sender's message.
LEMMA SameBytes ==
  ASSUME NEW m \in PointCloud2
  PROVE  LET z == Blank(m) IN
         /\ Points(z) = Points(m) /\ SidecarOffsets(z) = SidecarOffsets(m)
         /\ \A s : RestoreSidecar(z, s) = RestoreSidecar(m, s)
         /\ \A p : PointBytes(z, p) = PointBytes(m, p)
         /\ \A s : IndicesRestored(z, s) <=> IndicesRestored(m, s)
<1>1. PICK z : z = Blank(m)
  OBVIOUS
<1>2. /\ z.width = m.width /\ z.height = m.height /\ z.point_step = m.point_step
      /\ z.row_step = m.row_step /\ z.fields = m.fields /\ z.bigendian = m.bigendian
  BY <1>1, BlankAlike
<1>3. Points(z) = Points(m)
  BY <1>2 DEF Points
<1>4. SidecarOffsets(z) = SidecarOffsets(m)
  BY <1>2 DEF SidecarOffsets, Offsets
<1>5. \A s : RestoreSidecar(z, s) = RestoreSidecar(m, s)
  BY <1>4 DEF RestoreSidecar
<1>6. \A i : PointDataOffset(z, i) = PointDataOffset(m, i)
  BY <1>2 DEF PointDataOffset
<1>7. \A c : ColorBytes(z, c) = ColorBytes(m, c)
  BY <1>2 DEF ColorBytes
<1>8. \A p : PointBytes(z, p) = PointBytes(m, p)
  BY <1>2, <1>6, <1>7 DEF PointBytes
<1>9. \A s : IndicesRestored(z, s) <=> IndicesRestored(m, s)
  BY <1>3 DEF IndicesRestored
<1> QED
  BY <1>1, <1>3, <1>4, <1>5, <1>8, <1>9

\* The message with every byte as it is to be.
Restored(m) ==
  [m EXCEPT !.data = [k \in DOMAIN m.data |->
     IF k - 1 \in PositionOffsets(m) THEN -m.data[k] ELSE m.data[k]]]

\* Bytes that are right and cover the message make it up.
LEMMA WrittenBytes ==
  ASSUME NEW m, CloudOK(m), NEW bytes, \A x \in bytes : x[2] = ByteOf(m, x[1]),
         \A o \in Offsets(m) : \E x \in bytes : x[1] = o
  PROVE  Written(Blank(m), bytes) = Restored(m)
<1>1. m \in PointCloud2 /\ DOMAIN m.data = 1..m.row_step * m.height /\ m.row_step * m.height \in Nat
  BY CloudShape DEF CloudOK
<1>2. PICK z : z = Blank(m)
  OBVIOUS
<1>3. PICK N \in Nat : N = m.row_step * m.height
  BY <1>1
<1>4. DOMAIN z.data = 1..N /\ \A d : [z EXCEPT !.data = d] = [m EXCEPT !.data = d]
  BY <1>1, <1>2, <1>3, BlankAlike
<1> DEFINE at(k) == {b \in bytes : b[1] = k - 1}
<1>5. ASSUME NEW k \in 1..N
      PROVE  (IF at(k) = {} THEN 0 ELSE (CHOOSE b \in at(k) : TRUE)[2])
               = IF k - 1 \in PositionOffsets(m) THEN -m.data[k] ELSE m.data[k]
  <2>1. k - 1 \in Offsets(m)
    BY <1>3 DEF Offsets
  <2>2. at(k) # {}
    BY <2>1
  <2>3. PICK b : b = CHOOSE x \in at(k) : TRUE
    OBVIOUS
  <2>4. b \in at(k)
    BY <2>2, <2>3
  <2>5. b[2] = ByteOf(m, k - 1) /\ k - 1 + 1 = k
    BY <2>4
  <2> QED
    BY <2>2, <2>3, <2>5 DEF ByteOf
<1>6. Written(z, bytes) = [m EXCEPT !.data = [k \in 1..N |->
         IF at(k) = {} THEN 0 ELSE (CHOOSE b \in at(k) : TRUE)[2]]]
  BY <1>4 DEF Written
<1>7. Restored(m) = [m EXCEPT !.data = [k \in 1..N |->
         IF k - 1 \in PositionOffsets(m) THEN -m.data[k] ELSE m.data[k]]]
  BY <1>1, <1>3 DEF Restored
<1> HIDE DEF at
<1>8. [k \in 1..N |-> IF at(k) = {} THEN 0 ELSE (CHOOSE b \in at(k) : TRUE)[2]]
       = [k \in 1..N |-> IF k - 1 \in PositionOffsets(m) THEN -m.data[k] ELSE m.data[k]]
  BY <1>5
<1> QED
  BY <1>2, <1>6, <1>7, <1>8

\* What the encoder puts into a packet.
LEMMA Packets ==
  ASSUME NEW m \in PointCloud2, NEW p \in DracoEncode(m)
  PROVE  /\ StorageValid(m) /\ (Points(m) # {} => CloudOK(m))
         /\ p.version = FormatVersion
         /\ p.shape = [m EXCEPT !.data = <<>>]
         /\ p.sidecar = IF Points(m) # {} THEN ExtractSidecar(m) ELSE m.data
         /\ p.payload = [n \in 1..Cardinality(Points(m)) |-> DracoPoint(m, n - 1)]
         /\ p.point_type = IF Points(m) # {} /\ ColorFields(m.fields, m.point_step) # <<>>
                           THEN "xyzrgb" ELSE "xyz"
         /\ Cardinality(Points(m)) = m.width * m.height /\ m.width * m.height \in Nat
         /\ Points(m) = 0..m.width * m.height - 1
<1>1. StorageValid(m) /\ (Points(m) # {} => LayoutValid(m.fields, m.point_step))
  BY DEF DracoEncode
<1>2. p = [version    |-> FormatVersion,
           point_type |-> IF Points(m) # {} /\ ColorFields(m.fields, m.point_step) # <<>> THEN "xyzrgb" ELSE "xyz",
           shape      |-> [m EXCEPT !.data = <<>>],
           sidecar    |-> IF Points(m) # {} THEN ExtractSidecar(m) ELSE m.data,
           payload    |-> [n \in 1..Cardinality(Points(m)) |-> DracoPoint(m, n - 1)]]
  BY DEF DracoEncode
<1>3. Points(m) # {} => CloudOK(m)
  BY <1>1 DEF CloudOK
<1>4. /\ Cardinality(Points(m)) = m.width * m.height /\ m.width * m.height \in Nat
      /\ Points(m) = 0..m.width * m.height - 1
  <2>1. PICK n : n = m.width * m.height
    OBVIOUS
  <2>2. m.width \in Nat /\ m.height \in Nat
    BY CloudTypes
  <2>3. n \in Nat
    BY <2>1, <2>2
  <2>4. Cardinality(0..n - 1) = n
    BY <2>3, FS_Interval
  <2> QED
    BY <2>1, <2>3, <2>4 DEF Points
<1> QED
  BY <1>1, <1>2, <1>3, <1>4, Zenon

\* Decode starts from the blank message.
LEMMA BlankShape ==
  ASSUME NEW m \in PointCloud2, NEW s, s = [m EXCEPT !.data = <<>>]
  PROVE  [s EXCEPT !.data = [k \in 1..(s.row_step * s.height) |-> 0]] = Blank(m)
<1>1. m = [width |-> m.width, height |-> m.height, point_step |-> m.point_step, row_step |-> m.row_step,
           fields |-> m.fields, bigendian |-> m.bigendian, data |-> m.data]
  BY DEF PointCloud2
<1>2. s.row_step = m.row_step /\ s.height = m.height
  BY <1>1
<1> QED
  BY <1>1, <1>2 DEF Blank

\* Draco gives back every point once, in some order.
LEMMA PointsReturned ==
  ASSUME NEW m \in PointCloud2, NEW p \in DracoEncode(m), NEW points \in DracoOutputs(p.payload)
  PROVE  /\ Len(points) = Cardinality(Points(m))
         /\ Points(m) = {} => points = <<>>
         /\ \A n \in DOMAIN points : \E i \in Points(m) : points[n] = Returned(m, i)
         /\ \A i \in Points(m) : \E n \in DOMAIN points : points[n] = Returned(m, i)
         /\ IndicesRestored(m, points)
<1>1. PICK N \in Nat : N = Cardinality(Points(m)) /\ Points(m) = 0..N - 1
  BY Packets
<1>2. PICK q : q = p.payload
  OBVIOUS
<1>3. q = [n \in 1..N |-> DracoPoint(m, n - 1)]
  BY <1>1, <1>2, Packets
<1>4. PICK order \in [1..N -> 1..N] :
        /\ IsInjective(order)
        /\ points = [n \in 1..N |-> [q[order[n]] EXCEPT !.pos = [k \in 1..3 |-> Quantized(@[k])]]]
  <2>1. DOMAIN q = 1..N
    BY <1>3
  <2>2. PICK order \in {f \in [DOMAIN q -> DOMAIN q] : IsInjective(f)} :
          points = [n \in DOMAIN q |-> [q[order[n]] EXCEPT !.pos = [k \in 1..3 |-> Quantized(@[k])]]]
    BY <1>2 DEF DracoOutputs
  <2> QED
    BY <2>1, <2>2
<1>0. Points(m) = 0..N - 1
  BY <1>1
<1>5. ASSUME NEW n \in 1..N
      PROVE  order[n] - 1 \in Points(m) /\ points[n] = Returned(m, order[n] - 1)
  <2>1. PICK j \in 1..N : j = order[n]
    BY <1>4
  <2>2. q[j] = DracoPoint(m, j - 1) /\ j - 1 \in 0..N - 1
    BY <1>3
  <2>3. points[n] = [q[j] EXCEPT !.pos = [k \in 1..3 |-> Quantized(@[k])]]
    BY <1>4, <2>1
  <2>4. points[n] = Returned(m, j - 1)
    BY <2>2, <2>3, Zenon DEF Returned
  <2> QED
    BY <1>0, <2>1, <2>2, <2>4
<1>6. DOMAIN points = 1..N /\ Len(points) = N
  BY <1>4
<1>7. order \in Surjection(1..N, 1..N)
  <2>1. IsFiniteSet(1..N)
    BY FS_Interval
  <2>2. order \in Injection(1..N, 1..N)
    BY <1>4 DEF Injection
  <2> QED
    BY <2>1, <2>2, FS_Injection
<1>8. ASSUME NEW i \in Points(m) PROVE \E n \in 1..N : points[n] = Returned(m, i)
  <2>0. i \in 0..N - 1
    BY <1>0
  <2>1. i + 1 \in 1..N /\ i \in Int
    BY <2>0
  <2>2. PICK n \in 1..N : order[n] = i + 1
    BY <1>7, <2>1 DEF Surjection
  <2>3. order[n] - 1 = i
    BY <2>1, <2>2
  <2>4. points[n] = Returned(m, order[n] - 1)
    BY <1>5
  <2> QED
    BY <2>3, <2>4
<1>9. \A i : Returned(m, i).index = i
  BY DEF Returned, DracoPoint
<1>10. IndicesRestored(m, points)
  <2>1. \A n \in 1..N : points[n].index = order[n] - 1 /\ points[n].index \in Points(m)
    BY <1>5, <1>9
  <2>2. ASSUME NEW n \in 1..N, NEW k \in 1..N, n # k PROVE points[n].index # points[k].index
    <3>1. order[n] # order[k] /\ order[n] \in Int /\ order[k] \in Int
      BY <1>4, <2>2 DEF IsInjective
    <3> QED
      BY <2>1, <3>1
  <2> QED
    BY <1>6, <2>1, <2>2 DEF IndicesRestored
<1>11. N = 0 => points = <<>>
  BY <1>4, <1>6
<1>12. Points(m) = {} => N = 0
  <2>1. N # 0 => 0 \in 0..N - 1
    OBVIOUS
  <2> QED
    BY <1>0, <2>1
<1> QED
  BY <1>1, <1>5, <1>6, <1>8, <1>10, <1>11, <1>12

\* A message that is encoded point by point has points.
LEMMA PointCount ==
  ASSUME NEW m, CloudOK(m)
  PROVE  Cardinality(Points(m)) # 0
<1>1. PICK n \in Int : n = m.width * m.height - 1
  BY CloudShape
<1>2. Points(m) = 0..n /\ Points(m) # {}
  BY <1>1, CloudShape DEF CloudOK
<1>3. IsFiniteSet(0..n)
  BY FS_Interval
<1> QED
  BY <1>2, <1>3, FS_EmptySet

\* Decode, from the blank message on.
DecodeInto(m, p, points) ==
  LET count == Cardinality(Points(m)) IN
  IF p.version # FormatVersion \/ ~StorageValid(m) THEN {}
  ELSE IF count = 0
  THEN IF points = <<>> /\ Len(p.sidecar) = Len(m.data) THEN {[m EXCEPT !.data = p.sidecar]} ELSE {}
  ELSE IF /\ LayoutValid(m.fields, m.point_step)
          /\ p.point_type \in {"xyz", "xyzrgb"}
          /\ (p.point_type = "xyzrgb") <=> (ColorFields(m.fields, m.point_step) # <<>>)
          /\ Len(p.sidecar) = Cardinality(SidecarOffsets(m))
          /\ Len(points) = count /\ IndicesRestored(m, points)
  THEN {Written(m, RestoreSidecar(m, p.sidecar) \cup UNION {PointBytes(m, points[n]) : n \in DOMAIN points})}
  ELSE {}

\* DracoDecode is DecodeInto on that message.
LEMMA DecodeIs ==
  ASSUME NEW p, NEW points, NEW z,
         z = [p.shape EXCEPT !.data = [k \in 1..(p.shape.row_step * p.shape.height) |-> 0]]
  PROVE  DracoDecode(p, points) = DecodeInto(z, p, points)
<1>1. DracoDecode(p, points) =
        DecodeInto([p.shape EXCEPT !.data = [k \in 1..(p.shape.row_step * p.shape.height) |-> 0]], p, points)
  BY Zenon DEF DracoDecode, DecodeInto
<1> QED
  BY <1>1, Zenon

\* What Decode makes of a packet whose message is not empty.
LEMMA DecodeFull ==
  ASSUME NEW m, CloudOK(m), NEW p \in DracoEncode(m), NEW points \in DracoOutputs(p.payload)
  PROVE  DracoDecode(p, points) = {Restored(m)}
<1>1. m \in PointCloud2
  BY DEF CloudOK
<1>2. PICK z : z = Blank(m)
  OBVIOUS
<1>3. [p.shape EXCEPT !.data = [k \in 1..(p.shape.row_step * p.shape.height) |-> 0]] = z
  <2>1. PICK s : s = p.shape
    OBVIOUS
  <2>2. s = [m EXCEPT !.data = <<>>]
    BY <1>1, <2>1, Packets
  <2>3. [s EXCEPT !.data = [k \in 1..(s.row_step * s.height) |-> 0]] = z
    BY <1>1, <1>2, <2>2, BlankShape
  <2> QED
    BY <2>1, <2>3, Zenon
<1>4. /\ z.width = m.width /\ z.height = m.height /\ z.point_step = m.point_step
      /\ z.row_step = m.row_step /\ z.fields = m.fields
      /\ z.data = [k \in 1..(m.row_step * m.height) |-> 0]
      /\ Points(z) = Points(m) /\ SidecarOffsets(z) = SidecarOffsets(m)
      /\ RestoreSidecar(z, p.sidecar) = RestoreSidecar(m, p.sidecar)
      /\ \A x : PointBytes(z, x) = PointBytes(m, x)
      /\ IndicesRestored(z, points) <=> IndicesRestored(m, points)
  BY <1>1, <1>2, BlankAlike, SameBytes
<1>5. /\ p.version = FormatVersion /\ p.sidecar = ExtractSidecar(m)
      /\ p.point_type = IF ColorFields(m.fields, m.point_step) # <<>> THEN "xyzrgb" ELSE "xyz"
      /\ Cardinality(Points(m)) # 0
  <2>1. Points(m) # {}
    BY DEF CloudOK
  <2> QED
    BY <1>1, <2>1, Packets, PointCount
<1>6. StorageValid(z)
  <2>1. Len(z.data) = m.row_step * m.height
    BY <1>4, CloudShape
  <2> QED
    BY <1>4, <2>1 DEF CloudOK, StorageValid
<1>7. /\ LayoutValid(z.fields, z.point_step)
      /\ p.point_type \in {"xyz", "xyzrgb"}
      /\ (p.point_type = "xyzrgb") <=> (ColorFields(z.fields, z.point_step) # <<>>)
  BY <1>4, <1>5 DEF CloudOK
<1>8. /\ Len(p.sidecar) = Cardinality(SidecarOffsets(z))
      /\ Len(points) = Cardinality(Points(z)) /\ IndicesRestored(z, points)
  <2>1. m.row_step * m.height \in Int
    BY CloudShape
  <2> QED
    BY <1>1, <1>4, <1>5, <2>1, Sidecar, PointsReturned
<1> DEFINE bytes == RestoreSidecar(z, p.sidecar) \cup UNION {PointBytes(z, points[n]) : n \in DOMAIN points}
<1>9. DracoDecode(p, points) = {Written(z, bytes)}
  <2>1. Cardinality(Points(z)) # 0
    BY <1>4, <1>5
  <2>2. DecodeInto(z, p, points) = {Written(z, bytes)}
    BY <1>5, <1>6, <1>7, <1>8, <2>1 DEF DecodeInto
  <2> QED
    BY <1>3, <2>2, DecodeIs
<1>10. RestoreSidecar(m, p.sidecar) = {<<o, m.data[o + 1]>> : o \in SidecarOffsets(m)}
  <2>1. m.row_step * m.height \in Int
    BY CloudShape
  <2>2. \A o \in SidecarOffsets(m) : p.sidecar[SidecarPlace(SidecarOffsets(m), o)] = m.data[o + 1]
    BY <1>5, <2>1, Sidecar
  <2> QED
    BY <2>2 DEF RestoreSidecar
<1>11. \A x : x \in bytes <=>
          \/ \E o \in SidecarOffsets(m) : x = <<o, m.data[o + 1]>>
          \/ \E n \in DOMAIN points : x \in PointBytes(m, points[n])
  BY <1>4, <1>10
<1> HIDE DEF bytes
<1>12. \A n \in DOMAIN points : \E i \in Points(m) : points[n] = Returned(m, i)
  BY <1>1, PointsReturned
<1>13. \A i \in Points(m) : \E n \in DOMAIN points : points[n] = Returned(m, i)
  BY <1>1, PointsReturned
<1>14. ASSUME NEW x \in bytes PROVE x[2] = ByteOf(m, x[1])
  <2>1. CASE \E o \in SidecarOffsets(m) : x = <<o, m.data[o + 1]>>
    <3>1. PICK o \in SidecarOffsets(m) : x = <<o, m.data[o + 1]>>
      BY <2>1
    <3>2. o \in Offsets(m)
      BY DEF SidecarOffsets
    <3>3. ByteOf(m, o) = m.data[o + 1]
      BY <3>2, SidecarBytes
    <3> QED
      BY <3>1, <3>3
  <2>2. CASE \E n \in DOMAIN points : x \in PointBytes(m, points[n])
    <3>1. PICK i \in Points(m) : x \in PointBytes(m, Returned(m, i))
      BY <1>12, <2>2
    <3> QED
      BY <3>1, ReturnedBytes
  <2> QED
    BY <1>11, <2>1, <2>2
<1>15. ASSUME NEW o \in Offsets(m) PROVE \E x \in bytes : x[1] = o
  <2>1. CASE o \in SidecarOffsets(m)
    <3>1. <<o, m.data[o + 1]>> \in bytes
      BY <1>11, <2>1
    <3> QED
      BY <3>1
  <2>2. CASE o \notin SidecarOffsets(m)
    <3>1. PICK i \in Points(m), c \in Encoded(m.fields, m.point_step) : o = PointDataOffset(m, i) + c
      BY <2>2, SidecarBytes
    <3>2. PICK x \in PointBytes(m, Returned(m, i)) : x[1] = o
      BY <3>1, ReturnedBytes
    <3> QED
      BY <1>11, <1>13, <3>2
  <2> QED
    BY <2>1, <2>2
<1>16. Written(z, bytes) = Restored(m)
  BY <1>2, <1>14, <1>15, WrittenBytes
<1> QED
  BY <1>9, <1>16

\* What Decode makes of a packet without points: the data as they were.
LEMMA DecodeEmpty ==
  ASSUME NEW m \in PointCloud2, NEW p \in DracoEncode(m), NEW points \in DracoOutputs(p.payload),
         Points(m) = {}
  PROVE  DracoDecode(p, points) = {Restored(m)}
<1>1. PICK z : z = Blank(m)
  OBVIOUS
<1>2. [p.shape EXCEPT !.data = [k \in 1..(p.shape.row_step * p.shape.height) |-> 0]] = z
  <2>1. PICK s : s = p.shape
    OBVIOUS
  <2>2. s = [m EXCEPT !.data = <<>>]
    BY <2>1, Packets
  <2>3. [s EXCEPT !.data = [k \in 1..(s.row_step * s.height) |-> 0]] = z
    BY <1>1, <2>2, BlankShape
  <2> QED
    BY <2>1, <2>3, Zenon
<1>3. /\ z.width = m.width /\ z.height = m.height /\ z.point_step = m.point_step
      /\ z.row_step = m.row_step
      /\ z.data = [k \in 1..(m.row_step * m.height) |-> 0]
      /\ Points(z) = Points(m)
      /\ \A d : [z EXCEPT !.data = d] = [m EXCEPT !.data = d]
  BY <1>1, BlankAlike, SameBytes
<1>4. StorageValid(m) /\ p.version = FormatVersion /\ p.sidecar = m.data
  BY Packets
<1>5. m.row_step * m.height = Len(m.data) /\ m.data \in Seq(Int)
  BY <1>4, CloudTypes DEF StorageValid
<1>6. Len(z.data) = m.row_step * m.height /\ Len(z.data) = Len(m.data)
  BY <1>3, <1>5
<1>7. StorageValid(z)
  BY <1>3, <1>4, <1>6 DEF StorageValid
<1>8. Cardinality(Points(z)) = 0 /\ points = <<>>
  BY <1>3, FS_EmptySet, PointsReturned
<1>9. DracoDecode(p, points) = {[z EXCEPT !.data = m.data]}
  <2>1. DecodeInto(z, p, points) = {[z EXCEPT !.data = m.data]}
    BY <1>4, <1>6, <1>7, <1>8 DEF DecodeInto
  <2> QED
    BY <1>2, <2>1, DecodeIs
<1>10. PositionOffsets(m) = {}
  BY DEF PositionOffsets
<1>11. [k \in DOMAIN m.data |-> IF k - 1 \in PositionOffsets(m) THEN -m.data[k] ELSE m.data[k]] = m.data
  BY <1>5, <1>10
<1> QED
  BY <1>3, <1>9, <1>11 DEF Restored

\* A packet that fails one of the tests behind the format is refused.
LEMMA Refused ==
  ASSUME NEW m, NEW p, NEW points, Cardinality(Points(m)) # 0,
         ~ (/\ (p.point_type = "xyzrgb") <=> (ColorFields(m.fields, m.point_step) # <<>>)
            /\ Len(p.sidecar) = Cardinality(SidecarOffsets(m))
            /\ Len(points) = Cardinality(Points(m)) /\ IndicesRestored(m, points))
  PROVE  DecodeInto(m, p, points) = {}
BY DEF DecodeInto

\* The same for a packet that still has the shape of the message.
LEMMA RefusedAsSent ==
  ASSUME NEW m, CloudOK(m), NEW p, NEW points, p.shape = [m EXCEPT !.data = <<>>],
         ~ (/\ (p.point_type = "xyzrgb") <=> (ColorFields(m.fields, m.point_step) # <<>>)
            /\ Len(p.sidecar) = Cardinality(SidecarOffsets(m))
            /\ Len(points) = Cardinality(Points(m)) /\ IndicesRestored(m, points))
  PROVE  DracoDecode(p, points) = {}
<1>1. PICK z : z = Blank(m)
  OBVIOUS
<1>2. m \in PointCloud2
  BY DEF CloudOK
<1>3. [p.shape EXCEPT !.data = [k \in 1..(p.shape.row_step * p.shape.height) |-> 0]] = z
  <2>1. PICK s : s = p.shape
    OBVIOUS
  <2>2. [s EXCEPT !.data = [k \in 1..(s.row_step * s.height) |-> 0]] = z
    BY <1>1, <1>2, <2>1, BlankShape
  <2> QED
    BY <2>1, <2>2, Zenon
<1>4. /\ z.fields = m.fields /\ z.point_step = m.point_step
      /\ Points(z) = Points(m) /\ SidecarOffsets(z) = SidecarOffsets(m)
      /\ IndicesRestored(z, points) <=> IndicesRestored(m, points)
  BY <1>1, <1>2, BlankAlike, SameBytes
<1>5. Cardinality(Points(z)) # 0
  BY <1>4, PointCount
<1>6. DecodeInto(z, p, points) = {}
  <2>1. ~ (/\ (p.point_type = "xyzrgb") <=> (ColorFields(z.fields, z.point_step) # <<>>)
           /\ Len(p.sidecar) = Cardinality(SidecarOffsets(z))
           /\ Len(points) = Cardinality(Points(z)) /\ IndicesRestored(z, points))
    BY <1>4, Zenon
  <2> QED
    BY <1>5, <2>1, Refused
<1> QED
  BY <1>3, <1>6, DecodeIs

\* A packet is the record of its parts.
IsPacket(p) ==
  p = [version |-> p.version, point_type |-> p.point_type, shape |-> p.shape,
       sidecar |-> p.sidecar, payload |-> p.payload]

\* A packet with points is of a message that is not empty, and its payload has a point for each of the message.
LEMMA PacketParts ==
  ASSUME NEW m \in PointCloud2, NEW p \in DracoEncode(m), p.payload # <<>>
  PROVE  /\ IsPacket(p) /\ CloudOK(m)
         /\ \E N \in Nat : /\ N > 0 /\ N = Cardinality(Points(m)) /\ Points(m) = 0..N - 1
                           /\ p.payload = [n \in 1..N |-> DracoPoint(m, n - 1)]
<1>1. IsPacket(p)
  BY DEF DracoEncode, IsPacket
<1>2. PICK N \in Nat : N = Cardinality(Points(m)) /\ Points(m) = 0..N - 1
  BY Packets
<1>3. p.payload = [n \in 1..N |-> DracoPoint(m, n - 1)]
  BY <1>2, Packets
<1>4. N # 0
  BY <1>3
<1>5. Points(m) # {}
  <2>1. Points(m) = 0..N - 1
    BY <1>2
  <2>2. 0 \in 0..N - 1
    BY <1>4
  <2> QED
    BY <2>1, <2>2
<1>6. CloudOK(m)
  BY <1>5, Packets
<1>7. N > 0
  BY <1>4
<1> QED
  BY <1>1, <1>2, <1>3, <1>6, <1>7, Zenon

\* The damages of DecodeDamaged, one by one: a version that is not the decoder's.
LEMMA OtherVersion ==
  ASSUME NEW m \in PointCloud2, NEW p \in DracoEncode(m), p.payload # <<>>
  PROVE  DracoDecode([p EXCEPT !.version = 1], p.payload) = {}
<1>1. PICK q : q = [p EXCEPT !.version = 1]
  OBVIOUS
<1>2. q.version # FormatVersion
  <2>1. IsPacket(p)
    BY PacketParts
  <2>2. q.version = 1
    BY <1>1, <2>1 DEF IsPacket
  <2> QED
    BY <2>2 DEF FormatVersion
<1>3. PICK z : z = [q.shape EXCEPT !.data = [k \in 1..(q.shape.row_step * q.shape.height) |-> 0]]
  OBVIOUS
<1>4. DecodeInto(z, q, p.payload) = {}
  BY <1>2 DEF DecodeInto
<1> QED
  BY <1>1, <1>3, <1>4, DecodeIs

\* A point type that does not go with the fields.
LEMMA OtherType ==
  ASSUME NEW m \in PointCloud2, NEW p \in DracoEncode(m), p.payload # <<>>,
         NEW other, other = IF p.point_type = "xyz" THEN "xyzrgb" ELSE "xyz"
  PROVE  DracoDecode([p EXCEPT !.point_type = other], p.payload) = {}
<1>1. PICK q : q = [p EXCEPT !.point_type = other]
  OBVIOUS
<1>2. q.point_type = other /\ q.shape = [m EXCEPT !.data = <<>>] /\ CloudOK(m)
  <2>1. IsPacket(p) /\ CloudOK(m)
    BY PacketParts
  <2>2. p.shape = [m EXCEPT !.data = <<>>]
    BY Packets
  <2>3. q.point_type = other /\ q.shape = p.shape
    BY <1>1, <2>1 DEF IsPacket
  <2> QED
    BY <2>1, <2>2, <2>3
<1>3. p.point_type = IF ColorFields(m.fields, m.point_step) # <<>> THEN "xyzrgb" ELSE "xyz"
  BY <1>2, Packets DEF CloudOK
<1>4. ~ ((q.point_type = "xyzrgb") <=> (ColorFields(m.fields, m.point_step) # <<>>))
  BY <1>2, <1>3
<1> QED
  BY <1>1, <1>2, <1>4, RefusedAsSent

\* A sidecar with a byte too many.
LEMMA LongerSidecar ==
  ASSUME NEW m \in PointCloud2, NEW p \in DracoEncode(m), p.payload # <<>>
  PROVE  DracoDecode([p EXCEPT !.sidecar = Append(p.sidecar, 0)], p.payload) = {}
<1>1. PICK q : q = [p EXCEPT !.sidecar = Append(p.sidecar, 0)]
  OBVIOUS
<1>2. q.sidecar = Append(p.sidecar, 0) /\ q.shape = [m EXCEPT !.data = <<>>] /\ CloudOK(m)
  <2>1. IsPacket(p) /\ CloudOK(m)
    BY PacketParts
  <2>2. p.shape = [m EXCEPT !.data = <<>>]
    BY Packets
  <2>3. q.sidecar = Append(p.sidecar, 0) /\ q.shape = p.shape
    BY <1>1, <2>1 DEF IsPacket
  <2> QED
    BY <2>1, <2>2, <2>3
<1>3. p.sidecar = ExtractSidecar(m)
  BY <1>2, Packets DEF CloudOK
<1>4. PICK n \in Nat : n = Cardinality(SidecarOffsets(m)) /\ Len(p.sidecar) = n
  <2>1. m.row_step * m.height \in Int
    BY <1>2, CloudShape
  <2> QED
    BY <1>3, <2>1, Sidecar
<1>5. PICK x : x = p.sidecar
  OBVIOUS
<1>6. \E T : x \in Seq(T)
  <2>1. x = [k \in 1..n |-> x[k]]
    BY <1>3, <1>4, <1>5 DEF ExtractSidecar
  <2>2. PICK T : T = {x[k] : k \in 1..n}
    OBVIOUS
  <2>3. \A k \in 1..n : x[k] \in T
    BY <2>2
  <2>4. x \in Seq(T)
    BY <2>1, <2>3
  <2> QED
    BY <2>4
<1>7. Len(q.sidecar) = n + 1
  <2>1. PICK T : x \in Seq(T)
    BY <1>6
  <2>2. x \in Seq(T \cup {0}) /\ 0 \in T \cup {0}
    BY <2>1
  <2>3. Len(Append(x, 0)) = Len(x) + 1
    BY <2>2, AppendProperties
  <2> QED
    BY <1>2, <1>4, <1>5, <2>3
<1>8. Len(q.sidecar) # Cardinality(SidecarOffsets(m))
  BY <1>4, <1>7
<1> QED
  BY <1>1, <1>2, <1>8, RefusedAsSent

\* A width that is not the one of the points.
LEMMA WiderShape ==
  ASSUME NEW m \in PointCloud2, NEW p \in DracoEncode(m), p.payload # <<>>
  PROVE  DracoDecode([p EXCEPT !.shape.width = p.shape.width + 1], p.payload) = {}
<1>1. PICK q : q = [p EXCEPT !.shape.width = p.shape.width + 1]
  OBVIOUS
<1>2. q.shape = [p.shape EXCEPT !.width = p.shape.width + 1] /\ CloudOK(m)
  <2>1. IsPacket(p) /\ CloudOK(m)
    BY PacketParts
  <2> QED
    BY <1>1, <2>1 DEF IsPacket
<1>3. p.shape = [m EXCEPT !.data = <<>>]
  BY Packets
<1>4. PICK z : z = [q.shape EXCEPT !.data = [k \in 1..(q.shape.row_step * q.shape.height) |-> 0]]
  OBVIOUS
<1>5. z.width = m.width + 1 /\ z.height = m.height
  <2>1. m = [width |-> m.width, height |-> m.height, point_step |-> m.point_step, row_step |-> m.row_step,
             fields |-> m.fields, bigendian |-> m.bigendian, data |-> m.data]
    BY DEF PointCloud2
  <2>2. q.shape = [width |-> m.width + 1, height |-> m.height, point_step |-> m.point_step,
                   row_step |-> m.row_step, fields |-> m.fields, bigendian |-> m.bigendian, data |-> <<>>]
    <3>1. p.shape = [width |-> m.width, height |-> m.height, point_step |-> m.point_step,
                     row_step |-> m.row_step, fields |-> m.fields, bigendian |-> m.bigendian, data |-> <<>>]
      BY <1>3, <2>1
    <3> QED
      BY <1>2, <3>1
  <2> QED
    BY <1>4, <2>2
<1>6. PICK W \in Nat, H \in Nat : W = m.width /\ H = m.height /\ H > 0 /\ W > 0
  BY <1>2, CloudShape
<1>7. Points(z) = 0..(W + 1) * H - 1 /\ Points(m) = 0..W * H - 1
  <2>1. z.width = W + 1 /\ z.height = H /\ m.width = W /\ m.height = H
    BY <1>5, <1>6
  <2> QED
    BY <2>1 DEF Points
<1>8. (W + 1) * H = W * H + H /\ W * H \in Nat /\ (W + 1) * H \in Nat
  OBVIOUS
<1>9. Cardinality(Points(z)) = W * H + H /\ Cardinality(Points(m)) = W * H
  <2>1. \A n \in Nat : Cardinality(0..n - 1) = n
    BY FS_Interval
  <2> QED
    BY <1>7, <1>8, <2>1
<1>10. Len(p.payload) = W * H
  <2>1. PICK N \in Nat : N = Cardinality(Points(m)) /\ p.payload = [n \in 1..N |-> DracoPoint(m, n - 1)]
    BY PacketParts
  <2> QED
    BY <1>9, <2>1
<1>11. Cardinality(Points(z)) # 0 /\ Len(p.payload) # Cardinality(Points(z))
  BY <1>6, <1>8, <1>9, <1>10
<1>12. DecodeInto(z, q, p.payload) = {}
  BY <1>11, Refused
<1> QED
  BY <1>1, <1>4, <1>12, DecodeIs

\* A point too few.
LEMMA PointLost ==
  ASSUME NEW m \in PointCloud2, NEW p \in DracoEncode(m), p.payload # <<>>
  PROVE  DracoDecode(p, Tail(p.payload)) = {}
<1>1. PICK N \in Nat : N > 0 /\ N = Cardinality(Points(m)) /\ p.payload = [n \in 1..N |-> DracoPoint(m, n - 1)]
  BY PacketParts
<1>2. PICK t : t = p.payload
  OBVIOUS
<1>3. PICK T : T = {t[k] : k \in 1..N}
  OBVIOUS
<1>4. t \in Seq(T) /\ Len(t) = N
  BY <1>1, <1>2, <1>3
<1>5. Len(Tail(t)) = N - 1
  BY <1>1, <1>4
<1>6. CloudOK(m) /\ p.shape = [m EXCEPT !.data = <<>>]
  BY PacketParts, Packets
<1>7. Len(Tail(t)) # Cardinality(Points(m))
  BY <1>1, <1>5
<1> QED
  BY <1>2, <1>6, <1>7, RefusedAsSent

\* An index out of range, or one that another point has too.
LEMMA WrongIndex ==
  ASSUME NEW m \in PointCloud2, NEW p \in DracoEncode(m), p.payload # <<>>, NEW x,
         x = Len(p.payload) \/ \E k \in 2..Len(p.payload) : x = p.payload[k].index
  PROVE  DracoDecode(p, [p.payload EXCEPT ![1].index = x]) = {}
<1>1. PICK N \in Nat : /\ N > 0 /\ N = Cardinality(Points(m)) /\ Points(m) = 0..N - 1
                       /\ p.payload = [n \in 1..N |-> DracoPoint(m, n - 1)]
  BY PacketParts
<1>2. PICK t : t = p.payload
  OBVIOUS
<1>8. t = [n \in 1..N |-> DracoPoint(m, n - 1)]
  BY <1>1, <1>2
<1>9. N > 0
  BY <1>1
<1>3. Len(t) = N /\ DOMAIN t = 1..N /\ 1 \in 1..N
  BY <1>8, <1>9
<1>4. PICK u : u = [t EXCEPT ![1].index = x]
  OBVIOUS
<1>5. DOMAIN u = 1..N /\ u[1].index = x /\ \A k \in 2..N : u[k] = t[k]
  <2>1. t[1] = DracoPoint(m, 1 - 1)
    BY <1>3, <1>8
  <2>2. u = [t EXCEPT ![1] = [t[1] EXCEPT !.index = x]]
    BY <1>4
  <2>3. [t[1] EXCEPT !.index = x].index = x
    BY <2>1 DEF DracoPoint
  <2> QED
    BY <1>3, <2>2, <2>3
<1>6. ~IndicesRestored(m, u)
  <2>1. CASE x = Len(t)
    <3>1. u[1].index \notin Points(m)
      BY <1>1, <1>3, <1>5, <2>1
    <3> QED
      BY <1>3, <1>5, <3>1 DEF IndicesRestored
  <2>2. CASE \E k \in 2..N : x = t[k].index
    <3>1. PICK k \in 2..N : x = t[k].index
      BY <2>2
    <3>2. u[k].index = u[1].index /\ k # 1 /\ k \in DOMAIN u /\ 1 \in DOMAIN u
      BY <1>3, <1>5, <3>1
    <3> QED
      BY <3>2 DEF IndicesRestored
  <2> QED
    BY <1>2, <1>3, <2>1, <2>2
<1>7. CloudOK(m) /\ p.shape = [m EXCEPT !.data = <<>>]
  BY PacketParts, Packets
<1> QED
  BY <1>2, <1>4, <1>6, <1>7, RefusedAsSent

(***************************************************************************)
(* The clouds of a behaviour.                                              *)
(***************************************************************************)

\* What makes the two cloud properties inductive: the packet in transit encodes the cloud.
CloudInv ==
  /\ step # "none" => cloud \in PointCloud2
  /\ step = "packed" => packet \in DracoEncode(cloud)
  /\ step = "decoded" => result = {Restored(cloud)}
  /\ step = "damaged" => result = {}

\* No packet is in transit at the start.
LEMMA CloudInvInit == Init => CloudInv
<1> SUFFICES ASSUME Init PROVE CloudInv
  OBVIOUS
<1>1. step = "none" \/ (step = "source" /\ cloud \in Clouds)
  BY DEF Init, NoCloud, CloudInit
<1> QED
  BY <1>1, CloudsAssumption DEF CloudInv

\* Every step of the codec, and every step of an envelope, preserves it.
LEMMA CloudInvNext == CloudInv /\ [Next]_<<envelopeVars, cloudVars>> => CloudInv'
<1> SUFFICES ASSUME CloudInv, [Next]_<<envelopeVars, cloudVars>> PROVE CloudInv'
  OBVIOUS
<1>1. CASE UNCHANGED cloudVars
  BY <1>1 DEF CloudInv, cloudVars
<1>2. CASE PtCloudProcess
  <2>1. step = "source" /\ cloud' = cloud /\ cloud \in PointCloud2
    BY <1>2 DEF PtCloudProcess, CloudInv
  <2>2. CASE DracoEncode(cloud) = {}
    <3>1. step' = "dropped"
      BY <1>2, <2>2 DEF PtCloudProcess
    <3> QED
      BY <2>1, <3>1 DEF CloudInv
  <2>3. CASE DracoEncode(cloud) # {}
    <3>1. step' = "packed" /\ packet' = CHOOSE p \in DracoEncode(cloud) : TRUE
      BY <1>2, <2>3 DEF PtCloudProcess
    <3>2. packet' \in DracoEncode(cloud')
      BY <2>1, <2>3, <3>1
    <3> QED
      BY <2>1, <3>1, <3>2 DEF CloudInv
  <2> QED
    BY <2>2, <2>3
<1>3. CASE Decode
  <2>1. /\ step = "packed" /\ step' = "decoded" /\ cloud' = cloud
        /\ cloud \in PointCloud2 /\ packet \in DracoEncode(cloud)
    BY <1>3 DEF Decode, CloudInv
  <2>2. PICK points \in DracoOutputs(packet.payload) : result' = DracoDecode(packet, points)
    BY <1>3 DEF Decode
  <2>3. result' = {Restored(cloud)}
    <3>1. CASE Points(cloud) = {}
      BY <2>1, <2>2, <3>1, DecodeEmpty
    <3>2. CASE Points(cloud) # {}
      <4>1. CloudOK(cloud)
        BY <2>1, <3>2, Packets
      <4> QED
        BY <2>1, <2>2, <4>1, DecodeFull
    <3> QED
      BY <3>1, <3>2
  <2> QED
    BY <2>1, <2>3 DEF CloudInv
<1>4. CASE DecodeDamaged
  <2>1. /\ step = "packed" /\ packet.payload # <<>> /\ step' = "damaged" /\ cloud' = cloud
        /\ cloud \in PointCloud2 /\ packet \in DracoEncode(cloud)
    BY <1>4 DEF DecodeDamaged, CloudInv
  <2>2. PICK p : p = packet
    OBVIOUS
  <2>3. PICK points, n, other :
          /\ points = p.payload /\ n = Len(points)
          /\ other = IF p.point_type = "xyz" THEN "xyzrgb" ELSE "xyz"
    OBVIOUS
  <2>4. PICK damaged \in {<<[p EXCEPT !.version = 1], points>>,
                          <<[p EXCEPT !.point_type = other], points>>,
                          <<[p EXCEPT !.sidecar = Append(p.sidecar, 0)], points>>,
                          <<[p EXCEPT !.shape.width = p.shape.width + 1], points>>,
                          <<p, Tail(points)>>,
                          <<p, [points EXCEPT ![1].index = n]>>} \cup
                         {<<p, [points EXCEPT ![1].index = points[k].index]>> : k \in 2..n} :
               result' = DracoDecode(damaged[1], damaged[2])
    BY <1>4, <2>2, <2>3 DEF DecodeDamaged
  <2>5. p.payload # <<>> /\ cloud \in PointCloud2 /\ p \in DracoEncode(cloud)
    BY <2>1, <2>2
  <2>6. ASSUME damaged = <<[p EXCEPT !.version = 1], points>> PROVE result' = {}
    BY <2>3, <2>4, <2>5, <2>6, OtherVersion
  <2>7. ASSUME damaged = <<[p EXCEPT !.point_type = other], points>> PROVE result' = {}
    BY <2>3, <2>4, <2>5, <2>7, OtherType
  <2>8. ASSUME damaged = <<[p EXCEPT !.sidecar = Append(p.sidecar, 0)], points>> PROVE result' = {}
    BY <2>3, <2>4, <2>5, <2>8, LongerSidecar
  <2>9. ASSUME damaged = <<[p EXCEPT !.shape.width = p.shape.width + 1], points>> PROVE result' = {}
    BY <2>3, <2>4, <2>5, <2>9, WiderShape
  <2>10. ASSUME damaged = <<p, Tail(points)>> PROVE result' = {}
    BY <2>3, <2>4, <2>5, <2>10, PointLost
  <2>11. ASSUME damaged = <<p, [points EXCEPT ![1].index = n]>> PROVE result' = {}
    BY <2>3, <2>4, <2>5, <2>11, WrongIndex
  <2>12. ASSUME \E k \in 2..n : damaged = <<p, [points EXCEPT ![1].index = points[k].index]>> PROVE result' = {}
    <3>1. PICK k \in 2..n : damaged = <<p, [points EXCEPT ![1].index = points[k].index]>>
      BY <2>12
    <3>2. PICK x : x = points[k].index
      OBVIOUS
    <3>3. DracoDecode(p, [points EXCEPT ![1].index = x]) = {}
      BY <2>3, <2>5, <3>2, WrongIndex
    <3> QED
      BY <2>4, <3>1, <3>2, <3>3
  <2>13. result' = {}
    BY <2>4, <2>6, <2>7, <2>8, <2>9, <2>10, <2>11, <2>12
  <2> QED
    BY <2>1, <2>13 DEF CloudInv
<1> QED
  BY <1>1, <1>2, <1>3, <1>4 DEF Next, CloudNext, cloudVars

\* The packet in transit is the encoding of the cloud that was published, and what was decoded
\* is what CloudRestored and DamagedRejected say (DracoPointCloudCodec::Encode, Decode).
THEOREM CloudsAsEncoded == Spec => []CloudInv
<1>1. Init => CloudInv
  BY CloudInvInit
<1>2. CloudInv /\ [Next]_<<envelopeVars, cloudVars>> => CloudInv'
  BY CloudInvNext
<1> QED
  BY <1>1, <1>2, PTL DEF Spec

\* Whatever order Draco returns the points in, DracoPointCloudCodec::Decode puts every byte of the
\* message back to where the sender had it.
THEOREM CloudIsRestored == Spec => []CloudRestored
<1>1. CloudInv => CloudRestored
  BY DEF CloudInv, CloudRestored, Restored
<1> QED
  BY <1>1, CloudsAsEncoded, PTL

\* DracoPointCloudCodec::Decode rejects a packet whose parts do not belong together as a whole.
THEOREM DamagedIsRejected == Spec => []DamagedRejected
<1>1. CloudInv => DamagedRejected
  BY DEF CloudInv, DamagedRejected
<1> QED
  BY <1>1, CloudsAsEncoded, PTL
=============================================================================
