---------------------------- MODULE Wire_proofs -----------------------------
(***************************************************************************)
(* Proofs that an answer is decoded to the peers that were put in, or      *)
(* refused, whatever datagrams are lost, repeated, cut or taken for        *)
(* answers: for all sizes of the parts of a peer, all peers and whatever   *)
(* the unwritten bytes hold.  An answer may lie over the rest of others if *)
(* it came whole.                                                          *)
(***************************************************************************)
EXTENDS Wire, SequenceTheorems, FiniteSetTheorems, TLAPS

-----------------------------------------------------------------------------
(* Numbers *)

\* What the sizes are.  Neither a request nor a ping has room for a peer.
LEMMA Sizes ==
  /\ IdLen \in Nat /\ PubLen \in Nat /\ AddrLen \in Nat /\ PeerSize \in Nat \ {0}
  /\ RequestSize \in Nat /\ RequestSize >= 2 /\ RequestSize < 2 + PeerSize
  /\ PingSize \in Nat /\ PingSize >= 2 /\ PingSize < 2 + PeerSize /\ 2 * PingSize < 2 + PeerSize
  BY WireAssumption DEF PeerSize, RequestSize, PingSize

\* The lesser of two numbers.
LEMMA MinOfTwo ==
  ASSUME NEW a \in Int, NEW b \in Int
  PROVE  Min({a, b}) = IF a <= b THEN a ELSE b
<1> DEFINE m == IF a <= b THEN a ELSE b
<1>1. m \in {a, b} /\ \A y \in {a, b} : m <= y
  OBVIOUS
<1>2. \A x \in {a, b} : (\A y \in {a, b} : x <= y) => x = m
  OBVIOUS
<1> QED
  BY <1>1, <1>2, Zenon DEF Min

\* What a byte is.
LEMMA ByteRange == \A x : x \in Byte <=> x \in Nat /\ x <= 255
  BY DEF Byte

\* A number that fits a byte is not cut.
LEMMA Uncut == ASSUME NEW n \in Nat, n <= 255 PROVE n % 256 = n
  OBVIOUS

\* As many peers as are announced and fit.
LEMMA Announced ==
  ASSUME NEW a \in Nat, a <= 255, NEW b \in Nat
  PROVE  /\ (IF a <= b THEN a ELSE b) \in Nat /\ (IF a <= b THEN a ELSE b) <= 255
         /\ (IF a <= b THEN a ELSE b) <= b
  OBVIOUS

\* The peer and the byte in it of a position behind the first two bytes.
LEMMA DivMod ==
  ASSUME NEW q \in Nat, NEW r \in Nat, NEW P \in Nat, r < P
  PROVE  (q * P + r) \div P = q /\ (q * P + r) % P = r
  OBVIOUS

LEMMA DivType ==
  ASSUME NEW L \in Nat, NEW P \in Nat \ {0}
  PROVE  /\ L = P * (L \div P) + (L % P) /\ L % P \in 0..(P - 1)
         /\ L \div P \in Nat
  OBVIOUS

\* As many peers as fit do fit.
LEMMA DivFits ==
  ASSUME NEW L \in Nat, NEW P \in Nat \ {0}, NEW n \in Nat, n <= L \div P
  PROVE  n * P <= L
  OBVIOUS

\* Fewer peers are no longer.
LEMMA TimesMonotone ==
  ASSUME NEW a \in Nat, NEW b \in Nat, NEW P \in Nat, a <= b
  PROVE  a * P <= b * P /\ a * P \in Nat
  OBVIOUS

\* One peer more.
LEMMA TimesNext ==
  ASSUME NEW i \in Nat \ {0}, NEW P \in Nat
  PROVE  (i - 1) * P \in Nat /\ (i - 1) * P + P = i * P
  OBVIOUS

-----------------------------------------------------------------------------
(* Serialization *)

\* Functions as sequences.
LEMMA Bytes ==
  ASSUME NEW S, NEW n \in Nat, NEW f \in [1..n -> S]
  PROVE  f \in Seq(S) /\ Len(f) = n
  OBVIOUS

\* One part behind another.
LEMMA Behind ==
  ASSUME NEW m \in Nat, NEW n \in Nat, NEW a \in [1..m -> Byte], NEW b \in [1..n -> Byte]
  PROVE  /\ a \o b \in [1..(m + n) -> Byte]
         /\ \A j \in 1..m : (a \o b)[j] = a[j]
         /\ \A j \in 1..n : (a \o b)[m + j] = b[j]
<1>1. a \in Seq(Byte) /\ b \in Seq(Byte) /\ Len(a) = m /\ Len(b) = n
  OBVIOUS
<1>2. /\ a \o b \in Seq(Byte) /\ Len(a \o b) = m + n
      /\ \A i \in 1..(m + n) : (a \o b)[i] = IF i <= m THEN a[i] ELSE b[i - m]
  BY <1>1, ConcatProperties
<1>3. a \o b \in [1..(m + n) -> Byte]
  BY <1>2, LenProperties
<1>4. \A j \in 1..n : m + j \in 1..(m + n) /\ ~ (m + j <= m) /\ (m + j) - m = j
  OBVIOUS
<1>5. \A j \in 1..m : j \in 1..(m + n) /\ j <= m
  OBVIOUS
<1> QED
  BY <1>2, <1>3, <1>4, <1>5

\* The bytes of a peer are its parts, one behind the other.
LEMMA PeerBytesParts ==
  ASSUME NEW p \in Peer
  PROVE  /\ PeerBytes(p) \in [1..PeerSize -> Byte]
         /\ \A j \in 1..IdLen   : PeerBytes(p)[j] = p.id[j]
         /\ \A j \in 1..PubLen  : PeerBytes(p)[IdLen + j] = p.pub[j]
         /\ \A j \in 1..AddrLen : PeerBytes(p)[IdLen + PubLen + j] = p.addr[j]
<1>1. p.id \in [1..IdLen -> Byte] /\ p.pub \in [1..PubLen -> Byte] /\ p.addr \in [1..AddrLen -> Byte]
  BY DEF Peer
<1> DEFINE front == p.id \o p.pub
<1>2. IdLen \in Nat /\ PubLen \in Nat /\ AddrLen \in Nat /\ IdLen + PubLen \in Nat
  BY Sizes
<1>3. /\ front \in [1..(IdLen + PubLen) -> Byte]
      /\ \A j \in 1..IdLen  : front[j] = p.id[j]
      /\ \A j \in 1..PubLen : front[IdLen + j] = p.pub[j]
  <2> DEFINE a == p.id
             b == p.pub
  <2>1. a \in [1..IdLen -> Byte] /\ b \in [1..PubLen -> Byte] /\ IdLen \in Nat /\ PubLen \in Nat
    BY <1>1, <1>2
  <2> HIDE DEF a, b
  <2>2. a \o b \in [1..(IdLen + PubLen) -> Byte]
    BY <2>1, Behind
  <2>3. \A j \in 1..IdLen : (a \o b)[j] = a[j]
    BY <2>1, Behind
  <2>4. \A j \in 1..PubLen : (a \o b)[IdLen + j] = b[j]
    BY <2>1, Behind
  <2> QED
    BY <2>2, <2>3, <2>4 DEF a, b
<1>4. PeerBytes(p) = front \o p.addr
  <2>1. p.id \in Seq(Byte) /\ p.pub \in Seq(Byte) /\ p.addr \in Seq(Byte)
    BY <1>1, <1>2, Bytes
  <2> QED
    BY <2>1, ConcatAssociative DEF PeerBytes
<1> HIDE DEF front
<1>5. /\ front \o p.addr \in [1..((IdLen + PubLen) + AddrLen) -> Byte]
      /\ \A j \in 1..(IdLen + PubLen) : (front \o p.addr)[j] = front[j]
      /\ \A j \in 1..AddrLen : (front \o p.addr)[(IdLen + PubLen) + j] = p.addr[j]
  <2> DEFINE m == IdLen + PubLen
             c == p.addr
  <2>1. front \in [1..m -> Byte] /\ c \in [1..AddrLen -> Byte] /\ m \in Nat /\ AddrLen \in Nat
    BY <1>1, <1>2, <1>3
  <2> HIDE DEF m, c
  <2>2. front \o c \in [1..(m + AddrLen) -> Byte]
    BY <2>1, Behind
  <2>3. \A j \in 1..m : (front \o c)[j] = front[j]
    BY <2>1, Behind
  <2>4. \A j \in 1..AddrLen : (front \o c)[m + j] = c[j]
    BY <2>1, Behind
  <2> QED
    BY <2>2, <2>3, <2>4 DEF m, c
<1>6. ASSUME NEW j \in 1..IdLen PROVE PeerBytes(p)[j] = p.id[j]
  <2>1. j \in 1..(IdLen + PubLen)
    BY <1>2
  <2> QED
    BY <1>3, <1>4, <1>5, <2>1
<1>7. ASSUME NEW j \in 1..PubLen PROVE PeerBytes(p)[IdLen + j] = p.pub[j]
  <2>1. IdLen + j \in 1..(IdLen + PubLen)
    BY <1>2
  <2> QED
    BY <1>3, <1>4, <1>5, <2>1
<1> QED
  BY <1>4, <1>5, <1>6, <1>7 DEF PeerSize

\* A part of a datagram, byte by byte.
LEMMA Part ==
  ASSUME NEW buf \in Seq(Byte), NEW from \in Nat, NEW len \in Nat, from + len <= Len(buf)
  PROVE  /\ SubSeq(buf, from + 1, from + len) \in [1..len -> Byte]
         /\ \A j \in 1..len : SubSeq(buf, from + 1, from + len)[j] = buf[from + j]
<1> DEFINE s == SubSeq(buf, from + 1, from + len)
<1>1. \A j \in (from + 1)..(from + len) : j \in 1..Len(buf) /\ buf[j] \in Byte
  <2>1. Len(buf) \in Nat
    OBVIOUS
  <2> QED
    BY <2>1, ElementOfSeq
<1>2. s = [j \in 1..len |-> buf[from + j]]
  BY SubSeqProperties
<1>3. \A j \in 1..len : from + j \in (from + 1)..(from + len)
  OBVIOUS
<1> HIDE DEF s
<1>4. s \in [1..len -> Byte] /\ \A j \in 1..len : s[j] = buf[from + j]
  BY <1>1, <1>2, <1>3
<1> QED
  BY <1>4 DEF s

\* What is read at any place where a peer fits is a peer.
LEMMA PeerAtTyped ==
  ASSUME NEW buf \in Seq(Byte), NEW o \in Nat, o + PeerSize <= Len(buf)
  PROVE  PeerAt(buf, o) \in Peer
<1>1. /\ o + 0 + IdLen <= Len(buf) /\ o + IdLen + PubLen <= Len(buf)
      /\ o + (IdLen + PubLen) + AddrLen <= Len(buf)
  BY Sizes DEF PeerSize
<1>2. /\ SubSeq(buf, o + 0 + 1, o + 0 + IdLen) \in [1..IdLen -> Byte]
      /\ SubSeq(buf, o + IdLen + 1, o + IdLen + PubLen) \in [1..PubLen -> Byte]
      /\ SubSeq(buf, o + (IdLen + PubLen) + 1, o + (IdLen + PubLen) + AddrLen) \in [1..AddrLen -> Byte]
  <2>1. o + 0 \in Nat /\ o + IdLen \in Nat /\ o + (IdLen + PubLen) \in Nat
    BY Sizes
  <2> QED
    BY <1>1, <2>1, Part, Sizes
<1>3. ~ (o + PeerSize > Len(buf))
  BY Sizes
<1> QED
  BY <1>2, <1>3 DEF PeerAt, Peer

\* A part that was written there is read there.
LEMMA PartRead ==
  ASSUME NEW buf \in Seq(Byte), NEW from \in Nat, NEW len \in Nat, from + len <= Len(buf),
         NEW f \in [1..len -> Byte], \A j \in 1..len : buf[from + j] = f[j]
  PROVE  SubSeq(buf, from + 1, from + len) = f
<1> DEFINE s == SubSeq(buf, from + 1, from + len)
<1>1. s \in [1..len -> Byte] /\ \A j \in 1..len : s[j] = buf[from + j]
  BY Part
<1> HIDE DEF s
<1>2. \A j \in 1..len : s[j] = f[j]
  BY <1>1
<1>3. s = f
  BY <1>1, <1>2
<1> QED
  BY <1>3 DEF s

\* A peer that was written there is read there.
LEMMA PeerRead ==
  ASSUME NEW buf \in Seq(Byte), NEW o \in Nat, NEW p \in Peer, o + PeerSize <= Len(buf),
         \A j \in 1..PeerSize : buf[o + j] = PeerBytes(p)[j]
  PROVE  PeerAt(buf, o) = p
<1>1. /\ o + 0 + IdLen <= Len(buf) /\ o + IdLen + PubLen <= Len(buf)
      /\ o + (IdLen + PubLen) + AddrLen <= Len(buf)
      /\ o + 0 \in Nat /\ o + IdLen \in Nat /\ o + (IdLen + PubLen) \in Nat
  BY Sizes DEF PeerSize
<1>2. p.id \in [1..IdLen -> Byte] /\ p.pub \in [1..PubLen -> Byte] /\ p.addr \in [1..AddrLen -> Byte]
  BY DEF Peer
<1>3. SubSeq(buf, o + 0 + 1, o + 0 + IdLen) = p.id
  <2>1. ASSUME NEW j \in 1..IdLen PROVE buf[o + 0 + j] = p.id[j]
    <3>1. j \in 1..PeerSize /\ o + 0 + j = o + j
      BY Sizes DEF PeerSize
    <3>2. PeerBytes(p)[j] = p.id[j]
      BY PeerBytesParts
    <3> QED
      BY <3>1, <3>2
  <2> QED
    BY <1>1, <1>2, <2>1, PartRead, Sizes
<1>4. SubSeq(buf, o + IdLen + 1, o + IdLen + PubLen) = p.pub
  <2>1. ASSUME NEW j \in 1..PubLen PROVE buf[o + IdLen + j] = p.pub[j]
    <3>1. IdLen + j \in 1..PeerSize /\ o + IdLen + j = o + (IdLen + j)
      BY Sizes DEF PeerSize
    <3>2. PeerBytes(p)[IdLen + j] = p.pub[j]
      BY PeerBytesParts
    <3> QED
      BY <3>1, <3>2
  <2> QED
    BY <1>1, <1>2, <2>1, PartRead, Sizes
<1>5. SubSeq(buf, o + (IdLen + PubLen) + 1, o + (IdLen + PubLen) + AddrLen) = p.addr
  <2>1. ASSUME NEW j \in 1..AddrLen PROVE buf[o + (IdLen + PubLen) + j] = p.addr[j]
    <3>1. /\ IdLen + PubLen + j \in 1..PeerSize
          /\ o + (IdLen + PubLen) + j = o + (IdLen + PubLen + j)
      BY Sizes DEF PeerSize
    <3>2. PeerBytes(p)[IdLen + PubLen + j] = p.addr[j]
      BY PeerBytesParts
    <3> QED
      BY <3>1, <3>2
  <2> QED
    BY <1>1, <1>2, <2>1, PartRead, Sizes
<1>6. p = [id |-> p.id, pub |-> p.pub, addr |-> p.addr]
  BY DEF Peer
<1>7. ~ (o + PeerSize > Len(buf))
  BY Sizes
<1> QED
  BY <1>3, <1>4, <1>5, <1>6, <1>7 DEF PeerAt

\* A sequence of two bytes.
LEMMA TwoBytes ==
  ASSUME NEW a \in Byte, NEW b \in Byte
  PROVE  <<a, b>> \in [1..2 -> Byte] /\ <<a, b>>[2] = b
  OBVIOUS

\* The bytes of an answer: its type, the number of peers, and every peer whole.
LEMMA ResponseParts ==
  ASSUME NEW knear \in Seq(Peer)
  PROVE  /\ ResponseBytes(knear) \in Seq(Byte)
         /\ Len(ResponseBytes(knear)) = 2 + Len(knear) * PeerSize
         /\ ResponseBytes(knear)[2] = Len(knear) % 256
         /\ \A i \in 1..Len(knear), j \in 1..PeerSize :
              ResponseBytes(knear)[2 + (i - 1) * PeerSize + j] = PeerBytes(knear[i])[j]
<1> DEFINE P == PeerSize
           n == Len(knear)
           q(k) == 1 + ((k - 1) \div P)
           r(k) == 1 + ((k - 1) % P)
<1>1. P \in Nat \ {0} /\ n \in Nat /\ n * P \in Nat
  BY Sizes, TimesMonotone
<1>2. ASSUME NEW i \in 1..n, NEW j \in 1..P
      PROVE  /\ (i - 1) * P + j \in 1..(n * P)
             /\ q((i - 1) * P + j) = i /\ r((i - 1) * P + j) = j
  <2>1. (i - 1) * P \in Nat /\ (i - 1) * P + P = i * P /\ i * P <= n * P
    BY <1>1, TimesNext, TimesMonotone
  <2>2. i - 1 \in Nat /\ j - 1 \in Nat /\ j - 1 < P
    BY <1>1
  <2>3. (((i - 1) * P) + (j - 1)) \div P = i - 1 /\ (((i - 1) * P) + (j - 1)) % P = j - 1
    BY <1>1, <2>2, DivMod
  <2>4. ((i - 1) * P + j) - 1 = ((i - 1) * P) + (j - 1)
    BY <2>1
  <2> QED
    BY <1>1, <2>1, <2>2, <2>3, <2>4
<1>3. ASSUME NEW k \in 1..(n * P)
      PROVE  q(k) \in 1..n /\ r(k) \in 1..P
  <2>1. /\ k - 1 \in Nat
        /\ k - 1 = P * ((k - 1) \div P) + ((k - 1) % P) /\ (k - 1) % P \in 0..(P - 1)
        /\ (k - 1) \div P \in Nat
    <3>1. k - 1 \in Nat
      OBVIOUS
    <3> QED
      BY <1>1, <3>1, DivType
  <2>2. (k - 1) \div P < n
    <3>1. SUFFICES ASSUME n <= (k - 1) \div P PROVE FALSE
      BY <1>1, <2>1
    <3>2. n * P <= ((k - 1) \div P) * P
      BY <1>1, <2>1, <3>1, TimesMonotone
    <3> QED
      BY <1>1, <2>1, <3>2
  <2> QED
    BY <1>1, <2>1, <2>2
<1> DEFINE rest == PeersBytes(knear)
<1>4. rest = [k \in 1..(n * P) |-> PeerBytes(knear[q(k)])[r(k)]]
  BY DEF PeersBytes
<1> HIDE DEF q, r, P, n, rest
<1>5. \A i \in 1..n : knear[i] \in Peer
  BY DEF n
<1>6. ASSUME NEW k \in 1..(n * P) PROVE PeerBytes(knear[q(k)])[r(k)] \in Byte
  <2>1. q(k) \in 1..n /\ r(k) \in 1..P
    BY <1>3
  <2>2. PeerBytes(knear[q(k)]) \in [1..P -> Byte]
    BY <1>5, <2>1, PeerBytesParts DEF P
  <2> QED
    BY <2>1, <2>2
<1>7. rest \in [1..(n * P) -> Byte]
  BY <1>4, <1>6
<1> DEFINE head == <<KFindNodeReponse, n % 256>>
<1>8. /\ head \in [1..2 -> Byte] /\ head[2] = n % 256
  <2>1. KFindNodeReponse \in Byte /\ n % 256 \in Byte
    BY <1>1 DEF KFindNodeReponse, Byte
  <2> QED
    BY <2>1, TwoBytes
<1>9. ResponseBytes(knear) = head \o rest
  BY DEF ResponseBytes, rest, n
<1> HIDE DEF head
<1>10. /\ head \o rest \in [1..(2 + n * P) -> Byte]
       /\ \A j \in 1..2 : (head \o rest)[j] = head[j]
       /\ \A j \in 1..(n * P) : (head \o rest)[2 + j] = rest[j]
  <2> DEFINE N == n * P
  <2>1. 2 \in Nat /\ N \in Nat /\ head \in [1..2 -> Byte] /\ rest \in [1..N -> Byte]
    BY <1>1, <1>7, <1>8
  <2> HIDE DEF N
  <2>2. /\ head \o rest \in [1..(2 + N) -> Byte]
        /\ \A j \in 1..2 : (head \o rest)[j] = head[j]
        /\ \A j \in 1..N : (head \o rest)[2 + j] = rest[j]
    BY <2>1, Behind
  <2> QED
    BY <2>2 DEF N
<1>11. head \o rest \in Seq(Byte) /\ Len(head \o rest) = 2 + n * P
  <2>1. 2 + n * P \in Nat
    BY <1>1
  <2> QED
    BY <1>10, <2>1, Bytes
<1>12. ASSUME NEW i \in 1..n, NEW j \in 1..P
       PROVE  (head \o rest)[2 + (i - 1) * P + j] = PeerBytes(knear[i])[j]
  <2> DEFINE k == (i - 1) * P + j
  <2>1. k \in 1..(n * P) /\ q(k) = i /\ r(k) = j
    BY <1>2
  <2>2. 2 + (i - 1) * P + j = 2 + k
    <3>1. (i - 1) * P \in Nat
      BY <1>1, TimesNext
    <3> QED
      BY <1>1, <3>1
  <2> HIDE DEF k
  <2>3. (head \o rest)[2 + k] = rest[k] /\ rest[k] = PeerBytes(knear[q(k)])[r(k)]
    BY <1>4, <1>10, <2>1
  <2> QED
    BY <2>1, <2>2, <2>3
<1>13. (head \o rest)[2] = n % 256
  <2>1. 2 \in 1..2
    OBVIOUS
  <2> QED
    BY <1>8, <1>10, <2>1
<1> QED
  BY <1>9, <1>11, <1>12, <1>13 DEF P, n

-----------------------------------------------------------------------------
(* Receiving *)

\* What the buffer holds is the beginning of what was sent.
LEMMA ReceivedPrefix ==
  ASSUME NEW d, d.bytes \in Seq(Byte)
  PROVE  /\ Received(d) \in Seq(Byte) /\ Len(Received(d)) <= Len(d.bytes)
         /\ \A i \in 1..Len(Received(d)) : Received(d)[i] = d.bytes[i]
         /\ Len(d.bytes) <= RecvSize => Received(d) = d.bytes
         /\ Len(Received(d)) \in {Len(d.bytes), RecvSize} /\ Len(Received(d)) <= RecvSize
<1> DEFINE m == Min({Len(d.bytes), RecvSize})
<1>1. Len(d.bytes) \in Nat /\ RecvSize \in Nat
  BY WireAssumption
<1>2. m = IF Len(d.bytes) <= RecvSize THEN Len(d.bytes) ELSE RecvSize
  BY <1>1, MinOfTwo
<1>3. m \in Nat /\ m <= Len(d.bytes) /\ m \in {Len(d.bytes), RecvSize} /\ m <= RecvSize
      /\ (Len(d.bytes) <= RecvSize => m = Len(d.bytes))
  BY <1>1, <1>2
<1> HIDE DEF m
<1>4. /\ SubSeq(d.bytes, 0 + 1, 0 + m) \in [1..m -> Byte]
      /\ \A j \in 1..m : SubSeq(d.bytes, 0 + 1, 0 + m)[j] = d.bytes[0 + j]
  <2>1. 0 \in Nat /\ 0 + m <= Len(d.bytes)
    BY <1>3
  <2> QED
    BY <1>3, <2>1, Part
<1>5. Received(d) = SubSeq(d.bytes, 0 + 1, 0 + m)
  <2>1. 0 + 1 = 1 /\ 0 + m = m
    BY <1>3
  <2>2. SubSeq(d.bytes, 0 + 1, 0 + m) = SubSeq(d.bytes, 1, m)
    BY <2>1
  <2> QED
    BY <2>2 DEF Received, m
<1>6. Received(d) \in [1..m -> Byte] /\ \A j \in 1..m : Received(d)[j] = d.bytes[j]
  <2>1. \A j \in 1..m : 0 + j = j
    BY <1>3
  <2> HIDE DEF Received
  <2>2. Received(d) \in [1..m -> Byte]
    BY <1>4, <1>5
  <2>3. ASSUME NEW j \in 1..m PROVE Received(d)[j] = d.bytes[j]
    BY <1>4, <1>5, <2>1
  <2> QED
    BY <2>2, <2>3
<1>7. Received(d) \in Seq(Byte) /\ Len(Received(d)) = m
  BY <1>3, <1>6, Bytes
<1>8. Len(d.bytes) <= RecvSize => Received(d) = d.bytes
  BY <1>3, <1>6, <1>7, SeqEqual
<1> QED
  BY <1>3, <1>6, <1>7, <1>8

\* What deserialize returns, and when: it refuses with -1, having read one byte
\* or the peers that fit; or it has read all it was told of.
LEMMA Deserialized ==
  ASSUME NEW buf \in Seq(Byte), NEW capacity \in Nat, NEW junk \in Byte,
         capacity >= 2 => Len(buf) >= 2
  PROVE  LET res == DeserializeResponse(buf, capacity, junk)
             n   == Len(res.knear)
         IN /\ res.knear \in Seq(Peer \cup {Unwritten}) /\ n \in Nat /\ n <= 255
            /\ res.end \in Nat /\ res.end <= capacity
            /\ res.end <= 1 \/ (capacity >= 2 /\ n <= buf[2] /\ res.end = 2 + n * PeerSize)
            /\ res.ret = -1 \/ res.ret = 2 + n * PeerSize
            /\ res.ret # -1 =>
                 /\ capacity >= 2 /\ n = buf[2] /\ 2 + n * PeerSize <= capacity
                 /\ \A i \in 1..n : res.knear[i] = PeerAt(buf, 2 + (i - 1) * PeerSize)
<1> DEFINE res   == DeserializeResponse(buf, capacity, junk)
           whole == (capacity - 2) \div PeerSize
           n     == IF buf[2] <= whole THEN buf[2] ELSE whole
           end   == 2 + n * PeerSize
           knear == [i \in 1..n |-> PeerAt(buf, 2 + (i - 1) * PeerSize)]
<1>1. Len(buf) \in Nat /\ PeerSize \in Nat \ {0}
  BY Sizes
<1>0. CASE capacity < 1
  <2>1. res = [ret |-> -1, knear |-> <<>>, end |-> 0]
    BY <1>0 DEF DeserializeResponse
  <2>2. res.ret = -1 /\ res.knear = <<>> /\ res.end = 0
    BY <2>1
  <2>3. <<>> \in Seq(Peer \cup {Unwritten}) /\ Len(<<>>) = 0
    OBVIOUS
  <2> HIDE DEF res
  <2> QED
    BY <2>2, <2>3 DEF res
<1>2. CASE capacity >= 1 /\ capacity < 2 + junk * PeerSize
  <2>1. res = [ret |-> -1, knear |-> <<>>, end |-> 1]
    BY <1>1, <1>2 DEF DeserializeResponse
  <2>2. res.ret = -1 /\ res.knear = <<>> /\ res.end = 1
    BY <2>1
  <2>3. <<>> \in Seq(Peer \cup {Unwritten}) /\ Len(<<>>) = 0
    OBVIOUS
  <2> HIDE DEF res
  <2> QED
    BY <1>2, <2>2, <2>3 DEF res
<1>3. CASE capacity >= 1 /\ ~ (capacity < 2 + junk * PeerSize)
  <2>1. capacity >= 2 /\ Len(buf) >= 2
    <3>1. junk * PeerSize \in Nat
      BY <1>1, TimesMonotone DEF Byte
    <3> QED
      BY <1>1, <1>3, <3>1
  <2>2. buf[2] \in Nat /\ buf[2] <= 255
    <3>1. 2 \in 1..Len(buf)
      BY <1>1, <2>1
    <3> QED
      BY <3>1, ElementOfSeq, ByteRange
  <2>3. capacity - 2 \in Nat
    BY <1>1, <2>1
  <2>4. whole \in Nat
    BY <1>1, <2>3, DivType
  <2> HIDE DEF whole
  <2>5. n \in Nat /\ n <= 255 /\ n <= whole
    BY <2>2, <2>4, Announced
  <2> HIDE DEF n
  <2>6. n * PeerSize <= capacity - 2 /\ n * PeerSize \in Nat
    <3> DEFINE L == capacity - 2
    <3>1. n \in Nat /\ L \in Nat /\ PeerSize \in Nat \ {0} /\ n <= L \div PeerSize
      BY <1>1, <2>3, <2>5 DEF whole
    <3> HIDE DEF L
    <3>2. n * PeerSize <= L
      BY <3>1, DivFits
    <3>3. n * PeerSize \in Nat
      BY <3>1, TimesMonotone
    <3> QED
      BY <3>2, <3>3 DEF L
  <2>7. res = [ret |-> IF n = buf[2] THEN end ELSE -1, knear |-> knear, end |-> end]
    BY <1>1, <1>3 DEF DeserializeResponse, n, whole
  <2>8. ASSUME NEW i \in 1..n PROVE PeerAt(buf, 2 + (i - 1) * PeerSize) \in Peer \cup {Unwritten}
    <3> DEFINE o == 2 + (i - 1) * PeerSize
    <3>1. o \in Nat
      BY <1>1, <2>5, TimesNext
    <3>2. CASE o + PeerSize <= Len(buf)
      BY <3>1, <3>2, PeerAtTyped
    <3>3. CASE o + PeerSize > Len(buf)
      BY <3>3 DEF PeerAt
    <3> QED
      BY <1>1, <3>1, <3>2, <3>3
  <2>9. knear \in [1..n -> Peer \cup {Unwritten}]
    BY <2>8
  <2>10. knear \in Seq(Peer \cup {Unwritten}) /\ Len(knear) = n
    <3>1. n \in Nat
      BY <2>5
    <3> QED
      BY <2>9, <3>1, Bytes
  <2>11. /\ res.ret = IF n = buf[2] THEN end ELSE -1
         /\ res.knear = knear /\ res.end = end
    BY <2>7
  <2>12. \A i \in 1..n : knear[i] = PeerAt(buf, 2 + (i - 1) * PeerSize)
    OBVIOUS
  <2>13. end \in Nat /\ end <= capacity
    BY <1>1, <2>1, <2>6
  <2>14. n <= buf[2]
    BY <2>2, <2>4, Announced DEF n
  <2> HIDE DEF res, knear
  <2> QED
    BY <2>1, <2>5, <2>6, <2>10, <2>11, <2>12, <2>13, <2>14 DEF res
<1> QED
  BY <1>0, <1>2, <1>3

\* What the listener leaves in the buffer begins with the datagram.
LEMMA OverwrittenParts ==
  ASSUME NEW bytes \in Seq(Byte), NEW R \in Seq(Byte)
  PROVE  /\ Overwritten(bytes, R) \in Seq(Byte) /\ Len(R) <= Len(Overwritten(bytes, R))
         /\ \A i \in 1..Len(R) : Overwritten(bytes, R)[i] = R[i]
         /\ bytes = <<>> => Overwritten(bytes, R) = R
<1> DEFINE m    == Len(R)
           n    == Len(bytes)
           rest == SubSeq(bytes, m + 1, n)
<1>1. m \in Nat /\ n \in Nat
  OBVIOUS
<1>2. rest \in Seq(Byte)
  <2>1. \A i \in (m + 1)..n : bytes[i] \in Byte
    <3>1. ASSUME NEW i \in (m + 1)..n PROVE i \in 1..Len(bytes)
      BY <1>1
    <3> QED
      BY <3>1, ElementOfSeq
  <2> QED
    BY <1>1, <2>1, SubSeqProperties
<1>3. bytes = <<>> => rest = <<>>
  <2>1. SUFFICES ASSUME bytes = <<>> PROVE rest = <<>>
    OBVIOUS
  <2>2. n < m + 1
    BY <1>1, <2>1
  <2> QED
    BY <1>1, <2>2, SubSeqEmpty
<1>4. Overwritten(bytes, R) = R \o rest
  BY DEF Overwritten
<1> HIDE DEF rest
<1>5. /\ R \o rest \in Seq(Byte) /\ Len(R \o rest) = m + Len(rest) /\ Len(rest) \in Nat
      /\ \A i \in 1..(m + Len(rest)) : (R \o rest)[i] = IF i <= m THEN R[i] ELSE rest[i - m]
  BY <1>2, ConcatProperties
<1>6. \A i \in 1..m : (R \o rest)[i] = R[i]
  <2>1. \A i \in 1..m : i \in 1..(m + Len(rest)) /\ i <= m
    BY <1>1, <1>5
  <2> QED
    BY <1>5, <2>1
<1>7. bytes = <<>> => R \o rest = R
  BY <1>3, ConcatEmptySeq
<1>8. m <= Len(R \o rest)
  BY <1>1, <1>5
<1> QED
  BY <1>4, <1>5, <1>6, <1>7, <1>8

-----------------------------------------------------------------------------
(* The invariant *)

\* No peer fits in a request or a ping, whatever its bytes are, nor in nothing.
NoPeers(d) == d.peers = <<>> /\ Len(d.bytes) < 2 + PeerSize /\ Len(d.bytes) # 1

Answer(d) == d.bytes = ResponseBytes(d.peers) /\ Len(d.peers) <= 255

Honest(d) == Datagram(d) /\ (NoPeers(d) \/ Answer(d))

\* The buffer begins with the last datagram, and if it was the only one, is that.
Held ==
  LET R == Received(conn.last)
  IN /\ Len(R) <= Len(conn.bytes) /\ Len(R) <= conn.size
     /\ \A i \in 1..Len(R) : conn.bytes[i] = R[i]
     /\ conn.size >= 2 => Len(conn.bytes) >= 2
     /\ conn.arrived = 0 => conn.bytes = <<>> /\ conn.size = 0
     /\ conn.arrived <= 1 => conn.bytes = R /\ conn.size = Len(R)

\* An answer is whole because every datagram is honest, and the one that was
\* decoded was one of them, at the front of the buffer.
Inv == /\ TypeOK /\ AnswerWhole /\ NeverOverrun
       /\ \A d \in wire : Honest(d)
       /\ Honest(conn.last) /\ Held

LEMMA KnownSeq == ASSUME NEW s \in Seq(Known) PROVE s \in Seq(Peer)
  BY WireAssumption, SeqMonotonic

\* What is known of every datagram.
LEMMA HonestTypes ==
  ASSUME NEW d, Honest(d)
  PROVE  /\ d.bytes \in Seq(Byte) /\ d.peers \in Seq(Peer)
         /\ Len(d.peers) \in Nat /\ Len(d.peers) <= 255 /\ Len(d.bytes) \in Nat
<1>1. d.bytes \in Seq(Byte) /\ d.peers \in Seq(Peer)
  BY KnownSeq DEF Honest, Datagram
<1>2. Len(d.peers) \in Nat /\ Len(d.bytes) \in Nat
  BY <1>1
<1>3. CASE NoPeers(d)
  <2>1. Len(d.peers) = 0
    BY <1>3 DEF NoPeers
  <2> QED
    BY <1>1, <1>2, <2>1
<1>4. CASE Answer(d)
  BY <1>1, <1>2, <1>4 DEF Answer
<1> QED
  BY <1>3, <1>4 DEF Honest

\* What arrives has a byte behind its type.
LEMMA HonestReceived ==
  ASSUME NEW d, Honest(d), Received(d) # <<>>
  PROVE  Received(d) \in Seq(Byte) /\ Len(Received(d)) \in Nat /\ Len(Received(d)) >= 2
<1> DEFINE R == Received(d)
           b == Len(d.bytes)
<1>1. /\ R \in Seq(Byte) /\ Len(R) \in {b, RecvSize} /\ Len(R) <= b /\ b \in Nat
  BY HonestTypes, ReceivedPrefix
<1> HIDE DEF R
<1>2. Len(R) \in Nat /\ Len(R) # 0
  BY <1>1, EmptySeq DEF R
<1>3. b # 1
  <2>1. CASE NoPeers(d)
    BY <2>1 DEF NoPeers
  <2>2. CASE Answer(d)
    <3>1. b = 2 + Len(d.peers) * PeerSize
      BY <2>2, HonestTypes, ResponseParts DEF Answer
    <3>2. Len(d.peers) * PeerSize \in Nat
      BY HonestTypes, Sizes, TimesMonotone
    <3> HIDE DEF b
    <3> QED
      BY <3>1, <3>2
  <2> QED
    BY <2>1, <2>2 DEF Honest
<1> HIDE DEF b
<1>4. Len(R) >= 2
  <2>1. RecvSize \in Nat /\ RecvSize >= 2
    BY WireAssumption
  <2> QED
    BY <1>1, <1>2, <1>3, <2>1
<1> QED
  BY <1>1, <1>2, <1>4 DEF R

\* An answer in front of the buffer of which nothing is missing: what is accepted
\* has its peers.
LEMMA AnswerRead ==
  ASSUME NEW d, Honest(d), d.bytes = ResponseBytes(d.peers),
         NEW buf \in Seq(Byte), NEW capacity \in Nat, NEW junk \in Byte,
         capacity >= 2 => Len(buf) >= 2,
         Len(Received(d)) >= 2, Len(Received(d)) <= Len(buf),
         \A i \in 1..Len(Received(d)) : buf[i] = Received(d)[i],
         capacity = Len(Received(d)) \/ Received(d) = d.bytes
  PROVE  LET res == DeserializeResponse(buf, capacity, junk)
         IN /\ res.ret # -1 => res.knear = d.peers
            /\ res.end <= Len(Received(d))
<1> DEFINE R   == Received(d)
           res == DeserializeResponse(buf, capacity, junk)
           n   == Len(res.knear)
           N   == Len(d.peers)
<1>1. d.bytes \in Seq(Byte) /\ d.peers \in Seq(Peer) /\ N \in Nat /\ N <= 255
  BY HonestTypes
<1>2. /\ R \in Seq(Byte) /\ Len(R) <= Len(d.bytes) /\ Len(R) \in Nat
      /\ \A i \in 1..Len(R) : R[i] = d.bytes[i]
  BY <1>1, ReceivedPrefix, LenProperties
<1>3. /\ res.knear \in Seq(Peer \cup {Unwritten}) /\ n \in Nat
      /\ res.end \in Nat /\ res.end <= capacity
      /\ res.end <= 1 \/ (n <= buf[2] /\ res.end = 2 + n * PeerSize)
  BY Deserialized
<1>4. res.ret # -1 =>
        /\ n = buf[2] /\ 2 + n * PeerSize <= capacity
        /\ \A i \in 1..n : res.knear[i] = PeerAt(buf, 2 + (i - 1) * PeerSize)
  BY Deserialized
<1>5. /\ Len(d.bytes) = 2 + N * PeerSize
      /\ d.bytes[2] = N % 256
      /\ \A i \in 1..N, j \in 1..PeerSize :
           d.bytes[2 + (i - 1) * PeerSize + j] = PeerBytes(d.peers[i])[j]
  <2>1. /\ Len(ResponseBytes(d.peers)) = 2 + Len(d.peers) * PeerSize
        /\ ResponseBytes(d.peers)[2] = Len(d.peers) % 256
        /\ \A i \in 1..Len(d.peers), j \in 1..PeerSize :
             ResponseBytes(d.peers)[2 + (i - 1) * PeerSize + j] = PeerBytes(d.peers[i])[j]
    BY <1>1, ResponseParts, Zenon
  <2> QED
    BY <2>1, Zenon
<1>6. capacity = Len(R) \/ R = d.bytes
  OBVIOUS
<1>7. Len(R) >= 2 /\ Len(R) <= Len(buf) /\ Len(buf) \in Nat
  OBVIOUS
<1>8. \A i \in 1..Len(R) : buf[i] = R[i]
  OBVIOUS
<1> HIDE DEF R, res
<1>9. buf[2] = N
  <2>1. 2 \in 1..Len(R)
    BY <1>2, <1>7
  <2>2. buf[2] = N % 256
    BY <1>2, <1>5, <1>8, <2>1
  <2>3. N % 256 = N
    BY <1>1, Uncut
  <2> QED
    BY <2>2, <2>3
<1>10. res.end <= Len(R)
  <2>1. CASE capacity = Len(R)
    BY <1>3, <2>1
  <2>2. CASE R = d.bytes
    <3>1. CASE res.end <= 1
      BY <1>2, <1>3, <1>7, <3>1
    <3>2. CASE n <= buf[2] /\ res.end = 2 + n * PeerSize
      <4>1. n * PeerSize <= N * PeerSize /\ n * PeerSize \in Nat /\ N * PeerSize \in Nat
        <5>1. n \in Nat /\ N \in Nat /\ PeerSize \in Nat /\ n <= N
          BY <1>1, <1>3, <1>9, <3>2, Sizes
        <5> HIDE DEF n, N
        <5> QED
          BY <5>1, TimesMonotone
      <4>2. Len(R) = 2 + N * PeerSize
        BY <1>5, <2>2
      <4> HIDE DEF n, N
      <4> QED
        BY <3>2, <4>1, <4>2
    <3> QED
      BY <1>3, <3>1, <3>2
  <2> QED
    BY <1>6, <2>1, <2>2
<1>11. ASSUME res.ret # -1 PROVE res.knear = d.peers
  <2>1. n = N /\ \A i \in 1..n : res.knear[i] = PeerAt(buf, 2 + (i - 1) * PeerSize)
    BY <1>4, <1>9, <1>11
  <2>2. 2 + n * PeerSize <= Len(R)
    <3>1. CASE capacity = Len(R)
      BY <1>4, <1>11, <3>1
    <3>2. CASE R = d.bytes
      <4>1. 2 + N * PeerSize \in Nat
        BY <1>2, <1>5, <3>2
      <4>2. 2 + n * PeerSize = 2 + N * PeerSize
        BY <2>1
      <4>3. Len(R) = 2 + N * PeerSize
        BY <1>5, <3>2
      <4> QED
        BY <4>1, <4>2, <4>3
    <3> QED
      BY <1>6, <3>1, <3>2
  <2>3. ASSUME NEW i \in 1..n PROVE res.knear[i] = d.peers[i]
    <3> DEFINE o == 2 + (i - 1) * PeerSize
    <3>1. o \in Nat /\ o + PeerSize <= Len(R)
      <4>1. /\ (i - 1) * PeerSize \in Nat /\ (i - 1) * PeerSize + PeerSize = i * PeerSize
            /\ i * PeerSize <= n * PeerSize /\ i * PeerSize \in Nat /\ n * PeerSize \in Nat
        <5>1. i \in Nat \ {0} /\ i \in Nat /\ n \in Nat /\ i <= n /\ PeerSize \in Nat
          BY <1>3, Sizes
        <5> HIDE DEF n
        <5> QED
          BY <5>1, TimesNext, TimesMonotone
      <4>2. PeerSize \in Nat /\ 2 + n * PeerSize <= Len(R) /\ Len(R) \in Nat
        BY <1>2, <2>2, Sizes
      <4> DEFINE a == (i - 1) * PeerSize
                 b == i * PeerSize
                 c == n * PeerSize
      <4>3. /\ a \in Nat /\ a + PeerSize = b /\ b <= c /\ b \in Nat /\ c \in Nat
            /\ o = 2 + a /\ 2 + c <= Len(R)
        BY <4>1, <4>2
      <4> HIDE DEF a, b, c, o, n
      <4> QED
        BY <4>2, <4>3
    <3>2. res.knear[i] = PeerAt(buf, o)
      BY <2>1
    <3>3. d.peers[i] \in Peer
      BY <1>1, <2>1
    <3>4. \A j \in 1..PeerSize : d.bytes[o + j] = PeerBytes(d.peers[i])[j]
      BY <1>5, <2>1
    <3> HIDE DEF o
    <3>5. ASSUME NEW j \in 1..PeerSize PROVE buf[o + j] = PeerBytes(d.peers[i])[j]
      <4>1. o + j \in 1..Len(R)
        BY <1>2, <3>1, Sizes
      <4> QED
        BY <1>2, <1>8, <3>4, <4>1
    <3>6. o + PeerSize <= Len(buf)
      BY <1>2, <1>7, <3>1, Sizes
    <3>7. PeerAt(buf, o) = d.peers[i]
      BY <3>1, <3>3, <3>5, <3>6, PeerRead
    <3> QED
      BY <3>2, <3>7
  <2>4. d.peers \in Seq(Peer \cup {Unwritten})
    BY <1>1, SeqMonotonic
  <2>5. Len(res.knear) = Len(d.peers)
    BY <2>1
  <2> QED
    BY <1>3, <2>3, <2>4, <2>5, SeqEqual
<1> QED
  BY <1>10, <1>11 DEF R, res

\* A message without peers, alone in the buffer: no peer is read.
LEMMA NoPeersRead ==
  ASSUME NEW d, Honest(d), NoPeers(d), NEW junk \in Byte,
         LET R == Received(d) IN Len(R) >= 2 \/ R = <<>>
  PROVE  LET res == DeserializeResponse(Received(d), Len(Received(d)), junk)
         IN /\ res.ret # -1 => res.knear = d.peers
            /\ res.end <= Len(Received(d))
<1> DEFINE R   == Received(d)
           res == DeserializeResponse(R, Len(R), junk)
           n   == Len(res.knear)
<1>1. d.bytes \in Seq(Byte) /\ Len(d.bytes) \in Nat
  BY HonestTypes
<1>2. R \in Seq(Byte) /\ Len(R) <= Len(d.bytes) /\ Len(R) \in Nat
  BY <1>1, ReceivedPrefix, LenProperties
<1>3. /\ res.knear \in Seq(Peer \cup {Unwritten}) /\ n \in Nat /\ res.end <= Len(R)
      /\ res.ret # -1 => 2 + n * PeerSize <= Len(R)
  <2> HIDE DEF R
  <2> QED
    BY <1>2, Deserialized
<1> HIDE DEF R, res
<1>4. ASSUME res.ret # -1 PROVE res.knear = d.peers
  <2>1. n * PeerSize < PeerSize
    <3>1. Len(d.bytes) < 2 + PeerSize
      BY DEF NoPeers
    <3>2. n * PeerSize \in Nat
      BY <1>3, Sizes, TimesMonotone
    <3> QED
      BY <1>1, <1>2, <1>3, <1>4, <3>1, <3>2, Sizes
  <2>2. n = 0
    <3>1. SUFFICES ASSUME n >= 1 PROVE FALSE
      BY <1>3
    <3>2. 1 * PeerSize <= n * PeerSize
      <4>1. 1 \in Nat /\ n \in Nat /\ PeerSize \in Nat
        BY <1>3, Sizes
      <4> HIDE DEF n
      <4> QED
        BY <3>1, <4>1, TimesMonotone
    <3> QED
      BY <2>1, <3>2, Sizes
  <2>3. res.knear = <<>>
    BY <1>3, <2>2, EmptySeq
  <2> QED
    BY <2>3 DEF NoPeers
<1> QED
  BY <1>3, <1>4 DEF R, res

-----------------------------------------------------------------------------
(* The steps *)

\* One honest datagram more.
LEMMA InvSend ==
  ASSUME Inv, NEW bytes, NEW peers,
         Honest([bytes |-> bytes, peers |-> peers]), Send(bytes, peers)
  PROVE  Inv'
<1>1. /\ wire' = wire \cup {[bytes |-> bytes, peers |-> peers]}
      /\ conn' = conn /\ decoded' = decoded
  BY DEF Send
<1>2. \A d \in wire' : Honest(d)
  BY <1>1 DEF Inv
<1>3. \A d \in wire' : Datagram(d)
  BY <1>2 DEF Honest
<1>4. TypeOK'
  BY <1>1, <1>3 DEF Inv, TypeOK
<1>5. AnswerWhole' /\ NeverOverrun'
  BY <1>1 DEF Inv, AnswerWhole, NeverOverrun
<1>6. Honest(conn.last)' /\ Held'
  BY <1>1 DEF Inv, Held
<1> QED
  BY <1>2, <1>4, <1>5, <1>6 DEF Inv

\* Whatever unwritten bytes a request or a ping is made of, there are too few.
LEMMA GarbageHonest ==
  ASSUME NEW n \in Nat, n < 2 + PeerSize, n # 1, NEW bytes \in Garbage(n)
  PROVE  Honest([bytes |-> bytes, peers |-> <<>>])
<1>1. bytes \in [1..n -> Byte]
  BY WireAssumption DEF Garbage
<1>2. bytes \in Seq(Byte) /\ Len(bytes) = n
  BY <1>1, Bytes
<1>3. <<>> \in Seq(Known)
  OBVIOUS
<1> QED
  BY <1>2, <1>3 DEF Honest, Datagram, NoPeers

LEMMA InvSendRequest == ASSUME Inv, SendRequest PROVE Inv'
<1>1. PICK n \in {0, RequestSize} : \E bytes \in Garbage(n) : Send(bytes, <<>>)
  BY DEF SendRequest, Sent
<1>2. PICK bytes \in Garbage(n) : Send(bytes, <<>>)
  BY <1>1
<1>3. n \in Nat /\ n < 2 + PeerSize /\ n # 1
  BY Sizes
<1> QED
  BY <1>2, <1>3, GarbageHonest, InvSend

LEMMA InvSendPing == ASSUME Inv, SendPing PROVE Inv'
<1>1. PICK n \in {PingSize, 2 * PingSize} : \E bytes \in Garbage(n) : Send(bytes, <<>>)
  BY DEF SendPing, Sent
<1>2. PICK bytes \in Garbage(n) : Send(bytes, <<>>)
  BY <1>1
<1>3. n \in Nat /\ n < 2 + PeerSize /\ n # 1
  BY Sizes
<1> QED
  BY <1>2, <1>3, GarbageHonest, InvSend

\* The peers of an answer are known, and at most as many as a byte can ask for.
LEMMA InvOnFindNodeReqeust ==
  ASSUME Inv, NEW d \in wire, OnFindNodeReqeust(d)
  PROVE  Inv'
<1> DEFINE m == Min({Requested(d), Cardinality(Known)})
<1>1. PICK knear \in SeqOf(Known, m) :
        \E n \in Sent(0, Len(ResponseBytes(knear))) :
          Send(SubSeq(ResponseBytes(knear), 1, n), IF n = 0 THEN <<>> ELSE knear)
  BY DEF OnFindNodeReqeust
<1>2. PICK n \in {0, Len(ResponseBytes(knear))} :
        Send(SubSeq(ResponseBytes(knear), 1, n), IF n = 0 THEN <<>> ELSE knear)
  BY <1>1 DEF Sent
<1>3. Requested(d) \in Nat /\ Requested(d) <= 255
  <2>1. d.bytes \in Seq(Byte)
    BY DEF Inv, TypeOK, Datagram
  <2>2. Received(d) \in Seq(Byte)
    BY <2>1, ReceivedPrefix
  <2>3. Len(Received(d)) \in Nat /\ Len(Received(d)) >= RequestSize
    BY <2>2 DEF OnFindNodeReqeust, Capacity
  <2>4. 2 \in 1..Len(Received(d))
    BY <2>3, Sizes
  <2>5. Received(d)[2] \in Byte
    BY <2>2, <2>4, ElementOfSeq
  <2> QED
    BY <2>5, ByteRange DEF Requested
<1>4. Cardinality(Known) \in Nat
  BY WireAssumption, FS_CardinalityType
<1>5. m \in Nat /\ m <= 255
  <2>1. m = IF Requested(d) <= Cardinality(Known) THEN Requested(d) ELSE Cardinality(Known)
    <3>1. Requested(d) \in Int /\ Cardinality(Known) \in Int
      BY <1>3, <1>4
    <3> QED
      BY <3>1, MinOfTwo
  <2> HIDE DEF m
  <2> QED
    BY <1>3, <1>4, <2>1
<1> HIDE DEF m
<1>6. knear \in Seq(Known) /\ Len(knear) \in Nat /\ Len(knear) <= 255
  <2>1. PICK k \in 0..m : knear \in [1..k -> Known]
    BY <1>1 DEF SeqOf
  <2>2. k \in Nat /\ k <= 255
    BY <1>5, <2>1
  <2> QED
    BY <2>1, <2>2, Bytes
<1> DEFINE bytes == SubSeq(ResponseBytes(knear), 1, n)
           peers == IF n = 0 THEN <<>> ELSE knear
           new   == [bytes |-> bytes, peers |-> peers]
<1>7. ResponseBytes(knear) \in Seq(Byte) /\ Len(ResponseBytes(knear)) \in Nat
      /\ Len(ResponseBytes(knear)) # 0
  <2>1. knear \in Seq(Peer)
    BY <1>6, KnownSeq
  <2>2. /\ ResponseBytes(knear) \in Seq(Byte)
        /\ Len(ResponseBytes(knear)) = 2 + Len(knear) * PeerSize
    BY <2>1, ResponseParts
  <2>3. Len(knear) * PeerSize \in Nat
    BY <1>6, Sizes, TimesMonotone
  <2> QED
    BY <2>2, <2>3
<1>8. Honest(new)
  <2>1. CASE n = 0
    <3>1. bytes = <<>> /\ peers = <<>>
      BY <2>1, SubSeqEmpty
    <3>2. <<>> \in Seq(Byte) /\ <<>> \in Seq(Known) /\ Len(<<>>) = 0
      OBVIOUS
    <3>3. 0 < 2 + PeerSize
      BY Sizes
    <3>4. new.bytes = <<>> /\ new.peers = <<>>
      BY <3>1
    <3> HIDE DEF new
    <3> QED
      BY <3>2, <3>3, <3>4 DEF Honest, Datagram, NoPeers
  <2>2. CASE n # 0
    <3>1. n = Len(ResponseBytes(knear))
      BY <1>2, <2>2
    <3>2. bytes = ResponseBytes(knear) /\ peers = knear
      BY <1>7, <2>2, <3>1, SubSeqFull
    <3>3. new.bytes = ResponseBytes(knear) /\ new.peers = knear
      BY <3>2
    <3> HIDE DEF new
    <3> QED
      BY <1>6, <1>7, <3>3 DEF Honest, Datagram, Answer
  <2> QED
    BY <2>1, <2>2
<1>9. Send(bytes, peers)
  BY <1>2
<1> HIDE DEF bytes, peers
<1> QED
  BY <1>8, <1>9, InvSend

\* The datagram is in front, and its size is no more than the sum.
LEMMA InvArrive == ASSUME Inv, NEW d \in wire, Arrive(d) PROVE Inv'
<1> DEFINE R == Received(d)
           B == Overwritten(conn.bytes, R)
<1>1. /\ conn'.bytes = B /\ conn'.size = conn.size + Len(R)
      /\ conn'.arrived = conn.arrived + 1 /\ conn'.last = d
      /\ wire' = wire /\ decoded' = decoded /\ R # <<>>
  BY DEF Arrive
<1>2. Honest(d)
  BY DEF Inv
<1>3. R \in Seq(Byte) /\ Len(R) \in Nat /\ Len(R) >= 2
  BY <1>1, <1>2, HonestReceived
<1>4. conn.bytes \in Seq(Byte) /\ conn.size \in Nat /\ conn.arrived \in Nat
  BY DEF Inv, TypeOK
<1>5. conn.arrived = 0 => conn.bytes = <<>> /\ conn.size = 0
  BY DEF Inv, Held
<1>6. /\ B \in Seq(Byte) /\ Len(R) <= Len(B) /\ \A i \in 1..Len(R) : B[i] = R[i]
      /\ conn.bytes = <<>> => B = R
  <2> HIDE DEF R
  <2> QED
    BY <1>3, <1>4, OverwrittenParts
<1>7. Len(B) \in Nat
  BY <1>6
<1> HIDE DEF B
<1>8. TypeOK'
  <2>1. conn'.size \in Nat /\ conn'.arrived \in Nat
    BY <1>1, <1>3, <1>4
  <2>2. Datagram(conn'.last)
    BY <1>1, <1>2 DEF Honest
  <2> QED
    BY <1>1, <1>6, <2>1, <2>2 DEF Inv, TypeOK
<1>9. Held'
  <2>1. Received(conn'.last) = R
    BY <1>1
  <2> HIDE DEF R
  <2>2. Len(R) <= conn'.size /\ Len(B) >= 2
    BY <1>1, <1>3, <1>4, <1>6, <1>7
  <2>3. conn'.arrived # 0
    BY <1>1, <1>4
  <2>4. conn'.arrived <= 1 => B = R /\ conn'.size = Len(R)
    <3>1. SUFFICES ASSUME conn'.arrived <= 1 PROVE B = R /\ conn'.size = Len(R)
      OBVIOUS
    <3>2. conn.arrived = 0
      BY <1>1, <1>4, <3>1
    <3> QED
      BY <1>1, <1>3, <1>5, <1>6, <3>2
  <2> QED
    BY <1>1, <1>6, <2>1, <2>2, <2>3, <2>4 DEF Held
<1>10. AnswerWhole' /\ NeverOverrun'
  BY <1>1 DEF Inv, AnswerWhole, NeverOverrun
<1>11. (\A e \in wire : Honest(e))' /\ Honest(conn.last)'
  BY <1>1, <1>2 DEF Inv
<1> QED
  BY <1>8, <1>9, <1>10, <1>11 DEF Inv

\* Reading changes no datagram, and reads as AnswerRead and NoPeersRead say.
LEMMA InvDecode == ASSUME Inv, Decode PROVE Inv'
<1> DEFINE d == conn.last
           R == Received(d)
<1>1. PICK junk \in Junk :
        LET r == DeserializeResponse(conn.bytes, conn.size, junk)
        IN decoded' = [arrived |-> conn.arrived, last |-> conn.last,
                       ret |-> r.ret, knear |-> r.knear, end |-> r.end]
  BY DEF Decode
<1> DEFINE r == DeserializeResponse(conn.bytes, conn.size, junk)
<1>2. /\ decoded'.arrived = conn.arrived /\ decoded'.last = d /\ decoded'.ret = r.ret
      /\ decoded'.knear = r.knear /\ decoded'.end = r.end
      /\ wire' = wire /\ conn' = conn
  BY <1>1 DEF Decode
<1>3. junk \in Byte /\ Honest(d)
  BY WireAssumption DEF Inv
<1>4. conn.bytes \in Seq(Byte) /\ conn.size \in Nat /\ conn.arrived \in Nat
  BY DEF Inv, TypeOK
<1>5. /\ Len(R) <= Len(conn.bytes) /\ Len(R) <= conn.size
      /\ \A i \in 1..Len(R) : conn.bytes[i] = R[i]
      /\ conn.size >= 2 => Len(conn.bytes) >= 2
      /\ conn.arrived <= 1 => conn.bytes = R /\ conn.size = Len(R)
  BY DEF Inv, Held
<1>6. /\ r.knear \in Seq(Peer \cup {Unwritten}) /\ Len(r.knear) \in Nat /\ Len(r.knear) <= 255
      /\ r.end \in Nat
      /\ r.ret = -1 \/ r.ret = 2 + Len(r.knear) * PeerSize
  BY <1>3, <1>4, <1>5, Deserialized
<1>7. ASSUME Unmixed(d, conn.arrived)
      PROVE  (r.ret # -1 => r.knear = d.peers) /\ r.end <= Len(R)
  <2>1. Len(R) >= 2 \/ R = <<>>
    BY <1>3, HonestReceived
  <2>2. CASE d.bytes = ResponseBytes(d.peers)
    <3>1. R = d.bytes \/ conn.size = Len(R)
      BY <1>5, <1>7, <2>2 DEF Unmixed
    <3>2. Len(R) >= 2
      <4>1. R # <<>>
        <5>1. Len(d.bytes) = 2 + Len(d.peers) * PeerSize
          BY <1>3, <2>2, HonestTypes, ResponseParts
        <5>2. Len(d.peers) * PeerSize \in Nat
          BY <1>3, HonestTypes, Sizes, TimesMonotone
        <5>3. Len(d.bytes) # 0
          BY <5>1, <5>2
        <5>4. Len(R) \in {Len(d.bytes), RecvSize}
          BY <1>3, HonestTypes, ReceivedPrefix
        <5>5. Len(R) # 0
          BY <5>3, <5>4, WireAssumption
        <5> QED
          BY <5>5
      <4> QED
        BY <2>1, <4>1
    <3> HIDE DEF d
    <3> QED
      BY <1>3, <1>4, <1>5, <2>2, <3>1, <3>2, AnswerRead
  <2>3. CASE d.bytes # ResponseBytes(d.peers) /\ conn.arrived <= 1
    <3>1. NoPeers(d)
      BY <1>3, <2>3 DEF Honest, Answer
    <3>2. conn.bytes = R /\ conn.size = Len(R)
      BY <1>5, <2>3
    <3> HIDE DEF d
    <3> QED
      BY <1>3, <2>1, <3>1, <3>2, NoPeersRead
  <2>4. CASE d.bytes # ResponseBytes(d.peers) /\ R = ResponseBytes(d.peers)
    <3>1. Len(R) = RecvSize /\ R # d.bytes
      <4>1. /\ Len(R) \in {Len(d.bytes), RecvSize}
            /\ Len(d.bytes) <= RecvSize => R = d.bytes
            /\ Len(R) <= Len(d.bytes) /\ Len(R) <= RecvSize
        BY <1>3, HonestTypes, ReceivedPrefix
      <4>2. Len(d.bytes) \in Nat /\ RecvSize \in Nat
        BY <1>3, HonestTypes, WireAssumption
      <4> QED
        BY <2>4, <4>1, <4>2
    <3>2. NoPeers(d)
      BY <1>3, <2>4 DEF Honest, Answer
    <3> DEFINE e == [bytes |-> R, peers |-> d.peers]
    <3>3. Honest(e) /\ Received(e) = R
      <4>1. R \in Seq(Byte) /\ Len(R) = RecvSize
        BY <1>3, <3>1, HonestTypes, ReceivedPrefix
      <4>2. Datagram(e) /\ Answer(e)
        BY <1>3, <2>4, <4>1, HonestTypes DEF Honest, Datagram, Answer
      <4>3. Received(e) = e.bytes
        <5>1. e.bytes \in Seq(Byte) /\ Len(e.bytes) <= RecvSize
          BY <4>1, WireAssumption
        <5> HIDE DEF e
        <5> QED
          BY <5>1, ReceivedPrefix
      <4> QED
        BY <4>2, <4>3 DEF Honest
    <3>4. Len(R) >= 2
      BY <3>1, WireAssumption
    <3>5. e.peers = d.peers /\ e.bytes = R /\ e.bytes = ResponseBytes(e.peers)
      BY <2>4
    <3> HIDE DEF d, R, e
    <3> QED
      BY <1>3, <1>4, <1>5, <3>3, <3>4, <3>5, AnswerRead
  <2> QED
    BY <1>7, <2>2, <2>3, <2>4 DEF Unmixed
<1> HIDE DEF r
<1>8. r.ret \in {-1} \cup 2..(2 + 255 * PeerSize)
  <2>1. /\ Len(r.knear) * PeerSize <= 255 * PeerSize
        /\ Len(r.knear) * PeerSize \in Nat /\ 255 * PeerSize \in Nat
    <3>1. Len(r.knear) \in Nat /\ 255 \in Nat /\ Len(r.knear) <= 255 /\ PeerSize \in Nat
      BY <1>6, Sizes
    <3> QED
      BY <3>1, TimesMonotone
  <2> QED
    BY <1>6, <2>1
<1>9. TypeOK'
  <2>1. Datagram(d)
    BY <1>3 DEF Honest
  <2> QED
    BY <1>2, <1>4, <1>6, <1>8, <2>1 DEF Inv, TypeOK
<1>10. AnswerWhole'
  <2>1. SUFFICES ASSUME Unmixed(d, conn.arrived), r.ret >= 1 PROVE r.knear = d.peers
    BY <1>2 DEF AnswerWhole
  <2>2. r.ret # -1
    BY <2>1
  <2> QED
    BY <1>7, <2>1, <2>2
<1>11. NeverOverrun'
  BY <1>2, <1>7 DEF NeverOverrun
<1>12. (\A e \in wire : Honest(e))' /\ Honest(conn.last)' /\ Held'
  BY <1>2 DEF Inv, Held
<1> QED
  BY <1>9, <1>10, <1>11, <1>12 DEF Inv

\* A datagram of no bytes, and a connection no datagram came to.
LEMMA EmptyHonest == Honest(Empty) /\ Received(Empty) = <<>>
<1>1. Empty.bytes = <<>> /\ Empty.peers = <<>>
  BY DEF Empty
<1>2. <<>> \in Seq(Byte) /\ <<>> \in Seq(Known) /\ Len(<<>>) = 0
  OBVIOUS
<1>3. 0 < 2 + PeerSize
  BY Sizes
<1>4. Len(Empty.bytes) <= RecvSize
  BY <1>1, <1>2, WireAssumption
<1>5. Received(Empty) = Empty.bytes
  BY <1>1, <1>2, <1>4, ReceivedPrefix
<1> QED
  BY <1>1, <1>2, <1>3, <1>5 DEF Honest, Datagram, NoPeers

LEMMA FreshHeld ==
  ASSUME conn = Fresh
  PROVE  /\ Honest(conn.last) /\ Held
         /\ conn.bytes \in Seq(Byte) /\ conn.size \in Nat /\ conn.arrived \in Nat
<1>1. conn.bytes = <<>> /\ conn.size = 0 /\ conn.arrived = 0 /\ conn.last = Empty
  BY DEF Fresh
<1>2. Received(conn.last) = <<>> /\ Len(<<>>) = 0 /\ <<>> \in Seq(Byte)
  BY <1>1, EmptyHonest
<1>3. Held
  BY <1>1, <1>2 DEF Held
<1> QED
  BY <1>1, <1>2, <1>3, EmptyHonest

LEMMA InvClose == ASSUME Inv, Close PROVE Inv'
<1>1. conn' = Fresh /\ wire' = wire /\ decoded' = decoded
  BY DEF Close
<1>2. /\ Honest(conn.last)' /\ Held'
      /\ conn'.bytes \in Seq(Byte) /\ conn'.size \in Nat /\ conn'.arrived \in Nat
  <2>1. conn'.bytes = <<>> /\ conn'.size = 0 /\ conn'.arrived = 0 /\ conn'.last = Empty
    BY <1>1 DEF Fresh
  <2>2. Received(conn'.last) = <<>> /\ Len(<<>>) = 0 /\ <<>> \in Seq(Byte)
    BY <2>1, EmptyHonest
  <2>3. Held'
    BY <2>1, <2>2 DEF Held
  <2> QED
    BY <2>1, <2>2, <2>3, EmptyHonest
<1>3. TypeOK'
  BY <1>1, <1>2 DEF Inv, TypeOK, Honest
<1>4. AnswerWhole' /\ NeverOverrun' /\ (\A d \in wire : Honest(d))'
  BY <1>1 DEF Inv, AnswerWhole, NeverOverrun
<1> QED
  BY <1>2, <1>3, <1>4 DEF Inv

\* Nothing was sent and nothing read.
LEMMA InvInit == ASSUME Init PROVE Inv
<1>1. /\ wire = {} /\ conn = Fresh /\ decoded.arrived = 0 /\ decoded.last = Empty
      /\ decoded.ret = -1 /\ decoded.knear = <<>> /\ decoded.end = 0
  BY DEF Init
<1>2. /\ Honest(conn.last) /\ Held
      /\ conn.bytes \in Seq(Byte) /\ conn.size \in Nat /\ conn.arrived \in Nat
  BY <1>1, FreshHeld
<1>3. <<>> \in Seq(Peer \cup {Unwritten}) /\ Len(<<>>) = 0
  OBVIOUS
<1>4. TypeOK
  BY <1>1, <1>2, <1>3, EmptyHonest DEF TypeOK, Honest
<1>5. AnswerWhole
  BY <1>1 DEF AnswerWhole
<1>6. NeverOverrun
  BY <1>1, <1>3, EmptyHonest DEF NeverOverrun
<1> QED
  BY <1>1, <1>2, <1>4, <1>5, <1>6 DEF Inv

-----------------------------------------------------------------------------
(* The theorems *)

\* Every datagram ever sent is an answer, whole, or has no room for a peer, the
\* last one that came is in front of the buffer, and what was read of one is what
\* it is (UDPSocketWrapper.cpp:30-31, Message.cpp:33).
THEOREM WireInvariant == Spec => []Inv
<1>1. ASSUME Inv, UNCHANGED vars PROVE Inv'
  <2>1. wire' = wire /\ conn' = conn /\ decoded' = decoded
    BY <1>1 DEF vars
  <2> QED
    BY <1>1, <2>1 DEF Inv, TypeOK, AnswerWhole, NeverOverrun, Held
<1>2. ASSUME Inv, [Next]_vars PROVE Inv'
  <2>1. ASSUME NEW d \in wire, OnPing(d) PROVE Inv'
    BY <1>1, <1>2, <2>1 DEF OnPing
  <2> QED
    BY <1>1, <1>2, <2>1, InvSendRequest, InvSendPing, InvDecode, InvClose,
       InvOnFindNodeReqeust, InvArrive DEF Next
<1> QED
  BY <1>2, InvInit, PTL DEF Spec

\* The datagrams, the connection and the last answer have their types.
THEOREM WireTypeOK == Spec => []TypeOK
  BY WireInvariant, PTL DEF Inv

\* An accepted answer that came alone, or whole over the rest of others, has the
\* peers that were put in (Message.cpp:33, UDPSocketWrapper.cpp:30).
THEOREM WireAnswerWhole == Spec => []AnswerWhole
  BY WireInvariant, PTL DEF Inv

\* No byte behind such a datagram is read, though the size deserialize is given
\* may be greater (Message.cpp:38, UDPSocketWrapper.cpp:31).
THEOREM WireNeverOverrun == Spec => []NeverOverrun
  BY WireInvariant, PTL DEF Inv
=============================================================================
