------------------------------ MODULE IntakeProofs -----------------------------
(***************************************************************************)
(* Proofs about MessageIntake and its PacketDecoder, for all messages of   *)
(* any length and all lists of channel keys: nothing outside a packet is   *)
(* read, decoding inverts the wire format, and the channel keys decide     *)
(* who is checked in.                                                      *)
(***************************************************************************)
EXTENDS MessageIntake, SequenceTheorems, FiniteSetTheorems, WellFoundedInduction, TLAPS

HasCodes == packet.route \in {RouteTypeFlood, RouteTypeDirect}

\* The bytes before the path: header, codes and length.
HeadLength == IF HasCodes THEN 6 ELSE 2

HeaderRead == Len(raw) >= 2 /\ raw[1] = packet.route + 4 * packet.type

CodesRead ==
  /\ HasCodes => Len(raw) >= 5 /\ packet.codes = <<Code(1), Code(3)>>
  /\ ~HasCodes => packet.codes = <<>>

LengthRead ==
  HeadLength <= Len(raw) /\ raw[HeadLength] = packet.pathLen + 64 * (packet.bytesPerHop - 1)

PathRead ==
  /\ HeadLength + PathByteLength <= Len(raw)
  /\ packet.path = [i \in 1..packet.pathLen |->
                      [from |-> HeadLength + (i - 1) * packet.bytesPerHop,
                       to   |-> HeadLength + i * packet.bytesPerHop]]
  /\ packet.payload = [from |-> HeadLength + PathByteLength, to |-> Len(raw)]

\* What has been read, stage by stage.
DInv ==
  /\ DecoderTypeOK
  /\ offset <= Len(raw)
  /\ stage # "decoded" => packet.path = <<>> /\ packet.payload = [from |-> 0, to |-> 0]
  /\ stage = "header" => offset = 0 /\ packet.codes = <<>>
  /\ stage = "codes" => offset = 1 /\ HeaderRead /\ HasCodes
  /\ stage = "length" => offset = HeadLength - 1 /\ HeaderRead /\ CodesRead
  /\ stage = "path" => offset = HeadLength /\ HeaderRead /\ CodesRead /\ LengthRead
  /\ stage = "decoded" => HeaderRead /\ CodesRead /\ LengthRead /\ PathRead
  /\ stage = "malformed" => ~IsEncoding(raw)

--------------------------------------------------------------------------------
\* What the bits of a byte give.
LEMMA ByteParts ==
  ASSUME NEW b \in Byte
  PROVE  /\ b \in Nat
         /\ b % 64 \in 0..63 /\ b = (b % 64) + 64 * (b \div 64)
         /\ b \div 64 + 1 > 3 <=> b >= 192
         /\ b \div 64 + 1 \in 1..4
         /\ (b \div 4) % 16 \in 0..15 /\ b % 4 \in 0..3
         /\ b \div 64 = 0 <=> b < 64
         /\ b < 64 => b = (b % 4) + 4 * ((b \div 4) % 16)
<1>1. b \in Nat /\ b <= 255
  BY DEF Byte
<1>2. b % 64 \in 0..63 /\ b = (b % 64) + 64 * (b \div 64) /\ b \div 64 \in 0..3
  BY <1>1
<1>3. (b \div 4) % 16 \in 0..15 /\ b % 4 \in 0..3
  BY <1>1
<1>4. b < 64 => b = (b % 4) + 4 * ((b \div 4) % 16)
  <2> SUFFICES ASSUME b < 64 PROVE b = (b % 4) + 4 * ((b \div 4) % 16)
    OBVIOUS
  <2>1. b = (b % 4) + 4 * (b \div 4) /\ b \div 4 \in 0..15
    BY <1>1
  <2>2. (b \div 4) % 16 = b \div 4
    BY <2>1
  <2> QED
    BY <2>1, <2>2
<1>5. b \div 64 = 0 <=> b < 64
  BY <1>1
<1>6. b \div 64 + 1 > 3 <=> b >= 192
  BY <1>1
<1> QED
  BY <1>1, <1>2, <1>3, <1>4, <1>5, <1>6

\* A header byte ends with the route, ...
LEMMA HeaderRoute ==
  ASSUME NEW t \in 0..15, NEW r \in 0..3 PROVE (r + 4 * t) % 4 = r
  OBVIOUS

\* ... and a length byte is written in one way only.
LEMMA LengthByteUnique ==
  ASSUME NEW n \in 0..63, NEW h \in 0..63, NEW s \in 1..3, NEW t \in 1..3,
         n + 64 * (s - 1) = h + 64 * (t - 1)
  PROVE  n = h /\ s = t
  OBVIOUS

\* A decoder that begins.
LEMMA StartKeeps == ASSUME NEW bytes \in Seq(Byte), StartDecoding(bytes) PROVE DInv'
<1>1. NoFields \in Fields
  <2>1. <<>> \in Seq(TransportCode) /\ <<>> \in Seq(Slice)
    BY EmptySeq
  <2> QED
    BY <2>1 DEF NoFields, Fields, Slice
<1>2. Len(bytes) \in Nat
  BY LenProperties
<1> QED
  BY <1>1, <1>2 DEF StartDecoding, DInv, DecoderTypeOK, NoFields

LEMMA RawBytes ==
  ASSUME DInv
  PROVE  Len(raw) \in Nat /\ \A k \in 1..Len(raw) : raw[k] \in Byte
<1>1. raw \in Seq(Byte)
  BY DEF DInv, DecoderTypeOK
<1> QED
  BY <1>1, LenProperties, ElementOfSeq

\* The fields of a packet have their types.
LEMMA FieldTypes ==
  ASSUME DInv
  PROVE  /\ packet.type \in 0..15 /\ packet.route \in 0..3
         /\ packet.codes \in Seq(TransportCode) /\ packet.pathLen \in 0..63
         /\ packet.bytesPerHop \in 1..3 /\ packet.path \in Seq(Slice)
         /\ packet.payload \in Slice
         /\ HeadLength \in {2, 6}
<1>1. packet \in Fields
  BY DEF DInv, DecoderTypeOK
<1>2. HeadLength \in {2, 6}
  BY DEF HeadLength
<1> QED
  BY <1>1, <1>2 DEF Fields

\* Hops times bytes per hop, without a product of variables.
LEMMA HopProducts ==
  ASSUME NEW hops \in Nat, NEW size \in 1..3, NEW k \in 0..hops
  PROVE  /\ hops * size \in Nat /\ k * size \in Nat
         /\ k * size <= hops * size
         /\ k > 0 => (k - 1) * size \in Nat /\ (k - 1) * size <= k * size
<1>1. CASE size = 1
  BY <1>1
<1>2. CASE size = 2
  BY <1>2
<1>3. CASE size = 3
  BY <1>3
<1> QED
  BY <1>1, <1>2, <1>3

\* What an encoding must have.
LEMMA EncodingHas ==
  ASSUME DInv, IsEncoding(raw)
  PROVE  /\ Len(raw) >= 2 /\ raw[1] < 64
         /\ \E hops \in 0..63, size \in 1..3 :
              LET at == IF raw[1] % 4 \in {0, 3} THEN 6 ELSE 2
              IN  /\ Len(raw) >= at + hops * size /\ Len(raw) >= at
                  /\ raw[at] = hops + 64 * (size - 1)
<1>1. PICK route \in 0..3, hops \in 0..63, size \in 1..3 :
        LET at == IF route \in {0, 3} THEN 6 ELSE 2
        IN  /\ Len(raw) >= at + hops * size
            /\ raw[1] < 64 /\ raw[1] % 4 = route
            /\ raw[at] = hops + 64 * (size - 1)
  BY DEF IsEncoding, RouteTypeFlood, RouteTypeDirect
<1> DEFINE at == IF raw[1] % 4 \in {0, 3} THEN 6 ELSE 2
<1>2. hops * size \in Nat
  <2>1. hops \in Nat /\ hops \in 0..hops
    OBVIOUS
  <2> QED
    BY <2>1, HopProducts
<1>3. /\ Len(raw) >= at + hops * size /\ raw[at] = hops + 64 * (size - 1)
      /\ raw[1] < 64
  BY <1>1
<1>4. at \in {2, 6} /\ Len(raw) \in Nat
  BY RawBytes
<1>5. Len(raw) >= at /\ Len(raw) >= 2
  BY <1>2, <1>3, <1>4
<1> QED
  BY <1>3, <1>5

LEMMA HeaderKeeps == ASSUME DInv, ReadHeader PROVE DInv'
<1>1. Len(raw) \in Nat /\ (Len(raw) >= 2 => raw[1] \in Byte)
  BY RawBytes
<1>2. stage = "header" /\ offset = 0
  BY DEF ReadHeader, DInv
<1>3. CASE Malformed
  <2>1. Len(raw) < 2 \/ raw[1] \div 64 # 0
    BY <1>2, <1>3 DEF ReadHeader, Malformed, Advance, PayloadVersionV1
  <2>2. ~IsEncoding(raw)
    BY <1>1, <2>1, EncodingHas, ByteParts
  <2> QED
    BY <1>2, <1>3, <2>2 DEF Malformed, DInv, DecoderTypeOK, IsEncoding
<1>4. CASE ~Malformed
  <2> DEFINE b == raw[1]
  <2>1. /\ Len(raw) >= 2 /\ b \div 64 = 0
        /\ packet' = [packet EXCEPT !.type = (b \div 4) % 16, !.route = b % 4]
        /\ stage' = IF b % 4 \in {0, 3} THEN "codes" ELSE "length"
        /\ offset' = 1 /\ raw' = raw
    BY <1>2, <1>4 DEF ReadHeader, Advance, PayloadVersionV1, RouteTypeFlood, RouteTypeDirect
  <2>2. (b \div 4) % 16 \in 0..15 /\ b % 4 \in 0..3 /\ b = (b % 4) + 4 * ((b \div 4) % 16)
    BY <1>1, <2>1, ByteParts
  <2>3. packet \in Fields
    BY DEF DInv, DecoderTypeOK
  <2>4. /\ packet' \in Fields
        /\ packet'.type = (b \div 4) % 16 /\ packet'.route = b % 4
        /\ packet'.codes = packet.codes /\ packet'.path = packet.path
        /\ packet'.payload = packet.payload
    BY <2>1, <2>2, <2>3 DEF Fields
  <2>5. HeaderRead'
    BY <2>1, <2>2, <2>4 DEF HeaderRead
  <2>6. HasCodes' <=> b % 4 \in {0, 3}
    BY <2>4 DEF HasCodes, RouteTypeFlood, RouteTypeDirect
  <2>7. packet.codes = <<>> /\ packet.path = <<>> /\ packet.payload = [from |-> 0, to |-> 0]
    BY <1>2 DEF DInv
  <2> QED
    BY <1>1, <2>1, <2>4, <2>5, <2>6, <2>7
       DEF DInv, DecoderTypeOK, HeadLength, CodesRead
<1> QED
  BY <1>3, <1>4

LEMMA CodesKeep == ASSUME DInv, ReadTransportCodes PROVE DInv'
<1>1. Len(raw) \in Nat /\ \A k \in 1..Len(raw) : raw[k] \in Byte
  BY RawBytes
<1>2. stage = "codes" /\ offset = 1 /\ HeaderRead /\ HasCodes
  BY DEF ReadTransportCodes, DInv
<1>3. CASE Malformed
  <2>1. Len(raw) < 5
    BY <1>2, <1>3 DEF ReadTransportCodes, Malformed, Advance
  <2>2. raw[1] % 4 \in {0, 3}
    BY <1>2, FieldTypes, HeaderRoute DEF HeaderRead, HasCodes, RouteTypeFlood, RouteTypeDirect
  <2>3. ~IsEncoding(raw)
    BY <1>1, <2>1, <2>2, EncodingHas
  <2> QED
    BY <1>2, <1>3, <2>3 DEF Malformed, DInv, DecoderTypeOK, IsEncoding
<1>4. CASE ~Malformed
  <2>1. /\ Len(raw) >= 5
        /\ packet' = [packet EXCEPT !.codes = <<Code(1), Code(3)>>]
        /\ stage' = "length" /\ offset' = 5 /\ raw' = raw
    BY <1>2, <1>4 DEF ReadTransportCodes, Advance
  <2>2. Code(1) \in TransportCode /\ Code(3) \in TransportCode
    BY <1>1, <2>1 DEF Code, TransportCode
  <2>3. packet \in Fields
    BY DEF DInv, DecoderTypeOK
  <2>4. <<Code(1), Code(3)>> \in Seq(TransportCode)
    BY <2>2
  <2>5. /\ packet' \in Fields
        /\ packet'.codes = <<Code(1), Code(3)>>
        /\ packet'.type = packet.type /\ packet'.route = packet.route
        /\ packet'.path = packet.path /\ packet'.payload = packet.payload
    BY <2>1, <2>3, <2>4 DEF Fields
  <2>6. Code(1)' = Code(1) /\ Code(3)' = Code(3)
    BY <2>1 DEF Code
  <2>7. packet.path = <<>> /\ packet.payload = [from |-> 0, to |-> 0]
    BY <1>2 DEF DInv
  <2>8. HasCodes' /\ HeaderRead' /\ CodesRead'
    BY <1>2, <2>1, <2>5, <2>6 DEF HasCodes, HeaderRead, CodesRead
  <2> QED
    BY <1>1, <2>1, <2>5, <2>7, <2>8 DEF DInv, DecoderTypeOK, HeadLength
<1> QED
  BY <1>3, <1>4

LEMMA LengthKeeps == ASSUME DInv, ReadPathLength PROVE DInv'
<1>1. Len(raw) \in Nat /\ \A k \in 1..Len(raw) : raw[k] \in Byte
  BY RawBytes
<1>2. stage = "length" /\ offset = HeadLength - 1 /\ HeaderRead /\ CodesRead
  BY DEF ReadPathLength, DInv
<1>3. HeadLength \in {2, 6} /\ offset \in Nat /\ offset + 1 = HeadLength
  <2>1. HeadLength \in {2, 6}
    BY FieldTypes
  <2>2. offset \in Nat
    BY DEF DInv, DecoderTypeOK
  <2> QED
    BY <1>2, <2>1, <2>2
<1>4. CASE Malformed
  <2>1. Len(raw) < HeadLength \/ raw[HeadLength] >= 192
    <3>1. Len(raw) <= offset \/ raw[offset + 1] \div 64 + 1 > 3
      BY <1>2, <1>4 DEF ReadPathLength, Malformed, Advance, BytesPerHopOf
    <3>2. CASE Len(raw) <= offset
      BY <1>1, <1>3, <3>2
    <3>3. CASE Len(raw) > offset
      <4>1. HeadLength \in 1..Len(raw) /\ offset + 1 = HeadLength
        BY <1>1, <1>3, <3>3
      <4>2. raw[HeadLength] \in Byte /\ raw[HeadLength] \div 64 + 1 > 3
        BY <1>1, <1>2, <1>3, <3>1, <3>3, <4>1
      <4> QED
        BY <4>2, ByteParts
    <3> QED
      BY <1>1, <1>3, <3>2, <3>3
  <2>2. HeadLength = IF raw[1] % 4 \in {0, 3} THEN 6 ELSE 2
    BY <1>2, FieldTypes, HeaderRoute
       DEF HeaderRead, HeadLength, HasCodes, RouteTypeFlood, RouteTypeDirect
  <2>3. ~IsEncoding(raw)
    <3> SUFFICES ASSUME IsEncoding(raw) PROVE FALSE
      OBVIOUS
    <3>1. PICK h \in 0..63, s \in 1..3 :
            Len(raw) >= HeadLength /\ raw[HeadLength] = h + 64 * (s - 1)
      BY <2>2, EncodingHas
    <3> QED
      BY <1>1, <1>3, <2>1, <3>1
  <2> QED
    BY <1>2, <1>4, <2>3 DEF Malformed, DInv, DecoderTypeOK, IsEncoding
<1>5. CASE ~Malformed
  <2> DEFINE b == raw[HeadLength]
  <2>1. /\ Len(raw) >= HeadLength /\ b \div 64 + 1 <= 3
        /\ packet' = [packet EXCEPT !.pathLen = b % 64, !.bytesPerHop = b \div 64 + 1]
        /\ stage' = "path" /\ offset' = HeadLength /\ raw' = raw
    <3>1. /\ Len(raw) > offset /\ raw[offset + 1] \div 64 + 1 <= 3
          /\ packet' = [packet EXCEPT !.pathLen = raw[offset + 1] % 64,
                                      !.bytesPerHop = raw[offset + 1] \div 64 + 1]
          /\ stage' = "path" /\ offset' = offset + 1 /\ raw' = raw
      BY <1>2, <1>5 DEF ReadPathLength, Advance, BytesPerHopOf, PathLenOf
    <3>2. Len(raw) >= HeadLength
      BY <1>1, <1>3, <3>1
    <3> QED
      BY <1>3, <3>1, <3>2
  <2>2. /\ b % 64 \in 0..63 /\ b \div 64 + 1 \in 1..3
        /\ b = (b % 64) + 64 * ((b \div 64 + 1) - 1)
    <3>1. b \in Byte
      BY <1>1, <1>3, <2>1
    <3> QED
      BY <2>1, <3>1, ByteParts
  <2>3. packet \in Fields
    BY DEF DInv, DecoderTypeOK
  <2>4. /\ packet' \in Fields
        /\ packet'.pathLen = b % 64 /\ packet'.bytesPerHop = b \div 64 + 1
        /\ packet'.type = packet.type /\ packet'.route = packet.route
        /\ packet'.codes = packet.codes
        /\ packet'.path = packet.path /\ packet'.payload = packet.payload
    BY <2>1, <2>2, <2>3 DEF Fields
  <2>5. (HasCodes' <=> HasCodes) /\ HeadLength' = HeadLength
    BY <2>4 DEF HasCodes, HeadLength
  <2>6. HeaderRead' /\ CodesRead'
    BY <1>2, <2>1, <2>4, <2>5 DEF HeaderRead, CodesRead, Code
  <2>7. LengthRead'
    BY <2>1, <2>2, <2>4, <2>5 DEF LengthRead
  <2>8. packet.path = <<>> /\ packet.payload = [from |-> 0, to |-> 0]
    BY <1>2 DEF DInv
  <2> QED
    BY <1>1, <1>3, <2>1, <2>4, <2>5, <2>6, <2>7, <2>8 DEF DInv, DecoderTypeOK
<1> QED
  BY <1>4, <1>5

\* A function of 1..n is a sequence.
LEMMA SeqFunction ==
  ASSUME NEW S, NEW n \in Nat, NEW f \in [1..n -> S] PROVE f \in Seq(S)
  OBVIOUS

LEMMA PathKeeps == ASSUME DInv, ReadPath PROVE DInv'
<1> DEFINE n == packet.pathLen
           size == packet.bytesPerHop
           hops == [i \in 1..n |-> [from |-> HeadLength + (i - 1) * size,
                                    to   |-> HeadLength + i * size]]
           rest == [from |-> HeadLength + n * size, to |-> Len(raw)]
<1>1. Len(raw) \in Nat /\ \A k \in 1..Len(raw) : raw[k] \in Byte
  BY RawBytes
<1>2. stage = "path" /\ offset = HeadLength /\ HeaderRead /\ CodesRead /\ LengthRead
  BY DEF ReadPath, DInv
<1>3. HeadLength \in {2, 6} /\ n \in 0..63 /\ size \in 1..3 /\ n * size \in Nat
  <2>1. HeadLength \in {2, 6} /\ n \in 0..63 /\ size \in 1..3
    BY FieldTypes
  <2>2. n \in Nat /\ n \in 0..n
    BY <2>1
  <2> QED
    BY <2>1, <2>2, HopProducts
<1>4. CASE Malformed
  <2>1. Len(raw) < HeadLength + n * size
    BY <1>2, <1>4 DEF ReadPath, Malformed, Advance, PathByteLength
  <2>2. HeadLength = IF raw[1] % 4 \in {0, 3} THEN 6 ELSE 2
    BY <1>2, FieldTypes, HeaderRoute
       DEF HeaderRead, HeadLength, HasCodes, RouteTypeFlood, RouteTypeDirect
  <2>3. ~IsEncoding(raw)
    <3> SUFFICES ASSUME IsEncoding(raw) PROVE FALSE
      OBVIOUS
    <3>1. PICK h \in 0..63, s \in 1..3 :
            Len(raw) >= HeadLength + h * s /\ raw[HeadLength] = h + 64 * (s - 1)
      BY <2>2, EncodingHas
    <3>2. h + 64 * (s - 1) = n + 64 * (size - 1)
      BY <1>2, <3>1 DEF LengthRead
    <3>3. n = h /\ size = s
      <4> HIDE DEF n, size
      <4> QED
        BY <1>3, <3>2, LengthByteUnique
    <3> QED
      BY <2>1, <1>1, <1>3, <3>1, <3>3
  <2> QED
    BY <1>2, <1>4, <2>3 DEF Malformed, DInv, DecoderTypeOK, IsEncoding
<1>5. CASE ~Malformed
  <2>1. /\ Len(raw) >= HeadLength + n * size
        /\ packet' = [packet EXCEPT !.path = hops, !.payload = rest]
        /\ stage' = "decoded" /\ offset' = HeadLength + n * size /\ raw' = raw
    BY <1>2, <1>5 DEF ReadPath, Advance, PathByteLength, Hop
  <2>2. hops \in Seq(Slice) /\ rest \in Slice
    <3>1. ASSUME NEW i \in 1..n PROVE hops[i] \in Slice
      <4>1. i \in 0..n /\ n \in Nat
        BY <1>3
      <4>2. (i - 1) * size \in Nat /\ i * size \in Nat
        BY <1>3, <4>1, HopProducts
      <4> QED
        BY <1>3, <4>2 DEF Slice
    <3>2. hops \in [1..n -> Slice]
      BY <3>1
    <3>3. n \in Nat
      BY <1>3
    <3>4. hops \in Seq(Slice)
      <4> HIDE DEF hops, n
      <4> QED
        BY <3>2, <3>3, SeqFunction
    <3> QED
      BY <1>1, <1>3, <3>4 DEF Slice
  <2>3. packet \in Fields
    BY DEF DInv, DecoderTypeOK
  <2>4. /\ packet' \in Fields
        /\ packet'.path = hops /\ packet'.payload = rest
        /\ packet'.pathLen = n /\ packet'.bytesPerHop = size
        /\ packet'.type = packet.type /\ packet'.route = packet.route
        /\ packet'.codes = packet.codes
    BY <2>1, <2>2, <2>3 DEF Fields
  <2>5. (HasCodes' <=> HasCodes) /\ HeadLength' = HeadLength
    BY <2>4 DEF HasCodes, HeadLength
  <2>6. HeaderRead' /\ CodesRead'
    BY <1>2, <2>1, <2>4, <2>5 DEF HeaderRead, CodesRead, Code
  <2>7. LengthRead'
    BY <1>2, <2>1, <2>4, <2>5 DEF LengthRead
  <2>8. PathRead'
    BY <2>1, <2>4, <2>5 DEF PathRead, PathByteLength
  <2> QED
    BY <1>1, <1>3, <2>1, <2>4, <2>6, <2>7, <2>8 DEF DInv, DecoderTypeOK
<1> QED
  BY <1>4, <1>5

LEMMA StillKeeps == ASSUME DInv, UNCHANGED decoder PROVE DInv'
<1>1. UNCHANGED <<raw, stage, offset, packet>>
  BY DEF decoder
<1>2. /\ (HeaderRead' <=> HeaderRead) /\ (HasCodes' <=> HasCodes) /\ HeadLength' = HeadLength
      /\ (CodesRead' <=> CodesRead) /\ (LengthRead' <=> LengthRead) /\ (PathRead' <=> PathRead)
      /\ (IsEncoding(raw)' <=> IsEncoding(raw))
  BY <1>1 DEF HeaderRead, HasCodes, HeadLength, CodesRead, Code, LengthRead, PathRead,
              PathByteLength, IsEncoding
<1> QED
  BY <1>1, <1>2 DEF DInv, DecoderTypeOK

--------------------------------------------------------------------------------
\* Codes, split into their bytes again.
LEMMA CodeBytes ==
  ASSUME NEW lo \in Byte, NEW hi \in Byte
  PROVE  (lo + 256 * hi) % 256 = lo /\ (lo + 256 * hi) \div 256 = hi
  BY DEF Byte

\* A head: its first byte, bytes c, and its last, read one by one.
LEMMA HeadIsPrefix ==
  ASSUME NEW S, NEW s \in Seq(S), NEW c \in Seq(S), NEW a, NEW b,
         Len(s) >= Len(c) + 2, s[1] = a, s[Len(c) + 2] = b,
         \A i \in 1..Len(c) : c[i] = s[i + 1]
  PROVE  /\ Len(<<a>> \o c \o <<b>>) = Len(c) + 2
         /\ <<a>> \o c \o <<b>> = SubSeq(s, 1, Len(c) + 2)
<1> DEFINE n == Len(c)
           front == <<a>> \o c
           t == SubSeq(s, 1, n + 2)
<1>1. Len(s) \in Nat /\ n \in Nat
  BY LenProperties
<1>2. \A i \in 1..(n + 2) : s[i] \in S
  BY <1>1, ElementOfSeq
<1>3. a \in S /\ b \in S
  BY <1>1, <1>2
<1>4. /\ <<a>> \in Seq(S) /\ Len(<<a>>) = 1 /\ <<a>>[1] = a
      /\ <<b>> \in Seq(S) /\ Len(<<b>>) = 1 /\ <<b>>[1] = b
  BY <1>3
<1>5. /\ front \in Seq(S) /\ Len(front) = n + 1
      /\ \A i \in 1..(n + 1) : front[i] = s[i]
  <2>1. /\ front \in Seq(S) /\ Len(front) = 1 + n
        /\ \A i \in 1..(1 + n) : front[i] = IF i <= 1 THEN <<a>>[i] ELSE c[i - 1]
    BY <1>4, ConcatProperties
  <2> HIDE DEF front
  <2>2. ASSUME NEW i \in 1..(n + 1) PROVE front[i] = s[i]
    <3>1. CASE i = 1
      BY <1>1, <1>4, <2>1, <3>1
    <3>2. CASE i # 1
      <4>1. i - 1 \in 1..n /\ i = (i - 1) + 1 /\ i \in 1..(1 + n)
        BY <1>1, <3>2
      <4> QED
        BY <1>1, <2>1, <3>2, <4>1
    <3> QED
      BY <3>1, <3>2
  <2> QED
    BY <1>1, <2>1, <2>2
<1> HIDE DEF front
<1>6. /\ front \o <<b>> \in Seq(S) /\ Len(front \o <<b>>) = n + 2
      /\ \A i \in 1..(n + 2) : (front \o <<b>>)[i] = s[i]
  <2>1. /\ front \o <<b>> \in Seq(S) /\ Len(front \o <<b>>) = (n + 1) + 1
        /\ \A i \in 1..((n + 1) + 1) :
             (front \o <<b>>)[i] = IF i <= n + 1 THEN front[i] ELSE <<b>>[i - (n + 1)]
    BY <1>4, <1>5, ConcatProperties
  <2>2. ASSUME NEW i \in 1..(n + 2) PROVE (front \o <<b>>)[i] = s[i]
    <3>1. CASE i <= n + 1
      BY <1>1, <1>5, <2>1, <3>1
    <3>2. CASE i = n + 2
      BY <1>1, <1>4, <2>1, <3>2
    <3>3. i <= n + 1 \/ i = n + 2
      <4> HIDE DEF n
      <4> QED
        BY <1>1
    <3> QED
      BY <3>1, <3>2, <3>3
  <2> QED
    BY <1>1, <2>1, <2>2
<1>7. /\ t \in Seq(S) /\ Len(t) = n + 2
      /\ \A i \in 1..(n + 2) : t[i] = s[i]
  <2>1. 1 \in Int /\ n + 2 \in Int
    BY <1>1
  <2>2. /\ t \in Seq(S)
        /\ Len(t) = IF 1 <= n + 2 THEN (n + 2) - 1 + 1 ELSE 0
        /\ \A i \in 1..((n + 2) - 1 + 1) : t[i] = s[1 + i - 1]
    BY <1>2, <2>1, SubSeqProperties
  <2> HIDE DEF t
  <2> QED
    BY <1>1, <2>2
<1>8. front \o <<b>> = t
  <2> DEFINE u == front \o <<b>>
  <2>1. u \in Seq(S) /\ t \in Seq(S) /\ Len(u) = Len(t) /\ \A i \in 1..Len(u) : u[i] = t[i]
    BY <1>6, <1>7
  <2> HIDE DEF u, t
  <2>2. u = t
    BY <2>1, SeqEqual
  <2> QED
    BY <2>2 DEF u
<1> QED
  BY <1>6, <1>8 DEF front

\* The codes of a decoded packet are its bytes 2 to 5.
LEMMA CodesEncode ==
  ASSUME DInv, CodesRead, HasCodes
  PROVE  EncodedCodes(packet) = <<raw[2], raw[3], raw[4], raw[5]>>
<1>1. /\ packet.codes = <<Code(1), Code(3)>>
      /\ raw[2] \in Byte /\ raw[3] \in Byte /\ raw[4] \in Byte /\ raw[5] \in Byte
  BY RawBytes DEF CodesRead
<1>2. Code(1) = raw[2] + 256 * raw[3] /\ Code(3) = raw[4] + 256 * raw[5]
  BY DEF Code
<1>3. /\ Code(1) % 256 = raw[2] /\ Code(1) \div 256 = raw[3]
      /\ Code(3) % 256 = raw[4] /\ Code(3) \div 256 = raw[5]
  BY <1>1, <1>2, CodeBytes
<1> DEFINE byte(i) == IF i % 2 = 1 THEN packet.codes[(i + 1) \div 2] % 256
                                   ELSE packet.codes[i \div 2] \div 256
<1>4. EncodedCodes(packet) = [i \in 1..4 |-> byte(i)]
  BY <1>1 DEF EncodedCodes
<1>5. byte(1) = raw[2] /\ byte(2) = raw[3] /\ byte(3) = raw[4] /\ byte(4) = raw[5]
  <2>1. packet.codes[1] = Code(1) /\ packet.codes[2] = Code(3)
    BY <1>1
  <2> QED
    BY <1>3, <2>1
<1>6. [i \in 1..4 |-> byte(i)] = <<byte(1), byte(2), byte(3), byte(4)>>
  <2> HIDE DEF byte
  <2> QED
    OBVIOUS
<1> QED
  BY <1>4, <1>5, <1>6

\* What is decoded, encoded again.
LEMMA DecodedEncodes ==
  ASSUME DInv, stage = "decoded"
  PROVE  /\ Len(EncodedHead(packet)) = HeadLength
         /\ EncodedHead(packet) = SubSeq(raw, 1, Len(EncodedHead(packet)))
<1>1. HeaderRead /\ CodesRead /\ LengthRead /\ raw \in Seq(Byte)
  BY DEF DInv, DecoderTypeOK
<1>2. CASE HasCodes
  <2>1. HeadLength = 6 /\ Len(raw) >= 6
    BY <1>1, <1>2 DEF HeadLength, LengthRead
  <2>2. EncodedCodes(packet) = <<raw[2], raw[3], raw[4], raw[5]>>
    BY <1>1, <1>2, CodesEncode
  <2> DEFINE c == EncodedCodes(packet)
  <2>3. \A i \in 1..6 : raw[i] \in Byte
    BY <2>1, RawBytes
  <2>4. c \in Seq(Byte) /\ Len(c) = 4
    BY <2>2, <2>3
  <2>5. \A i \in 1..4 : c[i] = raw[i + 1]
    BY <2>2
  <2>6. raw[1] = packet.route + 4 * packet.type
    BY <1>1 DEF HeaderRead
  <2>7. raw[6] = packet.pathLen + 64 * (packet.bytesPerHop - 1)
    BY <1>1, <2>1 DEF LengthRead
  <2> HIDE DEF c
  <2>8. EncodedHead(packet) = <<raw[1]>> \o c \o <<raw[6]>>
    BY <2>6, <2>7 DEF EncodedHead, c
  <2>9. /\ c \in Seq(Byte) /\ Len(c) + 2 = 6 /\ Len(raw) >= Len(c) + 2
        /\ raw[Len(c) + 2] = raw[6] /\ \A i \in 1..Len(c) : c[i] = raw[i + 1]
    BY <2>1, <2>4, <2>5
  <2>10. /\ Len(<<raw[1]>> \o c \o <<raw[6]>>) = Len(c) + 2
         /\ <<raw[1]>> \o c \o <<raw[6]>> = SubSeq(raw, 1, Len(c) + 2)
    BY <1>1, <2>9, HeadIsPrefix
  <2> QED
    BY <2>1, <2>8, <2>9, <2>10
<1>3. CASE ~HasCodes
  <2>1. HeadLength = 2 /\ Len(raw) >= 2 /\ packet.codes = <<>>
    BY <1>1, <1>3 DEF HeadLength, LengthRead, CodesRead
  <2>2. EncodedCodes(packet) = <<>>
    BY <2>1 DEF EncodedCodes
  <2> DEFINE c == EncodedCodes(packet)
  <2>3. c \in Seq(Byte) /\ Len(c) = 0
    BY <2>2
  <2>4. raw[1] = packet.route + 4 * packet.type
    BY <1>1 DEF HeaderRead
  <2>5. raw[2] = packet.pathLen + 64 * (packet.bytesPerHop - 1)
    BY <1>1, <2>1 DEF LengthRead
  <2> HIDE DEF c
  <2>6. EncodedHead(packet) = <<raw[1]>> \o c \o <<raw[2]>>
    BY <2>4, <2>5 DEF EncodedHead, c
  <2> QED
    BY <1>1, <2>1, <2>3, <2>6, HeadIsPrefix
<1> QED
  BY <1>2, <1>3

LEMMA LenFunction ==
  ASSUME NEW n \in Nat, NEW f, DOMAIN f = 1..n, NEW S, f \in Seq(S) PROVE Len(f) = n
<1>1. Len(f) \in Nat /\ DOMAIN f = 1..Len(f)
  BY LenProperties
<1> QED
  BY <1>1

LEMMA PathLength ==
  ASSUME DInv, stage = "decoded" PROVE Len(packet.path) = packet.pathLen
<1>1. DOMAIN packet.path = 1..packet.pathLen
  BY DEF DInv, PathRead
<1>2. packet.path \in Seq(Slice)
  BY FieldTypes
<1>3. packet.pathLen \in Nat
  <2>1. packet.pathLen \in 0..63
    BY FieldTypes
  <2> QED
    BY <2>1
<1> QED
  BY <1>1, <1>2, <1>3, LenFunction

LEMMA Inverts == ASSUME DInv PROVE DecodeInvertsEncode
<1>1. ASSUME stage = "decoded"
      PROVE  /\ EncodedHead(packet) = SubSeq(raw, 1, Len(EncodedHead(packet)))
             /\ AdjoiningSlices(packet)
             /\ packet.codes # <<>> <=> HasCodes
  <2>1. PathRead /\ CodesRead
    BY <1>1 DEF DInv
  <2>2. Len(packet.path) = packet.pathLen
    BY <1>1, PathLength
  <2>3. AdjoiningSlices(packet)
    BY <1>1, <2>1, <2>2, DecodedEncodes DEF AdjoiningSlices, PathRead, PathByteLength
  <2>4. packet.codes # <<>> <=> HasCodes
    BY <2>1 DEF CodesRead
  <2> QED
    BY <1>1, <2>3, <2>4, DecodedEncodes
<1>2. stage = "malformed" => ~IsEncoding(raw)
  BY DEF DInv
<1> QED
  BY <1>1, <1>2 DEF DecodeInvertsEncode, HasCodes

LEMMA InBounds == ASSUME DInv PROVE ReadsInBounds
<1>1. Len(raw) \in Nat /\ offset <= Len(raw)
  BY RawBytes DEF DInv
<1>2. CASE stage # "decoded"
  <2>1. packet.path = <<>> /\ packet.payload = [from |-> 0, to |-> 0]
    BY <1>2 DEF DInv
  <2> QED
    BY <1>1, <2>1 DEF ReadsInBounds
<1>3. CASE stage = "decoded"
  <2> DEFINE n == packet.pathLen
             size == packet.bytesPerHop
  <2>1. PathRead
    BY <1>3 DEF DInv
  <2>2. n \in Nat /\ size \in 1..3 /\ HeadLength \in Nat
    <3>1. n \in 0..63 /\ size \in 1..3 /\ HeadLength \in {2, 6}
      BY FieldTypes
    <3> QED
      BY <3>1
  <2>3. n * size \in Nat /\ HeadLength + n * size <= Len(raw)
    BY <2>1, <2>2, HopProducts DEF PathRead, PathByteLength
  <2>4. ASSUME NEW i \in 1..n
        PROVE  /\ HeadLength + (i - 1) * size <= HeadLength + i * size
               /\ HeadLength + i * size <= Len(raw)
    <3>1. i \in 0..n /\ i > 0
      BY <2>2
    <3>2. /\ i * size \in Nat /\ i * size <= n * size
          /\ (i - 1) * size \in Nat /\ (i - 1) * size <= i * size
      BY <2>2, <3>1, HopProducts
    <3> QED
      BY <1>1, <2>2, <2>3, <3>2
  <2>5. Len(packet.path) = n
    BY <1>3, PathLength
  <2>6. \A i \in 1..n : /\ packet.path[i].from <= packet.path[i].to
                        /\ packet.path[i].to <= Len(raw)
    BY <2>1, <2>4 DEF PathRead
  <2>7. packet.payload.from <= packet.payload.to /\ packet.payload.to <= Len(raw)
    BY <1>1, <2>1, <2>3 DEF PathRead, PathByteLength
  <2> QED
    BY <1>1, <2>5, <2>6, <2>7 DEF ReadsInBounds
<1> QED
  BY <1>2, <1>3

--------------------------------------------------------------------------------
(***************************************************************************)
(* The extraction.  A key that was tried does not open the payload, so the *)
(* readings of the plain payload are reached only if no key does.          *)
(***************************************************************************)
KeyInv ==
  /\ channelKeys \in Seq(Keys)
  /\ untried \in Seq(Keys)
  /\ step # "idle" => message \in Messages
  /\ step = "keys" =>
       /\ MayBeSealed
       /\ ToSet(untried) \subseteq ToSet(channelKeys)
       /\ \A k \in ToSet(channelKeys) : Opens(k) => k \in ToSet(untried)
  /\ step \in {"json", "text"} => Openers = {}
  /\ step = "text" => ~IsCheckin(message.content.json)

\* The payload and its keys stay as they are.
LEMMA SamePayload ==
  ASSUME UNCHANGED <<settings, message, decoder>>
  PROVE  /\ (MayBeSealed' <=> MayBeSealed) /\ Openers' = Openers
         /\ \A k : Opens(k)' <=> Opens(k)
         /\ Readings' = Readings
<1>1. UNCHANGED <<channelKeys, hashtag, message, raw, packet>>
  BY DEF settings, decoder
<1>2. MayBeSealed' <=> MayBeSealed
  BY <1>1 DEF MayBeSealed, PayloadLength
<1>3. \A k : Opens(k)' <=> Opens(k)
  BY <1>1 DEF Opens, HasHashOf
<1>4. Openers' = Openers
  BY <1>1, <1>2, <1>3 DEF Openers
<1>5. \A text : IsCheckin(text)' <=> IsCheckin(text)
  BY <1>1 DEF IsCheckin
<1>6. Readings' = Readings
  BY <1>1, <1>4, <1>5 DEF Readings
<1> QED
  BY <1>2, <1>3, <1>4, <1>6

\* A step outside the extraction.
LEMMA OutsideKeeps ==
  ASSUME KeyInv, UNCHANGED settings, untried' \in Seq(Keys),
         step' \in {"idle", "topic", "envelope", "packet", "dropped"},
         step' # "idle" => message' \in Messages
  PROVE  KeyInv' /\ ChannelKeyDecides'
  BY DEF KeyInv, ChannelKeyDecides, settings

\* A conclusion that the readings agree with.
LEMMA ConcludeKeeps ==
  ASSUME KeyInv, step # "idle", NEW text, Conclude(text),
         IsCheckin(text) => text \in Readings,
         ~IsCheckin(text) => \A t \in Readings : ~IsCheckin(t)
  PROVE  KeyInv' /\ ChannelKeyDecides'
<1>1. UNCHANGED <<settings, message, untried, decoder>>
  BY DEF Conclude
<1>2. Readings' = Readings /\ \A t : IsCheckin(t)' <=> IsCheckin(t)
  BY <1>1, SamePayload DEF settings, IsCheckin
<1>3. CASE IsCheckin(text)
  <2>1. step' = "checkin" /\ candidate' = [user |-> NormalizeUsername[text.sender]]
    BY <1>3 DEF Conclude
  <2>2. candidate'.user = NormalizeUsername[text.sender]
    BY <2>1
  <2> QED
    BY <1>1, <1>2, <1>3, <2>1, <2>2 DEF KeyInv, ChannelKeyDecides, settings
<1>4. CASE ~IsCheckin(text)
  <2>1. step' = "noCheckin"
    BY <1>4 DEF Conclude
  <2> QED
    BY <1>1, <1>2, <1>4, <2>1 DEF KeyInv, ChannelKeyDecides, settings
<1> QED
  BY <1>3, <1>4

LEMMA ExtractKeeps == ASSUME KeyInv, Extract PROVE KeyInv' /\ ChannelKeyDecides'
<1>1. UNCHANGED <<settings, message, decoder>> /\ channelKeys' = channelKeys
  BY DEF Extract, settings
<1>2. <<>> \in Seq(Keys) /\ step # "idle"
  BY EmptySeq DEF Extract
<1>3. CASE MayBeSealed
  <2>1. step' = "keys" /\ untried' = channelKeys
    BY <1>3 DEF Extract
  <2> QED
    BY <1>1, <1>2, <1>3, <2>1, SamePayload DEF KeyInv, ChannelKeyDecides
<1>4. CASE ~MayBeSealed
  <2>1. step' = "json" /\ untried' = <<>>
    BY <1>4 DEF Extract
  <2>2. Openers = {}
    BY <1>4 DEF Openers
  <2> QED
    BY <1>1, <1>2, <2>1, <2>2, SamePayload DEF KeyInv, ChannelKeyDecides
<1> QED
  BY <1>3, <1>4

\* The keys of a list are its first key and those of the rest.
LEMMA HeadAndRest ==
  ASSUME NEW S, NEW s \in Seq(S), s # <<>>
  PROVE  /\ Tail(s) \in Seq(S) /\ Head(s) \in ToSet(s)
         /\ ToSet(Tail(s)) \subseteq ToSet(s)
         /\ \A k \in ToSet(s) : k = Head(s) \/ k \in ToSet(Tail(s))
<1>1. /\ Len(s) \in Nat /\ Len(s) > 0 /\ DOMAIN s = 1..Len(s)
      /\ Tail(s) \in Seq(S) /\ Len(Tail(s)) = Len(s) - 1
      /\ DOMAIN Tail(s) = 1..Len(Tail(s))
      /\ \A i \in 1..Len(Tail(s)) : Tail(s)[i] = s[i + 1]
  BY EmptySeq, LenProperties, HeadTailProperties
<1>2. Head(s) = s[1]
  BY <1>1
<1>3. Head(s) \in ToSet(s)
  BY <1>1, <1>2 DEF ToSet
<1>4. ASSUME NEW k \in ToSet(Tail(s)) PROVE k \in ToSet(s)
  <2>1. PICK i \in 1..(Len(s) - 1) : k = s[i + 1]
    BY <1>1 DEF ToSet
  <2>2. i + 1 \in 1..Len(s)
    BY <1>1
  <2> QED
    BY <1>1, <2>1, <2>2 DEF ToSet
<1>5. ASSUME NEW k \in ToSet(s), k # Head(s) PROVE k \in ToSet(Tail(s))
  <2>1. PICK i \in 1..Len(s) : k = s[i]
    BY <1>1 DEF ToSet
  <2>2. i # 1
    BY <1>2, <1>5, <2>1
  <2>3. i - 1 \in 1..Len(Tail(s)) /\ (i - 1) + 1 = i
    BY <1>1, <2>2
  <2>4. k = Tail(s)[i - 1]
    BY <1>1, <2>1, <2>3
  <2> QED
    BY <1>1, <2>3, <2>4 DEF ToSet
<1> QED
  BY <1>1, <1>3, <1>4, <1>5

LEMMA TryKeyKeeps == ASSUME KeyInv, TryKey PROVE KeyInv' /\ ChannelKeyDecides'
<1> DEFINE key == Head(untried)
           opened == message.content.opened
<1>1. /\ step = "keys" /\ untried # <<>> /\ untried \in Seq(Keys) /\ message \in Messages
      /\ MayBeSealed /\ ToSet(untried) \subseteq ToSet(channelKeys)
      /\ \A k \in ToSet(channelKeys) : Opens(k) => k \in ToSet(untried)
  BY DEF TryKey, KeyInv
<1>2. /\ Tail(untried) \in Seq(Keys) /\ key \in ToSet(untried)
      /\ ToSet(Tail(untried)) \subseteq ToSet(untried)
      /\ \A k \in ToSet(untried) : k = key \/ k \in ToSet(Tail(untried))
  BY <1>1, HeadAndRest
<1> HIDE DEF key
<1>3. CASE Opens(key)
  <2>1. Conclude(opened[key])
    BY <1>3 DEF TryKey, key
  <2>2. key \in Openers
    BY <1>1, <1>2, <1>3 DEF Openers
  <2>3. ASSUME NEW k \in Openers PROVE k = key
    <3>1. Opens(k) /\ Opens(key)
      BY <1>3, <2>3 DEF Openers
    <3> QED
      BY <1>1, <3>1, SealedOnce DEF Opens
  <2>4. Readings = {opened[k] : k \in Openers}
    BY <2>2 DEF Readings
  <2>5. opened[key] \in Readings /\ \A t \in Readings : t = opened[key]
    BY <2>2, <2>3, <2>4
  <2> HIDE DEF opened
  <2> QED
    BY <1>1, <2>1, <2>5, ConcludeKeeps
<1>4. CASE ~Opens(key)
  <2>1. untried' = Tail(untried) /\ UNCHANGED <<settings, step, message, decoder>>
    BY <1>4 DEF TryKey, key
  <2>2. channelKeys' = channelKeys
    BY <2>1 DEF settings
  <2>3. (MayBeSealed' <=> MayBeSealed) /\ \A k : Opens(k)' <=> Opens(k)
    BY <2>1, SamePayload
  <2>4. \A k \in ToSet(channelKeys) : Opens(k) => k \in ToSet(Tail(untried))
    BY <1>1, <1>2, <1>4
  <2> QED
    BY <1>1, <1>2, <2>1, <2>2, <2>3, <2>4 DEF KeyInv, ChannelKeyDecides
<1> QED
  BY <1>3, <1>4

LEMMA NoKeyKeeps == ASSUME KeyInv, NoKeyOpens PROVE KeyInv' /\ ChannelKeyDecides'
<1>1. /\ step = "keys" /\ untried = <<>> /\ step' = "json"
      /\ UNCHANGED <<settings, message, untried, decoder>> /\ channelKeys' = channelKeys
  BY DEF NoKeyOpens, settings
<1>2. ToSet(untried) = {}
  BY <1>1 DEF ToSet
<1>3. Openers = {}
  BY <1>1, <1>2 DEF KeyInv, Openers
<1> QED
  BY <1>1, <1>3, SamePayload DEF KeyInv, ChannelKeyDecides

LEMMA JSONKeeps == ASSUME KeyInv, ReadJSON PROVE KeyInv' /\ ChannelKeyDecides'
<1>1. step = "json" /\ Openers = {}
  BY DEF ReadJSON, KeyInv
<1>2. CASE IsCheckin(message.content.json)
  <2>1. Conclude(message.content.json)
    BY <1>2 DEF ReadJSON
  <2>2. message.content.json \in Readings
    BY <1>1, <1>2 DEF Readings
  <2> QED
    BY <1>1, <1>2, <2>1, <2>2, ConcludeKeeps
<1>3. CASE ~IsCheckin(message.content.json)
  <2>1. step' = "text" /\ UNCHANGED <<settings, message, untried, decoder>>
    BY <1>3 DEF ReadJSON
  <2>2. channelKeys' = channelKeys /\ hashtag' = hashtag
    BY <2>1 DEF settings
  <2> QED
    BY <1>1, <1>3, <2>1, <2>2, SamePayload DEF KeyInv, ChannelKeyDecides, IsCheckin
<1> QED
  BY <1>2, <1>3

LEMMA TextKeeps == ASSUME KeyInv, ReadText PROVE KeyInv' /\ ChannelKeyDecides'
<1>1. step = "text" /\ Openers = {} /\ ~IsCheckin(message.content.json)
  BY DEF ReadText, KeyInv
<1>2. Conclude(message.content.text)
  BY DEF ReadText
<1>3. Readings = {message.content.text}
  BY <1>1 DEF Readings
<1> QED
  BY <1>1, <1>2, <1>3, ConcludeKeeps

--------------------------------------------------------------------------------
\* The messages have bytes.
LEMMA MessageBytes == ASSUME NEW m \in Messages PROVE m.raw \in Seq(Byte)
<1>1. m \in Message
  BY IntakeAssumption
<1> QED
  BY <1>1 DEF Message

LEMMA DecodeKeeps == ASSUME DInv, DecodeStep PROVE DInv'
  BY HeaderKeeps, CodesKeep, LengthKeeps, PathKeeps DEF DecodeStep

\* A message is handled for the bytes it has.
Handled == step # "idle" => message \in Messages

LEMMA DecoderBegins == ASSUME Init PROVE DInv /\ Handled
<1>1. <<>> \in Seq(Byte) /\ Len(<<>>) = 0
  BY EmptySeq
<1>2. NoFields \in Fields
  <2>1. <<>> \in Seq(TransportCode) /\ <<>> \in Seq(Slice)
    BY EmptySeq
  <2> QED
    BY <2>1 DEF NoFields, Fields, Slice
<1> QED
  BY <1>1, <1>2 DEF Init, DecoderInit, DInv, DecoderTypeOK, NoFields, Handled

LEMMA DecoderStep == ASSUME DInv, Handled, [Next]_vars PROVE DInv' /\ Handled'
<1>1. ASSUME NEW m \in Messages, Receive(m) PROVE DInv' /\ Handled'
  <2>1. UNCHANGED decoder /\ message' = m
    BY <1>1 DEF Receive
  <2> QED
    BY <2>1, StillKeeps DEF Handled
<1>2. CASE ReadEnvelope
  <2>1. step = "envelope" /\ message \in Messages
    BY <1>2 DEF ReadEnvelope, Handled
  <2>2. CASE Drop
    <3>1. UNCHANGED decoder /\ message' = message
      BY <2>2 DEF Drop
    <3> QED
      BY <2>1, <3>1, StillKeeps DEF Handled
  <2>3. CASE ~Drop
    <3>1. StartDecoding(message.raw) /\ message' = message
      BY <1>2, <2>3 DEF ReadEnvelope
    <3> QED
      BY <2>1, <3>1, MessageBytes, StartKeeps DEF Handled
  <2> QED
    BY <2>2, <2>3
<1>3. CASE Decode
  <2>1. DecodeStep /\ message' = message /\ step' = step
    BY <1>3 DEF Decode, intake
  <2> QED
    BY <2>1, DecodeKeeps DEF Handled
<1>4. CASE Return
  <2>1. StartDecoding(<<>>) /\ step' = "idle" /\ <<>> \in Seq(Byte)
    BY <1>4, EmptySeq DEF Return
  <2> QED
    BY <2>1, StartKeeps DEF Handled
<1>5. CASE \/ ReadTopic \/ DropMalformed \/ DropStored \/ Extract
           \/ TryKey \/ NoKeyOpens \/ ReadJSON \/ ReadText
  <2>1. UNCHANGED decoder /\ message' = message /\ step # "idle"
    BY <1>5 DEF ReadTopic, DropMalformed, DropStored, Drop, Extract, TryKey,
                NoKeyOpens, ReadJSON, ReadText, Conclude
  <2> QED
    BY <2>1, StillKeeps DEF Handled
<1>6. CASE UNCHANGED vars
  <2>1. UNCHANGED <<decoder, message, step>>
    BY <1>6 DEF vars, intake
  <2> QED
    BY <2>1, StillKeeps DEF Handled
<1> QED
  BY <1>1, <1>2, <1>3, <1>4, <1>5, <1>6 DEF Next

LEMMA DecoderHolds == Spec => [](DInv /\ Handled)
<1>1. Init => DInv /\ Handled
  BY DecoderBegins
<1>2. (DInv /\ Handled) /\ [Next]_vars => (DInv /\ Handled)'
  BY DecoderStep
<1> QED
  BY <1>1, <1>2, PTL DEF Spec

(***************************************************************************)
(* Whatever bytes a packet has, DecodePacket reads none outside it.        *)
(***************************************************************************)
THEOREM DecoderStaysInside == Spec => []ReadsInBounds
<1>1. DInv => ReadsInBounds
  BY InBounds
<1> QED
  BY <1>1, DecoderHolds, PTL

(***************************************************************************)
(* Whatever bytes a packet has, what DecodePacket returns encodes to them, *)
(* and what it refuses encodes no packet.                                  *)
(***************************************************************************)
THEOREM DecoderInverts == Spec => []DecodeInvertsEncode
<1>1. DInv => DecodeInvertsEncode
  BY Inverts
<1> QED
  BY <1>1, DecoderHolds, PTL

--------------------------------------------------------------------------------
\* How many members of F come before i, i included.
Rank(F, i) == Cardinality({j \in F : j <= i})

\* The ranks of a finite set of numbers are the numbers up to its size.
LEMMA Ranks ==
  ASSUME NEW F \in SUBSET Nat, IsFiniteSet(F)
  PROVE  /\ Cardinality(F) \in Nat
         /\ \A i \in F : Rank(F, i) \in 1..Cardinality(F)
         /\ \A k \in 1..Cardinality(F) : \E i \in F : Rank(F, i) = k
         /\ \A i, k \in F : Rank(F, i) = Rank(F, k) => i = k
<1> DEFINE n == Cardinality(F)
           upTo(i) == {j \in F : j <= i}
           rank == [i \in F |-> Rank(F, i)]
<1>1. n \in Nat
  BY FS_CardinalityType
<1>2. ASSUME NEW i \in F PROVE IsFiniteSet(upTo(i)) /\ Cardinality(upTo(i)) \in 1..n
  <2>1. upTo(i) \in SUBSET F /\ i \in upTo(i)
    OBVIOUS
  <2>2. IsFiniteSet(upTo(i)) /\ Cardinality(upTo(i)) <= n
    BY <2>1, FS_Subset
  <2>3. Cardinality(upTo(i)) \in Nat /\ Cardinality(upTo(i)) # 0
    BY <2>1, <2>2, FS_CardinalityType, FS_EmptySet
  <2> QED
    BY <1>1, <2>2, <2>3
<1>3. ASSUME NEW i \in F, NEW k \in F, i < k PROVE Rank(F, i) # Rank(F, k)
  <2>1. upTo(i) \in SUBSET upTo(k) /\ k \in upTo(k) /\ k \notin upTo(i)
    <3>1. i \in Nat /\ k \in Nat /\ \A j \in F : j \in Nat
      OBVIOUS
    <3>2. \A j \in upTo(i) : j \in upTo(k)
      BY <1>3, <3>1
    <3>3. k \in upTo(k)
      BY <3>1
    <3>4. k \notin upTo(i)
      BY <1>3, <3>1
    <3> HIDE DEF upTo
    <3> QED BY <3>2, <3>3, <3>4
  <2>2. IsFiniteSet(upTo(k))
    BY <1>2
  <2>3. Cardinality(upTo(i)) # Cardinality(upTo(k))
    <3> HIDE DEF upTo
    <3> QED BY <2>1, <2>2, FS_Subset
  <2> QED
    BY <2>3 DEF Rank
<1>4. \A i, k \in F : Rank(F, i) = Rank(F, k) => i = k
  <2> TAKE i, k \in F
  <2>1. i \in Nat /\ k \in Nat
    OBVIOUS
  <2> QED BY <1>3, <2>1
<1>5. \A i \in F : Rank(F, i) \in 1..n
  BY <1>2 DEF Rank
<1>6. rank \in Injection(F, 1..n)
  BY <1>4, <1>5 DEF Injection, IsInjective
<1>7. IsFiniteSet(1..n) /\ Cardinality(1..n) = n
  BY <1>1, FS_Interval
<1>8. rank \in Surjection(F, 1..n)
  BY <1>6, <1>7, FS_Injection
<1>9. \A k \in 1..n : \E i \in F : Rank(F, i) = k
  BY <1>8 DEF Surjection
<1> QED
  BY <1>1, <1>4, <1>5, <1>9

ConfiguredKeys(config) ==
  {PublicChannelKey} \cup ToSet(config.hashtag) \cup ToSet(config.private)

LEMMA ConcatElements ==
  ASSUME NEW S, NEW s \in Seq(S), NEW t \in Seq(S)
  PROVE  s \o t \in Seq(S) /\ ToSet(s \o t) = ToSet(s) \cup ToSet(t)
<1>1. ToSet(s \o t) = Range(s \o t) /\ ToSet(s) = Range(s) /\ ToSet(t) = Range(t)
  BY DEF ToSet, Range
<1>2. Range(s \o t) = Range(s) \cup Range(t)
  BY RangeConcatenation
<1>3. s \o t \in Seq(S)
  BY ConcatProperties
<1> QED
  BY <1>1, <1>2, <1>3

LEMMA LeastExists ==
  ASSUME NEW T \in SUBSET Nat, T # {}
  PROVE  \E x \in T : \A y \in T : ~ (y < x)
<1>1. PICK x \in T : \A y \in T : ~ (<<y, x>> \in OpToRel(<, Nat))
  BY NatLessThanWellFounded, WFMin
<1> QED
  BY <1>1 DEF OpToRel

(***************************************************************************)
(* ChannelSecretKeys (internal/config/config.go) lists each configured key *)
(* once, and nothing else.                                                 *)
(***************************************************************************)
THEOREM KeysListed ==
  ASSUME NEW config \in ChannelConfigs
  PROVE  /\ ChannelSecretKeys(config) \in Seq(Keys)
         /\ ToSet(ChannelSecretKeys(config)) = ConfiguredKeys(config)
         /\ \A k, l \in DOMAIN ChannelSecretKeys(config) :
              ChannelSecretKeys(config)[k] = ChannelSecretKeys(config)[l] => k = l
<1> DEFINE all   == <<PublicChannelKey>> \o config.hashtag \o config.private
           first == {i \in DOMAIN all : \A j \in 1..(i - 1) : all[j] # all[i]}
           At(k) == CHOOSE i \in first : Cardinality({j \in first : j <= i}) = k
           n     == Cardinality(first)
           out   == [k \in 1..n |-> all[At(k)]]
<1>1. all \in Seq(Keys) /\ ToSet(all) = ConfiguredKeys(config)
  <2> DEFINE pub  == <<PublicChannelKey>>
             head == pub \o config.hashtag
  <2>1. /\ pub \in Seq(Keys) /\ ToSet(pub) = {PublicChannelKey}
        /\ config.hashtag \in Seq(Keys) /\ config.private \in Seq(Keys)
    BY IntakeAssumption DEF ToSet
  <2>2. all = head \o config.private
    OBVIOUS
  <2> HIDE DEF all, pub
  <2>3. head \in Seq(Keys) /\ ToSet(head) = {PublicChannelKey} \cup ToSet(config.hashtag)
    BY <2>1, ConcatElements
  <2> HIDE DEF head
  <2> QED
    BY <2>1, <2>2, <2>3, ConcatElements DEF ConfiguredKeys
<1>2. ChannelSecretKeys(config) = out
  BY DEF ChannelSecretKeys
<1> HIDE DEF all
<1>3. Len(all) \in Nat /\ DOMAIN all = 1..Len(all) /\ \A i \in DOMAIN all : all[i] \in Keys
  BY <1>1, LenProperties
<1>4. first \in SUBSET Nat /\ IsFiniteSet(first)
  <2>1. IsFiniteSet(1..Len(all))
    BY <1>3, FS_Interval
  <2>2. first \in SUBSET (1..Len(all))
    BY <1>3
  <2> QED
    BY <2>1, <2>2, FS_Subset
<1>5. \A i, j \in first : all[i] = all[j] => i = j
  <2> TAKE i, j \in first
  <2>1. i \in 1..Len(all) /\ j \in 1..Len(all)
    BY <1>3
  <2>2. i < j => all[i] # all[j]
    BY <2>1
  <2>3. j < i => all[i] # all[j]
    BY <2>1
  <2> QED
    BY <2>1, <2>2, <2>3
<1>6. ASSUME NEW i \in DOMAIN all PROVE \E j \in first : all[j] = all[i]
  <2> DEFINE T == {j \in DOMAIN all : all[j] = all[i]}
  <2>1. PICK j \in T : \A h \in T : ~ (h < j)
    <3>1. T \in SUBSET Nat /\ T # {}
      BY <1>3
    <3> QED BY <3>1, LeastExists
  <2>2. j \in first
    <3>1. j \in 1..Len(all) /\ all[j] = all[i]
      BY <1>3
    <3> SUFFICES ASSUME NEW h \in 1..(j - 1), all[h] = all[j] PROVE FALSE
      BY <1>3, <3>1
    <3>2. h \in T /\ h < j
      BY <1>3, <3>1
    <3> QED BY <2>1, <3>2
  <2> QED
    BY <2>2
<1>7. /\ n \in Nat
      /\ \A k \in 1..n : At(k) \in first /\ Rank(first, At(k)) = k
      /\ \A i \in first : Rank(first, i) \in 1..n /\ At(Rank(first, i)) = i
  <2> HIDE DEF first, n
  <2>1. /\ n \in Nat
        /\ \A i \in first : Rank(first, i) \in 1..n
        /\ \A k \in 1..n : \E i \in first : Rank(first, i) = k
        /\ \A i, k \in first : Rank(first, i) = Rank(first, k) => i = k
    BY <1>4, Ranks DEF n
  <2>2. \A k : At(k) = CHOOSE i \in first : Rank(first, i) = k
    BY DEF Rank
  <2> HIDE DEF At
  <2>3. \A k \in 1..n : At(k) \in first /\ Rank(first, At(k)) = k
    BY <2>1, <2>2
  <2> QED
    BY <2>1, <2>3
<1> HIDE DEF first, At, n
<1>8. \A k \in 1..n : At(k) \in first /\ At(k) \in DOMAIN all
  BY <1>7 DEF first
<1>9. /\ out \in [1..n -> Keys] /\ DOMAIN out = 1..n
      /\ \A k \in 1..n : out[k] = all[At(k)]
  BY <1>3, <1>8
<1>10. out \in Seq(Keys)
  BY <1>7, <1>9, SeqDef
<1>11. \A k, l \in 1..n : out[k] = out[l] => k = l
  BY <1>5, <1>7, <1>8, <1>9
<1>12. ToSet(out) = ToSet(all)
  <2>1. ASSUME NEW k \in 1..n PROVE out[k] \in ToSet(all)
    BY <1>8, <1>9 DEF ToSet
  <2>2. ASSUME NEW i \in DOMAIN all PROVE \E k \in 1..n : out[k] = all[i]
    <3>1. PICK j \in first : all[j] = all[i]
      BY <1>6
    <3>2. Rank(first, j) \in 1..n /\ out[Rank(first, j)] = all[j]
      BY <1>7, <1>9
    <3> QED BY <3>1, <3>2
  <2> HIDE DEF out
  <2> QED
    BY <1>9, <2>1, <2>2 DEF ToSet
<1> HIDE DEF out
<1> QED
  BY <1>1, <1>2, <1>9, <1>10, <1>11, <1>12

LEMMA KeysBegin == Init => KeyInv /\ ChannelKeyDecides
<1> SUFFICES ASSUME Init PROVE KeyInv /\ ChannelKeyDecides
  OBVIOUS
<1>1. <<>> \in Seq(Keys) /\ channelKeys \in Seq(Keys)
  BY EmptySeq, KeysListed DEF Init
<1> QED
  BY <1>1 DEF Init, KeyInv, ChannelKeyDecides

LEMMA KeysStep ==
  ASSUME KeyInv, ChannelKeyDecides, [Next]_vars PROVE KeyInv' /\ ChannelKeyDecides'
<1>1. <<>> \in Seq(Keys) /\ untried \in Seq(Keys)
  BY EmptySeq DEF KeyInv
<1>2. ASSUME NEW m \in Messages, Receive(m) PROVE KeyInv' /\ ChannelKeyDecides'
  <2>1. UNCHANGED <<settings, untried>> /\ step' = "topic" /\ message' = m
    BY <1>2 DEF Receive
  <2> QED
    BY <1>1, <2>1, OutsideKeeps
<1>3. CASE ReadTopic \/ ReadEnvelope \/ Decode \/ DropMalformed \/ DropStored
  <2>1. /\ UNCHANGED <<settings, untried, message>> /\ step # "idle"
        /\ step' \in {"envelope", "packet", "dropped"}
    BY <1>3 DEF ReadTopic, ReadEnvelope, Decode, DropMalformed, DropStored, Drop, intake
  <2> QED
    BY <1>1, <2>1, OutsideKeeps DEF KeyInv
<1>4. CASE Extract
  BY <1>4, ExtractKeeps
<1>5. CASE TryKey
  BY <1>5, TryKeyKeeps
<1>6. CASE NoKeyOpens
  BY <1>6, NoKeyKeeps
<1>7. CASE ReadJSON
  BY <1>7, JSONKeeps
<1>8. CASE ReadText
  BY <1>8, TextKeeps
<1>9. CASE Return
  <2>1. UNCHANGED settings /\ step' = "idle" /\ untried' = <<>>
    BY <1>9 DEF Return
  <2> QED
    BY <1>1, <2>1, OutsideKeeps
<1>10. CASE UNCHANGED vars
  <2>1. UNCHANGED <<settings, step, message, untried, candidate, decoder>>
    BY <1>10 DEF vars, intake
  <2>2. UNCHANGED <<channelKeys, hashtag>>
    BY <2>1 DEF settings
  <2>3. /\ (MayBeSealed' <=> MayBeSealed) /\ Openers' = Openers /\ Readings' = Readings
        /\ \A k : Opens(k)' <=> Opens(k)
    BY <2>1, SamePayload
  <2>4. \A t : IsCheckin(t)' <=> IsCheckin(t)
    BY <2>2 DEF IsCheckin
  <2> QED
    BY <2>1, <2>2, <2>3, <2>4 DEF KeyInv, ChannelKeyDecides
<1> QED
  BY <1>2, <1>3, <1>4, <1>5, <1>6, <1>7, <1>8, <1>9, <1>10 DEF Next

(***************************************************************************)
(* For every list of channel keys and every payload, who is checked in is  *)
(* what the key that opens the payload says, and the plain readings are    *)
(* tried only without one.                                                 *)
(***************************************************************************)
THEOREM KeysDecide == Spec => []ChannelKeyDecides
<1>1. Init => KeyInv /\ ChannelKeyDecides
  BY KeysBegin
<1>2. (KeyInv /\ ChannelKeyDecides) /\ [Next]_vars => (KeyInv /\ ChannelKeyDecides)'
  BY KeysStep
<1> QED
  BY <1>1, <1>2, PTL DEF Spec

--------------------------------------------------------------------------------
\* The variables of the intake alone.
IntakeTypes ==
  /\ hashtag \in BOOLEAN
  /\ step \in {"idle", "topic", "envelope", "packet", "keys", "json", "text",
               "checkin", "noCheckin", "dropped"}
  /\ message \in Message \cup {NoMessage}
  /\ observer \in Nat
  /\ candidate \in {NoCandidate} \cup [user: {NormalizeUsername[n] : n \in Names}]

LEMMA ContentOf ==
  ASSUME KeyInv, step # "idle"
  PROVE  /\ message \in Message
         /\ message.content.json \in Text /\ message.content.text \in Text
         /\ \A k \in Keys : message.content.opened[k] \in Text
<1>1. message \in Message
  BY IntakeAssumption DEF KeyInv
<1>2. message.content \in Content
  BY <1>1 DEF Message
<1> QED
  BY <1>1, <1>2 DEF Content

LEMMA ConcludeTypes ==
  ASSUME IntakeTypes, NEW text \in Text, Conclude(text)
  PROVE  IntakeTypes'
<1>1. IsCheckin(text) => text.sender \in Names
  BY DEF IsCheckin, Text, NoText
<1> QED
  BY <1>1 DEF Conclude, IntakeTypes, settings

LEMMA TypesStep == ASSUME IntakeTypes, KeyInv, [Next]_vars PROVE IntakeTypes'
<1> USE DEF IntakeTypes, settings
<1>1. ASSUME NEW m \in Messages, Receive(m) PROVE IntakeTypes'
  BY <1>1, IntakeAssumption DEF Receive
<1>2. CASE ReadTopic
  <2>1. message.device \in Nat
    BY <1>2, ContentOf DEF ReadTopic, Message
  <2> QED
    BY <1>2, <2>1 DEF ReadTopic, Drop
<1>3. CASE ReadEnvelope
  <2>1. message.form \in {"hex", "envelope", "broken"} /\ message.origin \in Nat
    BY <1>3, ContentOf DEF ReadEnvelope, Message
  <2>2. MaxObserverChars \in Nat
    BY IntakeAssumption
  <2>3. CASE UnreadableEnvelope
    BY <1>3, <2>3 DEF ReadEnvelope, Drop
  <2>4. CASE ~UnreadableEnvelope
    <3>1. message.form # "broken"
      BY <2>4 DEF UnreadableEnvelope
    <3>2. ObserverOf \in Nat
      BY <2>1, <2>2, <3>1 DEF ObserverOf
    <3> QED
      BY <1>3, <2>4, <3>2 DEF ReadEnvelope
  <2> QED
    BY <2>3, <2>4
<1>4. CASE Decode \/ DropMalformed \/ DropStored \/ Extract \/ NoKeyOpens
  BY <1>4 DEF Decode, intake, DropMalformed, DropStored, Drop, Extract, NoKeyOpens
<1>5. CASE TryKey
  <2>1. Head(untried) \in Keys
    BY <1>5, HeadTailProperties DEF KeyInv, TryKey
  <2>2. message.content.opened[Head(untried)] \in Text
    BY <1>5, <2>1, ContentOf DEF TryKey
  <2> QED
    BY <1>5, <2>2, ConcludeTypes DEF TryKey
<1>6. CASE ReadJSON
  <2>1. message.content.json \in Text
    BY <1>6, ContentOf DEF ReadJSON
  <2> QED
    BY <1>6, <2>1, ConcludeTypes DEF ReadJSON
<1>7. CASE ReadText
  <2>1. message.content.text \in Text
    BY <1>7, ContentOf DEF ReadText
  <2> QED
    BY <1>7, <2>1, ConcludeTypes DEF ReadText
<1>8. CASE Return
  BY <1>8 DEF Return
<1>9. CASE UNCHANGED vars
  BY <1>9 DEF vars, intake
<1> QED
  BY <1>1, <1>2, <1>3, <1>4, <1>5, <1>6, <1>7, <1>8, <1>9 DEF Next

\* The intake and its decoder stay well typed, for messages of any length.
THEOREM IntakeWellTyped == Spec => []TypeOK
<1>1. Init => IntakeTypes /\ KeyInv /\ ChannelKeyDecides
  <2>1. Init => IntakeTypes
    BY DEF Init, IntakeTypes
  <2> QED
    BY <2>1, KeysBegin
<1>2. (IntakeTypes /\ KeyInv /\ ChannelKeyDecides) /\ [Next]_vars =>
        (IntakeTypes /\ KeyInv /\ ChannelKeyDecides)'
  BY TypesStep, KeysStep
<1>3. IntakeTypes /\ KeyInv /\ DInv => TypeOK
  BY DEF IntakeTypes, KeyInv, DInv, TypeOK
<1> QED
  BY <1>1, <1>2, <1>3, DecoderHolds, PTL DEF Spec

================================================================================
