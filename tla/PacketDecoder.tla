----------------------------- MODULE PacketDecoder -----------------------------
(***************************************************************************)
(* DecodePacket (internal/meshcore/decode.go) step by step: the header     *)
(* byte, the transport codes of two of the four route types, the byte that *)
(* gives the number of hops and the bytes of each, the path, the payload.  *)
(*                                                                         *)
(* Bytes are kept, since offsets and arithmetic on them are what can go    *)
(* wrong.  The parts of a packet are slices of the input, as in the code:  *)
(* [from, to) counted from 0.  Hex and the names of types are left out.    *)
(***************************************************************************)
EXTENDS Integers, Sequences

Byte == 0..255

PayloadVersionV1 == 0
RouteTypeFlood   == 0
RouteTypeDirect  == 3

VARIABLES
  raw,     \* the bytes of the packet
  stage,   \* what is read next, or "decoded" or "malformed"
  offset,  \* bytes read so far
  packet   \* the fields read so far

decoder == <<raw, stage, offset, packet>>

\* A 16-bit code, by its two bytes.
TransportCode == {lo + 256 * hi : lo, hi \in Byte}

Slice == [from: Nat, to: Nat]

NoFields ==
  [type |-> 0, route |-> 0, codes |-> <<>>, pathLen |-> 0, bytesPerHop |-> 1,
   path |-> <<>>, payload |-> [from |-> 0, to |-> 0]]

Fields ==
  [type: 0..15, route: 0..3, codes: Seq(TransportCode), pathLen: 0..63, bytesPerHop: 1..3,
   path: Seq(Slice), payload: Slice]

DecoderTypeOK ==
  /\ raw \in Seq(Byte)
  /\ stage \in {"header", "codes", "length", "path", "decoded", "malformed"}
  /\ offset \in Nat
  /\ packet \in Fields

DecoderInit(bytes) ==
  /\ raw = bytes
  /\ stage = "header"
  /\ offset = 0
  /\ packet = NoFields

\* DecodePacket is called for other bytes.
StartDecoding(bytes) ==
  /\ raw' = bytes
  /\ stage' = "header"
  /\ offset' = 0
  /\ packet' = NoFields

--------------------------------------------------------------------------------
Malformed ==
  /\ stage' = "malformed"
  /\ UNCHANGED <<raw, offset, packet>>

Advance(next, bytes) ==
  /\ stage' = next
  /\ offset' = offset + bytes
  /\ UNCHANGED raw

\* Two bits of version, four of payload type, two of route type.
ReadHeader ==
  LET version == raw[1] \div 64
      route   == raw[1] % 4
  IN  /\ stage = "header"
      /\ \/ Len(raw) < 2 /\ Malformed
         \/ Len(raw) >= 2 /\ version # PayloadVersionV1 /\ Malformed
         \/ /\ Len(raw) >= 2
            /\ version = PayloadVersionV1
            /\ packet' = [packet EXCEPT !.type = (raw[1] \div 4) % 16, !.route = route]
            /\ Advance(IF route \in {RouteTypeFlood, RouteTypeDirect} THEN "codes" ELSE "length", 1)

\* Variant for mutation: most significant byte first.
CodeBigEndian(at) == 256 * raw[at + 1] + raw[at + 2]

\* The 16-bit code at an offset, least significant byte first.
Code(at) == raw[at + 1] + 256 * raw[at + 2]

ReadTransportCodes ==
  /\ stage = "codes"
  /\ \/ Len(raw) < offset + 4 /\ Malformed
     \/ /\ Len(raw) >= offset + 4
        /\ packet' = [packet EXCEPT !.codes = <<Code(offset), Code(offset + 2)>>]
        /\ Advance("length", 4)

\* DecodePathLenByte: six bits of hops, two of bytes per hop less one.
PathLenOf(b)     == b % 64
BytesPerHopOf(b) == b \div 64 + 1

\* Variant for mutation: a size of four bytes is accepted.
ReadPathLengthAnySize ==
  /\ stage = "length"
  /\ \/ Len(raw) <= offset /\ Malformed
     \/ /\ Len(raw) > offset
        /\ packet' = [packet EXCEPT !.pathLen = PathLenOf(raw[offset + 1]),
                                    !.bytesPerHop = BytesPerHopOf(raw[offset + 1])]
        /\ Advance("path", 1)

\* A size of four bytes is refused.
ReadPathLength ==
  /\ stage = "length"
  /\ \/ Len(raw) <= offset /\ Malformed
     \/ Len(raw) > offset /\ BytesPerHopOf(raw[offset + 1]) > 3 /\ Malformed
     \/ /\ Len(raw) > offset
        /\ BytesPerHopOf(raw[offset + 1]) <= 3
        /\ packet' = [packet EXCEPT !.pathLen = PathLenOf(raw[offset + 1]),
                                    !.bytesPerHop = BytesPerHopOf(raw[offset + 1])]
        /\ Advance("path", 1)

PathByteLength == packet.pathLen * packet.bytesPerHop

Hop(i) == [from |-> offset + (i - 1) * packet.bytesPerHop, to |-> offset + i * packet.bytesPerHop]

\* Variant for mutation: the hops are compared with what is left, not their bytes.
ReadPathUnchecked ==
  /\ stage = "path"
  /\ \/ Len(raw) < offset + packet.pathLen /\ Malformed
     \/ /\ Len(raw) >= offset + packet.pathLen
        /\ packet' = [packet EXCEPT
                        !.path = [i \in 1..packet.pathLen |-> Hop(i)],
                        !.payload = [from |-> offset + PathByteLength, to |-> Len(raw)]]
        /\ Advance("decoded", PathByteLength)

\* The path, hop by hop; what is left is the payload.
ReadPath ==
  /\ stage = "path"
  /\ \/ Len(raw) < offset + PathByteLength /\ Malformed
     \/ /\ Len(raw) >= offset + PathByteLength
        /\ packet' = [packet EXCEPT
                        !.path = [i \in 1..packet.pathLen |-> Hop(i)],
                        !.payload = [from |-> offset + PathByteLength, to |-> Len(raw)]]
        /\ Advance("decoded", PathByteLength)

DecodeStep == ReadHeader \/ ReadTransportCodes \/ ReadPathLength \/ ReadPath

\* The decoder by itself, for any bytes.
DecoderSpec == (\E bytes \in Seq(Byte) : DecoderInit(bytes)) /\ [][DecodeStep]_decoder

--------------------------------------------------------------------------------
(***************************************************************************)
(* Nothing outside the packet is read, whatever the length byte says: the  *)
(* offset stays within the bytes, and every hop and the payload are slices *)
(* of them (a slice past the end would end the process).                   *)
(***************************************************************************)
ReadsInBounds ==
  /\ offset <= Len(raw)
  /\ \A i \in 1..Len(packet.path) :
       packet.path[i].from <= packet.path[i].to /\ packet.path[i].to <= Len(raw)
  /\ packet.payload.from <= packet.payload.to /\ packet.payload.to <= Len(raw)

(***************************************************************************)
(* The wire format the decoder inverts: an encoding of a packet begins     *)
(* with its header byte, the bytes of its codes, and its length byte.      *)
(***************************************************************************)
EncodedCodes(p) ==
  [i \in 1..(2 * Len(p.codes)) |->
     IF i % 2 = 1 THEN p.codes[(i + 1) \div 2] % 256 ELSE p.codes[i \div 2] \div 256]

EncodedHead(p) ==
  <<p.route + 4 * p.type>> \o EncodedCodes(p) \o <<p.pathLen + 64 * (p.bytesPerHop - 1)>>

\* The hops follow the head one by one, and the payload the last hop.
AdjoiningSlices(p) ==
  LET head == Len(EncodedHead(p))
  IN  /\ Len(p.path) = p.pathLen
      /\ \A i \in 1..p.pathLen :
           p.path[i] = [from |-> head + (i - 1) * p.bytesPerHop, to |-> head + i * p.bytesPerHop]
      /\ p.payload = [from |-> head + p.pathLen * p.bytesPerHop, to |-> Len(raw)]

\* Is there a packet of version 1 these bytes encode?
IsEncoding(bytes) ==
  \E route \in 0..3, hops \in 0..63, size \in 1..3 :
    LET at == IF route \in {RouteTypeFlood, RouteTypeDirect} THEN 6 ELSE 2
    IN  /\ Len(bytes) >= at + hops * size
        /\ bytes[1] < 64 /\ bytes[1] % 4 = route
        /\ bytes[at] = hops + 64 * (size - 1)

(***************************************************************************)
(* Decoding inverts encoding: what is decoded, encoded again, gives the    *)
(* bytes it was decoded from, none left out or read twice; and only bytes  *)
(* that encode no packet are malformed.                                    *)
(***************************************************************************)
DecodeInvertsEncode ==
  /\ stage = "decoded" =>
       /\ EncodedHead(packet) = SubSeq(raw, 1, Len(EncodedHead(packet)))
       /\ AdjoiningSlices(packet)
       /\ packet.codes # <<>> <=> packet.route \in {RouteTypeFlood, RouteTypeDirect}
  /\ stage = "malformed" => ~IsEncoding(raw)

================================================================================
