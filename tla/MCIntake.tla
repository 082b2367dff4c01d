-------------------------------- MODULE MCIntake -------------------------------
(***************************************************************************)
(* An instance of MessageIntake for TLC: packets of every route and path   *)
(* size, cut off anywhere, and one packet with every content and envelope. *)
(***************************************************************************)
EXTENDS MessageIntake

MCKeys == {"public", "hashtag", "private"}

\* The private key shares its hash byte with the public one.
MCHashByte == [public |-> 17, hashtag |-> 18, private |-> 17]

MCConfigs ==
  {[hashtag |-> <<>>, private |-> <<>>],
   [hashtag |-> <<"hashtag">>, private |-> <<"private">>],
   [hashtag |-> <<>>, private |-> <<"private", "hashtag", "public">>]}

MCNormalize == ("Avery" :> "avery") @@ ("AVERY" :> "avery") @@ ("blake" :> "blake")

Plain == [macs |-> {}, opened |-> [k \in MCKeys |-> NoText], json |-> NoText, text |-> NoText]

Hex(bytes) ==
  [bytes |-> 2 * Len(bytes), text |-> 2 * Len(bytes), form |-> "hex", topicOK |-> TRUE,
   device |-> 4, origin |-> 0, hex |-> 2 * Len(bytes), raw |-> bytes, content |-> Plain]

\* Headers with each route, of two types and two versions.
Packets ==
  UNION {Prefixes(<<header>> \o codes \o <<length>> \o rest) :
           header \in {8, 9, 10, 11, 21, 85}, codes \in {<<>>, <<1, 2, 0, 255>>},
           length \in {0, 1, 2, 65, 66, 129, 130, 192, 255}, rest \in {<<>>, <<7, 8, 9, 10, 11, 12>>}}

\* A packet with one hop and a payload of n bytes that begins with hash.
GroupText(hash, n) == <<21, 1, 99, hash>> \o [i \in 1..(n - 1) |-> 5]

Texts ==
  {[sender |-> "Avery", tagged |-> TRUE], [sender |-> "blake", tagged |-> FALSE],
   [sender |-> Nobody, tagged |-> TRUE]}

Sealed ==
  {[macs |-> {key} \cup chance, opened |-> [k \in MCKeys |-> IF k = key THEN text ELSE NoText],
    json |-> json, text |-> other] :
     key \in {"public", "hashtag", "private"}, chance \in SUBSET {"public", "private"},
     text \in Texts, json \in {NoText, [sender |-> "AVERY", tagged |-> TRUE]},
     other \in {NoText, [sender |-> "blake", tagged |-> TRUE]}}

Open ==
  {[Plain EXCEPT !.json = json, !.text = text] :
     json \in Texts \cup {NoText}, text \in Texts \cup {NoText}}

\* Envelopes add at least the braces, the key and the quotes.
Enveloped(m, origin, device) ==
  [m EXCEPT !.form = "envelope", !.origin = origin, !.device = device,
            !.text = m.hex + 10 + origin, !.bytes = m.hex + 12 + origin]

Delivered ==
  {[Hex(GroupText(hash, n)) EXCEPT !.content = content] :
     hash \in {17, 18, 19}, n \in {19, 20}, content \in Sealed \cup Open}

Wrapped ==
  LET m == [Hex(GroupText(19, 19)) EXCEPT
              !.content = [Plain EXCEPT !.text = [sender |-> "blake", tagged |-> TRUE]]]
  IN  {Enveloped(m, origin, device) : origin \in {0, 4, 8, 9}, device \in {4, 9}}
        \cup {[m EXCEPT !.device = 9], [m EXCEPT !.topicOK = FALSE], [m EXCEPT !.form = "broken"],
              [m EXCEPT !.bytes = 257], [Enveloped(m, 0, 4) EXCEPT !.text = 65, !.bytes = 67],
              [Enveloped(m, 0, 4) EXCEPT !.hex = 0, !.raw = <<>>], [Hex(<<>>) EXCEPT !.bytes = 2]}

MCMessages == {Hex(bytes) : bytes \in Packets} \cup Delivered \cup Wrapped

================================================================================
