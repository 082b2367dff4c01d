----------------------------- MODULE MessageIntake -----------------------------
(***************************************************************************)
(* From an MQTT message to a check-in candidate: the size limit of the     *)
(* consumer (internal/mqtt), topic and envelope (internal/ingest), the     *)
(* packet (PacketDecoder), and the extraction of a check-in from its       *)
(* payload (internal/checkins), which tries the channel keys of the        *)
(* configuration in their order and then reads the payload as JSON or as   *)
(* text.  What happens to the candidate is IngestService.                  *)
(*                                                                         *)
(* A payload is what each reader finds in it: the keys that verify its     *)
(* MAC, what each of them decrypts it to, and its JSON and text.  Texts    *)
(* are the sender's name they begin with and whether the tag occurs after  *)
(* it.  Lengths are kept; names are model values.                          *)
(***************************************************************************)
EXTENDS PacketDecoder, SequencesExt

CONSTANTS
  Messages,           \* messages that may be published
  ChannelConfigs,     \* the key lists of configurations: [hashtag, private]
  Keys,               \* channel keys, each of 16 bytes (Config.Validate)
  PublicChannelKey,
  HashByte,           \* HashByte[k]: first byte of the SHA-256 of key k
  Names,
  Nobody,             \* no name
  NormalizeUsername,  \* NormalizeUsername[n]: the user a name stands for
  MaxPayloadBytes, MaxPacketHexChars, MaxObserverChars

PayloadTypeGroupText == 5
AESBlockSize         == 16

\* A text that is not empty, or no text at all.
NoText == [sender |-> Nobody]
Text   == {NoText} \cup [sender: Names \cup {Nobody}, tagged: BOOLEAN]

\* macs: keys that verify the MAC; opened[k]: what key k decrypts it to.
Content == [macs: SUBSET Keys, opened: [Keys -> Text], json: Text, text: Text]

\* Lengths: bytes as received, text of it after trimming, device and origin of
\* the names, hex of the packet with any 0x.  raw: empty if hex does not decode.
Message ==
  [bytes: Nat, text: Nat, form: {"hex", "envelope", "broken"}, topicOK: BOOLEAN,
   device: Nat, origin: Nat, hex: Nat, raw: Seq(Byte), content: Content]

ASSUME IntakeAssumption ==
  /\ Messages \subseteq Message
  /\ ChannelConfigs \subseteq [hashtag: Seq(Keys), private: Seq(Keys)]
  /\ PublicChannelKey \in Keys
  /\ HashByte \in [Keys -> Byte]
  /\ Nobody \notin Names
  /\ {MaxPayloadBytes, MaxPacketHexChars, MaxObserverChars} \subseteq Nat

\* No key but the one it was sealed with decrypts a payload to text.
ASSUME SealedOnce ==
  \A m \in Messages : \A k, l \in m.content.macs :
    m.content.opened[k] # NoText /\ m.content.opened[l] # NoText => k = l

NoMessage   == [text |-> 0]
NoCandidate == [user |-> Nobody]

VARIABLES
  channelKeys,  \* Service.channelKeys
  hashtag,      \* is a tag asked for (CHECKIN_HASHTAG)?
  step,         \* where HandleMessage stands
  message,      \* the message it handles
  observer,     \* length of observerKey
  untried,      \* channel keys not tried yet
  candidate     \* what ExtractFromPacket returns

settings == <<channelKeys, hashtag>>
intake   == <<settings, step, message, observer, untried, candidate>>
vars     == <<intake, decoder>>

TypeOK ==
  /\ channelKeys \in Seq(Keys)
  /\ hashtag \in BOOLEAN
  /\ step \in {"idle", "topic", "envelope", "packet", "keys", "json", "text",
               "checkin", "noCheckin", "dropped"}
  /\ message \in Message \cup {NoMessage}
  /\ observer \in Nat
  /\ untried \in Seq(Keys)
  /\ candidate \in {NoCandidate} \cup [user: {NormalizeUsername[n] : n \in Names}]
  /\ DecoderTypeOK

--------------------------------------------------------------------------------
\* Config.ChannelSecretKeys: each key once, where it comes first.
ChannelSecretKeys(config) ==
  LET all   == <<PublicChannelKey>> \o config.hashtag \o config.private
      first == {i \in DOMAIN all : \A j \in 1..(i - 1) : all[j] # all[i]}
      At(k) == CHOOSE i \in first : Cardinality({j \in first : j <= i}) = k
  IN  [k \in 1..Cardinality(first) |-> all[At(k)]]

Init ==
  /\ \E config \in ChannelConfigs : channelKeys = ChannelSecretKeys(config)
  /\ hashtag \in BOOLEAN
  /\ step = "idle"
  /\ message = NoMessage
  /\ observer = 0
  /\ untried = <<>>
  /\ candidate = NoCandidate
  /\ DecoderInit(<<>>)

--------------------------------------------------------------------------------
\* buildMessage: a payload that is too large is dropped, which changes nothing.
Receive(m) ==
  /\ step = "idle"
  /\ m.bytes <= MaxPayloadBytes
  /\ step' = "topic"
  /\ message' = m
  /\ UNCHANGED <<settings, observer, untried, candidate, decoder>>

Drop ==
  /\ step' = "dropped"
  /\ UNCHANGED <<settings, message, observer, untried, candidate, decoder>>

\* parseTopic
ReadTopic ==
  /\ step = "topic"
  /\ \/ ~message.topicOK /\ Drop
     \/ /\ message.topicOK
        /\ step' = "envelope"
        /\ observer' = message.device
        /\ UNCHANGED <<settings, message, untried, candidate, decoder>>

UnreadableEnvelope ==
  \/ message.text = 0 \/ message.text > MaxPacketHexChars
  \/ message.form = "broken"
  \/ /\ message.form = "envelope"
     /\ message.hex = 0 \/ message.hex > MaxPacketHexChars \/ message.origin > MaxObserverChars

\* The observer is who the envelope names, else the device of the topic; only
\* without an envelope is the device cut.
ObserverOf ==
  CASE message.form = "envelope" -> IF message.origin = 0 THEN observer ELSE message.origin
    [] message.form = "hex" -> IF observer > MaxObserverChars THEN MaxObserverChars ELSE observer

\* decodeIncomingEnvelope
ReadEnvelope ==
  /\ step = "envelope"
  /\ \/ UnreadableEnvelope /\ Drop
     \/ /\ ~UnreadableEnvelope
        /\ step' = "packet"
        /\ observer' = ObserverOf
        /\ StartDecoding(message.raw)
        /\ UNCHANGED <<settings, message, untried, candidate>>

Decode ==
  /\ step = "packet"
  /\ DecodeStep
  /\ UNCHANGED intake

DropMalformed == step = "packet" /\ stage = "malformed" /\ Drop

\* The packet was received before, or storing it fails.
DropStored == step = "packet" /\ stage = "decoded" /\ Drop

--------------------------------------------------------------------------------
PayloadLength == packet.payload.to - packet.payload.from

\* A channel hash, two bytes of MAC, and blocks of ciphertext.
MayBeSealed ==
  /\ packet.type = PayloadTypeGroupText
  /\ PayloadLength > 3
  /\ (PayloadLength - 3) % AESBlockSize = 0

\* The packet is new and stored; ExtractFromPacket begins.
Extract ==
  /\ step = "packet"
  /\ stage = "decoded"
  /\ step' = IF MayBeSealed THEN "keys" ELSE "json"
  /\ untried' = IF MayBeSealed THEN channelKeys ELSE <<>>
  /\ UNCHANGED <<settings, message, observer, candidate, decoder>>

HasHashOf(k) == HashByte[k] = raw[packet.payload.from + 1]

Opens(k) ==
  /\ HasHashOf(k)
  /\ k \in message.content.macs
  /\ message.content.opened[k] # NoText

\* isValidCheckInMessage, of a text that names its sender
IsCheckin(text) == text.sender # Nobody /\ (hashtag => text.tagged)

\* The extraction ends with this text.
Conclude(text) ==
  /\ \/ IsCheckin(text) /\ step' = "checkin" /\ candidate' = [user |-> NormalizeUsername[text.sender]]
     \/ ~IsCheckin(text) /\ step' = "noCheckin" /\ UNCHANGED candidate
  /\ UNCHANGED <<settings, message, observer, untried, decoder>>

\* Variant for mutation: a key with this hash byte ends the search.
TryKeyByHash ==
  /\ step = "keys"
  /\ untried # <<>>
  /\ \/ Opens(Head(untried)) /\ Conclude(message.content.opened[Head(untried)])
     \/ /\ ~Opens(Head(untried))
        /\ untried' = IF HasHashOf(Head(untried)) THEN <<>> ELSE Tail(untried)
        /\ UNCHANGED <<settings, step, message, observer, candidate, decoder>>

\* decryptGroupTextPayload: the next key of the list
TryKey ==
  /\ step = "keys"
  /\ untried # <<>>
  /\ \/ Opens(Head(untried)) /\ Conclude(message.content.opened[Head(untried)])
     \/ /\ ~Opens(Head(untried))
        /\ untried' = Tail(untried)
        /\ UNCHANGED <<settings, step, message, observer, candidate, decoder>>

NoKeyOpens ==
  /\ step = "keys"
  /\ untried = <<>>
  /\ step' = "json"
  /\ UNCHANGED <<settings, message, observer, untried, candidate, decoder>>

\* ExtractFromPayload: JSON that is no check-in is read again, as text.
ReadJSON ==
  /\ step = "json"
  /\ \/ IsCheckin(message.content.json) /\ Conclude(message.content.json)
     \/ /\ ~IsCheckin(message.content.json)
        /\ step' = "text"
        /\ UNCHANGED <<settings, message, observer, untried, candidate, decoder>>

\* parseCandidateFromText
ReadText == step = "text" /\ Conclude(message.content.text)

\* HandleMessage returns.
Return ==
  /\ step \in {"checkin", "noCheckin", "dropped"}
  /\ step' = "idle"
  /\ message' = NoMessage
  /\ observer' = 0
  /\ untried' = <<>>
  /\ candidate' = NoCandidate
  /\ StartDecoding(<<>>)
  /\ UNCHANGED settings

Next ==
  \/ \E m \in Messages : Receive(m)
  \/ ReadTopic \/ ReadEnvelope
  \/ Decode \/ DropMalformed \/ DropStored
  \/ Extract \/ TryKey \/ NoKeyOpens \/ ReadJSON \/ ReadText
  \/ Return

Spec == Init /\ [][Next]_vars

--------------------------------------------------------------------------------
\* The configured keys that open the payload.
Openers == {k \in ToSet(channelKeys) : MayBeSealed /\ Opens(k)}

\* What the payload says: sealed, else as JSON if that is a check-in, else as text.
Readings ==
  IF Openers # {} THEN {message.content.opened[k] : k \in Openers}
  ELSE {IF IsCheckin(message.content.json) THEN message.content.json ELSE message.content.text}

(***************************************************************************)
(* Who is checked in does not depend on the order of the channel keys, on  *)
(* keys that share a hash byte, or on a MAC of two bytes that another key  *)
(* verifies by chance: if a configured key opens a group text then its     *)
(* text decides, for and against a check-in, and the readings for          *)
(* observers that publish decoded payloads are tried only if none does.    *)
(***************************************************************************)
ChannelKeyDecides ==
  /\ step = "checkin" =>
       \E text \in Readings : IsCheckin(text) /\ candidate.user = NormalizeUsername[text.sender]
  /\ step = "noCheckin" => \A text \in Readings : ~IsCheckin(text)

================================================================================
