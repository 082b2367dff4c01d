SPECIFICATION Spec
CONSTANTS
  Messages <- MCMessages
  ChannelConfigs <- MCConfigs
  Keys <- MCKeys
  PublicChannelKey = "public"
  HashByte <- MCHashByte
  Names = {"Avery", "AVERY", "blake"}
  Nobody = "nobody"
  NormalizeUsername <- MCNormalize
  MaxPayloadBytes = 256
  MaxPacketHexChars = 64
  MaxObserverChars = 8
INVARIANTS
  TypeOK
  ReadsInBounds
  DecodeInvertsEncode
  ChannelKeyDecides
