SPECIFICATION FairSpec
CONSTANTS
  Streams <- MCStreams
  StreamLength = 18
  HeaderLength = 3
  ExtLength = 1
  MaxPayload = 13
  MaxLength = 31
  SizeModulus = 64
INVARIANTS
  TypeOK
  RestInOrder
  HandedSoFar
PROPERTIES
  SectionsSpec
  EverySectionHanded
  RoundsAdvance
