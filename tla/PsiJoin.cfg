SPECIFICATION JoinSpec
CONSTANTS
  Streams <- MCStreams
  StreamLength = 13
  HeaderLength = 3
  ExtLength = 1
  MaxPayload = 8
  MaxLength = 15
  SizeModulus = 64
INVARIANT CompleteSections
