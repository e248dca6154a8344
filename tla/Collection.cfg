\* A client from its start to its mail: every server.info of up to five characters,
\* two RSA keys, three messages of lengths around the limits.
SPECIFICATION Spec
CONSTANTS
  MaxText = 5
  MaxPort = 10
  MaxInt = 100
  SizeWidth = 256
  MaxName = 2
  IdSize = 1
  KeyLength = 2
  MaxKeys = 2
  NoThing = NoThing
  Width = 32
  Block = 4
  MessageHeader = 5
  RecievedMessageHeader = 3
  MaxBlob = 12
  PlainLengths = {11, 27, 29, 38}
  KeyContents = {0, 6}
  MaxPosts = 3
INVARIANTS
  StartupTypeOK
  IdentityOfOneRegistration
  
  CollectionTypeOK
  ReadAsMeant
  ReadsInside
  ParsedInOrder
PROPERTIES
  SavedIsOneIdentity
CHECK_DEADLOCK FALSE
