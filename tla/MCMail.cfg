SPECIFICATION MCSpec
CONSTANTS
  Messages <- ShortMessages
  ChunkSize = 2
  Alphabet <- TopicPieces
  MaxLength <- TopicLength
  Mailboxes <- SomeMailboxes
  Texts <- SomeTexts
  Subjects <- SomeSubjects
  Identifiers <- SomeIdentifiers
  Fields <- SomeFields
  Templates <- SomeTemplates
  Attachables <- SomeAttachables
  MaxCalls = 3
  MaxEncodedWordBytes = 3
  MaxEncodedWord = 998
  MaxLocalPart = 64
  MaxAddress = 254
  MaxTextLine = 8
  MaxQuotedLine = 6
  Base64Line = 4
  RecommendedLine = 20
  MaxDepth = 3
  MaxParts = 20
  MaxEnvelopeId = 100
  MaxOriginalRecipient = 500
INVARIANTS TypeOK DataIsTransparent ChunkingInvisible BdatIsComplete
PROPERTIES MailIsReadBack InboundIsFaithful AddressesRoundTrip CodecsInvert
