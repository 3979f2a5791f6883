CONSTANTS
  ByteSize = 4
  WordSize = 4
  Chunk = 44
  Garbage = Garbage
  Null = Null
  Names <- MCNames
  HostNames <- MCHostNames
  Sizes <- MCSizes
SPECIFICATION Spec
INVARIANTS
  TypeOK
  SuccessIsDelivered
  DatasetsAlign
  AnswersAgree
  AnnouncedIsAnswered
  NameComesBack
