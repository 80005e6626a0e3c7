SPECIFICATION FairSpec
CONSTANTS
  STREAM_BUFFER_SIZE = 10
  LOVELACE_MAX_SUPPLY = 40
  VALUE_MIN_W1 = 4
  VALUE_MIN_W2 = 8
  VALUE_MIN_W4 = 32
  VALUE_MIN_W8 = 40
  MaxChunk = 2
  Indexes = {0, 1}
  Transactions <- MCTransactions
  Streams <- MCStreams
INVARIANTS
  TypeOK
  InternalAssertionsHold
  LeftoverIsPartialToken
  CertificateIsTrue
  RefusesOnlyOthers
  AsksOnlyForMore
PROPERTIES
  EveryRequestIsAnswered
