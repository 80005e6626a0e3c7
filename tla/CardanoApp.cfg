SPECIFICATION Spec
CONSTANTS
  Transactions <- MCTransactions
  Streams <- MCStreams
  MaxChunk = 2
  Indexes = {0, 1}
  STREAM_BUFFER_SIZE = 10
  LOVELACE_MAX_SUPPLY = 12
  VALUE_MIN_W1 = 4
  VALUE_MIN_W2 = 8
  VALUE_MIN_W4 = 32
  VALUE_MIN_W8 = 40
  NoUtxo = NoUtxo
  AmountMod = 32
  SIGN_MAX_INPUTS = 3
  SIGN_MAX_OUTPUTS = 2
  CountMod = 8
  WireCounts = {1, 2}
  WireAmounts = {2}
  RawAddresses <- MCRawAddresses
  Destinations <- MCDestinations
  WireWitnesses <- MCPaths
  WireUtxos <- MCUtxos
  WirePaths <- MCPaths
INVARIANTS
  ConfirmedFeeIsTrue
PROPERTIES
  FollowsProtocol
