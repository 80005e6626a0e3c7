SPECIFICATION FairSpec
CONSTANTS
  u1 = u1
  u2 = u2
  NoUtxo = NoUtxo
  Utxos <- OneUtxo
  AmountOf <- OneAmount
  MaxSupply = 5
  AmountMod = 16
  SIGN_MAX_INPUTS = 3
  SIGN_MAX_OUTPUTS = 3
  CountMod = 8
  WireCounts = {1, 2, 3}
  WireAmounts = {2, 15}
  RawAddresses <- MCRawAddresses
  Destinations <- AllDestinations
  WireWitnesses <- FewWitnesses
INVARIANTS
  HashIsWholeTransaction
  UserSawTransaction
  FeeIsExact
PROPERTIES
  EveryRequestIsAnswered
