SPECIFICATION Spec
CONSTANTS
  u1 = u1
  u2 = u2
  NoUtxo = NoUtxo
  Utxos <- OneUtxo
  AmountOf <- OneAmount
  MaxSupply = 5
  AmountMod = 16
  SIGN_MAX_INPUTS = 2
  SIGN_MAX_OUTPUTS = 2
  CountMod = 8
  WireCounts = {1}
  WireAmounts = {1}
  RawAddresses <- MCRawAddresses
  Destinations <- FewDestinations
  WireWitnesses <- FewWitnesses
INVARIANTS
  OutOfOrderIsAnError
