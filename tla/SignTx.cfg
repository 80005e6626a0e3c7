SPECIFICATION Spec
CONSTANTS
  u1 = u1
  u2 = u2
  NoUtxo = NoUtxo
  Utxos <- TwoUtxos
  AmountOf <- TwoAmounts
  MaxSupply = 5
  AmountMod = 16
  SIGN_MAX_INPUTS = 3
  SIGN_MAX_OUTPUTS = 2
  CountMod = 8
  WireCounts = {1, 2, 3, 8}
  WireAmounts = {2, 15}
  RawAddresses <- MCRawAddresses
  Destinations <- AllDestinations
  WireWitnesses <- AllWitnesses
INVARIANTS
  TypeOK
  OneAnswerPerRequest
  NoStaleScreen
  InternalAssertionsHold
  HashReleasedOnlyConfirmed
  SignsOnlyConfirmedOrZero
  UnusualWitnessIsConfirmed
  WitnessBudget
  InputsAreCertified
PROPERTIES
  ErrorEndsCall
  NeverAnswersTwice
  ImplementsSession
