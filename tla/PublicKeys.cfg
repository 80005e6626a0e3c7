SPECIFICATION FairSpec
CONSTANTS
  WirePaths <- MCWirePaths
INVARIANTS
  TypeOK
  InternalAssertionsHold
  KeyExportIsConfirmed
  AddressExportIsConfirmed
  ShownAddressIsAcknowledged
PROPERTIES
  EveryRequestIsAnswered
