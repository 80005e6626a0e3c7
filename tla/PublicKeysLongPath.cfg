SPECIFICATION Spec
CONSTANTS
  WirePaths <- MCWirePaths
INVARIANTS
  DocumentedPathsAreServed
