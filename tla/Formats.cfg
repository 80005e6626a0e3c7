SPECIFICATION Spec
CONSTANTS
  Items <- MCItems
  Alphabet <- MCAlphabet
  MaxUint64 <- MCMaxUint64
INVARIANTS
  ShownTextsAreExact
  PathTextFits
  BoxIsExact
