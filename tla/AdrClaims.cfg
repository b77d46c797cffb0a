SPECIFICATION AdrSpec
SYMMETRY Symmetry
CONSTANTS
  Claimers = {s1, s2}
  Elsewhere = Elsewhere
  MaxAdr = 2
INVARIANTS
  OneHolderPerNumber
PROPERTIES
  NumberIsKept
