SPECIFICATION Spec
SYMMETRY ActorSymmetry
CONSTANTS
  Sessions = {s1, s2}
  Builders = {s1}
  Actors = {a1, a2}
  Fetched <- Nothing
  None = None
INVARIANTS
  OneSessionPerBranch

  
