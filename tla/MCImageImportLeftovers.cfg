SPECIFICATION Spec
CONSTANTS
  Importers = {p1}
  CodeOf <- OwnSets
  FacesOf <- FacesOfCards
  Setups <- Created
INVARIANTS LeftoversDoNoHarm
