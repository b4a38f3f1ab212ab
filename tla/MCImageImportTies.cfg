SPECIFICATION Spec
CONSTANTS
  Importers = {p1}
  CodeOf <- SharedSet
  FacesOf <- FacesOfCards
  Setups <- OneByOne
INVARIANTS AllCardsAreProcessed
