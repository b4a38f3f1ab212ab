SPECIFICATION FairSpec
CONSTANTS
  Cards = {c1, c2}
  Attrs <- AllAttrs
  Plans <- AllPlans
  None = None
INVARIANTS TypeOK OnlyBadCardsAreRejected ImportedIsExact CardAndFacesAgree
PROPERTIES SameFaceKeepsItsId ImportIsIdempotent RerunRepairs
