SPECIFICATION FairSpec
CONSTANTS
  Importers = {p1, p2}
  CodeOf <- PairedSets
  FacesOf <- FacesOfCards
  Setups <- AllSetups
INVARIANTS TypeOK RowsHaveTheirFile DoneMeansSettled ReportAddsUp
  ReplacingNeedsNoCleanup
PROPERTIES LastRunSettles
