SPECIFICATION FairSpec
CONSTANTS
  Callers = {p1, p2}
  PartsOf <- TwoVersions
  Setups <- AllSetups
INVARIANTS TypeOK RequestsAreBounded BodiesAreClosed ArchivesAreRemoved SuccessReadsWhole
PROPERTIES LastRunLoads
