SPECIFICATION FairSpec
CONSTANTS
  Importers = {p1, p2}
  Codes = {"s1", "s2"}
  Attrs = {"x", "y"}
  Names = {"n", "m"}
  Blocks = {"b1", "b2"}
  Setups <- AllSetups
  NoBlock = NoBlock
  NoRow = NoRow
INVARIANTS TypeOK ImportedIsExact OnlyBadSetsAreRefused SomeoneGetsThrough
PROPERTIES LastCallRepairs
