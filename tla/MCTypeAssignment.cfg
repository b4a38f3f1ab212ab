SPECIFICATION FairSpec
CONSTANTS
  Workers = {w1, w2, w3}
  Names = {1, 2, 3}
  Jobs <- AllJobs
  MaxConns = 2
INVARIANTS
  TypeOK NoDanglingAssignment AllOrNothing VictimsHaveNoCommonOrder
  DuplicatesAreInTheList
PROPERTIES EveryImporterEnds ImplementsAtomicMerge
