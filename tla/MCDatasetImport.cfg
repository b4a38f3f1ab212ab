SPECIFICATION FairSpec
CONSTANTS
  Keys = {a, b}
  Documents <- AllDocuments
INVARIANTS
  TypeOK SuccessIsComplete CardsAreAssembledOnce WellFormedIsAccepted
  OneWorkerPerCard WaitLeavesNothingBehind
PROPERTIES ImportReturns WorkerErrorSurfaces ImplementsContract
