SPECIFICATION Spec
CONSTANTS
  Keys = {a}
  Documents <- SmallDocuments
INVARIANTS SuccessCoversDocument
