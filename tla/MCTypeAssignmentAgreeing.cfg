SPECIFICATION Spec
CONSTANTS
  Workers = {w1, w2}
  Names = {1, 2, 3}
  Jobs <- AgreeingJobs
  MaxConns = 2
INVARIANTS AgreeingListsDoNotDeadlock
