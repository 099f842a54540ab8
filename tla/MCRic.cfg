SPECIFICATION Spec
CONSTANTS
  MaxIters = 3
  MaxUes = 3
  ReportFit = 2
  ReplyFit = 1
  MaxPool = 4
INVARIANTS FailureNeedsCause BuffersBack
PROPERTIES ImplementsControlLoop EveryLoopCloses
CHECK_DEADLOCK FALSE
