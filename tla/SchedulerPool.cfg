SPECIFICATION Spec
CONSTANTS
  None = None
  main_t = main_t
  w1 = w1
  j1 = j1
  j2 = j2
  f1 = f1
  f2 = f2
  f3 = f3
  f4 = f4
  Workers <- OneWorker
  Caller = main_t
  UseCaller = TRUE
  Fibers = {f1, f2, f3, f4}
  Jobs <- TwoJobs
  Pins <- PinWorker
  IOM = TRUE
  Waits <- BothWaits
  MaxYields = 2
  MaxStops = 2
  DoubleSchedule = TRUE
  LateSubmit = TRUE
SYMMETRY Symmetry
INVARIANT TypeOK
INVARIANT CountersExact
INVARIANT OnePlace
INVARIANT AssertsHold
PROPERTY IsJobPool
