SPECIFICATION FairSpec
CONSTANTS
  w1 = w1
  w2 = w2
  Workers <- TwoWorkers
  Faults <- AllFaults
  MaxFaults = 2
  Inputs = 4
  MaxInFlight = 2
  WorkerPanic = WorkerPanic
  Missing = Missing
  Idle = Idle
INVARIANTS
  DriverConsistent
PROPERTIES
  DropCancels
  ImplementsContract
  EveryCallReturns
