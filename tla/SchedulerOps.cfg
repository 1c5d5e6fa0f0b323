SPECIFICATION Spec
CONSTANTS
  daily = daily
  once = once
  w1 = w1
  w2 = w2
  w3 = w3
  NoWorker = NoWorker
  Job <- MCJob
  OneShot <- MCOneShot
  Worker <- MCTwoWorkers
  MaxConcurrent = 1
  MaxResurrect = 2
  AlertAfter = 0
  PauseAfter = 1
  Grace = FALSE
  MaxCrashes = 0
  MaxCommands = 1
  Hazards <- OperatorEvents
INVARIANTS OwnShareHeld
