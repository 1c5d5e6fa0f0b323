SPECIFICATION Spec
CONSTANTS
  daily = daily
  once = once
  w1 = w1
  w2 = w2
  w3 = w3
  NoWorker = NoWorker
  Job <- MCJob
  OneShot <- MCOneShot
  Worker <- MCTwoWorkers
  MaxConcurrent = 1
  MaxResurrect = 2
  AlertAfter = 1
  PauseAfter = 2
  Grace = TRUE
  MaxCrashes = 2
  MaxCommands = 0
  Hazards <- ProcessEvents
INVARIANTS SlotsHold CrashSafe FailuresAreHeard
PROPERTIES LedgerSettles SlotComesFree
