SPECIFICATION FairSpec
CONSTANTS
  t1 = t1
  t2 = t2
  None = None
  Timers <- MCTimers
  Prereserved <- MCPrereserved
  MaxDuration = 2
  TimeMod = 3
  WheelSize = 1
  QueueSize = 1
  MaxCmds <- MCMaxCmds
  Settable = {0, 2}
INVARIANTS RunCarriedOnce TimeoutOnTime HandlesValid
PROPERTIES KeepsContract RunEnds
