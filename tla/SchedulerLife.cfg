CONSTANTS
  idle = idle
  main = main
  a = a
  b = b
  Thread <- MCThread
  Idle <- idle
  Prio <- MCPrio
  InitPrio <- MCInitPrio
  WaitList <- MCWait
  Boot <- MCBoot
  InitTick = 2
  MaxLock = 2
  Static = {a}
  Calls <- LifeCalls
SPECIFICATION Spec
INVARIANTS
  TypeOK
  ThreadsQueuedOnce
  BitmapAgrees
  TimerOnlyWhileSuspended
  HighestRuns
  FreedIsGone
PROPERTIES
  TurnKept
  CriticalKeepsProcessor
