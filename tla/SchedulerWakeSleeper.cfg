CONSTANTS
  idle = idle
  main = main
  a = a
  b = b
  Thread <- MCThread
  Idle <- idle
  Prio <- MCPrio
  InitPrio <- ShareInitPrio
  WaitList <- MCWait
  Boot <- ShareBoot
  InitTick = 1
  MaxLock = 1
  Static = {}
  Calls <- WakeSleeperCalls
SPECIFICATION Spec
INVARIANT ResumesSuspended
