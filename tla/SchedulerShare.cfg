CONSTANTS
  idle = idle
  main = main
  a = a
  b = b
  Thread <- MCThread
  Idle <- idle
  Prio <- MCPrio
  InitPrio <- ShareInitPrio
  WaitList <- MCWait
  Boot <- ShareBoot
  InitTick = 2
  MaxLock = 1
  Static = {}
  Calls <- ShareCalls
SPECIFICATION FairSpec
PROPERTIES
  RoundRobin
  DefunctReaped
