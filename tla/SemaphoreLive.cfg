CONSTANTS
  idle = idle
  hi = hi
  a = a
  b = b
  Thread <- MCThread
  Idle <- idle
  Prio <- MCPrio
  InitPrio <- MCInitPrio
  WaitList <- MCWait
  Boot <- MCBoot
  User <- MCUser
  Detacher = {}
  Handlers = TRUE
  Times = {"forever", "timed"}
  Resets = {}
  Flags = {"FIFO", "PRIO"}
  InitValue = 0
  ValueRange = 65536
  MaxValue = 1
SPECIFICATION FairSpec
PROPERTIES
  TimedTakeReturns
  FifoWaiterServed
