CONSTANTS
  idle = idle
  hi = hi
  a = a
  b = b
  Thread <- MCThread
  Idle <- idle
  Prio <- MCPrio
  InitPrio <- MCInitPrio
  WaitList <- MCWait
  Boot <- MCBoot
  User <- MCUser
  Detacher = {a}
  Handlers = FALSE
  Times = {"forever", "timed"}
  Resets = {0, 1}
  Flags = {"FIFO"}
  InitValue = 1
  ValueRange = 65536
  MaxValue = 2
SPECIFICATION Spec
INVARIANT ResumeAllFindsWaiter
CHECK_DEADLOCK FALSE
