CONSTANTS
  idle = idle
  hi = hi
  a = a
  b = b
  Thread <- MCThread
  Idle <- idle
  Prio <- MCPrio
  InitPrio <- MCInitPrio
  WaitList <- MCWait
  Boot <- MCBoot
  User <- MCUser
  Detacher = {a}
  Handlers = TRUE
  Times = {"forever", "timed"}
  Resets = {0, 1}
  Flags = {"FIFO", "PRIO"}
  InitValue = 1
  ValueRange = 65536
  MaxValue = 2
SPECIFICATION Spec
INVARIANTS
  TypeOK
  PermitsConserved
  NoWaiterWhileAvailable
  WakeOrder
PROPERTY ImplementsSemaphore
