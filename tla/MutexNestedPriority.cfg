CONSTANTS
  idle = idle
  hi = hi
  mid = mid
  lo = lo
  m1 = m1
  m2 = m2
  null = null
  Thread <- PairThread
  Idle <- idle
  Prio <- MCPrio
  InitPrio <- MCInitPrio
  Boot <- MCBoot
  WaitList <- TwoMutexes
  Mutexes <- TwoMutexes
  NoThread = null
  User = {hi, lo}
  Sleepers = {hi, lo}
  Detacher = {}
  Times = {"forever"}
  Flag <- AllPrio
  MaxHold = 1
  MaxOwned = 2
SPECIFICATION Spec
INVARIANT PriorityRestored
CHECK_DEADLOCK FALSE
