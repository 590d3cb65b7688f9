CONSTANTS
  idle = idle
  hi = hi
  mid = mid
  lo = lo
  m1 = m1
  m2 = m2
  null = null
  Thread <- MCThread
  Idle <- idle
  Prio <- MCPrio
  InitPrio <- MCInitPrio
  Boot <- MCBoot
  WaitList <- OneMutex
  Mutexes <- OneMutex
  NoThread = null
  User <- MCUser
  Sleepers <- MCUser
  Detacher = {lo}
  Times = {"none", "forever", "timed"}
  Flag <- AllPrio
  MaxHold = 2
  MaxOwned = 2
SPECIFICATION FairSpec
INVARIANTS
  TypeOK
  MutualExclusion
  OwnedWhileWaitedFor
  OwnerInherits
  PriorityRestored

PROPERTY NoUnboundedInversion
