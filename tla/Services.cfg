CONSTANTS
  idle = idle
  hi = hi
  a = a
  b = b
  v1 = v1
  v2 = v2
  b1 = b1
  b2 = b2
  p1 = p1
  p2 = p2
  w1 = w1
  w2 = w2
  e1 = e1
  e2 = e2
  None = None
  Thread <- MCThread
  Idle <- idle
  Prio <- MCPrio
  InitPrio <- MCInitPrio
  WaitList <- MCWait
  Boot <- MCBoot
  Uses <- MCUses
  Mail = {v1, v2}
  MbSize = 2
  Message = {v1, v2}
  MqBlock <- MCBlock
  EvBit <- MCEvBit
  EvWants <- MCWants
  PoolBlock = {p1, p2}
  MaxPended = 4
  Datum = {v1, v2}
  DqSize = 2
  Lwm = 0
  IndexRange = 65536
  MaxPush = 4
  RbSize = 3
  Byte = {e1, e2}
  PipeByte = e1
  Burst = {2}
  WaitQueueName = {"reader", "writer", "serial"}
  Work = {w1, w2}
  HeapSize = 21
  Header = 3
  MinSize = 3
  Request = {3, 5, 8}
  Objects = 2
  MaxOwed = 1
  MaxTroubled = 1
  SrSize = 3
  SrByte = {e1, e2}
  SrCount = {2}
  SrFound = {1}
  RbbSize = 6
  RbbMax = 3
  RbbLen = {2, 3}
SPECIFICATION Spec
INVARIANTS
  TypeOK
  NobodyStranded
  MqBlocksConserved
  CpOnePerDone
  PpNobodyOversleeps
  BuffersSound
  WkSound
  HeapSound
  OnAnswersMatch
PROPERTIES
  QueuesInOrder
  EvBitsHandedOnce
SYMMETRY Symmetry
CHECK_DEADLOCK FALSE
