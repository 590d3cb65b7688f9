CONSTANTS
  g = g
  h = h
  delay = delay
  s1 = s1
  s2 = s2
  app = app
  thread = thread
  null = null
  Hard <- MCHard
  Soft <- MCSoft
  Delay <- delay
  Caller = {app}
  TimerThread <- thread
  None = null
  Uses <- StopUses
  Created <- MCCreated
  Times = {1, 2}
  TickRange = 12
  FirstTick = 0
  MaxLate = 1
SPECIFICATION Spec
PROPERTY StoppedNeverFires
