\* Two channels and two timers.
SPECIFICATION FairSpec
CONSTANTS
  Channels = {c1, c2}
  Fds = {1, 2}
  Kinds = {"read", "error"}
  TimerIds = {t1, t2}
  NoTimer = NoTimer
  Requests <- MCRequests
  Readings <- MCReadings
  LastTimer = 1
  LastChannel = 1
  MaxEpollTimeout = 2
  IntLimit = 8
  MaxObjects = 2
  FirstSlots = 1
INVARIANTS
  TypeOK
  RegistrationsMatch
PROPERTIES
  NoStaleCall
  SleepsUntilDue
  TimersServed
  ReadyServed
