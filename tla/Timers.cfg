SPECIFICATION FairSpec
CONSTANTS
  W = 8
  CyclicTimers <- OneCyclic
  Interval <- UnitIntervals
  Tcp = "tcp"
  OneShots = {"client"}
  MEMP_NUM_SYS_TIMEOUT = 3
  MaxLate = 2
INVARIANTS SleeptimeExact TimersArmed
PROPERTIES ServesExpired EveryTimerServed
