SPECIFICATION PortSpec
CONSTANTS
  t1 = t1  t2 = t2  t3 = t3  m1 = m1  Dead = Dead
  Callers = {t1, t2}
  MaxDepth = 2
INVARIANTS MutualExclusion SemWaits
PROPERTIES ImplementsSemaphore SemTokenTaken ProtProtectReturns MboxPostCompletes
