SPECIFICATION FairSpec
CONSTANTS
  NumSizes = 1
  m_numSamples = 2
  PoolSize = 3
  Faults = {"late"}
PROPERTIES LateRunCompletes
CHECK_DEADLOCK FALSE
