SPECIFICATION BuffersSpec
CONSTANTS
  b1 = b1  b2 = b2  r1 = r1
  Threads = {"tcpip", "app"}
  Tcpip = "tcpip"
  Editors = {"tcpip"}
  PoolBlocks = {b1, b2}
  RefBlocks = {r1}
  BufSize = 1
  Lengths = {2}
  Cuts = {1}
SYMMETRY Symmetry
INVARIANTS RefsArePointers TotalsExact OneFreeOoseq HeapSane HeapBlocksKept
CHECK_DEADLOCK FALSE
