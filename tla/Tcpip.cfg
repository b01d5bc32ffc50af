SPECIFICATION FairSpec
CONSTANTS
  a1 = a1  a2 = a2  d1 = d1  k1 = k1  i1 = i1  b1 = b1
  Apps = {a1, a2}
  Drivers = {d1}
  Pkts = {k1}
  InpktMsgs = {i1}
  ApiMsgs = {b1}
  Capacity = 1
INVARIANTS HolderIsInside BlocksAccounted OwnersCounted
PROPERTIES CallbackHandled TimersRun
