SPECIFICATION Spec
CONSTANTS
  Ids = {"a"}
  Length = 28
  Rooms = {12}
  MaxPbufs = 6
  NumReassdata = 2
  MaxAge = 2
INVARIANTS AllFragmentsReceived
