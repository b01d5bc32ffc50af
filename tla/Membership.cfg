SPECIFICATION Spec
CONSTANTS
  Sockets = {"s", "t"}
  Netifs <- TwoNetifs
  Groups = {"g", "h"}
  NumGroups = 4
  MaxMemberships = 2
INVARIANTS CloseDropsMemberships
