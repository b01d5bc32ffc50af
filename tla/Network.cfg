SPECIFICATION NetSpec
CONSTANTS
  Ifs = {"n1"}
  Groups = {"g1", "g2", "g3"}
  NumGroups = 3
  JoinTmr = 3
  MaxResps = {1, 4}
  MaxUse = 2
INVARIANTS ArpQueues PbufsCounted ReassDatagramWhole FilterAndTimers
PROPERTIES ArpPendingEnds LeaveAnnounced GroupsDelayEnds QueueServed
