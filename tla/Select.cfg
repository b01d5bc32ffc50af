SPECIFICATION FairSpec
CONSTANTS
  Threads = {"T"}
  Own <- OwnTwo
  Streams = {2}
  Accepted = {2}
  MboxSize = 2
  Patient = {"T"}
  Wants = {{"recv"}, {"recv", "send", "error"}}
INVARIANTS EventsCounted NoMissedEvent
PROPERTIES ReturnsReady SelectWakes
