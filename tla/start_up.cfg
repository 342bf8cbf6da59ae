SPECIFICATION Spec
CONSTANTS
  Processes = {p1, p2}
  MaxCrashes = 1
INVARIANTS ListeningMeansSeeded AdminHasOnePassword
PROPERTY AllListen
CHECK_DEADLOCK FALSE
