SPECIFICATION FairSpec
CONSTANTS
  Obs = {o1, o2, o3}
  NoObs = NoObs
  MaxAborts = 0
  MaxResets = 0
  MaxEnds = 0
PROPERTIES WaitingIsServed
CHECK_DEADLOCK FALSE
