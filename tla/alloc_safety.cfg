SPECIFICATION FairSpec
CONSTANTS
  Obs = {o1, o2}
  NoObs = NoObs
  MaxAborts = 2
  MaxResets = 1
  MaxEnds = 1
INVARIANTS OneActive
PROPERTIES UndisturbedIsServed
CHECK_DEADLOCK FALSE
