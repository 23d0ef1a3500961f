SPECIFICATION LiveSpec
CONSTANTS
  h1 = h1
  h2 = h2
  t1 = t1
  t2 = t2
  Hosts <- MCHosts
  Terminals <- MCTerminals
  Scenes <- MCScenes
  Queue = 1
  Room = 1
  MaxConns = 3
CHECK_DEADLOCK FALSE
PROPERTY StopAlwaysEnds
