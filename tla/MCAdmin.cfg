SPECIFICATION Spec
CONSTANTS
  Ips <- MCIps
  Bootstraps <- MCIps
  Threshold = 20
  ScoreMod = 80
  MaxOpen = 1
  MaxDials = 1
  Bodies <- MCBodies
  Requests <- MCRequests
  HeaderLen = 2
  PadLen = 7
  MaxRequests = 2
  MaxConns = 2
INVARIANTS
  
  Framed
PROPERTIES
  
  ScoresGrow
  ScoresSurvive
  
  
CHECK_DEADLOCK FALSE
