SPECIFICATION Spec
CONSTANTS
  PrefixLen = 2
  BodyLen = 2
  SockCap = 5
  Ids = {1, 2}
  MaxSends = 3
  MaxDials = 2
  Env = {"data"}
CHECK_DEADLOCK FALSE
PROPERTY SynWritten
