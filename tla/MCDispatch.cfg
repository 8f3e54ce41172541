SPECIFICATION Spec
CONSTANTS
  Actors = {blockchain, social}
  Stranger = stranger
  Ids = {1, 2, 3}
  Capacity = 1
  MaxEvents = 1
  MaxSent = 3
INVARIANTS
  NothingLost
  OrderKept

  
