SPECIFICATION ActorSpec
CONSTANTS
  NoMsg = NoMsg
  Msgs = {m1, m2}
  Capacity = 3
INVARIANTS
  NoFullStall
PROPERTIES
  RoomAgain
