SPECIFICATION Spec
CONSTANTS
  NoMsg = NoMsg
  Msgs = {m1, m2}
  Capacity = 3
  IndexMod = 6
INVARIANTS
  NoDataRace
  IndInv
PROPERTIES
  ImplementsFifo
