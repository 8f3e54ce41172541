SPECIFICATION Spec
CONSTANTS
  Hashes = {h1}
  Canon = canon
  Accounts <- Family
  Indices = {1}
  Values = {v}
  Zero = zero
  AnyValue = any
  NoAccount = none
  Own = own
  IdMod = 65536
  MaxOpened = 2
  CacheSize = 4
  Bounded = TRUE
  CountMod = 256
  Calls = {"create", "replace", "prove"}
SYMMETRY Symmetry
VIEW StoreView
INVARIANTS
  NoStrayNodes
PROPERTIES
  KeepsStates
