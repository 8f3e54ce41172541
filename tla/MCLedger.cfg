SPECIFICATION Spec
CONSTANTS
  Hashes = {h1, h2}
  Canon = canon
  Accounts <- Siblings
  Indices = {1}
  Values = {v}
  Zero = zero
  AnyValue = any
  NoAccount = none
  Own = own
  IdMod = 65536
  MaxOpened = 3
  CacheSize = 99
  Bounded = FALSE
  CountMod = 256
  Calls = {"create", "prove", "chain", "justify"}
SYMMETRY Symmetry
VIEW StoreView

  
PROPERTIES
  KeepsStates
