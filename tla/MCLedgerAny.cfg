SPECIFICATION Spec
CONSTANTS
  Hashes = {h1, h2}
  Canon = canon
  Accounts <- Cousins
  Indices = {1}
  Values = {v}
  Zero = zero
  AnyValue = any
  NoAccount = none
  Own = own
  IdMod = 65536
  MaxOpened = 2
  CacheSize = 99
  Bounded = FALSE
  CountMod = 256
  Calls = {"create", "createOn", "delete", "remove", "prove", "chain", "justify", "justifyChain", "restart"}
SYMMETRY Symmetry
VIEW BareView
INVARIANTS
  FiledUnderOwnId
PROPERTIES
  BlocksIsolated
