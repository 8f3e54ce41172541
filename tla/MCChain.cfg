SPECIFICATION ChainSpec
CONSTANTS
  alice = alice
  bob = bob
  carol = carol
  Accounts <- MCAccounts
  Secrets <- MCSecrets
  Senders <- MCSenders
  Receiver = bob
  Deltas <- MCDeltas
  Fees <- MCFees
  Orders <- MCOrders
  Validator = Validator
  BlockLen = 2
  Kinds <- MCKinds
  MaxCalls = 4
  U = 4
  Order = 17
  None = None
  Keys <- MCKeys
  Fee <- MCFee
  NoKey = NoKey
  Capacity = 2
  MaxCopies = 2
INVARIANTS
  PoolInv
  MadeInOrderIsValid
  ValidConserves
  ValidIsSigned
PROPERTIES
  ReturnsHighest
  CallsReturn
  
