------------------------------- MODULE MCChain ------------------------------
(***************************************************************************)
(* Two accounts that pay and one that is paid; four transactions that the  *)
(* payers can afford, three of them from the same balance; amounts, fees   *)
(* and balances around the limit of what can be paid.                      *)
(***************************************************************************)
EXTENDS Chain

CONSTANTS alice, bob, carol

MCAccounts == {alice, bob, carol}
MCSenders == {alice, carol}
MCSecrets ==
  [a \in MCAccounts |->
     CASE a = alice -> HiddenValueCommit(2, 5)
       [] a = bob -> HiddenValueCommit(0, 3)
       [] a = carol -> HiddenValueCommit(1, 8)]
One == HiddenValueCommit(1, 2)
Two == HiddenValueCommit(2, 4)
MCDeltas == {One, Two}
Three == HiddenValueCommit(3, 1)
LargeDeltas == {Three}
MCFees == {0, 1}
MCKinds == {"Ephemeral", "Hidden", "Regular"}

MCOrders ==
  <<[sender |-> alice, delta |-> One, fee |-> 0],
    [sender |-> carol, delta |-> One, fee |-> 0],
    [sender |-> alice, delta |-> One, fee |-> 1],
    [sender |-> alice, delta |-> Two, fee |-> 0]>>
MCKeys == DOMAIN MCOrders
MCFee == [k \in MCKeys |-> MCOrders[k].fee]
=============================================================================
