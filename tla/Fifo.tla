-------------------------------- MODULE Fifo --------------------------------
(***************************************************************************)
(* What a bounded single-producer single-consumer queue promises: the      *)
(* messages accepted by push come out of pop once each, in the order they  *)
(* went in, and at most Capacity of them are waiting.                      *)
(* SpscQueue is shown to implement this specification.                     *)
(***************************************************************************)
EXTENDS Naturals, Sequences

CONSTANTS
  Msgs,      \* the messages that can be sent
  NoMsg,     \* Option::None
  Capacity   \* how many messages the queue can hold

VARIABLES
  items,     \* the messages accepted and not yet returned, oldest first
  got        \* what the last completed pop returned

vars == <<items, got>>

Init ==
  /\ items = <<>>
  /\ got = NoMsg

(* push returns Ok *)
Push(m) ==
  /\ Len(items) < Capacity
  /\ items' = Append(items, m)
  /\ UNCHANGED got

(* pop returns Some(message) *)
PopSome ==
  /\ items # <<>>
  /\ got' = Head(items)
  /\ items' = Tail(items)

(* pop returns None: the caller may not have heard yet of the last push, so
   this is allowed on a queue that holds messages *)
PopNone ==
  /\ got' = NoMsg
  /\ UNCHANGED items

Next == (\E m \in Msgs : Push(m)) \/ PopSome \/ PopNone

Spec == Init /\ [][Next]_vars
=============================================================================
