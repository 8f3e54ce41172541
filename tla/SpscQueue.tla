----------------------------- MODULE SpscQueue ------------------------------
(***************************************************************************)
(* The lock-free ring of src/spsc.rs: the free functions push and pop, run *)
(* by one producer thread and one consumer thread.                         *)
(*                                                                         *)
(* head and tail are the two atomic counters. They count modulo IndexMod   *)
(* (2^64 in the program) because the code advances them with wrapping_add  *)
(* and compares them with wrapping_sub; a slot is found with % capacity.   *)
(* Each thread loads its own counter exactly and may see an OLD value of   *)
(* the other one: an Acquire load returns some value stored since the last *)
(* one it returned, not necessarily the newest.                            *)
(***************************************************************************)
EXTENDS Integers, Sequences

CONSTANTS
  Msgs,      \* the messages that can be sent
  NoMsg,     \* Option::None in a slot
  Capacity,  \* number of slots
  IndexMod   \* number of values of the counters: 2^64 for a usize

(* SpscQueue::new is called with capacities 256 and 128 (main.rs); they divide
   2^64. A ring without slots is allowed: it is always full and always empty. *)
ASSUME QueueAssumption ==
  /\ Capacity \in Nat
  /\ IndexMod \in Nat
  /\ Capacity < IndexMod
  /\ Capacity # 0 => \E k \in 1 .. IndexMod : IndexMod = k * Capacity
  /\ NoMsg \notin Msgs

VARIABLES
  head,      \* queue.head: next position to read, written by the consumer
  tail,      \* queue.tail: next position to write, written by the producer
  buffer,    \* queue.buffer: one Option<T> per slot
  pPc,       \* where the producer is inside push
  pMsg,      \* the message push was called with
  pHead,     \* the last value of head the producer loaded
  cPc,       \* where the consumer is inside pop
  cTail,     \* the last value of tail the consumer loaded
  cVal,      \* the value pop has taken out of its slot
  got        \* what the last completed pop returned

vars == <<head, tail, buffer, pPc, pMsg, pHead, cPc, cTail, cVal, got>>
prodVars == <<pPc, pMsg, pHead>>
consVars == <<cPc, cTail, cVal, got>>

Indices == 0 .. IndexMod - 1
Slots   == 0 .. Capacity - 1

(* wrapping_add(1) *)
Succ(i) == IF i + 1 = IndexMod THEN 0 ELSE i + 1

(* b.wrapping_sub(a): how far b is ahead of a *)
Dist(a, b) == IF a <= b THEN b - a ELSE b - a + IndexMod

(* index % capacity *)
Slot(i) == i % Capacity

Init ==
  /\ head = 0 /\ tail = 0
  /\ buffer = [s \in Slots |-> NoMsg]
  /\ pPc = "idle" /\ pMsg = NoMsg /\ pHead = 0
  /\ cPc = "idle" /\ cTail = 0 /\ cVal = NoMsg
  /\ got = NoMsg

-----------------------------------------------------------------------------
(* push(queue, value), in the producer's thread. *)

(* Mistake: one message too many is accepted. *)
FullOffByOne(h) == Dist(h, tail) > Capacity

(* tail.wrapping_sub(head) == queue.capacity *)
Full(h) == Dist(h, tail) = Capacity

(* Load both counters. A full queue gives the message back at once. *)
PushLoad(m) ==
  /\ pPc = "idle"
  /\ \E h \in Indices :
       /\ Dist(pHead, h) <= Dist(pHead, head)
       /\ pHead' = h
       /\ IF Full(h)
            THEN UNCHANGED <<pPc, pMsg>>
            ELSE pPc' = "write" /\ pMsg' = m
  /\ UNCHANGED <<head, tail, buffer>> /\ UNCHANGED consVars

(* buffer[tail % capacity] := Some(value), a plain store that drops whatever
   the slot held. *)
PushWrite ==
  /\ pPc = "write"
  /\ buffer' = [buffer EXCEPT ![Slot(tail)] = pMsg]
  /\ pPc' = "store"
  /\ UNCHANGED <<head, tail, pMsg, pHead>> /\ UNCHANGED consVars

(* Publish the slot with a Release store of the next tail. *)
PushStore ==
  /\ pPc = "store"
  /\ tail' = Succ(tail)
  /\ pPc' = "idle"
  /\ pMsg' = NoMsg
  /\ UNCHANGED <<head, buffer, pHead>> /\ UNCHANGED consVars

-----------------------------------------------------------------------------
(* pop(queue), in the consumer's thread. *)

(* Load both counters. Equal counters mean an empty queue: return None. *)
PopLoad ==
  /\ cPc = "idle"
  /\ \E t \in Indices :
       /\ Dist(cTail, t) <= Dist(cTail, tail)
       /\ cTail' = t
       /\ IF head = t
            THEN got' = NoMsg /\ UNCHANGED cPc
            ELSE cPc' = "take" /\ UNCHANGED got
  /\ UNCHANGED <<head, tail, buffer, cVal>> /\ UNCHANGED prodVars

(* Mistake: the message is copied out and stays in its slot. *)
PopCopy ==
  /\ cPc = "take"
  /\ cVal' = buffer[Slot(head)]
  /\ cPc' = "store"
  /\ UNCHANGED <<head, tail, buffer, cTail, got>> /\ UNCHANGED prodVars

(* take() on buffer[head % capacity] leaves None in the slot. *)
PopTake ==
  /\ cPc = "take"
  /\ cVal' = buffer[Slot(head)]
  /\ buffer' = [buffer EXCEPT ![Slot(head)] = NoMsg]
  /\ cPc' = "store"
  /\ UNCHANGED <<head, tail, cTail, got>> /\ UNCHANGED prodVars

(* Mistake: everything seen so far is freed, not one slot. *)
PopStoreAll ==
  /\ cPc = "store"
  /\ head' = cTail
  /\ got' = cVal
  /\ cVal' = NoMsg
  /\ cPc' = "idle"
  /\ UNCHANGED <<tail, buffer, cTail>> /\ UNCHANGED prodVars

(* Free the slot with a Release store of the next head and return. *)
PopStore ==
  /\ cPc = "store"
  /\ head' = Succ(head)
  /\ got' = cVal
  /\ cVal' = NoMsg
  /\ cPc' = "idle"
  /\ UNCHANGED <<tail, buffer, cTail>> /\ UNCHANGED prodVars

Producer == (\E m \in Msgs : PushLoad(m)) \/ PushWrite \/ PushStore
Consumer == PopLoad \/ PopTake \/ PopStore

Next == Producer \/ Consumer

Spec == Init /\ [][Next]_vars

-----------------------------------------------------------------------------
(* Every variable has the type its field or local has in spsc.rs. *)
TypeOK ==
  /\ head \in Indices /\ tail \in Indices
  /\ buffer \in [Slots -> Msgs \cup {NoMsg}]
  /\ pPc \in {"idle", "write", "store"}
  /\ pMsg \in Msgs \cup {NoMsg}
  /\ pHead \in Indices
  /\ cPc \in {"idle", "take", "store"}
  /\ cTail \in Indices
  /\ cVal \in Msgs \cup {NoMsg}
  /\ got \in Msgs \cup {NoMsg}

(* The unsynchronised accesses of the UnsafeCell slots never race: when push
   is about to store into a slot and pop is about to take from one, they are
   different slots. *)
NoDataRace ==
  pPc = "write" /\ cPc = "take" => Slot(tail) # Slot(head)

(* A push never drops a message that was accepted and not popped: the slot it
   is about to assign holds None. *)
NoOverwrite ==
  pPc = "write" => buffer[Slot(tail)] = NoMsg

(* A pop that found the queue non-empty takes a message: it never advances
   head over a slot that holds None, which its caller would read as "empty". *)
TakeFindsMessage ==
  cPc = "take" => buffer[Slot(head)] # NoMsg

(* Positions published by push and not yet freed by pop. *)
InWindow(i) == Dist(head, i) < Dist(head, tail)

(* pHead <= head <= cTail <= tail on the circle of counters, never more than
   Capacity apart. *)
CountersOrdered ==
  /\ Dist(pHead, tail) <= Capacity
  /\ Dist(pHead, head) <= Dist(pHead, tail)
  /\ Dist(head, cTail) <= Dist(head, tail)
  /\ pPc # "idle" => Dist(pHead, tail) < Capacity
  /\ cPc # "idle" => head # cTail

(* A slot holds a message exactly when its position is in the window, apart
   from the slot each thread is working on. *)
SlotContents ==
  /\ \A i \in Indices :
       InWindow(i) /\ ~(i = head /\ cPc = "store") => buffer[Slot(i)] \in Msgs
  /\ \A s \in Slots :
       (\A i \in Indices : InWindow(i) => Slot(i) # s)
         => buffer[s] = NoMsg \/ (pPc = "store" /\ s = Slot(tail))

(* What the two threads carry between their steps. *)
InHand ==
  /\ pPc # "idle" => pMsg \in Msgs
  /\ pPc = "store" => buffer[Slot(tail)] = pMsg
  /\ cPc = "store" => cVal \in Msgs /\ buffer[Slot(head)] = NoMsg

(* The inductive invariant behind the four properties above: the counters
   stay ordered and the slots between them, and only those, are filled. *)
IndInv == TypeOK /\ CountersOrdered /\ SlotContents /\ InHand

(* The messages that are in the queue: published and not yet returned, oldest
   first. A pop takes effect when it stores head, so a message that has left
   its slot for cVal still counts. *)
Position(k) ==
  IF head + (k - 1) < IndexMod THEN head + (k - 1) ELSE head + (k - 1) - IndexMod

Queue ==
  [k \in 1 .. Dist(head, tail) |->
     IF k = 1 /\ cPc = "store" THEN cVal ELSE buffer[Slot(Position(k))]]

Abstract == INSTANCE Fifo WITH items <- Queue

(* The ring implements the bounded FIFO: no message is lost, duplicated or
   reordered, whatever the interleaving and across the wrap of the counters. *)
ImplementsFifo == Abstract!Spec
=============================================================================
