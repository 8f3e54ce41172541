-------------------------- MODULE SpscQueue_proofs --------------------------
(***************************************************************************)
(* SpscQueue is correct for every capacity, every counter width that is a  *)
(* multiple of it and every set of messages: the accesses of the slots     *)
(* never race, no accepted message is overwritten, a pop of a non-empty    *)
(* queue finds a message, and the ring implements the bounded FIFO.        *)
(***************************************************************************)
EXTENDS SpscQueue, SequenceTheorems, TLAPS

(* A remainder by a positive number lies below it. *)
LEMMA ModRange ==
  ASSUME NEW a \in Nat, NEW c \in Nat \ {0}
  PROVE  a % c \in 0 .. c - 1
OBVIOUS

(* Division with remainder. *)
LEMMA DivMod ==
  ASSUME NEW a \in Nat, NEW c \in Nat \ {0}
  PROVE  \E q \in Nat : a = q * c + (a % c)
<1>1. a = (a \div c) * c + (a % c)
  OBVIOUS
<1>2. a \div c \in Nat
  OBVIOUS
<1>3. QED
  BY <1>1, <1>2

(* Two numbers less than c apart have different remainders by c. *)
LEMMA ModDistinct ==
  ASSUME NEW a \in Nat, NEW c \in Nat \ {0}, NEW d \in 1 .. c - 1
  PROVE  a % c # (a + d) % c
<1>1. SUFFICES ASSUME a % c = (a + d) % c PROVE FALSE
  OBVIOUS
<1>2. PICK q \in Nat : a = q * c + (a % c)
  BY DivMod
<1>3. PICK p \in Nat : a + d = p * c + ((a + d) % c)
  <2>1. a + d \in Nat
    OBVIOUS
  <2>2. QED
    BY <2>1, DivMod
<1>4. d = (p - q) * c
  BY <1>1, <1>2, <1>3
<1>5. CASE p - q <= 0
  BY <1>4, <1>5
<1>6. CASE p - q >= 1
  BY <1>4, <1>6
<1>7. QED
  BY <1>5, <1>6

(* A remainder is determined by the numbers below the divisor. *)
LEMMA ModUnique ==
  ASSUME NEW c \in Nat \ {0}, NEW q \in Nat, NEW p \in Nat,
         NEW r \in 0 .. c - 1, NEW t \in 0 .. c - 1,
         q * c + r = p * c + t
  PROVE  r = t
<1>1. t - r = (q - p) * c
  OBVIOUS
<1>2. CASE q - p = 0
  BY <1>1, <1>2
<1>3. CASE q - p >= 1
  <2>1. (q - p) * c >= c
    BY <1>3
  <2>2. QED
    BY <1>1, <2>1
<1>4. CASE q - p <= -1
  <2>1. (q - p) * c <= -c
    BY <1>4
  <2>2. QED
    BY <1>1, <2>1
<1>5. QED
  BY <1>2, <1>3, <1>4

(* Adding a multiple of the divisor keeps the remainder. *)
LEMMA ModShift ==
  ASSUME NEW a \in Nat, NEW c \in Nat \ {0}, NEW k \in Nat
  PROVE  (a + k * c) % c = a % c
<1>1. k * c \in Nat /\ a + k * c \in Nat
  OBVIOUS
<1>2. PICK q \in Nat : a = q * c + (a % c)
  BY DivMod
<1>3. PICK p \in Nat : a + k * c = p * c + ((a + k * c) % c)
  BY <1>1, DivMod
<1>4. a + k * c = (q + k) * c + (a % c)
  BY <1>2
<1>5. (a + k * c) % c \in 0 .. c - 1 /\ a % c \in 0 .. c - 1
  BY <1>1, ModRange
<1>6. q + k \in Nat
  OBVIOUS
<1> DEFINE r == a % c
           t == (a + k * c) % c
<1>7. (q + k) * c + r = p * c + t /\ r \in 0 .. c - 1 /\ t \in 0 .. c - 1
  BY <1>3, <1>4, <1>5
<1> HIDE DEF r, t
<1>8. r = t
  BY <1>6, <1>7, ModUnique
<1>9. QED
  BY <1>8 DEF r, t

-----------------------------------------------------------------------------
(* The counters and their arithmetic. *)

(* Counters and their distances stay in range. *)
LEMMA IndexArith ==
  /\ IndexMod \in Nat \ {0}
  /\ Capacity \in Nat
  /\ Capacity < IndexMod
BY QueueAssumption

(* Positions that are less than a ring apart use different slots, also when
   the counter wraps between them. *)
LEMMA SlotDistinct ==
  ASSUME NEW i \in Indices, NEW j \in Indices,
         i # j, Dist(i, j) < Capacity
  PROVE  Slot(i) # Slot(j)
<1>1. Capacity \in Nat \ {0} /\ i \in Nat /\ j \in Nat
  BY IndexArith DEF Dist, Indices
<1>2. CASE i <= j
  <2>1. j - i \in 1 .. Capacity - 1 /\ j = i + (j - i)
    BY <1>1, <1>2, IndexArith DEF Dist, Indices
  <2>2. i % Capacity # (i + (j - i)) % Capacity
    BY <1>1, <2>1, ModDistinct
  <2>3. QED
    BY <2>1, <2>2 DEF Slot
<1>3. CASE j < i
  <2>1. PICK k \in 1 .. IndexMod : IndexMod = k * Capacity
    BY <1>1, QueueAssumption
  <2>2. j + IndexMod - i \in 1 .. Capacity - 1 /\ j + IndexMod = i + (j + IndexMod - i)
    BY <1>1, <1>3, IndexArith DEF Dist, Indices
  <2>3. i % Capacity # (i + (j + IndexMod - i)) % Capacity
    BY <1>1, <2>2, ModDistinct
  <2>4. (j + k * Capacity) % Capacity = j % Capacity
    <3>1. k \in Nat
      BY <2>1, IndexArith
    <3>2. QED
      BY <1>1, <3>1, ModShift
  <2>5. QED
    BY <2>1, <2>2, <2>3, <2>4 DEF Slot
<1>4. QED
  BY <1>1, <1>2, <1>3

(* A counter selects a slot of the buffer. *)
LEMMA SlotType == ASSUME NEW i \in Indices, Capacity # 0 PROVE Slot(i) \in Slots
BY IndexArith, ModRange DEF Indices, Slots, Slot

(* What the order of the counters says about the slots in use: the slot push
   may write differs from every slot in the window, and the slot pop may take
   from differs from every other slot in the window. *)
LEMMA WindowSlots ==
  ASSUME TypeOK, CountersOrdered
  PROVE  /\ Dist(head, tail) <= Capacity
         /\ pPc # "idle" => /\ Dist(head, tail) < Capacity
                            /\ \A i \in Indices : InWindow(i) => Slot(i) # Slot(tail)
         /\ cPc # "idle" => InWindow(head)
         /\ \A i \in Indices : InWindow(i) /\ i # head => Slot(i) # Slot(head)
<1> USE IndexArith DEF TypeOK, Indices
<1>1. Dist(head, tail) <= Dist(pHead, tail)
  BY DEF CountersOrdered, Dist
<1>2. Dist(head, tail) <= Capacity
  BY <1>1 DEF CountersOrdered, Dist
<1>3. ASSUME pPc # "idle", NEW i \in Indices, InWindow(i)
      PROVE  Dist(head, tail) < Capacity /\ Slot(i) # Slot(tail)
  <2>1. Dist(head, tail) < Capacity
    BY <1>1, <1>3 DEF CountersOrdered, Dist
  <2>2. i # tail /\ Dist(i, tail) < Capacity
    BY <1>3, <2>1 DEF InWindow, Dist
  <2>3. QED
    BY <2>1, <2>2, SlotDistinct
<1>4. pPc # "idle" => Dist(head, tail) < Capacity
  BY <1>1 DEF CountersOrdered, Dist
<1>5. cPc # "idle" => InWindow(head)
  BY DEF CountersOrdered, InWindow, Dist
<1>6. ASSUME NEW i \in Indices, InWindow(i), i # head
      PROVE  Slot(i) # Slot(head)
  <2>1. Dist(head, i) < Capacity
    BY <1>2, <1>6 DEF InWindow, Dist
  <2>2. QED
    BY <1>6, <2>1, SlotDistinct
<1>7. QED
  BY <1>2, <1>3, <1>4, <1>5, <1>6

-----------------------------------------------------------------------------
(* SpscQueue::new makes an empty ring. *)
LEMMA InitIndInv == Init => IndInv
BY QueueAssumption, IndexArith
   DEF Init, IndInv, TypeOK, CountersOrdered, SlotContents, InHand,
       Indices, Slots, Dist, InWindow

(* Every step of push and of pop preserves the invariant. *)
LEMMA StepIndInv == IndInv /\ [Next]_vars => IndInv'
<1> SUFFICES ASSUME IndInv, [Next]_vars PROVE IndInv'
  OBVIOUS
<1> USE IndexArith DEF IndInv
<1>0. /\ Dist(head, tail) <= Capacity
      /\ pPc # "idle" => /\ Dist(head, tail) < Capacity
                         /\ \A i \in Indices : InWindow(i) => Slot(i) # Slot(tail)
      /\ cPc # "idle" => InWindow(head)
      /\ \A i \in Indices : InWindow(i) /\ i # head => Slot(i) # Slot(head)
  BY WindowSlots
<1>a. head \in Indices /\ tail \in Indices
  BY DEF TypeOK
<1>1. ASSUME NEW m \in Msgs, PushLoad(m) PROVE IndInv'
  <2>1. PICK h \in Indices :
          /\ Dist(pHead, h) <= Dist(pHead, head)
          /\ pHead' = h
          /\ IF Full(h) THEN UNCHANGED <<pPc, pMsg>> ELSE pPc' = "write" /\ pMsg' = m
    BY <1>1 DEF PushLoad
  <2>2. TypeOK'
    BY <1>1, <2>1 DEF TypeOK, PushLoad, consVars
  <2>3. CountersOrdered'
    BY <1>1, <2>1 DEF TypeOK, PushLoad, consVars, CountersOrdered, Full, Dist, Indices
  <2>4. SlotContents' /\ InHand'
    BY <1>1, <2>1 DEF TypeOK, PushLoad, consVars, SlotContents, InHand, InWindow, Dist
  <2>5. QED
    BY <2>2, <2>3, <2>4
<1>2. ASSUME PushWrite PROVE IndInv'
  <2>1. Slot(tail) \in Slots
    BY <1>0, <1>2, <1>a, SlotType DEF PushWrite, Dist, Indices
  <2>2. TypeOK'
    BY <1>2, <2>1 DEF TypeOK, PushWrite, consVars, InHand
  <2>3. CountersOrdered'
    BY <1>2 DEF PushWrite, consVars, CountersOrdered, Dist
  <2>4. SlotContents'
    BY <1>0, <1>2, <2>1 DEF TypeOK, PushWrite, consVars, SlotContents, InWindow, Dist
  <2>5. InHand'
    BY <1>0, <1>2, <2>1 DEF TypeOK, PushWrite, consVars, InHand
  <2>6. QED
    BY <2>2, <2>3, <2>4, <2>5
<1>3. ASSUME PushStore PROVE IndInv'
  <2>0. /\ tail' = Succ(tail) /\ tail' \in Indices
        /\ Dist(pHead, tail') = Dist(pHead, tail) + 1
        /\ Dist(head, tail') = Dist(head, tail) + 1
    BY <1>0, <1>3 DEF TypeOK, CountersOrdered, PushStore, Succ, Dist, Indices
  <2>1. \A i \in Indices : InWindow(i)' <=> InWindow(i) \/ i = tail
    BY <1>3, <1>a, <2>0 DEF PushStore, InWindow, Dist, Indices
  <2>2. TypeOK'
    BY <1>3, <2>0 DEF TypeOK, PushStore, consVars
  <2>3. CountersOrdered'
    BY <1>3, <2>0 DEF TypeOK, PushStore, consVars, CountersOrdered, Dist, Indices
  <2>4. SlotContents'
    BY <1>3, <1>a, <2>1 DEF PushStore, consVars, SlotContents, InHand, Slot
  <2>5. InHand'
    BY <1>3 DEF PushStore, consVars, InHand, Slot
  <2>6. QED
    BY <2>2, <2>3, <2>4, <2>5
<1>4. ASSUME PopLoad PROVE IndInv'
  <2>1. PICK t \in Indices :
          /\ Dist(cTail, t) <= Dist(cTail, tail)
          /\ cTail' = t
          /\ IF head = t THEN got' = NoMsg /\ UNCHANGED cPc ELSE cPc' = "take" /\ UNCHANGED got
    BY <1>4 DEF PopLoad
  <2>2. TypeOK'
    BY <1>4, <2>1 DEF TypeOK, PopLoad, prodVars
  <2>3. CountersOrdered'
    BY <1>4, <2>1 DEF TypeOK, PopLoad, prodVars, CountersOrdered, Dist, Indices
  <2>4. SlotContents' /\ InHand'
    BY <1>4, <2>1 DEF PopLoad, prodVars, SlotContents, InHand, InWindow, Dist, Slot
  <2>5. QED
    BY <2>2, <2>3, <2>4
<1>5. ASSUME PopTake PROVE IndInv'
  <2>1. InWindow(head) /\ Slot(head) \in Slots
    BY <1>0, <1>5, <1>a, SlotType DEF PopTake, InWindow, Dist, Indices
  <2>2. TypeOK'
    BY <1>5, <2>1 DEF TypeOK, PopTake, prodVars
  <2>3. CountersOrdered'
    BY <1>5 DEF PopTake, prodVars, CountersOrdered, Dist
  <2>4. SlotContents'
    BY <1>0, <1>5, <1>a, <2>1 DEF TypeOK, PopTake, prodVars, SlotContents, InWindow, Dist, Slot
  <2>5. buffer[Slot(head)] \in Msgs
    BY <1>5, <1>a, <2>1 DEF PopTake, SlotContents
  <2>6. InHand'
    BY <1>0, <1>5, <1>a, <2>1, <2>5 DEF TypeOK, PopTake, prodVars, InHand, Slot
  <2>7. QED
    BY <2>2, <2>3, <2>4, <2>6
<1>6. ASSUME PopStore PROVE IndInv'
  <2>0. /\ head' = Succ(head) /\ head' \in Indices
        /\ Dist(head, tail) >= 1
        /\ Dist(head', tail) = Dist(head, tail) - 1
        /\ Dist(pHead, head') = Dist(pHead, head) + 1
        /\ Dist(head', cTail) = Dist(head, cTail) - 1
    BY <1>0, <1>6 DEF TypeOK, CountersOrdered, PopStore, InWindow, Succ, Dist, Indices
  <2>1. \A i \in Indices : InWindow(i)' <=> InWindow(i) /\ i # head
    BY <1>6, <1>a, <2>0 DEF PopStore, InWindow, Succ, Dist, Indices
  <2>2. TypeOK'
    BY <1>6, <2>0 DEF TypeOK, PopStore, prodVars
  <2>3. CountersOrdered'
    BY <1>6, <2>0 DEF TypeOK, PopStore, prodVars, CountersOrdered, Dist, Indices
  <2>4. SlotContents'
    <3>1. ASSUME NEW i \in Indices, InWindow(i)' PROVE buffer'[Slot(i)] \in Msgs
      BY <1>6, <2>1, <3>1 DEF PopStore, SlotContents
    <3>2. ASSUME NEW s \in Slots, \A i \in Indices : InWindow(i)' => Slot(i) # s
          PROVE  buffer'[s] = NoMsg \/ (pPc' = "store" /\ s = Slot(tail'))
      <4>1. CASE s = Slot(head)
        BY <1>6, <4>1 DEF PopStore, InHand
      <4>2. CASE s # Slot(head)
        BY <1>6, <2>1, <3>2, <4>2 DEF PopStore, prodVars, SlotContents
      <4>3. QED
        BY <4>1, <4>2
    <3>3. QED
      BY <3>1, <3>2 DEF SlotContents, Slot
  <2>5. InHand'
    BY <1>6 DEF PopStore, prodVars, InHand, Slot
  <2>6. QED
    BY <2>2, <2>3, <2>4, <2>5
<1>7. ASSUME UNCHANGED vars PROVE IndInv'
  BY <1>7 DEF vars, TypeOK, CountersOrdered, SlotContents, InHand, InWindow, Dist, Slot
<1>8. QED
  BY <1>1, <1>2, <1>3, <1>4, <1>5, <1>6, <1>7 DEF Next, Producer, Consumer

(* The inductive invariant holds of push and pop for every capacity and every
   counter width. *)
THEOREM Invariance == Spec => []IndInv
BY InitIndInv, StepIndInv, PTL DEF Spec

(* The fields and locals of push and pop keep their types. *)
THEOREM TypeCorrect == Spec => []TypeOK
BY Invariance, PTL DEF IndInv

(* The invariant implies the three safety properties of the slots. *)
LEMMA SafetyFromIndInv == IndInv => NoDataRace /\ NoOverwrite /\ TakeFindsMessage
<1> SUFFICES ASSUME IndInv PROVE NoDataRace /\ NoOverwrite /\ TakeFindsMessage
  OBVIOUS
<1> USE IndexArith DEF IndInv
<1>1. /\ pPc # "idle" => /\ Dist(head, tail) < Capacity
                         /\ \A i \in Indices : InWindow(i) => Slot(i) # Slot(tail)
      /\ cPc # "idle" => InWindow(head)
  BY WindowSlots
<1>2. head \in Indices /\ tail \in Indices
  BY DEF TypeOK
<1>3. NoDataRace
  BY <1>1, <1>2 DEF NoDataRace
<1>4. NoOverwrite
  <2> SUFFICES ASSUME pPc = "write" PROVE buffer[Slot(tail)] = NoMsg
    BY DEF NoOverwrite
  <2>1. Slot(tail) \in Slots
    BY <1>1, <1>2, SlotType DEF Dist, Indices
  <2>2. QED
    BY <1>1, <1>2, <2>1 DEF SlotContents
<1>5. TakeFindsMessage
  BY <1>1, <1>2, QueueAssumption DEF TakeFindsMessage, SlotContents
<1>6. QED
  BY <1>3, <1>4, <1>5

(* push and pop never touch the same UnsafeCell slot at once, push never
   drops a message that is still queued, and pop never takes from an empty
   slot: the claim behind `unsafe impl Sync for SpscQueue`. *)
THEOREM RingIsSafe == Spec => []NoDataRace /\ []NoOverwrite /\ []TakeFindsMessage
BY Invariance, SafetyFromIndInv, PTL

-----------------------------------------------------------------------------
(* The ring implements the FIFO. *)

(* The content the queue reports is a sequence of messages, as long as the
   window. *)
LEMMA QueueShape ==
  IndInv => /\ Dist(head, tail) \in 0 .. Capacity
            /\ Queue \in Seq(Msgs)
            /\ Len(Queue) = Dist(head, tail)
<1> SUFFICES ASSUME IndInv
             PROVE  /\ Dist(head, tail) \in 0 .. Capacity
                    /\ Queue \in Seq(Msgs)
                    /\ Len(Queue) = Dist(head, tail)
  OBVIOUS
<1> USE IndexArith DEF IndInv
<1>1. Dist(head, tail) \in 0 .. Capacity
  BY WindowSlots DEF TypeOK, Dist, Indices
<1>2. ASSUME NEW k \in 1 .. Dist(head, tail)
      PROVE  (IF k = 1 /\ cPc = "store" THEN cVal ELSE buffer[Slot(Position(k))]) \in Msgs
  <2>1. /\ Position(k) \in Indices /\ InWindow(Position(k))
        /\ Position(k) = head => k = 1
    BY <1>1 DEF TypeOK, Position, InWindow, Dist, Indices
  <2>2. CASE k = 1 /\ cPc = "store"
    BY <2>2 DEF InHand
  <2>3. CASE ~(k = 1 /\ cPc = "store")
    BY <2>1, <2>3 DEF SlotContents
  <2>4. QED
    BY <2>2, <2>3
<1>3. Queue \in [1 .. Dist(head, tail) -> Msgs]
  BY <1>2 DEF Queue
<1>4. QED
  BY <1>1, <1>3

(* An empty ring is an empty queue. *)
LEMMA InitRefines == Init => Abstract!Init
<1> SUFFICES ASSUME Init PROVE Queue = <<>> /\ got = NoMsg
  BY DEF Abstract!Init
<1>1. IndInv /\ Dist(head, tail) = 0
  BY InitIndInv DEF Init, Dist
<1>2. Queue \in Seq(Msgs) /\ Len(Queue) = 0
  BY <1>1, QueueShape
<1>3. QED
  BY <1>2, EmptySeq DEF Init

(* QueueShape after a step. *)
LEMMA QueueShapePrime ==
  IndInv' => /\ Queue' \in Seq(Msgs)
             /\ Len(Queue') = Dist(head', tail')
<1>1. (IndInv => /\ Dist(head, tail) \in 0 .. Capacity
                 /\ Queue \in Seq(Msgs)
                 /\ Len(Queue) = Dist(head, tail))'
  BY QueueShape, PTL
<1>2. QED
  BY <1>1 DEF Dist

(* A step of push or pop that stores neither counter leaves the content
   alone. *)
LEMMA QueueStutter ==
  ASSUME IndInv, IndInv', head' = head, tail' = tail,
         \A k \in 1 .. Dist(head, tail) : Queue'[k] = Queue[k]
  PROVE  Queue' = Queue
<1>1. Queue \in Seq(Msgs) /\ Len(Queue) = Dist(head, tail)
  BY QueueShape
<1>2. Queue' \in Seq(Msgs) /\ Len(Queue') = Dist(head, tail)
  BY QueueShapePrime
<1>3. QED
  BY <1>1, <1>2, SeqEqual

(* PushStore appends the message in hand to the content. *)
LEMMA PushRefines == IndInv /\ IndInv' /\ PushStore => \E m \in Msgs : Abstract!Push(m)
<1> SUFFICES ASSUME IndInv, IndInv', PushStore
             PROVE  Abstract!Push(pMsg) /\ pMsg \in Msgs
  OBVIOUS
<1> USE IndexArith DEF IndInv
<1>1. pMsg \in Msgs /\ buffer[Slot(tail)] = pMsg
  BY DEF PushStore, InHand
<1>2. /\ Dist(head, tail) \in Nat
      /\ Dist(head, tail) < Capacity
      /\ Dist(head', tail') = Dist(head, tail) + 1
      /\ Position(Dist(head, tail) + 1) = tail
  BY WindowSlots DEF PushStore, TypeOK, Succ, Dist, Indices, Position
<1>3. /\ Queue \in Seq(Msgs) /\ Len(Queue) = Dist(head, tail)
      /\ Queue' \in Seq(Msgs) /\ Len(Queue') = Dist(head, tail) + 1
  BY <1>2, QueueShape, QueueShapePrime
<1>4. ASSUME NEW k \in 1 .. Dist(head, tail) + 1
      PROVE  Queue'[k] = Append(Queue, pMsg)[k]
  <2>1. Queue'[k] = IF k = 1 /\ cPc = "store" THEN cVal ELSE buffer[Slot(Position(k))]
    BY <1>2 DEF Queue, PushStore, consVars, Position, Slot
  <2>2. CASE k = Dist(head, tail) + 1
    <3>1. ~(k = 1 /\ cPc = "store")
      BY <2>2, WindowSlots DEF TypeOK, InWindow, Dist, Indices
    <3>2. QED
      BY <1>1, <1>2, <1>3, <2>1, <2>2, <3>1
  <2>3. CASE k \in 1 .. Dist(head, tail)
    BY <1>1, <1>2, <1>3, <2>1, <2>3 DEF Queue
  <2>4. k = Dist(head, tail) + 1 \/ k \in 1 .. Dist(head, tail)
    BY <1>2
  <2>5. QED
    BY <2>2, <2>3, <2>4
<1>5. Queue' = Append(Queue, pMsg)
  <2>1. Append(Queue, pMsg) \in Seq(Msgs) /\ Len(Append(Queue, pMsg)) = Len(Queue) + 1
    BY <1>1, <1>3
  <2>2. QED
    BY <1>2, <1>3, <1>4, <2>1, SeqEqual
<1>6. QED
  BY <1>1, <1>2, <1>3, <1>5 DEF PushStore, consVars, Abstract!Push

(* PopStore returns and removes the oldest message. *)
LEMMA PopRefines == IndInv /\ IndInv' /\ PopStore => Abstract!PopSome
<1> SUFFICES ASSUME IndInv, IndInv', PopStore
             PROVE  Abstract!PopSome
  OBVIOUS
<1> USE IndexArith DEF IndInv
<1>1. /\ Dist(head, tail) \in Nat \ {0}
      /\ Dist(head', tail') = Dist(head, tail) - 1
      /\ \A k \in 1 .. Dist(head, tail) - 1 : Position(k)' = Position(k + 1)
  BY WindowSlots DEF PopStore, TypeOK, InWindow, Succ, Dist, Indices, Position
<1>2. /\ Queue \in Seq(Msgs) /\ Len(Queue) = Dist(head, tail)
      /\ Queue' \in Seq(Msgs) /\ Len(Queue') = Dist(head, tail) - 1
  BY <1>1, QueueShape, QueueShapePrime
<1>3. Queue # <<>> /\ Queue[1] = cVal
  BY <1>1, <1>2, EmptySeq DEF Queue, PopStore
<1>4. Tail(Queue) \in Seq(Msgs) /\ Len(Tail(Queue)) = Dist(head, tail) - 1
  BY <1>1, <1>2, <1>3, HeadTailProperties
<1>5. ASSUME NEW k \in 1 .. Dist(head, tail) - 1
      PROVE  Queue'[k] = Tail(Queue)[k]
  <2>1. Queue'[k] = buffer[Slot(Position(k + 1))]
    BY <1>1 DEF Queue, PopStore, prodVars, Slot
  <2>2. Queue[k + 1] = buffer[Slot(Position(k + 1))]
    BY <1>1 DEF Queue
  <2>3. Tail(Queue)[k] = Queue[k + 1]
    BY <1>1, <1>2, <1>3, <1>4, HeadTailProperties
  <2>4. QED
    BY <2>1, <2>2, <2>3
<1>6. Queue' = Tail(Queue)
  BY <1>1, <1>2, <1>4, <1>5, SeqEqual
<1>7. QED
  BY <1>2, <1>3, <1>6 DEF PopStore, Abstract!PopSome

(* Every other step is invisible, or is a pop that returns None. *)
LEMMA StepRefines ==
  IndInv /\ IndInv' /\ [Next]_vars => [Abstract!Next]_(Abstract!vars)
<1> SUFFICES ASSUME IndInv, IndInv', [Next]_vars
             PROVE  [Abstract!Next]_(Abstract!vars)
  OBVIOUS
<1> USE IndexArith DEF Abstract!vars
<1>1. ASSUME NEW m \in Msgs, PushLoad(m) PROVE Queue' = Queue /\ got' = got
  <2>1. \A k \in 1 .. Dist(head, tail) : Queue'[k] = Queue[k]
    BY <1>1 DEF PushLoad, consVars, Queue, Position, Slot, Dist
  <2>2. QED
    BY <1>1, <2>1, QueueStutter DEF PushLoad, consVars
<1>2. ASSUME PushWrite PROVE Queue' = Queue /\ got' = got
  <2>1. ASSUME NEW k \in 1 .. Dist(head, tail) PROVE Queue'[k] = Queue[k]
    <3>1. Position(k) \in Indices /\ InWindow(Position(k))
      BY DEF IndInv, TypeOK, Position, InWindow, Dist, Indices
    <3>2. Slot(Position(k)) # Slot(tail)
      BY <1>2, <3>1, WindowSlots DEF PushWrite, IndInv
    <3>3. Position(k)' = Position(k)
      BY <1>2 DEF PushWrite, Position
    <3>4. buffer'[Slot(Position(k))] = buffer[Slot(Position(k))]
      BY <1>2, <3>2 DEF PushWrite, IndInv, TypeOK
    <3>5. QED
      BY <1>2, <3>3, <3>4 DEF PushWrite, consVars, Queue, Dist, Slot
  <2>2. QED
    BY <1>2, <2>1, QueueStutter DEF PushWrite, consVars
<1>3. ASSUME PopLoad PROVE Queue' = Queue /\ got' \in {got, NoMsg}
  <2>1. \A k \in 1 .. Dist(head, tail) : Queue'[k] = Queue[k]
    BY <1>3 DEF PopLoad, prodVars, Queue, Position, Slot, Dist
  <2>2. QED
    BY <1>3, <2>1, QueueStutter DEF PopLoad
<1>4. ASSUME PopTake PROVE Queue' = Queue /\ got' = got
  <2>1. ASSUME NEW k \in 1 .. Dist(head, tail) PROVE Queue'[k] = Queue[k]
    <3>1. /\ Position(k) \in Indices /\ InWindow(Position(k))
          /\ Position(k) = head <=> k = 1
      BY DEF IndInv, TypeOK, Position, InWindow, Dist, Indices
    <3>2. Position(k)' = Position(k)
      BY <1>4 DEF PopTake, Position
    <3>3. Queue'[k] = IF k = 1 THEN cVal' ELSE buffer'[Slot(Position(k))]
      BY <1>4, <3>2 DEF PopTake, Queue, Dist, Slot
    <3>4. Queue[k] = buffer[Slot(Position(k))]
      BY <1>4 DEF PopTake, Queue
    <3>5. k # 1 => buffer'[Slot(Position(k))] = buffer[Slot(Position(k))]
      BY <1>4, <3>1, WindowSlots DEF PopTake, IndInv, TypeOK
    <3>6. QED
      BY <1>4, <3>1, <3>3, <3>4, <3>5 DEF PopTake
  <2>2. QED
    BY <1>4, <2>1, QueueStutter DEF PopTake
<1>5. ASSUME UNCHANGED vars PROVE Queue' = Queue /\ got' = got
  BY <1>5 DEF vars, Queue, Position, Slot, Dist
<1>6. QED
  BY <1>1, <1>2, <1>3, <1>4, <1>5, PushRefines, PopRefines
     DEF Next, Producer, Consumer, Abstract!Next, Abstract!PopNone

(* push and pop implement the bounded FIFO for every capacity and counter
   width: nothing is lost, duplicated or reordered, whatever the interleaving
   of the two threads and however stale the counters they load. *)
THEOREM Refinement == Spec => ImplementsFifo
<1>1. Init => Abstract!Init
  BY InitRefines
<1>2. IndInv /\ IndInv' /\ [Next]_vars => [Abstract!Next]_(Abstract!vars)
  BY StepRefines
<1>3. QED
  BY <1>1, <1>2, Invariance, PTL DEF Spec, ImplementsFifo, Abstract!Spec
=============================================================================
