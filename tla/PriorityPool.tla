---------------------------- MODULE PriorityPool ----------------------------
(***************************************************************************)
(* The pool of pending transactions, src/blockchain/priority.rs, as the    *)
(* blockchain actor uses it (TrxPool).                                     *)
(*                                                                         *)
(* A transaction is stored in a map under its hash, and its hash is pushed *)
(* with its fee on a max-heap. Nothing is ever deleted from the middle of  *)
(* the heap: an entry whose key has left the map is stale and is skipped   *)
(* when it surfaces. The hash covers the fee (compute_hash), so a key      *)
(* determines its priority and a heap entry is known by its key alone.     *)
(* The loops of pop, clean and insert run one heap operation per step.     *)
(* The free lists of values and keys only save allocations and are left    *)
(* out.                                                                    *)
(***************************************************************************)
EXTENDS Integers, FiniteSets

CONSTANTS
  Keys,      \* the transaction hashes, numbered in the order of their bytes
  Fee,       \* get_comperator: the priority of each transaction
  NoKey,     \* Option::None
  Capacity,  \* self.capacity
  MaxCopies  \* bound: how many entries of one key the heap may hold

ASSUME PoolAssumption ==
  /\ Keys \subseteq Nat
  /\ IsFiniteSet(Keys)
  /\ Fee \in [Keys -> Nat]
  /\ NoKey \notin Keys
  /\ Capacity \in Nat
  /\ MaxCopies \in Nat

VARIABLES
  map,       \* the keys in self.map
  heap,      \* self.heap: how many entries each key has
  pc,        \* the loop that is running, or "idle"
  out        \* what the last pop or peek returned

vars == <<map, heap, pc, out>>

(* The order of the heap's (priority, key) pairs. *)
Higher(a, b) == Fee[a] > Fee[b] \/ (Fee[a] = Fee[b] /\ a > b)

IsHighest(k, S) == k \in S /\ \A j \in S \ {k} : Higher(k, j)

HeapKeys == {k \in Keys : heap[k] > 0}

(* Mistake: a min-heap. *)
HeapPopLowest(k) ==
  /\ k \in HeapKeys
  /\ \A j \in HeapKeys \ {k} : Higher(j, k)
  /\ heap' = [heap EXCEPT ![k] = @ - 1]

(* heap.pop() returned (_, k) *)
HeapPop(k) ==
  /\ IsHighest(k, HeapKeys)
  /\ heap' = [heap EXCEPT ![k] = @ - 1]

Init ==
  /\ map = {}
  /\ heap = [k \in Keys |-> 0]
  /\ pc = "idle"
  /\ out = NoKey

OverCapacity(m) == Cardinality(m) > Capacity

-----------------------------------------------------------------------------
(* Mistake: the key is not pushed on the heap. *)
InsertUnpushed(k) ==
  /\ pc = "idle"
  /\ heap[k] < MaxCopies
  /\ map' = map \cup {k}
  /\ pc' = IF OverCapacity(map') THEN "evict" ELSE "idle"
  /\ UNCHANGED <<heap, out>>

(* insert(val): a key that is already in the map has its value replaced and
   nothing else happens; a new one is pushed on the heap and may start the
   eviction loop. *)
Insert(k) ==
  /\ pc = "idle"
  /\ heap[k] < MaxCopies
  /\ IF k \in map
       THEN UNCHANGED <<map, heap, pc>>
       ELSE /\ map' = map \cup {k}
            /\ heap' = [heap EXCEPT ![k] = @ + 1]
            /\ pc' = IF OverCapacity(map') THEN "evict" ELSE "idle"
  /\ UNCHANGED out

(* One turn of `while self.map.len() > self.capacity`. An empty heap makes
   the loop turn without doing anything. *)
EvictStep ==
  /\ pc = "evict"
  /\ \E k \in Keys :
       /\ HeapPop(k)
       /\ map' = map \ {k}
       /\ pc' = IF OverCapacity(map') THEN "evict" ELSE "idle"
  /\ UNCHANGED out

RemoveOne(k) ==
  /\ pc = "idle"
  /\ map' = map \ {k}
  /\ UNCHANGED <<heap, pc, out>>

(* pop() *)
PopCall ==
  /\ pc = "idle"
  /\ pc' = "pop"
  /\ UNCHANGED <<map, heap, out>>

(* Mistake: a stale entry stays on top of the heap. *)
PopStepSkips ==
  /\ pc = "pop"
  /\ \E k \in Keys :
       IF k \in map THEN HeapPop(k) /\ map' = map \ {k} /\ out' = k /\ pc' = "idle"
       ELSE IsHighest(k, HeapKeys) /\ UNCHANGED vars

PopStep ==
  /\ pc = "pop"
  /\ \E k \in Keys :
       /\ HeapPop(k)
       /\ map' = map \ {k}
       /\ IF k \in map THEN out' = k /\ pc' = "idle" ELSE UNCHANGED <<out, pc>>

PopEmpty ==
  /\ pc = "pop"
  /\ HeapKeys = {}
  /\ out' = NoKey
  /\ pc' = "idle"
  /\ UNCHANGED <<map, heap>>

(* peek(): clean() drops stale entries from the top, then heap.peek() *)
PeekCall ==
  /\ pc = "idle"
  /\ pc' = "clean"
  /\ UNCHANGED <<map, heap, out>>

CleanStep ==
  /\ pc = "clean"
  /\ \E k \in Keys \ map : HeapPop(k)
  /\ UNCHANGED <<map, pc, out>>

PeekReturn ==
  /\ pc = "clean"
  /\ \/ HeapKeys = {} /\ out' = NoKey
     \/ \E k \in map : IsHighest(k, HeapKeys) /\ out' = k
  /\ pc' = "idle"
  /\ UNCHANGED <<map, heap>>

Loop == EvictStep \/ PopStep \/ PopEmpty \/ CleanStep \/ PeekReturn

Next ==
  \/ \E k \in Keys : Insert(k) \/ RemoveOne(k)
  \/ PopCall \/ PeekCall
  \/ Loop

(* A loop that is running keeps running: the pool has one thread. *)
Spec == Init /\ [][Next]_vars /\ WF_vars(Loop)

-----------------------------------------------------------------------------
(* The fields of PriorityPool keep their types. *)
TypeOK ==
  /\ map \subseteq Keys
  /\ heap \in [Keys -> Nat]
  /\ pc \in {"idle", "evict", "pop", "clean"}
  /\ out \in Keys \cup {NoKey}

(* No transaction is unreachable: every key of the map has an entry on the
   heap, however inserts, removals, pops and evictions of the same key are
   mixed. The eviction loop of insert relies on it: with fewer entries than
   keys it would turn for ever on an empty heap. *)
KeysReachable == \A k \in map : heap[k] > 0

(* The pool never holds more than its capacity when insert has returned, and
   one more while it evicts. *)
LenBounded ==
  /\ pc # "evict" => Cardinality(map) <= Capacity
  /\ pc = "evict" => Cardinality(map) = Capacity + 1

PoolInv == TypeOK /\ KeysReachable /\ LenBounded

(* pop and peek skip stale entries and nothing else: they return the pending
   transaction with the highest fee, and None only when there is none. *)
ReturnStep ==
  pc \in {"pop", "clean"} /\ pc' = "idle" =>
    \/ out' = NoKey /\ map = {}
    \/ IsHighest(out', map)

ReturnsHighest == [][ReturnStep]_vars

(* Every call returns: the loops of insert, pop and peek end. *)
CallsReturn == pc # "idle" ~> pc = "idle"

(* insert makes room by dropping the transaction with the lowest fee. *)
EvictsLowest ==
  [][pc = "evict" => (\A k \in map \ map' : \A j \in map \ {k} : Higher(j, k))]_vars
=============================================================================
