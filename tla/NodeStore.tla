----------------------------- MODULE NodeStore -----------------------------
(***************************************************************************)
(* Where the ledger keeps trie nodes: NodeAllocator (ledger/alloc.cpp) over *)
(* an LRU cache (utils/lru.h) and LMDB. Each operator takes the store st    *)
(* and returns the store after the call.                                   *)
(*                                                                         *)
(* Nodes are objects behind shared_ptr. The cache refers to some, and a    *)
(* running call to others: one that is evicted while a call refers to it   *)
(* lives on beside the cache. When the last reference goes the destructor  *)
(* writes the node to the database, unless should_delete(). The objects of *)
(* a store are:                                                            *)
(*   st.obj    object -> its id_ and its content                           *)
(*   st.at     key -> object: the map of the cache                         *)
(*   st.order  keys, last used first: the list of the cache                *)
(*   st.db     id -> content: what LMDB holds                              *)
(*   st.held   objects that frames of the running call refer to            *)
(*   st.made   number of objects the running call has made                 *)
(***************************************************************************)
EXTENDS Integers, Sequences, FiniteSets, SequencesExt

CONSTANTS
  CacheSize,  \* capacity of the cache
  Bounded,    \* FALSE: no instance fills the cache, and order is not kept
  CountMod    \* one more than the largest child count a byte holds: 256

ASSUME StoreAssumption ==
  /\ CacheSize \in Nat \ {0}
  /\ Bounded \in BOOLEAN
  /\ CountMod \in Nat \ {0}

Id(path, blk) == [path |-> path, blk |-> blk]

(* kids: nibble -> block id of the child. A Child entry also has the hash of
   the child, which is never zero once inserted, and a range of nibbles, of
   more than one only in a split node, which no code makes. *)
Branch(kids) == [leaf |-> FALSE, kids |-> kids]

(* acct: path_; vals: children_, the value hashes. *)
Leaf(acct, vals, deleted) ==
  [leaf |-> TRUE, acct |-> acct, vals |-> vals, deleted |-> deleted]

should_delete(node) == IF node.leaf THEN node.deleted ELSE DOMAIN node.kids = {}

Without(f, x) == Restrict(f, DOMAIN f \ {x})

-----------------------------------------------------------------------------
(* to_bytes, and the constructor that reads its output back. *)

(* The count of the children of a branch is one byte: as many of them come
   back, in order of nibble. *)
branch_to_bytes(node) ==
  LET count == Cardinality(DOMAIN node.kids) % CountMod
  IN  Branch(Restrict(node.kids,
        {n \in DOMAIN node.kids :
           Cardinality({m \in DOMAIN node.kids : m < n}) < count}))

(* is_deleted_ is not written. *)
leaf_to_bytes(node) == [node EXCEPT !.deleted = FALSE]

to_bytes(node) == IF node.leaf THEN leaf_to_bytes(node) ELSE branch_to_bytes(node)

persist_node(st, o) ==
  [st EXCEPT !.db = (st.obj[o].id :> to_bytes(st.obj[o].node)) @@ @]

(* Mistake: only the cache keeps a node. *)
DropForget(st, o) ==
  IF o \in Range(st.at) \cup Range(st.held)
  THEN st
  ELSE [st EXCEPT !.obj = Without(@, o)]

(* A reference to o is gone; ~Branch and ~Leaf run with the last one. *)
Drop(st, o) ==
  LET saved == IF should_delete(st.obj[o].node) THEN st ELSE persist_node(st, o)
  IN  IF o \in Range(st.at) \cup Range(st.held)
      THEN st
      ELSE [saved EXCEPT !.obj = Without(@, o)]

Hold(st, o) == [st EXCEPT !.held = Append(@, o)]

(* The frame that held the last object returns. *)
Release(st) ==
  Drop([st EXCEPT !.held = SubSeq(@, 1, Len(@) - 1)], Last(st.held))

(* create_branch, create_leaf. The new object is Newest(st, id). *)
Newest(st, id) == <<id, st.made>>
Make(st, id, node) ==
  [st EXCEPT !.made = @ + 1,
             !.obj = (<<id, st.made + 1>> :> [id |-> id, node |-> node]) @@ @]

-----------------------------------------------------------------------------
(* LRUCache. *)

Used(st, k) ==
  IF Bounded
  THEN [st EXCEPT !.order = <<k>> \o SelectSeq(@, LAMBDA x : x # k)]
  ELSE st

Erased(st, k) ==
  [st EXCEPT !.at = Without(@, k), !.order = SelectSeq(@, LAMBDA x : x # k)]

put(st, k, o) ==
  LET full == k \notin DOMAIN st.at /\ Cardinality(DOMAIN st.at) = CacheSize
      new  == Used([st EXCEPT !.at = (k :> o) @@ @], k)
  IN  IF full
      THEN Drop(Erased(new, Last(new.order)), st.at[Last(new.order)])
      ELSE IF k \in DOMAIN st.at THEN Drop(new, st.at[k]) ELSE new

-----------------------------------------------------------------------------
(* NodeAllocator. *)

cache_node(st, o) == put(st, st.obj[o].id, o)

NoNode == <<>>

(* What a call that returns a node gives: the store, and the object or NoNode
   when the database does not have the id (MDB_NOTFOUND). *)
Got(st, o) == [st |-> st, o |-> o]

load_node(st, id) ==
  CASE id \in DOMAIN st.at -> Got(Used(st, id), st.at[id])
    [] id \notin DOMAIN st.at /\ id \in DOMAIN st.db ->
         LET new == Make(st, id, st.db[id])
         IN  Got(cache_node(new, Newest(new, id)), Newest(new, id))
    [] OTHER -> Got(st, NoNode)

(* What a call that returns a code gives. *)
Ret(st, rc) == [st |-> st, rc |-> rc]

(* Mistake: the old version is not written before the object takes its new
   id. *)
recache_unsaved(st, old, new) ==
  IF old \notin DOMAIN st.at
  THEN Ret(st, "NOT_EXIST_RECACHE")
  ELSE LET o == st.at[old]
       IN  Ret(cache_node([Erased(st, old) EXCEPT !.obj[o].id = new], o), "OK")

recache(st, old, new) ==
  IF old \notin DOMAIN st.at
  THEN Ret(st, "NOT_EXIST_RECACHE")
  ELSE LET o     == st.at[old]
           saved == persist_node(Erased(st, old), o)
       IN  Ret(cache_node([saved EXCEPT !.obj[o].id = new], o), "OK")

(* Mistake: what was written before stays in the database. *)
delete_node_cached(st, id) ==
  LET found == load_node(st, id)
  IN  IF found.o = NoNode THEN found ELSE Got(Erased(found.st, id), found.o)

(* The node leaves the cache and the database; the caller gets the object,
   which is read from the database first when it is not cached. *)
delete_node(st, id) ==
  LET found == load_node(st, id)
      gone  == Erased(found.st, id)
  IN  IF found.o = NoNode
      THEN found
      ELSE Got([gone EXCEPT !.db = Without(@, id)], found.o)

-----------------------------------------------------------------------------
(* Between calls only the cache refers to objects, so a store is then what is
   cached, under which key, and the database. *)

Opened(cache, order, db) ==
  [obj   |-> [o \in {<<k, 0>> : k \in DOMAIN cache} |-> cache[o[1]]],
   at    |-> [k \in DOMAIN cache |-> <<k, 0>>],
   order |-> order, db |-> db, held |-> <<>>, made |-> 0]

Cached(st) == [k \in DOMAIN st.at |-> st.obj[st.at[k]]]
=============================================================================
