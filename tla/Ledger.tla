------------------------------- MODULE Ledger -------------------------------
(***************************************************************************)
(* The C++ ledger: a trie whose nodes are keyed by path and block id, so    *)
(* that a pending block shares every node it did not touch with the block  *)
(* it was built on (trie/branch.cpp, trie/leaf.cpp), the block operations  *)
(* on it (blocks/processing.cpp) and the calls that the node makes         *)
(* (ledger/ledger.cpp, bindings/). Block id 0 is the canonical state.      *)
(*                                                                         *)
(* BLOCKCHAIN is the only thread that calls the ledger, one call at a      *)
(* time: a call is one action. Commitments and proofs are left out: nodes  *)
(* hold the hashes of values and know which children they have.            *)
(***************************************************************************)
EXTENDS NodeStore

CONSTANTS
  Hashes,     \* block hashes
  Canon,      \* nullptr for a block hash: the canonical state
  Accounts,   \* hashes of account keys: sequences of nibbles, equally long
  Indices,    \* indices of values in a leaf; 0 holds the key of the account
  Values,     \* value hashes
  Zero,       \* ZERO_HASH
  AnyValue,   \* nullptr for prev_val_hash
  NoAccount,
  Own,        \* what index 0 holds: the key of the account
  IdMod,      \* block ids count modulo this: 2^16
  MaxOpened,  \* bound: blocks that get an id
  Calls       \* the calls that the caller makes

ASSUME LedgerAssumption ==
  /\ \A a, c \in Accounts : Len(a) = Len(c)
  /\ \A a \in Accounts : CacheSize > Len(a) + 1
  /\ 0 \notin Indices
  /\ IdMod \in Nat /\ IdMod > 1
  /\ MaxOpened \in Nat

VARIABLES
  cache,      \* NodeStore: what is cached, under which key
  order,      \* NodeStore: keys, last used first
  db,         \* NodeStore: the database
  ids,        \* block_hash_map_
  nextId,     \* current_block_id_
  parent,     \* of the caller: the pending blocks, and what each is built on
  retired,    \* of the caller: blocks that are part of the canonical state
              \* and still have an id
  opened,     \* number of blocks that got an id
  rc,         \* what the last call returned
  seen        \* what the nodes of every block make up: Seen

store  == <<cache, order, db>>
blocks == <<ids, nextId, opened>>
caller == <<parent, retired>>
vars   == <<store, blocks, caller, rc, seen>>

Init ==
  /\ cache = <<>> /\ order = <<>> /\ db = <<>>
  /\ ids = <<>> /\ nextId = 1 /\ opened = 0
  /\ parent = <<>> /\ retired = {}
  /\ rc = "OK"
  /\ seen = [canon |-> [a \in Accounts |-> NoAccount], states |-> <<>>]

-----------------------------------------------------------------------------
(* Branch and Leaf. o is this; the caller's frame refers to it. *)

ChildId(id, nib, blk) == Id(Append(id.path, nib), blk)

(* The nibble of key that a node with this id goes by. *)
Nibble(id, key) == key[Len(id.path) + 1]

Returned(r) == Ret(Release(r.st), r.rc)

(* A child of this changed in block b: this becomes a node of b too, and its
   child entry says so (insert_child). *)
adopt(st, o, nib, b) ==
  LET id    == st.obj[o].id
      moved == IF id.blk # b THEN recache(st, id, Id(id.path, b)) ELSE Ret(st, "OK")
  IN  IF moved.rc # "OK"
      THEN moved
      ELSE Ret([moved.st EXCEPT !.obj[o].node.kids = (nib :> b) @@ @], "OK")

(* create_leaf, set_path and cache_node. *)
new_leaf(st, path, key, b) ==
  LET vals == [i \in Indices \cup {0} |-> IF i = 0 THEN Own ELSE Zero]
      made == Make(st, Id(path, b), Leaf(key, vals, FALSE))
  IN  cache_node(made, Newest(made, Id(path, b)))

(* Places after the level of the leaf where its path and the key differ:
   matching_path finds the first. *)
Differ(leaf, key) ==
  {k \in Len(leaf.id.path) + 1 .. Len(key) : leaf.node.acct[k] # key[k]}

(* put and replace. *)
leaf_replace(st, o, c, b) ==
  LET this  == st.obj[o]
      moved == IF this.id.blk # b
               THEN recache(st, this.id, Id(this.id.path, b)).st ELSE st
  IN  CASE c.idx = 0 -> Ret(st, "LEAF_IDX_ZERO")
        [] c.idx # 0 /\ Differ(this, c.key) # {} -> Ret(st, "NOT_EXIST")
        [] c.idx # 0 /\ Differ(this, c.key) = {} ->
             IF c.prev \in {AnyValue, this.node.vals[c.idx]}
             THEN Ret([moved EXCEPT !.obj[o].node.vals[c.idx] = c.val], "OK")
             ELSE Ret(st, "INVALID_PREV_VAL_HASH")

(* Leaf::remove clears the value at the index that follows the last byte of
   the key: whatever byte is there. An index beyond the leaf touches none of
   its values. *)
leaf_remove(st, o, c, b) ==
  LET this  == st.obj[o]
      moved == IF this.id.blk # b
               THEN recache(st, this.id, Id(this.id.path, b)).st ELSE st
  IN  IF /\ Differ(this, c.key) = {}
         /\ c.idx \in DOMAIN this.node.vals
         /\ this.node.vals[c.idx] # Zero
      THEN Ret([moved EXCEPT !.obj[o].node.vals[c.idx] = Zero], "OK")
      ELSE Ret(st, "NOT_EXIST")

(* The leaf of another account is where the new one should go: branches for
   the nibbles they share, with both leaves below the last. The old leaf was
   just loaded, so recache finds it. *)
leaf_create_account(st, o, c, b) ==
  LET this  == st.obj[o]
      level == Len(this.id.path)
      d     == Min(Differ(this, c.key))
      Kids(n) == IF n < d - 1 THEN c.key[n + 1] :> b
                 ELSE (c.key[d] :> b) @@ (this.node.acct[d] :> b)
      Put(s, n) == LET id   == Id(SubSeq(c.key, 1, n), b)
                       made == Make(s, id, Branch(Kids(n)))
                   IN  cache_node(made, Newest(made, id))
      leaf  == new_leaf(st, SubSeq(c.key, 1, d), c.key, b)
      moved == recache(leaf, this.id, Id(SubSeq(this.node.acct, 1, d), b))
  IN  IF Differ(this, c.key) = {}
      THEN Ret(st, "ALREADY_EXISTS")
      ELSE Ret(FoldLeft(Put, moved.st, [k \in 1 .. d - level |-> level + k - 1]), "OK")

leaf_update(st, o, c, b) ==
  CASE c.op = "replace" -> leaf_replace(st, o, c, b)
    [] c.op = "remove"  -> leaf_remove(st, o, c, b)
    [] c.op = "create"  -> leaf_create_account(st, o, c, b)

(* replace, remove and create_account of a node. remove never meets DELETED:
   delete_account of a branch is remove, and Leaf::remove does not return it. *)
RECURSIVE update(_, _, _, _)
update(st, o, c, b) ==
  LET this  == st.obj[o]
      nib   == Nibble(this.id, c.key)
      next  == load_node(st, ChildId(this.id, nib, this.node.kids[nib]))
      below == update(Hold(next.st, next.o), next.o, c, b)
  IN  IF this.node.leaf
      THEN leaf_update(st, o, c, b)
      ELSE IF nib \notin DOMAIN this.node.kids
      THEN IF c.op = "create"
           THEN adopt(new_leaf(st, Append(this.id.path, nib), c.key, b), o, nib, b)
           ELSE Ret(st, "NOT_EXIST")
      ELSE IF next.o = NoNode
      THEN Ret(next.st, "MDB_NOTFOUND")
      ELSE Returned(IF below.rc = "OK" THEN adopt(below.st, o, nib, b) ELSE below)

leaf_generate_proof(leaf, key, i) ==
  IF Differ(leaf, key) # {} \/ leaf.node.vals[i] = Zero THEN "NOT_EXIST" ELSE "OK"

RECURSIVE generate_proof(_, _, _, _)
generate_proof(st, o, key, i) ==
  LET this == st.obj[o]
      nib  == Nibble(this.id, key)
      next == load_node(st, ChildId(this.id, nib, this.node.kids[nib]))
  IN  IF this.node.leaf
      THEN Ret(st, leaf_generate_proof(this, key, i))
      ELSE IF nib \notin DOMAIN this.node.kids
      THEN Ret(st, "NOT_EXIST")
      ELSE IF next.o = NoNode
      THEN Ret(next.st, "MDB_NOTFOUND")
      ELSE Returned(generate_proof(Hold(next.st, next.o), next.o, key, i))

(* The children of this that satisfy P, in order of nibble. *)
KidsWhere(node, P(_)) ==
  SetToSortSeq({n \in DOMAIN node.kids : P(node.kids[n])}, <)

(* Commitments of the nodes of block b, from the leaves up. *)
RECURSIVE finalize(_, _, _)
finalize(st, o, b) ==
  LET this == st.obj[o]
      Kid(r, n) ==
        LET next == load_node(r.st, ChildId(this.id, n, b))
        IN  IF r.rc # "OK" THEN r
            ELSE IF next.o = NoNode THEN Ret(next.st, "LOAD_NODE_ERR")
            ELSE Returned(finalize(Hold(next.st, next.o), next.o, b))
  IN  IF this.node.leaf
      THEN Ret(st, "OK")
      ELSE FoldLeft(Kid, Ret(st, "OK"), KidsWhere(this.node, LAMBDA k : k = b))

(* this is gone from the store; what delete_node returned goes with the call. *)
deleted(st, id) ==
  LET d == delete_node(st, id)
  IN  IF d.o = NoNode THEN d.st ELSE Drop(d.st, d.o)

(* Mistake: a branch goes without its children. *)
prune_self(st, o, b) ==
  LET this == st.obj[o]
  IN  IF this.node.leaf
      THEN deleted([st EXCEPT !.obj[o].node.deleted = TRUE], this.id)
      ELSE deleted([st EXCEPT !.obj[o].node.kids = <<>>], this.id)

(* Errors of the database apart, prune returns OK. The records of values that
   Leaf::prune deletes are never read. *)
RECURSIVE prune(_, _, _)
prune(st, o, b) ==
  LET this == st.obj[o]
      Kid(s, n) ==
        LET next == load_node(s, ChildId(this.id, n, b))
        IN  IF next.o = NoNode THEN next.st
            ELSE Release(prune(Hold(next.st, next.o), next.o, b))
      below == FoldLeft(Kid, st, KidsWhere(this.node, LAMBDA k : k = b))
  IN  IF this.node.leaf
      THEN deleted([st EXCEPT !.obj[o].node.deleted = TRUE], this.id)
      ELSE deleted([below EXCEPT !.obj[o].node.kids = <<>>], this.id)

(* Mistake: the node is cached before it takes id 0. *)
settle_late(st, o, b) ==
  LET this  == st.obj[o]
      d     == delete_node(st, this.id)
      again == cache_node(d.st, d.o)
  IN  IF this.id.blk = b
      THEN Ret([again EXCEPT !.obj[o].id.blk = 0], "OK")
      ELSE Ret(st, "OK")

(* How justify ends, for a branch and for a leaf. A node of block b takes id
   0 in the cache, as the object that delete_node returns; a node of a block
   that b was built on is copied to id 0 in the database. *)
settle(st, o, b) ==
  LET this == st.obj[o]
      d    == delete_node(st, this.id)
      zero == [d.st EXCEPT !.obj[o].id.blk = 0]
      gone == should_delete(this.node)
  IN  IF this.id.blk = b
      THEN IF d.o = NoNode THEN Ret(d.st, "MDB_NOTFOUND")
           ELSE IF gone THEN Ret(Drop(d.st, d.o), "DELETED")
           ELSE Ret(cache_node(zero, d.o), "OK")
      ELSE IF gone THEN Ret(st, "DELETED")
      ELSE Ret([st EXCEPT !.db = (Id(this.id.path, 0) :> to_bytes(this.node)) @@ @],
               "OK")

(* The values of a leaf keep their hashes: the records that Leaf::justify
   moves are never read. *)
RECURSIVE justify(_, _, _)
justify(st, o, b) ==
  LET this == st.obj[o]
      Kid(r, n) ==
        LET next  == load_node(r.st, ChildId(this.id, n, this.node.kids[n]))
            below == Returned(justify(Hold(next.st, next.o), next.o, b))
        IN  IF r.rc # "OK" THEN r
            ELSE IF next.o = NoNode THEN Ret(next.st, "MDB_NOTFOUND")
            ELSE IF below.rc \notin {"OK", "DELETED"} THEN below
            ELSE Ret([below.st EXCEPT !.obj[o].node.kids[n] = 0], "OK")
      kids == FoldLeft(Kid, Ret(st, "OK"), KidsWhere(this.node, LAMBDA k : k # 0))
  IN  IF this.node.leaf THEN settle(st, o, b)
      ELSE IF kids.rc # "OK" THEN kids ELSE settle(kids.st, o, b)

-----------------------------------------------------------------------------
(* Ledger. *)

(* get_block_id of a hash the caller may create. *)
block_id(h) == IF h \in DOMAIN ids THEN ids[h] ELSE nextId

(* get_block_id(hash, false). *)
known_id(h) == IF h \in DOMAIN ids THEN ids[h] ELSE 0

(* The effect of get_block_id(h) on the map and the counter, which skips 0. *)
Register(h) ==
  IF h \in DOMAIN ids
  THEN UNCHANGED blocks
  ELSE /\ opened < MaxOpened
       /\ ids' = (h :> nextId) @@ ids
       /\ nextId' = IF nextId + 1 = IdMod THEN 1 ELSE nextId + 1
       /\ opened' = opened + 1

(* Mistake: a new block starts from the canonical state. *)
get_root_canon(st, b, prev) ==
  LET root == load_node(st, Id(<<>>, b))
      last == load_node(root.st, Id(<<>>, 0))
      kids == IF last.o = NoNode THEN <<>> ELSE to_bytes(last.st.obj[last.o].node).kids
      new  == Make(last.st, Id(<<>>, b), Branch(kids))
  IN  IF root.o # NoNode THEN root
      ELSE Got(cache_node(new, Newest(new, Id(<<>>, b))), Newest(new, Id(<<>>, b)))

(* The root of block b: a copy of the root of prev when b has none yet, and
   an empty one, for both, when prev has none either. *)
get_root(st, b, prev) ==
  LET root  == load_node(st, Id(<<>>, b))
      last  == load_node(root.st, Id(<<>>, prev))
      empty == Make(last.st, Id(<<>>, prev), Branch(<<>>))
      found == IF last.o # NoNode THEN last
               ELSE Got(cache_node(empty, Newest(empty, Id(<<>>, prev))),
                        Newest(empty, Id(<<>>, prev)))
      new   == Make(found.st, Id(<<>>, b), to_bytes(found.st.obj[found.o].node))
  IN  IF root.o # NoNode THEN root
      ELSE Got(cache_node(new, Newest(new, Id(<<>>, b))), Newest(new, Id(<<>>, b)))

-----------------------------------------------------------------------------
(* The caller. It gives each block the one it is built on, the same one in
   every call; it does not change a block that another is built on, nor prune
   it before that one; and, as justify_block asks, it prunes what is not an
   ancestor of a block before that block is justified. *)

Pending == DOMAIN parent

(* Blocks that h can be built on, h pending or new. "chain": the caller also
   builds on pending blocks. *)
Parents(h) ==
  IF h \in Pending THEN {parent[h]}
  ELSE IF h \in retired THEN {}
  ELSE {Canon} \cup (IF "chain" \in Calls THEN Pending ELSE {})

Builds(h, p) ==
  /\ p \in Parents(h)
  /\ h \notin Range(parent)
  /\ parent' = (h :> p) @@ parent
  /\ UNCHANGED retired

RECURSIVE Ancestors(_)
Ancestors(h) == IF parent[h] = Canon THEN {} ELSE {parent[h]} \cup Ancestors(parent[h])

-----------------------------------------------------------------------------
(* What a reader of the store finds. *)

Missing == [leaf |-> FALSE, kids |-> <<>>, missing |-> TRUE]

(* What an account holds when a node on its path is missing. *)
Unreadable == [i \in Indices |-> "missing"]

Lookup(id) ==
  IF id \in DOMAIN cache THEN cache[id].node
  ELSE IF id \in DOMAIN db THEN db[id] ELSE Missing

RECURSIVE Seek(_, _)
Seek(id, a) ==
  LET node == Lookup(id)
      nib  == Nibble(id, a)
  IN  IF node = Missing THEN Unreadable
      ELSE IF node.leaf
      THEN IF node.acct = a THEN Restrict(node.vals, Indices) ELSE NoAccount
      ELSE IF nib \in DOMAIN node.kids THEN Seek(ChildId(id, nib, node.kids[nib]), a)
      ELSE NoAccount

(* The state that the nodes of block id b make up. *)
View(b) ==
  IF Lookup(Id(<<>>, b)) = Missing
  THEN [a \in Accounts |-> NoAccount]
  ELSE [a \in Accounts |-> Seek(Id(<<>>, b), a)]

(* The canonical state and the states of the pending blocks. *)
Seen == [canon |-> View(0), states |-> [h \in Pending |-> View(ids[h])]]

-----------------------------------------------------------------------------
(* The calls. *)

Start == Opened(cache, order, db)

(* A call got root from get_root, and its work on it, r, ends. *)
Root(root) == Hold(root.st, root.o)
Ends(r) ==
  LET st == Release(r.st)
  IN  /\ cache' = Cached(st) /\ order' = st.order /\ db' = st.db
      /\ rc' = r.rc
      /\ seen' = Seen'

(* create_account and delete_account find the id of prev_block_hash and do
   not use it. "createOn": the caller opens a block with this call on another
   pending block. *)
CreateAccount(h, p, a) ==
  LET b    == block_id(h)
      root == get_root(Start, b, 0)
  IN  /\ "create" \in Calls
      /\ h \in Pending \/ p = Canon \/ "createOn" \in Calls
      /\ Builds(h, p)
      /\ Register(h)
      /\ Ends(update(Root(root), root.o, [op |-> "create", key |-> a], b))

DeleteAccount(h, p, a) ==
  LET b    == block_id(h)
      root == get_root(Start, b, 0)
  IN  /\ "delete" \in Calls
      /\ h \in Pending \/ p = Canon
      /\ Builds(h, p)
      /\ Register(h)
      /\ \E i \in Indices \cup {0, -1} :
           Ends(update(Root(root), root.o, [op |-> "remove", key |-> a, idx |-> i], b))

(* put, and replace when prev is a value. *)
Replace(h, p, a, i, v, prev) ==
  LET b    == block_id(h)
      root == get_root(Start, b, known_id(p))
      c    == [op |-> "replace", key |-> a, idx |-> i, val |-> v, prev |-> prev]
  IN  /\ prev = AnyValue \/ "replace" \in Calls
      /\ Builds(h, p)
      /\ Register(h)
      /\ Ends(update(Root(root), root.o, c, b))

(* ledger_remove turns every index of a leaf away. *)
RemoveValue(h, p, a, i) ==
  /\ "remove" \in Calls
  /\ h \in Pending /\ p = parent[h]
  /\ rc' = "VAL_IDX_RANGE"
  /\ UNCHANGED <<store, blocks, caller, seen>>

(* generate_proof of blocks/processing.cpp, as the ledger's tests call it; the
   binding turns every index of a leaf away. *)
GenerateProof(h, a, i) ==
  LET root == get_root(Start, known_id(h), 0)
  IN  /\ "prove" \in Calls
      /\ h \in Pending \cup {Canon}
      /\ UNCHANGED <<blocks, caller>>
      /\ Ends(generate_proof(Root(root), root.o, a, i))

NoSuchBlock(h) ==
  /\ h \notin DOMAIN ids
  /\ rc' = "BLOCK_NOT_EXIST"
  /\ UNCHANGED <<store, blocks, caller, seen>>

FinalizeBlock(h) ==
  LET root == get_root(Start, known_id(h), 0)
  IN  /\ h \in Pending
      /\ UNCHANGED <<blocks, caller>>
      /\ Ends(finalize(Root(root), root.o, known_id(h)))

(* "justifyChain": the caller justifies a block together with the pending
   blocks it is built on. *)
JustifyBlock(h) ==
  LET root == get_root(Start, known_id(h), 0)
      r    == justify(Root(root), root.o, known_id(h))
  IN  /\ "justify" \in Calls
      /\ h \in Pending
      /\ Pending = {h} \cup Ancestors(h)
      /\ parent[h] = Canon \/ "justifyChain" \in Calls
      /\ IF r.rc \in {"OK", "DELETED"}
         THEN parent' = <<>> /\ retired' = retired \cup Pending
         ELSE UNCHANGED caller
      /\ UNCHANGED blocks
      /\ Ends(IF r.rc = "DELETED" THEN Ret(r.st, "OK") ELSE r)

PruneBlock(h) ==
  LET root == get_root(Start, known_id(h), 0)
  IN  /\ h \in retired \cup (Pending \ Range(parent))
      /\ ids' = Without(ids, h)
      /\ parent' = Without(parent, h)
      /\ retired' = retired \ {h}
      /\ UNCHANGED <<nextId, opened>>
      /\ Ends(Ret(prune(Root(root), root.o, known_id(h)), "OK"))

(* The process ends and starts again. Nothing runs the destructors of cached
   nodes: the cache is owned by Gadgets, which NodeAllocator and every node
   refer to. *)
Restart ==
  /\ "restart" \in Calls
  /\ cache' = <<>> /\ order' = <<>>
  /\ ids' = <<>> /\ nextId' = 1
  /\ parent' = <<>> /\ retired' = {}
  /\ UNCHANGED <<db, opened, rc>>
  /\ seen' = Seen'

Next ==
  \/ \E h \in Hashes, p \in Hashes \cup {Canon}, a \in Accounts :
       \/ CreateAccount(h, p, a)
       \/ DeleteAccount(h, p, a)
       \/ \E i \in Indices, v \in Values, prev \in Values \cup {Zero, AnyValue} :
            Replace(h, p, a, i, v, prev)
       \/ \E v \in Values : Replace(h, p, a, 0, v, AnyValue)
       \/ \E i \in Indices : RemoveValue(h, p, a, i)
  \/ \E h \in Hashes \cup {Canon}, a \in Accounts, i \in Indices : GenerateProof(h, a, i)
  \/ \E h \in Hashes :
       FinalizeBlock(h) \/ JustifyBlock(h) \/ PruneBlock(h) \/ NoSuchBlock(h)
  \/ Restart

Spec == Init /\ [][Next]_vars

-----------------------------------------------------------------------------
States == INSTANCE BlockStates WITH
  canon  <- seen.canon,
  states <- seen.states

(* The ledger is a map from blocks to states: a call changes the state of its
   block as it says and returns the code that tells so, no call changes what
   another block or the canonical state holds, a block starts as what it is
   built on, and justify makes its whole state canonical. *)
KeepsStates == States!Spec

-----------------------------------------------------------------------------
(* The store holds nodes with paths of the accounts and contents of its kind;
   a leaf at the path of a node is for an account below that path. *)
TypeOK ==
  /\ \A k \in DOMAIN cache \cup DOMAIN db :
       LET node == Lookup(k)
       IN  /\ k.blk \in 0 .. IdMod - 1
           /\ IF node.leaf
              THEN /\ node.acct \in Accounts
                   /\ SubSeq(node.acct, 1, Len(k.path)) = k.path
                   /\ node.vals \in [Indices \cup {0} -> Values \cup {Zero, Own}]
              ELSE /\ Len(k.path) < Len(CHOOSE a \in Accounts : TRUE)
                   /\ \A n \in DOMAIN node.kids : node.kids[n] \in 0 .. IdMod - 1
  /\ nextId \in 1 .. IdMod - 1
  /\ DOMAIN ids = Pending \cup retired
  /\ Pending \cap retired = {}

(* A cached node is filed under its own id, so that what the destructor of an
   evicted node writes is what a reader of that id will look for. *)
FiledUnderOwnId == \A k \in DOMAIN cache : cache[k].id = k

(* prune_block "descends subtree and removes all nodes belonging to that
   block_id", and justify_block leaves none of the block either: nodes other
   than canonical ones belong to a block that still has its id. *)
NoStrayNodes ==
  \A k \in DOMAIN cache \cup DOMAIN db : k.blk = 0 \/ k.blk \in Range(ids)

(* Nodes that blocks share are never written in place: a call changes what
   one pending block holds at most, and never that and the canonical state. *)
Isolated ==
  LET Changed == {h \in Pending \cap Pending' : seen'.states[h] # seen.states[h]}
  IN  /\ Cardinality(Changed) <= 1
      /\ Changed # {} => seen'.canon = seen.canon
BlocksIsolated == [][Isolated]_vars

(* "the block_id is used to distinguish between nodes in different blocks". *)
OneBlockPerId ==
  \A h, g \in DOMAIN ids : ids[h] = ids[g] => h = g

(* "prev_block_hash is optional, and defaults to cannonical": the accounts of
   the block that a new one is built on are accounts of the new one. *)
OpensOnParent ==
  [][\A h \in Pending' \ Pending :
       LET base == IF parent'[h] = Canon THEN seen.canon ELSE seen.states[parent'[h]]
       IN  \A a \in Accounts :
             base[a] # NoAccount => seen'.states[h][a] # NoAccount]_vars

(* justify_block has taken block h: it is the one nothing is built on. *)
Justified(h) == h \in Pending /\ h \notin Range(parent) /\ h \in retired'

(* justify_block "overwrite[s] block_id == 0 node with self": when it is done
   the canonical state is the one of the block. *)
JustifyMakesCanonical ==
  [][\A h \in Hashes : Justified(h) => seen'.canon = seen.states[h]]_vars

(* justify_block "changes all block_ids to ZERO": it does not give up half
   way. *)
JustifyCompletes ==
  [][\A h \in Hashes : JustifyBlock(h) => rc' = "OK"]_vars

(* What is canonical stays until a block is justified: also over a restart,
   since a node that leaves the cache is "deconstructed and therefore
   persisted". *)
CanonByJustifyOnly ==
  [][seen'.canon # seen.canon => \E h \in Hashes : Justified(h)]_vars

(* After delete_account returned OK the account is not in the block. *)
DeleteDeletes ==
  [][\A h \in Hashes, a \in Accounts :
       DeleteAccount(h, Canon, a) /\ rc' = "OK" => seen'.states[h][a] = NoAccount]_vars

(* "Remove is effectively the same [as put], except the hash at that index is
   overwritten with zeros." *)
RemoveClears ==
  [][\A h \in Pending, a \in Accounts, i \in Indices :
       /\ RemoveValue(h, parent[h], a, i)
       /\ seen.states[h][a] # NoAccount
       => seen'.states[h][a][i] = Zero]_vars
=============================================================================
