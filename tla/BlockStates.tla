---------------------------- MODULE BlockStates ----------------------------
(***************************************************************************)
(* What the ledger promises, ledger/README.md "Node Methods": a canonical  *)
(* state, and for every pending block a state of its own that started as a *)
(* copy of the state of the block it was built on. A state maps an account *)
(* to its values. How states share nodes, and where nodes are kept, does   *)
(* not show.                                                               *)
(***************************************************************************)
EXTENDS Integers, Functions, TLC

CONSTANTS
  Hashes,     \* block hashes
  Canon,      \* no block hash: the canonical state
  Accounts,
  Indices,    \* indices of values in an account; 0 is reserved
  Values,
  Zero,       \* the zero hash: no value
  AnyValue,   \* no previous value given
  NoAccount

VARIABLES
  canon,      \* the canonical state
  states,     \* block hash -> its state, for the pending blocks
  parent,     \* block hash -> the block it is built on, or Canon
  rc          \* what the last call returned

vars == <<canon, states, parent, rc>>

NoValues == [i \in Indices |-> Zero]

Init ==
  /\ canon = [a \in Accounts |-> NoAccount]
  /\ states = <<>> /\ parent = <<>>
  /\ rc = "OK"

(* The state of a block, or the one it starts from. *)
Base(h, p) ==
  CASE h \in DOMAIN states -> states[h]
    [] h \notin DOMAIN states /\ p = Canon -> canon
    [] OTHER -> states[p]

(* A call leaves block h, built on p, in state s and returns code. *)
Leaves(h, p, s, code) ==
  /\ states' = (h :> s) @@ states
  /\ parent' = (h :> p) @@ parent
  /\ rc' = code
  /\ UNCHANGED canon

CreateAccount(h, p, a) ==
  LET s == Base(h, p)
  IN  IF s[a] = NoAccount
      THEN Leaves(h, p, [s EXCEPT ![a] = NoValues], "OK")
      ELSE Leaves(h, p, s, "ALREADY_EXISTS")

(* put, and replace when a previous value is given. *)
Replace(h, p, a, i, v, prev) ==
  LET s == Base(h, p)
  IN  CASE i \notin Indices ->
             \E code \in {"NOT_EXIST", "LEAF_IDX_ZERO"} : Leaves(h, p, s, code)
        [] i \in Indices /\ s[a] = NoAccount -> Leaves(h, p, s, "NOT_EXIST")
        [] i \in Indices /\ s[a] # NoAccount ->
             IF prev \in {AnyValue, s[a][i]}
             THEN Leaves(h, p, [s EXCEPT ![a][i] = v], "OK")
             ELSE Leaves(h, p, s, "INVALID_PREV_VAL_HASH")

(* A proof of the value at i of account a. *)
GenerateProof(h, a, i) ==
  LET s == Base(h, Canon)
  IN  /\ rc' = IF s[a] # NoAccount /\ s[a][i] # Zero THEN "OK" ELSE "NOT_EXIST"
      /\ UNCHANGED <<canon, states, parent>>

FinalizeBlock(h) ==
  /\ rc' = IF h \in DOMAIN states THEN "OK" ELSE "BLOCK_NOT_EXIST"
  /\ UNCHANGED <<canon, states, parent>>

(* The block becomes canonical; the blocks it was built on are part of it. *)
JustifyBlock(h) ==
  IF h \in DOMAIN states
  THEN canon' = states[h] /\ states' = <<>> /\ parent' = <<>> /\ rc' = "OK"
  ELSE rc' = "BLOCK_NOT_EXIST" /\ UNCHANGED <<canon, states, parent>>

(* Only the state of the block goes away. A block that is part of the
   canonical state can be pruned too, to no effect. *)
PruneBlock(h) ==
  /\ states' = Restrict(states, DOMAIN states \ {h})
  /\ parent' = Restrict(parent, DOMAIN parent \ {h})
  /\ rc' \in {"OK", "BLOCK_NOT_EXIST"}
  /\ UNCHANGED canon

Next ==
  \/ \E h \in Hashes, p \in DOMAIN states \cup {Canon}, a \in Accounts :
       \/ CreateAccount(h, p, a)
       \/ \E i \in Indices \cup {0}, v \in Values \cup {Zero}, prev \in Values \cup {Zero, AnyValue} :
            Replace(h, p, a, i, v, prev)
  \/ \E h \in Hashes \cup {Canon}, a \in Accounts, i \in Indices : GenerateProof(h, a, i)
  \/ \E h \in Hashes : FinalizeBlock(h) \/ JustifyBlock(h) \/ PruneBlock(h)

Spec == Init /\ [][Next]_vars
=============================================================================
