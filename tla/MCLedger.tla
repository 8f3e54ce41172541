------------------------------ MODULE MCLedger ------------------------------
(***************************************************************************)
(* Keys of two nibbles. Siblings share the first one: creating the second  *)
(* splits the leaf of the first. Cousins meet in the root only.            *)
(***************************************************************************)
EXTENDS Ledger

Single   == {<<0, 0>>}
Siblings == {<<0, 0>>, <<0, 1>>}
Cousins  == {<<0, 0>>, <<1, 0>>}
Family   == Siblings \cup Cousins

Symmetry == Permutations(Hashes)

\* No action reads rc, and seen follows from the others; action properties
\* are evaluated on every step all the same. Whether the last call returned
\* OK is kept: a step that only returns a code differs from a stutter where
\* the code before was another one, and every store is met after OK.
StoreView == <<store, blocks, caller, rc = "OK">>

\* For properties that do not look at rc.
BareView == <<store, blocks, caller>>
=============================================================================
