---------------------------- MODULE MCSpscQueue -----------------------------
(***************************************************************************)
(* SpscQueue on a ring of three slots whose counters wrap after six steps, *)
(* so that every slot is reused on both sides of a wrap.                   *)
(***************************************************************************)
EXTENDS SpscQueue
=============================================================================
