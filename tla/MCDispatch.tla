----------------------------- MODULE MCDispatch -----------------------------
(***************************************************************************)
(* Two actors behind queues of one message, so that a call meets full      *)
(* queues and free ones.                                                   *)
(***************************************************************************)
EXTENDS Dispatch
=============================================================================
