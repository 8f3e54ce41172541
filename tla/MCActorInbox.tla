---------------------------- MODULE MCActorInbox ----------------------------
(***************************************************************************)
(* ActorInbox on a queue of three messages, two where a message is left    *)
(* behind.                                                                 *)
(***************************************************************************)
EXTENDS ActorInbox
=============================================================================
