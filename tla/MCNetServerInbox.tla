-------------------------- MODULE MCNetServerInbox --------------------------
(***************************************************************************)
(* NetServerInbox on a queue of three messages: pushes land before, during *)
(* and after a drain, and fill the queue.                                  *)
(***************************************************************************)
EXTENDS NetServerInbox
=============================================================================
