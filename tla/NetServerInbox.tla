--------------------------- MODULE NetServerInbox ---------------------------
(***************************************************************************)
(* The inbox of the actors built on NetServer (NETWORKER and RPC): for an  *)
(* event of an internal queue NetServer::start reads the eventfd and then  *)
(* pops until pop returns None.                                            *)
(***************************************************************************)
EXTENDS EventChannel

(* from.read_event() *)
ReadThenDrain ==
  /\ cPc = "event"
  /\ ReadEvent
  /\ cPc' = "drain"

(* while let Some(msg) = from.pop(): the message goes to handle_from_internal
   or handle_outbound *)
DrainOne ==
  /\ cPc = "drain"
  /\ PopSome
  /\ UNCHANGED cPc

(* Mistake: the eventfd is read after the drain, not before it. *)
DrainThenRead ==
  /\ cPc = "drain"
  /\ synced = 0
  /\ got' = NoMsg
  /\ signalled' = FALSE
  /\ cPc' = "poll"
  /\ UNCHANGED <<items, ready, synced, pPc>>

DrainEnd ==
  /\ cPc = "drain"
  /\ PopNone
  /\ cPc' = "poll"

Consumer == Register \/ Poll \/ ReadThenDrain \/ DrainOne \/ DrainEnd

Next == (\E m \in Msgs : TryPush(m)) \/ Notify \/ Consumer

(* Both threads keep running: a producer that has pushed goes on to write the
   eventfd, and the loop of NetServer::start never stops on its own. Nobody
   has to push. *)
Fairness == WF_vars(Notify) /\ WF_vars(Consumer)

Spec == Init /\ [][Next]_vars /\ Fairness

-----------------------------------------------------------------------------
(* A loop that is about to block in poll while a message it has been told of
   waits in the queue has a wake-up pending: reading the eventfd BEFORE the
   drain loses no notification, wherever the producer is in try_push. *)
NoLostWakeup ==
  cPc = "poll" /\ pPc = "idle" /\ items # <<>> => ready /\ signalled

(* What makes NoLostWakeup inductive: a message that the current drain may
   miss is one whose notification is still to be written or to be seen. *)
MissedIsAnnounced ==
  Len(items) > synced =>
    \/ pPc = "notify"
    \/ signalled /\ (ready \/ cPc \in {"start", "event"})

(* Outside a drain and the event before it nothing is known to be visible. *)
PollKnowsNothing ==
  cPc \in {"start", "poll"} => synced = 0

WakeupInv == TypeOK /\ MissedIsAnnounced /\ PollKnowsNothing
=============================================================================
