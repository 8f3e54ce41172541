----------------------------- MODULE ActorInbox -----------------------------
(***************************************************************************)
(* The inbox of the BLOCKCHAIN and SOCIAL actors: for an event of an       *)
(* internal queue start_blockchain and start_social pop ONE message and    *)
(* never read the eventfd.                                                 *)
(***************************************************************************)
EXTENDS EventChannel

(* if let Some(mut msg) = from.pop(): handle it, recycle it. There always is
   one (EventFindsMessage), so pop has no other outcome here. *)
PopOne ==
  /\ cPc = "event"
  /\ PopSome
  /\ cPc' = "poll"

ActorConsumer == Register \/ Poll \/ PopOne

ActorNext == (\E m \in Msgs : TryPush(m)) \/ Notify \/ ActorConsumer

(* As in NetServerInbox: the threads run, and nobody has to push. *)
ActorFairness == WF_vars(Notify) /\ WF_vars(ActorConsumer)

ActorSpec == Init /\ [][ActorNext]_vars /\ ActorFairness

-----------------------------------------------------------------------------
(* A full inbox is never stuck: the push that filled it is still to be
   announced, or its event is pending, so one more message will be popped. *)
NoFullStall ==
  Len(items) = Capacity /\ Capacity > 0 =>
    pPc = "notify" \/ cPc \in {"start", "event"} \/ ready

(* The loop never handles an event for nothing: since it pops one message per
   edge, every edge finds a message that its pop is sure to see. *)
EventFindsMessage == cPc = "event" => synced > 0

(* Why: the messages that have been announced cover the edges to come. *)
Announced == IF pPc = "notify" THEN Len(items) - 1 ELSE Len(items)

EdgesBacked ==
  /\ Announced >= (IF ready THEN 1 ELSE 0) + (IF cPc = "event" THEN 1 ELSE 0)
  /\ cPc = "start" /\ signalled => Announced > 0

(* In a full queue the last push has either been answered by a pop or has an
   event that is pending or being handled. *)
FullMoves ==
  /\ cPc = "start" => ~ready
  /\ cPc = "start" /\ pPc = "idle" /\ items # <<>> => signalled
  /\ ready => signalled
  /\ NoFullStall
  /\ cPc = "event" /\ Len(items) = Capacity /\ Capacity > 0 =>
       pPc = "notify" \/ ready \/ synced > 0

(* The inductive invariant behind the two properties above. *)
StallInv == TypeOK /\ FullMoves /\ EdgesBacked /\ EventFindsMessage

(* The producer always finds room again: back-pressure on NETWORKER and RPC
   is never permanent. *)
RoomAgain == Capacity > 0 => []<>(Len(items) < Capacity)
=============================================================================
