---------------------------- MODULE EventChannel ----------------------------
(***************************************************************************)
(* A queue between two actors with the eventfd that announces its messages *)
(* (Producer and Consumer of src/spsc.rs) and the edge-triggered epoll the *)
(* receiving actor blocks on through mio. The ring itself is the Fifo that *)
(* SpscQueue implements. The loops of the receiving actors are in          *)
(* NetServerInbox and ActorInbox.                                          *)
(*                                                                         *)
(* The count of the eventfd only matters as zero or not: signalled.        *)
(* ready says that epoll has the eventfd on its ready list. A write to the *)
(* eventfd puts it there; epoll_wait takes it off, reports it if it is     *)
(* still readable, and does not put it back (edge-triggered).              *)
(***************************************************************************)
EXTENDS Integers, Sequences

CONSTANTS
  Msgs,      \* the messages that can be sent
  NoMsg,     \* Option::None
  Capacity   \* how many messages the queue can hold

(* SpscQueue::new accepts any capacity. *)
ASSUME ChannelAssumption ==
  /\ Capacity \in Nat
  /\ NoMsg \notin Msgs

VARIABLES
  items,     \* the messages in the queue, oldest first
  got,       \* what the last pop returned
  signalled, \* the eventfd is readable
  ready,     \* the eventfd is on epoll's ready list
  synced,    \* how many messages the consumer's next pops are sure to see
  pPc,       \* where the producer is in try_push
  cPc        \* where the consumer is in its loop

Ring == INSTANCE Fifo

vars == <<items, got, signalled, ready, synced, pPc, cPc>>

Init ==
  /\ Ring!Init
  /\ signalled = FALSE
  /\ ready = FALSE
  /\ synced = 0
  /\ pPc = "idle"
  /\ cPc = "start"

-----------------------------------------------------------------------------
(* The producer. *)

(* Producer::try_push puts the message in the ring. A full ring gives the
   message back and changes nothing here. *)
TryPush(m) ==
  /\ pPc = "idle"
  /\ Ring!Push(m)
  /\ pPc' = "notify"
  /\ UNCHANGED <<signalled, ready, synced, cPc>>

(* Mistake: only the push into an empty queue is announced. *)
NotifyFirst ==
  /\ pPc = "notify"
  /\ IF Len(items) = 1
       THEN signalled' = TRUE /\ ready' = (cPc # "start")
       ELSE UNCHANGED <<signalled, ready>>
  /\ pPc' = "idle"
  /\ UNCHANGED <<items, got, synced, cPc>>

(* ... and then, in a second step, writes to the eventfd. *)
Notify ==
  /\ pPc = "notify"
  /\ signalled' = TRUE
  /\ ready' = (cPc # "start")
  /\ pPc' = "idle"
  /\ UNCHANGED <<items, got, synced, cPc>>

-----------------------------------------------------------------------------
(* The consumer's side of the channel. *)

(* from_internals_from_vec registers the eventfd. The producer's thread may
   already be running: an eventfd that is readable goes on the ready list. *)
Register ==
  /\ cPc = "start"
  /\ ready' = signalled
  /\ cPc' = "poll"
  /\ UNCHANGED <<items, got, signalled, synced, pPc>>

(* How many messages the consumer is sure to see after a system call on the
   eventfd: all but the one whose write has not happened yet. *)
Visible ==
  {k \in {Len(items), IF pPc = "notify" THEN Len(items) - 1 ELSE Len(items)} : k >= 0}

(* Poll::poll returns an event for the eventfd, or drops a ready entry whose
   eventfd has been read in the meantime. A poll that times out is no step. *)
Poll ==
  /\ cPc = "poll"
  /\ ready
  /\ ready' = FALSE
  /\ IF signalled
       THEN cPc' = "event" /\ synced' \in Visible
       ELSE UNCHANGED <<cPc, synced>>
  /\ UNCHANGED <<items, got, signalled, pPc>>

(* Consumer::read_event makes the eventfd unreadable. *)
ReadEvent ==
  /\ signalled' = FALSE
  /\ synced' \in Visible
  /\ UNCHANGED <<items, got, ready, pPc>>

(* Consumer::pop returns a message. *)
PopSome ==
  /\ Ring!PopSome
  /\ synced' = IF synced = 0 THEN 0 ELSE synced - 1
  /\ UNCHANGED <<signalled, ready, pPc>>

(* Consumer::pop returns None, which it may do while the queue holds messages
   it is not sure to see. *)
PopNone ==
  /\ synced = 0
  /\ Ring!PopNone
  /\ UNCHANGED <<signalled, ready, synced, pPc>>

-----------------------------------------------------------------------------
(* The state of a channel has the types of its fields, and never more
   messages than slots. *)
TypeOK ==
  /\ items \in Seq(Msgs) /\ Len(items) <= Capacity
  /\ got \in Msgs \cup {NoMsg}
  /\ signalled \in BOOLEAN
  /\ ready \in BOOLEAN
  /\ synced \in 0 .. Len(items)
  /\ pPc \in {"idle", "notify"}
  /\ cPc \in {"start", "poll", "event", "drain"}

(* No message accepted by try_push waits for ever, as its sender assumes: the
   queue is empty again and again or the loop keeps popping, and pops come in
   order. *)
EveryMessagePopped ==
  []<>(items = <<>>) \/ []<><<PopSome>>_vars
=============================================================================
