------------------------------ MODULE Dispatch ------------------------------
(***************************************************************************)
(* How NetServer sends messages to the other actors, src/server.rs: event  *)
(* handlers leave messages in internal_msgs (enqueue_internal), and        *)
(* internal_try_push moves them to the queues of the actors before each    *)
(* event. A message that finds a full queue goes to the back of            *)
(* internal_msgs; the call stops when the first one that failed fails      *)
(* again, which it knows by its id.                                        *)
(*                                                                         *)
(* The queue to an actor is the bounded queue of module Fifo, which        *)
(* SpscQueue is shown to implement. The actors pop while a call runs.      *)
(***************************************************************************)
EXTENDS Integers, FiniteSets, Sequences, Functions

CONSTANTS
  Actors,      \* tokens in to_internals
  Stranger,    \* a token that is not
  Ids,         \* what the u16 id of a message can be
  Capacity,    \* of each queue
  MaxEvents,   \* bound: events that one poll returns
  MaxSent      \* bound: messages enqueued

ASSUME DispatchAssumption ==
  /\ Stranger \notin Actors
  /\ Capacity \in Nat \ {0}
  /\ MaxEvents \in Nat
  /\ MaxSent \in Nat

VARIABLES
  internalMsgs,  \* internal_msgs
  queue,         \* the queue to each actor
  taken,         \* what each actor has popped, in order
  freed,         \* messages put back in net_msgs
  sent,          \* number of messages enqueued so far
  start,         \* the local start of internal_try_push: {} for None
  events,        \* events of this pass still to be handled
  pc,            \* "poll", "event", "push" (in internal_try_push), "handle"
  failed,        \* history: messages that found a full queue in this call
  clean          \* history: no actor popped during a call so far, and no two
                 \* messages waited with the same id

actors == <<queue, taken>>
vars   == <<internalMsgs, actors, freed, sent, start, events, pc, failed, clean>>

(* num is the place of a message in the order of the calls of
   enqueue_internal; the code does not have it. *)
Messages == [num : 1 .. MaxSent, to : Actors \cup {Stranger}, id : Ids]

Init ==
  /\ internalMsgs = <<>>
  /\ queue = [a \in Actors |-> <<>>]
  /\ taken = [a \in Actors |-> <<>>]
  /\ freed = {}
  /\ sent = 0
  /\ start = {}
  /\ events = 0
  /\ pc = "poll"
  /\ failed = {}
  /\ clean = TRUE

-----------------------------------------------------------------------------
(* The loop of NetServer::start. *)

PollOk ==
  /\ pc = "poll"
  /\ events' \in 0 .. MaxEvents
  /\ pc' = "event"
  /\ UNCHANGED <<internalMsgs, actors, freed, sent, start, failed, clean>>

(* internal_try_push is called. *)
Call ==
  /\ start' = {}
  /\ failed' = {}
  /\ pc' = "push"
  /\ UNCHANGED <<internalMsgs, actors, freed, sent, events, clean>>

PollErr == pc = "poll" /\ Call

NextEvent == pc = "event" /\ events > 0 /\ Call

PassDone ==
  /\ pc = "event"
  /\ events = 0
  /\ pc' = "poll"
  /\ UNCHANGED <<internalMsgs, actors, freed, sent, start, events, failed, clean>>

(* A handler sends a message: enqueue_internal. The id is random, or what the
   recycled message still holds. *)
Enqueue(to, id) ==
  /\ pc = "handle"
  /\ sent < MaxSent
  /\ sent' = sent + 1
  /\ internalMsgs' = Append(internalMsgs, [num |-> sent + 1, to |-> to, id |-> id])
  /\ clean' = (clean /\ \A m \in Range(internalMsgs) : m.id # id)
  /\ UNCHANGED <<actors, freed, start, events, pc, failed>>

Handled ==
  /\ pc = "handle"
  /\ events' = events - 1
  /\ pc' = "event"
  /\ UNCHANGED <<internalMsgs, actors, freed, sent, start, failed, clean>>

-----------------------------------------------------------------------------
(* internal_try_push. *)

(* The call returns: to the event, or to the loop after a failed poll. *)
Return == pc' = IF events > 0 THEN "handle" ELSE "poll"

Foremost == internalMsgs[1]

TryPushOk ==
  /\ pc = "push"
  /\ internalMsgs # <<>>
  /\ Foremost.to \in Actors
  /\ Len(queue[Foremost.to]) < Capacity
  /\ queue' = [queue EXCEPT ![Foremost.to] = Append(@, Foremost)]
  /\ internalMsgs' = Tail(internalMsgs)
  /\ UNCHANGED <<taken, freed, sent, start, events, pc, failed, clean>>

QueueFull ==
  /\ pc = "push"
  /\ internalMsgs # <<>>
  /\ Foremost.to \in Actors
  /\ Len(queue[Foremost.to]) >= Capacity
  /\ failed' = failed \cup {Foremost.num}
  /\ UNCHANGED <<actors, freed, sent, events, clean>>

(* Mistake: the message that failed is dropped. *)
TryPushDrops ==
  /\ QueueFull
  /\ Foremost.id \notin start
  /\ start' = IF start = {} THEN {Foremost.id} ELSE start
  /\ internalMsgs' = Tail(internalMsgs)
  /\ pc' = pc

(* The message goes to the back. *)
TryPushErr ==
  /\ QueueFull
  /\ Foremost.id \notin start
  /\ start' = IF start = {} THEN {Foremost.id} ELSE start
  /\ internalMsgs' = Append(Tail(internalMsgs), Foremost)
  /\ pc' = pc

(* Mistake: the message goes to the back before the call ends. *)
CycleRotates ==
  /\ QueueFull
  /\ Foremost.id \in start
  /\ Return
  /\ internalMsgs' = Append(Tail(internalMsgs), Foremost)
  /\ UNCHANGED start

(* The cycle is closed: the message stays in front and the call ends. *)
CycleClosed ==
  /\ QueueFull
  /\ Foremost.id \in start
  /\ Return
  /\ UNCHANGED <<internalMsgs, start>>

NoSuchActor ==
  /\ pc = "push"
  /\ internalMsgs # <<>>
  /\ Foremost.to \notin Actors
  /\ freed' = freed \cup {Foremost.num}
  /\ internalMsgs' = Tail(internalMsgs)
  /\ UNCHANGED <<actors, sent, start, events, pc, failed, clean>>

AllSent ==
  /\ pc = "push"
  /\ internalMsgs = <<>>
  /\ Return
  /\ UNCHANGED <<internalMsgs, actors, freed, sent, start, events, failed, clean>>

-----------------------------------------------------------------------------
(* Actor a pops a message. *)
Pop(a) ==
  /\ queue[a] # <<>>
  /\ queue' = [queue EXCEPT ![a] = Tail(@)]
  /\ taken' = [taken EXCEPT ![a] = Append(@, Head(queue[a]))]
  /\ clean' = (clean /\ pc # "push")
  /\ UNCHANGED <<internalMsgs, freed, sent, start, events, pc, failed>>

TryPush == TryPushOk \/ TryPushErr \/ CycleClosed \/ NoSuchActor \/ AllSent

Server ==
  \/ PollOk \/ PollErr \/ NextEvent \/ PassDone \/ Handled \/ TryPush
  \/ \E to \in Actors \cup {Stranger}, id \in Ids : Enqueue(to, id)

Next == Server \/ \E a \in Actors : Pop(a)

(* The threads of the server and of the actors run. A message that is not
   sent by any handler is nobody's obligation. *)
Fairness ==
  /\ WF_vars(PollOk) /\ WF_vars(NextEvent) /\ WF_vars(PassDone)
  /\ WF_vars(Handled) /\ WF_vars(TryPush)
  /\ \A a \in Actors : WF_vars(Pop(a))

Spec == Init /\ [][Next]_vars /\ Fairness

-----------------------------------------------------------------------------
(* The state of the server and the queues keep their types; no queue exceeds
   its capacity. *)
TypeOK ==
  /\ internalMsgs \in Seq(Messages)
  /\ queue \in [Actors -> Seq(Messages)]
  /\ \A a \in Actors : Len(queue[a]) <= Capacity
  /\ taken \in [Actors -> Seq(Messages)]
  /\ freed \subseteq 1 .. MaxSent
  /\ sent \in 0 .. MaxSent
  /\ start \in {{}} \cup {{i} : i \in Ids}
  /\ events \in 0 .. MaxEvents
  /\ pc \in {"poll", "event", "push", "handle"}
  /\ failed \subseteq 1 .. MaxSent
  /\ clean \in BOOLEAN

(* What has left the server for actor a: popped by it, or in its queue. *)
Passed(a) == taken[a] \o queue[a]

Nums(msgs) == {msgs[i].num : i \in DOMAIN msgs}

Distinct(msgs) == \A i, j \in DOMAIN msgs : msgs[i].num = msgs[j].num => i = j

Ascending(msgs) ==
  \A i, j \in DOMAIN msgs : i < j /\ msgs[i].to = msgs[j].to => msgs[i].num < msgs[j].num

Reached == UNION {Nums(Passed(a)) : a \in Actors}

(* internal_try_push neither loses nor duplicates a message, whatever it meets
   in a call: each waits in internal_msgs, has gone to one actor or was given
   up, and is in one place only. *)
NothingLost ==
  /\ freed \cup Nums(internalMsgs) \cup Reached = 1 .. sent
  /\ freed \cap Nums(internalMsgs) = {} /\ Distinct(internalMsgs)
  /\ \A a \in Actors :
       /\ Distinct(Passed(a))
       /\ Nums(Passed(a)) \cap (freed \cup Nums(internalMsgs)) = {}
       /\ \A b \in Actors \ {a} : Nums(Passed(a)) \cap Nums(Passed(b)) = {}

(* Outside a call, the messages for an actor are in the order in which they
   were enqueued, from the first it popped to the last that waits, also after
   calls that cycled, as long as no actor popped during a call and ids told
   the messages apart. *)
OrderKept ==
  clean /\ pc # "push" => \A a \in Actors : Ascending(Passed(a) \o internalMsgs)

(* Every message for a known actor is popped by it, if polls keep returning
   events. *)
Dispatched ==
  []<>(events > 0) =>
    \A n \in 1 .. MaxSent :
      sent >= n ~> n \in freed \cup UNION {{m.num : m \in Range(taken[a])} : a \in Actors}

(* "Pops from self.internal_msgs until len == 0 or we run into a cycle": a
   call ends when a message fails for the second time. *)
CycleStep == QueueFull /\ Foremost.num \in failed => pc' # "push"
StopsAtCycle == [][CycleStep]_vars

(* "Enqueues a msg in self.internal_msgs which is then flushed every maximum
   of default idle_polltimeout": a call follows. *)
FlushedWhenIdle == internalMsgs # <<>> ~> pc = "push"
=============================================================================
