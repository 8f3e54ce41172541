----------------------------- MODULE NetServer ------------------------------
(***************************************************************************)
(* The connection table of NetServer::start, src/server.rs, which runs the *)
(* NETWORKER and RPC actors: connections keyed by file descriptor, the map *)
(* from addresses to descriptors, the heap of deadlines, and the loop of   *)
(* handle_timeouts, poll and one pass over the polled events.              *)
(*                                                                         *)
(* An Instant is kept as the time left until it, 0 once it has passed, so  *)
(* that Tick is the passing of time. What a connection does with an event  *)
(* (TcpConnection) only matters here as success or failure.                *)
(***************************************************************************)
EXTENDS Integers, FiniteSets

CONSTANTS
  Fds,          \* file descriptors the system hands out, used as mio tokens
  Addrs,        \* socket addresses of peers
  NoFd, NoAddr,
  IdleTimeout,  \* idle_timeout
  IdlePoll,     \* idle_polltimeout
  MaxBurst      \* bound: internal messages handled per pass

ASSUME NetServerAssumption ==
  /\ NoFd \notin Fds
  /\ NoAddr \notin Addrs
  /\ IdleTimeout \in Nat \ {0}
  /\ IdlePoll \in Nat \ {0}
  /\ MaxBurst \in Nat

VARIABLES
  conn,         \* maps: the address of the connection on each descriptor
  deadline,     \* last_deadline of each connection
  timeTable,    \* time_table: a heap of (when, token)
  tokenMap,     \* token_map: address to descriptor
  leftover,     \* stream_tokens that recycled NetMsgs still carry
  timeout,      \* what is left of the duration poll was called with
  batch,        \* connections with an event that is still to be handled
  listening,    \* the listener has such an event
  inbox,        \* internal messages of this pass still to be handled
  pc            \* "timeouts", "poll" or "events"

table == <<conn, deadline, timeTable, tokenMap>>
pass  == <<batch, listening, inbox>>
serverVars == <<table, leftover, timeout, pass, pc>>

Entries == [when : 0 .. IdleTimeout, token : Fds]

Live == {t \in Fds : conn[t] # NoAddr}

ServerInit ==
  /\ conn = [t \in Fds |-> NoAddr]
  /\ deadline = [t \in Fds |-> 0]
  /\ timeTable = {}
  /\ tokenMap = [a \in Addrs |-> NoFd]
  /\ leftover = {}
  /\ timeout = 0
  /\ batch = {} /\ listening = FALSE /\ inbox = 0
  /\ pc = "timeouts"

-----------------------------------------------------------------------------
(* handle_timeouts. *)

(* Connections whose own deadline has passed: an older entry of a connection
   that has had an event since is not equal to its last_deadline. *)
Expired ==
  {t \in Live : \E e \in timeTable : e.token = t /\ e.when = 0 /\ deadline[t] = e.when}

StillLive == Live \ Expired

(* The entries the loop can stop at. *)
Pending == {e \in timeTable : e.when > 0 /\ e.token \in StillLive}

(* The heap when the loop stops at time w; entries of closed connections that
   are due at w too may have come before the one it stopped at. *)
Remaining(w) ==
  {{e \in timeTable : e.when > w \/ (e.when = w /\ e.token \in StillLive)} \cup d :
     d \in SUBSET {e \in timeTable : e.when = w /\ e.token \notin StillLive}}

(* Mistake: timeouts are also handled in the middle of the events. *)
HandleTimeoutsAnytime ==
  /\ pc \in {"timeouts", "events"}
  /\ conn' = [t \in Fds |-> IF t \in Expired THEN NoAddr ELSE conn[t]]
  /\ timeTable' = Pending
  /\ timeout' = IdlePoll
  /\ pc' = IF pc = "events" THEN pc ELSE "poll"
  /\ UNCHANGED <<deadline, tokenMap, leftover, pass>>

(* Mistake: the idle poll timeout is used whatever is due. *)
HandleTimeoutsIdle ==
  /\ pc = "timeouts"
  /\ conn' = [t \in Fds |-> IF t \in Expired THEN NoAddr ELSE conn[t]]
  /\ timeTable' = Pending
  /\ timeout' = IdleTimeout
  /\ pc' = "poll"
  /\ UNCHANGED <<deadline, tokenMap, leftover, pass>>

HandleTimeouts ==
  /\ pc = "timeouts"
  /\ conn' = [t \in Fds |-> IF t \in Expired THEN NoAddr ELSE conn[t]]
  /\ \/ /\ Pending = {}
        /\ timeTable' = {}
        /\ timeout' = IdlePoll
     \/ \E e \in Pending :
          /\ \A f \in Pending : e.when <= f.when
          /\ timeTable' \in Remaining(e.when)
          /\ timeout' = e.when
  /\ pc' = "poll"
  /\ UNCHANGED <<deadline, tokenMap, leftover, pass>>

-----------------------------------------------------------------------------
(* Poll::poll returns some events; none when it times out or fails. *)
PollReturns ==
  /\ pc = "poll"
  /\ batch' \in SUBSET Live
  /\ listening' \in BOOLEAN
  /\ inbox' \in 0 .. MaxBurst
  /\ pc' = "events"
  /\ UNCHANGED <<table, leftover, timeout>>

(* Mistake: the new deadline is not pushed on the heap. *)
UpdateTimeoutUnpushed(t) ==
  /\ deadline' = [deadline EXCEPT ![t] = IdleTimeout]
  /\ UNCHANGED timeTable

(* update_timeout *)
UpdateTimeout(t) ==
  /\ deadline' = [deadline EXCEPT ![t] = IdleTimeout]
  /\ timeTable' = timeTable \cup {[when |-> IdleTimeout, token |-> t]}

(* handle_new: the system gives a stream a descriptor nobody uses, so nothing
   is replaced in maps. *)
HandleNew(a, t) ==
  /\ t \notin Live
  /\ conn' = [conn EXCEPT ![t] = a]
  /\ tokenMap' = [tokenMap EXCEPT ![a] = t]
  /\ UpdateTimeout(t)

(* The event of the listener: one accept, which may fail or be refused. *)
Accept ==
  /\ pc = "events"
  /\ listening
  /\ listening' = FALSE
  /\ \/ UNCHANGED table
     \/ \E a \in Addrs, t \in Fds : HandleNew(a, t)
  /\ UNCHANGED <<leftover, timeout, batch, inbox, pc>>

(* handle_outbound: the descriptor a message for address a goes to. The token
   in the message, if any, goes before the address. *)
Lookup(a, token) == IF token # NoFd THEN token ELSE tokenMap[a]

(* A message for address a that was collected from the free list with token
   in it: it is queued on the connection found, or the address is dialled. A
   new connection takes a message for its negotiation, with its own token in
   it. A dial that fails gives the message back. *)
Outbound(a, token) ==
  /\ pc = "events"
  /\ inbox > 0
  /\ inbox' = inbox - 1
  /\ IF Lookup(a, token) \in Live
       THEN UNCHANGED <<table, leftover>>
       ELSE \/ UNCHANGED <<table, leftover>>
            \/ \E t \in Fds : HandleNew(a, t) /\ leftover' = leftover \cup {t}
  /\ UNCHANGED <<timeout, batch, listening, pc>>

(* handle_from_internal does not touch the table. *)
Internal ==
  /\ pc = "events"
  /\ inbox > 0
  /\ inbox' = inbox - 1
  /\ UNCHANGED <<table, leftover, timeout, batch, listening, pc>>

(* A connection's event is handled: it may answer with a message. An event
   for a token that is not in maps does nothing. *)
ConnOk(t) ==
  /\ pc = "events"
  /\ t \in batch
  /\ batch' = batch \ {t}
  /\ IF t \in Live
       THEN UpdateTimeout(t) /\ leftover' \in {leftover, leftover \cup {t}}
       ELSE UNCHANGED <<deadline, timeTable, leftover>>
  /\ UNCHANGED <<conn, tokenMap, timeout, listening, inbox, pc>>

(* A connection's event fails: it leaves maps, its stream is closed. The
   entries for it in token_map and time_table stay. *)
ConnErr(t) ==
  /\ pc = "events"
  /\ t \in batch \cap Live
  /\ batch' = batch \ {t}
  /\ conn' = [conn EXCEPT ![t] = NoAddr]
  /\ UNCHANGED <<deadline, timeTable, tokenMap, leftover, timeout, listening, inbox, pc>>

PassDone ==
  /\ pc = "events"
  /\ batch = {} /\ ~listening /\ inbox = 0
  /\ pc' = "timeouts"
  /\ UNCHANGED <<table, leftover, timeout, pass>>

Less(n) == IF n = 0 THEN 0 ELSE n - 1

Tick ==
  /\ deadline' = [t \in Fds |-> Less(deadline[t])]
  /\ timeTable' = {[e EXCEPT !.when = Less(e.when)] : e \in timeTable}
  /\ timeout' = Less(timeout)
  /\ UNCHANGED <<conn, tokenMap, leftover, pass, pc>>

Server ==
  \/ HandleTimeouts \/ PollReturns \/ Accept \/ Internal \/ PassDone
  \/ \E a \in Addrs, f \in leftover \cup {NoFd} : Outbound(a, f)
  \/ \E t \in Fds : ConnOk(t) \/ ConnErr(t)

ServerNext == Server \/ Tick

(* The server's thread runs and time passes. *)
ServerSpec ==
  ServerInit /\ [][ServerNext]_serverVars /\ WF_serverVars(Server) /\ WF_serverVars(Tick)

-----------------------------------------------------------------------------
(* The fields of NetServer keep their types. *)
ServerTypeOK ==
  /\ conn \in [Fds -> Addrs \cup {NoAddr}]
  /\ deadline \in [Fds -> 0 .. IdleTimeout]
  /\ timeTable \in SUBSET Entries
  /\ tokenMap \in [Addrs -> Fds \cup {NoFd}]
  /\ leftover \in SUBSET Fds
  /\ timeout \in Nat
  /\ batch \in SUBSET Fds
  /\ listening \in BOOLEAN
  /\ inbox \in 0 .. MaxBurst
  /\ pc \in {"timeouts", "poll", "events"}

(* Every connection has an entry for its current deadline in time_table,
   whatever handle_timeouts has dropped from it. Without one the connection
   would never be closed for being idle. *)
DeadlinesCovered ==
  \A t \in Live : [when |-> deadline[t], token |-> t] \in timeTable

(* poll is never called with a duration that reaches beyond the deadline of
   a connection. *)
WakesInTime == pc = "poll" => \A t \in Live : timeout <= deadline[t]

(* handle_timeouts leaves no connection whose deadline has passed. *)
CloseStep == HandleTimeouts => \A t \in Live' : deadline'[t] > 0
ClosesExpired == [][CloseStep]_serverVars

(* An event that is still to be handled belongs to the connection that is now
   on its descriptor: nothing in the pass over the events can close a
   connection with a pending event and hand its descriptor to another. *)
NoStaleEvent == batch \subseteq Live

(* The inductive invariant: between passes no event is pending. *)
ServerInv ==
  /\ ServerTypeOK
  /\ DeadlinesCovered
  /\ WakesInTime
  /\ NoStaleEvent
  /\ pc # "events" => batch = {}

(* A connection that has no events is closed. *)
IdleClosed ==
  \A t \in Fds : []<>(t \notin Live) \/ []<><<ConnOk(t)>>_serverVars

(* A message for an address goes to the connection with that address, or the
   address is dialled. *)
RoutedToAddressee ==
  \A a \in Addrs : Lookup(a, NoFd) \in Live => conn[Lookup(a, NoFd)] = a
=============================================================================
