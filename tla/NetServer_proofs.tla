-------------------------- MODULE NetServer_proofs --------------------------
(***************************************************************************)
(* The deadlines of NetServer::start are kept, for every number of         *)
(* descriptors, addresses and every idle timeout. Its loop never blocks on *)
(* a queue that holds a message it was told of, and the loops of           *)
(* start_blockchain and start_social always take one message out of a full *)
(* inbox, for every capacity and message set.                              *)
(***************************************************************************)
EXTENDS NetServer, NetServerInbox, ActorInbox, SequenceTheorems, TLAPS

-----------------------------------------------------------------------------
(* Connections and their deadlines. *)

(* A server that has just started has no connection. *)
LEMMA InitServerInv == ServerInit => ServerInv
<1> SUFFICES ASSUME ServerInit PROVE ServerInv
  OBVIOUS
<1>1. ServerTypeOK
  <2>1. listening \in BOOLEAN
    BY DEF ServerInit
  <2>2. /\ conn \in [Fds -> Addrs \cup {NoAddr}]
        /\ deadline \in [Fds -> 0 .. IdleTimeout]
        /\ tokenMap \in [Addrs -> Fds \cup {NoFd}]
        /\ timeout \in Nat
        /\ inbox \in 0 .. MaxBurst
    BY NetServerAssumption DEF ServerInit
  <2>3. QED
    BY <2>1, <2>2 DEF ServerInit, ServerTypeOK
<1>2. Live = {}
  BY DEF ServerInit, Live
<1>3. QED
  BY <1>1, <1>2 DEF ServerInit, ServerInv, DeadlinesCovered, WakesInTime, NoStaleEvent

(* What handle_timeouts does to the table: the connections that stay have
   time left, and the loop stops at an entry no later than theirs. *)
LEMMA TimeoutsStep ==
  ASSUME ServerInv, HandleTimeouts
  PROVE  /\ Live' = StillLive
         /\ \A t \in Live' : /\ deadline'[t] > 0
                             /\ timeout' <= deadline'[t]
                             /\ [when |-> deadline'[t], token |-> t] \in timeTable'
         /\ timeTable' \in SUBSET Entries
         /\ timeout' \in Nat
<1> USE NetServerAssumption DEF ServerInv
<1>1. Live' = StillLive
  BY DEF HandleTimeouts, Live, StillLive, Expired
<1>2. ASSUME NEW t \in StillLive
      PROVE  /\ deadline[t] > 0
             /\ [when |-> deadline[t], token |-> t] \in Pending
  <2>1. t \in Fds /\ [when |-> deadline[t], token |-> t] \in timeTable
    BY DEF DeadlinesCovered, StillLive, Live
  <2>2. deadline[t] # 0
    BY <2>1 DEF StillLive, Expired
  <2>3. deadline[t] > 0
    BY <2>1, <2>2 DEF ServerTypeOK
  <2>4. QED
    BY <2>1, <2>3 DEF Pending
<1>3. CASE Pending = {} /\ timeTable' = {} /\ timeout' = IdlePoll
  BY <1>1, <1>2, <1>3
<1>4. CASE \E e \in Pending :
             /\ \A f \in Pending : e.when <= f.when
             /\ timeTable' \in Remaining(e.when)
             /\ timeout' = e.when
  <2>1. PICK e \in Pending :
             /\ \A f \in Pending : e.when <= f.when
             /\ timeTable' \in Remaining(e.when)
             /\ timeout' = e.when
    BY <1>4
  <2>2. /\ {f \in timeTable : f.when > e.when \/ (f.when = e.when /\ f.token \in StillLive)}
             \subseteq timeTable'
        /\ timeTable' \subseteq timeTable
    BY <2>1 DEF Remaining
  <2>3. e \in Entries /\ timeTable' \in SUBSET Entries
    BY <2>1, <2>2 DEF Pending, ServerTypeOK
  <2>4. ASSUME NEW t \in StillLive
        PROVE  /\ e.when <= deadline[t]
               /\ [when |-> deadline[t], token |-> t] \in timeTable'
    <3>1. /\ [when |-> deadline[t], token |-> t] \in Pending
          /\ t \in Fds /\ deadline[t] \in Nat
      BY <1>2 DEF StillLive, Live, ServerTypeOK
    <3>2. e.when <= deadline[t]
      BY <2>1, <3>1
    <3>3. deadline[t] > e.when \/ deadline[t] = e.when
      BY <2>3, <3>1, <3>2 DEF Entries
    <3>4. [when |-> deadline[t], token |-> t]
            \in {f \in timeTable : f.when > e.when \/ (f.when = e.when /\ f.token \in StillLive)}
      BY <3>1, <3>3 DEF Pending
    <3>5. QED
      BY <2>2, <3>2, <3>4
  <2>5. timeout' \in Nat
    BY <2>1, <2>3 DEF Entries
  <2>6. deadline' = deadline
    BY DEF HandleTimeouts
  <2>7. QED
    BY <1>1, <1>2, <2>1, <2>3, <2>4, <2>5, <2>6
<1>5. QED
  BY <1>3, <1>4 DEF HandleTimeouts

(* A descriptor whose connection is new or has had an event. *)
LEMMA TouchedStep ==
  ASSUME ServerInv, NEW t \in Fds, UpdateTimeout(t),
         Live' \subseteq Live \cup {t}
  PROVE  /\ deadline' \in [Fds -> 0 .. IdleTimeout]
         /\ timeTable' \in SUBSET Entries
         /\ DeadlinesCovered'
<1> USE NetServerAssumption DEF ServerInv, ServerTypeOK
<1>1. deadline' \in [Fds -> 0 .. IdleTimeout]
  BY DEF UpdateTimeout
<1>2. timeTable' \in SUBSET Entries
  BY DEF UpdateTimeout, Entries
<1>3. ASSUME NEW s \in Live' PROVE [when |-> deadline'[s], token |-> s] \in timeTable'
  <2>1. CASE s = t
    BY <2>1 DEF UpdateTimeout
  <2>2. CASE s # t
    <3>1. s \in Live /\ s \in Fds
      BY <1>3, <2>2 DEF Live
    <3>2. deadline'[s] = deadline[s]
      BY <2>2, <3>1 DEF UpdateTimeout
    <3>3. QED
      BY <3>1, <3>2 DEF UpdateTimeout, DeadlinesCovered
  <2>3. QED
    BY <2>1, <2>2
<1>4. QED
  BY <1>1, <1>2, <1>3 DEF DeadlinesCovered

(* handle_new adds one connection, with its deadline. *)
LEMMA NewStep ==
  ASSUME ServerInv, NEW a \in Addrs, NEW t \in Fds, HandleNew(a, t)
  PROVE  /\ conn' \in [Fds -> Addrs \cup {NoAddr}]
         /\ tokenMap' \in [Addrs -> Fds \cup {NoFd}]
         /\ Live' = Live \cup {t}
         /\ deadline' \in [Fds -> 0 .. IdleTimeout]
         /\ timeTable' \in SUBSET Entries
         /\ DeadlinesCovered'
<1>1. conn' \in [Fds -> Addrs \cup {NoAddr}] /\ tokenMap' \in [Addrs -> Fds \cup {NoFd}]
  BY DEF HandleNew, ServerInv, ServerTypeOK
<1>2. Live' = Live \cup {t}
  BY NetServerAssumption DEF HandleNew, ServerInv, ServerTypeOK, Live
<1>3. QED
  BY <1>1, <1>2, TouchedStep DEF HandleNew

(* Every step of the loop, and the passing of time, preserve the invariant. *)
LEMMA StepServerInv == ServerInv /\ [ServerNext]_serverVars => ServerInv'
<1> SUFFICES ASSUME ServerInv, [ServerNext]_serverVars PROVE ServerInv'
  OBVIOUS
<1> USE NetServerAssumption
<1>1. ASSUME HandleTimeouts PROVE ServerInv'
  <2>1. /\ Live' = StillLive
        /\ \A t \in Live' : /\ timeout' <= deadline'[t]
                            /\ [when |-> deadline'[t], token |-> t] \in timeTable'
        /\ timeTable' \in SUBSET Entries
        /\ timeout' \in Nat
    BY <1>1, TimeoutsStep
  <2>2. conn' \in [Fds -> Addrs \cup {NoAddr}]
    BY <1>1 DEF HandleTimeouts, ServerInv, ServerTypeOK
  <2>3. ServerTypeOK'
    BY <1>1, <2>1, <2>2 DEF HandleTimeouts, ServerInv, ServerTypeOK, pass
  <2>4. DeadlinesCovered' /\ WakesInTime'
    BY <2>1 DEF DeadlinesCovered, WakesInTime
  <2>5. batch' = {}
    BY <1>1 DEF HandleTimeouts, ServerInv, pass
  <2>6. QED
    BY <2>3, <2>4, <2>5 DEF ServerInv, NoStaleEvent
<1>2. ASSUME PollReturns PROVE ServerInv'
  <2>1. ServerTypeOK'
    BY <1>2 DEF PollReturns, ServerInv, ServerTypeOK, table, Live
  <2>2. Live' = Live
    BY <1>2 DEF PollReturns, table, Live
  <2>3. QED
    BY <1>2, <2>1, <2>2
       DEF PollReturns, ServerInv, table, DeadlinesCovered, WakesInTime, NoStaleEvent
<1>3. ASSUME UNCHANGED table, ServerTypeOK', batch' = batch, pc = "events", pc' = "events"
      PROVE  ServerInv'
  <2>1. Live' = Live
    BY <1>3 DEF table, Live
  <2>2. QED
    BY <1>3, <2>1 DEF ServerInv, table, DeadlinesCovered, WakesInTime, NoStaleEvent
<1>4. ASSUME NEW a \in Addrs, NEW t \in Fds, HandleNew(a, t), leftover' \in SUBSET Fds,
             timeout' = timeout, batch' = batch, listening' \in BOOLEAN,
             inbox' \in 0 .. MaxBurst, pc = "events", pc' = "events"
      PROVE  ServerInv'
  <2>1. /\ conn' \in [Fds -> Addrs \cup {NoAddr}]
        /\ tokenMap' \in [Addrs -> Fds \cup {NoFd}]
        /\ Live' = Live \cup {t}
        /\ deadline' \in [Fds -> 0 .. IdleTimeout]
        /\ timeTable' \in SUBSET Entries
        /\ DeadlinesCovered'
    BY <1>4, NewStep
  <2>2. ServerTypeOK'
    BY <1>4, <2>1 DEF ServerInv, ServerTypeOK
  <2>3. QED
    BY <1>4, <2>1, <2>2 DEF ServerInv, WakesInTime, NoStaleEvent
<1>5. ASSUME Accept PROVE ServerInv'
  <2>1. /\ listening' \in BOOLEAN
        /\ leftover' = leftover /\ timeout' = timeout /\ batch' = batch
        /\ inbox' = inbox /\ pc' = pc /\ pc = "events"
    BY <1>5 DEF Accept
  <2>2. CASE UNCHANGED table
    <3>1. ServerTypeOK'
      BY <2>1, <2>2 DEF ServerInv, ServerTypeOK, table
    <3>2. QED
      BY <1>3, <2>1, <2>2, <3>1
  <2>3. CASE \E a \in Addrs, t \in Fds : HandleNew(a, t)
    BY <1>4, <2>1, <2>3 DEF ServerInv, ServerTypeOK
  <2>4. QED
    BY <1>5, <2>2, <2>3 DEF Accept
<1>6. ASSUME Internal PROVE ServerInv'
  <2>1. inbox' \in 0 .. MaxBurst
    BY <1>6 DEF Internal, ServerInv, ServerTypeOK
  <2>2. ServerTypeOK'
    BY <1>6, <2>1 DEF Internal, ServerInv, ServerTypeOK, table
  <2>3. QED
    BY <1>3, <1>6, <2>2 DEF Internal
<1>7. ASSUME NEW a \in Addrs, NEW f \in leftover \cup {NoFd}, Outbound(a, f) PROVE ServerInv'
  <2>1. /\ inbox' \in 0 .. MaxBurst
        /\ timeout' = timeout /\ batch' = batch
        /\ listening' = listening /\ pc' = pc /\ pc = "events"
    BY <1>7 DEF Outbound, ServerInv, ServerTypeOK
  <2>2. CASE UNCHANGED <<table, leftover>>
    <3>1. ServerTypeOK'
      BY <2>1, <2>2 DEF ServerInv, ServerTypeOK, table
    <3>2. QED
      BY <1>3, <2>1, <2>2, <3>1
  <2>3. CASE \E t \in Fds : HandleNew(a, t) /\ leftover' = leftover \cup {t}
    BY <1>4, <2>1, <2>3 DEF ServerInv, ServerTypeOK
  <2>4. QED
    BY <1>7, <2>2, <2>3 DEF Outbound
<1>8. ASSUME NEW t \in Fds, ConnOk(t) PROVE ServerInv'
  <2>1. Live' = Live
    BY <1>8 DEF ConnOk, Live
  <2>2. t \in Live
    BY <1>8 DEF ConnOk, ServerInv, NoStaleEvent
  <2>3. UpdateTimeout(t) /\ leftover' \in SUBSET Fds /\ batch' \in SUBSET Fds
    BY <1>8, <2>2 DEF ConnOk, ServerInv, ServerTypeOK
  <2>4. /\ deadline' \in [Fds -> 0 .. IdleTimeout]
        /\ timeTable' \in SUBSET Entries
        /\ DeadlinesCovered'
    BY <2>1, <2>3, TouchedStep
  <2>5. ServerTypeOK'
    BY <1>8, <2>3, <2>4 DEF ConnOk, ServerInv, ServerTypeOK
  <2>6. QED
    BY <1>8, <2>1, <2>4, <2>5 DEF ConnOk, ServerInv, WakesInTime, NoStaleEvent
<1>9. ASSUME NEW t \in Fds, ConnErr(t) PROVE ServerInv'
  <2>1. Live' = Live \ {t}
    BY <1>9 DEF ConnErr, ServerInv, ServerTypeOK, Live
  <2>2. ServerTypeOK'
    BY <1>9 DEF ConnErr, ServerInv, ServerTypeOK
  <2>3. QED
    BY <1>9, <2>1, <2>2 DEF ConnErr, ServerInv, DeadlinesCovered, WakesInTime, NoStaleEvent
<1>10. ASSUME PassDone PROVE ServerInv'
  <2>1. Live' = Live /\ ServerTypeOK'
    BY <1>10 DEF PassDone, table, pass, Live, ServerInv, ServerTypeOK
  <2>2. QED
    BY <1>10, <2>1
       DEF PassDone, table, pass, ServerInv, DeadlinesCovered, WakesInTime, NoStaleEvent
<1>11. ASSUME Tick PROVE ServerInv'
  <2>1. \A n \in Nat : Less(n) \in Nat /\ Less(n) <= n
    BY DEF Less
  <2>2. \A m, n \in Nat : m <= n => Less(m) <= Less(n)
    BY DEF Less
  <2>3. Live' = Live
    BY <1>11 DEF Tick, Live
  <2>4. \A n \in 0 .. IdleTimeout : n \in Nat /\ Less(n) \in 0 .. IdleTimeout
    BY <2>1
  <2>5. deadline' \in [Fds -> 0 .. IdleTimeout] /\ timeout' \in Nat
    BY <1>11, <2>1, <2>4 DEF Tick, ServerInv, ServerTypeOK
  <2>6. \A e \in timeTable :
          [e EXCEPT !.when = Less(e.when)] = [when |-> Less(e.when), token |-> e.token]
    BY DEF ServerInv, ServerTypeOK, Entries
  <2>7. timeTable' = {[when |-> Less(e.when), token |-> e.token] : e \in timeTable}
    BY <1>11, <2>6 DEF Tick
  <2>8. timeTable' \in SUBSET Entries
    BY <2>4, <2>7 DEF ServerInv, ServerTypeOK, Entries
  <2>9. ServerTypeOK'
    BY <1>11, <2>5, <2>8 DEF Tick, ServerInv, ServerTypeOK, pass
  <2>10. ASSUME NEW t \in Live
         PROVE  [when |-> deadline'[t], token |-> t] \in timeTable'
    <3>1. [when |-> deadline[t], token |-> t] \in timeTable
      BY DEF ServerInv, DeadlinesCovered
    <3>2. deadline'[t] = Less(deadline[t])
      BY <1>11 DEF Tick, Live
    <3>3. QED
      BY <2>7, <3>1, <3>2
  <2>11. ASSUME pc = "poll", NEW t \in Live PROVE timeout' <= deadline'[t]
    <3>1. timeout <= deadline[t] /\ t \in Fds
      BY <2>11 DEF ServerInv, WakesInTime, Live
    <3>2. timeout \in Nat /\ deadline[t] \in Nat
      BY <2>4, <3>1 DEF ServerInv, ServerTypeOK
    <3>3. timeout' = Less(timeout) /\ deadline'[t] = Less(deadline[t])
      BY <1>11, <3>1 DEF Tick
    <3>4. QED
      BY <2>2, <3>1, <3>2, <3>3
  <2>12. DeadlinesCovered' /\ WakesInTime'
    BY <1>11, <2>3, <2>10, <2>11 DEF Tick, DeadlinesCovered, WakesInTime
  <2>13. QED
    BY <1>11, <2>3, <2>9, <2>12 DEF Tick, pass, ServerInv, NoStaleEvent
<1>12. ASSUME UNCHANGED serverVars PROVE ServerInv'
  BY <1>12 DEF serverVars, table, pass, Live, ServerInv, ServerTypeOK, DeadlinesCovered, WakesInTime, NoStaleEvent
<1>13. QED
  BY <1>1, <1>2, <1>5, <1>6, <1>7, <1>8, <1>9, <1>10, <1>11, <1>12 DEF ServerNext, Server

(* The invariant holds in every reachable state of the server's loop. *)
THEOREM ServerInvariance == ServerSpec => []ServerInv
BY InitServerInv, StepServerInv, PTL DEF ServerSpec

(* Every connection's deadline is in time_table. *)
THEOREM DeadlinesAreKept == ServerSpec => []DeadlinesCovered
<1>1. ServerInv => DeadlinesCovered
  BY DEF ServerInv
<1>2. QED
  BY <1>1, ServerInvariance, PTL

(* Poll::poll never sleeps past the deadline of a connection. *)
THEOREM PollWakesInTime == ServerSpec => []WakesInTime
<1>1. ServerInv => WakesInTime
  BY DEF ServerInv
<1>2. QED
  BY <1>1, ServerInvariance, PTL

(* A polled event belongs to the connection that is on its descriptor now. *)
THEOREM EventsAreCurrent == ServerSpec => []NoStaleEvent
<1>1. ServerInv => NoStaleEvent
  BY DEF ServerInv
<1>2. QED
  BY <1>1, ServerInvariance, PTL

(* handle_timeouts closes every connection whose deadline has passed. *)
THEOREM ExpiredAreClosed == ServerSpec => ClosesExpired
<1>1. ServerInv /\ [ServerNext]_serverVars => [CloseStep]_serverVars
  BY TimeoutsStep DEF CloseStep
<1>2. QED
  BY <1>1, ServerInvariance, PTL DEF ServerSpec, ClosesExpired

-----------------------------------------------------------------------------
(* The inboxes of the actors. *)

(* What a system call on the eventfd makes visible. *)
LEMMA VisibleShape ==
  ASSUME NEW n, Len(items) \in Nat, n \in Visible
  PROVE  /\ n \in 0 .. Len(items)
         /\ pPc # "notify" => n = Len(items)
         /\ n >= Len(items) - 1
BY DEF Visible

-----------------------------------------------------------------------------
(* NetServer::start reads the eventfd, then drains. *)

(* The channel starts empty. *)
LEMMA InitWakeupInv == Init => WakeupInv
<1>1. <<>> \in Seq(Msgs) /\ Len(<<>>) = 0
  BY EmptySeq
<1>2. ASSUME Init PROVE TypeOK
  <2>1. /\ items \in Seq(Msgs) /\ Len(items) <= Capacity
        /\ got \in Msgs \cup {NoMsg}
        /\ synced \in 0 .. Len(items)
    BY <1>1, <1>2, ChannelAssumption DEF Init, Ring!Init
  <2>2. signalled \in BOOLEAN /\ ready \in BOOLEAN
    BY <1>2 DEF Init
  <2>3. QED
    BY <1>2, <2>1, <2>2 DEF Init, TypeOK
<1>3. Init => MissedIsAnnounced /\ PollKnowsNothing
  BY <1>1 DEF Init, Ring!Init, MissedIsAnnounced, PollKnowsNothing
<1>4. QED
  BY <1>2, <1>3 DEF WakeupInv

(* Each step of the producer and of the read-then-drain loop preserves it. *)
LEMMA StepWakeupInv == WakeupInv /\ [Next]_vars => WakeupInv'
<1> SUFFICES ASSUME WakeupInv, [Next]_vars PROVE WakeupInv'
  OBVIOUS
<1> USE ChannelAssumption DEF WakeupInv, TypeOK, MissedIsAnnounced, PollKnowsNothing
<1>1. ASSUME NEW m \in Msgs, TryPush(m) PROVE WakeupInv'
  BY <1>1 DEF TryPush, Ring!Push
<1>2. ASSUME Notify PROVE WakeupInv'
  BY <1>2 DEF Notify
<1>3. ASSUME Register PROVE WakeupInv'
  BY <1>3 DEF Register
<1>4. ASSUME Poll PROVE WakeupInv'
  <2>1. Len(items) \in Nat
    OBVIOUS
  <2>2. CASE signalled
    <3>1. synced' \in 0 .. Len(items) /\ (pPc # "notify" => synced' = Len(items))
      BY <1>4, <2>1, <2>2, VisibleShape DEF Poll
    <3>2. QED
      BY <1>4, <2>2, <3>1 DEF Poll
  <2>3. CASE ~signalled
    BY <1>4, <2>3 DEF Poll
  <2>4. QED
    BY <2>2, <2>3
<1>5. ASSUME ReadThenDrain PROVE WakeupInv'
  <2>1. Len(items) \in Nat
    OBVIOUS
  <2>2. synced' \in 0 .. Len(items) /\ (pPc # "notify" => synced' = Len(items))
    BY <1>5, <2>1, VisibleShape DEF ReadThenDrain, ReadEvent
  <2>3. TypeOK'
    BY <1>5, <2>2 DEF ReadThenDrain, ReadEvent
  <2>4. MissedIsAnnounced'
    BY <1>5, <2>1, <2>2 DEF ReadThenDrain, ReadEvent
  <2>5. PollKnowsNothing'
    BY <1>5 DEF ReadThenDrain
  <2>6. QED
    BY <2>3, <2>4, <2>5
<1>6. ASSUME DrainOne PROVE WakeupInv'
  <2>1. /\ items # <<>> /\ got' = Head(items) /\ items' = Tail(items)
        /\ synced' = IF synced = 0 THEN 0 ELSE synced - 1
        /\ UNCHANGED <<signalled, ready, pPc>>
    BY <1>6 DEF DrainOne, PopSome, Ring!PopSome
  <2>2. got' \in Msgs /\ items' \in Seq(Msgs) /\ Len(items') = Len(items) - 1
    BY <2>1, HeadTailProperties
  <2>3. Len(items) \in Nat /\ Len(items') \in Nat
    BY <2>2
  <2>4. QED
    BY <1>6, <2>1, <2>2, <2>3 DEF DrainOne
<1>7. ASSUME DrainEnd PROVE WakeupInv'
  BY <1>7 DEF DrainEnd, PopNone, Ring!PopNone
<1>8. ASSUME UNCHANGED vars PROVE WakeupInv'
  BY <1>8 DEF vars
<1>9. QED
  BY <1>1, <1>2, <1>3, <1>4, <1>5, <1>6, <1>7, <1>8 DEF Next, Consumer

(* The inductive invariant of the read-then-drain loop. *)
THEOREM WakeupInvariance == Spec => []WakeupInv
BY InitWakeupInv, StepWakeupInv, PTL DEF Spec

(* The wake-up of NetServer::start is never lost. *)
THEOREM WakeupNeverLost == Spec => []NoLostWakeup
<1>1. WakeupInv => NoLostWakeup
  <2> SUFFICES ASSUME WakeupInv, cPc = "poll", pPc = "idle", items # <<>>
               PROVE  ready /\ signalled
    BY DEF NoLostWakeup
  <2>1. Len(items) > 0
    BY EmptySeq DEF WakeupInv, TypeOK
  <2>2. QED
    BY <2>1 DEF WakeupInv, TypeOK, MissedIsAnnounced, PollKnowsNothing
<1>2. QED
  BY <1>1, WakeupInvariance, PTL

-----------------------------------------------------------------------------
(* start_blockchain and start_social pop one message per event. *)

(* The channel starts empty, with no edge to come. *)
LEMMA InitStallInv == Init => StallInv
<1>1. <<>> \in Seq(Msgs) /\ Len(<<>>) = 0
  BY EmptySeq
<1>2. ASSUME Init PROVE TypeOK
  <2>1. /\ items \in Seq(Msgs) /\ Len(items) <= Capacity
        /\ got \in Msgs \cup {NoMsg}
        /\ synced \in 0 .. Len(items)
    BY <1>1, <1>2, ChannelAssumption DEF Init, Ring!Init
  <2>2. signalled \in BOOLEAN /\ ready \in BOOLEAN
    BY <1>2 DEF Init
  <2>3. QED
    BY <1>2, <2>1, <2>2 DEF Init, TypeOK
<1>3. ASSUME Init PROVE EdgesBacked
  BY <1>1, <1>3 DEF Init, Ring!Init, EdgesBacked, Announced
<1>4. QED
  BY <1>1, <1>2, <1>3 DEF Init, Ring!Init, StallInv, FullMoves, NoFullStall, EventFindsMessage

(* Each step of the producer and of the pop-one loop preserves it. *)
LEMMA StepStallInv == StallInv /\ [ActorNext]_vars => StallInv'
<1> SUFFICES ASSUME StallInv, [ActorNext]_vars PROVE StallInv'
  OBVIOUS
<1>a. Len(items) \in Nat
  BY DEF StallInv, TypeOK
<1>b. EdgesBacked /\ EventFindsMessage
  BY DEF StallInv
<1>c. TypeOK /\ FullMoves
  BY DEF StallInv
<1>1. ASSUME NEW m \in Msgs, TryPush(m) PROVE StallInv'
  <2>1. TypeOK' /\ FullMoves'
    BY <1>1, <1>c, ChannelAssumption DEF TryPush, Ring!Push, TypeOK, NoFullStall, FullMoves
  <2>2. Len(items') = Len(items) + 1 /\ pPc = "idle" /\ pPc' = "notify"
    BY <1>1, <1>c DEF TryPush, Ring!Push, TypeOK
  <2>3. EdgesBacked' /\ EventFindsMessage'
    BY <1>1, <1>a, <1>b, <2>2 DEF TryPush, EdgesBacked, Announced, EventFindsMessage
  <2>4. QED
    BY <2>1, <2>3 DEF StallInv
<1>2. ASSUME Notify PROVE StallInv'
  <2>1. TypeOK' /\ FullMoves'
    BY <1>2, <1>c, ChannelAssumption DEF Notify, TypeOK, NoFullStall, FullMoves
  <2>2. EdgesBacked' /\ EventFindsMessage'
    BY <1>2, <1>a, <1>b DEF Notify, EdgesBacked, Announced, EventFindsMessage
  <2>3. QED
    BY <2>1, <2>2 DEF StallInv
<1>3. ASSUME Register PROVE StallInv'
  <2>1. Len(items) = Capacity /\ Capacity > 0 => items # <<>>
    BY EmptySeq
  <2>2. TypeOK' /\ FullMoves'
    BY <1>3, <1>c, <2>1, ChannelAssumption DEF Register, TypeOK, NoFullStall, FullMoves
  <2>3. EdgesBacked' /\ EventFindsMessage'
    BY <1>3, <1>a, <1>b DEF Register, EdgesBacked, Announced, EventFindsMessage
  <2>4. QED
    BY <2>2, <2>3 DEF StallInv
<1>4. ASSUME Poll PROVE StallInv'
  <2>1. signalled
    BY <1>4, <1>c DEF Poll, FullMoves
  <2>2. /\ synced' \in 0 .. Len(items)
        /\ pPc # "notify" => synced' = Len(items)
        /\ synced' >= Len(items) - 1
    BY <1>4, <1>a, <2>1, VisibleShape DEF Poll
  <2>3. TypeOK' /\ FullMoves'
    BY <1>4, <1>c, <2>1, <2>2, ChannelAssumption DEF Poll, TypeOK, NoFullStall, FullMoves
  <2>4. EdgesBacked' /\ EventFindsMessage'
    BY <1>4, <1>a, <1>b, <2>1, <2>2 DEF Poll, EdgesBacked, Announced, EventFindsMessage
  <2>5. QED
    BY <2>3, <2>4 DEF StallInv
<1>5. ASSUME PopOne PROVE StallInv'
  <2>1. /\ synced' = IF synced = 0 THEN 0 ELSE synced - 1
        /\ UNCHANGED <<signalled, ready, pPc>>
        /\ cPc = "event" /\ cPc' = "poll"
    BY <1>5 DEF PopOne, PopSome
  <2>2. got' \in Msgs /\ items' \in Seq(Msgs) /\ Len(items') = Len(items) - 1
    BY <1>5, <1>c, HeadTailProperties DEF PopOne, PopSome, Ring!PopSome, TypeOK
  <2>3. PICK n \in Nat : n = Len(items')
    BY <2>2
  <2>4. Len(items) = n + 1 /\ n + 1 <= Capacity /\ synced \in 0 .. n + 1
    BY <1>c, <2>2, <2>3 DEF TypeOK
  <2>5. n < Capacity /\ synced' \in 0 .. n
    BY <2>1, <2>4, ChannelAssumption
  <2>6. TypeOK'
    <3>1. Len(items') <= Capacity /\ synced' \in 0 .. Len(items')
      BY <2>3, <2>5, ChannelAssumption
    <3>2. signalled' \in BOOLEAN /\ ready' \in BOOLEAN /\ pPc' \in {"idle", "notify"}
      BY <1>c, <2>1 DEF TypeOK
    <3>3. QED
      BY <2>1, <2>2, <3>1, <3>2 DEF TypeOK
  <2>7. FullMoves'
    BY <1>c, <2>1, <2>3, <2>5 DEF NoFullStall, FullMoves
  <2>8. EdgesBacked' /\ EventFindsMessage'
    BY <1>a, <1>b, <2>1, <2>2 DEF EdgesBacked, Announced, EventFindsMessage
  <2>9. QED
    BY <2>6, <2>7, <2>8 DEF StallInv
<1>6. ASSUME UNCHANGED vars PROVE StallInv'
  BY <1>6 DEF vars, StallInv, TypeOK, FullMoves, NoFullStall, EdgesBacked, Announced, EventFindsMessage
<1>7. QED
  BY <1>1, <1>2, <1>3, <1>4, <1>5, <1>6 DEF ActorNext, ActorConsumer

(* The inductive invariant of the pop-one loop. *)
THEOREM StallInvariance == ActorSpec => []StallInv
BY InitStallInv, StepStallInv, PTL DEF ActorSpec

(* A full inbox of BLOCKCHAIN or SOCIAL always has a pop coming. *)
THEOREM FullInboxMoves == ActorSpec => []NoFullStall
<1>1. StallInv => NoFullStall
  BY DEF StallInv, FullMoves
<1>2. QED
  BY <1>1, StallInvariance, PTL

(* An event of an inbox always finds a message. *)
THEOREM EventsAreBacked == ActorSpec => []EventFindsMessage
<1>1. StallInv => EventFindsMessage
  BY DEF StallInv
<1>2. QED
  BY <1>1, StallInvariance, PTL
=============================================================================
