--------------------------- MODULE PeerConn_proofs --------------------------
(***************************************************************************)
(* Two connections agree on a key, send nothing but the negotiation in the *)
(* clear and handle packets once and in order, for every size of packets   *)
(* and sockets, every number of messages and of dials, also when ids are   *)
(* used again.                                                             *)
(***************************************************************************)
EXTENDS PeerConnReads_proofs

-----------------------------------------------------------------------------
(* The actions. *)

(* There are two ends. *)
LEMMA EndPair ==
  ASSUME NEW e \in Ends, NEW f \in Ends
  PROVE  f = e \/ f = Other(e)
BY DEF Ends, Other

(* The sides of the state have the types of a side. *)
LEMMA SideIs ==
  ASSUME Typed, NEW e \in Ends
  PROVE  /\ Side(e) \in Sides /\ Side(e).c = conn[e] /\ Side(e).life = life[e]
         /\ Side(e).out = pipe[e] /\ Side(e).got = got[e] /\ Side(e).num = num[e]
<1>1. /\ conn[e] \in Conns /\ life[e] \in Lives /\ pipe[e] \in Pipes /\ got[e] \in Int
      /\ num[e] \in Int
  BY Zenon DEF Typed
<1> QED
  BY <1>1, Zenon DEF Side, Sides

(* An event begins in a good world. *)
LEMMA WorldIs ==
  ASSUME NegInv, NEW e \in Ends, life[e] = "open", NEW stale \in BOOLEAN
  PROVE  /\ Good(e, dials, Side(Other(e)), World(e, stale))
         /\ World(e, stale).got = got[e] /\ World(e, stale).num = num[e]
         /\ World(e, stale).c = conn[e] /\ World(e, stale).out = pipe[e]
         /\ World(e, stale).in = pipe[Other(e)]
<1> DEFINE o == Other(e)
           w == World(e, stale)
           t == Side(o)
           b == life[o] = "closed"
<1>1. o \in Ends
  BY OtherEnds, Zenon
<1>2. /\ conn[e] \in Conns /\ pipe[e] \in Pipes /\ pipe[o] \in Pipes /\ got[e] \in Int
      /\ num[e] \in Int
  BY <1>1, Zenon DEF NegInv, Typed
<1>3. b \in BOOLEAN /\ "ok" \in Errors
  BY Zenon DEF Errors, Endings
<1>4. w = [c |-> conn[e], out |-> pipe[e], in |-> pipe[o], armed |-> FALSE, room |-> FALSE,
           err |-> "ok", reply |-> <<>>, got |-> got[e], num |-> num[e], stale |-> stale,
           eof |-> b]
  BY Zenon DEF World
<1> HIDE DEF w, b
<1>5. /\ w \in Worlds /\ w.got = got[e] /\ w.num = num[e] /\ w.c = conn[e]
      /\ w.out = pipe[e] /\ w.in = pipe[o] /\ w.err = "ok" /\ w.reply = <<>>
  BY <1>2, <1>3, <1>4, TypeFacts, Zenon DEF Worlds
<1>6. w.eof = b
  BY <1>4, SMT
<1>7. SideOf(w) = Side(e)
  BY <1>5, Zenon DEF SideOf, Side
<1>8. t \in Sides /\ t.life = life[o] /\ Peer(t, w) = t
  <2>1. t \in Sides /\ t.life = life[o] /\ t.out = pipe[o]
    BY <1>1, SideIs, Zenon DEF NegInv
  <2>2. t = [c |-> conn[o], life |-> life[o], out |-> pipe[o], got |-> got[o], num |-> num[o]]
    BY Zenon DEF Side
  <2>3. Peer(t, w) = [t EXCEPT !.out = pipe[o]]
    BY <1>5, Zenon DEF Peer
  <2> QED
    BY <2>1, <2>2, <2>3, Zenon
<1>9. Half(e, dials, Side(e), t) /\ Half(o, dials, t, Side(e))
  <2>1. Whole(e) /\ Whole(o) /\ Other(o) = e
    BY <1>1, OtherEnds, Zenon DEF NegInv
  <2> QED
    BY <2>1, Zenon DEF Whole
<1>10. w.eof <=> t.life = "closed"
  BY <1>6, <1>8, Zenon DEF b
<1>11. Good(e, dials, t, w)
  BY <1>5, <1>7, <1>8, <1>9, <1>10, Zenon DEF Good
<1> QED
  BY <1>5, <1>11, Zenon DEF w

(* The halves of both ends make the invariant. *)
LEMMA Pairs ==
  ASSUME NEW e \in Ends, Typed', Half(e, dials', Side(e)', Side(Other(e))'),
         Half(Other(e), dials', Side(Other(e))', Side(e)')
  PROVE  NegInv'
<1>1. \A f \in Ends : Whole(f)'
  <2> SUFFICES ASSUME NEW f \in Ends PROVE Whole(f)'
    BY Zenon
  <2>1. f = e \/ f = Other(e)
    BY EndPair, Zenon
  <2>2. Other(Other(e)) = e
    BY OtherEnds, Zenon
  <2> QED
    BY <2>1, <2>2, Zenon DEF Whole
<1> QED
  BY <1>1, Zenon DEF NegInv

(* The last packet that each end has handled before and after a step. *)
NextGot(e) == got'[e] \in {got[e], got[e] + 1} /\ got'[Other(e)] = got[Other(e)]

(* What an event leaves is kept, and a connection that ends is reset. *)
LEMMA FinishKeeps ==
  ASSUME NegInv, NEW e \in Ends, life[e] = "open", NEW w,
         Outcome(e, dials, Side(Other(e)), got[e], w), Finish(e, w), dials' = dials
  PROVE  NegInv' /\ NextGot(e)
<1> DEFINE o == Other(e)
           t == Side(o)
           s2 == Side(e)'
           t2 == Side(o)'
<1>1. o \in Ends /\ o # e
  BY OtherEnds, Zenon
<1>2. Typed
  BY Zenon DEF NegInv
<1>3. /\ conn \in [Ends -> Conns] /\ life \in [Ends -> Lives] /\ pipe \in [Ends -> Pipes]
      /\ got \in [Ends -> Int] /\ num \in [Ends -> Int] /\ err \in [Ends -> Endings]
      /\ dials \in Nat
  BY <1>2, Zenon DEF Typed
<1>4. /\ w \in Worlds /\ w.err \in Endings /\ w.got \in {got[e], got[e] + 1}
      /\ w.err = "ok" => Good(e, dials, t, w)
      /\ Rest(e, dials, SideOf(w), Peer(t, w)) /\ Half(o, dials, Peer(t, w), SideOf(w))
  BY Zenon DEF Outcome
<1>5. w.c \in Conns /\ w.out \in Pipes /\ w.in \in Pipes /\ w.got \in Int /\ w.num \in Int
  BY <1>4, WorldFields, Zenon
<1>6. /\ pipe' \in [Ends -> Pipes] /\ pipe'[e] = w.out /\ pipe'[o] = w.in
      /\ got' \in [Ends -> Int] /\ got'[e] = w.got /\ got'[o] = got[o]
      /\ num' \in [Ends -> Int] /\ num'[e] = w.num /\ num'[o] = num[o]
  <2>1. /\ pipe' = [pipe EXCEPT ![e] = w.out, ![o] = w.in]
        /\ got' = [got EXCEPT ![e] = w.got] /\ num' = [num EXCEPT ![e] = w.num]
    BY Zenon DEF Finish
  <2> QED
    BY <1>1, <1>3, <1>5, <2>1, Zenon
<1>7. NextGot(e)
  BY <1>4, <1>6, Zenon DEF NextGot
<1>8. /\ t \in Sides /\ t.c = conn[o] /\ t.life = life[o] /\ t.out = pipe[o]
      /\ t.got = got[o] /\ t.num = num[o]
  BY <1>1, <1>2, SideIs, Zenon
<1>9. CASE w.err = "ok"
  <2>1. conn' = [conn EXCEPT ![e] = w.c] /\ life' = life /\ err' = err
    BY <1>9, Zenon DEF Finish
  <2>2. conn' \in [Ends -> Conns] /\ conn'[e] = w.c /\ conn'[o] = conn[o]
    BY <1>1, <1>3, <1>5, <2>1, Zenon
  <2>3. Typed'
    BY <1>3, <1>6, <2>1, <2>2, Zenon DEF Typed
  <2>4. s2 = SideOf(w)
    BY <1>6, <2>1, <2>2, Zenon DEF Side, SideOf
  <2>5. t2 = Peer(t, w)
    <3>1. t2 = [c |-> conn[o], life |-> life[o], out |-> w.in, got |-> got[o], num |-> num[o]]
      BY <1>6, <2>1, <2>2, Zenon DEF Side
    <3>2. t = [c |-> conn[o], life |-> life[o], out |-> pipe[o], got |-> got[o],
               num |-> num[o]]
      BY Zenon DEF Side
    <3> HIDE DEF t, t2
    <3> QED
      BY <3>1, <3>2 DEF Peer
  <2>6. Half(e, dials, s2, t2) /\ Half(o, dials, t2, s2)
    BY <1>4, <1>9, <2>4, <2>5, Zenon DEF Good
  <2> QED
    BY <1>7, <2>3, <2>6, Pairs, Zenon
<1>10. CASE w.err # "ok"
  <2>1. /\ conn' = [conn EXCEPT ![e] = Reset(w.c)] /\ life' = [life EXCEPT ![e] = "closed"]
        /\ err' = [err EXCEPT ![e] = w.err]
    BY <1>10, Zenon DEF Finish
  <2>2. Reset(w.c) = Reset(New) /\ Reset(New) \in Conns
    BY UnusedTypes, Zenon DEF Reset
  <2>3. /\ conn' \in [Ends -> Conns] /\ conn'[e] = Reset(New) /\ conn'[o] = conn[o]
        /\ life' \in [Ends -> Lives] /\ life'[e] = "closed" /\ life'[o] = life[o]
        /\ err' \in [Ends -> Endings]
    BY <1>1, <1>3, <1>4, <2>1, <2>2, TypeFacts, Zenon
  <2>4. Typed'
    BY <1>3, <1>6, <2>3, Zenon DEF Typed
  <2>5. /\ s2 \in Sides /\ s2.c = Reset(New) /\ s2.life = "closed" /\ s2.out = w.out
        /\ s2.got = w.got /\ s2.num = w.num
    <3>1. s2 = [c |-> Reset(New), life |-> "closed", out |-> w.out, got |-> w.got,
                num |-> w.num]
      BY <1>6, <2>3, Zenon DEF Side
    <3> HIDE DEF s2
    <3> QED
      BY <1>5, <2>2, <3>1, TypeFacts, Zenon DEF Sides
  <2>6. t2 = Peer(t, w)
    <3>1. t2 = [c |-> conn[o], life |-> life[o], out |-> w.in, got |-> got[o], num |-> num[o]]
      BY <1>6, <2>3, Zenon DEF Side
    <3>2. t = [c |-> conn[o], life |-> life[o], out |-> pipe[o], got |-> got[o],
               num |-> num[o]]
      BY Zenon DEF Side
    <3> HIDE DEF t, t2
    <3> QED
      BY <3>1, <3>2 DEF Peer
  <2>7. SideOf(w).out = w.out /\ SideOf(w).got = w.got /\ SideOf(w).num = w.num
    BY <1>4, SideOfIs, Zenon
  <2> HIDE DEF s2, t2, t
  <2>8. Rest(e, dials, s2, t2)
    <3>1. s2.num >= 0
      BY <1>4, <2>5, <2>7, Zenon DEF Rest
    <3>2. SameStream(SideOf(w).out, s2.out)
      BY <2>5, <2>7, Zenon DEF SameStream
    <3>3. s2.got \in {SideOf(w).got, SideOf(w).got + 1}
      BY <2>5, <2>7, Zenon
    <3> QED
      BY <1>3, <1>4, <2>5, <2>6, <3>1, <3>2, <3>3, RestKept, ZenonT(30)
  <2>9. Half(e, dials, s2, t2)
    BY <1>3, <2>5, <2>8, CloseStep, Zenon
  <2>10. Half(o, dials, t2, s2)
    BY <1>1, <1>3, <1>4, <2>5, <2>6, <2>7, OtherStep, ZenonT(30)
  <2> QED
    BY <1>7, <2>4, <2>9, <2>10, Pairs, Zenon DEF s2, t2
<1> QED
  BY <1>9, <1>10, Zenon

(* Whether a handler is stale is a truth value. *)
LEMMA StaleIsBoolean ==
  ASSUME NEW e \in Ends, NEW stale \in StaleHandler(e)
  PROVE  stale \in BOOLEAN
BY Zenon DEF StaleHandler

(* NetServer::start handles an event of a connection. *)
LEMMA EventKeeps ==
  ASSUME NegInv, NEW e \in Ends, Event(e)
  PROVE  NegInv' /\ NextGot(e)
<1> DEFINE t == Side(Other(e))
<1>1. life[e] = "open" /\ dials' = dials /\ dials \in Nat
  BY Zenon DEF Event, NegInv, Typed
<1>2. PICK stale \in StaleHandler(e) :
        LET w == World(e, stale)
            seen == [w EXCEPT !.out.blocked = @ \/ Room(w.out) = 0]
            isWritable == w.c.writable /\ Room(w.out) > 0
            isReadable == Available(w.in) > 0 \/ w.eof
            v == IF isWritable THEN OnWritable(seen) ELSE seen
        IN  \/ Finish(e, IF v.err = "ok" /\ isReadable THEN OnReadable(v) ELSE v)
            \/ w.eof /\ Finish(e, Fail(w, "SocketFailed"))
  BY Zenon DEF Event
<1> DEFINE w == World(e, stale)
           b == w.out.blocked \/ Room(w.out) = 0
           seen == Block(w, b)
           isWritable == w.c.writable /\ Room(w.out) > 0
           isReadable == Available(w.in) > 0 \/ w.eof
           v == IF isWritable THEN OnWritable(seen) ELSE seen
           r == IF v.err = "ok" /\ isReadable THEN OnReadable(v) ELSE v
<1>3. Good(e, dials, t, w) /\ w.got = got[e]
  BY <1>1, StaleIsBoolean, WorldIs, Zenon
<1>4. w \in Worlds
  BY <1>3, Zenon DEF Good
<1>5. [w EXCEPT !.out.blocked = @ \/ Room(w.out) = 0] = seen
  BY <1>4, Zenon DEF Block, Worlds, Pipes
<1>6. Finish(e, r) \/ Finish(e, Fail(w, "SocketFailed"))
  BY <1>2, <1>5, Zenon
<1>7. b \in BOOLEAN
  BY <1>4, WorldFields, PipeFields, Zenon
<1> HIDE DEF w, b, t
<1>8. /\ seen \in Worlds /\ seen.c = w.c /\ SameStream(w.out, seen.out)
      /\ SameOutside(w, seen)
  BY <1>4, <1>7, BlockIs, Zenon
<1> HIDE DEF seen
<1>9. Good(e, dials, t, seen) /\ seen.got = w.got
  BY <1>1, <1>3, <1>8, GoodQuiet DEF SameRead, SameWrite, SameTalk
<1>10. Good(e, dials, t, v) /\ v.got = w.got
  <2>1. CASE isWritable
    <3>1. Room(seen.out) > 0 /\ seen.c.writable
      BY <1>8, <2>1, Zenon DEF Room, SameStream
    <3>2. v = OnWritable(seen)
      BY <2>1, Zenon
    <3> QED
      BY <1>1, <1>9, <3>1, <3>2, GoodWritable, ZenonT(30)
  <2>2. CASE ~isWritable
    BY <1>9, <2>2, Zenon
  <2> QED
    BY <2>1, <2>2, Zenon
<1> HIDE DEF v
<1>11. Outcome(e, dials, t, got[e], r)
  <2>1. CASE v.err = "ok" /\ isReadable
    <3>1. t.life # "none"
      BY <1>1, <1>3, <2>1, PeerExists, Zenon
    <3>2. r = OnReadable(v)
      BY <2>1, Zenon
    <3> QED
      BY <1>1, <1>3, <1>10, <3>1, <3>2, GoodReadable, Zenon
  <2>2. CASE ~(v.err = "ok" /\ isReadable)
    <3>1. r = v
      BY <2>2, Zenon
    <3> QED
      BY <1>1, <1>3, <1>10, <3>1, GoodOutcome, Zenon
  <2> QED
    BY <2>1, <2>2, Zenon
<1>12. Outcome(e, dials, t, got[e], Fail(w, "SocketFailed"))
  <2>1. "SocketFailed" \in Endings /\ "SocketFailed" # "ok"
    BY Zenon DEF Endings
  <2> QED
    BY <1>1, <1>3, <2>1, GoodEnds, Zenon
<1> HIDE DEF r
<1> QED
  BY <1>1, <1>6, <1>11, <1>12, FinishKeeps, Zenon DEF t

(* handle_timeouts closes a connection. *)
LEMMA ExpireKeeps ==
  ASSUME NegInv, NEW e \in Ends, Expire(e)
  PROVE  NegInv' /\ NextGot(e)
<1> DEFINE t == Side(Other(e))
           w == World(e, FALSE)
<1>1. /\ life[e] = "open" /\ dials' = dials /\ dials \in Nat
      /\ Finish(e, Fail(w, "expired"))
  BY Zenon DEF Expire, NegInv, Typed
<1>2. Good(e, dials, t, w) /\ w.got = got[e]
  BY <1>1, WorldIs, Zenon
<1>3. "expired" \in Endings /\ "expired" # "ok"
  BY Zenon DEF Endings
<1> HIDE DEF t, w
<1>4. Outcome(e, dials, t, got[e], Fail(w, "expired"))
  BY <1>1, <1>2, <1>3, GoodEnds, Zenon
<1> QED
  BY <1>1, <1>4, FinishKeeps, Zenon DEF t

(* What other actors send. *)
LEMMA OutgoingIs ==
  ASSUME NEW m \in Outgoing
  PROVE  m \in Messages /\ m.code \in {"Ping", "Blockchain"}
<1>1. Ids \subseteq Int
  BY PeerConnAssumption
<1>2. \/ \E id \in Ids : m = Message("Ping", id, "Ping", TRUE)
      \/ m = Message("Blockchain", 0, "Trx", FALSE)
  BY Zenon DEF Outgoing
<1>3. {"Ping", "Blockchain"} \subseteq Codes /\ {"Ping", "Trx"} \subseteq Bodies /\ 0 \in Int
  BY DEF Codes, Bodies
<1>4. m \in Messages
  BY <1>1, <1>2, <1>3, MessageType, Zenon
<1>5. m.code \in {"Ping", "Blockchain"}
  BY <1>2 DEF Message
<1> QED
  BY <1>4, <1>5, Zenon

(* handle_outbound queues a message. *)
LEMMA SendKeeps ==
  ASSUME Orderly, NegInv, NEW e \in Ends, Send(e)
  PROVE  NegInv' /\ got' = got
<1> DEFINE o == Other(e)
           t == Side(o)
<1>w. PICK w : w = World(e, FALSE)
  BY Zenon
<1>1. PICK m \in Outgoing :
        LET v == EnqueueMsg(w, m)
        IN  /\ conn' = [conn EXCEPT ![e] = v.c]
            /\ num' = [num EXCEPT ![e] = v.num]
            /\ armed' = [armed EXCEPT ![e] = @ \/ v.armed]
  BY <1>w, Zenon DEF Send
<1> DEFINE v == EnqueueMsg(w, m)
           k == [m EXCEPT !.num = w.num + 1]
<1>2. /\ life[e] = "open"
      /\ e = "acceptor" => conn[e].negotiated
      /\ life' = life /\ pipe' = pipe /\ err' = err /\ got' = got /\ dials' = dials
      /\ conn' = [conn EXCEPT ![e] = v.c] /\ num' = [num EXCEPT ![e] = v.num]
  BY <1>1, Zenon DEF Send, Orderly
<1>3. /\ Good(e, dials, t, w) /\ w.got = got[e] /\ w.num = num[e] /\ w.c = conn[e]
      /\ w.out = pipe[e] /\ w.in = pipe[o]
  BY <1>w, <1>2, WorldIs, Zenon
<1>4. /\ conn \in [Ends -> Conns] /\ life \in [Ends -> Lives] /\ pipe \in [Ends -> Pipes]
      /\ got \in [Ends -> Int] /\ num \in [Ends -> Int] /\ err \in [Ends -> Endings]
      /\ dials \in Nat
  BY Zenon DEF NegInv, Typed
<1>5. w \in Worlds /\ w.err = "ok" /\ w.reply = <<>>
  BY <1>3, Zenon DEF Good
<1>6. m \in Messages /\ m.code \in {"Ping", "Blockchain"}
  BY OutgoingIs, Zenon
<1>7. w.num + 1 \in Int
  BY <1>5, WorldFields
<1>8. k \in Messages /\ k.num = w.num + 1 /\ k.code = m.code
  BY <1>6, <1>7, NumIs
<1> HIDE DEF t
<1>9. /\ v \in Worlds /\ v.c.outbound = Append(w.c.outbound, k)
      /\ w.c.outbound # <<>> => v.c.writable = w.c.writable
      /\ SameRead(w.c, v.c) /\ SameWrite(w.c, v.c) /\ SameTalk(w.c, v.c)
      /\ SameStreams(w, v) /\ SameEnd(w, v) /\ v.num = w.num + 1
  BY <1>5, <1>6, EnqueueIs, Zenon
<1> HIDE DEF v, k
<1>10. w.c.negotiated \/ e = "dialler"
  BY <1>2, <1>3, Zenon DEF Ends
<1>11. v.err = "ok" /\ v.reply = <<>> /\ v.eof = w.eof /\ k.code \in {"Ping", "Blockchain"}
  BY <1>5, <1>6, <1>8, <1>9, Zenon DEF SameEnd
<1>12. Good(e, dials, t, v) /\ v.got = w.got
  <2>1. w.c.outbound # <<>> => v.c.writable = w.c.writable \/ w.c.negotiated
    BY <1>9, Zenon
  <2>2. /\ v \in Worlds /\ SameStreams(w, v) /\ v.num = w.num + 1
        /\ v.c.outbound = Append(w.c.outbound, k)
        /\ SameRead(w.c, v.c) /\ SameWrite(w.c, v.c) /\ SameTalk(w.c, v.c)
    BY <1>9, Zenon
  <2>3. Good(e, dials, t, w) /\ dials \in Nat /\ e \in Ends
    BY <1>3, <1>4, Zenon
  <2>4. k \in Messages /\ k.num = w.num + 1
    BY <1>8, Zenon
  <2> QED
    BY ONLY <1>10, <1>11, <2>1, <2>2, <2>3, <2>4, GoodQueued
<1>13. o \in Ends /\ o # e
  BY OtherEnds, Zenon
<1>14. v.c \in Conns /\ v.num \in Int /\ v.out = pipe[e] /\ v.in = pipe[o]
  BY <1>3, <1>9, WorldFields, Zenon DEF SameStreams
<1>15. /\ conn' \in [Ends -> Conns] /\ conn'[e] = v.c /\ conn'[o] = conn[o]
       /\ num' \in [Ends -> Int] /\ num'[e] = v.num /\ num'[o] = num[o]
  BY <1>2, <1>4, <1>13, <1>14, Zenon
<1>16. Typed'
  BY <1>2, <1>4, <1>15, Zenon DEF Typed
<1>17. Side(e)' = SideOf(v)
  BY <1>2, <1>3, <1>12, <1>14, <1>15, Zenon DEF Side, SideOf
<1>18. Side(o)' = Peer(t, v)
  <2>1. Side(o)' = [c |-> conn[o], life |-> life[o], out |-> pipe[o], got |-> got[o],
                    num |-> num[o]]
    BY <1>2, <1>15, Zenon DEF Side
  <2>2. t = [c |-> conn[o], life |-> life[o], out |-> pipe[o], got |-> got[o],
             num |-> num[o]]
    BY Zenon DEF t, Side
  <2> QED
    BY <1>14, <2>1, <2>2 DEF Peer
<1>19. Half(e, dials', Side(e)', Side(o)') /\ Half(o, dials', Side(o)', Side(e)')
  BY <1>2, <1>12, <1>17, <1>18, Zenon DEF Good
<1> QED
  BY <1>2, <1>16, <1>19, Pairs, Zenon

(* A connection that was initialized. *)
Fresh(c) ==
  /\ c.outbound = <<>> /\ c.handlers = {} /\ ~c.negotiated /\ ~c.acking
  /\ c.readState = "ReadingPrefix" /\ c.readPos = 0
  /\ c.writeState = "Idle" /\ ~c.marshalled /\ c.writePos = 0

(* A connection that is not in use is empty. *)
LEMMA UnusedFields ==
  ASSUME NEW c \in {New, Reset(New)}
  PROVE  /\ c \in Conns /\ c.outbound = <<>> /\ c.handlers = {} /\ ~c.negotiated
         /\ ~c.acking /\ c.readPos = 0 /\ ~c.marshalled /\ c.writePos = 0
         /\ c.writeState # "Writing"
<1>1. CASE c = New
  BY <1>1, UnusedTypes, Zenon DEF New
<1>2. CASE c = Reset(New)
  BY <1>2, UnusedTypes, Zenon DEF Reset, New
<1> QED
  BY <1>1, <1>2, Zenon

(* initialize makes such a connection a fresh one. *)
LEMMA InitializedIs ==
  ASSUME NEW c \in {New, Reset(New)}, NEW remote \in Int, NEW b \in BOOLEAN
  PROVE  LET v == [Initialize(c, remote) EXCEPT !.writable = b]
         IN  v \in Conns /\ Fresh(v)
<1> DEFINE r == IF remote = 0 THEN c.remote ELSE remote
           v == [c EXCEPT !.remote = r, !.readState = "ReadingPrefix",
                          !.writeState = "Idle", !.writable = b]
<1>1. /\ c \in Conns /\ c.outbound = <<>> /\ c.handlers = {} /\ ~c.negotiated
      /\ ~c.acking /\ c.readPos = 0 /\ ~c.marshalled /\ c.writePos = 0
  BY UnusedFields, Zenon
<1>2. r \in Int
  BY <1>1, ConnFields, Zenon
<1>3. [Initialize(c, remote) EXCEPT !.writable = b] = v
  BY <1>1, Zenon DEF Initialize, Conns
<1> HIDE DEF r
<1>4. v \in Conns
  BY <1>1, <1>2, TypeFacts, Zenon DEF Conns
<1>5. /\ v.outbound = c.outbound /\ v.handlers = c.handlers /\ v.negotiated = c.negotiated
      /\ v.acking = c.acking /\ v.readPos = c.readPos /\ v.marshalled = c.marshalled
      /\ v.writePos = c.writePos /\ v.readState = "ReadingPrefix" /\ v.writeState = "Idle"
  BY <1>1, Zenon DEF Conns
<1> HIDE DEF v
<1>6. Fresh(v)
  BY <1>1, <1>5, Zenon DEF Fresh
<1> QED
  BY <1>3, <1>4, <1>6, Zenon

(* handle_new queues the Syn. *)
Syn(w, salt) == [Message("Syn", SynId, "None", w.stale) EXCEPT !.salt = salt]

(* The Syn of initiate_negotiation carries the salt of the dialler. *)
LEMMA SynIs ==
  ASSUME NEW w \in Worlds, NEW salt \in Int
  PROVE  /\ Syn(w, salt) \in Messages /\ Syn(w, salt).code = "Syn"
         /\ Syn(w, salt).id = SynId /\ Syn(w, salt).body = "None"
         /\ Syn(w, salt).salt = salt
<1> DEFINE n == Message("Syn", SynId, "None", w.stale)
<1>1. n \in Messages /\ n.code = "Syn" /\ n.id = SynId /\ n.body = "None"
  <2>1. "Syn" \in Codes /\ "None" \in Bodies
    BY Zenon DEF Codes, Bodies
  <2> QED
    BY <2>1, TypeFacts, WorldFields, MessageType, Zenon DEF Message
<1>2. Syn(w, salt) = [n EXCEPT !.salt = salt]
  BY Zenon DEF Syn
<1> HIDE DEF n
<1> QED
  BY <1>1, <1>2, Zenon DEF Messages

(* initiate_negotiation queues the Syn and changes no state of a read or write. *)
LEMMA NegotiationIs ==
  ASSUME NEW w \in Worlds, NEW salt \in Int
  PROVE  LET v == InitiateNegotiation(w, salt)
         IN  /\ v \in Worlds /\ v.num = w.num + 1
             /\ v.c.outbound = Append(w.c.outbound, [Syn(w, salt) EXCEPT !.num = w.num + 1])
             /\ ~v.c.negotiated /\ v.c.remote = salt /\ v.c.acking = w.c.acking
             /\ v.c.handlers = w.c.handlers
             /\ SameRead(w.c, v.c) /\ SameWrite(w.c, v.c)
<1> DEFINE syn == Syn(w, salt)
           v == InitiateNegotiation(w, salt)
           y == EnqueueMsg(w, syn)
           c == [y.c EXCEPT !.negotiated = FALSE, !.remote = salt]
<1>1. syn \in Messages /\ w \in Worlds
  BY SynIs, Zenon
<1>2. /\ y \in Worlds
      /\ y.c.outbound = Append(w.c.outbound, [syn EXCEPT !.num = w.num + 1])
      /\ y.c.handlers = w.c.handlers
      /\ SameRead(w.c, y.c) /\ SameWrite(w.c, y.c) /\ SameTalk(w.c, y.c)
      /\ y.num = w.num + 1
  BY ONLY <1>1, EnqueueIs, Zenon
<1>3. v = [y EXCEPT !.c.negotiated = FALSE, !.c.remote = salt]
  BY Zenon DEF InitiateNegotiation, Syn
<1> HIDE DEF y, v, syn
<1>4. y.c \in Conns
  BY <1>2, WorldFields, Zenon
<1>5. v = WithConn(y, c)
  BY <1>2, <1>3, <1>4, Zenon DEF WithConn, Worlds, Conns
<1>6. c \in Conns
  BY <1>4, Zenon DEF Conns
<1>7. /\ ~c.negotiated /\ c.remote = salt /\ c.acking = y.c.acking
      /\ c.outbound = y.c.outbound /\ c.handlers = y.c.handlers
      /\ SameRead(y.c, c) /\ SameWrite(y.c, c)
  BY <1>4, Zenon DEF Conns, SameRead, SameWrite
<1> HIDE DEF c
<1>8. v \in Worlds /\ v.c = c /\ v.num = y.num
  BY <1>2, <1>5, <1>6, WithConnIs, Zenon DEF SameOutside
<1>9. SameRead(w.c, c) /\ SameWrite(w.c, c) /\ c.acking = w.c.acking
  BY <1>2, <1>7, Zenon DEF SameRead, SameWrite, SameTalk
<1> QED
  BY <1>2, <1>7, <1>8, <1>9, Zenon DEF v, syn

(* The dialler has queued the Syn and a message behind it. *)
LEMMA DialHalf ==
  ASSUME NEW d \in Nat, NEW s \in Sides, NEW t, NEW m \in Messages, NEW n \in Messages,
         s.life = "open", s.out = NoPipe, s.got = 0, s.num = 2,
         s.c.outbound = <<m, n>>, m.num = 1, m.code = "Syn", m.body = "None",
         m.salt = Salt(d), n.num = 2, n.code \in {"Ping", "Blockchain"},
         ~s.c.negotiated, ~s.c.acking, s.c.remote = Salt(d),
         s.c.readState = "ReadingPrefix", s.c.readPos = 0,
         s.c.writeState = "Idle", ~s.c.marshalled, s.c.writePos = 0,
         t.out = NoPipe, t.got = 0
  PROVE  Half("dialler", d, s, t)
<1>1. /\ s.out.pkts = <<>> /\ s.out.sent = 0 /\ s.out.here = 0 /\ s.out.read = 0
      /\ t.out.read = 0
  BY DEF NoPipe
<1>2. Len(s.out.pkts) = 0 /\ DOMAIN s.out.pkts = {} /\ Units(0) = 0
  BY <1>1, SizesAssumed DEF Units
<1>3. Flow(s)
  <2>1. Aligned(0)
    BY SizesAssumed DEF Aligned
  <2> QED
    BY <1>1, <1>2, <2>1 DEF Flow
<1>4. Reads(s, t)
  BY <1>1, Zenon DEF Reads
<1>5. Taken(s) = 0
  BY DEF Taken
<1>6. Numbered(s, t)
  <2>1. \A i \in DOMAIN s.c.outbound : s.c.outbound[i].num = 0 + i
    BY SMT
  <2> QED
    BY <1>2, <1>5, <2>1 DEF Numbered
<1>7. Spoken("dialler", d, s)
  <2>1. \A x \in Line(s) : x = m \/ x = n
    BY <1>2 DEF Line
  <2>2. Speaks("dialler", d, m) /\ Speaks("dialler", d, n)
    BY DEF Speaks
  <2> QED
    BY <1>2, <2>1, <2>2, Zenon DEF Spoken
<1>8. Phase("dialler", d, s, t)
  BY <1>5 DEF Phase, Dialling
<1>9. Caused("dialler", s, t)
  BY <1>2 DEF Caused
<1> QED
  BY <1>3, <1>4, <1>6, <1>7, <1>8, <1>9 DEF Half, Unused

(* An end has not heard of a connection. *)
LEMMA NoneHalf ==
  ASSUME NEW e \in Ends, NEW d \in Nat, NEW s \in Sides, NEW t, s.life = "none", s.out = NoPipe,
         s.got = 0, s.num = 0, s.c \in {New, Reset(New)}, t.out = NoPipe, t.got = 0
  PROVE  Half(e, d, s, t)
<1>1. /\ s.out.pkts = <<>> /\ s.out.sent = 0 /\ s.out.here = 0 /\ s.out.read = 0
      /\ t.out.read = 0
  BY DEF NoPipe
<1>2. Len(s.out.pkts) = 0 /\ DOMAIN s.out.pkts = {} /\ Units(0) = 0
  BY <1>1, SizesAssumed DEF Units
<1>3. Flow(s)
  <2>1. Aligned(0)
    BY SizesAssumed DEF Aligned
  <2> QED
    BY <1>1, <1>2, <2>1 DEF Flow
<1>4. s.c.outbound = <<>> /\ s.c.writeState # "Writing"
  BY UnusedFields, Zenon
<1>5. Spoken(e, d, s)
  <2>1. Line(s) = {}
    BY <1>2, <1>4 DEF Line
  <2> QED
    BY <1>2, <2>1, Zenon DEF Spoken
<1>6. Caused(e, s, t)
  BY <1>2 DEF Caused
<1> QED
  BY <1>1, <1>2, <1>3, <1>5, <1>6, SMTT(30) DEF Half, Unused, Reads, Numbered, Phase

(* The listener's event gives the acceptor a connection. *)
LEMMA AcceptHalf ==
  ASSUME NEW d \in Nat, NEW s, NEW t, NEW s2 \in Sides, Half("acceptor", d, s, t),
         s.life = "none", s2.life = "open", Fresh(s2.c), s2.out = s.out, s2.got = s.got,
         s2.num = s.num
  PROVE  Half("acceptor", d, s2, t)
<1>1. s.out = NoPipe /\ s2.got = 0 /\ s2.num = 0 /\ t.out.read = 0 /\ t.got = 0
  BY Zenon DEF Half, Unused, Reads
<1>2. /\ s2.out.pkts = <<>> /\ s2.out.sent = 0 /\ s2.out.here = 0 /\ s2.out.read = 0
  BY <1>1 DEF NoPipe
<1>3. Len(s2.out.pkts) = 0 /\ DOMAIN s2.out.pkts = {} /\ Units(0) = 0
  BY <1>2, SizesAssumed DEF Units
<1>4. Flow(s2)
  <2>1. Aligned(0)
    BY SizesAssumed DEF Aligned
  <2> QED
    BY <1>2, <1>3, <2>1 DEF Flow, Fresh
<1>5. s2.c.outbound = <<>> /\ Len(s2.c.outbound) = 0 /\ DOMAIN s2.c.outbound = {}
  BY DEF Fresh
<1>6. Numbered(s2, t)
  <2>1. Taken(s2) = 0
    <3>1. s2.num = 0 /\ Len(s2.c.outbound) = 0
      BY <1>1, <1>5, Zenon
    <3>2. Taken(s2) = 0 - 0
      BY <3>1, Zenon DEF Taken
    <3> QED
      BY <3>2
  <2> QED
    BY <1>1, <1>3, <1>5, <2>1 DEF Numbered, Fresh
<1>7. Spoken("acceptor", d, s2)
  <2>1. Line(s2) = {}
    BY <1>3, <1>5, Zenon DEF Line, Fresh
  <2> QED
    BY <1>3, <2>1, Zenon DEF Spoken
<1>8. Phase("acceptor", d, s2, t)
  BY <1>1, Zenon DEF Phase, Accepting, Fresh
<1>9. Caused("acceptor", s2, t)
  BY <1>3 DEF Caused
<1> QED
  BY <1>1, <1>4, <1>6, <1>7, <1>8, <1>9, ZenonT(30) DEF Half, Unused, Reads, Fresh

(* handle_outbound dials. *)
LEMMA DialKeeps ==
  ASSUME NegInv, Dial
  PROVE  NegInv' /\ got' = [e \in Ends |-> 0]
(* Two messages in a queue. *)
<1>TwoMessages. ASSUME NEW m \in Messages, NEW n \in Messages
                PROVE  Append(Append(<<>>, m), n) = <<m, n>>
  <2> USE <1>TwoMessages
  <2> DEFINE q == Append(Append(<<>>, m), n)
  <2>1. q \in Seq(Messages) /\ Len(q) = 2 /\ q[1] = m /\ q[2] = n
    OBVIOUS
  <2>2. /\ <<m, n>> \in Seq(Messages) /\ Len(<<m, n>>) = 2
        /\ <<m, n>>[1] = m /\ <<m, n>>[2] = n
    OBVIOUS
  <2> HIDE DEF q
  <2>3. PICK r : r = <<m, n>>
    BY Zenon
  <2>4. r \in Seq(Messages) /\ Len(r) = 2 /\ r[1] = m /\ r[2] = n
    BY <2>2, <2>3, Zenon
  <2>5. q = r
    <3>1. DOMAIN q = 1 .. 2 /\ DOMAIN r = 1 .. 2
      BY <2>1, <2>4
    <3>2. q = [i \in 1 .. 2 |-> q[i]] /\ r = [i \in 1 .. 2 |-> r[i]]
      BY <2>1, <2>4, <3>1
    <3>3. \A i \in 1 .. 2 : i = 1 \/ i = 2
      OBVIOUS
    <3>4. \A i \in 1 .. 2 : q[i] = r[i]
      BY <2>1, <2>4, <3>3, Zenon
    <3> QED
      BY <3>2, <3>4, Zenon
  <2> QED
    BY <2>3, <2>5, Zenon DEF q
<1>1. /\ conn \in [Ends -> Conns] /\ life \in [Ends -> Lives] /\ pipe \in [Ends -> Pipes]
      /\ got \in [Ends -> Int] /\ num \in [Ends -> Int] /\ err \in [Ends -> Endings]
      /\ dials \in Nat
  BY Zenon DEF NegInv, Typed
<1>2. PICK m \in Outgoing, stale \in StaleHandler("dialler") :
        LET c == [Initialize(conn["dialler"], PubKey) EXCEPT !.writable = TRUE]
            w == [World("dialler", stale) EXCEPT !.c = c, !.num = 0]
            v == EnqueueMsg(InitiateNegotiation(w, 2 * dials + 1), m)
        IN  /\ conn' = [conn EXCEPT !["dialler"] = v.c]
            /\ num' = [e \in Ends |-> IF e = "dialler" THEN v.num ELSE 0]
  BY Zenon DEF Dial
<1>3. /\ life["dialler"] # "open" /\ life["acceptor"] # "open"
      /\ life' = [e \in Ends |-> IF e = "dialler" THEN "open" ELSE "none"]
      /\ pipe' = [e \in Ends |-> NoPipe] /\ got' = [e \in Ends |-> 0]
      /\ dials' = dials + 1 /\ err' = [e \in Ends |-> "ok"]
  BY Zenon DEF Dial, Ends
<1> DEFINE salt == 2 * dials + 1
           c == [Initialize(conn["dialler"], PubKey) EXCEPT !.writable = TRUE]
           w == [World("dialler", stale) EXCEPT !.c = c, !.num = 0]
           z == InitiateNegotiation(w, salt)
           v == EnqueueMsg(z, m)
           syn == Syn(w, salt)
           x == [syn EXCEPT !.num = 1]
           y == [m EXCEPT !.num = 2]
<1>4. /\ conn' = [conn EXCEPT !["dialler"] = v.c]
      /\ num' = [e \in Ends |-> IF e = "dialler" THEN v.num ELSE 0]
  BY <1>2, Zenon
<1>5. "dialler" \in Ends /\ "acceptor" \in Ends /\ "dialler" # "acceptor"
      /\ Other("dialler") = "acceptor"
  BY Zenon DEF Ends, Other
<1>6. conn["dialler"] \in {New, Reset(New)} /\ conn["acceptor"] \in {New, Reset(New)}
  <2>1. Whole("dialler") /\ Whole("acceptor") /\ Typed
    BY <1>5, Zenon DEF NegInv
  <2> QED
    BY <1>3, <1>5, <2>1, SideIs, Zenon DEF Whole, Half, Unused
<1>7. c \in Conns /\ Fresh(c)
  BY <1>6, TypeFacts, InitializedIs, Zenon
<1> HIDE DEF c
<1>8. w \in Worlds /\ w.c = c /\ w.num = 0
  <2> DEFINE b == life["acceptor"] = "closed"
             q == World("dialler", stale)
  <2>1. stale \in BOOLEAN /\ b \in BOOLEAN /\ "ok" \in Errors /\ 0 \in Int
    BY <1>5, StaleIsBoolean DEF Errors, Endings
  <2>2. /\ conn["dialler"] \in Conns /\ pipe["dialler"] \in Pipes
        /\ pipe["acceptor"] \in Pipes /\ got["dialler"] \in Int /\ num["dialler"] \in Int
    BY <1>1, <1>5, Zenon
  <2>3. q = [c |-> conn["dialler"], out |-> pipe["dialler"], in |-> pipe["acceptor"],
             armed |-> FALSE, room |-> FALSE, err |-> "ok", reply |-> <<>>,
             got |-> got["dialler"], num |-> num["dialler"], stale |-> stale, eof |-> b]
    BY <1>5, Zenon DEF World
  <2> HIDE DEF b, q
  <2>4. q \in Worlds
    BY <2>1, <2>2, <2>3, TypeFacts, Zenon DEF Worlds
  <2>5. w = [q EXCEPT !.c = c, !.num = 0]
    BY Zenon DEF q
  <2> QED
    BY <1>7, <2>1, <2>4, <2>5, Zenon DEF Worlds
<1>9. salt \in Int /\ salt = Salt(dials + 1)
  BY <1>1 DEF Salt
<1>10. m \in Messages /\ m.code \in {"Ping", "Blockchain"}
  BY OutgoingIs, Zenon
<1> HIDE DEF w, salt
<1>11. /\ syn \in Messages /\ syn.code = "Syn" /\ syn.body = "None" /\ syn.salt = salt
  BY <1>8, <1>9, SynIs, Zenon
<1>12. /\ z \in Worlds /\ z.num = w.num + 1
       /\ z.c.outbound = Append(w.c.outbound, [syn EXCEPT !.num = w.num + 1])
       /\ ~z.c.negotiated /\ z.c.remote = salt /\ z.c.acking = w.c.acking
       /\ z.c.handlers = w.c.handlers
       /\ SameRead(w.c, z.c) /\ SameWrite(w.c, z.c)
  BY <1>8, <1>9, NegotiationIs, Zenon
<1> HIDE DEF z, syn
<1>13. /\ v \in Worlds
       /\ v.c.outbound = Append(z.c.outbound, [m EXCEPT !.num = z.num + 1])
       /\ v.c.handlers = z.c.handlers
       /\ SameRead(z.c, v.c) /\ SameWrite(z.c, v.c) /\ SameTalk(z.c, v.c)
       /\ v.num = z.num + 1
  BY <1>10, <1>12, EnqueueIs, Zenon
<1> HIDE DEF v
<1>14. z.num = 1 /\ v.num = 2
  BY <1>8, <1>12, <1>13
<1>15. /\ x \in Messages /\ x.num = 1 /\ x.code = "Syn" /\ x.body = "None"
       /\ x.salt = Salt(dials + 1)
  BY <1>9, <1>11, NumIs
<1>16. y \in Messages /\ y.num = 2 /\ y.code \in {"Ping", "Blockchain"}
  BY <1>10, NumIs
<1>17. v.c.outbound = <<x, y>>
  <2>1. z.c.outbound = Append(<<>>, x)
    BY <1>7, <1>8, <1>12 DEF Fresh
  <2>2. v.c.outbound = Append(z.c.outbound, y)
    BY <1>13, <1>14, Zenon
  <2> HIDE DEF x, y
  <2> QED
    BY <1>15, <1>16, <2>1, <2>2, <1>TwoMessages, ZenonT(30)
<1> HIDE DEF x, y
<1>18. /\ ~v.c.negotiated /\ ~v.c.acking /\ v.c.remote = Salt(dials + 1)
       /\ v.c.handlers = {}
       /\ v.c.readState = "ReadingPrefix" /\ v.c.readPos = 0
       /\ v.c.writeState = "Idle" /\ ~v.c.marshalled /\ v.c.writePos = 0
  BY <1>7, <1>8, <1>9, <1>12, <1>13, ZenonT(30) DEF Fresh, SameRead, SameWrite, SameTalk
<1>19. v.c \in Conns
  BY <1>13, WorldFields, Zenon
<1>20. /\ conn' \in [Ends -> Conns] /\ conn'["dialler"] = v.c
       /\ conn'["acceptor"] = conn["acceptor"]
  BY <1>1, <1>4, <1>5, <1>19, Zenon
<1>21. /\ num' \in [Ends -> Int] /\ num'["dialler"] = 2 /\ num'["acceptor"] = 0
  BY <1>4, <1>5, <1>14
<1>22. /\ life' \in [Ends -> Lives] /\ life'["dialler"] = "open"
       /\ life'["acceptor"] = "none"
       /\ pipe' \in [Ends -> Pipes] /\ pipe'["dialler"] = NoPipe
       /\ pipe'["acceptor"] = NoPipe
       /\ got' \in [Ends -> Int] /\ got'["dialler"] = 0 /\ got'["acceptor"] = 0
       /\ err' \in [Ends -> Endings] /\ dials' \in Nat
  <2>1. "ok" \in Endings
    BY Zenon DEF Endings
  <2> QED
    BY <1>1, <1>3, <1>5, <2>1, TypeFacts, UnusedTypes, SMTT(30)
<1>23. Typed'
  BY <1>20, <1>21, <1>22, Zenon DEF Typed
<1> DEFINE s2 == Side("dialler")'
           t2 == Side("acceptor")'
<1>24. /\ s2 \in Sides /\ s2.c = v.c /\ s2.life = "open" /\ s2.out = NoPipe /\ s2.got = 0
       /\ s2.num = 2
  <2>1. s2 = [c |-> v.c, life |-> "open", out |-> NoPipe, got |-> 0, num |-> 2]
    BY <1>20, <1>21, <1>22, Zenon DEF Side
  <2>2. 2 \in Int /\ 0 \in Int
    OBVIOUS
  <2> HIDE DEF s2
  <2> QED
    BY <1>19, <2>1, <2>2, TypeFacts, UnusedTypes, ZenonT(30) DEF Sides
<1>25. /\ t2 \in Sides /\ t2.c = conn["acceptor"] /\ t2.life = "none" /\ t2.out = NoPipe
       /\ t2.got = 0 /\ t2.num = 0
  <2>1. t2 = [c |-> conn["acceptor"], life |-> "none", out |-> NoPipe, got |-> 0, num |-> 0]
    BY <1>20, <1>21, <1>22, Zenon DEF Side
  <2>2. conn["acceptor"] \in Conns
    BY <1>1, <1>5, Zenon
  <2> HIDE DEF t2
  <2> QED
    BY <2>1, <2>2, TypeFacts, UnusedTypes, Zenon DEF Sides
<1> HIDE DEF s2, t2
<1>26. Half("dialler", dials', s2, t2)
  BY <1>3, <1>15, <1>16, <1>17, <1>18, <1>22, <1>24, <1>25, DialHalf, SMTT(30)
<1>27. Half("acceptor", dials', t2, s2)
  BY <1>5, <1>6, <1>22, <1>24, <1>25, NoneHalf, ZenonT(30)
<1> QED
  BY <1>3, <1>5, <1>23, <1>26, <1>27, Pairs, ZenonT(30) DEF s2, t2

(* The listener accepts. *)
LEMMA AcceptKeeps ==
  ASSUME NegInv, Accept
  PROVE  NegInv' /\ got' = got
<1> DEFINE v == [Initialize(conn["acceptor"], 0) EXCEPT !.writable = FALSE]
           s == Side("acceptor")
           t == Side("dialler")
           s2 == Side("acceptor")'
           t2 == Side("dialler")'
<1>1. /\ conn \in [Ends -> Conns] /\ life \in [Ends -> Lives] /\ pipe \in [Ends -> Pipes]
      /\ got \in [Ends -> Int] /\ num \in [Ends -> Int] /\ err \in [Ends -> Endings]
      /\ dials \in Nat
  BY Zenon DEF NegInv, Typed
<1>2. "dialler" \in Ends /\ "acceptor" \in Ends /\ "dialler" # "acceptor"
      /\ Other("dialler") = "acceptor" /\ Other("acceptor") = "dialler"
  BY Zenon DEF Ends, Other
<1>3. /\ life["acceptor"] = "none" /\ conn' = [conn EXCEPT !["acceptor"] = v]
      /\ life' = [life EXCEPT !["acceptor"] = "open"]
      /\ pipe' = pipe /\ err' = err /\ got' = got /\ num' = num /\ dials' = dials
  BY <1>1, <1>2, Zenon DEF Accept
<1>4. /\ Half("acceptor", dials, s, t) /\ Half("dialler", dials, t, s)
      /\ s.c = conn["acceptor"] /\ s.life = "none"
      /\ s.out = pipe["acceptor"] /\ s.got = got["acceptor"] /\ s.num = num["acceptor"]
  <2>1. Whole("dialler") /\ Whole("acceptor") /\ Typed
    BY <1>2, Zenon DEF NegInv
  <2> QED
    BY <1>2, <1>3, <2>1, SideIs, Zenon DEF Whole
<1>5. conn["acceptor"] \in {New, Reset(New)}
  BY <1>4, Zenon DEF Half, Unused
<1>6. v \in Conns /\ Fresh(v)
  BY <1>5, TypeFacts, InitializedIs, Zenon
<1> HIDE DEF v
<1>7. /\ conn' \in [Ends -> Conns] /\ conn'["acceptor"] = v
      /\ conn'["dialler"] = conn["dialler"]
      /\ life' \in [Ends -> Lives] /\ life'["acceptor"] = "open"
      /\ life'["dialler"] = life["dialler"]
  BY <1>1, <1>2, <1>3, <1>6, TypeFacts, ZenonT(30)
<1>8. Typed'
  BY <1>1, <1>3, <1>7, Zenon DEF Typed
<1>9. t2 = t
  BY <1>3, <1>7, Zenon DEF Side
<1>10. /\ s2 \in Sides /\ s2.c = v /\ s2.life = "open" /\ s2.out = s.out /\ s2.got = s.got
       /\ s2.num = s.num
  <2>1. s2 = [c |-> v, life |-> "open", out |-> pipe["acceptor"], got |-> got["acceptor"],
              num |-> num["acceptor"]]
    BY <1>3, <1>7, Zenon DEF Side
  <2>2. /\ pipe["acceptor"] \in Pipes /\ got["acceptor"] \in Int
        /\ num["acceptor"] \in Int
    BY <1>1, <1>2, Zenon
  <2> HIDE DEF s2
  <2>3. /\ s2 \in Sides /\ s2.c = v /\ s2.life = "open" /\ s2.out = pipe["acceptor"]
        /\ s2.got = got["acceptor"] /\ s2.num = num["acceptor"]
    BY <1>6, <2>1, <2>2, TypeFacts, Zenon DEF Sides
  <2> QED
    BY <1>4, <2>3, Zenon
<1> HIDE DEF s, s2, t, t2
<1>11. Half("acceptor", dials', s2, t2)
  BY <1>1, <1>3, <1>4, <1>6, <1>9, <1>10, AcceptHalf, ZenonT(30)
<1>12. Half("dialler", dials', t2, s2)
  <2>1. s2.out.read = s.out.read
    BY <1>10, Zenon
  <2> QED
    BY <1>1, <1>2, <1>3, <1>4, <1>9, <1>10, <2>1, OtherStep, ZenonT(30)
<1> QED
  BY <1>2, <1>3, <1>8, <1>11, <1>12, Pairs, ZenonT(30) DEF s2, t2

(* More of a stream has reached the other end. *)
LEMMA ArriveHalf ==
  ASSUME NEW e \in Ends, NEW d \in Nat, NEW s, NEW t, NEW s2 \in Sides, Half(e, d, s, t),
         s2.c = s.c, s2.life = s.life, s2.got = s.got, s2.num = s.num,
         s2.out.pkts = s.out.pkts, s2.out.sent = s.out.sent, s2.out.read = s.out.read,
         s.out.here < s2.out.here, s2.out.here <= s.out.sent, Aligned(s2.out.here)
  PROVE  Half(e, d, s2, t)
<1>1. /\ s.out.here \in Int /\ s.out.sent \in Int /\ s.out.read \in Int
      /\ s2.out.here \in Int
  BY SideFields, PipeFields, Zenon DEF Half
<1>2. Flow(s2)
  <2>1. Flow(s)
    BY Zenon DEF Half
  <2>2. s.out.read <= s2.out.here
    BY <1>1, <2>1 DEF Flow
  <2> QED
    BY <2>1, <2>2, Zenon DEF Flow
<1>3. Numbered(s2, t)
  BY Zenon DEF Half, Numbered, Taken
<1>4. Spoken(e, d, s2)
  BY Zenon DEF Half, Spoken, Line
<1>5. Phase(e, d, s2, t)
  BY Zenon DEF Half, Phase, Ready, Dialling, Accepting, Taken
<1>6. s.life # "none"
  <2> SUFFICES ASSUME s.life = "none" PROVE FALSE
    BY Zenon
  <2>1. s.out = NoPipe
    BY Zenon DEF Half, Unused
  <2>2. s.out.here = 0 /\ s.out.sent = 0
    BY <2>1 DEF NoPipe
  <2> QED
    BY <1>1, <2>2
<1>7. Caused(e, s2, t) /\ Unused(s2) /\ Reads(s2, t)
  BY <1>6, Zenon DEF Half, Caused, Unused, Reads
<1> QED
  BY <1>2, <1>3, <1>4, <1>5, <1>7, ZenonT(30) DEF Half

(* Data reaches a socket. *)
LEMMA ArriveKeeps ==
  ASSUME Orderly, NegInv, NEW e \in Ends, Arrive(e)
  PROVE  NegInv' /\ got' = got
<1> DEFINE o == Other(e)
           s == Side(e)
           t == Side(o)
           s2 == Side(e)'
           t2 == Side(o)'
<1>1. /\ conn \in [Ends -> Conns] /\ life \in [Ends -> Lives] /\ pipe \in [Ends -> Pipes]
      /\ got \in [Ends -> Int] /\ num \in [Ends -> Int] /\ err \in [Ends -> Endings]
      /\ dials \in Nat
  BY Zenon DEF NegInv, Typed
<1>2. PICK k \in (pipe[e].here + 1) .. pipe[e].sent :
        /\ "split" \notin Env => k % PacketLen = 0 \/ k % PacketLen >= PrefixLen
        /\ pipe' = [pipe EXCEPT ![e].here = k]
  BY Zenon DEF Arrive
<1>3. /\ conn' = conn /\ life' = life /\ err' = err /\ got' = got /\ num' = num
      /\ dials' = dials
  BY Zenon DEF Arrive
<1>4. o \in Ends /\ o # e
  BY OtherEnds, Zenon
<1>5. Half(e, dials, s, t) /\ Half(o, dials, t, s)
  <2>1. Other(o) = e
    BY OtherEnds, Zenon
  <2> QED
    BY <1>4, <2>1, Zenon DEF NegInv, Whole
<1> DEFINE q == [pipe[e] EXCEPT !.here = k]
<1>6. pipe[e] \in Pipes /\ pipe[e].here \in Int /\ pipe[e].sent \in Int
  BY <1>1, PipeFields, Zenon
<1>7. k \in Int /\ pipe[e].here < k /\ k <= pipe[e].sent /\ Aligned(k)
  BY <1>2, <1>6 DEF Orderly, Aligned
<1>8. /\ q \in Pipes /\ q.pkts = pipe[e].pkts /\ q.sent = pipe[e].sent
      /\ q.read = pipe[e].read /\ q.here = k
  BY <1>6, <1>7, Zenon DEF Pipes
<1>9. pipe' = [pipe EXCEPT ![e] = q]
  BY <1>2, Zenon
<1> HIDE DEF q
<1>10. pipe' \in [Ends -> Pipes] /\ pipe'[e] = q /\ pipe'[o] = pipe[o]
  BY <1>1, <1>4, <1>8, <1>9, Zenon
<1>11. Typed'
  BY <1>1, <1>3, <1>10, Zenon DEF Typed
<1>12. t2 = t
  BY <1>3, <1>10, Zenon DEF Side
<1>13. /\ s.c = conn[e] /\ s.life = life[e] /\ s.out = pipe[e] /\ s.got = got[e]
       /\ s.num = num[e]
  BY SideIs, Zenon DEF NegInv
<1>14. /\ s2 \in Sides /\ s2.c = s.c /\ s2.life = s.life /\ s2.out = q /\ s2.got = s.got
       /\ s2.num = s.num
  <2>1. s2 = [c |-> conn[e], life |-> life[e], out |-> q, got |-> got[e], num |-> num[e]]
    BY <1>3, <1>10, Zenon DEF Side
  <2>2. conn[e] \in Conns /\ life[e] \in Lives /\ got[e] \in Int /\ num[e] \in Int
    BY <1>1, Zenon
  <2> HIDE DEF s2, s
  <2>3. /\ s2 \in Sides /\ s2.c = conn[e] /\ s2.life = life[e] /\ s2.out = q
        /\ s2.got = got[e] /\ s2.num = num[e]
    BY <1>8, <2>1, <2>2, Zenon DEF Sides
  <2> QED
    BY <1>13, <2>3, Zenon
<1> HIDE DEF s, s2, t, t2
<1>15. Half(e, dials', s2, t2)
  BY <1>1, <1>3, <1>5, <1>7, <1>8, <1>12, <1>13, <1>14, ArriveHalf, ZenonT(30)
<1>16. Half(o, dials', t2, s2)
  <2>1. s2.out.read = s.out.read
    BY <1>8, <1>13, <1>14, Zenon
  <2> QED
    BY <1>1, <1>3, <1>4, <1>5, <1>12, <1>14, <2>1, OtherStep, ZenonT(30)
<1> QED
  BY <1>3, <1>11, <1>15, <1>16, Pairs, Zenon DEF s2, t2

(* epoll reports a socket again, or nothing happens. *)
LEMMA QuietKeeps ==
  ASSUME NegInv, UNCHANGED <<conn, life, pipe, err, got, num, dials>>
  PROVE  NegInv' /\ got' = got
<1>1. Typed'
  BY Zenon DEF NegInv, Typed
<1>2. \A e \in Ends : Whole(e)'
  BY Zenon DEF NegInv, Whole, Side
<1> QED
  BY <1>1, <1>2, Zenon DEF NegInv

(* Before the first dial. *)
LEMMA InitNegInv ==
  Init => NegInv
<1> SUFFICES ASSUME Init PROVE NegInv
  BY Zenon
<1>1. /\ conn = [e \in Ends |-> New] /\ life = [e \in Ends |-> "none"]
      /\ pipe = [e \in Ends |-> NoPipe] /\ err = [e \in Ends |-> "ok"]
      /\ got = [e \in Ends |-> 0] /\ num = [e \in Ends |-> 0] /\ dials = 0
  BY Zenon DEF Init
<1>2. "ok" \in Endings
  BY Zenon DEF Endings
<1>3. Typed
  BY <1>1, <1>2, TypeFacts, UnusedTypes, ZenonT(30) DEF Typed
<1>4. ASSUME NEW e \in Ends
      PROVE  /\ Side(e) \in Sides /\ Side(e).c = New /\ Side(e).life = "none"
             /\ Side(e).out = NoPipe /\ Side(e).got = 0 /\ Side(e).num = 0
  BY <1>1, <1>3, SideIs, Zenon
<1>5. ASSUME NEW e \in Ends PROVE Whole(e)
  <2>1. Other(e) \in Ends
    BY OtherEnds, Zenon
  <2>2. dials \in Nat /\ New \in {New, Reset(New)}
    BY <1>1, Zenon
  <2> QED
    BY <1>4, <2>1, <2>2, NoneHalf, Zenon DEF Whole
<1> QED
  BY <1>3, <1>5, Zenon DEF NegInv

(* An end handles at most one packet in a step, the next; a dial starts anew. *)
GotStep == \A e \in Ends : got'[e] # got[e] => got'[e] = got[e] + 1 \/ got'[e] = 0

(* Every step keeps the invariant and handles packets in order. *)
LEMMA NegInvStep ==
  ASSUME Orderly, NegInv, [Next]_vars
  PROVE  NegInv' /\ GotStep
<1>NextGotStep. ASSUME NEW e \in Ends, NextGot(e)
                PROVE  GotStep
  BY <1>NextGotStep, EndPair, Zenon DEF NextGot, GotStep
<1>1. CASE Dial
  <2>1. NegInv' /\ got' = [e \in Ends |-> 0]
    BY <1>1, DialKeeps, Zenon
  <2> QED
    BY <2>1, Zenon DEF GotStep
<1>2. CASE Accept
  BY <1>2, AcceptKeeps, Zenon DEF GotStep
<1>3. ASSUME NEW e \in Ends, Event(e) PROVE NegInv' /\ GotStep
  BY <1>3, EventKeeps, <1>NextGotStep, Zenon
<1>4. ASSUME NEW e \in Ends, Send(e) PROVE NegInv' /\ GotStep
  BY <1>4, SendKeeps, ZenonT(30) DEF GotStep
<1>5. ASSUME NEW e \in Ends, Expire(e) PROVE NegInv' /\ GotStep
  BY <1>5, ExpireKeeps, <1>NextGotStep, Zenon
<1>6. ASSUME NEW e \in Ends, Arrive(e) PROVE NegInv' /\ GotStep
  BY <1>6, ArriveKeeps, Zenon DEF GotStep
<1>7. ASSUME NEW e \in Ends, Wake(e) PROVE NegInv' /\ GotStep
  BY <1>7, QuietKeeps, Zenon DEF GotStep, Wake
<1>8. CASE UNCHANGED vars
  BY <1>8, QuietKeeps, Zenon DEF GotStep, vars
<1> QED
  BY <1>1, <1>2, <1>3, <1>4, <1>5, <1>6, <1>7, <1>8, ZenonT(30) DEF Next

-----------------------------------------------------------------------------
(* What follows from the invariant, for every size of packets and sockets,
   any number of messages and of dials, also when ids are used again. *)

(* The invariant holds: two ends that run this code are always somewhere in
   the negotiation of the same connection. *)
THEOREM NegotiationInvariant ==
  ASSUME Orderly PROVE Spec => []NegInv
<1>1. Init => NegInv
  BY InitNegInv, Zenon
<1>2. NegInv /\ [Next]_vars => NegInv'
  BY NegInvStep, Zenon
<1> QED
  BY <1>1, <1>2, PTL DEF Spec

(* handle_negotiation: an end that has negotiated has the key of this
   connection, and the dialler has it only when the acceptor uses it. *)
THEOREM KeysAgreeAlways ==
  ASSUME Orderly PROVE Spec => []KeysAgree
<1>1. NegInv => KeysAgree
  <2> SUFFICES ASSUME NegInv PROVE KeysAgree
    BY Zenon
  <2>1. ASSUME NEW e \in Ends, conn[e].negotiated
        PROVE  life[e] = "open" /\ conn[e].key = KeyOf(dials) /\ got[e] >= 1
    <3> DEFINE s == Side(e)
               t == Side(Other(e))
    <3>1. Half(e, dials, s, t) /\ s.c = conn[e] /\ s.life = life[e] /\ s.got = got[e]
      BY SideIs, Zenon DEF NegInv, Whole
    <3> HIDE DEF s, t
    <3>2. s.life = "open"
      BY <2>1, <3>1, UnusedFields, Zenon DEF Half, Unused
    <3>3. Ready(dials, s, t)
      BY <2>1, <3>1, <3>2, Zenon DEF Half, Phase
    <3> QED
      BY <3>1, <3>2, <3>3, Zenon DEF Ready
  <2>2. ASSUME conn["dialler"].negotiated, life["acceptor"] = "open"
        PROVE  conn["acceptor"].negotiated
    <3> DEFINE s == Side("acceptor")
               t == Side("dialler")
    <3>1. "dialler" \in Ends /\ "acceptor" \in Ends /\ Other("acceptor") = "dialler"
      BY Zenon DEF Ends, Other
    <3>2. /\ Half("acceptor", dials, s, t) /\ s.c = conn["acceptor"]
          /\ s.life = life["acceptor"] /\ t.got = got["dialler"]
      BY <3>1, SideIs, Zenon DEF NegInv, Whole
    <3>3. got["dialler"] \in Int /\ got["dialler"] >= 1 /\ dials \in Nat
      BY <2>1, <2>2, <3>1, Zenon DEF NegInv, Typed
    <3> HIDE DEF s, t
    <3>4. t.got \in Nat /\ t.got # 0
      BY <3>2, <3>3
    <3> QED
      BY <2>2, <3>2, <3>3, <3>4, AckIsHandled, ZenonT(30)
  <2> QED
    BY <2>1, <2>2, Zenon DEF KeysAgree, KeyOf
<1> QED
  BY <1>1, NegotiationInvariant, PTL

(* write_packet: nothing but the Syn and the Ack travels in the clear, also
   when messages were queued before the negotiation was over. *)
THEOREM ConfidentialAlways ==
  ASSUME Orderly PROVE Spec => []Confidential
(* A derived key is never the missing one. *)
<1>KeyOfIs. ASSUME NEW d \in Nat
            PROVE  KeyOf(d) # NoKey
  <2> USE <1>KeyOfIs
  <2>1. 2 * d - 1 # 0
    OBVIOUS
  <2> QED
    BY <2>1, Zenon DEF KeyOf, DeriveKey, NoKey
<1>1. NegInv => Confidential
  <2> SUFFICES ASSUME NegInv, NEW e \in Ends, NEW i \in DOMAIN pipe[e].pkts
               PROVE  (pipe[e].pkts[i].seal = NoKey)
                        <=> (pipe[e].pkts[i].msg.code \in {"Syn", "Ack"})
    BY Zenon DEF Confidential
  <2> DEFINE s == Side(e)
             p == pipe[e].pkts[i]
  <2>1. Spoken(e, dials, s) /\ s.out = pipe[e] /\ dials \in Nat
    BY SideIs, Zenon DEF NegInv, Whole, Half, Typed
  <2> HIDE DEF s
  <2>2. p.msg \in Line(s)
    BY <2>1, Zenon DEF Line
  <2>3. Speaks(e, dials, p.msg) /\ p.seal = IF p.msg.num = 1 THEN NoKey ELSE KeyOf(dials)
    BY <2>1, <2>2, Zenon DEF Spoken
  <2>4. KeyOf(dials) # NoKey
    BY <2>1, <1>KeyOfIs, Zenon
  <2> HIDE DEF p
  <2>5. (p.seal = NoKey) <=> (p.msg.num = 1)
    BY <2>3, <2>4, Zenon
  <2>6. (p.msg.num = 1) <=> (p.msg.code \in {"Syn", "Ack"})
    BY <2>3, Zenon DEF Speaks
  <2> QED
    BY <2>5, <2>6, Zenon DEF p
<1> QED
  BY <1>1, NegotiationInvariant, PTL

(* process_packet: packets are handled in the order in which their messages
   were queued, each once, in whatever pieces they arrive. *)
THEOREM HandledInOrder ==
  ASSUME Orderly PROVE Spec => InOrder
<1>1. NegInv /\ [Next]_vars => [GotStep]_vars
  BY NegInvStep, Zenon
<1> QED
  BY <1>1, NegotiationInvariant, PTL DEF Spec, InOrder, GotStep

(* No packet fails to decrypt, none is unauthorized, no state is missing and
   no length is read from the middle of a packet. *)
NoFailure == \A e \in Ends : err[e] \notin Failures /\ conn[e].readState # "Garbled"

(* The errors of read_body, on_readable and on_writable do not occur between
   two ends that run this code. *)
THEOREM NeverFails ==
  ASSUME Orderly PROVE Spec => []NoFailure
<1>1. NegInv => NoFailure
  <2> SUFFICES ASSUME NegInv, NEW e \in Ends
               PROVE  err[e] \notin Failures /\ conn[e].readState # "Garbled"
    BY Zenon DEF NoFailure
  <2>1. err[e] \in Endings
    BY Zenon DEF NegInv, Typed
  <2>2. err[e] \notin Failures
    BY <2>1, Zenon DEF Endings, Failures
  <2> DEFINE s == Side(e)
             t == Side(Other(e))
  <2>3. Half(e, dials, s, t) /\ s.c = conn[e] /\ s.life = life[e]
    BY SideIs, Zenon DEF NegInv, Whole
  <2> HIDE DEF s, t
  <2>4. New.readState # "Garbled" /\ Reset(New).readState # "Garbled"
    BY Zenon DEF New, Reset
  <2> QED
    BY <2>2, <2>3, <2>4, Zenon DEF Half, Reads, Unused
<1> QED
  BY <1>1, NegotiationInvariant, PTL

=============================================================================
