------------------------ MODULE PeerConnReads_proofs ------------------------
(***************************************************************************)
(* on_readable keeps the two halves of the invariant of two connections or *)
(* ends the connection, whatever the packet holds that it completes.       *)
(***************************************************************************)
EXTENDS PeerConnHalves_proofs

-----------------------------------------------------------------------------
(* Packets that are read. *)

(* read() takes a part of a packet. *)
LEMMA GoodRead ==
  ASSUME NEW e \in Ends, NEW d \in Nat, NEW t, NEW w, NEW v, Good(e, d, t, w),
         t.life # "none", v \in Worlds, v.out = w.out, v.got = w.got, v.num = w.num,
         SameEnd(w, v), SameButRead(w.c, v.c), v.in.pkts = w.in.pkts,
         v.in.sent = w.in.sent, v.in.here = w.in.here,
         0 <= v.in.read, v.in.read <= v.in.here, Reads(SideOf(v), Peer(t, v))
  PROVE  Good(e, d, t, v)
(* More of the first packet is read. *)
<1>OtherTake. ASSUME NEW o \in Ends, NEW a \in Nat, NEW s, NEW b, NEW s2, NEW t2,
                     Half(o, a, b, s), s2.got = s.got, s2.out.read = s.out.read,
                     t2 \in Sides, t2.c = b.c, t2.life = b.life, t2.got = b.got, t2.num = b.num,
                     t2.out.pkts = b.out.pkts, t2.out.sent = b.out.sent, t2.out.here = b.out.here,
                     0 <= t2.out.read, t2.out.read <= t2.out.here, b.life # "none"
              PROVE  Half(o, a, t2, s2)
  <2> USE <1>OtherTake
  <2>1. Flow(t2)
    BY Zenon DEF Half, Flow
  <2>2. Numbered(t2, s2)
    BY DEF Half, Numbered, Taken
  <2>3. Spoken(o, a, t2)
    BY DEF Half, Spoken, Line
  <2>4. Phase(o, a, t2, s2)
    BY Zenon DEF Half, Phase, Ready, Dialling, Accepting, Taken
  <2>5. Caused(o, t2, s2) /\ Unused(t2) /\ Reads(t2, s2)
    BY Zenon DEF Half, Caused, Unused, Reads
  <2> QED
    BY <2>1, <2>2, <2>3, <2>4, <2>5, Zenon DEF Half
<1> DEFINE s == SideOf(w)
           s2 == SideOf(v)
           p == Peer(t, w)
           p2 == Peer(t, v)
<1>1. w \in Worlds /\ t \in Sides /\ Half(e, d, s, p) /\ Half(Other(e), d, p, s)
  BY Zenon DEF Good
<1>2. /\ s.c = w.c /\ s.life = "open" /\ s.out = w.out /\ s.got = w.got /\ s.num = w.num
  BY <1>1, SideOfIs, Zenon
<1>3. /\ s2 \in Sides /\ s2.c = v.c /\ s2.life = "open" /\ s2.out = v.out /\ s2.got = v.got
      /\ s2.num = v.num
  BY SideOfIs, Zenon
<1>4. p.c = t.c /\ p.life = t.life /\ p.out = w.in /\ p.got = t.got /\ p.num = t.num
  BY <1>1, PeerIs, Zenon
<1>5. /\ p2 \in Sides /\ p2.c = t.c /\ p2.life = t.life /\ p2.out = v.in /\ p2.got = t.got
      /\ p2.num = t.num
  BY <1>1, PeerIs, Zenon
<1>6. Reads(s2, p2) /\ Other(e) \in Ends
  BY OtherEnds, Zenon
<1> HIDE DEF s, s2, p, p2
<1>7. Half(Other(e), d, p2, s2)
  BY <1>1, <1>2, <1>3, <1>4, <1>5, <1>6, <1>OtherTake
<1>8. /\ SameStream(s.out, s2.out) /\ s2.c.outbound = s.c.outbound /\ SameWrite(s.c, s2.c)
      /\ SameTalk(s.c, s2.c) /\ s2.c.writable = s.c.writable
  BY <1>2, <1>3, Zenon DEF SameButRead, SameStream
<1>9. Half(e, d, s2, p2)
  BY <1>1, <1>2, <1>3, <1>4, <1>5, <1>6, <1>8, QuietStep
<1>10. v.err = "ok" /\ v.reply = <<>> /\ (v.eof <=> t.life = "closed")
  BY Zenon DEF Good, SameEnd
<1> QED
  BY <1>1, <1>7, <1>9, <1>10, Zenon DEF Good, s2, p2

(* What an end that has not negotiated can receive is the other part of the
   negotiation; packets that follow carry the key. *)
Expected(e, d, t, w, k) ==
  IF w.c.negotiated
    THEN k.seal = w.c.key /\ k.msg.code \in {"Ping", "Blockchain"}
    ELSE /\ k.seal = NoKey /\ w.got = 0 /\ k.msg.body = "None"
         /\ IF e = "dialler"
              THEN /\ k.msg.code = "Ack" /\ k.msg.salt = Salt(d) + 1 /\ k.msg.proof = KeyOf(d)
                   /\ w.c.remote = Salt(d) /\ t.got >= 1
              ELSE k.msg.code = "Syn" /\ k.msg.salt = Salt(d)

(* The packet that a read completes is the next one, and it is one that the
   state of the connection expects. *)
LEMMA PacketComplete ==
  ASSUME NEW e \in Ends, NEW d \in Nat, NEW t, NEW w, Good(e, d, t, w),
         w.in.here >= PacketLen, NEW k, k = Head(w.in.pkts)
  PROVE  /\ w.in.pkts # <<>> /\ k \in Packets /\ k.msg \in Messages
         /\ k.msg.num = w.got + 1 /\ Expected(e, d, t, w, k)
<1> DEFINE s == SideOf(w)
           p == Peer(t, w)
           o == Other(e)
<1>1. w \in Worlds /\ t \in Sides /\ Half(e, d, s, p) /\ Half(o, d, p, s)
  BY Zenon DEF Good
<1>2. /\ s.c = w.c /\ s.life = "open" /\ s.out = w.out /\ s.got = w.got /\ s.num = w.num
  BY <1>1, SideOfIs, Zenon
<1>3. p.c = t.c /\ p.life = t.life /\ p.out = w.in /\ p.got = t.got /\ p.num = t.num
  BY <1>1, PeerIs, Zenon
<1>4. w.got \in Nat /\ t.got \in Nat /\ o \in Ends
  BY GoodFacts, OtherEnds, Zenon
<1> HIDE DEF s, p, o
<1>5. /\ w.in.pkts # <<>> /\ k \in Packets /\ Len(w.in.pkts) \in Nat /\ Len(w.in.pkts) >= 1
      /\ k.msg.num = w.got + 1 /\ Speaks(o, d, k.msg)
      /\ k.seal = IF k.msg.num = 1 THEN NoKey ELSE KeyOf(d)
  BY <1>1, <1>2, <1>3, <1>4, FirstPacket
<1>6. CASE w.c.negotiated
  <2>1. w.c.key = KeyOf(d) /\ w.got >= 1
    BY <1>1, <1>2, <1>6, Zenon DEF Half, Phase, Ready
  <2>2. k.msg.num # 1
    BY <1>4, <1>5, <2>1
  <2> QED
    BY <1>5, <1>6, <2>1, <2>2, PacketFields, Zenon DEF Expected, Speaks
<1>7. CASE ~w.c.negotiated /\ e = "dialler"
  <2>1. w.got = 0 /\ w.c.remote = Salt(d)
    BY <1>1, <1>2, <1>7, Zenon DEF Half, Phase, Dialling
  <2>2. k.msg.num = 1
    BY <1>5, <2>1
  <2>3. o = "acceptor"
    BY <1>7, Zenon DEF o, Other
  <2>4. t.got >= 1
    BY <1>1, <1>3, <1>5, <2>3, Zenon DEF Half, Caused
  <2> QED
    BY <1>5, <1>7, <2>1, <2>2, <2>3, <2>4, PacketFields, Zenon DEF Expected, Speaks
<1>8. CASE ~w.c.negotiated /\ e # "dialler"
  <2>1. e = "acceptor" /\ o = "dialler"
    BY <1>8, Zenon DEF o, Other, Ends
  <2>2. t.got = 0
    BY <1>1, <1>2, <1>3, <1>4, <1>8, <2>1, AckIsHandled, Zenon
  <2>3. w.got = 0 \/ w.got = 1
    BY <1>1, <1>2, <1>8, <2>1, Zenon DEF Half, Phase, Accepting
  <2>4. w.got = 1 => t.got >= 1
    <3>1. w.got + Len(w.in.pkts) >= 2 => t.got >= 1
      BY <1>1, <1>2, <1>3, <2>1, Zenon DEF Half, Caused
    <3> QED
      BY <1>5, <3>1
  <2>5. w.got = 0
    BY <2>2, <2>3, <2>4
  <2>6. k.msg.num = 1
    BY <1>5, <2>5
  <2> QED
    BY <1>5, <1>8, <2>1, <2>5, <2>6, PacketFields, Zenon DEF Expected, Speaks
<1> QED
  BY <1>6, <1>7, <1>8, Zenon

(* The packet has left the stream of the other end. *)
Popped(w, y) ==
  /\ y.got = w.got + 1 /\ y.out = w.out
  /\ y.in.pkts = Tail(w.in.pkts) /\ y.in.sent = w.in.sent - PacketLen
  /\ y.in.here = w.in.here - PacketLen /\ y.in.read = 0

(* What is popped from the stream stays popped while the stream stays. *)
LEMMA PoppedKept ==
  ASSUME NEW w, NEW x, NEW y, Popped(w, x), SameStreams(x, y)
  PROVE  Popped(w, y)
BY Zenon DEF Popped, SameStreams

(* A packet that is dropped leaves the half of the other end, and what is needed
   to close this one. *)
LEMMA GoodDrop ==
  ASSUME NEW e \in Ends, NEW d \in Nat, NEW t, NEW w, NEW y, Good(e, d, t, w),
         w.in.here >= PacketLen, y \in Worlds, Popped(w, y), y.num >= 0
  PROVE  Rest(e, d, SideOf(y), Peer(t, y)) /\ Half(Other(e), d, Peer(t, y), SideOf(y))
<1> DEFINE s == SideOf(w)
           s2 == SideOf(y)
           p == Peer(t, w)
           p2 == Peer(t, y)
           o == Other(e)
<1>1. w \in Worlds /\ t \in Sides /\ Half(e, d, s, p) /\ Half(o, d, p, s)
  BY Zenon DEF Good
<1>2. /\ s.c = w.c /\ s.life = "open" /\ s.out = w.out /\ s.got = w.got /\ s.num = w.num
  BY <1>1, SideOfIs, Zenon
<1>3. /\ s2 \in Sides /\ s2.c = y.c /\ s2.life = "open" /\ s2.out = y.out /\ s2.got = y.got
      /\ s2.num = y.num
  BY SideOfIs, Zenon
<1>4. p.c = t.c /\ p.life = t.life /\ p.out = w.in /\ p.got = t.got /\ p.num = t.num
  BY <1>1, PeerIs, Zenon
<1>5. /\ p2 \in Sides /\ p2.c = t.c /\ p2.life = t.life /\ p2.out = y.in /\ p2.got = t.got
      /\ p2.num = t.num
  BY <1>1, PeerIs, Zenon
<1>6. w.got \in Nat /\ o \in Ends
  BY GoodFacts, OtherEnds, Zenon
<1> HIDE DEF s, s2, p, p2, o
<1>7. /\ s2.got = s.got + 1 /\ s2.out.read = s.out.read
      /\ p2.out.pkts = Tail(p.out.pkts) /\ p2.out.sent = p.out.sent - PacketLen
      /\ p2.out.here = p.out.here - PacketLen /\ p2.out.read = 0
      /\ s.got \in Nat /\ p.out.here >= PacketLen /\ SameStream(s.out, s2.out)
  BY <1>2, <1>3, <1>4, <1>5, <1>6, Zenon DEF Popped, SameStream
<1>8. Half(o, d, p2, s2)
  BY <1>1, <1>4, <1>5, <1>6, <1>7, DropStep, Zenon
<1>9. Rest(e, d, s, p)
  BY <1>1, HalfRest, Zenon
<1>10. Rest(e, d, s2, p2)
  BY <1>3, <1>4, <1>5, <1>7, <1>9, RestKept, Zenon
<1> QED
  BY <1>8, <1>10, Zenon DEF s2, p2, o

(* The event ends with the packet handled: the next one is expected. *)
Settled(w, r) ==
  /\ r \in Worlds /\ r.err = "ok" /\ r.reply = <<>> /\ r.eof = w.eof
  /\ r.c.readState = "ReadingPrefix" /\ r.c.readPos = 0
  /\ Popped(w, r) /\ r.num \in Nat

(* A handler that has settled waits for the next prefix. *)
LEMMA SettledReads ==
  ASSUME NEW t \in Sides, NEW w, NEW r, Settled(w, r)
  PROVE  Reads(SideOf(r), Peer(t, r))
BY SideOfIs, PeerIs, Zenon DEF Settled, Popped, Reads

(* Nothing but the half of this end is left to look at then. *)
LEMMA SettledGood ==
  ASSUME NEW e \in Ends, NEW d \in Nat, NEW t, NEW w, NEW r, Good(e, d, t, w),
         w.in.here >= PacketLen, Settled(w, r), Half(e, d, SideOf(r), Peer(t, r))
  PROVE  Good(e, d, t, r) /\ Outcome(e, d, t, w.got, r)
<1>1. r \in Worlds /\ Popped(w, r) /\ r.num >= 0
  BY DEF Settled
<1>2. Half(Other(e), d, Peer(t, r), SideOf(r)) /\ Rest(e, d, SideOf(r), Peer(t, r))
  BY <1>1, GoodDrop, Zenon
<1>3. Good(e, d, t, r)
  BY <1>1, <1>2, Zenon DEF Settled, Good
<1>4. r.got = w.got + 1 /\ r.err = "ok"
  BY Zenon DEF Settled, Popped
<1> QED
  BY <1>1, <1>2, <1>3, <1>4, Zenon DEF Outcome, Endings

(* A packet after the negotiation is handled. *)
LEMMA GoodReceived ==
  ASSUME NEW e \in Ends, NEW d \in Nat, NEW t, NEW w, NEW r, Good(e, d, t, w),
         w.in.here >= PacketLen, Settled(w, r), w.c.negotiated, r.num = w.num,
         r.c.outbound = w.c.outbound, SameWrite(w.c, r.c), SameTalk(w.c, r.c)
  PROVE  Good(e, d, t, r) /\ Outcome(e, d, t, w.got, r)
<1> DEFINE s == SideOf(w)
           s2 == SideOf(r)
           p == Peer(t, w)
           p2 == Peer(t, r)
<1>1. w \in Worlds /\ t \in Sides /\ Half(e, d, s, p) /\ r \in Worlds
  BY Zenon DEF Good, Settled
<1>2. /\ s.c = w.c /\ s.life = "open" /\ s.out = w.out /\ s.got = w.got /\ s.num = w.num
  BY <1>1, SideOfIs, Zenon
<1>3. /\ s2 \in Sides /\ s2.c = r.c /\ s2.life = "open" /\ s2.out = r.out /\ s2.got = r.got
      /\ s2.num = r.num
  BY <1>1, SideOfIs, Zenon
<1>4. p.got = t.got /\ p2.got = t.got
  BY <1>1, PeerIs, Zenon
<1>5. Reads(s2, p2)
  BY <1>1, SettledReads, Zenon
<1>6. r.got = w.got + 1 /\ SameStream(w.out, r.out)
  BY Zenon DEF Settled, Popped, SameStream
<1> HIDE DEF s, s2, p, p2
<1>7. Half(e, d, s2, p2)
  BY <1>1, <1>2, <1>3, <1>4, <1>5, <1>6, ReceiveStep
<1> QED
  BY <1>7, SettledGood, Zenon DEF s2, p2

(* The dialler handles the Ack. *)
LEMMA GoodAck ==
  ASSUME NEW d \in Nat, NEW t, NEW w, NEW r, Good("dialler", d, t, w),
         w.in.here >= PacketLen, Settled(w, r), ~w.c.negotiated, t.got >= 1, r.num = w.num,
         r.c.outbound = w.c.outbound, r.c.writeState = "Idle", r.c.writing = w.c.writing,
         r.c.marshalled = w.c.marshalled, r.c.writePos = w.c.writePos,
         r.c.key = KeyOf(d), r.c.negotiated, r.c.acking = w.c.acking
  PROVE  Outcome("dialler", d, t, w.got, r)
<1> DEFINE s == SideOf(w)
           s2 == SideOf(r)
           p == Peer(t, w)
           p2 == Peer(t, r)
<1>1. w \in Worlds /\ t \in Sides /\ Half("dialler", d, s, p) /\ r \in Worlds
  BY Zenon DEF Good, Settled
<1>2. /\ s.c = w.c /\ s.life = "open" /\ s.out = w.out /\ s.got = w.got /\ s.num = w.num
  BY <1>1, SideOfIs, Zenon
<1>3. /\ s2 \in Sides /\ s2.c = r.c /\ s2.life = "open" /\ s2.out = r.out /\ s2.got = r.got
      /\ s2.num = r.num
  BY <1>1, SideOfIs, Zenon
<1>4. p.got = t.got /\ p2.got = t.got
  BY <1>1, PeerIs, Zenon
<1>5. Reads(s2, p2)
  BY <1>1, SettledReads, Zenon
<1>6. r.got = w.got + 1 /\ SameStream(w.out, r.out)
  BY Zenon DEF Settled, Popped, SameStream
<1>7. t.got \in Nat /\ "dialler" \in Ends
  BY GoodFacts, Zenon DEF Ends
<1> HIDE DEF s, s2, p, p2
<1>8. Half("dialler", d, s2, p2)
  BY <1>1, <1>2, <1>3, <1>4, <1>5, <1>6, <1>7, AckStep, SMTT(30)
<1> QED
  BY <1>7, <1>8, SettledGood, Zenon DEF s2, p2

(* The acceptor handles the Syn. *)
LEMMA GoodSyn ==
  ASSUME NEW d \in Nat, NEW t, NEW w, NEW r, NEW k \in Messages, Good("acceptor", d, t, w),
         w.in.here >= PacketLen, Settled(w, r), ~w.c.negotiated, w.got = 0,
         r.num = w.num + 1, r.c.outbound = Append(w.c.outbound, k), k.num = w.num + 1,
         k.code = "Ack", k.body = "None", k.salt = Salt(d) + 1, k.proof = KeyOf(d),
         r.c.key = KeyOf(d), ~r.c.negotiated, r.c.acking, SameWrite(w.c, r.c)
  PROVE  Outcome("acceptor", d, t, w.got, r)
<1> DEFINE s == SideOf(w)
           s2 == SideOf(r)
           p == Peer(t, w)
           p2 == Peer(t, r)
<1>1. w \in Worlds /\ t \in Sides /\ Half("acceptor", d, s, p) /\ r \in Worlds
  BY Zenon DEF Good, Settled
<1>2. /\ s.c = w.c /\ s.life = "open" /\ s.out = w.out /\ s.got = w.got /\ s.num = w.num
  BY <1>1, SideOfIs, Zenon
<1>3. /\ s2 \in Sides /\ s2.c = r.c /\ s2.life = "open" /\ s2.out = r.out /\ s2.got = r.got
      /\ s2.num = r.num
  BY <1>1, SideOfIs, Zenon
<1>4. p.got = t.got /\ p2.got = t.got
  BY <1>1, PeerIs, Zenon
<1>5. Reads(s2, p2)
  BY <1>1, SettledReads, Zenon
<1>6. r.got = w.got + 1 /\ SameStream(w.out, r.out)
  BY Zenon DEF Settled, Popped, SameStream
<1>7. t.got \in Nat /\ "acceptor" \in Ends
  BY GoodFacts, Zenon DEF Ends
<1> HIDE DEF s, s2, p, p2
<1>8. /\ p.got \in Nat /\ p2.got = p.got /\ ~s.c.negotiated /\ s.got = 0
      /\ SameStream(s.out, s2.out) /\ s2.got = s.got + 1 /\ s2.num = s.num + 1
      /\ s2.c.outbound = Append(s.c.outbound, k) /\ k.num = s.num + 1
      /\ s2.c.key = KeyOf(d) /\ ~s2.c.negotiated /\ s2.c.acking /\ SameWrite(s.c, s2.c)
  BY <1>2, <1>3, <1>4, <1>6, <1>7, ZenonT(30)
<1>9. Half("acceptor", d, s2, p2)
  BY <1>1, <1>2, <1>3, <1>5, <1>8, SynStep, ZenonT(30)
<1> QED
  BY <1>7, <1>9, SettledGood, Zenon DEF s2, p2

(* A message is queued. *)
LEMMA GoodQueued ==
  ASSUME NEW e \in Ends, NEW d \in Nat, NEW t, NEW w, NEW v, NEW k \in Messages,
         Good(e, d, t, w), w.c.negotiated \/ e = "dialler", v \in Worlds,
         SameStreams(w, v), v.num = w.num + 1, v.c.outbound = Append(w.c.outbound, k),
         k.num = w.num + 1, k.code \in {"Ping", "Blockchain"},
         SameRead(w.c, v.c), SameWrite(w.c, v.c), SameTalk(w.c, v.c),
         w.c.outbound # <<>> => v.c.writable = w.c.writable \/ w.c.negotiated,
         v.err = "ok", v.reply = <<>>, v.eof = w.eof
  PROVE  Good(e, d, t, v) /\ v.got = w.got
<1> DEFINE s == SideOf(w)
           s2 == SideOf(v)
           p == Peer(t, w)
<1>1. w \in Worlds /\ t \in Sides /\ Half(e, d, s, p) /\ Half(Other(e), d, p, s)
  BY Zenon DEF Good
<1>2. /\ s.c = w.c /\ s.life = "open" /\ s.out = w.out /\ s.got = w.got /\ s.num = w.num
  BY <1>1, SideOfIs, Zenon
<1>3. /\ s2 \in Sides /\ s2.c = v.c /\ s2.life = "open" /\ s2.out = v.out /\ s2.got = v.got
      /\ s2.num = v.num
  BY SideOfIs, Zenon
<1>4. p.got \in Nat /\ Other(e) \in Ends
  BY <1>1, PeerIs, GoodFacts, OtherEnds
<1>5. v.out = w.out /\ v.in = w.in /\ v.got = w.got
  BY Zenon DEF SameStreams
<1>6. Peer(t, v) = p
  BY <1>5, Zenon DEF Peer
<1>7. v.eof <=> t.life = "closed"
  BY Zenon DEF Good
<1> HIDE DEF s, s2, p
<1>8. /\ s.c.negotiated \/ e = "dialler"
      /\ s2.out = s.out /\ s2.got = s.got /\ s2.num = s.num + 1
      /\ s2.c.outbound = Append(s.c.outbound, k) /\ k.num = s.num + 1
      /\ SameRead(s.c, s2.c) /\ SameWrite(s.c, s2.c) /\ SameTalk(s.c, s2.c)
      /\ s.c.outbound # <<>> => s2.c.writable = s.c.writable \/ s.c.negotiated
  BY <1>2, <1>3, <1>5, Zenon
<1>9. Half(e, d, s2, p)
  BY <1>1, <1>2, <1>3, <1>4, <1>8, QueueStep, Zenon
<1>10. Half(Other(e), d, p, s2)
  BY <1>1, <1>4, <1>8, OtherStep, Zenon
<1> QED
  BY <1>1, <1>5, <1>6, <1>7, <1>9, <1>10, Zenon DEF Good, s2

(* The packet has been read and taken from the stream, and is not handled yet. *)
Arrived(w, x) ==
  /\ x \in Worlds /\ Popped(w, x) /\ x.num = w.num /\ SameEnd(w, x)
  /\ SameButRead(w.c, x.c)

(* What process_packet makes of what the handler u returns. *)
After(u) ==
  IF u.err # "ok" THEN u
  ELSE NextRead(IF u.reply = <<>> THEN u ELSE Replied(u), "ReadingPrefix")

(* A handler that fails ends the connection. *)
LEMMA HandlerFails ==
  ASSUME NEW e \in Ends, NEW d \in Nat, NEW t, NEW w, NEW x, NEW u, Good(e, d, t, w),
         w.in.here >= PacketLen, x \in Worlds, Popped(w, x), x.num = w.num,
         NEW error \in Endings, error # "ok", u = Fail(x, error)
  PROVE  Outcome(e, d, t, w.got, After(u))
<1>1. u \in Worlds /\ SameStreams(x, u) /\ u.num = x.num /\ u.err = error
  BY FailIs DEF Errors
<1>2. Popped(w, u)
  BY <1>1, PoppedKept, Zenon
<1>3. u.num >= 0
  BY <1>1, GoodFacts
<1>4. Rest(e, d, SideOf(u), Peer(t, u)) /\ Half(Other(e), d, Peer(t, u), SideOf(u))
  BY <1>1, <1>2, <1>3, GoodDrop, Zenon
<1>5. u.got = w.got + 1
  BY <1>2, Zenon DEF Popped
<1>6. After(u) = u
  BY <1>1, Zenon DEF After
<1> QED
  BY <1>1, <1>4, <1>5, <1>6, Zenon DEF Outcome

(* A handler that succeeds without a reply. *)
LEMMA HandlerReturns ==
  ASSUME NEW e \in Ends, NEW d \in Nat, NEW t, NEW w, NEW u, Good(e, d, t, w),
         u \in Worlds, Popped(w, u), u.num = w.num, u.err = "ok", u.reply = <<>>,
         u.eof = w.eof, NEW r, r = After(u)
  PROVE  Settled(w, r) /\ SameButRead(u.c, r.c) /\ r.num = w.num /\ SameStreams(u, r)
<1>1. r = NextRead(u, "ReadingPrefix")
  BY Zenon DEF After
<1>2. /\ r \in Worlds /\ r.out = u.out /\ SameOutside(u, r)
      /\ r.c.readPos = 0 /\ r.c.readState = "ReadingPrefix" /\ SameButRead(u.c, r.c)
  BY <1>1, NextReadIs, TypeFacts, Zenon
<1>3. SameStreams(u, r) /\ r.num = u.num /\ SameEnd(u, r)
  BY <1>2, Zenon DEF SameOutside, SameStreams
<1>4. Popped(w, r)
  BY <1>3, PoppedKept, Zenon
<1>5. r.num \in Nat
  BY <1>3, GoodFacts, Zenon
<1> QED
  BY <1>2, <1>3, <1>4, <1>5, Zenon DEF Settled, SameEnd

(* A handler that succeeds with a reply. *)
LEMMA HandlerReplies ==
  ASSUME NEW e \in Ends, NEW d \in Nat, NEW t, NEW w, NEW u, NEW a \in Messages,
         Good(e, d, t, w), u \in Worlds, Popped(w, u), u.num = w.num, u.err = "ok",
         u.reply = <<a>>, u.eof = w.eof, NEW r, r = After(u)
  PROVE  /\ Settled(w, r) /\ r.num = w.num + 1 /\ SameStreams(u, r)
         /\ r.c.outbound = Append(u.c.outbound, [a EXCEPT !.num = w.num + 1])
         /\ r.c.handlers = u.c.handlers
         /\ SameWrite(u.c, r.c) /\ SameTalk(u.c, r.c)
<1>RepliedIs. ASSUME NEW v \in Worlds, NEW b \in Messages, v.reply = <<b>>, NEW x, x = Replied(v)
              PROVE  /\ x \in Worlds /\ x.err = v.err /\ x.reply = <<>> /\ x.eof = v.eof
                     /\ SameStreams(v, x)
                     /\ x.c.outbound = Append(v.c.outbound, [b EXCEPT !.num = v.num + 1])
                     /\ x.num = v.num + 1 /\ x.c.handlers = v.c.handlers
                     /\ SameRead(v.c, x.c) /\ SameWrite(v.c, x.c) /\ SameTalk(v.c, x.c)
  <2> USE <1>RepliedIs
  <2> DEFINE y == EnqueueMsg(v, b)
             f == [y EXCEPT !.reply = <<>>]
  <2>1. /\ y \in Worlds
        /\ y.c.outbound = Append(v.c.outbound, [b EXCEPT !.num = v.num + 1])
        /\ y.c.handlers = v.c.handlers
        /\ SameRead(v.c, y.c) /\ SameWrite(v.c, y.c) /\ SameTalk(v.c, y.c)
        /\ SameStreams(v, y) /\ SameEnd(v, y) /\ y.num = v.num + 1
    BY EnqueueIs
  <2>2. x = IF f.c.writeState = "Idle" THEN EnableWritable(f) ELSE f
    <3>1. Head(v.reply) = b
      BY DEF Messages
    <3> QED
      BY <3>1, Zenon DEF Replied
  <2> HIDE DEF y
  <2>3. /\ f \in Worlds /\ f.c = y.c /\ f.reply = <<>> /\ f.err = y.err /\ SameStreams(y, f)
        /\ f.num = y.num /\ f.eof = y.eof
    BY <2>1, TypeFacts, Zenon DEF Worlds, SameStreams
  <2> HIDE DEF f
  <2>4. CASE f.c.writeState = "Idle"
    <3>1. x \in Worlds /\ SameButWritable(f, x)
      BY <2>2, <2>3, <2>4, EnableIs, Zenon
    <3>2. /\ x.err = v.err /\ x.reply = <<>> /\ SameStreams(v, x) /\ x.num = v.num + 1
          /\ x.eof = v.eof
      BY <2>1, <2>3, <3>1, Zenon DEF SameButWritable, SameStreams, SameEnd
    <3>3. /\ x.c.outbound = y.c.outbound /\ x.c.handlers = y.c.handlers
          /\ SameRead(v.c, x.c) /\ SameWrite(v.c, x.c) /\ SameTalk(v.c, x.c)
      BY <2>1, <2>3, <3>1 DEF SameButWritable, SameRead, SameWrite, SameTalk
    <3> QED
      BY <2>1, <3>1, <3>2, <3>3, Zenon
  <2>5. CASE f.c.writeState # "Idle"
    BY <2>1, <2>2, <2>3, <2>5, Zenon DEF SameStreams, SameEnd
  <2> QED
    BY <2>4, <2>5, Zenon
<1> DEFINE y == Replied(u)
<1>1. r = NextRead(y, "ReadingPrefix")
  BY DEF After
<1>2. /\ y \in Worlds /\ y.err = u.err /\ y.reply = <<>> /\ y.eof = u.eof
      /\ SameStreams(u, y)
      /\ y.c.outbound = Append(u.c.outbound, [a EXCEPT !.num = w.num + 1])
      /\ y.num = w.num + 1 /\ y.c.handlers = u.c.handlers
      /\ SameWrite(u.c, y.c) /\ SameTalk(u.c, y.c)
  BY <1>RepliedIs
<1> HIDE DEF y
<1>3. /\ r \in Worlds /\ r.out = y.out /\ SameOutside(y, r)
      /\ r.c.readPos = 0 /\ r.c.readState = "ReadingPrefix" /\ SameButRead(y.c, r.c)
  BY <1>1, <1>2, NextReadIs, TypeFacts, Zenon
<1>4. SameStreams(u, r) /\ r.num = w.num + 1 /\ SameEnd(y, r)
  BY <1>2, <1>3, Zenon DEF SameOutside, SameStreams
<1>5. Popped(w, r)
  BY <1>4, PoppedKept, Zenon
<1>6. r.num \in Nat
  BY <1>4, GoodFacts
<1>7. Settled(w, r)
  BY <1>2, <1>3, <1>4, <1>5, <1>6, Zenon DEF Settled, SameEnd
<1>8. /\ r.c.outbound = y.c.outbound /\ r.c.handlers = y.c.handlers
      /\ SameWrite(y.c, r.c) /\ SameTalk(y.c, r.c)
  BY <1>3, Zenon DEF SameButRead
<1>9. SameWrite(u.c, r.c) /\ SameTalk(u.c, r.c)
  BY <1>2, <1>8, Zenon DEF SameWrite, SameTalk
<1> QED
  BY <1>2, <1>4, <1>7, <1>8, <1>9, Zenon

(* What a handler finds when a packet has arrived. *)
LEMMA ArrivedFacts ==
  ASSUME NEW e \in Ends, NEW d \in Nat, NEW t, NEW w, NEW x, Good(e, d, t, w), Arrived(w, x)
  PROVE  /\ x \in Worlds /\ Popped(w, x) /\ x.num = w.num /\ x.err = "ok" /\ x.reply = <<>>
         /\ x.eof = w.eof /\ x.c.outbound = w.c.outbound /\ x.c.handlers = w.c.handlers
         /\ x.c.writable = w.c.writable /\ SameWrite(w.c, x.c) /\ SameTalk(w.c, x.c)
BY Zenon DEF Good, Arrived, SameEnd, SameButRead

(* A response handler is called. *)
LEMMA PongHandled ==
  ASSUME NEW e \in Ends, NEW d \in Nat, NEW t, NEW w, NEW x, NEW m \in Messages,
         Good(e, d, t, w), w.in.here >= PacketLen, Arrived(w, x),
         m.body = "Pong" => w.c.negotiated
  PROVE  Outcome(e, d, t, w.got, After(HandlePong(Answered(x, m), m)))
<1>AnsweredIs. ASSUME NEW b \in Worlds, NEW a \in Messages, NEW v, v = Answered(b, a)
               PROVE  /\ v \in Worlds /\ SameEnd(b, v) /\ SameAround(b, v)
                      /\ v.c.handlers = b.c.handlers \ {a.id}
                      /\ v.c.outbound = b.c.outbound /\ v.c.writable = b.c.writable
                      /\ SameRead(b.c, v.c) /\ SameWrite(b.c, v.c) /\ SameTalk(b.c, v.c)
  <2> USE <1>AnsweredIs
  <2> DEFINE h == b.c.handlers \ {a.id}
             c == [b.c EXCEPT !.handlers = h]
  <2>1. b.c \in Conns
    BY WorldFields, Zenon
  <2>2. h \in IdSets
    BY <2>1, ConnFields, Zenon DEF IdSets
  <2>3. v = WithConn(b, c)
    BY <2>1, Zenon DEF Answered, WithConn, Worlds
  <2> HIDE DEF h
  <2>4. /\ c \in Conns /\ c.handlers = h /\ c.outbound = b.c.outbound
        /\ c.writable = b.c.writable
        /\ SameRead(b.c, c) /\ SameWrite(b.c, c) /\ SameTalk(b.c, c)
    BY <2>1, <2>2, Zenon DEF Conns, SameRead, SameWrite, SameTalk
  <2> HIDE DEF c
  <2>5. v \in Worlds /\ v.c = c /\ v.out = b.out /\ SameOutside(b, v)
    BY <2>3, <2>4, WithConnIs
  <2> QED
    BY <2>4, <2>5, Zenon DEF h, SameOutside, SameEnd, SameAround, SameStreams
<1> DEFINE u == Answered(x, m)
           r == After(u)
<1>1. /\ x \in Worlds /\ Popped(w, x) /\ x.num = w.num /\ x.err = "ok" /\ x.reply = <<>>
      /\ x.eof = w.eof /\ x.c.outbound = w.c.outbound
      /\ SameWrite(w.c, x.c) /\ SameTalk(w.c, x.c)
  BY ArrivedFacts
<1>2. /\ u \in Worlds /\ SameEnd(x, u) /\ SameAround(x, u)
      /\ u.c.outbound = x.c.outbound
      /\ SameWrite(x.c, u.c) /\ SameTalk(x.c, u.c)
  BY <1>1, <1>AnsweredIs, Zenon
<1> HIDE DEF u
<1>3. Popped(w, u) /\ u.num = w.num /\ u.err = "ok" /\ u.reply = <<>> /\ u.eof = w.eof
  BY <1>1, <1>2, PoppedKept, Zenon DEF SameEnd, SameAround
<1>4. CASE m.body = "Pong"
  <2>1. HandlePong(u, m) = u
    BY <1>4, Zenon DEF HandlePong
  <2>2. Settled(w, r) /\ SameButRead(u.c, r.c) /\ r.num = w.num
    BY <1>2, <1>3, HandlerReturns, ZenonT(30)
  <2>3. /\ r.c.outbound = w.c.outbound /\ SameWrite(w.c, r.c) /\ SameTalk(w.c, r.c)
    BY <1>1, <1>2, <2>2, Zenon DEF SameButRead, SameWrite, SameTalk
  <2>4. Outcome(e, d, t, w.got, r)
    BY <1>4, <2>2, <2>3, GoodReceived, Zenon
  <2> QED
    BY <2>1, <2>4, Zenon DEF u
<1>5. CASE m.body # "Pong"
  <2>1. HandlePong(u, m) = Fail(u, "bad pong")
    BY <1>5, Zenon DEF HandlePong
  <2>2. "bad pong" \in Endings /\ "bad pong" # "ok"
    BY Zenon DEF Endings
  <2>3. Outcome(e, d, t, w.got, After(HandlePong(u, m)))
    BY <1>2, <1>3, <2>1, <2>2, HandlerFails, Zenon
  <2> QED
    BY <2>3, Zenon DEF u
<1> QED
  BY <1>4, <1>5, Zenon

(* A ping is answered. *)
LEMMA PingHandled ==
  ASSUME NEW e \in Ends, NEW d \in Nat, NEW t, NEW w, NEW x, NEW m \in Messages,
         Good(e, d, t, w), w.in.here >= PacketLen, Arrived(w, x), w.c.negotiated
  PROVE  Outcome(e, d, t, w.got, After(HandlePing(x, m)))
<1>HandlePingIs.
    ASSUME NEW b \in Worlds, NEW a \in Messages, a.body = "Ping", NEW v, v = HandlePing(b, a)
    PROVE  v \in Worlds /\ v.err = b.err /\ v.reply = <<Pong(b, a)>> /\ SameAround(b, v)
           /\ v.c = b.c
  <2> USE <1>HandlePingIs
  <2> DEFINE r == <<Pong(b, a)>>
  <2>1. r \in Queues
    BY PongIs DEF Queues
  <2>2. v = [b EXCEPT !.reply = r]
    BY Zenon DEF HandlePing, Pong
  <2> HIDE DEF r
  <2>3. v \in Worlds /\ v.err = b.err /\ v.reply = r /\ SameAround(b, v) /\ v.c = b.c
    BY <2>1, <2>2, Zenon DEF Worlds, SameAround, SameStreams
  <2> QED
    BY <2>3, Zenon DEF r
<1> DEFINE u == HandlePing(x, m)
           i == After(x)
           r == After(u)
           a == Pong(x, m)
           k == [a EXCEPT !.num = w.num + 1]
<1>1. /\ x \in Worlds /\ Popped(w, x) /\ x.num = w.num /\ x.err = "ok" /\ x.reply = <<>>
      /\ x.eof = w.eof /\ x.c.outbound = w.c.outbound
      /\ SameWrite(w.c, x.c) /\ SameTalk(w.c, x.c)
  BY ArrivedFacts
<1>2. CASE m.body = "Ping"
  <2>1. /\ u \in Worlds /\ u.err = x.err /\ u.reply = <<a>> /\ SameAround(x, u)
        /\ u.c = x.c
    BY <1>1, <1>2, <1>HandlePingIs, Zenon
  <2>2. a \in Messages /\ a.code = "Ping"
    BY <1>1, PongIs, Zenon
  <2>3. w.num + 1 \in Int
    BY GoodFacts
  <2>4. k \in Messages /\ k.num = w.num + 1 /\ k.code = "Ping"
    BY <2>2, <2>3, NumIs
  <2> HIDE DEF u, a
  <2>5. Popped(w, u) /\ u.num = w.num /\ u.err = "ok" /\ u.eof = w.eof
    BY <1>1, <2>1, PoppedKept, ZenonT(30) DEF SameAround
  <2>6. /\ Settled(w, r) /\ r.num = w.num + 1 /\ SameStreams(u, r)
        /\ r.c.outbound = Append(u.c.outbound, k)
        /\ SameWrite(u.c, r.c) /\ SameTalk(u.c, r.c)
    BY <2>1, <2>2, <2>5, HandlerReplies
  <2>7. Settled(w, i) /\ SameButRead(x.c, i.c) /\ i.num = w.num /\ SameStreams(x, i)
    BY <1>1, HandlerReturns, Zenon
  <2>8. /\ i.c.outbound = w.c.outbound /\ SameWrite(w.c, i.c) /\ SameTalk(w.c, i.c)
    BY <1>1, <2>7, Zenon DEF SameButRead, SameWrite, SameTalk
  <2>9. Good(e, d, t, i)
    BY <2>7, <2>8, GoodReceived, ZenonT(30)
  <2> HIDE DEF i, r, k
  <2>10. /\ i.c.negotiated /\ r \in Worlds /\ r.num = i.num + 1
         /\ r.c.outbound = Append(i.c.outbound, k) /\ k.num = i.num + 1
         /\ SameRead(i.c, r.c) /\ SameWrite(i.c, r.c) /\ SameTalk(i.c, r.c)
         /\ r.err = "ok" /\ r.reply = <<>> /\ r.eof = i.eof
    BY <1>1, <2>1, <2>4, <2>6, <2>7, <2>8, SMTT(30)
       DEF Settled, SameRead, SameWrite, SameTalk
  <2>11. SameStreams(i, r)
    BY <2>1, <2>6, <2>7, Zenon DEF SameAround, SameStreams
  <2>12. k.code \in {"Ping", "Blockchain"}
    BY <2>4, Zenon
  <2>13. Good(e, d, t, r)
    BY <2>4, <2>9, <2>10, <2>11, <2>12, GoodQueued, Zenon
  <2> QED
    BY <2>6, <2>13, SettledGood, Zenon DEF Good, r, u
<1>3. CASE m.body # "Ping"
  <2>1. u = Fail(x, "bad ping")
    BY <1>3, Zenon DEF HandlePing
  <2>2. "bad ping" \in Endings /\ "bad ping" # "ok"
    BY Zenon DEF Endings
  <2> QED
    BY <1>1, <2>1, <2>2, HandlerFails, Zenon
<1> QED
  BY <1>2, <1>3, Zenon

(* The Ack proves that both ends have the key. *)
LEMMA AckHandled ==
  ASSUME NEW d \in Nat, NEW t, NEW w, NEW x, NEW m \in Messages,
         Good("dialler", d, t, w), w.in.here >= PacketLen, Arrived(w, x), ~w.c.negotiated,
         m.salt = Salt(d) + 1, m.proof = KeyOf(d), w.c.remote = Salt(d), t.got >= 1
  PROVE  Outcome("dialler", d, t, w.got, After(HandleAck(x, m)))
(* An Ack whose proof is right. *)
<1>HandleAckIs.
    ASSUME NEW f \in Worlds, NEW b \in Messages, b.proof = DeriveKey(f.c.remote, b.salt),
           NEW v, v = HandleAck(f, b)
    PROVE  /\ v \in Worlds /\ SameEnd(f, v) /\ SameAround(f, v)
           /\ v.c.key = b.proof /\ v.c.negotiated /\ v.c.acking = f.c.acking
           /\ v.c.writeState = "Idle" /\ v.c.writing = f.c.writing
           /\ v.c.marshalled = f.c.marshalled /\ v.c.writePos = f.c.writePos
           /\ v.c.outbound = f.c.outbound /\ v.c.handlers = f.c.handlers
           /\ SameRead(f.c, v.c)
  <2> USE <1>HandleAckIs
  <2> DEFINE k == DeriveKey(f.c.remote, b.salt)
             c == [f.c EXCEPT !.remote = PubKey, !.key = k]
             u == WithConn(f, c)
             g == EnableWritable(u)
             a == [g.c EXCEPT !.negotiated = TRUE, !.writeState = "Idle"]
  <2>1. f.c \in Conns
    BY WorldFields, Zenon
  <2>2. k \in Keys /\ k = b.proof
    BY MessageFields, Zenon
  <2>3. v = [g EXCEPT !.c.negotiated = TRUE, !.c.writeState = "Idle"]
    <3>1. u = [f EXCEPT !.c.remote = PubKey, !.c.key = k]
      BY <2>1, Zenon DEF WithConn, Worlds
    <3> HIDE DEF u
    <3> QED
      BY <3>1, Zenon DEF HandleAck
  <2> HIDE DEF k
  <2>4. /\ c \in Conns /\ c.key = k /\ c.acking = f.c.acking /\ c.outbound = f.c.outbound
        /\ c.handlers = f.c.handlers /\ SameRead(f.c, c) /\ SameWrite(f.c, c)
    BY <2>1, <2>2, TypeFacts, Zenon DEF Conns, SameRead, SameWrite
  <2> HIDE DEF c
  <2>5. u \in Worlds /\ u.c = c /\ u.out = f.out /\ SameOutside(f, u)
    BY <2>4, WithConnIs, Zenon
  <2> HIDE DEF u
  <2>6. g \in Worlds /\ SameButWritable(u, g)
    BY <2>5, EnableIs, Zenon
  <2> HIDE DEF g
  <2>7. /\ a \in Conns /\ a.key = g.c.key /\ a.negotiated /\ a.acking = g.c.acking
        /\ a.writeState = "Idle" /\ a.writing = g.c.writing /\ a.marshalled = g.c.marshalled
        /\ a.writePos = g.c.writePos /\ a.outbound = g.c.outbound
        /\ a.handlers = g.c.handlers /\ SameRead(g.c, a)
    <3>1. g.c \in Conns
      BY <2>6, WorldFields, Zenon
    <3> QED
      BY <3>1, TypeFacts, Zenon DEF Conns, SameRead
  <2>8. v = WithConn(g, a)
    BY <2>3, <2>6, WorldFields, Zenon DEF WithConn, Worlds
  <2> HIDE DEF a
  <2>9. v \in Worlds /\ v.c = a /\ v.out = g.out /\ SameOutside(g, v)
    BY <2>6, <2>7, <2>8, WithConnIs
  <2>10. SameEnd(f, v) /\ SameAround(f, v)
    BY <2>5, <2>6, <2>9, Zenon DEF SameButWritable, SameOutside, SameEnd, SameAround,
       SameStreams
  <2>11. /\ g.c.key = k /\ g.c.acking = f.c.acking /\ SameWrite(f.c, g.c)
         /\ g.c.outbound = f.c.outbound /\ g.c.handlers = f.c.handlers /\ SameRead(f.c, g.c)
    BY <2>4, <2>5, <2>6, ZenonT(30) DEF SameButWritable, SameTalk, SameWrite, SameRead
  <2> QED
    BY <2>2, <2>7, <2>9, <2>10, <2>11, ZenonT(30) DEF SameWrite, SameRead
<1> DEFINE u == HandleAck(x, m)
           r == After(u)
<1>1. /\ x \in Worlds /\ Popped(w, x) /\ x.num = w.num /\ x.err = "ok" /\ x.reply = <<>>
      /\ x.eof = w.eof /\ x.c.outbound = w.c.outbound
      /\ SameWrite(w.c, x.c) /\ SameTalk(w.c, x.c)
  BY ArrivedFacts DEF Ends
<1>2. m.proof = DeriveKey(x.c.remote, m.salt)
  <2>1. Salt(d) + 1 = 2 * d
    BY DEF Salt
  <2>2. x.c.remote = Salt(d)
    BY <1>1, Zenon DEF SameTalk
  <2> QED
    BY <2>1, <2>2, Zenon DEF DeriveKey, KeyOf, Salt
<1>3. /\ u \in Worlds /\ SameEnd(x, u) /\ SameAround(x, u)
      /\ u.c.key = m.proof /\ u.c.negotiated /\ u.c.acking = x.c.acking
      /\ u.c.writeState = "Idle" /\ u.c.writing = x.c.writing
      /\ u.c.marshalled = x.c.marshalled /\ u.c.writePos = x.c.writePos
      /\ u.c.outbound = x.c.outbound
  BY <1>1, <1>2, <1>HandleAckIs
<1> HIDE DEF u
<1>4. Popped(w, u) /\ u.num = w.num /\ u.err = "ok" /\ u.reply = <<>> /\ u.eof = w.eof
  BY <1>1, <1>3, PoppedKept, Zenon DEF SameEnd, SameAround
<1>5. Settled(w, r) /\ SameButRead(u.c, r.c) /\ r.num = w.num
  BY <1>3, <1>4, HandlerReturns DEF Ends
<1> HIDE DEF r
<1>6. /\ r.c.outbound = w.c.outbound /\ r.c.writeState = "Idle"
      /\ r.c.writing = w.c.writing /\ r.c.marshalled = w.c.marshalled
      /\ r.c.writePos = w.c.writePos
      /\ r.c.key = KeyOf(d) /\ r.c.negotiated /\ r.c.acking = w.c.acking
  BY <1>1, <1>3, <1>5, Zenon DEF SameButRead, SameWrite, SameTalk
<1>7. Outcome("dialler", d, t, w.got, r)
  BY <1>5, <1>6, GoodAck, Zenon
<1> QED
  BY <1>7, Zenon DEF r, u

(* The Syn is answered with the proof of the key. *)
LEMMA SynHandled ==
  ASSUME NEW d \in Nat, NEW t, NEW w, NEW x, NEW m \in Messages,
         Good("acceptor", d, t, w), w.in.here >= PacketLen, Arrived(w, x), ~w.c.negotiated,
         w.got = 0, m.salt = Salt(d)
  PROVE  Outcome("acceptor", d, t, w.got, After(HandleSyn(x, m)))
<1>HandleSynIs.
    ASSUME NEW b \in Worlds, NEW a \in Messages, NEW v, v = HandleSyn(b, a)
    PROVE  /\ v \in Worlds /\ v.err = b.err /\ v.reply = <<Ack(b, a)>> /\ SameAround(b, v)
           /\ v.c.key = DeriveKey(a.salt, a.salt + 1) /\ v.c.acking
           /\ v.c.negotiated = b.c.negotiated
           /\ v.c.outbound = b.c.outbound /\ v.c.handlers = b.c.handlers
           /\ SameRead(b.c, v.c) /\ SameWrite(b.c, v.c)
  <2> USE <1>HandleSynIs
  <2> DEFINE k == DeriveKey(a.salt, a.salt + 1)
             r == <<Ack(b, a)>>
             c == [b.c EXCEPT !.remote = PubKey, !.key = k, !.acking = TRUE]
  <2>1. b.c \in Conns
    BY WorldFields, Zenon
  <2>2. k \in Keys
    BY MessageFields DEF DeriveKey, Keys
  <2>3. r \in Queues
    BY AckIs DEF Queues
  <2>4. v = [b EXCEPT !.c = c, !.reply = r]
    BY <2>1, Zenon DEF HandleSyn, Ack, Worlds, Conns
  <2> HIDE DEF k, r
  <2>5. /\ c \in Conns /\ c.key = k /\ c.acking /\ c.negotiated = b.c.negotiated
        /\ c.outbound = b.c.outbound /\ c.handlers = b.c.handlers
        /\ SameRead(b.c, c) /\ SameWrite(b.c, c)
    BY <2>1, <2>2, TypeFacts, Zenon DEF Conns, SameRead, SameWrite
  <2> HIDE DEF c
  <2>6. v \in Worlds /\ v.c = c /\ v.reply = r /\ v.err = b.err /\ SameAround(b, v)
    BY <2>3, <2>4, <2>5, Zenon DEF Worlds, SameAround, SameStreams
  <2> QED
    BY <2>5, <2>6, Zenon DEF k, r
<1> DEFINE u == HandleSyn(x, m)
           r == After(u)
           a == Ack(x, m)
           k == [a EXCEPT !.num = w.num + 1]
<1>1. /\ x \in Worlds /\ Popped(w, x) /\ x.num = w.num /\ x.err = "ok" /\ x.reply = <<>>
      /\ x.eof = w.eof /\ x.c.outbound = w.c.outbound
      /\ SameWrite(w.c, x.c) /\ SameTalk(w.c, x.c)
  BY ArrivedFacts DEF Ends
<1>2. DeriveKey(m.salt, m.salt + 1) = KeyOf(d)
  <2>1. Salt(d) + 1 = 2 * d
    BY DEF Salt
  <2> QED
    BY <2>1, Zenon DEF DeriveKey, KeyOf, Salt
<1>3. /\ u \in Worlds /\ u.err = x.err /\ u.reply = <<a>> /\ SameAround(x, u)
      /\ u.c.key = KeyOf(d) /\ u.c.acking
      /\ u.c.negotiated = x.c.negotiated
      /\ u.c.outbound = x.c.outbound /\ SameWrite(x.c, u.c)
  BY <1>1, <1>2, <1>HandleSynIs
<1>4. /\ a \in Messages /\ a.code = "Ack" /\ a.body = "None"
      /\ a.salt = Salt(d) + 1 /\ a.proof = KeyOf(d)
  BY <1>1, <1>2, AckIs, ZenonT(30)
<1>5. w.num + 1 \in Int
  BY GoodFacts DEF Ends
<1>6. /\ k \in Messages /\ k.num = w.num + 1 /\ k.code = "Ack" /\ k.body = "None"
      /\ k.salt = Salt(d) + 1 /\ k.proof = KeyOf(d)
  BY <1>4, <1>5, NumIs
<1> HIDE DEF u, a
<1>7. Popped(w, u) /\ u.num = w.num /\ u.err = "ok" /\ u.eof = w.eof
  BY <1>1, <1>3, PoppedKept, ZenonT(30) DEF SameAround
<1>8. /\ Settled(w, r) /\ r.num = w.num + 1
      /\ r.c.outbound = Append(u.c.outbound, k)
      /\ SameWrite(u.c, r.c) /\ SameTalk(u.c, r.c)
  BY <1>3, <1>4, <1>7, HandlerReplies, SMTT(30) DEF Ends
<1> HIDE DEF r, k
<1>9. /\ r.c.outbound = Append(w.c.outbound, k) /\ r.c.key = KeyOf(d)
      /\ ~r.c.negotiated /\ r.c.acking /\ SameWrite(w.c, r.c)
  BY <1>1, <1>3, <1>8, Zenon DEF SameWrite, SameTalk
<1>10. Outcome("acceptor", d, t, w.got, r)
  BY <1>6, <1>8, <1>9, GoodSyn, Zenon
<1> QED
  BY <1>10, Zenon DEF r, u

(* process_packet on a packet that has arrived. *)
LEMMA PacketProcessed ==
  ASSUME NEW e \in Ends, NEW d \in Nat, NEW t, NEW w, NEW v, Good(e, d, t, w),
         w.in.here >= PacketLen, v \in Worlds, v.out = w.out, v.got = w.got,
         v.num = w.num, SameEnd(w, v), SameButRead(w.c, v.c), v.in.pkts = w.in.pkts,
         v.in.sent = w.in.sent, v.in.here = w.in.here, v.in.read = PacketLen
  PROVE  /\ Unmarshals(v.c, Head(v.in.pkts))
         /\ Outcome(e, d, t, w.got, ProcessPacket(v))
(* process_packet, once the packet is dispatched. *)
<1>ProcessIs.
    ASSUME NEW b \in Worlds, NEW m, m = Head(b.in.pkts).msg,
           NEW a, a = DispatchPacket(Drop(b), m)
    PROVE  ProcessPacket(b) =
             IF ~b.c.negotiated /\ m.code \notin {"Syn", "Ack"} THEN Fail(b, "Unauthorized")
             ELSE IF a.err # "ok" THEN a
             ELSE NextRead(IF a.reply = <<>> THEN a ELSE Replied(a), "ReadingPrefix")
  BY <1>ProcessIs, ZenonT(30) DEF ProcessPacket, Drop, Replied, NextRead
<1>DropIs. ASSUME NEW h \in Worlds, h.in.pkts # <<>>, NEW f, f = Drop(h)
           PROVE  /\ f \in Worlds /\ f.c = h.c /\ f.out = h.out /\ f.num = h.num /\ SameEnd(h, f)
                  /\ f.got = Head(h.in.pkts).msg.num
                  /\ f.in.pkts = Tail(h.in.pkts) /\ f.in.sent = h.in.sent - PacketLen
                  /\ f.in.here = h.in.here - PacketLen /\ f.in.read = h.in.read - PacketLen
  <2> USE <1>DropIs
  <2> DEFINE q == Tail(h.in.pkts)
             a == h.in.sent - PacketLen
             b == h.in.here - PacketLen
             r == h.in.read - PacketLen
             g == Head(h.in.pkts).msg.num
             i == [h.in EXCEPT !.pkts = q, !.sent = a, !.here = b, !.read = r]
  <2>1. h.in \in Pipes
    BY WorldFields, Zenon
  <2>2. a \in Int /\ b \in Int /\ r \in Int
    BY <2>1, PipeFields, SizesAssumed
  <2>3. Head(h.in.pkts) \in Packets /\ q \in Streams
    BY <2>1, PipeFields DEF Streams
  <2>4. g \in Int
    BY <2>3, PacketFields, MessageFields, Zenon
  <2>5. f = [h EXCEPT !.in = i, !.got = g]
    BY <2>1, Zenon DEF Drop, DropPacket, Worlds, Pipes
  <2> HIDE DEF q, a, b, r, g
  <2>6. i \in Pipes /\ i.pkts = q /\ i.sent = a /\ i.here = b /\ i.read = r
    BY <2>1, <2>2, <2>3, Zenon DEF Pipes
  <2> HIDE DEF i
  <2>7. /\ f \in Worlds /\ f.c = h.c /\ f.out = h.out /\ f.num = h.num /\ SameEnd(h, f)
        /\ f.got = g /\ f.in = i
    BY <2>4, <2>5, <2>6, Zenon DEF Worlds, SameEnd
  <2> QED
    BY <2>6, <2>7, Zenon DEF q, a, b, r, g
<1> DEFINE k == Head(v.in.pkts)
           m == Head(v.in.pkts).msg
           x == Drop(v)
           u == DispatchPacket(Drop(v), m)
<1>1. /\ v.in.pkts # <<>> /\ k \in Packets /\ m \in Messages
      /\ m.num = w.got + 1 /\ Expected(e, d, t, w, k)
  BY PacketComplete
<1>2. v.c.negotiated = w.c.negotiated /\ v.c.key = w.c.key
  BY Zenon DEF SameButRead, SameTalk
<1>3. Unmarshals(v.c, k)
  BY <1>1, <1>2, Zenon DEF Unmarshals, Expected
<1>4. ~w.c.negotiated => m.code \in {"Syn", "Ack"}
  BY <1>1, Zenon DEF Expected
<1>5. ProcessPacket(v) = After(u)
  BY <1>2, <1>4, <1>ProcessIs, Zenon DEF After
<1>6. Arrived(w, x)
  <2>1. /\ x \in Worlds /\ x.c = v.c /\ x.out = v.out /\ x.num = v.num /\ SameEnd(v, x)
        /\ x.got = m.num
        /\ x.in.pkts = Tail(v.in.pkts) /\ x.in.sent = v.in.sent - PacketLen
        /\ x.in.here = v.in.here - PacketLen /\ x.in.read = v.in.read - PacketLen
    BY <1>1, <1>DropIs, Zenon
  <2>2. x.in.read = 0
    BY <2>1, SizesAssumed
  <2>3. SameEnd(w, x) /\ SameButRead(w.c, x.c)
    BY <2>1, Zenon DEF SameEnd
  <2> QED
    BY <1>1, <2>1, <2>2, <2>3, Zenon DEF Arrived, Popped
<1> HIDE DEF x, m
<1>7. CASE m.id \in x.c.handlers
  <2>1. u = HandlePong(Answered(x, m), m)
    BY <1>7, Zenon DEF DispatchPacket, Answered, x
  <2>2. m.body = "Pong" => w.c.negotiated
    BY <1>1, Zenon DEF Expected, m
  <2> HIDE DEF u
  <2> QED
    BY <1>1, <1>3, <1>5, <1>6, <2>1, <2>2, PongHandled, ZenonT(30)
<1>8. CASE m.id \notin x.c.handlers
  <2>1. u = CodeSwitcher(x, m)
    BY <1>8, Zenon DEF DispatchPacket, x
  <2> HIDE DEF u
  <2>2. CASE w.c.negotiated /\ m.code = "Ping"
    <3>1. u = HandlePing(x, m)
      BY <2>1, <2>2, Zenon DEF CodeSwitcher
    <3> QED
      BY <1>1, <1>3, <1>5, <1>6, <2>2, <3>1, PingHandled, ZenonT(30)
  <2>3. CASE w.c.negotiated /\ m.code = "Blockchain"
    <3>1. u = Fail(x, "bad TRX")
      BY <2>1, <2>3, Zenon DEF CodeSwitcher, Forward2
    <3>2. "bad TRX" \in Endings /\ "bad TRX" # "ok"
      BY Zenon DEF Endings
    <3>3. x \in Worlds /\ Popped(w, x) /\ x.num = w.num
      BY <1>6, Zenon DEF Arrived
    <3> QED
      BY <1>3, <1>5, <3>1, <3>2, <3>3, HandlerFails, ZenonT(30)
  <2>4. CASE ~w.c.negotiated /\ e = "dialler"
    <3>1. /\ m.code = "Ack" /\ m.salt = Salt(d) + 1 /\ m.proof = KeyOf(d)
          /\ w.c.remote = Salt(d) /\ t.got >= 1
      BY <1>1, <2>4, Zenon DEF Expected, m
    <3>2. u = HandleAck(x, m)
      BY <2>1, <3>1, Zenon DEF CodeSwitcher
    <3> QED
      BY <1>1, <1>3, <1>5, <1>6, <2>4, <3>1, <3>2, AckHandled, ZenonT(30)
  <2>5. CASE ~w.c.negotiated /\ e = "acceptor"
    <3>1. m.code = "Syn" /\ m.salt = Salt(d) /\ w.got = 0
      BY <1>1, <2>5, Zenon DEF Expected, m
    <3>2. u = HandleSyn(x, m)
      BY <2>1, <3>1, Zenon DEF CodeSwitcher
    <3> QED
      BY <1>1, <1>3, <1>5, <1>6, <2>5, <3>1, <3>2, SynHandled, ZenonT(30)
  <2>6. w.c.negotiated => m.code = "Ping" \/ m.code = "Blockchain"
    BY <1>1, Zenon DEF Expected, m
  <2> QED
    BY <2>2, <2>3, <2>4, <2>5, <2>6, ZenonT(30) DEF Ends
<1> QED
  BY <1>7, <1>8, Zenon

(* A socket with nothing more to read. *)
LEMMA GoodNothing ==
  ASSUME NEW e \in Ends, NEW d \in Nat, NEW t, NEW v, Good(e, d, t, v)
  PROVE  Outcome(e, d, t, v.got, NothingToRead(v))
<1>1. "ConnectionAborted" \in Endings /\ "ConnectionAborted" # "ok"
  BY Zenon DEF Endings
<1>2. CASE v.eof
  <2>1. NothingToRead(v) = Fail(v, "ConnectionAborted")
    BY <1>2, Zenon DEF NothingToRead
  <2> QED
    BY <1>1, <2>1, GoodEnds, Zenon
<1>3. CASE ~v.eof
  <2>1. NothingToRead(v) = v
    BY <1>3, Zenon DEF NothingToRead
  <2> QED
    BY <2>1, GoodOutcome, Zenon
<1> QED
  BY <1>2, <1>3, Zenon

(* read_body. *)
LEMMA GoodBody ==
  ASSUME NEW e \in Ends, NEW d \in Nat, NEW t, NEW w, Good(e, d, t, w), t.life # "none",
         w.c.readState = "Reading"
  PROVE  Outcome(e, d, t, w.got, ReadBody(w))
(* How much read() takes of a body. *)
<1>ReadAmount.
    ASSUME NEW here \in Int, NEW read \in Int, read <= here, NEW pos \in Int, 0 <= pos,
           pos < BodyLen, read = PrefixLen + pos, NEW n, n = MinOf(here - read, BodyLen - pos)
    PROVE  /\ n \in Nat /\ 0 <= read + n /\ read + n <= here /\ 0 <= pos + n
           /\ read + n = PrefixLen + (pos + n)
           /\ pos + n < BodyLen \/ pos + n = BodyLen
           /\ pos + n = BodyLen => here >= PacketLen /\ read + n = PacketLen /\ n # 0
  BY <1>ReadAmount, SizesAssumed DEF MinOf
<1> DEFINE n == MinOf(Available(w.in), BodyLen - w.c.readPos)
           v == Take(w, n)
<1>1. w \in Worlds /\ t \in Sides
  BY Zenon DEF Good
<1>2. /\ w.in.read <= w.in.here
      /\ 0 <= w.c.readPos /\ w.c.readPos < BodyLen /\ w.in.read = PrefixLen + w.c.readPos
  BY <1>1, SideOfIs, PeerIs, ZenonT(30) DEF Good, Half, Flow, Reads
<1>3. w.in.read \in Int /\ w.in.here \in Int /\ w.c.readPos \in Int
  BY GoodFacts, Zenon
<1>4. /\ n \in Nat /\ 0 <= w.in.read + n /\ w.in.read + n <= w.in.here /\ 0 <= w.c.readPos + n
      /\ w.in.read + n = PrefixLen + (w.c.readPos + n)
      /\ w.c.readPos + n < BodyLen \/ w.c.readPos + n = BodyLen
      /\ w.c.readPos + n = BodyLen =>
           w.in.here >= PacketLen /\ w.in.read + n = PacketLen /\ n # 0
  BY <1>2, <1>3, <1>ReadAmount, SMTT(30) DEF Available
<1>5. ReadBody(w) =
        IF n = 0 \/ v.c.readPos < BodyLen THEN NothingToRead(v)
        ELSE IF Unmarshals(v.c, Head(v.in.pkts)) THEN ProcessPacket(v)
        ELSE Fail(v, IF v.c.negotiated THEN "Decryption" ELSE "Unauthorized")
  BY Zenon DEF ReadBody
<1> HIDE DEF n
<1>6. /\ v \in Worlds /\ v.out = w.out /\ v.got = w.got /\ v.num = w.num /\ SameEnd(w, v)
      /\ v.c.readPos = w.c.readPos + n /\ v.c.readState = w.c.readState
      /\ SameButRead(w.c, v.c)
      /\ v.in.read = w.in.read + n /\ v.in.pkts = w.in.pkts /\ v.in.sent = w.in.sent
      /\ v.in.here = w.in.here
  BY <1>1, <1>4, TakeIs, SMTT(30)
<1> HIDE DEF v
<1>7. CASE w.c.readPos + n < BodyLen
  <2>1. ReadBody(w) = NothingToRead(v)
    BY <1>5, <1>6, <1>7, Zenon
  <2>2. Reads(SideOf(v), Peer(t, v))
    BY <1>1, <1>4, <1>6, <1>7, SideOfIs, PeerIs, SMTT(30) DEF Reads
  <2>3. 0 <= v.in.read /\ v.in.read <= v.in.here
    BY <1>4, <1>6, Zenon
  <2>4. Good(e, d, t, v)
    BY <1>6, <2>2, <2>3, GoodRead, Zenon
  <2> QED
    BY <1>6, <2>1, <2>4, GoodNothing, Zenon
<1>8. CASE w.c.readPos + n = BodyLen
  <2>1. v.in.read = PacketLen /\ w.in.here >= PacketLen /\ n # 0
    BY <1>4, <1>6, <1>8, Zenon
  <2>2. Unmarshals(v.c, Head(v.in.pkts)) /\ Outcome(e, d, t, w.got, ProcessPacket(v))
    BY <1>6, <2>1, PacketProcessed, Zenon
  <2>3. ~(n = 0 \/ v.c.readPos < BodyLen)
    BY <1>6, <1>8, <2>1, SizesAssumed
  <2> QED
    BY <1>5, <2>2, <2>3, Zenon
<1> QED
  BY <1>4, <1>7, <1>8, Zenon

(* read_prefix: a prefix is there in one piece or not at all. *)
LEMMA GoodPrefix ==
  ASSUME NEW e \in Ends, NEW d \in Nat, NEW t, NEW w, Good(e, d, t, w), t.life # "none",
         w.c.readState = "ReadingPrefix"
  PROVE  Outcome(e, d, t, w.got, ReadPrefix(w))
(* How much it takes of a prefix. *)
<1>PrefixAmount.
    ASSUME NEW here \in Nat, here > 0 => here >= PrefixLen, NEW read \in Int, read = 0,
           NEW n, n = MinOf(here - read, PrefixLen)
    PROVE  n = 0 \/ (n = PrefixLen /\ here >= PrefixLen)
  <2> USE <1>PrefixAmount
  <2>1. here - read = here
    OBVIOUS
  <2> QED
    BY <2>1, SizesAssumed DEF MinOf
<1> DEFINE n == MinOf(Available(w.in), PrefixLen)
           v == Take(w, n)
           u == NextRead(v, "Reading")
<1>1. w \in Worlds /\ t \in Sides
  BY Zenon DEF Good
<1>2. /\ 0 <= w.in.here /\ w.in.read = 0 /\ w.c.readPos = 0 /\ Aligned(w.in.here)
  BY <1>1, SideOfIs, PeerIs, ZenonT(30) DEF Good, Half, Flow, Reads
<1>3. w.in.read \in Int /\ w.in.here \in Nat /\ w.c.readPos \in Int
  BY <1>2, GoodFacts
<1>4. n = 0 \/ (n = PrefixLen /\ w.in.here >= PrefixLen)
  <2>1. w.in.here > 0 => w.in.here >= PrefixLen
    BY <1>2, <1>3, AlignedFacts, Zenon
  <2> QED
    BY <1>2, <1>3, <2>1, <1>PrefixAmount DEF Available
<1>5. ReadPrefix(w) =
        IF n = 0 \/ v.c.readPos < PrefixLen THEN NothingToRead(v)
        ELSE IF w.c.readPos > 0 THEN [v EXCEPT !.c.readState = "Garbled"]
        ELSE ReadBody(u)
  BY Zenon DEF ReadPrefix, NextRead
<1> HIDE DEF n
<1>6. n \in Int
  BY <1>4, SizesAssumed
<1>7. /\ v \in Worlds /\ v.out = w.out /\ v.got = w.got /\ v.num = w.num /\ SameEnd(w, v)
      /\ v.c.readPos = w.c.readPos + n /\ v.c.readState = w.c.readState
      /\ SameButRead(w.c, v.c)
      /\ v.in.read = w.in.read + n /\ v.in.pkts = w.in.pkts /\ v.in.sent = w.in.sent
      /\ v.in.here = w.in.here
  BY <1>1, <1>6, TakeIs, ZenonT(30)
<1> HIDE DEF v
<1>8. CASE n = 0
  <2>1. ReadPrefix(w) = NothingToRead(v)
    BY <1>5, <1>8, Zenon
  <2>2. v.c.readPos = 0 /\ v.in.read = 0 /\ v.c.readState = "ReadingPrefix"
    BY <1>2, <1>7, <1>8
  <2>3. Reads(SideOf(v), Peer(t, v))
    BY <1>1, <1>7, <2>2, SideOfIs, PeerIs, ZenonT(30) DEF Reads
  <2>4. 0 <= v.in.read /\ v.in.read <= v.in.here
    BY <1>2, <1>7, <2>2
  <2>5. Good(e, d, t, v)
    BY <1>7, <2>3, <2>4, GoodRead, Zenon
  <2> QED
    BY <1>7, <2>1, <2>5, GoodNothing, Zenon
<1>9. CASE n = PrefixLen /\ w.in.here >= PrefixLen
  <2>1. v.c.readPos = PrefixLen /\ v.in.read = PrefixLen /\ n # 0
    BY <1>2, <1>7, <1>9, SizesAssumed
  <2>2. ReadPrefix(w) = ReadBody(u)
    <3>1. ~(v.c.readPos < PrefixLen) /\ ~(w.c.readPos > 0)
      BY <1>2, <2>1, SizesAssumed
    <3> QED
      BY <1>5, <2>1, <3>1, Zenon
  <2>3. /\ u \in Worlds /\ u.out = v.out /\ SameOutside(v, u)
        /\ u.c.readPos = 0 /\ u.c.readState = "Reading" /\ SameButRead(v.c, u.c)
    BY <1>7, NextReadIs, TypeFacts, Zenon
  <2> HIDE DEF u
  <2>4. /\ u.in = v.in /\ u.got = w.got /\ u.num = w.num /\ SameEnd(w, u)
        /\ u.out = w.out /\ SameButRead(w.c, u.c)
    BY <1>7, <2>3, ZenonT(30) DEF SameOutside, SameEnd, SameButRead, SameWrite, SameTalk
  <2>5. Reads(SideOf(u), Peer(t, u))
    BY <1>1, <2>1, <2>3, <2>4, SideOfIs, PeerIs, SizesAssumed, SMTT(30) DEF Reads
  <2>6. /\ u.in.pkts = w.in.pkts /\ u.in.sent = w.in.sent /\ u.in.here = w.in.here
        /\ 0 <= u.in.read /\ u.in.read <= u.in.here
    BY <1>7, <1>9, <2>1, <2>4, SizesAssumed
  <2>7. Good(e, d, t, u)
    BY <2>3, <2>4, <2>5, <2>6, GoodRead, ZenonT(30)
  <2> QED
    BY <2>2, <2>3, <2>4, <2>7, GoodBody, ZenonT(30)
<1> QED
  BY <1>4, <1>8, <1>9, Zenon

(* on_readable. *)
LEMMA GoodReadable ==
  ASSUME NEW e \in Ends, NEW d \in Nat, NEW t, NEW w, Good(e, d, t, w), t.life # "none"
  PROVE  Outcome(e, d, t, w.got, OnReadable(w))
<1>1. w \in Worlds /\ t \in Sides
  BY Zenon DEF Good
<1>2. w.c.readState = "ReadingPrefix" \/ w.c.readState = "Reading"
  BY <1>1, SideOfIs, Zenon DEF Good, Half, Reads
<1>3. CASE w.c.readState = "ReadingPrefix"
  <2>1. OnReadable(w) = ReadPrefix(w)
    BY <1>3, Zenon DEF OnReadable
  <2> QED
    BY <1>3, <2>1, GoodPrefix, Zenon
<1>4. CASE w.c.readState = "Reading"
  <2>1. OnReadable(w) = ReadBody(w)
    BY <1>4, Zenon DEF OnReadable
  <2> QED
    BY <1>4, <2>1, GoodBody, Zenon
<1> QED
  BY <1>2, <1>3, <1>4, Zenon
=============================================================================
