----------------------- MODULE PeerConnHalves_proofs ------------------------
(***************************************************************************)
(* The invariant of two connections, as two halves: what one end knows of  *)
(* itself and of the other. Steps of an end on its connection and its      *)
(* stream keep both halves, and so does on_writable.                       *)
(***************************************************************************)
EXTENDS PeerConn, TLAPS

(* What the network and the actors are assumed not to do: a prefix arrives in
   one piece, and the acceptor sends nothing before it has negotiated. *)
Orderly == "split" \notin Env /\ "early" \notin Env

-----------------------------------------------------------------------------
(* The invariant. *)

Keys == Int \X Int
Bodies == {"None", "Ping", "Pong", "Trx"}

Messages ==
  [code : Codes, id : Int, body : Bodies, salt : Int, proof : Keys, handler : BOOLEAN,
   num : Int]

Packets == [msg : Messages, seal : Keys]
Queues == Seq(Messages)
Streams == Seq(Packets)
IdSets == SUBSET Int

Pipes == [pkts : Streams, sent : Int, here : Int, read : Int, blocked : BOOLEAN]

ReadStates == {"ReadingPrefix", "Reading", "Garbled", "None"}
WriteStates == {"Idle", "Writing", "None"}

Conns ==
  [remote : Int, key : Keys, negotiated : BOOLEAN, acking : BOOLEAN, outbound : Queues,
   handlers : IdSets, readState : ReadStates, readPos : Int, writeState : WriteStates,
   writing : Messages, marshalled : BOOLEAN, writePos : Int, writable : BOOLEAN]

Lives == {"none", "open", "closed"}

(* One end: its connection, the stream that it writes, what it has handled
   and what it has queued. *)
Sides ==
  [c : Conns, life : Lives, out : Pipes, got : Int, num : Int]

Side(e) ==
  [c |-> conn[e], life |-> life[e], out |-> pipe[e], got |-> got[e], num |-> num[e]]

(* The units of n packets. *)
Units(n) == PacketLen * n

(* A prefix arrives in one piece. *)
Aligned(k) == k % PacketLen = 0 \/ k % PacketLen >= PrefixLen

(* The stream holds the packets that were marshalled, the last one perhaps
   not completely. *)
Flow(s) ==
  /\ 0 <= s.out.read /\ s.out.read <= s.out.here /\ s.out.here <= s.out.sent
  /\ Aligned(s.out.here)
  /\ s.out.sent <= Units(Len(s.out.pkts))
  /\ s.life = "open" =>
       IF s.c.marshalled
         THEN /\ s.c.writeState = "Writing" /\ Len(s.out.pkts) > 0
              /\ s.out.sent = Units(Len(s.out.pkts) - 1) + s.c.writePos
              /\ 0 <= s.c.writePos /\ s.c.writePos < PacketLen
         ELSE s.out.sent = Units(Len(s.out.pkts)) /\ s.c.writePos = 0

(* The end s is where it says in the first packet of the other end t, which
   waits for a connection that was not accepted yet. *)
Reads(s, t) ==
  /\ s.life = "open" =>
       \/ s.c.readState = "ReadingPrefix" /\ s.c.readPos = 0 /\ t.out.read = 0
       \/ /\ s.c.readState = "Reading" /\ 0 <= s.c.readPos /\ s.c.readPos < BodyLen
          /\ t.out.read = PrefixLen + s.c.readPos
  /\ s.life = "none" => t.out.read = 0 /\ t.got = 0

(* How many messages have left the queue. *)
Taken(s) == s.num - Len(s.c.outbound)

(* Messages are numbered in the order in which they were queued; the other
   end has handled those that have left the stream. *)
Numbered(s, t) ==
  /\ \A i \in DOMAIN s.out.pkts : s.out.pkts[i].msg.num = t.got + i
  /\ s.life = "open" =>
       /\ \A i \in DOMAIN s.c.outbound : s.c.outbound[i].num = Taken(s) + i
       /\ IF s.c.writeState = "Writing" /\ ~s.c.marshalled
            THEN s.c.writing.num = Taken(s) /\ Taken(s) = t.got + Len(s.out.pkts) + 1
            ELSE Taken(s) = t.got + Len(s.out.pkts)
       /\ s.c.marshalled => s.c.writing = s.out.pkts[Len(s.out.pkts)].msg
       /\ s.c.writeState # "None"

(* The messages of an end that the other one has not handled. *)
Line(s) ==
  {s.out.pkts[i].msg : i \in DOMAIN s.out.pkts}
    \cup {s.c.outbound[i] : i \in DOMAIN s.c.outbound}
    \cup (IF s.c.writeState = "Writing" THEN {s.c.writing} ELSE {})

Salt(d) == 2 * d - 1
KeyOf(d) == DeriveKey(2 * d - 1, 2 * d)

(* The first message of an end belongs to the negotiation, no other does. *)
Speaks(e, d, m) ==
  IF m.num = 1
    THEN /\ m.body = "None"
         /\ IF e = "dialler"
              THEN m.code = "Syn" /\ m.salt = Salt(d)
              ELSE m.code = "Ack" /\ m.salt = Salt(d) + 1 /\ m.proof = KeyOf(d)
    ELSE m.code \in {"Ping", "Blockchain"}

Spoken(e, d, s) ==
  /\ \A m \in Line(s) : Speaks(e, d, m)
  /\ \A i \in DOMAIN s.out.pkts :
       s.out.pkts[i].seal = IF s.out.pkts[i].msg.num = 1 THEN NoKey ELSE KeyOf(d)

(* An end that has negotiated has written its part of the negotiation and
   handled the other one. *)
Ready(d, s, t) ==
  /\ s.c.key = KeyOf(d) /\ ~s.c.acking
  /\ s.got >= 1 /\ t.got + Len(s.out.pkts) >= 1

(* A dialler writes its Syn and waits, with a message queued behind it, which
   is why nothing makes it writable before the Ack. *)
Dialling(d, s) ==
  /\ s.c.remote = Salt(d) /\ ~s.c.acking
  /\ s.got = 0 /\ s.num >= 2 /\ Taken(s) <= 1
  /\ s.c.writeState = "Idle" /\ Taken(s) = 1 => ~s.c.writable

(* An acceptor waits for a Syn, and has nothing but the Ack to write then. *)
Accepting(d, s) ==
  IF s.got = 0 THEN ~s.c.acking /\ s.num = 0
  ELSE /\ s.got = 1 /\ s.c.acking /\ s.c.key = KeyOf(d) /\ s.num = 1
       /\ Taken(s) = 1 => s.c.writeState = "Writing"

Phase(e, d, s, t) ==
  s.life = "open" =>
    IF s.c.negotiated THEN Ready(d, s, t)
    ELSE IF e = "dialler" THEN Dialling(d, s) ELSE Accepting(d, s)

(* The Ack answers the Syn, and what follows the Syn follows the Ack. *)
Caused(e, s, t) ==
  IF e = "dialler" THEN t.got + Len(s.out.pkts) >= 2 => s.got >= 1
  ELSE Len(s.out.pkts) >= 1 => s.got >= 1

(* An object that is not in use is as new or reset left it. *)
Unused(s) ==
  /\ s.life # "open" => s.c \in {New, Reset(New)}
  /\ s.life = "none" => s.out = NoPipe /\ s.got = 0 /\ s.num = 0

Half(e, d, s, t) ==
  /\ s \in Sides /\ s.got >= 0 /\ s.num >= 0
  /\ Flow(s) /\ Reads(s, t) /\ Numbered(s, t) /\ Spoken(e, d, s)
  /\ Phase(e, d, s, t) /\ Caused(e, s, t) /\ Unused(s)

(* The errors that may end a connection, and those that never do. *)
Endings ==
  {"ok", "expired", "ConnectionAborted", "SocketFailed", "bad TRX", "bad ping", "bad pong"}
Failures == {"Decryption", "Unauthorized", "ReadState == None", "Writestate == None"}
Errors == Endings \cup Failures

Typed ==
  /\ conn \in [Ends -> Conns] /\ life \in [Ends -> Lives] /\ pipe \in [Ends -> Pipes]
  /\ got \in [Ends -> Int] /\ num \in [Ends -> Int] /\ err \in [Ends -> Endings]
  /\ dials \in Nat

Whole(e) == Half(e, dials, Side(e), Side(Other(e)))

NegInv == Typed /\ \A e \in Ends : Whole(e)

-----------------------------------------------------------------------------
(* Types. *)

(* The record that an event works on. *)
Worlds ==
  [c : Conns, out : Pipes, in : Pipes, armed : BOOLEAN, room : BOOLEAN, err : Errors,
   reply : Queues, got : Int, num : Int, stale : BOOLEAN, eof : BOOLEAN]

(* Sizes are positive. *)
LEMMA SizesAssumed ==
  /\ PrefixLen \in Nat /\ BodyLen \in Nat /\ SockCap \in Nat /\ PacketLen \in Nat
  /\ PrefixLen > 0 /\ BodyLen > 0 /\ SockCap > 0
  /\ PacketLen = PrefixLen + BodyLen
BY PeerConnAssumption DEF PacketLen

(* Members of the types that stay folded below. *)
LEMMA TypeFacts ==
  /\ "Idle" \in WriteStates /\ "Writing" \in WriteStates /\ "None" \in WriteStates
  /\ "ReadingPrefix" \in ReadStates /\ "Reading" \in ReadStates
  /\ "Garbled" \in ReadStates /\ "None" \in ReadStates
  /\ "open" \in Lives /\ "closed" \in Lives /\ "none" \in Lives
  /\ NoKey \in Keys /\ {} \in IdSets /\ <<>> \in Queues /\ <<>> \in Streams
  /\ 0 \in Int /\ PubKey \in Int /\ SynId \in Int /\ AckId \in Int
BY DEF WriteStates, ReadStates, Lives, NoKey, Keys, IdSets, Queues, Streams, PubKey,
       SynId, AckId

(* A message that Message makes is one. *)
LEMMA MessageType ==
  ASSUME NEW code \in Codes, NEW id \in Int, NEW body \in Bodies, NEW h \in BOOLEAN
  PROVE  Message(code, id, body, h) \in Messages
BY DEF Messages, Message, NoKey, Keys

(* The fields of a message have their types, and so have those of the other
   records. *)
LEMMA MessageFields ==
  ASSUME NEW m \in Messages
  PROVE  /\ m.code \in Codes /\ m.id \in Int /\ m.body \in Bodies /\ m.salt \in Int
         /\ m.proof \in Keys /\ m.handler \in BOOLEAN /\ m.num \in Int
BY Zenon DEF Messages

(* The fields of a packet. *)
LEMMA PacketFields ==
  ASSUME NEW p \in Packets
  PROVE  p.msg \in Messages /\ p.seal \in Keys
BY Zenon DEF Packets

(* The fields of one direction of the stream. *)
LEMMA PipeFields ==
  ASSUME NEW p \in Pipes
  PROVE  /\ p.pkts \in Streams /\ p.sent \in Int /\ p.here \in Int /\ p.read \in Int
         /\ p.blocked \in BOOLEAN
BY Zenon DEF Pipes

(* The fields of a connection. *)
LEMMA ConnFields ==
  ASSUME NEW c \in Conns
  PROVE  /\ c.remote \in Int /\ c.key \in Keys /\ c.negotiated \in BOOLEAN
         /\ c.acking \in BOOLEAN /\ c.outbound \in Queues /\ c.handlers \in IdSets
         /\ c.readState \in ReadStates /\ c.readPos \in Int
         /\ c.writeState \in WriteStates /\ c.writing \in Messages
         /\ c.marshalled \in BOOLEAN /\ c.writePos \in Int /\ c.writable \in BOOLEAN
BY Zenon DEF Conns

(* The fields of what an event works on. *)
LEMMA WorldFields ==
  ASSUME NEW w \in Worlds
  PROVE  /\ w.c \in Conns /\ w.out \in Pipes /\ w.in \in Pipes /\ w.armed \in BOOLEAN
         /\ w.room \in BOOLEAN /\ w.err \in Errors /\ w.reply \in Queues /\ w.got \in Int
         /\ w.num \in Int /\ w.stale \in BOOLEAN /\ w.eof \in BOOLEAN
BY Zenon DEF Worlds

(* The fields of one end. *)
LEMMA SideFields ==
  ASSUME NEW s \in Sides
  PROVE  /\ s.c \in Conns /\ s.life \in Lives /\ s.out \in Pipes /\ s.got \in Int
         /\ s.num \in Int
BY Zenon DEF Sides

(* The message of a connection that writes nothing is one. *)
LEMMA NoMessageType ==
  NoMessage \in Messages
BY DEF Messages, NoMessage, Message, NoKey, Keys, Codes, Bodies

(* What new and reset leave. *)
LEMMA UnusedTypes ==
  New \in Conns /\ Reset(New) \in Conns /\ NoPipe \in Pipes
<1>1. New \in Conns
  BY TypeFacts, NoMessageType, Zenon DEF New, Conns
<1>2. Reset(New) \in Conns
  BY <1>1, TypeFacts, Zenon DEF Reset, Conns
<1>3. NoPipe \in Pipes
  BY TypeFacts, Zenon DEF NoPipe, Pipes
<1> QED
  BY <1>1, <1>2, <1>3, Zenon

(* Groups of fields that a step leaves alone. *)
SameRead(c, v) == v.readState = c.readState /\ v.readPos = c.readPos
SameWrite(c, v) ==
  /\ v.writeState = c.writeState /\ v.writing = c.writing
  /\ v.marshalled = c.marshalled /\ v.writePos = c.writePos
SameTalk(c, v) ==
  /\ v.remote = c.remote /\ v.key = c.key
  /\ v.negotiated = c.negotiated /\ v.acking = c.acking
SameStreams(w, v) == v.out = w.out /\ v.in = w.in /\ v.got = w.got
SameEnd(w, v) == v.err = w.err /\ v.reply = w.reply /\ v.stale = w.stale /\ v.eof = w.eof

-----------------------------------------------------------------------------
(* Units of packets. *)

(* Packets follow each other in the stream without a gap. *)
LEMMA UnitsFacts ==
  ASSUME NEW n \in Nat
  PROVE  /\ Units(n) \in Nat /\ Units(n + 1) = Units(n) + PacketLen
         /\ n > 0 => Units(n) = Units(n - 1) + PacketLen /\ Units(n - 1) \in Nat
         /\ n = 0 => Units(n) = 0
         /\ n > 0 => Units(n) >= PacketLen
<1>1. PacketLen \in Nat
  BY SizesAssumed, Zenon
<1> HIDE DEF PacketLen
<1>2. Units(n) \in Nat /\ Units(n + 1) = Units(n) + PacketLen /\ (n = 0 => Units(n) = 0)
  BY <1>1 DEF Units
<1>3. ASSUME n > 0
      PROVE  /\ Units(n) = Units(n - 1) + PacketLen /\ Units(n - 1) \in Nat
             /\ Units(n) >= PacketLen
  BY <1>1, <1>3 DEF Units
<1> QED
  BY <1>2, <1>3, Zenon

(* An aligned amount that is not zero has a prefix, and is still aligned when
   a packet is taken away. *)
LEMMA AlignedFacts ==
  ASSUME NEW k \in Nat, Aligned(k)
  PROVE  /\ k > 0 => k >= PrefixLen
         /\ k >= PacketLen => Aligned(k - PacketLen)
(* Division has one remainder. *)
<1>OneRemainder. ASSUME NEW b \in Nat, b > 0, NEW q \in Int, NEW r \in 0 .. b - 1,
                        NEW p \in Int, NEW x \in 0 .. b - 1, b * q + r = b * p + x
                 PROVE  r = x
  <2> USE <1>OneRemainder
  <2>1. b * (q - p) = x - r
    OBVIOUS
  <2>2. CASE q - p >= 1
    <3>1. b * (q - p) >= b * 1
      BY <2>2
    <3> QED
      BY <2>1, <3>1
  <2>3. CASE q - p <= -1
    <3>1. b * (q - p) <= b * (-1)
      BY <2>3
    <3> QED
      BY <2>1, <3>1
  <2>4. CASE q = p
    BY <2>4
  <2> QED
    BY <2>2, <2>3, <2>4
<1>1. PrefixLen \in Nat /\ PacketLen \in Nat /\ PrefixLen > 0 /\ PrefixLen < PacketLen
  BY SizesAssumed
<1> HIDE DEF PacketLen
<1>2. ASSUME k > 0, k < PrefixLen PROVE FALSE
  <2>1. k % PacketLen = k
    BY ONLY <1>1, <1>2, k \in Nat
  <2> QED
    BY <1>1, <1>2, <2>1 DEF Aligned
<1>3. ASSUME k >= PacketLen PROVE Aligned(k - PacketLen)
  <2>1. (k - PacketLen) % PacketLen = k % PacketLen
    <3> DEFINE b == PacketLen
               j == k - b
    <3>1. b \in Nat /\ b > 0 /\ j \in Int
      BY <1>1
    <3> HIDE DEF b
    <3>2. /\ k \div b \in Int /\ k % b \in 0 .. b - 1 /\ k = b * (k \div b) + (k % b)
      BY ONLY <3>1, k \in Nat
    <3>3. /\ j \div b \in Int /\ j % b \in 0 .. b - 1 /\ j = b * (j \div b) + (j % b)
      BY ONLY <3>1
    <3>4. b * ((k \div b) - 1) = b * (k \div b) - b /\ (k \div b) - 1 \in Int
      BY ONLY <3>1, <3>2
    <3>5. b * ((k \div b) - 1) + (k % b) = b * (j \div b) + (j % b)
      BY <3>1, <3>2, <3>3, <3>4
    <3>6. k % b = j % b
      BY <3>1, <3>2, <3>3, <3>4, <3>5, <1>OneRemainder, Zenon
    <3> QED
      BY <3>6, Zenon DEF b
  <2> QED
    BY <2>1, Zenon DEF Aligned
<1> QED
  BY <1>1, <1>2, <1>3

-----------------------------------------------------------------------------
(* Steps of one end, on both halves of the invariant. *)

SameStream(p, q) ==
  q.pkts = p.pkts /\ q.sent = p.sent /\ q.here = p.here /\ q.read = p.read

(* Steps that change nothing but how far the end has read, its handlers and
   what it asks for. A dialler that waits for the Ack does not ask for
   writability. *)
LEMMA QuietStep ==
  ASSUME NEW e \in Ends, NEW d \in Nat, NEW s, NEW t, NEW s2, NEW t2,
         Half(e, d, s, t), s.life = "open", s2 \in Sides, s2.life = "open",
         SameStream(s.out, s2.out), s2.got = s.got, s2.num = s.num, t2.got = t.got,
         s2.c.outbound = s.c.outbound, SameWrite(s.c, s2.c), SameTalk(s.c, s2.c),
         s2.c.writable => s.c.writable \/ s.c.negotiated \/ e = "acceptor",
         Reads(s2, t2)
  PROVE  Half(e, d, s2, t2)
<1>1. Flow(s2)
  BY Zenon DEF Half, Flow, SameStream, SameWrite
<1>2. Numbered(s2, t2)
  BY DEF Half, Numbered, SameStream, SameWrite, Taken
<1>3. Line(s2) = Line(s)
  BY DEF Line, SameStream, SameWrite
<1>4. Spoken(e, d, s2)
  BY <1>3, Zenon DEF Half, Spoken, SameStream
<1>5. Phase(e, d, s2, t2)
  BY Zenon
     DEF Half, Phase, Ready, Dialling, Accepting, Taken, SameStream, SameWrite, SameTalk
<1>6. Caused(e, s2, t2)
  BY Zenon DEF Half, Caused, SameStream
<1>7. Unused(s2)
  BY Zenon DEF Unused
<1> QED
  BY <1>1, <1>2, <1>4, <1>5, <1>6, <1>7, Zenon DEF Half

(* The other half depends on what the end has handled and read. *)
LEMMA OtherStep ==
  ASSUME NEW o \in Ends, NEW d \in Nat, NEW s, NEW t, NEW s2,
         Half(o, d, t, s), s2.got = s.got, s2.out.read = s.out.read
  PROVE  Half(o, d, t, s2)
BY Zenon DEF Half, Reads, Numbered, Phase, Ready, Caused

(* The types that the arithmetic of an open end needs. *)
LEMMA SideTypes ==
  ASSUME NEW s \in Sides
  PROVE  /\ s.c.outbound \in Seq(Messages) /\ s.out.pkts \in Seq(Packets)
         /\ Len(s.c.outbound) \in Nat /\ Len(s.out.pkts) \in Nat
         /\ s.got \in Int /\ s.num \in Int /\ s.c.writePos \in Int /\ s.c.readPos \in Int
         /\ s.out.sent \in Int /\ s.out.here \in Int /\ s.out.read \in Int
         /\ s.c.writing \in Messages
<1>1. s.c \in Conns /\ s.out \in Pipes /\ s.got \in Int /\ s.num \in Int
  BY SideFields, Zenon
<1>2. s.c.outbound \in Seq(Messages) /\ s.out.pkts \in Seq(Packets)
  BY <1>1, ConnFields, PipeFields, Zenon DEF Queues, Streams
<1> QED
  BY <1>1, <1>2, ConnFields, PipeFields

(* A message is queued: not by an acceptor that has not negotiated. *)
LEMMA QueueStep ==
  ASSUME NEW e \in Ends, NEW d \in Nat, NEW s, NEW t, NEW s2, NEW k \in Messages,
         Half(e, d, s, t), t.got \in Nat, s.life = "open", s2 \in Sides, s2.life = "open",
         s.c.negotiated \/ e = "dialler",
         s2.out = s.out, s2.got = s.got, s2.num = s.num + 1,
         s2.c.outbound = Append(s.c.outbound, k),
         k.num = s.num + 1, k.code \in {"Ping", "Blockchain"},
         SameRead(s.c, s2.c), SameWrite(s.c, s2.c), SameTalk(s.c, s2.c),
         s.c.outbound # <<>> => s2.c.writable = s.c.writable \/ s.c.negotiated
  PROVE  Half(e, d, s2, t)
<1>DifferenceKept. ASSUME NEW n \in Int, NEW l \in Nat
                   PROVE  (n + 1) - (l + 1) = n - l /\ n - l \in Int
    BY <1>DifferenceKept
<1>1. s \in Sides
  BY Zenon DEF Half
<1>0. s.c.outbound \in Seq(Messages)
  BY <1>1, SideTypes, Zenon
<1>2. Len(s.c.outbound) \in Nat /\ Len(s.out.pkts) \in Nat /\ s.num \in Int /\ s.got \in Int
  BY <1>1, SideTypes, Zenon
<1>3. /\ \A i \in DOMAIN s2.c.outbound :
           s2.c.outbound[i] = IF i = Len(s.c.outbound) + 1 THEN k ELSE s.c.outbound[i]
      /\ DOMAIN s2.c.outbound = 1 .. Len(s.c.outbound) + 1
      /\ DOMAIN s.c.outbound = 1 .. Len(s.c.outbound)
  BY <1>0
<1>4. Taken(s2) = Taken(s) /\ Taken(s) \in Int 
  <2>1. Len(s2.c.outbound) = Len(s.c.outbound) + 1 /\ s2.num = s.num + 1
    BY <1>0
  <2> QED
    BY ONLY <1>2, <2>1, <1>DifferenceKept, Zenon DEF Taken
<1>5. s.num >= 1
  <2>1. CASE s.c.negotiated
    <3>1. Taken(s) >= t.got + Len(s.out.pkts)
      BY <1>2, <1>4 DEF Half, Numbered
    <3>2. t.got + Len(s.out.pkts) >= 1
      BY <2>1, Zenon DEF Half, Phase, Ready
    <3> QED
      BY ONLY <1>2, <3>1, <3>2, t.got \in Nat, SMTT(30) DEF Taken
  <2>2. CASE ~s.c.negotiated
    BY <1>2, <2>2 DEF Half, Phase, Dialling
  <2> QED
    BY <2>1, <2>2, Zenon
<1>6. Flow(s2) /\ Reads(s2, t) /\ Caused(e, s2, t) /\ Unused(s2)
  BY Zenon DEF Half, Flow, Reads, Caused, Unused, SameWrite, SameRead
<1>7. Numbered(s2, t)
  <2>1. \A i \in DOMAIN s2.c.outbound : s2.c.outbound[i].num = Taken(s2) + i
    <3>1. \A i \in DOMAIN s.c.outbound : s.c.outbound[i].num = Taken(s) + i
      BY Zenon DEF Half, Numbered
    <3>2. k.num = Taken(s) + (Len(s.c.outbound) + 1)
      BY ONLY <1>2, k.num = s.num + 1 DEF Taken
    <3> QED
      BY <1>2, <1>3, <1>4, <3>1, <3>2
  <2> QED
    BY <1>4, <2>1, ZenonT(30) DEF Half, Numbered, SameWrite
<1>8. Spoken(e, d, s2)
  <2>1. \A m \in Line(s2) : m \in Line(s) \/ m = k
    BY <1>2, <1>3 DEF Line, SameWrite
  <2>2. Speaks(e, d, k)
    BY <1>2, <1>5 DEF Speaks
  <2> QED
    BY <2>1, <2>2, Zenon DEF Half, Spoken
<1>9. Phase(e, d, s2, t)
  <2>1. CASE s.c.negotiated
    BY <2>1, Zenon DEF Half, Phase, Ready, SameTalk
  <2>2. CASE ~s.c.negotiated
    <3>1. e = "dialler" /\ Dialling(d, s)
      BY <2>2, Zenon DEF Half, Phase
    <3>2. s.c.outbound # <<>>
      BY <1>0, <1>2, <3>1 DEF Dialling, Taken
    <3>3. Dialling(d, s2)
      BY <1>2, <1>4, <2>2, <3>1, <3>2 DEF Dialling, SameTalk, SameWrite
    <3> QED
      BY <2>2, <3>1, <3>3, Zenon DEF Phase, SameTalk
  <2> QED
    BY <2>1, <2>2, Zenon
<1> QED
  BY <1>2, <1>6, <1>7, <1>8, <1>9 DEF Half

(* idle_write takes the first message of the queue. *)
LEMMA IdleStep ==
  ASSUME NEW e \in Ends, NEW d \in Nat, NEW s, NEW t, NEW s2,
         Half(e, d, s, t), t.got \in Nat, s.life = "open", s2 \in Sides, s2.life = "open",
         s.c.writeState = "Idle", s.c.writable, s.c.outbound # <<>>,
         s2.out = s.out, s2.got = s.got, s2.num = s.num,
         s2.c.outbound = Tail(s.c.outbound), s2.c.writing = Head(s.c.outbound),
         s2.c.writeState = "Writing", s2.c.marshalled = s.c.marshalled,
         s2.c.writePos = s.c.writePos, SameRead(s.c, s2.c), SameTalk(s.c, s2.c)
  PROVE  Half(e, d, s2, t)
<1>DifferenceGrows. ASSUME NEW n \in Int, NEW l \in Nat
                    PROVE  n - (l - 1) = (n - l) + 1 /\ n - l \in Int
    BY <1>DifferenceGrows
<1>1. s \in Sides /\ ~s.c.marshalled
  BY Zenon DEF Half, Flow
<1>2. s.c.outbound \in Seq(Messages)
  BY <1>1, SideTypes, Zenon
<1>3. Len(s.c.outbound) \in Nat /\ Len(s.out.pkts) \in Nat /\ s.num \in Int /\ s.got \in Int
  BY <1>1, SideTypes, Zenon
<1>4. /\ \A i \in DOMAIN s2.c.outbound :
           s2.c.outbound[i] = s.c.outbound[i + 1] /\ i + 1 \in DOMAIN s.c.outbound /\ i \in Int
      /\ s2.c.writing = s.c.outbound[1] /\ 1 \in DOMAIN s.c.outbound
  BY <1>2
<1>5. Taken(s2) = Taken(s) + 1 /\ Taken(s) \in Int
  <2>1. Len(s2.c.outbound) = Len(s.c.outbound) - 1
    BY <1>2
  <2> QED
    BY <1>3, <2>1, <1>DifferenceGrows, Zenon DEF Taken
<1>6. Flow(s2) /\ Reads(s2, t) /\ Caused(e, s2, t) /\ Unused(s2)
  BY <1>1, Zenon DEF Half, Flow, Reads, Caused, Unused, SameRead
<1>7. Numbered(s2, t)
  <2>1. /\ \A i \in DOMAIN s.c.outbound : s.c.outbound[i].num = Taken(s) + i
        /\ Taken(s) = t.got + Len(s.out.pkts)
        /\ \A i \in DOMAIN s.out.pkts : s.out.pkts[i].msg.num = t.got + i
    BY Zenon DEF Half, Numbered
  <2>2. \A i \in DOMAIN s2.c.outbound : s2.c.outbound[i].num = Taken(s2) + i
    BY <1>4, <1>5, <2>1
  <2>3. s2.c.writing.num = Taken(s2) /\ Taken(s2) = t.got + Len(s2.out.pkts) + 1
    BY <1>4, <1>5, <2>1, Zenon
  <2> QED
    BY <1>1, <2>1, <2>2, <2>3, Zenon DEF Numbered
<1>8. Spoken(e, d, s2)
  <2>1. \A m \in Line(s2) : m \in Line(s)
    BY <1>4 DEF Line
  <2> QED
    BY <2>1 DEF Half, Spoken
<1>9. Phase(e, d, s2, t)
  <2>1. CASE s.c.negotiated
    BY <2>1, Zenon DEF Half, Phase, Ready, SameTalk
  <2>2. CASE ~s.c.negotiated /\ e = "dialler"
    <3>1. Dialling(d, s) /\ Taken(s) <= 1 /\ Taken(s) # 1
      BY <2>2, Zenon DEF Half, Phase, Dialling
    <3>2. Taken(s2) <= 1
      BY ONLY <1>5, <3>1
    <3> QED
      BY <2>2, <3>1, <3>2, Zenon DEF Phase, Dialling, SameTalk
  <2>3. CASE ~s.c.negotiated /\ e # "dialler"
    BY <2>3, Zenon DEF Half, Phase, Accepting, SameTalk
  <2> QED
    BY <2>1, <2>2, <2>3, Zenon
<1> QED
  BY <1>3, <1>6, <1>7, <1>8, <1>9, Zenon DEF Half

(* write_packet marshals the message. *)
LEMMA MarshalStep ==
  ASSUME NEW e \in Ends, NEW d \in Nat, NEW s, NEW t, NEW s2, NEW k \in Packets,
         Half(e, d, s, t), t.got \in Nat, s.life = "open", s2 \in Sides, s2.life = "open",
         s.c.writeState = "Writing", ~s.c.marshalled,
         k.msg = s.c.writing, k.seal = IF s.c.negotiated THEN s.c.key ELSE NoKey,
         s2.out.pkts = Append(s.out.pkts, k), s2.out.sent = s.out.sent,
         s2.out.here = s.out.here, s2.out.read = s.out.read,
         s2.got = s.got, s2.num = s.num, s2.c.outbound = s.c.outbound,
         s2.c.writing = s.c.writing, s2.c.writeState = "Writing", s2.c.marshalled,
         s2.c.writePos = s.c.writePos, s2.c.writable = s.c.writable,
         SameRead(s.c, s2.c), SameTalk(s.c, s2.c)
  PROVE  Half(e, d, s2, t)
(* What an end writes before it has negotiated is its first message. *)
<1>FirstMessage.
    ASSUME NEW b \in Ends, NEW a \in Nat, NEW f, NEW h, Half(b, a, f, h), h.got \in Nat,
           f.life = "open", f.c.writeState = "Writing", ~f.c.marshalled
    PROVE  /\ f.c.negotiated => f.c.writing.num # 1 /\ f.got >= 1 /\ f.c.key = KeyOf(a)
           /\ ~f.c.negotiated => /\ f.c.writing.num = 1 /\ h.got + Len(f.out.pkts) + 1 = 1
                                 /\ b # "dialler" => f.got >= 1
  <2> USE <1>FirstMessage
  <2>DifferencePositive.
      ASSUME NEW n \in Int, NEW l \in Nat, NEW g \in Nat, NEW p \in Nat, n - l = g + p + 1
      PROVE  n # 0
      BY <2>DifferencePositive
  <2>1. f \in Sides
    BY Zenon DEF Half
  <2>2. Len(f.c.outbound) \in Nat /\ Len(f.out.pkts) \in Nat /\ f.num \in Int /\ f.got \in Int
    BY <2>1, SideTypes, Zenon
  <2>3. f.c.writing.num = Taken(f) /\ Taken(f) = h.got + Len(f.out.pkts) + 1
    BY Zenon DEF Half, Numbered
  <2>4. CASE f.c.negotiated
    <3>1. /\ f.got >= 1 /\ h.got + Len(f.out.pkts) >= 1 /\ f.c.key = KeyOf(a)
      BY <2>4, Zenon DEF Half, Phase, Ready
    <3>2. h.got + Len(f.out.pkts) + 1 # 1
      BY ONLY <2>2, <3>1, h.got \in Nat
    <3> QED
      BY <2>3, <2>4, <3>1, <3>2, Zenon
  <2>5. CASE ~f.c.negotiated
    <3>1. Taken(f) <= 1 /\ (b # "dialler" => f.got >= 1)
      <4>1. CASE b = "dialler"
        BY <2>5, <4>1, Zenon DEF Half, Phase, Dialling
      <4>2. CASE b # "dialler"
        <5>1. Accepting(a, f)
          BY <2>5, <4>2, Zenon DEF Half, Phase
        <5>2. f.num - Len(f.c.outbound) = h.got + Len(f.out.pkts) + 1
          BY <2>3, Zenon DEF Taken
        <5>3. f.num # 0
          BY ONLY <2>2, <5>2, h.got \in Nat, <2>DifferencePositive, Zenon
        <5>4. f.got >= 1 /\ f.num = 1
          BY <2>2, <5>1, <5>3 DEF Accepting
        <5>5. Taken(f) <= 1
          BY ONLY <2>2, <5>4 DEF Taken
        <5> QED
          BY <5>4, <5>5, Zenon
      <4> QED
        BY <4>1, <4>2, Zenon
    <3>2. h.got + Len(f.out.pkts) + 1 = 1
      BY <2>2, <2>3, <3>1
    <3> QED
      BY <2>3, <2>5, <3>1, <3>2, Zenon
  <2> QED
    BY <2>4, <2>5, Zenon
<1>1. s \in Sides
  BY Zenon DEF Half
<1>2. s.out.pkts \in Seq(Packets)
  BY <1>1, SideTypes, Zenon
<1>3. /\ Len(s.out.pkts) \in Nat /\ s.got \in Int /\ s.out.sent \in Int /\ s.out.here \in Int
      /\ s.out.read \in Int /\ Len(s2.out.pkts) = Len(s.out.pkts) + 1
  BY <1>1, <1>2, SideTypes
<1>4. /\ \A i \in DOMAIN s2.out.pkts :
           IF i = Len(s.out.pkts) + 1 THEN s2.out.pkts[i] = k
           ELSE i \in DOMAIN s.out.pkts /\ s2.out.pkts[i] = s.out.pkts[i]
      /\ s2.out.pkts[Len(s2.out.pkts)] = k
  <2>1. Len(s.out.pkts) + 1 = Len(s2.out.pkts) /\ DOMAIN s2.out.pkts = 1 .. Len(s.out.pkts) + 1
    BY <1>2, <1>3
  <2>2. \A i \in 1 .. Len(s.out.pkts) + 1 :
          s2.out.pkts[i] = IF i = Len(s.out.pkts) + 1 THEN k ELSE s.out.pkts[i]
    BY <1>2
  <2>3. \A i \in 1 .. Len(s.out.pkts) + 1 : i # Len(s.out.pkts) + 1 => i \in DOMAIN s.out.pkts
    BY <1>2
  <2> QED
    BY <1>3, <2>1, <2>2, <2>3
<1>5. Taken(s2) = Taken(s)
  BY Zenon DEF Taken
<1>a. t.got + Len(s.out.pkts) + 1 = t.got + (Len(s.out.pkts) + 1)
  BY ONLY <1>3, t.got \in Nat
<1>6. s.c.writing.num = Taken(s) /\ Taken(s) = t.got + (Len(s.out.pkts) + 1)
  BY <1>a, Zenon DEF Half, Numbered
<1>7. Flow(s2)
  <2>1. /\ Units(Len(s2.out.pkts)) = Units(Len(s.out.pkts)) + PacketLen
        /\ Units(Len(s2.out.pkts) - 1) = Units(Len(s.out.pkts))
        /\ Units(Len(s.out.pkts)) \in Nat
    <3>1. Len(s2.out.pkts) - 1 = Len(s.out.pkts)
      BY <1>3
    <3> QED
      BY <1>3, <3>1, UnitsFacts, Zenon
  <2>2. s.out.sent = Units(Len(s.out.pkts)) /\ s.c.writePos = 0
    BY Zenon DEF Half, Flow
  <2>3. s2.out.sent <= Units(Len(s2.out.pkts)) /\ 0 < PacketLen /\ Len(s2.out.pkts) > 0
    BY <1>3, <2>1, <2>2, SizesAssumed
  <2>4. s2.out.sent = Units(Len(s2.out.pkts) - 1) + s2.c.writePos
    BY <1>3, <2>1, <2>2
  <2> QED
    BY <2>2, <2>3, <2>4 DEF Half, Flow
<1>8. Reads(s2, t) /\ Unused(s2)
  BY Zenon DEF Half, Reads, Unused, SameRead
<1>9. Numbered(s2, t)
  <2>1. \A i \in DOMAIN s2.out.pkts : s2.out.pkts[i].msg.num = t.got + i
    <3>1. \A i \in DOMAIN s.out.pkts : s.out.pkts[i].msg.num = t.got + i
      BY Zenon DEF Half, Numbered
    <3>2. k.msg.num = t.got + (Len(s.out.pkts) + 1)
      BY <1>6, Zenon
    <3> QED
      BY <1>4, <3>1, <3>2, Zenon
  <2>2. Taken(s2) = t.got + Len(s2.out.pkts)
    BY <1>3, <1>5, <1>6, Zenon
  <2>3. \A i \in DOMAIN s2.c.outbound : s2.c.outbound[i].num = Taken(s2) + i
    BY <1>5, Zenon DEF Half, Numbered
  <2> QED
    BY <1>4, <2>1, <2>2, <2>3, Zenon DEF Numbered
<1>10. Spoken(e, d, s2)
  <2>1. \A m \in Line(s2) : m \in Line(s)
    BY <1>4 DEF Line
  <2>2. k.seal = IF k.msg.num = 1 THEN NoKey ELSE KeyOf(d)
    BY <1>FirstMessage
  <2> QED
    BY <1>4, <2>1, <2>2, SMTT(30) DEF Half, Spoken
<1>11. Phase(e, d, s2, t)
  <2>1. CASE s.c.negotiated
    <3>1. Ready(d, s, t)
      BY <2>1, Zenon DEF Half, Phase
    <3>2. t.got + Len(s2.out.pkts) >= 1
      BY <1>3
    <3> QED
      BY <2>1, <3>1, <3>2, Zenon DEF Phase, Ready, SameTalk
  <2>2. CASE ~s.c.negotiated
    BY <1>5, <2>2, Zenon DEF Half, Phase, Dialling, Accepting, SameTalk
  <2> QED
    BY <2>1, <2>2, Zenon
<1>12. Caused(e, s2, t)
  <2>1. CASE s.c.negotiated
    BY <2>1, <1>FirstMessage, Zenon DEF Caused
  <2>2. CASE ~s.c.negotiated
    <3>1. t.got + Len(s.out.pkts) + 1 = 1 /\ (e # "dialler" => s.got >= 1)
      BY <2>2, <1>FirstMessage, Zenon
    <3>2. ~(t.got + Len(s2.out.pkts) >= 2)
      BY ONLY <1>3, <3>1, t.got \in Nat
    <3> QED
      BY <3>1, <3>2, Zenon DEF Caused
  <2> QED
    BY <2>1, <2>2, Zenon
<1> QED
  BY <1>7, <1>8, <1>9, <1>10, <1>11, <1>12, Zenon DEF Half

(* A part of a packet is written. *)
LEMMA PushStep ==
  ASSUME NEW e \in Ends, NEW d \in Nat, NEW s, NEW t, NEW s2, NEW n \in Nat,
         Half(e, d, s, t), s.life = "open", s2 \in Sides, s2.life = "open",
         s.c.marshalled, s.c.writePos + n < PacketLen,
         s2.out.pkts = s.out.pkts, s2.out.sent = s.out.sent + n,
         s2.out.here = s.out.here, s2.out.read = s.out.read,
         s2.got = s.got, s2.num = s.num, s2.c.outbound = s.c.outbound,
         s2.c.writing = s.c.writing, s2.c.writeState = s.c.writeState, s2.c.marshalled,
         s2.c.writePos = s.c.writePos + n, s2.c.writable = s.c.writable,
         SameRead(s.c, s2.c), SameTalk(s.c, s2.c)
  PROVE  Half(e, d, s2, t)
<1>1. s \in Sides
  BY Zenon DEF Half
<1>2. /\ Len(s.out.pkts) \in Nat /\ s.out.sent \in Int /\ s.out.here \in Int
      /\ s.out.read \in Int /\ s.c.writePos \in Int
  BY <1>1, SideTypes, Zenon
<1>3. Flow(s2)
  <2>1. /\ s.c.writeState = "Writing" /\ Len(s.out.pkts) > 0 /\ 0 <= s.c.writePos
        /\ s.out.sent = Units(Len(s.out.pkts) - 1) + s.c.writePos
        /\ 0 <= s.out.read /\ s.out.read <= s.out.here /\ s.out.here <= s.out.sent
    BY Zenon DEF Half, Flow
  <2>2. /\ Units(Len(s.out.pkts)) = Units(Len(s.out.pkts) - 1) + PacketLen
        /\ Units(Len(s.out.pkts) - 1) \in Nat
    BY <1>2, <2>1, UnitsFacts, Zenon
  <2>3. PacketLen \in Nat
    BY SizesAssumed, Zenon
  <2>4. /\ s.out.here <= s.out.sent + n
        /\ s.out.sent + n = Units(Len(s.out.pkts) - 1) + (s.c.writePos + n)
        /\ s.out.sent + n <= Units(Len(s.out.pkts))
        /\ 0 <= s.c.writePos + n
    <3>1. ASSUME NEW u \in Nat, NEW p \in Int, NEW h \in Int, 0 <= p, p + n < PacketLen,
                 h <= u + p
          PROVE  /\ h <= (u + p) + n /\ (u + p) + n = u + (p + n)
                 /\ (u + p) + n <= u + PacketLen /\ 0 <= p + n
      BY ONLY <2>3, <3>1, n \in Nat
    <3> DEFINE u == Units(Len(s.out.pkts) - 1)
               p == s.c.writePos
    <3>2. u \in Nat /\ p \in Int /\ 0 <= p /\ p + n < PacketLen /\ s.out.here <= u + p
      BY <1>2, <2>1, <2>2, Zenon
    <3>3. s.out.sent = u + p /\ Units(Len(s.out.pkts)) = u + PacketLen
      BY <2>1, <2>2, Zenon
    <3> HIDE DEF u, p
    <3>4. /\ s.out.here <= (u + p) + n /\ (u + p) + n = u + (p + n)
          /\ (u + p) + n <= u + PacketLen /\ 0 <= p + n
      BY <1>2, <3>1, <3>2, Zenon
    <3> QED
      BY <3>3, <3>4, Zenon DEF u, p
  <2> QED
    BY <2>1, <2>4, Zenon DEF Half, Flow
<1>4. Numbered(s2, t)
  BY DEF Half, Numbered, Taken
<1>5. Spoken(e, d, s2)
  BY DEF Half, Spoken, Line
<1>6. Phase(e, d, s2, t)
  BY Zenon DEF Half, Phase, Ready, Dialling, Accepting, Taken, SameTalk
<1>7. Reads(s2, t) /\ Caused(e, s2, t) /\ Unused(s2)
  BY Zenon DEF Half, Reads, Caused, Unused, SameRead
<1> QED
  BY <1>3, <1>4, <1>5, <1>6, <1>7, Zenon DEF Half

(* The rest of a packet is written. The acceptor has negotiated then. *)
LEMMA WrittenStep ==
  ASSUME NEW e \in Ends, NEW d \in Nat, NEW s, NEW t, NEW s2, NEW n \in Nat,
         Half(e, d, s, t), t.got \in Nat, s.life = "open", s2 \in Sides, s2.life = "open",
         s.c.marshalled, s.c.writePos + n = PacketLen,
         s2.out.pkts = s.out.pkts, s2.out.sent = s.out.sent + n,
         s2.out.here = s.out.here, s2.out.read = s.out.read,
         s2.got = s.got, s2.num = s.num, s2.c.outbound = s.c.outbound,
         s2.c.writeState = "Idle", ~s2.c.marshalled, s2.c.writePos = 0, ~s2.c.acking,
         s2.c.negotiated <=> s.c.negotiated \/ s.c.acking, s2.c.key = s.c.key,
         s2.c.remote = s.c.remote, ~s2.c.negotiated => ~s2.c.writable,
         SameRead(s.c, s2.c)
  PROVE  Half(e, d, s2, t)
<1>1. s \in Sides
  BY Zenon DEF Half
<1>2. /\ Len(s.out.pkts) \in Nat /\ s.out.sent \in Int /\ s.out.here \in Int
      /\ s.out.read \in Int /\ s.c.writePos \in Int
  BY <1>1, SideTypes, Zenon
<1>3. /\ s.c.writeState = "Writing" /\ Len(s.out.pkts) > 0 /\ 0 <= s.c.writePos
      /\ s.out.sent = Units(Len(s.out.pkts) - 1) + s.c.writePos
      /\ 0 <= s.out.read /\ s.out.read <= s.out.here /\ s.out.here <= s.out.sent
  BY Zenon DEF Half, Flow
<1>4. Flow(s2)
  <2>1. /\ Units(Len(s.out.pkts)) = Units(Len(s.out.pkts) - 1) + PacketLen
        /\ Units(Len(s.out.pkts) - 1) \in Nat
    BY <1>2, <1>3, UnitsFacts, Zenon
  <2>2. PacketLen \in Nat
    BY SizesAssumed, Zenon
  <2>3. s.out.here <= s.out.sent + n /\ s.out.sent + n = Units(Len(s.out.pkts))
    BY ONLY <1>2, <1>3, <2>1, <2>2, n \in Nat, s.c.writePos + n = PacketLen, SMTT(30)
  <2>4. s.out.sent + n <= Units(Len(s.out.pkts))
    BY <2>1, <2>2, <2>3
  <2> QED
    BY <1>3, <2>3, <2>4, Zenon DEF Half, Flow
<1>5. Taken(s2) = Taken(s)
  BY Zenon DEF Taken
<1>6. Numbered(s2, t)
  BY <1>5, ZenonT(30) DEF Half, Numbered
<1>7. Spoken(e, d, s2)
  BY DEF Half, Spoken, Line
<1>8. Phase(e, d, s2, t)
  <2>1. t.got + Len(s.out.pkts) >= 1
    BY <1>2, <1>3, SMTT(30)
  <2>2. CASE s.c.negotiated
    BY <2>2, Zenon DEF Half, Phase, Ready
  <2>3. CASE ~s.c.negotiated /\ e = "dialler"
    BY <1>5, <2>3, Zenon DEF Half, Phase, Dialling
  <2>4. CASE ~s.c.negotiated /\ e # "dialler" /\ s.c.acking
    <3>1. Accepting(d, s)
      BY <2>4, Zenon DEF Half, Phase
    <3>2. s.c.key = KeyOf(d) /\ s.got >= 1
      BY <2>4, <3>1 DEF Accepting
    <3> QED
      BY <2>1, <2>4, <3>2, Zenon DEF Phase, Ready
  <2>5. CASE ~s.c.negotiated /\ e # "dialler" /\ ~s.c.acking
    BY <2>5, Zenon DEF Half, Phase, Accepting
  <2> QED
    BY <2>2, <2>3, <2>4, <2>5, Zenon
<1>9. Reads(s2, t) /\ Caused(e, s2, t) /\ Unused(s2)
  BY Zenon DEF Half, Reads, Caused, Unused, SameRead
<1> QED
  BY <1>4, <1>6, <1>7, <1>8, <1>9, Zenon DEF Half

(* What is left of the half of an end that closes. *)
Rest(e, d, s, t) ==
  /\ s \in Sides /\ s.got >= 0 /\ s.num >= 0
  /\ 0 <= s.out.read /\ s.out.read <= s.out.here /\ s.out.here <= s.out.sent
  /\ Aligned(s.out.here) /\ s.out.sent <= Units(Len(s.out.pkts))
  /\ \A i \in DOMAIN s.out.pkts :
       /\ s.out.pkts[i].msg.num = t.got + i
       /\ Speaks(e, d, s.out.pkts[i].msg)
       /\ s.out.pkts[i].seal = IF s.out.pkts[i].msg.num = 1 THEN NoKey ELSE KeyOf(d)
  /\ Caused(e, s, t)

(* A half has what is left of it when its end closes. *)
LEMMA HalfRest ==
  ASSUME NEW e, NEW d, NEW s, NEW t, Half(e, d, s, t)
  PROVE  Rest(e, d, s, t)
<1>1. \A i \in DOMAIN s.out.pkts : s.out.pkts[i].msg \in Line(s)
  BY Zenon DEF Line
<1> QED
  BY <1>1, Zenon DEF Half, Rest, Flow, Numbered, Spoken

(* The rest survives whatever the event does to the connection. *)
LEMMA RestKept ==
  ASSUME NEW e \in Ends, NEW d \in Nat, NEW s, NEW t, NEW s2, NEW t2, Rest(e, d, s, t),
         s2 \in Sides, SameStream(s.out, s2.out), s2.got \in {s.got, s.got + 1},
         s2.num >= 0, t2.got = t.got
  PROVE  Rest(e, d, s2, t2)
<1>1. s2.got >= 0 /\ (s.got >= 1 => s2.got >= 1)
  <2>1. s.got \in Int /\ s.got >= 0
    BY SideFields, Zenon DEF Rest
  <2> QED
    BY <2>1
<1>2. Caused(e, s2, t2)
  BY <1>1, Zenon DEF Rest, Caused, SameStream
<1> QED
  BY <1>1, <1>2, Zenon DEF Rest, SameStream

(* An end is closed: the connection is reset. *)
LEMMA CloseStep ==
  ASSUME NEW e \in Ends, NEW d \in Nat, NEW s, NEW t, Rest(e, d, s, t),
         s.life = "closed", s.c = Reset(New)
  PROVE  Half(e, d, s, t)
<1>1. s.c.outbound = <<>> /\ s.c.writeState = "None"
  BY Zenon DEF Reset, New
<1>2. Line(s) = {s.out.pkts[i].msg : i \in DOMAIN s.out.pkts}
  BY <1>1 DEF Line
<1>3. Spoken(e, d, s)
  BY <1>2, Zenon DEF Rest, Spoken
<1>4. Flow(s) /\ Reads(s, t) /\ Numbered(s, t) /\ Phase(e, d, s, t) /\ Unused(s)
  BY Zenon DEF Rest, Flow, Reads, Numbered, Phase, Unused
<1> QED
  BY <1>3, <1>4, Zenon DEF Rest, Half

(* The packet that has arrived completely. *)
LEMMA FirstPacket ==
  ASSUME NEW o \in Ends, NEW d \in Nat, NEW s, NEW t, Half(o, d, t, s), s.got \in Nat,
         t.out.here >= PacketLen, NEW k, k = Head(t.out.pkts)
  PROVE  /\ t.life # "none" /\ t.out.pkts # <<>> /\ k = t.out.pkts[1] /\ k \in Packets
         /\ 1 \in DOMAIN t.out.pkts /\ Len(t.out.pkts) \in Nat /\ Len(t.out.pkts) >= 1
         /\ k.msg \in Line(t) /\ k.msg.num = s.got + 1 /\ Speaks(o, d, k.msg)
         /\ k.seal = IF k.msg.num = 1 THEN NoKey ELSE KeyOf(d)
         /\ t.life = "open" /\ t.c.marshalled => Len(t.out.pkts) - 1 >= 1
<1>NatPositive. ASSUME NEW n \in Nat, n # 0
                PROVE  n >= 1
    BY <1>NatPositive
<1>1. t \in Sides
  BY Zenon DEF Half
<1>2. /\ Len(t.out.pkts) \in Nat /\ t.out.sent \in Int /\ t.out.here \in Int
      /\ t.c.writePos \in Int
  BY <1>1, SideTypes, Zenon
<1>3. t.out.pkts \in Seq(Packets)
  BY <1>1, SideTypes, Zenon
<1>4. PacketLen \in Nat /\ PacketLen > 0
  BY SizesAssumed
<1>5. Len(t.out.pkts) # 0
  <2>1. t.out.here <= t.out.sent /\ t.out.sent <= Units(Len(t.out.pkts))
    BY Zenon DEF Half, Flow
  <2>2. Len(t.out.pkts) = 0 => Units(Len(t.out.pkts)) = 0
    BY <1>2, UnitsFacts, Zenon
  <2> QED
    BY <1>2, <1>4, <2>1, <2>2
<1>6. /\ t.out.pkts # <<>> /\ k = t.out.pkts[1] /\ k \in Packets
      /\ 1 \in DOMAIN t.out.pkts /\ Len(t.out.pkts) >= 1
  BY <1>3, <1>5
<1>7. t.life # "none"
  <2>1. NoPipe.pkts = <<>>
    BY Zenon DEF NoPipe
  <2> QED
    BY <1>6, <2>1, Zenon DEF Half, Unused
<1>8. k.msg \in Line(t)
  BY <1>6, Zenon DEF Line
<1>9. /\ k.msg.num = s.got + 1 /\ Speaks(o, d, k.msg)
      /\ k.seal = IF k.msg.num = 1 THEN NoKey ELSE KeyOf(d)
  BY <1>6, <1>8, Zenon DEF Half, Numbered, Spoken
<1>10. ASSUME t.life = "open", t.c.marshalled PROVE Len(t.out.pkts) - 1 >= 1
  <2>1. /\ t.out.here <= t.out.sent /\ t.c.writePos < PacketLen
        /\ t.out.sent = Units(Len(t.out.pkts) - 1) + t.c.writePos
    BY <1>10, Zenon DEF Half, Flow
  <2>2. Len(t.out.pkts) - 1 \in Nat
    BY <1>2, <1>6
  <2>3. Len(t.out.pkts) - 1 = 0 => Units(Len(t.out.pkts) - 1) = 0
    BY <2>2, UnitsFacts, Zenon
  <2>4. Len(t.out.pkts) - 1 # 0
    BY <1>2, <1>4, <2>1, <2>3
  <2> QED
    BY <2>2, <2>4, <1>NatPositive, Zenon
<1> QED
  BY <1>2, <1>6, <1>7, <1>8, <1>9, <1>10, Zenon

(* It leaves the stream and is handled. *)
LEMMA DropStep ==
  ASSUME NEW o \in Ends, NEW d \in Nat, NEW s, NEW t, NEW s2, NEW t2,
         Half(o, d, t, s), s.got \in Nat, t.out.here >= PacketLen,
         s2.got = s.got + 1, s2.out.read = s.out.read,
         t2 \in Sides, t2.c = t.c, t2.life = t.life, t2.got = t.got, t2.num = t.num,
         t2.out.pkts = Tail(t.out.pkts), t2.out.sent = t.out.sent - PacketLen,
         t2.out.here = t.out.here - PacketLen, t2.out.read = 0
  PROVE  Half(o, d, t2, s2)
<1> DEFINE l == Len(t.out.pkts)
<1>1. t \in Sides
  BY Zenon DEF Half
<1>2. /\ t.out.sent \in Int /\ t.out.here \in Int /\ t.c.writePos \in Int
      /\ t.out.pkts \in Seq(Packets)
  BY <1>1, SideTypes, Zenon
<1>3. /\ t.life # "none" /\ t.out.pkts # <<>> /\ l \in Nat /\ l >= 1
      /\ t.life = "open" /\ t.c.marshalled => l - 1 >= 1
  BY FirstPacket
<1>4. PacketLen \in Nat
  BY SizesAssumed, Zenon
<1>5. /\ Len(t2.out.pkts) = l - 1
      /\ \A i \in DOMAIN t2.out.pkts :
           t2.out.pkts[i] = t.out.pkts[i + 1] /\ i + 1 \in DOMAIN t.out.pkts /\ i \in Int
  BY <1>2, <1>3
<1>6. \A n \in Int : s2.got + (n - 1) = s.got + n /\ s2.got + n = s.got + (n + 1)
  OBVIOUS
<1>7. Taken(t2) = Taken(t)
  BY Zenon DEF Taken
<1>8. Line(t2) \subseteq Line(t)
  BY <1>5 DEF Line
<1> HIDE DEF l
<1>9. s2.got + Len(t2.out.pkts) = s.got + Len(t.out.pkts)
  <2>1. l \in Int
    BY <1>3
  <2>2. s2.got + (l - 1) = s.got + l
    BY <1>6, <2>1, Zenon
  <2> QED
    BY <1>5, <2>2, Zenon DEF l
<1>10. Flow(t2)
  <2>1. /\ t.out.here <= t.out.sent /\ Aligned(t.out.here) /\ t.out.sent <= Units(l)
    BY Zenon DEF Half, Flow, l
  <2>2. l - 1 \in Nat /\ l > 0
    BY <1>3
  <2>3. Units(l) = Units(l - 1) + PacketLen /\ Units(l - 1) \in Nat
    BY <1>3, <2>2, UnitsFacts, Zenon
  <2>4. t.out.here - PacketLen \in Nat /\ Aligned(t.out.here - PacketLen)
    BY <1>2, <1>4, <2>1, AlignedFacts
  <2>5. /\ t.out.here - PacketLen >= 0 /\ t.out.here - PacketLen <= t.out.sent - PacketLen
        /\ t.out.sent - PacketLen <= Units(l - 1)
    BY <1>2, <1>4, <2>1, <2>3, <2>4, SMTT(30)
  <2>6. ASSUME t.life = "open", ~t.c.marshalled
        PROVE  t.out.sent - PacketLen = Units(l - 1) /\ t.c.writePos = 0
    <3>1. t.out.sent = Units(l) /\ t.c.writePos = 0
      BY <2>6, Zenon DEF Half, Flow, l
    <3> QED
      BY <1>4, <2>3, <3>1
  <2>7. ASSUME t.life = "open", t.c.marshalled
        PROVE  /\ t.c.writeState = "Writing" /\ l - 1 > 0
               /\ t.out.sent - PacketLen = Units((l - 1) - 1) + t.c.writePos
               /\ 0 <= t.c.writePos /\ t.c.writePos < PacketLen
    <3>1. /\ t.out.sent = Units(l - 1) + t.c.writePos /\ t.c.writeState = "Writing"
          /\ 0 <= t.c.writePos /\ t.c.writePos < PacketLen
      BY <2>7, Zenon DEF Half, Flow, l
    <3>2. l - 1 > 0
      BY <1>3, <2>7
    <3>3. Units(l - 1) = Units((l - 1) - 1) + PacketLen /\ Units((l - 1) - 1) \in Nat
      BY <2>2, <3>2, UnitsFacts, Zenon
    <3>4. t.out.sent - PacketLen = Units((l - 1) - 1) + t.c.writePos
      BY ONLY <1>2, <1>4, <3>1, <3>3
    <3> QED
      BY <3>1, <3>2, <3>4, Zenon
  <2> QED
    BY <1>5, <2>4, <2>5, <2>6, <2>7 DEF Flow
<1>11. Numbered(t2, s2)
  <2>1. \A i \in DOMAIN t2.out.pkts : t2.out.pkts[i].msg.num = s2.got + i
    <3>1. \A i \in DOMAIN t.out.pkts : t.out.pkts[i].msg.num = s.got + i
      BY Zenon DEF Half, Numbered
    <3> QED
      BY ONLY <1>5, <1>6, <3>1, Zenon
  <2>2. s2.got + Len(t2.out.pkts) + 1 = s.got + Len(t.out.pkts) + 1
    BY <1>9, Zenon
  <2>3. t.life = "open" /\ t.c.marshalled =>
          t2.out.pkts[Len(t2.out.pkts)] = t.out.pkts[Len(t.out.pkts)]
    BY <1>2, <1>3, <1>5 DEF l
  <2> QED
    BY <1>7, <1>9, <2>1, <2>2, <2>3, Zenon DEF Half, Numbered
<1>12. Spoken(o, d, t2)
  BY <1>5, <1>8, Zenon DEF Half, Spoken
<1>13. Phase(o, d, t2, s2)
  BY <1>7, <1>9, Zenon DEF Half, Phase, Ready, Dialling, Accepting
<1>14. Caused(o, t2, s2)
  <2>1. Len(t2.out.pkts) >= 1 => Len(t.out.pkts) >= 1
    BY <1>3, Zenon DEF l
  <2> QED
    BY <1>9, <2>1, Zenon DEF Half, Caused
<1>15. Reads(t2, s2) /\ Unused(t2)
  BY <1>3, Zenon DEF Half, Reads, Unused
<1> QED
  BY <1>10, <1>11, <1>12, <1>13, <1>14, <1>15, Zenon DEF Half

(* A packet is handled by an end that has negotiated. *)
LEMMA ReceiveStep ==
  ASSUME NEW e \in Ends, NEW d \in Nat, NEW s, NEW t, NEW s2, NEW t2,
         Half(e, d, s, t), s.life = "open", s.c.negotiated, s2 \in Sides, s2.life = "open",
         SameStream(s.out, s2.out), s2.got = s.got + 1, s2.num = s.num, t2.got = t.got,
         s2.c.outbound = s.c.outbound, SameWrite(s.c, s2.c), SameTalk(s.c, s2.c),
         Reads(s2, t2)
  PROVE  Half(e, d, s2, t2)
<1>1. s.got \in Int /\ s.got >= 1
  BY SideFields, Zenon DEF Half, Phase, Ready
<1>2. s2.got >= 1 /\ s2.got >= 0
  BY <1>1
<1>3. Flow(s2)
  BY Zenon DEF Half, Flow, SameStream, SameWrite
<1>4. Numbered(s2, t2)
  BY DEF Half, Numbered, SameStream, SameWrite, Taken
<1>5. Line(s2) = Line(s)
  BY DEF Line, SameStream, SameWrite
<1>6. Spoken(e, d, s2)
  BY <1>5, Zenon DEF Half, Spoken, SameStream
<1>7. Phase(e, d, s2, t2)
  BY <1>2, Zenon DEF Half, Phase, Ready, SameStream, SameTalk
<1>8. Caused(e, s2, t2)
  BY <1>2, Zenon DEF Caused
<1> QED
  BY <1>2, <1>3, <1>4, <1>6, <1>7, <1>8, Zenon DEF Half, Unused

(* The dialler handles the Ack. *)
LEMMA AckStep ==
  ASSUME NEW d \in Nat, NEW s, NEW t, NEW s2, NEW t2,
         Half("dialler", d, s, t), t.got \in Nat, t.got >= 1, t2.got = t.got,
         s.life = "open", ~s.c.negotiated, s2 \in Sides, s2.life = "open",
         SameStream(s.out, s2.out), s2.got = s.got + 1, s2.num = s.num,
         s2.c.outbound = s.c.outbound, s2.c.writeState = "Idle",
         s2.c.writing = s.c.writing, s2.c.marshalled = s.c.marshalled,
         s2.c.writePos = s.c.writePos, s2.c.key = KeyOf(d), s2.c.negotiated,
         s2.c.acking = s.c.acking, Reads(s2, t2)
  PROVE  Half("dialler", d, s2, t2)
(* A dialler that waits for the Ack has written its Syn once the acceptor has
   handled it. *)
<1>SynIsWritten.
    ASSUME NEW a \in Nat, NEW b, NEW f, Half("dialler", a, b, f), f.got \in Nat, f.got >= 1,
           b.life = "open", ~b.c.negotiated
    PROVE  b.c.writeState = "Idle" /\ ~b.c.marshalled
  <2> USE <1>SynIsWritten
  <2>1. b \in Sides
    BY Zenon DEF Half
  <2>2. Len(b.out.pkts) \in Nat
    BY <2>1, SideTypes, Zenon
  <2>3. Taken(b) <= 1
    BY Zenon DEF Half, Phase, Dialling
  <2>4. ~(b.c.writeState = "Writing" /\ ~b.c.marshalled)
    <3>1. SUFFICES ASSUME b.c.writeState = "Writing", ~b.c.marshalled PROVE FALSE
      BY Zenon
    <3>2. Taken(b) = f.got + Len(b.out.pkts) + 1
      BY <3>1, Zenon DEF Half, Numbered
    <3> QED
      BY <2>2, <2>3, <3>2
  <2>5. ~b.c.marshalled
    <3>1. SUFFICES ASSUME b.c.marshalled PROVE FALSE
      BY Zenon
    <3>2. Taken(b) = f.got + Len(b.out.pkts) /\ Len(b.out.pkts) > 0
      BY <3>1, Zenon DEF Half, Numbered, Flow
    <3> QED
      BY <2>2, <2>3, <3>2
  <2>6. b.c.writeState \in WriteStates /\ b.c.writeState # "None"
    BY <2>1, SideFields, ConnFields, Zenon DEF Half, Numbered
  <2> QED
    BY <2>4, <2>5, <2>6, Zenon DEF WriteStates
<1>1. s \in Sides /\ s.got = 0 /\ ~s.c.acking
  BY Zenon DEF Half, Phase, Dialling
<1>2. Len(s.out.pkts) \in Nat
  BY <1>1, SideTypes, Zenon
<1>3. s.c.writeState = "Idle" /\ ~s.c.marshalled
  BY <1>SynIsWritten, Zenon
<1>4. s2.got = 1
  BY <1>1
<1>5. SameWrite(s.c, s2.c)
  BY <1>3, Zenon DEF SameWrite
<1>6. Flow(s2)
  BY <1>5, ZenonT(30) DEF Half, Flow, SameStream, SameWrite
<1>7. Numbered(s2, t2)
  BY <1>5 DEF Half, Numbered, SameStream, SameWrite, Taken
<1>8. Line(s2) = Line(s)
  BY <1>5 DEF Line, SameStream, SameWrite
<1>9. Spoken("dialler", d, s2)
  BY <1>8 DEF Half, Spoken, SameStream
<1>10. Phase("dialler", d, s2, t2)
  <2>1. t2.got + Len(s2.out.pkts) >= 1
    BY <1>2 DEF SameStream
  <2> QED
    BY <1>1, <1>4, <2>1 DEF Phase, Ready
<1>11. Caused("dialler", s2, t2)
  BY <1>4 DEF Caused
<1> QED
  BY <1>4, <1>6, <1>7, <1>9, <1>10, <1>11 DEF Half, Unused

(* n messages queued, l of them still in the queue, g handled and p in the
   stream. *)
Counted(n, l, g, p) ==
  /\ n = 0 /\ n - l = g + p => l = 0 /\ g = 0 /\ p = 0
  /\ n - l = g + p + 1 => n = 1 /\ g = 0
  /\ n - l = g + p /\ p > 0 => n = 1 /\ g = 0
  /\ n - l = g + p /\ n = 1 /\ n - l # 1 => g = 0
  /\ n = 1 => n # 0

(* An acceptor that has not negotiated has not sent an Ack that was handled. *)
LEMMA AckIsHandled ==
  ASSUME NEW d \in Nat, NEW s, NEW t, Half("acceptor", d, s, t), t.got \in Nat,
         s.life = "open", ~s.c.negotiated
  PROVE  /\ t.got = 0
         /\ s.got = 0 => /\ s.num = 0 /\ ~s.c.acking /\ s.c.outbound = <<>>
                         /\ Len(s.out.pkts) = 0 /\ s.c.writeState = "Idle"
<1>FewMessages. ASSUME NEW n \in Int, NEW l \in Nat, NEW g \in Nat, NEW p \in Nat, n \in {0, 1}
                PROVE  Counted(n, l, g, p)
  BY <1>FewMessages DEF Counted
<1>1. s \in Sides /\ Accepting(d, s)
  BY Zenon DEF Half, Phase
<1>2. Len(s.out.pkts) \in Nat /\ Len(s.c.outbound) \in Nat /\ s.got \in Int /\ s.num \in Int
  BY <1>1, SideTypes, Zenon
<1>3. s.num \in {0, 1} /\ (s.got = 0 => s.num = 0 /\ ~s.c.acking)
  BY <1>1, Zenon DEF Accepting
<1>a. Counted(s.num, Len(s.c.outbound), t.got, Len(s.out.pkts))
  BY <1>2, <1>3, <1>FewMessages, Zenon
<1>4. CASE s.c.writeState = "Writing" /\ ~s.c.marshalled
  <2>1. s.num - Len(s.c.outbound) = t.got + Len(s.out.pkts) + 1
    BY <1>4, Zenon DEF Half, Numbered, Taken
  <2> QED
    BY <1>3, <1>a, <2>1, Zenon DEF Counted
<1>5. CASE s.c.marshalled
  <2>1. s.num - Len(s.c.outbound) = t.got + Len(s.out.pkts) /\ Len(s.out.pkts) > 0
    BY <1>5, Zenon DEF Half, Numbered, Flow, Taken
  <2> QED
    BY <1>3, <1>a, <2>1, Zenon DEF Counted
<1>6. CASE s.c.writeState # "Writing" /\ ~s.c.marshalled
  <2>1. s.num - Len(s.c.outbound) = t.got + Len(s.out.pkts)
    BY <1>6, Zenon DEF Half, Numbered, Taken
  <2>2. CASE s.got = 0
    <3>1. s.num = 0
      BY <1>3, <2>2, Zenon
    <3>2. Len(s.c.outbound) = 0 /\ t.got = 0 /\ Len(s.out.pkts) = 0
      BY <1>a, <2>1, <3>1, Zenon DEF Counted
    <3>3. s.c.outbound = <<>>
      BY <1>1, <3>2, SideTypes
    <3>4. s.c.writeState = "Idle"
      BY <1>1, <1>6, SideFields, ConnFields, Zenon DEF Half, Numbered, WriteStates
    <3> QED
      BY <1>3, <2>2, <3>2, <3>3, <3>4, Zenon
  <2>3. CASE s.got # 0
    <3>1. s.num = 1 /\ s.num - Len(s.c.outbound) # 1
      BY <1>1, <1>6, <2>3, Zenon DEF Accepting, Taken
    <3> QED
      BY <1>a, <2>1, <2>3, <3>1, Zenon DEF Counted
  <2> QED
    BY <2>2, <2>3, Zenon
<1> QED
  BY <1>4, <1>5, <1>6, Zenon

(* The acceptor handles the Syn and queues the Ack. *)
LEMMA SynStep ==
  ASSUME NEW d \in Nat, NEW s, NEW t, NEW s2, NEW t2, NEW k \in Messages,
         Half("acceptor", d, s, t), t.got \in Nat, t2.got = t.got,
         s.life = "open", ~s.c.negotiated, s.got = 0, s2 \in Sides, s2.life = "open",
         SameStream(s.out, s2.out), s2.got = s.got + 1, s2.num = s.num + 1,
         s2.c.outbound = Append(s.c.outbound, k), k.num = s.num + 1, k.code = "Ack",
         k.body = "None", k.salt = Salt(d) + 1, k.proof = KeyOf(d), s2.c.key = KeyOf(d),
         ~s2.c.negotiated, s2.c.acking, SameWrite(s.c, s2.c), Reads(s2, t2)
  PROVE  Half("acceptor", d, s2, t2)
<1>1. /\ s \in Sides /\ t.got = 0 /\ s.num = 0 /\ s.c.outbound = <<>>
      /\ Len(s.out.pkts) = 0 /\ s.c.writeState = "Idle"
  BY AckIsHandled, ZenonT(30) DEF Half
<1>2. /\ s2.got = 1 /\ s2.num = 1 /\ k.num = 1 /\ s2.c.outbound = <<k>>
      /\ s2.c.writeState = "Idle" /\ s2.c.marshalled = s.c.marshalled
  BY <1>1 DEF SameWrite
<1>3. Taken(s2) = 0
  BY <1>2 DEF Taken
<1>4. Flow(s2)
  BY ZenonT(30) DEF Half, Flow, SameStream, SameWrite
<1>5. ~s.c.marshalled
  BY <1>1, Zenon DEF Half, Flow
<1>6. Numbered(s2, t2)
  <2>1. \A i \in DOMAIN s2.c.outbound : s2.c.outbound[i].num = Taken(s2) + i
    BY <1>2, <1>3
  <2>2. Taken(s2) = t2.got + Len(s2.out.pkts)
    BY <1>1, <1>3, SMTT(30) DEF SameStream
  <2> QED
    BY <1>2, <1>5, <2>1, <2>2 DEF Half, Numbered, SameStream
<1>7. Spoken("acceptor", d, s2)
  <2>1. \A m \in Line(s2) : m \in Line(s) \/ m = k
    BY <1>2 DEF Line, SameStream
  <2>2. Speaks("acceptor", d, k)
    BY <1>2, Zenon DEF Speaks
  <2> QED
    BY <2>1, <2>2 DEF Half, Spoken, SameStream
<1>8. Phase("acceptor", d, s2, t2)
  BY <1>2, <1>3 DEF Phase, Accepting
<1>9. Caused("acceptor", s2, t2)
  BY <1>2 DEF Caused
<1> QED
  BY <1>2, <1>4, <1>6, <1>7, <1>8, <1>9 DEF Half, Unused

-----------------------------------------------------------------------------
(* What the steps of an event change. *)

(* The fields that asking for writability leaves alone. *)
SameButWritable(w, v) ==
  /\ v.c.outbound = w.c.outbound /\ v.c.handlers = w.c.handlers
  /\ SameRead(w.c, v.c) /\ SameWrite(w.c, v.c) /\ SameTalk(w.c, v.c)
  /\ SameStreams(w, v) /\ SameEnd(w, v) /\ v.num = w.num

(* Asking for writability, or no longer. *)
LEMMA WritableLeaves ==
  ASSUME NEW w \in Worlds, NEW b
  PROVE  /\ [w EXCEPT !.c.writable = b, !.armed = TRUE].c = [w.c EXCEPT !.writable = b]
         /\ SameButWritable(w, [w EXCEPT !.c.writable = b, !.armed = TRUE])
<1> DEFINE v == [w EXCEPT !.c.writable = b, !.armed = TRUE]
<1>1. w.c \in Conns
  BY WorldFields, Zenon
<1>2. v.c = [w.c EXCEPT !.writable = b]
  BY <1>1, Zenon DEF Worlds
<1>3. SameStreams(w, v) /\ SameEnd(w, v) /\ v.num = w.num
  BY Zenon DEF Worlds, SameStreams, SameEnd
<1> HIDE DEF v
<1>4. /\ v.c.outbound = w.c.outbound /\ v.c.handlers = w.c.handlers
      /\ SameRead(w.c, v.c) /\ SameWrite(w.c, v.c) /\ SameTalk(w.c, v.c)
  BY <1>1, <1>2, Zenon DEF Conns, SameRead, SameWrite, SameTalk
<1>5. SameButWritable(w, v)
  BY <1>3, <1>4, Zenon DEF SameButWritable
<1> QED
  BY <1>2, <1>5, Zenon DEF v

(* enable_writable changes the interest of the connection and nothing else. *)
LEMMA EnableIs ==
  ASSUME NEW w \in Worlds, NEW v, v = EnableWritable(w)
  PROVE  v \in Worlds /\ SameButWritable(w, v)
<1>1. w.c \in Conns
  BY WorldFields, Zenon
<1>2. [w.c EXCEPT !.writable = TRUE] \in Conns
  BY <1>1, Zenon DEF Conns
<1>3. v \in Worlds
  BY <1>2, Zenon DEF Worlds, EnableWritable
<1>4. SameButWritable(w, v)
  BY WritableLeaves, Zenon DEF SameButWritable, EnableWritable
<1> QED
  BY <1>3, <1>4, Zenon

(* disable_writable leaves the connection without the interest. *)
LEMMA DisableIs ==
  ASSUME NEW w \in Worlds, NEW v, v = DisableWritable(w)
  PROVE  v \in Worlds /\ SameButWritable(w, v) /\ ~v.c.writable
<1>1. w.c \in Conns
  BY WorldFields, Zenon
<1>2. [w.c EXCEPT !.writable = FALSE] \in Conns
  BY <1>1, Zenon DEF Conns
<1>3. v \in Worlds
  BY <1>2, Zenon DEF Worlds, DisableWritable
<1>4. SameButWritable(w, v) /\ v.c = [w.c EXCEPT !.writable = FALSE]
  BY WritableLeaves, Zenon DEF SameButWritable, DisableWritable
<1>5. ~v.c.writable
  BY <1>1, <1>4, Zenon DEF Conns
<1> QED
  BY <1>3, <1>4, <1>5, Zenon

(* A message with a number. *)
LEMMA NumIs ==
  ASSUME NEW m \in Messages, NEW n \in Int, NEW k, k = [m EXCEPT !.num = n]
  PROVE  /\ k \in Messages /\ k.num = n /\ k.code = m.code /\ k.id = m.id
         /\ k.body = m.body /\ k.salt = m.salt /\ k.proof = m.proof
         /\ k.handler = m.handler
<1>1. k \in Messages
  BY Zenon DEF Messages
<1>2. /\ k.num = n /\ k.code = m.code /\ k.id = m.id /\ k.body = m.body
      /\ k.salt = m.salt /\ k.proof = m.proof
  BY Zenon DEF Messages
<1>3. k.handler = m.handler
  BY SMT DEF Messages
<1> QED
  BY <1>1, <1>2, <1>3, Zenon

(* enqueue_msg. *)
LEMMA EnqueueIs ==
  ASSUME NEW w \in Worlds, NEW m \in Messages, NEW v, v = EnqueueMsg(w, m)
  PROVE  /\ v \in Worlds
         /\ v.c.outbound = Append(w.c.outbound, [m EXCEPT !.num = w.num + 1])
         /\ w.c.outbound # <<>> => v.c.writable = w.c.writable
         /\ v.c.handlers = w.c.handlers
         /\ SameRead(w.c, v.c) /\ SameWrite(w.c, v.c) /\ SameTalk(w.c, v.c)
         /\ SameStreams(w, v) /\ SameEnd(w, v) /\ v.num = w.num + 1
<1> DEFINE u == IF w.c.outbound = <<>> THEN EnableWritable(w) ELSE w
           q == Append(w.c.outbound, [m EXCEPT !.num = w.num + 1])
           c == [u.c EXCEPT !.outbound = q]
<1>1. /\ u \in Worlds /\ u.c.outbound = w.c.outbound
      /\ w.c.outbound # <<>> => u.c.writable = w.c.writable
      /\ u.c.handlers = w.c.handlers
      /\ SameRead(w.c, u.c) /\ SameWrite(w.c, u.c) /\ SameTalk(w.c, u.c)
      /\ SameStreams(w, u) /\ SameEnd(w, u) /\ u.num = w.num
  <2>1. CASE w.c.outbound = <<>>
    BY <2>1, EnableIs, Zenon DEF SameButWritable
  <2>2. CASE w.c.outbound # <<>>
    BY <2>2, Zenon DEF SameRead, SameWrite, SameTalk, SameStreams, SameEnd
  <2> QED
    BY <2>1, <2>2, Zenon
<1>2. q \in Queues
  <2>1. w.c.outbound \in Seq(Messages) /\ w.num + 1 \in Int
    BY WorldFields, ConnFields DEF Queues
  <2>2. [m EXCEPT !.num = w.num + 1] \in Messages
    BY <2>1, NumIs, Zenon
  <2> QED
    BY <2>1, <2>2 DEF Queues
<1>3. v = [u EXCEPT !.num = @ + 1, !.c.outbound = Append(@, [m EXCEPT !.num = w.num + 1])]
  BY Zenon DEF EnqueueMsg
<1> HIDE DEF u, q
<1>4. c \in Conns
  BY <1>1, <1>2, WorldFields, Zenon DEF Conns
<1>5. v = [u EXCEPT !.num = @ + 1, !.c = c]
  BY <1>1, <1>3, Zenon DEF q, Worlds, Conns
<1>6. u.num + 1 \in Int
  BY <1>1, WorldFields
<1> HIDE DEF c
<1>7. v \in Worlds /\ v.c = c /\ v.num = u.num + 1 /\ SameStreams(u, v) /\ SameEnd(u, v)
  BY <1>1, <1>4, <1>5, <1>6, Zenon DEF Worlds, SameStreams, SameEnd
<1>8. /\ v.c.outbound = q /\ v.c.writable = u.c.writable /\ v.c.handlers = u.c.handlers
      /\ SameRead(u.c, v.c) /\ SameWrite(u.c, v.c) /\ SameTalk(u.c, v.c)
  BY <1>1, <1>7, WorldFields, ZenonT(30) DEF c, Conns, SameRead, SameWrite, SameTalk
<1> QED
  BY <1>1, <1>7, <1>8, Zenon DEF q, SameRead, SameWrite, SameTalk, SameStreams, SameEnd

(* What is left alone outside of the connection and its own stream. *)
SameOutside(w, v) == v.in = w.in /\ v.got = w.got /\ v.num = w.num /\ SameEnd(w, v)

(* A new connection record in the world, with a new stream. *)
WithConn(w, c) == [w EXCEPT !.c = c]
WithOut(w, c, o) == [w EXCEPT !.c = c, !.out = o]

(* A step that changes the connection only. *)
LEMMA WithConnIs ==
  ASSUME NEW w \in Worlds, NEW c \in Conns
  PROVE  /\ WithConn(w, c) \in Worlds /\ WithConn(w, c).c = c
         /\ WithConn(w, c).out = w.out /\ SameOutside(w, WithConn(w, c))
BY Zenon DEF Worlds, SameOutside, SameEnd, WithConn

(* A step that changes the connection and the stream that it writes. *)
LEMMA WithOutIs ==
  ASSUME NEW w \in Worlds, NEW c \in Conns, NEW o \in Pipes
  PROVE  /\ WithOut(w, c, o) \in Worlds /\ WithOut(w, c, o).c = c
         /\ WithOut(w, c, o).out = o /\ SameOutside(w, WithOut(w, c, o))
BY Zenon DEF Worlds, SameOutside, SameEnd, WithOut

(* The packet that a message is marshalled to. *)
PacketOf(c) ==
  IF c.negotiated THEN EncryptMarshal(c.writing, c.key) ELSE RawMarshal(c.writing)

(* marshal seals the message with the key, once it is negotiated. *)
LEMMA PacketOfIs ==
  ASSUME NEW c \in Conns
  PROVE  /\ PacketOf(c) \in Packets /\ PacketOf(c).msg = c.writing
         /\ PacketOf(c).seal = IF c.negotiated THEN c.key ELSE NoKey
<1>1. c.writing \in Messages /\ c.key \in Keys /\ NoKey \in Keys
  BY ConnFields, TypeFacts, Zenon
<1> QED
  BY <1>1, Zenon DEF PacketOf, EncryptMarshal, RawMarshal, Packets

(* Units of a packet are written. *)
Push(w, n) == [w EXCEPT !.out.sent = @ + n, !.c.writePos = @ + n]

(* The end of write_packet before writability is looked at. *)
WrittenConn(c) ==
  [c EXCEPT !.writePos = 0, !.marshalled = FALSE, !.writeState = "Idle",
            !.handlers = IF c.writing.handler THEN @ \cup {c.writing.id} ELSE @,
            !.writing = NoMessage, !.negotiated = @ \/ c.acking, !.acking = FALSE]

(* What the end of write_packet makes of a connection. *)
Finished(c, v) ==
  /\ v.writePos = 0 /\ ~v.marshalled /\ v.writeState = "Idle" /\ ~v.acking
  /\ v.negotiated <=> c.negotiated \/ c.acking
  /\ v.outbound = c.outbound /\ v.key = c.key /\ v.remote = c.remote
  /\ ~v.negotiated => ~v.writable
  /\ SameRead(c, v)

(* The handlers with that of the message that was written. *)
Registered(c) == IF c.writing.handler THEN c.handlers \cup {c.writing.id} ELSE c.handlers

(* What reading leaves alone in the connection. *)
SameButRead(c, v) ==
  /\ v.outbound = c.outbound /\ v.handlers = c.handlers /\ v.writable = c.writable
  /\ SameWrite(c, v) /\ SameTalk(c, v)

(* A new connection record and another incoming stream. *)
WithIn(w, c, i, r) == [w EXCEPT !.c = c, !.in = i, !.room = r]

(* read(). *)
LEMMA TakeIs ==
  ASSUME NEW w \in Worlds, NEW n \in Int, NEW v, v = Take(w, n)
  PROVE  /\ v \in Worlds /\ v.out = w.out /\ v.got = w.got /\ v.num = w.num /\ SameEnd(w, v)
         /\ v.c.readPos = w.c.readPos + n /\ v.c.readState = w.c.readState
         /\ SameButRead(w.c, v.c)
         /\ v.in.read = w.in.read + n /\ v.in.pkts = w.in.pkts /\ v.in.sent = w.in.sent
         /\ v.in.here = w.in.here
<1>WithInIs. ASSUME NEW a \in Worlds, NEW c \in Conns, NEW i \in Pipes, NEW r \in BOOLEAN
             PROVE  /\ WithIn(a, c, i, r) \in Worlds /\ WithIn(a, c, i, r).c = c
                    /\ WithIn(a, c, i, r).in = i /\ WithIn(a, c, i, r).out = a.out
                    /\ WithIn(a, c, i, r).got = a.got /\ WithIn(a, c, i, r).num = a.num
                    /\ SameEnd(a, WithIn(a, c, i, r))
  BY <1>WithInIs, Zenon DEF Worlds, SameEnd, WithIn
<1> DEFINE k == w.c.readPos + n
           l == w.in.read + n
           c == [w.c EXCEPT !.readPos = k]
           i == [w.in EXCEPT !.read = l, !.blocked = FALSE]
           r == w.room \/ w.in.blocked
<1>1. w.c \in Conns /\ w.in \in Pipes
  BY WorldFields, Zenon
<1>2. k \in Int /\ l \in Int
  BY <1>1, ConnFields, PipeFields
<1>3. r \in BOOLEAN
  BY Zenon
<1>4. v = WithIn(w, c, i, r)
  BY <1>1, Zenon DEF Take, Worlds, Conns, Pipes, WithIn
<1> HIDE DEF k, l, r
<1>5. c \in Conns /\ c.readPos = k /\ c.readState = w.c.readState /\ SameButRead(w.c, c)
  BY <1>1, <1>2, Zenon DEF Conns, SameButRead, SameWrite, SameTalk
<1>6. /\ i \in Pipes /\ i.read = l /\ i.pkts = w.in.pkts /\ i.sent = w.in.sent
      /\ i.here = w.in.here
  BY <1>1, <1>2, Zenon DEF Pipes
<1> HIDE DEF c, i
<1>7. /\ v \in Worlds /\ v.c = c /\ v.in = i /\ v.out = w.out /\ v.got = w.got
      /\ v.num = w.num /\ SameEnd(w, v)
  BY <1>3, <1>4, <1>5, <1>6, <1>WithInIs
<1> QED
  BY <1>5, <1>6, <1>7, Zenon DEF k, l

(* The part of a packet that is read next. *)
NextRead(w, state) == [w EXCEPT !.c.readPos = 0, !.c.readState = state]

(* The next read starts at the first byte. *)
LEMMA NextReadIs ==
  ASSUME NEW w \in Worlds, NEW state \in ReadStates, NEW v, v = NextRead(w, state)
  PROVE  /\ v \in Worlds /\ v.out = w.out /\ SameOutside(w, v)
         /\ v.c.readPos = 0 /\ v.c.readState = state /\ SameButRead(w.c, v.c)
<1> DEFINE c == [w.c EXCEPT !.readPos = 0, !.readState = state]
<1>1. w.c \in Conns
  BY WorldFields, Zenon
<1>2. v = WithConn(w, c)
  BY <1>1, Zenon DEF NextRead, Worlds, Conns, WithConn
<1>3. c \in Conns /\ c.readPos = 0 /\ c.readState = state /\ SameButRead(w.c, c)
  BY <1>1, TypeFacts, Zenon DEF Conns, SameButRead, SameWrite, SameTalk
<1> HIDE DEF c
<1> QED
  BY <1>2, <1>3, WithConnIs

(* The packet that has been read leaves the stream. *)
Drop(w) == [w EXCEPT !.in = DropPacket(@), !.got = Head(w.in.pkts).msg.num]

(* A connection that ends. *)
LEMMA FailIs ==
  ASSUME NEW w \in Worlds, NEW error \in Errors, NEW v, v = Fail(w, error)
  PROVE  /\ v \in Worlds /\ v.c = w.c /\ SameStreams(w, v) /\ v.num = w.num
         /\ v.err = error /\ v.reply = w.reply
BY Zenon DEF Worlds, Fail, SameStreams

(* A Syn is answered. *)
Ack(w, m) ==
  [Message("Ack", AckId, "None", w.stale)
     EXCEPT !.salt = m.salt + 1, !.proof = DeriveKey(m.salt, m.salt + 1)]

(* The Ack answers a Syn with the next salt and proves the key of both. *)
LEMMA AckIs ==
  ASSUME NEW w \in Worlds, NEW m \in Messages, NEW a, a = Ack(w, m)
  PROVE  /\ a \in Messages /\ a.code = "Ack" /\ a.id = AckId /\ a.body = "None"
         /\ a.salt = m.salt + 1 /\ a.proof = DeriveKey(m.salt, m.salt + 1)
<1> DEFINE k == DeriveKey(m.salt, m.salt + 1)
           l == m.salt + 1
           n == Message("Ack", AckId, "None", w.stale)
<1>1. k \in Keys /\ l \in Int
  BY MessageFields DEF DeriveKey, Keys
<1>2. n \in Messages /\ n.code = "Ack" /\ n.id = AckId /\ n.body = "None"
  <2>1. "Ack" \in Codes /\ "None" \in Bodies
    BY Zenon DEF Codes, Bodies
  <2> QED
    BY <2>1, TypeFacts, WorldFields, MessageType, Zenon DEF Message
<1>3. a = [n EXCEPT !.salt = l, !.proof = k]
  BY Zenon DEF Ack
<1> HIDE DEF k, l, n
<1>4. a \in Messages /\ a.code = n.code /\ a.id = n.id /\ a.salt = l /\ a.proof = k
      /\ a.body = n.body
  BY <1>1, <1>2, <1>3, Zenon DEF Messages
<1> QED
  BY <1>2, <1>4, Zenon DEF k, l

(* What a handler of packets leaves alone. *)
SameAround(w, v) ==
  /\ SameStreams(w, v) /\ v.num = w.num /\ v.stale = w.stale /\ v.eof = w.eof

(* A response takes its handler. *)
Answered(w, m) == [w EXCEPT !.c.handlers = @ \ {m.id}]

(* A ping is answered. *)
Pong(w, m) == Message("Ping", m.id, "Pong", w.stale)

(* A pong has the id of its ping. *)
LEMMA PongIs ==
  ASSUME NEW w \in Worlds, NEW m \in Messages, NEW r, r = Pong(w, m)
  PROVE  r \in Messages /\ r.code = "Ping" /\ r.id = m.id /\ r.body = "Pong"
<1>1. "Ping" \in Codes /\ "Pong" \in Bodies
  BY Zenon DEF Codes, Bodies
<1> QED
  BY <1>1, WorldFields, MessageFields, MessageType, Zenon DEF Message, Pong

(* What process_packet does with the reply of a handler. *)
Replied(v) ==
  LET u == [EnqueueMsg(v, Head(v.reply)) EXCEPT !.reply = <<>>]
  IN  IF u.c.writeState = "Idle" THEN EnableWritable(u) ELSE u

-----------------------------------------------------------------------------
(* The two ends in the middle of an event. *)

SideOf(w) ==
  [c |-> w.c, life |-> "open", out |-> w.out, got |-> w.got, num |-> w.num]

Peer(t, w) == [t EXCEPT !.out = w.in]

(* The connection goes on. *)
Good(e, d, t, w) ==
  /\ w \in Worlds /\ t \in Sides /\ w.err = "ok" /\ w.reply = <<>>
  /\ w.eof <=> t.life = "closed"
  /\ Half(e, d, SideOf(w), Peer(t, w)) /\ Half(Other(e), d, Peer(t, w), SideOf(w))

(* What an event leaves when g was the last packet handled before. *)
Outcome(e, d, t, g, w) ==
  /\ w \in Worlds /\ w.err \in Endings /\ w.got \in {g, g + 1}
  /\ w.err = "ok" => Good(e, d, t, w)
  /\ Rest(e, d, SideOf(w), Peer(t, w)) /\ Half(Other(e), d, Peer(t, w), SideOf(w))

(* The end that an event works on, as a side. *)
LEMMA SideOfIs ==
  ASSUME NEW w \in Worlds
  PROVE  /\ SideOf(w) \in Sides /\ SideOf(w).c = w.c /\ SideOf(w).life = "open"
         /\ SideOf(w).out = w.out /\ SideOf(w).got = w.got /\ SideOf(w).num = w.num
<1>1. w.c \in Conns /\ w.out \in Pipes /\ w.got \in Int /\ w.num \in Int
  BY WorldFields, Zenon
<1> QED
  BY <1>1, TypeFacts, Zenon DEF SideOf, Sides

(* The other end during the event. *)
LEMMA PeerIs ==
  ASSUME NEW t \in Sides, NEW w \in Worlds
  PROVE  /\ Peer(t, w) \in Sides /\ Peer(t, w).c = t.c /\ Peer(t, w).life = t.life
         /\ Peer(t, w).out = w.in /\ Peer(t, w).got = t.got /\ Peer(t, w).num = t.num
<1>1. w.in \in Pipes
  BY WorldFields, Zenon
<1> QED
  BY <1>1, Zenon DEF Peer, Sides

(* The other end of the other end is the end itself. *)
LEMMA OtherEnds ==
  ASSUME NEW e \in Ends
  PROVE  Other(e) \in Ends /\ Other(e) # e /\ Other(Other(e)) = e
         /\ (e = "dialler" => Other(e) = "acceptor") /\ (e = "acceptor" => Other(e) = "dialler")
BY Zenon DEF Ends, Other

(* Facts of a good world that every step needs. *)
LEMMA GoodFacts ==
  ASSUME NEW e \in Ends, NEW d \in Nat, NEW t, NEW w, Good(e, d, t, w)
  PROVE  /\ w.got \in Nat /\ t.got \in Nat /\ w.num \in Nat
         /\ w.out.read \in Int /\ w.out.sent \in Int /\ w.in.read \in Int
         /\ w.in.here \in Int /\ w.in.sent \in Int
         /\ w.c.writePos \in Int /\ w.c.readPos \in Int
<1>1. w \in Worlds /\ t \in Sides
  BY Zenon DEF Good
<1>2. w.got >= 0 /\ w.num >= 0 /\ t.got >= 0
  BY <1>1, SideOfIs, PeerIs, Zenon DEF Good, Half
<1>3. w.got \in Int /\ w.num \in Int /\ t.got \in Int
  BY <1>1, WorldFields, SideFields, Zenon
<1>4. w.c \in Conns /\ w.out \in Pipes /\ w.in \in Pipes
  BY <1>1, WorldFields, Zenon
<1> QED
  BY <1>2, <1>3, <1>4, ConnFields, PipeFields

(* A step that leaves the other end's stream alone. *)
LEMMA GoodStep ==
  ASSUME NEW e \in Ends, NEW d \in Nat, NEW t, NEW w, NEW v, Good(e, d, t, w),
         v \in Worlds, v.in = w.in, v.got = w.got, SameEnd(w, v),
         v.out.read = w.out.read, Half(e, d, SideOf(v), Peer(t, w))
  PROVE  Good(e, d, t, v)
<1>1. w \in Worlds /\ t \in Sides /\ Half(Other(e), d, Peer(t, w), SideOf(w))
  BY Zenon DEF Good
<1>2. Peer(t, v) = Peer(t, w)
  BY Zenon DEF Peer
<1>3. SideOf(v).got = SideOf(w).got /\ SideOf(v).out.read = SideOf(w).out.read
  BY <1>1, SideOfIs, Zenon
<1>4. Half(Other(e), d, Peer(t, w), SideOf(v))
  BY <1>1, <1>3, OtherStep, OtherEnds, Zenon
<1> QED
  BY <1>1, <1>2, <1>4, Zenon DEF Good, SameEnd

(* A connection that asks for writability or no longer does, and a socket that
   blocks. *)
LEMMA GoodQuiet ==
  ASSUME NEW e \in Ends, NEW d \in Nat, NEW t, NEW w, NEW v, Good(e, d, t, w),
         v \in Worlds, SameOutside(w, v), SameStream(w.out, v.out),
         v.c.outbound = w.c.outbound, SameRead(w.c, v.c), SameWrite(w.c, v.c),
         SameTalk(w.c, v.c), v.c.writable => w.c.writable
  PROVE  Good(e, d, t, v) /\ v.got = w.got
<1> DEFINE s == SideOf(w)
           s2 == SideOf(v)
           p == Peer(t, w)
<1>1. w \in Worlds /\ t \in Sides /\ Half(e, d, s, p)
  BY Zenon DEF Good
<1>2. /\ s \in Sides /\ s.c = w.c /\ s.life = "open" /\ s.out = w.out /\ s.got = w.got
      /\ s.num = w.num
  BY <1>1, SideOfIs, Zenon
<1>3. /\ s2 \in Sides /\ s2.c = v.c /\ s2.life = "open" /\ s2.out = v.out /\ s2.got = v.got
      /\ s2.num = v.num
  BY SideOfIs, Zenon
<1>4. v.in = w.in /\ v.got = w.got /\ v.num = w.num /\ SameEnd(w, v)
  BY Zenon DEF SameOutside
<1>5. v.out.read = w.out.read
  BY Zenon DEF SameStream
<1> HIDE DEF s, s2, p
<1>6. Reads(s2, p)
  BY <1>1, <1>2, <1>3, ZenonT(30) DEF Half, Reads, SameRead
<1>7. Half(e, d, s2, p)
  BY <1>1, <1>2, <1>3, <1>4, <1>6, QuietStep, Zenon
<1> QED
  BY <1>4, <1>5, <1>7, GoodStep, Zenon DEF s2, p

(* idle_write. *)
LEMMA GoodIdle ==
  ASSUME NEW e \in Ends, NEW d \in Nat, NEW t, NEW w, NEW v, Good(e, d, t, w),
         w.c.writeState = "Idle", w.c.writable, v = IdleWrite(w)
  PROVE  Good(e, d, t, v) /\ v.got = w.got
(* idle_write with a message in the queue. *)
<1>IdleWriteIs. ASSUME NEW b \in Worlds, b.c.outbound # <<>>, NEW a, a = IdleWrite(b)
                PROVE  /\ a \in Worlds /\ a.out = b.out /\ SameOutside(b, a)
                       /\ a.c.outbound = Tail(b.c.outbound) /\ a.c.writing = Head(b.c.outbound)
                       /\ a.c.writeState = "Writing" /\ a.c.marshalled = b.c.marshalled
                       /\ a.c.writePos = b.c.writePos /\ a.c.handlers = b.c.handlers
                       /\ SameRead(b.c, a.c) /\ SameTalk(b.c, a.c)
  <2> USE <1>IdleWriteIs
  <2> DEFINE c == [b.c EXCEPT !.writing = Head(b.c.outbound), !.outbound = Tail(@),
                              !.writeState = "Writing"]
  <2>1. b.c \in Conns
    BY WorldFields, Zenon
  <2>2. Head(b.c.outbound) \in Messages /\ Tail(b.c.outbound) \in Queues
    BY <2>1, ConnFields DEF Queues
  <2>3. c \in Conns
    BY <2>1, <2>2, TypeFacts, Zenon DEF Conns
  <2>4. a = WithConn(b, c)
    BY <2>1, Zenon DEF IdleWrite, Worlds, Conns, WithConn
  <2>5. /\ c.outbound = Tail(b.c.outbound) /\ c.writing = Head(b.c.outbound)
        /\ c.writeState = "Writing" /\ c.marshalled = b.c.marshalled
        /\ c.writePos = b.c.writePos /\ c.handlers = b.c.handlers
        /\ SameRead(b.c, c) /\ SameTalk(b.c, c)
    BY <2>1, Zenon DEF Conns, SameRead, SameTalk
  <2> HIDE DEF c
  <2> QED
    BY <2>3, <2>4, <2>5, WithConnIs, Zenon
<1> DEFINE s == SideOf(w)
           s2 == SideOf(v)
           p == Peer(t, w)
<1>1. w \in Worlds /\ t \in Sides /\ Half(e, d, s, p)
  BY Zenon DEF Good
<1>2. CASE w.c.outbound = <<>>
  <2>1. v \in Worlds /\ SameButWritable(w, v) /\ ~v.c.writable
    BY <1>1, <1>2, DisableIs, Zenon DEF IdleWrite
  <2> QED
    BY <2>1, GoodQuiet, Zenon DEF SameButWritable, SameOutside, SameStreams, SameStream
<1>3. CASE w.c.outbound # <<>>
  <2>1. /\ s \in Sides /\ s.c = w.c /\ s.life = "open" /\ s.out = w.out /\ s.got = w.got
        /\ s.num = w.num
    BY <1>1, SideOfIs, Zenon
  <2>2. /\ v \in Worlds /\ v.out = w.out /\ SameOutside(w, v)
        /\ v.c.outbound = Tail(w.c.outbound) /\ v.c.writing = Head(w.c.outbound)
        /\ v.c.writeState = "Writing" /\ v.c.marshalled = w.c.marshalled
        /\ v.c.writePos = w.c.writePos
        /\ SameRead(w.c, v.c) /\ SameTalk(w.c, v.c)
    BY <1>1, <1>3, <1>IdleWriteIs, Zenon
  <2>3. /\ s2 \in Sides /\ s2.c = v.c /\ s2.life = "open" /\ s2.out = v.out
        /\ s2.got = v.got /\ s2.num = v.num
    BY <2>2, SideOfIs, Zenon
  <2>4. v.in = w.in /\ v.got = w.got /\ v.num = w.num /\ SameEnd(w, v)
    BY <2>2, Zenon DEF SameOutside
  <2>5. p.got \in Nat
    BY <1>1, GoodFacts, PeerIs, SMTT(30)
  <2> HIDE DEF s, s2, p
  <2>6. Half(e, d, s2, p)
    BY <1>1, <1>3, <2>1, <2>2, <2>3, <2>4, <2>5, IdleStep
  <2> QED
    BY <2>2, <2>4, <2>6, GoodStep, Zenon DEF s2, p
<1> QED
  BY <1>2, <1>3, Zenon

(* The message that is being written is marshalled once. *)
LEMMA GoodMarshal ==
  ASSUME NEW e \in Ends, NEW d \in Nat, NEW t, NEW w, NEW v, Good(e, d, t, w),
         w.c.writeState = "Writing", v = Marshal(w)
  PROVE  /\ Good(e, d, t, v) /\ v.got = w.got /\ v.c.marshalled
         /\ v.out.sent = w.out.sent /\ v.out.read = w.out.read
(* A packet is marshalled. *)
<1>MarshalIs.
    ASSUME NEW b \in Worlds, ~b.c.marshalled, NEW a, a = Marshal(b)
    PROVE  /\ a \in Worlds /\ SameOutside(b, a)
           /\ a.out.pkts = Append(b.out.pkts, PacketOf(b.c))
           /\ a.out.sent = b.out.sent /\ a.out.here = b.out.here /\ a.out.read = b.out.read
           /\ a.out.blocked = b.out.blocked
           /\ a.c.marshalled /\ a.c.writeState = b.c.writeState /\ a.c.writing = b.c.writing
           /\ a.c.writePos = b.c.writePos /\ a.c.handlers = b.c.handlers
           /\ a.c.outbound = b.c.outbound /\ a.c.writable = b.c.writable
           /\ SameRead(b.c, a.c) /\ SameTalk(b.c, a.c)
  <2> USE <1>MarshalIs
  <2> DEFINE c == [b.c EXCEPT !.marshalled = TRUE]
             q == Append(b.out.pkts, PacketOf(b.c))
             o == [b.out EXCEPT !.pkts = q]
  <2>1. b.c \in Conns /\ b.out \in Pipes
    BY WorldFields, Zenon
  <2>2. q \in Streams
    BY <2>1, PipeFields, PacketOfIs DEF Streams
  <2>3. c \in Conns
    BY <2>1, Zenon DEF Conns
  <2>4. a = WithOut(b, c, o)
    BY <2>1, Zenon DEF Marshal, PacketOf, Worlds, Conns, Pipes, WithOut
  <2>5. /\ c.marshalled /\ c.writeState = b.c.writeState /\ c.writing = b.c.writing
        /\ c.writePos = b.c.writePos /\ c.handlers = b.c.handlers
        /\ c.outbound = b.c.outbound /\ c.writable = b.c.writable
        /\ SameRead(b.c, c) /\ SameTalk(b.c, c)
    BY <2>1, Zenon DEF Conns, SameRead, SameTalk
  <2> HIDE DEF c, q
  <2>6. /\ o \in Pipes /\ o.pkts = q /\ o.sent = b.out.sent /\ o.here = b.out.here
        /\ o.read = b.out.read /\ o.blocked = b.out.blocked
    BY <2>1, <2>2, Zenon DEF Pipes
  <2> HIDE DEF o
  <2>7. a \in Worlds /\ a.c = c /\ a.out = o /\ SameOutside(b, a)
    BY <2>3, <2>4, <2>6, WithOutIs
  <2> QED
    BY <2>5, <2>6, <2>7, Zenon DEF q
<1> DEFINE s == SideOf(w)
           s2 == SideOf(v)
           p == Peer(t, w)
           k == PacketOf(w.c)
<1>1. w \in Worlds /\ t \in Sides /\ Half(e, d, s, p)
  BY Zenon DEF Good
<1>2. CASE w.c.marshalled
  BY <1>2, Zenon DEF Marshal
<1>3. CASE ~w.c.marshalled
  <2>1. /\ s \in Sides /\ s.c = w.c /\ s.life = "open" /\ s.out = w.out /\ s.got = w.got
        /\ s.num = w.num
    BY <1>1, SideOfIs, ZenonT(30)
  <2>2. /\ v \in Worlds /\ SameOutside(w, v)
        /\ v.out.pkts = Append(w.out.pkts, k)
        /\ v.out.sent = w.out.sent /\ v.out.here = w.out.here /\ v.out.read = w.out.read
        /\ v.c.marshalled /\ v.c.writeState = w.c.writeState /\ v.c.writing = w.c.writing
        /\ v.c.writePos = w.c.writePos
        /\ v.c.outbound = w.c.outbound /\ v.c.writable = w.c.writable
        /\ SameRead(w.c, v.c) /\ SameTalk(w.c, v.c)
    BY <1>1, <1>3, <1>MarshalIs
  <2>3. /\ s2 \in Sides /\ s2.c = v.c /\ s2.life = "open" /\ s2.out = v.out
        /\ s2.got = v.got /\ s2.num = v.num
    BY <2>2, SideOfIs, Zenon
  <2>4. v.in = w.in /\ v.got = w.got /\ v.num = w.num /\ SameEnd(w, v)
    BY <2>2, ZenonT(30) DEF SameOutside
  <2>5. p.got \in Nat
    BY <1>1, GoodFacts, PeerIs
  <2>6. /\ k \in Packets /\ k.msg = w.c.writing
        /\ k.seal = IF w.c.negotiated THEN w.c.key ELSE NoKey
    BY <1>1, PacketOfIs, WorldFields, Zenon
  <2> HIDE DEF s, s2, p, k
  <2>7. /\ s.c.writeState = "Writing" /\ ~s.c.marshalled
        /\ k.msg = s.c.writing /\ k.seal = IF s.c.negotiated THEN s.c.key ELSE NoKey
        /\ s2.out.pkts = Append(s.out.pkts, k) /\ s2.out.sent = s.out.sent
        /\ s2.out.here = s.out.here /\ s2.out.read = s.out.read
        /\ s2.got = s.got /\ s2.num = s.num /\ s2.c.outbound = s.c.outbound
        /\ s2.c.writing = s.c.writing /\ s2.c.writeState = "Writing" /\ s2.c.marshalled
        /\ s2.c.writePos = s.c.writePos /\ s2.c.writable = s.c.writable
        /\ SameRead(s.c, s2.c) /\ SameTalk(s.c, s2.c)
    BY <1>3, <2>1, <2>2, <2>3, <2>4, <2>6, ZenonT(30)
  <2>8. Half(e, d, s2, p)
    BY <1>1, <2>1, <2>3, <2>5, <2>6, <2>7, MarshalStep, Zenon
  <2> QED
    BY <2>2, <2>4, <2>8, GoodStep, Zenon DEF s2, p
<1> QED
  BY <1>2, <1>3, Zenon

(* A socket that has no room, or has. *)
Block(w, b) == [w EXCEPT !.out.blocked = b]

(* Whether the socket is full says nothing of the stream. *)
LEMMA BlockIs ==
  ASSUME NEW w \in Worlds, NEW b \in BOOLEAN, NEW v, v = Block(w, b)
  PROVE  v \in Worlds /\ v.c = w.c /\ SameStream(w.out, v.out) /\ SameOutside(w, v)
<1> DEFINE o == [w.out EXCEPT !.blocked = b]
<1>1. w.c \in Conns /\ w.out \in Pipes
  BY WorldFields, Zenon
<1>2. o \in Pipes /\ SameStream(w.out, o)
  <2>1. o \in Pipes
    BY <1>1, Zenon DEF Pipes
  <2>2. o.pkts = w.out.pkts /\ o.sent = w.out.sent /\ o.here = w.out.here
        /\ o.read = w.out.read
    BY <1>1, Zenon DEF Pipes
  <2> QED
    BY <2>1, <2>2, Zenon DEF SameStream
<1>3. v = WithOut(w, w.c, o)
  BY Zenon DEF Block, WithOut, Worlds
<1> HIDE DEF o
<1> QED
  BY <1>1, <1>2, <1>3, WithOutIs

(* write_packet. *)
LEMMA GoodWrite ==
  ASSUME NEW e \in Ends, NEW d \in Nat, NEW t, NEW w, NEW v, Good(e, d, t, w),
         w.c.writeState = "Writing", Room(w.out) > 0, v = WritePacket(w)
  PROVE  Good(e, d, t, v) /\ v.got = w.got
<1>FinishedStep.
    ASSUME NEW b \in Ends, NEW a \in Nat, NEW s, NEW f, NEW s2, NEW n \in Nat,
           Half(b, a, s, f), f.got \in Nat, s.life = "open", s2 \in Sides, s2.life = "open",
           s.c.marshalled, s.c.writePos + n = PacketLen,
           s2.out.pkts = s.out.pkts, s2.out.sent = s.out.sent + n,
           s2.out.here = s.out.here, s2.out.read = s.out.read,
           s2.got = s.got, s2.num = s.num, Finished(s.c, s2.c)
    PROVE  Half(b, a, s2, f)
  BY <1>FinishedStep, WrittenStep, Zenon DEF Finished
<1>FinishedFrom. ASSUME NEW c, NEW x, NEW a, Finished(x, a), SameRead(c, x), SameTalk(c, x),
                        x.outbound = c.outbound
                 PROVE  Finished(c, a)
  BY <1>FinishedFrom, Zenon DEF Finished, SameRead, SameTalk
(* How much write() takes. *)
<1>WriteAmount. ASSUME NEW room \in Int, room > 0, NEW pos \in Int, 0 <= pos, pos < PacketLen,
                       NEW n, n = MinOf(room, PacketLen - pos)
                PROVE  n \in Nat /\ (pos + n < PacketLen \/ pos + n = PacketLen)
  BY <1>WriteAmount, SizesAssumed DEF MinOf
<1>WrittenIs. ASSUME NEW g \in Worlds, NEW f, f = Written(g)
              PROVE  /\ f \in Worlds /\ f.out = g.out /\ SameOutside(g, f) /\ Finished(g.c, f.c)
                     /\ f.c.handlers = Registered(g.c)
  <2> USE <1>WrittenIs
  <2>WrittenConnIs.
      ASSUME NEW c \in Conns
      PROVE  LET a == WrittenConn(c)
             IN  /\ a \in Conns /\ SameRead(c, a)
                 /\ a.writePos = 0 /\ ~a.marshalled /\ a.writeState = "Idle" /\ ~a.acking
                 /\ a.negotiated <=> c.negotiated \/ c.acking
                 /\ a.outbound = c.outbound /\ a.key = c.key /\ a.remote = c.remote
                 /\ a.handlers = IF c.writing.handler THEN c.handlers \cup {c.writing.id}
                                                       ELSE c.handlers
    <3> USE <2>WrittenConnIs
    <3> DEFINE h == IF c.writing.handler THEN c.handlers \cup {c.writing.id} ELSE c.handlers
               b == c.negotiated \/ c.acking
               a == [c EXCEPT !.writePos = 0, !.marshalled = FALSE, !.writeState = "Idle",
                              !.handlers = h, !.writing = NoMessage, !.negotiated = b,
                              !.acking = FALSE]
    <3>1. WrittenConn(c) = a
      BY Zenon DEF WrittenConn
    <3>2. h \in IdSets
      BY ConnFields, MessageFields, Zenon DEF IdSets
    <3>3. b \in BOOLEAN
      BY Zenon
    <3>4. a.negotiated <=> c.negotiated \/ c.acking
      BY Zenon DEF Conns
    <3> HIDE DEF h, b
    <3>5. a \in Conns
      BY <3>2, <3>3, TypeFacts, NoMessageType, Zenon DEF Conns
    <3>6. /\ SameRead(c, a) /\ a.writePos = 0 /\ ~a.marshalled /\ a.writeState = "Idle"
          /\ ~a.acking /\ a.outbound = c.outbound /\ a.key = c.key /\ a.remote = c.remote
          /\ a.handlers = h
      BY Zenon DEF Conns, SameRead
    <3> QED
      BY <3>1, <3>4, <3>5, <3>6, Zenon DEF h
  <2> DEFINE c == WrittenConn(g.c)
             u == WithConn(g, c)
             z == [g EXCEPT
                     !.c.writePos = 0, !.c.marshalled = FALSE, !.c.writeState = "Idle",
                     !.c.handlers = IF g.c.writing.handler THEN @ \cup {g.c.writing.id} ELSE @,
                     !.c.writing = NoMessage,
                     !.c.negotiated = @ \/ g.c.acking, !.c.acking = FALSE]
  <2>1. g.c \in Conns
    BY WorldFields, Zenon
  <2>a. z = u
    BY <2>1, ZenonT(30) DEF WrittenConn, WithConn, Worlds, Conns
  <2>b. f = IF z.c.outbound = <<>> \/ ~z.c.negotiated THEN DisableWritable(z) ELSE z
    BY Zenon DEF Written
  <2> HIDE DEF z, u
  <2>2. f = IF u.c.outbound = <<>> \/ ~u.c.negotiated THEN DisableWritable(u) ELSE u
    BY <2>a, <2>b, Zenon
  <2> USE DEF u
  <2>3. /\ c \in Conns /\ SameRead(g.c, c)
        /\ c.writePos = 0 /\ ~c.marshalled /\ c.writeState = "Idle" /\ ~c.acking
        /\ c.negotiated <=> g.c.negotiated \/ g.c.acking
        /\ c.outbound = g.c.outbound /\ c.key = g.c.key /\ c.remote = g.c.remote
        /\ c.handlers = Registered(g.c)
    BY <2>1, <2>WrittenConnIs, Zenon DEF Registered
  <2> HIDE DEF c
  <2>4. u \in Worlds /\ u.c = c /\ u.out = g.out /\ SameOutside(g, u)
    BY <2>3, WithConnIs, Zenon
  <2> HIDE DEF u
  <2>5. CASE u.c.outbound = <<>> \/ ~u.c.negotiated
    <3>1. f \in Worlds /\ SameButWritable(u, f) /\ ~f.c.writable
      BY <2>2, <2>4, <2>5, DisableIs, Zenon
    <3>2. f.out = g.out /\ SameOutside(g, f) /\ f.c.handlers = Registered(g.c)
      BY <2>3, <2>4, <3>1, Zenon DEF SameButWritable, SameStreams, SameOutside, SameEnd
    <3>3. Finished(g.c, f.c)
      BY <2>3, <2>4, <3>1, Zenon
         DEF SameButWritable, SameRead, SameWrite, SameTalk, Finished
    <3> QED
      BY <3>1, <3>2, <3>3, Zenon
  <2>6. CASE ~(u.c.outbound = <<>> \/ ~u.c.negotiated)
    <3>1. f = u
      BY <2>2, <2>6, Zenon
    <3>2. Finished(g.c, c)
      BY <2>3, <2>4, <2>6, Zenon DEF Finished
    <3> QED
      BY <2>3, <2>4, <3>1, <3>2, Zenon
  <2> QED
    BY <2>5, <2>6, Zenon
<1>PushIs. ASSUME NEW b \in Worlds, NEW n \in Int, NEW a, a = Push(b, n)
           PROVE  /\ a \in Worlds /\ SameOutside(b, a)
                  /\ a.out.pkts = b.out.pkts /\ a.out.sent = b.out.sent + n
                  /\ a.out.here = b.out.here /\ a.out.read = b.out.read
                  /\ a.c.writePos = b.c.writePos + n
                  /\ a.c.marshalled = b.c.marshalled /\ a.c.writeState = b.c.writeState
                  /\ a.c.writing = b.c.writing /\ a.c.handlers = b.c.handlers
                  /\ a.c.outbound = b.c.outbound /\ a.c.writable = b.c.writable
                  /\ SameRead(b.c, a.c) /\ SameTalk(b.c, a.c)
  <2> USE <1>PushIs
  <2> DEFINE k == b.c.writePos + n
             l == b.out.sent + n
             c == [b.c EXCEPT !.writePos = k]
             o == [b.out EXCEPT !.sent = l]
  <2>1. b.c \in Conns /\ b.out \in Pipes
    BY WorldFields, Zenon
  <2>2. k \in Int /\ l \in Int
    BY <2>1, ConnFields, PipeFields
  <2>3. a = WithOut(b, c, o)
    BY <2>1, Zenon DEF Push, Worlds, Conns, Pipes, WithOut
  <2> HIDE DEF k, l
  <2>4. /\ c \in Conns /\ c.writePos = k
        /\ c.marshalled = b.c.marshalled /\ c.writeState = b.c.writeState
        /\ c.writing = b.c.writing /\ c.handlers = b.c.handlers
        /\ c.outbound = b.c.outbound /\ c.writable = b.c.writable
        /\ SameRead(b.c, c) /\ SameTalk(b.c, c)
    BY <2>1, <2>2, Zenon DEF Conns, SameRead, SameTalk
  <2>5. /\ o \in Pipes /\ o.pkts = b.out.pkts /\ o.sent = l /\ o.here = b.out.here
        /\ o.read = b.out.read
    BY <2>1, <2>2, Zenon DEF Pipes
  <2> HIDE DEF c, o
  <2>6. a \in Worlds /\ a.c = c /\ a.out = o /\ SameOutside(b, a)
    BY <2>3, <2>4, <2>5, WithOutIs
  <2> QED
    BY <2>4, <2>5, <2>6, Zenon DEF k, l
<1> DEFINE u == Marshal(w)
           n == MinOf(Room(u.out), PacketLen - u.c.writePos)
           x == Push(u, n)
           y == Block(x, TRUE)
           s == SideOf(u)
           p == Peer(t, u)
<1>1. /\ Good(e, d, t, u) /\ u.got = w.got /\ u.c.marshalled
      /\ u.out.sent = w.out.sent /\ u.out.read = w.out.read
  BY GoodMarshal
<1>2. v = IF x.c.writePos < PacketLen THEN y ELSE Written(x)
  BY Zenon DEF WritePacket, Push, Block
<1> HIDE DEF u
<1>3. u \in Worlds /\ t \in Sides /\ Half(e, d, s, p)
  BY <1>1, Zenon DEF Good
<1>4. /\ s \in Sides /\ s.c = u.c /\ s.life = "open" /\ s.out = u.out /\ s.got = u.got
      /\ s.num = u.num
  BY <1>3, SideOfIs, Zenon
<1>5. 0 <= u.c.writePos /\ u.c.writePos < PacketLen
  BY <1>1, <1>3, <1>4, ZenonT(30) DEF Half, Flow
<1>6. Room(u.out) \in Int /\ Room(u.out) > 0 /\ u.c.writePos \in Int
  BY <1>1, GoodFacts, SizesAssumed DEF Room
<1>7. /\ n \in Nat
      /\ u.c.writePos + n < PacketLen \/ u.c.writePos + n = PacketLen
  BY <1>5, <1>6, <1>WriteAmount, Zenon
<1> HIDE DEF n
<1>8. p.got \in Nat
  BY <1>1, <1>3, GoodFacts, PeerIs, SMTT(30)
<1>9. /\ x \in Worlds /\ SameOutside(u, x)
      /\ x.out.pkts = u.out.pkts /\ x.out.sent = u.out.sent + n
      /\ x.out.here = u.out.here /\ x.out.read = u.out.read
      /\ x.c.writePos = u.c.writePos + n
      /\ x.c.marshalled = u.c.marshalled /\ x.c.writeState = u.c.writeState
      /\ x.c.writing = u.c.writing
      /\ x.c.outbound = u.c.outbound /\ x.c.writable = u.c.writable
      /\ SameRead(u.c, x.c) /\ SameTalk(u.c, x.c)
  BY <1>3, <1>7, <1>PushIs
<1> HIDE DEF x
<1>10. CASE u.c.writePos + n < PacketLen
  <2> DEFINE s2 == SideOf(x)
  <2>1. v = y
    BY <1>2, <1>9, <1>10, Zenon
  <2>2. /\ s2 \in Sides /\ s2.c = x.c /\ s2.life = "open" /\ s2.out = x.out
        /\ s2.got = x.got /\ s2.num = x.num
    BY <1>9, SideOfIs, Zenon
  <2>3. x.in = u.in /\ x.got = u.got /\ x.num = u.num /\ SameEnd(u, x)
    BY <1>9, Zenon DEF SameOutside
  <2> HIDE DEF s, s2, p
  <2>4. /\ s.c.marshalled /\ s.c.writePos + n < PacketLen
        /\ s2.out.pkts = s.out.pkts /\ s2.out.sent = s.out.sent + n
        /\ s2.out.here = s.out.here /\ s2.out.read = s.out.read
        /\ s2.got = s.got /\ s2.num = s.num /\ s2.c.outbound = s.c.outbound
        /\ s2.c.writing = s.c.writing /\ s2.c.writeState = s.c.writeState
        /\ s2.c.marshalled /\ s2.c.writePos = s.c.writePos + n
        /\ s2.c.writable = s.c.writable /\ SameRead(s.c, s2.c) /\ SameTalk(s.c, s2.c)
    BY <1>1, <1>4, <1>9, <1>10, <2>2, <2>3, Zenon
  <2>5. Half(e, d, s2, p)
    BY <1>3, <1>4, <1>7, <2>2, <2>4, PushStep, Zenon
  <2>6. Good(e, d, t, x)
    BY <1>1, <1>9, <2>3, <2>5, GoodStep, Zenon DEF s2, p
  <2>7. v \in Worlds /\ v.c = x.c /\ SameStream(x.out, v.out) /\ SameOutside(x, v)
    BY <1>9, <2>1, BlockIs, ZenonT(30)
  <2>8. Good(e, d, t, v) /\ v.got = x.got
    BY <2>6, <2>7, GoodQuiet DEF SameRead, SameWrite, SameTalk
  <2> QED
    BY <1>1, <2>3, <2>8, Zenon
<1>11. CASE u.c.writePos + n = PacketLen
  <2> DEFINE s2 == SideOf(v)
  <2> HIDE DEF y
  <2>1. v = Written(x)
    <3>1. x.c.writePos = PacketLen
      BY <1>9, <1>11, Zenon
    <3>2. ~(x.c.writePos < PacketLen)
      BY <3>1, SizesAssumed
    <3> QED
      BY <1>2, <3>2, Zenon
  <2>2. v \in Worlds /\ v.out = x.out /\ SameOutside(x, v) /\ Finished(x.c, v.c)
    BY <1>9, <2>1, <1>WrittenIs, Zenon
  <2>3. /\ s2 \in Sides /\ s2.c = v.c /\ s2.life = "open" /\ s2.out = v.out
        /\ s2.got = v.got /\ s2.num = v.num
    BY <2>2, SideOfIs, Zenon
  <2>4. v.in = u.in /\ v.got = u.got /\ v.num = u.num /\ SameEnd(u, v)
    BY <1>9, <2>2, Zenon DEF SameOutside, SameEnd
  <2>5. Finished(u.c, v.c)
    BY <1>9, <2>2, <1>FinishedFrom, Zenon
  <2> HIDE DEF s, s2, p
  <2>6. /\ s.c.marshalled /\ s.c.writePos + n = PacketLen
        /\ s2.out.pkts = s.out.pkts /\ s2.out.sent = s.out.sent + n
        /\ s2.out.here = s.out.here /\ s2.out.read = s.out.read
        /\ s2.got = s.got /\ s2.num = s.num /\ Finished(s.c, s2.c)
    BY <1>1, <1>4, <1>9, <1>11, <2>2, <2>3, <2>4, <2>5, ZenonT(30)
  <2>7. Half(e, d, s2, p)
    BY <1>3, <1>4, <1>7, <1>8, <2>3, <2>6, <1>FinishedStep, Zenon
  <2>8. v.out.read = u.out.read
    BY <1>9, <2>2, Zenon
  <2> QED
    BY <1>1, <2>2, <2>4, <2>7, <2>8, GoodStep, Zenon DEF s2, p
<1> QED
  BY <1>7, <1>10, <1>11, Zenon

(* on_writable: the state is never missing. *)
LEMMA GoodWritable ==
  ASSUME NEW e \in Ends, NEW d \in Nat, NEW t, NEW w, NEW v, Good(e, d, t, w),
         w.c.writable, Room(w.out) > 0, v = OnWritable(w)
  PROVE  Good(e, d, t, v) /\ v.got = w.got
<1>1. w \in Worlds /\ Half(e, d, SideOf(w), Peer(t, w))
  BY Zenon DEF Good
<1>2. w.c.writeState \in WriteStates /\ w.c.writeState # "None"
  BY <1>1, SideOfIs, WorldFields, ConnFields, Zenon DEF Half, Numbered
<1>3. CASE w.c.writeState = "Idle"
  <2>1. v = IdleWrite(w)
    BY <1>3, Zenon DEF OnWritable
  <2> QED
    BY <1>3, <2>1, GoodIdle
<1>4. CASE w.c.writeState = "Writing"
  <2>1. v = WritePacket(w)
    BY <1>4, Zenon DEF OnWritable
  <2> QED
    BY <1>4, <2>1, GoodWrite
<1> QED
  BY <1>2, <1>3, <1>4, Zenon DEF WriteStates

(* An event may leave the connection as it is now. *)
LEMMA GoodOutcome ==
  ASSUME NEW e \in Ends, NEW d \in Nat, NEW t, NEW w, Good(e, d, t, w)
  PROVE  Outcome(e, d, t, w.got, w)
<1>1. Rest(e, d, SideOf(w), Peer(t, w))
  BY HalfRest, Zenon DEF Good
<1> QED
  BY <1>1, Zenon DEF Good, Outcome, Endings

(* It may also end the connection. *)
LEMMA GoodEnds ==
  ASSUME NEW e \in Ends, NEW d \in Nat, NEW t, NEW w, Good(e, d, t, w),
         NEW error \in Endings, error # "ok", NEW v, v = Fail(w, error)
  PROVE  Outcome(e, d, t, w.got, v)
<1>1. w \in Worlds /\ t \in Sides
  BY Zenon DEF Good
<1>2. /\ v \in Worlds /\ v.c = w.c /\ SameStreams(w, v) /\ v.num = w.num /\ v.err = error
  BY <1>1, FailIs DEF Errors
<1>3. SideOf(v) = SideOf(w) /\ Peer(t, v) = Peer(t, w)
  BY <1>2, Zenon DEF SideOf, Peer, SameStreams
<1>4. Rest(e, d, SideOf(w), Peer(t, w)) /\ Half(Other(e), d, Peer(t, w), SideOf(w))
  BY HalfRest, Zenon DEF Good
<1>5. v.got = w.got
  BY <1>2, Zenon DEF SameStreams
<1> QED
  BY <1>2, <1>3, <1>4, <1>5, Zenon DEF Outcome

(* A socket that can be read has a peer. *)
LEMMA PeerExists ==
  ASSUME NEW e \in Ends, NEW d \in Nat, NEW t, NEW w, Good(e, d, t, w),
         Available(w.in) > 0 \/ w.eof
  PROVE  t.life # "none"
<1>1. w \in Worlds /\ t \in Sides /\ Half(Other(e), d, Peer(t, w), SideOf(w))
  BY Zenon DEF Good
<1>2. w.eof => t.life = "closed"
  BY Zenon DEF Good
<1>3. t.life = "none" => w.in = NoPipe
  BY <1>1, PeerIs, Zenon DEF Half, Unused
<1>4. w.in = NoPipe => ~(Available(w.in) > 0)
  BY DEF NoPipe, Available
<1> QED
  BY <1>2, <1>3, <1>4, Zenon
=============================================================================
