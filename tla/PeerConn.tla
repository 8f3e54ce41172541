------------------------------ MODULE PeerConn ------------------------------
(***************************************************************************)
(* Two PeerConnections (src/peer_net/connection.rs), the one that dials    *)
(* and the one that accepts: the negotiation of a key, packets written and *)
(* read in pieces, pings and their response handlers, closing and dialling *)
(* again with the same recycled objects.                                   *)
(*                                                                         *)
(* TCP and epoll are external. A stream is a sequence of units: a packet   *)
(* is PrefixLen units of prefix and BodyLen units of body. epoll is        *)
(* edge-triggered: armed says that the socket is on the ready list. Data,  *)
(* the end of the stream, room after a write that blocked, and reregister  *)
(* put it there; a poll takes it off.                                      *)
(*                                                                         *)
(* NetServer::start handles an event of a connection in one step: first    *)
(* on_writable, then on_readable. The step works on a record w of          *)
(*   c      the connection             out, in  its two streams            *)
(*   armed  the socket was armed again room     the peer's socket, too     *)
(*   err    why the connection ends    reply    what the handler returns   *)
(*   got    number of the last packet  num      number of the last message *)
(*   stale  a leftover handler is used eof      the peer has closed        *)
(***************************************************************************)
EXTENDS Integers, Sequences, FiniteSets

CONSTANTS
  PrefixLen,  \* units of PREFIX_LEN
  BodyLen,    \* units of header and payload
  SockCap,    \* units in flight before a write blocks
  Ids,        \* message ids that pings use
  MaxSends,   \* bound: messages that the actors of both ends send
  MaxDials,   \* bound: connections made one after the other
  Env         \* what may happen: "wake", "expire", "data", "split", "early", "reuse"

ASSUME PeerConnAssumption ==
  /\ {PrefixLen, BodyLen, SockCap, MaxSends, MaxDials} \subseteq Nat \ {0}
  /\ Ids \subseteq Nat \ {0}

VARIABLES
  conn,      \* end -> its PeerConnection
  life,      \* end -> "none", "open" or "closed"
  pipe,      \* end -> the stream it writes
  armed,     \* end -> the socket is on the ready list of epoll
  err,       \* end -> how its last connection ended
  got,       \* end -> number of the last packet it has handled
  num,       \* end -> number of the last message queued on the connection
  sends,     \* messages that actors have sent
  leftover,  \* end -> a free message still has a response handler
  dials      \* connections made so far

vars == <<conn, life, pipe, armed, err, got, num, sends, leftover, dials>>

Ends == {"dialler", "acceptor"}

Other(e) == IF e = "dialler" THEN "acceptor" ELSE "dialler"

PacketLen == PrefixLen + BodyLen
MinOf(a, b) == IF a < b THEN a ELSE b

-----------------------------------------------------------------------------
(* Keys, messages and packets. *)

NoKey == <<0, 0>>
PubKey == -1

(* fill_fd_and_id draws the ids of a Syn and an Ack at random: they are taken
   to be different from every other id, and salts never repeat. *)
SynId == -1
AckId == -2

(* hkdf_derive_key over the hash of both salts. The secret of the two key
   pairs is the same at both ends. *)
DeriveKey(dialSalt, ackSalt) == <<dialSalt, ackSalt>>

Message(code, id, body, handler) ==
  [code |-> code, id |-> id, body |-> body, salt |-> 0, proof |-> NoKey,
   handler |-> handler, num |-> 0]

(* Header::raw_marshal, and the seal of a packet that was not encrypted. *)
RawMarshal(m) == [msg |-> m, seal |-> NoKey]

EncryptMarshal(m, key) == [msg |-> m, seal |-> key]

(* encrypt_unmarshal fails on anything but a packet sealed with the key;
   raw_unmarshal takes the first byte for the code, whatever it is: that of a
   sealed packet is noise. *)
Unmarshals(c, p) == p.seal = (IF c.negotiated THEN c.key ELSE NoKey)

-----------------------------------------------------------------------------
(* The connection object. *)

NoMessage == Message("None", 0, "None", FALSE)

(* PeerConnection::new, but for the buffers. *)
New ==
  [remote |-> 0, key |-> NoKey, negotiated |-> FALSE, acking |-> FALSE,
   outbound |-> <<>>, handlers |-> {},
   readState |-> "ReadingPrefix", readPos |-> 0,
   writeState |-> "Idle", writing |-> NoMessage, marshalled |-> FALSE,
   writePos |-> 0, writable |-> FALSE]

(* Mistake: the next connection believes it has negotiated. *)
ResetKeepsNegotiated(c) ==
  [New EXCEPT !.negotiated = c.negotiated, !.readState = "None", !.writeState = "None"]

(* reset: what put_conn and handle_timeouts leave of a connection. *)
Reset(c) == [New EXCEPT !.readState = "None", !.writeState = "None"]

(* initialize leaves every other field as reset or new left it. *)
Initialize(c, remote) ==
  [c EXCEPT !.remote = IF remote = 0 THEN @ ELSE remote,
            !.readState = "ReadingPrefix", !.writeState = "Idle"]

NoPipe == [pkts |-> <<>>, sent |-> 0, here |-> 0, read |-> 0, blocked |-> FALSE]

Room(p) == SockCap - (p.sent - p.read)
Available(p) == p.here - p.read

(* reregister puts a socket that is ready back on the ready list. *)
EnableWritable(w) == [w EXCEPT !.c.writable = TRUE, !.armed = TRUE]
DisableWritable(w) == [w EXCEPT !.c.writable = FALSE, !.armed = TRUE]

(* Mistake: a queue that holds a message loses the next one. *)
EnqueueMsgDrops(w, m) ==
  LET v == [w EXCEPT !.num = @ + 1]
  IN  IF w.c.outbound # <<>> THEN v
      ELSE [EnableWritable(v) EXCEPT !.c.outbound = <<[m EXCEPT !.num = w.num + 1]>>]

(* enqueue_msg: only the first message of a queue asks for writability. *)
EnqueueMsg(w, m) ==
  LET v == IF w.c.outbound = <<>> THEN EnableWritable(w) ELSE w
  IN  [v EXCEPT !.num = @ + 1, !.c.outbound = Append(@, [m EXCEPT !.num = w.num + 1])]

(* initiate_negotiation. The salt waits in the slot of the remote key. *)
InitiateNegotiation(w, salt) ==
  LET syn == [Message("Syn", SynId, "None", w.stale) EXCEPT !.salt = salt]
  IN  [EnqueueMsg(w, syn) EXCEPT !.c.negotiated = FALSE, !.c.remote = salt]

-----------------------------------------------------------------------------
(* Handlers of packets. *)

Fail(w, error) == [w EXCEPT !.err = error]

(* handle_negotiation, a Syn: derive the key and answer. The connection is
   negotiated once the answer is written. *)
HandleSyn(w, m) ==
  LET salt == m.salt + 1
      key == DeriveKey(m.salt, salt)
      ack == [Message("Ack", AckId, "None", w.stale) EXCEPT !.salt = salt, !.proof = key]
  IN  [w EXCEPT !.c.remote = PubKey, !.c.key = key, !.c.acking = TRUE, !.reply = <<ack>>]

(* handle_negotiation, an Ack: derive the key from the salt that was kept,
   check that the remote end has the same, and let queued messages go. *)
HandleAck(w, m) ==
  LET key == DeriveKey(w.c.remote, m.salt)
      v == [w EXCEPT !.c.remote = PubKey, !.c.key = key]
  IN  IF m.proof # key THEN Fail(v, "Decryption")
      ELSE [EnableWritable(v) EXCEPT !.c.negotiated = TRUE, !.c.writeState = "Idle"]

HandlePing(w, m) ==
  IF m.body = "Ping" THEN [w EXCEPT !.reply = <<Message("Ping", m.id, "Pong", w.stale)>>]
  ELSE Fail(w, "bad ping")

HandlePong(w, m) == IF m.body = "Pong" THEN w ELSE Fail(w, "bad pong")

(* forward_2 hands the packet to the actor and ends the connection. *)
Forward2(w, m) == Fail(w, "bad TRX")

CodeSwitcher(w, m) ==
  CASE m.code = "Ping" -> HandlePing(w, m)
    [] m.code = "Syn" -> HandleSyn(w, m)
    [] m.code = "Ack" -> HandleAck(w, m)
    [] m.code = "Blockchain" -> Forward2(w, m)

-----------------------------------------------------------------------------
(* on_readable *)

(* The response handler of the id, or the handler of the code. *)
DispatchPacket(w, m) ==
  IF m.id \in w.c.handlers
    THEN HandlePong([w EXCEPT !.c.handlers = @ \ {m.id}], m)
    ELSE CodeSwitcher(w, m)

(* Unread units of the packet that has been read are counted from its end. *)
DropPacket(p) ==
  [p EXCEPT !.pkts = Tail(@), !.sent = @ - PacketLen, !.here = @ - PacketLen,
            !.read = @ - PacketLen]

(* process_packet: one packet per event; what follows it in the socket waits
   for another edge. *)
ProcessPacket(w) ==
  LET m == Head(w.in.pkts).msg
      v == DispatchPacket([w EXCEPT !.in = DropPacket(@), !.got = m.num], m)
      u == IF v.reply = <<>> THEN v
           ELSE [EnqueueMsg(v, Head(v.reply)) EXCEPT !.reply = <<>>]
      t == IF v.reply # <<>> /\ u.c.writeState = "Idle" THEN EnableWritable(u) ELSE u
  IN  IF ~w.c.negotiated /\ m.code \notin {"Syn", "Ack"} THEN Fail(w, "Unauthorized")
      ELSE IF v.err # "ok" THEN v
      ELSE [t EXCEPT !.c.readPos = 0, !.c.readState = "ReadingPrefix"]

(* read() takes what is there, up to what is asked for. *)
Take(w, n) ==
  [w EXCEPT !.in.read = @ + n, !.in.blocked = FALSE, !.room = @ \/ w.in.blocked,
            !.c.readPos = @ + n]

(* A read of an empty socket: WouldBlock, or the end of the stream. *)
NothingToRead(w) == IF w.eof THEN Fail(w, "ConnectionAborted") ELSE w

(* read_body, and process_packet when the body is complete. A sealed packet
   that is read raw has a code that is neither Syn nor Ack. *)
ReadBody(w) ==
  LET n == MinOf(Available(w.in), BodyLen - w.c.readPos)
      v == Take(w, n)
  IN  IF n = 0 \/ v.c.readPos < BodyLen THEN NothingToRead(v)
      ELSE IF Unmarshals(v.c, Head(v.in.pkts)) THEN ProcessPacket(v)
      ELSE Fail(v, IF v.c.negotiated THEN "Decryption" ELSE "Unauthorized")

(* read_prefix reads to the front of the buffer even when a part of the
   prefix is there: the length is noise then, and the connection waits for a
   packet that nobody sends. *)
ReadPrefix(w) ==
  LET n == MinOf(Available(w.in), PrefixLen)
      v == Take(w, n)
  IN  IF n = 0 \/ v.c.readPos < PrefixLen THEN NothingToRead(v)
      ELSE IF w.c.readPos > 0 THEN [v EXCEPT !.c.readState = "Garbled"]
      ELSE ReadBody([v EXCEPT !.c.readPos = 0, !.c.readState = "Reading"])

OnReadable(w) ==
  CASE w.c.readState = "ReadingPrefix" -> ReadPrefix(w)
    [] w.c.readState = "Reading" -> ReadBody(w)
    [] w.c.readState = "Garbled" -> NothingToRead(Take(w, Available(w.in)))
    [] w.c.readState = "None" -> Fail(w, "ReadState == None")

-----------------------------------------------------------------------------
(* on_writable *)

(* idle_write takes a message from the queue. The packet is written at the
   next event. *)
IdleWrite(w) ==
  IF w.c.outbound = <<>> THEN DisableWritable(w)
  ELSE [w EXCEPT !.c.writing = Head(w.c.outbound), !.c.outbound = Tail(@),
                 !.c.writeState = "Writing"]

(* Mistake: the queue goes on before the negotiation is over. *)
WrittenUnguarded(w) ==
  LET v == [w EXCEPT
              !.c.writePos = 0, !.c.marshalled = FALSE, !.c.writeState = "Idle",
              !.c.handlers = IF w.c.writing.handler THEN @ \cup {w.c.writing.id} ELSE @,
              !.c.writing = NoMessage,
              !.c.negotiated = @ \/ w.c.acking, !.c.acking = FALSE]
  IN  IF v.c.outbound = <<>> THEN DisableWritable(v) ELSE v

(* Mistake: nobody waits for the response. *)
WrittenNoHandler(w) ==
  LET v == [w EXCEPT
              !.c.writePos = 0, !.c.marshalled = FALSE, !.c.writeState = "Idle",
              !.c.writing = NoMessage,
              !.c.negotiated = @ \/ w.c.acking, !.c.acking = FALSE]
  IN  IF v.c.outbound = <<>> \/ ~v.c.negotiated THEN DisableWritable(v) ELSE v

(* The end of write_packet: register the response handler, finish a
   negotiation, and stop asking for writability. *)
Written(w) ==
  LET v == [w EXCEPT
              !.c.writePos = 0, !.c.marshalled = FALSE, !.c.writeState = "Idle",
              !.c.handlers = IF w.c.writing.handler THEN @ \cup {w.c.writing.id} ELSE @,
              !.c.writing = NoMessage,
              !.c.negotiated = @ \/ w.c.acking, !.c.acking = FALSE]
  IN  IF v.c.outbound = <<>> \/ ~v.c.negotiated THEN DisableWritable(v) ELSE v

(* A packet is marshalled once, with the key that the connection has then. *)
Marshal(w) ==
  IF w.c.marshalled THEN w
  ELSE [w EXCEPT
          !.c.marshalled = TRUE,
          !.out.pkts = Append(@, IF w.c.negotiated
                                   THEN EncryptMarshal(w.c.writing, w.c.key)
                                   ELSE RawMarshal(w.c.writing))]

(* Mistake: nobody asks for the room that is needed to go on. *)
WritePacketGivesUp(w) ==
  LET u == Marshal(w)
      n == MinOf(Room(u.out), PacketLen - u.c.writePos)
      v == [u EXCEPT !.out.sent = @ + n, !.c.writePos = @ + n]
  IN  IF v.c.writePos < PacketLen
        THEN [DisableWritable(v) EXCEPT !.out.blocked = TRUE]
        ELSE Written(v)

(* write_packet writes until it is done or the socket is full. *)
WritePacket(w) ==
  LET u == Marshal(w)
      n == MinOf(Room(u.out), PacketLen - u.c.writePos)
      v == [u EXCEPT !.out.sent = @ + n, !.c.writePos = @ + n]
  IN  IF v.c.writePos < PacketLen THEN [v EXCEPT !.out.blocked = TRUE] ELSE Written(v)

OnWritable(w) ==
  CASE w.c.writeState = "Idle" -> IdleWrite(w)
    [] w.c.writeState = "Writing" -> WritePacket(w)
    [] w.c.writeState = "None" -> Fail(w, "Writestate == None")

-----------------------------------------------------------------------------
(* The server around the connections. *)

World(e, stale) ==
  [c |-> conn[e], out |-> pipe[e], in |-> pipe[Other(e)], armed |-> FALSE, room |-> FALSE,
   err |-> "ok", reply |-> <<>>, got |-> got[e], num |-> num[e], stale |-> stale,
   eof |-> life[Other(e)] = "closed"]

(* get_new_msg resets the body of a free message and not its handler. *)
StaleHandler(e) == IF leftover[e] THEN BOOLEAN ELSE {FALSE}

HasHandler(c) == \E i \in DOMAIN c.outbound : c.outbound[i].handler

(* What an event leaves: the connection goes on, or is removed and reset; its
   socket is closed then, which the other end will see. *)
Finish(e, w) ==
  /\ pipe' = [pipe EXCEPT ![e] = w.out, ![Other(e)] = w.in]
  /\ got' = [got EXCEPT ![e] = w.got]
  /\ num' = [num EXCEPT ![e] = w.num]
  /\ IF w.err = "ok"
       THEN /\ conn' = [conn EXCEPT ![e] = w.c]
            /\ armed' = [armed EXCEPT ![e] = w.armed, ![Other(e)] = @ \/ w.room]
            /\ UNCHANGED <<life, err, leftover>>
       ELSE /\ conn' = [conn EXCEPT ![e] = Reset(w.c)]
            /\ life' = [life EXCEPT ![e] = "closed"]
            /\ armed' = [armed EXCEPT ![e] = FALSE, ![Other(e)] = life[Other(e)] = "open"]
            /\ err' = [err EXCEPT ![e] = w.err]
            /\ leftover' = [leftover EXCEPT ![e] = @ \/ HasHandler(w.c)]

(* An event of the connection in NetServer::start. The poll also notices that
   a socket has no room, so that room is reported later. *)
Event(e) ==
  /\ life[e] = "open"
  /\ armed[e]
  /\ \E stale \in StaleHandler(e) :
       LET w == World(e, stale)
           seen == [w EXCEPT !.out.blocked = @ \/ Room(w.out) = 0]
           isWritable == w.c.writable /\ Room(w.out) > 0
           isReadable == Available(w.in) > 0 \/ w.eof
           v == IF isWritable THEN OnWritable(seen) ELSE seen
       IN  \/ Finish(e, IF v.err = "ok" /\ isReadable THEN OnReadable(v) ELSE v)
           \/ w.eof /\ Finish(e, Fail(w, "SocketFailed"))
  /\ UNCHANGED <<sends, dials>>

(* A message of another actor; its id is the one of the free message it is
   made from. *)
IdsInUse ==
  UNION {conn[e].handlers \cup {conn[e].writing.id}
           \cup {conn[e].outbound[i].id : i \in DOMAIN conn[e].outbound}
           \cup {pipe[e].pkts[i].msg.id : i \in DOMAIN pipe[e].pkts} : e \in Ends}

Outgoing ==
  {Message("Ping", id, "Ping", TRUE) : id \in IF "reuse" \in Env THEN Ids ELSE Ids \ IdsInUse}
    \cup (IF "data" \in Env THEN {Message("Blockchain", 0, "Trx", FALSE)} ELSE {})

(* handle_outbound on a connection that exists. The acceptor's actors learn
   the connection's token from a packet, after the negotiation. *)
Send(e) ==
  /\ life[e] = "open"
  /\ sends < MaxSends
  /\ e = "acceptor" /\ "early" \notin Env => conn[e].negotiated
  /\ \E m \in Outgoing :
       LET w == EnqueueMsg(World(e, FALSE), m)
       IN  /\ conn' = [conn EXCEPT ![e] = w.c]
           /\ num' = [num EXCEPT ![e] = w.num]
           /\ armed' = [armed EXCEPT ![e] = @ \/ w.armed]
  /\ sends' = sends + 1
  /\ UNCHANGED <<life, pipe, err, got, leftover, dials>>

(* handle_outbound without a connection: handle_new dials, registers for both
   kinds of events and queues the Syn; then the message is queued. *)
Dial ==
  /\ \A e \in Ends : life[e] # "open"
  /\ dials < MaxDials
  /\ sends < MaxSends
  /\ \E m \in Outgoing, stale \in StaleHandler("dialler") :
       LET c == [Initialize(conn["dialler"], PubKey) EXCEPT !.writable = TRUE]
           w == [World("dialler", stale) EXCEPT !.c = c, !.num = 0]
           v == EnqueueMsg(InitiateNegotiation(w, 2 * dials + 1), m)
       IN  /\ conn' = [conn EXCEPT !["dialler"] = v.c]
           /\ num' = [e \in Ends |-> IF e = "dialler" THEN v.num ELSE 0]
  /\ life' = [e \in Ends |-> IF e = "dialler" THEN "open" ELSE "none"]
  /\ armed' = [e \in Ends |-> e = "dialler"]
  /\ pipe' = [e \in Ends |-> NoPipe]
  /\ got' = [e \in Ends |-> 0]
  /\ sends' = sends + 1
  /\ dials' = dials + 1
  /\ err' = [e \in Ends |-> "ok"]
  /\ UNCHANGED leftover

(* The listener's event: handle_new registers for reading. *)
Accept ==
  /\ life["acceptor"] = "none" /\ dials > 0
  /\ conn' = [conn EXCEPT !["acceptor"] = [Initialize(@, 0) EXCEPT !.writable = FALSE]]
  /\ life' = [life EXCEPT !["acceptor"] = "open"]
  /\ armed' = [armed EXCEPT !["acceptor"] = TRUE]
  /\ UNCHANGED <<pipe, err, got, num, sends, leftover, dials>>

(* handle_timeouts closes an idle connection. *)
Expire(e) ==
  /\ "expire" \in Env
  /\ life[e] = "open"
  /\ Finish(e, Fail(World(e, FALSE), "expired"))
  /\ UNCHANGED <<sends, dials>>

(* Data reaches the other end's socket in pieces. Unless "split" is allowed,
   a prefix arrives in one piece. *)
Arrive(e) ==
  /\ life[Other(e)] # "closed"
  /\ \E k \in (pipe[e].here + 1) .. pipe[e].sent :
       /\ "split" \notin Env => k % PacketLen = 0 \/ k % PacketLen >= PrefixLen
       /\ pipe' = [pipe EXCEPT ![e].here = k]
  /\ armed' = [armed EXCEPT ![Other(e)] = life[Other(e)] = "open"]
  /\ UNCHANGED <<conn, life, err, got, num, sends, leftover, dials>>

(* epoll may report a socket again. *)
Wake(e) ==
  /\ "wake" \in Env
  /\ life[e] = "open" /\ ~armed[e]
  /\ armed' = [armed EXCEPT ![e] = TRUE]
  /\ UNCHANGED <<conn, life, pipe, err, got, num, sends, leftover, dials>>

Init ==
  /\ conn = [e \in Ends |-> New]
  /\ life = [e \in Ends |-> "none"]
  /\ pipe = [e \in Ends |-> NoPipe]
  /\ armed = [e \in Ends |-> FALSE]
  /\ err = [e \in Ends |-> "ok"]
  /\ got = [e \in Ends |-> 0]
  /\ num = [e \in Ends |-> 0]
  /\ sends = 0
  /\ leftover = [e \in Ends |-> FALSE]
  /\ dials = 0

Next ==
  \/ Dial \/ Accept
  \/ \E e \in Ends : Event(e) \/ Send(e) \/ Expire(e) \/ Arrive(e) \/ Wake(e)

(* The server's thread handles the events that poll reports, and the network
   delivers what was written. Nobody has to send anything, and epoll does not
   have to report a socket twice. *)
Spec ==
  /\ Init /\ [][Next]_vars
  /\ WF_vars(Accept)
  /\ \A e \in Ends :
       /\ []<>~(life[e] = "open" /\ armed[e]) \/ []<><<Event(e)>>_vars
       /\ WF_vars(Arrive(e))

-----------------------------------------------------------------------------
(* Properties. *)

Codes == {"None", "Syn", "Ack", "Ping", "Blockchain"}

(* The fields of a connection keep their types, and no more units are in
   flight than sockets hold. *)
TypeOK ==
  \A e \in Ends :
    /\ conn[e].readState \in {"ReadingPrefix", "Reading", "Garbled", "None"}
    /\ conn[e].writeState \in {"Idle", "Writing", "None"}
    /\ conn[e].readPos \in 0 .. PacketLen
    /\ conn[e].writePos \in 0 .. PacketLen
    /\ conn[e].writing.code \in Codes
    /\ 0 <= pipe[e].read /\ pipe[e].read <= pipe[e].here
    /\ pipe[e].here <= pipe[e].sent /\ pipe[e].sent - pipe[e].read <= SockCap
    /\ life[e] \in {"none", "open", "closed"}

(* Two nodes that run this code never see an error of the protocol: every
   packet decrypts, the negotiation has the same key at both ends, a response
   finds its handler and a request does not, and no state is missing. An end
   is closed because the other one was, because it was idle, or because a
   packet was forwarded (forward_2 always answers with an error). *)
NoProtocolError ==
  \A e \in Ends :
    /\ err[e] \in {"ok", "expired", "ConnectionAborted", "SocketFailed", "bad TRX"}
    /\ conn[e].readState # "Garbled"

(* Only the two packets of the negotiation travel in the clear; pings and
   transactions that were queued before it was over wait for the key. *)
Confidential ==
  \A e \in Ends : \A i \in DOMAIN pipe[e].pkts :
    (pipe[e].pkts[i].seal = NoKey) <=> (pipe[e].pkts[i].msg.code \in {"Syn", "Ack"})

(* The key of an end that has negotiated belongs to this connection, also when
   the object was recycled, and the dialler only has one when the acceptor has
   the same and uses it. *)
KeysAgree ==
  /\ \A e \in Ends : conn[e].negotiated => conn[e].key = DeriveKey(2 * dials - 1, 2 * dials)
  /\ conn["dialler"].negotiated /\ life["acceptor"] = "open" => conn["acceptor"].negotiated

(* Packets are handled in the order in which their messages were queued, each
   once, none skipped, whatever pieces they arrive in. *)
InOrder ==
  [][\A e \in Ends : got'[e] # got[e] => got'[e] = got[e] + 1 \/ got'[e] = 0]_vars

(* A packet that an end has begun to read is read to its end or the
   connection closes: the writer resumes when the reader has made room. *)
PartialReadCompletes ==
  \A e \in Ends :
    conn[e].readState = "Reading" ~> conn[e].readState # "Reading"

(* The comment in initiate_negotiation: the dial loops back into writing the
   Syn, and then waits for the answer. *)
SynWritten ==
  life["dialler"] = "open" ~> pipe["dialler"].sent > 0 \/ got["acceptor"] > 0

(* A packet that has arrived completely is handled or the connection closes. *)
ArrivedIsHandled ==
  \A e \in Ends :
    Available(pipe[e]) >= PacketLen ~> Available(pipe[e]) < PacketLen
=============================================================================
