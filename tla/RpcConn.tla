------------------------------ MODULE RpcConn -------------------------------
(***************************************************************************)
(* A connection of the RPC server (src/rpc/connection.rs): requests with a *)
(* header and a body are read in pieces and become internal messages for   *)
(* NETWORKER. One client connects, sends requests and may connect again.   *)
(*                                                                         *)
(* A stream is counted in units: HeaderLen for the header of a request and *)
(* one for each address of its body. As in PeerConn, armed says that epoll *)
(* will report the socket. An event runs on_readable one read at a time,   *)
(* while more data may arrive.                                             *)
(***************************************************************************)
EXTENDS Integers, Sequences, FiniteSets

CONSTANTS
  Requests,     \* what a client can send: [code, ips]
  HeaderLen,    \* units of HEADER_LEN
  PadLen,       \* PREFIX_LEN + HEADER_LEN of a packet: what reset leaves
  MaxRequests,  \* bound: requests sent
  MaxConns      \* bound: connections made

ASSUME RpcAssumption ==
  /\ {HeaderLen, PadLen, MaxRequests, MaxConns} \subseteq Nat
  /\ HeaderLen > 0

VARIABLES
  rpc,       \* the RpcConn: [readState, readPos, code]
  live,      \* the connection is in the server's map
  running,   \* an event is in on_readable
  edge,      \* the socket is on the ready list
  eof,       \* the client has closed its side
  stream,    \* requests that are not completely read
  sent,      \* units of stream that the client has written,
  here,      \* that have arrived,
  read,      \* and that the connection has read
  internal,  \* messages for NETWORKER, in the order of enqueue_internal
  counts     \* [requests, conns] made so far

rpcVars == <<rpc, live, running, edge, eof, stream, sent, here, read, internal, counts>>

Length(r) == HeaderLen + Len(r.ips)

(* RpcConn::new, and what reset leaves: initialize changes neither. *)
NewConn == [readState |-> "ReadingHeader", readPos |-> 0, code |-> "None"]

Reset(c) == NewConn

(* The bytes of addresses, four each *)
AddressBytes(ips) == [i \in 1 .. 4 * Len(ips) |-> ips[((i - 1) \div 4) + 1][((i - 1) % 4) + 1]]

(* Mistake: the addresses are written over the room for the header. *)
FillOverHeader(num, code, ips) == [num |-> num, code |-> code, body |-> AddressBytes(ips)]

(* NetMsgInner::fill_for_internal: reset leaves the room for the prefix and the
   header of a packet in the body, and the addresses follow. *)
FillForInternal(num, code, ips) ==
  [num |-> num, code |-> code, body |-> [i \in 1 .. PadLen |-> 0] \o AddressBytes(ips)]

-----------------------------------------------------------------------------
(* The client and the network. *)

(* handle_new: every client is allowed. *)
Connect ==
  /\ ~live
  /\ counts.conns < MaxConns
  /\ live' = TRUE
  /\ rpc' = Reset(rpc)
  /\ stream' = <<>> /\ sent' = 0 /\ here' = 0 /\ read' = 0
  /\ edge' = FALSE /\ eof' = FALSE
  /\ counts' = [counts EXCEPT !.conns = @ + 1]
  /\ UNCHANGED <<running, internal>>

SendRequest(r) ==
  /\ live /\ ~eof
  /\ counts.requests < MaxRequests
  /\ stream' = Append(stream, [num |-> counts.requests + 1, code |-> r.code, ips |-> r.ips])
  /\ sent' = sent + Length(r)
  /\ counts' = [counts EXCEPT !.requests = @ + 1]
  /\ UNCHANGED <<rpc, live, running, edge, eof, here, read, internal>>

Arrive ==
  /\ live
  /\ here' \in (here + 1) .. sent
  /\ edge' = TRUE
  /\ UNCHANGED <<rpc, live, running, eof, stream, sent, read, internal, counts>>

(* The end of the stream arrives after all the data. *)
HangUp ==
  /\ live /\ ~eof
  /\ here = sent
  /\ eof' = TRUE
  /\ edge' = TRUE
  /\ UNCHANGED <<rpc, live, running, stream, sent, here, read, internal, counts>>

-----------------------------------------------------------------------------
(* on_readable *)

Event ==
  /\ live /\ edge /\ ~running
  /\ edge' = FALSE
  /\ running' = TRUE
  /\ UNCHANGED <<rpc, live, eof, stream, sent, here, read, internal, counts>>

(* An error: the connection is removed and reset. *)
Close ==
  /\ live' = FALSE
  /\ running' = FALSE
  /\ edge' = FALSE
  /\ rpc' = Reset(rpc)
  /\ UNCHANGED <<eof, stream, sent, here, read, internal, counts>>

NoState ==
  /\ running
  /\ rpc.readState = "None"
  /\ Close

(* Nothing to read. *)
Dry ==
  /\ running
  /\ rpc.readState \in {"ReadingHeader", "ReadingBody"}
  /\ here = read

(* A read that would block leaves read_state taken. *)
WouldBlock ==
  /\ Dry /\ ~eof
  /\ rpc' = [rpc EXCEPT !.readState = "None"]
  /\ running' = FALSE
  /\ UNCHANGED <<live, edge, eof, stream, sent, here, read, internal, counts>>

EndOfStream ==
  /\ Dry /\ eof
  /\ Close

(* Mistake: a short read is taken for the whole header. *)
ReadHeaderOnce ==
  /\ running
  /\ rpc.readState = "ReadingHeader"
  /\ here > read
  /\ LET n == IF here - read < HeaderLen - rpc.readPos THEN here - read
              ELSE HeaderLen - rpc.readPos
     IN  /\ read' = read + n
         /\ rpc' = [readState |-> "ReadingBody", readPos |-> 0, code |-> Head(stream).code]
         /\ UNCHANGED running
  /\ UNCHANGED <<live, edge, eof, stream, sent, here, internal, counts>>

ReadHeader ==
  /\ running
  /\ rpc.readState = "ReadingHeader"
  /\ here > read
  /\ LET n == IF here - read < HeaderLen - rpc.readPos THEN here - read
              ELSE HeaderLen - rpc.readPos
     IN  /\ read' = read + n
         /\ IF rpc.readPos + n < HeaderLen
              THEN rpc' = [rpc EXCEPT !.readPos = @ + n] /\ running' = FALSE
              ELSE /\ rpc' = [readState |-> "ReadingBody", readPos |-> 0,
                              code |-> Head(stream).code]
                   /\ UNCHANGED running
  /\ UNCHANGED <<live, edge, eof, stream, sent, here, internal, counts>>

(* A body of length zero reads as the end of the stream, unless the socket is
   empty: then the read of nothing would block. *)
EmptyBody ==
  /\ running
  /\ rpc.readState = "ReadingBody"
  /\ here > read /\ Len(Head(stream).ips) = 0
  /\ Close

(* Mistake: on_readable returns after a short read of a complete body. *)
ReadBodyBreaks ==
  /\ running
  /\ rpc.readState = "ReadingBody"
  /\ here > read /\ Len(Head(stream).ips) > 0
  /\ LET want == Len(Head(stream).ips) - rpc.readPos
         n == IF here - read < want THEN here - read ELSE want
     IN  /\ read' = read + n
         /\ rpc' = IF n < want THEN [rpc EXCEPT !.readPos = @ + n]
                   ELSE [rpc EXCEPT !.readPos = 0, !.readState = "Processing"]
         /\ running' = FALSE
  /\ UNCHANGED <<live, edge, eof, stream, sent, here, internal, counts>>

ReadBody ==
  /\ running
  /\ rpc.readState = "ReadingBody"
  /\ here > read /\ Len(Head(stream).ips) > 0
  /\ LET want == Len(Head(stream).ips) - rpc.readPos
         n == IF here - read < want THEN here - read ELSE want
     IN  /\ read' = read + n
         /\ IF n < want
              THEN rpc' = [rpc EXCEPT !.readPos = @ + n] /\ running' = FALSE
              ELSE /\ rpc' = [rpc EXCEPT !.readPos = 0, !.readState = "Processing"]
                   /\ UNCHANGED running
  /\ UNCHANGED <<live, edge, eof, stream, sent, here, internal, counts>>

(* Mistake: the newest message goes first. *)
ProcessingFront ==
  /\ running
  /\ rpc.readState = "Processing"
  /\ LET r == Head(stream)
     IN  /\ internal' = IF rpc.code = "None" THEN internal
                        ELSE <<FillForInternal(r.num, rpc.code, r.ips)>> \o internal
         /\ stream' = Tail(stream)
         /\ sent' = sent - Length(r)
         /\ here' = here - Length(r)
         /\ read' = read - Length(r)
  /\ rpc' = NewConn
  /\ UNCHANGED <<live, running, edge, eof, counts>>

(* The request becomes a message for NETWORKER, and the loop goes on with the
   next header. *)
Processing ==
  /\ running
  /\ rpc.readState = "Processing"
  /\ LET r == Head(stream)
     IN  /\ internal' = IF rpc.code = "None" THEN internal
                        ELSE Append(internal, FillForInternal(r.num, rpc.code, r.ips))
         /\ stream' = Tail(stream)
         /\ sent' = sent - Length(r)
         /\ here' = here - Length(r)
         /\ read' = read - Length(r)
  /\ rpc' = NewConn
  /\ UNCHANGED <<live, running, edge, eof, counts>>

RpcInit ==
  /\ rpc = NewConn
  /\ live = FALSE /\ running = FALSE /\ edge = FALSE /\ eof = FALSE
  /\ stream = <<>> /\ sent = 0 /\ here = 0 /\ read = 0
  /\ internal = <<>>
  /\ counts = [requests |-> 0, conns |-> 0]

OnReadable ==
  \/ NoState \/ WouldBlock \/ EndOfStream \/ ReadHeader \/ EmptyBody \/ ReadBody \/ Processing

RpcStep ==
  \/ Connect \/ Arrive \/ HangUp \/ Event \/ OnReadable
  \/ \E r \in Requests : SendRequest(r)

-----------------------------------------------------------------------------
(* Properties. *)

(* The position in a request never passes the end of what is being read. *)
RpcTypeOK ==
  /\ rpc.readState \in {"ReadingHeader", "ReadingBody", "Processing", "None"}
  /\ 0 <= read /\ read <= here /\ here <= sent
  /\ rpc.readState = "ReadingHeader" => rpc.readPos \in 0 .. HeaderLen - 1
  /\ running => live

(* Requests keep their frames whatever pieces they arrive in: the position of
   the connection in its request is that of the stream, and a request is
   processed when exactly its bytes have been read. *)
Framed ==
  live =>
    /\ rpc.readState = "ReadingHeader" => read = rpc.readPos
    /\ rpc.readState = "ReadingBody" => read = HeaderLen + rpc.readPos
    /\ rpc.readState = "Processing" => read = Length(Head(stream))
=============================================================================
