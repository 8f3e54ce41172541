------------------------------- MODULE Admin --------------------------------
(***************************************************************************)
(* A client of the RPC server changes the table of peers that NETWORKER    *)
(* accepts connections by: RpcConn and Peers in one process, joined by the *)
(* queue of internal messages. NETWORKER pops it in the order of           *)
(* enqueue_internal (Dispatch says when that is so).                       *)
(***************************************************************************)
EXTENDS Peers, RpcConn

(* NETWORKER is to expect the addresses of the requests after an empty header. *)
ASSUME AdminAssumption ==
  /\ Requests \subseteq [code : NetManCodes \cup {"None"}, ips : Seq(Seq(Octets))]
  /\ \A r \in Requests : [i \in 1 .. PadLen |-> 0] \o AddressBytes(r.ips) \in Bodies

VARIABLE
  applied   \* number of the last request that NETWORKER has applied

vars == <<peerVars, rpcVars, applied>>

Init == PeersInit /\ RpcInit /\ applied = 0

(* The process ends with all its actors. *)
EndRpc ==
  /\ live' = FALSE /\ running' = FALSE /\ edge' = FALSE /\ eof' = FALSE
  /\ rpc' = NewConn
  /\ stream' = <<>> /\ sent' = 0 /\ here' = 0 /\ read' = 0
  /\ internal' = <<>>
  /\ UNCHANGED counts

NodeEnds == (Stop \/ Crash) /\ EndRpc /\ UNCHANGED applied

NodeStarts == Start /\ UNCHANGED <<rpcVars, applied>>

PeerActs ==
  /\ \E ip \in Ips : Accept(ip) \/ Dial(ip) \/ \E error \in Errors : Errored(ip, error)
  /\ UNCHANGED <<rpcVars, applied>>

(* NETWORKER pops a message of RPC. *)
Networker ==
  /\ internal # <<>>
  /\ HandleInternal(Head(internal).code, Head(internal).body)
  /\ internal' = Tail(internal)
  /\ applied' = Head(internal).num
  /\ UNCHANGED <<rpc, live, running, edge, eof, stream, sent, here, read, counts>>

RpcServer == status = "up" /\ RpcStep /\ UNCHANGED <<peerVars, applied>>

Next == NodeEnds \/ NodeStarts \/ PeerActs \/ Networker \/ RpcServer

HandleEvent == status = "up" /\ (Event \/ OnReadable) /\ UNCHANGED <<peerVars, applied>>

(* The threads of the two servers run while the process does. *)
Spec == Init /\ [][Next]_vars /\ WF_vars(HandleEvent) /\ WF_vars(Networker)

-----------------------------------------------------------------------------
(* Both components keep their types. *)
TypeOK == PeersTypeOK /\ RpcTypeOK /\ applied \in 0 .. MaxRequests

(* All that the composition does to the table is a step of PeersSpec: what is
   proved of PeersSpec holds of the node. *)
ImplementsPeers == PeersSpec

(* Requests are applied in the order in which they were sent, none twice,
   also when the client connects again. *)
AppliedInOrder == [][applied' # applied => applied' > applied]_vars

(* A request with addresses that has arrived completely while its connection
   reads its header is applied, unless the process ends first. *)
WholeRequestApplied ==
  \A n \in 1 .. MaxRequests :
    /\ live /\ rpc.readState = "ReadingHeader"
    /\ stream # <<>> /\ Head(stream).num = n /\ here >= Length(Head(stream))
    /\ Head(stream).code # "None" /\ Head(stream).ips # <<>>
    ~> applied >= n \/ status # "up"

(* A request that has arrived is applied, unless the process ends first. *)
RequestApplied ==
  \A n \in 1 .. MaxRequests :
    /\ live /\ stream # <<>> /\ Head(stream).num = n /\ here >= Length(Head(stream))
    /\ Head(stream).code # "None" /\ Head(stream).ips # <<>>
    ~> applied >= n \/ status # "up"

(* A client that adds an address makes it known, in one order of its octets
   or the other. *)
AddMakesKnown ==
  [][\A r \in Requests :
       internal # <<>> /\ internal' = Tail(internal) /\ r.code = "AddPeer"
       /\ Head(internal) = FillForInternal(Head(internal).num, "AddPeer", r.ips) =>
         \A i \in DOMAIN r.ips :
           \E ip \in DOMAIN peers' : \/ ip = r.ips[i]
                                     \/ \A j \in 1 .. 4 : ip[j] = r.ips[i][5 - j]]_vars
=============================================================================
