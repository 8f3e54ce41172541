------------------------------- MODULE MCAdmin ------------------------------
(***************************************************************************)
(* One bootstrap, and requests whose bodies NETWORKER takes for the        *)
(* bootstrap's address, 127.0.0.1, and for others.                         *)
(***************************************************************************)
EXTENDS Admin

Local == <<127, 0, 0, 1>>
MCIps == {Local}

Shifted == <<<<9, 1, 0, 0>>, <<127, 0, 0, 0>>>>

MCRequests ==
  {[code |-> c, ips |-> Shifted] : c \in {"AddPeer", "RemovePeer"}}
    \cup {[code |-> "AddPeer", ips |-> <<>>], [code |-> "None", ips |-> <<Local>>]}

(* The bodies NETWORKER is to expect: the addresses after an empty header. *)
MCBodies == {[i \in 1 .. PadLen |-> 0] \o AddressBytes(r.ips) : r \in MCRequests}
=============================================================================
