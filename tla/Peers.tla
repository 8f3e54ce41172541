------------------------------- MODULE Peers --------------------------------
(***************************************************************************)
(* The table of known peers and their scores (PeerMan, src/peer_net/       *)
(* peers.rs) as NETWORKER uses it (src/peer_net/mod.rs): connections are   *)
(* accepted from peers below the threshold, errors add to the score, the   *)
(* RPC actor adds and removes addresses, and the table is kept in a file   *)
(* that is written when the process ends in order.                         *)
(*                                                                         *)
(* An address is its four octets. Scores are u16 and wrap at ScoreMod (a   *)
(* debug build panics instead).                                            *)
(***************************************************************************)
EXTENDS Integers, Sequences, FiniteSets

CONSTANTS
  Ips,         \* addresses that connect or are dialled
  Bootstraps,  \* config: addresses known at the start
  Threshold,   \* config: peer_threshold
  ScoreMod,    \* 2^16
  MaxOpen,     \* bound: connections accepted from an address at a time
  MaxDials,    \* bound: connections dialled
  Bodies       \* bodies of the internal messages that reach NETWORKER

Octets == 0 .. 255
Errors == {"Unauthorized", "MalformedPrefix", "Decryption", "Other"}
NetManCodes == {"AddPeer", "RemovePeer"}

(* The worst an error can cost. *)
MaxScore == 30

(* MaxOpen stands for the limit on descriptors and MaxDials for the dials to a
   banned address in the life of the table: handle_outbound does not ask
   is_banned. With a threshold of 200 they may add up to 2177. *)
ASSUME PeersAssumption ==
  /\ Bootstraps \subseteq Ips /\ Ips \subseteq Seq(Octets)
  /\ {Threshold, ScoreMod, MaxOpen, MaxDials} \subseteq Nat
  /\ Threshold > 0
  /\ Threshold + MaxScore * (MaxOpen + MaxDials) <= ScoreMod
  /\ Bodies \subseteq Seq(Octets)

VARIABLES
  peers,    \* address -> score
  file,     \* the records of the file
  status,   \* "up", "down", or "refused": new has failed
  open,     \* address -> connections to and from it
  dialled   \* connections dialled so far

peerVars == <<peers, file, status, open, dialled>>

Known == DOMAIN peers

-----------------------------------------------------------------------------
(* NetError::to_score *)
ToScore(error) ==
  [Unauthorized |-> 30, MalformedPrefix |-> 20, Decryption |-> 10, Other |-> 0][error]

(* new seeks from where the last record ended, by the offset that record i
   has from the first one. *)
ReadAt(i) == i + (i * (i + 1)) \div 2

Readable(records) == \A i \in 0 .. Len(records) - 1 : ReadAt(i) < Len(records)

(* Mistake: the bootstraps start with a clean record every time. *)
LoadedClean(records) ==
  LET stored == {i \in DOMAIN records : records[i].ip \notin Bootstraps}
  IN  [ip \in {records[i].ip : i \in stored} \cup Bootstraps |->
         IF ip \in Bootstraps THEN 0
         ELSE records[CHOOSE i \in stored : records[i].ip = ip].score]

(* What new makes of a file: the records it reads, and the bootstraps that
   are not among them. *)
Loaded(records) ==
  LET read == {ReadAt(i) + 1 : i \in 0 .. Len(records) - 1}
      ips == {records[i].ip : i \in read}
  IN  [ip \in ips \cup Bootstraps |->
         IF ip \in ips THEN records[CHOOSE i \in read : records[i].ip = ip].score ELSE 0]

(* PeerMan::new. When it fails, so does start_peer_networker. *)
Start ==
  /\ status = "down"
  /\ IF Readable(file)
       THEN status' = "up" /\ peers' = Loaded(file)
       ELSE status' = "refused" /\ UNCHANGED peers
  /\ UNCHANGED <<file, open, dialled>>

(* A file holds the table if it has one record for each address, in the
   order of the hash map. *)
Holds(records, table) ==
  /\ {records[i].ip : i \in DOMAIN records} = DOMAIN table
  /\ \A i \in DOMAIN records : records[i].score = table[records[i].ip]
  /\ \A i, j \in DOMAIN records : records[i].ip = records[j].ip => i = j

(* The files that hold a table. *)
Saved(table) ==
  LET records == {[ip |-> ip, score |-> table[ip]] : ip \in DOMAIN table}
  IN  {f \in UNION {[1 .. n -> records] : n \in 0 .. Cardinality(records)} : Holds(f, table)}

(* A process that ends loses its memory and its sockets. *)
Forget ==
  /\ peers' = [ip \in {} |-> 0]
  /\ open' = [ip \in Ips |-> 0]

(* should_shutdown ends the loop of the server, and Drop writes the file. *)
Stop ==
  /\ status = "up"
  /\ status' = "down"
  /\ file' \in Saved(peers)
  /\ Forget
  /\ UNCHANGED dialled

(* The process ends in another way: the file stays as it was. *)
Crash ==
  /\ status = "up"
  /\ status' = "down"
  /\ Forget
  /\ UNCHANGED <<file, dialled>>

-----------------------------------------------------------------------------
(* is_banned, which also refuses addresses that are not known. *)
Allowed(ip) == ip \in Known /\ peers[ip] < Threshold

(* Mistake: a banned address may connect again. *)
AcceptKnown(ip) ==
  /\ status = "up"
  /\ ip \in Known
  /\ open[ip] < MaxOpen
  /\ open' = [open EXCEPT ![ip] = @ + 1]
  /\ UNCHANGED <<peers, file, status, dialled>>

(* The listener's event, with allow_connection. *)
Accept(ip) ==
  /\ status = "up"
  /\ Allowed(ip)
  /\ open[ip] < MaxOpen
  /\ open' = [open EXCEPT ![ip] = @ + 1]
  /\ UNCHANGED <<peers, file, status, dialled>>

(* handle_outbound dials any address. *)
Dial(ip) ==
  /\ status = "up"
  /\ dialled < MaxDials
  /\ open' = [open EXCEPT ![ip] = @ + 1]
  /\ dialled' = dialled + 1
  /\ UNCHANGED <<peers, file, status>>

(* A connection fails: handle_errored calls record_behaviour. *)
Errored(ip, error) ==
  /\ status = "up"
  /\ open[ip] > 0
  /\ open' = [open EXCEPT ![ip] = @ - 1]
  /\ peers' = IF ip \in Known
                THEN [peers EXCEPT ![ip] = (@ + ToScore(error)) % ScoreMod]
                ELSE peers
  /\ UNCHANGED <<file, status, dialled>>

(* Mistake: adding a known address forgets what it did. *)
AddPeerAnew(table, ips) == [ip \in DOMAIN table \cup ips |-> IF ip \in ips THEN 0 ELSE table[ip]]

(* add_peer and remove_peer for the addresses of a message. *)
AddPeer(table, ips) ==
  [ip \in DOMAIN table \cup ips |-> IF ip \in DOMAIN table THEN table[ip] ELSE 0]

RemovePeer(table, ips) == [ip \in DOMAIN table \ ips |-> table[ip]]

(* handle_internal takes the body four bytes at a time, the least significant
   one first. *)
AddressesIn(body) ==
  {<<body[4 * k], body[4 * k - 1], body[4 * k - 2], body[4 * k - 3]>> :
     k \in 1 .. Len(body) \div 4}

HandleInternal(code, body) ==
  /\ status = "up"
  /\ peers' = IF code = "AddPeer" THEN AddPeer(peers, AddressesIn(body))
              ELSE RemovePeer(peers, AddressesIn(body))
  /\ UNCHANGED <<file, status, open, dialled>>

PeersInit ==
  /\ peers = [ip \in {} |-> 0]
  /\ file = <<>>
  /\ status = "down"
  /\ open = [ip \in Ips |-> 0]
  /\ dialled = 0

(* What NETWORKER does without a message from RPC. *)
PeersStep ==
  \/ Start \/ Stop \/ Crash
  \/ \E ip \in Ips : Accept(ip) \/ Dial(ip) \/ \E error \in Errors : Errored(ip, error)

PeersNext ==
  \/ PeersStep
  \/ \E code \in NetManCodes, body \in Bodies : HandleInternal(code, body)

PeersSpec == PeersInit /\ [][PeersNext]_peerVars

-----------------------------------------------------------------------------
(* Properties. *)

(* The table, the file and the counts have their types. *)
PeersTypeOK ==
  /\ peers \in [Known -> 0 .. ScoreMod - 1] /\ Known \subseteq Seq(Octets)
  /\ file \in Seq([ip : Seq(Octets), score : 0 .. ScoreMod - 1])
  /\ status \in {"up", "down", "refused"}
  /\ open \in [Ips -> Nat]
  /\ dialled \in 0 .. MaxDials

Ceiling == Threshold - 1 + MaxScore * (MaxOpen + MaxDials)

(* What an address has done and what its open connections, and the dials to
   come, can still add never reaches the width of a score. *)
ScoresFit ==
  /\ \A ip \in Ips : open[ip] <= IF status = "up" THEN MaxOpen + dialled ELSE 0
  /\ \A ip \in Known \cap Ips :
       peers[ip] + MaxScore * (open[ip] + MaxDials - dialled) <= Ceiling
  /\ \A ip \in Known \ Ips : peers[ip] <= Ceiling
  /\ \A i \in DOMAIN file :
       file[i].score + (IF file[i].ip \in Ips THEN MaxScore * (MaxDials - dialled) ELSE 0) <= Ceiling

(* A score never falls while the node runs, unless its address is removed: the
   addition in record_behaviour does not wrap and add_peer keeps what is
   there, so a banned address stays banned. *)
ScoresGrow ==
  [][status = "up" /\ status' = "up" =>
       \A ip \in DOMAIN peers \cap DOMAIN peers' : peers'[ip] >= peers[ip]]_peerVars

(* A node that starts knows again every score that was saved, the bans of its
   bootstraps included. *)
ScoresSurvive ==
  [][status = "down" /\ status' = "up" =>
       \A i \in DOMAIN file :
         file[i].ip \in DOMAIN peers' /\ peers'[file[i].ip] = file[i].score]_peerVars

(* A file that Drop has written can be read by new. *)
StartsAgain == status # "refused"
=============================================================================
