---------------------------- MODULE Admin_proofs ----------------------------
(***************************************************************************)
(* Scores never wrap and never fall while the node runs, and what the file *)
(* holds is known again after a start, for every set of addresses, every   *)
(* threshold and every bound on the connections. With the RPC server and   *)
(* NETWORKER in one process, requests keep their frames and are applied in *)
(* order, and all that happens to the table of peers is a step of          *)
(* PeersSpec, for every set of requests and every length of a header, of a *)
(* body and of the pieces that arrive.                                     *)
(***************************************************************************)
EXTENDS Admin, SequenceTheorems, TLAPS

-----------------------------------------------------------------------------
(* The table of peers and its file. *)

(* What the table and the file hold, with the room left to every score. *)
FitInv == PeersTypeOK /\ ScoresFit

Records == [ip : Seq(Octets), score : 0 .. ScoreMod - 1]

(* The constants, in the form the provers use. *)
LEMMA Constants ==
  /\ Bootstraps \subseteq Ips /\ Ips \subseteq Seq(Octets)
  /\ Threshold \in Nat /\ ScoreMod \in Nat /\ MaxOpen \in Nat /\ MaxDials \in Nat
  /\ Threshold > 0
  /\ Ceiling \in Nat /\ Ceiling < ScoreMod
  /\ Ceiling = Threshold - 1 + 30 * (MaxOpen + MaxDials)
  /\ Bodies \subseteq Seq(Octets)
BY PeersAssumption DEF PeersAssumption, Ceiling, MaxScore

(* An address below the threshold can open one more connection. *)
LEMMA RoomBelowCeiling ==
  ASSUME NEW score \in Nat, NEW limit \in Nat, NEW conns \in Nat, NEW most \in Nat,
         NEW dials \in Nat, NEW done \in Nat, score < limit, conns < most
  PROVE  score + 30 * (conns + 1 + dials - done) <= limit - 1 + 30 * (most + dials)
OBVIOUS

(* The worst error costs MaxScore. *)
LEMMA ToScoreType == \A error \in Errors : ToScore(error) \in 0 .. 30
BY DEF Errors, ToScore

(* new reads from the second record on where there is none. *)
LEMMA ReadableShort ==
  ASSUME NEW records \in Seq(Records), Readable(records)
  PROVE  Len(records) \in {0, 1}
<1>1. Len(records) \in Nat
  OBVIOUS
<1>2. ReadAt(1) = 2
  BY DEF ReadAt
<1>3. Len(records) > 1 => ReadAt(1) < Len(records)
  BY <1>1 DEF Readable
<1>4. ~(Len(records) > 1)
  <2> SUFFICES ASSUME Len(records) > 1 PROVE FALSE
    BY Zenon
  <2> DEFINE n == Len(records) - 1
  <2>1. n \in Nat /\ n >= 2
    BY <1>1, <1>2, <1>3
  <2>2. ReadAt(n) < Len(records)
    BY <1>1, <2>1 DEF Readable
  <2>3. ReadAt(n) = n + (n * (n + 1)) \div 2
    BY Zenon DEF ReadAt
  <2>4. n * (n + 1) \in Int /\ n * (n + 1) >= 2
    BY <2>1
  <2>5. \A m \in Int : m >= 2 => m \div 2 \in Int /\ m \div 2 >= 1
    OBVIOUS
  <2>6. \A m \in Int : m >= 1 => ~(n + m < Len(records))
    BY <1>1
  <2> QED
    BY <2>2, <2>3, <2>4, <2>5, <2>6, Zenon
<1>5. \A n \in Nat : ~(n > 1) => n \in {0, 1}
  OBVIOUS
<1> QED
  BY <1>1, <1>4, <1>5, Zenon

(* What new makes of a file it can read. *)
LEMMA LoadedIs ==
  ASSUME NEW records \in Seq(Records), Readable(records)
  PROVE  /\ Loaded(records) = [ip \in DOMAIN Loaded(records) |-> Loaded(records)[ip]]
         /\ DOMAIN Loaded(records) = {records[i].ip : i \in DOMAIN records} \cup Bootstraps
         /\ \A i \in DOMAIN records : Loaded(records)[records[i].ip] = records[i].score
         /\ \A ip \in Bootstraps :
              ip \notin {records[i].ip : i \in DOMAIN records} => Loaded(records)[ip] = 0
<1> DEFINE taken == {ReadAt(i) + 1 : i \in 0 .. Len(records) - 1}
<1>1. ReadAt(0) = 0
  BY DEF ReadAt
<1>2. taken = DOMAIN records /\ \A i, j \in taken : i = j
  <2>1. CASE Len(records) = 0
    BY <2>1
  <2>2. CASE Len(records) = 1
    BY <2>2, <1>1
  <2> QED
    BY ReadableShort, <2>1, <2>2, Zenon
<1>3. \A i \in taken : (CHOOSE j \in taken : records[j].ip = records[i].ip) = i
  BY <1>2, Zenon
<1> DEFINE ips == {records[i].ip : i \in taken}
           value(ip) == IF ip \in ips THEN records[CHOOSE i \in taken : records[i].ip = ip].score ELSE 0
<1>4. Loaded(records) = [ip \in ips \cup Bootstraps |-> value(ip)]
  BY Zenon DEF Loaded
<1>5. \A i \in DOMAIN records : records[i].ip \in ips /\ value(records[i].ip) = records[i].score
  BY <1>2, <1>3, Zenon
<1>6. ips = {records[i].ip : i \in DOMAIN records}
  BY <1>2, Zenon
<1> HIDE DEF value, ips
<1>7. \A ip \in Bootstraps : ip \notin ips => value(ip) = 0
  BY Zenon DEF value
<1> QED
  BY <1>4, <1>5, <1>6, <1>7, Zenon

-----------------------------------------------------------------------------
(* The first start finds no table and no file. *)
LEMMA InitFitInv == PeersInit => FitInv
<1> SUFFICES ASSUME PeersInit PROVE FitInv
  BY Zenon
<1> USE Constants DEF PeersInit
<1>1. PeersTypeOK
  BY DEF PeersTypeOK, Known
<1>2. ScoresFit
  BY DEF ScoresFit, Known, MaxScore
<1> QED
  BY <1>1, <1>2, Zenon DEF FitInv

(* new restores what the file holds, and gives a clean record to bootstraps
   that are not in it. *)
LEMMA StartFitInv == FitInv /\ Start => FitInv'
<1> SUFFICES ASSUME FitInv, Start PROVE FitInv'
  BY Zenon
<1>1. CASE ~Readable(file)
  BY <1>1, Zenon DEF FitInv, Start, PeersTypeOK, ScoresFit, Known
<1>2. CASE Readable(file)
  <2> DEFINE ips == {file[i].ip : i \in DOMAIN file}
  <2>0. /\ peers' = Loaded(file) /\ status' = "up"
        /\ file' = file /\ open' = open /\ dialled' = dialled
    BY <1>2, Zenon DEF Start
  <2>1. file \in Seq(Records)
    BY Zenon DEF FitInv, PeersTypeOK, Records
  <2>2. /\ peers' = [ip \in DOMAIN peers' |-> peers'[ip]]
        /\ DOMAIN peers' = ips \cup Bootstraps
        /\ \A i \in DOMAIN file : peers'[file[i].ip] = file[i].score
        /\ \A ip \in Bootstraps : ip \notin ips => peers'[ip] = 0
    BY <1>2, <2>0, <2>1, LoadedIs, Zenon
  <2>3. \A i \in DOMAIN file : file[i].ip \in Seq(Octets) /\ file[i].score \in 0 .. ScoreMod - 1
    <3>1. \A i \in DOMAIN file : file[i] \in Records
      BY <2>1
    <3> QED
      BY <3>1, Zenon DEF Records
  <2>4. ips \subseteq Seq(Octets)
    BY <2>3, Zenon
  <2>5. \A ip \in DOMAIN peers' :
          \/ \E i \in DOMAIN file : ip = file[i].ip /\ peers'[ip] = file[i].score
          \/ ip \in Ips /\ peers'[ip] = 0
    <3> SUFFICES ASSUME NEW ip \in DOMAIN peers'
                 PROVE  \/ \E i \in DOMAIN file : ip = file[i].ip /\ peers'[ip] = file[i].score
                        \/ ip \in Ips /\ peers'[ip] = 0
      BY Zenon
    <3>1. CASE ip \in ips
      <4>1. PICK i \in DOMAIN file : ip = file[i].ip
        BY <3>1, Zenon
      <4>2. peers'[file[i].ip] = file[i].score
        BY <2>2, Zenon
      <4> QED
        BY <4>1, <4>2, Zenon
    <3>2. CASE ip \notin ips
      <4>1. ip \in Bootstraps
        BY <2>2, <3>2, Zenon
      <4>2. peers'[ip] = 0
        BY <2>2, <3>2, <4>1, Zenon
      <4>3. ip \in Ips
        BY <4>1, Constants, Zenon
      <4> QED
        BY <4>2, <4>3, Zenon
    <3> QED
      BY <3>1, <3>2, Zenon
  <2>6. PeersTypeOK'
    <3>1. \A ip \in DOMAIN peers' : peers'[ip] \in 0 .. ScoreMod - 1
      BY <2>3, <2>5, Constants
    <3>2. peers' \in [DOMAIN peers' -> 0 .. ScoreMod - 1]
      BY <2>2, <3>1, Zenon
    <3>3. DOMAIN peers' \subseteq Seq(Octets)
      BY <2>2, <2>4, Constants, Zenon
    <3> QED
      BY <2>0, <3>2, <3>3, Zenon DEF FitInv, PeersTypeOK, Known
  <2>7. \A ip \in Ips : open[ip] = 0 /\ dialled \in Nat /\ dialled <= MaxDials
    BY Constants DEF FitInv, PeersTypeOK, ScoresFit, Start
  <2>8. \A i \in DOMAIN file :
          /\ file[i].ip \in Ips => file[i].score + 30 * (MaxDials - dialled) <= Ceiling
          /\ file[i].ip \notin Ips => file[i].score <= Ceiling
    BY <2>3, Constants DEF FitInv, ScoresFit, MaxScore
  <2>9. \A ip \in DOMAIN peers' \cap Ips :
          peers'[ip] + 30 * (open[ip] + MaxDials - dialled) <= Ceiling
    <3> SUFFICES ASSUME NEW ip \in DOMAIN peers' \cap Ips
                 PROVE  peers'[ip] + 30 * (open[ip] + MaxDials - dialled) <= Ceiling
      BY Zenon
    <3>1. open[ip] = 0 /\ dialled \in Nat
      BY <2>7, Zenon
    <3>2. CASE peers'[ip] = 0
      BY <3>1, <3>2, Constants
    <3>3. CASE \E i \in DOMAIN file : ip = file[i].ip /\ peers'[ip] = file[i].score
      BY <2>3, <2>8, <3>1, <3>3, Constants
    <3> QED
      BY <2>5, <3>2, <3>3, Zenon
  <2>10. \A ip \in DOMAIN peers' \ Ips : peers'[ip] <= Ceiling
    BY <2>5, <2>8, Zenon
  <2> QED
    BY <2>0, <2>6, <2>7, <2>9, <2>10, Constants DEF FitInv, ScoresFit, Known, MaxScore
<1> QED
  BY <1>1, <1>2, Zenon

(* A process that ends leaves its file as it was, or with what it knew. *)
LEMMA EndFitInv == FitInv /\ (Stop \/ Crash) => FitInv'
<1> SUFFICES ASSUME FitInv, Stop \/ Crash PROVE FitInv'
  BY Zenon
<1>0. /\ status = "up" /\ status' = "down" /\ dialled' = dialled
      /\ peers' = [ip \in {} |-> 0] /\ open' = [ip \in Ips |-> 0]
  BY Zenon DEF Stop, Crash, Forget
<1>1. /\ peers \in [Known -> 0 .. ScoreMod - 1] /\ Known \subseteq Seq(Octets)
      /\ open \in [Ips -> Nat] /\ dialled \in Nat /\ dialled <= MaxDials
  BY Constants DEF FitInv, PeersTypeOK
<1>2. /\ file' \in Seq(Records)
      /\ \A i \in DOMAIN file' :
           file'[i].score + (IF file'[i].ip \in Ips THEN 30 * (MaxDials - dialled) ELSE 0) <= Ceiling
  <2>1. CASE file' = file
    BY <2>1, Zenon DEF FitInv, PeersTypeOK, ScoresFit, MaxScore, Records
  <2>2. CASE file' \in Saved(peers)
    <3> DEFINE records == {[ip |-> ip, score |-> peers[ip]] : ip \in DOMAIN peers}
    <3>1. PICK n \in 0 .. Cardinality(records) : file' \in [1 .. n -> records]
      BY <2>2, Zenon DEF Saved
    <3>2. n \in Nat
      OBVIOUS
    <3>3. \A rec \in records : rec \in Records
      BY <1>1 DEF Records, Known
    <3>4. file' \in [1 .. n -> Records]
      BY <3>1, <3>3, Zenon
    <3>5. file' \in Seq(Records)
      BY <3>2, <3>4, SeqDef
    <3>6. \A i \in DOMAIN file' : \E ip \in Known : file'[i] = [ip |-> ip, score |-> peers[ip]]
      BY <3>1, Zenon DEF Known
    <3>7. \A ip \in Known :
            peers[ip] + (IF ip \in Ips THEN 30 * (MaxDials - dialled) ELSE 0) <= Ceiling
      BY <1>1, Constants DEF FitInv, ScoresFit, MaxScore
    <3> QED
      BY <3>5, <3>6, <3>7
  <2> QED
    BY <2>1, <2>2, Zenon DEF Stop, Crash
<1>3. PeersTypeOK'
  BY <1>0, <1>1, <1>2, Constants DEF PeersTypeOK, Known, Records
<1>4. ScoresFit'
  BY <1>0, <1>1, <1>2, Constants DEF ScoresFit, Known, MaxScore
<1> QED
  BY <1>3, <1>4, Zenon DEF FitInv

(* A connection is opened by an address below the threshold, or by a dial. *)
LEMMA OpenFitInv ==
  ASSUME FitInv, NEW ip \in Ips, Accept(ip) \/ Dial(ip)
  PROVE  FitInv'
<1>1. /\ status = "up" /\ status' = "up" /\ peers' = peers /\ file' = file
      /\ open' = [open EXCEPT ![ip] = open[ip] + 1]
  BY Zenon DEF Accept, Dial
<1>2. /\ peers \in [Known -> 0 .. ScoreMod - 1] /\ open \in [Ips -> Nat]
      /\ dialled \in Nat /\ dialled <= MaxDials
  BY Constants DEF FitInv, PeersTypeOK
<1>3. dialled' \in Nat /\ dialled' <= MaxDials /\ dialled' >= dialled
  BY <1>2, Constants DEF Accept, Dial
<1>4. PeersTypeOK'
  <2>1. open' \in [Ips -> Nat]
    BY <1>1, <1>2
  <2>2. dialled' \in 0 .. MaxDials
    BY <1>3, Constants
  <2> QED
    BY <1>1, <2>1, <2>2, Zenon DEF FitInv, PeersTypeOK, Known
<1>5. \A q \in Ips : open'[q] <= MaxOpen + dialled'
  <2> SUFFICES ASSUME NEW q \in Ips
               PROVE  open'[q] <= MaxOpen + dialled'
    BY Zenon
  <2>1. open[q] \in Nat /\ open[q] <= MaxOpen + dialled /\ MaxOpen \in Nat
    BY <1>1, <1>2, Constants, Zenon DEF FitInv, ScoresFit
  <2>2. CASE q # ip
    <3>1. open'[q] = open[q]
      BY <1>1, <1>2, <2>2, Zenon
    <3> QED
      BY <1>2, <1>3, <2>1, <3>1
  <2>3. CASE q = ip /\ Accept(ip)
    <3>1. open[q] < MaxOpen /\ open'[q] = open[q] + 1
      BY <1>1, <1>2, <2>3, Zenon DEF Accept
    <3> QED
      BY <1>3, <2>1, <3>1
  <2>4. CASE q = ip /\ Dial(ip)
    <3>1. dialled' = dialled + 1 /\ open'[q] = open[q] + 1
      BY <1>1, <1>2, <2>4, Zenon DEF Dial
    <3> QED
      BY <1>2, <2>1, <3>1
  <2> QED
    BY <2>2, <2>3, <2>4, Zenon
<1>6. \A q \in Known \cap Ips : peers[q] + 30 * (open'[q] + MaxDials - dialled') <= Ceiling
  <2> SUFFICES ASSUME NEW q \in Known \cap Ips
               PROVE  peers[q] + 30 * (open'[q] + MaxDials - dialled') <= Ceiling
    BY Zenon
  <2>1. peers[q] \in Nat /\ open[q] \in Nat
        /\ peers[q] + 30 * (open[q] + MaxDials - dialled) <= Ceiling
    BY <1>2, Constants DEF FitInv, ScoresFit, MaxScore
  <2>2. CASE q # ip
    <3>1. open'[q] = open[q]
      BY <1>1, <1>2, <2>2, Zenon
    <3>2. dialled \in Nat /\ dialled' \in Nat /\ dialled' >= dialled
          /\ MaxDials \in Nat /\ Ceiling \in Nat
      BY <1>2, <1>3, Constants, Zenon
    <3> QED
      BY <2>1, <3>1, <3>2
  <2>3. CASE q = ip /\ Accept(ip)
    <3>1. peers[q] < Threshold /\ open[q] < MaxOpen /\ dialled' = dialled /\ open'[q] = open[q] + 1
      BY <1>1, <1>2, <2>3, Zenon DEF Accept, Allowed
    <3>2. peers[q] + 30 * (open[q] + 1 + MaxDials - dialled) <= Threshold - 1 + 30 * (MaxOpen + MaxDials)
      BY <1>2, <2>1, <3>1, Constants, RoomBelowCeiling, Zenon
    <3> QED
      BY <3>1, <3>2, Constants, Zenon
  <2>4. CASE q = ip /\ Dial(ip)
    <3>1. dialled' = dialled + 1 /\ open'[q] = open[q] + 1
      BY <1>1, <1>2, <2>4, Zenon DEF Dial
    <3> QED
      BY <1>2, <2>1, <3>1, Constants
  <2> QED
    BY <2>2, <2>3, <2>4, Zenon
<1>7. \A i \in DOMAIN file :
        file[i].score + (IF file[i].ip \in Ips THEN 30 * (MaxDials - dialled') ELSE 0) <= Ceiling
  <2> SUFFICES ASSUME NEW i \in DOMAIN file
               PROVE  file[i].score + (IF file[i].ip \in Ips THEN 30 * (MaxDials - dialled') ELSE 0)
                        <= Ceiling
    BY Zenon
  <2>1. file[i].score + (IF file[i].ip \in Ips THEN 30 * (MaxDials - dialled) ELSE 0) <= Ceiling
    BY Zenon DEF FitInv, ScoresFit, MaxScore
  <2>2. file[i].score \in Nat
    <3>1. file \in Seq(Records)
      BY Zenon DEF FitInv, PeersTypeOK, Records
    <3>2. file[i] \in Records
      BY <3>1
    <3> QED
      BY <3>2, Constants DEF Records
  <2> QED
    BY <1>2, <1>3, <2>1, <2>2, Constants
<1>8. ScoresFit'
  BY <1>1, <1>5, <1>6, <1>7, Zenon DEF FitInv, ScoresFit, Known, MaxScore
<1> QED
  BY <1>4, <1>8, Zenon DEF FitInv

(* An error closes a connection and costs no more than was kept for it. *)
LEMMA ErroredFitInv ==
  ASSUME FitInv, NEW ip \in Ips, NEW error \in Errors, Errored(ip, error)
  PROVE  /\ FitInv'
         /\ \A q \in Known : peers'[q] >= peers[q]
<1> DEFINE cost == ToScore(error)
<1>1. /\ status = "up" /\ status' = "up" /\ file' = file /\ dialled' = dialled
      /\ open[ip] > 0 /\ open' = [open EXCEPT ![ip] = open[ip] - 1]
  BY Zenon DEF Errored
<1>2. /\ peers \in [Known -> 0 .. ScoreMod - 1] /\ open \in [Ips -> Nat]
      /\ dialled \in Nat /\ dialled <= MaxDials
  BY Constants DEF FitInv, PeersTypeOK
<1>3. cost \in 0 .. 30
  BY ToScoreType, Zenon
<1>4. ASSUME ip \in Known
      PROVE  /\ peers[ip] + cost \in 0 .. ScoreMod - 1
             /\ peers[ip] + cost + 30 * (open[ip] - 1 + MaxDials - dialled) <= Ceiling
  <2>1. peers[ip] \in Nat /\ open[ip] \in Nat
        /\ peers[ip] + 30 * (open[ip] + MaxDials - dialled) <= Ceiling
    BY <1>2, <1>4, Constants DEF FitInv, ScoresFit, MaxScore
  <2>2. open[ip] > 0 /\ dialled \in Nat /\ dialled <= MaxDials
    BY <1>1, <1>2, Zenon
  <2>3. MaxDials \in Nat /\ Ceiling \in Nat /\ ScoreMod \in Nat /\ Ceiling < ScoreMod
    BY Constants, Zenon
  <2> HIDE DEF cost
  <2>4. peers[ip] + cost + 30 * (open[ip] - 1 + MaxDials - dialled) <= Ceiling
    BY <1>3, <2>1, <2>2, <2>3
  <2>5. open[ip] - 1 + MaxDials - dialled >= 0
    BY <2>1, <2>2, <2>3
  <2> QED
    BY <1>3, <2>1, <2>2, <2>3, <2>4, <2>5
<1>5. peers' = IF ip \in Known THEN [peers EXCEPT ![ip] = peers[ip] + cost] ELSE peers
  <2>1. \A n \in 0 .. ScoreMod - 1 : n % ScoreMod = n
    BY Constants
  <2>2. CASE ip \in Known
    <3>1. peers' = [peers EXCEPT ![ip] = (peers[ip] + cost) % ScoreMod]
      BY <2>2, Zenon DEF Errored
    <3> HIDE DEF cost
    <3>2. (peers[ip] + cost) % ScoreMod = peers[ip] + cost
      BY <1>4, <2>1, <2>2, Zenon
    <3> QED
      BY <2>2, <3>1, <3>2, Zenon
  <2>3. CASE ip \notin Known
    BY <2>3, Zenon DEF Errored
  <2> QED
    BY <2>2, <2>3, Zenon
<1> HIDE DEF cost
<1>6. /\ DOMAIN peers' = Known
      /\ peers' \in [Known -> 0 .. ScoreMod - 1]
      /\ \A q \in Known : peers'[q] = IF q = ip THEN peers[q] + cost ELSE peers[q]
  BY <1>2, <1>4, <1>5, Zenon
<1>7. PeersTypeOK'
  <2>1. open' \in [Ips -> Nat]
    BY <1>1, <1>2
  <2> QED
    BY <1>1, <1>6, <2>1, Zenon DEF FitInv, PeersTypeOK, Known
<1>8. \A q \in Ips : open'[q] <= MaxOpen + dialled
  BY <1>1, <1>2, Constants DEF FitInv, ScoresFit
<1>9. \A q \in Known \cap Ips : peers'[q] + 30 * (open'[q] + MaxDials - dialled) <= Ceiling
  <2> SUFFICES ASSUME NEW q \in Known \cap Ips
               PROVE  peers'[q] + 30 * (open'[q] + MaxDials - dialled) <= Ceiling
    BY Zenon
  <2>1. CASE q = ip
    BY <1>1, <1>2, <1>4, <1>6, <2>1, Zenon
  <2>2. CASE q # ip
    BY <1>1, <1>2, <1>6, <2>2, Zenon DEF FitInv, ScoresFit, MaxScore
  <2> QED
    BY <2>1, <2>2, Zenon
<1>10. \A q \in Known \ Ips : peers'[q] <= Ceiling
  BY <1>6, Zenon DEF FitInv, ScoresFit
<1>11. ScoresFit'
  BY <1>1, <1>6, <1>8, <1>9, <1>10, Zenon DEF FitInv, ScoresFit, Known, MaxScore
<1>12. \A q \in Known : peers'[q] >= peers[q]
  <2>1. \A n \in Nat : n + cost >= n /\ n >= n
    BY <1>3
  <2>2. \A q \in Known : peers[q] \in Nat
    BY <1>2, Constants
  <2> QED
    BY <1>6, <2>1, <2>2, Zenon
<1> QED
  BY <1>7, <1>11, <1>12, Zenon DEF FitInv

(* The addresses of a message are addresses. *)
LEMMA AddressesType ==
  ASSUME NEW body \in Seq(Octets)
  PROVE  AddressesIn(body) \subseteq Seq(Octets)
<1> SUFFICES ASSUME NEW k \in 1 .. Len(body) \div 4
             PROVE  <<body[4 * k], body[4 * k - 1], body[4 * k - 2], body[4 * k - 3]>> \in Seq(Octets)
  BY Zenon DEF AddressesIn
<1>1. Len(body) \in Nat
  OBVIOUS
<1>2. 4 * k \in 1 .. Len(body) /\ 4 * k - 1 \in 1 .. Len(body)
      /\ 4 * k - 2 \in 1 .. Len(body) /\ 4 * k - 3 \in 1 .. Len(body)
  BY <1>1
<1>3. \A i \in 1 .. Len(body) : body[i] \in Octets
  OBVIOUS
<1> HIDE DEF Octets
<1> QED
  BY <1>2, <1>3

(* A message of RPC adds addresses with a clean record, or removes some. *)
LEMMA InternalFitInv ==
  ASSUME FitInv, NEW code \in NetManCodes, NEW body \in Bodies, HandleInternal(code, body)
  PROVE  /\ FitInv'
         /\ \A ip \in Known \cap DOMAIN peers' : peers'[ip] = peers[ip]
<1> DEFINE ips == AddressesIn(body)
<1>1. status' = status /\ file' = file /\ open' = open /\ dialled' = dialled
  BY Zenon DEF HandleInternal
<1>2. /\ peers \in [Known -> 0 .. ScoreMod - 1] /\ Known \subseteq Seq(Octets)
      /\ open \in [Ips -> Nat] /\ dialled \in Nat /\ dialled <= MaxDials
  BY Constants DEF FitInv, PeersTypeOK
<1>3. ips \subseteq Seq(Octets)
  BY AddressesType, Constants, Zenon
<1> HIDE DEF ips
<1>4. /\ DOMAIN peers' \subseteq Seq(Octets)
      /\ peers' = [ip \in DOMAIN peers' |-> peers'[ip]]
      /\ \A ip \in DOMAIN peers' : peers'[ip] = IF ip \in Known THEN peers[ip] ELSE 0
  <2>1. CASE code = "AddPeer"
    <3>1. peers' = [ip \in Known \cup ips |-> IF ip \in Known THEN peers[ip] ELSE 0]
      BY <2>1, Zenon DEF HandleInternal, AddPeer, Known, ips
    <3> QED
      BY <1>2, <1>3, <3>1, Zenon
  <2>2. CASE code # "AddPeer"
    <3>1. peers' = [ip \in Known \ ips |-> peers[ip]]
      BY <2>2, Zenon DEF HandleInternal, RemovePeer, Known, ips
    <3> QED
      BY <1>2, <3>1, Zenon
  <2> QED
    BY <2>1, <2>2, Zenon
<1>5. PeersTypeOK'
  <2>0. 0 \in 0 .. ScoreMod - 1
    BY Constants
  <2>1. \A ip \in DOMAIN peers' : peers'[ip] \in 0 .. ScoreMod - 1
    BY <1>2, <1>4, <2>0, Zenon
  <2>2. peers' \in [DOMAIN peers' -> 0 .. ScoreMod - 1]
    BY <1>4, <2>1, Zenon
  <2> QED
    BY <1>1, <1>4, <2>2, Zenon DEF FitInv, PeersTypeOK, Known
<1>6. \A ip \in DOMAIN peers' \cap Ips :
        peers'[ip] + 30 * (open[ip] + MaxDials - dialled) <= Ceiling
  <2> SUFFICES ASSUME NEW ip \in DOMAIN peers' \cap Ips
               PROVE  peers'[ip] + 30 * (open[ip] + MaxDials - dialled) <= Ceiling
    BY Zenon
  <2>1. CASE ip \in Known
    BY <1>4, <2>1, Zenon DEF FitInv, ScoresFit, MaxScore
  <2>2. CASE ip \notin Known
    <3>1. peers'[ip] = 0 /\ open[ip] \in Nat
      BY <1>2, <1>4, <2>2, Zenon
    <3>2. open[ip] <= MaxOpen + dialled
      BY <1>2, <3>1, Constants DEF FitInv, ScoresFit
    <3> QED
      BY <1>2, <3>1, <3>2, Constants
  <2> QED
    BY <2>1, <2>2, Zenon
<1>7. \A ip \in DOMAIN peers' \ Ips : peers'[ip] <= Ceiling
  <2> SUFFICES ASSUME NEW ip \in DOMAIN peers' \ Ips
               PROVE  peers'[ip] <= Ceiling
    BY Zenon
  <2>1. CASE ip \in Known
    BY <1>4, <2>1, Zenon DEF FitInv, ScoresFit
  <2>2. CASE ip \notin Known
    BY <1>4, <2>2, Constants
  <2> QED
    BY <2>1, <2>2, Zenon
<1>8. ScoresFit'
  BY <1>1, <1>6, <1>7, Zenon DEF FitInv, ScoresFit, Known, MaxScore
<1> QED
  BY <1>4, <1>5, <1>8, Zenon DEF FitInv

(* Every step of NETWORKER preserves the invariant. *)
LEMMA StepFitInv == FitInv /\ [PeersNext]_peerVars => FitInv'
<1> SUFFICES ASSUME FitInv, [PeersNext]_peerVars PROVE FitInv'
  BY Zenon
<1>1. CASE Start
  BY <1>1, StartFitInv, Zenon
<1>2. CASE Stop \/ Crash
  BY <1>2, EndFitInv, Zenon
<1>3. CASE \E ip \in Ips : Accept(ip) \/ Dial(ip)
  BY <1>3, OpenFitInv, Zenon
<1>4. CASE \E ip \in Ips, error \in Errors : Errored(ip, error)
  BY <1>4, ErroredFitInv, Zenon
<1>5. CASE \E code \in NetManCodes, body \in Bodies : HandleInternal(code, body)
  BY <1>5, InternalFitInv, Zenon
<1>6. CASE UNCHANGED peerVars
  BY <1>6, Zenon DEF peerVars, FitInv, PeersTypeOK, ScoresFit, Known
<1> QED
  BY <1>1, <1>2, <1>3, <1>4, <1>5, <1>6, Zenon DEF PeersNext, PeersStep

(* The scores in record_behaviour and in the file stay below the width of a
   u16, as long as the dials to banned addresses are bounded. *)
THEOREM ScoresNeverWrap == PeersSpec => [](PeersTypeOK /\ ScoresFit)
<1>1. PeersInit => FitInv
  BY InitFitInv, Zenon
<1>2. FitInv /\ [PeersNext]_peerVars => FitInv'
  BY StepFitInv, Zenon
<1> QED
  BY <1>1, <1>2, PTL DEF PeersSpec, FitInv

(* record_behaviour and add_peer never lower a score: an address that is
   banned stays banned while the node runs, unless RPC removes it. *)
THEOREM BansLast == PeersSpec => ScoresGrow
<1>1. ASSUME FitInv, [PeersNext]_peerVars
      PROVE  [status = "up" /\ status' = "up" =>
                \A ip \in DOMAIN peers \cap DOMAIN peers' : peers'[ip] >= peers[ip]]_peerVars
  <2> SUFFICES ASSUME status = "up", status' = "up", PeersNext,
                      NEW ip \in DOMAIN peers \cap DOMAIN peers'
               PROVE  peers'[ip] >= peers[ip]
    BY <1>1, Zenon
  <2>0. peers[ip] \in Nat
    BY <1>1, Constants DEF FitInv, PeersTypeOK, Known
  <2>1. CASE Start \/ Stop \/ Crash
    BY <2>1, Zenon DEF Start, Stop, Crash
  <2>2. CASE \E q \in Ips : Accept(q) \/ Dial(q)
    BY <2>0, <2>2 DEF Accept, Dial
  <2>3. CASE \E q \in Ips, error \in Errors : Errored(q, error)
    BY <1>1, <2>3, ErroredFitInv, Zenon DEF Known
  <2>4. CASE \E code \in NetManCodes, body \in Bodies : HandleInternal(code, body)
    BY <1>1, <2>0, <2>4, InternalFitInv DEF Known
  <2> QED
    BY <2>1, <2>2, <2>3, <2>4, Zenon DEF PeersNext, PeersStep
<1>2. PeersSpec => []FitInv
  BY ScoresNeverWrap, PTL DEF FitInv
<1> QED
  BY <1>1, <1>2, PTL DEF PeersSpec, ScoresGrow

(* A start that new survives brings back every score that Drop has saved. *)
THEOREM BansSurvive == PeersSpec => ScoresSurvive
<1>1. ASSUME FitInv, [PeersNext]_peerVars
      PROVE  [status = "down" /\ status' = "up" =>
                \A i \in DOMAIN file :
                  file[i].ip \in DOMAIN peers' /\ peers'[file[i].ip] = file[i].score]_peerVars
  <2> SUFFICES ASSUME status = "down", status' = "up", PeersNext
               PROVE  \A i \in DOMAIN file :
                        file[i].ip \in DOMAIN peers' /\ peers'[file[i].ip] = file[i].score
    BY <1>1, Zenon
  <2>1. Start
    BY Zenon DEF PeersNext, PeersStep, Stop, Crash, Accept, Dial, Errored, HandleInternal
  <2>2. Readable(file) /\ peers' = Loaded(file)
    BY <2>1, Zenon DEF Start
  <2>3. file \in Seq(Records)
    BY <1>1, Zenon DEF FitInv, PeersTypeOK, Records
  <2> QED
    BY <2>2, <2>3, LoadedIs, Zenon
<1>2. PeersSpec => []FitInv
  BY ScoresNeverWrap, PTL DEF FitInv
<1> QED
  BY <1>1, <1>2, PTL DEF PeersSpec, ScoresSurvive

-----------------------------------------------------------------------------
(* Requests that are read in pieces. *)

RpcCodes == NetManCodes \cup {"None"}

InStream == [num : 1 .. MaxRequests, code : RpcCodes, ips : Seq(Seq(Octets))]

InQueue == [num : 1 .. MaxRequests, code : NetManCodes, body : Bodies]

ConnType ==
  [readState : {"ReadingHeader", "ReadingBody", "Processing", "None"}, readPos : Nat,
   code : RpcCodes]

(* Where the requests of the stream end. *)
EndsAt(ends, s, length) ==
  /\ ends \in [0 .. Len(s) -> Int]
  /\ ends[0] = 0 /\ ends[Len(s)] = length
  /\ \A i \in 1 .. Len(s) : ends[i] = ends[i - 1] + Length(s[i])

(* The units that the client has written are those of the requests, and the
   connection has read no more than has arrived. *)
Measured ==
  /\ \E ends : EndsAt(ends, stream, sent)
  /\ read <= here /\ here <= sent

RpcTypes ==
  /\ rpc \in ConnType
  /\ {live, running, edge, eof} \subseteq BOOLEAN
  /\ stream \in Seq(InStream) /\ internal \in Seq(InQueue)
  /\ \A i \in DOMAIN stream : [code |-> stream[i].code, ips |-> stream[i].ips] \in Requests
  /\ sent \in Nat /\ here \in Nat /\ read \in Nat
  /\ counts \in [requests : 0 .. MaxRequests, conns : Nat]
  /\ applied \in Nat

(* The connection is inside the request that it reads. *)
Inside ==
  /\ rpc.readState = "ReadingHeader" => rpc.readPos < HeaderLen
  /\ live =>
    /\ rpc.readState \in {"ReadingBody", "Processing"} => stream # <<>>
    /\ rpc.readState = "ReadingBody" => rpc.readPos <= Len(Head(stream).ips)

RpcInv == RpcTypes /\ Measured /\ Framed /\ Inside

(* The numbers of what was sent: applied, then queued for NETWORKER, then in
   the stream. *)
NumsInOrder ==
  /\ applied <= counts.requests
  /\ \A i \in DOMAIN internal : applied < internal[i].num /\ internal[i].num <= counts.requests
  /\ \A i \in DOMAIN stream : applied < stream[i].num /\ stream[i].num <= counts.requests
  /\ \A i, j \in DOMAIN internal : i < j => internal[i].num < internal[j].num
  /\ \A i, j \in DOMAIN stream : i < j => stream[i].num < stream[j].num
  /\ \A i \in DOMAIN internal, j \in DOMAIN stream : internal[i].num < stream[j].num

AdminInv == RpcInv /\ NumsInOrder

(* The constants, in the form the provers use. *)
LEMMA RpcNats ==
  HeaderLen \in Nat /\ HeaderLen > 0 /\ PadLen \in Nat /\ MaxRequests \in Nat /\ MaxConns \in Nat
BY RpcAssumption, Zenon

(* The connection after a read of a part of a header or of a body. *)
LEMMA Moved ==
  ASSUME NEW c \in ConnType, NEW k \in Nat
  PROVE  /\ [c EXCEPT !.readPos = k] \in ConnType
         /\ [c EXCEPT !.readPos = k].readState = c.readState
         /\ [c EXCEPT !.readPos = k].readPos = k
BY Zenon DEF ConnType

(* What a request becomes in the stream and in the queue. *)
LEMMA RpcConstants ==
  /\ \A r \in Requests : r.code \in RpcCodes /\ r.ips \in Seq(Seq(Octets))
  /\ \A r \in Requests, n \in Nat, code \in RpcCodes :
       FillForInternal(n, code, r.ips) = [num |-> n, code |-> code, body |-> FillForInternal(0, r.code, r.ips).body]
  /\ \A r \in Requests : FillForInternal(0, r.code, r.ips).body \in Bodies
  /\ \A r \in InStream : Length(r) \in Nat /\ Length(r) = HeaderLen + Len(r.ips) /\ Len(r.ips) \in Nat
<1>1. HeaderLen \in Nat
  BY RpcNats, Zenon
<1>2. \A r \in Requests : r.code \in RpcCodes /\ r.ips \in Seq(Seq(Octets))
  BY AdminAssumption, Zenon DEF RpcCodes
<1>3. ASSUME NEW r \in Requests, NEW n \in Nat, NEW code \in RpcCodes
      PROVE  FillForInternal(n, code, r.ips)
               = [num |-> n, code |-> code, body |-> FillForInternal(0, r.code, r.ips).body]
  BY Zenon DEF FillForInternal
<1>4. \A r \in InStream : Length(r) \in Nat /\ Length(r) = HeaderLen + Len(r.ips) /\ Len(r.ips) \in Nat
  BY <1>1 DEF Length, InStream
<1>5. \A r \in Requests : FillForInternal(0, r.code, r.ips).body \in Bodies
  BY AdminAssumption, Zenon DEF FillForInternal
<1> QED
  BY <1>2, <1>3, <1>4, <1>5, Zenon

(* A stream without requests has no units. *)
LEMMA EndsEmpty ==
  /\ \A length : (\E ends : EndsAt(ends, <<>>, length)) => length = 0
  /\ \E ends : EndsAt(ends, <<>>, 0)
<1>1. Len(<<>>) = 0 /\ 1 .. 0 = {}
  OBVIOUS
<1>2. ASSUME NEW length, NEW ends, EndsAt(ends, <<>>, length) PROVE length = 0
  BY <1>1, <1>2, Zenon DEF EndsAt
<1>3. EndsAt([i \in 0 .. 0 |-> 0], <<>>, 0)
  BY <1>1 DEF EndsAt
<1> QED
  BY <1>2, <1>3, Zenon

(* A request that is written adds its length. *)
LEMMA EndsAppend ==
  ASSUME NEW s \in Seq(InStream), NEW r \in InStream, NEW length \in Int,
         \E ends : EndsAt(ends, s, length)
  PROVE  \E ends : EndsAt(ends, Append(s, r), length + Length(r))
<1>1. PICK ends : EndsAt(ends, s, length)
  BY Zenon
<1> DEFINE n == Len(s)
           t == Append(s, r)
           longer == [i \in 0 .. n + 1 |-> IF i = n + 1 THEN length + Length(r) ELSE ends[i]]
<1>2. n \in Nat /\ Len(t) = n + 1 /\ t[n + 1] = r /\ \A i \in 1 .. n : t[i] = s[i]
  OBVIOUS
<1>3. Length(r) \in Nat
  BY RpcConstants, Zenon
<1>4. /\ ends \in [0 .. n -> Int] /\ ends[0] = 0 /\ ends[n] = length
      /\ \A i \in 1 .. n : ends[i] = ends[i - 1] + Length(s[i])
  BY <1>1, Zenon DEF EndsAt
<1> HIDE DEF n, t
<1>5. longer \in [0 .. n + 1 -> Int] /\ longer[0] = 0 /\ longer[n + 1] = length + Length(r)
  BY <1>2, <1>3, <1>4
<1>6. ASSUME NEW i \in 1 .. n + 1 PROVE longer[i] = longer[i - 1] + Length(t[i])
  <2>1. CASE i = n + 1
    BY <1>2, <1>4, <2>1
  <2>2. CASE i # n + 1
    <3>1. i \in 1 .. n /\ i - 1 \in 0 .. n /\ i - 1 # n + 1 /\ i \in 0 .. n + 1 /\ i - 1 \in 0 .. n + 1
      BY <1>2, <2>2
    <3> QED
      BY <1>2, <1>4, <2>2, <3>1, Zenon
  <2> QED
    BY <2>1, <2>2, Zenon
<1> HIDE DEF longer
<1>7. EndsAt(longer, t, length + Length(r))
  BY <1>2, <1>5, <1>6, Zenon DEF EndsAt
<1> QED
  BY <1>7, Zenon DEF t

(* A request that is taken takes its length with it. *)
LEMMA EndsTail ==
  ASSUME NEW s \in Seq(InStream), s # <<>>, NEW length \in Int,
         \E ends : EndsAt(ends, s, length)
  PROVE  \E ends : EndsAt(ends, Tail(s), length - Length(Head(s)))
<1>1. PICK ends : EndsAt(ends, s, length)
  BY Zenon
<1> DEFINE n == Len(s)
           t == Tail(s)
           rest == [i \in 0 .. n - 1 |-> ends[i + 1] - ends[1]]
<1>2. n \in Nat \ {0} /\ Len(t) = n - 1 /\ Head(s) = s[1] /\ s[1] \in InStream
      /\ \A i \in 1 .. n - 1 : t[i] = s[i + 1]
  OBVIOUS
<1>3. Length(s[1]) \in Nat
  BY <1>2, RpcConstants, Zenon
<1>4. /\ ends \in [0 .. n -> Int] /\ ends[0] = 0 /\ ends[n] = length
      /\ \A i \in 1 .. n : ends[i] = ends[i - 1] + Length(s[i])
  BY <1>1, Zenon DEF EndsAt
<1> HIDE DEF n, t
<1>5. ends[1] = Length(s[1]) /\ ends[1] \in Int
  BY <1>2, <1>3, <1>4
<1>6. rest \in [0 .. n - 1 -> Int] /\ rest[0] = 0 /\ rest[n - 1] = length - Length(s[1])
  <2>1. 0 \in 0 .. n - 1 /\ n - 1 \in 0 .. n - 1 /\ (n - 1) + 1 = n
    BY <1>2
  <2>2. \A i \in 0 .. n - 1 : i + 1 \in 0 .. n
    BY <1>2
  <2> QED
    <3>1. rest \in [0 .. n - 1 -> Int]
      BY <1>4, <1>5, <2>2
    <3>2. rest[0] = ends[1] - ends[1] /\ rest[n - 1] = ends[n] - ends[1]
      BY <2>1
    <3> QED
      BY <1>2, <1>4, <1>5, <3>1, <3>2
<1>7. ASSUME NEW i \in 1 .. n - 1 PROVE rest[i] = rest[i - 1] + Length(t[i])
  <2>1. /\ i \in 0 .. n - 1 /\ i - 1 \in 0 .. n - 1 /\ i + 1 \in 1 .. n /\ (i - 1) + 1 = i
        /\ (i + 1) - 1 = i /\ i \in 0 .. n /\ i + 1 \in 0 .. n
    BY <1>2
  <2>2. ends[i + 1] = ends[i] + Length(s[i + 1]) /\ ends[i] \in Int /\ ends[i + 1] \in Int
    BY <1>4, <2>1, Zenon
  <2>3. rest[i] = ends[i + 1] - ends[1] /\ rest[i - 1] = ends[i] - ends[1]
    BY <2>1, Zenon
  <2>4. Length(s[i + 1]) \in Nat
    <3>1. s[i + 1] \in InStream
      BY <2>1 DEF n
    <3> QED
      BY <3>1, RpcConstants, Zenon
  <2>5. Length(t[i]) = Length(s[i + 1]) /\ ends[1] \in Int
    BY <1>2, <1>5, <2>1, Zenon
  <2> QED
    BY ONLY <2>2, <2>3, <2>4, <2>5
<1> HIDE DEF rest
<1>8. EndsAt(rest, t, length - Length(s[1]))
  BY <1>2, <1>6, <1>7, Zenon DEF EndsAt
<1> QED
  BY <1>2, <1>8, Zenon DEF t

(* A new connection, or a new process, starts with an empty stream; what is
   queued for NETWORKER stays in order. *)
LEMMA EmptyStreamInv ==
  ASSUME AdminInv, rpc' = NewConn, {live', running', edge', eof'} \subseteq BOOLEAN,
         stream' = <<>>, sent' = 0, here' = 0, read' = 0,
         internal' = internal \/ internal' = <<>>,
         counts' \in [requests : 0 .. MaxRequests, conns : Nat], counts'.requests = counts.requests,
         applied' = applied
  PROVE  AdminInv'
<1>1. RpcTypes'
  <2>1. internal' \in Seq(InQueue)
    <3>1. internal \in Seq(InQueue) /\ <<>> \in Seq(InQueue)
      BY DEF AdminInv, RpcInv, RpcTypes
    <3> QED
      BY <3>1, Zenon
  <2>2. rpc' \in ConnType
    BY Zenon DEF NewConn, RpcCodes, ConnType
  <2> QED
    BY <2>1, <2>2 DEF AdminInv, RpcInv, RpcTypes
<1>2. Measured'
  BY EndsEmpty DEF Measured
<1>3. Framed' /\ Inside'
  <2>1. rpc'.readState = "ReadingHeader" /\ rpc'.readPos = 0
    BY Zenon DEF NewConn
  <2> QED
    BY <2>1, RpcNats, Zenon DEF Framed, Inside
<1>4. NumsInOrder'
  BY DEF AdminInv, NumsInOrder
<1> QED
  BY <1>1, <1>2, <1>3, <1>4, Zenon DEF AdminInv, RpcInv

(* The client writes a request. *)
LEMMA SendInv ==
  ASSUME AdminInv, NEW r \in Requests, SendRequest(r), applied' = applied
  PROVE  AdminInv'
<1> DEFINE n == counts.requests + 1
           m == [num |-> n, code |-> r.code, ips |-> r.ips]
<1>1. RpcTypes /\ Measured /\ Framed /\ Inside /\ NumsInOrder
  BY Zenon DEF AdminInv, RpcInv
<1>2. n \in 1 .. MaxRequests /\ counts' = [counts EXCEPT !.requests = n]
      /\ counts' \in [requests : 0 .. MaxRequests, conns : Nat] /\ counts'.requests = n
  <2>1. counts \in [requests : 0 .. MaxRequests, conns : Nat] /\ counts.requests < MaxRequests
        /\ counts' = [counts EXCEPT !.requests = n]
    BY <1>1, Zenon DEF SendRequest, RpcTypes
  <2>2. counts.requests \in 0 .. MaxRequests
    BY <2>1, Zenon
  <2>3. n \in 1 .. MaxRequests /\ n \in 0 .. MaxRequests
    BY <2>1, <2>2, RpcNats
  <2> HIDE DEF n
  <2> QED
    BY <2>1, <2>3, Zenon
<1> HIDE DEF n
<1>3. m \in InStream /\ Length(m) = Length(r) /\ [code |-> m.code, ips |-> m.ips] \in Requests
      /\ m.num = n
  <2>1. [code |-> r.code, ips |-> r.ips] = r
    BY AdminAssumption, Zenon
  <2> QED
    BY <1>2, <2>1, RpcConstants, Zenon DEF InStream, Length
<1>4. stream \in Seq(InStream) /\ stream' = Append(stream, m) /\ sent' = sent + Length(m)
      /\ UNCHANGED <<rpc, live, running, edge, eof, here, read, internal>>
  BY <1>1, <1>3, Zenon DEF SendRequest, RpcTypes, n
<1> HIDE DEF m
<1>5. /\ stream' \in Seq(InStream) /\ stream' # <<>>
      /\ DOMAIN stream' = 1 .. Len(stream) + 1 /\ DOMAIN stream = 1 .. Len(stream)
      /\ Len(stream) \in Nat
      /\ \A i \in 1 .. Len(stream) : stream'[i] = stream[i]
      /\ stream'[Len(stream) + 1] = m
      /\ stream # <<>> => Head(stream') = Head(stream)
  BY <1>3, <1>4
<1>6. RpcTypes'
  <2>1. \A i \in DOMAIN stream' : [code |-> stream'[i].code, ips |-> stream'[i].ips] \in Requests
    BY <1>1, <1>3, <1>5 DEF RpcTypes
  <2>2. sent' \in Nat
    <3>1. Length(m) \in Nat
      BY <1>3, RpcConstants, Zenon
    <3> QED
      BY <1>1, <1>4, <3>1 DEF RpcTypes
  <2> QED
    BY <1>1, <1>2, <1>4, <1>5, <2>1, <2>2, Zenon DEF RpcTypes
<1>7. Measured'
  <2>1. \E ends : EndsAt(ends, stream', sent')
    <3>1. sent \in Int /\ \E ends : EndsAt(ends, stream, sent)
      BY <1>1 DEF Measured, RpcTypes
    <3> QED
      BY <1>3, <1>4, <3>1, EndsAppend, Zenon
  <2>2. read' <= here' /\ here' <= sent'
    <3>1. Length(m) \in Nat
      BY <1>3, RpcConstants, Zenon
    <3> QED
      BY <1>1, <1>4, <3>1 DEF Measured, RpcTypes
  <2> QED
    BY <2>1, <2>2, Zenon DEF Measured
<1>8. Framed' /\ Inside'
  BY <1>1, <1>4, <1>5, Zenon DEF Framed, Inside
<1>9. NumsInOrder'
  <2>1. counts.requests \in Nat /\ n \in Nat /\ counts.requests < n /\ counts'.requests = n /\ applied \in Nat
    BY <1>1, <1>2 DEF RpcTypes, n
  <2>2. \A i \in DOMAIN stream : stream[i].num \in Nat /\ stream[i].num < n
    <3>1. \A i \in DOMAIN stream : stream[i] \in InStream
      BY <1>4
    <3>2. \A i \in DOMAIN stream : stream[i].num \in Nat
      BY <3>1 DEF InStream
    <3> QED
      BY <1>1, <2>1, <3>2 DEF NumsInOrder
  <2>3. \A i \in DOMAIN internal : internal[i].num \in Nat /\ internal[i].num < n
    <3>1. \A i \in DOMAIN internal : internal[i] \in InQueue
      BY <1>1 DEF RpcTypes
    <3>2. \A i \in DOMAIN internal : internal[i].num \in Nat
      BY <3>1 DEF InQueue
    <3> QED
      BY <1>1, <2>1, <3>2 DEF NumsInOrder
  <2>4. \A i \in DOMAIN stream' :
          applied < stream'[i].num /\ stream'[i].num <= n
          /\ \A j \in DOMAIN internal : internal[j].num < stream'[i].num
    BY <1>1, <1>2, <1>3, <1>5, <2>1, <2>2, <2>3 DEF NumsInOrder
  <2>5. \A i, j \in DOMAIN stream' : i < j => stream'[i].num < stream'[j].num
    BY <1>1, <1>3, <1>5, <2>2 DEF NumsInOrder
  <2>6. applied <= n /\ \A i \in DOMAIN internal : applied < internal[i].num /\ internal[i].num <= n
    <3>1. applied <= n
      BY <1>1, <2>1 DEF NumsInOrder
    <3>2. \A i \in DOMAIN internal : internal[i].num <= n
      BY <2>1, <2>3
    <3> QED
      BY <1>1, <3>1, <3>2, Zenon DEF NumsInOrder
  <2>7. internal' = internal /\ \A i, j \in DOMAIN internal : i < j => internal[i].num < internal[j].num
    BY <1>1, <1>4, Zenon DEF NumsInOrder
  <2> QED
    BY <1>4, <2>7, <2>1, <2>4, <2>5, <2>6, Zenon DEF NumsInOrder
<1> QED
  BY <1>6, <1>7, <1>8, <1>9, Zenon DEF AdminInv, RpcInv

(* A step that changes neither the stream nor the queue: data or the end of
   the stream arrives, an event begins or ends, the connection is closed, a
   read takes a part of the request. *)
LEMMA SameStreamInv ==
  ASSUME AdminInv, UNCHANGED <<stream, sent, internal, counts, applied>>,
         {live', running', edge', eof'} \subseteq BOOLEAN,
         rpc' \in ConnType,
         here' \in Nat, read' \in Nat, read' <= here', here' <= sent,
         Framed', Inside'
  PROVE  AdminInv'
<1>1. RpcTypes'
  BY Zenon DEF AdminInv, RpcInv, RpcTypes
<1>2. Measured'
  BY Zenon DEF AdminInv, RpcInv, Measured
<1>3. NumsInOrder'
  BY Zenon DEF AdminInv, NumsInOrder
<1> QED
  BY <1>1, <1>2, <1>3, Zenon DEF AdminInv, RpcInv

(* The header of a request is read, or a part of it. *)
LEMMA HeaderInv ==
  ASSUME AdminInv, ReadHeader, live, applied' = applied
  PROVE  AdminInv'
<1> DEFINE n == IF here - read < HeaderLen - rpc.readPos THEN here - read
                ELSE HeaderLen - rpc.readPos
<1>1. RpcTypes /\ Measured /\ Framed /\ Inside
  BY Zenon DEF AdminInv, RpcInv
<1>2. /\ rpc.readState = "ReadingHeader" /\ here > read /\ read' = read + n
      /\ UNCHANGED <<live, edge, eof, stream, sent, here, internal, counts>>
      /\ IF rpc.readPos + n < HeaderLen
           THEN rpc' = [rpc EXCEPT !.readPos = rpc.readPos + n] /\ running' = FALSE
           ELSE /\ rpc' = [readState |-> "ReadingBody", readPos |-> 0, code |-> Head(stream).code]
                /\ running' = running
  BY Zenon DEF ReadHeader
<1>3. /\ here \in Nat /\ read \in Nat /\ sent \in Nat /\ rpc.readPos \in Nat
      /\ read = rpc.readPos /\ rpc.readPos < HeaderLen /\ here <= sent
  BY <1>1, <1>2, Zenon DEF RpcTypes, ConnType, Framed, Inside, Measured
<1>4. n \in Nat /\ read + n <= here /\ rpc.readPos + n <= HeaderLen
  BY <1>2, <1>3, RpcNats
<1> HIDE DEF n
<1>9. /\ UNCHANGED <<stream, sent, internal, counts, applied>>
      /\ here' \in Nat /\ read' \in Nat /\ read' <= here' /\ here' <= sent
  BY <1>2, <1>3, <1>4
<1>5. stream # <<>>
  <2> SUFFICES ASSUME stream = <<>> PROVE FALSE
    BY Zenon
  <2>1. sent = 0
    BY <1>1, EndsEmpty, Zenon DEF Measured
  <2> QED
    BY <1>2, <1>3, <2>1
<1>6. Head(stream) \in InStream /\ Head(stream).code \in RpcCodes /\ Len(Head(stream).ips) \in Nat
  <2>1. Head(stream) \in InStream
    BY <1>1, <1>5 DEF RpcTypes
  <2> QED
    BY <2>1 DEF InStream
<1>7. CASE rpc.readPos + n < HeaderLen
  <2>1. rpc' = [rpc EXCEPT !.readPos = rpc.readPos + n] /\ running' = FALSE
    BY <1>2, <1>7, Zenon
  <2>2. rpc \in ConnType /\ rpc.readPos + n \in Nat
    BY <1>1, <1>3, <1>4 DEF RpcTypes
  <2>3. rpc'.readState = "ReadingHeader" /\ rpc'.readPos = rpc.readPos + n /\ rpc' \in ConnType
    BY <1>2, <2>1, <2>2, Moved, Zenon
  <2>4. Framed' /\ Inside'
    BY <1>2, <1>3, <1>7, <2>3, Zenon DEF Framed, Inside
  <2>5. {live', running', edge', eof'} \subseteq BOOLEAN
    BY <1>1, <1>2, <2>1, Zenon DEF RpcTypes
  <2> QED
    BY <1>9, <2>3, <2>4, <2>5, SameStreamInv, Zenon
<1>8. CASE ~(rpc.readPos + n < HeaderLen)
  <2>1. rpc' = [readState |-> "ReadingBody", readPos |-> 0, code |-> Head(stream).code]
        /\ running' = running
    BY <1>2, <1>8, Zenon
  <2>2. rpc.readPos + n = HeaderLen
    BY <1>3, <1>4, <1>8, RpcNats
  <2>3. Framed' /\ Inside'
    <3>1. rpc'.readState = "ReadingBody" /\ rpc'.readPos = 0 /\ read' = HeaderLen
      BY <1>2, <1>3, <2>1, <2>2, Zenon
    <3>2. Head(stream') = Head(stream) /\ stream' # <<>>
      BY <1>2, <1>5, Zenon
    <3> QED
      BY <1>6, <3>1, <3>2, RpcNats DEF Framed, Inside
  <2>4. rpc' \in ConnType
    BY <1>6, <2>1, Zenon DEF ConnType
  <2>5. {live', running', edge', eof'} \subseteq BOOLEAN
    BY <1>1, <1>2, <2>1, Zenon DEF RpcTypes
  <2> QED
    BY <1>9, <2>3, <2>4, <2>5, SameStreamInv, Zenon
<1> QED
  BY <1>7, <1>8, Zenon

(* The rest of a sequence, by positions. *)
LEMMA TailAt ==
  ASSUME NEW S, NEW s \in Seq(S), s # <<>>
  PROVE  /\ Tail(s) \in Seq(S)
         /\ \A i \in DOMAIN Tail(s) : i + 1 \in DOMAIN s /\ 1 < i + 1 /\ Tail(s)[i] = s[i + 1]
         /\ \A i, j \in DOMAIN Tail(s) : i < j => i + 1 < j + 1
<1>1. Tail(s) \in Seq(S) /\ DOMAIN Tail(s) = 1 .. Len(s) - 1 /\ DOMAIN s = 1 .. Len(s) /\ Len(s) \in Nat
  OBVIOUS
<1>2. \A i \in 1 .. Len(s) - 1 : Tail(s)[i] = s[i + 1]
  OBVIOUS
<1> QED
  BY <1>1, <1>2

(* The body of a request is read, or a part of it. *)
LEMMA BodyInv ==
  ASSUME AdminInv, ReadBody, live, applied' = applied
  PROVE  AdminInv'
<1> DEFINE want == Len(Head(stream).ips) - rpc.readPos
           n == IF here - read < want THEN here - read ELSE want
<1>1. RpcTypes /\ Measured /\ Framed /\ Inside
  BY Zenon DEF AdminInv, RpcInv
<1>2. /\ rpc.readState = "ReadingBody" /\ here > read /\ read' = read + n
      /\ UNCHANGED <<live, edge, eof, stream, sent, here, internal, counts>>
      /\ IF n < want
           THEN rpc' = [rpc EXCEPT !.readPos = rpc.readPos + n] /\ running' = FALSE
           ELSE /\ rpc' = [rpc EXCEPT !.readPos = 0, !.readState = "Processing"]
                /\ running' = running
  BY Zenon DEF ReadBody
<1>3. /\ here \in Nat /\ read \in Nat /\ sent \in Nat /\ rpc.readPos \in Nat /\ stream # <<>>
      /\ read = HeaderLen + rpc.readPos /\ rpc.readPos <= Len(Head(stream).ips) /\ here <= sent
  BY <1>1, <1>2, Zenon DEF RpcTypes, ConnType, Framed, Inside, Measured
<1>4. /\ Head(stream) \in InStream /\ Len(Head(stream).ips) \in Nat
      /\ Length(Head(stream)) = HeaderLen + Len(Head(stream).ips)
  <2>1. Head(stream) \in InStream
    BY <1>1, <1>3 DEF RpcTypes
  <2> QED
    BY <2>1, RpcConstants, Zenon
<1>5. want \in Nat /\ n \in Nat /\ read + n <= here /\ n <= want
      /\ rpc.readPos + want = Len(Head(stream).ips)
  BY <1>2, <1>3, <1>4
<1> HIDE DEF n, want
<1>8. /\ read' = read + n /\ here' = here /\ applied' = applied
      /\ UNCHANGED <<stream, sent, internal, counts>> /\ UNCHANGED <<live, edge, eof>>
  BY <1>2, Zenon
<1>9. read' \in Nat /\ read' <= here' /\ here' \in Nat /\ here' <= sent
  BY <1>3, <1>5, <1>8
<1>6. CASE n < want
  <2>1. rpc' = [rpc EXCEPT !.readPos = rpc.readPos + n] /\ running' = FALSE
    BY <1>2, <1>6, Zenon
  <2> DEFINE k == rpc.readPos + n
  <2>2. k \in Nat /\ k <= Len(Head(stream).ips) /\ read' = HeaderLen + k
    <3>1. rpc.readPos \in Nat /\ Len(Head(stream).ips) \in Nat /\ HeaderLen \in Nat /\ n \in Nat
          /\ want \in Nat
      BY <1>3, <1>4, <1>5, RpcNats, Zenon
    <3>2. read' = (HeaderLen + rpc.readPos) + n /\ n <= want
          /\ rpc.readPos + want = Len(Head(stream).ips)
      BY <1>3, <1>5, <1>8, Zenon
    <3> QED
      BY ONLY <3>1, <3>2 DEF k
  <2>3. rpc' = [rpc EXCEPT !.readPos = k]
    BY <2>1, Zenon
  <2> HIDE DEF k
  <2>4. rpc \in ConnType
    BY <1>1, Zenon DEF RpcTypes
  <2>5. rpc'.readState = "ReadingBody" /\ rpc'.readPos = k /\ rpc' \in ConnType
    BY <1>2, <2>2, <2>3, <2>4, Moved, Zenon
  <2>6. rpc'.readPos <= Len(Head(stream).ips) /\ read' = HeaderLen + rpc'.readPos
    BY <2>2, <2>5, Zenon
  <2>7. Framed' /\ Inside'
    BY <1>2, <1>3, <2>5, <2>6, Zenon DEF Framed, Inside
  <2> QED
    <3>1. {live', running', edge', eof'} \subseteq BOOLEAN
      BY <1>1, <1>8, <2>1, Zenon DEF RpcTypes
    <3> QED
      BY <1>8, <1>9, <2>5, <2>7, <3>1, SameStreamInv, Zenon
<1>7. CASE ~(n < want)
  <2>1. rpc' = [rpc EXCEPT !.readPos = 0, !.readState = "Processing"] /\ running' = running
    BY <1>2, <1>7, Zenon
  <2>2. rpc'.readState = "Processing"
        /\ rpc' \in ConnType
    BY <1>1, <2>1, Zenon DEF RpcTypes, ConnType
  <2>3. read' = Length(Head(stream))
    <3>1. n = want
      BY ONLY <1>5, <1>7
    <3>2. HeaderLen \in Nat
      BY RpcNats, Zenon
    <3> QED
      BY ONLY <1>2, <1>3, <1>4, <1>5, <3>1, <3>2
  <2>4. Framed' /\ Inside'
    BY <1>2, <1>3, <2>2, <2>3, Zenon DEF Framed, Inside
  <2> QED
    <3>1. {live', running', edge', eof'} \subseteq BOOLEAN
      BY <1>1, <1>8, <2>1, Zenon DEF RpcTypes
    <3> QED
      BY <1>8, <1>9, <2>2, <2>4, <3>1, SameStreamInv, Zenon
<1> QED
  BY <1>6, <1>7, Zenon

(* A request that has been read becomes a message for NETWORKER. *)
LEMMA ProcessingInv ==
  ASSUME AdminInv, Processing, live, applied' = applied
  PROVE  AdminInv'
<1> DEFINE r == Head(stream)
           m == FillForInternal(r.num, rpc.code, r.ips)
<1>1. RpcTypes /\ Measured /\ Framed /\ Inside /\ NumsInOrder
  BY Zenon DEF AdminInv, RpcInv
<1>2. /\ rpc.readState = "Processing" /\ rpc' = NewConn
      /\ internal' = IF rpc.code = "None" THEN internal ELSE Append(internal, m)
      /\ stream' = Tail(stream) /\ sent' = sent - Length(r) /\ here' = here - Length(r)
      /\ read' = read - Length(r)
      /\ UNCHANGED <<live, running, edge, eof, counts>>
  BY Zenon DEF Processing
<1>3. /\ stream # <<>> /\ stream \in Seq(InStream) /\ read = Length(r)
      /\ here \in Nat /\ read \in Nat /\ sent \in Nat /\ read <= here /\ here <= sent
  BY <1>1, <1>2, Zenon DEF RpcTypes, ConnType, Framed, Inside, Measured
<1>4. r \in InStream /\ r = stream[1] /\ Length(r) \in Nat /\ 1 \in DOMAIN stream
  BY <1>3, RpcConstants
<1>5. /\ stream' \in Seq(InStream)
      /\ \A i \in DOMAIN stream' : i + 1 \in DOMAIN stream /\ 1 < i + 1 /\ stream'[i] = stream[i + 1]
      /\ \A i, j \in DOMAIN stream' : i < j => i + 1 < j + 1
  BY <1>2, <1>3, TailAt, Zenon
<1>6. rpc.code # "None" => m \in InQueue /\ m.num = r.num
  <2> SUFFICES ASSUME rpc.code # "None" PROVE m \in InQueue /\ m.num = r.num
    BY Zenon
  <2>1. [code |-> r.code, ips |-> r.ips] \in Requests
    BY <1>1, <1>4, Zenon DEF RpcTypes
  <2>2. rpc.code \in RpcCodes /\ rpc.code \in NetManCodes
    BY <1>1, Zenon DEF RpcTypes, ConnType, RpcCodes
  <2>3. r.num \in 1 .. MaxRequests /\ r.num \in Nat
    BY <1>4 DEF InStream
  <2> DEFINE q == [code |-> r.code, ips |-> r.ips]
  <2>4. q.ips = r.ips /\ q \in Requests
    BY <2>1, Zenon
  <2> HIDE DEF q, r
  <2>5. m = [num |-> r.num, code |-> rpc.code, body |-> FillForInternal(0, q.code, q.ips).body]
    BY <2>2, <2>3, <2>4, RpcConstants, Zenon
  <2>6. FillForInternal(0, q.code, q.ips).body \in Bodies
    BY <2>4, RpcConstants, Zenon
  <2> QED
    BY <2>2, <2>3, <2>5, <2>6 DEF InQueue
<1> HIDE DEF m
<1>7. internal \in Seq(InQueue)
  BY <1>1, Zenon DEF RpcTypes
<1>8. RpcTypes'
  <2>1. \A i \in DOMAIN stream' : [code |-> stream'[i].code, ips |-> stream'[i].ips] \in Requests
    BY <1>1, <1>5, Zenon DEF RpcTypes
  <2>2. sent' \in Nat /\ here' \in Nat /\ read' \in Nat
    BY <1>2, <1>3, <1>4
  <2>3. internal' \in Seq(InQueue)
    BY <1>2, <1>6, <1>7
  <2>4. rpc' \in ConnType
    BY <1>2, Zenon DEF NewConn, RpcCodes, ConnType
  <2> QED
    BY <1>1, <1>2, <1>5, <2>1, <2>2, <2>3, <2>4, Zenon DEF RpcTypes
<1>9. Measured'
  <2>1. sent \in Int /\ \E ends : EndsAt(ends, stream, sent)
    BY <1>1, <1>3 DEF Measured
  <2>2. \E ends : EndsAt(ends, stream', sent')
    BY <1>2, <1>3, <2>1, EndsTail, Zenon
  <2>3. read' <= here' /\ here' <= sent'
    BY <1>2, <1>3, <1>4
  <2> QED
    BY <2>2, <2>3, Zenon DEF Measured
<1>10. Framed' /\ Inside'
  <2>1. rpc'.readState = "ReadingHeader" /\ rpc'.readPos = 0
    BY <1>2, Zenon DEF NewConn
  <2>2. read' = 0
    BY <1>2, <1>3
  <2> QED
    BY <2>1, <2>2, RpcNats, Zenon DEF Framed, Inside
<1>11. NumsInOrder'
  <2>1. \A i \in DOMAIN stream' : r.num < stream'[i].num
    BY <1>1, <1>4, <1>5, Zenon DEF NumsInOrder
  <2>2. /\ \A i \in DOMAIN stream' : applied < stream'[i].num /\ stream'[i].num <= counts.requests
        /\ \A i, j \in DOMAIN stream' : i < j => stream'[i].num < stream'[j].num
        /\ \A i \in DOMAIN internal, j \in DOMAIN stream' : internal[i].num < stream'[j].num
    BY <1>1, <1>5, Zenon DEF NumsInOrder
  <2>3. CASE rpc.code = "None"
    BY <1>1, <1>2, <2>2, <2>3, Zenon DEF NumsInOrder
  <2>4. CASE rpc.code # "None"
    <3>1. m \in InQueue /\ m.num = r.num /\ internal' = Append(internal, m)
      BY <1>2, <1>6, <2>4, Zenon
    <3>2. /\ DOMAIN internal' = 1 .. Len(internal) + 1 /\ DOMAIN internal = 1 .. Len(internal)
          /\ Len(internal) \in Nat
          /\ \A i \in 1 .. Len(internal) : internal'[i] = internal[i]
          /\ internal'[Len(internal) + 1] = m
      BY <1>7, <3>1
    <3>3. applied < r.num /\ r.num <= counts.requests /\ \A i \in DOMAIN internal : internal[i].num < r.num
      BY <1>1, <1>4, Zenon DEF NumsInOrder
    <3>4. \A i \in DOMAIN internal' :
            /\ applied < internal'[i].num /\ internal'[i].num <= counts.requests
            /\ \A j \in DOMAIN stream' : internal'[i].num < stream'[j].num
      BY <1>1, <2>1, <2>2, <3>1, <3>2, <3>3 DEF NumsInOrder
    <3>5. \A i, j \in DOMAIN internal' : i < j => internal'[i].num < internal'[j].num
      BY <1>1, <3>1, <3>2, <3>3 DEF NumsInOrder
    <3> QED
      BY <1>1, <1>2, <2>2, <3>4, <3>5, Zenon DEF NumsInOrder
  <2> QED
    BY <2>3, <2>4, Zenon
<1> QED
  BY <1>8, <1>9, <1>10, <1>11, Zenon DEF AdminInv, RpcInv

(* NETWORKER applies the first message of its queue. *)
LEMMA NetworkerInv ==
  ASSUME AdminInv, Networker
  PROVE  AdminInv' /\ applied' > applied
<1>1. RpcTypes /\ Measured /\ Framed /\ Inside /\ NumsInOrder
  BY Zenon DEF AdminInv, RpcInv
<1>2. /\ internal # <<>> /\ internal' = Tail(internal) /\ applied' = internal[1].num
      /\ UNCHANGED <<rpc, live, running, edge, eof, stream, sent, here, read, counts>>
  BY DEF Networker
<1>3. internal \in Seq(InQueue) /\ 1 \in DOMAIN internal /\ internal[1] \in InQueue
  BY <1>1, <1>2 DEF RpcTypes
<1>4. /\ internal' \in Seq(InQueue)
      /\ \A i \in DOMAIN internal' :
           i + 1 \in DOMAIN internal /\ 1 < i + 1 /\ internal'[i] = internal[i + 1]
      /\ \A i, j \in DOMAIN internal' : i < j => i + 1 < j + 1
  BY <1>2, <1>3, TailAt, Zenon
<1>5. applied' \in Nat
  BY <1>2, <1>3 DEF InQueue
<1>6. RpcTypes'
  BY <1>1, <1>2, <1>4, <1>5, Zenon DEF RpcTypes
<1>7. Measured' /\ Framed' /\ Inside'
  BY <1>1, <1>2, Zenon DEF Measured, Framed, Inside
<1>8. NumsInOrder'
  BY <1>1, <1>2, <1>3, <1>4 DEF NumsInOrder
<1>9. applied' > applied
  BY <1>1, <1>2, <1>3, Zenon DEF NumsInOrder
<1> QED
  BY <1>6, <1>7, <1>8, <1>9, Zenon DEF AdminInv, RpcInv

-----------------------------------------------------------------------------
(* The composition. *)

(* An event is in on_readable only for a connection of the server's map. *)
Attended == running => live

(* RpcInit, with no request applied, is a state of the invariant. *)
LEMMA InitAdminInv == Init => AdminInv /\ Attended
<1> SUFFICES ASSUME Init PROVE AdminInv /\ Attended
  BY Zenon
<1> USE DEF Init, RpcInit
<1>1. RpcTypes
  <2>1. <<>> \in Seq(InStream) /\ <<>> \in Seq(InQueue)
    OBVIOUS
  <2>2. counts \in [requests : 0 .. MaxRequests, conns : Nat]
    BY RpcNats
  <2>3. rpc \in ConnType
    BY Zenon DEF NewConn, RpcCodes, ConnType
  <2>4. {live, running, edge, eof} \subseteq BOOLEAN /\ sent \in Nat /\ here \in Nat /\ read \in Nat
        /\ applied \in Nat
    BY Zenon
  <2>5. \A i \in DOMAIN stream : [code |-> stream[i].code, ips |-> stream[i].ips] \in Requests
    OBVIOUS
  <2>6. stream \in Seq(InStream) /\ internal \in Seq(InQueue)
    BY <2>1, Zenon
  <2> HIDE DEF Init, RpcInit
  <2> QED
    BY <2>2, <2>3, <2>4, <2>5, <2>6, Zenon DEF RpcTypes
<1>2. Measured
  BY EndsEmpty DEF Measured
<1>3. Framed /\ Inside /\ Attended
  BY RpcNats, Zenon DEF Framed, Inside, Attended, NewConn
<1>4. NumsInOrder
  BY RpcNats DEF NumsInOrder
<1> QED
  BY <1>1, <1>2, <1>3, <1>4, Zenon DEF AdminInv, RpcInv

(* An error closes the connection and leaves the queue alone. *)
LEMMA CloseInv ==
  ASSUME AdminInv, Close, applied' = applied
  PROVE  AdminInv' /\ Attended'
<1>1. RpcTypes /\ Measured
  BY Zenon DEF AdminInv, RpcInv
<1>2. /\ live' = FALSE /\ running' = FALSE /\ edge' = FALSE /\ eof' = eof
      /\ here' = here /\ read' = read /\ UNCHANGED <<stream, sent, internal, counts, applied>>
  BY Zenon DEF Close
<1>3. rpc' \in ConnType
  BY Zenon DEF Close, Reset, NewConn, RpcCodes, ConnType
<1>4. here' \in Nat /\ read' \in Nat /\ read' <= here' /\ here' <= sent
  BY <1>1, <1>2, Zenon DEF RpcTypes, Measured
<1>5. Framed' /\ Inside' /\ Attended'
  <2>1. rpc'.readPos = 0
    BY Zenon DEF Close, Reset, NewConn
  <2> QED
    BY <1>2, <2>1, RpcNats, Zenon DEF Framed, Inside, Attended
<1>6. {live', running', edge', eof'} \subseteq BOOLEAN
  BY <1>1, <1>2, Zenon DEF RpcTypes
<1> QED
  BY <1>2, <1>3, <1>4, <1>5, <1>6, SameStreamInv, Zenon

(* Data or the end of the stream arrives, an event begins, or a read would
   block: the requests and the queue stay. *)
LEMMA QuietInv ==
  ASSUME AdminInv, Attended, Arrive \/ HangUp \/ Event \/ WouldBlock, applied' = applied
  PROVE  AdminInv' /\ Attended'
<1>1. RpcTypes /\ Measured /\ Framed /\ Inside
  BY Zenon DEF AdminInv, RpcInv
<1>2. /\ live' = live /\ read' = read /\ UNCHANGED <<stream, sent, internal, counts, applied>>
  BY Zenon DEF Arrive, HangUp, Event, WouldBlock
<1>3. {live', running', edge', eof'} \subseteq BOOLEAN /\ Attended'
  BY <1>1, Zenon DEF RpcTypes, Attended, Arrive, HangUp, Event, WouldBlock
<1>4. here' \in Nat /\ read' \in Nat /\ read' <= here' /\ here' <= sent
  <2>1. here \in Nat /\ read \in Nat /\ sent \in Nat /\ read <= here /\ here <= sent
    BY <1>1, Zenon DEF RpcTypes, Measured
  <2>2. here' = here \/ here' \in (here + 1) .. sent
    BY Zenon DEF Arrive, HangUp, Event, WouldBlock
  <2> QED
    BY <1>2, <2>1, <2>2
<1>5. CASE WouldBlock
  <2>1. rpc' = [rpc EXCEPT !.readState = "None"]
    BY <1>5, Zenon DEF WouldBlock
  <2>2. rpc'.readState = "None"
        /\ rpc' \in ConnType
    BY <1>1, <2>1, Zenon DEF RpcTypes, ConnType
  <2>3. Framed' /\ Inside'
    BY <2>2, Zenon DEF Framed, Inside
  <2> QED
    BY <1>2, <1>3, <1>4, <2>2, <2>3, SameStreamInv, Zenon
<1>6. CASE Arrive \/ HangUp \/ Event
  <2>1. rpc' = rpc
    BY <1>6, Zenon DEF Arrive, HangUp, Event
  <2>2. rpc' \in ConnType
    BY <1>1, <2>1, Zenon DEF RpcTypes
  <2>3. Framed' /\ Inside'
    BY <1>1, <1>2, <2>1, Zenon DEF Framed, Inside, Length
  <2> QED
    BY <1>2, <1>3, <1>4, <2>2, <2>3, SameStreamInv, Zenon
<1> QED
  BY <1>5, <1>6, Zenon

(* Every step of the node preserves the invariant. *)
LEMMA StepAdminInv == AdminInv /\ Attended /\ [Next]_vars => AdminInv' /\ Attended'
<1> SUFFICES ASSUME AdminInv, Attended, [Next]_vars PROVE AdminInv' /\ Attended'
  BY Zenon
<1>1. counts \in [requests : 0 .. MaxRequests, conns : Nat]
      /\ {live, running, edge, eof} \subseteq BOOLEAN
  BY Zenon DEF AdminInv, RpcInv, RpcTypes
<1>2. CASE NodeEnds
  <2>1. /\ rpc' = NewConn /\ {live', running', edge', eof'} \subseteq BOOLEAN
        /\ stream' = <<>> /\ sent' = 0 /\ here' = 0 /\ read' = 0 /\ internal' = <<>>
        /\ counts' = counts /\ applied' = applied /\ ~running'
    BY <1>2, Zenon DEF NodeEnds, EndRpc
  <2> QED
    BY <1>1, <2>1, EmptyStreamInv, Zenon DEF Attended
<1>3. CASE NodeStarts \/ PeerActs \/ UNCHANGED vars
  <2>1. UNCHANGED <<rpcVars, applied>>
    BY <1>3, Zenon DEF NodeStarts, PeerActs, vars
  <2> QED
    BY <2>1, Zenon
       DEF rpcVars, AdminInv, RpcInv, RpcTypes, Measured, Framed, Inside, NumsInOrder,
           Attended, Length
<1>4. CASE Networker
  <2>1. running' = running /\ live' = live
    BY <1>4, Zenon DEF Networker
  <2> QED
    BY <1>4, <2>1, NetworkerInv, Zenon DEF Attended
<1>5. CASE RpcServer
  <2>0. applied' = applied
    BY <1>5, Zenon DEF RpcServer
  <2>1. CASE Connect
    <3>1. counts' = [counts EXCEPT !.conns = counts.conns + 1]
      BY <2>1, Zenon DEF Connect
    <3>2. counts.conns + 1 \in Nat
      BY <1>1
    <3>3. counts' \in [requests : 0 .. MaxRequests, conns : Nat] /\ counts'.requests = counts.requests
      BY <1>1, <3>1, <3>2, Zenon
    <3>4. /\ rpc' = NewConn /\ {live', running', edge', eof'} \subseteq BOOLEAN
          /\ stream' = <<>> /\ sent' = 0 /\ here' = 0 /\ read' = 0 /\ internal' = internal
          /\ live'
      BY <1>1, <2>1, Zenon DEF Connect, Reset
    <3> QED
      BY <2>0, <3>3, <3>4, EmptyStreamInv, Zenon DEF Attended
  <2>2. CASE \E r \in Requests : SendRequest(r)
    <3>1. running' = running /\ live' = live
      BY <2>2, Zenon DEF SendRequest
    <3> QED
      BY <2>0, <2>2, <3>1, SendInv, Zenon DEF Attended
  <2>3. CASE Arrive \/ HangUp \/ Event \/ WouldBlock
    BY <2>0, <2>3, QuietInv, Zenon
  <2>4. CASE NoState \/ EndOfStream \/ EmptyBody
    BY <2>0, <2>4, CloseInv, Zenon DEF NoState, EndOfStream, EmptyBody
  <2>5. CASE ReadHeader \/ ReadBody \/ Processing
    <3>1. live /\ live' = live
      BY <2>5, Zenon DEF ReadHeader, ReadBody, Processing, Attended
    <3> QED
      BY <2>0, <2>5, <3>1, HeaderInv, BodyInv, ProcessingInv, Zenon DEF Attended
  <2> QED
    BY <1>5, <2>1, <2>2, <2>3, <2>4, <2>5, Zenon DEF RpcServer, RpcStep, OnReadable
<1> QED
  BY <1>2, <1>3, <1>4, <1>5, Zenon DEF Next

(* Every state of the node satisfies the invariant: the units of the stream
   are those of its requests, the connection is inside the request it reads,
   and the numbers of the requests ascend from the table to the stream. *)
THEOREM AdminInvariance == Spec => [](AdminInv /\ Attended)
<1>1. Init => AdminInv /\ Attended
  BY InitAdminInv, Zenon
<1>2. AdminInv /\ Attended /\ [Next]_vars => (AdminInv /\ Attended)'
  BY StepAdminInv, Zenon
<1> QED
  BY <1>1, <1>2, PTL DEF Spec

(* on_readable keeps the frames of requests of every length, whatever pieces
   the bytes arrive in and however often the client connects. *)
THEOREM FramesKept == Spec => []Framed
<1>1. AdminInv => Framed
  BY Zenon DEF AdminInv, RpcInv
<1> QED
  BY <1>1, AdminInvariance, PTL

(* NETWORKER applies requests in the order in which they were sent, none
   twice. *)
THEOREM RequestsInOrder == Spec => AppliedInOrder
<1>1. AdminInv /\ [Next]_vars => [applied' # applied => applied' > applied]_vars
  <2> SUFFICES ASSUME AdminInv, Next PROVE applied' # applied => applied' > applied
    BY Zenon
  <2>1. CASE Networker
    BY <2>1, NetworkerInv, Zenon
  <2>2. CASE ~Networker
    BY <2>2, Zenon DEF Next, NodeEnds, NodeStarts, PeerActs, RpcServer
  <2> QED
    BY <2>1, <2>2, Zenon
<1> QED
  BY <1>1, AdminInvariance, PTL DEF Spec, AppliedInOrder

(* Everything that the node does to the table of peers is a step of PeersSpec:
   a message of NETWORKER carries a code and a body of the requests. *)
THEOREM AdminImplementsPeers == Spec => ImplementsPeers
<1>1. Init => PeersInit
  BY Zenon DEF Init
<1>2. AdminInv /\ [Next]_vars => [PeersNext]_peerVars
  <2> SUFFICES ASSUME AdminInv, [Next]_vars PROVE [PeersNext]_peerVars
    BY Zenon
  <2>1. CASE NodeEnds \/ NodeStarts \/ PeerActs
    BY <2>1, Zenon DEF NodeEnds, NodeStarts, PeerActs, PeersNext, PeersStep
  <2>2. CASE Networker
    <3>1. internal \in Seq(InQueue) /\ internal # <<>>
      BY <2>2, Zenon DEF Networker, AdminInv, RpcInv, RpcTypes
    <3>2. Head(internal) \in InQueue
      BY <3>1
    <3>3. Head(internal).code \in NetManCodes /\ Head(internal).body \in Bodies
      BY <3>2, Zenon DEF InQueue
    <3>4. HandleInternal(Head(internal).code, Head(internal).body)
      BY <2>2, Zenon DEF Networker
    <3> QED
      BY <3>3, <3>4, Zenon DEF PeersNext
  <2>3. CASE RpcServer \/ UNCHANGED vars
    BY <2>3, Zenon DEF RpcServer, vars
  <2> QED
    BY <2>1, <2>2, <2>3, Zenon DEF Next
<1> QED
  BY <1>1, <1>2, AdminInvariance, PTL DEF Spec, ImplementsPeers, PeersSpec

(* The node keeps the types of both components. *)
THEOREM NodeTypes == Spec => []TypeOK
<1>1. AdminInv /\ Attended => RpcTypeOK /\ applied \in 0 .. MaxRequests
  <2> SUFFICES ASSUME AdminInv, Attended PROVE RpcTypeOK /\ applied \in 0 .. MaxRequests
    BY Zenon
  <2>1. RpcTypes /\ Measured /\ Framed /\ Inside /\ NumsInOrder
    BY Zenon DEF AdminInv, RpcInv
  <2>2. /\ rpc.readState \in {"ReadingHeader", "ReadingBody", "Processing", "None"}
        /\ rpc.readPos \in Nat /\ read \in Nat /\ read <= here /\ here <= sent
    BY <2>1, Zenon DEF RpcTypes, ConnType, Measured
  <2>3. applied \in Nat /\ counts.requests \in 0 .. MaxRequests /\ applied <= counts.requests
    BY <2>1, Zenon DEF RpcTypes, NumsInOrder
  <2>4. rpc.readState = "ReadingHeader" => rpc.readPos \in 0 .. HeaderLen - 1
    BY <2>1, <2>2, RpcNats DEF Inside
  <2> QED
    BY <2>2, <2>3, <2>4, RpcNats DEF RpcTypeOK, Attended
<1>2. PeersSpec => []PeersTypeOK
  BY ScoresNeverWrap, PTL
<1> QED
  BY <1>1, <1>2, AdminInvariance, AdminImplementsPeers, PTL DEF TypeOK, ImplementsPeers

(* So the bans of the whole node last and survive, with its RPC server. *)
THEOREM NodeKeepsBans == Spec => []ScoresFit /\ ScoresGrow /\ ScoresSurvive
BY AdminImplementsPeers, ScoresNeverWrap, BansLast, BansSurvive, PTL DEF ImplementsPeers
=============================================================================
