---------------------------- MODULE Chain_proofs ----------------------------
(***************************************************************************)
(* The transaction pool keeps its map and its heap in step, stays within   *)
(* its capacity and returns the best transaction, alone and as from_net    *)
(* and the execution of blocks use it, for every set of transactions,      *)
(* every assignment of fees and every capacity. A draft is valid when its  *)
(* calls were made in order, and a draft that is valid conserves money and *)
(* was signed by both of its parties, however its calls were mixed: for    *)
(* every set of accounts, every balance, delta and fee, and every width of *)
(* the amounts and order of the group that is large enough.                *)
(***************************************************************************)
EXTENDS Chain, FiniteSetTheorems, TLAPS

-----------------------------------------------------------------------------
(* Amounts and commitments. *)

U64 == 0 .. U - 1

(* The field does not wrap for what two amounts can add up to. *)
LEMMA FieldSmall ==
  ASSUME NEW a \in Int
  PROVE  /\ a \in 0 .. Order - 1 => a % Order = a
         /\ a < 0 /\ a + Order >= 0 => a % Order = a + Order
<1>1. Order \in Nat /\ Order > 0
  BY TrxAssumption
<1> QED
  BY <1>1

(* What a range proof, which state_transition makes for an amount of u64, says
   of the sender's final balance: it is the difference over the integers. *)
THEOREM RangeProofTiesFields ==
  ASSUME NEW s \in U64, NEW d \in U64, NEW f \in U64,
         (((s - d) % Order) - (f % Order)) % Order \in U64
  PROVE  /\ d + f <= s
         /\ (((s - d) % Order) - (f % Order)) % Order = s - d - f
<1>1. U \in Nat /\ U > 0 /\ Order \in Nat /\ Order > 4 * U
  BY TrxAssumption
<1>2. s \in Int /\ 0 <= s /\ s < U /\ d \in Int /\ 0 <= d /\ d < U /\ f \in Int /\ 0 <= f /\ f < U
  BY <1>1 DEF U64
<1>3. f % Order = f
  BY <1>1, <1>2, FieldSmall
<1>4. CASE s >= d
  <2>1. (s - d) % Order = s - d
    BY <1>1, <1>2, <1>4, FieldSmall
  <2>2. CASE s - d >= f
    <3>1. (s - d - f) % Order = s - d - f
      BY <1>1, <1>2, <2>2, FieldSmall
    <3> QED
      BY <1>2, <1>3, <2>1, <2>2, <3>1
  <2>3. CASE s - d < f
    <3>1. (s - d - f) % Order = s - d - f + Order
      BY <1>1, <1>2, <1>4, <2>3, FieldSmall
    <3>2. s - d - f + Order >= U
      BY <1>1, <1>2
    <3> QED
      BY <1>1, <1>2, <1>3, <2>1, <3>1, <3>2 DEF U64
  <2> QED
    BY <1>2, <2>2, <2>3
<1>5. CASE s < d
  <2>1. (s - d) % Order = s - d + Order
    BY <1>1, <1>2, <1>5, FieldSmall
  <2>2. (s - d + Order - f) % Order = s - d + Order - f
    BY <1>1, <1>2, <1>5, FieldSmall
  <2>3. s - d + Order - f >= U
    BY <1>1, <1>2
  <2> QED
    BY <1>1, <1>2, <1>3, <2>1, <2>2, <2>3 DEF U64
<1> QED
  BY <1>2, <1>4, <1>5

(* The commitments of is_valid conserve the balances of the two parties when
   the sender's is one to an amount. *)
LEMMA FinalsConserve ==
  ASSUME NEW t, NEW a, NEW b, a.x \in U64, b.x \in U64, t.delta.x \in U64, t.fee \in U64,
         Finals(t, a, b).sender.x \in U64
  PROVE  Finals(t, a, b).sender.x + Finals(t, a, b).receiver.x + t.fee = a.x + b.x
<1> DEFINE sFinal == Finals(t, a, b).sender
           rFinal == Finals(t, a, b).receiver
           left == (((a.x - t.delta.x) % Order) - (t.fee % Order)) % Order
<1>1. U \in Nat /\ U > 0 /\ Order \in Nat /\ Order > 4 * U
  BY TrxAssumption
<1>2. sFinal.x = left /\ rFinal.x = (b.x + t.delta.x) % Order
  BY Zenon DEF Finals, Less, Plus, Commit, VisibleValueCommit, HiddenValueCommit
<1>3. left \in U64
  BY <1>2, Zenon
<1>4. left = a.x - t.delta.x - t.fee
  BY <1>3, RangeProofTiesFields, Zenon
<1>5. b.x + t.delta.x \in 0 .. Order - 1
  BY <1>1 DEF U64
<1>6. rFinal.x = b.x + t.delta.x
  BY <1>2, <1>5, FieldSmall
<1> HIDE DEF sFinal, rFinal, left
<1>7. sFinal.x + rFinal.x + t.fee = a.x + b.x
  BY <1>1, <1>2, <1>4, <1>6 DEF U64
<1> QED
  BY <1>7, Zenon DEF sFinal, rFinal

(* An amount that the sender can pay leaves the same balance in u64 and in the
   field of the commitments. *)
LEMMA AffordableLeft ==
  ASSUME NEW s \in U64, NEW d \in U64, NEW f \in U64, d + f <= s
  PROVE  (((s - d) % Order) - (f % Order)) % Order = (s - d - f) % U
<1>1. U \in Nat /\ U > 0 /\ Order \in Nat /\ Order > 4 * U
  BY TrxAssumption
<1>2. s - d \in 0 .. Order - 1 /\ f \in 0 .. Order - 1 /\ s - d - f \in 0 .. Order - 1
  BY <1>1 DEF U64
<1>3. (s - d) % Order = s - d /\ f % Order = f /\ (s - d - f) % Order = s - d - f
  BY <1>2, FieldSmall
<1>4. (s - d - f) % U = s - d - f
  BY <1>1 DEF U64
<1> QED
  BY <1>3, <1>4, Zenon

(* The sender's balance after a transaction that commits to s, d and f. *)
LEMMA SenderFinal ==
  ASSUME NEW s \in U64, NEW d \in U64, NEW f \in U64,
         NEW sr \in 0 .. Order - 1, NEW dr \in 0 .. Order - 1, NEW u, NEW rInit,
         u.delta = Commit(d, dr), u.fee = f
  PROVE  Finals(u, Commit(s, sr), rInit).sender =
           [x |-> (((s - d) % Order) - (f % Order)) % Order, r |-> (sr - dr) % Order]
<1> DEFINE left == (((s - d) % Order) - (f % Order)) % Order
           blind == (sr - dr) % Order
<1>1. U \in Nat /\ U > 0 /\ Order \in Nat /\ Order > 4 * U
  BY TrxAssumption
<1>2. s % Order = s /\ d % Order = d /\ sr % Order = sr /\ dr % Order = dr /\ 0 % Order = 0
  BY <1>1, FieldSmall DEF U64
<1>3. blind - 0 = blind /\ blind % Order = blind
  <2>1. blind \in 0 .. Order - 1
    BY <1>1
  <2> HIDE DEF blind
  <2> QED
    BY <2>1, FieldSmall
<1>4. Commit(s, sr) = [x |-> s, r |-> sr] /\ u.delta = [x |-> d, r |-> dr]
  BY <1>2, Zenon DEF Commit
<1>5. Less(Commit(s, sr), u.delta) = [x |-> (s - d) % Order, r |-> blind]
  BY <1>4 DEF Less, Commit
<1>6. VisibleValueCommit(u.fee).commit = [x |-> f % Order, r |-> 0]
  BY <1>2, Zenon DEF VisibleValueCommit, HiddenValueCommit, Commit
<1>7. Less([x |-> (s - d) % Order, r |-> blind], [x |-> f % Order, r |-> 0]) = [x |-> left, r |-> blind]
  <2> HIDE DEF blind
  <2> QED
    BY <1>3, Zenon DEF Less, Commit
<1> QED
  BY <1>5, <1>6, <1>7, Zenon DEF Finals

(* state_transition makes the range proof that is_valid asks for exactly when
   the sender can pay: one that overspends proves the wrapped balance, which
   is not the balance in the commitments. *)
THEOREM ProofIffAffordable ==
  ASSUME NEW s \in U64, NEW d \in U64, NEW f \in U64,
         NEW sr \in 0 .. Order - 1, NEW dr \in 0 .. Order - 1, NEW rInit
  PROVE  LET u == StateTransition(New("Ephemeral"), TRUE, HiddenValueCommit(s, sr),
                                  HiddenValueCommit(d, dr), VisibleValueCommit(f)).trx
         IN  u.proof = Finals(u, u.sender, rInit).sender <=> d + f <= s
<1> DEFINE u == StateTransition(New("Ephemeral"), TRUE, HiddenValueCommit(s, sr),
                                HiddenValueCommit(d, dr), VisibleValueCommit(f)).trx
           left == (((s - d) % Order) - (f % Order)) % Order
           blind == (sr - dr) % Order
           proved == (s - d - f) % U
<1>1. U \in Nat /\ U > 0 /\ Order \in Nat /\ Order > 4 * U
  BY TrxAssumption
<1>2. /\ u.proof = Commit(proved, sr - dr - 0)
      /\ u.sender = Commit(s, sr) /\ u.delta = Commit(d, dr) /\ u.fee = f
  BY Zenon DEF New, StateTransition, HiddenValueCommit, VisibleValueCommit
<1> HIDE DEF u
<1>3. Finals(u, u.sender, rInit).sender = [x |-> left, r |-> blind]
  <2> HIDE DEF left, blind
  <2> QED
    BY <1>2, SenderFinal DEF left, blind
<1>4. proved \in U64
  BY <1>1 DEF U64
<1>5. u.proof = [x |-> proved, r |-> blind]
  <2>1. proved % Order = proved
    <3> HIDE DEF proved
    <3> QED
      BY <1>1, <1>4, FieldSmall DEF U64
  <2>2. sr - dr - 0 = sr - dr
    BY <1>1
  <2> HIDE DEF proved
  <2> QED
    BY <1>2, <2>1, <2>2, Zenon DEF Commit
<1>6. u.proof = Finals(u, u.sender, rInit).sender <=> proved = left
  <2> HIDE DEF left, blind, proved
  <2>1. [x |-> proved, r |-> blind] = [x |-> left, r |-> blind] <=> proved = left
    BY Zenon
  <2> QED
    BY <1>3, <1>5, <2>1, Zenon
<1>7. ASSUME d + f <= s PROVE proved = left
  BY <1>7, AffordableLeft, Zenon
<1>8. ASSUME ~(d + f <= s) PROVE proved # left
  <2>1. left \notin U64
    BY <1>8, RangeProofTiesFields, Zenon
  <2> HIDE DEF left, proved
  <2> QED
    BY <1>4, <2>1, Zenon
<1>9. proved = left <=> d + f <= s
  BY <1>7, <1>8, Zenon
<1> HIDE DEF left, proved
<1> QED
  BY <1>6, <1>9, Zenon DEF u

-----------------------------------------------------------------------------
(* The calls of a wallet, one by one. *)

TrxKinds == {"Ephemeral", "Hidden", "Regular"}

TrxType ==
  [kind : TrxKinds, hash : Hashes \cup {None}, proof : Commitments \cup {None},
   sender : Parties, delta : Commitments, fee : U64, receiver : Parties,
   senderSig : Signatures \cup {None}, receiverSig : Signatures \cup {None}]

(* Ephemeral transactions name balances, the others accounts. *)
Named(t) ==
  IF t.kind = "Ephemeral" THEN t.sender \in Commitments /\ t.receiver \in Commitments
  ELSE t.sender \in Accounts \cup {None} /\ t.receiver \in Accounts \cup {None}

(* The constants of Trx, in the form the provers use. *)
LEMMA TrxNats == U \in Nat /\ U > 0 /\ Order \in Nat /\ Order > 4 * U /\ 0 \in U64 /\ 0 % Order = 0
BY TrxAssumption DEF U64

(* What hidden_value_commit returns. *)
LEMMA HiddenIs ==
  ASSUME NEW h \in Hidden
  PROVE  /\ h.val \in U64 /\ h.x = h.val /\ h.r \in 1 .. Order - 1
         /\ h.commit = [x |-> h.val, r |-> h.r]
         /\ h.commit \in Commitments /\ h.commit # Identity
<1>1. PICK val \in 0 .. U - 1, r \in 1 .. Order - 1 : h = HiddenValueCommit(val, r)
  BY DEF Hidden
<1>2. val % Order = val /\ r % Order = r
  BY TrxNats, FieldSmall
<1>3. h = [commit |-> [x |-> val, r |-> r], val |-> val, x |-> val, r |-> r]
  BY <1>1, <1>2, Zenon DEF HiddenValueCommit, Commit
<1>4. Identity = [x |-> 0, r |-> 0] /\ r # 0
  BY TrxNats DEF Identity, Commit
<1>5. [x |-> val, r |-> r] \in Commitments /\ [x |-> val, r |-> r] # Identity
  BY <1>4, TrxNats DEF Commitments
<1> QED
  BY <1>3, <1>5, Zenon DEF U64

(* A fee is a commitment without blinding. *)
LEMMA FeeIs ==
  ASSUME NEW f \in U64
  PROVE  VisibleValueCommit(f) = [commit |-> [x |-> f, r |-> 0], val |-> f, x |-> f, r |-> 0]
<1>1. f % Order = f /\ 0 % Order = 0
  BY TrxNats, FieldSmall DEF U64
<1> QED
  BY <1>1, Zenon DEF VisibleValueCommit, HiddenValueCommit, Commit

(* The amounts and the names of an empty draft. *)
LEMMA IdentityIs == Identity = [x |-> 0, r |-> 0] /\ Identity \in Commitments
<1>1. Identity = [x |-> 0, r |-> 0]
  BY TrxNats, Zenon DEF Identity, Commit
<1> QED
  BY <1>1, TrxNats DEF Commitments, U64

(* A new transaction is unproved and unsigned. *)
LEMMA NewIs ==
  ASSUME NEW kind \in TrxKinds
  PROVE  /\ New(kind) \in TrxType /\ Named(New(kind)) /\ New(kind).kind = kind
         /\ New(kind).proof = None /\ New(kind).senderSig = None /\ New(kind).receiverSig = None
<1>1. None \in Parties /\ Identity \in Parties
  BY IdentityIs, Zenon DEF Parties
<1>2. 0 \in U64
  BY TrxNats, Zenon
<1>3. New(kind) \in TrxType
  <2>1. CASE kind = "Ephemeral"
    BY <1>1, <1>2, <2>1, IdentityIs, Zenon DEF New, TrxType
  <2>2. CASE kind # "Ephemeral"
    BY <1>1, <1>2, <2>2, IdentityIs, Zenon DEF New, TrxType
  <2> QED
    BY <2>1, <2>2, Zenon
<1>4. Named(New(kind))
  BY IdentityIs, Zenon DEF Named, New
<1> QED
  BY <1>3, <1>4, Zenon DEF New

(* The proof that a sender makes. *)
ProofOf(init, delta, fee) ==
  [x |-> (init.val - delta.val - fee) % U, r |-> (init.r - delta.r) % Order]

(* It is a commitment to an amount, whether or not the sender can pay. *)
LEMMA ProofIs ==
  ASSUME NEW init \in Hidden, NEW delta \in Hidden, NEW fee \in U64
  PROVE  /\ ProofOf(init, delta, fee) \in Commitments
         /\ Commit((init.val - delta.val - fee) % U, init.r - delta.r - 0) = ProofOf(init, delta, fee)
<1> DEFINE v == (init.val - delta.val - fee) % U
           b == init.r - delta.r
<1>1. init.val \in Int /\ delta.val \in Int /\ fee \in Int /\ init.r \in Int /\ delta.r \in Int
  <2>1. init.val \in U64 /\ delta.val \in U64 /\ init.r \in 1 .. Order - 1 /\ delta.r \in 1 .. Order - 1
    BY HiddenIs, Zenon
  <2> QED
    BY <2>1, TrxNats DEF U64
<1>2. v \in 0 .. U - 1 /\ b - 0 = b /\ b % Order \in 0 .. Order - 1
  BY <1>1, TrxNats
<1>3. v % Order = v
  <2> HIDE DEF v
  <2> QED
    BY <1>2, TrxNats, FieldSmall
<1>4. Commit(v, b - 0) = [x |-> v, r |-> b % Order]
  BY <1>2, <1>3, Zenon DEF Commit
<1>5. [x |-> v, r |-> b % Order] \in Commitments
  BY <1>2, Zenon DEF Commitments
<1> QED
  BY <1>4, <1>5, Zenon DEF ProofOf

(* state_transition *)
LEMMA TransitionIs ==
  ASSUME NEW t \in TrxType, Named(t), NEW isSender \in BOOLEAN, NEW init \in Hidden,
         NEW delta \in Hidden, NEW fee \in U64,
         NEW u, u = StateTransition(t, isSender, init, delta, VisibleValueCommit(fee)).trx
  PROVE  /\ u \in TrxType /\ Named(u) /\ u.kind = t.kind
         /\ u.delta = delta.commit /\ u.fee = fee
         /\ u.sender = IF isSender /\ t.kind = "Ephemeral" THEN init.commit ELSE t.sender
         /\ u.receiver = IF ~isSender /\ t.kind = "Ephemeral" THEN init.commit ELSE t.receiver
         /\ u.proof = IF isSender THEN ProofOf(init, delta, fee) ELSE t.proof
         /\ u.hash = t.hash /\ u.senderSig = t.senderSig /\ u.receiverSig = t.receiverSig
<1>1. VisibleValueCommit(fee).val = fee /\ VisibleValueCommit(fee).x = fee
      /\ VisibleValueCommit(fee).r = 0
  BY FeeIs
<1>2. init.commit \in Commitments /\ delta.commit \in Commitments /\ init.commit \in Parties
  BY HiddenIs, Zenon DEF Parties
<1>3. CASE isSender
  <2> DEFINE name == IF t.kind = "Ephemeral" THEN init.commit ELSE t.sender
             proof == ProofOf(init, delta, fee)
  <2>1. u = [t EXCEPT !.delta = delta.commit, !.fee = fee, !.sender = name, !.proof = proof]
    <3> DEFINE made == Commit((init.val - delta.val - VisibleValueCommit(fee).val) % U,
                              init.r - delta.r - VisibleValueCommit(fee).r)
    <3>1. u = [[t EXCEPT !.delta = delta.commit, !.fee = VisibleValueCommit(fee).val, !.sender = name]
                EXCEPT !.proof = made]
      BY <1>3, Zenon DEF StateTransition
    <3>2. made = proof
      BY <1>1, ProofIs, Zenon
    <3> HIDE DEF made, proof, name
    <3> QED
      BY <1>1, <3>1, <3>2, Zenon
  <2>2. name \in Parties /\ proof \in Commitments
    BY <1>2, ProofIs, Zenon DEF TrxType
  <2>3. name = IF isSender /\ t.kind = "Ephemeral" THEN init.commit ELSE t.sender
    BY <1>3, Zenon
  <2> HIDE DEF proof, name
  <2>4. u \in TrxType /\ u.kind = t.kind /\ u.delta = delta.commit /\ u.fee = fee /\ u.sender = name
        /\ u.receiver = t.receiver /\ u.proof = proof /\ u.hash = t.hash
        /\ u.senderSig = t.senderSig /\ u.receiverSig = t.receiverSig
    BY <1>2, <2>1, <2>2, Zenon DEF TrxType
  <2>5. Named(u)
    BY <1>2, <1>3, <2>3, <2>4, Zenon DEF Named
  <2> QED
    BY <1>3, <2>3, <2>4, <2>5, Zenon DEF proof
<1>4. CASE ~isSender
  <2> DEFINE name == IF t.kind = "Ephemeral" THEN init.commit ELSE t.receiver
  <2>1. u = [t EXCEPT !.delta = delta.commit, !.fee = fee, !.receiver = name]
    <3>1. u = [t EXCEPT !.delta = delta.commit, !.fee = VisibleValueCommit(fee).val, !.receiver = name]
      BY <1>4, Zenon DEF StateTransition
    <3> QED
      BY <1>1, <3>1, Zenon
  <2>2. name \in Parties
    BY <1>2, Zenon DEF TrxType
  <2>3. name = IF ~isSender /\ t.kind = "Ephemeral" THEN init.commit ELSE t.receiver
    BY <1>4, Zenon
  <2> HIDE DEF name
  <2>4. u \in TrxType /\ u.kind = t.kind /\ u.delta = delta.commit /\ u.fee = fee /\ u.receiver = name
        /\ u.sender = t.sender /\ u.proof = t.proof /\ u.hash = t.hash
        /\ u.senderSig = t.senderSig /\ u.receiverSig = t.receiverSig
    BY <1>2, <2>1, <2>2, Zenon DEF TrxType
  <2>5. Named(u)
    BY <1>2, <1>4, <2>3, <2>4, Zenon DEF Named
  <2> QED
    BY <1>4, <2>3, <2>4, <2>5, Zenon
<1> QED
  BY <1>3, <1>4, Zenon

(* set_addr *)
LEMMA SetAddrIs ==
  ASSUME NEW t \in TrxType, t.kind # "Ephemeral", NEW a \in Accounts, NEW b \in Accounts,
         NEW u, u = SetAddr(t, a, b)
  PROVE  /\ u \in TrxType /\ Named(u) /\ u.kind = t.kind /\ u.sender = a /\ u.receiver = b
         /\ u.delta = t.delta /\ u.fee = t.fee /\ u.proof = t.proof
<1>1. a \in Parties /\ b \in Parties
  BY Zenon DEF Parties
<1>2. u = [t EXCEPT !.sender = a, !.receiver = b]
  BY Zenon DEF SetAddr
<1>3. /\ u \in TrxType /\ u.kind = t.kind /\ u.sender = a /\ u.receiver = b
      /\ u.delta = t.delta /\ u.fee = t.fee /\ u.proof = t.proof
  BY <1>1, <1>2, Zenon DEF TrxType
<1> QED
  BY <1>3, Zenon DEF Named

(* set_fee_and_delta *)
LEMMA SetAmountsIs ==
  ASSUME NEW t \in TrxType, Named(t), NEW fee \in U64, NEW amount \in U64,
         NEW u, u = SetFeeAndDelta(t, fee, amount)
  PROVE  /\ u \in TrxType /\ Named(u) /\ u.kind = t.kind
         /\ u.sender = t.sender /\ u.receiver = t.receiver
         /\ u.delta.x = amount /\ u.fee = fee /\ u.proof = t.proof
<1> DEFINE delta == [t.delta EXCEPT !.x = amount]
<1>1. t.delta \in Commitments
  BY Zenon DEF TrxType
<1>2. delta \in Commitments /\ delta.x = amount
  BY <1>1, Zenon DEF Commitments, U64
<1>3. u = [t EXCEPT !.fee = fee, !.delta = delta]
  BY Zenon DEF SetFeeAndDelta
<1> HIDE DEF delta
<1>4. /\ u \in TrxType /\ u.kind = t.kind /\ u.sender = t.sender /\ u.receiver = t.receiver
      /\ u.delta = delta /\ u.fee = fee /\ u.proof = t.proof
  BY <1>2, <1>3, Zenon DEF TrxType
<1> QED
  BY <1>2, <1>4, Zenon DEF Named

(* What is signed. *)
LEMMA TermsIs ==
  ASSUME NEW t \in TrxType
  PROVE  ComputeHash(t) = Terms(t) /\ Terms(t) \in Hashes
<1>1. t.sender \in Parties /\ t.delta \in Commitments /\ t.fee \in U64 /\ t.receiver \in Parties
  BY Zenon DEF TrxType
<1> QED
  BY <1>1, Zenon DEF ComputeHash, Terms, Hashes, U64

(* What a signature sig leaves in the buffer c of a draft t: b was there. *)
Sealed(c, t, b, party, sig) ==
  /\ c.proof = IF t.proof = None THEN b.proof ELSE t.proof
  /\ c.senderSig = IF party = "sender" THEN sig ELSE b.senderSig
  /\ c.receiverSig = IF party = "receiver" THEN sig ELSE b.receiverSig

(* What signing makes of t and b: the transaction u and the buffer c. *)
SignedAs(u, c, t, b, party, sig) ==
  /\ u \in TrxType /\ Named(u) /\ u.kind = t.kind /\ u.proof = None /\ Terms(u) = Terms(t)
  /\ c \in TrxType /\ Named(c) /\ c.kind = t.kind /\ Terms(c) = Terms(t)
  /\ Sealed(c, t, b, party, sig)

(* sender_sign and receiver_sign, schnorr_sender and schnorr_receiver: the
   transaction loses its proof to the buffer. *)
LEMMA SignIs ==
  ASSUME NEW t \in TrxType, Named(t), NEW b \in TrxType, b.kind = t.kind,
         NEW party \in {"sender", "receiver"}, NEW signer \in Parties,
         NEW sig, sig = [signer |-> signer, context |-> Terms(t)],
         NEW s, s = Sign(t, b, party, signer)
  PROVE  SignedAs(s.trx, s.buffer, t, b, party, sig)
<1> DEFINE proof == IF t.proof = None THEN b.proof ELSE t.proof
           first == IF party = "sender" THEN sig ELSE b.senderSig
           second == IF party = "receiver" THEN sig ELSE b.receiverSig
<1>1. Terms(t) \in Hashes /\ ComputeHash(t) = Terms(t)
  BY TermsIs, Zenon
<1>2. sig \in Signatures
  BY <1>1, Zenon DEF Signatures
<1>3. /\ proof \in Commitments \cup {None} /\ first \in Signatures \cup {None}
      /\ second \in Signatures \cup {None}
  BY <1>2, Zenon DEF TrxType
<1>4. CASE party = "sender"
  <2>1. /\ s.trx = [t EXCEPT !.proof = None, !.hash = Terms(t), !.senderSig = sig]
        /\ s.buffer = [[t EXCEPT !.proof = proof, !.senderSig = b.senderSig,
                                 !.receiverSig = b.receiverSig, !.hash = None]
                         EXCEPT !.senderSig = sig]
    BY <1>1, <1>4, Zenon DEF Sign, Marshal
  <2>2. first = sig /\ second = b.receiverSig
    BY <1>4, Zenon
  <2>3. b.senderSig \in Signatures \cup {None} /\ b.receiverSig \in Signatures \cup {None}
    BY Zenon DEF TrxType
  <2> HIDE DEF proof, first, second
  <2>4. s.trx \in TrxType
    BY <1>1, <1>2, <2>1, Zenon DEF TrxType
  <2>5. /\ s.trx.kind = t.kind /\ s.trx.proof = None
        /\ s.trx.sender = t.sender /\ s.trx.receiver = t.receiver
        /\ s.trx.delta = t.delta /\ s.trx.fee = t.fee
    BY <2>1, Zenon DEF TrxType
  <2>6. s.buffer \in TrxType
    BY <1>2, <1>3, <2>1, <2>3, Zenon DEF TrxType
  <2>7. /\ s.buffer.kind = t.kind /\ s.buffer.proof = proof
        /\ s.buffer.sender = t.sender /\ s.buffer.receiver = t.receiver
        /\ s.buffer.delta = t.delta /\ s.buffer.fee = t.fee
        /\ s.buffer.senderSig = first /\ s.buffer.receiverSig = second
    BY <2>1, <2>2, Zenon DEF TrxType
  <2> QED
    BY <2>4, <2>5, <2>6, <2>7, Zenon
       DEF SignedAs, Named, Terms, Sealed, proof, first, second
<1>5. CASE party = "receiver"
  <2>1. /\ s.trx = [t EXCEPT !.proof = None, !.hash = Terms(t), !.receiverSig = sig]
        /\ s.buffer = [[t EXCEPT !.proof = proof, !.senderSig = b.senderSig,
                                 !.receiverSig = b.receiverSig, !.hash = None]
                         EXCEPT !.receiverSig = sig]
    BY <1>1, <1>5, Zenon DEF Sign, Marshal
  <2>2. first = b.senderSig /\ second = sig
    BY <1>5, Zenon
  <2>3. b.senderSig \in Signatures \cup {None} /\ b.receiverSig \in Signatures \cup {None}
    BY Zenon DEF TrxType
  <2> HIDE DEF proof, first, second
  <2>4. s.trx \in TrxType
    BY <1>1, <1>2, <2>1, Zenon DEF TrxType
  <2>5. /\ s.trx.kind = t.kind /\ s.trx.proof = None
        /\ s.trx.sender = t.sender /\ s.trx.receiver = t.receiver
        /\ s.trx.delta = t.delta /\ s.trx.fee = t.fee
    BY <2>1, Zenon DEF TrxType
  <2>6. s.buffer \in TrxType
    BY <1>2, <1>3, <2>1, <2>3, Zenon DEF TrxType
  <2>7. /\ s.buffer.kind = t.kind /\ s.buffer.proof = proof
        /\ s.buffer.sender = t.sender /\ s.buffer.receiver = t.receiver
        /\ s.buffer.delta = t.delta /\ s.buffer.fee = t.fee
        /\ s.buffer.senderSig = first /\ s.buffer.receiverSig = second
    BY <2>1, <2>2, Zenon DEF TrxType
  <2> QED
    BY <2>4, <2>5, <2>6, <2>7, Zenon
       DEF SignedAs, Named, Terms, Sealed, proof, first, second
<1> QED
  BY <1>4, <1>5, Zenon

(* unmarshal: what is read is the buffer, with its hash. *)
LEMMA UnmarshalIs ==
  ASSUME NEW b \in TrxType, NEW u, u = Unmarshal(New(b.kind), b)
  PROVE  /\ u.kind = b.kind /\ u.proof = b.proof /\ u.sender = b.sender /\ u.receiver = b.receiver
         /\ u.delta = b.delta /\ u.fee = b.fee
         /\ u.senderSig = b.senderSig /\ u.receiverSig = b.receiverSig
         /\ Terms(u) = Terms(b) /\ ComputeHash(u) = Terms(b)
<1>1. New(b.kind).kind = b.kind
  BY Zenon DEF New
<1>2. u = [b EXCEPT !.kind = b.kind, !.hash = ComputeHash(b)]
  BY <1>1, Zenon DEF Unmarshal
<1>3. /\ u.kind = b.kind /\ u.proof = b.proof /\ u.sender = b.sender /\ u.receiver = b.receiver
      /\ u.delta = b.delta /\ u.fee = b.fee
      /\ u.senderSig = b.senderSig /\ u.receiverSig = b.receiverSig
  BY <1>2, Zenon DEF TrxType
<1> QED
  BY <1>3, Zenon DEF Terms, ComputeHash

-----------------------------------------------------------------------------
(* Drafts, by the calls that made them. *)

Ops ==
  [op : {"sender", "receiver"}, account : Accounts, delta : Deltas, fee : Fees]
    \cup [op : {"address"}, account : Accounts]
    \cup [op : {"amounts"}, delta : Deltas, fee : Fees]
    \cup [op : {"sign"}, party : {"sender", "receiver"}, account : Accounts, terms : Hashes]

Has(cs, op) == \E i \in DOMAIN cs : cs[i].op = op
HasSign(cs, party) == \E i \in DOMAIN cs : cs[i].op = "sign" /\ cs[i].party = party

(* A draft t and its buffer b after the calls cs. *)
DraftTypes(t, b, cs) ==
  /\ t \in TrxType /\ Named(t) /\ b \in TrxType /\ Named(b) /\ b.kind = t.kind
  /\ cs \in Seq(Ops)

(* A signature in the buffer was made by a call, for what the draft was. *)
MadeBy(cs, party, kind, sig) ==
  \E i \in DOMAIN cs :
    /\ cs[i].op = "sign" /\ cs[i].party = party
    /\ sig = [signer |-> NameOf(kind, cs[i].account), context |-> cs[i].terms]

Witnessed(b, cs) ==
  /\ b.senderSig # None => MadeBy(cs, "sender", b.kind, b.senderSig)
  /\ b.receiverSig # None => MadeBy(cs, "receiver", b.kind, b.receiverSig)

(* The calls that a kind of transaction has. *)
KindCalls(kind, cs) ==
  /\ Has(cs, "sender") \/ Has(cs, "receiver") => kind # "Regular"
  /\ Has(cs, "address") => kind # "Ephemeral"
  /\ Has(cs, "amounts") => kind = "Regular"

(* The calls are in order so far: with the same sender and amounts, and all
   the fields before the first signature. *)
Agreed(cs, sender, delta, fee) ==
  \A i \in DOMAIN cs :
    IF cs[i].op = "sign" THEN cs[i].party = "sender" => cs[i].account = sender
    ELSE /\ \A j \in DOMAIN cs : cs[j].op = "sign" => i < j
         /\ cs[i].op \in {"sender", "address"} => cs[i].account = sender
         /\ cs[i].op # "address" => cs[i].delta = delta /\ cs[i].fee = fee

(* One more call is in order after those. *)
Agrees(op, cs, sender, delta, fee) ==
  /\ op.op # "sign" => ~Has(cs, "sign")
  /\ op.op = "sign" /\ op.party = "sender" => op.account = sender
  /\ op.op \in {"sender", "address"} => op.account = sender
  /\ op.op \notin {"sign", "address"} => op.delta = delta /\ op.fee = fee

(* What such calls have filled in, *)
Filled(t, cs, sender, delta, fee) ==
  /\ Has(cs, "sender") \/ Has(cs, "receiver") => t.delta = delta.commit /\ t.fee = fee
  /\ Has(cs, "amounts") => t.delta.x = delta.val /\ t.fee = fee
  /\ Has(cs, "sender") /\ t.kind = "Ephemeral" => t.sender = Secrets[sender].commit
  /\ Has(cs, "receiver") /\ t.kind = "Ephemeral" => t.receiver = Secrets[Receiver].commit
  /\ Has(cs, "address") => t.sender = sender /\ t.receiver = Receiver

(* where the range proof is, *)
Proved(t, b, cs, sender, delta, fee) ==
  /\ Has(cs, "sender") =>
       (IF Has(cs, "sign") THEN b.proof ELSE t.proof) = ProofOf(Secrets[sender], delta, fee)
  /\ Has(cs, "sign") => t.proof = None

(* and what has been signed. *)
Signed(t, b, cs, sender) ==
  /\ Has(cs, "sign") => Terms(b) = Terms(t)
  /\ HasSign(cs, "sender") =>
       b.senderSig = [signer |-> NameOf(b.kind, sender), context |-> Terms(b)]
  /\ HasSign(cs, "receiver") =>
       b.receiverSig = [signer |-> NameOf(b.kind, Receiver), context |-> Terms(b)]

InStep(t, b, cs) ==
  \A sender \in Senders, delta \in Deltas, fee \in Fees :
    Agreed(cs, sender, delta, fee) =>
      /\ Filled(t, cs, sender, delta, fee)
      /\ Proved(t, b, cs, sender, delta, fee)
      /\ Signed(t, b, cs, sender)

DraftInv(t, b, cs) ==
  DraftTypes(t, b, cs) /\ Witnessed(b, cs) /\ KindCalls(t.kind, cs) /\ InStep(t, b, cs)

(* The constants of Chain, in the form the provers use. *)
LEMMA ChainConstants ==
  /\ Senders \subseteq Accounts /\ Receiver \in Accounts
  /\ \A a \in Accounts : Secrets[a] \in Hidden
  /\ Deltas \subseteq Hidden /\ Fees \subseteq U64
  /\ \A a \in Accounts, kind \in TrxKinds : NameOf(kind, a) \in Parties
  /\ None \notin Accounts /\ None \notin Points /\ None \notin Commitments
  /\ None \notin Signatures
<1>1. \A a \in Accounts : Secrets[a] \in Hidden
  BY ChainAssumption, Zenon
<1>2. \A a \in Accounts : Secrets[a].commit \in Commitments
  BY <1>1, HiddenIs, Zenon
<1>3. \A c \in Commitments : c \in Points
  BY TrxNats DEF Commitments, Points
<1>4. \A a \in Accounts, kind \in TrxKinds : NameOf(kind, a) \in Parties
  BY <1>2, Zenon DEF NameOf, Parties
<1> QED
  BY <1>1, <1>3, <1>4, ChainAssumption, Zenon DEF U64

(* One more call. *)
LEMMA AppendOp ==
  ASSUME NEW cs \in Seq(Ops), NEW op \in Ops, NEW ds, ds = Append(cs, op)
  PROVE  /\ ds \in Seq(Ops)
         /\ Len(cs) + 1 \in DOMAIN ds /\ ds[Len(cs) + 1] = op /\ Len(cs) + 1 \notin DOMAIN cs
         /\ \A i \in DOMAIN cs : i \in DOMAIN ds /\ ds[i] = cs[i] /\ i < Len(cs) + 1 /\ ~(Len(cs) + 1 < i)
         /\ \A i \in DOMAIN ds : i \in DOMAIN cs \/ i = Len(cs) + 1
<1>1. ds \in Seq(Ops) /\ DOMAIN ds = 1 .. Len(cs) + 1 /\ DOMAIN cs = 1 .. Len(cs) /\ Len(cs) \in Nat
  OBVIOUS
<1>2. ds[Len(cs) + 1] = op /\ \A i \in 1 .. Len(cs) : ds[i] = cs[i]
  OBVIOUS
<1> QED
  BY <1>1, <1>2

(* What one more call adds to the calls made. *)
LEMMA HasAppend ==
  ASSUME NEW cs \in Seq(Ops), NEW op \in Ops, NEW ds, ds = Append(cs, op)
  PROVE  /\ \A x : Has(ds, x) <=> Has(cs, x) \/ op.op = x
         /\ \A x : HasSign(ds, x) <=> HasSign(cs, x) \/ (op.op = "sign" /\ op.party = x)
<1>1. ASSUME NEW x PROVE Has(ds, x) <=> Has(cs, x) \/ op.op = x
  BY AppendOp DEF Has
<1>2. ASSUME NEW x PROVE HasSign(ds, x) <=> HasSign(cs, x) \/ (op.op = "sign" /\ op.party = x)
  BY AppendOp DEF HasSign
<1> QED
  BY <1>1, <1>2, Zenon

(* A signature that was made stays made, and a call to sign makes one. *)
LEMMA MadeByAppend ==
  ASSUME NEW cs \in Seq(Ops), NEW op \in Ops, NEW ds, ds = Append(cs, op), NEW party, NEW kind
  PROVE  /\ \A sig : MadeBy(cs, party, kind, sig) => MadeBy(ds, party, kind, sig)
         /\ op.op = "sign" /\ op.party = party =>
              MadeBy(ds, party, kind, [signer |-> NameOf(kind, op.account), context |-> op.terms])
<1> DEFINE n == Len(cs) + 1
<1>1. n \in DOMAIN ds /\ ds[n] = op /\ \A i \in DOMAIN cs : i \in DOMAIN ds /\ ds[i] = cs[i]
  BY AppendOp
<1> HIDE DEF n
<1> QED
  BY <1>1, Zenon DEF MadeBy

(* Calls that are in order were so before the last one, and no field is filled
   in after a signature. *)
LEMMA AgreedAppend ==
  ASSUME NEW cs \in Seq(Ops), NEW op \in Ops, NEW ds, ds = Append(cs, op),
         NEW sender, NEW delta, NEW fee, Agreed(ds, sender, delta, fee)
  PROVE  Agreed(cs, sender, delta, fee) /\ Agrees(op, cs, sender, delta, fee)
<1> DEFINE n == Len(cs) + 1
<1>1. /\ n \in DOMAIN ds /\ ds[n] = op
      /\ \A i \in DOMAIN cs : i \in DOMAIN ds /\ ds[i] = cs[i] /\ ~(n < i)
  BY AppendOp
<1> HIDE DEF n
<1>2. Agreed(cs, sender, delta, fee)
  BY <1>1 DEF Agreed
<1>3. op.op # "sign" => ~Has(cs, "sign")
  BY <1>1, Zenon DEF Agreed, Has
<1> QED
  BY <1>1, <1>2, <1>3, Zenon DEF Agreed, Agrees

(* What the fields of a draft u are that is not signed yet. *)
Fills(u, ds) ==
  \A sender \in Senders, delta \in Deltas, fee \in Fees :
    Agreed(ds, sender, delta, fee) =>
      /\ Filled(u, ds, sender, delta, fee)
      /\ Has(ds, "sender") => u.proof = ProofOf(Secrets[sender], delta, fee)

(* A call that fills in fields leaves the buffer alone. *)
LEMMA FillInv ==
  ASSUME NEW t, NEW b, NEW cs, DraftInv(t, b, cs),
         NEW op \in Ops, op.op # "sign", NEW ds, ds = Append(cs, op),
         NEW u \in TrxType, Named(u), u.kind = t.kind, KindCalls(u.kind, ds), Fills(u, ds)
  PROVE  DraftInv(u, b, ds)
<1>1. DraftTypes(t, b, cs) /\ Witnessed(b, cs) /\ cs \in Seq(Ops)
  BY Zenon DEF DraftInv, DraftTypes
<1>2. DraftTypes(u, b, ds)
  BY <1>1, AppendOp, Zenon DEF DraftTypes
<1>3. Witnessed(b, ds)
  <2>1. \A party, sig : MadeBy(cs, party, b.kind, sig) => MadeBy(ds, party, b.kind, sig)
    BY <1>1, MadeByAppend, Zenon
  <2> QED
    BY <1>1, <2>1, Zenon DEF Witnessed
<1>4. InStep(u, b, ds)
  <2> SUFFICES ASSUME NEW sender \in Senders, NEW delta \in Deltas, NEW fee \in Fees,
                      Agreed(ds, sender, delta, fee)
               PROVE  Proved(u, b, ds, sender, delta, fee) /\ Signed(u, b, ds, sender)
    BY Zenon DEF InStep, Fills
  <2>1. ~Has(cs, "sign")
    BY <1>1, AgreedAppend, Zenon DEF Agrees
  <2>2. ~Has(ds, "sign")
    BY <1>1, <2>1, HasAppend, Zenon
  <2>3. ~HasSign(ds, "sender") /\ ~HasSign(ds, "receiver")
    BY <2>2, Zenon DEF Has, HasSign
  <2>4. Has(ds, "sender") => u.proof = ProofOf(Secrets[sender], delta, fee)
    BY Zenon DEF Fills
  <2> QED
    BY <2>2, <2>3, <2>4, Zenon DEF Proved, Signed
<1> QED
  BY <1>2, <1>3, <1>4, Zenon DEF DraftInv

(* A new draft. *)
LEMMA NewInv ==
  ASSUME NEW kind \in TrxKinds
  PROVE  DraftInv(New(kind), NewBuffer(kind), <<>>)
<1>1. \A x : ~Has(<<>>, x) /\ ~HasSign(<<>>, x)
  BY DEF Has, HasSign
<1>2. DraftTypes(New(kind), NewBuffer(kind), <<>>)
  <2>1. <<>> \in Seq(Ops)
    OBVIOUS
  <2> QED
    BY <2>1, NewIs, Zenon DEF DraftTypes, NewBuffer
<1>3. Witnessed(NewBuffer(kind), <<>>)
  BY NewIs, Zenon DEF Witnessed, NewBuffer
<1>4. KindCalls(New(kind).kind, <<>>)
  BY <1>1, Zenon DEF KindCalls
<1>5. InStep(New(kind), NewBuffer(kind), <<>>)
  BY <1>1, Zenon DEF InStep, Filled, Proved, Signed
<1> QED
  BY <1>2, <1>3, <1>4, <1>5, Zenon DEF DraftInv

(* A party fills in its side of an ephemeral or hidden transaction. *)
LEMMA TransitionInv ==
  ASSUME NEW t, NEW b, NEW cs, DraftInv(t, b, cs), t.kind # "Regular",
         NEW isSender \in BOOLEAN, NEW account \in Accounts, ~isSender => account = Receiver,
         NEW delta \in Deltas, NEW fee \in Fees,
         NEW op \in Ops, op.op \in {"sender", "receiver"}, isSender <=> op.op = "sender",
         op.account = account, op.delta = delta, op.fee = fee,
         NEW ds, ds = Append(cs, op),
         NEW u, u = StateTransition(t, isSender, Secrets[account], delta, VisibleValueCommit(fee)).trx
  PROVE  DraftInv(u, b, ds)
<1>1. t \in TrxType /\ Named(t) /\ cs \in Seq(Ops) /\ KindCalls(t.kind, cs) /\ InStep(t, b, cs)
  BY Zenon DEF DraftInv, DraftTypes
<1>2. Secrets[account] \in Hidden /\ delta \in Hidden /\ fee \in U64
  BY ChainConstants, Zenon
<1>3. /\ u \in TrxType /\ Named(u) /\ u.kind = t.kind /\ u.delta = delta.commit /\ u.fee = fee
      /\ u.sender = IF isSender /\ t.kind = "Ephemeral" THEN Secrets[account].commit ELSE t.sender
      /\ u.receiver = IF ~isSender /\ t.kind = "Ephemeral" THEN Secrets[account].commit ELSE t.receiver
      /\ u.proof = IF isSender THEN ProofOf(Secrets[account], delta, fee) ELSE t.proof
  BY <1>1, <1>2, TransitionIs
<1>9. u \in TrxType /\ Named(u) /\ u.kind = t.kind
  BY <1>3, Zenon
<1>4. op.op # "sign"
  BY Zenon
<1>5. \A x : Has(ds, x) <=> Has(cs, x) \/ op.op = x
  BY <1>1, HasAppend, Zenon
<1>6. KindCalls(u.kind, ds)
  BY <1>1, <1>3, <1>4, <1>5, Zenon DEF KindCalls
<1>7. ASSUME NEW s \in Senders, NEW d \in Deltas, NEW f \in Fees, Agreed(ds, s, d, f)
      PROVE  /\ Filled(u, ds, s, d, f)
             /\ Has(ds, "sender") => u.proof = ProofOf(Secrets[s], d, f)
  <2>a. Agreed(cs, s, d, f) /\ Agrees(op, cs, s, d, f)
    BY <1>1, <1>7, AgreedAppend, Zenon
  <2>1. /\ Agreed(cs, s, d, f) /\ ~Has(cs, "sign") /\ delta = d /\ fee = f
        /\ isSender => account = s
    BY <1>4, <2>a, Zenon DEF Agrees
  <2>2. Filled(t, cs, s, d, f) /\ Proved(t, b, cs, s, d, f)
    BY <1>1, <2>1, Zenon DEF InStep
  <2>3. ~Has(ds, "amounts")
    BY <1>1, <1>4, <1>5, Zenon DEF KindCalls
  <2>4. Has(ds, "address") => u.sender = s /\ u.receiver = Receiver
    <3>1. Has(ds, "address") => Has(cs, "address") /\ t.kind # "Ephemeral"
      BY <1>1, <1>4, <1>5, Zenon DEF KindCalls
    <3> QED
      BY <1>3, <2>2, <3>1, Zenon DEF Filled
  <2>5. u.kind = "Ephemeral" =>
          /\ Has(ds, "sender") => u.sender = Secrets[s].commit
          /\ Has(ds, "receiver") => u.receiver = Secrets[Receiver].commit
    BY <1>3, <1>4, <1>5, <2>1, <2>2, Zenon DEF Filled
  <2>6. Has(ds, "sender") => u.proof = ProofOf(Secrets[s], d, f)
    BY <1>3, <1>4, <1>5, <2>1, <2>2, Zenon DEF Proved
  <2> QED
    BY <1>3, <2>1, <2>3, <2>4, <2>5, <2>6, Zenon DEF Filled
<1> QED
  <2>1. Fills(u, ds)
    BY <1>7, Zenon DEF Fills
  <2> QED
    BY <1>4, <1>6, <1>9, <2>1, FillInv, Zenon

(* The parties of a hidden or regular transaction are named. *)
LEMMA AddressInv ==
  ASSUME NEW t, NEW b, NEW cs, DraftInv(t, b, cs), t.kind # "Ephemeral",
         NEW account \in Accounts, NEW op \in Ops, op.op = "address", op.account = account,
         NEW ds, ds = Append(cs, op),
         NEW u, u = SetAddr(t, account, Receiver)
  PROVE  DraftInv(u, b, ds)
<1>1. t \in TrxType /\ Named(t) /\ cs \in Seq(Ops) /\ KindCalls(t.kind, cs) /\ InStep(t, b, cs)
  BY Zenon DEF DraftInv, DraftTypes
<1>2. Receiver \in Accounts
  BY ChainConstants, Zenon
<1>3. /\ u \in TrxType /\ Named(u) /\ u.kind = t.kind /\ u.sender = account /\ u.receiver = Receiver
      /\ u.delta = t.delta /\ u.fee = t.fee /\ u.proof = t.proof
  BY <1>1, <1>2, SetAddrIs
<1>4. op.op # "sign"
  BY Zenon
<1>5. \A x : Has(ds, x) <=> Has(cs, x) \/ op.op = x
  BY <1>1, HasAppend, Zenon
<1>6. KindCalls(u.kind, ds)
  BY <1>1, <1>3, <1>4, <1>5, Zenon DEF KindCalls
<1>7. ASSUME NEW s \in Senders, NEW d \in Deltas, NEW f \in Fees, Agreed(ds, s, d, f)
      PROVE  /\ Filled(u, ds, s, d, f)
             /\ Has(ds, "sender") => u.proof = ProofOf(Secrets[s], d, f)
  <2>a. Agreed(cs, s, d, f) /\ Agrees(op, cs, s, d, f)
    BY <1>1, <1>7, AgreedAppend, Zenon
  <2>1. Agreed(cs, s, d, f) /\ ~Has(cs, "sign") /\ account = s
    BY <1>4, <2>a, Zenon DEF Agrees
  <2>2. Filled(t, cs, s, d, f) /\ Proved(t, b, cs, s, d, f)
    BY <1>1, <2>1, Zenon DEF InStep
  <2>3. Has(ds, "sender") => u.proof = ProofOf(Secrets[s], d, f)
    BY <1>3, <1>4, <1>5, <2>1, <2>2, Zenon DEF Proved
  <2> QED
    BY <1>3, <1>4, <1>5, <2>1, <2>2, <2>3, Zenon DEF Filled
<1> QED
  <2>1. Fills(u, ds)
    BY <1>7, Zenon DEF Fills
  <2> QED
    BY <1>3, <1>4, <1>6, <2>1, FillInv, Zenon

(* The amounts of a regular transaction are set. *)
LEMMA AmountsInv ==
  ASSUME NEW t, NEW b, NEW cs, DraftInv(t, b, cs), t.kind = "Regular",
         NEW delta \in Deltas, NEW fee \in Fees,
         NEW op \in Ops, op.op = "amounts", op.delta = delta, op.fee = fee,
         NEW ds, ds = Append(cs, op),
         NEW u, u = SetFeeAndDelta(t, fee, delta.val)
  PROVE  DraftInv(u, b, ds)
<1>1. t \in TrxType /\ Named(t) /\ cs \in Seq(Ops) /\ KindCalls(t.kind, cs) /\ InStep(t, b, cs)
  BY Zenon DEF DraftInv, DraftTypes
<1>2. delta.val \in U64 /\ fee \in U64
  BY ChainConstants, HiddenIs, Zenon
<1>3. /\ u \in TrxType /\ Named(u) /\ u.kind = t.kind /\ u.sender = t.sender /\ u.receiver = t.receiver
      /\ u.delta.x = delta.val /\ u.fee = fee /\ u.proof = t.proof
  BY <1>1, <1>2, SetAmountsIs
<1>4. op.op # "sign"
  BY Zenon
<1>5. \A x : Has(ds, x) <=> Has(cs, x) \/ op.op = x
  BY <1>1, HasAppend, Zenon
<1>6. KindCalls(u.kind, ds) /\ ~Has(ds, "sender") /\ ~Has(ds, "receiver")
  BY <1>1, <1>3, <1>4, <1>5, Zenon DEF KindCalls
<1>7. ASSUME NEW s \in Senders, NEW d \in Deltas, NEW f \in Fees, Agreed(ds, s, d, f)
      PROVE  /\ Filled(u, ds, s, d, f)
             /\ Has(ds, "sender") => u.proof = ProofOf(Secrets[s], d, f)
  <2>a. Agreed(cs, s, d, f) /\ Agrees(op, cs, s, d, f)
    BY <1>1, <1>7, AgreedAppend, Zenon
  <2>1. Agreed(cs, s, d, f) /\ ~Has(cs, "sign") /\ delta = d /\ fee = f
    BY <1>4, <2>a, Zenon DEF Agrees
  <2>2. Filled(t, cs, s, d, f)
    BY <1>1, <2>1, Zenon DEF InStep
  <2> QED
    BY <1>3, <1>4, <1>5, <1>6, <2>1, <2>2, Zenon DEF Filled
<1> QED
  <2>1. Fills(u, ds)
    BY <1>7, Zenon DEF Fills
  <2> QED
    BY <1>3, <1>4, <1>6, <2>1, FillInv, Zenon

(* What a signature adds to a draft t and its buffer b: u and c are what they
   become. *)
LEMMA SignInStep ==
  ASSUME NEW t, NEW b, NEW cs \in Seq(Ops), b.kind = t.kind, InStep(t, b, cs),
         NEW party \in {"sender", "receiver"}, NEW account,
         party = "receiver" => account = Receiver,
         NEW op \in Ops, op.op = "sign", op.party = party, op.account = account,
         NEW ds, ds = Append(cs, op),
         NEW u, u.kind = t.kind, u.proof = None, u.sender = t.sender, u.receiver = t.receiver,
         u.delta = t.delta, u.fee = t.fee,
         NEW c, c.kind = t.kind, Terms(u) = Terms(t), Terms(c) = Terms(t),
         NEW sig, sig = [signer |-> NameOf(t.kind, account), context |-> Terms(t)],
         Sealed(c, t, b, party, sig)
  PROVE  InStep(u, c, ds)
<1> SUFFICES ASSUME NEW e \in Senders, NEW d \in Deltas, NEW f \in Fees, Agreed(ds, e, d, f)
             PROVE  Filled(u, ds, e, d, f) /\ Proved(u, c, ds, e, d, f) /\ Signed(u, c, ds, e)
  BY Zenon DEF InStep
<1>1. /\ \A x : Has(ds, x) <=> Has(cs, x) \/ op.op = x
      /\ \A x : HasSign(ds, x) <=> HasSign(cs, x) \/ (op.op = "sign" /\ op.party = x)
  BY HasAppend, Zenon
<1>2. Agreed(cs, e, d, f) /\ (party = "sender" => account = e)
  BY AgreedAppend, Zenon DEF Agrees
<1>3. Filled(t, cs, e, d, f) /\ Proved(t, b, cs, e, d, f) /\ Signed(t, b, cs, e)
  BY <1>2, Zenon DEF InStep
<1>4. Has(ds, "sign") /\ \A x : x # "sign" => (Has(ds, x) <=> Has(cs, x))
  BY <1>1, Zenon
<1>5. Filled(u, ds, e, d, f)
  <2>1. /\ Has(ds, "sender") <=> Has(cs, "sender")
        /\ Has(ds, "receiver") <=> Has(cs, "receiver")
        /\ Has(ds, "address") <=> Has(cs, "address")
        /\ Has(ds, "amounts") <=> Has(cs, "amounts")
    BY <1>4, Zenon
  <2> QED
    BY <1>3, <2>1, Zenon DEF Filled
<1>6. Proved(u, c, ds, e, d, f)
  <2>1. Has(ds, "sender") <=> Has(cs, "sender")
    BY <1>4, Zenon
  <2>2. ASSUME Has(cs, "sender") PROVE c.proof = ProofOf(Secrets[e], d, f)
    <3>1. CASE Has(cs, "sign")
      BY <1>3, <2>2, <3>1, Zenon DEF Proved, Sealed
    <3>2. CASE ~Has(cs, "sign")
      <4>1. t.proof = ProofOf(Secrets[e], d, f)
        BY <1>3, <2>2, <3>2, Zenon DEF Proved
      <4>2. Secrets[e] \in Hidden /\ d \in Hidden /\ f \in U64
        BY ChainConstants, Zenon
      <4>3. t.proof # None
        BY <4>1, <4>2, ChainConstants, ProofIs, Zenon
      <4> QED
        BY <4>1, <4>3, Zenon DEF Sealed
    <3> QED
      BY <3>1, <3>2, Zenon
  <2> QED
    BY <1>4, <2>1, <2>2, Zenon DEF Proved
<1>7. Signed(u, c, ds, e)
  <2>1. \A p : HasSign(cs, p) => Has(cs, "sign")
    BY Zenon DEF Has, HasSign
  <2>2. HasSign(ds, "sender") => c.senderSig = [signer |-> NameOf(c.kind, e), context |-> Terms(c)]
    <3>1. CASE party = "sender"
      BY <1>2, <3>1, Zenon DEF Sealed
    <3>2. CASE party = "receiver"
      <4>1. HasSign(ds, "sender") <=> HasSign(cs, "sender")
        <5>1. op.party # "sender"
          BY ONLY <3>2, op.party = party, Zenon
        <5> QED
          BY <1>1, <5>1, Zenon
      <4>2. c.senderSig = b.senderSig
        BY <3>2, Zenon DEF Sealed
      <4> QED
        BY <1>3, <2>1, <4>1, <4>2, Zenon DEF Signed
    <3> QED
      BY <3>1, <3>2, Zenon
  <2>3. HasSign(ds, "receiver") =>
          c.receiverSig = [signer |-> NameOf(c.kind, Receiver), context |-> Terms(c)]
    <3>1. CASE party = "receiver"
      BY <3>1, Zenon DEF Sealed
    <3>2. CASE party = "sender"
      <4>1. HasSign(ds, "receiver") <=> HasSign(cs, "receiver")
        <5>1. op.party # "receiver"
          BY ONLY <3>2, op.party = party, Zenon
        <5> QED
          BY <1>1, <5>1, Zenon
      <4>2. c.receiverSig = b.receiverSig
        BY <3>2, Zenon DEF Sealed
      <4> QED
        BY <1>3, <2>1, <4>1, <4>2, Zenon DEF Signed
    <3> QED
      BY <3>1, <3>2, Zenon
  <2> QED
    BY <2>2, <2>3, Zenon DEF Signed
<1> QED
  BY <1>5, <1>6, <1>7, Zenon

(* A party signs. *)
LEMMA SignInv ==
  ASSUME NEW t, NEW b, NEW cs, DraftInv(t, b, cs),
         NEW party \in {"sender", "receiver"}, NEW account \in Accounts,
         party = "receiver" => account = Receiver,
         NEW op \in Ops, op.op = "sign", op.party = party, op.account = account, op.terms = Terms(t),
         NEW ds, ds = Append(cs, op),
         NEW s, s = Sign(t, b, party, NameOf(t.kind, account))
  PROVE  DraftInv(s.trx, s.buffer, ds)
<1>a. PICK sig : sig = [signer |-> NameOf(t.kind, account), context |-> Terms(t)]
  BY Zenon
<1>1. /\ t \in TrxType /\ Named(t) /\ b \in TrxType /\ b.kind = t.kind /\ cs \in Seq(Ops)
      /\ KindCalls(t.kind, cs) /\ InStep(t, b, cs) /\ Witnessed(b, cs)
  BY Zenon DEF DraftInv, DraftTypes
<1>2. NameOf(t.kind, account) \in Parties
  BY <1>1, ChainConstants, Zenon DEF TrxType
<1>3. PICK u, c : u = s.trx /\ c = s.buffer
  BY Zenon
<1>4. /\ u \in TrxType /\ Named(u) /\ u.kind = t.kind /\ u.proof = None /\ Terms(u) = Terms(t)
      /\ c \in TrxType /\ Named(c) /\ c.kind = t.kind /\ Terms(c) = Terms(t)
      /\ Sealed(c, t, b, party, sig)
  <2>1. SignedAs(s.trx, s.buffer, t, b, party, sig)
    BY <1>a, <1>1, <1>2, SignIs, Zenon
  <2> QED
    BY <1>3, <2>1, Zenon DEF SignedAs
<1>5. u.sender = t.sender /\ u.delta = t.delta /\ u.fee = t.fee /\ u.receiver = t.receiver
  BY <1>4, Zenon DEF Terms
<1>6. DraftTypes(u, c, ds)
  BY <1>1, <1>4, AppendOp, Zenon DEF DraftTypes
<1>7. Witnessed(c, ds)
  <2>1. /\ \A p, g : MadeBy(cs, p, t.kind, g) => MadeBy(ds, p, t.kind, g)
        /\ MadeBy(ds, party, t.kind, sig)
    BY <1>1, <1>a, MadeByAppend, Zenon
  <2>2. CASE party = "sender"
    BY <1>1, <1>4, <2>1, <2>2, Zenon DEF Witnessed, Sealed
  <2>3. CASE party = "receiver"
    BY <1>1, <1>4, <2>1, <2>3, Zenon DEF Witnessed, Sealed
  <2> QED
    BY <2>2, <2>3, Zenon
<1>8. KindCalls(u.kind, ds)
  <2>1. \A x : x # "sign" => (Has(ds, x) <=> Has(cs, x))
    BY <1>1, HasAppend, Zenon
  <2> QED
    BY <1>1, <1>4, <2>1, Zenon DEF KindCalls
<1>9. InStep(u, c, ds)
  BY <1>a, <1>1, <1>4, <1>5, SignInStep, Zenon
<1> QED
  BY <1>3, <1>6, <1>7, <1>8, <1>9, Zenon DEF DraftInv

-----------------------------------------------------------------------------
(* The wallet. *)

(* The drafts of the wallet; while one is made the database is as it was. *)
WalletInv == DraftInv(draft, buffer, calls) /\ (calls # <<>> => db = InitialDb)

(* What a call finds. *)
LEMMA Before ==
  ASSUME WalletInv, NEW kind \in Kinds, calls = <<>> \/ draft.kind = kind
  PROVE  /\ DraftInv(DraftOf(kind), BufferOf(kind), calls)
         /\ DraftOf(kind).kind = kind
         /\ kind \in TrxKinds
<1>1. kind \in TrxKinds
  BY ChainAssumption, Zenon DEF TrxKinds
<1>2. CASE calls = <<>>
  BY <1>1, <1>2, NewInv, NewIs, Zenon DEF DraftOf, BufferOf
<1>3. CASE calls # <<>>
  BY <1>1, <1>3, Zenon DEF DraftOf, BufferOf, WalletInv
<1> QED
  BY <1>1, <1>2, <1>3, Zenon

(* Every call of the wallet preserves the invariant. *)
LEMMA WalletStep ==
  ASSUME WalletInv, Wallet
  PROVE  WalletInv'
<1>1. PICK kind \in Kinds :
        \/ \E account \in Senders, delta \in Deltas, fee \in Fees :
             Transition(kind, TRUE, account, delta, fee)
        \/ \E delta \in Deltas, fee \in Fees :
             Transition(kind, FALSE, Receiver, delta, fee) \/ Amounts(kind, delta, fee)
        \/ \E account \in Senders : Address(kind, account) \/ SignAs(kind, "sender", account)
        \/ SignAs(kind, "receiver", Receiver)
  BY Zenon DEF Wallet
<1>2. Senders \subseteq Accounts /\ Receiver \in Accounts
  BY ChainConstants, Zenon
<1>3. ASSUME NEW op, NEW t, Call(op, kind, t)
      PROVE  /\ db' = InitialDb /\ calls' = Append(calls, op) /\ draft' = t
             /\ DraftInv(DraftOf(kind), BufferOf(kind), calls) /\ DraftOf(kind).kind = kind
  <2>1. /\ NodeAtStart /\ calls' = Append(calls, op) /\ draft' = t /\ db' = db
        /\ calls = <<>> \/ draft.kind = kind
    BY <1>3, Zenon DEF Call
  <2> QED
    BY <2>1, Before, Zenon DEF NodeAtStart
<1>4. ASSUME NEW isSender \in BOOLEAN, NEW account \in Accounts, ~isSender => account = Receiver,
             NEW delta \in Deltas, NEW fee \in Fees, Transition(kind, isSender, account, delta, fee)
      PROVE  WalletInv'
  <2> DEFINE op == [op |-> IF isSender THEN "sender" ELSE "receiver", account |-> account,
                    delta |-> delta, fee |-> fee]
             u == StateTransition(DraftOf(kind), isSender, Secrets[account], delta,
                                  VisibleValueCommit(fee)).trx
  <2>1. kind # "Regular" /\ Call(op, kind, u) /\ buffer' = BufferOf(kind)
    BY <1>4, Zenon DEF Transition
  <2>2. /\ op \in Ops /\ op.op = (IF isSender THEN "sender" ELSE "receiver")
        /\ op.account = account /\ op.delta = delta /\ op.fee = fee
    BY Zenon DEF Ops
  <2>3. u = StateTransition(DraftOf(kind), isSender, Secrets[account], delta,
                            VisibleValueCommit(fee)).trx
    BY Zenon
  <2> HIDE DEF op, u
  <2>4. /\ db' = InitialDb /\ calls' = Append(calls, op) /\ draft' = u
        /\ DraftInv(DraftOf(kind), BufferOf(kind), calls) /\ DraftOf(kind).kind = kind
    BY <1>3, <2>1, Zenon
  <2>5. DraftInv(u, BufferOf(kind), Append(calls, op))
    BY <1>4, <2>1, <2>2, <2>3, <2>4, TransitionInv, Zenon
  <2> QED
    BY <2>1, <2>4, <2>5, Zenon DEF WalletInv, InitialDb
<1>5. ASSUME NEW delta \in Deltas, NEW fee \in Fees, Amounts(kind, delta, fee) PROVE WalletInv'
  <2> DEFINE op == [op |-> "amounts", delta |-> delta, fee |-> fee]
             u == SetFeeAndDelta(DraftOf(kind), fee, delta.val)
  <2>1. kind = "Regular" /\ Call(op, kind, u) /\ buffer' = BufferOf(kind)
    BY <1>5, Zenon DEF Amounts
  <2>2. op \in Ops /\ op.op = "amounts" /\ op.delta = delta /\ op.fee = fee
    BY Zenon DEF Ops
  <2>3. u = SetFeeAndDelta(DraftOf(kind), fee, delta.val)
    BY Zenon
  <2> HIDE DEF op, u
  <2>4. /\ db' = InitialDb /\ calls' = Append(calls, op) /\ draft' = u
        /\ DraftInv(DraftOf(kind), BufferOf(kind), calls) /\ DraftOf(kind).kind = kind
    BY <1>3, <2>1, Zenon
  <2>5. DraftInv(u, BufferOf(kind), Append(calls, op))
    BY <2>1, <2>2, <2>3, <2>4, AmountsInv, Zenon
  <2> QED
    BY <2>1, <2>4, <2>5, Zenon DEF WalletInv, InitialDb
<1>6. ASSUME NEW account \in Accounts, Address(kind, account) PROVE WalletInv'
  <2> DEFINE op == [op |-> "address", account |-> account]
             u == SetAddr(DraftOf(kind), account, Receiver)
  <2>1. kind # "Ephemeral" /\ Call(op, kind, u) /\ buffer' = BufferOf(kind)
    BY <1>6, Zenon DEF Address
  <2>2. op \in Ops /\ op.op = "address" /\ op.account = account
    BY Zenon DEF Ops
  <2>3. u = SetAddr(DraftOf(kind), account, Receiver)
    BY Zenon
  <2> HIDE DEF op, u
  <2>4. /\ db' = InitialDb /\ calls' = Append(calls, op) /\ draft' = u
        /\ DraftInv(DraftOf(kind), BufferOf(kind), calls) /\ DraftOf(kind).kind = kind
    BY <1>3, <2>1, Zenon
  <2>5. DraftInv(u, BufferOf(kind), Append(calls, op))
    BY <2>1, <2>2, <2>3, <2>4, AddressInv, Zenon
  <2> QED
    BY <2>1, <2>4, <2>5, Zenon DEF WalletInv, InitialDb
<1>7. ASSUME NEW party \in {"sender", "receiver"}, NEW account \in Accounts,
             party = "receiver" => account = Receiver, SignAs(kind, party, account)
      PROVE  WalletInv'
  <2> DEFINE op == [op |-> "sign", party |-> party, account |-> account,
                    terms |-> Terms(DraftOf(kind))]
             s == Sign(DraftOf(kind), BufferOf(kind), party, NameOf(kind, account))
  <2>1. Call(op, kind, s.trx) /\ buffer' = s.buffer
    BY <1>7, Zenon DEF SignAs
  <2>2. /\ db' = InitialDb /\ calls' = Append(calls, op) /\ draft' = s.trx
        /\ DraftInv(DraftOf(kind), BufferOf(kind), calls) /\ DraftOf(kind).kind = kind
    <3> HIDE DEF op, s
    <3> QED
      BY <1>3, <2>1, Zenon
  <2>3. Terms(DraftOf(kind)) \in Hashes
    BY <2>2, TermsIs, Zenon DEF DraftInv, DraftTypes
  <2>4. /\ op \in Ops /\ op.op = "sign" /\ op.party = party /\ op.account = account
        /\ op.terms = Terms(DraftOf(kind))
    BY <2>3, Zenon DEF Ops
  <2>5. s = Sign(DraftOf(kind), BufferOf(kind), party, NameOf(DraftOf(kind).kind, account))
    BY <2>2, Zenon
  <2> HIDE DEF op, s
  <2>6. DraftInv(s.trx, s.buffer, Append(calls, op))
    BY <1>7, <2>2, <2>4, <2>5, SignInv, Zenon
  <2> QED
    BY <2>1, <2>2, <2>6, Zenon DEF WalletInv, InitialDb
<1> QED
  BY <1>1, <1>2, <1>4, <1>5, <1>6, <1>7, Zenon

(* A draft is given up, or gossiped and then given up. *)
LEMMA GossipStep ==
  ASSUME WalletInv, Gossip
  PROVE  WalletInv'
<1>1. draft' = New("Ephemeral") /\ buffer' = NewBuffer("Ephemeral") /\ calls' = <<>>
  BY Zenon DEF Gossip, NoDraft
<1>2. DraftInv(New("Ephemeral"), NewBuffer("Ephemeral"), <<>>)
  BY NewInv, Zenon DEF TrxKinds
<1> QED
  BY <1>1, <1>2, Zenon DEF WalletInv

(* The invariant of the wallet, whatever the node does with the pool. *)
THEOREM WalletInvariance == ChainSpec => []WalletInv
<1>1. ChainInit => WalletInv
  <2> SUFFICES ASSUME ChainInit PROVE WalletInv
    BY Zenon
  <2>1. draft = New("Ephemeral") /\ buffer = NewBuffer("Ephemeral") /\ calls = <<>>
    BY Zenon DEF ChainInit, NoDraft
  <2>2. DraftInv(New("Ephemeral"), NewBuffer("Ephemeral"), <<>>)
    BY NewInv, Zenon DEF TrxKinds
  <2> QED
    BY <2>1, <2>2, Zenon DEF WalletInv
<1>2. WalletInv /\ [ChainNext]_chainVars => WalletInv'
  <2> SUFFICES ASSUME WalletInv, [ChainNext]_chainVars PROVE WalletInv'
    BY Zenon
  <2>1. CASE Node
    <3>1. UNCHANGED walletVars /\ calls = <<>>
      BY <2>1, Zenon DEF Node
    <3> QED
      BY <3>1, Zenon DEF walletVars, WalletInv
  <2>2. CASE UNCHANGED chainVars
    BY <2>2, Zenon DEF chainVars, walletVars, WalletInv
  <2> QED
    BY <2>1, <2>2, WalletStep, GossipStep, Zenon DEF ChainNext
<1> QED
  BY <1>1, <1>2, PTL DEF ChainSpec

-----------------------------------------------------------------------------
(* The pool. *)

(* Sizes of the map around the insertion and removal of one key. *)
LEMMA MapSizes ==
  ASSUME NEW m \in SUBSET Keys, NEW k \in Keys
  PROVE  /\ Cardinality(m) \in Nat
         /\ k \notin m => Cardinality(m \cup {k}) = Cardinality(m) + 1
         /\ k \in m => Cardinality(m \ {k}) = Cardinality(m) - 1
         /\ k \notin m => m \ {k} = m
         /\ Cardinality(m \ {k}) <= Cardinality(m)
<1>1. IsFiniteSet(m)
  BY PoolAssumption, FS_Subset, Zenon
<1>2. /\ Cardinality(m) \in Nat
      /\ k \notin m => Cardinality(m \cup {k}) = Cardinality(m) + 1
      /\ k \in m => Cardinality(m \ {k}) = Cardinality(m) - 1
  BY <1>1, FS_CardinalityType, FS_AddElement, FS_RemoveElement, Zenon
<1>3. k \notin m => m \ {k} = m
  BY Zenon
<1>4. Cardinality(m \ {k}) <= Cardinality(m)
  <2>1. CASE k \in m
    BY <1>2, <2>1
  <2>2. CASE k \notin m
    <3>1. Cardinality(m \ {k}) = Cardinality(m)
      BY <1>3, <2>2, Zenon
    <3>2. QED
      BY <1>2, <3>1
  <2>3. QED
    BY <2>1, <2>2, Zenon
<1>5. QED
  BY <1>2, <1>3, <1>4, Zenon

(* PriorityPool::new makes an empty pool. *)
LEMMA InitPoolInv == Init => PoolInv
BY PoolAssumption, FS_EmptySet
   DEF Init, PoolInv, TypeOK, KeysReachable, LenBounded

(* Every call, and every turn of a loop inside one, preserves the invariant. *)
LEMMA StepPoolInv == PoolInv /\ [Next]_vars => PoolInv'
<1> SUFFICES ASSUME PoolInv, [Next]_vars PROVE PoolInv'
  BY Zenon
<1> USE PoolAssumption DEF PoolInv, TypeOK
<1>1. ASSUME NEW k \in Keys, Insert(k) PROVE PoolInv'
  <2>1. CASE k \in map
    BY <1>1, <2>1, Zenon DEF Insert, KeysReachable, LenBounded
  <2>2. CASE k \notin map
    <3>0. /\ map' = map \cup {k}
          /\ heap' = [heap EXCEPT ![k] = heap[k] + 1]
          /\ pc' \in {"idle", "evict"}
          /\ out' = out
      BY <1>1, <2>2, Zenon DEF Insert
    <3>1. Cardinality(map) \in Nat /\ Cardinality(map') = Cardinality(map) + 1
      BY <2>2, <3>0, MapSizes, Zenon
    <3>2. TypeOK'
      BY <3>0
    <3>3. KeysReachable'
      BY <3>0 DEF KeysReachable
    <3>4. LenBounded'
      BY <1>1, <2>2, <3>1 DEF Insert, LenBounded, OverCapacity
    <3>5. QED
      BY <3>2, <3>3, <3>4, Zenon
  <2>3. QED
    BY <2>1, <2>2, Zenon
<1>2. ASSUME NEW k \in Keys, RemoveOne(k) PROVE PoolInv'
  <2>1. Cardinality(map) \in Nat /\ Cardinality(map') <= Cardinality(map)
    BY <1>2, MapSizes, Zenon DEF RemoveOne
  <2>2. TypeOK' /\ KeysReachable'
    BY <1>2, Zenon DEF RemoveOne, KeysReachable
  <2>3. Cardinality(map') \in Nat
    BY <2>2, MapSizes, Zenon
  <2>4. LenBounded'
    BY <1>2, <2>1, <2>3 DEF RemoveOne, LenBounded
  <2>5. QED
    BY <2>2, <2>4, Zenon
<1>3. ASSUME EvictStep PROVE PoolInv'
  <2>1. PICK k \in Keys :
          /\ HeapPop(k)
          /\ map' = map \ {k}
          /\ pc' = IF OverCapacity(map') THEN "evict" ELSE "idle"
    BY <1>3, Zenon DEF EvictStep
  <2>2. Cardinality(map) = Capacity + 1
    BY <1>3, Zenon DEF EvictStep, LenBounded
  <2>3. Cardinality(map') \in {Capacity, Capacity + 1}
    <3>1. CASE k \in map
      BY <2>1, <2>2, <3>1, MapSizes
    <3>2. CASE k \notin map
      BY <2>1, <2>2, <3>2, MapSizes, Zenon
    <3>3. QED
      BY <3>1, <3>2, Zenon
  <2>4. TypeOK' /\ KeysReachable'
    BY <1>3, <2>1 DEF EvictStep, HeapPop, IsHighest, HeapKeys, KeysReachable
  <2>5. LenBounded'
    BY <2>1, <2>3 DEF LenBounded, OverCapacity
  <2>6. QED
    BY <2>4, <2>5, Zenon
<1>4. ASSUME PopStep PROVE PoolInv'
  <2>1. PICK k \in Keys :
          /\ HeapPop(k)
          /\ map' = map \ {k}
          /\ IF k \in map THEN out' = k /\ pc' = "idle" ELSE UNCHANGED <<out, pc>>
    BY <1>4, Zenon DEF PopStep
  <2>2. Cardinality(map) \in Nat /\ Cardinality(map') <= Cardinality(map)
    BY <2>1, MapSizes, Zenon
  <2>3. TypeOK' /\ KeysReachable'
    BY <1>4, <2>1 DEF PopStep, HeapPop, IsHighest, HeapKeys, KeysReachable
  <2>4. Cardinality(map') \in Nat
    BY <2>3, MapSizes, Zenon
  <2>5. LenBounded'
    BY <1>4, <2>1, <2>2, <2>4 DEF PopStep, LenBounded
  <2>6. QED
    BY <2>3, <2>5, Zenon
<1>5. ASSUME CleanStep PROVE PoolInv'
  <2>1. PICK k \in Keys \ map : HeapPop(k)
    BY <1>5, Zenon DEF CleanStep
  <2>2. QED
    BY <1>5, <2>1 DEF CleanStep, HeapPop, IsHighest, HeapKeys, KeysReachable, LenBounded
<1>6. ASSUME PopCall \/ PeekCall \/ PopEmpty \/ PeekReturn PROVE PoolInv'
  BY <1>6, Zenon DEF PopCall, PeekCall, PopEmpty, PeekReturn, KeysReachable, LenBounded
<1>7. ASSUME UNCHANGED vars PROVE PoolInv'
  BY <1>7, Zenon DEF vars, KeysReachable, LenBounded
<1>8. QED
  BY <1>1, <1>2, <1>3, <1>4, <1>5, <1>6, <1>7, Zenon DEF Next, Loop

(* The inductive invariant of the pool. *)
THEOREM PoolInvariance == Spec => []PoolInv
BY InitPoolInv, StepPoolInv, PTL DEF Spec

(* The eviction loop of insert always finds a heap entry for a key of the
   map, and the pool respects its capacity. *)
THEOREM PoolIsSound == Spec => []KeysReachable /\ []LenBounded
BY PoolInvariance, PTL DEF PoolInv

(* The highest key on the heap that is in the map is the highest in the map. *)
LEMMA TopIsHighest ==
  ASSUME PoolInv, NEW k \in map, IsHighest(k, HeapKeys)
  PROVE  IsHighest(k, map)
<1>1. map \subseteq HeapKeys
  BY Zenon DEF PoolInv, TypeOK, KeysReachable, HeapKeys
<1>2. QED
  BY <1>1, Zenon DEF IsHighest

(* A call of pop or peek that returns, returns the highest. *)
LEMMA StepReturnsHighest == PoolInv /\ [Next]_vars => [ReturnStep]_vars
<1> SUFFICES ASSUME PoolInv, Next, pc \in {"pop", "clean"}, pc' = "idle"
             PROVE  (out' = NoKey /\ map = {}) \/ IsHighest(out', map)
  BY Zenon DEF ReturnStep
<1>1. CASE HeapKeys = {} /\ out' = NoKey
  BY <1>1, Zenon DEF PoolInv, TypeOK, KeysReachable, HeapKeys
<1>2. CASE PopStep
  BY <1>2, TopIsHighest, Zenon DEF PopStep, HeapPop
<1>3. CASE PeekReturn
  BY <1>1, <1>3, TopIsHighest, Zenon DEF PeekReturn
<1>4. CASE PopEmpty
  BY <1>1, <1>4, Zenon DEF PopEmpty
<1> QED
  BY <1>2, <1>3, <1>4, Zenon
     DEF Next, Loop, Insert, RemoveOne, PopCall, PeekCall, EvictStep, CleanStep

(* pop and peek return the transaction with the highest fee. *)
THEOREM PopReturnsHighest == Spec => ReturnsHighest
BY StepReturnsHighest, PoolInvariance, PTL DEF Spec, ReturnsHighest

(* from_net inserts at most one transaction. *)
LEMMA FromNetPools ==
  ASSUME NEW body, FromNet(body)
  PROVE  (\E k \in Keys : Insert(k)) \/ UNCHANGED vars
<1>1. PICK old \in Recycled :
        IF Admits(Unmarshal(old, body))
          THEN \E k \in Keys : TrxOf(k).hash = Unmarshal(old, body).hash /\ Insert(k)
          ELSE UNCHANGED vars
  BY Zenon DEF FromNet
<1> QED
  BY <1>1, Zenon

(* What the node does with the pool: one of its calls or a turn of a loop, or
   the removals of a block. *)
LEMMA ChainStep ==
  ASSUME [ChainNext]_chainVars
  PROVE  [Next]_vars \/ (pc = "idle" /\ map' \subseteq map /\ UNCHANGED <<heap, pc, out>>)
<1>1. CASE Wallet
  <2>1. UNCHANGED vars
    BY <1>1, Zenon DEF Wallet, Transition, Address, Amounts, SignAs, Call
  <2> QED
    BY <2>1, Zenon
<1>2. CASE Gossip
  <2>1. FromNet(buffer) \/ UNCHANGED vars
    BY <1>2, Zenon DEF Gossip
  <2> QED
    BY <2>1, FromNetPools, Zenon DEF Next
<1>3. CASE Node
  <2>1. CASE \E k \in Keys : FromNet(Build(Orders[k]))
    BY <2>1, FromNetPools, Zenon DEF Next
  <2>2. CASE \E block \in [1 .. BlockLen -> Keys] : ExecuteHiddenBlock(block)
    <3>1. PICK block \in [1 .. BlockLen -> Keys] : ExecuteHiddenBlock(block)
      BY <2>2, Zenon
    <3>2. pc = "idle" /\ map' = map \ Range(block) /\ UNCHANGED <<heap, pc, out>>
      BY <3>1, Zenon DEF ExecuteHiddenBlock
    <3> QED
      BY <3>2, Zenon
  <2>3. CASE (\E k \in Keys : RemoveOne(k)) \/ PopCall \/ PeekCall \/ Loop
    BY <2>3, Zenon DEF Next
  <2> QED
    BY <1>3, <2>1, <2>2, <2>3, Zenon DEF Node
<1>4. CASE UNCHANGED chainVars
  BY <1>4, Zenon DEF chainVars
<1> QED
  BY <1>1, <1>2, <1>3, <1>4, Zenon DEF ChainNext

(* A block takes any number of keys out of the map. *)
LEMMA BlockPoolInv ==
  ASSUME PoolInv, pc = "idle", map' \subseteq map, UNCHANGED <<heap, pc, out>>
  PROVE  PoolInv'
<1>1. TypeOK' /\ KeysReachable'
  BY Zenon DEF PoolInv, TypeOK, KeysReachable
<1>2. Cardinality(map') <= Cardinality(map) /\ Cardinality(map) \in Nat /\ Cardinality(map') \in Nat
  <2>1. IsFiniteSet(map)
    BY PoolAssumption, FS_Subset, Zenon DEF PoolInv, TypeOK
  <2> QED
    BY <2>1, FS_Subset, FS_CardinalityType, Zenon
<1>3. LenBounded'
  BY <1>2, PoolAssumption DEF PoolInv, LenBounded
<1> QED
  BY <1>1, <1>3, Zenon DEF PoolInv

(* The pool keeps its invariant while the node pools what it receives, and
   executes blocks that list a key twice or one that the pool does not have. *)
THEOREM ChainPoolInvariance == ChainSpec => []PoolInv
<1>1. ChainInit => PoolInv
  BY InitPoolInv, Zenon DEF ChainInit
<1>2. PoolInv /\ [ChainNext]_chainVars => PoolInv'
  BY ChainStep, BlockPoolInv, StepPoolInv, Zenon
<1> QED
  BY <1>1, <1>2, PTL DEF ChainSpec

(* pop and peek of the node's pool return the transaction with the highest
   fee, whatever has left the map in blocks. *)
THEOREM ChainReturnsHighest == ChainSpec => ReturnsHighest
<1>1. PoolInv /\ [ChainNext]_chainVars => [ReturnStep]_vars
  <2> SUFFICES ASSUME PoolInv, [ChainNext]_chainVars PROVE [ReturnStep]_vars
    BY Zenon
  <2>1. CASE [Next]_vars
    BY <2>1, StepReturnsHighest, Zenon
  <2>2. CASE pc = "idle"
    BY <2>2, Zenon DEF ReturnStep
  <2> QED
    BY <2>1, <2>2, ChainStep, Zenon
<1> QED
  BY <1>1, ChainPoolInvariance, PTL DEF ChainSpec, ReturnsHighest

-----------------------------------------------------------------------------
(* Drafts that are valid. *)

(* The draft as it is read again. *)
LEMMA ReadAgain ==
  ASSUME WalletInv, NEW t, t = Unmarshal(New(draft.kind), buffer)
  PROVE  /\ t.kind = buffer.kind /\ t.kind = draft.kind /\ t.kind \in TrxKinds /\ Named(t)
         /\ t.proof = buffer.proof /\ t.sender = buffer.sender /\ t.receiver = buffer.receiver
         /\ t.delta = buffer.delta /\ t.fee = buffer.fee
         /\ t.proof \in Commitments \cup {None} /\ t.sender \in Parties /\ t.receiver \in Parties
         /\ t.delta \in Commitments /\ t.fee \in U64
         /\ t.senderSig = buffer.senderSig /\ t.receiverSig = buffer.receiverSig
         /\ ComputeHash(t) = Terms(t) /\ Terms(t) = Terms(buffer) /\ Terms(t) \in Hashes
<1>1. buffer \in TrxType /\ Named(buffer) /\ buffer.kind = draft.kind
  BY Zenon DEF WalletInv, DraftInv, DraftTypes
<1>2. /\ t.kind = buffer.kind /\ t.proof = buffer.proof /\ t.sender = buffer.sender
      /\ t.receiver = buffer.receiver /\ t.delta = buffer.delta /\ t.fee = buffer.fee
      /\ t.senderSig = buffer.senderSig /\ t.receiverSig = buffer.receiverSig
      /\ Terms(t) = Terms(buffer) /\ ComputeHash(t) = Terms(buffer)
  BY <1>1, UnmarshalIs, Zenon
<1>3. /\ buffer.kind \in TrxKinds /\ buffer.proof \in Commitments \cup {None}
      /\ buffer.sender \in Parties /\ buffer.receiver \in Parties
      /\ buffer.delta \in Commitments /\ buffer.fee \in U64
  BY <1>1, Zenon DEF TrxType
<1>4. Named(t)
  BY <1>1, <1>2, Zenon DEF Named
<1> QED
  BY <1>1, <1>2, <1>3, <1>4, TermsIs, Zenon

(* A proof that is_valid accepts is one, and it is of an amount. *)
LEMMA AcceptedProof ==
  ASSUME NEW t, NEW a \in Commitments, NEW b \in Commitments, NEW proof \in Commitments \cup {None},
         t.delta \in Commitments, t.fee \in U64, proof = Finals(t, a, b).sender
  PROVE  /\ Finals(t, a, b).sender.x \in U64
         /\ Finals(t, a, b).sender.x + Finals(t, a, b).receiver.x + t.fee = a.x + b.x
<1>1. a.x \in U64 /\ b.x \in U64 /\ t.delta.x \in U64 /\ a.r \in Int /\ t.delta.r \in Int
  BY TrxNats DEF Commitments, U64
<1>2. Finals(t, a, b).sender \in Points
  <2> DEFINE x == a.x - t.delta.x
             r == a.r - t.delta.r
  <2>1. x \in Int /\ r \in Int /\ t.fee \in Int
    BY <1>1, TrxNats DEF U64
  <2>2. Finals(t, a, b).sender = Less(Commit(x, r), Commit(t.fee, 0))
    BY Zenon DEF Finals, Less, VisibleValueCommit, HiddenValueCommit
  <2> HIDE DEF x, r
  <2>3. /\ x % Order \in Int /\ r % Order \in Int /\ t.fee % Order \in Int /\ 0 % Order \in Int
        /\ \A i \in Int : i % Order \in 0 .. Order - 1
    BY <2>1, TrxNats
  <2>4. Less(Commit(x, r), Commit(t.fee, 0)) =
          [x |-> ((x % Order) - (t.fee % Order)) % Order, r |-> ((r % Order) - (0 % Order)) % Order]
    BY Zenon DEF Less, Commit
  <2>5. (x % Order) - (t.fee % Order) \in Int /\ (r % Order) - (0 % Order) \in Int
    BY <2>3
  <2> QED
    BY <2>2, <2>3, <2>4, <2>5 DEF Points
<1>3. proof \in Commitments
  BY <1>2, ChainConstants, Zenon
<1>4. Finals(t, a, b).sender.x \in U64
  BY <1>3, Zenon DEF Commitments, U64
<1> QED
  BY <1>1, <1>4, FinalsConserve, Zenon

(* What execute moves between visible balances, when nothing wraps. *)
LEMMA VisibleConserve ==
  ASSUME NEW a \in U64, NEW b \in U64, NEW d \in U64, NEW f \in U64, d + f < U, b + d < U
  PROVE  (a - ((d + f) % U)) + ((b + d) % U) + f = a + b
<1>1. U \in Nat /\ U > 0
  BY TrxAssumption
<1>2. a \in Int /\ b \in Int /\ d \in Int /\ f \in Int /\ d + f >= 0 /\ b + d >= 0
  BY <1>1 DEF U64
<1>3. (d + f) % U = d + f
  BY <1>1, <1>2
<1>4. (b + d) % U = b + d
  BY <1>1, <1>2
<1> QED
  BY <1>2, <1>3, <1>4

(* A draft that is valid conserves what its parties have, and its sender is
   left with an amount, in whatever order its calls were made: for every set
   of accounts, balances and amounts. *)
THEOREM ValidDraftsConserve == ChainSpec => []ValidConserves
<1>1. WalletInv => ValidConserves
  <2> DEFINE t == Unmarshal(New(draft.kind), buffer)
  <2> SUFFICES ASSUME WalletInv, calls # <<>>, IsValid(t)
               PROVE  IF t.kind = "Regular"
                        THEN LET a == Secrets[t.sender].val
                                 b == Secrets[Receiver].val
                                 finals == RegularFinals(t, a, b)
                             IN  t.delta.x + t.fee < U /\ b + t.delta.x < U =>
                                   finals.sender + finals.receiver + t.fee = a + b
                        ELSE LET a == IF t.kind = "Hidden" THEN Secrets[t.sender].commit ELSE t.sender
                                 b == IF t.kind = "Hidden" THEN Secrets[Receiver].commit ELSE t.receiver
                                 finals == Finals(t, a, b)
                             IN  /\ finals.sender.x + finals.receiver.x + t.fee = a.x + b.x
                                 /\ finals.sender.x \in 0 .. U - 1
    BY Zenon DEF ValidConserves
  <2>3. /\ t.kind \in TrxKinds /\ t.proof \in Commitments \cup {None} /\ t.delta \in Commitments
        /\ t.fee \in U64 /\ Named(t)
    BY ReadAgain, Zenon
  <2> HIDE DEF t
  <2>4. t.delta.x \in U64
    BY <2>3, Zenon DEF Commitments, U64
  <2>5. CASE t.kind = "Ephemeral"
    <3>1. t.sender \in Commitments /\ t.receiver \in Commitments
      BY <2>3, <2>5, Zenon DEF Named
    <3>2. t.proof = Finals(t, t.sender, t.receiver).sender
      BY <2>5, Zenon DEF IsValid, Admits, EphemeralIsValid
    <3> QED
      BY <2>3, <2>5, <3>1, <3>2, AcceptedProof, Zenon DEF U64
  <2>6. CASE t.kind = "Hidden"
    <3>1. t.sender \in Accounts /\ Receiver \in Accounts
      BY <2>3, <2>6, ChainConstants, Zenon DEF Named, IsValid
    <3>2. Secrets[t.sender].commit \in Commitments /\ Secrets[Receiver].commit \in Commitments
      BY <3>1, ChainConstants, HiddenIs, Zenon
    <3>3. t.proof = Finals(t, Secrets[t.sender].commit, Secrets[Receiver].commit).sender
      BY <2>6, Zenon DEF IsValid, HiddenIsValid
    <3> QED
      BY <2>3, <2>6, <3>2, <3>3, AcceptedProof, Zenon DEF U64
  <2>7. CASE t.kind = "Regular"
    <3> DEFINE a == Secrets[t.sender].val
               b == Secrets[Receiver].val
    <3>1. t.sender \in Accounts /\ Receiver \in Accounts
      BY <2>3, <2>7, ChainConstants, Zenon DEF Named, IsValid
    <3>2. a \in U64 /\ b \in U64
      BY <3>1, ChainConstants, HiddenIs, Zenon
    <3>3. RegularFinals(t, a, b).sender = a - ((t.delta.x + t.fee) % U)
          /\ RegularFinals(t, a, b).receiver = (b + t.delta.x) % U
      BY Zenon DEF RegularFinals
    <3> HIDE DEF a, b
    <3>4. ASSUME t.delta.x + t.fee < U, b + t.delta.x < U
          PROVE  (a - ((t.delta.x + t.fee) % U)) + ((b + t.delta.x) % U) + t.fee = a + b
      BY <2>3, <2>4, <3>2, <3>4, VisibleConserve
    <3> QED
      BY <2>7, <3>3, <3>4, Zenon DEF a, b
  <2> QED
    BY <2>3, <2>5, <2>6, <2>7, Zenon DEF TrxKinds
<1> QED
  BY <1>1, WalletInvariance, PTL

(* A valid draft carries the signatures of its two names, over its terms: the
   balances in the database are not the identity, whose signature
   schnorr_verify does not ask for. *)
LEMMA ValidHasSignatures ==
  ASSUME WalletInv, calls # <<>>, NEW t, t = Unmarshal(New(draft.kind), buffer), IsValid(t)
  PROVE  /\ buffer.senderSig = [signer |-> t.sender, context |-> Terms(t)]
         /\ buffer.receiverSig = [signer |-> t.receiver, context |-> Terms(t)]
<1>1. /\ t.senderSig = buffer.senderSig /\ t.receiverSig = buffer.receiverSig
      /\ ComputeHash(t) = Terms(t)
  BY ReadAgain, Zenon
<1>2. CASE t.kind = "Ephemeral"
  <2>1. Admits(t)
    BY <1>2, Zenon DEF IsValid
  <2>2. db = InitialDb
    BY Zenon DEF WalletInv
  <2>3. \A c \in DOMAIN InitialDb : c # Identity
    <3>1. \A a \in Accounts : Secrets[a].commit # Identity
      BY ChainConstants, HiddenIs, Zenon
    <3>2. DOMAIN InitialDb = {Secrets[a].commit : a \in Accounts}
      BY Zenon DEF InitialDb
    <3> QED
      BY <3>1, <3>2, Zenon
  <2>4. t.sender # Identity /\ t.receiver # Identity
    BY <2>1, <2>2, <2>3, Zenon DEF Admits
  <2>5. /\ SchnorrVerify(t.senderSig, t.sender, ComputeHash(t))
        /\ SchnorrVerify(t.receiverSig, t.receiver, ComputeHash(t))
    BY <2>1, Zenon DEF Admits, EphemeralIsValid, VerifySchnorrs
  <2> QED
    BY <1>1, <2>4, <2>5, Zenon DEF SchnorrVerify
<1>3. CASE t.kind # "Ephemeral"
  <2>1. VerifySigs(t)
    BY <1>3, Zenon DEF IsValid, HiddenIsValid, RegularIsValid
  <2> QED
    BY <1>1, <2>1, Zenon DEF VerifySigs
<1> QED
  BY <1>2, <1>3, Zenon

(* A valid draft is the one that both of its parties signed, in whatever order
   the calls were made. *)
THEOREM ValidDraftsAreSigned == ChainSpec => []ValidIsSigned
<1>1. WalletInv => ValidIsSigned
  <2> DEFINE t == Unmarshal(New(draft.kind), buffer)
  <2> SUFFICES ASSUME WalletInv, calls # <<>>, IsValid(t)
               PROVE  /\ \E i \in SignedBy("sender") :
                           calls[i].terms = Terms(t) /\ t.sender = NameOf(t.kind, calls[i].account)
                      /\ \E i \in SignedBy("receiver") :
                           calls[i].terms = Terms(t) /\ t.receiver = NameOf(t.kind, calls[i].account)
    BY Zenon DEF ValidIsSigned
  <2>1. /\ buffer.senderSig = [signer |-> t.sender, context |-> Terms(t)]
        /\ buffer.receiverSig = [signer |-> t.receiver, context |-> Terms(t)]
    BY ValidHasSignatures, Zenon
  <2>2. /\ t.kind = buffer.kind /\ t.sender \in Parties /\ t.receiver \in Parties
        /\ Terms(t) \in Hashes
    BY ReadAgain, Zenon
  <2> HIDE DEF t
  <2>3. buffer.senderSig # None /\ buffer.receiverSig # None
    <3>1. buffer.senderSig \in Signatures /\ buffer.receiverSig \in Signatures
      BY <2>1, <2>2 DEF Signatures
    <3> QED
      BY <3>1, ChainConstants, Zenon
  <2>4. Witnessed(buffer, calls)
    BY Zenon DEF WalletInv, DraftInv
  <2>5. \E i \in SignedBy("sender") :
          calls[i].terms = Terms(t) /\ t.sender = NameOf(t.kind, calls[i].account)
    <3>1. PICK i \in DOMAIN calls :
            /\ calls[i].op = "sign" /\ calls[i].party = "sender"
            /\ buffer.senderSig = [signer |-> NameOf(buffer.kind, calls[i].account),
                                   context |-> calls[i].terms]
      BY <2>3, <2>4, Zenon DEF Witnessed, MadeBy
    <3>2. /\ buffer.senderSig.signer = t.sender /\ buffer.senderSig.context = Terms(t)
          /\ buffer.senderSig.signer = NameOf(buffer.kind, calls[i].account)
          /\ buffer.senderSig.context = calls[i].terms
      BY <2>1, <3>1
    <3> QED
      BY <2>2, <3>1, <3>2, Zenon DEF SignedBy
  <2>6. \E i \in SignedBy("receiver") :
          calls[i].terms = Terms(t) /\ t.receiver = NameOf(t.kind, calls[i].account)
    <3>1. PICK i \in DOMAIN calls :
            /\ calls[i].op = "sign" /\ calls[i].party = "receiver"
            /\ buffer.receiverSig = [signer |-> NameOf(buffer.kind, calls[i].account),
                                     context |-> calls[i].terms]
      BY <2>3, <2>4, Zenon DEF Witnessed, MadeBy
    <3>2. /\ buffer.receiverSig.signer = t.receiver /\ buffer.receiverSig.context = Terms(t)
          /\ buffer.receiverSig.signer = NameOf(buffer.kind, calls[i].account)
          /\ buffer.receiverSig.context = calls[i].terms
      BY <2>1, <3>1
    <3> QED
      BY <2>2, <3>1, <3>2, Zenon DEF SignedBy
  <2> QED
    BY <2>5, <2>6, Zenon
<1> QED
  BY <1>1, WalletInvariance, PTL

(* The proof that a sender who can pay makes is the one is_valid asks for. *)
LEMMA PaidProof ==
  ASSUME NEW init \in Hidden, NEW delta \in Hidden, NEW fee \in U64, NEW t, NEW rInit,
         t.delta = delta.commit, t.fee = fee, delta.val + fee <= init.val
  PROVE  Finals(t, init.commit, rInit).sender = ProofOf(init, delta, fee)
<1>1. /\ init.val \in U64 /\ delta.val \in U64
      /\ init.r \in 0 .. Order - 1 /\ delta.r \in 0 .. Order - 1
      /\ init.commit = [x |-> init.val, r |-> init.r]
      /\ delta.commit = [x |-> delta.val, r |-> delta.r]
  BY HiddenIs, TrxNats
<1>2. /\ init.val % Order = init.val /\ init.r % Order = init.r
      /\ delta.val % Order = delta.val /\ delta.r % Order = delta.r
  BY <1>1, TrxNats, FieldSmall DEF U64
<1>3. init.commit = Commit(init.val, init.r) /\ t.delta = Commit(delta.val, delta.r)
  BY <1>1, <1>2, Zenon DEF Commit
<1>4. Finals(t, init.commit, rInit).sender =
        [x |-> (((init.val - delta.val) % Order) - (fee % Order)) % Order,
         r |-> (init.r - delta.r) % Order]
  BY <1>1, <1>3, SenderFinal
<1> QED
  BY <1>1, <1>4, AffordableLeft, Zenon DEF ProofOf

(* What a draft is whose calls were made in order. *)
LEMMA InOrderIs ==
  ASSUME WalletInv, NEW sender \in Senders, NEW delta \in Deltas, NEW fee \in Fees,
         InOrder(sender, delta, fee), NEW t, t = Unmarshal(New(draft.kind), buffer)
  PROVE  /\ calls # <<>>
         /\ t.fee = fee
         /\ t.senderSig = [signer |-> NameOf(t.kind, sender), context |-> ComputeHash(t)]
         /\ t.receiverSig = [signer |-> NameOf(t.kind, Receiver), context |-> ComputeHash(t)]
         /\ t.sender = NameOf(t.kind, sender) /\ t.receiver = NameOf(t.kind, Receiver)
         /\ t.kind # "Regular" => /\ t.delta = delta.commit
                                  /\ t.proof = ProofOf(Secrets[sender], delta, fee)
         /\ t.kind = "Regular" => t.delta.x = delta.val
<1>1. Agreed(calls, sender, delta, fee)
  <2> SUFFICES ASSUME NEW i \in DOMAIN calls
               PROVE  IF calls[i].op = "sign" THEN calls[i].party = "sender" => calls[i].account = sender
                      ELSE /\ \A j \in DOMAIN calls : calls[j].op = "sign" => i < j
                           /\ calls[i].op \in {"sender", "address"} => calls[i].account = sender
                           /\ calls[i].op # "address" => calls[i].delta = delta /\ calls[i].fee = fee
    BY Zenon DEF Agreed
  <2>1. \A j \in DOMAIN calls : calls[j].op = "sign" => calls[j].party \in {"sender", "receiver"}
    <3>1. \A op \in Ops : op.op = "sign" => op.party \in {"sender", "receiver"}
      BY Zenon DEF Ops
    <3>2. calls \in Seq(Ops)
      BY Zenon DEF WalletInv, DraftInv, DraftTypes
    <3> QED
      BY <3>1, <3>2
  <2>2. \A j \in DOMAIN calls : calls[j].op = "sign" => j \in SignedBy("sender") \cup SignedBy("receiver")
    BY <2>1, Zenon DEF SignedBy
  <2>3. IF calls[i].op = "sign" THEN calls[i].party = "sender" => calls[i].account = sender
        ELSE /\ \A j \in SignedBy("sender") \cup SignedBy("receiver") : i < j
             /\ calls[i].op \in {"sender", "address"} => calls[i].account = sender
             /\ calls[i].op # "address" => calls[i].delta = delta /\ calls[i].fee = fee
    BY Zenon DEF InOrder
  <2> QED
    BY <2>2, <2>3, Zenon
<1>2. HasSign(calls, "sender") /\ HasSign(calls, "receiver") /\ Has(calls, "sign") /\ calls # <<>>
  BY DEF InOrder, SignedBy, HasSign, Has
<1>3. /\ Filled(draft, calls, sender, delta, fee)
      /\ Proved(draft, buffer, calls, sender, delta, fee)
      /\ Signed(draft, buffer, calls, sender)
      /\ KindCalls(draft.kind, calls)
  BY <1>1, Zenon DEF WalletInv, DraftInv, InStep
<1>4. /\ Has(calls, IF draft.kind = "Regular" THEN "amounts" ELSE "sender")
      /\ Has(calls, IF draft.kind = "Ephemeral" THEN "receiver" ELSE "address")
  BY Zenon DEF InOrder, FilledIn, Has
<1>5. /\ t.kind = buffer.kind /\ t.kind = draft.kind /\ t.kind \in TrxKinds
      /\ t.proof = buffer.proof /\ t.senderSig = buffer.senderSig
      /\ t.receiverSig = buffer.receiverSig
      /\ ComputeHash(t) = Terms(t) /\ Terms(t) = Terms(buffer)
  BY ReadAgain, Zenon
<1>6. Terms(t) = Terms(draft)
  BY <1>2, <1>3, <1>5, Zenon DEF Signed
<1>7. t.sender = draft.sender /\ t.delta = draft.delta /\ t.fee = draft.fee /\ t.receiver = draft.receiver
  BY <1>6, Zenon DEF Terms
<1>8. /\ t.senderSig = [signer |-> NameOf(t.kind, sender), context |-> ComputeHash(t)]
      /\ t.receiverSig = [signer |-> NameOf(t.kind, Receiver), context |-> ComputeHash(t)]
  BY <1>2, <1>3, <1>5, Zenon DEF Signed
<1>9. t.sender = NameOf(t.kind, sender) /\ t.receiver = NameOf(t.kind, Receiver)
  <2>1. CASE draft.kind = "Ephemeral"
    BY <1>3, <1>4, <1>5, <1>7, <2>1, Zenon DEF Filled, NameOf
  <2>2. CASE draft.kind # "Ephemeral"
    BY <1>3, <1>4, <1>5, <1>7, <2>2, Zenon DEF Filled, NameOf
  <2> QED
    BY <2>1, <2>2, Zenon
<1>10. t.kind = "Regular" => t.delta.x = delta.val
  BY <1>3, <1>4, <1>5, <1>7, Zenon DEF Filled
<1>11. t.fee = fee
  BY <1>3, <1>4, <1>5, <1>7, Zenon DEF Filled
<1>12. ASSUME t.kind # "Regular"
       PROVE  t.delta = delta.commit /\ t.proof = ProofOf(Secrets[sender], delta, fee)
  <2>1. Has(calls, "sender")
    BY <1>4, <1>5, <1>12, Zenon
  <2>2. t.delta = delta.commit
    BY <1>3, <1>7, <2>1, Zenon DEF Filled
  <2>3. t.proof = ProofOf(Secrets[sender], delta, fee)
    BY <1>2, <1>3, <1>5, <2>1, Zenon DEF Proved
  <2> QED
    BY <2>2, <2>3, Zenon
<1> QED
  BY <1>2, <1>8, <1>9, <1>10, <1>11, <1>12, Zenon

(* A draft made in order by a sender who can pay is valid, for every set of
   accounts, balances and amounts. *)
THEOREM OrderedDraftsAreValid == ChainSpec => []MadeInOrderIsValid
<1>1. WalletInv => MadeInOrderIsValid
  <2> SUFFICES ASSUME WalletInv,
                      NEW sender \in Senders, NEW delta \in Deltas, NEW fee \in Fees,
                      InOrder(sender, delta, fee), delta.val + fee <= Secrets[sender].val,
                      NEW t, t = Unmarshal(New(draft.kind), buffer)
               PROVE  IsValid(t)
    BY Zenon DEF MadeInOrderIsValid
  <2>1. /\ calls # <<>> /\ t.fee = fee
        /\ t.senderSig = [signer |-> NameOf(t.kind, sender), context |-> ComputeHash(t)]
        /\ t.receiverSig = [signer |-> NameOf(t.kind, Receiver), context |-> ComputeHash(t)]
        /\ t.sender = NameOf(t.kind, sender) /\ t.receiver = NameOf(t.kind, Receiver)
        /\ t.kind # "Regular" => /\ t.delta = delta.commit
                                 /\ t.proof = ProofOf(Secrets[sender], delta, fee)
        /\ t.kind = "Regular" => t.delta.x = delta.val
    BY InOrderIs
  <2>2. /\ sender \in Accounts /\ Receiver \in Accounts /\ Secrets[sender] \in Hidden
        /\ delta \in Hidden /\ fee \in U64 /\ sender # None
    BY ChainConstants, Zenon
  <2>3. t.kind \in TrxKinds
    BY ReadAgain, Zenon
  <2>4. CASE t.kind = "Ephemeral"
    <3>1. t.sender = Secrets[sender].commit /\ t.receiver = Secrets[Receiver].commit
      BY <2>1, <2>4, Zenon DEF NameOf
    <3>2. t.sender \in DOMAIN db /\ t.receiver \in DOMAIN db
      BY <2>1, <2>2, <3>1, Zenon DEF WalletInv, InitialDb
    <3>3. t.proof = Finals(t, t.sender, t.receiver).sender
      <4>1. Finals(t, Secrets[sender].commit, t.receiver).sender = ProofOf(Secrets[sender], delta, fee)
        <5>1. t.delta = delta.commit /\ t.fee = fee
          BY <2>1, <2>4, Zenon
        <5> QED
          BY <2>2, <5>1, PaidProof
      <4> QED
        BY <2>1, <2>4, <3>1, <4>1, Zenon
    <3>5. VerifySchnorrs(t)
      <4>1. t.senderSig # None /\ t.receiverSig # None
        <5>1. /\ NameOf(t.kind, sender) \in Parties /\ NameOf(t.kind, Receiver) \in Parties
              /\ ComputeHash(t) \in Hashes
          BY <2>2, <2>3, ChainConstants, ReadAgain, Zenon
        <5>2. t.senderSig \in Signatures /\ t.receiverSig \in Signatures
          BY <2>1, <5>1 DEF Signatures
        <5> QED
          BY <5>2, ChainConstants, Zenon
      <4> QED
        BY <2>1, <4>1, Zenon DEF VerifySchnorrs, SchnorrVerify
    <3> QED
      BY <2>4, <3>2, <3>3, <3>5, Zenon DEF IsValid, Admits, EphemeralIsValid
  <2>5. CASE t.kind # "Ephemeral"
    <3>1. t.sender = sender /\ t.sender # None
      BY <2>1, <2>2, <2>5, Zenon DEF NameOf
    <3>2. VerifySigs(t)
      BY <2>1, Zenon DEF VerifySigs
    <3>3. CASE t.kind = "Hidden"
      <4>1. t.proof = Finals(t, Secrets[t.sender].commit, Secrets[Receiver].commit).sender
        <5>1. t.delta = delta.commit /\ t.fee = fee /\ t.proof = ProofOf(Secrets[sender], delta, fee)
          BY <2>1, <3>3, Zenon
        <5>2. Finals(t, Secrets[sender].commit, Secrets[Receiver].commit).sender =
                ProofOf(Secrets[sender], delta, fee)
          BY <2>2, <5>1, PaidProof
        <5> QED
          BY <3>1, <5>1, <5>2, Zenon
      <4> QED
        BY <3>1, <3>2, <3>3, <4>1, Zenon DEF IsValid, HiddenIsValid
    <3>4. CASE t.kind = "Regular"
      <4>1. Secrets[sender].val \in U64 /\ delta.val \in U64
        BY <2>2, HiddenIs, Zenon
      <4>2. (delta.val + fee) % U <= Secrets[sender].val
        <5> DEFINE s == Secrets[sender].val
                   d == delta.val
        <5>1. s \in U64 /\ d \in U64 /\ fee \in U64 /\ d + fee <= s
          BY <2>2, <4>1, Zenon
        <5> HIDE DEF s, d
        <5>2. (d + fee) % U <= s
          BY <5>1, TrxNats DEF U64
        <5> QED
          BY <5>2, Zenon DEF s, d
      <4> QED
        BY <2>1, <3>1, <3>2, <3>4, <4>2, Zenon DEF IsValid, RegularIsValid
    <3> QED
      BY <2>3, <2>5, <3>3, <3>4, Zenon DEF TrxKinds
  <2> QED
    BY <2>4, <2>5, Zenon
<1> QED
  BY <1>1, WalletInvariance, PTL
=============================================================================
