-------------------------------- MODULE Trx ---------------------------------
(***************************************************************************)
(* Transactions as values (src/blockchain/trxs/, src/blockchain/           *)
(* schnorr.rs): how a party fills in and signs one, how it is written to   *)
(* and read from a buffer, and when it is valid.                           *)
(*                                                                         *)
(* A Pedersen commitment is its opening, value and blinding, in the field  *)
(* of the group; the group, the hash and the proofs are taken to be ideal. *)
(* A hash is what it is computed from, a range proof is the commitment it  *)
(* was made for, and a signature is its signer and what was signed. The    *)
(* tag, the same everywhere in a node, is left out. Amounts are u64 and    *)
(* wrap at U (a debug build panics instead); field elements wrap at Order. *)
(***************************************************************************)
EXTENDS Integers

CONSTANTS
  U,       \* 2^64
  Order,   \* order of the group
  None     \* Option::None, an address or a signature of zeros

ASSUME TrxAssumption == U \in Nat \ {0} /\ Order \in Nat /\ Order > 4 * U

Commit(x, r) == [x |-> x % Order, r |-> r % Order]
Plus(c, d) == Commit(c.x + d.x, c.r + d.r)
Less(c, d) == Commit(c.x - d.x, c.r - d.r)

Identity == Commit(0, 0)

(* hidden_value_commit, its random blinding given *)
HiddenValueCommit(val, r) == [commit |-> Commit(val, r), val |-> val, x |-> val, r |-> r]

VisibleValueCommit(val) == HiddenValueCommit(val, 0)

(* EphemeralTrx names its parties by the commitments to their balances, the
   others by their addresses. RegularTrx has an open amount, which is written
   as a commitment without blinding. *)
New(kind) ==
  [kind |-> kind, hash |-> None, proof |-> None,
   sender |-> IF kind = "Ephemeral" THEN Identity ELSE None,
   delta |-> Identity, fee |-> 0,
   receiver |-> IF kind = "Ephemeral" THEN Identity ELSE None,
   senderSig |-> None, receiverSig |-> None]

(* Mistake: the receiver is not part of what is signed. *)
HashOfSender(t) == <<t.sender, t.delta, t.fee>>

(* compute_hash *)
ComputeHash(t) == <<t.sender, t.delta, t.fee, t.receiver>>

(* set_fee_and_delta of RegularTrx, and set_addr *)
SetFeeAndDelta(t, fee, delta) == [t EXCEPT !.fee = fee, !.delta.x = delta]
SetAddr(t, sender, receiver) == [t EXCEPT !.sender = sender, !.receiver = receiver]

(* state_transition: the transaction, and the secrets it returns, which take
   everything but the commitment from init and delta. *)
StateTransition(t, isSender, init, delta, fee) ==
  LET x == IF isSender THEN init.x - delta.x - fee.x ELSE init.x + delta.x
      r == IF isSender THEN init.r - delta.r - fee.r ELSE init.r + delta.r
      val == (IF isSender THEN init.val - delta.val - fee.val ELSE init.val + delta.val) % U
      party == IF isSender THEN "sender" ELSE "receiver"
      named == [t EXCEPT !.delta = delta.commit, !.fee = fee.val,
                         ![party] = IF t.kind = "Ephemeral" THEN init.commit ELSE @]
  IN  [trx |-> IF isSender THEN [named EXCEPT !.proof = Commit(val, r)] ELSE named,
       secrets |-> [commit |-> fee.commit, val |-> val, x |-> x % Order, r |-> r % Order]]

-----------------------------------------------------------------------------
(* Buffers hold the fields of a transaction. *)
NewBuffer(kind) == New(kind)

(* marshal takes the range proof out of the transaction; without one, the
   proof in the buffer stays, and so do the signatures. *)
Marshal(t, buffer) ==
  [t EXCEPT !.proof = IF t.proof = None THEN buffer.proof ELSE t.proof,
            !.senderSig = buffer.senderSig,
            !.receiverSig = buffer.receiverSig,
            !.hash = None]

(* Mistake: the transaction is signed as it was hashed before. *)
SignStale(t, buffer, party, signer) ==
  LET sig == [signer |-> signer, context |-> t.hash]
      slot == IF party = "sender" THEN "senderSig" ELSE "receiverSig"
  IN  [trx |-> [t EXCEPT !.proof = None, !.hash = ComputeHash(t), ![slot] = sig],
       buffer |-> [Marshal(t, buffer) EXCEPT ![slot] = sig]]

(* schnorr_sender, schnorr_receiver, sender_sign and receiver_sign *)
Sign(t, buffer, party, signer) ==
  LET hash == ComputeHash(t)
      sig == [signer |-> signer, context |-> hash]
      slot == IF party = "sender" THEN "senderSig" ELSE "receiverSig"
  IN  [trx |-> [t EXCEPT !.proof = None, !.hash = hash, ![slot] = sig],
       buffer |-> [Marshal(t, buffer) EXCEPT ![slot] = sig]]

(* unmarshal leaves nothing of what the transaction was before. *)
Unmarshal(t, buffer) == [buffer EXCEPT !.kind = t.kind, !.hash = ComputeHash(buffer)]

-----------------------------------------------------------------------------
(* SchnorrProof::verify. A proof of zeros verifies for the identity. *)
SchnorrVerify(sig, commit, context) ==
  IF sig = None THEN commit = Identity ELSE sig = [signer |-> commit, context |-> context]

(* verify_schnorrs; verify_sigs, whose verify_strict refuses the key of zeros *)
VerifySchnorrs(t) ==
  /\ SchnorrVerify(t.senderSig, t.sender, ComputeHash(t))
  /\ SchnorrVerify(t.receiverSig, t.receiver, ComputeHash(t))

VerifySigs(t) ==
  /\ t.senderSig = [signer |-> t.sender, context |-> ComputeHash(t)]
  /\ t.receiverSig = [signer |-> t.receiver, context |-> ComputeHash(t)]

(* Mistake: the fee is not taken from the sender. *)
FinalsFree(t, sInit, rInit) == [sender |-> Less(sInit, t.delta), receiver |-> Plus(rInit, t.delta)]

(* The balances after a transaction, in is_valid and in execute. *)
Finals(t, sInit, rInit) ==
  [sender |-> Less(Less(sInit, t.delta), VisibleValueCommit(t.fee).commit),
   receiver |-> Plus(rInit, t.delta)]

(* is_valid of EphemeralTrx, HiddenTrx and RegularTrx; what they return are
   Finals and RegularFinals. *)
EphemeralIsValid(t) ==
  VerifySchnorrs(t) /\ t.proof = Finals(t, t.sender, t.receiver).sender

HiddenIsValid(t, sInit, rInit) ==
  VerifySigs(t) /\ t.proof = Finals(t, sInit, rInit).sender

RegularIsValid(t, balance) ==
  VerifySigs(t) /\ (t.delta.x + t.fee) % U <= balance

RegularFinals(t, sBalance, rBalance) ==
  [sender |-> sBalance - ((t.delta.x + t.fee) % U),
   receiver |-> (rBalance + t.delta.x) % U]
=============================================================================
