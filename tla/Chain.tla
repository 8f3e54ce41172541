------------------------------- MODULE Chain --------------------------------
(***************************************************************************)
(* Transactions from a wallet to the ledger: two parties fill in and sign  *)
(* a draft in any order of calls (Trx), the blockchain actor checks what   *)
(* it receives and pools it (from_net in src/blockchain/mod.rs, with       *)
(* PriorityPool), and a block executes pooled transactions                 *)
(* (src/blockchain/execution.rs, Trx::execute).                            *)
(*                                                                         *)
(* The ledger is used as a plain map here (db_put, db_exists). A key of    *)
(* the pool is the number of a transaction in Trxs. Wallet and node share  *)
(* only what is gossiped, so a draft is finished before the node acts, and *)
(* made while the node is as it started: interleaving them adds nothing.   *)
(***************************************************************************)
EXTENDS PriorityPool, Trx, Sequences, Functions

CONSTANTS
  Accounts,   \* addresses
  Secrets,    \* the balance of each account, as HiddenValueCommit gives it
  Senders,    \* the accounts that pay
  Receiver,   \* the account that is paid
  Deltas,     \* the amounts, as HiddenValueCommit gives them
  Fees,       \* the fees
  Orders,     \* Keys -> [sender, delta, fee]: the transactions others gossip
  Validator,  \* the proposer of blocks
  BlockLen,   \* keys in a block
  Kinds,      \* kinds of transactions that are drafted
  MaxCalls    \* bound: calls on a draft

(* The points of the group, those that commit to amounts, and what
   hidden_value_commit makes: the scalar it draws is taken not to be zero. *)
Points == [x : 0 .. Order - 1, r : 0 .. Order - 1]
Commitments == [x : 0 .. U - 1, r : 0 .. Order - 1]
Hidden == {HiddenValueCommit(val, r) : val \in 0 .. U - 1, r \in 1 .. Order - 1}

(* How parties are named, and what they sign. *)
Parties == Accounts \cup Commitments \cup {None}
Hashes == Parties \X Commitments \X (0 .. U - 1) \X Parties
Signatures == [signer : Parties, context : Hashes]

ASSUME ChainAssumption ==
  /\ Senders \subseteq Accounts /\ Receiver \in Accounts
  /\ Secrets \in [Accounts -> Hidden] /\ Deltas \subseteq Hidden /\ Fees \subseteq 0 .. U - 1
  /\ None \notin Accounts /\ None \notin Points /\ None \notin Signatures
  /\ Kinds \subseteq {"Ephemeral", "Hidden", "Regular"}
  /\ MaxCalls \in Nat /\ BlockLen \in Nat

VARIABLES
  draft,    \* the transaction being made
  buffer,   \* the buffer it is marshalled to
  calls,    \* the calls made on it
  db        \* values in the ledger's database

walletVars == <<draft, buffer, calls>>
chainVars == <<vars, walletVars, db>>

-----------------------------------------------------------------------------
(* The wallet. *)

NoDraft == New("Ephemeral")

InitialDb == [c \in {Secrets[a].commit : a \in Accounts} |-> c]

NodeAtStart == map = {} /\ HeapKeys = {} /\ pc = "idle" /\ out = NoKey /\ db = InitialDb

Call(op, kind, t) ==
  /\ NodeAtStart
  /\ Len(calls) < MaxCalls
  /\ calls = <<>> \/ draft.kind = kind
  /\ calls' = Append(calls, op)
  /\ draft' = t
  /\ UNCHANGED <<vars, db>>

DraftOf(kind) == IF calls = <<>> THEN New(kind) ELSE draft
BufferOf(kind) == IF calls = <<>> THEN NewBuffer(kind) ELSE buffer

(* A party fills in its side with the amounts agreed on. *)
Transition(kind, isSender, account, delta, fee) ==
  /\ kind # "Regular"
  /\ Call([op |-> IF isSender THEN "sender" ELSE "receiver", account |-> account,
           delta |-> delta, fee |-> fee],
          kind,
          StateTransition(DraftOf(kind), isSender, Secrets[account], delta,
                          VisibleValueCommit(fee)).trx)
  /\ buffer' = BufferOf(kind)

Address(kind, account) ==
  /\ kind # "Ephemeral"
  /\ Call([op |-> "address", account |-> account], kind,
          SetAddr(DraftOf(kind), account, Receiver))
  /\ buffer' = BufferOf(kind)

Amounts(kind, delta, fee) ==
  /\ kind = "Regular"
  /\ Call([op |-> "amounts", delta |-> delta, fee |-> fee], kind,
          SetFeeAndDelta(DraftOf(kind), fee, delta.val))
  /\ buffer' = BufferOf(kind)

(* How a transaction names an account *)
NameOf(kind, account) == IF kind = "Ephemeral" THEN Secrets[account].commit ELSE account

(* What a party sees of a transaction *)
Terms(t) == <<t.sender, t.delta, t.fee, t.receiver>>

SignAs(kind, party, account) ==
  LET signed == Sign(DraftOf(kind), BufferOf(kind), party, NameOf(kind, account))
  IN  /\ Call([op |-> "sign", party |-> party, account |-> account,
               terms |-> Terms(DraftOf(kind))], kind, signed.trx)
      /\ buffer' = signed.buffer

Wallet ==
  \E kind \in Kinds :
    \/ \E account \in Senders, delta \in Deltas, fee \in Fees :
         Transition(kind, TRUE, account, delta, fee)
    \/ \E delta \in Deltas, fee \in Fees :
         Transition(kind, FALSE, Receiver, delta, fee) \/ Amounts(kind, delta, fee)
    \/ \E account \in Senders : Address(kind, account) \/ SignAs(kind, "sender", account)
    \/ SignAs(kind, "receiver", Receiver)

-----------------------------------------------------------------------------
(* The node. *)

(* What the calls on a draft make when they are made in order. *)
Build(order) ==
  LET init == Secrets[order.sender]
      fee == VisibleValueCommit(order.fee)
      filled == StateTransition(
                  StateTransition(New("Ephemeral"), TRUE, init, order.delta, fee).trx,
                  FALSE, Secrets[Receiver], order.delta, fee).trx
      half == Sign(filled, NewBuffer("Ephemeral"), "sender", init.commit)
  IN  Sign(half.trx, half.buffer, "receiver", Secrets[Receiver].commit).buffer

(* The transaction that a key stands for: fill_key gives its hash. *)
TrxOf(k) == Unmarshal(New("Ephemeral"), Build(Orders[k]))

(* get_value returns a new transaction, or one that was recycled, without its
   proof. *)
Recycled == {New("Ephemeral")} \cup {[TrxOf(k) EXCEPT !.proof = None] : k \in Keys}

(* The condition under which from_net pools what it has unmarshalled *)
Admits(t) == t.sender \in DOMAIN db /\ t.receiver \in DOMAIN db /\ EphemeralIsValid(t)

FromNet(body) ==
  /\ pc = "idle"
  /\ \E old \in Recycled :
       LET t == Unmarshal(old, body)
       IN  IF Admits(t) THEN \E k \in Keys : TrxOf(k).hash = t.hash /\ Insert(k)
           ELSE UNCHANGED vars
  /\ UNCHANGED db

(* A party gossips the draft, or gives it up. The arms of from_net for other
   kinds do nothing. *)
Gossip ==
  /\ calls # <<>>
  /\ \/ draft.kind = "Ephemeral" /\ FromNet(buffer)
     \/ UNCHANGED <<vars, db>>
  /\ draft' = NoDraft /\ buffer' = NewBuffer("Ephemeral") /\ calls' = <<>>

(* Mistake: transactions leave the pool after the block. *)
ExecuteKept(state, k) ==
  LET t == TrxOf(k)
      finals == Finals(t, t.sender, t.receiver)
  IN  IF k \in map
        THEN [pool |-> state.pool \ {k}, fees |-> state.fees + t.fee,
              db |-> [state.db EXCEPT ![t.sender] = finals.sender, ![t.receiver] = finals.receiver]]
        ELSE state

(* One key of a block: Trx::execute if the pool has it, and remove_one. *)
ExecuteKey(state, k) ==
  LET t == TrxOf(k)
      finals == Finals(t, t.sender, t.receiver)
  IN  IF k \in state.pool
        THEN [pool |-> state.pool \ {k}, fees |-> state.fees + t.fee,
              db |-> [state.db EXCEPT ![t.sender] = finals.sender, ![t.receiver] = finals.receiver]]
        ELSE state

(* The keys of a block in turn *)
ExecuteKeys(block) ==
  LET after[n \in 0 .. Len(block)] ==
        IF n = 0 THEN [pool |-> map, fees |-> 0, db |-> db] ELSE ExecuteKey(after[n - 1], block[n])
  IN  after[Len(block)]

(* execute_hidden_block, for a block with a valid proof *)
ExecuteHiddenBlock(block) ==
  /\ pc = "idle"
  /\ LET end == ExecuteKeys(block)
     IN  /\ map' = map \ Range(block)
         /\ db' = [c \in DOMAIN end.db \cup {Validator} |->
                     IF c = Validator THEN Commit(end.fees, 0) ELSE end.db[c]]
  /\ UNCHANGED <<heap, pc, out>>

Node ==
  /\ calls = <<>>
  /\ \/ \E k \in Keys : FromNet(Build(Orders[k]))
     \/ \E block \in [1 .. BlockLen -> Keys] : ExecuteHiddenBlock(block)
     \/ ((\E k \in Keys : RemoveOne(k)) \/ PopCall \/ PeekCall \/ Loop) /\ UNCHANGED db
  /\ UNCHANGED walletVars

ChainInit ==
  /\ Init
  /\ draft = NoDraft /\ buffer = NewBuffer("Ephemeral") /\ calls = <<>>
  /\ db = InitialDb

ChainNext == Wallet \/ Gossip \/ Node

ChainSpec == ChainInit /\ [][ChainNext]_chainVars /\ WF_chainVars(Loop /\ UNCHANGED <<db, walletVars>>)

-----------------------------------------------------------------------------
(* Properties. *)

(* Whether the draft, once read from its buffer, passes is_valid with the
   balances of its accounts. *)
IsValid(t) ==
  \/ t.kind = "Ephemeral" /\ Admits(t)
  \/ /\ t.kind = "Hidden" /\ t.sender # None
     /\ HiddenIsValid(t, Secrets[t.sender].commit, Secrets[Receiver].commit)
  \/ t.kind = "Regular" /\ t.sender # None /\ RegularIsValid(t, Secrets[t.sender].val)

SignedBy(party) == {i \in DOMAIN calls : calls[i].op = "sign" /\ calls[i].party = party}
FilledIn(op) == {i \in DOMAIN calls : calls[i].op = op}

(* The calls in the order of the tests: all the fields, then the signatures of
   the two parties, with the same amounts on both sides. *)
InOrder(sender, delta, fee) ==
  /\ \E i \in SignedBy("sender") : calls[i].account = sender
  /\ SignedBy("receiver") # {}
  /\ \A i \in DOMAIN calls :
       IF calls[i].op = "sign" THEN calls[i].party = "sender" => calls[i].account = sender
       ELSE /\ \A j \in SignedBy("sender") \cup SignedBy("receiver") : i < j
            /\ calls[i].op \in {"sender", "address"} => calls[i].account = sender
            /\ calls[i].op # "address" => calls[i].delta = delta /\ calls[i].fee = fee
  /\ FilledIn(IF draft.kind = "Regular" THEN "amounts" ELSE "sender") # {}
  /\ FilledIn(IF draft.kind = "Ephemeral" THEN "receiver" ELSE "address") # {}

(* A draft that is made in order, by a sender who can pay, is valid when it is
   read again, whatever the transaction it is read into was before: marshal
   takes the range proof away with the first signature, and the buffer keeps
   it. *)
MadeInOrderIsValid ==
  \A sender \in Senders, delta \in Deltas, fee \in Fees :
    InOrder(sender, delta, fee) /\ delta.val + fee <= Secrets[sender].val =>
      IsValid(Unmarshal(New(draft.kind), buffer))

(* A draft that is valid moves what its sender has and no more, however its
   calls were mixed: u64 wraps, the field of the commitments wraps elsewhere,
   and the range proof ties them together. Visible amounts have no range proof
   and conserve where their u64 sums do not wrap (see RegularConserves). *)
ValidConserves ==
  LET t == Unmarshal(New(draft.kind), buffer)
  IN  calls # <<>> /\ IsValid(t) =>
        IF t.kind = "Regular"
          THEN LET a == Secrets[t.sender].val
                   b == Secrets[Receiver].val
                   finals == RegularFinals(t, a, b)
               IN  t.delta.x + t.fee < U /\ b + t.delta.x < U => finals.sender + finals.receiver + t.fee = a + b
          ELSE LET a == IF t.kind = "Hidden" THEN Secrets[t.sender].commit ELSE t.sender
                   b == IF t.kind = "Hidden" THEN Secrets[Receiver].commit ELSE t.receiver
                   finals == Finals(t, a, b)
               IN  /\ finals.sender.x + finals.receiver.x + t.fee = a.x + b.x
                   /\ finals.sender.x \in 0 .. U - 1

(* A valid draft is the one that both parties have signed: each has signed
   as the party that it names, when the draft was what is read. *)
ValidIsSigned ==
  LET t == Unmarshal(New(draft.kind), buffer)
  IN  calls # <<>> /\ IsValid(t) =>
        /\ \E i \in SignedBy("sender") :
             calls[i].terms = Terms(t) /\ t.sender = NameOf(t.kind, calls[i].account)
        /\ \E i \in SignedBy("receiver") :
             calls[i].terms = Terms(t) /\ t.receiver = NameOf(t.kind, calls[i].account)

FeesOf(ks) == SumFunctionOnSet([k \in ks |-> Orders[k].fee], ks)
SumOf(values) == FoldFunctionOnSet(LAMBDA c, n : c.x + n, 0, values, DOMAIN InitialDb)

(* A block charges every transaction once, also one that it lists twice: the
   proposer is credited with the fees of those that leave the pool. *)
ChargedOnce == [][db' # db => db'[Validator] = Commit(FeesOf(map \ map'), 0)]_chainVars

(* Blocks neither make nor lose money: what leaves the accounts are fees. *)
BlocksConserve ==
  [][db' # db => SumOf(db') + FeesOf(map \ map') = SumOf(db)]_chainVars

(* A balance that a transaction leaves can be named by the next one: it is in
   the database under itself, and the one before it is not. *)
BalancesMove ==
  [][db' # db => \A k \in map \ map' :
       LET t == TrxOf(k) IN Finals(t, t.sender, t.receiver).sender \in DOMAIN db'
                            /\ t.sender \notin DOMAIN db']_chainVars

(* A valid regular transaction conserves what the parties have, whatever the
   amounts. *)
RegularConserves ==
  LET t == Unmarshal(New(draft.kind), buffer)
  IN  calls # <<>> /\ t.kind = "Regular" /\ IsValid(t) =>
        LET a == Secrets[t.sender].val
            b == Secrets[Receiver].val
            finals == RegularFinals(t, a, b)
        IN  finals.sender + finals.receiver + t.fee = a + b
=============================================================================
