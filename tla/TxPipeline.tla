----------------------------- MODULE TxPipeline -----------------------------
(***************************************************************************)
(* How a transaction changes the accounts and the balances: run_tx of      *)
(* gears/src/baseapp/baseapp.rs, the ante handlers of ante.rs, and the     *)
(* keepers of x/auth and x/bank they and the messages call.                *)
(*                                                                         *)
(* run_tx holds the write lock of the multi store throughout, but what it  *)
(* does can fail at every step: accounts, nextNumber and balances are what *)
(* the keepers read through the tx caches, and kept is what clearing them  *)
(* goes back to.  A transaction rejected before its first write is no step *)
(* at all.                                                                 *)
(*                                                                         *)
(* Signers are a set and a signature belongs to its signer: get_signers    *)
(* drops repetitions, and each of its positions is checked by itself.  A   *)
(* balance that was never set and a balance of zero both end a transfer    *)
(* with "Insufficient funds", and are one here.                            *)
(*                                                                         *)
(* TxWithRaw::from_bytes decodes the bytes of a transaction twice          *)
(* (tx.rs:45).  Tx, which is executed, merges the occurrences of a field;  *)
(* TxRaw, whose bytes are what signatures are over, keeps the last body    *)
(* and the last auth_info.  The two agree where each occurs once, which    *)
(* nothing checks (the TODO at tx.rs:74).                                  *)
(***************************************************************************)
EXTENDS Integers, Sequences, FiniteSets, Functions

CONSTANTS
  Address,
  FeeCollector,     \* Module::FeeCollector.get_address()
  Denom,
  None,
  Tx,               \* the transactions clients may have signed
  GenesisAccounts,  \* genesis.auth.accounts, their addresses in order
  GenesisBalances,  \* genesis.bank.balances
  MaxMemo,          \* the auth module's parameter max_memo_characters
  MaxTxs,           \* bounds the transactions whose ante handlers succeed
  MaxBlock          \* bounds the blocks

IsCoins(c) ==
  /\ DOMAIN c \subseteq Denom
  /\ c = [d \in DOMAIN c |-> c[d]]
  /\ \A d \in DOMAIN c : c[d] \in Nat /\ c[d] > 0

\* Every message is a MsgSend.  A fee without coins is a fee of None.
IsMsg(m) ==
  m.from \in Address /\ m.to \in Address /\ IsCoins(m.coins) /\ m.coins # <<>>

\* What comes with a signer: the sequence and, or not, the public key that
\* auth_info has of it, and the signature: the account number and the contents
\* it is over, and whether it is compact (64 bytes, of numbers in range).
IsSignature(s) ==
  /\ s.sequence \in Nat /\ s.number \in Nat
  /\ s.withKey \in BOOLEAN /\ s.compact \in BOOLEAN
  /\ {"over"} \subseteq DOMAIN s

\* The contents of a transaction as Tx decodes it: what is executed.
Contents(t) ==
  [msgs |-> t.msgs, payer |-> t.payer, fee |-> t.fee,
   timeout |-> t.timeout, memo |-> t.memo,
   sequences |-> [a \in DOMAIN t.sigs |-> t.sigs[a].sequence]]

\* t.raw: the contents of the last body_bytes and auth_info_bytes alone.
DecodingsAgree(t) == t.raw = Contents(t)

\* validate_basic_tx_msgs, and the type of a decoded transaction.  The fee
\* collector's address is no hash of a public key: nobody signs for it.
IsTx(t) ==
  /\ Len(t.msgs) \in Nat /\ Len(t.msgs) > 0
  /\ DOMAIN t.msgs = 1..Len(t.msgs)
  /\ \A i \in DOMAIN t.msgs : IsMsg(t.msgs[i])
  /\ t.payer \in Address \cup {None}
  /\ IsCoins(t.fee)
  /\ DOMAIN t.sigs \subseteq Address \ {FeeCollector}
  /\ \A a \in DOMAIN t.sigs : IsSignature(t.sigs[a])
  /\ t.timeout \in Nat /\ t.memo \in Nat

Account == [number: Nat, sequence: Nat, hasKey: BOOLEAN]

ASSUME TxAssumption == \A t \in Tx : IsTx(t)

\* An address has 255 bytes at most (proto-types/src/address.rs), so there are
\* finitely many.
ASSUME AddressAssumption == FeeCollector \in Address /\ IsFiniteSet(Address)

ASSUME NoneAssumption == None \notin Address /\ None \notin Account

ASSUME BoundAssumption == MaxTxs \in Nat /\ MaxBlock \in Nat

\* init_genesis sanitizes nothing: that no address comes twice, in either
\* list, and that what is held has an account, is assumed of the file.
ASSUME GenesisAssumption ==
  /\ GenesisAccounts \in Seq(Address)
  /\ \A i, j \in DOMAIN GenesisAccounts :
       GenesisAccounts[i] = GenesisAccounts[j] => i = j
  /\ GenesisBalances \in [Address -> [Denom -> Nat]]
  /\ \A a \in Address, d \in Denom : GenesisBalances[a][d] > 0 =>
       a = FeeCollector \/ \E i \in DOMAIN GenesisAccounts : GenesisAccounts[i] = a

VARIABLES
  accounts,    \* the accounts by address, None if there is none
  nextNumber,  \* GLOBAL_ACCOUNT_NUMBER_KEY
  balances,    \* the amounts by address and denomination
  kept,        \* what the block caches have of the three
  height,      \* BaseApp.height: the last block committed
  phase,       \* what run_tx does next
  tx,          \* the transaction it does it for
  msg,         \* the message run_msgs is at
  owed,        \* the coins send_coins has yet to move
  executed     \* every transaction whose ante handlers succeeded, its block

working == <<accounts, nextNumber, balances>>

vars == <<working, kept, height, phase, tx, msg, owed, executed>>

Phase == {"idle", "fee", "keys", "verify", "sequence", "messages", "poisoned"}

TypeOK ==
  /\ accounts \in [Address -> Account \cup {None}]
  /\ nextNumber \in Nat
  /\ balances \in [Address -> [Denom -> Nat]]
  /\ kept \in [accounts: [Address -> Account \cup {None}], nextNumber: Nat,
               balances: [Address -> [Denom -> Nat]]]
  /\ height \in Nat
  /\ phase \in Phase
  /\ tx \in Tx \cup {None}
  /\ msg \in Nat
  /\ IsCoins(owed)
  /\ executed \in Seq([tx: Tx, block: Nat])
  /\ phase \notin {"idle", "poisoned"} => tx \in Tx
  /\ phase = "messages" => msg \in DOMAIN tx.msgs

-----------------------------------------------------------------------------
(* Transactions (proto-messages/src/cosmos/tx/v1beta1/tx.rs).              *)

Signers(t) ==
  {t.msgs[i].from : i \in DOMAIN t.msgs} \cup ({t.payer} \ {None})

FeePayer(t) == IF t.payer # None THEN t.payer ELSE t.msgs[1].from

-----------------------------------------------------------------------------
(* The keepers.                                                            *)

NewAccount(number) == [number |-> number, sequence |-> 0, hasKey |-> FALSE]

\* A mutant: a number is handed out without being taken.
CreateWithSameNumber(a) ==
  IF accounts[a] # None
  THEN UNCHANGED <<accounts, nextNumber>>
  ELSE /\ accounts' = [accounts EXCEPT ![a] = NewAccount(nextNumber)]
       /\ UNCHANGED nextNumber

\* A mutant: no account is created.
CreateNever(a) == a \in Address /\ UNCHANGED <<accounts, nextNumber>>

\* has_account, then create_new_base_account or its like for modules.
CreateIfMissing(a) ==
  IF accounts[a] # None
  THEN UNCHANGED <<accounts, nextNumber>>
  ELSE /\ accounts' = [accounts EXCEPT ![a] = NewAccount(nextNumber)]
       /\ nextNumber' = nextNumber + 1

\* A mutant: both balances are read before either is written.
MoveOfReadBalances(from, to, d, amount) ==
  LET credit == balances[to][d] + amount
      debited == [balances EXCEPT ![from][d] = @ - amount]
  IN [debited EXCEPT ![to][d] = credit]

\* One coin of send_coins: the recipient's balance is read after the sender's
\* is written, as they may be one.
Move(from, to, d, amount) ==
  LET debited == [balances EXCEPT ![from][d] = @ - amount]
  IN [debited EXCEPT ![to][d] = @ + amount]

-----------------------------------------------------------------------------
(* The caches.                                                             *)

\* A mutant: an error leaves the tx caches as they are.
KeepTxCaches == UNCHANGED working

ClearTxCaches ==
  /\ accounts' = kept.accounts
  /\ nextNumber' = kept.nextNumber
  /\ balances' = kept.balances

\* A mutant: the tx caches are not written.
WriteNothing == UNCHANGED kept

WriteThenClearTxCaches ==
  kept' = [accounts |-> accounts', nextNumber |-> nextNumber',
           balances |-> balances']

Return ==
  /\ phase' = "idle"
  /\ tx' = None
  /\ msg' = 0
  /\ owed' = <<>>

Reject == ClearTxCaches /\ Return /\ UNCHANGED <<kept, height, executed>>

-----------------------------------------------------------------------------

\* init_chain, whose numbers come from get_next_account_number.
GenesisNumber(a) ==
  (CHOOSE i \in DOMAIN GenesisAccounts : GenesisAccounts[i] = a) - 1

Init ==
  LET listed == {GenesisAccounts[i] : i \in DOMAIN GenesisAccounts}
      last == Len(GenesisAccounts)
  IN /\ accounts = [a \in Address |->
           IF a \in listed THEN NewAccount(GenesisNumber(a))
           ELSE IF a = FeeCollector THEN NewAccount(last) ELSE None]
     /\ nextNumber = IF FeeCollector \in listed THEN last ELSE last + 1
     /\ balances = GenesisBalances
     /\ kept = [accounts |-> accounts, nextNumber |-> nextNumber,
                balances |-> balances]
     /\ height = 0
     /\ phase = "idle"
     /\ tx = None
     /\ msg = 0
     /\ owed = <<>>
     /\ executed = <<>>

\* A mutant: the timeout height is not looked at.
NeverExpires(t) == t \in Tx

\* tx_timeout_height_ante_handler: the height is that of the last commit.
NotExpired(t) == t.timeout = 0 \/ height <= t.timeout

\* validate_memo_ante_handler; a memo is its length.
MemoFits(t) == t.memo <= MaxMemo

\* The ante handlers that write nothing, up to the first write of
\* deduct_fee_ante_handler.
DeliverTx(t) ==
  /\ phase = "idle"
  /\ Len(executed) < MaxTxs
  /\ Cardinality(DOMAIN t.sigs) = Cardinality(Signers(t))
  /\ NotExpired(t) /\ MemoFits(t)
  /\ accounts[FeePayer(t)] # None
  /\ tx' = t
  /\ IF t.fee # <<>>
     THEN CreateIfMissing(FeeCollector) /\ phase' = "fee"
     ELSE UNCHANGED <<accounts, nextNumber>> /\ phase' = "keys"
  /\ owed' = t.fee
  /\ UNCHANGED <<balances, kept, height, msg, executed>>

\* A mutant: the last coin is counted twice.
LacksAllButOne(a, d) == balances[a][d] < owed[d] - 1

LacksFunds(a, d) == balances[a][d] < owed[d]

\* One coin of send_coins, of the fee or of a message.
SendCoin(from, to, d) ==
  /\ d \in DOMAIN owed
  /\ IF LacksFunds(from, d)
     THEN Reject
     ELSE /\ balances' = Move(from, to, d, owed[d])
          /\ owed' = [e \in DOMAIN owed \ {d} |-> owed[e]]
          /\ UNCHANGED <<accounts, nextNumber, kept, height, phase, tx, msg,
                         executed>>

DeductFee ==
  /\ phase = "fee"
  /\ \/ \E d \in Denom : SendCoin(FeePayer(tx), FeeCollector, d)
     \/ /\ owed = <<>>
        /\ phase' = "keys"
        /\ UNCHANGED <<working, kept, height, tx, msg, owed, executed>>

\* A mutant: the keys are set after the signatures are verified.
SetPubKeysLater ==
  /\ phase = "keys"
  /\ phase' = "verify"
  /\ UNCHANGED <<working, kept, height, tx, msg, owed, executed>>

SetPubKeys ==
  /\ phase = "keys"
  /\ LET given == {a \in DOMAIN tx.sigs : tx.sigs[a].withKey} IN
     IF \E a \in given : a \notin Signers(tx) \/ accounts[a] = None
     THEN Reject
     ELSE /\ accounts' = [a \in Address |->
               IF a \in given THEN [accounts[a] EXCEPT !.hasKey = TRUE]
               ELSE accounts[a]]
          /\ phase' = "verify"
          /\ UNCHANGED <<nextNumber, balances, kept, height, tx, msg, owed,
                         executed>>

\* A mutant: the sequence is not compared.
VerifiesAnySequence(a) ==
  /\ a \in DOMAIN tx.sigs
  /\ accounts[a] # None /\ accounts[a].hasKey
  /\ accounts[a].number = tx.sigs[a].number
  /\ tx.sigs[a].compact /\ tx.sigs[a].over = tx.raw

HasSequence(a) ==
  /\ a \in DOMAIN tx.sigs
  /\ accounts[a] # None
  /\ accounts[a].sequence = tx.sigs[a].sequence

\* A mutant: the document is not made of the bytes received.
VerifiesAnyContents(a) ==
  /\ HasSequence(a)
  /\ accounts[a].hasKey
  /\ accounts[a].number = tx.sigs[a].number
  /\ tx.sigs[a].compact

\* The expect of the public key and the unwrap of from_compact, with the lock
\* held.  (The unwrap of the key's bytes cannot fail: a PubKey is a point.)
Panics(a) ==
  HasSequence(a) /\ (~accounts[a].hasKey \/ ~tx.sigs[a].compact)

\* The SignDoc is of TxRaw's bytes and of the account's number.
Verifies(a) ==
  /\ HasSequence(a)
  /\ accounts[a].hasKey
  /\ accounts[a].number = tx.sigs[a].number
  /\ tx.sigs[a].compact
  /\ tx.sigs[a].over = tx.raw

\* sig_verification_handler, which stops at the first signer that fails.
VerifySignatures ==
  /\ phase = "verify"
  /\ \/ /\ \A a \in Signers(tx) : Verifies(a)
        /\ phase' = "sequence"
        /\ UNCHANGED <<working, kept, height, tx, msg, owed, executed>>
     \/ /\ \E a \in Signers(tx) : ~Verifies(a) /\ ~Panics(a)
        /\ Reject
     \/ /\ \E a \in Signers(tx) : Panics(a)
        /\ phase' = "poisoned"
        /\ UNCHANGED <<working, kept, height, tx, msg, owed, executed>>

\* increment_sequence_ante_handler, and run_tx up to the first message.
IncrementSequences ==
  /\ phase = "sequence"
  /\ accounts' = [a \in Address |->
       IF a \in Signers(tx) THEN [accounts[a] EXCEPT !.sequence = @ + 1]
       ELSE accounts[a]]
  /\ UNCHANGED <<nextNumber, balances, height, tx>>
  /\ WriteThenClearTxCaches
  /\ executed' = Append(executed, [tx |-> tx, block |-> height + 1])
  /\ phase' = "messages"
  /\ msg' = 1
  /\ owed' = tx.msgs[1].coins

\* send_coins_from_account_to_account, message after message.
RunMsgs ==
  /\ phase = "messages"
  /\ LET m == tx.msgs[msg] IN
     \/ \E d \in Denom : SendCoin(m.from, m.to, d)
     \/ /\ owed = <<>>
        /\ CreateIfMissing(m.to)
        /\ UNCHANGED <<balances, height, executed>>
        /\ IF msg < Len(tx.msgs)
           THEN /\ msg' = msg + 1
                /\ owed' = tx.msgs[msg + 1].coins
                /\ UNCHANGED <<kept, phase, tx>>
           ELSE /\ WriteThenClearTxCaches
                /\ Return

\* BaseApp::commit and the next block: the height follows the block committed.
Commit ==
  /\ phase = "idle"
  /\ height < MaxBlock
  /\ height' = height + 1
  /\ UNCHANGED <<working, kept, phase, tx, msg, owed, executed>>

Next ==
  \/ \E t \in Tx : DeliverTx(t)
  \/ DeductFee
  \/ SetPubKeys
  \/ VerifySignatures
  \/ IncrementSequences
  \/ RunMsgs
  \/ Commit

Spec == Init /\ [][Next]_vars

-----------------------------------------------------------------------------
(* Properties.                                                             *)

Total(b, d) == SumFunction([a \in Address |-> b[a][d]])

\* No coin is made or lost, by failed transfers, by transfers to oneself or in
\* between: the balances add up to the supply init_genesis recorded
\* (bank/src/keeper.rs, send_coins and set_supply).
SupplyIsConserved ==
  \A d \in Denom :
    /\ Total(balances, d) = Total(GenesisBalances, d)
    /\ Total(kept.balances, d) = Total(GenesisBalances, d)

\* No transaction is executed twice: whatever failed in between, a signer's
\* sequence is used once (ante.rs, sig_verification_handler and
\* increment_sequence_ante_handler; keeper.rs, create_new_base_account
\* "overwrites existing account").  The sequence is the decoded one, which is
\* the one that was signed where the two decodings agree.
NoReplay ==
  \A i, j \in DOMAIN executed :
    i # j => \A a \in Signers(executed[i].tx) \cap Signers(executed[j].tx) :
      executed[i].tx.sigs[a].sequence # executed[j].tx.sigs[a].sequence

\* No two accounts have one number (auth/src/keeper.rs,
\* get_next_account_number).
NumbersAreUnique ==
  \A a, b \in Address :
    /\ kept.accounts[a] # None
    /\ kept.accounts[b] # None
    /\ kept.accounts[a].number = kept.accounts[b].number
    => a = b

\* Who holds a coin has an account, which can send it
\* (bank/src/keeper.rs, send_coins_from_account_to_account).
HoldersHaveAccounts ==
  \A a \in Address, d \in Denom :
    kept.balances[a][d] > 0 => kept.accounts[a] # None

\* An address loses coins only by a transaction whose ante handlers succeeded,
\* as its payer or as the sender of a message, and with its signature, spent
\* by it: over the very contents executed, where the two decodings agree.
\* Where they do not, over the last body and auth_info only, and messages may
\* be executed that are in no signed document (ante.rs, run and
\* sig_verification_handler; baseapp.rs, run_tx; tx.rs, TxWithRaw::from_bytes).
OnlySignersPay ==
  [][\A a \in Address, d \in Denom :
       kept'.balances[a][d] < kept.balances[a][d] =>
         /\ executed' # <<>>
         /\ LET t == executed'[Len(executed')].tx IN
            /\ a \in Signers(t)
            /\ a \in DOMAIN t.sigs
            /\ kept.accounts[a] # None
            /\ kept'.accounts[a].sequence = t.sigs[a].sequence + 1
            /\ t.sigs[a].over = t.raw
            /\ DecodingsAgree(t) => t.sigs[a].over = Contents(t)]_vars

AmountOf(coins, d) == IF d \in DOMAIN coins THEN coins[d] ELSE 0

MsgAmounts(t, d) == [i \in DOMAIN t.msgs |-> AmountOf(t.msgs[i].coins, d)]

Received(t, a, d) ==
  SumFunctionOnSet(MsgAmounts(t, d), {i \in DOMAIN t.msgs : t.msgs[i].to = a})

Sent(t, a, d) ==
  SumFunctionOnSet(MsgAmounts(t, d), {i \in DOMAIN t.msgs : t.msgs[i].from = a})

\* A transaction changes the chain's balances twice at most: by its fee, and
\* by all of its messages together.  A failing message leaves the fee and
\* nothing of what was done before it, then or later (baseapp.rs, run_tx).
TransactionsAreAtomic ==
  [][UNCHANGED kept \/
     \A a \in Address, d \in Denom :
       kept'.balances[a][d] - kept.balances[a][d] =
         CASE phase = "sequence" ->
                (IF a = FeeCollector THEN AmountOf(tx.fee, d) ELSE 0)
                - (IF a = FeePayer(tx) THEN AmountOf(tx.fee, d) ELSE 0)
           [] phase = "messages" -> Received(tx, a, d) - Sent(tx, a, d)
           [] OTHER -> 0]_vars

\* Every transaction whose ante handlers succeeded has paid its fee, whether or
\* not its messages failed; nothing leaves the fee collector
\* (ante.rs, deduct_fee_ante_handler).
FeesAreCollected ==
  \A d \in Denom :
    kept.balances[FeeCollector][d] >=
      GenesisBalances[FeeCollector][d]
      + SumFunction([i \in DOMAIN executed |-> AmountOf(executed[i].tx.fee, d)])

\* The verification of signatures panics only for a signer with the sequence
\* the chain has of it, and whose signature is not compact or who has no public
\* key and gives none: set_pub_key_ante_handler comes first (ante.rs, the
\* expect and the unwraps of sig_verification_handler).
OnlyBadSignaturesPanic ==
  phase = "poisoned" =>
    \E a \in Signers(tx) :
      /\ kept.accounts[a] # None
      /\ kept.accounts[a].sequence = tx.sigs[a].sequence
      /\ \/ ~tx.sigs[a].compact
         \/ ~kept.accounts[a].hasKey /\ ~tx.sigs[a].withKey

\* A transaction is executed in its timeout's block or the one after it at the
\* latest (ante.rs, tx_timeout_height_ante_handler), not, as TxBody says
\* (tx.rs:263), never after the block of that height.
TimeoutIsAtMostOneBlockLate ==
  \A i \in DOMAIN executed :
    executed[i].tx.timeout # 0 => executed[i].block <= executed[i].tx.timeout + 1

=============================================================================
