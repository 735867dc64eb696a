-------------------------- MODULE TxPipeline_proofs --------------------------
(***************************************************************************)
(* Theorems about TxPipeline, for any addresses, denominations, genesis    *)
(* and set of transactions: types, then safety. AccountInv says how the    *)
(* accounts of the open transaction relate to those it would go back to,   *)
(* HolderInv and PaymentInv the same of the balances, ReplayInv what the   *)
(* sequences say of the transactions executed.  BalanceInv says by how     *)
(* much, to the coin, the balances of the open transaction differ from     *)
(* those it would go back to: supply, atomicity and fees follow from it.   *)
(***************************************************************************)
EXTENDS TxPipeline, Folds_proofs

-----------------------------------------------------------------------------
(* Transactions and transfers.                                             *)

\* Whoever pays the fee is a signer.
LEMMA PayerSigns ==
  ASSUME NEW t \in Tx
  PROVE  /\ IsTx(t)
         /\ 1 \in DOMAIN t.msgs
         /\ FeePayer(t) \in Address
         /\ FeePayer(t) \in Signers(t)
         /\ Signers(t) \subseteq Address
         /\ \A i \in DOMAIN t.msgs : t.msgs[i].from \in Signers(t)
<1>1. IsTx(t)
  BY TxAssumption
<1>2. 1 \in DOMAIN t.msgs /\ \A i \in DOMAIN t.msgs : IsMsg(t.msgs[i])
  BY <1>1 DEF IsTx
<1>3. QED
  BY <1>1, <1>2 DEF IsTx, IsMsg, FeePayer, Signers

\* One coin moved: only the sender loses, only the recipient gains.
LEMMA MoveEffect ==
  ASSUME balances \in [Address -> [Denom -> Nat]],
         NEW from \in Address, NEW to \in Address, NEW d \in Denom,
         NEW amount \in Nat, amount <= balances[from][d]
  PROVE  /\ Move(from, to, d, amount) \in [Address -> [Denom -> Nat]]
         /\ \A a \in Address, e \in Denom :
              /\ Move(from, to, d, amount)[a][e] < balances[a][e] => a = from
              /\ Move(from, to, d, amount)[a][e] > balances[a][e] => a = to
              /\ Move(from, to, d, amount)[a][e] = balances[a][e]
                   + (IF a = to /\ e = d THEN amount ELSE 0)
                   - (IF a = from /\ e = d THEN amount ELSE 0)
<1> DEFINE debited == [balances EXCEPT ![from][d] = @ - amount]
           moved == [debited EXCEPT ![to][d] = @ + amount]
<1>1. debited \in [Address -> [Denom -> Nat]]
  BY SMT
<1>2. \A a \in Address, e \in Denom :
        debited[a][e] = IF a = from /\ e = d THEN balances[a][e] - amount
                        ELSE balances[a][e]
  BY SMT
<1> HIDE DEF debited
<1>3. moved \in [Address -> [Denom -> Nat]]
  BY <1>1, SMT
<1>4. \A a \in Address, e \in Denom :
        moved[a][e] = IF a = to /\ e = d THEN debited[a][e] + amount
                      ELSE debited[a][e]
  BY <1>1, SMT
<1>5. moved = Move(from, to, d, amount)
  BY DEF Move, debited
<1> HIDE DEF moved
<1>6. \A a \in Address, e \in Denom :
        /\ moved[a][e] < balances[a][e] => a = from
        /\ moved[a][e] > balances[a][e] => a = to
        /\ moved[a][e] = balances[a][e] + (IF a = to /\ e = d THEN amount ELSE 0)
                                       - (IF a = from /\ e = d THEN amount ELSE 0)
  <2> SUFFICES ASSUME NEW a \in Address, NEW e \in Denom
               PROVE  /\ moved[a][e] < balances[a][e] => a = from
                      /\ moved[a][e] > balances[a][e] => a = to
                      /\ moved[a][e] = balances[a][e]
                           + (IF a = to /\ e = d THEN amount ELSE 0)
                           - (IF a = from /\ e = d THEN amount ELSE 0)
    OBVIOUS
  <2>1. balances[a][e] \in Nat /\ debited[a][e] \in Nat
    BY <1>1
  <2>2. QED BY <1>2, <1>4, <2>1
<1>7. QED BY <1>3, <1>5, <1>6

\* Nothing is a set of coins, and so is what is left when one coin is moved.
LEMMA LessCoins ==
  /\ IsCoins(<<>>)
  /\ \A c, d : IsCoins(c) => IsCoins([e \in DOMAIN c \ {d} |-> c[e]])
<1>1. IsCoins(<<>>)
  BY DEF IsCoins
<1>2. ASSUME NEW c, NEW d, IsCoins(c)
      PROVE  IsCoins([e \in DOMAIN c \ {d} |-> c[e]])
  BY <1>2 DEF IsCoins
<1>3. QED BY <1>1, <1>2

\* How much of a denomination coins have.
LEMMA Amounts ==
  /\ \A d : AmountOf(<<>>, d) = 0
  /\ \A c, d : IsCoins(c) => AmountOf(c, d) \in Nat
<1>1. \A d : AmountOf(<<>>, d) = 0
  <2>1. DOMAIN <<>> = {}
    OBVIOUS
  <2>2. QED BY <2>1 DEF AmountOf
<1>2. \A c, d : IsCoins(c) => AmountOf(c, d) \in Nat
  BY DEF IsCoins, AmountOf
<1>3. QED BY <1>1, <1>2

\* No account has another's number, and the next number is no account's.
Numbered(accts, next) ==
  /\ \A a \in Address : accts[a] # None => accts[a].number < next
  /\ \A a, b \in Address :
       /\ accts[a] # None
       /\ accts[b] # None
       /\ accts[a].number = accts[b].number
       => a = b

\* An account is created when there is none and changes no other.
LEMMA CreateEffect ==
  ASSUME TypeOK, NEW a \in Address, CreateIfMissing(a)
  PROVE  /\ accounts' \in [Address -> Account \cup {None}]
         /\ nextNumber' \in Nat
         /\ accounts'[a] # None
         /\ \A b \in Address : accounts[b] # None => accounts'[b] = accounts[b]
         /\ \A b \in Address : b # a => accounts'[b] = accounts[b]
         /\ Numbered(accounts, nextNumber) => Numbered(accounts', nextNumber')
<1>1. CASE accounts[a] # None
  BY <1>1 DEF TypeOK, CreateIfMissing, Numbered
<1>2. CASE accounts[a] = None
  <2> DEFINE new == NewAccount(nextNumber)
  <2>1. new \in Account /\ new # None /\ new.number = nextNumber
    <3>1. new \in Account /\ new.number = nextNumber
      BY DEF TypeOK, NewAccount, Account
    <3>2. QED BY <3>1, NoneAssumption
  <2>2. accounts' = [accounts EXCEPT ![a] = new] /\ nextNumber' = nextNumber + 1
    BY <1>2 DEF CreateIfMissing
  <2> HIDE DEF new
  <2>3. /\ accounts' \in [Address -> Account \cup {None}]
        /\ nextNumber' \in Nat
        /\ \A b \in Address : accounts'[b] = IF b = a THEN new ELSE accounts[b]
    BY <2>1, <2>2 DEF TypeOK
  <2>4. ASSUME Numbered(accounts, nextNumber)
        PROVE  Numbered(accounts', nextNumber')
    <3>1. \A b \in Address : accounts[b] # None =>
            accounts[b].number \in Nat /\ accounts[b].number < nextNumber
      BY <2>4 DEF TypeOK, Numbered, Account
    <3>2. nextNumber \in Nat
      BY DEF TypeOK
    <3>3. \A b \in Address : accounts'[b] # None => accounts'[b].number < nextNumber'
      BY <2>1, <2>2, <2>3, <3>1, <3>2
    <3>4. ASSUME NEW b \in Address, NEW c \in Address,
                 accounts'[b] # None, accounts'[c] # None,
                 accounts'[b].number = accounts'[c].number
          PROVE  b = c
      BY <2>1, <2>3, <2>4, <3>1, <3>2, <3>4 DEF Numbered
    <3>5. QED BY <3>3, <3>4 DEF Numbered
  <2>5. QED BY <1>2, <2>1, <2>3, <2>4
<1>3. QED BY <1>1, <1>2

-----------------------------------------------------------------------------
(* Types.                                                                  *)

\* What a failing step goes back to is well typed.
LEMMA RejectType == TypeOK /\ Reject => TypeOK'
<1> SUFFICES ASSUME TypeOK, Reject PROVE TypeOK'
  OBVIOUS
<1>1. /\ accounts' \in [Address -> Account \cup {None}]
      /\ nextNumber' \in Nat
      /\ balances' \in [Address -> [Denom -> Nat]]
  BY DEF TypeOK, Reject, ClearTxCaches
<1>2. /\ phase' = "idle" /\ tx' = None /\ msg' = 0 /\ owed' = <<>>
      /\ UNCHANGED <<kept, height, executed>>
  BY DEF Reject, Return
<1>3. IsCoins(owed')
  BY <1>2, LessCoins
<1>4. QED BY <1>1, <1>2, <1>3 DEF TypeOK, Phase

\* What is owed no longer, of a denomination.
Settled(d) == AmountOf(owed, d) - AmountOf(owed', d)

\* What is owed no longer has gone from the one to the other.
ExactlyMoved(from, to) ==
  \A a \in Address, d \in Denom :
    /\ Settled(d) \in Int
    /\ balances'[a][d] = balances[a][d] + (IF a = to THEN Settled(d) ELSE 0)
                                       - (IF a = from THEN Settled(d) ELSE 0)

\* A coin of a fee or of a message.
CoinMoved(from, to) ==
  /\ ExactlyMoved(from, to)
  /\ balances' \in [Address -> [Denom -> Nat]]
  /\ \A a \in Address, e \in Denom :
       /\ balances'[a][e] < balances[a][e] => a = from
       /\ balances'[a][e] > balances[a][e] => a = to
  /\ IsCoins(owed')
  /\ UNCHANGED <<accounts, nextNumber, kept, height, phase, tx, msg, executed>>

LEMMA SendCoinEffect ==
  ASSUME TypeOK, NEW from \in Address, NEW to \in Address, NEW d \in Denom,
         SendCoin(from, to, d)
  PROVE  Reject \/ CoinMoved(from, to)
<1>1. CASE LacksFunds(from, d)
  BY <1>1 DEF SendCoin
<1>2. CASE ~LacksFunds(from, d)
  <2>1. owed[d] \in Nat /\ owed[d] <= balances[from][d]
    BY <1>2 DEF SendCoin, LacksFunds, TypeOK, IsCoins
  <2>2. /\ balances' = Move(from, to, d, owed[d])
        /\ owed' = [e \in DOMAIN owed \ {d} |-> owed[e]]
        /\ UNCHANGED <<accounts, nextNumber, kept, height, phase, tx, msg, executed>>
    BY <1>2 DEF SendCoin
  <2>3. IsCoins(owed')
    BY <2>2, LessCoins DEF TypeOK
  <2>4. balances \in [Address -> [Denom -> Nat]]
    BY DEF TypeOK
  <2>5. /\ balances' \in [Address -> [Denom -> Nat]]
        /\ \A a \in Address, e \in Denom :
             /\ balances'[a][e] < balances[a][e] => a = from
             /\ balances'[a][e] > balances[a][e] => a = to
             /\ balances'[a][e] = balances[a][e]
                  + (IF a = to /\ e = d THEN owed[d] ELSE 0)
                  - (IF a = from /\ e = d THEN owed[d] ELSE 0)
    <3> DEFINE amount == owed[d]
               moved == Move(from, to, d, amount)
    <3>1. balances' = moved /\ amount \in Nat /\ amount <= balances[from][d]
      BY <2>1, <2>2
    <3> HIDE DEF amount
    <3>2. /\ moved \in [Address -> [Denom -> Nat]]
          /\ \A a \in Address, e \in Denom :
               moved[a][e] = balances[a][e] + (IF a = to /\ e = d THEN amount ELSE 0)
                                            - (IF a = from /\ e = d THEN amount ELSE 0)
      BY <2>4, <3>1, MoveEffect
    <3> HIDE DEF moved
    <3>3. ASSUME NEW a \in Address, NEW e \in Denom
          PROVE  /\ moved[a][e] < balances[a][e] => a = from
                 /\ moved[a][e] > balances[a][e] => a = to
      <4>1. balances[a][e] \in Nat
        BY <2>4
      <4>2. QED BY <3>1, <3>2, <4>1
    <3>4. QED BY <3>1, <3>2, <3>3 DEF amount
  <2>6. \A e : Settled(e) = IF e = d THEN owed[d] ELSE 0
    <3>1. d \in DOMAIN owed /\ AmountOf(owed, d) = owed[d]
      BY DEF SendCoin, AmountOf
    <3>2. \A e : AmountOf(owed, e) \in Nat
      BY Amounts DEF TypeOK
    <3>3. \A e : AmountOf(owed', e) = IF e = d THEN 0 ELSE AmountOf(owed, e)
      BY <2>2 DEF AmountOf
    <3>4. QED BY <2>1, <3>1, <3>2, <3>3 DEF Settled
  <2>7. ExactlyMoved(from, to)
    BY <2>1, <2>5, <2>6 DEF ExactlyMoved
  <2>8. QED BY <2>2, <2>3, <2>5, <2>7 DEF CoinMoved
<1>3. QED BY <1>1, <1>2


\* The signatures are verified before the sequences are incremented.
SignersVerified == phase = "sequence" => \A a \in Signers(tx) : Verifies(a)

TypeInv == TypeOK /\ SignersVerified

\* What the two ante handlers that write accounts make of one.
WithKey(account) == [account EXCEPT !.hasKey = TRUE]

WithNextSequence(account) == [account EXCEPT !.sequence = @ + 1]

LEMMA AccountUpdates ==
  ASSUME NEW account \in Account
  PROVE  /\ WithKey(account) \in Account
         /\ WithKey(account).number = account.number
         /\ WithKey(account).sequence = account.sequence
         /\ WithKey(account).hasKey
         /\ WithNextSequence(account) \in Account
         /\ WithNextSequence(account).number = account.number
         /\ WithNextSequence(account).sequence = account.sequence + 1
         /\ account.hasKey => WithNextSequence(account).hasKey
<1>1. WithNextSequence(account) \in Account
  BY DEF Account, WithNextSequence
<1>2. /\ WithNextSequence(account).number = account.number
      /\ WithNextSequence(account).sequence = account.sequence + 1
  BY DEF Account, WithNextSequence
<1>3. account.hasKey => WithNextSequence(account).hasKey
  BY DEF Account, WithNextSequence
<1>4. QED BY <1>1, <1>2, <1>3 DEF Account, WithKey

\* The keys a transaction gives are set; nothing else of an account changes.
LEMMA SetPubKeysEffect ==
  ASSUME TypeInv, SetPubKeys
  PROVE  \/ Reject
         \/ /\ accounts' \in [Address -> Account \cup {None}]
            /\ \A a \in Address :
                 /\ accounts[a] = None => accounts'[a] = None
                 /\ accounts[a] # None =>
                      /\ accounts'[a] # None
                      /\ accounts'[a].number = accounts[a].number
                      /\ accounts'[a].sequence = accounts[a].sequence
                      /\ accounts[a].hasKey => accounts'[a].hasKey
            /\ \A a \in DOMAIN tx.sigs : tx.sigs[a].withKey =>
                 /\ accounts'[a] # None
                 /\ accounts'[a].hasKey
            /\ phase = "keys" /\ phase' = "verify"
            /\ UNCHANGED <<nextNumber, balances, kept, height, tx, msg, owed,
                           executed>>
<1> DEFINE given == {a \in DOMAIN tx.sigs : tx.sigs[a].withKey}
<1>1. CASE \E a \in given : a \notin Signers(tx) \/ accounts[a] = None
  BY <1>1 DEF SetPubKeys
<1>2. CASE \A a \in given : a \in Signers(tx) /\ accounts[a] # None
  <2>1. /\ accounts' = [a \in Address |->
             IF a \in given THEN [accounts[a] EXCEPT !.hasKey = TRUE]
             ELSE accounts[a]]
        /\ phase = "keys" /\ phase' = "verify"
        /\ UNCHANGED <<nextNumber, balances, kept, height, tx, msg, owed, executed>>
    BY <1>2 DEF SetPubKeys
  <2>2. given \subseteq Address
    BY <2>1, TxAssumption DEF TypeInv, TypeOK, IsTx
  <2>3. ASSUME NEW a \in given
        PROVE  /\ accounts[a] \in Account
               /\ accounts'[a] = WithKey(accounts[a])
    BY <1>2, <2>1, <2>2 DEF TypeInv, TypeOK, WithKey
  <2>4. ASSUME NEW a \in given
        PROVE  /\ accounts'[a] \in Account
               /\ accounts'[a].number = accounts[a].number
               /\ accounts'[a].sequence = accounts[a].sequence
               /\ accounts'[a].hasKey
    BY <2>3, AccountUpdates
  <2>5. \A a \in Address \ given : accounts'[a] = accounts[a]
    BY <2>1
  <2> HIDE DEF given
  <2>6. \A a \in Address : accounts'[a] \in Account \cup {None}
    BY <2>4, <2>5 DEF TypeInv, TypeOK
  <2>7. accounts' \in [Address -> Account \cup {None}]
    BY <2>1, <2>6
  <2>8. \A a \in given : accounts'[a] # None
    BY <2>4, NoneAssumption
  <2>9. ASSUME NEW a \in Address
        PROVE  /\ accounts[a] = None => accounts'[a] = None
               /\ accounts[a] # None =>
                    /\ accounts'[a] # None
                    /\ accounts'[a].number = accounts[a].number
                    /\ accounts'[a].sequence = accounts[a].sequence
                    /\ accounts[a].hasKey => accounts'[a].hasKey
    <3>1. CASE a \in given
      BY <1>2, <2>4, <2>8, <3>1
    <3>2. CASE a \notin given
      BY <2>5, <3>2
    <3>3. QED BY <3>1, <3>2
  <2>10. \A a \in DOMAIN tx.sigs : tx.sigs[a].withKey =>
           accounts'[a] # None /\ accounts'[a].hasKey
    BY <2>4, <2>8 DEF given
  <2>11. QED BY <2>1, <2>7, <2>9, <2>10
<1>3. QED BY <1>1, <1>2

\* Every signer's sequence goes up by one; nothing else of an account changes.
LEMMA IncrementEffect ==
  ASSUME TypeInv, IncrementSequences
  PROVE  /\ accounts' \in [Address -> Account \cup {None}]
         /\ \A a \in Address :
              /\ accounts[a] = None => accounts'[a] = None
              /\ accounts[a] # None =>
                   /\ accounts'[a] # None
                   /\ accounts'[a].number = accounts[a].number
                   /\ accounts[a].hasKey => accounts'[a].hasKey
                   /\ a \notin Signers(tx) =>
                        accounts'[a].sequence = accounts[a].sequence
         /\ \A a \in Signers(tx) :
              /\ accounts[a] # None
              /\ a \in DOMAIN tx.sigs
              /\ tx.sigs[a].sequence = accounts[a].sequence
              /\ accounts'[a].sequence = accounts[a].sequence + 1
<1>1. phase = "sequence" /\ tx \in Tx /\ Signers(tx) \subseteq Address
  BY PayerSigns DEF IncrementSequences, TypeInv, TypeOK
<1>2. \A a \in Signers(tx) : /\ accounts[a] # None
                             /\ a \in DOMAIN tx.sigs
                             /\ tx.sigs[a].sequence = accounts[a].sequence
  BY <1>1 DEF TypeInv, SignersVerified, Verifies, HasSequence
<1>3. accounts' = [a \in Address |->
        IF a \in Signers(tx) THEN [accounts[a] EXCEPT !.sequence = @ + 1]
        ELSE accounts[a]]
  BY DEF IncrementSequences
<1>4. ASSUME NEW a \in Signers(tx)
      PROVE  /\ accounts[a] \in Account
             /\ accounts'[a] = WithNextSequence(accounts[a])
  BY <1>1, <1>2, <1>3 DEF TypeInv, TypeOK, WithNextSequence
<1>5. ASSUME NEW a \in Signers(tx)
      PROVE  /\ accounts'[a] \in Account
             /\ accounts'[a].number = accounts[a].number
             /\ accounts'[a].sequence = accounts[a].sequence + 1
             /\ accounts[a].hasKey => accounts'[a].hasKey
  BY <1>4, AccountUpdates
<1>6. \A a \in Address \ Signers(tx) : accounts'[a] = accounts[a]
  BY <1>3
<1>7. \A a \in Signers(tx) : accounts'[a] # None
  BY <1>5, NoneAssumption
<1>8. \A a \in Address : accounts'[a] \in Account \cup {None}
  BY <1>5, <1>6 DEF TypeInv, TypeOK
<1>9. accounts' \in [Address -> Account \cup {None}]
  BY <1>3, <1>8
<1>10. ASSUME NEW a \in Address
       PROVE  /\ accounts[a] = None => accounts'[a] = None
              /\ accounts[a] # None =>
                   /\ accounts'[a] # None
                   /\ accounts'[a].number = accounts[a].number
                   /\ accounts[a].hasKey => accounts'[a].hasKey
                   /\ a \notin Signers(tx) =>
                        accounts'[a].sequence = accounts[a].sequence
  <2>1. CASE a \in Signers(tx)
    BY <1>2, <1>5, <1>7, <2>1
  <2>2. CASE a \notin Signers(tx)
    BY <1>6, <2>2
  <2>3. QED BY <2>1, <2>2
<1>11. QED BY <1>2, <1>5, <1>9, <1>10

\* The three ways a step of DeductFee or of RunMsgs can go.
LEMMA DeductFeeEffect ==
  ASSUME TypeOK, DeductFee
  PROVE  /\ phase = "fee" /\ tx \in Tx
         /\ \/ Reject
            \/ CoinMoved(FeePayer(tx), FeeCollector)
            \/ /\ owed = <<>>
               /\ phase' = "keys"
               /\ UNCHANGED <<working, kept, height, tx, msg, owed, executed>>
<1>1. phase = "fee" /\ tx \in Tx
  BY DEF DeductFee, TypeOK
<1>2. FeePayer(tx) \in Address /\ FeeCollector \in Address
  BY <1>1, PayerSigns, AddressAssumption
<1>3. QED BY <1>1, <1>2, SendCoinEffect DEF DeductFee

LEMMA RunMsgsEffect ==
  ASSUME TypeOK, RunMsgs
  PROVE  /\ phase = "messages" /\ tx \in Tx /\ msg \in DOMAIN tx.msgs
         /\ tx.msgs[msg].from \in Signers(tx)
         /\ tx.msgs[msg].to \in Address
         /\ \/ Reject
            \/ CoinMoved(tx.msgs[msg].from, tx.msgs[msg].to)
            \/ /\ CreateIfMissing(tx.msgs[msg].to)
               /\ owed = <<>>
               /\ UNCHANGED <<balances, height, executed>>
               /\ \/ /\ msg' = msg + 1 /\ msg' \in DOMAIN tx.msgs
                     /\ owed' = tx.msgs[msg'].coins /\ IsCoins(owed')
                     /\ UNCHANGED <<kept, phase, tx>>
                  \/ msg = Len(tx.msgs) /\ WriteThenClearTxCaches /\ Return
<1>1. phase = "messages" /\ tx \in Tx /\ msg \in DOMAIN tx.msgs
  BY DEF RunMsgs, TypeOK
<1>2. /\ DOMAIN tx.msgs = 1..Len(tx.msgs)
      /\ Len(tx.msgs) \in Nat
      /\ \A i \in DOMAIN tx.msgs : IsMsg(tx.msgs[i])
  BY <1>1, TxAssumption DEF IsTx
<1>3. tx.msgs[msg].from \in Address /\ tx.msgs[msg].to \in Address
  BY <1>1, <1>2 DEF IsMsg
<1>4. tx.msgs[msg].from \in Signers(tx)
  BY <1>1, PayerSigns
<1>5. CASE \E d \in Denom : SendCoin(tx.msgs[msg].from, tx.msgs[msg].to, d)
  BY <1>1, <1>3, <1>4, <1>5, SendCoinEffect
<1>6. CASE /\ CreateIfMissing(tx.msgs[msg].to)
           /\ owed = <<>>
           /\ UNCHANGED <<balances, height, executed>>
           /\ IF msg < Len(tx.msgs)
              THEN /\ msg' = msg + 1
                   /\ owed' = tx.msgs[msg + 1].coins
                   /\ UNCHANGED <<kept, phase, tx>>
              ELSE WriteThenClearTxCaches /\ Return
  <2>1. CASE msg < Len(tx.msgs)
    <3>1. msg + 1 \in DOMAIN tx.msgs
      BY <1>1, <1>2, <2>1
    <3>2. IsCoins(tx.msgs[msg + 1].coins)
      BY <1>2, <3>1 DEF IsMsg
    <3>3. QED BY <1>1, <1>3, <1>4, <1>6, <2>1, <3>1, <3>2
  <2>2. CASE ~(msg < Len(tx.msgs))
    <3>1. msg = Len(tx.msgs)
      BY <1>1, <1>2, <2>2
    <3>2. QED BY <1>1, <1>3, <1>4, <1>6, <2>2, <3>1
  <2>3. QED BY <2>1, <2>2
<1>7. QED BY <1>5, <1>6 DEF RunMsgs

LEMMA TypeInvInit == Init => TypeInv
<1> SUFFICES ASSUME Init PROVE TypeInv
  OBVIOUS
<1> DEFINE listed == {GenesisAccounts[i] : i \in DOMAIN GenesisAccounts}
           last == Len(GenesisAccounts)
<1>1. last \in Nat /\ DOMAIN GenesisAccounts = 1..last
  BY GenesisAssumption
<1>2. \A n \in Nat : NewAccount(n) \in Account
  BY DEF NewAccount, Account
<1>3. \A a \in listed : GenesisNumber(a) \in Nat
  <2> SUFFICES ASSUME NEW a \in listed PROVE GenesisNumber(a) \in Nat
    OBVIOUS
  <2>1. \E i \in DOMAIN GenesisAccounts : GenesisAccounts[i] = a
    OBVIOUS
  <2>2. (CHOOSE i \in DOMAIN GenesisAccounts : GenesisAccounts[i] = a) \in 1..last
    BY <1>1, <2>1
  <2>3. QED BY <1>1, <2>2 DEF GenesisNumber
<1>4. accounts = [a \in Address |->
        IF a \in listed THEN NewAccount(GenesisNumber(a))
        ELSE IF a = FeeCollector THEN NewAccount(last) ELSE None]
  BY DEF Init
<1>5. nextNumber \in Nat
  BY <1>1 DEF Init
<1> HIDE DEF listed, last
<1>6. accounts \in [Address -> Account \cup {None}]
  BY <1>1, <1>2, <1>3, <1>4
<1>7. balances \in [Address -> [Denom -> Nat]]
  BY GenesisAssumption DEF Init
<1>8. kept = [accounts |-> accounts, nextNumber |-> nextNumber, balances |-> balances]
  BY DEF Init
<1>9. IsCoins(owed)
  BY LessCoins DEF Init
<1>10. /\ height = 0 /\ phase = "idle" /\ tx = None /\ msg = 0
       /\ executed = <<>>
  BY DEF Init
<1>11. QED
  BY <1>5, <1>6, <1>7, <1>8, <1>9, <1>10
     DEF TypeInv, TypeOK, Phase, SignersVerified

LEMMA TypeInvStep == TypeInv /\ [Next]_vars => TypeInv'
<1> SUFFICES ASSUME TypeInv, [Next]_vars PROVE TypeInv'
  OBVIOUS
<1>1. TypeOK /\ SignersVerified
  BY DEF TypeInv
<1>2. ASSUME Reject PROVE TypeInv'
  BY <1>1, <1>2, RejectType DEF TypeInv, SignersVerified, Reject, Return
<1>3. ASSUME NEW t \in Tx, DeliverTx(t)
      PROVE  TypeInv'
  <2>1. /\ accounts' \in [Address -> Account \cup {None}]
        /\ nextNumber' \in Nat
    BY <1>1, <1>3, CreateEffect, AddressAssumption DEF DeliverTx, TypeOK
  <2>2. IsCoins(owed')
    BY <1>3, TxAssumption DEF DeliverTx, IsTx
  <2>3. /\ tx' = t /\ phase' \in {"fee", "keys"}
        /\ UNCHANGED <<balances, kept, height, msg, executed>>
    BY <1>3 DEF DeliverTx
  <2>4. QED
    BY <1>1, <2>1, <2>2, <2>3 DEF TypeInv, TypeOK, SignersVerified, Phase
<1>4. CASE DeductFee
  <2>1. ASSUME CoinMoved(FeePayer(tx), FeeCollector) PROVE TypeInv'
    BY <1>1, <1>4, <2>1, DeductFeeEffect
       DEF TypeInv, TypeOK, SignersVerified, CoinMoved, Phase
  <2>2. CASE /\ phase' = "keys"
             /\ UNCHANGED <<working, kept, height, tx, msg, owed, executed>>
    BY <1>1, <1>4, <2>2, DeductFeeEffect
       DEF TypeInv, TypeOK, SignersVerified, working, Phase
  <2>3. QED BY <1>1, <1>2, <1>4, <2>1, <2>2, DeductFeeEffect
<1>5. CASE SetPubKeys
  <2>1. CASE Reject
    BY <1>2, <2>1
  <2>2. CASE /\ accounts' \in [Address -> Account \cup {None}]
             /\ phase = "keys" /\ phase' = "verify"
             /\ UNCHANGED <<nextNumber, balances, kept, height, tx, msg, owed,
                            executed>>
    BY <1>1, <2>2 DEF TypeInv, TypeOK, SignersVerified, Phase
  <2>3. QED BY <1>5, <2>1, <2>2, SetPubKeysEffect
<1>6. CASE VerifySignatures
  <2>1. CASE Reject
    BY <1>2, <2>1
  <2>2. CASE /\ \A a \in Signers(tx) : Verifies(a)
             /\ phase' = "sequence"
             /\ UNCHANGED <<working, kept, height, tx, msg, owed, executed>>
    BY <1>1, <1>6, <2>2
       DEF TypeInv, TypeOK, SignersVerified, Verifies, HasSequence, working,
           Phase, VerifySignatures, Signers
  <2>3. CASE /\ phase' = "poisoned"
             /\ UNCHANGED <<working, kept, height, tx, msg, owed, executed>>
    BY <1>1, <2>3 DEF TypeInv, TypeOK, SignersVerified, working, Phase
  <2>4. QED BY <1>6, <2>1, <2>2, <2>3 DEF VerifySignatures
<1>7. CASE IncrementSequences
  <2>1. accounts' \in [Address -> Account \cup {None}]
    BY <1>7, IncrementEffect
  <2>2. phase = "sequence" /\ tx \in Tx
    BY <1>1, <1>7 DEF IncrementSequences, TypeOK
  <2>3. 1 \in DOMAIN tx.msgs /\ IsCoins(tx.msgs[1].coins)
    BY <2>2, PayerSigns DEF IsTx, IsMsg
  <2>4. /\ UNCHANGED <<nextNumber, balances, height, tx>>
        /\ kept' = [accounts |-> accounts', nextNumber |-> nextNumber',
                    balances |-> balances']
        /\ executed' = Append(executed, [tx |-> tx, block |-> height + 1])
        /\ phase' = "messages" /\ msg' = 1 /\ owed' = tx.msgs[1].coins
    BY <1>7 DEF IncrementSequences, WriteThenClearTxCaches
  <2>5. executed' \in Seq([tx: Tx, block: Nat])
    BY <1>1, <2>2, <2>4 DEF TypeOK
  <2>6. QED
    BY <1>1, <2>1, <2>2, <2>3, <2>4, <2>5
       DEF TypeInv, TypeOK, SignersVerified, Phase
<1>8. CASE RunMsgs
  <2>1. ASSUME CoinMoved(tx.msgs[msg].from, tx.msgs[msg].to) PROVE TypeInv'
    BY <1>1, <1>8, <2>1, RunMsgsEffect
       DEF TypeInv, TypeOK, SignersVerified, CoinMoved
  <2>2. ASSUME CreateIfMissing(tx.msgs[msg].to),
               UNCHANGED <<balances, height, executed>>
        PROVE  /\ accounts' \in [Address -> Account \cup {None}]
               /\ nextNumber' \in Nat
               /\ balances' \in [Address -> [Denom -> Nat]]
    BY <1>1, <1>8, <2>2, RunMsgsEffect, CreateEffect DEF TypeOK
  <2>3. ASSUME CreateIfMissing(tx.msgs[msg].to),
               UNCHANGED <<balances, height, executed>>,
               msg' \in DOMAIN tx.msgs, IsCoins(owed'),
               UNCHANGED <<kept, phase, tx>>
        PROVE  TypeInv'
    <3>1. phase = "messages" /\ tx \in Tx
      BY <1>1, <1>8, RunMsgsEffect
    <3> DEFINE n == Len(tx.msgs)
    <3>2. DOMAIN tx.msgs = 1..n /\ n \in Nat
      BY <3>1, TxAssumption DEF IsTx
    <3> HIDE DEF n
    <3>3. msg' \in Nat
      BY <2>3, <3>2
    <3>4. QED
      BY <1>1, <2>2, <2>3, <3>1, <3>3 DEF TypeInv, TypeOK, SignersVerified
  <2>4. ASSUME CreateIfMissing(tx.msgs[msg].to),
               UNCHANGED <<balances, height, executed>>,
               WriteThenClearTxCaches, Return
        PROVE  TypeInv'
    <3>1. IsCoins(owed')
      BY <2>4, LessCoins DEF Return
    <3>2. QED
      BY <1>1, <2>2, <2>4, <3>1
         DEF TypeInv, TypeOK, SignersVerified, WriteThenClearTxCaches, Return,
             Phase
  <2>5. QED BY <1>1, <1>2, <1>8, <2>1, <2>3, <2>4, RunMsgsEffect
<1>9. CASE Commit
  BY <1>1, <1>9 DEF Commit, working, TypeInv, TypeOK, SignersVerified
<1>10. CASE UNCHANGED vars
  BY <1>1, <1>10
     DEF vars, working, TypeInv, TypeOK, SignersVerified, Verifies, HasSequence
<1>11. QED
  BY <1>3, <1>4, <1>5, <1>6, <1>7, <1>8, <1>9, <1>10 DEF Next

\* Every state is well typed: no transfer takes a balance below zero, and what
\* is done to an account is done to an account there is.
THEOREM TxTypeCorrect == Spec => []TypeOK
<1>1. TypeInv => TypeOK
  BY DEF TypeInv
<1>2. QED BY <1>1, TypeInvInit, TypeInvStep, PTL DEF Spec

-----------------------------------------------------------------------------
(* Accounts.                                                               *)

\* Every account of old is in new; it may have a key it had not.
SameAccounts(old, new) ==
  \A a \in Address : old[a] # None =>
    /\ new[a] # None
    /\ new[a].number = old[a].number
    /\ new[a].sequence = old[a].sequence
    /\ old[a].hasKey => new[a].hasKey

InAnte == phase \in {"fee", "keys", "verify", "sequence"}

AccountInv ==
  /\ SameAccounts(kept.accounts, accounts)
  /\ phase = "idle" => /\ accounts = kept.accounts
                       /\ nextNumber = kept.nextNumber
                       /\ balances = kept.balances
  /\ InAnte => \A a \in Address : accounts[a] # None => kept.accounts[a] # None
  /\ kept.accounts[FeeCollector] # None
  /\ Numbered(accounts, nextNumber)
  /\ Numbered(kept.accounts, kept.nextNumber)

LEMMA AccountsFacts ==
  /\ \A x : SameAccounts(x, x)
  /\ \A x, y, z : SameAccounts(x, y) /\ SameAccounts(y, z) => SameAccounts(x, z)
  /\ \A x, y, n :
       /\ Numbered(x, n)
       /\ \A a \in Address : y[a] # None => x[a] # None /\ y[a].number = x[a].number
       => Numbered(y, n)
<1>1. \A x : SameAccounts(x, x)
  BY DEF SameAccounts
<1>2. ASSUME NEW x, NEW y, NEW z, SameAccounts(x, y), SameAccounts(y, z)
      PROVE  SameAccounts(x, z)
  BY <1>2 DEF SameAccounts
<1>3. ASSUME NEW x, NEW y, NEW n, Numbered(x, n),
             \A a \in Address : y[a] # None => x[a] # None /\ y[a].number = x[a].number
      PROVE  Numbered(y, n)
  BY <1>3 DEF Numbered
<1>4. QED BY <1>1, <1>2, <1>3

LEMMA AccountInvInit == Init => AccountInv
<1> SUFFICES ASSUME Init PROVE AccountInv
  OBVIOUS
<1> DEFINE listed == {GenesisAccounts[i] : i \in DOMAIN GenesisAccounts}
           last == Len(GenesisAccounts)
<1>1. last \in Nat /\ DOMAIN GenesisAccounts = 1..last
  BY GenesisAssumption
<1>2. ASSUME NEW a \in listed
      PROVE  /\ GenesisNumber(a) \in Nat /\ GenesisNumber(a) < last
             /\ GenesisAccounts[GenesisNumber(a) + 1] = a
  <2> DEFINE i == CHOOSE i \in DOMAIN GenesisAccounts : GenesisAccounts[i] = a
  <2>1. \E j \in DOMAIN GenesisAccounts : GenesisAccounts[j] = a
    OBVIOUS
  <2>2. i \in DOMAIN GenesisAccounts /\ GenesisAccounts[i] = a
    BY <2>1
  <2>3. GenesisNumber(a) = i - 1
    BY DEF GenesisNumber
  <2> HIDE DEF i
  <2>4. i - 1 \in Nat /\ i - 1 < last /\ (i - 1) + 1 = i
    BY <1>1, <2>2
  <2>5. QED BY <2>2, <2>3, <2>4
<1>3. \A a, b \in listed : GenesisNumber(a) = GenesisNumber(b) => a = b
  BY <1>2
<1>4. \A n \in Nat : NewAccount(n) # None /\ NewAccount(n).number = n
  <2>1. \A n \in Nat : NewAccount(n) \in Account /\ NewAccount(n).number = n
    BY DEF NewAccount, Account
  <2>2. QED BY <2>1, NoneAssumption
<1>5. /\ accounts = [a \in Address |->
           IF a \in listed THEN NewAccount(GenesisNumber(a))
           ELSE IF a = FeeCollector THEN NewAccount(last) ELSE None]
      /\ nextNumber = IF FeeCollector \in listed THEN last ELSE last + 1
      /\ kept.accounts = accounts /\ kept.nextNumber = nextNumber
      /\ kept.balances = balances
  BY DEF Init
<1> HIDE DEF listed, last
<1>6. ASSUME NEW a \in Address, accounts[a] # None
      PROVE  \/ a \in listed /\ accounts[a].number = GenesisNumber(a)
             \/ a = FeeCollector /\ a \notin listed /\ accounts[a].number = last
  BY <1>1, <1>2, <1>4, <1>5, <1>6
<1>7. Numbered(accounts, nextNumber)
  <2>1. ASSUME NEW a \in Address, accounts[a] # None
        PROVE  accounts[a].number < nextNumber
    <3>1. CASE a \in listed /\ accounts[a].number = GenesisNumber(a)
      BY <1>1, <1>2, <1>5, <3>1
    <3>2. CASE a = FeeCollector /\ a \notin listed /\ accounts[a].number = last
      BY <1>1, <1>5, <3>2
    <3>3. QED BY <1>6, <2>1, <3>1, <3>2
  <2>2. ASSUME NEW a \in Address, NEW b \in Address, accounts[a] # None,
               accounts[b] # None, accounts[a].number = accounts[b].number
        PROVE  a = b
    BY <1>1, <1>2, <1>3, <1>6, <2>2
  <2>3. QED BY <2>1, <2>2 DEF Numbered
<1>8. kept.accounts[FeeCollector] # None
  BY <1>1, <1>2, <1>4, <1>5, AddressAssumption
<1>9. SameAccounts(kept.accounts, accounts)
  BY <1>5, AccountsFacts
<1>10. QED BY <1>5, <1>7, <1>8, <1>9 DEF AccountInv

\* What the working accounts become when the kept ones stay.
LEMMA AccountInvKept ==
  ASSUME AccountInv, UNCHANGED kept, phase' # "idle",
         InAnte' => InAnte /\ \A a \in Address : accounts'[a] # None => accounts[a] # None,
         SameAccounts(accounts, accounts'), Numbered(accounts', nextNumber')
  PROVE  AccountInv'
<1>1. SameAccounts(kept'.accounts, accounts')
  BY AccountsFacts DEF AccountInv
<1>2. SameAccounts(kept.accounts, accounts)'
  BY <1>1
<1>3. InAnte' => \A a \in Address : accounts'[a] # None => kept'.accounts[a] # None
  BY DEF AccountInv
<1>4. QED BY <1>2, <1>3 DEF AccountInv

\* ... when the kept ones become the working ones.
LEMMA AccountInvWritten ==
  ASSUME AccountInv, WriteThenClearTxCaches, phase' \in {"idle", "messages"},
         \A a \in Address : accounts[a] # None => accounts'[a] # None,
         Numbered(accounts', nextNumber')
  PROVE  AccountInv'
<1>1. /\ kept'.accounts = accounts' /\ kept'.nextNumber = nextNumber'
      /\ kept'.balances = balances'
  BY DEF WriteThenClearTxCaches
<1>2. SameAccounts(kept'.accounts, accounts')
  BY <1>1, AccountsFacts
<1>3. SameAccounts(kept.accounts, accounts)'
  BY <1>2
<1>4. kept'.accounts[FeeCollector] # None
  BY <1>1, AddressAssumption DEF AccountInv, SameAccounts
<1>5. ~InAnte'
  BY DEF InAnte
<1>6. QED BY <1>1, <1>3, <1>4, <1>5 DEF AccountInv

\* ... when a transaction is rejected.
LEMMA AccountInvRejected ==
  ASSUME AccountInv, Reject
  PROVE  AccountInv'
<1>1. /\ accounts' = kept'.accounts /\ nextNumber' = kept'.nextNumber
      /\ balances' = kept'.balances /\ kept' = kept /\ ~InAnte'
  BY DEF Reject, ClearTxCaches, Return, InAnte
<1>2. SameAccounts(kept'.accounts, accounts')
  BY <1>1, AccountsFacts
<1>3. SameAccounts(kept.accounts, accounts)'
  BY <1>2
<1>4. QED BY <1>1, <1>3 DEF AccountInv

LEMMA AccountInvStep == TypeInv /\ AccountInv /\ [Next]_vars => AccountInv'
<1> SUFFICES ASSUME TypeInv, AccountInv, [Next]_vars PROVE AccountInv'
  OBVIOUS
<1>1. TypeOK
  BY DEF TypeInv
<1>2. Numbered(accounts, nextNumber) /\ SameAccounts(accounts, accounts)
  BY AccountsFacts DEF AccountInv
<1>3. ASSUME NEW t \in Tx, DeliverTx(t)
      PROVE  AccountInv'
  <2>1. accounts[FeeCollector] # None
    BY AddressAssumption DEF AccountInv, SameAccounts
  <2>2. UNCHANGED <<accounts, nextNumber, kept, balances>> /\ phase' \in {"fee", "keys"}
    BY <1>3, <2>1 DEF DeliverTx, CreateIfMissing
  <2>3. phase = "idle"
    BY <1>3 DEF DeliverTx
  <2>4. QED BY <2>2, <2>3 DEF AccountInv
<1>4. ASSUME UNCHANGED <<accounts, nextNumber, kept>>, InAnte' => InAnte, phase' # "idle"
      PROVE  AccountInv'
  BY <1>2, <1>4, AccountInvKept
<1>5. CASE DeductFee
  <2>1. CASE Reject
    BY <2>1, AccountInvRejected
  <2>2. CASE CoinMoved(FeePayer(tx), FeeCollector)
    BY <1>1, <1>4, <1>5, <2>2, DeductFeeEffect DEF CoinMoved, InAnte
  <2>3. CASE phase' = "keys" /\ UNCHANGED <<working, kept>>
    BY <1>1, <1>4, <1>5, <2>3, DeductFeeEffect DEF working, InAnte
  <2>4. QED BY <1>1, <1>5, <2>1, <2>2, <2>3, DeductFeeEffect
<1>6. CASE SetPubKeys
  <2>1. CASE Reject
    BY <2>1, AccountInvRejected
  <2>2. CASE ~Reject
    <3>1. \A a \in Address :
            /\ accounts[a] = None => accounts'[a] = None
            /\ accounts[a] # None =>
                 /\ accounts'[a] # None
                 /\ accounts'[a].number = accounts[a].number
                 /\ accounts'[a].sequence = accounts[a].sequence
                 /\ accounts[a].hasKey => accounts'[a].hasKey
      BY <1>6, <2>2, SetPubKeysEffect
    <3>2. phase = "keys" /\ phase' = "verify" /\ UNCHANGED <<nextNumber, kept>>
      BY <1>6, <2>2, SetPubKeysEffect
    <3>3. SameAccounts(accounts, accounts')
      BY <3>1 DEF SameAccounts
    <3>4. Numbered(accounts', nextNumber')
      BY <1>2, <3>1, <3>2, AccountsFacts
    <3>5. QED
      BY <3>1, <3>2, <3>3, <3>4, AccountInvKept DEF InAnte
  <2>3. QED BY <2>1, <2>2
<1>7. CASE VerifySignatures
  <2>1. CASE Reject
    BY <2>1, AccountInvRejected
  <2>2. CASE phase' \in {"sequence", "poisoned"} /\ UNCHANGED <<working, kept>>
    BY <1>4, <1>7, <2>2 DEF VerifySignatures, working, InAnte
  <2>3. QED BY <1>7, <2>1, <2>2 DEF VerifySignatures
<1>8. CASE IncrementSequences
  <2>1. \A a \in Address :
          /\ accounts[a] = None => accounts'[a] = None
          /\ accounts[a] # None =>
               accounts'[a] # None /\ accounts'[a].number = accounts[a].number
    BY <1>8, IncrementEffect
  <2>2. UNCHANGED nextNumber /\ WriteThenClearTxCaches /\ phase' = "messages"
    BY <1>8 DEF IncrementSequences
  <2>3. Numbered(accounts', nextNumber')
    BY <1>2, <2>1, <2>2, AccountsFacts
  <2>4. QED BY <2>1, <2>2, <2>3, AccountInvWritten
<1>9. CASE RunMsgs
  <2>1. CASE Reject
    BY <2>1, AccountInvRejected
  <2>2. CASE CoinMoved(tx.msgs[msg].from, tx.msgs[msg].to)
    BY <1>1, <1>4, <1>9, <2>2, RunMsgsEffect DEF CoinMoved, InAnte
  <2>3. ASSUME CreateIfMissing(tx.msgs[msg].to)
        PROVE  /\ \A a \in Address : accounts[a] # None => accounts'[a] = accounts[a]
               /\ Numbered(accounts', nextNumber')
    BY <1>1, <1>2, <1>9, <2>3, RunMsgsEffect, CreateEffect
  <2>4. CASE CreateIfMissing(tx.msgs[msg].to) /\ UNCHANGED <<kept, phase, tx>>
    <3>1. SameAccounts(accounts, accounts')
      BY <2>3, <2>4 DEF SameAccounts
    <3>2. phase = "messages" /\ ~InAnte' /\ phase' # "idle"
      BY <1>1, <1>9, <2>4, RunMsgsEffect DEF InAnte
    <3>3. QED BY <2>3, <2>4, <3>1, <3>2, AccountInvKept
  <2>5. CASE CreateIfMissing(tx.msgs[msg].to) /\ WriteThenClearTxCaches /\ Return
    BY <2>3, <2>5, AccountInvWritten DEF Return
  <2>6. QED BY <1>1, <1>9, <2>1, <2>2, <2>4, <2>5, RunMsgsEffect
<1>10. CASE Commit
  BY <1>10 DEF Commit, working, AccountInv, InAnte
<1>11. CASE UNCHANGED vars
  BY <1>11 DEF vars, working, AccountInv, InAnte
<1>12. QED
  BY <1>3, <1>5, <1>6, <1>7, <1>8, <1>9, <1>10, <1>11 DEF Next

\* No two accounts ever have one number, whichever transactions that created
\* accounts were rejected (get_next_account_number).
THEOREM NumbersStayUnique == Spec => []NumbersAreUnique
<1>1. AccountInv => NumbersAreUnique
  BY DEF AccountInv, Numbered, NumbersAreUnique
<1>2. QED
  BY <1>1, TypeInvInit, TypeInvStep, AccountInvInit, AccountInvStep, PTL DEF Spec

\* When the chain's own state changes: after the ante handlers, and after the
\* last message.
LastMessageDone ==
  /\ phase = "messages" /\ tx \in Tx
  /\ msg \in DOMAIN tx.msgs /\ msg = Len(tx.msgs) /\ owed = <<>>
  /\ WriteThenClearTxCaches
  /\ phase' = "idle"
  /\ UNCHANGED <<balances, executed>>
  /\ \A a \in Address : accounts[a] # None => accounts'[a] = accounts[a]
  /\ accounts'[tx.msgs[msg].to] # None

LEMMA KeptSteps ==
  ASSUME TypeInv, [Next]_vars
  PROVE  \/ UNCHANGED <<kept, executed>>
         \/ IncrementSequences
         \/ LastMessageDone
<1>1. TypeOK
  BY DEF TypeInv
<1>2. ASSUME Reject PROVE UNCHANGED <<kept, executed>>
  BY <1>2 DEF Reject
<1>3. CASE \E t \in Tx : DeliverTx(t)
  BY <1>3 DEF DeliverTx
<1>4. CASE DeductFee
  BY <1>1, <1>2, <1>4, DeductFeeEffect DEF CoinMoved
<1>5. CASE SetPubKeys
  BY <1>2, <1>5, SetPubKeysEffect
<1>6. CASE VerifySignatures
  BY <1>2, <1>6 DEF VerifySignatures
<1>7. CASE RunMsgs
  <2>1. CASE Reject
    BY <1>2, <2>1
  <2>2. CASE CoinMoved(tx.msgs[msg].from, tx.msgs[msg].to)
    BY <2>2 DEF CoinMoved
  <2>3. CASE UNCHANGED <<executed, kept>>
    BY <2>3
  <2>4. CASE /\ CreateIfMissing(tx.msgs[msg].to)
             /\ owed = <<>> /\ msg = Len(tx.msgs)
             /\ UNCHANGED <<balances, height, executed>>
             /\ WriteThenClearTxCaches /\ Return
    <3>1. /\ phase = "messages" /\ tx \in Tx /\ msg \in DOMAIN tx.msgs
          /\ tx.msgs[msg].to \in Address
      BY <1>1, <1>7, RunMsgsEffect
    <3>2. /\ \A a \in Address : accounts[a] # None => accounts'[a] = accounts[a]
          /\ accounts'[tx.msgs[msg].to] # None
      BY <1>1, <2>4, <3>1, CreateEffect
    <3>3. QED BY <2>4, <3>1, <3>2 DEF LastMessageDone, Return
  <2>5. QED BY <1>1, <1>7, <2>1, <2>2, <2>3, <2>4, RunMsgsEffect
<1>8. CASE Commit
  BY <1>8 DEF Commit
<1>9. CASE UNCHANGED vars
  BY <1>9 DEF vars
<1>10. QED BY <1>3, <1>4, <1>5, <1>6, <1>7, <1>8, <1>9 DEF Next

-----------------------------------------------------------------------------
(* Signatures.                                                             *)

\* The signature of every signer of an executed transaction is of a sequence
\* its account has left behind.
SignaturesSpent ==
  \A i \in DOMAIN executed :
    \A a \in Signers(executed[i].tx) :
      /\ kept.accounts[a] # None
      /\ executed[i].tx.sigs[a].sequence \in Nat
      /\ executed[i].tx.sigs[a].sequence < kept.accounts[a].sequence

ReplayInv == SignaturesSpent /\ NoReplay

LEMMA ReplayInvStep ==
  TypeInv /\ AccountInv /\ ReplayInv /\ [Next]_vars => ReplayInv'
<1> SUFFICES ASSUME TypeInv, AccountInv, ReplayInv, [Next]_vars
             PROVE  ReplayInv'
  OBVIOUS
<1>1. TypeOK
  BY DEF TypeInv
<1>2. \A i \in DOMAIN executed : Signers(executed[i].tx) \subseteq Address
  <2> DEFINE Entry == [tx: Tx, block: Nat]
  <2>1. executed \in Seq(Entry)
    BY <1>1 DEF TypeOK
  <2>2. \A e \in Entry : e.tx \in Tx
    OBVIOUS
  <2> HIDE DEF Entry
  <2>3. \A i \in DOMAIN executed : executed[i] \in Entry
    BY <2>1
  <2>4. QED BY <2>2, <2>3, PayerSigns
<1>3. \A a \in Address : kept.accounts[a] # None => kept.accounts[a].sequence \in Nat
  BY <1>1 DEF TypeOK, Account
<1>4. CASE UNCHANGED <<kept, executed>>
  BY <1>4 DEF ReplayInv, SignaturesSpent, NoReplay
<1>5. CASE LastMessageDone
  <2>1. /\ kept'.accounts = accounts' /\ executed' = executed
        /\ \A a \in Address : accounts[a] # None => accounts'[a] = accounts[a]
    BY <1>5 DEF LastMessageDone, WriteThenClearTxCaches
  <2>2. \A a \in Address : kept.accounts[a] # None =>
          /\ kept'.accounts[a] # None
          /\ kept'.accounts[a].sequence = kept.accounts[a].sequence
    BY <2>1 DEF AccountInv, SameAccounts
  <2>3. SignaturesSpent'
    BY <1>2, <2>1, <2>2 DEF ReplayInv, SignaturesSpent
  <2>4. NoReplay'
    BY <2>1 DEF ReplayInv, NoReplay
  <2>5. QED BY <2>3, <2>4 DEF ReplayInv
<1>6. CASE IncrementSequences
  <2>1. tx \in Tx /\ Signers(tx) \subseteq Address
    BY <1>1, <1>6, PayerSigns DEF IncrementSequences, TypeOK
  <2>2. /\ kept'.accounts = accounts'
        /\ executed' = Append(executed, [tx |-> tx, block |-> height + 1])
    BY <1>6 DEF IncrementSequences, WriteThenClearTxCaches
  <2>3. ASSUME NEW a \in Address, accounts[a] # None
        PROVE  /\ accounts[a].sequence \in Nat
               /\ accounts'[a] # None
               /\ \/ accounts'[a].sequence = accounts[a].sequence
                  \/ accounts'[a].sequence = accounts[a].sequence + 1
    <3>1. accounts[a].sequence \in Nat
      BY <1>1, <2>3 DEF TypeOK, Account
    <3>2. QED BY <1>6, <2>3, <3>1, IncrementEffect
  <2>4. ASSUME NEW a \in Address, kept.accounts[a] # None
        PROVE  /\ kept'.accounts[a] # None
               /\ kept'.accounts[a].sequence \in Nat
               /\ kept.accounts[a].sequence <= kept'.accounts[a].sequence
               /\ accounts[a].sequence = kept.accounts[a].sequence
    <3>1. accounts[a] # None /\ accounts[a].sequence = kept.accounts[a].sequence
      BY <2>4 DEF AccountInv, SameAccounts
    <3>2. QED BY <2>2, <2>3, <3>1
  <2>5. ASSUME NEW a \in Signers(tx)
        PROVE  /\ tx.sigs[a].sequence = accounts[a].sequence
               /\ tx.sigs[a].sequence \in Nat
               /\ kept'.accounts[a] # None
               /\ tx.sigs[a].sequence < kept'.accounts[a].sequence
    <3>1. /\ accounts[a] # None
          /\ tx.sigs[a].sequence = accounts[a].sequence
          /\ accounts'[a].sequence = accounts[a].sequence + 1
      BY <1>6, IncrementEffect
    <3>2. accounts[a].sequence \in Nat /\ accounts'[a] # None
      BY <2>1, <2>3, <3>1
    <3>3. QED BY <2>2, <3>1, <3>2
  <2> DEFINE n == Len(executed)
  <2>6. /\ n \in Nat /\ DOMAIN executed = 1..n
        /\ DOMAIN executed' = 1..(n + 1)
        /\ executed'[n + 1].tx = tx
        /\ \A i \in 1..n : executed'[i] = executed[i]
    BY <1>1, <2>1, <2>2 DEF TypeOK
  <2> HIDE DEF n
  <2>7. \A i \in DOMAIN executed' : i \in 1..n \/ i = n + 1
    BY <2>6
  <2>8. SignaturesSpent'
    <3> SUFFICES ASSUME NEW i \in DOMAIN executed',
                        NEW a \in Signers(executed'[i].tx)
                 PROVE  /\ kept'.accounts[a] # None
                        /\ executed'[i].tx.sigs[a].sequence \in Nat
                        /\ executed'[i].tx.sigs[a].sequence < kept'.accounts[a].sequence
      BY DEF SignaturesSpent
    <3>1. CASE i = n + 1
      BY <2>5, <2>6, <3>1
    <3>2. CASE i \in 1..n
      <4>1. /\ executed'[i] = executed[i] /\ a \in Address
            /\ kept.accounts[a] # None
            /\ executed[i].tx.sigs[a].sequence \in Nat
            /\ executed[i].tx.sigs[a].sequence < kept.accounts[a].sequence
        BY <1>2, <2>6, <3>2 DEF ReplayInv, SignaturesSpent
      <4>2. QED BY <1>3, <2>4, <4>1
    <3>3. QED BY <2>7, <3>1, <3>2
  <2>9. ASSUME NEW i \in 1..n,
               NEW a \in Signers(executed[i].tx) \cap Signers(tx)
        PROVE  executed[i].tx.sigs[a].sequence # tx.sigs[a].sequence
    <3>1. /\ a \in Address
          /\ kept.accounts[a] # None
          /\ executed[i].tx.sigs[a].sequence \in Nat
          /\ executed[i].tx.sigs[a].sequence < kept.accounts[a].sequence
      BY <2>1, <2>6 DEF ReplayInv, SignaturesSpent
    <3>2. tx.sigs[a].sequence = kept.accounts[a].sequence
      BY <2>4, <2>5, <3>1
    <3>3. QED BY <1>3, <3>1, <3>2
  <2>10. NoReplay'
    <3> SUFFICES ASSUME NEW i \in DOMAIN executed', NEW j \in DOMAIN executed',
                        i # j,
                        NEW a \in Signers(executed'[i].tx) \cap Signers(executed'[j].tx)
                 PROVE  executed'[i].tx.sigs[a].sequence # executed'[j].tx.sigs[a].sequence
      BY DEF NoReplay
    <3>1. CASE i \in 1..n /\ j \in 1..n
      BY <2>6, <3>1 DEF ReplayInv, NoReplay
    <3>2. CASE i \in 1..n /\ j = n + 1
      BY <2>6, <2>9, <3>2
    <3>3. CASE i = n + 1 /\ j \in 1..n
      BY <2>6, <2>9, <3>3
    <3>4. QED BY <2>7, <3>1, <3>2, <3>3
  <2>11. QED BY <2>8, <2>10 DEF ReplayInv
<1>7. QED BY <1>4, <1>5, <1>6, KeptSteps

\* No signature is good for two transactions, whatever failed in between.
THEOREM NoTransactionIsReplayed == Spec => []NoReplay
<1>1. Init => ReplayInv
  BY DEF Init, ReplayInv, SignaturesSpent, NoReplay
<1>2. ReplayInv => NoReplay
  BY DEF ReplayInv
<1>3. QED
  BY <1>1, <1>2, TypeInvInit, TypeInvStep, AccountInvInit, AccountInvStep,
     ReplayInvStep, PTL DEF Spec

-----------------------------------------------------------------------------
(* Balances.                                                               *)

\* Who holds a coin has an account, or is the recipient of the message being
\* executed.
HolderInv ==
  /\ HoldersHaveAccounts
  /\ \A a \in Address, d \in Denom : balances[a][d] > 0 =>
       accounts[a] # None \/ (phase = "messages" /\ a = tx.msgs[msg].to)

LEMMA HolderInvInit == Init => HolderInv
<1> SUFFICES ASSUME Init PROVE HolderInv
  OBVIOUS
<1> DEFINE listed == {GenesisAccounts[i] : i \in DOMAIN GenesisAccounts}
<1>1. /\ kept.accounts = accounts /\ kept.balances = balances
      /\ balances = GenesisBalances
  BY DEF Init
<1>2. ASSUME NEW a \in Address, a \in listed \/ a = FeeCollector
      PROVE  accounts[a] # None
  <2>1. AccountInv
    BY AccountInvInit
  <2>2. CASE a = FeeCollector
    BY <1>1, <2>1, <2>2 DEF AccountInv
  <2>3. CASE a \in listed
    <3>1. accounts[a] = NewAccount(GenesisNumber(a))
      BY <2>3 DEF Init
    <3>2. GenesisNumber(a) \in Nat
      <4> DEFINE i == CHOOSE i \in DOMAIN GenesisAccounts : GenesisAccounts[i] = a
      <4>1. \E j \in DOMAIN GenesisAccounts : GenesisAccounts[j] = a
        BY <2>3
      <4>2. i \in DOMAIN GenesisAccounts
        BY <4>1
      <4>3. GenesisNumber(a) = i - 1
        BY DEF GenesisNumber
      <4> HIDE DEF i
      <4>4. QED BY <4>2, <4>3, GenesisAssumption
    <3>3. NewAccount(GenesisNumber(a)) \in Account
      BY <3>2 DEF NewAccount, Account
    <3>4. QED BY <3>1, <3>3, NoneAssumption
  <2>4. QED BY <1>2, <2>2, <2>3
<1>3. \A a \in Address, d \in Denom :
        GenesisBalances[a][d] > 0 => a = FeeCollector \/ a \in listed
  BY GenesisAssumption
<1> HIDE DEF listed
<1>4. QED BY <1>1, <1>2, <1>3 DEF HolderInv, HoldersHaveAccounts

LEMMA HolderInvStep ==
  TypeInv /\ AccountInv /\ HolderInv /\ [Next]_vars => HolderInv'
<1> SUFFICES ASSUME TypeInv, AccountInv, HolderInv, [Next]_vars
             PROVE  HolderInv'
  OBVIOUS
<1>1. TypeOK
  BY DEF TypeInv
<1>2. /\ balances \in [Address -> [Denom -> Nat]]
      /\ kept.balances \in [Address -> [Denom -> Nat]]
  BY <1>1 DEF TypeOK
<1>3. CASE Reject
  BY <1>3 DEF Reject, ClearTxCaches, HolderInv, HoldersHaveAccounts
\* No account is lost, no balance changes.
<1>4. ASSUME UNCHANGED <<kept, balances>>, phase # "messages",
             \A a \in Address : accounts[a] # None => accounts'[a] # None
      PROVE  HolderInv'
  BY <1>4 DEF HolderInv, HoldersHaveAccounts
<1>5. ASSUME NEW t \in Tx, DeliverTx(t)
      PROVE  HolderInv'
  <2>1. \A a \in Address : accounts[a] # None => accounts'[a] # None
    BY <1>1, <1>5, CreateEffect, AddressAssumption DEF DeliverTx
  <2>2. phase = "idle" /\ UNCHANGED <<kept, balances>>
    BY <1>5 DEF DeliverTx
  <2>3. QED BY <1>4, <2>1, <2>2
\* One coin is moved to someone who has an account or will have one.
<1>6. ASSUME NEW from, NEW to \in Address, CoinMoved(from, to),
             accounts[to] # None \/ (phase = "messages" /\ to = tx.msgs[msg].to)
      PROVE  HolderInv'
  <2>1. /\ UNCHANGED <<accounts, kept, phase, tx, msg>>
        /\ balances' \in [Address -> [Denom -> Nat]]
        /\ \A a \in Address, e \in Denom :
             balances'[a][e] > balances[a][e] => a = to
    BY <1>6 DEF CoinMoved
  <2>2. ASSUME NEW a \in Address, NEW d \in Denom, balances'[a][d] > 0
        PROVE  accounts'[a] # None \/ (phase' = "messages" /\ a = tx'.msgs[msg'].to)
    <3>1. balances[a][d] \in Nat /\ balances'[a][d] \in Nat
      BY <1>2, <2>1
    <3>2. CASE a = to
      BY <1>6, <2>1, <3>2
    <3>3. CASE a # to
      BY <2>1, <2>2, <3>1, <3>3 DEF HolderInv
    <3>4. QED BY <3>2, <3>3
  <2>3. QED BY <2>1, <2>2 DEF HolderInv, HoldersHaveAccounts
<1>7. CASE DeductFee
  <2>1. accounts[FeeCollector] # None /\ FeeCollector \in Address
    BY AddressAssumption DEF AccountInv, SameAccounts
  <2>2. CASE phase' = "keys" /\ UNCHANGED <<working, kept>>
    BY <1>1, <1>4, <1>7, <2>2, DeductFeeEffect DEF working
  <2>3. QED BY <1>1, <1>3, <1>6, <1>7, <2>1, <2>2, DeductFeeEffect
<1>8. CASE SetPubKeys
  <2>1. CASE ~Reject
    <3>1. /\ \A a \in Address : accounts[a] # None => accounts'[a] # None
          /\ phase = "keys" /\ UNCHANGED <<kept, balances>>
      BY <1>8, <2>1, SetPubKeysEffect
    <3>2. QED BY <1>4, <3>1
  <2>2. QED BY <1>3, <2>1
<1>9. CASE VerifySignatures
  <2>1. CASE UNCHANGED <<working, kept>>
    BY <1>4, <1>9, <2>1 DEF VerifySignatures, working
  <2>2. QED BY <1>3, <1>9, <2>1 DEF VerifySignatures
\* The chain's state becomes the working one.
<1>10. ASSUME WriteThenClearTxCaches, UNCHANGED balances,
              \A a \in Address, d \in Denom :
                balances[a][d] > 0 => accounts'[a] # None
       PROVE  HolderInv'
  BY <1>10 DEF WriteThenClearTxCaches, HolderInv, HoldersHaveAccounts
<1>11. CASE IncrementSequences
  <2>1. \A a \in Address : accounts[a] # None => accounts'[a] # None
    BY <1>11, IncrementEffect
  <2>2. /\ phase = "sequence" /\ WriteThenClearTxCaches
        /\ UNCHANGED balances
    BY <1>11 DEF IncrementSequences
  <2>3. \A a \in Address, d \in Denom : balances[a][d] > 0 => accounts'[a] # None
    BY <2>1, <2>2 DEF HolderInv
  <2>4. QED BY <1>10, <2>2, <2>3
<1>12. CASE RunMsgs
  <2>1. phase = "messages" /\ tx.msgs[msg].to \in Address
    BY <1>1, <1>12, RunMsgsEffect
  <2>2. CASE CoinMoved(tx.msgs[msg].from, tx.msgs[msg].to)
    BY <1>6, <2>1, <2>2
  <2>3. CASE CreateIfMissing(tx.msgs[msg].to) /\ UNCHANGED balances
    <3>1. \A a \in Address, d \in Denom : balances[a][d] > 0 => accounts'[a] # None
      BY <1>1, <2>1, <2>3, CreateEffect DEF HolderInv
    <3>2. CASE UNCHANGED kept
      BY <2>3, <3>1, <3>2 DEF HolderInv, HoldersHaveAccounts
    <3>3. CASE WriteThenClearTxCaches
      BY <1>10, <2>3, <3>1, <3>3
    <3>4. QED BY <1>1, <1>3, <1>12, <2>2, <3>2, <3>3, RunMsgsEffect
  <2>4. QED BY <1>1, <1>3, <1>12, <2>2, <2>3, RunMsgsEffect
<1>13. CASE Commit
  BY <1>13 DEF Commit, working, HolderInv, HoldersHaveAccounts
<1>14. CASE UNCHANGED vars
  BY <1>14 DEF vars, working, HolderInv, HoldersHaveAccounts
<1>15. QED
  BY <1>5, <1>7, <1>8, <1>9, <1>11, <1>12, <1>13, <1>14 DEF Next

\* Whoever holds a coin has an account, and can send it.
THEOREM EveryHolderHasAnAccount == Spec => []HoldersHaveAccounts
<1>1. HolderInv => HoldersHaveAccounts
  BY DEF HolderInv
<1>2. QED
  BY <1>1, TypeInvInit, TypeInvStep, AccountInvInit, AccountInvStep,
     HolderInvInit, HolderInvStep, PTL DEF Spec

-----------------------------------------------------------------------------
(* Payments.                                                               *)

\* Only the payer has lost coins in the ante handlers, only signers in the
\* messages, and by then their signatures are spent.
PaymentInv ==
  /\ InAnte => \A a \in Address, d \in Denom :
                 balances[a][d] < kept.balances[a][d] => a = FeePayer(tx)
  /\ phase = "messages" =>
       /\ executed # <<>>
       /\ executed[Len(executed)].tx = tx
       /\ \A a \in Signers(tx) :
            /\ a \in DOMAIN tx.sigs
            /\ kept.accounts[a] # None
            /\ kept.accounts[a].sequence = tx.sigs[a].sequence + 1
            /\ tx.sigs[a].over = tx.raw
       /\ \A a \in Address, d \in Denom :
            balances[a][d] < kept.balances[a][d] => a \in Signers(tx)

\* What IncrementSequences leaves in the chain's own state.
LEMMA IncrementKept ==
  ASSUME TypeInv, IncrementSequences
  PROVE  /\ phase = "sequence" /\ tx \in Tx
         /\ phase' = "messages" /\ tx' = tx /\ balances' = balances
         /\ kept'.accounts = accounts' /\ kept'.balances = balances
         /\ executed' # <<>>
         /\ executed'[Len(executed')].tx = tx
         /\ \A a \in Signers(tx) :
              /\ a \in DOMAIN tx.sigs
              /\ kept'.accounts[a] # None
              /\ kept'.accounts[a].sequence = tx.sigs[a].sequence + 1
              /\ tx.sigs[a].over = tx.raw
<1>1. /\ phase = "sequence" /\ tx \in Tx /\ executed \in Seq([tx: Tx, block: Nat])
      /\ height \in Nat
  BY DEF TypeInv, TypeOK, IncrementSequences
<1>2. /\ phase' = "messages" /\ tx' = tx /\ balances' = balances
      /\ kept'.accounts = accounts' /\ kept'.balances = balances
      /\ executed' = Append(executed, [tx |-> tx, block |-> height + 1])
  BY DEF IncrementSequences, WriteThenClearTxCaches
<1>3. executed' # <<>> /\ executed'[Len(executed')].tx = tx
  BY <1>1, <1>2
<1>4. \A a \in Signers(tx) :
        /\ a \in DOMAIN tx.sigs
        /\ accounts'[a] # None
        /\ accounts'[a].sequence = tx.sigs[a].sequence + 1
  BY <1>1, IncrementEffect, PayerSigns
<1>5. \A a \in Signers(tx) : tx.sigs[a].over = tx.raw
  BY <1>1 DEF TypeInv, SignersVerified, Verifies
<1>6. QED BY <1>1, <1>2, <1>3, <1>4, <1>5

LEMMA PaymentInvStep ==
  TypeInv /\ AccountInv /\ PaymentInv /\ [Next]_vars => PaymentInv'
<1> SUFFICES ASSUME TypeInv, AccountInv, PaymentInv, [Next]_vars
             PROVE  PaymentInv'
  OBVIOUS
<1>1. TypeOK
  BY DEF TypeInv
<1>2. /\ balances \in [Address -> [Denom -> Nat]]
      /\ kept.balances \in [Address -> [Denom -> Nat]]
  BY <1>1 DEF TypeOK
<1>3. ASSUME phase' \in {"idle", "poisoned"} PROVE PaymentInv'
  BY <1>3 DEF PaymentInv, InAnte
<1>4. CASE Reject
  BY <1>3, <1>4 DEF Reject, Return
\* No balance changes.
<1>5. ASSUME UNCHANGED <<kept, balances, tx, executed>>,
             InAnte' => InAnte, phase' = "messages" => phase = "messages"
      PROVE  PaymentInv'
  BY <1>5 DEF PaymentInv
<1>6. ASSUME NEW t \in Tx, DeliverTx(t)
      PROVE  PaymentInv'
  <2>1. /\ balances = kept.balances /\ UNCHANGED <<balances, kept>>
        /\ phase' \in {"fee", "keys"}
    BY <1>6 DEF DeliverTx, AccountInv
  <2>2. \A a \in Address, d \in Denom : ~(balances'[a][d] < kept'.balances[a][d])
    BY <1>2, <2>1
  <2>3. QED BY <2>1, <2>2 DEF PaymentInv
<1>7. CASE DeductFee
  <2>1. phase = "fee"
    BY <1>1, <1>7, DeductFeeEffect
  <2>2. CASE CoinMoved(FeePayer(tx), FeeCollector)
    <3>1. /\ UNCHANGED <<kept, phase, tx>>
          /\ balances' \in [Address -> [Denom -> Nat]]
          /\ \A a \in Address, d \in Denom :
               balances'[a][d] < balances[a][d] => a = FeePayer(tx)
      BY <2>2 DEF CoinMoved
    <3>2. ASSUME NEW a \in Address, NEW d \in Denom,
                 balances'[a][d] < kept'.balances[a][d]
          PROVE  a = FeePayer(tx')
      <4>1. /\ balances[a][d] \in Nat /\ balances'[a][d] \in Nat
            /\ kept.balances[a][d] \in Nat
        BY <1>2, <3>1
      <4>2. balances[a][d] < kept.balances[a][d] => a = FeePayer(tx)
        BY <2>1 DEF PaymentInv, InAnte
      <4>3. FeePayer(tx') = FeePayer(tx)
        BY <3>1
      <4>4. QED BY <3>1, <3>2, <4>1, <4>2, <4>3
    <3>3. QED BY <2>1, <3>1, <3>2 DEF PaymentInv, FeePayer
  <2>3. CASE phase' = "keys" /\ UNCHANGED <<working, kept, tx, executed>>
    BY <1>5, <2>1, <2>3 DEF working, InAnte
  <2>4. QED BY <1>1, <1>4, <1>7, <2>2, <2>3, DeductFeeEffect
<1>8. CASE SetPubKeys
  <2>1. CASE ~Reject
    <3>1. /\ phase = "keys" /\ phase' = "verify"
          /\ UNCHANGED <<balances, kept, tx, executed>>
      BY <1>8, <2>1, SetPubKeysEffect
    <3>2. QED BY <1>5, <3>1 DEF InAnte
  <2>2. QED BY <1>4, <2>1
<1>9. CASE VerifySignatures
  <2>1. CASE phase' = "sequence" /\ UNCHANGED <<working, kept, tx, executed>>
    BY <1>5, <1>9, <2>1 DEF VerifySignatures, working, InAnte
  <2>2. QED BY <1>3, <1>4, <1>9, <2>1 DEF VerifySignatures
<1>10. CASE IncrementSequences
  <2>1. /\ phase' = "messages" /\ tx' = tx /\ tx \in Tx
        /\ kept'.balances = balances' /\ balances' = balances
        /\ executed' # <<>> /\ executed'[Len(executed')].tx = tx
        /\ \A a \in Signers(tx) :
             /\ a \in DOMAIN tx.sigs
             /\ kept'.accounts[a] # None
             /\ kept'.accounts[a].sequence = tx.sigs[a].sequence + 1
             /\ tx.sigs[a].over = tx.raw
    BY <1>10, IncrementKept
  <2>2. \A a \in Address, d \in Denom : ~(balances'[a][d] < kept'.balances[a][d])
    BY <1>2, <2>1
  <2>3. QED BY <2>1, <2>2 DEF PaymentInv, InAnte, Signers
<1>11. CASE RunMsgs
  <2>1. phase = "messages" /\ tx.msgs[msg].from \in Signers(tx)
    BY <1>1, <1>11, RunMsgsEffect
  <2>2. CASE CoinMoved(tx.msgs[msg].from, tx.msgs[msg].to)
    <3>1. /\ UNCHANGED <<kept, phase, tx, executed>>
          /\ balances' \in [Address -> [Denom -> Nat]]
          /\ \A a \in Address, d \in Denom :
               balances'[a][d] < balances[a][d] => a \in Signers(tx)
      BY <2>1, <2>2 DEF CoinMoved
    <3>2. ASSUME NEW a \in Address, NEW d \in Denom,
                 balances'[a][d] < kept.balances[a][d]
          PROVE  a \in Signers(tx)
      <4>1. /\ balances[a][d] \in Nat /\ balances'[a][d] \in Nat
            /\ kept.balances[a][d] \in Nat
        BY <1>2, <3>1
      <4>2. balances[a][d] < kept.balances[a][d] => a \in Signers(tx)
        BY <2>1 DEF PaymentInv
      <4>3. QED BY <3>1, <3>2, <4>1, <4>2
    <3>3. QED BY <2>1, <3>1, <3>2 DEF PaymentInv, InAnte, Signers
  <2>3. CASE UNCHANGED <<balances, executed, kept, phase, tx>>
    BY <1>5, <2>1, <2>3 DEF InAnte
  <2>4. CASE Return
    BY <1>3, <2>4 DEF Return
  <2>5. QED BY <1>1, <1>4, <1>11, <2>2, <2>3, <2>4, RunMsgsEffect
<1>12. CASE Commit
  BY <1>5, <1>12 DEF Commit, working, InAnte
<1>13. CASE UNCHANGED vars
  BY <1>5, <1>13 DEF vars, working, InAnte
<1>14. QED
  BY <1>6, <1>7, <1>8, <1>9, <1>10, <1>11, <1>12, <1>13 DEF Next

\* An address loses coins only by a transaction that came with its signature
\* over the last body and auth_info received, which are the contents executed
\* where the two decodings agree; after the step that signature is spent.
THEOREM OnlySignersEverPay == Spec => OnlySignersPay
<1> DEFINE Pays == \A a \in Address, d \in Denom :
       kept'.balances[a][d] < kept.balances[a][d] =>
         /\ executed' # <<>>
         /\ LET t == executed'[Len(executed')].tx IN
            /\ a \in Signers(t)
            /\ a \in DOMAIN t.sigs
            /\ kept.accounts[a] # None
            /\ kept'.accounts[a].sequence = t.sigs[a].sequence + 1
            /\ t.sigs[a].over = t.raw
            /\ DecodingsAgree(t) => t.sigs[a].over = Contents(t)
<1>1. Init => PaymentInv
  BY DEF Init, PaymentInv, InAnte
<1>2. TypeInv /\ AccountInv /\ HolderInv /\ PaymentInv /\ [Next]_vars => [Pays]_vars
  <2> SUFFICES ASSUME TypeInv, AccountInv, HolderInv, PaymentInv, [Next]_vars,
                      NEW a \in Address, NEW d \in Denom,
                      kept'.balances[a][d] < kept.balances[a][d]
               PROVE  /\ executed' # <<>>
                      /\ LET t == executed'[Len(executed')].tx IN
                         /\ a \in Signers(t)
                         /\ a \in DOMAIN t.sigs
                         /\ kept.accounts[a] # None
                         /\ kept'.accounts[a].sequence = t.sigs[a].sequence + 1
                         /\ t.sigs[a].over = t.raw
                         /\ DecodingsAgree(t) => t.sigs[a].over = Contents(t)
    OBVIOUS
  <2>1. kept.balances[a][d] \in Nat /\ balances[a][d] \in Nat
    BY DEF TypeInv, TypeOK
  <2>2. CASE UNCHANGED <<kept, executed>>
    BY <2>1, <2>2
  <2>3. CASE IncrementSequences
    <3>1. phase = "sequence" /\ tx \in Tx /\ kept'.balances = balances
      BY <2>3, IncrementKept
    <3>2. a = FeePayer(tx)
      BY <3>1 DEF PaymentInv, InAnte
    <3>3. a \in Signers(tx)
      BY <3>1, <3>2, PayerSigns
    <3>4. kept'.balances[a][d] \in Nat
      BY <2>1, <3>1
    <3>5. kept.accounts[a] # None
      BY <2>1, <3>4 DEF HolderInv, HoldersHaveAccounts
    <3>6. QED BY <2>3, <3>3, <3>5, IncrementKept DEF DecodingsAgree
  <2>4. CASE LastMessageDone
    <3>1. /\ phase = "messages" /\ kept'.balances = balances
          /\ kept'.accounts = accounts' /\ executed' = executed
          /\ \A b \in Address : accounts[b] # None => accounts'[b] = accounts[b]
      BY <2>4 DEF LastMessageDone, WriteThenClearTxCaches
    <3>2. a \in Signers(tx)
      BY <3>1 DEF PaymentInv
    <3>3. /\ executed # <<>> /\ executed[Len(executed)].tx = tx
          /\ a \in DOMAIN tx.sigs /\ kept.accounts[a] # None
          /\ kept.accounts[a].sequence = tx.sigs[a].sequence + 1
          /\ tx.sigs[a].over = tx.raw
      BY <3>1, <3>2 DEF PaymentInv
    <3>4. kept'.accounts[a].sequence = kept.accounts[a].sequence
      BY <3>1, <3>3 DEF AccountInv, SameAccounts
    <3>5. QED BY <3>1, <3>2, <3>3, <3>4 DEF DecodingsAgree
  <2>5. QED BY <2>2, <2>3, <2>4, KeptSteps
<1>3. QED
  BY <1>1, <1>2, TypeInvInit, TypeInvStep, AccountInvInit, AccountInvStep,
     HolderInvInit, HolderInvStep, PaymentInvStep, PTL DEF Spec, OnlySignersPay

-----------------------------------------------------------------------------
(* Panics.                                                                 *)

\* When the signatures are verified, the keys the transaction gave are set.
KeyInv ==
  /\ OnlyBadSignaturesPanic
  /\ phase = "verify" => \A a \in DOMAIN tx.sigs : tx.sigs[a].withKey =>
       accounts[a] # None /\ accounts[a].hasKey

LEMMA KeyInvStep ==
  TypeInv /\ AccountInv /\ KeyInv /\ [Next]_vars => KeyInv'
<1> SUFFICES ASSUME TypeInv, AccountInv, KeyInv, [Next]_vars PROVE KeyInv'
  OBVIOUS
<1>1. TypeOK
  BY DEF TypeInv
<1>2. ASSUME phase' \notin {"verify", "poisoned"} PROVE KeyInv'
  BY <1>2 DEF KeyInv, OnlyBadSignaturesPanic
<1>3. CASE Reject
  BY <1>2, <1>3 DEF Reject, Return
<1>4. CASE \E t \in Tx : DeliverTx(t)
  BY <1>2, <1>4 DEF DeliverTx
<1>5. CASE DeductFee
  BY <1>1, <1>2, <1>3, <1>5, DeductFeeEffect DEF CoinMoved
<1>6. CASE SetPubKeys
  <2>1. CASE ~Reject
    <3>1. /\ phase' = "verify" /\ tx' = tx
          /\ \A a \in DOMAIN tx.sigs : tx.sigs[a].withKey =>
               accounts'[a] # None /\ accounts'[a].hasKey
      BY <1>6, <2>1, SetPubKeysEffect
    <3>2. QED BY <3>1 DEF KeyInv, OnlyBadSignaturesPanic
  <2>2. QED BY <1>3, <2>1
<1>7. CASE VerifySignatures
  <2>1. CASE phase' = "sequence"
    BY <1>2, <2>1
  <2>2. CASE /\ \E a \in Signers(tx) : Panics(a)
             /\ phase' = "poisoned"
             /\ UNCHANGED <<working, kept, height, tx, msg, owed, executed>>
    <3>1. phase = "verify" /\ tx \in Tx
      BY <1>1, <1>7 DEF VerifySignatures, TypeOK
    <3>2. PICK a \in Signers(tx) : Panics(a)
      BY <2>2
    <3>3. /\ a \in Address /\ a \in DOMAIN tx.sigs /\ accounts[a] # None
          /\ accounts[a].sequence = tx.sigs[a].sequence
          /\ ~accounts[a].hasKey \/ ~tx.sigs[a].compact
      BY <3>1, <3>2, PayerSigns DEF Panics, HasSequence
    <3>4. kept.accounts[a] # None
      BY <3>1, <3>3 DEF AccountInv, InAnte
    <3>5. /\ kept.accounts[a].sequence = tx.sigs[a].sequence
          /\ ~accounts[a].hasKey => ~kept.accounts[a].hasKey
      BY <3>3, <3>4 DEF AccountInv, SameAccounts
    <3>6. ~accounts[a].hasKey => ~tx.sigs[a].withKey
      BY <3>1, <3>3 DEF KeyInv
    <3>7. OnlyBadSignaturesPanic'
      BY <2>2, <3>2, <3>3, <3>4, <3>5, <3>6 DEF OnlyBadSignaturesPanic
    <3>8. QED BY <2>2, <3>7 DEF KeyInv
  <2>3. QED BY <1>3, <1>7, <2>1, <2>2 DEF VerifySignatures
<1>8. CASE IncrementSequences
  BY <1>2, <1>8 DEF IncrementSequences
<1>9. CASE RunMsgs
  BY <1>1, <1>2, <1>3, <1>9, RunMsgsEffect DEF CoinMoved, Return
<1>10. CASE Commit
  BY <1>2, <1>10 DEF Commit
<1>11. CASE UNCHANGED vars
  BY <1>11 DEF vars, working, KeyInv, OnlyBadSignaturesPanic
<1>12. QED
  BY <1>4, <1>5, <1>6, <1>7, <1>8, <1>9, <1>10, <1>11 DEF Next

\* The verification of signatures panics only for a signer with the sequence
\* the chain has of it, and whose signature is not compact or who has no public
\* key and gives none.
THEOREM OnlyBadSignaturesEverPanic == Spec => []OnlyBadSignaturesPanic
<1>1. Init => KeyInv
  BY DEF Init, KeyInv, OnlyBadSignaturesPanic
<1>2. KeyInv => OnlyBadSignaturesPanic
  BY DEF KeyInv
<1>3. QED
  BY <1>1, <1>2, TypeInvInit, TypeInvStep, AccountInvInit, AccountInvStep,
     KeyInvStep, PTL DEF Spec

-----------------------------------------------------------------------------
(* Timeouts.                                                               *)

\* The height stays what it was when the timeout was looked at until the
\* transaction is recorded: Commit waits for run_tx.
TimeoutInv ==
  /\ TimeoutIsAtMostOneBlockLate
  /\ InAnte => NotExpired(tx)

LEMMA TimeoutInvStep ==
  TypeInv /\ TimeoutInv /\ [Next]_vars => TimeoutInv'
<1> SUFFICES ASSUME TypeInv, TimeoutInv, [Next]_vars PROVE TimeoutInv'
  OBVIOUS
<1>1. TypeOK
  BY DEF TypeInv
<1>2. InAnte' => NotExpired(tx)'
  <2>1. ASSUME InAnte, tx' = tx, height' = height PROVE NotExpired(tx)'
    BY <2>1 DEF TimeoutInv, NotExpired
  <2>2. ASSUME phase' \in {"idle", "messages", "poisoned"} PROVE ~InAnte'
    BY <2>2 DEF InAnte
  <2>3. CASE Reject
    BY <2>2, <2>3 DEF Reject, Return
  <2>4. CASE \E t \in Tx : DeliverTx(t)
    BY <2>4 DEF DeliverTx, NotExpired
  <2>5. CASE DeductFee
    BY <1>1, <2>1, <2>3, <2>5, DeductFeeEffect DEF CoinMoved, InAnte
  <2>6. CASE SetPubKeys
    BY <2>1, <2>3, <2>6, SetPubKeysEffect DEF InAnte
  <2>7. CASE VerifySignatures
    BY <2>1, <2>2, <2>3, <2>7 DEF VerifySignatures, InAnte
  <2>8. CASE IncrementSequences
    BY <2>2, <2>8 DEF IncrementSequences
  <2>9. CASE RunMsgs
    BY <1>1, <2>2, <2>3, <2>9, RunMsgsEffect DEF CoinMoved, Return
  <2>10. CASE Commit
    BY <2>2, <2>10 DEF Commit
  <2>11. CASE UNCHANGED vars
    <3>1. UNCHANGED <<phase, tx, height>>
      BY <2>11 DEF vars
    <3>2. QED BY <2>1, <3>1 DEF InAnte
  <2>12. QED
    BY <2>4, <2>5, <2>6, <2>7, <2>8, <2>9, <2>10, <2>11 DEF Next
<1>3. CASE executed' = executed
  BY <1>2, <1>3 DEF TimeoutInv, TimeoutIsAtMostOneBlockLate
<1>4. CASE IncrementSequences
  <2>1. /\ tx \in Tx /\ phase = "sequence"
        /\ executed' = Append(executed, [tx |-> tx, block |-> height + 1])
    BY <1>1, <1>4 DEF IncrementSequences, TypeOK
  <2>2. tx.timeout # 0 => height + 1 <= tx.timeout + 1
    <3>1. height \in Nat /\ tx.timeout \in Nat
      BY <1>1, <2>1, TxAssumption DEF TypeOK, IsTx
    <3>2. QED BY <2>1, <3>1 DEF TimeoutInv, InAnte, NotExpired
  <2> DEFINE n == Len(executed)
  <2>3. /\ n \in Nat /\ DOMAIN executed = 1..n
        /\ DOMAIN executed' = 1..(n + 1)
        /\ executed'[n + 1].tx = tx /\ executed'[n + 1].block = height + 1
        /\ \A i \in 1..n : executed'[i] = executed[i]
    BY <1>1, <2>1 DEF TypeOK
  <2> HIDE DEF n
  <2>4. \A i \in DOMAIN executed' : i \in 1..n \/ i = n + 1
    BY <2>3
  <2>5. TimeoutIsAtMostOneBlockLate'
    <3> SUFFICES ASSUME NEW i \in DOMAIN executed', executed'[i].tx.timeout # 0
                 PROVE  executed'[i].block <= executed'[i].tx.timeout + 1
      BY DEF TimeoutIsAtMostOneBlockLate
    <3>1. CASE i = n + 1
      BY <2>2, <2>3, <3>1
    <3>2. CASE i \in 1..n
      BY <2>3, <3>2 DEF TimeoutInv, TimeoutIsAtMostOneBlockLate
    <3>3. QED BY <2>4, <3>1, <3>2
  <2>6. QED BY <1>2, <2>5 DEF TimeoutInv
<1>5. QED BY <1>3, <1>4, KeptSteps DEF LastMessageDone

\* No transaction is executed later than the block after its timeout's.
THEOREM TimeoutsAreAtMostOneBlockLate == Spec => []TimeoutIsAtMostOneBlockLate
<1>1. Init => TimeoutInv
  BY DEF Init, TimeoutInv, TimeoutIsAtMostOneBlockLate, InAnte
<1>2. TimeoutInv => TimeoutIsAtMostOneBlockLate
  BY DEF TimeoutInv
<1>3. QED
  BY <1>1, <1>2, TypeInvInit, TypeInvStep, TimeoutInvStep, PTL DEF Spec

-----------------------------------------------------------------------------
(* Supply.                                                                 *)

LEMMA TotalsAreNumbers ==
  ASSUME NEW b \in [Address -> [Denom -> Nat]], NEW d \in Denom
  PROVE  /\ Total(b, d) \in Int
         /\ Total(b, d) = SumFunctionOnSet([a \in Address |-> b[a][d]], Address)
<1> DEFINE f == [a \in Address |-> b[a][d]]
<1>1. Total(b, d) = SumFunctionOnSet(f, Address)
  <2>1. DOMAIN f = Address
    OBVIOUS
  <2> HIDE DEF f
  <2>2. SumFunction(f) = SumFunctionOnSet(f, Address)
    BY <2>1, Zenon DEF SumFunction
  <2>3. QED BY <2>2 DEF Total, f
<1>2. \A a \in Address : f[a] \in Int
  OBVIOUS
<1> HIDE DEF f
<1>3. SumFunctionOnSet(f, Address) \in Int
  BY <1>2, AddressAssumption, SumWithout
<1>4. QED BY <1>1, <1>3 DEF f

\* A transfer leaves the totals as they are.
LEMMA TransfersConserve ==
  ASSUME TypeOK, NEW from \in Address, NEW to \in Address, CoinMoved(from, to),
         NEW d \in Denom
  PROVE  Total(balances', d) = Total(balances, d)
<1> DEFINE old == [a \in Address |-> balances[a][d]]
           credited == [a \in Address |->
                          IF a = to THEN old[a] + Settled(d) ELSE old[a]]
           new == [a \in Address |-> balances'[a][d]]
           lost == 0 - Settled(d)
<1>1. /\ balances \in [Address -> [Denom -> Nat]]
      /\ balances' \in [Address -> [Denom -> Nat]]
      /\ Settled(d) \in Int /\ lost \in Int
      /\ \A a \in Address :
           balances'[a][d] = balances[a][d] + (IF a = to THEN Settled(d) ELSE 0)
                                            - (IF a = from THEN Settled(d) ELSE 0)
  BY DEF TypeOK, CoinMoved, ExactlyMoved
<1>2. \A a \in Address : old[a] \in Int /\ credited[a] \in Int
  BY <1>1
<1>3. \A a \in Address :
        credited[a] = IF a = to THEN old[a] + Settled(d) ELSE old[a]
  OBVIOUS
<1>4. \A a \in Address :
        new[a] = IF a = from THEN credited[a] + lost ELSE credited[a]
  BY <1>1
<1> DEFINE gained == Settled(d)
<1>5. gained \in Int /\ lost \in Int /\ IsFiniteSet(Address)
  BY <1>1, AddressAssumption
<1>6. /\ Total(balances, d) = SumFunctionOnSet(old, Address)
      /\ Total(balances', d) = SumFunctionOnSet(new, Address)
  BY <1>1, TotalsAreNumbers
<1>7. \A a \in Address :
        credited[a] = IF a = to THEN old[a] + gained ELSE old[a]
  BY <1>3
<1>8. gained + lost = 0
  BY <1>1
<1> HIDE DEF old, credited, new, gained, lost
<1>9. SumFunctionOnSet(credited, Address) = SumFunctionOnSet(old, Address) + gained
  BY <1>5, <1>2, <1>7, SumChanged
<1>10. SumFunctionOnSet(new, Address) = SumFunctionOnSet(credited, Address) + lost
  BY <1>5, <1>2, <1>4, SumChanged
<1>11. SumFunctionOnSet(old, Address) \in Int
  BY <1>5, <1>2, SumWithout
<1>12. QED BY <1>5, <1>6, <1>8, <1>9, <1>10, <1>11

\* What a step does with the balances: nothing, a transfer, or going back.
LEMMA BalanceSteps ==
  ASSUME TypeInv, [Next]_vars
  PROVE  \/ balances' = balances /\ kept'.balances \in {kept.balances, balances}
         \/ Reject
         \/ /\ kept' = kept
            /\ \E from, to \in Address : CoinMoved(from, to)
<1>1. TypeOK
  BY DEF TypeInv
<1>2. CASE DeductFee
  <2>1. FeePayer(tx) \in Address /\ FeeCollector \in Address
    BY <1>1, <1>2, DeductFeeEffect, PayerSigns, AddressAssumption
  <2>2. QED BY <1>1, <1>2, <2>1, DeductFeeEffect DEF CoinMoved, working
<1>3. CASE RunMsgs
  <2>1. tx.msgs[msg].from \in Address /\ tx.msgs[msg].to \in Address
    BY <1>1, <1>3, RunMsgsEffect, PayerSigns
  <2>2. CASE CoinMoved(tx.msgs[msg].from, tx.msgs[msg].to)
    BY <2>1, <2>2 DEF CoinMoved
  <2>3. CASE /\ UNCHANGED balances
             /\ UNCHANGED kept \/ WriteThenClearTxCaches
    BY <2>3 DEF WriteThenClearTxCaches
  <2>4. QED BY <1>1, <1>3, <2>2, <2>3, RunMsgsEffect
<1>4. CASE IncrementSequences
  BY <1>4, IncrementKept
<1>5. CASE SetPubKeys
  BY <1>5, SetPubKeysEffect
<1>6. CASE ~DeductFee /\ ~RunMsgs /\ ~IncrementSequences /\ ~SetPubKeys
  BY <1>6 DEF Next, DeliverTx, VerifySignatures, Commit, vars, working
<1>7. QED BY <1>2, <1>3, <1>4, <1>5, <1>6

\* The balances add up to the supply that genesis recorded, in the chain's own
\* state and in that of the transaction being executed, whatever fails
\* (bank/src/keeper.rs, send_coins).
THEOREM TheSupplyIsConserved == Spec => []SupplyIsConserved
<1>1. Init => SupplyIsConserved
  BY DEF Init, SupplyIsConserved
<1>2. TypeInv /\ SupplyIsConserved /\ [Next]_vars => SupplyIsConserved'
  <2> SUFFICES ASSUME TypeInv, SupplyIsConserved, [Next]_vars, NEW d \in Denom
               PROVE  /\ Total(balances', d) = Total(GenesisBalances, d)
                      /\ Total(kept'.balances, d) = Total(GenesisBalances, d)
    BY DEF SupplyIsConserved
  <2>1. /\ Total(balances, d) = Total(GenesisBalances, d)
        /\ Total(kept.balances, d) = Total(GenesisBalances, d)
    BY DEF SupplyIsConserved
  <2>2. CASE Reject
    BY <2>1, <2>2 DEF Reject, ClearTxCaches
  <2>3. ASSUME NEW from \in Address, NEW to \in Address, CoinMoved(from, to)
        PROVE  Total(balances', d) = Total(balances, d)
    BY <2>3, TransfersConserve DEF TypeInv
  <2>4. QED BY <2>1, <2>2, <2>3, BalanceSteps
<1>3. QED BY <1>1, <1>2, TypeInvInit, TypeInvStep, PTL DEF Spec

-----------------------------------------------------------------------------
(* What has been moved so far.                                             *)

\* The part of the fee that has gone to the fee collector.
FeePaid(d) == AmountOf(tx.fee, d) - (IF phase = "fee" THEN AmountOf(owed, d) ELSE 0)

Receipts(t, a) == {i \in DOMAIN t.msgs : t.msgs[i].to = a}

Payments(t, a) == {i \in DOMAIN t.msgs : t.msgs[i].from = a}

\* What the messages in P have moved when the n-th still owes coins.
MovedIn(t, P, d, n, coins) ==
  SumFunctionOnSet(MsgAmounts(t, d), P \cap (1..n))
  - (IF n \in P THEN AmountOf(coins, d) ELSE 0)

\* The balances differ from those kept by exactly what has been moved.
BalanceInv ==
  /\ InAnte => \A a \in Address, d \in Denom :
       balances[a][d] = kept.balances[a][d]
         + (IF a = FeeCollector THEN FeePaid(d) ELSE 0)
         - (IF a = FeePayer(tx) THEN FeePaid(d) ELSE 0)
  /\ phase = "messages" => \A a \in Address, d \in Denom :
       balances[a][d] = kept.balances[a][d]
         + MovedIn(tx, Receipts(tx, a), d, msg, owed)
         - MovedIn(tx, Payments(tx, a), d, msg, owed)

LEMMA AmountsOfMessages ==
  ASSUME NEW t \in Tx, NEW d
  PROVE  /\ DOMAIN t.msgs = 1..Len(t.msgs) /\ Len(t.msgs) \in Nat
         /\ AmountOf(t.fee, d) \in Nat
         /\ \A i \in DOMAIN t.msgs :
              /\ MsgAmounts(t, d)[i] = AmountOf(t.msgs[i].coins, d)
              /\ MsgAmounts(t, d)[i] \in Nat
<1>1. /\ DOMAIN t.msgs = 1..Len(t.msgs) /\ Len(t.msgs) \in Nat
      /\ IsCoins(t.fee)
      /\ \A i \in DOMAIN t.msgs : IsCoins(t.msgs[i].coins)
  BY TxAssumption DEF IsTx, IsMsg
<1>2. \A i \in DOMAIN t.msgs : MsgAmounts(t, d)[i] = AmountOf(t.msgs[i].coins, d)
  BY DEF MsgAmounts
<1>3. QED BY <1>1, <1>2, Amounts

LEMMA MessageNumbers ==
  ASSUME NEW t \in Tx, NEW n \in DOMAIN t.msgs
  PROVE  n \in Nat /\ n <= Len(t.msgs) /\ n - 1 \in Nat /\ n - 1 <= Len(t.msgs)
BY TxAssumption DEF IsTx

\* What the first m messages move as far as they are in P.
SumUpTo(t, P, d, m) == SumFunctionOnSet(MsgAmounts(t, d), P \cap (1..m))

LEMMA SumsOfMessages ==
  ASSUME NEW t \in Tx, NEW d, NEW P \in SUBSET DOMAIN t.msgs,
         NEW m \in Nat, m <= Len(t.msgs)
  PROVE  /\ SumUpTo(t, P, d, m) \in Int
         /\ m = 0 => SumUpTo(t, P, d, m) = 0
         /\ m = Len(t.msgs) =>
              SumUpTo(t, P, d, m) = SumFunctionOnSet(MsgAmounts(t, d), P)
         /\ m \in P => SumUpTo(t, P, d, m) =
              SumUpTo(t, P, d, m - 1) + AmountOf(t.msgs[m].coins, d)
         /\ m \notin P => SumUpTo(t, P, d, m) = SumUpTo(t, P, d, m - 1)
<1> DEFINE f == MsgAmounts(t, d)
           all == Len(t.msgs)
           S == P \cap (1..m)
           R == P \cap (1..(m - 1))
<1>1. /\ DOMAIN t.msgs = 1..all /\ all \in Nat
      /\ \A i \in 1..all : f[i] \in Int /\ f[i] = AmountOf(t.msgs[i].coins, d)
  BY AmountsOfMessages
<1>2. /\ SumUpTo(t, P, d, m) = SumFunctionOnSet(f, S)
      /\ SumUpTo(t, P, d, m - 1) = SumFunctionOnSet(f, R)
  BY DEF SumUpTo
<1> HIDE DEF f, all
<1>3. /\ IsFiniteSet(S) /\ IsFiniteSet(R)
      /\ \A i \in S : f[i] \in Int
      /\ \A i \in R : f[i] \in Int
  <2>1. IsFiniteSet(1..m)
    BY 1 \in Int, m \in Int, FS_Interval
  <2>2. S \subseteq 1..m /\ R \subseteq 1..m /\ S \subseteq 1..all /\ R \subseteq 1..all
    BY <1>1
  <2>3. IsFiniteSet(S) /\ IsFiniteSet(R)
    BY <2>1, <2>2, FS_Subset
  <2>4. QED BY <1>1, <2>2, <2>3
<1>4. m = all => S = P
  BY <1>1
<1>5. m = 0 => S = {}
  OBVIOUS
<1>6. m \notin P => S = R
  BY <1>1
<1>7. ASSUME m \in P
      PROVE  S = R \cup {m} /\ m \notin R /\ f[m] \in Int /\ f[m] = AmountOf(t.msgs[m].coins, d)
  BY <1>1, <1>7
<1> HIDE DEF S, R
<1>8. SumFunctionOnSet(f, S) \in Int /\ (S = {} => SumFunctionOnSet(f, S) = 0)
  BY <1>3, SumWithout
<1>9. ASSUME m \in P PROVE SumFunctionOnSet(f, S) = SumFunctionOnSet(f, R) + f[m]
  <2>1. SumFunctionOnSet(f, R \cup {m}) = SumFunctionOnSet(f, R) + f[m]
    BY <1>3, <1>7, <1>9, SumWith
  <2>2. QED BY <1>7, <1>9, <2>1
<1>10. QED BY <1>2, <1>4, <1>5, <1>6, <1>7, <1>8, <1>9 DEF f, all

\* What has been moved is a number; it grows with every coin of the n-th
\* message, and not when a message begins or the last one ends.
LEMMA MovedInIsNumber ==
  ASSUME NEW t \in Tx, NEW d, NEW P \in SUBSET DOMAIN t.msgs,
         NEW n \in DOMAIN t.msgs, NEW coins, IsCoins(coins)
  PROVE  MovedIn(t, P, d, n, coins) \in Int
<1>1. SumUpTo(t, P, d, n) \in Int
  <2>1. n \in Nat /\ n <= Len(t.msgs)
    BY MessageNumbers
  <2>2. QED BY <2>1, SumsOfMessages
<1>2. AmountOf(coins, d) \in Nat
  BY Amounts
<1>3. QED BY <1>1, <1>2 DEF MovedIn, SumUpTo

LEMMA CoinOfMessageMoved ==
  ASSUME NEW t \in Tx, NEW d, NEW P \in SUBSET DOMAIN t.msgs,
         NEW n \in DOMAIN t.msgs, NEW coins, IsCoins(coins), NEW rest, IsCoins(rest)
  PROVE  /\ n \in P => MovedIn(t, P, d, n, rest) =
              MovedIn(t, P, d, n, coins) + (AmountOf(coins, d) - AmountOf(rest, d))
         /\ n \notin P => MovedIn(t, P, d, n, rest) = MovedIn(t, P, d, n, coins)
<1>1. SumUpTo(t, P, d, n) \in Int
  <2>1. n \in Nat /\ n <= Len(t.msgs)
    BY MessageNumbers
  <2>2. QED BY <2>1, SumsOfMessages
<1>2. AmountOf(coins, d) \in Nat /\ AmountOf(rest, d) \in Nat
  BY Amounts
<1>3. QED BY <1>1, <1>2 DEF MovedIn, SumUpTo

LEMMA MessageBegins ==
  ASSUME NEW t \in Tx, NEW d, NEW P \in SUBSET DOMAIN t.msgs,
         NEW n \in DOMAIN t.msgs
  PROVE  MovedIn(t, P, d, n, t.msgs[n].coins) = SumUpTo(t, P, d, n - 1)
<1>1. n \in Nat /\ n <= Len(t.msgs) /\ n - 1 \in Nat /\ n - 1 <= Len(t.msgs)
  BY MessageNumbers
<1>2. SumUpTo(t, P, d, n - 1) \in Int
  BY <1>1, SumsOfMessages
<1>3. AmountOf(t.msgs[n].coins, d) \in Nat
  BY AmountsOfMessages
<1>4. /\ n \in P => SumUpTo(t, P, d, n) =
            SumUpTo(t, P, d, n - 1) + AmountOf(t.msgs[n].coins, d)
      /\ n \notin P => SumUpTo(t, P, d, n) = SumUpTo(t, P, d, n - 1)
  BY <1>1, SumsOfMessages
<1>5. MovedIn(t, P, d, n, t.msgs[n].coins) =
        SumUpTo(t, P, d, n) - (IF n \in P THEN AmountOf(t.msgs[n].coins, d) ELSE 0)
  BY DEF MovedIn, SumUpTo
<1>6. QED BY <1>2, <1>3, <1>4, <1>5

LEMMA MessageEnds ==
  ASSUME NEW t \in Tx, NEW d, NEW P \in SUBSET DOMAIN t.msgs,
         NEW n \in DOMAIN t.msgs
  PROVE  MovedIn(t, P, d, n, <<>>) = SumUpTo(t, P, d, n)
<1>1. SumUpTo(t, P, d, n) \in Int
  <2>1. n \in Nat /\ n <= Len(t.msgs)
    BY MessageNumbers
  <2>2. QED BY <2>1, SumsOfMessages
<1>2. AmountOf(<<>>, d) = 0
  BY Amounts
<1>3. QED BY <1>1, <1>2 DEF MovedIn, SumUpTo

LEMMA ReceiptsAndPayments ==
  ASSUME NEW t \in Tx, NEW a, NEW d
  PROVE  /\ Receipts(t, a) \in SUBSET DOMAIN t.msgs
         /\ Payments(t, a) \in SUBSET DOMAIN t.msgs
         /\ Received(t, a, d) = SumFunctionOnSet(MsgAmounts(t, d), Receipts(t, a))
         /\ Sent(t, a, d) = SumFunctionOnSet(MsgAmounts(t, d), Payments(t, a))
BY DEF Receipts, Payments, Received, Sent

LEMMA BalanceInvStep ==
  TypeInv /\ AccountInv /\ BalanceInv /\ [Next]_vars => BalanceInv'
<1> SUFFICES ASSUME TypeInv, AccountInv, BalanceInv, [Next]_vars
             PROVE  BalanceInv'
  OBVIOUS
<1>1. TypeOK
  BY DEF TypeInv
<1>2. /\ balances \in [Address -> [Denom -> Nat]]
      /\ kept.balances \in [Address -> [Denom -> Nat]]
  BY <1>1 DEF TypeOK
<1>3. ASSUME phase' \in {"idle", "poisoned"} PROVE BalanceInv'
  BY <1>3 DEF BalanceInv, InAnte
<1>4. CASE Reject
  BY <1>3, <1>4 DEF Reject, Return
\* The fee is paid, and no message has begun.
<1>5. ASSUME UNCHANGED <<kept, balances, tx>>, phase \in {"keys", "verify", "sequence"},
             phase' \in {"keys", "verify", "sequence"}
      PROVE  BalanceInv'
  BY <1>5 DEF BalanceInv, InAnte, FeePaid
<1>6. ASSUME NEW t \in Tx, DeliverTx(t)
      PROVE  BalanceInv'
  <2>1. /\ balances = kept.balances /\ UNCHANGED <<balances, kept>>
        /\ tx' = t /\ owed' = t.fee
        /\ \/ phase' = "fee"
           \/ phase' = "keys" /\ t.fee = <<>>
    BY <1>6 DEF DeliverTx, AccountInv
  <2>2. \A d : FeePaid(d)' = 0
    <3>1. \A d : AmountOf(t.fee, d) \in Nat
      BY AmountsOfMessages
    <3>2. \A d : AmountOf(<<>>, d) = 0
      BY Amounts
    <3>3. QED BY <2>1, <3>1, <3>2 DEF FeePaid
  <2>3. QED BY <1>2, <2>1, <2>2 DEF BalanceInv, InAnte
<1>7. CASE DeductFee
  <2>1. phase = "fee" /\ tx \in Tx
    BY <1>1, <1>7, DeductFeeEffect
  <2>2. CASE CoinMoved(FeePayer(tx), FeeCollector)
    <3>1. /\ UNCHANGED <<kept, phase, tx>>
          /\ IsCoins(owed')
          /\ balances' \in [Address -> [Denom -> Nat]]
          /\ \A a \in Address, d \in Denom :
               balances'[a][d] = balances[a][d]
                 + (IF a = FeeCollector THEN Settled(d) ELSE 0)
                 - (IF a = FeePayer(tx) THEN Settled(d) ELSE 0)
      BY <2>2 DEF CoinMoved, ExactlyMoved
    <3>2. \A d : /\ AmountOf(owed, d) \in Nat /\ AmountOf(owed', d) \in Nat
                 /\ AmountOf(tx.fee, d) \in Nat
      BY <1>1, <2>1, <3>1, Amounts, AmountsOfMessages DEF TypeOK
    <3>3. \A d : /\ FeePaid(d)' = FeePaid(d) + Settled(d)
                 /\ FeePaid(d) \in Int /\ Settled(d) \in Int
      BY <2>1, <3>1, <3>2 DEF FeePaid, Settled
    <3>4. ASSUME NEW a \in Address, NEW d \in Denom
          PROVE  balances'[a][d] = kept.balances[a][d]
                   + (IF a = FeeCollector THEN FeePaid(d)' ELSE 0)
                   - (IF a = FeePayer(tx) THEN FeePaid(d)' ELSE 0)
      <4>1. balances[a][d] = kept.balances[a][d]
              + (IF a = FeeCollector THEN FeePaid(d) ELSE 0)
              - (IF a = FeePayer(tx) THEN FeePaid(d) ELSE 0)
        BY <2>1 DEF BalanceInv, InAnte
      <4>2. kept.balances[a][d] \in Nat
        BY <1>2
      <4> DEFINE paid == FeePaid(d)
                 paid2 == FeePaid(d)'
                 more == Settled(d)
      <4>3. paid2 = paid + more /\ paid \in Int /\ more \in Int
        BY <3>3
      <4>4. /\ balances[a][d] = kept.balances[a][d]
                + (IF a = FeeCollector THEN paid ELSE 0)
                - (IF a = FeePayer(tx) THEN paid ELSE 0)
            /\ balances'[a][d] = balances[a][d]
                + (IF a = FeeCollector THEN more ELSE 0)
                - (IF a = FeePayer(tx) THEN more ELSE 0)
        BY <3>1, <4>1
      <4> HIDE DEF paid, paid2, more
      <4>5. balances'[a][d] = kept.balances[a][d]
              + (IF a = FeeCollector THEN paid2 ELSE 0)
              - (IF a = FeePayer(tx) THEN paid2 ELSE 0)
        BY <4>2, <4>3, <4>4
      <4>6. QED BY <4>5 DEF paid2
    <3>5. FeePayer(tx') = FeePayer(tx) /\ kept' = kept /\ phase' = "fee"
      BY <2>1, <3>1
    <3>6. QED BY <3>4, <3>5 DEF BalanceInv, FeePayer
  <2>3. CASE owed = <<>> /\ phase' = "keys" /\ UNCHANGED <<working, kept, tx>>
    <3>1. \A d : FeePaid(d)' = FeePaid(d)
      <4>1. \A d : AmountOf(tx.fee, d) \in Nat /\ AmountOf(owed, d) = 0
        BY <2>1, <2>3, Amounts, AmountsOfMessages
      <4>2. QED BY <2>1, <2>3, <4>1 DEF FeePaid
    <3>2. UNCHANGED <<balances, kept, tx>> /\ phase' = "keys" /\ InAnte
      BY <2>1, <2>3 DEF working, InAnte
    <3>3. FeePayer(tx') = FeePayer(tx)
      BY <3>2
    <3>4. ASSUME NEW a \in Address, NEW d \in Denom
          PROVE  balances'[a][d] = kept'.balances[a][d]
                   + (IF a = FeeCollector THEN FeePaid(d)' ELSE 0)
                   - (IF a = FeePayer(tx') THEN FeePaid(d)' ELSE 0)
      BY <3>1, <3>2, <3>3 DEF BalanceInv
    <3>5. QED BY <3>2, <3>4 DEF BalanceInv, FeePayer
  <2>4. QED BY <1>1, <1>4, <1>7, <2>2, <2>3, DeductFeeEffect
<1>8. CASE SetPubKeys
  BY <1>4, <1>5, <1>8, SetPubKeysEffect
<1>9. CASE VerifySignatures
  BY <1>3, <1>4, <1>5, <1>9 DEF VerifySignatures, working
<1>10. CASE IncrementSequences
  <2>1. /\ tx \in Tx /\ phase' = "messages" /\ tx' = tx
        /\ kept'.balances = balances' /\ balances' = balances
        /\ msg' = 1 /\ owed' = tx.msgs[1].coins
    BY <1>10, IncrementKept DEF IncrementSequences
  <2>2. 1 \in DOMAIN tx.msgs
    BY <2>1, PayerSigns
  <2>3. \A a, d : /\ MovedIn(tx, Receipts(tx, a), d, 1, tx.msgs[1].coins) = 0
                  /\ MovedIn(tx, Payments(tx, a), d, 1, tx.msgs[1].coins) = 0
    <3>1. ASSUME NEW P \in SUBSET DOMAIN tx.msgs, NEW d
          PROVE  MovedIn(tx, P, d, 1, tx.msgs[1].coins) = 0
      <4>1. MovedIn(tx, P, d, 1, tx.msgs[1].coins) = SumUpTo(tx, P, d, 1 - 1)
        BY <2>1, <2>2, MessageBegins
      <4>2. SumUpTo(tx, P, d, 0) = 0
        <5>1. \A m \in Nat : m <= Len(tx.msgs) /\ m = 0 => SumUpTo(tx, P, d, m) = 0
          BY <2>1, SumsOfMessages
        <5>2. 0 <= Len(tx.msgs)
          BY <2>1, AmountsOfMessages
        <5>3. QED BY <5>1, <5>2
      <4>3. QED BY <4>1, <4>2
    <3>2. QED BY <2>1, <3>1, ReceiptsAndPayments
  <2>4. \A a \in Address, d \in Denom : balances'[a][d] = balances'[a][d] + 0 - 0
    BY <1>2, <2>1
  <2>5. ~InAnte'
    BY <2>1 DEF InAnte
  <2>6. ASSUME NEW a \in Address, NEW d \in Denom
        PROVE  balances'[a][d] = kept'.balances[a][d]
                 + MovedIn(tx', Receipts(tx', a), d, msg', owed')
                 - MovedIn(tx', Payments(tx', a), d, msg', owed')
    BY <2>1, <2>3, <2>4
  <2>7. QED BY <2>5, <2>6 DEF BalanceInv, Receipts, Payments, MovedIn, MsgAmounts
<1>11. CASE RunMsgs
  <2>1. /\ phase = "messages" /\ tx \in Tx /\ msg \in DOMAIN tx.msgs
        /\ IsCoins(owed)
    BY <1>1, <1>11, RunMsgsEffect DEF TypeOK
  <2> DEFINE got(a, d) == MovedIn(tx, Receipts(tx, a), d, msg, owed)
             gave(a, d) == MovedIn(tx, Payments(tx, a), d, msg, owed)
             gotNow(a, d) == MovedIn(tx, Receipts(tx, a), d, msg', owed')
             gaveNow(a, d) == MovedIn(tx, Payments(tx, a), d, msg', owed')
  <2>2. \A a \in Address, d \in Denom :
          balances[a][d] = kept.balances[a][d] + got(a, d) - gave(a, d)
    BY <2>1 DEF BalanceInv
  <2>3. ASSUME UNCHANGED <<kept, phase, tx>>,
               \A a \in Address, d \in Denom :
                 balances'[a][d] = kept.balances[a][d] + gotNow(a, d) - gaveNow(a, d)
        PROVE  BalanceInv'
    <3>1. ~InAnte'
      BY <2>1, <2>3 DEF InAnte
    <3>2. QED BY <2>3, <3>1 DEF BalanceInv, Receipts, Payments, MovedIn, MsgAmounts
  <2>4. CASE CoinMoved(tx.msgs[msg].from, tx.msgs[msg].to)
    <3>1. /\ UNCHANGED <<kept, phase, tx, msg>>
          /\ IsCoins(owed')
          /\ \A a \in Address, d \in Denom :
               balances'[a][d] = balances[a][d]
                 + (IF a = tx.msgs[msg].to THEN Settled(d) ELSE 0)
                 - (IF a = tx.msgs[msg].from THEN Settled(d) ELSE 0)
      BY <2>4 DEF CoinMoved, ExactlyMoved
    <3>2. ASSUME NEW P \in SUBSET DOMAIN tx.msgs, NEW d
          PROVE  /\ MovedIn(tx, P, d, msg, owed) \in Int
                 /\ MovedIn(tx, P, d, msg', owed') =
                      MovedIn(tx, P, d, msg, owed) + (IF msg \in P THEN Settled(d) ELSE 0)
      <4>1. msg' = msg
        BY <3>1
      <4>2. MovedIn(tx, P, d, msg, owed) \in Int
        BY <2>1, MovedInIsNumber
      <4>3. /\ msg \in P => MovedIn(tx, P, d, msg, owed') =
                 MovedIn(tx, P, d, msg, owed) + Settled(d)
            /\ msg \notin P =>
                 MovedIn(tx, P, d, msg, owed') = MovedIn(tx, P, d, msg, owed)
        BY <2>1, <3>1, CoinOfMessageMoved DEF Settled
      <4>4. QED BY <4>1, <4>2, <4>3
    <3>3. ASSUME NEW a \in Address, NEW d \in Denom
          PROVE  balances'[a][d] = kept.balances[a][d] + gotNow(a, d) - gaveNow(a, d)
      <4>1. /\ Receipts(tx, a) \in SUBSET DOMAIN tx.msgs
            /\ Payments(tx, a) \in SUBSET DOMAIN tx.msgs
            /\ msg \in Receipts(tx, a) <=> a = tx.msgs[msg].to
            /\ msg \in Payments(tx, a) <=> a = tx.msgs[msg].from
        BY <2>1 DEF Receipts, Payments
      <4> DEFINE more == Settled(d)
                 x == got(a, d)
                 y == gave(a, d)
      <4>2. x \in Int /\ y \in Int
        BY <3>2, <4>1
      <4>3. gotNow(a, d) = x + (IF a = tx.msgs[msg].to THEN more ELSE 0)
        BY <3>2, <4>1
      <4>4. gaveNow(a, d) = y + (IF a = tx.msgs[msg].from THEN more ELSE 0)
        BY <3>2, <4>1
      <4>5. /\ balances[a][d] = kept.balances[a][d] + x - y
            /\ balances'[a][d] = balances[a][d]
                 + (IF a = tx.msgs[msg].to THEN more ELSE 0)
                 - (IF a = tx.msgs[msg].from THEN more ELSE 0)
        BY <2>2, <3>1
      <4>6. more \in Int /\ kept.balances[a][d] \in Nat
        BY <1>2, <2>1, <3>1, Amounts DEF Settled
      <4> HIDE DEF x, y, more, gotNow, gaveNow, got, gave
      <4>7. QED BY <4>2, <4>3, <4>4, <4>5, <4>6
    <3>4. QED
      <4> HIDE DEF gotNow, gaveNow, got, gave
      <4> QED BY <2>3, <3>1, <3>3
  <2>5. CASE /\ owed = <<>> /\ UNCHANGED <<balances, kept, phase, tx>>
             /\ msg' = msg + 1 /\ msg' \in DOMAIN tx.msgs
             /\ owed' = tx.msgs[msg'].coins
    <3>1. ASSUME NEW P \in SUBSET DOMAIN tx.msgs, NEW d
          PROVE  MovedIn(tx, P, d, msg', owed') = MovedIn(tx, P, d, msg, owed)
      <4>1. MovedIn(tx, P, d, msg', tx.msgs[msg'].coins) = SumUpTo(tx, P, d, msg' - 1)
        BY <2>1, <2>5, MessageBegins
      <4>2. MovedIn(tx, P, d, msg, <<>>) = SumUpTo(tx, P, d, msg)
        BY <2>1, MessageEnds
      <4>3. msg' - 1 = msg
        BY <2>1, <2>5, AmountsOfMessages
      <4>4. QED BY <2>5, <4>1, <4>2, <4>3
    <3>2. ASSUME NEW a \in Address, NEW d \in Denom
          PROVE  gotNow(a, d) = got(a, d) /\ gaveNow(a, d) = gave(a, d)
      BY <2>1, <3>1, ReceiptsAndPayments
    <3> HIDE DEF got, gave, gotNow, gaveNow
    <3>3. QED BY <2>2, <2>3, <2>5, <3>2
  <2>6. CASE Return
    BY <1>3, <2>6 DEF Return
  <2>7. QED BY <1>1, <1>4, <1>11, <2>4, <2>5, <2>6, RunMsgsEffect
<1>12. CASE Commit
  BY <1>3, <1>12 DEF Commit
<1>13. CASE UNCHANGED vars
  BY <1>13 DEF vars, working, BalanceInv, InAnte, FeePaid
<1>14. QED
  BY <1>6, <1>7, <1>8, <1>9, <1>10, <1>11, <1>12, <1>13 DEF Next

\* A transaction changes the chain's balances by exactly its fee, and then by
\* exactly all of its messages together: a failing message leaves nothing
\* of what was done before it (baseapp.rs, run_tx).
THEOREM EveryTransactionIsAtomic == Spec => TransactionsAreAtomic
<1> DEFINE Change(a, d) ==
             CASE phase = "sequence" ->
                    (IF a = FeeCollector THEN AmountOf(tx.fee, d) ELSE 0)
                    - (IF a = FeePayer(tx) THEN AmountOf(tx.fee, d) ELSE 0)
               [] phase = "messages" -> Received(tx, a, d) - Sent(tx, a, d)
               [] OTHER -> 0
           Atomic == UNCHANGED kept \/
             \A a \in Address, d \in Denom :
               kept'.balances[a][d] - kept.balances[a][d] = Change(a, d)
<1>1. Init => BalanceInv
  BY DEF Init, BalanceInv, InAnte
<1>2. TypeInv /\ BalanceInv /\ [Next]_vars => [Atomic]_vars
  <2> SUFFICES ASSUME TypeInv, BalanceInv, [Next]_vars PROVE Atomic
    OBVIOUS
  <2>1. \A a \in Address, d \in Denom :
          balances[a][d] \in Nat /\ kept.balances[a][d] \in Nat
    BY DEF TypeInv, TypeOK
  <2>2. CASE UNCHANGED kept
    BY <2>2
  <2>3. CASE IncrementSequences
    <3>1. phase = "sequence" /\ tx \in Tx /\ kept'.balances = balances
      BY <2>3, IncrementKept
    <3>2. ASSUME NEW a \in Address, NEW d \in Denom
          PROVE  kept'.balances[a][d] - kept.balances[a][d] =
                   (IF a = FeeCollector THEN AmountOf(tx.fee, d) ELSE 0)
                   - (IF a = FeePayer(tx) THEN AmountOf(tx.fee, d) ELSE 0)
      <4>1. AmountOf(tx.fee, d) \in Nat
        BY <3>1, AmountsOfMessages
      <4>2. FeePaid(d) = AmountOf(tx.fee, d)
        BY <3>1, <4>1 DEF FeePaid
      <4>3. balances[a][d] = kept.balances[a][d]
              + (IF a = FeeCollector THEN AmountOf(tx.fee, d) ELSE 0)
              - (IF a = FeePayer(tx) THEN AmountOf(tx.fee, d) ELSE 0)
        BY <3>1, <4>2 DEF BalanceInv, InAnte
      <4>4. QED BY <2>1, <3>1, <4>1, <4>3
    <3>3. QED BY <3>1, <3>2
  <2>4. CASE LastMessageDone
    <3>1. /\ phase = "messages" /\ tx \in Tx /\ msg \in DOMAIN tx.msgs
          /\ msg = Len(tx.msgs) /\ owed = <<>>
          /\ kept'.balances = balances
      BY <2>4 DEF LastMessageDone, WriteThenClearTxCaches
    <3>2. ASSUME NEW P \in SUBSET DOMAIN tx.msgs, NEW d
          PROVE  /\ MovedIn(tx, P, d, msg, owed) = SumFunctionOnSet(MsgAmounts(tx, d), P)
                 /\ MovedIn(tx, P, d, msg, owed) \in Int
      <4>1. MovedIn(tx, P, d, msg, owed) = SumUpTo(tx, P, d, msg)
        BY <3>1, MessageEnds
      <4>2. msg \in Nat /\ msg <= Len(tx.msgs)
        BY <3>1, MessageNumbers
      <4>3. /\ SumUpTo(tx, P, d, msg) \in Int
            /\ SumUpTo(tx, P, d, msg) = SumFunctionOnSet(MsgAmounts(tx, d), P)
        BY <3>1, <4>2, SumsOfMessages
      <4>4. QED BY <4>1, <4>3
    <3>3. ASSUME NEW a \in Address, NEW d \in Denom
          PROVE  kept'.balances[a][d] - kept.balances[a][d] =
                   Received(tx, a, d) - Sent(tx, a, d)
      <4>1. /\ MovedIn(tx, Receipts(tx, a), d, msg, owed) = Received(tx, a, d)
            /\ MovedIn(tx, Payments(tx, a), d, msg, owed) = Sent(tx, a, d)
            /\ Received(tx, a, d) \in Int /\ Sent(tx, a, d) \in Int
        BY <3>1, <3>2, ReceiptsAndPayments
      <4>2. balances[a][d] = kept.balances[a][d] + Received(tx, a, d) - Sent(tx, a, d)
        BY <3>1, <4>1 DEF BalanceInv
      <4>3. QED BY <2>1, <3>1, <4>1, <4>2
    <3>4. QED BY <3>1, <3>3
  <2>5. QED BY <2>2, <2>3, <2>4, KeptSteps
<1>3. QED
  BY <1>1, <1>2, TypeInvInit, TypeInvStep, AccountInvInit, AccountInvStep,
     BalanceInvStep, PTL DEF Spec, TransactionsAreAtomic

-----------------------------------------------------------------------------
(* Fees.                                                                   *)

Fees(d) == SumFunction([i \in DOMAIN executed |-> AmountOf(executed[i].tx.fee, d)])

LEMMA FeesOfTransactions ==
  ASSUME TypeOK, NEW d
  PROVE  /\ Fees(d) \in Int
         /\ tx \in Tx /\ executed' = Append(executed, [tx |-> tx, block |-> height + 1])
              => Fees(d)' = Fees(d) + AmountOf(tx.fee, d)
<1> DEFINE n == Len(executed)
           f == [i \in DOMAIN executed |-> AmountOf(executed[i].tx.fee, d)]
           g == [i \in DOMAIN executed' |-> AmountOf(executed'[i].tx.fee, d)]
           Entry == [tx: Tx, block: Nat]
<1>1. \A t \in Tx : AmountOf(t.fee, d) \in Int
  BY TxAssumption, Amounts DEF IsTx
<1>2. executed \in Seq(Entry)
  BY DEF TypeOK
<1> HIDE DEF Entry
<1>3. n \in Nat /\ DOMAIN executed = 1..n /\ \A i \in 1..n : executed[i].tx \in Tx
  <2>1. n \in Nat /\ DOMAIN executed = 1..n /\ \A i \in 1..n : executed[i] \in Entry
    BY <1>2
  <2>2. QED BY <2>1 DEF Entry
<1>4. /\ DOMAIN f = 1..n
      /\ \A i \in 1..n : f[i] \in Int /\ f[i] = AmountOf(executed[i].tx.fee, d)
  BY <1>1, <1>3
<1>5. Fees(d) = SumFunctionOnSet(f, DOMAIN f)
  BY Zenon DEF Fees, SumFunction
<1>6. Fees(d)' = SumFunctionOnSet(g, DOMAIN g)
  BY Zenon DEF Fees, SumFunction
<1>7. IsFiniteSet(1..n)
  BY <1>3, 1 \in Int, n \in Int, FS_Interval
<1>8. Fees(d) \in Int
  <2> HIDE DEF f, n
  <2> QED BY <1>4, <1>5, <1>7, SumWithout
<1>9. ASSUME tx \in Tx, executed' = Append(executed, [tx |-> tx, block |-> height + 1])
      PROVE  Fees(d)' = Fees(d) + AmountOf(tx.fee, d)
  <2> DEFINE k == n + 1
  <2>1. /\ DOMAIN executed' = 1..k
        /\ \A i \in 1..n : executed'[i] = executed[i]
        /\ executed'[k].tx = tx
    BY <1>3, <1>9
  <2>2. /\ DOMAIN g = 1..k
        /\ \A i \in 1..k : g[i] = AmountOf(executed'[i].tx.fee, d)
    BY <2>1
  <2>3. AmountOf(tx.fee, d) \in Int
    BY <1>1, <1>9
  <2>4. 1..k = (1..n) \cup {k} /\ k \notin 1..n /\ k \in 1..k
    BY <1>3
  <2> HIDE DEF f, g, n, k
  <2>5. /\ \A i \in 1..n : g[i] = f[i] /\ g[i] \in Int
        /\ g[k] = AmountOf(tx.fee, d) /\ g[k] \in Int
    BY <1>4, <2>1, <2>2, <2>3, <2>4
  <2>6. SumFunctionOnSet(g, (1..n) \cup {k}) = SumFunctionOnSet(g, 1..n) + g[k]
    <3> DEFINE S == 1..n
    <3>1. IsFiniteSet(S) /\ k \notin S /\ g[k] \in Int /\ \A i \in S : g[i] \in Int
      BY <1>7, <2>4, <2>5
    <3> HIDE DEF S
    <3>2. SumFunctionOnSet(g, S \cup {k}) = SumFunctionOnSet(g, S) + g[k]
      BY <3>1, SumWith
    <3>3. QED BY <3>2 DEF S
  <2>7. SumFunctionOnSet(g, 1..n) = SumFunctionOnSet(f, 1..n)
    BY <1>4, <1>7, <2>5, SumsAgree
  <2>8. QED BY <1>4, <1>5, <1>6, <2>2, <2>4, <2>5, <2>6, <2>7
<1>10. QED BY <1>8, <1>9

\* Every transaction whose ante handlers succeeded has paid its fee, whether
\* or not its messages failed, and nothing leaves the fee collector
\* (ante.rs, deduct_fee_ante_handler).
THEOREM AllFeesAreCollected == Spec => []FeesAreCollected
<1>1. Init => FeesAreCollected
  <2> SUFFICES ASSUME Init, NEW d \in Denom
               PROVE  kept.balances[FeeCollector][d] >=
                        GenesisBalances[FeeCollector][d] + Fees(d)
    BY DEF FeesAreCollected, Fees
  <2> DEFINE f == [i \in DOMAIN executed |-> AmountOf(executed[i].tx.fee, d)]
  <2>1. DOMAIN f = {}
    BY DEF Init
  <2>2. Fees(d) = SumFunctionOnSet(f, DOMAIN f)
    BY Zenon DEF Fees, SumFunction
  <2> HIDE DEF f
  <2>3. SumFunctionOnSet(f, {}) = 0
    BY FS_EmptySet, SumWithout
  <2>4. GenesisBalances[FeeCollector][d] \in Nat /\ kept.balances = GenesisBalances
    BY GenesisAssumption, AddressAssumption DEF Init
  <2>5. QED BY <2>1, <2>2, <2>3, <2>4
<1>2. TypeInv /\ PaymentInv /\ BalanceInv /\ FeesAreCollected /\ [Next]_vars
        => FeesAreCollected'
  <2> SUFFICES ASSUME TypeInv, PaymentInv, BalanceInv, FeesAreCollected, [Next]_vars,
                      NEW d \in Denom
               PROVE  kept'.balances[FeeCollector][d] >=
                        GenesisBalances[FeeCollector][d] + Fees(d)'
    BY DEF FeesAreCollected, Fees
  <2>1. /\ balances[FeeCollector][d] \in Nat /\ kept.balances[FeeCollector][d] \in Nat
        /\ GenesisBalances[FeeCollector][d] \in Nat
        /\ FeeCollector \in Address
    BY AddressAssumption, GenesisAssumption DEF TypeInv, TypeOK
  <2>2. Fees(d) \in Int
    BY FeesOfTransactions DEF TypeInv
  <2>3. kept.balances[FeeCollector][d] >= GenesisBalances[FeeCollector][d] + Fees(d)
    BY DEF FeesAreCollected, Fees
  <2>4. ASSUME executed' = executed PROVE Fees(d)' = Fees(d)
    BY <2>4 DEF Fees
  <2>5. CASE UNCHANGED <<kept, executed>>
    BY <2>3, <2>4, <2>5
  <2>6. CASE IncrementSequences
    <3>1. phase = "sequence" /\ tx \in Tx /\ kept'.balances = balances
      BY <2>6, IncrementKept
    <3>2. Fees(d)' = Fees(d) + AmountOf(tx.fee, d)
      BY <2>6, <3>1, FeesOfTransactions DEF TypeInv, IncrementSequences
    <3>3. AmountOf(tx.fee, d) \in Nat /\ DOMAIN tx.sigs \subseteq Address \ {FeeCollector}
      BY <3>1, AmountsOfMessages, TxAssumption DEF IsTx
    <3>4. FeePayer(tx) # FeeCollector
      BY <2>6, <3>1, <3>3, IncrementKept, PayerSigns
    <3>5. FeePaid(d) = AmountOf(tx.fee, d)
      BY <3>1, <3>3 DEF FeePaid
    <3>6. balances[FeeCollector][d] = kept.balances[FeeCollector][d]
            + AmountOf(tx.fee, d) - 0
      BY <2>1, <3>1, <3>4, <3>5 DEF BalanceInv, InAnte
    <3>7. QED BY <2>1, <2>2, <2>3, <3>1, <3>2, <3>3, <3>6
  <2>7. CASE LastMessageDone
    <3>1. /\ phase = "messages" /\ tx \in Tx /\ kept'.balances = balances
          /\ executed' = executed
      BY <2>7 DEF LastMessageDone, WriteThenClearTxCaches
    <3>2. FeeCollector \notin Signers(tx)
      <4>1. DOMAIN tx.sigs \subseteq Address \ {FeeCollector}
        BY <3>1, TxAssumption DEF IsTx
      <4>2. QED BY <3>1, <4>1 DEF PaymentInv
    <3>3. ~(balances[FeeCollector][d] < kept.balances[FeeCollector][d])
      BY <2>1, <3>1, <3>2 DEF PaymentInv
    <3>4. QED BY <2>1, <2>2, <2>3, <2>4, <3>1, <3>3
  <2>8. QED BY <2>5, <2>6, <2>7, KeptSteps
<1>3. Init => BalanceInv /\ PaymentInv
  BY DEF Init, BalanceInv, PaymentInv, InAnte
<1>4. QED
  BY <1>1, <1>2, <1>3, TypeInvInit, TypeInvStep, AccountInvInit, AccountInvStep,
     PaymentInvStep, BalanceInvStep, PTL DEF Spec

=============================================================================
