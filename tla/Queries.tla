------------------------------- MODULE Queries -------------------------------
(***************************************************************************)
(* What clients see of a chain that goes on: queries, which take the read  *)
(* lock of the multi store (gears/src/baseapp/baseapp.rs, query), next to  *)
(* genesis, transactions and commits, which take its write lock; and the   *)
(* command line, which asks for its account's sequence, signs a transfer   *)
(* with it and broadcasts it.                                              *)
(*                                                                         *)
(* The bank's and the auth module's stores are one KVStore: a commit saves *)
(* both, and a crash between the two is the subject of MultiStore. The     *)
(* consensus engine keeps the transactions broadcast, and delivers a block *)
(* again that a crash interrupted.                                         *)
(***************************************************************************)
EXTENDS KVStore, Integers, SequencesExt

CONSTANTS
    Address, Denom,
    FeeCollector,   \* the module account fees are paid to
    FeeDenom,       \* the denomination fees are paid in
    Genesis,        \* the genesis file's balances: <<address, denom, amount>>
    Accounts,       \* and accounts
    Transfer,       \* what the users want: records from, to, coins, fee
    Client,         \* processes that query
    MaxBlock,       \* bounds the transactions of a block
    MaxPending      \* bounds the transactions broadcast and not committed

VARIABLES
    height,     \* BaseApp.height
    bank,       \* the bank's and the auth module's KVStore
    roots,      \* the versions in the database
    phase,      \* of the engine: start, idle, block, commit
    block,      \* the transactions delivered in the open block
    replay,     \* those of an interrupted block still to be delivered again
    mempool,    \* transactions broadcast
    asking,     \* what each client is asking, holding the read lock
    answer,     \* the last answer each client had
    ledger,     \* what the executed transactions amount to on paper
    chain       \* the ledger of every block committed

vars == <<height, bank, roots, phase, block, replay, mempool, asking, answer,
          ledger, chain>>

Holder == Address \cup {FeeCollector}
Balance(a, d) == <<"balance", a, d>>
Supply(d) == <<"supply", d>>
Account(a) == <<"account", a>>

ASSUME KeyAssumption ==
    Key = {Balance(a, d) : a \in Holder, d \in Denom}
            \cup {Supply(d) : d \in Denom} \cup {Account(a) : a \in Holder}
ASSUME ValueAssumption == Value = Nat
ASSUME AddressAssumption == IsFiniteSet(Address) /\ FeeDenom \in Denom
ASSUME GenesisAssumption ==
    /\ Genesis \in Seq(Address \X Denom \X Nat)
    /\ \A i, j \in DOMAIN Genesis :
         i # j => Genesis[i][1] # Genesis[j][1] \/ Genesis[i][2] # Genesis[j][2]
    /\ Accounts \subseteq Address

(* A transfer is decoded only if its denominations are in order.            *)
ASSUME TransferAssumption ==
    \A t \in Transfer :
        /\ t.from \in Address /\ t.to \in Address /\ t.fee \in Nat
        /\ t.coins \in Seq([denom : Denom, amount : Nat])
        /\ \A i, j \in DOMAIN t.coins : t.coins[i].denom = t.coins[j].denom => i = j

Amount(kv, key) == IF Get(kv)[key] = None THEN 0 ELSE Get(kv)[key]

-----------------------------------------------------------------------------
(* Genesis: the bank's balances, the supply of every denomination among    *)
(* them, then the accounts and the fee collector's, each under a key of    *)
(* its own. An account's value is its sequence.                            *)
Listed(a, d) == {i \in DOMAIN Genesis : Genesis[i][1] = a /\ Genesis[i][2] = d}
GenesisBalance(a, d) == Genesis[CHOOSE i \in Listed(a, d) : TRUE][3]
GenesisDenoms == {Genesis[i][2] : i \in DOMAIN Genesis}
GenesisSupply(d) ==
    SumFunction([i \in DOMAIN Genesis |-> IF Genesis[i][2] = d THEN Genesis[i][3] ELSE 0])

SetAll(kv, values) == [kv EXCEPT !.txCache = Overlay(values, @)]

BankGenesis(kv) ==
    SetAll(kv, [k \in Key |->
        CASE \E a \in Address, d \in Denom : k = Balance(a, d) /\ Listed(a, d) # {} ->
                GenesisBalance(k[2], k[3])
          [] \E d \in GenesisDenoms : k = Supply(d) -> GenesisSupply(k[2])
          [] OTHER -> None])

AuthGenesis(kv) ==
    SetAll(kv, [k \in Key |->
        IF \E a \in Accounts \cup {FeeCollector} : k = Account(a) THEN 0 ELSE None])

-----------------------------------------------------------------------------
(* run_tx: the ante handlers' writes are kept when a message fails.        *)
Done(kv) == [kv |-> kv, ok |-> TRUE]
Refused(kv) == [kv |-> kv, ok |-> FALSE]

Moved(kv, from, to, coin) ==
    LET taken == Set(kv, Balance(from, coin.denom),
                     Amount(kv, Balance(from, coin.denom)) - coin.amount)
    IN  Set(taken, Balance(to, coin.denom),
            Amount(taken, Balance(to, coin.denom)) + coin.amount)

SendCoin(from, to, state, coin) ==
    IF ~ state.ok \/ Amount(state.kv, Balance(from, coin.denom)) < coin.amount
    THEN Refused(state.kv)
    ELSE Done(Moved(state.kv, from, to, coin))

SendCoins(kv, from, to, coins) ==
    FoldLeft(LAMBDA state, coin : SendCoin(from, to, state, coin), Done(kv), coins)

Ante(kv, tx) ==
    IF Get(kv)[Account(tx.from)] = None \/ Get(kv)[Account(tx.from)] # tx.sequence
    THEN Refused(kv)
    ELSE LET paid == SendCoins(kv, tx.from, FeeCollector,
                               IF tx.fee = 0 THEN <<>>
                               ELSE <<[denom |-> FeeDenom, amount |-> tx.fee]>>)
         IN  IF paid.ok
             THEN Done(Set(paid.kv, Account(tx.from), tx.sequence + 1))
             ELSE paid

RunMsgs(kv, tx) ==
    LET sent == SendCoins(kv, tx.from, tx.to, tx.coins)
    IN  IF sent.ok /\ Get(sent.kv)[Account(tx.to)] = None
        THEN Done(Set(sent.kv, Account(tx.to), 0))
        ELSE sent

RunTx(kv, tx) ==
    LET ante == Ante(kv, tx)
        run == RunMsgs(WriteThenClearTxCache(ante.kv), tx)
    IN  IF ~ ante.ok THEN ClearTxCache(ante.kv)
        ELSE IF run.ok THEN WriteThenClearTxCache(run.kv)
        ELSE ClearTxCache(run.kv)

-----------------------------------------------------------------------------
(* The handlers of queries. Those for one key read the caches, those for a *)
(* range of keys the tree.                                                 *)
QueryBalance(kv, a, d) == Get(kv)[Balance(a, d)]
QueryAccount(kv, a) == Get(kv)[Account(a)]

(* A wrong QueryAllBalances: the caches are read as well. *)
QueryAllCachedBalances(kv, a) ==
    [d \in {d \in Denom : Get(kv)[Balance(a, d)] # None} |-> Get(kv)[Balance(a, d)]]

QueryAllBalances(kv, a) ==
    LET tree == TreeView(kv.tree)
    IN  [d \in {d \in Denom : tree[Balance(a, d)] # None} |-> tree[Balance(a, d)]]

GetPaginatedTotalSupply(kv) ==
    LET tree == TreeView(kv.tree)
    IN  [d \in {d \in Denom : tree[Supply(d)] # None} |-> tree[Supply(d)]]

(* The gaia handler chooses the module by the path, the module the query.  *)
BankQuery(kv, q) ==
    CASE q.path = "AllBalances" -> QueryAllBalances(kv, q.address)
      [] q.path = "TotalSupply" -> GetPaginatedTotalSupply(kv)
      [] q.path = "Balance" -> QueryBalance(kv, q.address, q.denom)
AuthQuery(kv, q) == QueryAccount(kv, q.address)
HandleQuery(kv, q) ==
    IF q.path = "Account" THEN AuthQuery(kv, q) ELSE BankQuery(kv, q)

(* An account that is not there is an error, without a height. *)
ResponseQuery(kv, q) ==
    LET value == HandleQuery(kv, q)
    IN  IF q.path = "Account" /\ value = None
        THEN [code |-> 1, value |-> None, height |-> 0]
        ELSE [code |-> 0, value |-> value, height |-> height]

(* The requests of the REST interface and of the command line.             *)
SupplyRequest == [path |-> "TotalSupply"]
GetBalances(a) == [path |-> "AllBalances", address |-> a]
GetBalancesByDenom(a, d) == [path |-> "Balance", address |-> a, denom |-> d]
GetAccount(a) == [path |-> "Account", address |-> a]
Request ==
    {SupplyRequest} \cup {GetBalances(a) : a \in Address}
      \cup {GetBalancesByDenom(a, d) : a \in Address, d \in Denom}
      \cup {GetAccount(a) : a \in Address}

-----------------------------------------------------------------------------
(* On paper: accounts with a sequence and balances, transactions that pay  *)
(* their fee if they are valid and are executed entirely or not at all.    *)
EmptyLedger ==
    [sequence |-> [a \in Holder |-> None],
     balance |-> [a \in Holder |-> [d \in Denom |-> 0]]]

PaperGenesis ==
    [sequence |-> [a \in Holder |-> IF a \in Accounts \cup {FeeCollector} THEN 0 ELSE None],
     balance |-> [a \in Holder |-> [d \in Denom |->
                    IF Listed(a, d) = {} THEN 0 ELSE GenesisBalance(a, d)]]]

AmountOf(coins, d) ==
    IF \E i \in DOMAIN coins : coins[i].denom = d
    THEN coins[CHOOSE i \in DOMAIN coins : coins[i].denom = d].amount
    ELSE 0
Affordable(balance, from, coins) ==
    \A d \in Denom : AmountOf(coins, d) <= balance[from][d]
Settled(balance, from, to, coins) ==
    [a \in Holder |-> [d \in Denom |->
       balance[a][d] - (IF a = from THEN AmountOf(coins, d) ELSE 0)
                     + (IF a = to THEN AmountOf(coins, d) ELSE 0)]]

PaperRunTx(paper, tx) ==
    LET fee == <<[denom |-> FeeDenom, amount |-> tx.fee]>>
        charged == [sequence |-> [paper.sequence EXCEPT ![tx.from] = tx.sequence + 1],
                    balance |-> Settled(paper.balance, tx.from, FeeCollector, fee)]
    IN  IF paper.sequence[tx.from] # tx.sequence \/ ~ Affordable(paper.balance, tx.from, fee)
        THEN paper
        ELSE IF ~ Affordable(charged.balance, tx.from, tx.coins) THEN charged
        ELSE [sequence |-> [charged.sequence EXCEPT ![tx.to] = IF @ = None THEN 0 ELSE @],
              balance |-> Settled(charged.balance, tx.from, tx.to, tx.coins)]

-----------------------------------------------------------------------------
LastBlock == IF chain = <<>> THEN EmptyLedger ELSE chain[Len(chain)]

WriteLockIsFree == \A c \in Client : asking[c] = None

Init ==
    /\ roots = [v \in Version |-> None]
    /\ bank = Opened(roots)
    /\ height = 0
    /\ phase = "start" /\ block = <<>> /\ replay = <<>> /\ mempool = {}
    /\ asking = [c \in Client |-> None]
    /\ answer = [c \in Client |-> None]
    /\ ledger = EmptyLedger
    /\ chain = <<>>

(* init_chain: the engine calls it while no block is committed. *)
InitChain ==
    /\ phase = "start" /\ height = 0
    /\ WriteLockIsFree
    /\ bank' = WriteThenClearTxCache(AuthGenesis(BankGenesis(bank)))
    /\ ledger' = PaperGenesis
    /\ phase' = "idle"
    /\ UNCHANGED <<height, roots, block, replay, mempool, asking, answer, chain>>

BeginBlock ==
    /\ phase = "idle"
    /\ Len(chain) < MaxVersion
    /\ phase' = "block" /\ block' = <<>>
    /\ UNCHANGED <<height, bank, roots, replay, mempool, asking, answer, ledger, chain>>

DeliverTx ==
    /\ phase = "block"
    /\ WriteLockIsFree
    /\ \E tx \in mempool :
         /\ replay # <<>> => tx = Head(replay)
         /\ Len(block) < MaxBlock
         /\ tx \notin Range(block)
         /\ bank' = RunTx(bank, tx)
         /\ ledger' = PaperRunTx(ledger, tx)
         /\ block' = Append(block, tx)
         /\ replay' = IF replay = <<>> THEN <<>> ELSE Tail(replay)
    /\ UNCHANGED <<height, roots, phase, mempool, asking, answer, chain>>

(* commit: the height first, then the store under the write lock. *)
IncrementBlockHeight ==
    /\ phase = "block" /\ replay = <<>>
    /\ height' = height + 1
    /\ phase' = "commit"
    /\ UNCHANGED <<bank, roots, block, replay, mempool, asking, answer, ledger, chain>>

Commit ==
    /\ phase = "commit"
    /\ WriteLockIsFree
    /\ bank' = SaveVersion(Flushed(bank))
    /\ roots' = SavedRoots(Flushed(bank), roots)
    /\ chain' = Append(chain, ledger)
    /\ mempool' = mempool \ Range(block)
    /\ phase' = "idle" /\ block' = <<>>
    /\ UNCHANGED <<height, replay, asking, answer, ledger>>

(* query, up to the handler and after it. *)
Ask(c) ==
    /\ asking[c] = None
    /\ \E q \in Request : asking' = [asking EXCEPT ![c] = q]
    /\ answer' = [answer EXCEPT ![c] = None]
    /\ UNCHANGED <<height, bank, roots, phase, block, replay, mempool, ledger, chain>>

Answer(c) ==
    /\ asking[c] # None
    /\ answer' = [answer EXCEPT ![c] =
                    [request |-> asking[c], response |-> ResponseQuery(bank, asking[c])]]
    /\ asking' = [asking EXCEPT ![c] = None]
    /\ UNCHANGED <<height, bank, roots, phase, block, replay, mempool, ledger, chain>>

(* run_bank_tx_command: the account's sequence, if there is an account, is *)
(* what the transfer is signed with and broadcast.                         *)
Broadcast(c) ==
    /\ answer[c] # None
    /\ answer[c].request.path = "Account"
    /\ answer[c].response.code = 0
    /\ \E t \in Transfer :
         /\ t.from = answer[c].request.address
         /\ Cardinality(mempool) < MaxPending
         /\ mempool' = mempool \cup
              {[from |-> t.from, to |-> t.to, coins |-> t.coins, fee |-> t.fee,
                sequence |-> answer[c].response.value]}
    /\ answer' = [answer EXCEPT ![c] = None]
    /\ UNCHANGED <<height, bank, roots, phase, block, replay, asking, ledger, chain>>

(* A crash and BaseApp::new. The engine learns the height from info, and   *)
(* calls init_chain again or delivers the interrupted block again.         *)
Restart ==
    /\ bank' = Opened(roots)
    /\ height' = LatestVersion(roots)
    /\ asking' = [c \in Client |-> None]
    /\ block' = <<>>
    /\ replay' = IF phase \in {"block", "commit"} THEN block \o replay ELSE replay
    /\ phase' = CASE Len(chain) = 0 -> "start"
                  [] Len(chain) > 0 /\ replay' # <<>> -> "block"
                  [] OTHER -> "idle"
    /\ ledger' = LastBlock
    /\ UNCHANGED <<roots, mempool, answer, chain>>

Next ==
    \/ InitChain \/ BeginBlock \/ DeliverTx \/ IncrementBlockHeight \/ Commit
    \/ \E c \in Client : Ask(c) \/ Answer(c) \/ Broadcast(c)
    \/ Restart

Spec == Init /\ [][Next]_vars

-----------------------------------------------------------------------------
(* The answers a step gives to requests of a path. *)
Answered(path) ==
    {answer'[c] : c \in {c \in Client : answer'[c] # None /\ answer'[c] # answer[c]
                                        /\ answer'[c].request.path = path}}

(* The lists of an answer, AllBalances and TotalSupply, are those of the   *)
(* last block committed when it is given, whatever a block being executed  *)
(* has written; the balances of a block add up to the supply answered for  *)
(* it; and the answer's height is that block's, or the next one's while    *)
(* that one waits for the lock.                                            *)
ListsAreOfTheLastCommit ==
    [][/\ \A r \in Answered("AllBalances") : \A d \in Denom :
            (IF d \in DOMAIN r.response.value THEN r.response.value[d] ELSE 0)
              = LastBlock.balance[r.request.address][d]
       /\ \A r \in Answered("TotalSupply") : \A d \in DOMAIN r.response.value :
            r.response.value[d]
              = SumFunction([a \in Holder |-> LastBlock.balance[a][d]])
       /\ \A r \in Answered("AllBalances") \cup Answered("TotalSupply") :
            r.response.height - Len(chain) \in {0, IF phase = "commit" THEN 1 ELSE 0}]_vars

(* A single balance or account answered is what whole transactions left: a *)
(* query between two transactions of a block sees neither part of one nor  *)
(* anything of one that failed but its fee and its sequence.               *)
ReadsAreOfWholeTransactions ==
    [][/\ \A r \in Answered("Balance") :
            (IF r.response.value = None THEN 0 ELSE r.response.value)
              = ledger.balance[r.request.address][r.request.denom]
       /\ \A r \in Answered("Account") :
            r.response.value = ledger.sequence[r.request.address]]_vars
=============================================================================
