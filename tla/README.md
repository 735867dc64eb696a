# A TLA+ model of Doge-SDK

Doge-SDK is a Cosmos-like application framework in Rust: an application keeps
its state in IAVL trees, one per module, executes the blocks a Tendermint engine
delivers over ABCI, and adds to that a gossip protocol by which a node that is
behind copies the state of one that is ahead. This directory models the parts
that keep and change state and the pure code they rest on, checks them with TLC
and proves what matters most with TLAPS.

## The system

| Part | Source | State | Operations |
|---|---|---|---|
| IAVL tree | `trees/src/iavl/tree.rs` | root, loaded version, known versions | `set` with rotations, `get`, `range`, `save_version`, `new`, `update` |
| NodeDB | `trees/src/iavl/node_db.rs` | nodes by hash, root hashes by version | `save_tree`, `save_version`, `get_versions`, `get_node`, `get_all_nodes` |
| KVStore | `store/src/store.rs` | a tree under a block cache under a tx cache | `get`, `set`, write or clear the caches, `commit`, `process_all_state_info` |
| MultiStore | `store/src/store.rs`, `hash.rs` | one KVStore per module, head hash, head version | `commit`, write or clear the tx caches, `new` |
| BaseApp, ABCI thread | `gears/src/baseapp/baseapp.rs` | the multi store and the height, each behind an RwLock; the header | `init_chain`, `begin_block`, `deliver_tx`, `commit`, `info`, `query` |
| BaseApp, P2P thread | the same | PEER_ID | `sync`, `process_version_msg`, `process_state_msg` |
| Ante handlers | `gears/src/baseapp/ante.rs` | none | fee, public keys, signatures, sequences |
| Bank, auth | `x/bank`, `x/auth` | balances and supply; accounts and the next number | genesis, `send_coins`, account creation, queries |
| Params | `gears/src/baseapp/params.rs`, `gears/src/x/params`, `x/auth`, `x/bank` | texts in the store of the params module | write at genesis, read and parse |
| Merkle root, hashes | `trees/src/merkle.rs`, `store/src/hash.rs` | none | `root_hash`, `hash_store_infos` |
| Database, prefix stores | `database/src`, `store/src/store.rs` | byte strings | `get`, `put`, iterators, ranges, prefixes |
| Transactions, messages, encodings | `proto-messages`, `proto-types` | none | `try_from` and `from` of every raw message; decimals; addresses |
| Clients | `x/*/src/client`, `gears/src/client/rest` | none | queries; a transfer signed and broadcast |
| Home directory | `gears/src/client/init.rs`, `client/keys`, `tendermint/src/lib.rs` | configuration, keys, genesis, validator state; key files | `init`, `run`, `keys add` |
| Network | `network/src` | libp2p swarm | not modelled: messages are inputs |

The engine calls the ABCI thread, one call at a time for what changes state. A
transaction runs under the write lock of the multi store: ante handlers, then
messages, each through the tx caches of the stores, which are written into the
block caches on success and cleared on an error. `commit` increments the height,
takes the lock and makes the stores save their next version one after the other.
The P2P thread is the process's main thread: a panic there ends the process,
while a panic of the ABCI thread under the lock poisons the lock. It publishes
its height; answers a lower height with its whole state, read from the database
under the lock; and replaces its stores with a state it is sent.

What is hard: the two threads' reads of the height outside the lock that protects
what it describes; a commit of several stores that can be interrupted; states
installed in memory but not under a root key of the database; a tree of which
most is in the database and which rotations rearrange; and the two caches, whose
clearing decides what of a failing transaction survives. A query takes the read
lock for itself, so a client that asks twice, or asks and then acts, meets a
state that moved on. The commands around the node write several files one after
the other, each created empty first, and can end in between. In the pure code
what is hard is at the edges: a prefix of bytes that are all 255, a zero among
coins, a decimal at its width, a numeral with leading zeros. The hazards are
listed with their lines in PROJECT.json.

## Modules

| Module | Models |
|---|---|
| `KVStore` | One store as a record, and the operators on it and on the roots of its database. A tree is what it holds: for every key the value and the version that wrote it, or None. Pure operators, no state. |
| `MultiStore` | The stores together: `SetKey`, `WriteThenClearTxCaches`, `ClearTxCaches`, `BeginCommit`, `StoreCommits` (one store: `CommitStore`, or `CommitStorePanics`), `FinishCommit`, `Restart`, `RestartInCommit`, `InstallState`. `BlockSpec` has no crash in a commit and no peers, `CrashSpec` has no peers, `Spec` has both. |
| `BlockLedger` | The abstract specification: transactions kept or dropped whole, blocks committed to all stores at once, versions that never change. |
| `BaseApp` | EXTENDS MultiStore with the two threads, each step at the lock or the height it touches. `AheadSpec` (no peer is ahead; panics; restarts between commits; fairness), `PeersSpec` (peers may be ahead; no panic but those of `save_version` and of the P2P thread), `AppSpec` (all of it, and crashes in a commit). |
| `IAVL` | One tree with its nodes in memory and in the database, its hashes, heights and sizes, and the code's rotations in the code's order. The code's recursions are functions of the depth, which a number of keys bounds. |
| `TxPipeline` | `run_tx` step by step: the ante handlers, `send_coins` coin by coin, the messages, the tx caches. |
| `Queries` | EXTENDS KVStore with the bank's and auth's keys: genesis, `run_tx`, commits and restarts next to clients that ask (`Ask`, `Answer`, between which the read lock is held) and broadcast. A ledger on paper says what the transactions amount to. |
| `HomeDir` | The files of a home directory and the processes that write them: `init` step by step, `run` with its engine, `keys add` from its check to its write; every process may end at any step. |
| `Numerals`, `Decimal256` | Uint256 and its text; every operation of `Decimal256`, its parsing and printing, at a width and a number of places that are constants. |
| `Encodings` | Every conversion between a raw protobuf message and its type, both ways, with the errors and the panics; the command line's transfer; the REST list of transactions. |
| `KeyRanges` | Byte strings in order, `prefix_end_bound`, the iterators of the three databases, the prefix stores. |
| `Params` | The parameter subspaces over those keys, and the texts of the parameters. |
| `MerkleRoot` | `root_hash` over terms: SHA-256 is a constructor, so two roots are equal only if they are of the same bytes. |
| `Algorithms` | EXTENDS the pure modules: a step gives the code an input of a set that is a constant, or writes parameters to the params store; the properties state what each pure module must return. |
| `MCMultiStore`, `MCBaseApp`, `MCIAVL`, `MCTxPipeline`, `MCQueries`, `MCHomeDir`, `MCAlgorithms` | Instances for TLC. |
| `Folds_proofs` | Induction, sums over finite sets, and sorting, in a form that can be cited. |
| `MultiStore_proofs` | Theorems of `MultiStore`, and that it implements `BlockLedger`. |
| `BaseApp_proofs` | Theorems of `AppSpec`, whatever peers send; of `AheadSpec`, what the chain makes of the stores. |
| `HomeDir_proofs` | Theorems of `HomeDir`. |
| `TxPipeline_proofs` | What the keepers and handlers do, types and safety; the balances to the coin: supply, atomicity, fees. |
| `IAVL_proofs` | Theorems of `IAVL`: what a tree holds through sets, rotations, saves and reloads, what `get` and `range` find in it, and that its heights and sizes are exact. |
| `Queries_proofs` | That the stores, caches and coin by coin transfers refine the ledger on paper, and what clients are told. |
| `Algorithms_proofs` | Theorems of `Decimal256`, `Encodings`, `KeyRanges`, `Params` and `MerkleRoot`, for inputs of any size, and of `Algorithms`. |

How state corresponds to code:

- `kv[s]` is the KVStore of store `s`: `txCache`, `blockCache`, `tree`,
  `loadedVersion` and `versions` are `tx_cache`, `block_cache`, `Tree.root`,
  `Tree.loaded_version` and `Tree.versions`. `roots[s][v]` is what `NodeDB` finds
  under the root key of version `v`. `headHash` is the map of the trees hashed:
  hashes do not collide.
- `mode` of MultiStore says where `MultiStore::commit` is: the loop over a
  HashMap commits the stores in any order, and `uncommitted` has those to come.
- `abci` and `p2p` of BaseApp say where each thread is. Guards that the code
  evaluates before it locks are steps of their own (`ReceiveVersion`,
  `ReceiveState`), and the height is read again where the code reads it again.
- A child that is not in memory is NoNode in its parent, and is looked up in
  `db` under its hash; the `expect`s of the code are the values of `outcome`.
  A store flushes its block cache in key order, so the keys set within one
  version ascend. MultiStore takes from IAVL that a tree is what was set into it:
  `GetIsExact` and `SavedVersionsReadable` are what makes that right. That
  `Tree::set` panics (the finding below) is `FlushPanics` of BaseApp.
- The ABCI thread panics in three ways besides the unwrap of `save_version`:
  on a transaction it cannot decode, before the lock is taken (`DecodeTxPanics`,
  `x/bank/src/message.rs:67`); on a bad signature, with the lock held
  (`RunTxPanics`, TxPipeline's `VerifySignatures`); and in the flush of a commit
  (`FlushPanics`). With the lock held, the lock is poisoned, and the P2P thread
  ends the process when it asks for it (`LockPanics`). Which transactions and
  trees panic is TxPipeline's, Encodings' and IAVL's subject: in BaseApp any may.
- A transaction's bytes are decoded twice (`TxWithRaw::from_bytes`, `tx.rs:45`).
  In TxPipeline `msgs`, `fee` and the like of a transaction are what `Tx`
  decodes and `run_tx` executes, and `raw` the contents of `TxRaw`'s body and
  auth_info, which the SignDoc is made of. A signature has the contents it is
  `over`, and may not be `compact`. In Encodings `TxWithRaw(earlier, last)` merges
  earlier occurrences of a field as prost does.
- `accounts`, `nextNumber`, `balances` of TxPipeline are what the keepers read
  through the tx caches, `kept` is what the block caches have. `executed` is
  history: the transactions whose ante handlers succeeded.
- Queries has the bank's and the auth module's stores in one KVStore, `bank`: a
  crash between the two is MultiStore's subject. `mempool` and `replay` are the
  engine's: it keeps what was broadcast, delivers an interrupted block again
  and, before the first commit, calls `init_chain` again.
- In HomeDir a file's content is the run of `init` that wrote it, standing for
  the validator key that run drew; `step` counts the statements of
  `new_tm_config`, `write_keys_and_genesis` and `write_priv_validator_state`.
  Names share a file when they differ in what follows their last dot, which
  `set_extension` replaces.

## Runs

| Run | Bounds | Shows |
|---|---|---|
| `multistore_block` | 2 stores, 1-2 keys, 2 versions | Types; stores commit in step; the stores implement `BlockLedger` (refinement). |
| `multistore_crash` | 2 stores, 3 versions, any number of crashes | Every store in memory is its latest saved version; no commit panics; the head version never decreases. |
| `multistore_one_block` | the same | **Violated**: after a crash in a commit one multi store has stores of two blocks. |
| `baseapp_peers` | 2 stores, 3 blocks, all interleavings of the threads, crashes anywhere | The height is never beyond what the stores have but for a commit under way; trees that are sent are saved ones; the head describes the stores; no version is overwritten. |
| `baseapp_ahead` | 2 stores, 3 blocks | The trees are the chain's; a State message has one block; the head version is the block number; a process that goes on running, with an ABCI thread that does not panic, commits every block (liveness). |
| `baseapp_poisoned` | as `baseapp_peers` without crashes in a commit | **Violated**: a state received late poisons the lock. |
| `iavl_tree` | 7 keys, 2 versions, reloads anywhere | `get`, `range` for every pair of bounds, hashes, heights, sizes, saved versions; which sets may cost the balance. |
| `iavl_set` | 5 keys, 3 versions, reloads anywhere | **Violated**: `Tree::set` panics on a sound database. |
| `tx_pipeline` | 4 users' addresses with the fee collector a fifth, 2 denominations, 41 transactions (one signed over another, one with a signature that is not compact, one whose decodings differ), 3 accepted, 3 blocks | Coins are conserved; no replay; account numbers; who pays, and with which signature; atomicity; fees; which signatures panic; a timeout is kept to within a block. |
| `queries` | 1 client, 2 users and the fee collector, 2 denominations, 3 transfers (one fails at its second coin), 3 pending, 2 transactions a block, 2 blocks, restarts anywhere | Lists of an answer are the last committed block's and agree with the supply; single reads are of whole transactions. |
| `home` | 3 runs of `init`, an engine, 2 users adding keys under 2 names of one file, 2 keys, every process ending anywhere | Genesis and validator key fit; the validator state is not reset under its key; keys are kept. |
| `algorithms` | decimals of 2 places up to 100.00 and their numerals; addresses of up to 2 bytes, 13 lists of coins, 5 forms of a key; bytes 0 to 2, keys of 4 at most; parameters written to the store in any order, two for auth and for bank, 16 for consensus, process ends before the commit; Merkle trees of up to 5 leaves, 3 stores | Decimals against arithmetic; decoding and encoding against each other and against what `run_tx` takes for granted; transfers decode as signed, of bytes with each field once; prefixes keep apart, and parameters are read as last written; roots commit to what they are of. |

Why the bounds are enough. Two stores tell "the last store opened" from another
and let a commit be interrupted with one store saved and one not; three versions
let a node be two behind, so that an installed state skips a version. Seven keys
over two versions give trees of height four, all four rotations, rotations of
nodes that were reloaded, versions that share nodes, and a node that the
left-right case leaves unbalanced, which five keys do not. Three accepted
transactions and two denominations allow a failure after a partial transfer, a
second try, and a new account paid before or after another. In `queries` a
second transfer of one sequence can be broadcast before the first is committed,
and a block with one of each kind of transfer committed, while the client holds
an older answer. In `home` the third run of `init` can meet the leftovers of two
others. The inputs of `algorithms` have every boundary that the code tells
apart: bytes at the greatest value, empty keys and prefixes, amounts of zero
and beyond the width, five leaves for a tree that is not perfect.

MCBaseApp's deadlock check is off because a process that panicked does nothing,
MCTxPipeline's because the instance runs out of blocks and transactions.

### Fairness

`AheadSpec` assumes weak fairness of each thread's steps, the operating system
scheduling threads that can run, and strong fairness of taking the write lock:
it is released after every message, and a waiting writer is not passed over for
ever. It does not assume that a message arrives, that the process restarts or
that it does not. `BlocksAreCommitted` is about a process that goes on running
with both its threads, and needs the P2P thread to release the lock. A panic of
the ABCI thread leaves a process that runs and commits nothing, for ever if the
P2P thread never asks for the lock; `ABCIRuns` is therefore an antecedent, next
to `Alive`.

## Findings

- `multistore_one_block`: `MultiStore::commit` has no transaction around the
  stores (`store/src/store.rs:114`), and `MultiStore::new` opens each store at
  its own latest version.
- `baseapp_poisoned`: `process_state_msg` does not compare heights again under
  the lock (`baseapp.rs:570`).
- `iavl_set`: `left_rotate` looks the moved child up under the hash of a node
  that is not saved (`tree.rs:614-617`), and panics on a sound database: in the
  run's trace keys 1, 2 and 3 are saved and 4 is set in the next version, where
  the leaf of 2 has not been read since the commit. `right_rotate` does the same
  on the left (`tree.rs:572-574`), for instance with 3 and 4 saved, then 2 saved,
  and then 1 set. The property covers a second panic: the left-right case rotates the
  node instead of its left child, and the rotation of a leaf is an error
  (`tree.rs:535`).

Met while modelling, without a run of their own:

- A set may leave the tree unbalanced. Where a node's left child is too high on
  its right, `recursive_set` rotates the node to the left and back to the right
  (`tree.rs:534`), which changes nothing if it does not panic: with keys 6 and 7
  in one version and 1 to 5 in the next, one subtree ends up two higher than
  its sibling. `store/src/store.rs:275` says of `set` that "内部会递归地进行树的平衡调整"
  (inside it recursively adjusts the tree's balance). `SetsKeepBalance` says
  that no other case costs the balance; reads and hashes are right regardless.
- The height the ante handlers compare a timeout with is that of the last block
  committed (`ante.rs:130`); the documentation of `timeout_height` (`tx.rs:263`)
  is about the block that would include the transaction. The code is one block
  late at most, which is what `TimeoutIsAtMostOneBlockLate` states.
- The bytes of a transaction are decoded twice (`tx.rs:46-50`), and nothing
  requires the two results to agree (the TODO at `tx.rs:74`): `Tx` merges a body
  that occurs twice and has the messages of both, while `TxRaw` keeps the last,
  which is all the SignDoc is made of (`ante.rs:258-264`). So what is executed is
  what was signed only where the decodings agree, and `OnlySignersPay` says what
  holds where they do and where they do not.
- A signature that is not 64 bytes long panics with the lock held
  (`ante.rs:279`), as a missing public key does (`ante.rs:270`).
  `OnlyBadSignaturesPanic` says that it takes one or the other, by a signer with the
  right sequence. The unwrap at `ante.rs:276` is not reached with bad bytes: a
  `PubKey` holds a point that was parsed (`crypto/secp256k1.rs:24-36`), also when
  it comes from an account.
- A state installed while a block is executed is committed with that block's
  writes as a version beyond the block (`baseapp.rs:599`): with a peer ahead the
  head version is not the block number. `HeadVersionIsBlockNumber` holds of a
  node no peer is ahead of.
- `checked_pow` ends with a product that panics (`decimal256.rs:292`) where its
  documentation (line 269) promises an error.
- The nanoseconds of the evidence parameters' duration, or of its seconds alone, overflow
  an i64 on either side (`baseapp/params.rs:70-72`): a debug build panics, a release build wraps.
- While an engine runs, `init` in the same directory replaces the validator key
  in the file and then resets the validator state: the running engine goes on
  with the key it has loaded and finds no record of what it signed. That is why
  `ValidatorFilesFit` is about the key in the file, with the run that drew the
  key as the exception.
- Two runs of `init` at once are not kept apart by the code; the model has one at a
  time, so what two leave behind is not covered.
- Two `keys add` of one name that both checked before either wrote replace each
  other's key without `--overwrite`; `KeysAreKept` names that case.

## Proofs

For any stores, keys, values and bound on the versions:

- `MultiStore_proofs`: `TypeCorrect`, `VersionsAreImmutable` and `HeadIsDescribed`
  of `Spec` (crashes and peers); `TreeIsAlwaysSaved`, `CommitNeverPanics` and
  `HeadIsMonotonic` of `CrashSpec`. `TypeOK` is not inductive: a restart opens
  the greatest saved version, so the invariant (`StoreInv`) also says that the
  saved versions have a greatest element whenever there are any, that a store in
  memory knows every saved version, and that a commit under way has room for the
  next. `HeadInv` adds that the stores already committed are ahead of the head
  by at most the commit under way, `CrashInv` that without peers each store is
  the latest of its database; from that no version a commit makes can exist.
- The same module: `StoresStayInStep` and `ImplementsLedger` of
  `BlockSpec`. The refinement maps the committed views of the stores to the
  ledger's history, a commit's steps to stutters but the last one, and needs
  `BlockInv`: between `BeginCommit` and `FinishCommit` each store is either at
  the old version with all of the block in its caches or at the new one with
  none.

For any chain, whatever its blocks write (`Writes`), with both threads:

- `BaseApp_proofs`: `AppTypeCorrect`, `HeightIsNeverAhead`, `HeadStaysDescribed`,
  `SentTreesStaySaved` and `PeersOverwriteNothing` of `AppSpec` (peers ahead and
  crashes in a commit). The invariant `AppInv` is that of `MultiStore_proofs`
  and four parts more. `ThreadTypeOK` is the threads' types. `LockInv`:
  while the P2P thread has the lock no commit is under way. `HeightInv`: the
  height is not ahead, and while a state is installed the head is its version.
  `LoadInv`: each tree collected for a message is a saved version, of the height
  or, once a commit has incremented it, of the one before; that commit waits
  for the lock, so there is no second increment. The trees sent stay saved
  because saved versions are kept (`VersionsAreKept`). A tree of
  the chain is defined by the last block that wrote a key, which exists because a
  set of numbers with an upper bound has a greatest (`Folds_proofs`).
- The same module: `StateStaysTheChains`, `SentStatesStayOneBlock` and
  `HeadVersionStaysBlockNumber` of `AheadSpec`, panics included. `ChainStep` says that the chain's
  tree after a block is the one before it with the block's writes. `NumbersInv`:
  head, height and block go together and nothing is installed. `ChainInv`: a
  store's tree is the chain's at the version it has loaded, and its block cache
  what was executed since, until it has committed. `HeadLoadedInv`: every tree
  collected is of the head, since the version after it, which the height may
  already name, is not saved while the P2P thread has the lock. `SentInv`: so
  what was sent is one version, and stays saved.

For any set of key names and adds, and any number of runs:

- `HomeDir_proofs`: `ValidatorFilesAlwaysFit` and `KeysAreAlwaysKept`.
  `FilesInv` says which of the key and the genesis is truncated, or this run's,
  after each step of `init`: both are truncated before either is written, and
  the key is the run's own before the validator state is touched. `AddsInv`: an
  add that may not overwrite, and goes on, found no key in its file.
  `StepsOfInit` says what each of the ten steps writes.

For any addresses, denominations, genesis and set of transactions:

- `TxPipeline_proofs`: one lemma per keeper or handler says what it may change
  (`MoveEffect`, `CreateEffect`, `SendCoinEffect`, `SetPubKeysEffect`,
  `IncrementEffect`, `RunMsgsEffect`), and `TxTypeCorrect` follows. `TypeOK` is
  not inductive: `IncrementSequences` writes the account of every signer, which
  is one only because the signatures were verified before (`SignersVerified`).
- Safety, in the same module: what the tx caches hold is related to what clearing them
  goes back to. `AccountInv`: the open transaction has every account of the
  block, under its number and, until `IncrementSequences` writes both, its
  sequence; before the messages it has no other; no number is given twice in
  either. `HolderInv`: a holder without an account can only be the recipient of
  the message under way. `PaymentInv`: before the messages only the payer has
  lost coins, after that only signers, whose signatures are spent. `KeyInv`:
  at the verification every key the transaction gave is set. `ReplayInv`: every
  signature of an executed transaction is of a sequence that its account has
  left behind. `TimeoutInv`: the open transaction has not expired while its ante
  handlers run, by the height that does not change until the block ends.
  `KeptSteps` shows that the block's state changes in two steps only. From
  these: `NumbersStayUnique`, `NoTransactionIsReplayed`,
  `EveryHolderHasAnAccount`, `OnlySignersEverPay`, `OnlyBadSignaturesEverPanic`,
  `TimeoutsAreAtMostOneBlockLate`.

- Balances, in the same module: `TheSupplyIsConserved`, `EveryTransactionIsAtomic` and
  `AllFeesAreCollected`. A transfer changes two entries of a sum by amounts that
  cancel (`TransfersConserve`), also where both are one address. `BalanceInv`
  says by how much the balances of the open transaction differ from those it
  would go back to: before the messages by the part of the fee that has been
  moved, among the messages by the coins of all messages before `msg` and those
  of `msg` that are not owed any more. Atomicity is that difference at the one
  step which keeps it. The fees are a sum over the transactions executed, to
  which a step adds one; nobody takes coins from the fee collector, since a
  module's account signs nothing. `OnlySignersEverPay` needs no assumption on how
  bytes are decoded: `Verifies` compares what a signature is over with `raw`, and
  that this is what was executed is its conclusion under `DecodingsAgree`.

For any genesis file, transfers, clients and bounds, with any crashes:

- `Queries_proofs`: `ListsReadTheLastCommit` and `QueriesReadWholeTransactions`.
  `Books(view, paper)` relates what is read of a store to the ledger on paper:
  sequences, balances with an absent one for zero, and each supply the sum of
  the balances. `QueryInv` says that between two steps the tx cache is empty,
  the caches with the tree are the books of what was executed, and the tree
  alone those of the last block. The work is in the lemmas that every handler
  keeps the books: `SendCoinsBooks` (a loop over the coins against one
  subtraction and one addition per denomination: by induction over the coins,
  none of which has the denomination of another, the loop fails if and only if
  the list as a whole is not affordable), `RunTxBooks` (a message's failure
  leaves the fee), `GenesisBooks` (overlays of lists of entries against a
  function), `SavedReads` and `OpenedReads` (a commit, a restart).

For any number of keys, values and versions, and any reloads:

- `IAVL_proofs`: `TreesAlwaysHold`, and from it `GetsAreAlwaysExact`,
  `RangesAreAlwaysExact`, `HashesAreAlwaysExact` and `SavedVersionsStayReadable`.
  A node is a `Tree` from `lo` to `hi` if it belongs to a set of nodes with bounds
  that has, with every inner node, its children, each in the bounds that the
  node's key leaves it and under the hash the node has for it: the greatest
  such set needs no recursion, and two trees make a third by a union. The
  invariant (`TreesHold`) says that the root is the tree of what was set, that
  the database has every node under its own hash and with it the nodes of its
  children (`DbSound`), and that every saved version is the tree of what was set
  when it was saved (`VersionsHold`).
  A rotation keeps a tree or panics (`RightRotateKeeps`, `LeftRotateKeeps`), the
  right-left case although the hash of the rotated child is not yet up to date
  when the node itself is rotated (`NewRight`), and the left-right case although
  it rotates the wrong node: balance is not needed. The keys of a subtree are
  between its bounds, which a step down brings closer: so a path ends within
  MaxKey steps (`PathKeeps`), and a set is followed up from there by induction
  (`SetKeeps`). A save stores each node with a child in memory next to that child
  (`SaveKeeps`); what was stored before stays, so older versions that share
  nodes stay trees (`HoldsExtends`).
- The same module, ranges: the delayed nodes of a traversal are trees side by
  side, the leftmost last (`Stacked`); everything found is below them, and every
  key in the bounds is found or in one of them (`RangingWith`). A subtree that
  `after_start` or `before_end` leaves out has no key in the bounds
  (`BoundsCut`). A tree over `w` keys has at most `2w - 1` nodes, so a step leaves
  one node less to visit, and after `2 * MaxKey` steps there is none.
- The same module, heights: `MeasuresAreAlwaysExact`, `SetsAlwaysKeepBalance` and
  `NeverRightHeavyAlways`. That heights are exact does not follow from `TreesHold`:
  a rotation measures a node whose moved child, when it is not in memory, it looks
  up under another node's hash, and if that hash is in the database the node is
  measured by the wrong child. So the invariant (`HeightsHold`) must say which
  shapes the rotations meet, and that needs the order of the sets. `Poised`: every
  node is measured by its children, its right subtree is at most one higher than
  its left one, and its right child is not in memory unless a key of this version
  was set at or past the node's key. That leaves the left edge, when the first key
  set is before all of the tree: a node with the former least key `x` is made
  above its leaf, with the leaf in memory, and is excepted; what is above it can
  grow too high on the left. `Edge` says how high each node of the edge would be
  without the left subtree of that node, which later sets of the version do not
  change. `Young`: no node in memory
  is later than the version being written and none of the database than the last
  one saved, so the hash of a node just rotated is not in the database and its
  lookup panics rather than finds something (`NotStored`).
  The left-right case, which rotates the wrong node, either panics or gives back
  the shape it found (`LeftRightIs`), so a node that is too high on the left stays
  so; to the right nothing gets too high (`OffRight`, `FrontStep`). `Heights` puts
  together what a set makes of a node, for a key in its bounds or before them, and
  is kept from the leaf up the path (`HeightsOfLeft`, `HeightsOfRight`). With
  `even`, `Poised` also bounds the left subtrees: one and the same induction then
  shows that a set which does not meet the left-right case (`Straight`) keeps the
  tree balanced. A save and a reload start afresh, as no child is in memory
  (`SavePoises`). `NeverRightHeavy` is a consequence no run checks: what the
  left-right case costs is always on the left.

For inputs of any size:

- `Algorithms_proofs`, keys: `PrefixIteratorsStayExact`, `PrefixStoresStayExact`
  and `AddressesStaySeparate`. Keys are totally ordered (`PrecedesTotal` and its
  neighbours), so a set of keys has one sequence in order (`InOrderUnique`). A
  key is between a prefix and `prefix_end_bound` exactly if it has the prefix
  (`PrefixRange`): past the last byte that is not the largest it can only differ
  by being smaller. From there on the keys with the prefix come first
  (`PrefixedFirst`), which is why RocksDB may stop at the first without it. The
  bounds of a prefix store are those of the rests (`PrefixedRange`).
- The same module, roots: `RootsSayItems` and `HashesSayStores`. The recursion of
  `root_hash` has a solution because a split leaves two parts that are not empty
  (`SplitPointIs`, `RootsExist`); two trees with one root are of one shape and
  of the same leaves (`SameRoots`, by induction over their number), as the
  prefixes keep leaves, inner nodes and the empty list apart. The stores' pairs
  carry their lengths, so their bytes say what they are (`ToBytesSay`). That
  SHA-256 has no collisions is assumed, by its being a constructor.
- The same module, decimals, at any width and number of places:
  `DecimalsStayExact`, `RootsStayExact` and `DecimalTextsStayExact`. The numbers are
  those of a division with a remainder (`IsQuotient`), nowhere a real one.
  Numerals, their values and powers are recursive functions: a numeral is read
  back by strong induction, as all but its last digit is that of a tenth of the
  number, and padding and trimming zeros are a product and a quotient by a power
  of ten. `checked_pow` multiplies by repeated squaring, and its loop keeps that
  what it has times what it still owes is at most the power, with equality for
  whole numbers; so where a product overflows the power would.
- The same module, encodings: `DecodedTransactionsAreGood` says that what is decoded
  of any raw transaction meets what `TxAssumption` of `TxPipeline` asks of its coins
  and signatures; `TransactionsSurviveEncoding`, `AccountsSurviveEncoding` and
  `QueriesSurviveEncoding` that it is decoded again as the same when it is encoded,
  for lists of any length; `TransfersStayAsSigned` that what the command line signs
  is what a node executes, of the bytes the command line makes, in which no field
  is repeated (`NoEarlier`).
- The same module, parameters: `ParamsAlwaysStayApart`. A write sets one key after
  the other, a fold over the parameters and hence a recursion over their subsets;
  what is read after it is what was set, because the keys of a module are distinct,
  and no other module's key is written, because no subspace's prefix
  begins another's.
- The same module, the specification `Algorithms`: `DecimalsAreAlwaysExact`,
  `DecodingIsAlwaysExact`, `TransfersAreAlwaysDecodedAsSigned`,
  `PrefixesAlwaysKeepApart` and `RootsAlwaysCommit`, the properties of the run
  `algorithms` for any sets of inputs the assumptions allow. An input is of the set
  of its kind (`InputsAreGiven`), so the theorems above apply to it. The params
  store needs an invariant of its own (`WrittenInv`): it is a store, unless a
  duration of the evidence parameters overflowed, which is the only panic, and auth
  and bank read from it what each wrote last, or panic before they wrote.

### Induction

The library's induction theorems, and the recursive definition of a fold, have
operators as parameters, which none of the provers instantiates. `Folds_proofs`
states them for sets and functions instead: a set of numbers that has a number
whenever it has all smaller ones, or the one before (`StepsInduction`), has them
all (`NumbersInduction`), the same for the subsets of a finite set
(`SubsetsInduction`), and a recursion over subsets, given by functions, has a
solution (`RecursionExists`). In `IAVL_proofs` a recursive function exists because
there is one up to every depth (`PathIs`, `RangeOfIs`). A sum over a finite set
is a number from which any element can be taken (`SumWithout`), which is what the
proofs about supply, fees and books use; and a finite set with an order has
exactly one ascending sequence (`AscendingExists`, `AscendingUnique`), which is
what sorting returns.

### Assumptions and limits

Assumptions are those of the constants (`NoneAssumption`, `MaxVersionAssumption`,
`TxAssumption`, `GenesisAssumption` and the like), which the runs evaluate. Of
those, four say something about what the code is given. The addresses are a
finite set, since a sum over balances must be one. `Queries` has the natural
numbers as values (`ValueAssumption`), and its genesis file lists no address and
denomination twice: with a pair twice the supply counts both and the balance is
the last, which is listed as a hazard. Its transfers have no denomination twice,
which is what `ValidateCoins` of `Encodings` makes sure of. The inputs of
`Algorithms` are what the code's types and decoders of bytes can yield: bytes in
their range, lists that are sequences, raw messages with their fields, transfers of
values that were parsed (`DecimalsAssumption` to `RootsAssumption`). The subspaces' names
are such that none begins another (`SubspaceAssumption`), as those of gaia-rs are.
The values that stand for an absence or a failure differ from what they are absent
from: of numbers and texts that is assumed with the constants
(`FailureAssumption`, `TextAssumption`); of records and lists TLC cannot evaluate
it, so it is the hypothesis `ValuesDiffer` of the theorems on encodings and parameters.

Only model-checked: liveness (`BlocksAreCommitted`), which needs ENABLED. Every
other property of the runs that pass is a theorem.

## Not modelled

- libp2p's swarm, gossipsub and mdns (`network/src`), RocksDB and Tendermint:
  external, modelled by what the code expects of them.
- The text of `config.toml` (`tendermint/src/lib.rs`), `hex_string_to_bytes`,
  argument parsing, pagination and `node_info`: formats without state.
- The regular expression of a denomination, bech32's checksum and the bytes of a
  protobuf message: membership in a set, or a message that is Malformed.
- `IAVL` reads by an older version, and the byte encoding of nodes. A version is
  written as u64 and read as u32 (listed as a hazard).
- A genesis file with an address twice (listed as a hazard): genesis lists each
  address and denomination once.
- Gas: the code does not account for it.
- Code that is not compiled or not called: `gears/src/types/tx.rs` and most of
  `gears/src/x/auth/auth.rs` (comments), `gears/src/store/store.rs` (no module
  declares it), `_verify_signature` in `gears/src/crypto.rs`.

The peers of BaseApp are correct nodes: received data is not checked against
hashes by the code, and no property depends on that. They label the trees of a
block with its number: a node running this code may label them with the next
(`baseapp.rs:536`), and what a node does with such a message is not covered. Amounts, sequences and
versions of `TxPipeline` and `Queries` are unbounded integers: a balance never
exceeds the supply, which genesis sums.

## Plan

1. Done: `KVStore`, `MultiStore`, `BlockLedger` and their proofs; `BaseApp`
   and its proofs; `IAVL` and its proofs; `TxPipeline` and its proofs.
2. Done: `Queries` and its proofs; `HomeDir` and its proofs; the pure modules, and `Algorithms` with its proofs.
3. Open: several nodes exchanging Version and State messages (each a `BaseApp`
   reduced to its heights and trees) and whether they converge.
