----------------------------- MODULE MultiStore -----------------------------
(***************************************************************************)
(* The application's state (store/src/store.rs, struct MultiStore): one    *)
(* KVStore per module, a head version (the block number) and a head hash   *)
(* (the app hash).  Every operation runs under the write lock of the       *)
(* BaseApp, so only a crash can come between the steps of one.  A commit   *)
(* writes the stores one after the other, in the order of a HashMap; the   *)
(* database has no transaction around them.                                *)
(***************************************************************************)
EXTENDS KVStore

CONSTANTS
  Store,       \* the store keys
  LastStore    \* the last of SK::iter(), whose version MultiStore::new keeps

ASSUME LastStoreAssumption == LastStore \in Store

VARIABLES
  kv,           \* kv[s]: the store in memory
  roots,        \* roots[s]: what the database holds for the store
  headVersion,  \* head_version
  headHash,     \* head_commit_hash: the root hash of every store
  mode,         \* "running", "committing", or "poisoned" by a panic
  uncommitted   \* the stores the running commit has still to write

vars == <<kv, roots, headVersion, headHash, mode, uncommitted>>

TypeOK ==
  /\ kv \in [Store -> KV]
  /\ roots \in [Store -> Roots]
  /\ headVersion \in Version
  /\ headHash \in [Store -> Tree]
  /\ mode \in {"running", "committing", "poisoned"}
  /\ uncommitted \subseteq Store

\* hash::hash_store_infos sorts the pairs of name and root hash, so the order
\* in which the stores were visited does not matter.
HashStoreInfos(stores) == [s \in Store |-> stores[s].tree]

\* MultiStore::new over an empty database.
Init ==
  /\ roots = [s \in Store |-> [v \in Version |-> None]]
  /\ kv = [s \in Store |-> Opened(roots[s])]
  /\ headVersion = 0
  /\ headHash = [s \in Store |-> EmptyTree]
  /\ mode = "running"
  /\ uncommitted = {}

-----------------------------------------------------------------------------
(* Transactions.                                                           *)

SetKey(s, k, v) ==
  /\ mode = "running"
  /\ kv' = [kv EXCEPT ![s] = Set(kv[s], k, v)]
  /\ UNCHANGED <<roots, headVersion, headHash, mode, uncommitted>>

WriteThenClearTxCaches ==
  /\ mode = "running"
  /\ kv' = [s \in Store |-> WriteThenClearTxCache(kv[s])]
  /\ UNCHANGED <<roots, headVersion, headHash, mode, uncommitted>>

ClearTxCaches ==
  /\ mode = "running"
  /\ kv' = [s \in Store |-> ClearTxCache(kv[s])]
  /\ UNCHANGED <<roots, headVersion, headHash, mode, uncommitted>>

-----------------------------------------------------------------------------
(* MultiStore::commit.                                                     *)

\* A wrong BeginCommit: only the stores with something in their caches.
BeginCommitOfChanged ==
  /\ mode = "running"
  /\ headVersion < MaxVersion
  /\ \A s \in Store : kv[s].loadedVersion < MaxVersion
  /\ mode' = "committing"
  /\ uncommitted' = {s \in Store : Get(kv[s]) # TreeView(kv[s].tree)}
  /\ UNCHANGED <<kv, roots, headVersion, headHash>>

BeginCommit ==
  /\ mode = "running"
  \* the bound on the versions
  /\ headVersion < MaxVersion
  /\ \A s \in Store : kv[s].loadedVersion < MaxVersion
  /\ mode' = "committing"
  /\ uncommitted' = Store
  /\ UNCHANGED <<kv, roots, headVersion, headHash>>

\* KVStore::commit: flush the caches into the tree and save its version.
CommitStore(s) ==
  /\ mode = "committing"
  /\ s \in uncommitted
  /\ LET flushed == Flushed(kv[s]) IN
       /\ CanSaveVersion(flushed, roots[s])
       /\ kv' = [kv EXCEPT ![s] = SaveVersion(flushed)]
       /\ roots' = [roots EXCEPT ![s] = SavedRoots(flushed, roots[s])]
  /\ uncommitted' = uncommitted \ {s}
  /\ UNCHANGED <<headVersion, headHash, mode>>

\* The unwrap of save_version's error: the lock is poisoned, and the stores
\* stay as the panic found them.
CommitStorePanics(s) ==
  /\ mode = "committing"
  /\ s \in uncommitted
  /\ ~CanSaveVersion(Flushed(kv[s]), roots[s])
  /\ kv' = [kv EXCEPT ![s] = Flushed(kv[s])]
  /\ mode' = "poisoned"
  /\ uncommitted' = {}
  /\ UNCHANGED <<roots, headVersion, headHash>>

\* A store commits.  That Tree::set panics in the flush (IAVL's finding) is not a
\* step of this module: BaseApp adds it (FlushPanics).
StoreCommits(s) ==
  IF CanSaveVersion(Flushed(kv[s]), roots[s])
  THEN CommitStore(s)
  ELSE CommitStorePanics(s)

\* A wrong FinishCommit: the head hash is left to the next block.
FinishCommitWithoutHash ==
  /\ mode = "committing"
  /\ uncommitted = {}
  /\ headVersion' = headVersion + 1
  /\ mode' = "running"
  /\ UNCHANGED <<kv, roots, uncommitted, headHash>>

FinishCommit ==
  /\ mode = "committing"
  /\ uncommitted = {}
  /\ headHash' = HashStoreInfos(kv)
  /\ headVersion' = headVersion + 1
  /\ mode' = "running"
  /\ UNCHANGED <<kv, roots, uncommitted>>

-----------------------------------------------------------------------------
(* A peer's state, as BaseApp::process_state_msg installs it: every store  *)
(* of the message, then the head hash and the head version.                *)

Install(snapshot, v) ==
  /\ kv' = [s \in Store |-> InstallTree(kv[s], snapshot[s], v)]
  /\ headHash' = snapshot
  /\ headVersion' = v
  /\ UNCHANGED <<roots, mode, uncommitted>>

\* A peer's trees: none is empty (its sender would have panicked) and no leaf
\* is newer than the version.
Snapshot(v) ==
  [Store -> {t \in Tree : /\ t # EmptyTree
                          /\ \A k \in Key : t[k] # None => t[k].version <= v}]

InstallState ==
  /\ mode = "running"
  /\ \E v \in Version \ {0} : \E snapshot \in Snapshot(v) :
       Install(snapshot, v)

-----------------------------------------------------------------------------
(* Restart of the process: MultiStore::new over what the database holds.   *)

Reopen ==
  /\ kv' = [s \in Store |-> Opened(roots[s])]
  /\ headVersion' = LatestVersion(roots[LastStore])
  /\ headHash' = HashStoreInfos(kv')
  /\ mode' = "running"
  /\ uncommitted' = {}
  /\ UNCHANGED roots

\* The process stops between two operations, or after a panic.
Restart == mode # "committing" /\ Reopen

\* The process stops between two stores of a commit.  (Within one store the
\* root key is written last, so that a store's version is there or not.)
RestartInCommit == mode = "committing" /\ Reopen

-----------------------------------------------------------------------------

BlockStep ==
  \/ \E s \in Store, k \in Key, v \in Value : SetKey(s, k, v)
  \/ WriteThenClearTxCaches
  \/ ClearTxCaches
  \/ BeginCommit
  \/ \E s \in Store : StoreCommits(s)
  \/ FinishCommit
  \/ Restart

\* The node executes blocks and is stopped only between commits.
BlockSpec == Init /\ [][BlockStep]_vars

CrashStep == BlockStep \/ RestartInCommit

\* ... and is stopped anywhere.
CrashSpec == Init /\ [][CrashStep]_vars

Next == CrashStep \/ InstallState

\* ... and installs the states of its peers.
Spec == Init /\ [][Next]_vars

-----------------------------------------------------------------------------
(* Properties.                                                             *)

\* A version that is in the database never changes and never disappears:
\* neither a commit after a restart, nor one interrupted halfway, nor one
\* after a peer's state moved the version elsewhere, overwrites it
\* (Tree::save_version: "Returns an error if saving would overwrite an
\* existing version").
SavedVersionsImmutable ==
  [][\A s \in Store, v \in Version :
       roots[s][v] # None => roots'[s][v] = roots[s][v]]_vars

\* Outside a commit the head hash is the hash of the stores' trees and the
\* head version is the version of the last store, whatever transactions have
\* left in the caches, and also after a restart or a peer's state.
HeadDescribesStores ==
  mode = "running" =>
    /\ headHash = HashStoreInfos(kv)
    /\ headVersion = kv[LastStore].loadedVersion

\* Without peers' states, a store in memory is the latest version in the
\* database with the caches on top, in every state of a commit and after
\* every crash: no write reaches the tree but by a save.
TreeIsLatestSaved ==
  \A s \in Store :
    /\ kv[s].versions = SavedVersions(roots[s])
    /\ kv[s].loadedVersion = LatestVersion(roots[s])
    /\ kv[s].tree = Opened(roots[s]).tree

\* Without peers' states a commit never panics, however many commits a crash
\* has interrupted (the unwrap of save_version in KVStore::commit).
NeverPoisoned == mode # "poisoned"

\* Without peers' states the block number reported to Tendermint never goes
\* back, across crashes too: a height once acknowledged is not forgotten.
HeadNeverRegresses == [][headVersion' >= headVersion]_vars

\* A node stopped only between commits has all stores at the head version;
\* within a commit those already written are one version ahead.
StoresInStep ==
  \A s \in Store :
    kv[s].loadedVersion =
      IF mode = "committing" /\ s \notin uncommitted
      THEN headVersion + 1 ELSE headVersion

\* What a comment says of the multi store, that it is one block
\* (store/src/store.rs:52): when it is at rest all its stores are at the
\* version of the head.
MultiStoreIsOneBlock ==
  mode = "running" => \A s \in Store : kv[s].loadedVersion = headVersion

-----------------------------------------------------------------------------
(* A node stopped only between commits implements the ledger of blocks.    *)
(* The commit takes effect at its beginning, where the lock hides it.      *)

View(stores) == [s \in Store |-> Get(stores[s])]

SavedView(v) == [s \in Store |-> TreeView(roots[s][v])]

ledgerVersion ==
  IF mode = "committing" THEN headVersion + 1 ELSE headVersion

ledgerHistory ==
  [v \in 1..ledgerVersion |->
     IF v = headVersion + 1 THEN View(kv) ELSE SavedView(v)]

ledgerBlock ==
  IF mode = "committing"
  THEN View(kv) ELSE [s \in Store |-> BlockView(kv[s])]

Ledger == INSTANCE BlockLedger
  WITH version <- ledgerVersion, history <- ledgerHistory,
       block <- ledgerBlock, tx <- View(kv)

LedgerSpec == Ledger!Spec

=============================================================================
