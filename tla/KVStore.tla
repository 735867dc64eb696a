------------------------------ MODULE KVStore ------------------------------
(***************************************************************************)
(* One module's key-value store (store/src/store.rs, struct KVStore): two  *)
(* write caches in front of a versioned IAVL tree (trees/src/iavl/tree.rs, *)
(* struct Tree).  Operators only; MultiStore.tla owns the state.           *)
(*                                                                         *)
(* A tree is abstracted to what its root hash commits to: for every key    *)
(* the leaf's value and the version that wrote it.  Root hashes are taken  *)
(* to be collision free, so the tree stands for its own hash.  The shape   *)
(* of the tree is the subject of IAVL.tla.                                 *)
(***************************************************************************)
EXTENDS Naturals

CONSTANTS
  Key,          \* keys of a store
  Value,        \* values of a store
  MaxVersion,   \* the largest version number (bounds the u64 of the code)
  None          \* no value, no leaf, or no root saved under a version

Version == 0..MaxVersion

Leaf == [value: Value, version: Version]

ASSUME MaxVersionAssumption == MaxVersion \in Nat \ {0}
ASSUME NoneAssumption ==
  None \notin Value \cup Leaf \cup [Key -> Leaf \cup {None}]

Cache == [Key -> Value \cup {None}]

Tree == [Key -> Leaf \cup {None}]

EmptyCache == [k \in Key |-> None]

EmptyTree == [k \in Key |-> None]

\* What the database holds under the root keys of one store: for every
\* version the tree its root hash leads to, None if the key is absent.
Roots == [Version -> Tree \cup {None}]

KV == [txCache: Cache, blockCache: Cache, tree: Tree,
       loadedVersion: Version, versions: SUBSET Version]

-----------------------------------------------------------------------------
(* Reading: tx cache, then block cache, then the tree.                     *)

\* The values of a tree, without the versions that wrote them.
TreeView(tree) ==
  [k \in Key |-> IF tree[k] = None THEN None ELSE tree[k].value]

\* A wrong Overlay: what is already there wins.
Underlay(upper, lower) ==
  [k \in Key |-> IF lower[k] # None THEN lower[k] ELSE upper[k]]

Overlay(upper, lower) ==
  [k \in Key |-> IF upper[k] # None THEN upper[k] ELSE lower[k]]

BlockView(kv) == Overlay(kv.blockCache, TreeView(kv.tree))

\* KVStore::get for every key.
Get(kv) == Overlay(kv.txCache, BlockView(kv))

-----------------------------------------------------------------------------
(* Writing.                                                                *)

Set(kv, k, v) == [kv EXCEPT !.txCache[k] = v]

\* A wrong WriteThenClearTxCache: the tx cache takes the block cache's place.
ReplaceBlockCache(kv) ==
  [kv EXCEPT !.blockCache = kv.txCache, !.txCache = EmptyCache]

WriteThenClearTxCache(kv) ==
  [kv EXCEPT !.blockCache = Overlay(kv.txCache, kv.blockCache),
             !.txCache = EmptyCache]

\* A wrong ClearTxCache: the tx cache keeps what was written.
KeepTxCache(kv) == kv

ClearTxCache(kv) == [kv EXCEPT !.txCache = EmptyCache]

\* A wrong WriteThenClearBlockCache: the leaves get the version after the one
\* being written.
WriteBlockCacheOneAhead(kv) ==
  [kv EXCEPT
     !.tree = [k \in Key |->
                 IF kv.blockCache[k] # None
                 THEN [value |-> kv.blockCache[k],
                       version |-> kv.loadedVersion + 2]
                 ELSE kv.tree[k]],
     !.blockCache = EmptyCache]

\* Tree::set stamps every leaf it writes with loaded_version + 1.
WriteThenClearBlockCache(kv) ==
  [kv EXCEPT
     !.tree = [k \in Key |->
                 IF kv.blockCache[k] # None
                 THEN [value |-> kv.blockCache[k],
                       version |-> kv.loadedVersion + 1]
                 ELSE kv.tree[k]],
     !.blockCache = EmptyCache]

Flushed(kv) == WriteThenClearBlockCache(WriteThenClearTxCache(kv))

-----------------------------------------------------------------------------
(* Versions of the tree.                                                   *)

NextVersion(kv) == kv.loadedVersion + 1

\* A wrong CanSaveVersion: overwriting is not looked for.
CanAlwaysSaveVersion(kv, roots) == TRUE

\* Tree::save_version refuses to give an existing version another hash
\* (Error::Overwrite, unwrapped by KVStore::commit) and expects a version it
\* knows to have a root in the database.  Saving the same hash again is a
\* no-op.
CanSaveVersion(kv, roots) ==
  NextVersion(kv) \in kv.versions => roots[NextVersion(kv)] = kv.tree

\* A wrong SaveVersion: the loaded version is not moved.
SaveVersionInPlace(kv) ==
  [kv EXCEPT !.versions = @ \cup {NextVersion(kv)}]

SaveVersion(kv) ==
  [kv EXCEPT !.loadedVersion = NextVersion(kv),
             !.versions = @ \cup {NextVersion(kv)}]

SavedRoots(kv, roots) == [roots EXCEPT ![NextVersion(kv)] = kv.tree]

SavedVersions(roots) == {v \in Version : roots[v] # None}

\* A wrong LatestVersion: the first one found.
FirstVersion(roots) ==
  IF SavedVersions(roots) = {}
  THEN 0
  ELSE CHOOSE v \in SavedVersions(roots) :
         \A w \in SavedVersions(roots) : v <= w

\* The greatest version saved, 0 if there is none.
LatestVersion(roots) ==
  IF SavedVersions(roots) = {}
  THEN 0
  ELSE CHOOSE v \in SavedVersions(roots) :
         \A w \in SavedVersions(roots) : w <= v

\* KVStore::new(db, None): the latest version in the database, empty caches.
Opened(roots) ==
  [txCache |-> EmptyCache,
   blockCache |-> EmptyCache,
   tree |-> IF SavedVersions(roots) = {} THEN EmptyTree
            ELSE roots[LatestVersion(roots)],
   loadedVersion |-> LatestVersion(roots),
   versions |-> SavedVersions(roots)]

\* KVStore::process_all_state_info: the peer's tree becomes the working tree
\* of version v.  Its nodes are written to the database, but no root key is;
\* the caches keep what they hold.
InstallTree(kv, tree, v) ==
  [kv EXCEPT !.tree = tree, !.loadedVersion = v, !.versions = @ \cup {v}]

\* NodeDB::get_all_nodes unwraps twice: the version must have a root in the
\* database, and a tree under it.
CanLoadAllNodes(roots, v) ==
  /\ v \in SavedVersions(roots)
  /\ roots[v] # EmptyTree

=============================================================================
