------------------------- MODULE MultiStore_proofs -------------------------
(***************************************************************************)
(* Theorems about MultiStore, for every set of stores, keys and values and *)
(* every bound on the versions.                                            *)
(***************************************************************************)
EXTENDS MultiStore, TLAPS

-----------------------------------------------------------------------------
(* The operators of KVStore.                                               *)

\* The trees of a database are never None, so a saved tree is a saved version.
LEMMA TreeIsNotNone == None \notin Tree /\ None \notin Leaf /\ None \notin Value
BY NoneAssumption DEF Tree

\* A commit moves what the caches hold into the tree and nothing else.
LEMMA FlushedType ==
  ASSUME NEW c \in KV, c.loadedVersion < MaxVersion
  PROVE  /\ Flushed(c) \in KV
         /\ Flushed(c).loadedVersion = c.loadedVersion
         /\ Flushed(c).versions = c.versions
         /\ Flushed(c).txCache = EmptyCache
         /\ Flushed(c).blockCache = EmptyCache
<1> DEFINE d == WriteThenClearTxCache(c)
<1>1. /\ d \in KV
      /\ d.loadedVersion = c.loadedVersion
      /\ d.versions = c.versions
      /\ d.txCache = EmptyCache
  BY DEF WriteThenClearTxCache, KV, Cache, Overlay, EmptyCache
<1>2. c.loadedVersion + 1 \in Version
  BY MaxVersionAssumption DEF KV, Version
<1> HIDE DEF d
<1>3. \A k \in Key : d.blockCache[k] # None =>
        [value |-> d.blockCache[k], version |-> d.loadedVersion + 1] \in Leaf
  BY <1>1, <1>2 DEF KV, Cache, Leaf
<1>4. WriteThenClearBlockCache(d).tree \in Tree
  BY <1>1, <1>3 DEF WriteThenClearBlockCache, KV, Tree
<1>5. QED
  BY <1>1, <1>4 DEF Flushed, d, WriteThenClearBlockCache, KV, Cache, EmptyCache

\* Saving a version keeps every type.
LEMMA SaveVersionType ==
  ASSUME NEW c \in KV, c.loadedVersion < MaxVersion, NEW r \in Roots
  PROVE  /\ SaveVersion(c) \in KV
         /\ NextVersion(c) \in Version \ {0}
         /\ SavedRoots(c, r) \in Roots
         /\ SavedVersions(SavedRoots(c, r)) = SavedVersions(r) \cup {NextVersion(c)}
<1>1. NextVersion(c) \in Version \ {0}
  BY MaxVersionAssumption DEF KV, Version, NextVersion
<1>2. SaveVersion(c) \in KV
  BY <1>1 DEF SaveVersion, KV
<1>3. SavedRoots(c, r) \in Roots
  BY <1>1 DEF SavedRoots, Roots, KV
<1>4. SavedVersions(SavedRoots(c, r)) = SavedVersions(r) \cup {NextVersion(c)}
  BY <1>1, TreeIsNotNone DEF SavedVersions, SavedRoots, Roots, KV
<1>5. QED BY <1>1, <1>2, <1>3, <1>4

\* A greatest saved version.  That it exists for every finite set of versions
\* needs induction; that it exists in every reachable database does not, and
\* is part of the invariant below.
HasLatest(r) ==
  SavedVersions(r) # {} =>
    \E v \in SavedVersions(r) : \A w \in SavedVersions(r) : w <= v

LEMMA LatestVersionIsGreatest ==
  ASSUME NEW r \in Roots, HasLatest(r)
  PROVE  /\ LatestVersion(r) \in Version
         /\ SavedVersions(r) # {} =>
              /\ LatestVersion(r) \in SavedVersions(r)
              /\ \A w \in SavedVersions(r) : w <= LatestVersion(r)
<1>1. CASE SavedVersions(r) = {}
  BY <1>1, MaxVersionAssumption DEF LatestVersion, Version
<1>2. CASE SavedVersions(r) # {}
  <2>1. PICK v \in SavedVersions(r) : \A w \in SavedVersions(r) : w <= v
    BY <1>2 DEF HasLatest
  <2>2. /\ LatestVersion(r) \in SavedVersions(r)
        /\ \A w \in SavedVersions(r) : w <= LatestVersion(r)
    BY <1>2, <2>1 DEF LatestVersion
  <2>3. QED BY <2>2 DEF SavedVersions
<1>3. QED BY <1>1, <1>2

\* What MultiStore::new builds is well typed.
LEMMA OpenedType ==
  ASSUME NEW r \in Roots, HasLatest(r)
  PROVE  Opened(r) \in KV
<1>1. Opened(r).tree \in Tree
  BY LatestVersionIsGreatest DEF Opened, SavedVersions, Roots, Tree, EmptyTree
<1>2. QED
  BY <1>1, LatestVersionIsGreatest
     DEF Opened, KV, Cache, EmptyCache, SavedVersions

\* Saving another version keeps a greatest one.
LEMMA SaveKeepsLatest ==
  ASSUME NEW c \in KV, c.loadedVersion < MaxVersion, NEW r \in Roots, HasLatest(r)
  PROVE  HasLatest(SavedRoots(c, r))
<1> DEFINE n == NextVersion(c)
<1>1. /\ n \in Version
      /\ SavedVersions(SavedRoots(c, r)) = SavedVersions(r) \cup {n}
  BY SaveVersionType
<1> HIDE DEF n
<1>2. SavedVersions(r) \subseteq Nat /\ n \in Nat
  BY <1>1, MaxVersionAssumption DEF SavedVersions, Version
<1>3. CASE SavedVersions(r) = {}
  BY <1>1, <1>2, <1>3 DEF HasLatest
<1>4. CASE SavedVersions(r) # {}
  <2>1. PICK v \in SavedVersions(r) : \A w \in SavedVersions(r) : w <= v
    BY <1>4 DEF HasLatest
  <2>2. CASE n <= v
    BY <1>1, <1>2, <2>1, <2>2 DEF HasLatest
  <2>3. CASE v < n
    <3>1. \A w \in SavedVersions(r) \cup {n} : w <= n
      BY <1>2, <2>1, <2>3
    <3>2. QED BY <3>1, <1>1 DEF HasLatest
  <2>4. QED BY <1>2, <2>2, <2>3
<1>5. QED BY <1>3, <1>4

-----------------------------------------------------------------------------
(* The whole node: blocks, crashes anywhere, peers' states.                *)

\* A store in memory knows every version its database holds, which is what
\* makes save_version's check effective; and a commit under way has room for
\* the versions it has still to save.
StoreInv ==
  /\ TypeOK
  /\ \A s \in Store : HasLatest(roots[s])
  /\ \A s \in Store : SavedVersions(roots[s]) \subseteq kv[s].versions
  /\ mode = "running" => uncommitted = {}
  /\ mode = "committing" =>
       /\ headVersion < MaxVersion
       /\ \A s \in uncommitted : kv[s].loadedVersion < MaxVersion

LEMMA StoreInvInit == Init => StoreInv
<1> SUFFICES ASSUME Init PROVE StoreInv
  OBVIOUS
<1>1. roots \in [Store -> Roots]
  BY DEF Init, Roots
<1>2. \A s \in Store : SavedVersions(roots[s]) = {} /\ HasLatest(roots[s])
  BY DEF Init, SavedVersions, HasLatest
<1>3. kv \in [Store -> KV]
  BY <1>1, <1>2, OpenedType DEF Init
<1>4. headVersion \in Version /\ headHash \in [Store -> Tree]
  BY MaxVersionAssumption DEF Init, Version, Tree, EmptyTree
<1>5. QED
  BY <1>1, <1>2, <1>3, <1>4 DEF Init, StoreInv, TypeOK

\* What a step that commits one store does to it and to its database.
LEMMA CommitStoreEffect ==
  ASSUME StoreInv, NEW s \in Store, CommitStore(s)
  PROVE  /\ kv[s] \in KV /\ kv[s].loadedVersion < MaxVersion
         /\ kv' = [kv EXCEPT ![s] = SaveVersion(Flushed(kv[s]))]
         /\ kv'[s] \in KV
         /\ roots' = [roots EXCEPT ![s] = SavedRoots(Flushed(kv[s]), roots[s])]
         /\ roots'[s] \in Roots
         /\ NextVersion(Flushed(kv[s])) = kv[s].loadedVersion + 1
         /\ SavedVersions(roots'[s]) = SavedVersions(roots[s]) \cup {kv[s].loadedVersion + 1}
         /\ kv'[s].versions = kv[s].versions \cup {kv[s].loadedVersion + 1}
         /\ kv'[s].loadedVersion = kv[s].loadedVersion + 1
         /\ HasLatest(roots'[s])
<1>1. /\ kv[s] \in KV /\ roots[s] \in Roots /\ HasLatest(roots[s])
      /\ kv[s].loadedVersion < MaxVersion
  BY DEF StoreInv, TypeOK, CommitStore
<1> DEFINE f == Flushed(kv[s])
<1>2. /\ f \in KV /\ f.loadedVersion = kv[s].loadedVersion
      /\ f.versions = kv[s].versions
  BY <1>1, FlushedType
<1>3. /\ kv' = [kv EXCEPT ![s] = SaveVersion(f)]
      /\ roots' = [roots EXCEPT ![s] = SavedRoots(f, roots[s])]
  BY DEF CommitStore
<1>4. kv'[s] = SaveVersion(f) /\ roots'[s] = SavedRoots(f, roots[s])
  BY <1>3 DEF StoreInv, TypeOK
<1> HIDE DEF f
<1>5. /\ SaveVersion(f) \in KV /\ SavedRoots(f, roots[s]) \in Roots
      /\ SavedVersions(SavedRoots(f, roots[s]))
           = SavedVersions(roots[s]) \cup {NextVersion(f)}
      /\ HasLatest(SavedRoots(f, roots[s]))
  BY <1>1, <1>2, SaveVersionType, SaveKeepsLatest
<1>6. NextVersion(f) = kv[s].loadedVersion + 1
  BY <1>2 DEF NextVersion
<1>7. /\ SaveVersion(f).versions = f.versions \cup {NextVersion(f)}
      /\ SaveVersion(f).loadedVersion = NextVersion(f)
  BY <1>2 DEF SaveVersion, KV
<1>8. QED
  BY <1>1, <1>2, <1>3, <1>4, <1>5, <1>6, <1>7 DEF f

LEMMA StoreInvStep == StoreInv /\ [Next]_vars => StoreInv'
<1> SUFFICES ASSUME StoreInv, [Next]_vars PROVE StoreInv'
  OBVIOUS
<1> USE DEF TypeOK
<1>1. ASSUME NEW s \in Store, NEW k \in Key, NEW v \in Value, SetKey(s, k, v)
      PROVE  StoreInv'
  <2>1. /\ Set(kv[s], k, v) \in KV
        /\ Set(kv[s], k, v).versions = kv[s].versions
    BY DEF StoreInv, Set, KV, Cache
  <2>2. QED BY <1>1, <2>1 DEF SetKey, StoreInv
<1>2. CASE WriteThenClearTxCaches
  <2>1. ASSUME NEW s \in Store
        PROVE  /\ WriteThenClearTxCache(kv[s]) \in KV
               /\ WriteThenClearTxCache(kv[s]).versions = kv[s].versions
    <3>1. kv[s] \in KV
      BY DEF StoreInv
    <3>2. QED
      BY <3>1 DEF WriteThenClearTxCache, KV, Cache, Overlay, EmptyCache
  <2>2. QED BY <1>2, <2>1 DEF WriteThenClearTxCaches, StoreInv
<1>3. CASE ClearTxCaches
  <2>1. ASSUME NEW s \in Store
        PROVE  /\ ClearTxCache(kv[s]) \in KV
               /\ ClearTxCache(kv[s]).versions = kv[s].versions
    BY DEF StoreInv, ClearTxCache, KV, Cache, EmptyCache
  <2>2. QED BY <1>3, <2>1 DEF ClearTxCaches, StoreInv
<1>4. CASE BeginCommit
  BY <1>4 DEF BeginCommit, StoreInv
<1>5. ASSUME NEW s \in Store, CommitStore(s)
      PROVE  StoreInv'
  <2>1. TypeOK'
    BY <1>5, CommitStoreEffect DEF StoreInv, CommitStore
  <2>2. \A t \in Store : t # s => kv'[t] = kv[t] /\ roots'[t] = roots[t]
    BY <1>5 DEF StoreInv, CommitStore
  <2>3. \A t \in Store : HasLatest(roots'[t])
    BY <1>5, <2>2, CommitStoreEffect DEF StoreInv
  <2>4. \A t \in Store : SavedVersions(roots'[t]) \subseteq kv'[t].versions
    BY <1>5, <2>2, CommitStoreEffect DEF StoreInv
  <2>5. \A t \in uncommitted' : kv'[t].loadedVersion < MaxVersion
    BY <1>5, <2>2 DEF StoreInv, CommitStore
  <2>6. mode' = mode /\ mode = "committing" /\ headVersion' = headVersion
    BY <1>5 DEF CommitStore
  <2>7. QED
    BY <2>1, <2>3, <2>4, <2>5, <2>6 DEF StoreInv, HasLatest
<1>6. ASSUME NEW s \in Store, CommitStorePanics(s)
      PROVE  StoreInv'
  <2>1. kv[s] \in KV /\ kv[s].loadedVersion < MaxVersion
    BY <1>6 DEF StoreInv, CommitStorePanics
  <2>2. Flushed(kv[s]) \in KV /\ Flushed(kv[s]).versions = kv[s].versions
    BY <2>1, FlushedType
  <2>3. QED BY <1>6, <2>2 DEF StoreInv, CommitStorePanics
<1>7. CASE FinishCommit
  <2>1. headVersion' \in Version
    BY <1>7, MaxVersionAssumption DEF StoreInv, FinishCommit, Version
  <2>2. headHash' \in [Store -> Tree]
    BY <1>7 DEF StoreInv, FinishCommit, HashStoreInfos, KV
  <2>3. QED BY <1>7, <2>1, <2>2 DEF StoreInv, FinishCommit
<1>8. CASE Reopen
  <2>1. \A s \in Store : Opened(roots[s]) \in KV
    BY OpenedType DEF StoreInv
  <2>2. kv' \in [Store -> KV]
    BY <1>8, <2>1 DEF Reopen
  <2>3. headVersion' \in Version
    BY <1>8, LatestVersionIsGreatest, LastStoreAssumption DEF StoreInv, Reopen
  <2>4. headHash' \in [Store -> Tree]
    BY <1>8, <2>2 DEF Reopen, HashStoreInfos, KV
  <2>5. \A s \in Store : kv'[s].versions = SavedVersions(roots[s])
    BY <1>8 DEF Reopen, Opened
  <2>6. QED BY <1>8, <2>2, <2>3, <2>4, <2>5 DEF StoreInv, Reopen
<1>9. CASE InstallState
  <2>1. PICK v \in Version \ {0} : \E sn \in Snapshot(v) : Install(sn, v)
    BY <1>9 DEF InstallState
  <2>2. PICK sn \in Snapshot(v) : Install(sn, v)
    BY <2>1
  <2>3. sn \in [Store -> Tree]
    BY DEF Snapshot
  <2>4. ASSUME NEW s \in Store
        PROVE  /\ InstallTree(kv[s], sn[s], v) \in KV
               /\ kv[s].versions \subseteq InstallTree(kv[s], sn[s], v).versions
    <3>1. kv[s] \in KV /\ sn[s] \in Tree
      BY <2>3 DEF StoreInv
    <3>2. QED BY <3>1 DEF InstallTree, KV
  <2>5. /\ kv' \in [Store -> KV]
        /\ \A s \in Store : kv[s].versions \subseteq kv'[s].versions
    BY <2>2, <2>4 DEF Install
  <2>6. mode' = "running" /\ uncommitted' = {} /\ roots' = roots
    BY <1>9, <2>2 DEF InstallState, Install, StoreInv
  <2>7. headVersion' \in Version /\ headHash' \in [Store -> Tree]
    BY <2>2, <2>3 DEF Install
  <2>8. QED BY <2>5, <2>6, <2>7 DEF StoreInv
<1>10. CASE UNCHANGED vars
  BY <1>10 DEF vars, StoreInv
<1>11. QED
  BY <1>1, <1>2, <1>3, <1>4, <1>5, <1>6, <1>7, <1>8, <1>9, <1>10
     DEF Next, CrashStep, BlockStep, StoreCommits, Restart, RestartInCommit

\* Every state the node reaches is well typed.
THEOREM TypeCorrect == Spec => []TypeOK
<1>1. StoreInv => TypeOK
  BY DEF StoreInv
<1>2. QED BY <1>1, StoreInvInit, StoreInvStep, PTL DEF Spec

\* A commit saves a version that the database has not got, or has the same.
LEMMA CommitStoreKeepsVersions ==
  ASSUME StoreInv, NEW s \in Store, CommitStore(s)
  PROVE  \A t \in Store, v \in Version :
           roots[t][v] # None => roots'[t][v] = roots[t][v]
<1>1. \A t \in Store : t # s => roots'[t] = roots[t]
  BY DEF StoreInv, TypeOK, CommitStore
<1> DEFINE f == Flushed(kv[s])
           n == NextVersion(f)
<1>2. /\ f.versions = kv[s].versions
      /\ roots'[s] = SavedRoots(f, roots[s])
      /\ CanSaveVersion(f, roots[s])
  <2>1. kv[s] \in KV /\ kv[s].loadedVersion < MaxVersion
    BY CommitStoreEffect
  <2>2. QED
    BY <2>1, FlushedType DEF CommitStore, StoreInv, TypeOK
<1>3. ASSUME NEW v \in Version, roots[s][v] # None
      PROVE  roots'[s][v] = roots[s][v]
  <2>1. v \in f.versions
    BY <1>2, <1>3 DEF StoreInv, SavedVersions
  <2>2. CASE v = n
    BY <1>2, <2>1, <2>2 DEF SavedRoots, CanSaveVersion, StoreInv, TypeOK, Roots
  <2>3. CASE v # n
    BY <1>2, <2>3 DEF SavedRoots, StoreInv, TypeOK, Roots
  <2>4. QED BY <2>2, <2>3
<1>4. QED BY <1>1, <1>3

\* No version in a database is ever overwritten or lost, whatever crashes and
\* peers' states come between the commits (Tree::save_version).
THEOREM VersionsAreImmutable == Spec => SavedVersionsImmutable
<1> DEFINE Kept == \A s \in Store, v \in Version :
                     roots[s][v] # None => roots'[s][v] = roots[s][v]
<1>1. StoreInv /\ [Next]_vars => [Kept]_vars
  <2> SUFFICES ASSUME StoreInv, Next PROVE Kept
    OBVIOUS
  <2>1. ASSUME NEW s \in Store, CommitStore(s)
        PROVE  Kept
    BY <2>1, CommitStoreKeepsVersions
  <2>2. CASE roots' = roots
    BY <2>2
  <2>3. QED
    BY <2>1, <2>2
       DEF Next, CrashStep, BlockStep, StoreCommits, SetKey, WriteThenClearTxCaches,
           ClearTxCaches, BeginCommit, CommitStorePanics, FinishCommit,
           Restart, RestartInCommit, Reopen, InstallState, Install
<1>2. QED
  BY <1>1, StoreInvInit, StoreInvStep, PTL DEF Spec, SavedVersionsImmutable

-----------------------------------------------------------------------------
(* The head, in every execution.                                           *)

\* The head version follows the last store, one behind while a commit has
\* written that store and not yet finished.
HeadInv ==
  /\ mode = "running" => headHash = HashStoreInfos(kv)
  /\ mode # "poisoned" =>
       kv[LastStore].loadedVersion =
         IF mode = "committing" /\ LastStore \notin uncommitted
         THEN headVersion + 1 ELSE headVersion

LEMMA HeadInvInit == Init => HeadInv
<1> SUFFICES ASSUME Init PROVE HeadInv
  OBVIOUS
<1>1. \A s \in Store : SavedVersions(roots[s]) = {}
  BY DEF Init, SavedVersions
<1>2. \A s \in Store : kv[s].tree = EmptyTree /\ kv[s].loadedVersion = 0
  BY <1>1 DEF Init, Opened, LatestVersion
<1>3. QED
  BY <1>2, LastStoreAssumption DEF Init, HeadInv, HashStoreInfos

LEMMA HeadInvStep == StoreInv /\ HeadInv /\ [Next]_vars => HeadInv'
<1> SUFFICES ASSUME StoreInv, HeadInv, [Next]_vars PROVE HeadInv'
  OBVIOUS
<1> USE LastStoreAssumption
<1>1. ASSUME mode = "running",
             headHash' = headHash, headVersion' = headVersion, mode' = mode,
             \A s \in Store : /\ kv'[s].tree = kv[s].tree
                             /\ kv'[s].loadedVersion = kv[s].loadedVersion
      PROVE  HeadInv'
  BY <1>1 DEF HeadInv, HashStoreInfos
<1>2. ASSUME NEW s \in Store, NEW k \in Key, NEW v \in Value, SetKey(s, k, v)
      PROVE  HeadInv'
  <2>1. kv[s] \in KV
    BY DEF StoreInv, TypeOK
  <2>2. /\ Set(kv[s], k, v).tree = kv[s].tree
        /\ Set(kv[s], k, v).loadedVersion = kv[s].loadedVersion
    BY <2>1 DEF Set, KV
  <2>3. QED BY <1>1, <1>2, <2>2 DEF SetKey, StoreInv, TypeOK
<1>3. CASE WriteThenClearTxCaches
  <2>1. ASSUME NEW s \in Store
        PROVE  /\ WriteThenClearTxCache(kv[s]).tree = kv[s].tree
               /\ WriteThenClearTxCache(kv[s]).loadedVersion = kv[s].loadedVersion
    <3>1. kv[s] \in KV
      BY DEF StoreInv, TypeOK
    <3>2. QED BY <3>1 DEF WriteThenClearTxCache, KV
  <2>2. QED BY <1>1, <1>3, <2>1 DEF WriteThenClearTxCaches
<1>4. CASE ClearTxCaches
  <2>1. ASSUME NEW s \in Store
        PROVE  /\ ClearTxCache(kv[s]).tree = kv[s].tree
               /\ ClearTxCache(kv[s]).loadedVersion = kv[s].loadedVersion
    <3>1. kv[s] \in KV
      BY DEF StoreInv, TypeOK
    <3>2. QED BY <3>1 DEF ClearTxCache, KV
  <2>2. QED BY <1>1, <1>4, <2>1 DEF ClearTxCaches
<1>5. CASE BeginCommit
  BY <1>5 DEF BeginCommit, HeadInv
<1>6. ASSUME NEW s \in Store, CommitStore(s)
      PROVE  HeadInv'
  <2>1. CASE s = LastStore
    BY <1>6, <2>1, CommitStoreEffect DEF CommitStore, HeadInv, StoreInv, TypeOK
  <2>2. CASE s # LastStore
    BY <1>6, <2>2 DEF CommitStore, HeadInv, StoreInv, TypeOK
  <2>3. QED BY <2>1, <2>2
<1>7. ASSUME NEW s \in Store, CommitStorePanics(s)
      PROVE  HeadInv'
  BY <1>7 DEF CommitStorePanics, HeadInv
<1>8. CASE FinishCommit
  BY <1>8 DEF FinishCommit, HeadInv
<1>9. CASE Reopen
  BY <1>9 DEF Reopen, HeadInv, Opened
<1>10. CASE InstallState
  <2>1. PICK v \in Version \ {0} : \E sn \in Snapshot(v) : Install(sn, v)
    BY <1>10 DEF InstallState
  <2>2. PICK sn \in Snapshot(v) : Install(sn, v)
    BY <2>1
  <2>3. sn \in [Store -> Tree]
    BY DEF Snapshot
  <2>4. \A s \in Store : /\ kv'[s].tree = sn[s]
                         /\ kv'[s].loadedVersion = v
    BY <2>2 DEF Install, InstallTree, StoreInv, TypeOK, KV
  <2>5. HashStoreInfos(kv)' = sn
    BY <2>3, <2>4 DEF HashStoreInfos
  <2>6. QED
    BY <1>10, <2>2, <2>4, <2>5 DEF InstallState, Install, HeadInv
<1>11. CASE UNCHANGED vars
  BY <1>11 DEF vars, HeadInv, HashStoreInfos
<1>12. QED
  BY <1>2, <1>3, <1>4, <1>5, <1>6, <1>7, <1>8, <1>9, <1>10, <1>11
     DEF Next, CrashStep, BlockStep, StoreCommits, Restart, RestartInCommit

\* At rest the head hash is the hash of the stores and the head version the
\* version of the last one.
THEOREM HeadIsDescribed == Spec => []HeadDescribesStores
<1>1. HeadInv => HeadDescribesStores
  BY DEF HeadInv, HeadDescribesStores
<1>2. QED
  BY <1>1, StoreInvInit, StoreInvStep, HeadInvInit, HeadInvStep, PTL DEF Spec

-----------------------------------------------------------------------------
(* Without peers' states: crashes anywhere.                                *)

\* The latest version in the database is the loaded one, so the next one is
\* always free and a commit cannot be refused.
CrashInv == StoreInv /\ HeadInv /\ TreeIsLatestSaved /\ NeverPoisoned

LEMMA CrashInvInit == Init => CrashInv
<1>1. Init => TreeIsLatestSaved /\ NeverPoisoned
  BY DEF Init, TreeIsLatestSaved, NeverPoisoned, Opened
<1>2. QED
  BY <1>1, StoreInvInit, HeadInvInit DEF CrashInv

\* With TreeIsLatestSaved, no version above the loaded one is known.
LEMMA NextVersionIsFree ==
  ASSUME CrashInv, NEW s \in Store, mode = "committing", s \in uncommitted
  PROVE  /\ NextVersion(Flushed(kv[s])) \notin Flushed(kv[s]).versions
         /\ \A w \in SavedVersions(roots[s]) : w <= kv[s].loadedVersion
<1>1. /\ kv[s] \in KV /\ kv[s].loadedVersion < MaxVersion
      /\ roots[s] \in Roots /\ HasLatest(roots[s])
  BY DEF CrashInv, StoreInv, TypeOK
<1>2. /\ Flushed(kv[s]).versions = SavedVersions(roots[s])
      /\ NextVersion(Flushed(kv[s])) = kv[s].loadedVersion + 1
  BY <1>1, FlushedType DEF CrashInv, TreeIsLatestSaved, NextVersion
<1>3. \A w \in SavedVersions(roots[s]) : w <= kv[s].loadedVersion
  BY <1>1, LatestVersionIsGreatest DEF CrashInv, TreeIsLatestSaved
<1>4. SavedVersions(roots[s]) \subseteq Nat /\ kv[s].loadedVersion \in Nat
  BY <1>1, MaxVersionAssumption DEF SavedVersions, Version, KV
<1>5. QED BY <1>2, <1>3, <1>4

LEMMA TreeStep ==
  ASSUME CrashInv, [CrashStep]_vars
  PROVE  TreeIsLatestSaved' /\ NeverPoisoned'
<1>1. ASSUME roots' = roots, mode' # "poisoned",
             \A s \in Store : /\ kv'[s].tree = kv[s].tree
                             /\ kv'[s].versions = kv[s].versions
                             /\ kv'[s].loadedVersion = kv[s].loadedVersion
      PROVE  TreeIsLatestSaved' /\ NeverPoisoned'
  BY <1>1 DEF CrashInv, TreeIsLatestSaved, NeverPoisoned
<1>2. ASSUME NEW s \in Store, NEW k \in Key, NEW v \in Value, SetKey(s, k, v)
      PROVE  TreeIsLatestSaved' /\ NeverPoisoned'
  <2>1. kv[s] \in KV
    BY DEF CrashInv, StoreInv, TypeOK
  <2>2. /\ Set(kv[s], k, v).tree = kv[s].tree
        /\ Set(kv[s], k, v).versions = kv[s].versions
        /\ Set(kv[s], k, v).loadedVersion = kv[s].loadedVersion
    BY <2>1 DEF Set, KV
  <2>3. QED BY <1>1, <1>2, <2>2 DEF SetKey, CrashInv, StoreInv, TypeOK
<1>3. CASE WriteThenClearTxCaches
  <2>1. ASSUME NEW s \in Store
        PROVE  /\ WriteThenClearTxCache(kv[s]).tree = kv[s].tree
               /\ WriteThenClearTxCache(kv[s]).versions = kv[s].versions
               /\ WriteThenClearTxCache(kv[s]).loadedVersion = kv[s].loadedVersion
    <3>1. kv[s] \in KV
      BY DEF CrashInv, StoreInv, TypeOK
    <3>2. QED BY <3>1 DEF WriteThenClearTxCache, KV
  <2>2. QED BY <1>1, <1>3, <2>1 DEF WriteThenClearTxCaches
<1>4. CASE ClearTxCaches
  <2>1. ASSUME NEW s \in Store
        PROVE  /\ ClearTxCache(kv[s]).tree = kv[s].tree
               /\ ClearTxCache(kv[s]).versions = kv[s].versions
               /\ ClearTxCache(kv[s]).loadedVersion = kv[s].loadedVersion
    <3>1. kv[s] \in KV
      BY DEF CrashInv, StoreInv, TypeOK
    <3>2. QED BY <3>1 DEF ClearTxCache, KV
  <2>2. QED BY <1>1, <1>4, <2>1 DEF ClearTxCaches
<1>5. CASE BeginCommit \/ FinishCommit \/ UNCHANGED vars
  BY <1>5
     DEF BeginCommit, FinishCommit, vars, CrashInv, TreeIsLatestSaved, NeverPoisoned
<1>6. ASSUME NEW s \in Store, CommitStore(s)
      PROVE  TreeIsLatestSaved' /\ NeverPoisoned'
  <2>1. mode' # "poisoned"
    BY <1>6 DEF CommitStore
  <2>2. \A t \in Store : t # s => kv'[t] = kv[t] /\ roots'[t] = roots[t]
    BY <1>6 DEF CommitStore, CrashInv, StoreInv, TypeOK
  <2> DEFINE n == kv[s].loadedVersion + 1
             f == Flushed(kv[s])
  <2>3. /\ kv[s] \in KV /\ f \in KV /\ roots[s] \in Roots /\ roots'[s] \in Roots
        /\ SavedVersions(roots'[s]) = SavedVersions(roots[s]) \cup {n}
        /\ kv'[s].versions = kv[s].versions \cup {n}
        /\ kv'[s].loadedVersion = n
        /\ NextVersion(f) = n
        /\ HasLatest(roots'[s])
    BY <1>6, CommitStoreEffect, FlushedType DEF CrashInv, StoreInv, TypeOK
  <2>4. \A w \in SavedVersions(roots[s]) : w <= kv[s].loadedVersion
    BY <1>6, NextVersionIsFree DEF CommitStore
  <2>5. /\ SavedVersions(roots[s]) \subseteq Nat /\ kv[s].loadedVersion \in Nat
        /\ n \in Version /\ n \in Nat
    BY <2>3, MaxVersionAssumption DEF SavedVersions, Version, KV
  <2>6. LatestVersion(roots'[s]) = n
    <3>1. /\ LatestVersion(roots'[s]) \in SavedVersions(roots[s]) \cup {n}
          /\ n <= LatestVersion(roots'[s])
      BY <2>3, LatestVersionIsGreatest
    <3> HIDE DEF n
    <3>2. \A w \in SavedVersions(roots[s]) : w < n
      BY <2>4, <2>5 DEF n
    <3>3. QED BY <2>5, <3>1, <3>2
  <2>7. kv'[s].tree = f.tree
    <3>1. kv'[s] = SaveVersion(f)
      BY <1>6, CommitStoreEffect DEF CrashInv, StoreInv, TypeOK
    <3>2. QED BY <3>1, <2>3 DEF SaveVersion, KV
  <2>8. roots'[s][n] = f.tree
    <3>1. roots'[s] = SavedRoots(f, roots[s])
      BY <1>6, CommitStoreEffect DEF CrashInv, StoreInv, TypeOK
    <3>2. QED BY <3>1, <2>3, <2>5 DEF SavedRoots, Roots
  <2>9. Opened(roots'[s]).tree = f.tree
    BY <2>3, <2>6, <2>8 DEF Opened
  <2>10. QED
    BY <2>1, <2>2, <2>3, <2>6, <2>7, <2>9
       DEF CrashInv, TreeIsLatestSaved, NeverPoisoned
<1>7. ASSUME NEW s \in Store, CommitStorePanics(s)
      PROVE  FALSE
  BY <1>7, NextVersionIsFree DEF CommitStorePanics, CanSaveVersion
<1>8. CASE Reopen
  BY <1>8 DEF Reopen, Opened, TreeIsLatestSaved, NeverPoisoned
<1>9. QED
  BY <1>2, <1>3, <1>4, <1>5, <1>6, <1>7, <1>8
     DEF CrashStep, BlockStep, StoreCommits, Restart, RestartInCommit

LEMMA CrashInvStep == CrashInv /\ [CrashStep]_vars => CrashInv'
<1>1. [CrashStep]_vars => [Next]_vars
  BY DEF Next
<1>2. QED
  BY <1>1, TreeStep, StoreInvStep, HeadInvStep DEF CrashInv

\* However many commits crashes interrupt, every store in memory is its latest
\* saved version with the caches on top.
THEOREM TreeIsAlwaysSaved == CrashSpec => []TreeIsLatestSaved
<1>1. CrashInv => TreeIsLatestSaved
  BY DEF CrashInv
<1>2. QED BY <1>1, CrashInvInit, CrashInvStep, PTL DEF CrashSpec

\* ... and no commit is refused its version: the unwrap of save_version in
\* KVStore::commit is safe on a node that installs no peer's state.
THEOREM CommitNeverPanics == CrashSpec => []NeverPoisoned
<1>1. CrashInv => NeverPoisoned
  BY DEF CrashInv
<1>2. QED BY <1>1, CrashInvInit, CrashInvStep, PTL DEF CrashSpec

\* ... and the block number never goes back.
THEOREM HeadIsMonotonic == CrashSpec => HeadNeverRegresses
<1>1. CrashInv /\ [CrashStep]_vars => [headVersion' >= headVersion]_vars
  <2> SUFFICES ASSUME CrashInv, CrashStep
               PROVE  headVersion' >= headVersion
    OBVIOUS
  <2>1. headVersion \in Nat
    BY MaxVersionAssumption DEF CrashInv, StoreInv, TypeOK, Version
  <2>2. CASE Reopen
    BY <2>1, <2>2, LastStoreAssumption
       DEF Reopen, CrashInv, HeadInv, TreeIsLatestSaved, NeverPoisoned
  <2>3. CASE FinishCommit
    BY <2>1, <2>3 DEF FinishCommit
  <2>4. CASE headVersion' = headVersion
    BY <2>1, <2>4
  <2>5. QED
    BY <2>2, <2>3, <2>4
       DEF CrashStep, BlockStep, StoreCommits, SetKey, WriteThenClearTxCaches, ClearTxCaches,
           BeginCommit, CommitStore, CommitStorePanics, Restart, RestartInCommit
<1>2. QED
  BY <1>1, CrashInvInit, CrashInvStep, PTL DEF CrashSpec, HeadNeverRegresses

-----------------------------------------------------------------------------
(***************************************************************************)
(* A node that is stopped only between commits implements the ledger of    *)
(* blocks: the caches, the flush into the trees and the store-by-store     *)
(* commit are invisible to whoever takes the lock.                         *)
(***************************************************************************)

\* The first version saved is 1.
ZeroUnsaved == \A s \in Store : 0 \notin SavedVersions(roots[s])

\* In a commit the stores already written have empty caches.
BlockInv ==
  /\ CrashInv
  /\ StoresInStep
  /\ ZeroUnsaved
  /\ mode = "committing" =>
       \A s \in Store \ uncommitted :
         kv[s].txCache = EmptyCache /\ kv[s].blockCache = EmptyCache

LEMMA BlockInvInit == Init => BlockInv
<1>1. Init => StoresInStep
  BY DEF Init, StoresInStep, Opened, LatestVersion, SavedVersions
<1>2. Init => ZeroUnsaved
  BY DEF Init, ZeroUnsaved, SavedVersions
<1>3. QED BY <1>1, <1>2, CrashInvInit DEF Init, BlockInv

\* What the operators of KVStore do to the views of a store.
LEMMA SetView ==
  ASSUME NEW c \in KV, NEW k \in Key, NEW v \in Value
  PROVE  /\ Get(Set(c, k, v)) = [Get(c) EXCEPT ![k] = v]
         /\ BlockView(Set(c, k, v)) = BlockView(c)
<1> USE DEF KV, Cache
<1>1. /\ Set(c, k, v).txCache = [c.txCache EXCEPT ![k] = v]
      /\ Set(c, k, v).blockCache = c.blockCache
      /\ Set(c, k, v).tree = c.tree
  BY DEF Set
<1>2. BlockView(Set(c, k, v)) = BlockView(c)
  BY <1>1 DEF BlockView
<1>3. v # None
  BY TreeIsNotNone
<1>4. \A j \in Key : Set(c, k, v).txCache[j] = IF j = k THEN v ELSE c.txCache[j]
  BY <1>1
<1>5. Get(Set(c, k, v)) = [j \in Key |-> IF j = k THEN v ELSE Get(c)[j]]
  BY <1>2, <1>3, <1>4 DEF Get, Overlay
<1>6. Get(c) = [j \in Key |-> Get(c)[j]]
  BY DEF Get, Overlay
<1>7. [Get(c) EXCEPT ![k] = v] = [j \in Key |-> IF j = k THEN v ELSE Get(c)[j]]
  BY <1>6
<1>8. QED BY <1>2, <1>5, <1>7

LEMMA WriteTxView ==
  ASSUME NEW c \in KV
  PROVE  /\ Get(WriteThenClearTxCache(c)) = Get(c)
         /\ BlockView(WriteThenClearTxCache(c)) = Get(c)
<1> DEFINE d == WriteThenClearTxCache(c)
<1>1. /\ d.txCache = EmptyCache
      /\ d.blockCache = Overlay(c.txCache, c.blockCache)
      /\ d.tree = c.tree
  BY DEF WriteThenClearTxCache, KV
<1> HIDE DEF d
<1>2. BlockView(d) = Get(c)
  BY <1>1 DEF BlockView, Get, Overlay
<1>3. Get(d) = BlockView(d)
  BY <1>1 DEF Get, Overlay, EmptyCache, BlockView
<1>4. QED BY <1>2, <1>3 DEF d

LEMMA ClearTxView ==
  ASSUME NEW c \in KV
  PROVE  /\ Get(ClearTxCache(c)) = BlockView(c)
         /\ BlockView(ClearTxCache(c)) = BlockView(c)
<1> DEFINE d == ClearTxCache(c)
<1>1. d.txCache = EmptyCache /\ d.blockCache = c.blockCache /\ d.tree = c.tree
  BY DEF ClearTxCache, KV
<1> HIDE DEF d
<1>2. BlockView(d) = BlockView(c)
  BY <1>1 DEF BlockView
<1>3. Get(d) = BlockView(d)
  BY <1>1 DEF Get, Overlay, EmptyCache, BlockView
<1>4. QED BY <1>2, <1>3 DEF d

\* Flushing the block cache into the tree changes no value.
LEMMA FlushView ==
  ASSUME NEW c \in KV, c.loadedVersion < MaxVersion
  PROVE  TreeView(Flushed(c).tree) = Get(c)
<1> DEFINE d == WriteThenClearTxCache(c)
           e == WriteThenClearBlockCache(d)
<1>1. /\ d.blockCache \in Cache /\ d.tree \in Tree /\ d \in KV
      /\ BlockView(d) = Get(c)
  <2>1. d \in KV
    BY DEF WriteThenClearTxCache, KV, Cache, Overlay, EmptyCache
  <2>2. QED BY <2>1, WriteTxView DEF KV
<1>2. e.tree = [k \in Key |-> IF d.blockCache[k] # None
                              THEN [value |-> d.blockCache[k],
                                    version |-> d.loadedVersion + 1]
                              ELSE d.tree[k]]
  <2> HIDE DEF d
  <2>1. QED BY <1>1 DEF WriteThenClearBlockCache, KV
<1>3. \A k \in Key :
        IF d.blockCache[k] # None
        THEN e.tree[k] # None /\ e.tree[k].value = d.blockCache[k]
        ELSE e.tree[k] = d.tree[k]
  <2>1. c.loadedVersion + 1 \in Version /\ d.loadedVersion = c.loadedVersion
    BY MaxVersionAssumption DEF KV, Version, WriteThenClearTxCache
  <2> HIDE DEF d, e
  <2>2. \A k \in Key : d.blockCache[k] # None =>
          [value |-> d.blockCache[k], version |-> d.loadedVersion + 1] \in Leaf
    BY <1>1, <2>1 DEF Cache, Leaf
  <2>3. SUFFICES ASSUME NEW k \in Key
                 PROVE  IF d.blockCache[k] # None
                        THEN e.tree[k] # None /\ e.tree[k].value = d.blockCache[k]
                        ELSE e.tree[k] = d.tree[k]
    OBVIOUS
  <2>4. CASE d.blockCache[k] # None
    <3>1. e.tree[k] = [value |-> d.blockCache[k],
                       version |-> d.loadedVersion + 1]
      BY <1>2, <2>4
    <3>2. e.tree[k] \in Leaf
      BY <2>2, <2>4, <3>1
    <3>3. e.tree[k].value = d.blockCache[k]
      BY <3>1
    <3>4. QED BY <2>4, <3>2, <3>3, TreeIsNotNone
  <2>5. CASE d.blockCache[k] = None
    BY <1>2, <2>5
  <2>6. QED BY <2>4, <2>5
<1>4. TreeView(e.tree) = BlockView(d)
  <2> HIDE DEF d, e
  <2>1. \A k \in Key :
          (IF e.tree[k] = None THEN None ELSE e.tree[k].value) =
          (IF d.blockCache[k] # None THEN d.blockCache[k]
           ELSE IF d.tree[k] = None THEN None ELSE d.tree[k].value)
    BY <1>3
  <2>2. QED BY <2>1 DEF TreeView, BlockView, Overlay
<1>5. QED BY <1>1, <1>4 DEF Flushed

\* Saving the tree touches neither it nor the caches.
LEMMA SaveVersionKeeps ==
  ASSUME NEW c \in KV
  PROVE  /\ SaveVersion(c).tree = c.tree
         /\ SaveVersion(c).txCache = c.txCache
         /\ SaveVersion(c).blockCache = c.blockCache
BY DEF SaveVersion, KV

\* A store with empty caches shows its tree.
LEMMA CleanView ==
  ASSUME NEW c \in KV, c.txCache = EmptyCache, c.blockCache = EmptyCache
  PROVE  Get(c) = TreeView(c.tree) /\ BlockView(c) = TreeView(c.tree)
<1>1. BlockView(c) = TreeView(c.tree)
  BY DEF BlockView, Overlay, EmptyCache, TreeView
<1>2. Get(c) = BlockView(c)
  BY DEF Get, Overlay, EmptyCache, BlockView
<1>3. QED BY <1>1, <1>2

-----------------------------------------------------------------------------
(* The invariant.                                                          *)

LEMMA BlockInvStep == BlockInv /\ [BlockStep]_vars => BlockInv'
<1> SUFFICES ASSUME BlockInv, [BlockStep]_vars
             PROVE  BlockInv'
  OBVIOUS
<1>1. CrashInv /\ CrashInv' /\ StoreInv
  BY CrashInvStep DEF BlockInv, CrashInv, CrashStep
<1> DEFINE Clean == mode = "committing" =>
                      \A s \in Store \ uncommitted :
                        kv[s].txCache = EmptyCache /\ kv[s].blockCache = EmptyCache
<1>2. ASSUME mode = "running", mode' = "running", headVersion' = headVersion,
             roots' = roots,
             \A s \in Store : kv'[s].loadedVersion = kv[s].loadedVersion
      PROVE  BlockInv'
  BY <1>1, <1>2 DEF BlockInv, StoresInStep, ZeroUnsaved
<1>3. ASSUME NEW s \in Store, NEW k \in Key, NEW v \in Value, SetKey(s, k, v)
      PROVE  BlockInv'
  <2>1. kv[s] \in KV
    BY <1>1 DEF StoreInv, TypeOK
  <2>2. Set(kv[s], k, v).loadedVersion = kv[s].loadedVersion
    BY <2>1 DEF Set, KV
  <2>3. QED BY <1>1, <1>2, <1>3, <2>2 DEF SetKey, StoreInv, TypeOK
<1>4. CASE WriteThenClearTxCaches
  <2>1. ASSUME NEW s \in Store
        PROVE  WriteThenClearTxCache(kv[s]).loadedVersion = kv[s].loadedVersion
    <3>1. kv[s] \in KV
      BY <1>1 DEF StoreInv, TypeOK
    <3>2. QED BY <3>1 DEF WriteThenClearTxCache, KV
  <2>2. QED BY <1>2, <1>4, <2>1 DEF WriteThenClearTxCaches
<1>5. CASE ClearTxCaches
  <2>1. ASSUME NEW s \in Store
        PROVE  ClearTxCache(kv[s]).loadedVersion = kv[s].loadedVersion
    <3>1. kv[s] \in KV
      BY <1>1 DEF StoreInv, TypeOK
    <3>2. QED BY <3>1 DEF ClearTxCache, KV
  <2>2. QED BY <1>2, <1>5, <2>1 DEF ClearTxCaches
<1>6. CASE BeginCommit
  BY <1>1, <1>6 DEF BeginCommit, BlockInv, StoresInStep, ZeroUnsaved
<1>7. ASSUME NEW s \in Store, CommitStore(s)
      PROVE  BlockInv'
  <2>1. /\ kv' = [kv EXCEPT ![s] = SaveVersion(Flushed(kv[s]))]
        /\ kv'[s].loadedVersion = kv[s].loadedVersion + 1
        /\ kv[s] \in KV /\ kv[s].loadedVersion < MaxVersion
    BY <1>1, <1>7, CommitStoreEffect
  <2>2. Flushed(kv[s]) \in KV
    BY <2>1, FlushedType
  <2>3. kv'[s].txCache = EmptyCache /\ kv'[s].blockCache = EmptyCache
    <3>1. kv'[s] = SaveVersion(Flushed(kv[s]))
      BY <1>1, <2>1 DEF StoreInv, TypeOK
    <3>2. /\ Flushed(kv[s]).txCache = EmptyCache
          /\ Flushed(kv[s]).blockCache = EmptyCache
      BY <2>1, FlushedType
    <3>3. QED BY <2>2, <3>1, <3>2, SaveVersionKeeps
  <2>4. \A t \in Store : t # s => kv'[t] = kv[t]
    BY <1>1, <2>1 DEF StoreInv, TypeOK
  <2>5. /\ mode = "committing" /\ mode' = mode /\ headVersion' = headVersion
        /\ s \in uncommitted /\ uncommitted' = uncommitted \ {s}
    BY <1>7 DEF CommitStore
  <2>6. StoresInStep'
    <3>1. kv[s].loadedVersion = headVersion
      BY <2>5 DEF BlockInv, StoresInStep
    <3>2. QED BY <2>1, <2>4, <2>5, <3>1 DEF BlockInv, StoresInStep
  <2>7. Clean'
    BY <2>3, <2>4, <2>5 DEF BlockInv
  <2>8. ZeroUnsaved'
    <3>1. SavedVersions(roots'[s]) = SavedVersions(roots[s]) \cup {kv[s].loadedVersion + 1}
      BY <1>1, <1>7, CommitStoreEffect
    <3>2. kv[s].loadedVersion + 1 # 0
      BY <2>1, MaxVersionAssumption DEF KV, Version
    <3>3. \A t \in Store : t # s => roots'[t] = roots[t]
      BY <1>1, <1>7 DEF CommitStore, StoreInv, TypeOK
    <3>4. QED BY <3>1, <3>2, <3>3 DEF BlockInv, ZeroUnsaved
  <2>9. QED BY <1>1, <2>6, <2>7, <2>8 DEF BlockInv
<1>8. ASSUME NEW s \in Store, CommitStorePanics(s)
      PROVE  BlockInv'
  BY <1>1, <1>8 DEF CommitStorePanics, CrashInv, NeverPoisoned
<1>9. CASE FinishCommit
  BY <1>1, <1>9 DEF FinishCommit, BlockInv, StoresInStep, ZeroUnsaved
<1>10. CASE Restart
  <2>1. \A s \in Store : /\ Opened(roots[s]).loadedVersion = kv[s].loadedVersion
                         /\ kv[s].loadedVersion = headVersion
    BY <1>1, <1>10
       DEF Restart, BlockInv, StoresInStep, CrashInv, TreeIsLatestSaved, Opened
  <2>2. /\ mode' = "running"
        /\ \A s \in Store : kv'[s].loadedVersion = headVersion
        /\ headVersion' = headVersion
        /\ roots' = roots
    BY <1>10, <2>1, LastStoreAssumption DEF Restart, Reopen, Opened
  <2>3. QED BY <1>1, <2>2 DEF BlockInv, StoresInStep, ZeroUnsaved
<1>11. CASE UNCHANGED vars
  BY <1>1, <1>11 DEF vars, BlockInv, StoresInStep, ZeroUnsaved
<1>12. QED
  BY <1>3, <1>4, <1>5, <1>6, <1>7, <1>8, <1>9, <1>10, <1>11 DEF BlockStep, StoreCommits

\* A node stopped only between commits has all its stores at the head version,
\* and those a commit has written exactly one ahead.
THEOREM StoresStayInStep == BlockSpec => []StoresInStep
<1>1. BlockInv => StoresInStep
  BY DEF BlockInv
<1>2. QED BY <1>1, BlockInvInit, BlockInvStep, PTL DEF BlockSpec

-----------------------------------------------------------------------------
(* The refinement.                                                         *)

\* The initial state maps to an empty ledger.
LEMMA LedgerInit == Init => Ledger!Init
<1> SUFFICES ASSUME Init PROVE Ledger!Init
  OBVIOUS
<1>1. \A s \in Store : SavedVersions(roots[s]) = {}
  BY DEF Init, SavedVersions
<1>2. \A s \in Store : /\ kv[s].tree = EmptyTree /\ kv[s].txCache = EmptyCache
                       /\ kv[s].blockCache = EmptyCache
  BY <1>1 DEF Init, Opened
<1>3. TreeView(EmptyTree) = [k \in Key |-> None]
  BY DEF TreeView, EmptyTree
<1>4. \A s \in Store : /\ Get(kv[s]) = [k \in Key |-> None]
                       /\ BlockView(kv[s]) = [k \in Key |-> None]
  <2>1. SUFFICES ASSUME NEW s \in Store
                 PROVE  /\ Get(kv[s]) = [k \in Key |-> None]
                        /\ BlockView(kv[s]) = [k \in Key |-> None]
    OBVIOUS
  <2>2. Get(kv[s]) = TreeView(kv[s].tree) /\ BlockView(kv[s]) = TreeView(kv[s].tree)
    BY <1>2 DEF Get, BlockView, Overlay, EmptyCache, TreeView
  <2>3. QED BY <1>2, <1>3, <2>2
<1>5. ledgerVersion = 0 /\ ledgerBlock = Ledger!EmptyView /\ View(kv) = Ledger!EmptyView
  BY <1>4 DEF Init, ledgerVersion, ledgerBlock, View, Ledger!EmptyView
<1>6. ledgerHistory = [v \in 1..0 |-> Ledger!EmptyView]
  BY <1>5 DEF ledgerHistory
<1>7. QED BY <1>5, <1>6 DEF Ledger!Init

\* Between commits the history is what the database holds.
LEMMA HistoryAtRest ==
  ASSUME mode = "running", headVersion \in Nat
  PROVE  /\ ledgerVersion = headVersion
         /\ ledgerHistory = [v \in 1..headVersion |-> SavedView(v)]
         /\ ledgerBlock = [s \in Store |-> BlockView(kv[s])]
<1>1. \A v \in 1..headVersion : v # headVersion + 1
  OBVIOUS
<1>2. QED BY <1>1 DEF ledgerVersion, ledgerHistory, ledgerBlock

\* A step at rest that leaves the versions alone leaves the history alone.
LEMMA RestKeepsHistory ==
  ASSUME mode = "running", mode' = "running", headVersion \in Nat,
         headVersion' = headVersion, roots' = roots
  PROVE  ledgerVersion' = ledgerVersion /\ ledgerHistory' = ledgerHistory
<1>1. ledgerVersion = headVersion /\ ledgerVersion' = headVersion
  BY DEF ledgerVersion
<1>2. \A v \in 1..headVersion : v # headVersion + 1
  OBVIOUS
<1>3. \A v : SavedView(v)' = SavedView(v)
  BY DEF SavedView
<1>4. QED BY <1>1, <1>2, <1>3 DEF ledgerHistory

LEMMA LedgerStep ==
  ASSUME BlockInv, BlockInv', [BlockStep]_vars
  PROVE  [Ledger!Next]_(Ledger!ledgerVars)
<1> USE DEF Ledger!ledgerVars
<1>1. /\ StoreInv /\ TypeOK
      /\ \A s \in Store : kv[s] \in KV /\ roots[s] \in Roots
      /\ headVersion \in Nat
      /\ StoresInStep /\ TreeIsLatestSaved /\ mode # "poisoned"
  BY MaxVersionAssumption
     DEF BlockInv, CrashInv, StoreInv, TypeOK, Version, NeverPoisoned
<1>2. ASSUME NEW s \in Store, NEW k \in Key, NEW v \in Value, SetKey(s, k, v)
      PROVE  Ledger!Next
  <2>1. kv' = [kv EXCEPT ![s] = Set(kv[s], k, v)]
    BY <1>2 DEF SetKey
  <2>2. /\ Get(Set(kv[s], k, v)) = [Get(kv[s]) EXCEPT ![k] = v]
        /\ BlockView(Set(kv[s], k, v)) = BlockView(kv[s])
    BY <1>1, SetView
  <2>3. /\ mode = "running" /\ mode' = "running" /\ headVersion' = headVersion
        /\ roots' = roots
    BY <1>2 DEF SetKey
  <2>4. kv'[s] = Set(kv[s], k, v) /\ \A t \in Store : t # s => kv'[t] = kv[t]
    BY <2>1, <1>1 DEF TypeOK
  <2>5. View(kv)' = [View(kv) EXCEPT ![s][k] = v]
    BY <2>2, <2>4 DEF View
  <2>6. \A t \in Store : BlockView(kv'[t]) = BlockView(kv[t])
    BY <2>2, <2>4
  <2>7. ledgerBlock' = ledgerBlock
    BY <2>3, <2>6 DEF ledgerBlock
  <2>8. Ledger!Write(s, k, v)
    BY <1>1, <2>3, <2>5, <2>7, RestKeepsHistory DEF Ledger!Write
  <2>9. QED BY <2>8 DEF Ledger!Next
<1>3. CASE WriteThenClearTxCaches
  <2>1. /\ mode = "running" /\ mode' = "running" /\ headVersion' = headVersion
        /\ roots' = roots
    BY <1>3 DEF WriteThenClearTxCaches
  <2>2. \A s \in Store : Get(kv'[s]) = Get(kv[s]) /\ BlockView(kv'[s]) = Get(kv[s])
    BY <1>1, <1>3, WriteTxView DEF WriteThenClearTxCaches
  <2>3. View(kv)' = View(kv) /\ ledgerBlock' = View(kv)
    BY <2>1, <2>2 DEF View, ledgerBlock
  <2>4. Ledger!KeepTx
    BY <1>1, <2>1, <2>3, RestKeepsHistory DEF Ledger!KeepTx
  <2>5. QED BY <2>4 DEF Ledger!Next
<1>4. CASE ClearTxCaches
  <2>1. /\ mode = "running" /\ mode' = "running" /\ headVersion' = headVersion
        /\ roots' = roots
    BY <1>4 DEF ClearTxCaches
  <2>2. \A s \in Store : /\ Get(kv'[s]) = BlockView(kv[s])
                         /\ BlockView(kv'[s]) = BlockView(kv[s])
    BY <1>1, <1>4, ClearTxView DEF ClearTxCaches
  <2>3. View(kv)' = ledgerBlock /\ ledgerBlock' = ledgerBlock
    BY <2>1, <2>2 DEF View, ledgerBlock
  <2>4. Ledger!DropTx
    BY <1>1, <2>1, <2>3, RestKeepsHistory DEF Ledger!DropTx
  <2>5. QED BY <2>4 DEF Ledger!Next
<1>5. CASE BeginCommit
  <2>1. /\ mode = "running" /\ mode' = "committing" /\ headVersion' = headVersion
        /\ headVersion < MaxVersion /\ kv' = kv /\ roots' = roots
    BY <1>5 DEF BeginCommit
  <2>2. /\ ledgerVersion = headVersion /\ ledgerVersion' = headVersion + 1
        /\ ledgerHistory = [v \in 1..headVersion |-> SavedView(v)]
    BY <1>1, <2>1, HistoryAtRest DEF ledgerVersion
  <2>3. View(kv)' = View(kv) /\ ledgerBlock' = View(kv)
    BY <2>1 DEF View, ledgerBlock
  <2>4. \A v : SavedView(v)' = SavedView(v)
    BY <2>1 DEF SavedView
  <2>5. ledgerHistory' = [v \in 1..(headVersion + 1) |->
                            IF v = headVersion + 1 THEN View(kv) ELSE SavedView(v)]
    BY <2>1, <2>2, <2>3, <2>4 DEF ledgerHistory
  <2>6. \A v \in 1..(headVersion + 1) : v # headVersion + 1 => v \in 1..headVersion
    BY <1>1
  <2>7. ledgerHistory' = [v \in 1..(headVersion + 1) |->
                            IF v = headVersion + 1 THEN View(kv) ELSE ledgerHistory[v]]
    BY <2>2, <2>5, <2>6
  <2>8. Ledger!Commit
    BY <2>1, <2>2, <2>3, <2>7 DEF Ledger!Commit
  <2>9. QED BY <2>8 DEF Ledger!Next
<1>6. ASSUME NEW s \in Store, CommitStore(s)
      PROVE  UNCHANGED Ledger!ledgerVars
  <2>1. /\ mode = "committing" /\ mode' = mode /\ headVersion' = headVersion
        /\ s \in uncommitted
    BY <1>6 DEF CommitStore
  <2>2. /\ kv[s].loadedVersion < MaxVersion
        /\ kv' = [kv EXCEPT ![s] = SaveVersion(Flushed(kv[s]))]
        /\ roots' = [roots EXCEPT ![s] = SavedRoots(Flushed(kv[s]), roots[s])]
        /\ NextVersion(Flushed(kv[s])) = kv[s].loadedVersion + 1
    BY <1>1, <1>6, CommitStoreEffect
  <2>3. NextVersion(Flushed(kv[s])) = headVersion + 1
    BY <1>1, <2>1, <2>2 DEF StoresInStep
  <2>4. Get(SaveVersion(Flushed(kv[s]))) = Get(kv[s])
    <3> DEFINE f == Flushed(kv[s])
    <3>1. f \in KV /\ f.txCache = EmptyCache /\ f.blockCache = EmptyCache
      BY <1>1, <2>2, FlushedType
    <3>2. TreeView(f.tree) = Get(kv[s])
      BY <1>1, <2>2, FlushView
    <3> HIDE DEF f
    <3>3. /\ SaveVersion(f).txCache = f.txCache
          /\ SaveVersion(f).blockCache = f.blockCache
          /\ SaveVersion(f).tree = f.tree
      BY <3>1, SaveVersionKeeps
    <3>4. Get(SaveVersion(f)) = TreeView(f.tree)
      BY <3>1, <3>3 DEF Get, BlockView, Overlay, EmptyCache, TreeView
    <3>5. QED BY <3>2, <3>4 DEF f
  <2>5. \A t \in Store : Get(kv'[t]) = Get(kv[t])
    BY <1>1, <2>2, <2>4 DEF TypeOK
  <2>6. View(kv)' = View(kv) /\ ledgerBlock' = ledgerBlock
    BY <2>1, <2>5 DEF View, ledgerBlock
  <2>7. ledgerVersion' = ledgerVersion /\ ledgerVersion = headVersion + 1
    BY <2>1 DEF ledgerVersion
  <2>8. \A t \in Store : \A v : v # headVersion + 1 => roots'[t][v] = roots[t][v]
    BY <1>1, <2>2, <2>3 DEF TypeOK, SavedRoots, Roots
  <2>9. \A v \in 1..(headVersion + 1) :
          v # headVersion + 1 => SavedView(v)' = SavedView(v)
    BY <2>8 DEF SavedView
  <2>10. ledgerHistory' = ledgerHistory
    BY <2>1, <2>6, <2>7, <2>9 DEF ledgerHistory
  <2>11. QED BY <2>6, <2>7, <2>10
<1>7. ASSUME NEW s \in Store, CommitStorePanics(s)
      PROVE  FALSE
  BY <1>7 DEF BlockInv, CrashInv, CommitStorePanics, NeverPoisoned
<1>8. CASE FinishCommit
  <2>1. /\ mode = "committing" /\ mode' = "running" /\ uncommitted = {}
        /\ headVersion' = headVersion + 1 /\ kv' = kv /\ roots' = roots
    BY <1>8 DEF FinishCommit
  <2>2. ASSUME NEW s \in Store
        PROVE  /\ kv[s].txCache = EmptyCache /\ kv[s].blockCache = EmptyCache
               /\ roots[s][headVersion + 1] = kv[s].tree
    <3>1. kv[s].txCache = EmptyCache /\ kv[s].blockCache = EmptyCache
      BY <2>1 DEF BlockInv
    <3>2. LatestVersion(roots[s]) = headVersion + 1
      BY <1>1, <2>1 DEF StoresInStep, TreeIsLatestSaved
    <3>3. SavedVersions(roots[s]) # {}
      BY <1>1, <3>2 DEF LatestVersion
    <3>4. kv[s].tree = roots[s][headVersion + 1]
      BY <1>1, <3>2, <3>3 DEF TreeIsLatestSaved, Opened
    <3>5. QED BY <3>1, <3>4
  <2>3. \A s \in Store : /\ Get(kv[s]) = TreeView(roots[s][headVersion + 1])
                         /\ BlockView(kv[s]) = Get(kv[s])
    BY <1>1, <2>2, CleanView
  <2>4. View(kv) = SavedView(headVersion + 1)
    BY <2>3 DEF View, SavedView
  <2>5. View(kv)' = View(kv) /\ ledgerBlock' = ledgerBlock
    BY <2>1, <2>3 DEF View, ledgerBlock
  <2>6. ledgerVersion' = ledgerVersion /\ ledgerVersion = headVersion + 1
    BY <2>1 DEF ledgerVersion
  <2>7. \A v : SavedView(v)' = SavedView(v)
    BY <2>1 DEF SavedView
  <2>8. ledgerHistory' = [v \in 1..(headVersion + 1) |-> SavedView(v)]
    <3>1. ledgerVersion' = headVersion + 1 /\ headVersion' = headVersion + 1
      BY <2>1, <2>6
    <3>2. headVersion \in Nat
      BY <1>1, MaxVersionAssumption DEF BlockInv, CrashInv, StoreInv, TypeOK, Version
    <3>3. \A v \in 1..(headVersion + 1) : v # (headVersion + 1) + 1
      BY <3>2
    <3>4. QED BY <2>7, <3>1, <3>3 DEF ledgerHistory
  <2>9. ledgerHistory = [v \in 1..(headVersion + 1) |-> SavedView(v)]
    BY <2>4, <2>6 DEF ledgerHistory
  <2>10. QED BY <2>5, <2>6, <2>8, <2>9
<1>9. CASE Restart
  <2>1. /\ mode = "running" /\ mode' = "running" /\ roots' = roots
        /\ kv' = [s \in Store |-> Opened(roots[s])]
    BY <1>1, <1>9 DEF Restart, Reopen, BlockInv, CrashInv, StoreInv, TypeOK
  <2>2. \A s \in Store : LatestVersion(roots[s]) = headVersion
    BY <1>1, <2>1 DEF StoresInStep, TreeIsLatestSaved
  <2>3. headVersion' = headVersion
    BY <1>9, <2>2, LastStoreAssumption DEF Restart, Reopen
  <2>4. \A s \in Store : /\ kv'[s].txCache = EmptyCache
                         /\ kv'[s].blockCache = EmptyCache
                         /\ kv'[s].tree = IF headVersion = 0 THEN EmptyTree
                                          ELSE roots[s][headVersion]
    <3>1. ASSUME NEW s \in Store
          PROVE  Opened(roots[s]).tree = IF headVersion = 0 THEN EmptyTree
                                         ELSE roots[s][headVersion]
      <4>1. CASE SavedVersions(roots[s]) = {}
        BY <2>2, <4>1 DEF Opened, LatestVersion
      <4>2. CASE SavedVersions(roots[s]) # {}
        <5>1. LatestVersion(roots[s]) \in SavedVersions(roots[s])
          BY <1>1, <4>2, LatestVersionIsGreatest DEF StoreInv
        <5>2. headVersion # 0
          BY <2>2, <5>1 DEF BlockInv, ZeroUnsaved
        <5>3. QED BY <2>2, <4>2, <5>2 DEF Opened
      <4>3. QED BY <4>1, <4>2
    <3>2. QED BY <2>1, <3>1 DEF Opened
  <2>5. \A s \in Store :
          /\ Get(kv'[s]) = Ledger!Committed[s]
          /\ BlockView(kv'[s]) = Ledger!Committed[s]
    <3>1. SUFFICES ASSUME NEW s \in Store
                   PROVE  /\ Get(kv'[s]) = Ledger!Committed[s]
                          /\ BlockView(kv'[s]) = Ledger!Committed[s]
      OBVIOUS
    <3>2. /\ Get(kv'[s]) = TreeView(kv'[s].tree)
          /\ BlockView(kv'[s]) = TreeView(kv'[s].tree)
      BY <2>4 DEF Get, BlockView, Overlay, EmptyCache, TreeView
    <3>3. TreeView(kv'[s].tree) = Ledger!Committed[s]
      <4>1. CASE headVersion = 0
        BY <1>1, <2>1, <2>4, <4>1, HistoryAtRest
           DEF Ledger!Committed, Ledger!EmptyView, TreeView, EmptyTree
      <4>2. CASE headVersion # 0
        <5>1. headVersion \in 1..headVersion
          BY <1>1, <4>2
        <5>2. Ledger!Committed = SavedView(headVersion)
          BY <1>1, <2>1, <4>2, <5>1, HistoryAtRest DEF Ledger!Committed
        <5>3. QED BY <2>4, <4>2, <5>2 DEF SavedView
      <4>3. QED BY <4>1, <4>2
    <3>4. QED BY <3>2, <3>3
  <2>6. Ledger!Committed = [s \in Store |-> Ledger!Committed[s]]
    <3>1. CASE headVersion = 0
      BY <1>1, <2>1, <3>1, HistoryAtRest DEF Ledger!Committed, Ledger!EmptyView
    <3>2. CASE headVersion # 0
      <4>1. headVersion \in 1..headVersion
        BY <1>1, <3>2
      <4>2. Ledger!Committed = SavedView(headVersion)
        BY <1>1, <2>1, <3>2, <4>1, HistoryAtRest DEF Ledger!Committed
      <4>3. QED BY <4>2 DEF SavedView
    <3>3. QED BY <3>1, <3>2
  <2>7. View(kv)' = Ledger!Committed /\ ledgerBlock' = Ledger!Committed
    BY <2>1, <2>5, <2>6 DEF View, ledgerBlock
  <2>8. Ledger!Restart
    BY <1>1, <2>1, <2>3, <2>7, RestKeepsHistory DEF Ledger!Restart
  <2>9. QED BY <2>8 DEF Ledger!Next
<1>10. CASE UNCHANGED vars
  <2>1. \A v : SavedView(v)' = SavedView(v)
    BY <1>10 DEF vars, SavedView
  <2>2. QED
    BY <1>10, <2>1 DEF vars, ledgerVersion, ledgerHistory, ledgerBlock, View
<1>11. QED
  BY <1>2, <1>3, <1>4, <1>5, <1>6, <1>7, <1>8, <1>9, <1>10 DEF BlockStep, StoreCommits

\* The stores of a node stopped only between commits are a ledger of blocks.
THEOREM ImplementsLedger == BlockSpec => LedgerSpec
<1>1. BlockInv /\ BlockInv' /\ [BlockStep]_vars => [Ledger!Next]_(Ledger!ledgerVars)
  BY LedgerStep
<1>2. QED
  BY <1>1, BlockInvInit, BlockInvStep, LedgerInit, PTL
     DEF BlockSpec, LedgerSpec, Ledger!Spec

=============================================================================
