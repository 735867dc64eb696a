--------------------------- MODULE BaseApp_proofs ---------------------------
(***************************************************************************)
(* Theorems about a node whose peers may be ahead and that crashes         *)
(* anywhere, for every chain, set of stores and bound on the versions.     *)
(***************************************************************************)
EXTENDS BaseApp, MultiStore_proofs, Folds_proofs

-----------------------------------------------------------------------------
(* The chain.                                                              *)

LEMMA LastWriterIsGreatest ==
  ASSUME NEW s \in Store, NEW k \in Key, NEW v \in Version, WritersOf(s, k, v) # {}
  PROVE  /\ LastWriterOf(s, k, v) \in WritersOf(s, k, v)
         /\ \A c \in WritersOf(s, k, v) : c <= LastWriterOf(s, k, v)
<1>1. v \in Nat /\ WritersOf(s, k, v) \subseteq 0..v
  BY MaxVersionAssumption DEF Version, WritersOf
<1>2. PICK m \in WritersOf(s, k, v) : \A c \in WritersOf(s, k, v) : c <= m
  BY <1>1, GreatestExists
<1>3. QED BY <1>2 DEF LastWriterOf

LEMMA ChainTreeType ==
  ASSUME NEW s \in Store, NEW v \in Version
  PROVE  ChainTree(s, v) \in Tree
<1> SUFFICES ASSUME NEW k \in Key, v # 0, WritersOf(s, k, v) # {}
             PROVE  [value |-> Writes[LastWriterOf(s, k, v)][s][k],
                     version |-> IF LastWriterOf(s, k, v) = 0
                                 THEN 1 ELSE LastWriterOf(s, k, v)] \in Leaf
  BY DEF ChainTree, Tree
<1> DEFINE b == LastWriterOf(s, k, v)
<1>1. b \in 0..v /\ Writes[b][s][k] # None
  BY LastWriterIsGreatest DEF WritersOf
<1> HIDE DEF b
<1>2. b \in Version /\ 1 \in Version
  BY <1>1, MaxVersionAssumption DEF Version
<1>3. Writes[b][s][k] \in Value
  BY <1>1, <1>2, WritesAssumption DEF Cache
<1>4. QED BY <1>2, <1>3 DEF Leaf, b

-----------------------------------------------------------------------------
(* What the threads do to the stores.                                      *)

\* Transactions change the caches only.
CachesOnly ==
  /\ mode = "running"
  /\ kv' \in [Store -> KV]
  /\ \A s \in Store : /\ kv'[s].tree = kv[s].tree
                      /\ kv'[s].loadedVersion = kv[s].loadedVersion
                      /\ kv'[s].versions = kv[s].versions
  /\ UNCHANGED <<roots, headVersion, headHash, mode, uncommitted>>

LEMMA WriteTxKeeps ==
  ASSUME NEW c \in KV
  PROVE  /\ WriteThenClearTxCache(c) \in KV
         /\ WriteThenClearTxCache(c).tree = c.tree
         /\ WriteThenClearTxCache(c).loadedVersion = c.loadedVersion
         /\ WriteThenClearTxCache(c).versions = c.versions
         /\ WriteThenClearTxCache(c).txCache = EmptyCache
         /\ WriteThenClearTxCache(c).blockCache = Overlay(c.txCache, c.blockCache)
<1>1. Overlay(c.txCache, c.blockCache) \in Cache /\ EmptyCache \in Cache
  BY DEF KV, Overlay, Cache, EmptyCache
<1>2. QED BY <1>1 DEF WriteThenClearTxCache, KV

LEMMA ExecutedCaches ==
  ASSUME StoreInv, NEW b \in Version, mode = "running", kv' = Executed(Writes[b]),
         UNCHANGED <<roots, headVersion, headHash, mode, uncommitted>>
  PROVE  CachesOnly
<1>1. ASSUME NEW s \in Store
      PROVE  /\ kv'[s] \in KV
             /\ kv'[s].tree = kv[s].tree
             /\ kv'[s].loadedVersion = kv[s].loadedVersion
             /\ kv'[s].versions = kv[s].versions
  <2>1. kv[s] \in KV /\ Writes[b][s] \in Cache
    BY WritesAssumption DEF StoreInv, TypeOK
  <2> DEFINE c == Overlay(Writes[b][s], kv[s].txCache)
             d == [kv[s] EXCEPT !.txCache = c]
  <2>2. c \in Cache
    BY <2>1 DEF Overlay, Cache, KV
  <2> HIDE DEF c
  <2>3. /\ d \in KV /\ d.tree = kv[s].tree
        /\ d.loadedVersion = kv[s].loadedVersion
        /\ d.versions = kv[s].versions
    BY <2>1, <2>2 DEF KV
  <2>4. kv'[s] = WriteThenClearTxCache(d)
    BY DEF Executed, c
  <2> HIDE DEF d
  <2>5. QED
    BY <2>3, <2>4, WriteTxKeeps
<1>2. kv' = [s \in Store |-> kv'[s]]
  BY DEF Executed
<1>3. kv' \in [Store -> KV]
  BY <1>1, <1>2
<1>4. QED BY <1>1, <1>3 DEF CachesOnly

LEMMA CachesKeepStores ==
  ASSUME StoreInv, HeadInv, CachesOnly
  PROVE  StoreInv' /\ HeadInv'
<1>1. HashStoreInfos(kv)' = HashStoreInfos(kv)
  BY DEF CachesOnly, HashStoreInfos
<1>2. HeadInv'
  BY <1>1, LastStoreAssumption DEF CachesOnly, HeadInv
<1>3. StoreInv'
  BY DEF CachesOnly, StoreInv, TypeOK, HasLatest
<1>4. QED BY <1>2, <1>3

LEMMA InstallKeepsStores ==
  ASSUME StoreInv, HeadInv, mode = "running",
         NEW v \in Version, Install(ChainState(v), v)
  PROVE  StoreInv' /\ HeadInv'
<1> DEFINE state == ChainState(v)
<1>1. state \in [Store -> Tree]
  BY ChainTreeType DEF ChainState
<1>2. Install(state, v)
  OBVIOUS
<1> HIDE DEF state
<1>3. ASSUME NEW s \in Store
      PROVE  /\ kv'[s] \in KV /\ kv[s].versions \subseteq kv'[s].versions
             /\ kv'[s].tree = state[s] /\ kv'[s].loadedVersion = v
  <2>1. kv[s] \in KV /\ state[s] \in Tree /\ kv'[s] = InstallTree(kv[s], state[s], v)
    BY <1>1, <1>2 DEF StoreInv, TypeOK, Install
  <2>2. QED BY <2>1 DEF InstallTree, KV
<1>4. kv' \in [Store -> KV]
  BY <1>2, <1>3 DEF Install
<1>5. /\ mode' = "running" /\ roots' = roots /\ uncommitted' = {}
      /\ headVersion' = v /\ headHash' = state
  BY <1>2 DEF Install, StoreInv
<1>6. HashStoreInfos(kv)' = state
  BY <1>1, <1>3 DEF HashStoreInfos
<1>7. HeadInv'
  BY <1>3, <1>5, <1>6, LastStoreAssumption DEF HeadInv
<1>8. StoreInv'
  BY <1>1, <1>3, <1>4, <1>5 DEF StoreInv, TypeOK, HasLatest
<1>9. QED BY <1>7, <1>8

\* The steps that touch the stores, and the others.
StoreStep ==
  \/ InitChain
  \/ DeliverTx
  \/ CommitTakesLock
  \/ \E s \in Store : CommitWritesStore(s)
  \/ CommitReleasesLock
  \/ InstallTakesLock
  \/ RestartApp
  \/ RestartAppInCommit

ThreadStep ==
  \/ IncrementBlockHeight
  \/ Sync
  \/ \E best \in Version : ReceiveVersion(best)
  \/ ServeTakesLock
  \/ \E s \in Store : LoadStore(s) \/ LoadStorePanics(s)
  \/ PublishState
  \/ PublishPanics
  \/ LockPanics
  \/ \E v \in Version : ReceiveState(v)
  \/ UpdateBlockHeight
  \/ ABCIPanics

LEMMA AppSteps == [AppNext]_appVars => StoreStep \/ ThreadStep \/ UNCHANGED <<vars, threads>>
BY DEF AppNext, AheadNext, NodeNext, PanicStep, PeerStep, ABCIStep, ServeStep, InstallStep,
       StoreStep, ThreadStep, appVars, threads

\* A panic ends the ABCI thread, and nothing else: between two blocks, or under
\* the lock of a commit.
LEMMA PanicsKeep ==
  ABCIPanics => /\ abci' \in {"stopped", "panicked"}
                /\ UNCHANGED <<vars, height, block, p2p, incoming, loaded, sent, advertised>>
                /\ \/ abci = "idle"
                   \/ abci = "commit" /\ mode = "committing" /\ abci' = "panicked"
BY DEF ABCIPanics, DecodeTxPanics, RunTxPanics, FlushPanics

LEMMA ThreadStepsKeepStores == ThreadStep => UNCHANGED vars
BY PanicsKeep DEF ThreadStep, IncrementBlockHeight, Sync, ReceiveVersion, ServeTakesLock,
       LoadStore, LoadStorePanics, PublishState, PublishPanics, LockPanics,
       ReceiveState, UpdateBlockHeight, vars

-----------------------------------------------------------------------------
(* The invariant.                                                          *)

ThreadTypeOK ==
  /\ height \in 0..(MaxVersion + 1)
  /\ block \in 1..(MaxVersion + 1)
  /\ abci \in ABCI
  /\ p2p \in P2P
  /\ incoming \in Version
  /\ loaded \in States
  /\ sent \in [states: States, height: 0..(MaxVersion + 1)] \cup {None}
  /\ advertised \in Version \cup {None}
  /\ peerId \in {0, 1}

\* Where one thread holds the lock the other does not, and a block that is
\* executed is within the bound.
LockInv ==
  /\ p2p \in {"load", "installed"} => mode = "running"
  /\ mode = "committing" => abci \in {"commit", "panicked"}
  /\ abci \in {"delivered", "commit"} => block <= MaxVersion

\* Between the head and the height of an installed state, the head is right.
HeightInv ==
  /\ HeightNotAhead
  /\ p2p = "installed" => headVersion = incoming

\* The trees collected so far are saved versions, of the height or, once a
\* commit has incremented it, of the one before. That commit waits for the
\* lock, so the height is not incremented twice.
LoadInv ==
  p2p = "load" =>
    \A s \in Store : loaded[s] # None =>
      \E v \in SavedVersions(roots[s]) :
        /\ loaded[s] = roots[s][v]
        /\ \/ height = v
           \/ height = v + 1 /\ abci = "commit"

AppInv ==
  /\ StoreInv /\ HeadInv
  /\ ThreadTypeOK /\ LockInv /\ HeightInv
  /\ LoadInv /\ SentTreesAreSaved

LEMMA AppInvInit == AppInit => AppInv
<1> SUFFICES ASSUME AppInit PROVE AppInv
  OBVIOUS
<1>1. StoreInv /\ HeadInv
  BY StoreInvInit, HeadInvInit DEF AppInit
<1>2. ThreadTypeOK
  BY MaxVersionAssumption
     DEF AppInit, ThreadTypeOK, ABCI, P2P, Version, States, NothingLoaded
<1>3. LockInv /\ HeightInv
  BY DEF AppInit, Init, LockInv, HeightInv, HeightNotAhead
<1>4. LoadInv /\ SentTreesAreSaved
  BY DEF AppInit, LoadInv, SentTreesAreSaved
<1>5. QED BY <1>1, <1>2, <1>3, <1>4 DEF AppInv

\* A block delivered is a version.
LEMMA BlocksAreVersions ==
  ASSUME ThreadTypeOK, block <= MaxVersion
  PROVE  block \in Version
BY MaxVersionAssumption DEF ThreadTypeOK, Version

LEMMA StoresStep ==
  ASSUME AppInv, [AppNext]_appVars
  PROVE  StoreInv' /\ HeadInv'
<1>1. StoreInv /\ HeadInv /\ ThreadTypeOK
  BY DEF AppInv
<1>2. [Next]_vars => StoreInv' /\ HeadInv'
  BY <1>1, StoreInvStep, HeadInvStep
<1>3. CASE InitChain
  <2>1. 0 \in Version /\ mode = "running"
    BY <1>3, MaxVersionAssumption DEF InitChain, LockIsFree, Version
  <2>2. CachesOnly
    BY <1>1, <1>3, <2>1, ExecutedCaches DEF InitChain
  <2>3. QED BY <1>1, <2>2, CachesKeepStores
<1>4. CASE DeliverTx
  <2>1. block \in Version /\ mode = "running"
    BY <1>1, <1>4, BlocksAreVersions DEF DeliverTx, LockIsFree
  <2>2. CachesOnly
    BY <1>1, <1>4, <2>1, ExecutedCaches DEF DeliverTx
  <2>3. QED BY <1>1, <2>2, CachesKeepStores
<1>5. CASE InstallTakesLock
  <2>1. incoming \in Version /\ mode = "running" /\ Install(ChainState(incoming), incoming)
    BY <1>1, <1>5 DEF InstallTakesLock, LockIsFree, ThreadTypeOK
  <2>2. QED BY <1>1, <2>1, InstallKeepsStores
<1>6. CASE \/ CommitTakesLock \/ CommitReleasesLock
           \/ \E s \in Store : CommitWritesStore(s)
           \/ RestartApp \/ RestartAppInCommit
  BY <1>2, <1>6
     DEF CommitTakesLock, CommitReleasesLock, CommitWritesStore, RestartApp,
         RestartAppInCommit, Next, CrashStep, BlockStep
<1>7. CASE ThreadStep \/ UNCHANGED <<vars, threads>>
  BY <1>2, <1>7, ThreadStepsKeepStores DEF vars
<1>8. QED
  BY <1>3, <1>4, <1>5, <1>6, <1>7, AppSteps DEF StoreStep

LEMMA TypesStep ==
  ASSUME AppInv, [AppNext]_appVars
  PROVE  ThreadTypeOK'
<1>1. ThreadTypeOK /\ LockInv /\ StoreInv /\ (StoreInv)'
  BY StoresStep DEF AppInv
<1>2. headVersion' \in Version /\ roots \in [Store -> Roots]
  BY <1>1 DEF StoreInv, TypeOK
<1>3. NothingLoaded \in States
  BY DEF NothingLoaded, States
<1>4. peerId' \in {0, 1}
  BY <1>1 DEF ThreadTypeOK, AppNext, AheadNext, NodeNext, PanicStep, PeerStep, appVars, RestartApp,
             RestartAppInCommit, StartAgain
<1> USE MaxVersionAssumption DEF Version, ABCI, P2P
<1>5. CASE StartAgain
  <2>1. height' \in 0..(MaxVersion + 1) /\ block' \in 1..(MaxVersion + 1)
    <3>1. headVersion' \in Nat /\ headVersion' <= MaxVersion
      BY <1>2
    <3>2. height' = headVersion' /\ block' = headVersion' + 1
      BY <1>5 DEF StartAgain
    <3>3. \A h \in Nat : h <= MaxVersion =>
            h \in 0..(MaxVersion + 1) /\ h + 1 \in 1..(MaxVersion + 1)
      OBVIOUS
    <3>4. headVersion' \in 0..(MaxVersion + 1) /\ headVersion' + 1 \in 1..(MaxVersion + 1)
      BY <3>1, <3>3
    <3>5. QED BY ONLY <3>2, <3>4
  <2>2. abci' \in ABCI /\ p2p' \in P2P /\ incoming' \in Version
    BY <1>5 DEF StartAgain
  <2>3. loaded' \in States /\ sent' = None /\ advertised' = None
    BY <1>3, <1>5 DEF StartAgain, NothingLoaded
  <2>4. QED BY <1>4, <2>1, <2>2, <2>3 DEF ThreadTypeOK
<1>6. CASE \/ InitChain \/ DeliverTx \/ CommitTakesLock
           \/ \E s \in Store : CommitWritesStore(s)
           \/ InstallTakesLock \/ UNCHANGED <<vars, threads>>
  BY <1>1, <1>4, <1>6
     DEF ThreadTypeOK, InitChain, DeliverTx, CommitTakesLock, CommitWritesStore,
         InstallTakesLock, threads
<1>7. CASE CommitReleasesLock
  BY <1>1, <1>4, <1>7 DEF ThreadTypeOK, LockInv, CommitReleasesLock, FinishCommit
<1>8. CASE IncrementBlockHeight
  BY <1>1, <1>4, <1>8 DEF ThreadTypeOK, IncrementBlockHeight
<1>9. CASE Sync
  BY <1>1, <1>4, <1>9 DEF ThreadTypeOK, Sync
<1>10. CASE \/ \E best \in Version : ReceiveVersion(best)
            \/ ServeTakesLock
            \/ \E s \in Store : LoadStorePanics(s)
            \/ PublishPanics \/ LockPanics
            \/ \E v \in Version : ReceiveState(v)
            \/ UpdateBlockHeight
  BY <1>1, <1>3, <1>4, <1>10
     DEF ThreadTypeOK, ReceiveVersion, ServeTakesLock, LoadStorePanics,
         PublishPanics, LockPanics, ReceiveState, UpdateBlockHeight
<1>11. ASSUME NEW s \in Store, LoadStore(s)
       PROVE  ThreadTypeOK'
  <2>1. roots[s][height] \in Tree
    BY <1>2, <1>11 DEF LoadStore, CanLoadAllNodes, SavedVersions, Roots
  <2>2. loaded' \in States
    BY <1>1, <1>11, <2>1 DEF LoadStore, ThreadTypeOK, States
  <2>3. QED BY <1>1, <1>4, <1>11, <2>2 DEF LoadStore, ThreadTypeOK
<1>12. CASE PublishState
  BY <1>1, <1>3, <1>4, <1>12 DEF ThreadTypeOK, PublishState
<1>13. CASE ABCIPanics
  BY <1>1, <1>4, <1>13, PanicsKeep DEF ThreadTypeOK
<1>14. QED
  BY <1>5, <1>6, <1>7, <1>8, <1>9, <1>10, <1>11, <1>12, <1>13, AppSteps
     DEF StoreStep, ThreadStep, RestartApp, RestartAppInCommit

LEMMA LocksStep ==
  ASSUME AppInv, [AppNext]_appVars
  PROVE  LockInv' /\ HeightInv'
<1>1. ThreadTypeOK /\ LockInv /\ HeightInv
  BY DEF AppInv
<1>2. headVersion \in Nat /\ headVersion' \in Nat /\ height \in Nat
  BY <1>1, StoresStep, MaxVersionAssumption
     DEF AppInv, StoreInv, TypeOK, ThreadTypeOK, Version
<1> USE DEF LockInv, HeightInv, HeightNotAhead
<1>3. ASSUME StartAgain, Reopen
      PROVE  LockInv' /\ HeightInv'
  BY <1>2, <1>3 DEF StartAgain, Reopen
<1>4. CASE InitChain \/ DeliverTx
  BY <1>1, <1>2, <1>4 DEF InitChain, DeliverTx
<1>5. CASE CommitTakesLock
  BY <1>1, <1>2, <1>5 DEF CommitTakesLock, LockIsFree, BeginCommit, threads
<1>6. CASE \E s \in Store : CommitWritesStore(s)
  BY <1>1, <1>2, <1>6
     DEF CommitWritesStore, StoreCommits, CommitStore, CommitStorePanics, threads
<1>7. CASE CommitReleasesLock
  BY <1>1, <1>2, <1>7 DEF CommitReleasesLock, FinishCommit
<1>8. CASE InstallTakesLock
  BY <1>1, <1>2, <1>8 DEF InstallTakesLock, Install, LockIsFree
<1>9. CASE IncrementBlockHeight
  BY <1>1, <1>2, <1>9 DEF IncrementBlockHeight, vars
<1>10. CASE UpdateBlockHeight
  BY <1>1, <1>2, <1>10 DEF UpdateBlockHeight, vars
<1>11. CASE \/ Sync \/ \E best \in Version : ReceiveVersion(best)
            \/ ServeTakesLock
            \/ \E s \in Store : LoadStore(s) \/ LoadStorePanics(s)
            \/ PublishState \/ PublishPanics \/ LockPanics
            \/ \E v \in Version : ReceiveState(v)
            \/ UNCHANGED <<vars, threads>>
  BY <1>1, <1>2, <1>11
     DEF Sync, ReceiveVersion, ServeTakesLock, LockIsFree, LoadStore,
         LoadStorePanics, PublishState, PublishPanics, LockPanics, ReceiveState,
         vars, threads
<1>12. CASE ABCIPanics
  BY <1>1, <1>2, <1>12, PanicsKeep DEF vars
<1>13. QED
  BY <1>3, <1>4, <1>5, <1>6, <1>7, <1>8, <1>9, <1>10, <1>11, <1>12, AppSteps
     DEF StoreStep, ThreadStep, RestartApp, RestartAppInCommit, Restart, RestartInCommit

-----------------------------------------------------------------------------
(* What is sent.                                                           *)

\* No step overwrites a version or loses one.
LEMMA VersionsAreKept ==
  ASSUME AppInv, [AppNext]_appVars
  PROVE  \A s \in Store, v \in Version :
           roots[s][v] # None => roots'[s][v] = roots[s][v]
<1>1. ASSUME NEW s \in Store, CommitWritesStore(s), roots' # roots
      PROVE  CommitStore(s)
  BY <1>1 DEF CommitWritesStore, StoreCommits, CommitStorePanics
<1>2. CASE roots' = roots
  BY <1>2
<1>3. CASE roots' # roots
  <2>1. PICK s \in Store : CommitWritesStore(s)
    BY <1>3, AppSteps, ThreadStepsKeepStores
       DEF StoreStep, InitChain, DeliverTx, CommitTakesLock, BeginCommit,
           CommitReleasesLock, FinishCommit, InstallTakesLock, Install, RestartApp,
           RestartAppInCommit, Restart, RestartInCommit, Reopen, vars
  <2>2. QED BY <1>1, <1>3, <2>1, CommitStoreKeepsVersions DEF AppInv
<1>4. QED BY <1>2, <1>3

LEMMA LoadStep ==
  ASSUME AppInv, [AppNext]_appVars
  PROVE  LoadInv'
<1>1. ThreadTypeOK /\ LockInv /\ LoadInv
  BY DEF AppInv
<1> USE DEF LoadInv
<1>2. CASE p2p' # "load"
  BY <1>2
<1>3. CASE ServeTakesLock
  BY <1>3 DEF ServeTakesLock, NothingLoaded
<1>4. ASSUME p2p = "load", p2p' = "load"
      PROVE  LoadInv'
  <2>1. mode = "running" /\ roots' = roots
    BY <1>1, <1>4, AppSteps, ThreadStepsKeepStores
       DEF LockInv, StoreStep, InitChain, DeliverTx, LockIsFree, CommitTakesLock,
           CommitWritesStore, StoreCommits, CommitStore, CommitStorePanics, BeginCommit,
           CommitReleasesLock, FinishCommit, InstallTakesLock, Install, RestartApp,
           RestartAppInCommit, StartAgain, vars
  <2>2. CASE loaded' = loaded /\ height' = height /\ abci' = abci
    BY <1>1, <1>4, <2>1, <2>2
  <2>3. CASE IncrementBlockHeight
    BY <1>1, <1>4, <2>1, <2>3 DEF IncrementBlockHeight
  <2>4. ASSUME NEW s \in Store, LoadStore(s)
        PROVE  LoadInv'
    <3>1. /\ height \in SavedVersions(roots[s])
          /\ loaded' = [loaded EXCEPT ![s] = roots[s][height]]
          /\ height' = height /\ abci' = abci
      BY <2>4 DEF LoadStore, CanLoadAllNodes
    <3>2. loaded \in [Store -> Tree \cup {None}]
      BY <1>1 DEF ThreadTypeOK, States
    <3>3. QED BY <1>1, <1>4, <2>1, <3>1, <3>2
  <2>5. CASE ABCIPanics
    BY <1>1, <1>4, <2>1, <2>5, PanicsKeep
  <2>6. QED
    BY <1>1, <1>4, <2>1, <2>2, <2>3, <2>4, <2>5, AppSteps
       DEF StoreStep, ThreadStep, InitChain, DeliverTx, LockIsFree, CommitTakesLock,
           CommitWritesStore, StoreCommits, CommitStore, CommitStorePanics,
           CommitReleasesLock, FinishCommit, InstallTakesLock, RestartApp,
           RestartAppInCommit, StartAgain, Sync, ReceiveVersion, ServeTakesLock,
           LoadStorePanics, PublishState, PublishPanics, LockPanics, ReceiveState,
           UpdateBlockHeight, threads
<1>5. QED
  BY <1>2, <1>3, <1>4, AppSteps, PanicsKeep
     DEF StoreStep, ThreadStep, InitChain, DeliverTx, CommitTakesLock,
         CommitWritesStore, CommitReleasesLock, InstallTakesLock, RestartApp,
         RestartAppInCommit, StartAgain, IncrementBlockHeight, Sync, ReceiveVersion,
         LoadStore, LoadStorePanics, PublishState, PublishPanics, LockPanics,
         ReceiveState, UpdateBlockHeight, threads

LEMMA SentStep ==
  ASSUME AppInv, [AppNext]_appVars
  PROVE  SentTreesAreSaved'
<1>1. ThreadTypeOK /\ LoadInv /\ SentTreesAreSaved
  BY DEF AppInv
<1>2. \A s \in Store : \A v \in SavedVersions(roots[s]) :
        v \in SavedVersions(roots'[s]) /\ roots'[s][v] = roots[s][v]
  BY VersionsAreKept DEF SavedVersions
<1>3. CASE sent' = sent
  BY <1>1, <1>2, <1>3 DEF SentTreesAreSaved
<1>4. CASE sent' = None
  BY <1>4 DEF SentTreesAreSaved
<1>5. CASE PublishState
  <2>1. /\ p2p = "load" /\ \A s \in Store : loaded[s] # None
        /\ sent'.states = loaded /\ sent'.height = height
    BY <1>5 DEF PublishState
  <2>2. \A s \in Store : \E v \in SavedVersions(roots[s]) :
          loaded[s] = roots[s][v] /\ height \in {v, v + 1}
    BY <1>1, <2>1 DEF LoadInv
  <2>3. QED BY <1>2, <2>1, <2>2 DEF SentTreesAreSaved
<1>6. QED
  BY <1>3, <1>4, <1>5, AppSteps, PanicsKeep
     DEF StoreStep, ThreadStep, InitChain, DeliverTx, CommitTakesLock,
         CommitWritesStore, CommitReleasesLock, InstallTakesLock, RestartApp,
         RestartAppInCommit, StartAgain, IncrementBlockHeight, Sync, ReceiveVersion,
         ServeTakesLock, LoadStore, LoadStorePanics, PublishPanics, LockPanics,
         ReceiveState, UpdateBlockHeight, threads

LEMMA AppInvStep == AppInv /\ [AppNext]_appVars => AppInv'
BY StoresStep, TypesStep, LocksStep, LoadStep, SentStep DEF AppInv

-----------------------------------------------------------------------------

\* Every state of the two threads is well typed.
THEOREM AppTypeCorrect == AppSpec => []AppTypeOK
<1>1. AppInv => AppTypeOK
  BY DEF AppInv, AppTypeOK, StoreInv, ThreadTypeOK
<1>2. QED BY <1>1, AppInvInit, AppInvStep, PTL DEF AppSpec

\* Whatever the peers send and wherever the process crashes, the height is
\* never beyond the head but for the commit under way.
THEOREM HeightIsNeverAhead == AppSpec => []HeightNotAhead
<1>1. AppInv => HeightNotAhead
  BY DEF AppInv, HeightInv
<1>2. QED BY <1>1, AppInvInit, AppInvStep, PTL DEF AppSpec

\* The head hash and the head version that info reports are those of the
\* stores, with both threads at work.
THEOREM HeadStaysDescribed == AppSpec => []HeadDescribesStores
<1>1. AppInv => HeadDescribesStores
  BY DEF AppInv, HeadInv, HeadDescribesStores
<1>2. QED BY <1>1, AppInvInit, AppInvStep, PTL DEF AppSpec

\* Every tree of a State message is a saved version of its store, although the
\* height that chooses it is read without the lock.
THEOREM SentTreesStaySaved == AppSpec => []SentTreesAreSaved
<1>1. AppInv => SentTreesAreSaved
  BY DEF AppInv
<1>2. QED BY <1>1, AppInvInit, AppInvStep, PTL DEF AppSpec

\* No state of a peer makes a commit overwrite a saved version.
THEOREM PeersOverwriteNothing == AppSpec => SavedVersionsImmutable
<1> DEFINE Kept == \A s \in Store, v \in Version :
                     roots[s][v] # None => roots'[s][v] = roots[s][v]
<1>1. AppInv /\ [AppNext]_appVars => [Kept]_vars
  BY VersionsAreKept
<1>2. QED
  BY <1>1, AppInvInit, AppInvStep, PTL DEF AppSpec, SavedVersionsImmutable

-----------------------------------------------------------------------------
(***************************************************************************)
(* A node no peer is ahead of, stopped only between commits, for every     *)
(* chain: its stores are the chain's, and what it sends to a peer is one   *)
(* block of it.                                                            *)
(***************************************************************************)

(* The chain, one block at a time.                                         *)

\* What the commit of block v + 1 writes: the genesis goes with block 1.
Genesis(s, v) == IF v = 0 THEN Writes[0][s] ELSE EmptyCache

BlockWrites(s, v) == Overlay(Writes[v + 1][s], Genesis(s, v))

\* The last writer up to v + 1 is v + 1 itself, or else the last up to v.
LEMMA WritersStep ==
  ASSUME NEW s \in Store, NEW k \in Key, NEW v \in Version, v < MaxVersion
  PROVE  /\ Writes[v + 1][s][k] # None =>
              /\ WritersOf(s, k, v + 1) # {}
              /\ LastWriterOf(s, k, v + 1) = v + 1
         /\ Writes[v + 1][s][k] = None => WritersOf(s, k, v + 1) = WritersOf(s, k, v)
<1>1. v \in Nat /\ v + 1 \in Version
  BY MaxVersionAssumption DEF Version
<1>2. \A b : b \in 0..(v + 1) <=> b \in 0..v \/ b = v + 1
  BY <1>1
<1>3. ASSUME Writes[v + 1][s][k] # None
      PROVE  WritersOf(s, k, v + 1) # {} /\ LastWriterOf(s, k, v + 1) = v + 1
  <2>1. v + 1 \in WritersOf(s, k, v + 1)
    BY <1>2, <1>3 DEF WritersOf
  <2>2. LastWriterOf(s, k, v + 1) \in 0..(v + 1) /\ v + 1 <= LastWriterOf(s, k, v + 1)
    BY <1>1, <2>1, LastWriterIsGreatest DEF WritersOf
  <2>3. QED BY <1>1, <2>1, <2>2
<1>4. ASSUME Writes[v + 1][s][k] = None
      PROVE  WritersOf(s, k, v + 1) = WritersOf(s, k, v)
  BY <1>2, <1>4 DEF WritersOf
<1>5. QED BY <1>3, <1>4

\* The tree after a block is the one before it with the block's writes.
LEMMA ChainStep ==
  ASSUME NEW s \in Store, NEW v \in Version, v < MaxVersion
  PROVE  ChainTree(s, v + 1) =
           [k \in Key |-> IF BlockWrites(s, v)[k] # None
                          THEN [value |-> BlockWrites(s, v)[k], version |-> v + 1]
                          ELSE ChainTree(s, v)[k]]
<1>1. v \in Nat /\ v + 1 # 0 /\ 0 \in Version
  BY MaxVersionAssumption DEF Version
<1>2. ASSUME NEW k \in Key
      PROVE  ChainTree(s, v + 1)[k] =
               IF BlockWrites(s, v)[k] # None
               THEN [value |-> BlockWrites(s, v)[k], version |-> v + 1]
               ELSE ChainTree(s, v)[k]
  <2>1. BlockWrites(s, v)[k] = IF Writes[v + 1][s][k] # None
                               THEN Writes[v + 1][s][k]
                               ELSE IF v = 0 THEN Writes[0][s][k] ELSE None
    BY DEF BlockWrites, Overlay, Genesis, EmptyCache
  <2>2. CASE Writes[v + 1][s][k] # None
    BY <1>1, <2>1, <2>2, WritersStep DEF ChainTree
  <2>3. CASE Writes[v + 1][s][k] = None /\ v # 0
    <3>1. WritersOf(s, k, v + 1) = WritersOf(s, k, v)
      BY <2>3, WritersStep
    <3>2. LastWriterOf(s, k, v + 1) = LastWriterOf(s, k, v)
      BY <3>1 DEF LastWriterOf
    <3>3. QED BY <1>1, <2>1, <2>3, <3>1, <3>2 DEF ChainTree
  <2>4. CASE Writes[v + 1][s][k] = None /\ v = 0
    <3>1. WritersOf(s, k, v + 1) = WritersOf(s, k, 0)
      BY <2>4, WritersStep
    <3>2. \A b : b \in 0..0 <=> b = 0
      OBVIOUS
    <3>3. CASE Writes[0][s][k] # None
      <4>1. WritersOf(s, k, v + 1) # {} /\ \A b \in WritersOf(s, k, v + 1) : b = 0
        BY <3>1, <3>2, <3>3 DEF WritersOf
      <4>2. LastWriterOf(s, k, v + 1) = 0
        BY <1>1, <3>1, <4>1, LastWriterIsGreatest DEF LastWriterOf
      <4>3. QED BY <2>1, <2>4, <3>3, <4>1, <4>2 DEF ChainTree
    <3>4. CASE Writes[0][s][k] = None
      <4>1. WritersOf(s, k, v + 1) = {}
        BY <3>1, <3>2, <3>4 DEF WritersOf
      <4>2. QED BY <2>1, <2>4, <3>4, <4>1 DEF ChainTree
    <3>5. QED BY <3>3, <3>4
  <2>5. QED BY <2>2, <2>3, <2>4
<1>3. QED BY <1>2 DEF ChainTree

\* What a commit makes of a store whose block cache holds the block.
LEMMA FlushedChain ==
  ASSUME NEW s \in Store, NEW c \in KV, c.loadedVersion < MaxVersion,
         c.tree = ChainTree(s, c.loadedVersion), c.txCache = EmptyCache,
         c.blockCache = BlockWrites(s, c.loadedVersion)
  PROVE  Flushed(c).tree = ChainTree(s, c.loadedVersion + 1)
<1> DEFINE d == WriteThenClearTxCache(c)
<1>1. /\ d \in KV /\ d.tree = c.tree /\ d.loadedVersion = c.loadedVersion
      /\ d.blockCache = Overlay(c.txCache, c.blockCache)
  BY WriteTxKeeps
<1>2. Overlay(c.txCache, c.blockCache) = c.blockCache
  BY DEF Overlay, EmptyCache, KV, Cache
<1> HIDE DEF d
<1>3. WriteThenClearBlockCache(d).tree =
        [k \in Key |-> IF d.blockCache[k] # None
                       THEN [value |-> d.blockCache[k],
                             version |-> d.loadedVersion + 1]
                       ELSE d.tree[k]]
  BY <1>1 DEF WriteThenClearBlockCache, KV
<1>4. c.loadedVersion \in Version
  BY DEF KV
<1> DEFINE v == c.loadedVersion
           w == BlockWrites(s, v)
<1>5. ChainTree(s, v + 1) =
        [k \in Key |-> IF w[k] # None
                       THEN [value |-> w[k], version |-> v + 1]
                       ELSE ChainTree(s, v)[k]]
  BY <1>4, ChainStep
<1>6. d.blockCache = w /\ d.tree = ChainTree(s, v) /\ d.loadedVersion = v
  BY <1>1, <1>2
<1> HIDE DEF w, v
<1>7. WriteThenClearBlockCache(d).tree = ChainTree(s, v + 1)
  BY <1>3, <1>5, <1>6
<1>8. QED BY <1>7 DEF Flushed, d, v

-----------------------------------------------------------------------------
(* The invariant.                                                          *)

\* What the block cache of a store holds: the writes of the transactions
\* executed since the last commit.
Uncommitted(s) ==
  IF abci = "genesis" THEN EmptyCache
  ELSE IF abci = "idle" THEN Genesis(s, headVersion)
  ELSE BlockWrites(s, headVersion)

\* The engine's block, the height and the head go together.
NumbersInv ==
  /\ p2p \notin {"install", "installed"}
  /\ block = headVersion + 1
  /\ height = headVersion + (IF abci = "commit" \/ mode = "committing" THEN 1 ELSE 0)
  /\ abci = "genesis" => headVersion = 0

\* A store holds the blocks it has committed, and its caches the next one
\* until it has written it, or the ABCI thread has ended.
ChainInv ==
  \A s \in Store :
    /\ kv[s].tree = ChainTree(s, kv[s].loadedVersion)
    /\ kv[s].txCache = EmptyCache
    /\ ABCIRuns /\ (mode = "running" \/ s \in uncommitted) =>
         kv[s].blockCache = Uncommitted(s)

\* While the P2P thread holds the lock, the head is the only version of the
\* height it can load: the next one has not been saved.
HeadLoadedInv ==
  p2p = "load" =>
    \A s \in Store : loaded[s] # None => loaded[s] = roots[s][headVersion]

\* The block a message carries stays saved.
SentInv ==
  sent # None =>
    \E v \in Version :
      /\ \A s \in Store : roots[s][v] # None /\ sent.states[s] = roots[s][v]
      /\ sent.height \in {v, v + 1}

AheadInv ==
  /\ AppInv /\ BlockInv
  /\ NumbersInv /\ ChainInv /\ HeadLoadedInv /\ SentInv

LEMMA AheadInvInit == AppInit => AheadInv
<1> SUFFICES ASSUME AppInit PROVE AheadInv
  OBVIOUS
<1>1. AppInv /\ BlockInv
  BY AppInvInit, BlockInvInit DEF AppInit
<1>2. NumbersInv /\ HeadLoadedInv /\ SentInv
  BY DEF AppInit, Init, NumbersInv, HeadLoadedInv, SentInv
<1>3. \A s \in Store : /\ kv[s].tree = EmptyTree /\ kv[s].loadedVersion = 0
                       /\ kv[s].txCache = EmptyCache
                       /\ kv[s].blockCache = EmptyCache
  <2>1. \A s \in Store : SavedVersions(roots[s]) = {}
    BY DEF AppInit, Init, SavedVersions
  <2>2. QED BY <2>1 DEF AppInit, Init, Opened, LatestVersion
<1>4. \A s \in Store : ChainTree(s, 0) = EmptyTree
  BY DEF ChainTree, EmptyTree
<1>5. ChainInv
  BY <1>3, <1>4 DEF AppInit, ChainInv, Uncommitted, ABCIRuns
<1>6. QED BY <1>1, <1>2, <1>5 DEF AheadInv

\* The steps of such a node: those that write its stores, and the others.
ServingStep ==
  \/ Sync
  \/ \E best \in Version : ReceiveVersion(best)
  \/ ServeTakesLock
  \/ \E s \in Store : LoadStore(s) \/ LoadStorePanics(s)
  \/ PublishState
  \/ PublishPanics
  \/ LockPanics
  \/ UNCHANGED <<vars, threads>>

LEMMA AheadSteps ==
  [AheadNext]_appVars =>
    \/ InitChain \/ DeliverTx
    \/ CommitTakesLock \/ (\E s \in Store : CommitWritesStore(s)) \/ CommitReleasesLock
    \/ RestartApp \/ IncrementBlockHeight \/ ServingStep \/ ABCIPanics
BY DEF AheadNext, NodeNext, PanicStep, ABCIStep, ServeStep, ServingStep, appVars

LEMMA AheadIsApp == [AheadNext]_appVars => [AppNext]_appVars
BY DEF AppNext

LEMMA ServingKeeps ==
  ServingStep => UNCHANGED <<vars, height, block, abci>>
BY DEF ServingStep, Sync, ReceiveVersion, ServeTakesLock, LoadStore,
       LoadStorePanics, PublishState, PublishPanics, LockPanics, threads

LEMMA BlocksStep ==
  ASSUME AheadInv, [AheadNext]_appVars
  PROVE  BlockInv'
<1>1. AppInv /\ BlockInv /\ StoreInv /\ HeadInv
  BY DEF AheadInv, AppInv
<1>2. ASSUME CachesOnly
      PROVE  BlockInv'
  <2>1. StoreInv' /\ HeadInv'
    BY <1>1, <1>2, CachesKeepStores
  <2>2. TreeIsLatestSaved' /\ NeverPoisoned'
    BY <1>1, <1>2 DEF CachesOnly, BlockInv, CrashInv, TreeIsLatestSaved, NeverPoisoned
  <2>3. StoresInStep' /\ ZeroUnsaved'
    BY <1>1, <1>2 DEF CachesOnly, BlockInv, StoresInStep, ZeroUnsaved
  <2>4. mode' # "committing"
    BY <1>2 DEF CachesOnly
  <2>5. QED BY <2>1, <2>2, <2>3, <2>4 DEF BlockInv, CrashInv
<1>3. CASE InitChain
  <2>1. 0 \in Version
    BY MaxVersionAssumption DEF Version
  <2>2. QED BY <1>1, <1>2, <1>3, <2>1, ExecutedCaches DEF InitChain, LockIsFree
<1>4. CASE DeliverTx
  <2>1. block \in Version
    BY <1>1, <1>4, BlocksAreVersions DEF DeliverTx, AppInv
  <2>2. QED BY <1>1, <1>2, <1>4, <2>1, ExecutedCaches DEF DeliverTx, LockIsFree
<1>5. CASE \/ CommitTakesLock \/ (\E s \in Store : CommitWritesStore(s))
           \/ CommitReleasesLock \/ RestartApp
  BY <1>1, <1>5, BlockInvStep
     DEF CommitTakesLock, CommitWritesStore, CommitReleasesLock, RestartApp, BlockStep
<1>6. CASE IncrementBlockHeight \/ ServingStep \/ ABCIPanics
  BY <1>1, <1>6, BlockInvStep, ServingKeeps, PanicsKeep DEF IncrementBlockHeight
<1>7. QED BY <1>3, <1>4, <1>5, <1>6, AheadSteps

LEMMA NumbersStep ==
  ASSUME AheadInv, [AheadNext]_appVars
  PROVE  NumbersInv'
<1>1. NumbersInv /\ LockInv /\ headVersion \in Nat
  BY MaxVersionAssumption DEF AheadInv, AppInv, StoreInv, TypeOK, Version
<1> USE DEF NumbersInv
<1>2. CASE InitChain \/ DeliverTx
  BY <1>1, <1>2 DEF InitChain, DeliverTx
<1>3. CASE CommitTakesLock
  BY <1>1, <1>3 DEF CommitTakesLock, BeginCommit, threads
<1>4. CASE \E s \in Store : CommitWritesStore(s)
  BY <1>1, <1>4
     DEF CommitWritesStore, StoreCommits, CommitStore, CommitStorePanics, threads
<1>5. CASE CommitReleasesLock
  BY <1>1, <1>5 DEF CommitReleasesLock, FinishCommit
<1>6. CASE RestartApp
  <2>1. headVersion' \in Nat
    BY <1>6, BlocksStep, MaxVersionAssumption
       DEF BlockInv, CrashInv, StoreInv, TypeOK, Version
  <2>2. /\ height' = headVersion' /\ block' = headVersion' + 1
        /\ p2p' = "idle" /\ abci' # "commit" /\ mode' = "running"
        /\ abci' = "genesis" => headVersion' = 0
    BY <1>6 DEF RestartApp, StartAgain, Restart, Reopen
  <2>3. \A n \in Nat : n = n + 0
    OBVIOUS
  <2>4. QED BY ONLY <2>1, <2>2, <2>3 DEF NumbersInv
<1>7. CASE IncrementBlockHeight
  BY <1>1, <1>7 DEF IncrementBlockHeight, vars
<1>8. CASE ServingStep
  <2>1. p2p' \notin {"install", "installed"}
    BY <1>1, <1>8
       DEF ServingStep, Sync, ReceiveVersion, ServeTakesLock, LoadStore,
           LoadStorePanics, PublishState, PublishPanics, LockPanics, threads
  <2>2. QED BY <1>1, <1>8, <2>1, ServingKeeps DEF vars
<1>9. CASE ABCIPanics
  BY <1>1, <1>9, PanicsKeep DEF LockInv, vars
<1>10. QED BY <1>2, <1>3, <1>4, <1>5, <1>6, <1>7, <1>8, <1>9, AheadSteps

\* What a block's transactions leave in the caches of a store.
LEMMA ExecutedEffect ==
  ASSUME StoreInv, NEW b \in Version, NEW s \in Store, kv[s].txCache = EmptyCache,
         kv' = Executed(Writes[b])
  PROVE  /\ kv'[s].tree = kv[s].tree
         /\ kv'[s].loadedVersion = kv[s].loadedVersion
         /\ kv'[s].txCache = EmptyCache
         /\ kv'[s].blockCache = Overlay(Writes[b][s], kv[s].blockCache)
<1> DEFINE c == Overlay(Writes[b][s], kv[s].txCache)
           d == [kv[s] EXCEPT !.txCache = c]
<1>1. kv[s] \in KV /\ Writes[b][s] \in Cache
  BY WritesAssumption DEF StoreInv, TypeOK
<1>2. c = Writes[b][s]
  BY <1>1 DEF Overlay, Cache, EmptyCache
<1> HIDE DEF c
<1>3. /\ d \in KV /\ d.tree = kv[s].tree /\ d.loadedVersion = kv[s].loadedVersion
      /\ d.txCache = c /\ d.blockCache = kv[s].blockCache
  BY <1>1, <1>2 DEF KV
<1>4. kv'[s] = WriteThenClearTxCache(d)
  BY DEF Executed, c
<1> HIDE DEF d
<1>5. QED BY <1>2, <1>3, <1>4, WriteTxKeeps

LEMMA ChainInvStep ==
  ASSUME AheadInv, [AheadNext]_appVars
  PROVE  ChainInv'
<1>1. /\ StoreInv /\ BlockInv /\ NumbersInv /\ ChainInv /\ LockInv /\ ThreadTypeOK
      /\ StoresInStep /\ TreeIsLatestSaved
      /\ \A s \in Store : kv[s] \in KV
  BY DEF AheadInv, AppInv, BlockInv, CrashInv, StoreInv, TypeOK
<1>2. headVersion \in Nat /\ 0 \in Version
  BY <1>1, MaxVersionAssumption DEF StoreInv, TypeOK, Version
<1>3. CASE InitChain
  <2>1. ASSUME NEW s \in Store
        PROVE  /\ kv'[s].tree = kv[s].tree
               /\ kv'[s].loadedVersion = kv[s].loadedVersion
               /\ kv'[s].txCache = EmptyCache
               /\ kv'[s].blockCache = Writes[0][s]
    <3>1. kv[s].txCache = EmptyCache /\ kv[s].blockCache = EmptyCache
      BY <1>1, <1>3 DEF InitChain, LockIsFree, ChainInv, Uncommitted, ABCIRuns
    <3>2. Writes[0][s] \in Cache
      BY <1>2, WritesAssumption
    <3>3. Overlay(Writes[0][s], EmptyCache) = Writes[0][s]
      BY <3>2 DEF Overlay, Cache, EmptyCache
    <3>4. QED BY <1>1, <1>2, <1>3, <3>1, <3>3, ExecutedEffect DEF InitChain
  <2>2. /\ headVersion' = headVersion /\ headVersion = 0 /\ abci' = "idle"
        /\ mode' = mode /\ uncommitted' = uncommitted
    BY <1>1, <1>3 DEF InitChain, NumbersInv
  <2>3. QED BY <1>1, <2>1, <2>2 DEF ChainInv, Uncommitted, Genesis, ABCIRuns
<1>4. CASE DeliverTx
  <2>1. block \in Version /\ block = headVersion + 1
    BY <1>1, <1>4, BlocksAreVersions DEF DeliverTx, NumbersInv
  <2>2. ASSUME NEW s \in Store
        PROVE  /\ kv'[s].tree = kv[s].tree
               /\ kv'[s].loadedVersion = kv[s].loadedVersion
               /\ kv'[s].txCache = EmptyCache
               /\ kv'[s].blockCache = BlockWrites(s, headVersion)
    <3>1. kv[s].txCache = EmptyCache /\ kv[s].blockCache = Genesis(s, headVersion)
      BY <1>1, <1>4 DEF DeliverTx, LockIsFree, ChainInv, Uncommitted, ABCIRuns
    <3>2. kv' = Executed(Writes[block])
      BY <1>4 DEF DeliverTx
    <3>3. kv'[s].blockCache = Overlay(Writes[block][s], kv[s].blockCache)
      BY <1>1, <2>1, <3>1, <3>2, ExecutedEffect
    <3>4. kv'[s].blockCache = BlockWrites(s, headVersion)
      BY <2>1, <3>1, <3>3 DEF BlockWrites
    <3>5. QED BY <1>1, <2>1, <3>1, <3>2, <3>4, ExecutedEffect
  <2>3. /\ headVersion' = headVersion /\ abci' = "delivered"
        /\ mode' = mode /\ uncommitted' = uncommitted
    BY <1>4 DEF DeliverTx
  <2>4. QED BY <1>1, <2>2, <2>3 DEF ChainInv, Uncommitted, ABCIRuns
<1>5. CASE CommitTakesLock
  BY <1>1, <1>5
     DEF CommitTakesLock, LockIsFree, BeginCommit, threads, ChainInv, Uncommitted, ABCIRuns
<1>6. ASSUME NEW s \in Store, CommitWritesStore(s)
      PROVE  ChainInv'
  <2>1. NeverPoisoned'
    BY BlocksStep DEF BlockInv, CrashInv
  <2>2. CommitStore(s) /\ UNCHANGED threads
    BY <1>6, <2>1 DEF CommitWritesStore, StoreCommits, CommitStorePanics, NeverPoisoned
  <2>3. /\ mode = "committing" /\ abci = "commit" /\ s \in uncommitted
        /\ mode' = "committing" /\ abci' = "commit"
        /\ headVersion' = headVersion /\ uncommitted' = uncommitted \ {s}
    BY <1>6, <2>2 DEF CommitWritesStore, CommitStore, threads
  <2> DEFINE f == Flushed(kv[s])
  <2>4. /\ kv[s] \in KV /\ kv[s].loadedVersion < MaxVersion
        /\ kv' = [kv EXCEPT ![s] = SaveVersion(f)]
    BY <1>1, <2>2, CommitStoreEffect
  <2>5. kv[s].loadedVersion = headVersion
    BY <1>1, <2>3 DEF StoresInStep
  <2>6. f.tree = ChainTree(s, headVersion + 1)
    BY <1>1, <2>3, <2>4, <2>5, FlushedChain DEF ChainInv, Uncommitted, ABCIRuns
  <2>7. f \in KV /\ f.txCache = EmptyCache /\ f.loadedVersion = headVersion
    BY <2>4, <2>5, FlushedType
  <2> HIDE DEF f
  <2>8. /\ SaveVersion(f).tree = f.tree /\ SaveVersion(f).txCache = EmptyCache
        /\ SaveVersion(f).loadedVersion = headVersion + 1
    BY <2>7 DEF SaveVersion, NextVersion, KV
  <2>9. /\ kv'[s].tree = ChainTree(s, kv'[s].loadedVersion)
        /\ kv'[s].txCache = EmptyCache
    BY <1>1, <2>4, <2>6, <2>8 DEF StoreInv, TypeOK
  <2>10. \A t \in Store : t # s => kv'[t] = kv[t]
    BY <1>1, <2>4 DEF StoreInv, TypeOK
  <2>11. QED BY <1>1, <2>3, <2>9, <2>10 DEF ChainInv, Uncommitted, ABCIRuns
<1>7. CASE CommitReleasesLock
  <2>1. /\ mode = "committing" /\ uncommitted = {} /\ kv' = kv
        /\ headVersion' = headVersion + 1 /\ abci' = "idle"
    BY <1>7 DEF CommitReleasesLock, FinishCommit
  <2>2. \A s \in Store : kv[s].blockCache = EmptyCache
    BY <1>1, <2>1 DEF BlockInv
  <2>3. \A s \in Store : Genesis(s, headVersion') = EmptyCache
    BY <1>2, <2>1 DEF Genesis
  <2>4. QED BY <1>1, <2>1, <2>2, <2>3 DEF ChainInv, Uncommitted, ABCIRuns
<1>8. CASE RestartApp
  <2>1. \A s \in Store : /\ kv'[s].tree = kv[s].tree
                         /\ kv'[s].loadedVersion = kv[s].loadedVersion
                         /\ kv'[s].txCache = EmptyCache
                         /\ kv'[s].blockCache = EmptyCache
    BY <1>1, <1>8 DEF RestartApp, Restart, Reopen, Opened, TreeIsLatestSaved
  <2>2. \A s \in Store : Uncommitted(s)' = EmptyCache
    BY <1>8 DEF RestartApp, StartAgain, Uncommitted, Genesis
  <2>3. QED BY <1>1, <2>1, <2>2 DEF ChainInv
<1>9. CASE IncrementBlockHeight \/ ServingStep
  BY <1>1, <1>9, ServingKeeps
     DEF IncrementBlockHeight, vars, ChainInv, Uncommitted, ABCIRuns
<1>10. CASE ABCIPanics
  BY <1>1, <1>10, PanicsKeep DEF vars, ChainInv, ABCIRuns
<1>11. QED BY <1>3, <1>4, <1>5, <1>6, <1>7, <1>8, <1>9, <1>10, AheadSteps

\* The P2P thread holds the lock: the stores and the head stay as they are.
LEMMA HeadLoadedStep ==
  ASSUME AheadInv, [AheadNext]_appVars
  PROVE  HeadLoadedInv'
<1>1. /\ NumbersInv /\ LockInv /\ ThreadTypeOK /\ HeadLoadedInv
      /\ StoresInStep /\ TreeIsLatestSaved
      /\ \A s \in Store : roots[s] \in Roots /\ HasLatest(roots[s])
      /\ headVersion \in Nat
  BY MaxVersionAssumption
     DEF AheadInv, AppInv, BlockInv, CrashInv, StoreInv, TypeOK, Version
<1>2. CASE p2p' # "load" \/ ServeTakesLock
  BY <1>2 DEF HeadLoadedInv, ServeTakesLock, NothingLoaded
<1>3. ASSUME p2p' = "load", ~ServeTakesLock
      PROVE  HeadLoadedInv'
  <2>1. p2p = "load"
    BY <1>3, AheadSteps, PanicsKeep
       DEF InitChain, DeliverTx, CommitTakesLock, CommitWritesStore, CommitReleasesLock,
           RestartApp, StartAgain, IncrementBlockHeight, ServingStep, Sync,
           ReceiveVersion, LoadStore, LoadStorePanics, PublishState, PublishPanics,
           LockPanics, threads
  <2>2. mode = "running"
    BY <1>1, <2>1 DEF LockInv
  <2>3. UNCHANGED <<roots, headVersion>>
    BY <1>3, <2>1, <2>2, AheadSteps, ServingKeeps, PanicsKeep
       DEF InitChain, DeliverTx, LockIsFree, CommitTakesLock, CommitWritesStore,
           StoreCommits, CommitStore, CommitStorePanics, CommitReleasesLock,
           FinishCommit, RestartApp, StartAgain, IncrementBlockHeight, vars
  <2>4. CASE loaded' = loaded
    BY <1>1, <2>1, <2>3, <2>4 DEF HeadLoadedInv
  <2>5. ASSUME NEW s \in Store, LoadStore(s)
        PROVE  HeadLoadedInv'
    <3>1. /\ height \in SavedVersions(roots[s])
          /\ loaded' = [loaded EXCEPT ![s] = roots[s][height]]
      BY <2>5 DEF LoadStore, CanLoadAllNodes
    <3>2. LatestVersion(roots[s]) = headVersion
      BY <1>1, <2>2 DEF StoresInStep, TreeIsLatestSaved
    <3>3. height <= headVersion
      BY <1>1, <3>1, <3>2, LatestVersionIsGreatest
    <3>4. height = headVersion
      BY <1>1, <3>3 DEF NumbersInv
    <3>5. loaded \in [Store -> Tree \cup {None}]
      BY <1>1 DEF ThreadTypeOK, States
    <3>6. QED BY <1>1, <2>1, <2>3, <3>1, <3>4, <3>5 DEF HeadLoadedInv
  <2>6. QED
    BY <1>3, <2>1, <2>2, <2>4, <2>5, AheadSteps, PanicsKeep
       DEF InitChain, DeliverTx, LockIsFree, CommitTakesLock, CommitWritesStore,
           CommitReleasesLock, RestartApp, StartAgain, IncrementBlockHeight,
           ServingStep, Sync, ReceiveVersion, LoadStorePanics, PublishState,
           PublishPanics, LockPanics, threads
<1>4. QED BY <1>2, <1>3

LEMMA SentBlockStep ==
  ASSUME AheadInv, [AheadNext]_appVars
  PROVE  SentInv'
<1>1. /\ AppInv /\ NumbersInv /\ HeadLoadedInv /\ SentInv
      /\ headVersion \in Version /\ headVersion \in Nat
  BY MaxVersionAssumption DEF AheadInv, AppInv, StoreInv, TypeOK, Version
<1>2. \A s \in Store, v \in Version : roots[s][v] # None => roots'[s][v] = roots[s][v]
  BY <1>1, AheadIsApp, VersionsAreKept
<1>3. CASE sent' = sent
  <2>1. CASE sent = None
    BY <1>3, <2>1 DEF SentInv
  <2>2. CASE sent # None
    <3>1. PICK v \in Version :
            /\ \A s \in Store : roots[s][v] # None /\ sent.states[s] = roots[s][v]
            /\ sent.height \in {v, v + 1}
      BY <1>1, <2>2 DEF SentInv
    <3>2. \A s \in Store : roots'[s][v] = roots[s][v]
      BY <1>2, <3>1
    <3>3. QED BY <1>3, <3>1, <3>2 DEF SentInv
  <2>3. QED BY <2>1, <2>2
<1>4. CASE sent' = None
  BY <1>4 DEF SentInv
<1>5. CASE PublishState
  <2>1. /\ p2p = "load" /\ \A s \in Store : loaded[s] # None
        /\ sent'.states = loaded /\ sent'.height = height
    BY <1>5 DEF PublishState
  <2>2. \A s \in Store : loaded[s] = roots[s][headVersion] /\ roots[s][headVersion] # None
    BY <1>1, <2>1 DEF HeadLoadedInv
  <2>3. \A s \in Store : roots'[s][headVersion] = roots[s][headVersion]
    BY <1>1, <1>2, <2>2
  <2>4. height \in {headVersion, headVersion + 1}
    BY <1>1 DEF NumbersInv
  <2>5. QED BY <1>1, <2>1, <2>2, <2>3, <2>4 DEF SentInv
<1>6. QED
  BY <1>3, <1>4, <1>5, AheadSteps, PanicsKeep
     DEF InitChain, DeliverTx, CommitTakesLock, CommitWritesStore, CommitReleasesLock,
         RestartApp, StartAgain, IncrementBlockHeight, ServingStep, Sync,
         ReceiveVersion, ServeTakesLock, LoadStore, LoadStorePanics, PublishPanics,
         LockPanics, threads

LEMMA AheadInvStep == AheadInv /\ [AheadNext]_appVars => AheadInv'
<1>1. AheadInv /\ [AheadNext]_appVars => AppInv'
  BY AheadIsApp, AppInvStep DEF AheadInv
<1>2. QED
  BY <1>1, BlocksStep, NumbersStep, ChainInvStep, HeadLoadedStep, SentBlockStep
     DEF AheadInv

-----------------------------------------------------------------------------

\* Between two blocks the stores hold what the chain holds at the height the
\* node reports, for every chain and after any number of restarts.
THEOREM StateStaysTheChains == AheadSpec => []StateIsTheChains
<1>1. AheadInv => StateIsTheChains
  <2> SUFFICES ASSUME AheadInv, mode = "running", abci = "idle"
               PROVE  /\ height = headVersion /\ block = height + 1
                      /\ \A s \in Store : kv[s].tree = ChainTree(s, height)
    BY DEF StateIsTheChains
  <2>1. headVersion \in Nat
    BY MaxVersionAssumption DEF AheadInv, AppInv, StoreInv, TypeOK, Version
  <2>2. height = headVersion /\ block = headVersion + 1
    BY <2>1 DEF AheadInv, NumbersInv
  <2>3. \A s \in Store : kv[s].loadedVersion = headVersion
    BY DEF AheadInv, BlockInv, StoresInStep
  <2>4. QED BY <2>2, <2>3 DEF AheadInv, ChainInv
<1>2. QED BY <1>1, AheadInvInit, AheadInvStep, PTL DEF AheadSpec

\* The trees of a State message are one block's, although the height is read
\* once per store while the ABCI thread may increment it.
THEOREM SentStatesStayOneBlock == AheadSpec => []SentStatesAreOneBlock
<1>1. AheadInv => SentStatesAreOneBlock
  BY DEF AheadInv, SentInv, SentStatesAreOneBlock
<1>2. QED BY <1>1, AheadInvInit, AheadInvStep, PTL DEF AheadSpec

\* The commit of block b makes the head version b.
THEOREM HeadVersionStaysBlockNumber == AheadSpec => []HeadVersionIsBlockNumber
<1>1. AheadInv => HeadVersionIsBlockNumber
  BY DEF AheadInv, NumbersInv, HeadVersionIsBlockNumber
<1>2. QED BY <1>1, AheadInvInit, AheadInvStep, PTL DEF AheadSpec

=============================================================================
