------------------------------ MODULE BaseApp ------------------------------
(***************************************************************************)
(* The threads of a node around its multi store                            *)
(* (gears/src/baseapp/baseapp.rs, struct BaseApp).                         *)
(*                                                                         *)
(* The ABCI thread executes the blocks of the consensus engine and commits *)
(* them.  The P2P thread, which is the process's main thread, answers the  *)
(* Version messages of peers that are behind and installs the State        *)
(* messages of peers that are ahead.  They share the multi store, behind   *)
(* one RwLock, and the height, behind another that is never held across a  *)
(* statement.                                                              *)
(*                                                                         *)
(* The engine and the peers are external.  The engine numbers its blocks   *)
(* and resumes after the height the application reports; Writes[b] is what *)
(* block b writes (block 0 is the genesis).                                *)
(*                                                                         *)
(* It is assumed of the peers that a State message labelled v has the      *)
(* chain's trees of block v.  A peer running this code may label them      *)
(* v + 1 (PublishState): what a node does with such a message is not       *)
(* covered.                                                                *)
(***************************************************************************)
EXTENDS MultiStore

CONSTANTS
  Writes   \* what every block writes into every store

ASSUME WritesAssumption == Writes \in [Version -> [Store -> Cache]]

VARIABLES
  height,      \* BaseApp.height
  block,       \* the number of the block the engine delivers next
  abci,        \* where the ABCI thread is in that block
  p2p,         \* where the P2P thread is in its message
  incoming,    \* the height of the State message being installed
  loaded,      \* the trees collected for the State message being sent
  sent,        \* the last State message published
  advertised,  \* the lowest height this process has published
  peerId       \* PEER_ID, drawn anew by every process

threads == <<height, block, abci, p2p, incoming, loaded, sent, advertised>>

appVars == <<vars, threads, peerId>>

\* A panic ends the ABCI thread: "stopped", or "panicked" with the lock held.
ABCI == {"genesis", "idle", "delivered", "commit", "stopped", "panicked"}

P2P == {"idle", "serve", "load", "install", "installed", "stopped"}

States == [Store -> Tree \cup {None}]

AppTypeOK ==
  /\ TypeOK
  /\ height \in 0..(MaxVersion + 1)
  /\ block \in 1..(MaxVersion + 1)
  /\ abci \in ABCI
  /\ p2p \in P2P
  /\ incoming \in Version
  /\ loaded \in States
  /\ sent \in [states: States, height: 0..(MaxVersion + 1)] \cup {None}
  /\ advertised \in Version \cup {None}
  /\ peerId \in {0, 1}

\* The RwLock around the multi store is poisoned: by the unwrap of a commit's
\* save_version, or by any other panic of the ABCI thread under the lock.
Poisoned == mode = "poisoned" \/ abci = "panicked"

\* A wrong LockIsFree: the lock is not held while the stores are read.
LockIsFreeWhileLoading == mode = "running" /\ ~Poisoned /\ p2p # "installed"

\* The write guard of the RwLock can be taken.
LockIsFree == mode = "running" /\ ~Poisoned /\ p2p \notin {"load", "installed"}

\* A panic of the P2P thread ends the process.
Alive == p2p # "stopped"

NothingLoaded == [s \in Store |-> None]

AppInit ==
  /\ Init
  /\ height = 0
  /\ block = 1
  /\ abci = "genesis"
  /\ p2p = "idle"
  /\ incoming = 0
  /\ loaded = NothingLoaded
  /\ sent = None
  /\ advertised = None
  /\ peerId = 0

-----------------------------------------------------------------------------
(* The chain, as the engine and correct peers have it.                     *)

WritersOf(s, k, v) == {b \in 0..v : Writes[b][s][k] # None}

LastWriterOf(s, k, v) ==
  CHOOSE b \in WritersOf(s, k, v) : \A c \in WritersOf(s, k, v) : c <= b

\* The tree of a store after block v.  The genesis is committed with block 1.
ChainTree(s, v) ==
  [k \in Key |->
     IF v = 0 \/ WritersOf(s, k, v) = {}
     THEN None
     ELSE LET b == LastWriterOf(s, k, v) IN
            [value |-> Writes[b][s][k], version |-> IF b = 0 THEN 1 ELSE b]]

ChainState(v) == [s \in Store |-> ChainTree(s, v)]

-----------------------------------------------------------------------------
(* The ABCI thread.                                                        *)

\* The writes of transactions that succeed, kept in the block caches.
Executed(writes) ==
  [s \in Store |->
     WriteThenClearTxCache(
       [kv[s] EXCEPT !.txCache = Overlay(writes[s], kv[s].txCache)])]

InitChain ==
  /\ Alive /\ abci = "genesis" /\ LockIsFree
  /\ kv' = Executed(Writes[0])
  /\ abci' = "idle"
  /\ UNCHANGED <<roots, headVersion, headHash, mode, uncommitted>>
  /\ UNCHANGED <<height, block, p2p, incoming, loaded, sent, advertised>>

\* begin_block, and the transactions of the block in one deliver_tx.
DeliverTx ==
  /\ Alive /\ abci = "idle" /\ LockIsFree
  \* the bound on the blocks
  /\ block <= MaxVersion
  /\ kv' = Executed(Writes[block])
  /\ abci' = "delivered"
  /\ UNCHANGED <<roots, headVersion, headHash, mode, uncommitted>>
  /\ UNCHANGED <<height, block, p2p, incoming, loaded, sent, advertised>>

\* In the place of DeliverTx, from_bytes panics: a message of the transaction is
\* decoded with an unwrap, before run_tx takes the lock ...
DecodeTxPanics ==
  /\ Alive /\ abci = "idle"
  /\ block <= MaxVersion
  /\ abci' = "stopped"
  /\ UNCHANGED vars
  /\ UNCHANGED <<height, block, p2p, incoming, loaded, sent, advertised>>

\* ... or run_tx panics with the lock held (TxPipeline's VerifySignatures).
\* What the block has left in the caches is read by nobody any more.
RunTxPanics ==
  /\ Alive /\ abci = "idle" /\ LockIsFree
  /\ block <= MaxVersion
  /\ abci' = "panicked"
  /\ UNCHANGED vars
  /\ UNCHANGED <<height, block, p2p, incoming, loaded, sent, advertised>>

\* The first statement of commit; the lock is taken afterwards.
IncrementBlockHeight ==
  /\ Alive /\ abci = "delivered" /\ mode = "running"
  \* the bound on the height
  /\ height <= MaxVersion
  /\ height' = height + 1
  /\ abci' = "commit"
  /\ UNCHANGED vars
  /\ UNCHANGED <<block, p2p, incoming, loaded, sent, advertised>>

CommitTakesLock ==
  /\ Alive /\ abci = "commit" /\ LockIsFree
  /\ BeginCommit
  /\ UNCHANGED threads

CommitWritesStore(s) ==
  /\ Alive /\ abci = "commit"
  /\ StoreCommits(s)
  /\ UNCHANGED threads

\* Tree::set panics in the flush of a store (IAVL's left_rotate and
\* right_rotate).  What it leaves half flushed is under a poisoned lock and goes
\* with the process, so the stores are left as they are here.
FlushPanics(s) ==
  /\ Alive /\ abci = "commit"
  /\ mode = "committing" /\ s \in uncommitted
  /\ abci' = "panicked"
  /\ UNCHANGED vars
  /\ UNCHANGED <<height, block, p2p, incoming, loaded, sent, advertised>>

CommitReleasesLock ==
  /\ Alive /\ abci = "commit"
  /\ FinishCommit
  /\ block' = block + 1
  /\ abci' = "idle"
  /\ UNCHANGED <<height, p2p, incoming, loaded, sent, advertised>>

-----------------------------------------------------------------------------
(* The P2P thread.                                                         *)

\* BaseApp::sync.  Only the lowest height matters to what peers may send.
Sync ==
  /\ p2p = "idle"
  \* the bound on the height
  /\ height <= MaxVersion
  /\ advertised' = IF advertised = None \/ height < advertised
                   THEN height ELSE advertised
  /\ UNCHANGED <<vars, height, block, abci, p2p, incoming, loaded, sent>>

\* process_version_msg: the height is compared before the lock is taken ...
ReceiveVersion(best) ==
  /\ p2p = "idle"
  /\ height > best
  /\ p2p' = "serve"
  /\ UNCHANGED <<vars, height, block, abci, incoming, loaded, sent, advertised>>

ServeTakesLock ==
  /\ p2p = "serve" /\ LockIsFree
  /\ p2p' = "load"
  /\ loaded' = NothingLoaded
  /\ UNCHANGED <<vars, height, block, abci, incoming, sent, advertised>>

\* A wrong LoadStore: the tree in memory.
LoadWorkingTree(s) ==
  /\ p2p = "load"
  /\ loaded[s] = None
  /\ loaded' = [loaded EXCEPT ![s] = kv[s].tree]
  /\ UNCHANGED <<vars, height, block, abci, p2p, incoming, sent, advertised>>

\* ... and read again for every store ...
LoadStore(s) ==
  /\ p2p = "load"
  /\ loaded[s] = None
  /\ height \in Version /\ CanLoadAllNodes(roots[s], height)
  /\ loaded' = [loaded EXCEPT ![s] = roots[s][height]]
  /\ UNCHANGED <<vars, height, block, abci, p2p, incoming, sent, advertised>>

LoadStorePanics(s) ==
  /\ p2p = "load"
  /\ loaded[s] = None
  /\ ~(height \in Version /\ CanLoadAllNodes(roots[s], height))
  /\ p2p' = "stopped"
  /\ UNCHANGED <<vars, height, block, abci, incoming, loaded, sent, advertised>>

\* A wrong PublishState: it waits for the commit with the lock held.
PublishStateAfterCommit ==
  /\ p2p = "load"
  /\ \A s \in Store : loaded[s] # None
  /\ abci # "commit"
  /\ sent' = [states |-> loaded, height |-> height]
  /\ loaded' = NothingLoaded
  /\ p2p' = "idle"
  /\ UNCHANGED <<vars, height, block, abci, incoming, advertised>>

\* ... and once more for the message.
PublishState ==
  /\ p2p = "load"
  /\ \A s \in Store : loaded[s] # None
  /\ sent' = [states |-> loaded, height |-> height]
  /\ loaded' = NothingLoaded
  /\ p2p' = "idle"
  /\ UNCHANGED <<vars, height, block, abci, incoming, advertised>>

\* gossipsub refuses the message (a duplicate, or no peer in the mesh): unwrap.
PublishPanics ==
  /\ p2p = "load"
  /\ \A s \in Store : loaded[s] # None
  /\ p2p' = "stopped"
  /\ UNCHANGED <<vars, height, block, abci, incoming, loaded, sent, advertised>>

\* The P2P thread finds the lock poisoned: expect.
LockPanics ==
  /\ p2p \in {"serve", "install"} /\ Poisoned
  /\ p2p' = "stopped"
  /\ UNCHANGED <<vars, height, block, abci, incoming, loaded, sent, advertised>>

\* A wrong ReceiveState: the height is moved before the state.
ReceiveStateHeightFirst(v) ==
  /\ p2p = "idle"
  /\ advertised # None /\ advertised < v
  /\ height < v
  /\ p2p' = "install"
  /\ incoming' = v
  /\ height' = v
  /\ UNCHANGED <<vars, block, abci, loaded, sent, advertised>>

\* process_state_msg: a peer that saw this process at a lower height sends
\* the state of height v, labelled v, late by any number of blocks.
ReceiveState(v) ==
  /\ p2p = "idle"
  /\ advertised # None /\ advertised < v
  /\ height < v
  /\ p2p' = "install"
  /\ incoming' = v
  /\ UNCHANGED <<vars, height, block, abci, loaded, sent, advertised>>

InstallTakesLock ==
  /\ p2p = "install" /\ LockIsFree
  /\ Install(ChainState(incoming), incoming)
  /\ p2p' = "installed"
  /\ UNCHANGED <<height, block, abci, incoming, loaded, sent, advertised>>

UpdateBlockHeight ==
  /\ p2p = "installed"
  /\ height' = incoming
  /\ p2p' = "idle"
  /\ incoming' = 0
  /\ UNCHANGED <<vars, block, abci, loaded, sent, advertised>>

-----------------------------------------------------------------------------
(* Restart of the process, after a crash or a panic: BaseApp::new, and the *)
(* engine resumes after the height the application reports.  The peer id   *)
(* is new, so no message for the old process is accepted.                  *)

\* A wrong StartAgain: BaseApp::new starts at height 0 and info says so.
StartAgainAtZero ==
  /\ peerId' = 1 - peerId
  /\ height' = 0
  /\ block' = 1
  /\ abci' = "genesis"
  /\ p2p' = "idle"
  /\ incoming' = 0
  /\ loaded' = NothingLoaded
  /\ sent' = None
  /\ advertised' = None

StartAgain ==
  /\ peerId' = 1 - peerId
  /\ height' = headVersion'
  /\ block' = headVersion' + 1
  /\ abci' = IF headVersion' = 0 THEN "genesis" ELSE "idle"
  /\ p2p' = "idle"
  /\ incoming' = 0
  /\ loaded' = NothingLoaded
  /\ sent' = None
  /\ advertised' = None

RestartApp == Restart /\ StartAgain

RestartAppInCommit == RestartInCommit /\ StartAgain

-----------------------------------------------------------------------------

ABCIStep ==
  \/ InitChain
  \/ DeliverTx
  \/ IncrementBlockHeight
  \/ CommitTakesLock
  \/ \E s \in Store : CommitWritesStore(s)
  \/ CommitReleasesLock

ABCIPanics == DecodeTxPanics \/ RunTxPanics \/ \E s \in Store : FlushPanics(s)

ServeStep ==
  \/ ServeTakesLock
  \/ \E s \in Store : LoadStore(s) \/ LoadStorePanics(s)
  \/ PublishState

InstallStep == InstallTakesLock \/ UpdateBlockHeight

\* A node no peer is ahead of, stopped only between commits, whose ABCI thread
\* does not panic ...
NodeNext ==
  \/ ABCIStep /\ UNCHANGED peerId
  \/ Sync /\ UNCHANGED peerId
  \/ \E best \in Version : ReceiveVersion(best) /\ UNCHANGED peerId
  \/ ServeStep /\ UNCHANGED peerId
  \/ PublishPanics /\ UNCHANGED peerId
  \/ RestartApp

PanicStep == (ABCIPanics \/ LockPanics) /\ UNCHANGED peerId

PeerStep ==
  \/ \E v \in Version : ReceiveState(v) /\ UNCHANGED peerId
  \/ InstallStep /\ UNCHANGED peerId

\* ... one that may panic ...
AheadNext == NodeNext \/ PanicStep

\* ... one whose peers may be ahead, and that only save_version poisons ...
PeersNext ==
  \/ NodeNext
  \/ PeerStep
  \/ LockPanics /\ UNCHANGED peerId

\* ... and one that does it all and is stopped anywhere.
AppNext == AheadNext \/ PeerStep \/ RestartAppInCommit

PeersSpec == AppInit /\ [][PeersNext]_appVars

AppSpec == AppInit /\ [][AppNext]_appVars

\* Threads that can run do, and a lock that is released again and again is
\* taken: the P2P thread holds it within one message and then waits for the
\* next.
Fairness ==
  /\ WF_appVars(ABCIStep /\ UNCHANGED peerId)
  /\ SF_appVars(CommitTakesLock /\ UNCHANGED peerId)
  /\ SF_appVars(DeliverTx /\ UNCHANGED peerId)
  /\ SF_appVars(InitChain /\ UNCHANGED peerId)
  /\ WF_appVars(ServeStep /\ UNCHANGED peerId)

AheadSpec == AppInit /\ [][AheadNext]_appVars /\ Fairness

-----------------------------------------------------------------------------
(* Properties.                                                             *)

\* Whatever the threads, the peers and crashes do, the node never claims a
\* height it does not have, except by the one block its commit is waiting to
\* write.  (process_state_msg moves the head first and the height after it.)
HeightNotAhead ==
  p2p # "installed" =>
    height <= headVersion + (IF abci = "commit" \/ mode = "committing" THEN 1 ELSE 0)

\* Every tree of a State message is a saved version of its store, that of the
\* height the message states or of the one before, whatever commits, crashes
\* and installed states came before.
SentTreesAreSaved ==
  sent # None =>
    \A s \in Store :
      \E v \in SavedVersions(roots[s]) :
        /\ sent.states[s] = roots[s][v]
        /\ sent.height \in {v, v + 1}

\* A State message carries the trees of one block, although its height is read
\* once per store and once more for the message while commit may increment
\* it.  The height the message states may be the next one.
SentStatesAreOneBlock ==
  sent # None =>
    \E v \in Version :
      /\ \A s \in Store : sent.states[s] = roots[s][v]
      /\ sent.height \in {v, v + 1}

\* A node no peer is ahead of has executed exactly the chain's blocks: between
\* two blocks its stores hold what the chain holds at the height it reports.
StateIsTheChains ==
  mode = "running" /\ abci = "idle" =>
    /\ height = headVersion
    /\ block = height + 1
    /\ \A s \in Store : kv[s].tree = ChainTree(s, height)

\* A process that goes on running, both of its threads, commits every block:
\* after any number of restarts before it and however often the P2P thread
\* takes the lock.  It goes on unless a transaction or the flush of a commit
\* panics (DecodeTxPanics, RunTxPanics, FlushPanics), which leaves a process
\* that runs and commits nothing.
ABCIRuns == abci \notin {"stopped", "panicked"}

BlocksAreCommitted ==
  (\E id \in {0, 1} : <>[](peerId = id /\ Alive /\ ABCIRuns)) =>
    \A b \in 1..MaxVersion : <>[](headVersion >= b)

\* What the messages of the expects say (gears/src/baseapp/baseapp.rs:239):
\* "RwLock will not be poisoned".
LockIsNeverPoisoned == ~Poisoned

\* On a node no peer is ahead of, the head version is the block number, as a
\* comment says of it (store/src/store.rs:25): the commit of block b makes the
\* head version b, restarts and the P2P thread notwithstanding.  A peer's state
\* installed while a block is executed breaks it.
HeadVersionIsBlockNumber ==
  mode = "committing" => headVersion + 1 = block

=============================================================================
