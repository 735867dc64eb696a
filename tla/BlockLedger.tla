---------------------------- MODULE BlockLedger ----------------------------
(***************************************************************************)
(* What the stores of an application promise together: a ledger of blocks. *)
(* Transactions write into a block; a transaction is kept whole or dropped *)
(* whole; Commit makes the block the next version of all stores at once;   *)
(* a version never changes; a restart loses the open block and nothing     *)
(* else.                                                                   *)
(***************************************************************************)
EXTENDS Naturals

CONSTANTS Store, Key, Value, MaxVersion, None

VARIABLES
  version,   \* the last committed version
  history,   \* history[v]: what every store held when v was committed
  block,     \* what the stores hold with the transactions kept so far
  tx         \* the same, with the writes of the open transaction

ledgerVars == <<version, history, block, tx>>

View == [Store -> [Key -> Value \cup {None}]]

EmptyView == [s \in Store |-> [k \in Key |-> None]]

Committed == IF version = 0 THEN EmptyView ELSE history[version]

Init ==
  /\ version = 0
  /\ history = [v \in 1..0 |-> EmptyView]
  /\ block = EmptyView
  /\ tx = EmptyView

Write(s, k, val) ==
  /\ tx' = [tx EXCEPT ![s][k] = val]
  /\ UNCHANGED <<version, history, block>>

KeepTx ==
  /\ block' = tx
  /\ UNCHANGED <<version, history, tx>>

DropTx ==
  /\ tx' = block
  /\ UNCHANGED <<version, history, block>>

\* The open transaction is kept by a commit.
Commit ==
  /\ version < MaxVersion
  /\ version' = version + 1
  /\ history' = [v \in 1..(version + 1) |->
                   IF v = version + 1 THEN tx ELSE history[v]]
  /\ block' = tx
  /\ tx' = tx

Restart ==
  /\ block' = Committed
  /\ tx' = Committed
  /\ UNCHANGED <<version, history>>

Next ==
  \/ \E s \in Store, k \in Key, val \in Value : Write(s, k, val)
  \/ KeepTx
  \/ DropTx
  \/ Commit
  \/ Restart

Spec == Init /\ [][Next]_ledgerVars

=============================================================================
