-------------------------------- MODULE IAVL --------------------------------
(***************************************************************************)
(* The tree behind a store (trees/src/iavl/tree.rs, struct Tree) and the   *)
(* database of its nodes (trees/src/iavl/node_db.rs, struct NodeDB).       *)
(*                                                                         *)
(* An inner node holds the hashes of its children and may or may not hold  *)
(* the children themselves: NoNode means the child is in the database      *)
(* under its hash.  A hash is what it is computed from (hashes do not      *)
(* collide); an inner node's key is not.  The expects of the code end an   *)
(* operation with a panic, which leaves a tree nothing can be done with.   *)
(*                                                                         *)
(* A store flushes its block cache in key order, so within one version the *)
(* keys are set in ascending order.                                        *)
(*                                                                         *)
(* The recursions of the code are functions of the depth: a tree over the  *)
(* keys 1..MaxKey has no node MaxKey levels below its root.                *)
(***************************************************************************)
EXTENDS Integers, Sequences

CONSTANTS
  MaxKey,     \* keys are 1..MaxKey, in the order of the byte strings
  Value,
  MaxVersion  \* bounds the versions saved

ASSUME MaxKeyAssumption == MaxKey \in Nat \ {0}

ASSUME MaxVersionAssumption == MaxVersion \in Nat

Key == 1..MaxKey

Depth == 0..MaxKey

VARIABLES
  root,           \* Tree.root, NoNode for the empty tree
  db,             \* the nodes of the database by their hashes
  roots,          \* the root hashes of the database by their versions
  loadedVersion,  \* Tree.loaded_version
  lastKey,        \* the last key set in this version, 0 if none
  outcome,        \* "ok", or the expect that panicked
  written,        \* what has been set: the leaf of every key, or NoNode
  saved           \* what was written when each version was saved

vars == <<root, db, roots, loadedVersion, lastKey, outcome, written, saved>>

-----------------------------------------------------------------------------
(* Nodes.                                                                  *)

NoNode == [kind |-> "none"]

NewLeaf(key, value, version) ==
  [kind |-> "leaf", key |-> key, value |-> value, version |-> version]

Panic(why) == [kind |-> "panic", why |-> why]

Missing == Panic("invalid data in database")

RotateError == Panic("rotation failed")

IsLeaf(n) == n.kind = "leaf"

IsInner(n) == n.kind = "inner"

IsPanic(n) == n.kind = "panic"

Height(n) == IF IsLeaf(n) THEN 0 ELSE n.height

Size(n) == IF IsLeaf(n) THEN 1 ELSE n.size

Hash(n) ==
  IF IsLeaf(n)
  THEN [height |-> 0, size |-> 1, version |-> n.version,
        key |-> n.key, value |-> n.value]
  ELSE [height |-> n.height, size |-> n.size, version |-> n.version,
        left |-> n.leftHash, right |-> n.rightHash]

\* The root hash of the empty tree.
EmptyHash == [height |-> -1]

\* What serialize keeps of a node and deserialize gives back.
Stored(n) ==
  IF IsLeaf(n) THEN n ELSE [n EXCEPT !.left = NoNode, !.right = NoNode]

GetNode(hash) == IF hash \in DOMAIN db THEN db[hash] ELSE Missing

LeftNode(n) == IF n.left # NoNode THEN n.left ELSE GetNode(n.leftHash)

RightNode(n) == IF n.right # NoNode THEN n.right ELSE GetNode(n.rightHash)

WithLeft(n, child) == [n EXCEPT !.left = child, !.leftHash = Hash(child)]

WithRight(n, child) == [n EXCEPT !.right = child, !.rightHash = Hash(child)]

Max2(a, b) == IF a > b THEN a ELSE b

\* The height and size of an inner node, from those of its children.
Measured(n) ==
  LET l == LeftNode(n)
      r == RightNode(n)
  IN IF IsPanic(l) \/ IsPanic(r) THEN Missing
     ELSE [n EXCEPT !.height = 1 + Max2(Height(l), Height(r)),
                    !.size = Size(l) + Size(r)]

-----------------------------------------------------------------------------
(* Rotations.  z is measured before its hash of the moved child is set, so *)
(* that a child not in memory is looked up under the hash of y.            *)

RightRotate(z, version) ==
  LET y == LeftNode(z)
      m == Measured([z EXCEPT !.left = y.right])
      down == [m EXCEPT !.version = version, !.leftHash = y.rightHash]
  IN IF IsPanic(y) THEN y
     ELSE IF IsLeaf(y) THEN RotateError
     ELSE IF IsPanic(m) THEN m
     ELSE Measured([WithRight(y, down) EXCEPT !.version = version])

\* Mutants of LeftRotate: the hash, or the height and size, of the new root of
\* the subtree are those of before.
LeftRotateKeepsHash(z, version) ==
  LET y == RightNode(z)
      m == Measured([z EXCEPT !.right = y.left])
      down == [m EXCEPT !.version = version, !.rightHash = y.leftHash]
  IN IF IsPanic(y) THEN y
     ELSE IF IsLeaf(y) THEN RotateError
     ELSE IF IsPanic(m) THEN m
     ELSE Measured([y EXCEPT !.left = down, !.version = version])

LeftRotateKeepsMeasure(z, version) ==
  LET y == RightNode(z)
      m == Measured([z EXCEPT !.right = y.left])
      down == [m EXCEPT !.version = version, !.rightHash = y.leftHash]
  IN IF IsPanic(y) THEN y
     ELSE IF IsLeaf(y) THEN RotateError
     ELSE IF IsPanic(m) THEN m
     ELSE [WithLeft(y, down) EXCEPT !.version = version]

LeftRotate(z, version) ==
  LET y == RightNode(z)
      m == Measured([z EXCEPT !.right = y.left])
      down == [m EXCEPT !.version = version, !.rightHash = y.leftHash]
  IN IF IsPanic(y) THEN y
     ELSE IF IsLeaf(y) THEN RotateError
     ELSE IF IsPanic(m) THEN m
     ELSE Measured([WithLeft(y, down) EXCEPT !.version = version])

-----------------------------------------------------------------------------
(* Tree::set.                                                              *)

BalanceFactor(n) == Height(LeftNode(n)) - Height(RightNode(n))

\* A mutant of Rebalanced: a right-heavy node is left as it is.
RebalancedLeftHeavy(n, key, version) ==
  IF BalanceFactor(n) > 1 /\ key < LeftNode(n).key
  THEN RightRotate([n EXCEPT !.left = LeftNode(n)], version)
  ELSE n

\* The four cases.  The second one rotates the node itself and not its left
\* child.
Rebalanced(n, key, version) ==
  LET l == LeftNode(n)
      r == RightNode(n)
      loadedLeft == [n EXCEPT !.left = l]
      loadedRight == [n EXCEPT !.right = r]
      left == LeftRotate(loadedLeft, version)
      right == RightRotate(r, version)
  IN IF BalanceFactor(n) > 1
     THEN IF key < l.key THEN RightRotate(loadedLeft, version)
          ELSE IF IsPanic(left) THEN left ELSE RightRotate(left, version)
     ELSE IF BalanceFactor(n) < -1
     THEN IF key > r.key THEN LeftRotate(loadedRight, version)
          ELSE IF IsPanic(right) THEN right
          ELSE LeftRotate([loadedRight EXCEPT !.right = right], version)
     ELSE n

\* A mutant of Pair: the parent gets the key of its left leaf.
PairKeyedLeft(left, right, version) ==
  [kind |-> "inner", key |-> left.key, height |-> 1, size |-> 2,
   version |-> version, left |-> left, right |-> right,
   leftHash |-> Hash(left), rightHash |-> Hash(right)]

Pair(left, right, version) ==
  [kind |-> "inner", key |-> right.key, height |-> 1, size |-> 2,
   version |-> version, left |-> left, right |-> right,
   leftHash |-> Hash(left), rightHash |-> Hash(right)]

\* A set that ends at the leaf n.
SetLeaf(n, leaf, version) ==
  IF leaf.key < n.key THEN Pair(leaf, n, version)
  ELSE IF leaf.key = n.key THEN leaf
  ELSE Pair(n, leaf, version)

\* The inner node n after a set has made child of its child, or a panic.
SetChild(n, child, key, version) ==
  LET m == Measured(IF key < n.key THEN WithLeft(n, child)
                                   ELSE WithRight(n, child))
  IN IF IsPanic(child) THEN child
     ELSE IF IsPanic(m) THEN m
     ELSE [m EXCEPT !.version = version]

\* The node that set and get go to from n.
Toward(n, key) ==
  IF ~IsInner(n) THEN n
  ELSE IF key < n.key THEN LeftNode(n) ELSE RightNode(n)

\* The nodes that set and get visit for a key, by their depth.
Path(n, key) ==
  LET node[depth \in Depth] ==
        IF depth = 0 THEN n ELSE Toward(node[depth - 1], key)
  IN node

\* The inner node n after a set has made child of its child.
SetInner(n, child, key, version) ==
  LET x == SetChild(n, child, key, version) IN
  IF IsPanic(x) THEN x ELSE Rebalanced(x, key, version)

\* set[i] is what recursive_set makes of the node i levels above the deepest
\* one that a path can have.
SetAbove(n, key, value, version) ==
  LET path == Path(n, key)
      set[i \in Depth] ==
        LET m == path[MaxKey - i] IN
        IF IsLeaf(m) THEN SetLeaf(m, NewLeaf(key, value, version), version)
        ELSE IF IsPanic(m) \/ i = 0 THEN m
        ELSE SetInner(m, set[i - 1], key, version)
  IN set

RecursiveSet(n, key, value, version) ==
  SetAbove(n, key, value, version)[MaxKey]

-----------------------------------------------------------------------------
(* Reading.                                                                *)

RecursiveGet(n, key) ==
  LET last == Path(n, key)[MaxKey] IN
  IF IsLeaf(last) /\ last.key # key THEN NoNode ELSE last

Get(n, key) == IF n = NoNode THEN NoNode ELSE RecursiveGet(n, key)

\* A bound of a range: of kind "included", "excluded" or "unbounded".
AfterStart(key, start) == start.kind = "unbounded" \/ key > start.key

\* A mutant of BeforeEnd: the bound of an inclusive range is left out.
BeforeEndStrictly(key, end) == end.kind = "unbounded" \/ key < end.key

BeforeEnd(key, end) ==
  \/ end.kind = "unbounded"
  \/ end.kind = "included" /\ key <= end.key
  \/ end.kind = "excluded" /\ key < end.key

\* RangeBounds::contains.
InRange(key, start, end) ==
  /\ start.kind = "included" => key >= start.key
  /\ start.kind = "excluded" => key > start.key
  /\ end.kind = "included" => key <= end.key
  /\ end.kind = "excluded" => key < end.key

\* Range::traverse for the last of the delayed nodes: the right child of an
\* inner node is delayed, then the left one.
Traverse(state, start, end) ==
  LET delayed == state.delayed
      n == delayed[Len(delayed)]
      rest == SubSeq(delayed, 1, Len(delayed) - 1)
      right == IF BeforeEnd(n.key, end) THEN <<RightNode(n)>> ELSE <<>>
      left == IF AfterStart(n.key, start) THEN <<LeftNode(n)>> ELSE <<>>
  IN IF delayed = <<>> THEN state
     ELSE IF IsInner(n)
     THEN [state EXCEPT !.delayed = rest \o right \o left]
     ELSE [delayed |-> rest,
           found |-> IF IsPanic(n) \/ InRange(n.key, start, end)
                     THEN Append(state.found, n) ELSE state.found]

\* The leaves the iterator yields.  Every step takes one node of the tree, of
\* which there are fewer than 2 * MaxKey.
RangeOf(n, start, end) ==
  LET after[steps \in 0 .. 2 * MaxKey] ==
        IF steps = 0
        THEN [delayed |-> IF n = NoNode THEN <<>> ELSE <<n>>, found |-> <<>>]
        ELSE Traverse(after[steps - 1], start, end)
  IN after[2 * MaxKey].found

-----------------------------------------------------------------------------
(* Saving.                                                                 *)

\* A mutant of InMemory: the right children are not saved.
InMemoryLeft(n) ==
  {c \in {IF IsInner(n) THEN <<n.leftHash, n.left>> ELSE <<EmptyHash, NoNode>>} :
     c[2] # NoNode}

\* The children of n that are in memory, each with the hash n has for it.
InMemory(n) ==
  {c \in IF IsInner(n) THEN {<<n.leftHash, n.left>>, <<n.rightHash, n.right>>}
                       ELSE {} :
     c[2] # NoNode}

\* NodeDB::recursive_tree_save: the nodes in memory, each under the hash its
\* parent has for it.
SavedNodes(n) ==
  LET level[depth \in Depth] ==
        IF depth = 0 THEN {<<Hash(n), n>>}
        ELSE UNION {InMemory(c[2]) : c \in level[depth - 1]}
  IN UNION {level[depth] : depth \in Depth}

\* The database after a save.
WithNodes(nodes) ==
  [hash \in DOMAIN db \cup {c[1] : c \in nodes} |->
     IF \E c \in nodes : c[1] = hash
     THEN Stored((CHOOSE c \in nodes : c[1] = hash)[2])
     ELSE db[hash]]

-----------------------------------------------------------------------------

NothingWritten == [k \in Key |-> NoNode]

Init ==
  /\ root = NoNode
  /\ db = <<>>
  /\ roots = <<>>
  /\ loadedVersion = 0
  /\ lastKey = 0
  /\ outcome = "ok"
  /\ written = NothingWritten
  /\ saved = <<>>

Set(key, value) ==
  LET version == loadedVersion + 1
      result == IF root = NoNode THEN NewLeaf(key, value, version)
                ELSE RecursiveSet(root, key, value, version)
  IN /\ outcome = "ok"
     /\ version <= MaxVersion
     /\ key > lastKey
     /\ lastKey' = key
     /\ IF IsPanic(result)
        THEN outcome' = result.why /\ UNCHANGED <<root, written>>
        ELSE /\ root' = result
             /\ written' = [written EXCEPT ![key] = NewLeaf(key, value, version)]
             /\ UNCHANGED outcome
     /\ UNCHANGED <<db, roots, loadedVersion, saved>>

\* The version is new: versions only grow here (KVStore.tla has the rest).
SaveVersion ==
  /\ outcome = "ok"
  /\ loadedVersion < MaxVersion
  /\ loadedVersion' = loadedVersion + 1
  /\ IF root = NoNode
     THEN /\ roots' = Append(roots, EmptyHash)
          /\ UNCHANGED <<root, db>>
     ELSE /\ roots' = Append(roots, Hash(root))
          /\ db' = WithNodes(SavedNodes(root))
          /\ root' = Stored(root)
  /\ saved' = Append(saved, written)
  /\ lastKey' = 0
  /\ UNCHANGED <<outcome, written>>

RootOf(version) ==
  IF version = 0 THEN NoNode
  ELSE IF roots[version] = EmptyHash THEN NoNode
  ELSE GetNode(roots[version])

\* Tree::new on the database.
Reopen ==
  /\ root' = RootOf(loadedVersion)
  /\ written' = IF loadedVersion = 0 THEN NothingWritten
                ELSE saved[loadedVersion]
  /\ lastKey' = 0
  /\ outcome' = "ok"
  /\ UNCHANGED <<db, roots, loadedVersion, saved>>

Next ==
  \/ \E key \in Key, value \in Value : Set(key, value)
  \/ SaveVersion
  \/ Reopen

Spec == Init /\ [][Next]_vars

-----------------------------------------------------------------------------
(* Properties.                                                             *)

Children(n) == IF IsInner(n) THEN {LeftNode(n), RightNode(n)} ELSE {}

\* The nodes of a tree, in memory and in the database.
Nodes(n) ==
  LET level[depth \in Depth] ==
        IF depth = 0 THEN {n} \ {NoNode}
        ELSE UNION {Children(m) : m \in level[depth - 1]}
  IN UNION {level[depth] : depth \in Depth}

Bounds ==
  [kind: {"included", "excluded"}, key: Key] \cup {[kind |-> "unbounded"]}

\* What get finds in the tree n is exactly contents.
Reads(n, contents) == \A k \in Key : Get(n, k) = contents[k]

\* However the tree was rotated, saved and reloaded, get finds exactly what was
\* set, with the version that set it.
GetIsExact == Reads(root, written)

\* found is the leaves of contents with keys in the bounds, in order.
IsRange(found, contents, start, end) ==
  /\ {found[i] : i \in DOMAIN found} =
       {contents[k] : k \in {k \in Key : contents[k] # NoNode /\ InRange(k, start, end)}}
  /\ \A i, j \in DOMAIN found : i < j => found[i].key < found[j].key

\* A range yields exactly the keys in its bounds, in order.
RangeIsExact ==
  \A start, end \in Bounds :
    IsRange(RangeOf(root, start, end), written, start, end)

\* Every hash in a node is the hash of the child it stands for, in memory or in
\* the database: the root hash commits to all of the tree.
HashesAreExact ==
  \A n \in Nodes(root) :
    /\ ~IsPanic(n)
    /\ IsInner(n) => /\ n.leftHash = Hash(LeftNode(n))
                     /\ n.rightHash = Hash(RightNode(n))

\* No subtree is more than one higher than its sibling.
Balanced ==
  \A n \in Nodes(root) : IsInner(n) => BalanceFactor(n) \in {-1, 0, 1}

\* A set goes through the left-right case.
MeetsLeftRight(key, value) ==
  LET version == loadedVersion + 1
      path == Path(root, key)
      set == SetAbove(root, key, value, version)
  IN /\ root # NoNode
     /\ \E i \in Depth \ {0} :
          LET m == path[MaxKey - i]
              x == SetChild(m, set[i - 1], key, version)
          IN /\ IsInner(m)
             /\ ~IsPanic(x)
             /\ BalanceFactor(x) > 1
             /\ key >= LeftNode(x).key

\* A set keeps the tree balanced unless it goes through the left-right case,
\* which is wrong.
SetsKeepBalance ==
  [][\A key \in Key, value \in Value :
       /\ Set(key, value)
       /\ Balanced
       /\ ~MeetsLeftRight(key, value)
       => Balanced']_vars

\* Heights and sizes are those of the subtrees.
MeasuresAreExact ==
  \A n \in Nodes(root) : IsInner(n) => Measured(n) = n

\* A saved version keeps what it was saved with, whatever is set and saved
\* after it.
SavedVersionsReadable ==
  \A v \in 1..loadedVersion : Reads(RootOf(v), saved[v])

\* What the expects of recursive_set say (tree.rs:536): "Given the imbalance,
\* expect rotation to always succeed".
RotationsSucceed == outcome # "rotation failed"

\* What the expects of get_left_node and get_right_node say (tree.rs:56): a
\* lookup fails only on "invalid data in database - possible database
\* corruption".
LookupsSucceed == outcome # "invalid data in database"

\* Both: on a sound database no expect that Tree::set reaches panics.
SetNeverPanics == RotationsSucceed /\ LookupsSucceed

=============================================================================
