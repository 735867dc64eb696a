----------------------------- MODULE IAVL_proofs -----------------------------
(***************************************************************************)
(* Proofs about the tree.                                                  *)
(***************************************************************************)
EXTENDS IAVL, Folds_proofs, SequenceTheorems

-----------------------------------------------------------------------------
(* Trees.  The leaf of a tree from lo to hi with the least key has the key *)
(* lo, every key is below hi, and contents says what its leaves are: a     *)
(* node is the tree of a set of nodes with their bounds that has, with     *)
(* every inner node, its children.                                         *)

LeftIn(d, n) ==
  IF n.left # NoNode THEN n.left
  ELSE IF n.leftHash \in DOMAIN d THEN d[n.leftHash] ELSE Missing

RightIn(d, n) ==
  IF n.right # NoNode THEN n.right
  ELSE IF n.rightHash \in DOMAIN d THEN d[n.rightHash] ELSE Missing

LeafShape(n) == n = NewLeaf(n.key, n.value, n.version)

InnerShape(n) ==
  /\ n = [kind |-> "inner", key |-> n.key, height |-> n.height, size |-> n.size,
          version |-> n.version, left |-> n.left, right |-> n.right,
          leftHash |-> n.leftHash, rightHash |-> n.rightHash]
  /\ n.height \in Nat \ {0}

Typed(n) == LeafShape(n) \/ InnerShape(n)

DbTyped(d) == \A h \in DOMAIN d : Typed(d[h])

\* A leaf, or an inner node with its children in S.
Fits(n, lo, hi, S, d) ==
  /\ lo \in Key /\ hi \in Int /\ lo < hi
  /\ \/ LeafShape(n) /\ n.key = lo
     \/ /\ InnerShape(n)
        /\ n.key \in Key /\ lo < n.key /\ n.key < hi
        /\ <<LeftIn(d, n), lo, n.key>> \in S
        /\ <<RightIn(d, n), n.key, hi>> \in S
        /\ n.leftHash = Hash(LeftIn(d, n))
        /\ n.rightHash = Hash(RightIn(d, n))

Fills(n, lo, hi, contents) ==
  IsLeaf(n) => /\ contents[lo] = n
               /\ \A k \in Key : lo < k /\ k < hi => contents[k] = NoNode

Whole(S, d, contents) ==
  \A n, lo, hi : <<n, lo, hi>> \in S => /\ Fits(n, lo, hi, S, d)
                                        /\ Fills(n, lo, hi, contents)

Tree(n, lo, hi, d, contents) ==
  \E S : <<n, lo, hi>> \in S /\ Whole(S, d, contents)

LeafTree(n, lo, hi, contents) ==
  /\ LeafShape(n) /\ IsLeaf(n) /\ n.key = lo
  /\ contents[lo] = n
  /\ \A k \in Key : lo < k /\ k < hi => contents[k] = NoNode

InnerTree(n, lo, hi, d, contents) ==
  /\ InnerShape(n) /\ IsInner(n) /\ ~IsLeaf(n)
  /\ n.key \in Key /\ lo < n.key /\ n.key < hi
  /\ Tree(LeftIn(d, n), lo, n.key, d, contents)
  /\ Tree(RightIn(d, n), n.key, hi, d, contents)
  /\ n.leftHash = Hash(LeftIn(d, n))
  /\ n.rightHash = Hash(RightIn(d, n))

\* The shape of a node is its kind.
LEMMA Kinds ==
  ASSUME NEW n
  PROVE  /\ LeafShape(n) => n.kind = "leaf"
         /\ InnerShape(n) => n.kind = "inner"
BY DEF LeafShape, InnerShape, NewLeaf

\* A tree is a leaf, or an inner node with two trees.
LEMMA TreeIs ==
  ASSUME NEW n, NEW lo, NEW hi, NEW d, NEW f, Tree(n, lo, hi, d, f)
  PROVE  /\ lo \in Key /\ hi \in Int /\ lo < hi
         /\ LeafTree(n, lo, hi, f) \/ InnerTree(n, lo, hi, d, f)
<1>1. PICK S : <<n, lo, hi>> \in S /\ Whole(S, d, f)
  BY DEF Tree
<1>2. Fits(n, lo, hi, S, d) /\ Fills(n, lo, hi, f)
  BY <1>1 DEF Whole
<1>3. CASE LeafShape(n) /\ n.key = lo
  BY <1>2, <1>3, Kinds DEF Fits, Fills, LeafTree, IsLeaf
<1>4. CASE ~ (LeafShape(n) /\ n.key = lo)
  <2>1. /\ <<LeftIn(d, n), lo, n.key>> \in S
        /\ <<RightIn(d, n), n.key, hi>> \in S
    BY <1>2, <1>4 DEF Fits
  <2>2. Tree(LeftIn(d, n), lo, n.key, d, f) /\ Tree(RightIn(d, n), n.key, hi, d, f)
    BY <1>1, <2>1 DEF Tree
  <2>3. QED BY <1>2, <1>4, <2>2, Kinds DEF Fits, InnerTree, IsLeaf, IsInner
<1>5. QED BY <1>3, <1>4

\* A leaf is a tree.
LEMMA LeafIsTree ==
  ASSUME NEW n, NEW lo \in Key, NEW hi \in Int, lo < hi, NEW d, NEW f,
         LeafTree(n, lo, hi, f)
  PROVE  Tree(n, lo, hi, d, f)
<1> DEFINE S == {<<n, lo, hi>>}
<1>1. Whole(S, d, f)
  BY DEF Whole, Fits, Fills, LeafTree
<1>2. QED BY <1>1 DEF Tree

\* An inner node with two trees is a tree.
LEMMA InnerIsTree ==
  ASSUME NEW n, NEW lo \in Key, NEW hi \in Int, lo < hi, NEW d, NEW f,
         InnerTree(n, lo, hi, d, f)
  PROVE  Tree(n, lo, hi, d, f)
<1>1. PICK S : <<LeftIn(d, n), lo, n.key>> \in S /\ Whole(S, d, f)
  BY DEF InnerTree, Tree
<1>2. PICK T : <<RightIn(d, n), n.key, hi>> \in T /\ Whole(T, d, f)
  BY DEF InnerTree, Tree
<1> DEFINE U == S \cup T \cup {<<n, lo, hi>>}
<1>3. ASSUME NEW m, NEW l, NEW h, <<m, l, h>> \in U
      PROVE  Fits(m, l, h, U, d) /\ Fills(m, l, h, f)
  <2>1. CASE <<m, l, h>> \in S
    BY <1>1, <2>1 DEF Whole, Fits
  <2>2. CASE <<m, l, h>> \in T
    BY <1>2, <2>2 DEF Whole, Fits
  <2>3. CASE m = n /\ l = lo /\ h = hi
    BY <1>1, <1>2, <2>3 DEF InnerTree, Fits, Fills
  <2>4. QED BY <1>3, <2>1, <2>2, <2>3
<1>4. Whole(U, d, f) /\ <<n, lo, hi>> \in U
  BY <1>3 DEF Whole
<1>5. QED BY <1>4 DEF Tree

\* Only the contents between its bounds matter to a tree.
LEMMA TreeAgrees ==
  ASSUME NEW n, NEW lo, NEW hi, NEW d, NEW f, NEW g, Tree(n, lo, hi, d, f),
         \A k \in Key : lo <= k /\ k < hi => g[k] = f[k]
  PROVE  Tree(n, lo, hi, d, g)
<1>1. PICK S : <<n, lo, hi>> \in S /\ Whole(S, d, f)
  BY DEF Tree
<1> DEFINE T == {t \in S : lo <= t[2] /\ t[3] <= hi}
<1>2. lo \in Key /\ hi \in Int /\ lo \in Int
  <2>1. Fits(n, lo, hi, S, d)
    BY <1>1 DEF Whole
  <2>2. QED BY <2>1 DEF Fits, Key
<1>3. ASSUME NEW m, NEW l, NEW h, <<m, l, h>> \in T
      PROVE  Fits(m, l, h, T, d) /\ Fills(m, l, h, g)
  <2>1. <<m, l, h>> \in S /\ lo <= l /\ h <= hi
    BY <1>3
  <2>2. Fits(m, l, h, S, d) /\ Fills(m, l, h, f)
    BY <1>1, <2>1 DEF Whole
  <2>3. l \in Key /\ l \in Int /\ h \in Int /\ l < h
    BY <2>2 DEF Fits, Key
  <2>4. Fits(m, l, h, T, d)
    <3>1. CASE LeafShape(m) /\ m.key = l
      BY <2>3, <3>1 DEF Fits
    <3>2. CASE ~ (LeafShape(m) /\ m.key = l)
      <4>1. /\ InnerShape(m) /\ m.key \in Key /\ l < m.key /\ m.key < h
            /\ <<LeftIn(d, m), l, m.key>> \in S
            /\ <<RightIn(d, m), m.key, h>> \in S
            /\ m.leftHash = Hash(LeftIn(d, m))
            /\ m.rightHash = Hash(RightIn(d, m))
        BY <2>2, <3>2 DEF Fits
      <4>2. lo <= m.key /\ m.key <= hi
        BY <1>2, <2>1, <2>3, <4>1 DEF Key
      <4>3. <<LeftIn(d, m), l, m.key>> \in T /\ <<RightIn(d, m), m.key, h>> \in T
        BY <2>1, <4>1, <4>2
      <4>4. QED BY <2>3, <4>1, <4>3 DEF Fits
    <3>3. QED BY <3>1, <3>2
  <2>5. ASSUME NEW k \in Key, l <= k, k < h PROVE g[k] = f[k]
    <3>1. lo <= k /\ k < hi
      BY <1>2, <2>1, <2>3, <2>5 DEF Key
    <3>2. QED BY <3>1
  <2>6. Fills(m, l, h, g)
    BY <2>2, <2>3, <2>5 DEF Fills, Key
  <2>7. QED BY <2>4, <2>6
<1>4. Whole(T, d, g) /\ <<n, lo, hi>> \in T
  BY <1>1, <1>2, <1>3 DEF Whole, Key
<1>5. QED BY <1>4 DEF Tree

Extends(d, e) ==
  /\ DOMAIN d \subseteq DOMAIN e
  /\ \A h \in DOMAIN d : e[h] = d[h]

\* A tree is one in every database that has more nodes.
LEMMA TreeExtends ==
  ASSUME NEW n, NEW lo, NEW hi, NEW d, NEW e, NEW f, Tree(n, lo, hi, d, f),
         Extends(d, e)
  PROVE  Tree(n, lo, hi, e, f)
<1>1. PICK S : <<n, lo, hi>> \in S /\ Whole(S, d, f)
  BY DEF Tree
<1>2. ASSUME NEW m, NEW l, NEW h, <<m, l, h>> \in S
      PROVE  m # Missing
  <2>1. LeafShape(m) \/ InnerShape(m)
    <3>1. Fits(m, l, h, S, d)
      BY <1>1, <1>2 DEF Whole
    <3>2. QED BY <3>1 DEF Fits
  <2>2. m.kind # "panic"
    BY <2>1, Kinds
  <2>3. Missing.kind = "panic"
    BY DEF Missing, Panic
  <2>4. QED BY <2>2, <2>3
<1>3. ASSUME NEW m, NEW l, NEW h, <<m, l, h>> \in S
      PROVE  Fits(m, l, h, S, e) /\ Fills(m, l, h, f)
  <2>1. Fits(m, l, h, S, d) /\ Fills(m, l, h, f)
    BY <1>1, <1>3 DEF Whole
  <2>2. CASE LeafShape(m) /\ m.key = l
    BY <2>1, <2>2 DEF Fits
  <2>3. CASE ~ (LeafShape(m) /\ m.key = l)
    <3>1. LeftIn(d, m) # Missing /\ RightIn(d, m) # Missing
      BY <1>2, <2>1, <2>3 DEF Fits
    <3>2. LeftIn(e, m) = LeftIn(d, m) /\ RightIn(e, m) = RightIn(d, m)
      BY <3>1 DEF LeftIn, RightIn, Extends
    <3>3. QED BY <2>1, <2>3, <3>2 DEF Fits
  <2>4. QED BY <2>2, <2>3
<1>4. QED BY <1>1, <1>3 DEF Tree, Whole

\* A stored inner node is the node without its children.
LEMMA StoredIs ==
  ASSUME NEW n, InnerShape(n)
  PROVE  Stored(n) = [kind |-> "inner", key |-> n.key, height |-> n.height,
                      size |-> n.size, version |-> n.version, left |-> NoNode,
                      right |-> NoNode, leftHash |-> n.leftHash,
                      rightHash |-> n.rightHash]
<1> DEFINE r == [kind |-> "inner", key |-> n.key, height |-> n.height, size |-> n.size,
          version |-> n.version, left |-> n.left, right |-> n.right,
          leftHash |-> n.leftHash, rightHash |-> n.rightHash]
<1>1. n = r /\ ~IsLeaf(n)
  BY Kinds DEF InnerShape, IsLeaf
<1>2. Stored(n) = [r EXCEPT !.left = NoNode, !.right = NoNode]
  BY <1>1 DEF Stored
<1>3. QED BY <1>2

\* The height in a hash tells the hash of a leaf from that of an inner node.
LEMMA HeightsTell ==
  ASSUME NEW n, NEW m, IsLeaf(n), ~IsLeaf(m), InnerShape(m)
  PROVE  Hash(n) # Hash(m)
<1>1. Hash(n).height = 0
  BY DEF Hash
<1>2. Hash(m).height = m.height /\ m.height # 0
  BY DEF Hash, InnerShape
<1>3. QED BY <1>1, <1>2

\* Nodes with the same hash have the same least key and are stored alike.
LEMMA HashesTell ==
  ASSUME NEW d, NEW f, NEW e, NEW g
  PROVE  \A n, lo, hi, m, l, h :
           Tree(n, lo, hi, d, f) /\ Tree(m, l, h, e, g) /\ Hash(n) = Hash(m)
             => lo = l /\ Stored(n) = Stored(m)
<1> DEFINE Q == {w \in Nat : \A n, lo, hi, m, l, h :
                   /\ Tree(n, lo, hi, d, f) /\ Tree(m, l, h, e, g)
                   /\ Hash(n) = Hash(m) /\ hi - lo = w
                   => lo = l /\ Stored(n) = Stored(m)}
<1>1. ASSUME NEW w \in Nat, \A v \in Nat : v < w => v \in Q
      PROVE  w \in Q
  <2> SUFFICES ASSUME NEW n, NEW lo, NEW hi, NEW m, NEW l, NEW h,
                      Tree(n, lo, hi, d, f), Tree(m, l, h, e, g),
                      Hash(n) = Hash(m), hi - lo = w
               PROVE  lo = l /\ Stored(n) = Stored(m)
    OBVIOUS
  <2>1. /\ lo \in Key /\ hi \in Int /\ lo < hi
        /\ LeafTree(n, lo, hi, f) \/ InnerTree(n, lo, hi, d, f)
    BY TreeIs
  <2>2. LeafTree(m, l, h, g) \/ InnerTree(m, l, h, e, g)
    BY TreeIs
  <2>3. CASE IsLeaf(n) /\ IsLeaf(m)
    BY <2>1, <2>2, <2>3 DEF Hash, LeafTree, InnerTree, LeafShape, NewLeaf, Stored
  <2>4. CASE IsInner(n) /\ IsInner(m) /\ ~IsLeaf(n) /\ ~IsLeaf(m)
    <3>1. InnerTree(n, lo, hi, d, f) /\ InnerTree(m, l, h, e, g)
      BY <2>1, <2>2, <2>4 DEF LeafTree
    <3>2. /\ n.height = m.height /\ n.size = m.size /\ n.version = m.version
          /\ n.leftHash = m.leftHash /\ n.rightHash = m.rightHash
      BY <2>4 DEF Hash
    <3>3. n.key - lo \in Nat /\ n.key - lo < w /\ hi - n.key \in Nat /\ hi - n.key < w
      BY <2>1, <3>1 DEF InnerTree, Key
    <3>4. lo = l
      <4>1. n.key - lo \in Q
        BY <1>1, <3>3
      <4>2. /\ Tree(LeftIn(d, n), lo, n.key, d, f) /\ Tree(LeftIn(e, m), l, m.key, e, g)
            /\ Hash(LeftIn(d, n)) = Hash(LeftIn(e, m))
        BY <3>1, <3>2 DEF InnerTree
      <4>3. QED BY <4>1, <4>2
    <3>5. n.key = m.key
      <4>1. hi - n.key \in Q
        BY <1>1, <3>3
      <4>2. /\ Tree(RightIn(d, n), n.key, hi, d, f) /\ Tree(RightIn(e, m), m.key, h, e, g)
            /\ Hash(RightIn(d, n)) = Hash(RightIn(e, m))
        BY <3>1, <3>2 DEF InnerTree
      <4>3. QED BY <4>1, <4>2
    <3>6. Stored(n) = Stored(m)
      <4>1. InnerShape(n) /\ InnerShape(m)
        BY <3>1 DEF InnerTree
      <4>2. QED BY <2>4, <3>2, <3>5, <4>1, StoredIs
    <3>7. QED BY <3>4, <3>6
  <2>5. CASE LeafTree(n, lo, hi, f) /\ InnerTree(m, l, h, e, g)
    BY <2>5, HeightsTell DEF LeafTree, InnerTree
  <2>6. CASE InnerTree(n, lo, hi, d, f) /\ LeafTree(m, l, h, g)
    BY <2>6, HeightsTell DEF LeafTree, InnerTree
  <2>7. QED BY <2>1, <2>2, <2>3, <2>4, <2>5, <2>6 DEF LeafTree, InnerTree
<1>2. Nat \subseteq Q
  <2> HIDE DEF Q
  <2> QED BY <1>1, NumbersInduction
<1>3. ASSUME NEW n, NEW lo, NEW hi, NEW m, NEW l, NEW h,
             Tree(n, lo, hi, d, f), Tree(m, l, h, e, g), Hash(n) = Hash(m)
      PROVE  lo = l /\ Stored(n) = Stored(m)
  <2>1. lo \in Key /\ hi \in Int /\ lo < hi
    BY <1>3, TreeIs
  <2>2. hi - lo \in Nat
    BY <2>1 DEF Key
  <2>3. hi - lo \in Q
    <3> HIDE DEF Q
    <3> QED BY <1>2, <2>2
  <2>4. QED BY <1>3, <2>3
<1>4. QED BY <1>3

-----------------------------------------------------------------------------
(* What the steps of a set do to the fields of an inner node.              *)

\* m is an inner node with these fields.
HasFields(m, key, version, left, right, leftHash, rightHash) ==
  /\ InnerShape(m) /\ m.key = key /\ m.version = version
  /\ m.left = left /\ m.right = right
  /\ m.leftHash = leftHash /\ m.rightHash = rightHash

\* Setting a field of an inner node leaves the others as they were.
LEMMA FieldSet ==
  ASSUME NEW n, InnerShape(n), NEW c
  PROVE  /\ HasFields([n EXCEPT !.version = c],
                      n.key, c, n.left, n.right, n.leftHash, n.rightHash)
         /\ HasFields([n EXCEPT !.left = c],
                      n.key, n.version, c, n.right, n.leftHash, n.rightHash)
         /\ HasFields([n EXCEPT !.right = c],
                      n.key, n.version, n.left, c, n.leftHash, n.rightHash)
         /\ HasFields([n EXCEPT !.leftHash = c],
                      n.key, n.version, n.left, n.right, c, n.rightHash)
         /\ HasFields([n EXCEPT !.rightHash = c],
                      n.key, n.version, n.left, n.right, n.leftHash, c)
         /\ HasFields([n EXCEPT !.size = c],
                      n.key, n.version, n.left, n.right, n.leftHash, n.rightHash)
         /\ c \in Nat \ {0} =>
              HasFields([n EXCEPT !.height = c],
                        n.key, n.version, n.left, n.right, n.leftHash, n.rightHash)
<1>1. HasFields([n EXCEPT !.version = c],
                      n.key, c, n.left, n.right, n.leftHash, n.rightHash)
  BY DEF InnerShape, HasFields
<1>2. HasFields([n EXCEPT !.left = c],
                      n.key, n.version, c, n.right, n.leftHash, n.rightHash)
  BY DEF InnerShape, HasFields
<1>3. HasFields([n EXCEPT !.right = c],
                      n.key, n.version, n.left, c, n.leftHash, n.rightHash)
  BY DEF InnerShape, HasFields
<1>4. HasFields([n EXCEPT !.leftHash = c],
                      n.key, n.version, n.left, n.right, c, n.rightHash)
  BY DEF InnerShape, HasFields
<1>5. HasFields([n EXCEPT !.rightHash = c],
                      n.key, n.version, n.left, n.right, n.leftHash, c)
  BY DEF InnerShape, HasFields
<1>6. HasFields([n EXCEPT !.size = c],
                      n.key, n.version, n.left, n.right, n.leftHash, n.rightHash)
  BY DEF InnerShape, HasFields
<1>7. ASSUME c \in Nat \ {0}
      PROVE  HasFields([n EXCEPT !.height = c],
                      n.key, n.version, n.left, n.right, n.leftHash, n.rightHash)
  BY <1>7 DEF InnerShape, HasFields
<1>8. QED BY <1>1, <1>2, <1>3, <1>4, <1>5, <1>6, <1>7

\* So does setting the version and a hash.
LEMMA Versioned ==
  ASSUME NEW n, InnerShape(n), NEW v, NEW h
  PROVE  /\ HasFields([n EXCEPT !.version = v, !.leftHash = h],
                      n.key, v, n.left, n.right, h, n.rightHash)
         /\ HasFields([n EXCEPT !.version = v, !.rightHash = h],
                      n.key, v, n.left, n.right, n.leftHash, h)
<1>1. HasFields([n EXCEPT !.version = v, !.leftHash = h],
               n.key, v, n.left, n.right, h, n.rightHash)
  <2> DEFINE m == [n EXCEPT !.version = v]
  <2>1. HasFields(m, n.key, v, n.left, n.right, n.leftHash, n.rightHash)
    BY FieldSet
  <2>2. [n EXCEPT !.version = v, !.leftHash = h] = [m EXCEPT !.leftHash = h]
    BY DEF WithLeft, WithRight
  <2> HIDE DEF m
  <2>3. InnerShape(m)
    BY <2>1 DEF HasFields
  <2>4. HasFields([m EXCEPT !.leftHash = h],
                  m.key, m.version, m.left, m.right, h, m.rightHash)
    BY <2>3, FieldSet
  <2>5. QED BY <2>1, <2>2, <2>4 DEF HasFields
<1>2. HasFields([n EXCEPT !.version = v, !.rightHash = h],
               n.key, v, n.left, n.right, n.leftHash, h)
  <2> DEFINE m == [n EXCEPT !.version = v]
  <2>1. HasFields(m, n.key, v, n.left, n.right, n.leftHash, n.rightHash)
    BY FieldSet
  <2>2. [n EXCEPT !.version = v, !.rightHash = h] = [m EXCEPT !.rightHash = h]
    BY DEF WithLeft, WithRight
  <2> HIDE DEF m
  <2>3. InnerShape(m)
    BY <2>1 DEF HasFields
  <2>4. HasFields([m EXCEPT !.rightHash = h],
                  m.key, m.version, m.left, m.right, m.leftHash, h)
    BY <2>3, FieldSet
  <2>5. QED BY <2>1, <2>2, <2>4 DEF HasFields
<1>3. QED BY <1>1, <1>2

\* So does setting a child and its hash.
LEMMA WithChild ==
  ASSUME NEW n, InnerShape(n), NEW c
  PROVE  /\ HasFields(WithLeft(n, c),
                      n.key, n.version, c, n.right, Hash(c), n.rightHash)
         /\ HasFields(WithRight(n, c),
                      n.key, n.version, n.left, c, n.leftHash, Hash(c))
<1>1. HasFields(WithLeft(n, c),
               n.key, n.version, c, n.right, Hash(c), n.rightHash)
  <2> DEFINE m == [n EXCEPT !.left = c]
  <2>1. HasFields(m, n.key, n.version, c, n.right, n.leftHash, n.rightHash)
    BY FieldSet
  <2>2. WithLeft(n, c) = [m EXCEPT !.leftHash = Hash(c)]
    BY DEF WithLeft, WithRight
  <2> HIDE DEF m
  <2>3. InnerShape(m)
    BY <2>1 DEF HasFields
  <2>4. HasFields([m EXCEPT !.leftHash = Hash(c)],
                  m.key, m.version, m.left, m.right, Hash(c), m.rightHash)
    BY <2>3, FieldSet
  <2>5. QED BY <2>1, <2>2, <2>4 DEF HasFields
<1>2. HasFields(WithRight(n, c),
               n.key, n.version, n.left, c, n.leftHash, Hash(c))
  <2> DEFINE m == [n EXCEPT !.right = c]
  <2>1. HasFields(m, n.key, n.version, n.left, c, n.leftHash, n.rightHash)
    BY FieldSet
  <2>2. WithRight(n, c) = [m EXCEPT !.rightHash = Hash(c)]
    BY DEF WithLeft, WithRight
  <2> HIDE DEF m
  <2>3. InnerShape(m)
    BY <2>1 DEF HasFields
  <2>4. HasFields([m EXCEPT !.rightHash = Hash(c)],
                  m.key, m.version, m.left, m.right, m.leftHash, Hash(c))
    BY <2>3, FieldSet
  <2>5. QED BY <2>1, <2>2, <2>4 DEF HasFields
<1>3. QED BY <1>1, <1>2

\* So does setting the height and the size.
LEMMA WithMeasure ==
  ASSUME NEW n, InnerShape(n), NEW c \in Nat \ {0}, NEW w
  PROVE  HasFields([n EXCEPT !.height = c, !.size = w],
                      n.key, n.version, n.left, n.right, n.leftHash, n.rightHash)
<1>1. HasFields([n EXCEPT !.height = c, !.size = w],
               n.key, n.version, n.left, n.right, n.leftHash, n.rightHash)
  <2> DEFINE m == [n EXCEPT !.height = c]
  <2>1. HasFields(m, n.key, n.version, n.left, n.right, n.leftHash, n.rightHash)
    BY FieldSet
  <2>2. [n EXCEPT !.height = c, !.size = w] = [m EXCEPT !.size = w]
    BY DEF WithLeft, WithRight
  <2> HIDE DEF m
  <2>3. InnerShape(m)
    BY <2>1 DEF HasFields
  <2>4. HasFields([m EXCEPT !.size = w],
                  m.key, m.version, m.left, m.right, m.leftHash, m.rightHash)
    BY <2>3, FieldSet
  <2>5. QED BY <2>1, <2>2, <2>4 DEF HasFields
<1>2. QED BY <1>1

\* m is n but for its height and size.
Remeasured(m, n) ==
  HasFields(m, n.key, n.version, n.left, n.right, n.leftHash, n.rightHash)

\* A node has a height, and is neither a panic nor NoNode.
LEMMA HeightIs ==
  ASSUME NEW n, Typed(n)
  PROVE  Height(n) \in Nat /\ ~IsPanic(n) /\ n # NoNode /\ n # Missing
<1>1. Height(n) \in Nat /\ n.kind # "panic" /\ n.kind # "none"
  BY Kinds DEF Typed, Height, InnerShape, IsLeaf
<1>2. Missing.kind = "panic" /\ NoNode.kind = "none"
  BY DEF Missing, Panic, NoNode
<1>3. QED BY <1>1, <1>2 DEF IsPanic

\* A failed lookup is a panic.
LEMMA MissingIs == IsPanic(Missing)
BY DEF IsPanic, Missing, Panic

\* The children that are in memory are nodes.
Loads(n) ==
  /\ n.left # NoNode => Typed(n.left)
  /\ n.right # NoNode => Typed(n.right)

\* A lookup gives a child in memory, or the stored node with its hash, or fails.
LEMMA Lookups ==
  ASSUME DbTyped(db), NEW n, Loads(n)
  PROVE  /\ LeftNode(n) = LeftIn(db, n) /\ RightNode(n) = RightIn(db, n)
         /\ Typed(LeftNode(n)) \/ LeftNode(n) = Missing
         /\ Typed(RightNode(n)) \/ RightNode(n) = Missing
BY DEF LeftNode, RightNode, LeftIn, RightIn, GetNode, DbTyped, Loads

\* Measuring a node changes its height and size, or panics.
LEMMA MeasuredIs ==
  ASSUME DbTyped(db), NEW n, InnerShape(n), Loads(n)
  PROVE  IsPanic(Measured(n)) \/ Remeasured(Measured(n), n)
<1> DEFINE l == LeftNode(n)
           r == RightNode(n)
           height == 1 + Max2(Height(l), Height(r))
           size == Size(l) + Size(r)
<1>1. CASE IsPanic(l) \/ IsPanic(r)
  BY <1>1, MissingIs DEF Measured
<1>2. CASE ~ (IsPanic(l) \/ IsPanic(r))
  <2>1. Typed(l) /\ Typed(r)
    BY <1>2, Lookups, MissingIs
  <2>2. Height(l) \in Nat /\ Height(r) \in Nat
    BY <2>1, HeightIs
  <2>3. height \in Nat \ {0}
    BY <2>2 DEF Max2
  <2>4. Measured(n) = [n EXCEPT !.height = height, !.size = size]
    BY <1>2 DEF Measured
  <2> HIDE DEF l, r, height, size
  <2>5. QED BY <2>3, <2>4, WithMeasure DEF Remeasured
<1>3. QED BY <1>1, <1>2

-----------------------------------------------------------------------------
(* A set keeps the tree: rotations.                                        *)

LEMMA TreeIsTyped ==
  ASSUME NEW n, NEW lo, NEW hi, NEW d, NEW f, Tree(n, lo, hi, d, f)
  PROVE  /\ Typed(n) /\ Height(n) \in Nat
         /\ ~IsPanic(n) /\ n # NoNode /\ n # Missing
BY TreeIs, HeightIs DEF LeafTree, InnerTree, Typed

\* The children of a tree that are in memory are nodes.
LEMMA TreeLoads ==
  ASSUME NEW n, NEW lo, NEW hi, NEW d, NEW f, InnerTree(n, lo, hi, d, f)
  PROVE  Loads(n)
<1>1. Typed(LeftIn(d, n)) /\ Typed(RightIn(d, n))
  BY TreeIsTyped DEF InnerTree
<1>2. QED BY <1>1 DEF Loads, LeftIn, RightIn

\* A node with two trees, and the hashes of both, is a tree.
LEMMA Join ==
  ASSUME NEW m, NEW lo \in Key, NEW hi \in Int, NEW d, NEW f, NEW l, NEW r,
         InnerShape(m), m.key \in Key,
         Tree(l, lo, m.key, d, f), Tree(r, m.key, hi, d, f),
         LeftIn(d, m) = l, RightIn(d, m) = r,
         m.leftHash = Hash(l), m.rightHash = Hash(r)
  PROVE  Tree(m, lo, hi, d, f) /\ IsInner(m)
<1>1. lo < m.key /\ m.key < hi
  BY TreeIs
<1>2. lo < hi
  BY <1>1 DEF Key
<1>3. m.kind = "inner"
  BY Kinds
<1>4. InnerTree(m, lo, hi, d, f)
  BY <1>1, <1>3 DEF InnerTree, IsInner, IsLeaf
<1>5. QED BY <1>2, <1>3, <1>4, InnerIsTree DEF IsInner

\* n is a panic, or the tree of an inner node from lo to hi.
Result(n, lo, hi, d, f) ==
  IsPanic(n) \/ (Tree(n, lo, hi, d, f) /\ IsInner(n))

\* A rotation to the right panics, or keeps the leaves and the hashes of the
\* tree.
LEMMA RightRotateKeeps ==
  ASSUME DbTyped(db), NEW z, NEW lo, NEW hi, NEW f, NEW v,
         Tree(z, lo, hi, db, f), IsInner(z)
  PROVE  Result(RightRotate(z, v), lo, hi, db, f)
<1> DEFINE y == LeftNode(z)
           z1 == [z EXCEPT !.left = y.right]
           m == Measured(z1)
           down == [m EXCEPT !.version = v, !.leftHash = y.rightHash]
           w == WithRight(y, down)
           y1 == [w EXCEPT !.version = v]
           y2 == Measured(y1)
<1>1. lo \in Key /\ hi \in Int /\ lo < hi /\ InnerTree(z, lo, hi, db, f)
  BY TreeIs DEF LeafTree, IsLeaf, IsInner
<1>2. y = LeftIn(db, z) /\ Tree(y, lo, z.key, db, f)
  <2>1. Loads(z)
    BY <1>1, TreeLoads
  <2>2. QED BY <1>1, <2>1, Lookups DEF InnerTree
<1>3. ~IsPanic(y) /\ (IsLeaf(y) \/ InnerTree(y, lo, z.key, db, f))
  BY <1>2, TreeIs, TreeIsTyped DEF LeafTree
<1>4. /\ IsPanic(RightRotate(z, v))
      \/ /\ ~IsLeaf(y) /\ ~IsPanic(m) /\ RightRotate(z, v) = y2
  <2>1. IsPanic(RotateError)
    BY DEF RotateError, Panic, IsPanic
  <2>2. RightRotate(z, v) = IF IsPanic(y) THEN y
                            ELSE IF IsLeaf(y) THEN RotateError
                            ELSE IF IsPanic(m) THEN m ELSE y2
    BY DEF RightRotate
  <2> HIDE DEF y, m, y2
  <2>3. QED BY <1>3, <2>1, <2>2
<1>5. SUFFICES ASSUME InnerTree(y, lo, z.key, db, f), ~IsPanic(m),
                      RightRotate(z, v) = y2, ~IsPanic(y2)
               PROVE  Tree(y2, lo, hi, db, f) /\ IsInner(y2)
  BY <1>3, <1>4 DEF Result
<1> HIDE DEF y
<1>6. HasFields(z1, z.key, z.version, y.right, z.right, z.leftHash, z.rightHash)
  BY <1>1, FieldSet DEF InnerTree
<1>7. /\ Loads(y) /\ Loads(z) /\ InnerShape(y)
      /\ y.key \in Key /\ z.key \in Key
  BY <1>1, <1>5, TreeLoads DEF InnerTree
<1>8. HasFields(m, z.key, z.version, y.right, z.right, z.leftHash, z.rightHash)
  <2>1. InnerShape(z1) /\ Loads(z1)
    BY <1>6, <1>7 DEF HasFields, Loads
  <2>2. Remeasured(m, z1)
    BY <1>5, <2>1, MeasuredIs
  <2> HIDE DEF z1, m
  <2>3. QED BY <1>6, <2>2 DEF Remeasured, HasFields
<1> HIDE DEF m
<1>9. HasFields(down, z.key, v, y.right, z.right, y.rightHash, z.rightHash)
  <2>1. InnerShape(m)
    BY <1>8 DEF HasFields
  <2>2. HasFields(down, m.key, v, m.left, m.right, y.rightHash, m.rightHash)
    BY <2>1, Versioned
  <2> HIDE DEF down
  <2>3. QED BY <1>8, <2>2 DEF HasFields
<1> HIDE DEF down
<1>10. Tree(down, y.key, hi, db, f) /\ IsInner(down)
  <2>1. /\ Tree(RightIn(db, y), y.key, z.key, db, f)
        /\ Tree(RightIn(db, z), z.key, hi, db, f)
    BY <1>1, <1>5 DEF InnerTree
  <2>2. LeftIn(db, down) = RightIn(db, y) /\ RightIn(db, down) = RightIn(db, z)
    BY <1>9 DEF LeftIn, RightIn, HasFields
  <2>3. InnerShape(down) /\ down.key = z.key
        /\ down.leftHash = Hash(RightIn(db, y)) /\ down.rightHash = Hash(RightIn(db, z))
    BY <1>1, <1>5, <1>9 DEF InnerTree, HasFields
  <2>4. QED BY <1>1, <1>7, <2>1, <2>2, <2>3, Join
<1>11. Typed(down) /\ down # NoNode
  BY <1>10, TreeIsTyped
<1>12. HasFields(y1, y.key, v, y.left, down, y.leftHash, Hash(down))
  <2>1. HasFields(w, y.key, y.version, y.left, down, y.leftHash, Hash(down))
    BY <1>7, WithChild
  <2> HIDE DEF w
  <2>2. InnerShape(w)
    BY <2>1 DEF HasFields
  <2>3. HasFields(y1, w.key, v, w.left, w.right, w.leftHash, w.rightHash)
    BY <2>2, FieldSet
  <2> HIDE DEF y1
  <2>4. QED BY <2>1, <2>3 DEF HasFields
<1>13. RightRotate(z, v) = y2
  BY <1>5
<1> HIDE DEF y1
<1>14. HasFields(y2, y.key, v, y.left, down, y.leftHash, Hash(down))
  <2>1. InnerShape(y1) /\ Loads(y1)
    BY <1>7, <1>11, <1>12 DEF HasFields, Loads
  <2>2. Remeasured(y2, y1)
    BY <1>5, <2>1, MeasuredIs
  <2> HIDE DEF y2
  <2>3. QED BY <1>12, <2>2 DEF Remeasured, HasFields
<1> HIDE DEF y2
<1>15. Tree(LeftIn(db, y), lo, y.key, db, f) /\ y.leftHash = Hash(LeftIn(db, y))
  BY <1>5 DEF InnerTree
<1>16. LeftIn(db, y2) = LeftIn(db, y) /\ RightIn(db, y2) = down
  BY <1>11, <1>14 DEF LeftIn, RightIn, HasFields
<1>17. QED
  <2>1. InnerShape(y2) /\ y2.key = y.key
        /\ y2.leftHash = Hash(LeftIn(db, y)) /\ y2.rightHash = Hash(down)
    BY <1>14, <1>15 DEF HasFields
  <2>2. QED BY <1>1, <1>7, <1>10, <1>15, <1>16, <2>1, Join

\* A tree but for the hash of its right child, which is not up to date when
\* recursive_set rotates the child and then the node.
NewRight(n, lo, hi, d, f) ==
  /\ InnerShape(n) /\ n.key \in Key /\ lo \in Key /\ hi \in Int
  /\ Tree(LeftIn(d, n), lo, n.key, d, f)
  /\ Tree(RightIn(d, n), n.key, hi, d, f)
  /\ n.leftHash = Hash(LeftIn(d, n))

\* So does a rotation to the left, also of a node whose right child has just
\* been rotated and whose hash of it is not yet up to date.
LEMMA LeftRotateKeeps ==
  ASSUME DbTyped(db), NEW z, NEW lo, NEW hi, NEW f, NEW v,
         NewRight(z, lo, hi, db, f)
  PROVE  Result(LeftRotate(z, v), lo, hi, db, f)
<1> DEFINE y == RightNode(z)
           z1 == [z EXCEPT !.right = y.left]
           m == Measured(z1)
           down == [m EXCEPT !.version = v, !.rightHash = y.leftHash]
           w == WithLeft(y, down)
           y1 == [w EXCEPT !.version = v]
           y2 == Measured(y1)
<1>1. lo \in Key /\ hi \in Int /\ InnerShape(z) /\ z.key \in Key
  BY DEF NewRight
<1>2. /\ Tree(LeftIn(db, z), lo, z.key, db, f)
      /\ Tree(RightIn(db, z), z.key, hi, db, f)
      /\ z.leftHash = Hash(LeftIn(db, z))
  BY DEF NewRight
<1>3. y = RightIn(db, z) /\ Tree(y, z.key, hi, db, f)
  <2>1. Loads(z)
    <3>1. Typed(LeftIn(db, z)) /\ Typed(RightIn(db, z))
      BY <1>2, TreeIsTyped
    <3>2. QED BY <3>1 DEF Loads, LeftIn, RightIn
  <2>2. QED BY <1>2, <2>1, Lookups
<1>4. ~IsPanic(y) /\ (IsLeaf(y) \/ InnerTree(y, z.key, hi, db, f))
  BY <1>3, TreeIs, TreeIsTyped DEF LeafTree
<1>5. /\ IsPanic(LeftRotate(z, v))
      \/ /\ ~IsLeaf(y) /\ ~IsPanic(m) /\ LeftRotate(z, v) = y2
  <2>1. IsPanic(RotateError)
    BY DEF RotateError, Panic, IsPanic
  <2>2. LeftRotate(z, v) = IF IsPanic(y) THEN y
                            ELSE IF IsLeaf(y) THEN RotateError
                            ELSE IF IsPanic(m) THEN m ELSE y2
    BY DEF LeftRotate
  <2> HIDE DEF y, m, y2
  <2>3. QED BY <1>4, <2>1, <2>2
<1>6. SUFFICES ASSUME InnerTree(y, z.key, hi, db, f), ~IsPanic(m),
                      LeftRotate(z, v) = y2, ~IsPanic(y2)
               PROVE  Tree(y2, lo, hi, db, f) /\ IsInner(y2)
  BY <1>4, <1>5 DEF Result
<1> HIDE DEF y
<1>7. HasFields(z1, z.key, z.version, z.left, y.left, z.leftHash, z.rightHash)
  BY <1>1, FieldSet
<1>8. /\ Loads(y) /\ Loads(z) /\ InnerShape(y)
      /\ y.key \in Key /\ z.key \in Key
  <2>1. Typed(LeftIn(db, z)) /\ Typed(RightIn(db, z))
    BY <1>2, TreeIsTyped
  <2>2. Loads(z)
    BY <2>1 DEF Loads, LeftIn, RightIn
  <2>3. QED BY <1>1, <1>6, <2>2, TreeLoads DEF InnerTree
<1>9. HasFields(m, z.key, z.version, z.left, y.left, z.leftHash, z.rightHash)
  <2>1. InnerShape(z1) /\ Loads(z1)
    BY <1>7, <1>8 DEF HasFields, Loads
  <2>2. Remeasured(m, z1)
    BY <1>6, <2>1, MeasuredIs
  <2> HIDE DEF z1, m
  <2>3. QED BY <1>7, <2>2 DEF Remeasured, HasFields
<1> HIDE DEF m
<1>10. HasFields(down, z.key, v, z.left, y.left, z.leftHash, y.leftHash)
  <2>1. InnerShape(m)
    BY <1>9 DEF HasFields
  <2>2. HasFields(down, m.key, v, m.left, m.right, m.leftHash, y.leftHash)
    BY <2>1, Versioned
  <2> HIDE DEF down
  <2>3. QED BY <1>9, <2>2 DEF HasFields
<1> HIDE DEF down
<1>11. Tree(down, lo, y.key, db, f) /\ IsInner(down)
  <2>1. /\ Tree(LeftIn(db, y), z.key, y.key, db, f)
        /\ Tree(LeftIn(db, z), lo, z.key, db, f)
    BY <1>2, <1>6 DEF InnerTree
  <2>2. RightIn(db, down) = LeftIn(db, y) /\ LeftIn(db, down) = LeftIn(db, z)
    BY <1>10 DEF RightIn, LeftIn, HasFields
  <2>3. InnerShape(down) /\ down.key = z.key
        /\ down.rightHash = Hash(LeftIn(db, y)) /\ down.leftHash = Hash(LeftIn(db, z))
    BY <1>2, <1>6, <1>10 DEF InnerTree, HasFields
  <2>4. y.key \in Int
    BY <1>8 DEF Key
  <2>5. QED BY <1>1, <1>8, <2>1, <2>2, <2>3, <2>4, Join
<1>12. Typed(down) /\ down # NoNode
  BY <1>11, TreeIsTyped
<1>13. HasFields(y1, y.key, v, down, y.right, Hash(down), y.rightHash)
  <2>1. HasFields(w, y.key, y.version, down, y.right, Hash(down), y.rightHash)
    BY <1>8, WithChild
  <2> HIDE DEF w
  <2>2. InnerShape(w)
    BY <2>1 DEF HasFields
  <2>3. HasFields(y1, w.key, v, w.left, w.right, w.leftHash, w.rightHash)
    BY <2>2, FieldSet
  <2> HIDE DEF y1
  <2>4. QED BY <2>1, <2>3 DEF HasFields
<1>14. LeftRotate(z, v) = y2
  BY <1>6
<1> HIDE DEF y1
<1>15. HasFields(y2, y.key, v, down, y.right, Hash(down), y.rightHash)
  <2>1. InnerShape(y1) /\ Loads(y1)
    BY <1>8, <1>12, <1>13 DEF HasFields, Loads
  <2>2. Remeasured(y2, y1)
    BY <1>6, <2>1, MeasuredIs
  <2> HIDE DEF y2
  <2>3. QED BY <1>13, <2>2 DEF Remeasured, HasFields
<1> HIDE DEF y2
<1>16. Tree(RightIn(db, y), y.key, hi, db, f) /\ y.rightHash = Hash(RightIn(db, y))
  BY <1>6 DEF InnerTree
<1>17. RightIn(db, y2) = RightIn(db, y) /\ LeftIn(db, y2) = down
  BY <1>12, <1>15 DEF RightIn, LeftIn, HasFields
<1>18. QED
  <2>1. InnerShape(y2) /\ y2.key = y.key
        /\ y2.rightHash = Hash(RightIn(db, y)) /\ y2.leftHash = Hash(down)
    BY <1>15, <1>16 DEF HasFields
  <2>2. QED BY <1>1, <1>8, <1>11, <1>16, <1>17, <2>1, Join

-----------------------------------------------------------------------------
(* A set keeps the tree: balance, parents and leaves.                      *)

\* The children in memory or not, the tree is the same.
LEMMA LoadKeeps ==
  ASSUME DbTyped(db), NEW n, NEW lo, NEW hi, NEW f,
         Tree(n, lo, hi, db, f), IsInner(n)
  PROVE  /\ LeftNode(n) = LeftIn(db, n) /\ RightNode(n) = RightIn(db, n)
         /\ LET m == [n EXCEPT !.left = LeftNode(n)] IN
              Tree(m, lo, hi, db, f) /\ IsInner(m)
         /\ LET m == [n EXCEPT !.right = RightNode(n)] IN
              Tree(m, lo, hi, db, f) /\ IsInner(m)
<1> DEFINE l == LeftNode(n)
           r == RightNode(n)
           ml == [n EXCEPT !.left = l]
           mr == [n EXCEPT !.right = r]
<1>1. lo \in Key /\ hi \in Int /\ InnerTree(n, lo, hi, db, f)
  BY TreeIs DEF LeafTree, IsLeaf, IsInner
<1>2. l = LeftIn(db, n) /\ r = RightIn(db, n)
  BY <1>1, TreeLoads, Lookups DEF InnerTree
<1> HIDE DEF l, r
<1>3. Tree(l, lo, n.key, db, f) /\ Tree(r, n.key, hi, db, f) /\ l # NoNode /\ r # NoNode
  BY <1>1, <1>2, TreeIsTyped DEF InnerTree
<1>4. /\ HasFields(ml, n.key, n.version, l, n.right, n.leftHash, n.rightHash)
      /\ HasFields(mr, n.key, n.version, n.left, r, n.leftHash, n.rightHash)
  BY <1>1, FieldSet DEF InnerTree
<1> HIDE DEF ml, mr
<1>5. /\ LeftIn(db, ml) = l /\ RightIn(db, ml) = r
      /\ LeftIn(db, mr) = l /\ RightIn(db, mr) = r
  BY <1>2, <1>3, <1>4 DEF LeftIn, RightIn, HasFields
<1>6. n.leftHash = Hash(l) /\ n.rightHash = Hash(r) /\ n.key \in Key
  BY <1>1, <1>2 DEF InnerTree
<1>7. Tree(ml, lo, hi, db, f) /\ IsInner(ml)
  BY <1>1, <1>3, <1>4, <1>5, <1>6, Join DEF HasFields
<1>8. Tree(mr, lo, hi, db, f) /\ IsInner(mr)
  BY <1>1, <1>3, <1>4, <1>5, <1>6, Join DEF HasFields
<1>9. QED BY <1>2, <1>7, <1>8 DEF l, r, ml, mr

\* A tree is such a node.
LEMMA TreeIsNewRight ==
  ASSUME NEW n, NEW lo, NEW hi, NEW d, NEW f, Tree(n, lo, hi, d, f), IsInner(n)
  PROVE  NewRight(n, lo, hi, d, f)
BY TreeIs DEF NewRight, InnerTree, LeafTree, IsLeaf, IsInner

\* So does a rebalancing, whichever of the four cases it takes.
LEMMA RebalancedKeeps ==
  ASSUME DbTyped(db), NEW n, NEW lo, NEW hi, NEW f, NEW key, NEW v,
         Tree(n, lo, hi, db, f), IsInner(n)
  PROVE  Result(Rebalanced(n, key, v), lo, hi, db, f)
<1> DEFINE l == LeftNode(n)
           r == RightNode(n)
           ml == [n EXCEPT !.left = l]
           mr == [n EXCEPT !.right = r]
           left == LeftRotate(ml, v)
           right == RightRotate(r, v)
           twice == [mr EXCEPT !.right = right]
           result == Rebalanced(n, key, v)
<1>1. /\ Tree(ml, lo, hi, db, f) /\ IsInner(ml)
      /\ Tree(mr, lo, hi, db, f) /\ IsInner(mr)
      /\ l = LeftIn(db, n) /\ r = RightIn(db, n)
  BY LoadKeeps
<1>2. \/ result = n
      \/ result = RightRotate(ml, v)
      \/ result = left /\ IsPanic(left)
      \/ result = RightRotate(left, v) /\ ~IsPanic(left)
      \/ result = LeftRotate(mr, v)
      \/ BalanceFactor(n) < -1 /\ result = right /\ IsPanic(right)
      \/ BalanceFactor(n) < -1 /\ result = LeftRotate(twice, v) /\ ~IsPanic(right)
  <2> HIDE DEF result, l, r, ml, mr, left, right, twice
  <2>1. result =
          IF BalanceFactor(n) > 1
          THEN IF key < l.key THEN RightRotate(ml, v)
               ELSE IF IsPanic(left) THEN left ELSE RightRotate(left, v)
          ELSE IF BalanceFactor(n) < -1
          THEN IF key > r.key THEN LeftRotate(mr, v)
               ELSE IF IsPanic(right) THEN right
               ELSE LeftRotate(twice, v)
          ELSE n
    BY Zenon DEF result, Rebalanced, l, r, ml, mr, left, right, twice
  <2>2. QED BY <2>1
<1> HIDE DEF result
<1>3. CASE result = n
  BY <1>3 DEF Result, result
<1>4. CASE result = RightRotate(ml, v)
  <2> HIDE DEF ml
  <2>1. QED BY <1>1, <1>4, RightRotateKeeps DEF result
<1>5. CASE result = left /\ IsPanic(left)
  BY <1>5 DEF Result, result
<1>6. CASE result = RightRotate(left, v) /\ ~IsPanic(left)
  <2> HIDE DEF ml
  <2>1. Result(left, lo, hi, db, f)
    BY <1>1, TreeIsNewRight, LeftRotateKeeps
  <2> HIDE DEF left
  <2>2. Result(RightRotate(left, v), lo, hi, db, f)
    BY <1>6, <2>1, RightRotateKeeps DEF Result
  <2>3. QED BY <1>6, <2>2 DEF result
<1>7. CASE result = LeftRotate(mr, v)
  <2> HIDE DEF mr
  <2>1. QED BY <1>1, <1>7, TreeIsNewRight, LeftRotateKeeps DEF result
<1>8. CASE BalanceFactor(n) < -1 /\ result = right /\ IsPanic(right)
  BY <1>8 DEF Result, result
<1>9. CASE BalanceFactor(n) < -1 /\ result = LeftRotate(twice, v) /\ ~IsPanic(right)
  <2>1. lo \in Key /\ hi \in Int /\ InnerTree(n, lo, hi, db, f)
    BY TreeIs DEF LeafTree, IsLeaf, IsInner
  <2>2. Tree(l, lo, n.key, db, f) /\ Tree(r, n.key, hi, db, f) /\ n.leftHash = Hash(l)
    BY <1>1, <2>1 DEF InnerTree
  <2>3. IsInner(r)
    <3>1. Height(l) \in Nat /\ Height(r) \in Nat /\ Height(l) - Height(r) < -1
      BY <1>9, <2>2, TreeIsTyped DEF BalanceFactor
    <3> HIDE DEF l, r
    <3>2. Height(r) # 0
      BY <3>1
    <3>3. ~IsLeaf(r)
      BY <3>2 DEF Height
    <3>4. QED BY <2>2, <3>3, TreeIs DEF LeafTree, InnerTree
  <2> HIDE DEF r
  <2>4. Tree(right, n.key, hi, db, f) /\ right # NoNode
    <3>1. Result(right, n.key, hi, db, f)
      BY <2>2, <2>3, RightRotateKeeps
    <3> HIDE DEF right
    <3>2. QED BY <1>9, <3>1, TreeIsTyped DEF Result
  <2>5. HasFields(mr, n.key, n.version, n.left, r, n.leftHash, n.rightHash)
    BY <2>1, FieldSet DEF InnerTree
  <2> HIDE DEF mr, right, l
  <2>6. HasFields(twice, n.key, n.version, n.left, right, n.leftHash, n.rightHash)
    <3>1. InnerShape(mr)
      BY <2>5 DEF HasFields
    <3>2. HasFields(twice, mr.key, mr.version, mr.left, right, mr.leftHash, mr.rightHash)
      BY <3>1, FieldSet
    <3> HIDE DEF twice
    <3>3. QED BY <2>5, <3>2 DEF HasFields
  <2> HIDE DEF twice
  <2>7. LeftIn(db, twice) = l /\ RightIn(db, twice) = right
    BY <1>1, <2>4, <2>6 DEF LeftIn, RightIn, HasFields
  <2>8. NewRight(twice, lo, hi, db, f)
    BY <2>1, <2>2, <2>4, <2>6, <2>7 DEF NewRight, HasFields, InnerTree
  <2>9. Result(LeftRotate(twice, v), lo, hi, db, f)
    BY <2>8, LeftRotateKeeps
  <2>10. QED BY <1>9, <2>9 DEF result
<1>10. QED BY <1>2, <1>3, <1>4, <1>5, <1>6, <1>7, <1>8, <1>9

Lower(key, lo) == IF key < lo THEN key ELSE lo

\* g is contents f after a set of key.
Updates(g, f, key) == \A k \in Key : k # key => g[k] = f[k]

\* A node with a child replaced by the tree of a set is the tree of the set.
LEMMA SetChildKeeps ==
  ASSUME DbTyped(db), NEW n, NEW lo, NEW hi, NEW f, NEW g, NEW key \in Key, NEW v,
         NEW c, Tree(n, lo, hi, db, f), IsInner(n), key < hi, Updates(g, f, key),
         \/ IsPanic(c)
         \/ key < n.key /\ Tree(c, Lower(key, lo), n.key, db, g)
         \/ ~ (key < n.key) /\ Tree(c, n.key, hi, db, g)
  PROVE  Result(SetChild(n, c, key, v), Lower(key, lo), hi, db, g)
<1> DEFINE low == Lower(key, lo)
           n1 == IF key < n.key THEN WithLeft(n, c) ELSE WithRight(n, c)
           m == Measured(n1)
           x == [m EXCEPT !.version = v]
<1>1. SetChild(n, c, key, v) = IF IsPanic(c) THEN c ELSE IF IsPanic(m) THEN m ELSE x
  BY DEF SetChild
<1>2. lo \in Key /\ hi \in Int /\ lo < hi /\ InnerTree(n, lo, hi, db, f)
  BY TreeIs DEF LeafTree, IsLeaf, IsInner
<1>3. /\ InnerShape(n) /\ Loads(n) /\ n.key \in Key /\ lo < n.key /\ n.key < hi
      /\ Tree(LeftIn(db, n), lo, n.key, db, f)
      /\ Tree(RightIn(db, n), n.key, hi, db, f)
      /\ n.leftHash = Hash(LeftIn(db, n))
      /\ n.rightHash = Hash(RightIn(db, n))
  BY <1>2, TreeLoads DEF InnerTree
<1>4. low \in Key
  BY <1>2 DEF Lower
<1> HIDE DEF m
<1>5. SUFFICES ASSUME ~IsPanic(c), ~IsPanic(m)
               PROVE  Tree(x, low, hi, db, g) /\ IsInner(x)
  BY <1>1 DEF Result
<1>6. Typed(c) /\ c # NoNode
  BY <1>5, TreeIsTyped
<1>7. CASE key < n.key
  <2>1. HasFields(n1, n.key, n.version, c, n.right, Hash(c), n.rightHash)
    BY <1>3, <1>7, WithChild
  <2> HIDE DEF n1
  <2>2. HasFields(m, n.key, n.version, c, n.right, Hash(c), n.rightHash)
    <3>1. InnerShape(n1) /\ Loads(n1)
      BY <1>3, <1>6, <2>1 DEF HasFields, Loads
    <3>2. Remeasured(m, n1)
      BY <1>5, <3>1, MeasuredIs DEF m
    <3>3. QED BY <2>1, <3>2 DEF Remeasured, HasFields
  <2>3. HasFields(x, n.key, v, c, n.right, Hash(c), n.rightHash)
    <3>1. InnerShape(m)
      BY <2>2 DEF HasFields
    <3>2. HasFields(x, m.key, v, m.left, m.right, m.leftHash, m.rightHash)
      BY <3>1, FieldSet
    <3> HIDE DEF x
    <3>3. QED BY <2>2, <3>2 DEF HasFields
  <2> HIDE DEF x
  <2>4. LeftIn(db, x) = c /\ RightIn(db, x) = RightIn(db, n)
    BY <1>6, <2>3 DEF LeftIn, RightIn, HasFields
  <2>5. Tree(RightIn(db, n), n.key, hi, db, g)
    <3>1. \A k \in Key : n.key <= k /\ k < hi => g[k] = f[k]
      BY <1>3, <1>7 DEF Updates, Key
    <3>2. QED BY <1>3, <3>1, TreeAgrees
  <2>6. Tree(c, low, n.key, db, g)
    BY <1>5, <1>7
  <2>7. /\ InnerShape(x) /\ x.key = n.key
        /\ x.leftHash = Hash(c) /\ x.rightHash = Hash(RightIn(db, n))
    BY <1>3, <2>3 DEF HasFields
  <2> HIDE DEF low
  <2>8. QED BY <1>2, <1>3, <1>4, <2>4, <2>5, <2>6, <2>7, Join
<1>8. CASE ~ (key < n.key)
  <2>1. HasFields(n1, n.key, n.version, n.left, c, n.leftHash, Hash(c))
    BY <1>3, <1>8, WithChild
  <2> HIDE DEF n1
  <2>2. HasFields(m, n.key, n.version, n.left, c, n.leftHash, Hash(c))
    <3>1. InnerShape(n1) /\ Loads(n1)
      BY <1>3, <1>6, <2>1 DEF HasFields, Loads
    <3>2. Remeasured(m, n1)
      BY <1>5, <3>1, MeasuredIs DEF m
    <3>3. QED BY <2>1, <3>2 DEF Remeasured, HasFields
  <2>3. HasFields(x, n.key, v, n.left, c, n.leftHash, Hash(c))
    <3>1. InnerShape(m)
      BY <2>2 DEF HasFields
    <3>2. HasFields(x, m.key, v, m.left, m.right, m.leftHash, m.rightHash)
      BY <3>1, FieldSet
    <3> HIDE DEF x
    <3>3. QED BY <2>2, <3>2 DEF HasFields
  <2> HIDE DEF x
  <2>4. LeftIn(db, x) = LeftIn(db, n) /\ RightIn(db, x) = c
    BY <1>6, <2>3 DEF LeftIn, RightIn, HasFields
  <2>5. Tree(LeftIn(db, n), lo, n.key, db, g)
    <3>1. \A k \in Key : lo <= k /\ k < n.key => g[k] = f[k]
      BY <1>3, <1>8 DEF Updates, Key
    <3>2. QED BY <1>3, <3>1, TreeAgrees
  <2>6. Tree(c, n.key, hi, db, g) /\ low = lo
    <3>1. ~ (key < lo)
      BY <1>2, <1>3, <1>8 DEF Key
    <3>2. QED BY <1>5, <1>8, <3>1 DEF Lower
  <2>7. /\ InnerShape(x) /\ x.key = n.key
        /\ x.leftHash = Hash(LeftIn(db, n)) /\ x.rightHash = Hash(c)
    BY <1>3, <2>3 DEF HasFields
  <2> HIDE DEF low
  <2>8. QED BY <1>2, <1>3, <1>4, <2>4, <2>5, <2>6, <2>7, Join
<1>9. QED BY <1>7, <1>8

\* A set that ends at a leaf makes the tree of the set.
LEMMA SetLeafKeeps ==
  ASSUME NEW n, NEW lo, NEW hi, NEW d, NEW f, NEW g, NEW key \in Key, NEW value, NEW v,
         Tree(n, lo, hi, d, f), IsLeaf(n), key < hi, Updates(g, f, key),
         g[key] = NewLeaf(key, value, v),
         \A k \in Key : k < lo => f[k] = NoNode \/ lo <= key
  PROVE  Tree(SetLeaf(n, NewLeaf(key, value, v), v), Lower(key, lo), hi, d, g)
<1> DEFINE leaf == NewLeaf(key, value, v)
           left == Pair(leaf, n, v)
           right == Pair(n, leaf, v)
<1>1. lo \in Key /\ hi \in Int /\ lo < hi /\ LeafTree(n, lo, hi, f)
  BY TreeIs DEF InnerTree
<1>2. leaf.key = key /\ n.key = lo /\ IsLeaf(leaf) /\ LeafShape(leaf)
  BY <1>1 DEF LeafTree, NewLeaf, IsLeaf, LeafShape
<1>3. SetLeaf(n, leaf, v) = IF key < lo THEN left ELSE IF key = lo THEN leaf ELSE right
  BY <1>2 DEF SetLeaf
<1>4. Typed(n) /\ Typed(leaf) /\ n # NoNode /\ leaf # NoNode
  <2>1. Typed(n) /\ Typed(leaf)
    BY <1>1, <1>2 DEF Typed, LeafTree
  <2>2. QED BY <2>1, HeightIs
<1> HIDE DEF leaf
<1>5. ASSUME NEW l, NEW r, l # NoNode, r # NoNode, r.key \in Key, NEW low \in Key,
             Tree(l, low, r.key, d, g), Tree(r, r.key, hi, d, g)
      PROVE  Tree(Pair(l, r, v), low, hi, d, g)
  <2> DEFINE m == Pair(l, r, v)
             lh == Hash(l)
             rh == Hash(r)
  <2>1. m = [kind |-> "inner", key |-> r.key, height |-> 1, size |-> 2,
             version |-> v, left |-> l, right |-> r, leftHash |-> lh, rightHash |-> rh]
    BY DEF Pair
  <2> HIDE DEF m, lh, rh
  <2>2. /\ InnerShape(m) /\ m.key = r.key /\ m.left = l /\ m.right = r
        /\ m.leftHash = lh /\ m.rightHash = rh
    BY <2>1 DEF InnerShape
  <2>3. LeftIn(d, m) = l /\ RightIn(d, m) = r
    BY <1>5, <2>2 DEF LeftIn, RightIn
  <2>4. QED BY <1>1, <1>5, <2>2, <2>3, Join DEF m, lh, rh
<1>6. CASE key < lo
  <2>1. Tree(leaf, key, lo, d, g)
    <3>1. \A k \in Key : key < k /\ k < lo => g[k] = NoNode
      BY <1>1, <1>6 DEF Updates, Key
    <3>2. LeafTree(leaf, key, lo, g)
      BY <1>2, <3>1 DEF LeafTree, leaf
    <3>3. key \in Key /\ lo \in Int
      BY <1>1 DEF Key
    <3>4. QED BY <1>6, <3>2, <3>3, LeafIsTree
  <2>2. Tree(n, lo, hi, d, g)
    <3>1. \A k \in Key : lo <= k /\ k < hi => g[k] = f[k]
      BY <1>1, <1>6 DEF Updates, Key
    <3>2. QED BY <3>1, TreeAgrees
  <2>3. Tree(left, key, hi, d, g)
    BY <1>1, <1>2, <1>4, <1>5, <2>1, <2>2
  <2>4. QED BY <1>3, <1>6, <2>3 DEF Lower, leaf
<1>7. CASE key = lo
  <2>1. LeafTree(leaf, lo, hi, g)
    <3>1. \A k \in Key : lo < k /\ k < hi => g[k] = NoNode
      BY <1>1, <1>7 DEF Updates, Key, LeafTree
    <3>2. QED BY <1>2, <1>7, <3>1 DEF LeafTree, leaf
  <2>2. Tree(leaf, lo, hi, d, g)
    BY <1>1, <2>1, LeafIsTree
  <2>3. ~ (key < lo)
    BY <1>1, <1>7 DEF Key
  <2>4. QED BY <1>3, <1>7, <2>2, <2>3 DEF Lower, leaf
<1>8. CASE lo < key
  <2>1. Tree(n, lo, key, d, g)
    <3>1. \A k \in Key : lo < k /\ k < key => g[k] = NoNode
      BY <1>1, <1>8 DEF Updates, Key, LeafTree
    <3>2. g[lo] = f[lo]
      BY <1>1, <1>8 DEF Updates, Key
    <3>3. LeafTree(n, lo, key, g)
      BY <1>1, <3>1, <3>2 DEF LeafTree
    <3>4. key \in Int
      BY DEF Key
    <3>5. QED BY <1>1, <1>8, <3>3, <3>4, LeafIsTree
  <2>2. Tree(leaf, key, hi, d, g)
    <3>1. \A k \in Key : key < k /\ k < hi => g[k] = NoNode
      BY <1>1, <1>8 DEF Updates, Key, LeafTree
    <3>2. LeafTree(leaf, key, hi, g)
      BY <1>2, <3>1 DEF LeafTree, leaf
    <3>3. QED BY <1>1, <3>2, LeafIsTree
  <2>3. Tree(right, lo, hi, d, g)
    BY <1>1, <1>2, <1>4, <1>5, <2>1, <2>2
  <2>4. ~ (key < lo) /\ key # lo
    BY <1>1, <1>8 DEF Key
  <2>5. QED BY <1>3, <2>3, <2>4 DEF Lower, leaf
<1>9. QED
  <2>1. key \in Int /\ lo \in Int
    BY <1>1 DEF Key
  <2>2. key < lo \/ key = lo \/ lo < key
    BY <2>1
  <2>3. QED BY <1>6, <1>7, <1>8, <2>2

-----------------------------------------------------------------------------
(* The path of a key: it ends at a leaf.                                   *)

IsPath(p, top, n, key) ==
  \A depth \in 0..top :
    p[depth] = IF depth = 0 THEN n ELSE Toward(p[depth - 1], key)

\* A path goes from each node toward the key.
LEMMA PathIs ==
  ASSUME NEW n, NEW key
  PROVE  IsPath(Path(n, key), MaxKey, n, key)
<1> DEFINE Q == {top \in Nat : \E p : IsPath(p, top, n, key)}
<1>1. 0 \in Q
  <2> DEFINE p == [depth \in 0..0 |-> n]
  <2>1. IsPath(p, 0, n, key)
    BY DEF IsPath
  <2>2. QED BY <2>1
<1>2. ASSUME NEW top \in Nat, top \in Q PROVE top + 1 \in Q
  <2>1. PICK p : IsPath(p, top, n, key)
    BY <1>2
  <2> DEFINE q == [depth \in 0 .. top + 1 |->
                     IF depth = top + 1 THEN Toward(p[top], key) ELSE p[depth]]
  <2>2. q[top + 1] = Toward(p[top], key)
    OBVIOUS
  <2>3. \A depth \in 0..top : q[depth] = p[depth]
    OBVIOUS
  <2> HIDE DEF q
  <2>4. ASSUME NEW depth \in 0 .. top + 1
        PROVE  q[depth] = IF depth = 0 THEN n ELSE Toward(q[depth - 1], key)
    <3>1. CASE depth = top + 1
      <4>1. depth - 1 = top /\ top \in 0..top /\ depth # 0
        BY <3>1
      <4>2. QED BY <2>2, <2>3, <3>1, <4>1
    <3>2. CASE depth # top + 1
      <4>1. depth \in 0..top /\ (depth # 0 => depth - 1 \in 0..top)
        BY <3>2
      <4>2. QED BY <2>1, <2>3, <4>1 DEF IsPath
    <3>3. QED BY <3>1, <3>2
  <2>5. IsPath(q, top + 1, n, key)
    BY <2>4 DEF IsPath
  <2>6. QED BY <2>5
<1> HIDE DEF Q
<1>3. MaxKey \in Q
  BY <1>1, <1>2, MaxKeyAssumption, StepsInduction
<1>4. PICK p : IsPath(p, MaxKey, n, key)
  BY <1>3 DEF Q
<1> DEFINE q == [depth \in Depth |-> p[depth]]
<1>5. q = [depth \in Depth |-> IF depth = 0 THEN n ELSE Toward(q[depth - 1], key)]
  <2>1. \A depth \in Depth : depth # 0 => depth - 1 \in Depth
    BY MaxKeyAssumption DEF Depth
  <2>2. \A depth \in Depth : q[depth] = IF depth = 0 THEN n ELSE Toward(q[depth - 1], key)
    BY <1>4, <2>1 DEF IsPath, Depth
  <2>3. q = [depth \in Depth |-> q[depth]]
    OBVIOUS
  <2> HIDE DEF q
  <2>4. QED BY <2>2, <2>3
<1> HIDE DEF q
<1>6. Path(n, key) =
        [depth \in Depth |-> IF depth = 0 THEN n ELSE Toward(Path(n, key)[depth - 1], key)]
  <2> DEFINE path == CHOOSE node : node = [depth \in Depth |->
                       IF depth = 0 THEN n ELSE Toward(node[depth - 1], key)]
  <2>1. path = [depth \in Depth |-> IF depth = 0 THEN n ELSE Toward(path[depth - 1], key)]
    BY <1>5, Zenon
  <2>2. Path(n, key) = path
    BY Zenon DEF Path
  <2>3. QED BY <2>1, <2>2, Zenon
<1> DEFINE path == Path(n, key)
<1>7. \A depth \in Depth : path[depth] = IF depth = 0 THEN n ELSE Toward(path[depth - 1], key)
  <2>1. path = [depth \in Depth |-> IF depth = 0 THEN n ELSE Toward(path[depth - 1], key)]
    BY <1>6
  <2> HIDE DEF path
  <2>2. QED BY <2>1
<1>8. QED BY <1>7 DEF IsPath, Depth

\* The children that set and get go to are the trees of an inner node.
LEMMA ChildrenAre ==
  ASSUME DbTyped(db), NEW n, NEW lo, NEW hi, NEW f, Tree(n, lo, hi, db, f), IsInner(n)
  PROVE  /\ lo \in Key /\ hi \in Int /\ n.key \in Key /\ lo < n.key /\ n.key < hi
         /\ Tree(LeftNode(n), lo, n.key, db, f)
         /\ Tree(RightNode(n), n.key, hi, db, f)
         /\ n.leftHash = Hash(LeftNode(n)) /\ n.rightHash = Hash(RightNode(n))
<1>1. lo \in Key /\ hi \in Int /\ InnerTree(n, lo, hi, db, f)
  BY TreeIs DEF LeafTree, IsLeaf, IsInner
<1>2. LeftNode(n) = LeftIn(db, n) /\ RightNode(n) = RightIn(db, n)
  BY <1>1, TreeLoads, Lookups
<1>3. QED BY <1>1, <1>2 DEF InnerTree

\* m, a node of the path at this depth, is the tree from l to h.
OnPath(m, depth, l, h, lo, hi, key, f) ==
  /\ Tree(m, l, h, db, f)
  /\ lo <= l /\ h <= hi /\ key < h
  /\ l <= key \/ l = lo
  /\ IsLeaf(m) \/ h - l <= MaxKey - depth

\* One step of a path goes to a smaller tree, in whose bounds the key is.
LEMMA TowardKeeps ==
  ASSUME DbTyped(db), NEW m, NEW depth \in Nat, NEW l, NEW h, NEW lo \in Key,
         NEW hi \in Int, NEW f, NEW key \in Key,
         OnPath(m, depth, l, h, lo, hi, key, f), IsInner(m)
  PROVE  /\ m.key \in Key /\ l < m.key /\ m.key < h
         /\ key < m.key => /\ Toward(m, key) = LeftNode(m)
                           /\ OnPath(LeftNode(m), depth + 1, l, m.key, lo, hi, key, f)
         /\ ~ (key < m.key) => /\ Toward(m, key) = RightNode(m)
                               /\ OnPath(RightNode(m), depth + 1, m.key, h, lo, hi, key, f)
<1>1. /\ Tree(m, l, h, db, f) /\ lo <= l /\ h <= hi /\ key < h
      /\ l <= key \/ l = lo
      /\ h - l <= MaxKey - depth
  BY Kinds DEF OnPath, IsLeaf, IsInner
<1>2. /\ l \in Int /\ h \in Int /\ m.key \in Int /\ m.key \in Key
      /\ l < m.key /\ m.key < h
      /\ Tree(LeftNode(m), l, m.key, db, f)
      /\ Tree(RightNode(m), m.key, h, db, f)
  <2>1. /\ l \in Key /\ h \in Int /\ m.key \in Key /\ l < m.key /\ m.key < h
        /\ Tree(LeftNode(m), l, m.key, db, f)
        /\ Tree(RightNode(m), m.key, h, db, f)
    BY <1>1, ChildrenAre
  <2>2. QED BY <2>1 DEF Key
<1>3. lo \in Int /\ key \in Int /\ MaxKey \in Nat
  BY MaxKeyAssumption DEF Key
<1>4. CASE key < m.key
  <2>1. OnPath(LeftNode(m), depth + 1, l, m.key, lo, hi, key, f)
    BY <1>1, <1>2, <1>3, <1>4 DEF OnPath
  <2>2. Toward(m, key) = LeftNode(m)
    BY <1>4 DEF Toward
  <2>3. QED BY <1>2, <1>4, <2>1, <2>2
<1>5. CASE ~ (key < m.key)
  <2>1. OnPath(RightNode(m), depth + 1, m.key, h, lo, hi, key, f)
    BY <1>1, <1>2, <1>3, <1>5 DEF OnPath
  <2>2. Toward(m, key) = RightNode(m)
    BY <1>5 DEF Toward
  <2>3. QED BY <1>2, <1>5, <2>1, <2>2
<1>6. QED BY <1>4, <1>5

\* Every node of a path is a tree, the smaller the deeper it is.
LEMMA PathKeeps ==
  ASSUME DbTyped(db), NEW n, NEW lo, NEW hi, NEW f, Tree(n, lo, hi, db, f),
         hi <= MaxKey + 1, NEW key \in Key, key < hi
  PROVE  \A depth \in Depth :
           \E l, h : OnPath(Path(n, key)[depth], depth, l, h, lo, hi, key, f)
<1> DEFINE path == Path(n, key)
           Q == {depth \in Nat : depth <= MaxKey =>
                   \E l, h : OnPath(path[depth], depth, l, h, lo, hi, key, f)}
<1>1. \A depth \in 0..MaxKey :
        path[depth] = IF depth = 0 THEN n ELSE Toward(path[depth - 1], key)
  BY PathIs DEF IsPath
<1>2. lo \in Key /\ hi \in Int /\ lo < hi /\ key \in Int /\ MaxKey \in Nat
  BY TreeIs, MaxKeyAssumption DEF Key
<1> HIDE DEF path
<1>3. 0 \in Q
  <2>1. path[0] = n
    BY <1>1, <1>2
  <2>2. OnPath(path[0], 0, lo, hi, lo, hi, key, f)
    BY <1>2, <2>1 DEF OnPath, Key
  <2>3. QED BY <2>2
<1>4. ASSUME NEW depth \in Nat, depth \in Q PROVE depth + 1 \in Q
  <2> SUFFICES ASSUME depth + 1 <= MaxKey
               PROVE  \E l, h : OnPath(path[depth + 1], depth + 1, l, h, lo, hi, key, f)
    OBVIOUS
  <2> DEFINE m == path[depth]
  <2>1. PICK l, h : OnPath(m, depth, l, h, lo, hi, key, f)
    BY <1>2, <1>4
  <2>2. path[depth + 1] = Toward(m, key)
    <3>1. depth + 1 \in 0..MaxKey /\ depth + 1 # 0 /\ (depth + 1) - 1 = depth
      BY <1>2
    <3>2. QED BY <1>1, <3>1
  <2> HIDE DEF m
  <2>3. Tree(m, l, h, db, f) /\ l \in Key /\ l \in Int /\ h \in Int
    BY <2>1, TreeIs DEF OnPath, Key
  <2>4. CASE ~IsInner(m)
    <3>1. Toward(m, key) = m
      BY <2>4 DEF Toward
    <3>2. IsLeaf(m)
      BY <2>3, <2>4, TreeIs DEF LeafTree, InnerTree
    <3>3. OnPath(m, depth + 1, l, h, lo, hi, key, f)
      BY <2>1, <3>2 DEF OnPath
    <3>4. QED BY <2>2, <3>1, <3>3
  <2>5. CASE IsInner(m)
    <3>1. CASE key < m.key
      <4>1. /\ Toward(m, key) = LeftNode(m)
            /\ OnPath(LeftNode(m), depth + 1, l, m.key, lo, hi, key, f)
        BY <1>2, <2>1, <2>5, <3>1, TowardKeeps
      <4>2. QED BY <2>2, <4>1
    <3>2. CASE ~ (key < m.key)
      <4>1. /\ Toward(m, key) = RightNode(m)
            /\ OnPath(RightNode(m), depth + 1, m.key, h, lo, hi, key, f)
        BY <1>2, <2>1, <2>5, <3>2, TowardKeeps
      <4>2. QED BY <2>2, <4>1
    <3>3. QED BY <3>1, <3>2
  <2>6. QED BY <2>4, <2>5
<1> HIDE DEF Q
<1>5. Nat \subseteq Q
  BY <1>3, <1>4, StepsInduction
<1>6. ASSUME NEW depth \in Depth
      PROVE  \E l, h : OnPath(path[depth], depth, l, h, lo, hi, key, f)
  <2>1. depth \in Nat /\ depth <= MaxKey /\ depth \in Q
    BY <1>2, <1>5 DEF Depth
  <2>2. QED BY <2>1 DEF Q
<1>7. QED BY <1>6 DEF path

\* A get finds what the contents of the tree say.
LEMMA GetIs ==
  ASSUME DbTyped(db), NEW n, NEW lo, NEW f, Tree(n, lo, MaxKey + 1, db, f),
         \A k \in Key : k < lo => f[k] = NoNode, NEW key \in Key
  PROVE  Get(n, key) = f[key]
<1> DEFINE last == Path(n, key)[MaxKey]
<1>1. MaxKey \in Nat /\ MaxKey \in Depth /\ lo \in Key /\ key \in Int /\ key < MaxKey + 1
  BY TreeIs, MaxKeyAssumption DEF Key, Depth
<1>2. PICK l, h : OnPath(last, MaxKey, l, h, lo, MaxKey + 1, key, f)
  BY <1>1, PathKeeps
<1> HIDE DEF last
<1>3. /\ Tree(last, l, h, db, f) /\ lo <= l /\ h <= MaxKey + 1 /\ key < h
      /\ l <= key \/ l = lo
      /\ IsLeaf(last) \/ h - l <= MaxKey - MaxKey
  BY <1>2 DEF OnPath
<1>4. l \in Key /\ h \in Int /\ l < h /\ IsLeaf(last)
  <2>1. l \in Key /\ h \in Int /\ l < h
    BY <1>3, TreeIs
  <2>2. ~ (h - l <= MaxKey - MaxKey)
    BY <1>1, <2>1 DEF Key
  <2>3. QED BY <1>3, <2>1, <2>2
<1>5. LeafTree(last, l, h, f)
  BY <1>3, <1>4, TreeIs DEF InnerTree
<1>6. RecursiveGet(n, key) = f[key]
  <2>1. RecursiveGet(n, key) = IF last.key # key THEN NoNode ELSE last
    BY <1>4 DEF RecursiveGet, last
  <2>2. last.key = l /\ f[l] = last
    BY <1>5 DEF LeafTree
  <2>3. CASE key = l
    BY <2>1, <2>2, <2>3
  <2>4. CASE l < key
    BY <1>3, <1>5, <2>1, <2>2, <2>4 DEF LeafTree
  <2>5. CASE key < l
    <3>1. l = lo
      BY <1>1, <1>3, <1>4, <2>5 DEF Key
    <3>2. QED BY <2>1, <2>2, <2>5, <3>1
  <2>6. QED BY <1>1, <1>4, <2>3, <2>4, <2>5 DEF Key
<1>7. n # NoNode
  BY TreeIsTyped
<1>8. QED BY <1>6, <1>7 DEF Get

-----------------------------------------------------------------------------
(* A set keeps the tree: from the leaf up the path.                        *)

\* What a set makes of m, i levels above the deepest node, from what it makes
\* of the child below.
SetOf(m, below, i, key, value, version) ==
  IF IsLeaf(m) THEN SetLeaf(m, NewLeaf(key, value, version), version)
  ELSE IF IsPanic(m) \/ i = 0 THEN m
  ELSE SetInner(m, below, key, version)

AreSets(s, top, path, key, value, version) ==
  \A i \in 0..top : s[i] = SetOf(path[MaxKey - i], s[i - 1], i, key, value, version)

\* A set is made from the deepest node of the path up.
LEMMA SetAboveIs ==
  ASSUME NEW n, NEW key, NEW value, NEW v
  PROVE  AreSets(SetAbove(n, key, value, v), MaxKey, Path(n, key), key, value, v)
<1> DEFINE path == Path(n, key)
           Q == {top \in Nat : \E s : AreSets(s, top, path, key, value, v)}
<1> HIDE DEF path
<1>1. 0 \in Q
  <2> DEFINE s == [i \in 0..0 |-> SetOf(path[MaxKey - 0], NoNode, 0, key, value, v)]
  <2>1. \A a, b, m : SetOf(m, a, 0, key, value, v) = SetOf(m, b, 0, key, value, v)
    BY DEF SetOf
  <2>2. s[0] = SetOf(path[MaxKey - 0], NoNode, 0, key, value, v)
    OBVIOUS
  <2> HIDE DEF s
  <2>3. s[0] = SetOf(path[MaxKey - 0], s[0 - 1], 0, key, value, v)
    BY <2>1, <2>2
  <2>4. AreSets(s, 0, path, key, value, v)
    BY <2>3 DEF AreSets
  <2>5. QED BY <2>4
<1>2. ASSUME NEW top \in Nat, top \in Q PROVE top + 1 \in Q
  <2>1. PICK s : AreSets(s, top, path, key, value, v)
    BY <1>2
  <2> DEFINE last == SetOf(path[MaxKey - (top + 1)], s[top], top + 1, key, value, v)
             t == [i \in 0 .. top + 1 |-> IF i = top + 1 THEN last ELSE s[i]]
  <2>2. t[top + 1] = last
    OBVIOUS
  <2>3. \A i \in 0..top : t[i] = s[i]
    OBVIOUS
  <2> HIDE DEF t
  <2>4. ASSUME NEW i \in 0 .. top + 1
        PROVE  t[i] = SetOf(path[MaxKey - i], t[i - 1], i, key, value, v)
    <3>1. CASE i = top + 1
      <4>1. i - 1 = top /\ top \in 0..top
        BY <3>1
      <4>2. QED BY <2>2, <2>3, <3>1, <4>1
    <3>2. CASE i # top + 1 /\ i # 0
      <4>1. i \in 0..top /\ i - 1 \in 0..top
        BY <3>2
      <4>2. QED BY <2>1, <2>3, <4>1 DEF AreSets
    <3>3. CASE i = 0
      <4>1. 0 \in 0..top
        OBVIOUS
      <4>2. t[0] = SetOf(path[MaxKey - 0], s[0 - 1], 0, key, value, v)
        BY <2>1, <2>3, <4>1 DEF AreSets
      <4>3. \A a, b, m : SetOf(m, a, 0, key, value, v) = SetOf(m, b, 0, key, value, v)
        BY DEF SetOf
      <4>4. QED BY <3>3, <4>2, <4>3
    <3>4. QED BY <3>1, <3>2, <3>3
  <2>5. AreSets(t, top + 1, path, key, value, v)
    BY <2>4 DEF AreSets
  <2>6. QED BY <2>5
<1> HIDE DEF Q
<1>3. MaxKey \in Q
  BY <1>1, <1>2, MaxKeyAssumption, StepsInduction
<1>4. PICK s : AreSets(s, MaxKey, path, key, value, v)
  BY <1>3 DEF Q
<1> DEFINE t == [i \in Depth |-> s[i]]
<1>5. t = [i \in Depth |->
             IF IsLeaf(path[MaxKey - i])
             THEN SetLeaf(path[MaxKey - i], NewLeaf(key, value, v), v)
             ELSE IF IsPanic(path[MaxKey - i]) \/ i = 0 THEN path[MaxKey - i]
             ELSE SetInner(path[MaxKey - i], t[i - 1], key, v)]
  <2>1. \A i \in Depth : i # 0 => i - 1 \in Depth
    BY MaxKeyAssumption DEF Depth
  <2>2. \A i \in Depth :
          t[i] = IF IsLeaf(path[MaxKey - i])
                 THEN SetLeaf(path[MaxKey - i], NewLeaf(key, value, v), v)
                 ELSE IF IsPanic(path[MaxKey - i]) \/ i = 0 THEN path[MaxKey - i]
                 ELSE SetInner(path[MaxKey - i], t[i - 1], key, v)
    BY <1>4, <2>1 DEF AreSets, SetOf, Depth
  <2>3. t = [i \in Depth |-> t[i]]
    OBVIOUS
  <2> HIDE DEF t
  <2>4. QED BY <2>2, <2>3
<1> HIDE DEF t
<1> DEFINE sets == SetAbove(n, key, value, v)
<1>6. sets = [i \in Depth |->
                IF IsLeaf(path[MaxKey - i])
                THEN SetLeaf(path[MaxKey - i], NewLeaf(key, value, v), v)
                ELSE IF IsPanic(path[MaxKey - i]) \/ i = 0 THEN path[MaxKey - i]
                ELSE SetInner(path[MaxKey - i], sets[i - 1], key, v)]
  <2> DEFINE u == CHOOSE u : u =
               [i \in Depth |->
                 IF IsLeaf(path[MaxKey - i])
                 THEN SetLeaf(path[MaxKey - i], NewLeaf(key, value, v), v)
                 ELSE IF IsPanic(path[MaxKey - i]) \/ i = 0 THEN path[MaxKey - i]
                 ELSE SetInner(path[MaxKey - i], u[i - 1], key, v)]
  <2>1. u = [i \in Depth |->
               IF IsLeaf(path[MaxKey - i])
               THEN SetLeaf(path[MaxKey - i], NewLeaf(key, value, v), v)
               ELSE IF IsPanic(path[MaxKey - i]) \/ i = 0 THEN path[MaxKey - i]
               ELSE SetInner(path[MaxKey - i], u[i - 1], key, v)]
    BY <1>5, Zenon
  <2>2. sets = u
    BY Zenon DEF SetAbove, path
  <2>3. QED BY <2>1, <2>2, Zenon
<1> HIDE DEF sets
<1>7. \A i \in 0..MaxKey :
        sets[i] = SetOf(path[MaxKey - i], sets[i - 1], i, key, value, v)
  BY <1>6 DEF SetOf, Depth
<1>8. QED BY <1>7 DEF AreSets, sets, path

\* Wherever a set has got to on the path, it has panicked or made the tree with
\* the key set.
LEMMA SetKeepsBelow ==
  ASSUME DbTyped(db), NEW n, NEW lo, NEW hi, NEW f, NEW g, NEW key \in Key,
         NEW value, NEW v, Tree(n, lo, hi, db, f), hi <= MaxKey + 1, key < hi,
         \A k \in Key : k < lo => f[k] = NoNode,
         Updates(g, f, key), g[key] = NewLeaf(key, value, v)
  PROVE  \A i \in Depth : \A l, h :
           OnPath(Path(n, key)[MaxKey - i], MaxKey - i, l, h, lo, hi, key, f)
             => LET w == SetAbove(n, key, value, v)[i] IN
                IsPanic(w) \/ Tree(w, Lower(key, l), h, db, g)
<1> DEFINE path == Path(n, key)
           s == SetAbove(n, key, value, v)
           Kept(i) == \A l, h :
                        OnPath(path[MaxKey - i], MaxKey - i, l, h, lo, hi, key, f)
                          => IsPanic(s[i]) \/ Tree(s[i], Lower(key, l), h, db, g)
           Q == {i \in Nat : i <= MaxKey => Kept(i)}
<1>1. \A i \in 0..MaxKey : s[i] = SetOf(path[MaxKey - i], s[i - 1], i, key, value, v)
  BY SetAboveIs DEF AreSets
<1>2. \A depth \in 0..MaxKey :
        path[depth] = IF depth = 0 THEN n ELSE Toward(path[depth - 1], key)
  BY PathIs DEF IsPath
<1>3. lo \in Key /\ lo \in Int /\ hi \in Int /\ lo < hi /\ key \in Int /\ MaxKey \in Nat
  BY TreeIs, MaxKeyAssumption DEF Key
<1> HIDE DEF path, s
<1>4. ASSUME NEW i \in Nat, i <= MaxKey, NEW l, NEW h,
             OnPath(path[MaxKey - i], MaxKey - i, l, h, lo, hi, key, f),
             IsLeaf(path[MaxKey - i])
      PROVE  Tree(s[i], Lower(key, l), h, db, g)
  <2> DEFINE m == path[MaxKey - i]
  <2>1. s[i] = SetLeaf(m, NewLeaf(key, value, v), v)
    BY <1>1, <1>3, <1>4 DEF SetOf
  <2>2. /\ Tree(m, l, h, db, f) /\ key < h
        /\ l <= key \/ l = lo
    BY <1>4 DEF OnPath
  <2>3. \A k \in Key : k < l => f[k] = NoNode \/ l <= key
    BY <2>2
  <2> HIDE DEF m
  <2>4. IsLeaf(m)
    BY <1>4 DEF m
  <2>5. QED BY <2>1, <2>2, <2>3, <2>4, SetLeafKeeps
<1>5. 0 \in Q
  <2> SUFFICES ASSUME NEW l, NEW h,
                      OnPath(path[MaxKey - 0], MaxKey - 0, l, h, lo, hi, key, f)
               PROVE  Tree(s[0], Lower(key, l), h, db, g)
    OBVIOUS
  <2>1. /\ Tree(path[MaxKey - 0], l, h, db, f)
        /\ IsLeaf(path[MaxKey - 0]) \/ h - l <= MaxKey - (MaxKey - 0)
    BY DEF OnPath
  <2>2. l \in Int /\ h \in Int /\ l < h
    BY <2>1, TreeIs DEF Key
  <2>3. IsLeaf(path[MaxKey - 0])
    BY <1>3, <2>1, <2>2
  <2>4. QED BY <1>3, <1>4, <2>3
<1>6. ASSUME NEW i \in Nat, i \in Q PROVE i + 1 \in Q
  <2> SUFFICES ASSUME i + 1 <= MaxKey, NEW l, NEW h,
                      OnPath(path[MaxKey - (i + 1)], MaxKey - (i + 1), l, h, lo, hi, key, f)
               PROVE  IsPanic(s[i + 1]) \/ Tree(s[i + 1], Lower(key, l), h, db, g)
    OBVIOUS
  <2> DEFINE depth == MaxKey - (i + 1)
             m == path[depth]
             c == s[i]
             x == SetChild(m, c, key, v)
  <2>1. depth \in Nat /\ depth + 1 = MaxKey - i /\ depth + 1 \in 0..MaxKey
    BY <1>3
  <2>2. s[i + 1] = SetOf(m, c, i + 1, key, value, v)
    <3>1. i + 1 \in 0..MaxKey /\ (i + 1) - 1 = i
      BY <1>3
    <3>2. QED BY <1>1, <3>1
  <2>3. path[MaxKey - i] = Toward(m, key)
    BY <1>2, <2>1
  <2>4. Kept(i)
    BY <1>3, <1>6
  <2>5. OnPath(m, depth, l, h, lo, hi, key, f)
    OBVIOUS
  <2> HIDE DEF depth, m, c, x
  <2>6. Tree(m, l, h, db, f) /\ key < h
    BY <2>5 DEF OnPath
  <2>7. CASE IsLeaf(m)
    <3>1. i + 1 \in Nat
      OBVIOUS
    <3>2. QED BY <1>4, <2>7, <3>1 DEF m, depth
  <2>8. CASE ~IsLeaf(m)
    <3>1. IsInner(m) /\ ~IsPanic(m)
      BY <2>6, <2>8, TreeIs, TreeIsTyped DEF LeafTree, InnerTree
    <3>2. \/ IsPanic(c)
          \/ key < m.key /\ Tree(c, Lower(key, l), m.key, db, g)
          \/ ~ (key < m.key) /\ Tree(c, m.key, h, db, g)
      <4>1. CASE key < m.key
        <5>1. OnPath(path[MaxKey - i], MaxKey - i, l, m.key, lo, hi, key, f)
          BY <1>3, <2>1, <2>3, <2>5, <3>1, <4>1, TowardKeeps
        <5>2. IsPanic(c) \/ Tree(c, Lower(key, l), m.key, db, g)
          BY <2>4, <5>1 DEF c
        <5>3. QED BY <4>1, <5>2
      <4>2. CASE ~ (key < m.key)
        <5>1. OnPath(path[MaxKey - i], MaxKey - i, m.key, h, lo, hi, key, f)
          BY <1>3, <2>1, <2>3, <2>5, <3>1, <4>2, TowardKeeps
        <5>2. IsPanic(c) \/ Tree(c, Lower(key, m.key), h, db, g)
          BY <2>4, <5>1 DEF c
        <5>3. Lower(key, m.key) = m.key
          BY <4>2 DEF Lower
        <5>4. QED BY <4>2, <5>2, <5>3
      <4>3. QED BY <4>1, <4>2
    <3>3. Result(x, Lower(key, l), h, db, g)
      BY <2>6, <3>1, <3>2, SetChildKeeps DEF x
    <3>4. s[i + 1] = IF IsPanic(x) THEN x ELSE Rebalanced(x, key, v)
      <4>1. i + 1 # 0
        OBVIOUS
      <4>2. QED BY <2>2, <2>8, <3>1, <4>1 DEF SetOf, SetInner, x
    <3>5. CASE IsPanic(x)
      BY <3>4, <3>5
    <3>6. CASE ~IsPanic(x)
      <4>1. Tree(x, Lower(key, l), h, db, g) /\ IsInner(x)
        BY <3>3, <3>6 DEF Result
      <4>2. Result(Rebalanced(x, key, v), Lower(key, l), h, db, g)
        BY <4>1, RebalancedKeeps
      <4>3. QED BY <3>4, <3>6, <4>2 DEF Result
    <3>7. QED BY <3>5, <3>6
  <2>9. QED BY <2>7, <2>8
<1> HIDE DEF Q
<1>7. \A i \in Nat : i \in Q
  BY <1>5, <1>6, StepsInduction
<1>8. \A i \in Depth : Kept(i)
  BY <1>3, <1>7 DEF Q, Depth
<1>9. QED BY <1>8 DEF path, s

\* The path starts at the root.
LEMMA PathStarts ==
  ASSUME NEW n, NEW lo, NEW hi, NEW f, NEW key \in Key, Tree(n, lo, hi, db, f),
         hi <= MaxKey + 1, key < hi
  PROVE  /\ MaxKey \in Depth /\ Path(n, key)[MaxKey - MaxKey] = n
         /\ OnPath(n, MaxKey - MaxKey, lo, hi, lo, hi, key, f)
<1>1. lo \in Key /\ lo \in Int /\ hi \in Int /\ lo < hi /\ MaxKey \in Nat
  BY TreeIs, MaxKeyAssumption DEF Key
<1>2. MaxKey - MaxKey = 0 /\ MaxKey \in Depth /\ 0 \in 0..MaxKey
  BY <1>1 DEF Depth
<1>3. Path(n, key)[0] = n
  BY <1>2, PathIs DEF IsPath
<1>4. hi - lo <= MaxKey - 0
  BY <1>1 DEF Key
<1>5. OnPath(n, 0, lo, hi, lo, hi, key, f)
  BY <1>1, <1>4 DEF OnPath
<1>6. QED BY <1>2, <1>3, <1>5

\* A set panics, or makes the tree with the key set.
LEMMA SetKeeps ==
  ASSUME DbTyped(db), NEW n, NEW lo, NEW hi, NEW f, NEW g, NEW key \in Key,
         NEW value, NEW v, Tree(n, lo, hi, db, f), hi <= MaxKey + 1, key < hi,
         \A k \in Key : k < lo => f[k] = NoNode,
         Updates(g, f, key), g[key] = NewLeaf(key, value, v)
  PROVE  \/ IsPanic(RecursiveSet(n, key, value, v))
         \/ Tree(RecursiveSet(n, key, value, v), Lower(key, lo), hi, db, g)
<1>1. /\ MaxKey \in Depth
      /\ OnPath(Path(n, key)[MaxKey - MaxKey], MaxKey - MaxKey, lo, hi, lo, hi, key, f)
  BY PathStarts
<1> DEFINE w == SetAbove(n, key, value, v)[MaxKey]
<1>2. IsPanic(w) \/ Tree(w, Lower(key, lo), hi, db, g)
  BY <1>1, SetKeepsBelow
<1>3. QED BY <1>2 DEF RecursiveSet

-----------------------------------------------------------------------------
(* A save: the nodes in memory are in the database after it.               *)

SavedLevels(p, top, n) ==
  \A depth \in 0..top :
    p[depth] = IF depth = 0 THEN {<<Hash(n), n>>}
               ELSE UNION {InMemory(c[2]) : c \in p[depth - 1]}

\* The saved nodes are those of MaxKey levels.
LEMMA SavedNodesAre ==
  ASSUME NEW n
  PROVE  \E p : SavedLevels(p, MaxKey, n) /\ SavedNodes(n) = UNION {p[i] : i \in Depth}
<1> DEFINE Q == {top \in Nat : \E p : SavedLevels(p, top, n)}
<1>1. 0 \in Q
  <2> DEFINE p == [depth \in 0..0 |-> {<<Hash(n), n>>}]
  <2>1. SavedLevels(p, 0, n)
    BY DEF SavedLevels
  <2>2. QED BY <2>1
<1>2. ASSUME NEW top \in Nat, top \in Q PROVE top + 1 \in Q
  <2>1. PICK p : SavedLevels(p, top, n)
    BY <1>2
  <2> DEFINE last == UNION {InMemory(c[2]) : c \in p[top]}
             q == [depth \in 0 .. top + 1 |-> IF depth = top + 1 THEN last ELSE p[depth]]
  <2>2. q[top + 1] = last
    OBVIOUS
  <2>3. \A depth \in 0..top : q[depth] = p[depth]
    OBVIOUS
  <2> HIDE DEF q
  <2>4. ASSUME NEW depth \in 0 .. top + 1
        PROVE  q[depth] = IF depth = 0 THEN {<<Hash(n), n>>}
                          ELSE UNION {InMemory(c[2]) : c \in q[depth - 1]}
    <3>1. CASE depth = top + 1
      <4>1. depth - 1 = top /\ top \in 0..top /\ depth # 0
        BY <3>1
      <4>2. q[depth - 1] = p[top]
        BY <2>3, <4>1
      <4>3. QED BY <2>2, <3>1, <4>1, <4>2
    <3>2. CASE depth # top + 1
      <4>1. depth \in 0..top /\ (depth # 0 => depth - 1 \in 0..top)
        BY <3>2
      <4>2. q[depth] = p[depth] /\ (depth # 0 => q[depth - 1] = p[depth - 1])
        BY <2>3, <4>1
      <4>3. QED BY <2>1, <4>1, <4>2 DEF SavedLevels
    <3>3. QED BY <3>1, <3>2
  <2>5. SavedLevels(q, top + 1, n)
    BY <2>4 DEF SavedLevels
  <2>6. QED BY <2>5
<1> HIDE DEF Q
<1>3. MaxKey \in Q
  BY <1>1, <1>2, MaxKeyAssumption, StepsInduction
<1>4. PICK p : SavedLevels(p, MaxKey, n)
  BY <1>3 DEF Q
<1> DEFINE q == [depth \in Depth |-> p[depth]]
<1>5. q = [depth \in Depth |->
             IF depth = 0 THEN {<<Hash(n), n>>}
             ELSE UNION {InMemory(c[2]) : c \in q[depth - 1]}]
  <2>1. \A depth \in Depth : depth # 0 => depth - 1 \in Depth
    BY MaxKeyAssumption DEF Depth
  <2>2. \A depth \in Depth : depth # 0 => q[depth - 1] = p[depth - 1]
    BY <2>1
  <2>3. \A depth \in Depth :
          q[depth] = IF depth = 0 THEN {<<Hash(n), n>>}
                     ELSE UNION {InMemory(c[2]) : c \in q[depth - 1]}
    <3>1. \A depth \in Depth : q[depth] = p[depth]
      OBVIOUS
    <3> HIDE DEF q
    <3>2. QED BY <1>4, <2>2, <3>1 DEF SavedLevels, Depth
  <2>4. q = [depth \in Depth |-> q[depth]]
    OBVIOUS
  <2> HIDE DEF q
  <2>5. QED BY <2>3, <2>4
<1> HIDE DEF q
<1> DEFINE level == CHOOSE level : level =
             [depth \in Depth |->
               IF depth = 0 THEN {<<Hash(n), n>>}
               ELSE UNION {InMemory(c[2]) : c \in level[depth - 1]}]
<1>6. level = [depth \in Depth |->
                 IF depth = 0 THEN {<<Hash(n), n>>}
                 ELSE UNION {InMemory(c[2]) : c \in level[depth - 1]}]
  BY <1>5, Zenon
<1>7. SavedNodes(n) = UNION {level[depth] : depth \in Depth}
  BY Zenon DEF SavedNodes
<1> HIDE DEF level
<1>8. SavedLevels(level, MaxKey, n)
  BY <1>6 DEF SavedLevels, Depth
<1>9. QED BY <1>7, <1>8

\* The children in memory are smaller trees under their hashes.
LEMMA InMemoryAre ==
  ASSUME NEW n, NEW lo, NEW hi, NEW d, NEW f, Tree(n, lo, hi, d, f),
         NEW c \in InMemory(n)
  PROVE  /\ c = <<Hash(c[2]), c[2]>>
         /\ \E l, h : Tree(c[2], l, h, d, f) /\ h - l < hi - lo
<1>1. IsInner(n) /\ lo \in Key /\ hi \in Int
  BY TreeIs DEF InMemory
<1>2. InnerTree(n, lo, hi, d, f)
  BY <1>1, TreeIs DEF LeafTree, IsLeaf, IsInner
<1>3. n.key \in Int /\ lo \in Int /\ lo < n.key /\ n.key < hi
  BY <1>1, <1>2 DEF InnerTree, Key
<1>4. \/ c = <<n.leftHash, n.left>> /\ n.left # NoNode
      \/ c = <<n.rightHash, n.right>> /\ n.right # NoNode
  BY <1>1 DEF InMemory
<1>5. CASE c = <<n.leftHash, n.left>> /\ n.left # NoNode
  <2>1. LeftIn(d, n) = n.left
    BY <1>5 DEF LeftIn
  <2>2. Tree(n.left, lo, n.key, d, f) /\ n.leftHash = Hash(n.left)
    BY <1>2, <2>1 DEF InnerTree
  <2>3. n.key - lo < hi - lo
    BY <1>1, <1>3
  <2>4. c[2] = n.left
    BY <1>5
  <2>5. QED BY <1>5, <2>2, <2>3, <2>4
<1>6. CASE c = <<n.rightHash, n.right>> /\ n.right # NoNode
  <2>1. RightIn(d, n) = n.right
    BY <1>6 DEF RightIn
  <2>2. Tree(n.right, n.key, hi, d, f) /\ n.rightHash = Hash(n.right)
    BY <1>2, <2>1 DEF InnerTree
  <2>3. hi - n.key < hi - lo
    BY <1>1, <1>3
  <2>4. c[2] = n.right
    BY <1>6
  <2>5. QED BY <1>6, <2>2, <2>3, <2>4
<1>7. QED BY <1>4, <1>5, <1>6

\* The nodes of a save have their hashes, and the children in memory of every
\* one are among them.
LEMMA SavedNodesKeep ==
  ASSUME NEW n, NEW lo, NEW hi, NEW d, NEW f, Tree(n, lo, hi, d, f),
         hi <= MaxKey + 1
  PROVE  /\ <<Hash(n), n>> \in SavedNodes(n)
         /\ \A c \in SavedNodes(n) :
              /\ c = <<Hash(c[2]), c[2]>>
              /\ \E l, h : Tree(c[2], l, h, d, f)
              /\ InMemory(c[2]) \subseteq SavedNodes(n)
<1>1. PICK p : SavedLevels(p, MaxKey, n) /\ SavedNodes(n) = UNION {p[i] : i \in Depth}
  BY SavedNodesAre
<1> DEFINE Good(c, depth) ==
             /\ c = <<Hash(c[2]), c[2]>>
             /\ \E l, h : Tree(c[2], l, h, d, f) /\ h - l <= MaxKey - depth
           Q == {depth \in Nat : depth <= MaxKey => \A c \in p[depth] : Good(c, depth)}
<1>2. MaxKey \in Nat /\ lo \in Key /\ lo \in Int /\ hi \in Int /\ lo > 0
  BY TreeIs, MaxKeyAssumption DEF Key
<1>3. p[0] = {<<Hash(n), n>>}
  <2>1. 0 \in 0..MaxKey
    BY <1>2
  <2>2. QED BY <1>1, <2>1 DEF SavedLevels
<1>4. \A depth \in Nat : depth + 1 <= MaxKey =>
        p[depth + 1] = UNION {InMemory(c[2]) : c \in p[depth]}
  <2> SUFFICES ASSUME NEW depth \in Nat, depth + 1 <= MaxKey
               PROVE  p[depth + 1] = UNION {InMemory(c[2]) : c \in p[depth]}
    OBVIOUS
  <2>1. depth + 1 \in 0..MaxKey /\ depth + 1 # 0 /\ (depth + 1) - 1 = depth
    BY <1>2
  <2>2. QED BY <1>1, <2>1 DEF SavedLevels
<1>5. 0 \in Q
  <2>1. hi - lo <= MaxKey - 0
    BY <1>2
  <2>2. Good(<<Hash(n), n>>, 0)
    BY <2>1
  <2>3. QED BY <1>3, <2>2
<1>6. ASSUME NEW depth \in Nat, depth \in Q PROVE depth + 1 \in Q
  <2> SUFFICES ASSUME depth + 1 <= MaxKey, NEW c \in p[depth + 1]
               PROVE  Good(c, depth + 1)
    OBVIOUS
  <2>1. PICK b \in p[depth] : c \in InMemory(b[2])
    BY <1>4
  <2>2. Good(b, depth)
    BY <1>2, <1>6
  <2>3. PICK l, h : Tree(b[2], l, h, d, f) /\ h - l <= MaxKey - depth
    BY <2>2
  <2>4. c = <<Hash(c[2]), c[2]>> /\ \E i, j : Tree(c[2], i, j, d, f) /\ j - i < h - l
    BY <2>1, <2>3, InMemoryAre
  <2>5. PICK i, j : Tree(c[2], i, j, d, f) /\ j - i < h - l
    BY <2>4
  <2>6. l \in Int /\ h \in Int /\ i \in Int /\ j \in Int
    BY <2>3, <2>5, TreeIs DEF Key
  <2>7. j - i <= MaxKey - (depth + 1)
    BY <1>2, <2>3, <2>5, <2>6
  <2>8. QED BY <2>4, <2>5, <2>7
<1> HIDE DEF Q
<1>7. Nat \subseteq Q
  BY <1>5, <1>6, StepsInduction
<1>8. \A depth \in Depth : \A c \in p[depth] : Good(c, depth)
  <2> SUFFICES ASSUME NEW depth \in Depth PROVE \A c \in p[depth] : Good(c, depth)
    OBVIOUS
  <2>1. depth \in Nat /\ depth <= MaxKey
    BY <1>2 DEF Depth
  <2>2. QED BY <1>7, <2>1 DEF Q
<1>9. ASSUME NEW c \in SavedNodes(n)
      PROVE  /\ c = <<Hash(c[2]), c[2]>>
             /\ \E l, h : Tree(c[2], l, h, d, f)
             /\ InMemory(c[2]) \subseteq SavedNodes(n)
  <2>1. PICK depth \in Depth : c \in p[depth]
    BY <1>1
  <2>2. Good(c, depth)
    BY <1>8, <2>1
  <2>3. PICK l, h : Tree(c[2], l, h, d, f) /\ h - l <= MaxKey - depth
    BY <2>2
  <2>4. l \in Int /\ h \in Int /\ l < h
    BY <2>3, TreeIs DEF Key
  <2>5. depth \in Nat /\ depth + 1 <= MaxKey /\ depth + 1 \in Depth
    BY <1>2, <2>3, <2>4 DEF Depth
  <2>6. InMemory(c[2]) \subseteq p[depth + 1]
    BY <1>4, <2>1, <2>5
  <2>7. p[depth + 1] \subseteq SavedNodes(n)
    BY <1>1, <2>5
  <2>8. QED BY <2>2, <2>3, <2>6, <2>7
<1>10. <<Hash(n), n>> \in SavedNodes(n)
  <2>1. 0 \in Depth
    BY <1>2 DEF Depth
  <2>2. QED BY <1>1, <1>3, <2>1
<1>11. QED BY <1>9, <1>10

\* Every node of the database is a tree, stored under its hash.
DbSound(d) ==
  \A h \in DOMAIN d :
    /\ Hash(d[h]) = h /\ Stored(d[h]) = d[h]
    /\ \E lo, hi, f : Tree(d[h], lo, hi, d, f)

\* A sound database holds nodes.
LEMMA SoundIsTyped ==
  ASSUME NEW d, DbSound(d)
  PROVE  DbTyped(d)
<1> SUFFICES ASSUME NEW h \in DOMAIN d PROVE Typed(d[h])
  BY DEF DbTyped
<1>1. PICK lo, hi, f : Tree(d[h], lo, hi, d, f)
  BY DEF DbSound
<1>2. QED BY <1>1, TreeIsTyped

\* A stored node keeps its hash, and stays as it is when stored again.
LEMMA StoredKeeps ==
  ASSUME NEW n, Typed(n)
  PROVE  Hash(Stored(n)) = Hash(n) /\ Stored(Stored(n)) = Stored(n)
<1>1. CASE LeafShape(n)
  BY <1>1, Kinds DEF Stored, IsLeaf
<1>2. CASE InnerShape(n)
  <2> DEFINE s == [kind |-> "inner", key |-> n.key, height |-> n.height,
                   size |-> n.size, version |-> n.version, left |-> NoNode,
                   right |-> NoNode, leftHash |-> n.leftHash,
                   rightHash |-> n.rightHash]
  <2>1. Stored(n) = s
    BY <1>2, StoredIs
  <2>2. InnerShape(s) /\ ~IsLeaf(s) /\ ~IsLeaf(n)
    BY <1>2, Kinds DEF InnerShape, IsLeaf
  <2>3. Hash(s) = Hash(n)
    BY <2>2 DEF Hash
  <2>4. Stored(s) = s
    BY <2>2, StoredIs
  <2>5. QED BY <2>1, <2>3, <2>4
<1>3. QED BY <1>1, <1>2 DEF Typed

\* A save of the tree n with contents f.
LEMMA WithNodesIs ==
  ASSUME DbSound(db), NEW n, NEW lo, NEW hi, NEW f, Tree(n, lo, hi, db, f),
         hi <= MaxKey + 1
  PROVE  LET e == WithNodes(SavedNodes(n)) IN
         /\ Extends(db, e)
         /\ \A c \in SavedNodes(n) : c[1] \in DOMAIN e /\ e[c[1]] = Stored(c[2])
         /\ \A h \in DOMAIN e : h \in DOMAIN db \/ \E c \in SavedNodes(n) : h = c[1]
<1> DEFINE nodes == SavedNodes(n)
           e == WithNodes(nodes)
           Under(h) == {c \in nodes : c[1] = h}
<1>1. \A c \in nodes : c = <<Hash(c[2]), c[2]>> /\ \E l, h : Tree(c[2], l, h, db, f)
  BY SavedNodesKeep
<1>2. /\ DOMAIN e = DOMAIN db \cup {c[1] : c \in nodes}
      /\ \A h \in DOMAIN e :
           e[h] = IF \E c \in nodes : c[1] = h
                  THEN Stored((CHOOSE c \in nodes : c[1] = h)[2]) ELSE db[h]
  BY DEF WithNodes
<1> HIDE DEF nodes, e
<1>3. ASSUME NEW c \in nodes
      PROVE  c[1] \in DOMAIN e /\ e[c[1]] = Stored(c[2])
  <2> DEFINE b == CHOOSE b \in nodes : b[1] = c[1]
  <2>1. b \in nodes /\ b[1] = c[1]
    OBVIOUS
  <2>2. c[1] \in DOMAIN e /\ e[c[1]] = Stored(b[2])
    BY <1>2
  <2> HIDE DEF b
  <2>3. Hash(b[2]) = Hash(c[2])
    <3>1. b[1] = Hash(b[2])
      <4>1. b = <<Hash(b[2]), b[2]>>
        BY <1>1, <2>1
      <4>2. QED BY <4>1
    <3>2. c[1] = Hash(c[2])
      <4>1. c = <<Hash(c[2]), c[2]>>
        BY <1>1
      <4>2. QED BY <4>1
    <3>3. QED BY <2>1, <3>1, <3>2
  <2>4. Stored(b[2]) = Stored(c[2])
    <3>1. PICK l, h : Tree(b[2], l, h, db, f)
      BY <1>1, <2>1
    <3>2. PICK i, j : Tree(c[2], i, j, db, f)
      BY <1>1
    <3>3. QED BY <2>3, <3>1, <3>2, HashesTell
  <2>5. QED BY <2>2, <2>4
<1>4. ASSUME NEW h \in DOMAIN db PROVE h \in DOMAIN e /\ e[h] = db[h]
  <2>1. h \in DOMAIN e
    BY <1>2
  <2>2. CASE \E c \in nodes : c[1] = h
    <3>1. PICK c \in nodes : c[1] = h
      BY <2>2
    <3>2. c = <<Hash(c[2]), c[2]>> /\ e[h] = Stored(c[2])
      BY <1>1, <1>3, <3>1
    <3>3. Hash(c[2]) = h
      <4>1. c[1] = Hash(c[2])
        BY <3>2
      <4>2. QED BY <3>1, <4>1
    <3>4. PICK i, j : Tree(c[2], i, j, db, f)
      BY <1>1
    <3>5. PICK l, k, g : Tree(db[h], l, k, db, g)
      BY DEF DbSound
    <3>6. Hash(db[h]) = h /\ Stored(db[h]) = db[h]
      BY DEF DbSound
    <3>7. Stored(c[2]) = Stored(db[h])
      BY <3>3, <3>4, <3>5, <3>6, HashesTell
    <3>8. QED BY <2>1, <3>2, <3>6, <3>7
  <2>3. CASE ~ \E c \in nodes : c[1] = h
    BY <1>2, <2>1, <2>3
  <2>4. QED BY <2>2, <2>3
<1>5. \A h \in DOMAIN e : h \in DOMAIN db \/ \E c \in nodes : h = c[1]
  BY <1>2
<1>6. Extends(db, e)
  BY <1>4 DEF Extends
<1>7. QED BY <1>3, <1>5, <1>6 DEF nodes, e

\* After it the stored nodes are the trees they were.
LEMMA SavedTrees ==
  ASSUME DbSound(db), NEW n, NEW lo, NEW hi, NEW f, Tree(n, lo, hi, db, f),
         hi <= MaxKey + 1
  PROVE  \A c \in SavedNodes(n) : \A l, h :
           Tree(c[2], l, h, db, f)
             => Tree(Stored(c[2]), l, h, WithNodes(SavedNodes(n)), f)
<1> DEFINE nodes == SavedNodes(n)
           e == WithNodes(nodes)
           Q == {w \in Nat : \A c \in nodes : \A l, h :
                   Tree(c[2], l, h, db, f) /\ h - l = w => Tree(Stored(c[2]), l, h, e, f)}
<1>1. /\ Extends(db, e)
      /\ \A c \in nodes : c[1] \in DOMAIN e /\ e[c[1]] = Stored(c[2])
  BY WithNodesIs
<1>2. \A c \in nodes : InMemory(c[2]) \subseteq nodes
  BY SavedNodesKeep
<1> HIDE DEF nodes, e
<1>3. ASSUME NEW w \in Nat, \A v \in Nat : v < w => v \in Q
      PROVE  w \in Q
  <2> SUFFICES ASSUME NEW c \in nodes, NEW l, NEW h, Tree(c[2], l, h, db, f), h - l = w
               PROVE  Tree(Stored(c[2]), l, h, e, f)
    OBVIOUS
  <2> DEFINE m == c[2]
             s == Stored(m)
  <2>1. /\ l \in Key /\ h \in Int /\ l < h /\ Typed(m)
        /\ LeafTree(m, l, h, f) \/ InnerTree(m, l, h, db, f)
    BY TreeIs, TreeIsTyped
  <2>2. InMemory(m) \subseteq nodes
    BY <1>2
  <2> HIDE DEF m
  <2>3. CASE LeafTree(m, l, h, f)
    <3>1. s = m
      BY <2>3 DEF LeafTree, Stored
    <3>2. QED BY <2>1, <2>3, <3>1, LeafIsTree DEF m
  <2>4. CASE InnerTree(m, l, h, db, f)
    <3>1. /\ InnerShape(m) /\ IsInner(m) /\ m.key \in Key /\ l < m.key /\ m.key < h
          /\ Tree(LeftIn(db, m), l, m.key, db, f)
          /\ Tree(RightIn(db, m), m.key, h, db, f)
          /\ m.leftHash = Hash(LeftIn(db, m))
          /\ m.rightHash = Hash(RightIn(db, m))
      BY <2>4 DEF InnerTree
    <3>2. s = [kind |-> "inner", key |-> m.key, height |-> m.height,
               size |-> m.size, version |-> m.version, left |-> NoNode,
               right |-> NoNode, leftHash |-> m.leftHash,
               rightHash |-> m.rightHash]
      BY <3>1, StoredIs
    <3> HIDE DEF s
    <3>3. /\ InnerShape(s) /\ s.key = m.key /\ s.left = NoNode /\ s.right = NoNode
          /\ s.leftHash = m.leftHash /\ s.rightHash = m.rightHash
      BY <3>1, <3>2 DEF InnerShape
    <3>4. m.key - l \in Nat /\ m.key - l < w /\ h - m.key \in Nat /\ h - m.key < w
      BY <2>1, <3>1 DEF Key
    <3>5. ASSUME NEW x, NEW hash, NEW i, NEW j, NEW k,
                 hash = Hash(k), Tree(k, i, j, db, f),
                 j - i \in Nat, j - i < w,
                 k = IF x # NoNode THEN x
                     ELSE IF hash \in DOMAIN db THEN db[hash] ELSE Missing,
                 x # NoNode => <<hash, x>> \in nodes
          PROVE  /\ hash \in DOMAIN e
                 /\ Tree(e[hash], i, j, e, f)
                 /\ Hash(e[hash]) = hash
      <4>1. Typed(k) /\ k # Missing
        BY <3>5, TreeIsTyped
      <4>2. CASE x # NoNode
        <5>1. k = x /\ <<hash, x>> \in nodes
          BY <3>5, <4>2
        <5>2. hash \in DOMAIN e /\ e[hash] = Stored(x)
          <6> DEFINE b == <<hash, x>>
          <6>1. b[1] = hash /\ b[2] = x /\ b \in nodes
            BY <5>1
          <6> HIDE DEF b
          <6>2. QED BY <1>1, <6>1
        <5>3. j - i \in Q
          BY <1>3, <3>5
        <5>4. Tree(Stored(x), i, j, e, f)
          <6> DEFINE b == <<hash, x>>
          <6>1. b[2] = x /\ b \in nodes
            BY <5>1
          <6> HIDE DEF b
          <6>2. QED BY <3>5, <5>1, <5>3, <6>1
        <5>5. QED BY <3>5, <4>1, <5>1, <5>2, <5>4, StoredKeeps
      <4>3. CASE x = NoNode
        <5>1. hash \in DOMAIN db /\ k = db[hash]
          BY <3>5, <4>1, <4>3
        <5>2. hash \in DOMAIN e /\ e[hash] = k
          BY <1>1, <5>1 DEF Extends
        <5>3. QED BY <1>1, <3>5, <5>2, TreeExtends
      <4>4. QED BY <4>2, <4>3
    <3>6. m.left # NoNode => <<m.leftHash, m.left>> \in nodes
      <4> SUFFICES ASSUME m.left # NoNode PROVE <<m.leftHash, m.left>> \in InMemory(m)
        BY <2>2
      <4> QED BY <3>1 DEF InMemory
    <3>7. m.right # NoNode => <<m.rightHash, m.right>> \in nodes
      <4> SUFFICES ASSUME m.right # NoNode PROVE <<m.rightHash, m.right>> \in InMemory(m)
        BY <2>2
      <4> QED BY <3>1 DEF InMemory
    <3>8. /\ m.leftHash \in DOMAIN e
          /\ Tree(e[m.leftHash], l, m.key, e, f)
          /\ Hash(e[m.leftHash]) = m.leftHash
      BY <3>1, <3>4, <3>5, <3>6 DEF LeftIn
    <3>9. /\ m.rightHash \in DOMAIN e
          /\ Tree(e[m.rightHash], m.key, h, e, f)
          /\ Hash(e[m.rightHash]) = m.rightHash
      BY <3>1, <3>4, <3>5, <3>7 DEF RightIn
    <3>10. LeftIn(e, s) = e[m.leftHash] /\ RightIn(e, s) = e[m.rightHash]
      BY <3>3, <3>8, <3>9 DEF LeftIn, RightIn
    <3>11. Tree(s, l, h, e, f)
      <4> DEFINE left == e[m.leftHash]
                 right == e[m.rightHash]
      <4>1. /\ InnerShape(s) /\ s.key \in Key
            /\ Tree(left, l, s.key, e, f) /\ Tree(right, s.key, h, e, f)
            /\ LeftIn(e, s) = left /\ RightIn(e, s) = right
            /\ s.leftHash = Hash(left) /\ s.rightHash = Hash(right)
        BY <3>1, <3>3, <3>8, <3>9, <3>10
      <4> HIDE DEF left, right
      <4>2. QED BY <2>1, <4>1, Join
    <3>12. QED BY <3>11 DEF m, s
  <2>5. QED BY <2>1, <2>3, <2>4
<1>4. Nat \subseteq Q
  <2> HIDE DEF Q
  <2> QED BY <1>3, NumbersInduction
<1>5. ASSUME NEW c \in nodes, NEW l, NEW h, Tree(c[2], l, h, db, f)
      PROVE  Tree(Stored(c[2]), l, h, e, f)
  <2>1. l \in Key /\ h \in Int /\ l < h
    BY <1>5, TreeIs
  <2>2. h - l \in Nat
    BY <2>1 DEF Key
  <2>3. h - l \in Q
    <3> HIDE DEF Q
    <3> QED BY <1>4, <2>2
  <2>4. QED BY <1>5, <2>3
<1>6. QED BY <1>5 DEF nodes, e

\* A save keeps the database sound, extends it, and stores the tree in it.
LEMMA SaveKeeps ==
  ASSUME DbSound(db), NEW n, NEW lo, NEW hi, NEW f, Tree(n, lo, hi, db, f),
         hi <= MaxKey + 1
  PROVE  LET e == WithNodes(SavedNodes(n)) IN
         /\ DbSound(e)
         /\ Extends(db, e)
         /\ Tree(Stored(n), lo, hi, e, f)
         /\ Hash(n) \in DOMAIN e /\ e[Hash(n)] = Stored(n)
<1> DEFINE nodes == SavedNodes(n)
           e == WithNodes(nodes)
           top == <<Hash(n), n>>
<1>1. /\ Extends(db, e)
      /\ \A c \in nodes : c[1] \in DOMAIN e /\ e[c[1]] = Stored(c[2])
      /\ \A h \in DOMAIN e : h \in DOMAIN db \/ \E c \in nodes : h = c[1]
  BY WithNodesIs
<1>2. /\ top \in nodes
      /\ \A c \in nodes : /\ c = <<Hash(c[2]), c[2]>>
                          /\ \E l, h : Tree(c[2], l, h, db, f)
  BY SavedNodesKeep
<1>3. \A c \in nodes : \A l, h :
        Tree(c[2], l, h, db, f) => Tree(Stored(c[2]), l, h, e, f)
  BY SavedTrees
<1>4. top[1] = Hash(n) /\ top[2] = n
  OBVIOUS
<1> HIDE DEF nodes, e, top
<1>5. /\ Tree(Stored(n), lo, hi, e, f)
      /\ Hash(n) \in DOMAIN e /\ e[Hash(n)] = Stored(n)
  BY <1>1, <1>2, <1>3, <1>4
<1>6. ASSUME NEW h \in DOMAIN e
      PROVE  /\ Hash(e[h]) = h /\ Stored(e[h]) = e[h]
             /\ \E i, j, g : Tree(e[h], i, j, e, g)
  <2>1. CASE h \in DOMAIN db
    <3>1. e[h] = db[h]
      BY <1>1, <2>1 DEF Extends
    <3>2. Hash(db[h]) = h /\ Stored(db[h]) = db[h]
      BY <2>1 DEF DbSound
    <3>3. PICK i, j, g : Tree(db[h], i, j, db, g)
      BY <2>1 DEF DbSound
    <3>4. Tree(db[h], i, j, e, g)
      BY <1>1, <3>3, TreeExtends
    <3>5. QED BY <3>1, <3>2, <3>4
  <2>2. CASE \E c \in nodes : h = c[1]
    <3>1. PICK c \in nodes : h = c[1]
      BY <2>2
    <3>2. PICK i, j : Tree(c[2], i, j, db, f)
      BY <1>2
    <3>3. Tree(Stored(c[2]), i, j, e, f) /\ e[h] = Stored(c[2])
      BY <1>1, <1>3, <3>1, <3>2
    <3>4. h = Hash(c[2])
      <4>1. c = <<Hash(c[2]), c[2]>>
        BY <1>2
      <4>2. c[1] = Hash(c[2])
        BY <4>1
      <4>3. QED BY <3>1, <4>2
    <3>5. Typed(c[2])
      BY <3>2, TreeIsTyped
    <3>6. QED BY <3>3, <3>4, <3>5, StoredKeeps
  <2>3. QED BY <1>1, <2>1, <2>2
<1>7. DbSound(e)
  BY <1>6 DEF DbSound
<1>8. QED BY <1>1, <1>5, <1>7 DEF nodes, e

-----------------------------------------------------------------------------
(* The inductive invariant.                                                *)

\* The tree n has the contents f.
Holds(n, d, f) ==
  \/ n = NoNode /\ f = NothingWritten
  \/ \E lo \in Key : /\ Tree(n, lo, MaxKey + 1, d, f)
                     /\ \A k \in Key : k < lo => f[k] = NoNode

RootIn(d, hash) ==
  IF hash = EmptyHash THEN NoNode
  ELSE IF hash \in DOMAIN d THEN d[hash] ELSE Missing

Contents ==
  [Key -> {NewLeaf(k, value, v) : k \in Key, value \in Value, v \in 1..MaxVersion}
            \cup {NoNode}]

VersionsTyped ==
  /\ loadedVersion \in 0..MaxVersion
  /\ roots \in Seq(DOMAIN db \cup {EmptyHash}) /\ Len(roots) = loadedVersion
  /\ saved \in Seq(Contents) /\ Len(saved) = loadedVersion
  /\ written \in Contents

VersionsHold(d) ==
  \A v \in 1..loadedVersion : Holds(RootIn(d, roots[v]), d, saved[v])

\* The database is sound and has the tree of every version, and the current
\* tree has what was written: the invariant that is inductive.
TreesHold ==
  /\ VersionsTyped
  /\ DbSound(db)
  /\ Holds(root, db, written)
  /\ VersionsHold(db)

\* The root of a version is looked up by its hash.
LEMMA RootIs ==
  ASSUME VersionsTyped, NEW v \in 1..loadedVersion
  PROVE  RootOf(v) = RootIn(db, roots[v])
<1>1. v # 0
  BY DEF VersionsTyped
<1>2. QED BY <1>1 DEF RootOf, RootIn, GetNode

\* A tree stays a tree when nodes are added to the database.
LEMMA HoldsExtends ==
  ASSUME NEW n, NEW d, NEW e, NEW f, Holds(n, d, f), Extends(d, e)
  PROVE  Holds(n, e, f)
<1>1. CASE n = NoNode /\ f = NothingWritten
  BY <1>1 DEF Holds
<1>2. CASE \E lo \in Key : /\ Tree(n, lo, MaxKey + 1, d, f)
                           /\ \A k \in Key : k < lo => f[k] = NoNode
  BY <1>2, TreeExtends DEF Holds
<1>3. QED BY <1>1, <1>2 DEF Holds

\* A set keeps the invariant.
LEMMA SetHolds ==
  ASSUME TreesHold, NEW key \in Key, NEW value \in Value, Set(key, value)
  PROVE  TreesHold'
<1> DEFINE version == loadedVersion + 1
           leaf == NewLeaf(key, value, version)
           next == [written EXCEPT ![key] = leaf]
           result == IF root = NoNode THEN leaf
                     ELSE RecursiveSet(root, key, value, version)
<1>1. /\ UNCHANGED <<db, roots, loadedVersion, saved>>
      /\ version <= MaxVersion
      /\ IF IsPanic(result) THEN UNCHANGED <<root, written>>
         ELSE root' = result /\ written' = next
  BY DEF Set
<1>2. DbSound(db') /\ VersionsHold(db)'
  <2>1. DbSound(db)
    BY DEF TreesHold
  <2>2. \A v \in 1..loadedVersion : Holds(RootIn(db, roots[v]), db, saved[v])
    BY DEF TreesHold, VersionsHold
  <2>3. \A v \in 1..loadedVersion' : Holds(RootIn(db', roots'[v]), db', saved'[v])
    BY <1>1, <2>2
  <2>4. QED BY <1>1, <2>1, <2>3 DEF VersionsHold
<1>3. loadedVersion \in Nat /\ MaxVersion \in Nat /\ version \in 1..MaxVersion
  BY <1>1, MaxVersionAssumption DEF TreesHold, VersionsTyped
<1> HIDE DEF version
<1>4. leaf \in {NewLeaf(k, val, v) : k \in Key, val \in Value, v \in 1..MaxVersion}
  BY <1>3
<1>5. written \in Contents /\ next \in Contents
  <2>1. written \in Contents
    BY DEF TreesHold, VersionsTyped
  <2> HIDE DEF leaf
  <2>2. QED BY <1>4, <2>1 DEF Contents
<1>6. VersionsTyped'
  BY <1>1, <1>5 DEF TreesHold, VersionsTyped, Contents
<1>7. Updates(next, written, key) /\ next[key] = leaf
  BY <1>5 DEF Updates, Contents
<1> HIDE DEF next
<1>8. IsPanic(result) \/ Holds(result, db, next)
  <2>1. MaxKey \in Nat /\ key \in Int /\ key < MaxKey + 1
    BY MaxKeyAssumption DEF Key
  <2>2. CASE root = NoNode
    <3>1. written = NothingWritten
      <4>1. Holds(root, db, written)
        BY DEF TreesHold
      <4>2. ASSUME NEW lo, Tree(root, lo, MaxKey + 1, db, written) PROVE FALSE
        BY <2>2, <4>2, TreeIsTyped
      <4>3. QED BY <4>1, <4>2 DEF Holds
    <3>2. \A k \in Key : k # key => next[k] = NoNode
      BY <1>7, <3>1 DEF Updates, NothingWritten
    <3>3. LeafShape(leaf) /\ IsLeaf(leaf) /\ leaf.key = key
      BY DEF LeafShape, IsLeaf, NewLeaf
    <3> HIDE DEF leaf
    <3>4. LeafTree(leaf, key, MaxKey + 1, next)
      BY <1>7, <2>1, <3>2, <3>3 DEF LeafTree, Key
    <3>5. Tree(leaf, key, MaxKey + 1, db, next)
      BY <2>1, <3>4, LeafIsTree
    <3>6. \A k \in Key : k < key => next[k] = NoNode
      BY <2>1, <3>2
    <3>7. Holds(leaf, db, next)
      BY <3>5, <3>6 DEF Holds
    <3>8. QED BY <2>2, <3>7
  <2>3. CASE root # NoNode
    <3>1. PICK lo \in Key : /\ Tree(root, lo, MaxKey + 1, db, written)
                            /\ \A k \in Key : k < lo => written[k] = NoNode
      BY <2>3 DEF TreesHold, Holds
    <3>2. DbTyped(db)
      BY SoundIsTyped DEF TreesHold
    <3>3. \/ IsPanic(RecursiveSet(root, key, value, version))
          \/ Tree(RecursiveSet(root, key, value, version), Lower(key, lo),
                  MaxKey + 1, db, next)
      BY <1>7, <2>1, <3>1, <3>2, SetKeeps
    <3>4. Lower(key, lo) \in Key
      BY DEF Lower
    <3>5. \A k \in Key : k < Lower(key, lo) => next[k] = NoNode
      BY <1>7, <2>1, <3>1 DEF Lower, Updates, Key
    <3>6. QED BY <2>3, <3>3, <3>4, <3>5 DEF Holds
  <2>4. QED BY <2>2, <2>3
<1> HIDE DEF result
<1>9. Holds(root', db', written')
  <2>1. CASE IsPanic(result)
    BY <1>1, <2>1 DEF TreesHold
  <2>2. CASE ~IsPanic(result)
    <3>1. root' = result /\ written' = next /\ db' = db /\ Holds(result, db, next)
      BY <1>1, <1>8, <2>2
    <3>2. QED BY <3>1
  <2>3. QED BY <2>1, <2>2
<1>10. QED BY <1>2, <1>6, <1>9 DEF TreesHold

\* No node has the hash of the empty tree.
LEMMA HashIsNotEmpty ==
  ASSUME NEW n, Typed(n)
  PROVE  Hash(n) # EmptyHash
<1>1. Hash(n).height \in Nat
  BY Kinds DEF Typed, Hash, IsLeaf, InnerShape
<1>2. EmptyHash.height = -1
  BY DEF EmptyHash
<1>3. QED BY <1>1, <1>2

\* A save keeps the invariant.
LEMMA SaveHolds ==
  ASSUME TreesHold, SaveVersion
  PROVE  TreesHold'
<1> DEFINE version == loadedVersion + 1
           hash == IF root = NoNode THEN EmptyHash ELSE Hash(root)
<1>1. /\ loadedVersion' = version /\ version \in 1..MaxVersion
      /\ roots' = Append(roots, hash)
      /\ saved' = Append(saved, written) /\ written' = written
  BY MaxVersionAssumption DEF SaveVersion, TreesHold, VersionsTyped
<1>2. /\ roots \in Seq(DOMAIN db \cup {EmptyHash}) /\ Len(roots) = loadedVersion
      /\ saved \in Seq(Contents) /\ Len(saved) = loadedVersion
      /\ written \in Contents /\ loadedVersion \in Nat
  BY DEF TreesHold, VersionsTyped
<1>3. DbSound(db) /\ Holds(root, db, written) /\ VersionsHold(db)
  BY DEF TreesHold
<1> HIDE DEF hash
<1>4. /\ DbSound(db') /\ Extends(db, db')
      /\ hash \in DOMAIN db' \cup {EmptyHash}
      /\ Holds(root', db', written)
      /\ Holds(RootIn(db', hash), db', written)
  <2>1. CASE root = NoNode
    <3>1. db' = db /\ root' = root /\ hash = EmptyHash
      BY <2>1 DEF SaveVersion, hash
    <3>2. RootIn(db', hash) = root
      BY <2>1, <3>1 DEF RootIn
    <3>3. Extends(db, db')
      BY <3>1 DEF Extends
    <3>4. QED BY <1>3, <3>1, <3>2, <3>3
  <2>2. CASE root # NoNode
    <3>1. PICK lo \in Key : /\ Tree(root, lo, MaxKey + 1, db, written)
                            /\ \A k \in Key : k < lo => written[k] = NoNode
      BY <1>3, <2>2 DEF Holds
    <3>2. /\ db' = WithNodes(SavedNodes(root)) /\ root' = Stored(root)
          /\ hash = Hash(root)
      BY <2>2 DEF SaveVersion, hash
    <3>3. MaxKey + 1 <= MaxKey + 1
      BY MaxKeyAssumption
    <3>4. /\ DbSound(db') /\ Extends(db, db')
          /\ Tree(root', lo, MaxKey + 1, db', written)
          /\ hash \in DOMAIN db' /\ db'[hash] = root'
      BY <1>3, <3>1, <3>2, <3>3, SaveKeeps
    <3>5. Holds(root', db', written)
      BY <3>1, <3>4 DEF Holds
    <3>6. hash # EmptyHash
      BY <3>1, <3>2, TreeIsTyped, HashIsNotEmpty
    <3>7. RootIn(db', hash) = root'
      BY <3>4, <3>6 DEF RootIn
    <3>8. QED BY <3>4, <3>5, <3>7
  <2>3. QED BY <2>1, <2>2
<1>5. /\ Len(roots') = version /\ Len(saved') = version
      /\ roots' \in Seq(DOMAIN db' \cup {EmptyHash}) /\ saved' \in Seq(Contents)
      /\ roots'[version] = hash /\ saved'[version] = written
      /\ \A v \in 1..loadedVersion : roots'[v] = roots[v] /\ saved'[v] = saved[v]
  <2> DEFINE S == DOMAIN db \cup {EmptyHash}
             T == DOMAIN db' \cup {EmptyHash}
  <2>1. S \subseteq T /\ hash \in T
    BY <1>4 DEF Extends
  <2>2. roots \in Seq(S)
    BY <1>2
  <2> HIDE DEF S, T
  <2>3. roots \in Seq(T)
    BY <2>1, <2>2
  <2>4. /\ Append(roots, hash) \in Seq(T)
        /\ Len(Append(roots, hash)) = version
        /\ Append(roots, hash)[version] = hash
        /\ \A v \in 1..loadedVersion : Append(roots, hash)[v] = roots[v]
    BY <1>2, <2>1, <2>3
  <2> HIDE DEF version
  <2>5. /\ Append(saved, written) \in Seq(Contents)
        /\ Len(Append(saved, written)) = version
        /\ Append(saved, written)[version] = written
        /\ \A v \in 1..loadedVersion : Append(saved, written)[v] = saved[v]
    BY <1>2 DEF version
  <2>6. QED BY <1>1, <2>4, <2>5 DEF T
<1>6. VersionsTyped'
  <2>1. version \in 0..MaxVersion
    BY <1>1, <1>2
  <2>2. QED BY <1>1, <1>2, <1>5, <2>1 DEF VersionsTyped, Contents
<1>7. ASSUME NEW v \in 1..version
      PROVE  Holds(RootIn(db', roots'[v]), db', saved'[v])
  <2>1. CASE v = version
    BY <1>4, <1>5, <2>1
  <2>2. CASE v # version
    <3>1. v \in 1..loadedVersion
      BY <1>2, <2>2
    <3>2. Holds(RootIn(db, roots[v]), db, saved[v])
      BY <1>3, <3>1 DEF VersionsHold
    <3>3. RootIn(db', roots[v]) = RootIn(db, roots[v])
      <4>1. roots[v] \in DOMAIN db \cup {EmptyHash}
        BY <1>2, <3>1
      <4>2. QED BY <1>4, <4>1 DEF RootIn, Extends
    <3>4. Holds(RootIn(db, roots[v]), db', saved[v])
      BY <1>4, <3>2, HoldsExtends
    <3>5. QED BY <1>5, <3>1, <3>3, <3>4
  <2>3. QED BY <2>1, <2>2
<1>8. VersionsHold(db)'
  BY <1>1, <1>7 DEF VersionsHold
<1>9. Holds(root', db', written')
  BY <1>1, <1>4
<1>10. QED BY <1>4, <1>6, <1>8, <1>9 DEF TreesHold

\* Opening the tree again keeps the invariant.
LEMMA ReopenHolds ==
  ASSUME TreesHold, Reopen
  PROVE  TreesHold'
<1>1. /\ UNCHANGED <<db, roots, loadedVersion, saved>>
      /\ root' = RootOf(loadedVersion)
      /\ written' = IF loadedVersion = 0 THEN NothingWritten ELSE saved[loadedVersion]
  BY DEF Reopen
<1>2. /\ VersionsTyped /\ DbSound(db) /\ VersionsHold(db)
      /\ loadedVersion \in Nat /\ saved \in Seq(Contents) /\ Len(saved) = loadedVersion
  BY DEF TreesHold, VersionsTyped
<1>3. DbSound(db') /\ VersionsHold(db)'
  <2>1. \A v \in 1..loadedVersion' : Holds(RootIn(db', roots'[v]), db', saved'[v])
    BY <1>1, <1>2 DEF VersionsHold
  <2>2. QED BY <1>1, <1>2, <2>1 DEF VersionsHold
<1>4. written' \in Contents /\ Holds(root', db', written')
  <2>1. CASE loadedVersion = 0
    <3>1. root' = NoNode /\ written' = NothingWritten
      BY <1>1, <2>1 DEF RootOf
    <3>2. NothingWritten \in Contents
      BY DEF NothingWritten, Contents
    <3>3. QED BY <3>1, <3>2 DEF Holds
  <2>2. CASE loadedVersion # 0
    <3>1. loadedVersion \in 1..loadedVersion
      BY <1>2, <2>2
    <3>2. RootOf(loadedVersion) = RootIn(db, roots[loadedVersion])
      BY <1>2, <3>1, RootIs
    <3>3. Holds(RootIn(db, roots[loadedVersion]), db, saved[loadedVersion])
      BY <1>2, <3>1 DEF VersionsHold
    <3>4. saved[loadedVersion] \in Contents
      BY <1>2, <3>1
    <3>5. QED BY <1>1, <2>2, <3>2, <3>3, <3>4
  <2>3. QED BY <2>1, <2>2
<1>5. VersionsTyped'
  BY <1>1, <1>2, <1>4 DEF VersionsTyped, Contents
<1>6. QED BY <1>3, <1>4, <1>5 DEF TreesHold

\* Always: the database is sound and has every version, and the current tree
\* has what was written (Tree::set, Tree::save_version, Tree::new).
THEOREM TreesAlwaysHold == Spec => []TreesHold
<1>1. Init => TreesHold
  <2> SUFFICES ASSUME Init PROVE TreesHold
    OBVIOUS
  <2>1. /\ root = NoNode /\ db = <<>> /\ roots = <<>> /\ loadedVersion = 0
        /\ written = NothingWritten /\ saved = <<>>
    BY DEF Init
  <2>2. VersionsTyped
    <3>1. NothingWritten \in Contents
      BY DEF NothingWritten, Contents
    <3>2. <<>> \in Seq(Contents) /\ <<>> \in Seq(DOMAIN db \cup {EmptyHash}) /\ Len(<<>>) = 0
      OBVIOUS
    <3>3. 0 \in 0..MaxVersion
      BY MaxVersionAssumption
    <3>4. QED BY <2>1, <3>1, <3>2, <3>3 DEF VersionsTyped
  <2>3. DbSound(db)
    <3>1. DOMAIN <<>> = {}
      OBVIOUS
    <3>2. QED BY <2>1, <3>1 DEF DbSound
  <2>4. Holds(root, db, written) /\ VersionsHold(db)
    BY <2>1 DEF Holds, VersionsHold
  <2>5. QED BY <2>2, <2>3, <2>4 DEF TreesHold
<1>2. TreesHold /\ [Next]_vars => TreesHold'
  <2> SUFFICES ASSUME TreesHold, [Next]_vars PROVE TreesHold'
    OBVIOUS
  <2>1. CASE \E key \in Key, value \in Value : Set(key, value)
    BY <2>1, SetHolds
  <2>2. CASE SaveVersion
    BY <2>2, SaveHolds
  <2>3. CASE Reopen
    BY <2>3, ReopenHolds
  <2>4. CASE UNCHANGED vars
    <3>1. /\ root' = root /\ db' = db /\ roots' = roots /\ written' = written
          /\ loadedVersion' = loadedVersion /\ saved' = saved
      BY <2>4 DEF vars
    <3>2. VersionsTyped' /\ VersionsHold(db)'
      BY <3>1 DEF TreesHold, VersionsTyped, VersionsHold, Contents
    <3>3. DbSound(db') /\ Holds(root', db', written')
      BY <3>1 DEF TreesHold
    <3>4. QED BY <3>2, <3>3 DEF TreesHold
  <2>5. QED BY <2>1, <2>2, <2>3, <2>4 DEF Next
<1>3. QED BY <1>1, <1>2, PTL DEF Spec

-----------------------------------------------------------------------------
(* What a get finds.                                                       *)

LEMMA HoldsReads ==
  ASSUME DbTyped(db), NEW n, NEW f, Holds(n, db, f)
  PROVE  Reads(n, f)
<1>1. CASE n = NoNode /\ f = NothingWritten
  BY <1>1 DEF Reads, Get, NothingWritten
<1>2. CASE \E lo \in Key : /\ Tree(n, lo, MaxKey + 1, db, f)
                           /\ \A k \in Key : k < lo => f[k] = NoNode
  BY <1>2, GetIs DEF Reads
<1>3. QED BY <1>1, <1>2 DEF Holds

\* A get on the current tree finds exactly what was set (Tree::get after any
\* sets, rotations, saves and reopenings).
THEOREM GetsAreAlwaysExact == Spec => []GetIsExact
<1>1. TreesHold => GetIsExact
  BY HoldsReads, SoundIsTyped DEF TreesHold, GetIsExact
<1>2. QED BY <1>1, TreesAlwaysHold, PTL

\* A get on a saved version finds exactly what it was saved with, whatever has
\* been set and saved since (Tree::new on the roots of NodeDB).
THEOREM SavedVersionsStayReadable == Spec => []SavedVersionsReadable
<1>1. ASSUME TreesHold PROVE SavedVersionsReadable
  <2> SUFFICES ASSUME NEW v \in 1..loadedVersion PROVE Reads(RootOf(v), saved[v])
    BY DEF SavedVersionsReadable
  <2>1. RootOf(v) = RootIn(db, roots[v]) /\ Holds(RootIn(db, roots[v]), db, saved[v])
    BY <1>1, RootIs DEF TreesHold, VersionsHold
  <2>2. QED BY <1>1, <2>1, HoldsReads, SoundIsTyped DEF TreesHold
<1>2. QED BY <1>1, TreesAlwaysHold, PTL

-----------------------------------------------------------------------------
(* What the hashes say.                                                    *)

NodeLevels(p, top, n) ==
  \A depth \in 0..top :
    p[depth] = IF depth = 0 THEN {n} \ {NoNode}
               ELSE UNION {Children(m) : m \in p[depth - 1]}

\* The nodes of a tree are those of MaxKey levels.
LEMMA NodesAre ==
  ASSUME NEW n
  PROVE  \E p : NodeLevels(p, MaxKey, n) /\ Nodes(n) = UNION {p[i] : i \in Depth}
<1> DEFINE Q == {top \in Nat : \E p : NodeLevels(p, top, n)}
<1>1. 0 \in Q
  <2> DEFINE p == [depth \in 0..0 |-> {n} \ {NoNode}]
  <2>1. NodeLevels(p, 0, n)
    BY DEF NodeLevels
  <2>2. QED BY <2>1
<1>2. ASSUME NEW top \in Nat, top \in Q PROVE top + 1 \in Q
  <2>1. PICK p : NodeLevels(p, top, n)
    BY <1>2
  <2> DEFINE last == UNION {Children(m) : m \in p[top]}
             q == [depth \in 0 .. top + 1 |-> IF depth = top + 1 THEN last ELSE p[depth]]
  <2>2. q[top + 1] = last
    OBVIOUS
  <2>3. \A depth \in 0..top : q[depth] = p[depth]
    OBVIOUS
  <2> HIDE DEF q
  <2>4. ASSUME NEW depth \in 0 .. top + 1
        PROVE  q[depth] = IF depth = 0 THEN {n} \ {NoNode}
                          ELSE UNION {Children(m) : m \in q[depth - 1]}
    <3>1. CASE depth = top + 1
      <4>1. depth - 1 = top /\ top \in 0..top /\ depth # 0
        BY <3>1
      <4>2. q[depth - 1] = p[top]
        BY <2>3, <4>1
      <4>3. QED BY <2>2, <3>1, <4>1, <4>2
    <3>2. CASE depth # top + 1
      <4>1. depth \in 0..top /\ (depth # 0 => depth - 1 \in 0..top)
        BY <3>2
      <4>2. q[depth] = p[depth] /\ (depth # 0 => q[depth - 1] = p[depth - 1])
        BY <2>3, <4>1
      <4>3. QED BY <2>1, <4>1, <4>2 DEF NodeLevels
    <3>3. QED BY <3>1, <3>2
  <2>5. NodeLevels(q, top + 1, n)
    BY <2>4 DEF NodeLevels
  <2>6. QED BY <2>5
<1> HIDE DEF Q
<1>3. MaxKey \in Q
  BY <1>1, <1>2, MaxKeyAssumption, StepsInduction
<1>4. PICK p : NodeLevels(p, MaxKey, n)
  BY <1>3 DEF Q
<1> DEFINE q == [depth \in Depth |-> p[depth]]
<1>5. q = [depth \in Depth |->
             IF depth = 0 THEN {n} \ {NoNode}
             ELSE UNION {Children(m) : m \in q[depth - 1]}]
  <2>1. \A depth \in Depth : depth # 0 => depth - 1 \in Depth
    BY MaxKeyAssumption DEF Depth
  <2>2. \A depth \in Depth : depth # 0 => q[depth - 1] = p[depth - 1]
    BY <2>1
  <2>3. \A depth \in Depth :
          q[depth] = IF depth = 0 THEN {n} \ {NoNode}
                     ELSE UNION {Children(m) : m \in q[depth - 1]}
    <3>1. \A depth \in Depth : q[depth] = p[depth]
      OBVIOUS
    <3> HIDE DEF q
    <3>2. QED BY <1>4, <2>2, <3>1 DEF NodeLevels, Depth
  <2>4. q = [depth \in Depth |-> q[depth]]
    OBVIOUS
  <2> HIDE DEF q
  <2>5. QED BY <2>3, <2>4
<1> HIDE DEF q
<1> DEFINE level == CHOOSE level : level =
             [depth \in Depth |->
               IF depth = 0 THEN {n} \ {NoNode}
               ELSE UNION {Children(m) : m \in level[depth - 1]}]
<1>6. level = [depth \in Depth |->
                 IF depth = 0 THEN {n} \ {NoNode}
                 ELSE UNION {Children(m) : m \in level[depth - 1]}]
  BY <1>5, Zenon
<1>7. Nodes(n) = UNION {level[depth] : depth \in Depth}
  BY Zenon DEF Nodes
<1> HIDE DEF level
<1>8. NodeLevels(level, MaxKey, n)
  BY <1>6 DEF NodeLevels, Depth
<1>9. QED BY <1>7, <1>8

\* The nodes of a tree are trees.
LEMMA NodesAreTrees ==
  ASSUME DbTyped(db), NEW n, NEW f, Holds(n, db, f)
  PROVE  \A m \in Nodes(n) : \E lo, hi : Tree(m, lo, hi, db, f)
<1>1. PICK p : NodeLevels(p, MaxKey, n) /\ Nodes(n) = UNION {p[i] : i \in Depth}
  BY NodesAre
<1> DEFINE Q == {depth \in Nat : depth <= MaxKey =>
                   \A m \in p[depth] : \E lo, hi : Tree(m, lo, hi, db, f)}
<1>2. MaxKey \in Nat
  BY MaxKeyAssumption
<1>3. 0 \in Q
  <2>1. 0 \in 0..MaxKey
    BY <1>2
  <2>2. p[0] = {n} \ {NoNode}
    BY <1>1, <2>1 DEF NodeLevels
  <2>3. QED BY <2>2 DEF Holds
<1>4. ASSUME NEW depth \in Nat, depth \in Q PROVE depth + 1 \in Q
  <2> SUFFICES ASSUME depth + 1 <= MaxKey, NEW m \in p[depth + 1]
               PROVE  \E lo, hi : Tree(m, lo, hi, db, f)
    OBVIOUS
  <2>1. depth + 1 \in 0..MaxKey /\ depth + 1 # 0 /\ (depth + 1) - 1 = depth
    BY <1>2
  <2>2. PICK b \in p[depth] : m \in Children(b)
    <3>1. p[depth + 1] = UNION {Children(b) : b \in p[depth]}
      BY <1>1, <2>1 DEF NodeLevels
    <3>2. QED BY <3>1
  <2>3. PICK lo, hi : Tree(b, lo, hi, db, f)
    BY <1>2, <1>4
  <2>4. IsInner(b) /\ (m = LeftNode(b) \/ m = RightNode(b))
    BY <2>2 DEF Children
  <2>5. QED BY <2>3, <2>4, ChildrenAre
<1> HIDE DEF Q
<1>5. Nat \subseteq Q
  BY <1>3, <1>4, StepsInduction
<1>6. ASSUME NEW depth \in Depth, NEW m \in p[depth]
      PROVE  \E lo, hi : Tree(m, lo, hi, db, f)
  <2>1. depth \in Nat /\ depth <= MaxKey
    BY <1>2 DEF Depth
  <2>2. QED BY <1>5, <1>6, <2>1 DEF Q
<1>7. QED BY <1>1, <1>6

\* Every hash in the current tree is the hash of the child it stands for, in
\* memory or in the database: the root hash that a commit returns commits to
\* the whole tree (Node::hash, Tree::root_hash).
THEOREM HashesAreAlwaysExact == Spec => []HashesAreExact
<1>1. ASSUME TreesHold PROVE HashesAreExact
  <2> SUFFICES ASSUME NEW n \in Nodes(root)
               PROVE  /\ ~IsPanic(n)
                      /\ IsInner(n) => /\ n.leftHash = Hash(LeftNode(n))
                                       /\ n.rightHash = Hash(RightNode(n))
    BY DEF HashesAreExact
  <2>1. DbTyped(db) /\ Holds(root, db, written)
    BY <1>1, SoundIsTyped DEF TreesHold
  <2>2. PICK lo, hi : Tree(n, lo, hi, db, written)
    BY <2>1, NodesAreTrees
  <2>3. QED BY <2>1, <2>2, TreeIsTyped, ChildrenAre
<1>2. QED BY <1>1, TreesAlwaysHold, PTL

-----------------------------------------------------------------------------
(* What a range yields.  The delayed nodes are trees that lie one above    *)
(* the other, the lowest one last.                                         *)

Delayed(d, b, t, q, f) ==
  /\ q[0] = 0
  /\ \A i \in 1..Len(d) :
       /\ Tree(d[i], b[i], t[i], db, f)
       /\ q[i] \in Nat /\ q[i - 1] \in Nat
       /\ q[i - 1] + (2 * (t[i] - b[i]) - 1) <= q[i]
  /\ \A i, j \in 1..Len(d) : i < j => t[j] <= b[i]

\* The trees d have the keys of C, which are low at least, and fewer than w
\* nodes or as many.
Stacked(d, f, low, w, C) ==
  \E b, t, q :
    /\ Delayed(d, b, t, q, f)
    /\ q[Len(d)] <= w
    /\ \A i \in 1..Len(d) : low <= b[i]
    /\ C = {k \in Key : \E i \in 1..Len(d) : b[i] <= k /\ k < t[i]}

\* No delayed node.
LEMMA StackedEmpty ==
  ASSUME NEW f, NEW low, NEW w \in Nat
  PROVE  Stacked(<<>>, f, low, w, {})
<1> DEFINE q == [i \in {0} |-> 0]
<1>1. 1..Len(<<>>) = {} /\ q[Len(<<>>)] = 0
  OBVIOUS
<1> HIDE DEF q
<1>2. Delayed(<<>>, q, q, q, f)
  BY <1>1 DEF Delayed, q
<1>3. QED BY <1>1, <1>2 DEF Stacked

\* Delaying a tree below the others.
LEMMA Push ==
  ASSUME NEW S, NEW d \in Seq(S), NEW x, NEW f, NEW low \in Int, NEW w \in Int, NEW C,
         Stacked(d, f, low, w, C), NEW l, NEW h, Tree(x, l, h, db, f), h <= low
  PROVE  Stacked(Append(d, x), f, l, w + (2 * (h - l) - 1),
                 C \cup {k \in Key : l <= k /\ k < h})
<1> DEFINE e == Append(d, x)
           n == Len(d) + 1
<1>1. l \in Key /\ l \in Int /\ h \in Int /\ l < h
  BY TreeIs DEF Key
<1>2. Len(d) \in Nat /\ Len(e) = n /\ e[n] = x /\ \A i \in 1..Len(d) : e[i] = d[i]
  <2>1. d \in Seq(S \cup {x}) /\ x \in S \cup {x}
    OBVIOUS
  <2>2. QED BY <2>1
<1> HIDE DEF e
<1>3. PICK b, t, q : /\ Delayed(d, b, t, q, f)
                     /\ q[Len(d)] <= w
                     /\ \A i \in 1..Len(d) : low <= b[i]
                     /\ C = {k \in Key : \E i \in 1..Len(d) : b[i] <= k /\ k < t[i]}
  BY DEF Stacked
<1> DEFINE last == q[Len(d)] + (2 * (h - l) - 1)
           bb == [i \in 1..n |-> IF i = n THEN l ELSE b[i]]
           tt == [i \in 1..n |-> IF i = n THEN h ELSE t[i]]
           qq == [i \in 0..n |-> IF i = n THEN last ELSE q[i]]
<1>4. /\ bb[n] = l /\ tt[n] = h /\ qq[n] = last
      /\ \A i \in 1..Len(d) : bb[i] = b[i] /\ tt[i] = t[i]
      /\ \A i \in 0..Len(d) : qq[i] = q[i]
  BY <1>2
<1> HIDE DEF bb, tt, qq
<1>5. q[Len(d)] \in Nat
  <2>1. CASE Len(d) = 0
    BY <1>3, <2>1 DEF Delayed
  <2>2. CASE Len(d) # 0
    <3>1. Len(d) \in 1..Len(d)
      BY <1>2, <2>2
    <3>2. QED BY <1>3, <3>1 DEF Delayed
  <2>3. QED BY <2>1, <2>2
<1>6. last \in Nat /\ last <= w + (2 * (h - l) - 1)
  BY <1>1, <1>3, <1>5
<1>7. ASSUME NEW i \in 1..n
      PROVE  i = n \/ i \in 1..Len(d)
  BY <1>2
<1>8. \A i \in 1..Len(d) : Tree(d[i], b[i], t[i], db, f) /\ b[i] \in Int /\ t[i] \in Int /\ b[i] < t[i]
  <2>1. \A i \in 1..Len(d) : Tree(d[i], b[i], t[i], db, f)
    BY <1>3 DEF Delayed
  <2>2. \A i \in 1..Len(d) : b[i] \in Key /\ t[i] \in Int /\ b[i] < t[i]
    BY <2>1, TreeIs
  <2>3. QED BY <2>1, <2>2 DEF Key
<1>9. Delayed(e, bb, tt, qq, f)
  <2>1. qq[0] = 0
    <3>1. 0 \in 0..Len(d)
      BY <1>2
    <3>2. QED BY <1>3, <1>4, <3>1 DEF Delayed
  <2>2. ASSUME NEW i \in 1..n
        PROVE  /\ Tree(e[i], bb[i], tt[i], db, f)
               /\ qq[i] \in Nat /\ qq[i - 1] \in Nat
               /\ qq[i - 1] + (2 * (tt[i] - bb[i]) - 1) <= qq[i]
    <3>1. CASE i = n
      <4>1. qq[i - 1] = q[Len(d)]
        <5>1. i - 1 = Len(d) /\ Len(d) \in 0..Len(d)
          BY <1>2, <3>1
        <5>2. QED BY <1>4, <5>1
      <4>2. qq[i] = last /\ bb[i] = l /\ tt[i] = h /\ e[i] = x
        BY <1>2, <1>4, <3>1
      <4>3. qq[i - 1] + (2 * (tt[i] - bb[i]) - 1) <= qq[i]
        BY <1>1, <1>5, <4>1, <4>2
      <4>4. QED BY <1>5, <1>6, <4>1, <4>2, <4>3
    <3>2. CASE i \in 1..Len(d)
      <4>1. i \in 0..Len(d) /\ i - 1 \in 0..Len(d)
        BY <1>2, <3>2
      <4>2. /\ qq[i] = q[i] /\ qq[i - 1] = q[i - 1] /\ bb[i] = b[i] /\ tt[i] = t[i]
            /\ e[i] = d[i]
        BY <1>2, <1>4, <3>2, <4>1
      <4>3. QED BY <1>3, <3>2, <4>2 DEF Delayed
    <3>3. QED BY <1>7, <3>1, <3>2
  <2>3. ASSUME NEW i \in 1..n, NEW j \in 1..n, i < j
        PROVE  tt[j] <= bb[i]
    <3>1. i \in 1..Len(d) /\ bb[i] = b[i]
      BY <1>2, <1>4, <2>3
    <3>2. CASE j = n
      <4>1. tt[j] = h /\ low <= b[i]
        BY <1>3, <1>4, <3>1, <3>2
      <4>2. b[i] \in Int
        BY <1>8, <3>1
      <4>3. QED BY <1>1, <3>1, <4>1, <4>2
    <3>3. CASE j \in 1..Len(d)
      BY <1>3, <1>4, <2>3, <3>1, <3>3 DEF Delayed
    <3>4. QED BY <1>7, <3>2, <3>3
  <2>4. QED BY <1>2, <2>1, <2>2, <2>3 DEF Delayed
<1>10. \A i \in 1..n : l <= bb[i]
  <2> SUFFICES ASSUME NEW i \in 1..n PROVE l <= bb[i]
    OBVIOUS
  <2>1. CASE i = n
    BY <1>1, <1>4, <2>1
  <2>2. CASE i \in 1..Len(d)
    <3>1. bb[i] = b[i] /\ low <= b[i] /\ b[i] \in Int
      BY <1>3, <1>4, <1>8, <2>2
    <3>2. QED BY <1>1, <3>1
  <2>3. QED BY <1>7, <2>1, <2>2
<1>11. C \cup {k \in Key : l <= k /\ k < h}
         = {k \in Key : \E i \in 1..n : bb[i] <= k /\ k < tt[i]}
  <2>1. \A k \in Key : (\E i \in 1..n : bb[i] <= k /\ k < tt[i])
          <=> (l <= k /\ k < h) \/ \E i \in 1..Len(d) : b[i] <= k /\ k < t[i]
    <3>1. n \in 1..n /\ \A i \in 1..Len(d) : i \in 1..n
      BY <1>2
    <3>2. QED BY <1>4, <1>7, <3>1
  <2>2. QED BY <1>3, <2>1
<1>12. QED BY <1>2, <1>4, <1>6, <1>9, <1>10, <1>11 DEF Stacked, e

\* Delaying the first tree.
LEMMA PushFirst ==
  ASSUME NEW n, NEW f, NEW l \in Int, NEW h \in Int, Tree(n, l, h, db, f)
  PROVE  Stacked(<<n>>, f, l, 2 * (h - l) - 1, {k \in Key : l <= k /\ k < h})
<1> DEFINE e == <<>>
           S == {n}
           B == {}
           C == B \cup {k \in Key : l <= k /\ k < h}
           w == 0 + (2 * (h - l) - 1)
<1>1. e \in Seq(S) /\ Append(e, n) = <<n>>
  OBVIOUS
<1>2. h \in Int /\ 0 \in Int /\ h <= h /\ Stacked(e, f, h, 0, B)
  BY StackedEmpty
<1>3. C = {k \in Key : l <= k /\ k < h} /\ w = 2 * (h - l) - 1
  OBVIOUS
<1> HIDE DEF S, e, B
<1>4. \A x, low, u, A, a, b :
        /\ low \in Int /\ u \in Int /\ Stacked(e, f, low, u, A)
        /\ Tree(x, a, b, db, f) /\ b <= low
        => Stacked(Append(e, x), f, a, u + (2 * (b - a) - 1),
                   A \cup {k \in Key : a <= k /\ k < b})
  BY <1>1, Push
<1>5. \A a, b : Tree(n, a, b, db, f) /\ b <= h
                => Stacked(Append(e, n), f, a, 0 + (2 * (b - a) - 1),
                           B \cup {k \in Key : a <= k /\ k < b})
  BY <1>2, <1>4
<1>6. Stacked(Append(e, n), f, l, w, C)
  BY <1>2, <1>5
<1> HIDE DEF w, C
<1>7. QED BY <1>1, <1>3, <1>6

\* Taking the last of the delayed trees.
LEMMA Pop ==
  ASSUME NEW S, NEW d \in Seq(S), NEW f, NEW low \in Int, NEW w \in Int, NEW C,
         Stacked(d, f, low, w, C), d # <<>>
  PROVE  \E l, h, B :
           /\ Tree(d[Len(d)], l, h, db, f) /\ low <= l
           /\ Stacked(SubSeq(d, 1, Len(d) - 1), f, h, w - (2 * (h - l) - 1), B)
           /\ C = B \cup {k \in Key : l <= k /\ k < h}
<1> DEFINE n == Len(d)
           e == SubSeq(d, 1, n - 1)
<1>1. n \in Nat \ {0} /\ Len(e) = n - 1 /\ \A i \in 1 .. n - 1 : e[i] = d[i]
  <2>1. n \in Nat \ {0}
    OBVIOUS
  <2>2. \A i \in 1 .. n - 1 : d[i] \in S
    BY <2>1
  <2>3. Len(e) = (IF 1 <= n - 1 THEN (n - 1) - 1 + 1 ELSE 0)
        /\ \A i \in 1 .. (n - 1) - 1 + 1 : e[i] = d[1 + i - 1]
    <3> HIDE DEF n
    <3>1. n - 1 \in Int
      BY <2>1
    <3>2. QED BY <2>2, <3>1, SubSeqProperties
  <2> HIDE DEF n, e
  <2>4. \A i \in 1 .. n - 1 : 1 + i - 1 = i /\ i \in 1 .. (n - 1) - 1 + 1
    BY <2>1
  <2>5. QED BY <2>1, <2>3, <2>4
<1> HIDE DEF e
<1>2. PICK b, t, q : /\ Delayed(d, b, t, q, f)
                     /\ q[n] <= w
                     /\ \A i \in 1..n : low <= b[i]
                     /\ C = {k \in Key : \E i \in 1..n : b[i] <= k /\ k < t[i]}
  BY DEF Stacked
<1> HIDE DEF n
<1> DEFINE l == b[n]
           h == t[n]
           B == {k \in Key : \E i \in 1 .. n - 1 : b[i] <= k /\ k < t[i]}
<1>3. n = Len(d)
  BY DEF n
<1>4. n \in 1..n /\ \A i \in 1 .. n - 1 : i \in 1..n /\ i < n
  BY <1>1
<1>5. Tree(d[n], l, h, db, f) /\ low <= l
  BY <1>2, <1>3, <1>4 DEF Delayed
<1>6. l \in Int /\ h \in Int /\ l < h
  BY <1>5, TreeIs DEF Key
<1>7. Delayed(e, b, t, q, f)
  BY <1>1, <1>2, <1>3, <1>4 DEF Delayed
<1>8. q[n - 1] <= w - (2 * (h - l) - 1)
  <2>1. q[n] \in Nat /\ q[n - 1] \in Nat /\ q[n - 1] + (2 * (h - l) - 1) <= q[n] /\ q[n] <= w
    BY <1>2, <1>3, <1>4 DEF Delayed
  <2>2. QED BY <1>6, <2>1
<1>9. \A i \in 1 .. n - 1 : h <= b[i]
  BY <1>2, <1>3, <1>4 DEF Delayed
<1>10. C = B \cup {k \in Key : l <= k /\ k < h}
  <2>1. \A i \in 1..n : i = n \/ i \in 1 .. n - 1
    BY <1>1
  <2>2. QED BY <1>2, <1>4, <2>1
<1>11. Stacked(e, f, h, w - (2 * (h - l) - 1), B)
  <2> HIDE DEF l, h
  <2>1. QED BY <1>1, <1>7, <1>8, <1>9 DEF Stacked
<1>12. QED BY <1>5, <1>10, <1>11 DEF e, n

\* A range in progress: what it has found is in order and below what is
\* delayed, and what it has neither found nor delayed is not in its bounds.
RangingWith(d, found, steps, f, start, end, S, low, w, C) ==
  /\ low \in Int /\ w \in Int
  /\ d \in Seq(S) /\ found \in Seq(S)
  /\ Stacked(d, f, low, w, C)
  /\ d = <<>> \/ w + steps <= 2 * MaxKey - 1
  /\ \A i \in 1..Len(found) :
       /\ found[i].key \in Key /\ found[i].key < low
       /\ InRange(found[i].key, start, end)
       /\ found[i] = f[found[i].key] /\ found[i] # NoNode
  /\ \A i, j \in 1..Len(found) : i < j => found[i].key < found[j].key
  /\ \A k \in Key : f[k] # NoNode /\ InRange(k, start, end)
       => k \in C \/ \E i \in 1..Len(found) : found[i] = f[k]

Ranging(st, steps, f, start, end) ==
  /\ st = [delayed |-> st.delayed, found |-> st.found]
  /\ \E S, low, w, C :
       RangingWith(st.delayed, st.found, steps, f, start, end, S, low, w, C)

\* A key in the bounds is on a side of a node that the traversal delays.
LEMMA BoundsCut ==
  ASSUME NEW start \in Bounds, NEW end \in Bounds, NEW m \in Key, NEW k \in Key,
         InRange(k, start, end)
  PROVE  /\ ~BeforeEnd(m, end) => k < m
         /\ ~AfterStart(m, start) => m <= k
<1>1. /\ \/ start.kind = "unbounded"
         \/ start.kind \in {"included", "excluded"} /\ start.key \in Key
      /\ \/ end.kind = "unbounded"
         \/ end.kind \in {"included", "excluded"} /\ end.key \in Key
  BY DEF Bounds
<1>2. QED BY <1>1 DEF InRange, BeforeEnd, AfterStart, Key

\* The children of the inner node n that a range delays, after the rest.
Pushed(rest, n, start, end) ==
  rest \o (IF BeforeEnd(n.key, end) THEN <<RightNode(n)>> ELSE <<>>)
       \o (IF AfterStart(n.key, start) THEN <<LeftNode(n)>> ELSE <<>>)

\* The delayed trees d, with fewer nodes than w, have the keys in the bounds
\* of B and of those from l to h.
StillCovers(d, T, w, B, l, h, f, start, end) ==
  \E low, x, C :
    /\ low \in Int /\ x \in Int
    /\ Stacked(d, f, low, x, C) /\ l <= low
    /\ d \in Seq(T)
    /\ x <= w - 1
    /\ \A k \in Key : InRange(k, start, end) /\ (k \in B \/ (l <= k /\ k < h))
                        => k \in C

\* Delaying the children of a node misses no key in the bounds.
LEMMA TraverseInner ==
  ASSUME DbTyped(db), NEW start \in Bounds, NEW end \in Bounds, NEW f,
         NEW S, NEW rest \in Seq(S), NEW B, NEW w \in Int, NEW l, NEW h, NEW n,
         Tree(n, l, h, db, f), IsInner(n), Stacked(rest, f, h, w, B)
  PROVE  StillCovers(Pushed(rest, n, start, end), S \cup {LeftNode(n), RightNode(n)},
                     w + (2 * (h - l) - 1), B, l, h, f, start, end)
<1> DEFINE T == S \cup {LeftNode(n), RightNode(n)}
           r == RightNode(n)
           c == LeftNode(n)
           withRight == IF BeforeEnd(n.key, end) THEN Append(rest, r) ELSE rest
           withLeft == IF AfterStart(n.key, start) THEN Append(withRight, c) ELSE withRight
<1>1. /\ l \in Int /\ h \in Int /\ n.key \in Int /\ n.key \in Key
      /\ l < n.key /\ n.key < h
      /\ Tree(c, l, n.key, db, f) /\ Tree(r, n.key, h, db, f)
  <2>1. /\ l \in Key /\ h \in Int /\ n.key \in Key /\ l < n.key /\ n.key < h
        /\ Tree(c, l, n.key, db, f) /\ Tree(r, n.key, h, db, f)
    BY ChildrenAre
  <2>2. QED BY <2>1 DEF Key
<1>2. rest \in Seq(T) /\ c \in T /\ r \in T
  OBVIOUS
<1> HIDE DEF T, c, r
<1>3. withRight \in Seq(T) /\ withLeft \in Seq(T)
  BY <1>2
<1>4. Pushed(rest, n, start, end) = withLeft
  <2>1. \A s \in Seq(T) : /\ s \o <<>> = s
                          /\ s \o <<c>> = Append(s, c) /\ s \o <<r>> = Append(s, r)
    BY <1>2
  <2>2. rest \o (IF BeforeEnd(n.key, end) THEN <<r>> ELSE <<>>) = withRight
    BY <1>2, <2>1
  <2>3. withRight \o (IF AfterStart(n.key, start) THEN <<c>> ELSE <<>>) = withLeft
    BY <1>3, <2>1
  <2>4. QED BY <2>2, <2>3 DEF c, r, Pushed
<1>5. PICK low1, x1, C1 :
        /\ low1 \in Int /\ x1 \in Int
        /\ Stacked(withRight, f, low1, x1, C1) /\ n.key <= low1
        /\ x1 <= w + (2 * (h - n.key) - 1)
        /\ \A k \in Key : InRange(k, start, end) /\ (k \in B \/ (n.key <= k /\ k < h))
                            => k \in C1
  <2>1. CASE BeforeEnd(n.key, end)
    <3> DEFINE x1 == w + (2 * (h - n.key) - 1)
               C1 == B \cup {k \in Key : n.key <= k /\ k < h}
    <3>1. Stacked(Append(rest, r), f, n.key, x1, C1)
      BY <1>1, <1>2, Push
    <3>2. x1 \in Int /\ x1 <= w + (2 * (h - n.key) - 1)
      BY <1>1
    <3>3. \A k \in Key : InRange(k, start, end) /\ (k \in B \/ (n.key <= k /\ k < h))
                            => k \in C1
      OBVIOUS
    <3>4. withRight = Append(rest, r)
      BY <2>1
    <3> HIDE DEF x1, C1, withRight
    <3>5. n.key \in Int /\ n.key <= n.key /\ Stacked(withRight, f, n.key, x1, C1)
      BY <1>1, <3>1, <3>4
    <3>6. QED BY <3>2, <3>3, <3>5
  <2>2. CASE ~BeforeEnd(n.key, end)
    <3>1. \A k \in Key : InRange(k, start, end) /\ (k \in B \/ (n.key <= k /\ k < h))
                            => k \in B
      <4> SUFFICES ASSUME NEW k \in Key, InRange(k, start, end), n.key <= k PROVE FALSE
        OBVIOUS
      <4>1. k < n.key /\ k \in Int
        BY <1>1, <2>2, BoundsCut DEF Key
      <4>2. QED BY <1>1, <4>1
    <3>2. w <= w + (2 * (h - n.key) - 1)
      BY <1>1
    <3>3. withRight = rest
      BY <2>2
    <3> HIDE DEF withRight
    <3>4. QED BY <1>1, <3>1, <3>2, <3>3
  <2>3. QED BY <2>1, <2>2
<1> HIDE DEF withRight
<1>6. \E low, x, C :
        /\ low \in Int /\ x \in Int
        /\ Stacked(withLeft, f, low, x, C) /\ l <= low
        /\ x <= w + (2 * (h - l) - 1) - 1
        /\ \A k \in Key : InRange(k, start, end) /\ (k \in B \/ (l <= k /\ k < h))
                            => k \in C
  <2>1. CASE AfterStart(n.key, start)
    <3> DEFINE x == x1 + (2 * (n.key - l) - 1)
               C == C1 \cup {k \in Key : l <= k /\ k < n.key}
    <3>1. Stacked(Append(withRight, c), f, l, x, C)
      <4>1. /\ low1 \in Int /\ x1 \in Int
            /\ Stacked(withRight, f, low1, x1, C1) /\ n.key <= low1
        BY <1>5
      <4>2. Tree(c, l, n.key, db, f) /\ withRight \in Seq(T)
        BY <1>1, <1>3
      <4>3. QED BY <4>1, <4>2, Push
    <3>2. x \in Int /\ x <= w + (2 * (h - l) - 1) - 1
      BY <1>1, <1>5
    <3>3. \A k \in Key : InRange(k, start, end) /\ (k \in B \/ (l <= k /\ k < h))
                            => k \in C
      <4> SUFFICES ASSUME NEW k \in Key, InRange(k, start, end),
                          k \in B \/ (l <= k /\ k < h), k \notin C1
                   PROVE  l <= k /\ k < n.key
        OBVIOUS
      <4>1. k \in Int
        BY DEF Key
      <4>2. QED BY <1>1, <1>5, <4>1
    <3>4. withLeft = Append(withRight, c)
      BY <2>1
    <3> HIDE DEF x, C, withLeft
    <3>5. l \in Int /\ l <= l /\ Stacked(withLeft, f, l, x, C)
      BY <1>1, <3>1, <3>4
    <3>6. QED BY <3>2, <3>3, <3>5
  <2>2. CASE ~AfterStart(n.key, start)
    <3>1. \A k \in Key : InRange(k, start, end) /\ (k \in B \/ (l <= k /\ k < h))
                            => k \in C1
      <4> SUFFICES ASSUME NEW k \in Key, InRange(k, start, end),
                          k \in B \/ (l <= k /\ k < h)
                   PROVE  k \in C1
        OBVIOUS
      <4>1. n.key <= k
        BY <1>1, <2>2, BoundsCut
      <4>2. QED BY <1>5, <4>1
    <3>2. x1 <= w + (2 * (h - l) - 1) - 1 /\ l <= low1
      BY <1>1, <1>5
    <3>3. withLeft = withRight
      BY <2>2
    <3> HIDE DEF withLeft
    <3>4. QED BY <1>5, <3>1, <3>2, <3>3
  <2>3. QED BY <2>1, <2>2
<1>7. QED
  <2>1. Pushed(rest, n, start, end) \in Seq(S \cup {LeftNode(n), RightNode(n)})
    BY <1>3, <1>4 DEF T
  <2> HIDE DEF withLeft
  <2>2. PICK low, x, C :
          /\ low \in Int /\ x \in Int
          /\ Stacked(withLeft, f, low, x, C) /\ l <= low
          /\ x <= w + (2 * (h - l) - 1) - 1
          /\ \A k \in Key : InRange(k, start, end) /\ (k \in B \/ (l <= k /\ k < h))
                              => k \in C
    BY <1>6
  <2>3. Stacked(Pushed(rest, n, start, end), f, low, x, C)
    BY <1>4, <2>2
  <2>4. l \in Int /\ h \in Int
    BY <1>1
  <2>5. x <= (w + (2 * (h - l) - 1)) - 1
    BY <2>2, <2>4
  <2>6. QED BY <2>1, <2>2, <2>3, <2>5 DEF StillCovers

\* A number of delayed nodes is not negative.
LEMMA StackedIsBounded ==
  ASSUME NEW S, NEW d \in Seq(S), NEW f, NEW low, NEW w \in Int, NEW C,
         Stacked(d, f, low, w, C)
  PROVE  w >= 0
<1>1. PICK b, t, q : Delayed(d, b, t, q, f) /\ q[Len(d)] <= w
  BY DEF Stacked
<1>2. q[Len(d)] \in Nat
  <2>1. CASE Len(d) = 0
    BY <1>1, <2>1 DEF Delayed
  <2>2. CASE Len(d) # 0
    <3>1. Len(d) \in 1..Len(d)
      BY <2>2
    <3>2. QED BY <1>1, <3>1 DEF Delayed
  <2>3. QED BY <2>1, <2>2
<1>3. QED BY <1>1, <1>2

\* A step of the traversal keeps its invariant, with one node less to visit.
LEMMA TraverseKeeps ==
  ASSUME DbTyped(db), NEW start \in Bounds, NEW end \in Bounds, NEW f,
         NEW steps \in Nat, NEW st, Ranging(st, steps, f, start, end)
  PROVE  Ranging(Traverse(st, start, end), steps + 1, f, start, end)
<1> DEFINE d == st.delayed
           found == st.found
           n == d[Len(d)]
           rest == SubSeq(d, 1, Len(d) - 1)
           right == IF BeforeEnd(n.key, end) THEN <<RightNode(n)>> ELSE <<>>
           left == IF AfterStart(n.key, start) THEN <<LeftNode(n)>> ELSE <<>>
           more == Append(found, n)
           next == IF IsPanic(n) \/ InRange(n.key, start, end) THEN more ELSE found
           new == Traverse(st, start, end)
<1>1. /\ st = [delayed |-> d, found |-> found]
      /\ \E S, low, w, C : RangingWith(d, found, steps, f, start, end, S, low, w, C)
  BY DEF Ranging
<1>2. PICK S, low, w, C : RangingWith(d, found, steps, f, start, end, S, low, w, C)
  BY <1>1
<1>3. /\ low \in Int /\ w \in Int
      /\ d \in Seq(S) /\ found \in Seq(S)
      /\ Stacked(d, f, low, w, C)
      /\ d = <<>> \/ w + steps <= 2 * MaxKey - 1
      /\ \A i \in 1..Len(found) :
           /\ found[i].key \in Key /\ found[i].key < low
           /\ InRange(found[i].key, start, end)
           /\ found[i] = f[found[i].key] /\ found[i] # NoNode
      /\ \A i, j \in 1..Len(found) : i < j => found[i].key < found[j].key
      /\ \A k \in Key : f[k] # NoNode /\ InRange(k, start, end)
           => k \in C \/ \E i \in 1..Len(found) : found[i] = f[k]
  BY <1>2 DEF RangingWith
<1>4. /\ MaxKey \in Nat
      /\ \A k \in Key : k \in Int
      /\ Len(found) \in Nat
  BY <1>3, MaxKeyAssumption DEF Key
<1> HIDE DEF d, found
<1>5. CASE d = <<>>
  <2>1. new = st
    BY <1>5 DEF Traverse, d
  <2>2. Ranging(st, steps + 1, f, start, end)
    <3>1. RangingWith(d, found, steps + 1, f, start, end, S, low, w, C)
      BY <1>3, <1>5 DEF RangingWith
    <3>2. QED BY <1>1, <3>1 DEF Ranging, d, found
  <2> HIDE DEF new
  <2>3. QED BY <2>1, <2>2 DEF new
<1>6. CASE d # <<>>
  <2>1. PICK l, h, B :
          /\ Tree(n, l, h, db, f) /\ low <= l
          /\ Stacked(rest, f, h, w - (2 * (h - l) - 1), B)
          /\ C = B \cup {k \in Key : l <= k /\ k < h}
    BY <1>3, <1>6, Pop
  <2>2. l \in Key /\ l \in Int /\ h \in Int /\ l < h /\ n # NoNode /\ ~IsPanic(n)
    BY <2>1, TreeIs, TreeIsTyped DEF Key
  <2>3. rest \in Seq(S) /\ n \in S
    <3>1. Len(d) \in Nat \ {0}
      BY <1>3, <1>6
    <3>2. \A i \in 1 .. Len(d) - 1 : d[i] \in S
      BY <1>3, <3>1
    <3>3. Len(d) - 1 \in Int /\ 1 \in Int
      BY <3>1
    <3>4. rest \in Seq(S)
      BY <3>2, <3>3, SubSeqProperties
    <3>5. QED BY <1>3, <3>1, <3>4
  <2>4. w + steps <= 2 * MaxKey - 1
    BY <1>3, <1>6
  <2> DEFINE w0 == w - (2 * (h - l) - 1)
  <2>5. w0 \in Int /\ w0 + 1 <= w
    BY <1>3, <2>2
  <2>6. new = IF IsInner(n) THEN [st EXCEPT !.delayed = rest \o right \o left]
              ELSE [delayed |-> rest, found |-> next]
    BY <1>6, Zenon DEF Traverse, d, found
  <2> HIDE DEF rest, w0
  <2>7. CASE IsInner(n)
    <3> DEFINE pushed == rest \o right \o left
               T == S \cup {LeftNode(n), RightNode(n)}
    <3>1. new = [delayed |-> pushed, found |-> found]
      BY <1>1, <2>6, <2>7
    <3>2. PICK low1, x, D :
            /\ low1 \in Int /\ x \in Int
            /\ Stacked(pushed, f, low1, x, D) /\ l <= low1
            /\ pushed \in Seq(T)
            /\ x <= w0 + (2 * (h - l) - 1) - 1
            /\ \A k \in Key : InRange(k, start, end) /\ (k \in B \/ (l <= k /\ k < h))
                                => k \in D
      <4>1. Stacked(rest, f, h, w0, B) /\ Tree(n, l, h, db, f)
        BY <2>1 DEF w0
      <4>2. pushed = Pushed(rest, n, start, end)
        BY DEF Pushed
      <4>3. rest \in Seq(S) /\ w0 \in Int
        BY <2>3, <2>5
      <4> HIDE DEF n, pushed, right, left
      <4>4. StillCovers(pushed, T, w0 + (2 * (h - l) - 1), B, l, h, f, start, end)
        BY <2>7, <4>1, <4>2, <4>3, TraverseInner
      <4>5. PICK low1, x, D :
              /\ low1 \in Int /\ x \in Int
              /\ Stacked(pushed, f, low1, x, D) /\ l <= low1
              /\ pushed \in Seq(T)
              /\ x <= (w0 + (2 * (h - l) - 1)) - 1
              /\ \A k \in Key : InRange(k, start, end) /\ (k \in B \/ (l <= k /\ k < h))
                                  => k \in D
        BY <4>4 DEF StillCovers
      <4>6. x <= w0 + (2 * (h - l) - 1) - 1
        BY <2>2, <4>3, <4>5
      <4>7. QED BY <4>5, <4>6
    <3> HIDE DEF pushed, new, T, n
    <3>3. x + (steps + 1) <= 2 * MaxKey - 1
      <4>1. x <= w0 + (2 * (h - l) - 1) - 1
        BY <3>2
      <4>2. w \in Int /\ x \in Int
        BY <1>3, <3>2
      <4>3. QED BY <1>4, <2>2, <2>4, <4>1, <4>2 DEF w0
    <3>4. found \in Seq(S \cup T)
      BY <1>3
    <3>5. pushed \in Seq(S \cup T)
      BY <3>2
    <3>6. \A i \in 1..Len(found) : found[i].key < low1
      <4>1. low <= l /\ l <= low1 /\ low \in Int /\ low1 \in Int
        BY <1>3, <2>1, <3>2
      <4>2. \A i \in 1..Len(found) : found[i].key \in Int /\ found[i].key < low
        BY <1>3, <1>4
      <4>3. QED BY <2>2, <4>1, <4>2
    <3>7. \A k \in Key : f[k] # NoNode /\ InRange(k, start, end)
             => k \in D \/ \E i \in 1..Len(found) : found[i] = f[k]
      <4> SUFFICES ASSUME NEW k \in Key, f[k] # NoNode, InRange(k, start, end),
                          ~ \E i \in 1..Len(found) : found[i] = f[k]
                   PROVE  k \in D
        OBVIOUS
      <4>1. k \in C
        BY <1>3
      <4>2. k \in B \/ (l <= k /\ k < h)
        BY <2>1, <4>1
      <4>3. QED BY <3>2, <4>2
    <3> DEFINE U == S \cup T
    <3> HIDE DEF U
    <3>8. RangingWith(pushed, found, steps + 1, f, start, end, U, low1, x, D)
      <4>1. /\ low1 \in Int /\ x \in Int
            /\ pushed \in Seq(U) /\ found \in Seq(U)
            /\ Stacked(pushed, f, low1, x, D)
        BY <3>2, <3>4, <3>5 DEF U
      <4>2. /\ \A i \in 1..Len(found) :
                 /\ found[i].key \in Key /\ found[i].key < low1
                 /\ InRange(found[i].key, start, end)
                 /\ found[i] = f[found[i].key] /\ found[i] # NoNode
            /\ \A i, j \in 1..Len(found) : i < j => found[i].key < found[j].key
        BY <1>3, <3>6
      <4>3. QED BY <3>3, <3>7, <4>1, <4>2 DEF RangingWith
    <3>9. new.delayed = pushed /\ new.found = found
      BY <3>1
    <3>10. Ranging(new, steps + 1, f, start, end)
      BY <3>1, <3>8, <3>9 DEF Ranging
    <3>11. QED BY <3>10 DEF new
  <2>8. CASE ~IsInner(n)
    <3>1. new = [delayed |-> rest, found |-> next]
      BY <2>6, <2>8
    <3>2. n.key = l /\ f[l] = n /\ \A k \in Key : l < k /\ k < h => f[k] = NoNode
      BY <2>1, <2>8, TreeIs DEF LeafTree, InnerTree
    <3> HIDE DEF n, new
    <3>3. next \in Seq(S) /\ found \in Seq(S)
      BY <1>3, <2>3
    <3>4. /\ Len(next) \in Nat /\ Len(next) <= Len(found) + 1
          /\ \A i \in 1..Len(next) :
               \/ i \in 1..Len(found) /\ next[i] = found[i]
               \/ /\ InRange(l, start, end) /\ next[i] = n
                  /\ \A j \in 1..Len(found) : j < i
          /\ \A i \in 1..Len(found) : i \in 1..Len(next) /\ next[i] = found[i]
          /\ InRange(l, start, end) => \E i \in 1..Len(next) : next[i] = n
      <4>1. CASE InRange(l, start, end)
        <5>1. next = more
          BY <3>2, <4>1
        <5>2. /\ Len(more) = Len(found) + 1 /\ more[Len(found) + 1] = n
              /\ \A i \in 1..Len(found) : more[i] = found[i]
          BY <1>3, <2>3
        <5> HIDE DEF more, next
        <5>3. QED BY <1>4, <4>1, <5>1, <5>2
      <4>2. CASE ~InRange(l, start, end)
        <5>1. next = found
          BY <2>2, <3>2, <4>2
        <5> HIDE DEF next
        <5>2. QED BY <1>4, <4>2, <5>1
      <4>3. QED BY <4>1, <4>2
    <3> HIDE DEF next
    <3>5. \A i \in 1..Len(next) :
             /\ next[i].key \in Key /\ next[i].key < h
             /\ InRange(next[i].key, start, end)
             /\ next[i] = f[next[i].key] /\ next[i] # NoNode
      <4> SUFFICES ASSUME NEW i \in 1..Len(next)
                   PROVE  /\ next[i].key \in Key /\ next[i].key < h
                          /\ InRange(next[i].key, start, end)
                          /\ next[i] = f[next[i].key] /\ next[i] # NoNode
        OBVIOUS
      <4>1. CASE i \in 1..Len(found) /\ next[i] = found[i]
        <5>1. found[i].key \in Key /\ found[i].key < low /\ found[i].key \in Int
          BY <1>3, <1>4, <4>1
        <5>2. found[i].key < h
          BY <1>3, <2>1, <2>2, <5>1
        <5>3. QED BY <1>3, <4>1, <5>1, <5>2
      <4>2. CASE InRange(l, start, end) /\ next[i] = n
        BY <2>2, <3>2, <4>2
      <4>3. QED BY <3>4, <4>1, <4>2
    <3>6. \A i, j \in 1..Len(next) : i < j => next[i].key < next[j].key
      <4> SUFFICES ASSUME NEW i \in 1..Len(next), NEW j \in 1..Len(next), i < j
                   PROVE  next[i].key < next[j].key
        OBVIOUS
      <4>1. i \in 1..Len(found) /\ next[i] = found[i]
        <5>1. i \in Nat /\ j \in Nat /\ 1 <= i /\ j <= Len(found) + 1
          BY <1>4, <3>4
        <5>2. i \in 1..Len(found)
          BY <1>4, <5>1
        <5>3. QED BY <3>4, <5>2
      <4>2. found[i].key \in Int /\ found[i].key < low
        BY <1>3, <1>4, <4>1
      <4>3. CASE j \in 1..Len(found) /\ next[j] = found[j]
        BY <1>3, <4>1, <4>3
      <4>4. CASE next[j] = n
        BY <1>3, <2>1, <2>2, <3>2, <4>1, <4>2, <4>4
      <4>5. QED BY <3>4, <4>3, <4>4
    <3>7. \A k \in Key : f[k] # NoNode /\ InRange(k, start, end)
             => k \in B \/ \E i \in 1..Len(next) : next[i] = f[k]
      <4> SUFFICES ASSUME NEW k \in Key, f[k] # NoNode, InRange(k, start, end), k \notin B
                   PROVE  \E i \in 1..Len(next) : next[i] = f[k]
        OBVIOUS
      <4>1. CASE \E i \in 1..Len(found) : found[i] = f[k]
        BY <3>4, <4>1
      <4>2. CASE l <= k /\ k < h
        <5>1. k = l
          BY <1>4, <2>2, <3>2, <4>2
        <5>2. QED BY <3>2, <3>4, <5>1
      <4>3. QED BY <1>3, <2>1, <4>1, <4>2
    <3>8. w0 + (steps + 1) <= 2 * MaxKey - 1
      BY <1>3, <1>4, <2>4, <2>5
    <3>9. RangingWith(rest, next, steps + 1, f, start, end, S, h, w0, B)
      <4>1. Stacked(rest, f, h, w0, B)
        BY <2>1 DEF w0
      <4>2. QED
        BY <2>2, <2>3, <2>5, <3>3, <3>5, <3>6, <3>7, <3>8, <4>1 DEF RangingWith
    <3>10. new.delayed = rest /\ new.found = next
      BY <3>1
    <3>11. Ranging(new, steps + 1, f, start, end)
      BY <3>1, <3>9, <3>10 DEF Ranging
    <3>12. QED BY <3>11 DEF new
  <2>9. QED BY <2>7, <2>8
<1>7. QED BY <1>5, <1>6

RangeStates(p, top, n, start, end) ==
  \A steps \in 0..top :
    p[steps] = IF steps = 0
               THEN [delayed |-> IF n = NoNode THEN <<>> ELSE <<n>>, found |-> <<>>]
               ELSE Traverse(p[steps - 1], start, end)

\* A range is what the traversal has found after its last step.
LEMMA RangeOfIs ==
  ASSUME NEW n, NEW start, NEW end
  PROVE  \E p : /\ RangeStates(p, 2 * MaxKey, n, start, end)
                /\ RangeOf(n, start, end) = p[2 * MaxKey].found
<1> DEFINE first == [delayed |-> IF n = NoNode THEN <<>> ELSE <<n>>, found |-> <<>>]
           last == 2 * MaxKey
           Q == {top \in Nat : \E p : RangeStates(p, top, n, start, end)}
<1>1. 0 \in Q
  <2> DEFINE p == [steps \in 0..0 |-> first]
  <2>1. RangeStates(p, 0, n, start, end)
    BY DEF RangeStates
  <2>2. QED BY <2>1
<1>2. ASSUME NEW top \in Nat, top \in Q PROVE top + 1 \in Q
  <2>1. PICK p : RangeStates(p, top, n, start, end)
    BY <1>2
  <2> DEFINE q == [steps \in 0 .. top + 1 |->
                     IF steps = top + 1 THEN Traverse(p[top], start, end) ELSE p[steps]]
  <2>2. q[top + 1] = Traverse(p[top], start, end)
    OBVIOUS
  <2>3. \A steps \in 0..top : q[steps] = p[steps]
    OBVIOUS
  <2> HIDE DEF q
  <2>4. ASSUME NEW steps \in 0 .. top + 1
        PROVE  q[steps] = IF steps = 0 THEN first ELSE Traverse(q[steps - 1], start, end)
    <3>1. CASE steps = top + 1
      <4>1. steps - 1 = top /\ top \in 0..top /\ steps # 0
        BY <3>1
      <4>2. QED BY <2>2, <2>3, <3>1, <4>1
    <3>2. CASE steps # top + 1
      <4>1. steps \in 0..top /\ (steps # 0 => steps - 1 \in 0..top)
        BY <3>2
      <4>2. QED BY <2>1, <2>3, <4>1 DEF RangeStates
    <3>3. QED BY <3>1, <3>2
  <2>5. RangeStates(q, top + 1, n, start, end)
    BY <2>4 DEF RangeStates
  <2>6. QED BY <2>5
<1>3. last \in Nat
  BY MaxKeyAssumption
<1> HIDE DEF Q, last
<1>4. PICK p : RangeStates(p, last, n, start, end)
  <2>1. last \in Q
    BY <1>1, <1>2, <1>3, StepsInduction
  <2>2. QED BY <2>1 DEF Q
<1> DEFINE q == [steps \in 0..last |-> p[steps]]
<1>5. q = [steps \in 0..last |-> IF steps = 0 THEN first ELSE Traverse(q[steps - 1], start, end)]
  <2>1. \A steps \in 0..last : steps # 0 => steps - 1 \in 0..last
    BY <1>3
  <2>2. \A steps \in 0..last :
          q[steps] = IF steps = 0 THEN first ELSE Traverse(q[steps - 1], start, end)
    BY <1>4, <2>1 DEF RangeStates
  <2>3. q = [steps \in 0..last |-> q[steps]]
    OBVIOUS
  <2> HIDE DEF q
  <2>4. QED BY <2>2, <2>3
<1> HIDE DEF q
<1> DEFINE after == CHOOSE after : after =
             [steps \in 0..last |->
               IF steps = 0 THEN first ELSE Traverse(after[steps - 1], start, end)]
<1>6. after = [steps \in 0..last |->
                 IF steps = 0 THEN first ELSE Traverse(after[steps - 1], start, end)]
  BY <1>5, Zenon
<1>7. RangeOf(n, start, end) = after[last].found
  BY Zenon DEF RangeOf, last
<1> HIDE DEF after
<1>8. RangeStates(after, last, n, start, end)
  BY <1>6 DEF RangeStates
<1>9. QED BY <1>7, <1>8 DEF last

\* A range of a tree is exact.
LEMMA RangeIs ==
  ASSUME DbTyped(db), NEW n, NEW f, Holds(n, db, f),
         NEW start \in Bounds, NEW end \in Bounds
  PROVE  IsRange(RangeOf(n, start, end), f, start, end)
<1>1. PICK p : /\ RangeStates(p, 2 * MaxKey, n, start, end)
               /\ RangeOf(n, start, end) = p[2 * MaxKey].found
  BY RangeOfIs
<1> DEFINE Q == {steps \in Nat : steps <= 2 * MaxKey =>
                   Ranging(p[steps], steps, f, start, end)}
<1>2. MaxKey \in Nat /\ 2 * MaxKey \in Nat /\ 0 \in 0 .. 2 * MaxKey
  BY MaxKeyAssumption
<1>3. 0 \in Q
  <2> DEFINE d == IF n = NoNode THEN <<>> ELSE <<n>>
             S == {n}
  <2>1. p[0] = [delayed |-> d, found |-> <<>>]
    BY <1>1, <1>2 DEF RangeStates
  <2>2. d \in Seq(S) /\ <<>> \in Seq(S)
    <3>1. <<>> \in Seq(S) /\ n \in S
      OBVIOUS
    <3>2. <<n>> \in Seq(S)
      BY <3>1
    <3> QED BY <3>1, <3>2
  <2>3. \E low, w, C : RangingWith(d, <<>>, 0, f, start, end, S, low, w, C)
    <3>1. CASE n = NoNode
      <4>1. f = NothingWritten
        <5>1. ASSUME NEW lo, Tree(n, lo, MaxKey + 1, db, f) PROVE FALSE
          BY <3>1, <5>1, TreeIsTyped
        <5>2. QED BY <5>1 DEF Holds
      <4>2. \A k \in Key : f[k] = NoNode
        BY <4>1 DEF NothingWritten
      <4>3. d = <<>> /\ Stacked(d, f, 0, 0, {})
        BY <3>1, StackedEmpty
      <4> HIDE DEF d, S
      <4>4. RangingWith(d, <<>>, 0, f, start, end, S, 0, 0, {})
        BY <2>2, <4>2, <4>3 DEF RangingWith
      <4>5. QED BY <4>4
    <3>2. CASE n # NoNode
      <4>1. PICK lo \in Key : /\ Tree(n, lo, MaxKey + 1, db, f)
                              /\ \A k \in Key : k < lo => f[k] = NoNode
        BY <3>2 DEF Holds
      <4> DEFINE top == MaxKey + 1
                 w == 2 * (top - lo) - 1
                 C == {k \in Key : lo <= k /\ k < top}
      <4>2. top \in Int /\ lo \in Int /\ 1 <= lo
        BY <1>2 DEF Key
      <4>3. Tree(n, lo, top, db, f)
        BY <4>1
      <4> HIDE DEF top
      <4>4. d = <<n>>
        BY <3>2
      <4>5. Stacked(<<n>>, f, lo, w, C)
        BY <4>2, <4>3, PushFirst
      <4>6. w \in Int /\ w + 0 <= 2 * MaxKey - 1
        BY <1>2, <4>2 DEF top
      <4>7. \A k \in Key : f[k] # NoNode => k \in C
        BY <1>2, <4>1, <4>2 DEF Key, top
      <4> HIDE DEF d, S, w, C
      <4>8. RangingWith(d, <<>>, 0, f, start, end, S, lo, w, C)
        BY <2>2, <4>2, <4>4, <4>5, <4>6, <4>7 DEF RangingWith
      <4>9. QED BY <4>8
    <3>3. QED BY <3>1, <3>2
  <2> HIDE DEF d, S
  <2>4. Ranging(p[0], 0, f, start, end)
    BY <2>1, <2>3 DEF Ranging
  <2>5. QED BY <2>4
<1>4. ASSUME NEW steps \in Nat, steps \in Q PROVE steps + 1 \in Q
  <2> SUFFICES ASSUME steps + 1 <= 2 * MaxKey
               PROVE  Ranging(p[steps + 1], steps + 1, f, start, end)
    OBVIOUS
  <2>1. Ranging(p[steps], steps, f, start, end)
    BY <1>2, <1>4
  <2>2. p[steps + 1] = Traverse(p[steps], start, end)
    <3>1. steps + 1 \in 0 .. 2 * MaxKey /\ steps + 1 # 0 /\ (steps + 1) - 1 = steps
      BY <1>2
    <3>2. QED BY <1>1, <3>1 DEF RangeStates
  <2>3. QED BY <2>1, <2>2, TraverseKeeps
<1> HIDE DEF Q
<1> DEFINE st == p[2 * MaxKey]
           found == st.found
<1>5. Ranging(st, 2 * MaxKey, f, start, end)
  <2>1. 2 * MaxKey \in Q
    BY <1>2, <1>3, <1>4, StepsInduction
  <2>2. QED BY <1>2, <2>1 DEF Q
<1> HIDE DEF st
<1>6. PICK S, low, w, C :
        RangingWith(st.delayed, found, 2 * MaxKey, f, start, end, S, low, w, C)
  BY <1>5 DEF Ranging
<1> HIDE DEF found
<1>7. /\ found \in Seq(S)
      /\ \A i \in 1..Len(found) :
           /\ found[i].key \in Key
           /\ InRange(found[i].key, start, end)
           /\ found[i] = f[found[i].key] /\ found[i] # NoNode
      /\ \A i, j \in 1..Len(found) : i < j => found[i].key < found[j].key
      /\ \A k \in Key : f[k] # NoNode /\ InRange(k, start, end)
           => k \in C \/ \E i \in 1..Len(found) : found[i] = f[k]
  BY <1>6 DEF RangingWith
<1>8. C = {}
  <2>1. /\ st.delayed \in Seq(S) /\ Stacked(st.delayed, f, low, w, C) /\ w \in Int
        /\ st.delayed = <<>> \/ w + 2 * MaxKey <= 2 * MaxKey - 1
    BY <1>6 DEF RangingWith
  <2>2. w >= 0
    BY <2>1, StackedIsBounded
  <2>3. st.delayed = <<>>
    BY <1>2, <2>1, <2>2
  <2>4. Stacked(<<>>, f, low, w, C)
    BY <2>1, <2>3
  <2>5. 1..Len(<<>>) = {}
    OBVIOUS
  <2>6. QED BY <2>4, <2>5 DEF Stacked
<1>9. DOMAIN found = 1..Len(found)
  BY <1>7
<1>10. {found[i] : i \in DOMAIN found} =
         {f[k] : k \in {k \in Key : f[k] # NoNode /\ InRange(k, start, end)}}
  <2>1. ASSUME NEW i \in 1..Len(found)
        PROVE  found[i] \in {f[k] : k \in {k \in Key : f[k] # NoNode /\ InRange(k, start, end)}}
    BY <1>7
  <2>2. ASSUME NEW k \in Key, f[k] # NoNode, InRange(k, start, end)
        PROVE  f[k] \in {found[i] : i \in DOMAIN found}
    BY <1>7, <1>8, <1>9, <2>2
  <2>3. QED BY <1>9, <2>1, <2>2
<1>11. IsRange(found, f, start, end)
  BY <1>7, <1>9, <1>10 DEF IsRange
<1>12. QED BY <1>1, <1>11 DEF found, st

\* A range yields exactly what was set in its bounds, in the order of the keys
\* (Range::traverse).
THEOREM RangesAreAlwaysExact == Spec => []RangeIsExact
<1>1. TreesHold => RangeIsExact
  BY RangeIs, SoundIsTyped DEF TreesHold, RangeIsExact
<1>2. QED BY <1>1, TreesAlwaysHold, PTL

-----------------------------------------------------------------------------
(* What a rotation makes of the heights and sizes.                         *)

\* The height and size of n are those of a node with the children l and r.
Measures(n, l, r) ==
  /\ n.height = 1 + Max2(Height(l), Height(r))
  /\ n.size = Size(l) + Size(r)

\* A measured node is measured by its children.
LEMMA MeasuredByChildren ==
  ASSUME DbTyped(db), NEW n, InnerShape(n), Loads(n), ~IsPanic(Measured(n))
  PROVE  /\ Remeasured(Measured(n), n)
         /\ Measures(Measured(n), LeftIn(db, n), RightIn(db, n))
         /\ Typed(LeftIn(db, n)) /\ Typed(RightIn(db, n))
<1> DEFINE l == LeftNode(n)
           r == RightNode(n)
           height == 1 + Max2(Height(l), Height(r))
           size == Size(l) + Size(r)
           m == [n EXCEPT !.height = height, !.size = size]
<1>1. Measured(n) = m /\ ~IsPanic(l) /\ ~IsPanic(r)
  BY MissingIs DEF Measured
<1>2. l = LeftIn(db, n) /\ r = RightIn(db, n) /\ Typed(l) /\ Typed(r)
  BY <1>1, Lookups, MissingIs
<1>3. Remeasured(Measured(n), n)
  BY MeasuredIs
<1>4. Measures(m, l, r)
  <2> HIDE DEF l, r
  <2>1. m.height = height /\ m.size = size
    BY DEF InnerShape
  <2>2. QED BY <2>1 DEF Measures
<1>5. QED BY <1>1, <1>2, <1>3, <1>4

\* A node, and so are its children that are in memory.
Shaped(n) == Typed(n) /\ (InnerShape(n) => Loads(n))

\* What a rotation to the right makes: the new root of the subtree and, as its
\* right child, the old one, which is measured by its children if the child it
\* takes over is in memory.  Otherwise the child is looked up under the hash
\* of the left child.
RotatedRight(w, down, z, y, v) ==
  /\ HasFields(down, z.key, v, y.right, z.right, y.rightHash, z.rightHash)
  /\ HasFields(w, y.key, v, y.left, down, y.leftHash, Hash(down))
  /\ Measures(w, LeftIn(db, y), down)
  /\ \/ y.right # NoNode /\ Measures(down, RightIn(db, y), RightIn(db, z))
     \/ y.right = NoNode /\ z.leftHash \in DOMAIN db

\* A rotation to the right makes that, or panics.
LEMMA RightRotateIs ==
  ASSUME DbTyped(db), NEW z, InnerShape(z), Loads(z), NEW v,
         Shaped(LeftIn(db, z)), ~IsPanic(RightRotate(z, v))
  PROVE  /\ InnerShape(LeftIn(db, z))
         /\ \E down : RotatedRight(RightRotate(z, v), down, z, LeftIn(db, z), v)
<1> DEFINE y == LeftNode(z)
           z1 == [z EXCEPT !.left = y.right]
           m == Measured(z1)
           down == [m EXCEPT !.version = v, !.leftHash = y.rightHash]
           w == WithRight(y, down)
           y1 == [w EXCEPT !.version = v]
           y2 == Measured(y1)
<1>1. y = LeftIn(db, z) /\ RightNode(z) = RightIn(db, z)
  BY Lookups
<1>2. ~IsPanic(y) /\ Shaped(y)
  BY <1>1, HeightIs DEF Shaped
<1>3. ~IsLeaf(y) /\ ~IsPanic(m) /\ RightRotate(z, v) = y2
  <2>1. IsPanic(RotateError)
    BY DEF RotateError, Panic, IsPanic
  <2>2. RightRotate(z, v) = IF IsPanic(y) THEN y
                            ELSE IF IsLeaf(y) THEN RotateError
                            ELSE IF IsPanic(m) THEN m ELSE y2
    BY DEF RightRotate
  <2> HIDE DEF y, m, y2
  <2>3. QED BY <1>2, <2>1, <2>2
<1>4. ~IsPanic(y2) /\ InnerShape(y) /\ Loads(y)
  BY <1>2, <1>3, Kinds DEF Shaped, Typed, IsLeaf
<1> HIDE DEF y
<1>5. HasFields(z1, z.key, z.version, y.right, z.right, z.leftHash, z.rightHash)
  BY FieldSet
<1>6. /\ HasFields(m, z.key, z.version, y.right, z.right, z.leftHash, z.rightHash)
      /\ Measures(m, LeftIn(db, z1), RightIn(db, z1))
      /\ Typed(LeftIn(db, z1))
  <2>1. InnerShape(z1) /\ Loads(z1)
    BY <1>4, <1>5 DEF HasFields, Loads
  <2>2. /\ Remeasured(m, z1) /\ Measures(m, LeftIn(db, z1), RightIn(db, z1))
        /\ Typed(LeftIn(db, z1))
    BY <1>3, <2>1, MeasuredByChildren
  <2> HIDE DEF z1, m
  <2>3. QED BY <1>5, <2>2 DEF Remeasured, HasFields
<1>7. RightIn(db, z1) = RightIn(db, z)
  BY <1>5 DEF RightIn, HasFields
<1>8. LeftIn(db, z1) = IF y.right # NoNode THEN y.right
                       ELSE IF z.leftHash \in DOMAIN db THEN db[z.leftHash] ELSE Missing
  BY <1>5 DEF LeftIn, HasFields
<1> HIDE DEF z1, m
<1>9. HasFields(down, z.key, v, y.right, z.right, y.rightHash, z.rightHash)
  <2>1. InnerShape(m)
    BY <1>6 DEF HasFields
  <2>2. HasFields(down, m.key, v, m.left, m.right, y.rightHash, m.rightHash)
    BY <2>1, Versioned
  <2> HIDE DEF down
  <2>3. QED BY <1>6, <2>2 DEF HasFields
<1>10. down.height = m.height /\ down.size = m.size
  BY <1>6 DEF HasFields, InnerShape
<1> HIDE DEF down
<1>11. \/ y.right # NoNode /\ Measures(down, RightIn(db, y), RightIn(db, z))
       \/ y.right = NoNode /\ z.leftHash \in DOMAIN db
  <2>1. CASE y.right # NoNode
    <3>1. LeftIn(db, z1) = RightIn(db, y)
      BY <1>8, <2>1 DEF RightIn
    <3>2. Measures(m, RightIn(db, y), RightIn(db, z))
      BY <1>6, <1>7, <3>1
    <3>3. QED BY <1>10, <2>1, <3>2 DEF Measures
  <2>2. CASE y.right = NoNode
    BY <1>6, <1>8, <2>2, HeightIs
  <2>3. QED BY <2>1, <2>2
<1>12. Typed(down) /\ down # NoNode
  BY <1>9, HeightIs DEF HasFields, Typed
<1>13. HasFields(y1, y.key, v, y.left, down, y.leftHash, Hash(down))
  <2>1. HasFields(w, y.key, y.version, y.left, down, y.leftHash, Hash(down))
    BY <1>4, WithChild
  <2> HIDE DEF w
  <2>2. InnerShape(w)
    BY <2>1 DEF HasFields
  <2>3. HasFields(y1, w.key, v, w.left, w.right, w.leftHash, w.rightHash)
    BY <2>2, FieldSet
  <2> HIDE DEF y1
  <2>4. QED BY <2>1, <2>3 DEF HasFields
<1>14. RightRotate(z, v) = y2
  BY <1>3
<1> HIDE DEF y1
<1>15. /\ HasFields(y2, y.key, v, y.left, down, y.leftHash, Hash(down))
       /\ Measures(y2, LeftIn(db, y1), RightIn(db, y1))
  <2>1. InnerShape(y1) /\ Loads(y1)
    BY <1>4, <1>12, <1>13 DEF HasFields, Loads
  <2>2. Remeasured(y2, y1) /\ Measures(y2, LeftIn(db, y1), RightIn(db, y1))
    BY <1>4, <2>1, MeasuredByChildren
  <2> HIDE DEF y2
  <2>3. QED BY <1>13, <2>2 DEF Remeasured, HasFields
<1>16. LeftIn(db, y1) = LeftIn(db, y) /\ RightIn(db, y1) = down
  BY <1>12, <1>13 DEF LeftIn, RightIn, HasFields
<1> HIDE DEF y2
<1>17. RotatedRight(y2, down, z, y, v)
  BY <1>9, <1>11, <1>15, <1>16 DEF RotatedRight
<1>18. QED BY <1>1, <1>4, <1>14, <1>17

\* The same to the left.
RotatedLeft(w, down, z, y, v) ==
  /\ HasFields(down, z.key, v, z.left, y.left, z.leftHash, y.leftHash)
  /\ HasFields(w, y.key, v, down, y.right, Hash(down), y.rightHash)
  /\ Measures(w, down, RightIn(db, y))
  /\ \/ y.left # NoNode /\ Measures(down, LeftIn(db, z), LeftIn(db, y))
     \/ y.left = NoNode /\ z.rightHash \in DOMAIN db

\* A rotation to the left makes that, or panics.
LEMMA LeftRotateIs ==
  ASSUME DbTyped(db), NEW z, InnerShape(z), Loads(z), NEW v,
         Shaped(RightIn(db, z)), ~IsPanic(LeftRotate(z, v))
  PROVE  /\ InnerShape(RightIn(db, z))
         /\ \E down : RotatedLeft(LeftRotate(z, v), down, z, RightIn(db, z), v)
<1> DEFINE y == RightNode(z)
           z1 == [z EXCEPT !.right = y.left]
           m == Measured(z1)
           down == [m EXCEPT !.version = v, !.rightHash = y.leftHash]
           w == WithLeft(y, down)
           y1 == [w EXCEPT !.version = v]
           y2 == Measured(y1)
<1>1. y = RightIn(db, z) /\ LeftNode(z) = LeftIn(db, z)
  BY Lookups
<1>2. ~IsPanic(y) /\ Shaped(y)
  BY <1>1, HeightIs DEF Shaped
<1>3. ~IsLeaf(y) /\ ~IsPanic(m) /\ LeftRotate(z, v) = y2
  <2>1. IsPanic(RotateError)
    BY DEF RotateError, Panic, IsPanic
  <2>2. LeftRotate(z, v) = IF IsPanic(y) THEN y
                           ELSE IF IsLeaf(y) THEN RotateError
                           ELSE IF IsPanic(m) THEN m ELSE y2
    BY DEF LeftRotate
  <2> HIDE DEF y, m, y2
  <2>3. QED BY <1>2, <2>1, <2>2
<1>4. ~IsPanic(y2) /\ InnerShape(y) /\ Loads(y)
  BY <1>2, <1>3, Kinds DEF Shaped, Typed, IsLeaf
<1> HIDE DEF y
<1>5. HasFields(z1, z.key, z.version, z.left, y.left, z.leftHash, z.rightHash)
  BY FieldSet
<1>6. /\ HasFields(m, z.key, z.version, z.left, y.left, z.leftHash, z.rightHash)
      /\ Measures(m, LeftIn(db, z1), RightIn(db, z1))
      /\ Typed(RightIn(db, z1))
  <2>1. InnerShape(z1) /\ Loads(z1)
    BY <1>4, <1>5 DEF HasFields, Loads
  <2>2. /\ Remeasured(m, z1) /\ Measures(m, LeftIn(db, z1), RightIn(db, z1))
        /\ Typed(RightIn(db, z1))
    BY <1>3, <2>1, MeasuredByChildren
  <2> HIDE DEF z1, m
  <2>3. QED BY <1>5, <2>2 DEF Remeasured, HasFields
<1>7. LeftIn(db, z1) = LeftIn(db, z)
  BY <1>5 DEF LeftIn, HasFields
<1>8. RightIn(db, z1) = IF y.left # NoNode THEN y.left
                        ELSE IF z.rightHash \in DOMAIN db THEN db[z.rightHash] ELSE Missing
  BY <1>5 DEF RightIn, HasFields
<1> HIDE DEF z1, m
<1>9. HasFields(down, z.key, v, z.left, y.left, z.leftHash, y.leftHash)
  <2>1. InnerShape(m)
    BY <1>6 DEF HasFields
  <2>2. HasFields(down, m.key, v, m.left, m.right, m.leftHash, y.leftHash)
    BY <2>1, Versioned
  <2> HIDE DEF down
  <2>3. QED BY <1>6, <2>2 DEF HasFields
<1>10. down.height = m.height /\ down.size = m.size
  BY <1>6 DEF HasFields, InnerShape
<1> HIDE DEF down
<1>11. \/ y.left # NoNode /\ Measures(down, LeftIn(db, z), LeftIn(db, y))
       \/ y.left = NoNode /\ z.rightHash \in DOMAIN db
  <2>1. CASE y.left # NoNode
    <3>1. RightIn(db, z1) = LeftIn(db, y)
      BY <1>8, <2>1 DEF LeftIn
    <3>2. Measures(m, LeftIn(db, z), LeftIn(db, y))
      BY <1>6, <1>7, <3>1
    <3>3. QED BY <1>10, <2>1, <3>2 DEF Measures
  <2>2. CASE y.left = NoNode
    BY <1>6, <1>8, <2>2, HeightIs
  <2>3. QED BY <2>1, <2>2
<1>12. Typed(down) /\ down # NoNode
  BY <1>9, HeightIs DEF HasFields, Typed
<1>13. HasFields(y1, y.key, v, down, y.right, Hash(down), y.rightHash)
  <2>1. HasFields(w, y.key, y.version, down, y.right, Hash(down), y.rightHash)
    BY <1>4, WithChild
  <2> HIDE DEF w
  <2>2. InnerShape(w)
    BY <2>1 DEF HasFields
  <2>3. HasFields(y1, w.key, v, w.left, w.right, w.leftHash, w.rightHash)
    BY <2>2, FieldSet
  <2> HIDE DEF y1
  <2>4. QED BY <2>1, <2>3 DEF HasFields
<1>14. LeftRotate(z, v) = y2
  BY <1>3
<1> HIDE DEF y1
<1>15. /\ HasFields(y2, y.key, v, down, y.right, Hash(down), y.rightHash)
       /\ Measures(y2, LeftIn(db, y1), RightIn(db, y1))
  <2>1. InnerShape(y1) /\ Loads(y1)
    BY <1>4, <1>12, <1>13 DEF HasFields, Loads
  <2>2. Remeasured(y2, y1) /\ Measures(y2, LeftIn(db, y1), RightIn(db, y1))
    BY <1>4, <2>1, MeasuredByChildren
  <2> HIDE DEF y2
  <2>3. QED BY <1>13, <2>2 DEF Remeasured, HasFields
<1>16. LeftIn(db, y1) = down /\ RightIn(db, y1) = RightIn(db, y)
  BY <1>12, <1>13 DEF LeftIn, RightIn, HasFields
<1> HIDE DEF y2
<1>17. RotatedLeft(y2, down, z, y, v)
  BY <1>9, <1>11, <1>15, <1>16 DEF RotatedLeft
<1>18. QED BY <1>1, <1>4, <1>14, <1>17

\* A tree is such a node.
LEMMA TreeIsShaped ==
  ASSUME NEW n, NEW lo, NEW hi, NEW d, NEW f, Tree(n, lo, hi, d, f)
  PROVE  Shaped(n)
<1>1. Typed(n)
  BY TreeIsTyped
<1>2. ASSUME InnerShape(n) PROVE Loads(n)
  <2>1. InnerTree(n, lo, hi, d, f)
    BY <1>2, TreeIs, Kinds DEF LeafTree
  <2>2. QED BY <2>1, TreeLoads
<1>3. QED BY <1>1, <1>2 DEF Shaped

\* No node of the database has this version.
Fresh(v) == \A hash \in DOMAIN db : hash.version # v

\* A node with it is not in the database.
LEMMA NotStored ==
  ASSUME NEW v, Fresh(v), NEW n, Typed(n), n.version = v
  PROVE  Hash(n) \notin DOMAIN db
<1>1. Hash(n).version = n.version
  BY DEF Hash
<1>2. QED BY <1>1 DEF Fresh

\* An inner node measured by its children.
Parent(n, key, v, l, r) ==
  /\ InnerShape(n) /\ n.key = key /\ n.version = v
  /\ LeftIn(db, n) = l /\ RightIn(db, n) = r
  /\ Measures(n, l, r)

-----------------------------------------------------------------------------
(* What the four cases of a rebalancing make of the heights.               *)

\* The child of a node that has just been set.
LEMMA SetChildIs ==
  ASSUME DbTyped(db), NEW n, InnerShape(n), Loads(n), NEW c, Typed(c), NEW key, NEW v,
         ~IsPanic(SetChild(n, c, key, v))
  PROVE  LET x == SetChild(n, c, key, v) IN
         /\ key < n.key => /\ HasFields(x, n.key, v, c, n.right, Hash(c), n.rightHash)
                           /\ Parent(x, n.key, v, c, RightIn(db, n))
         /\ ~ (key < n.key) => /\ HasFields(x, n.key, v, n.left, c, n.leftHash, Hash(c))
                               /\ Parent(x, n.key, v, LeftIn(db, n), c)
<1> DEFINE n1 == IF key < n.key THEN WithLeft(n, c) ELSE WithRight(n, c)
           m == Measured(n1)
           x == [m EXCEPT !.version = v]
<1>1. c # NoNode /\ ~IsPanic(c)
  BY HeightIs
<1>2. SetChild(n, c, key, v) = x /\ ~IsPanic(m)
  <2>1. SetChild(n, c, key, v) = IF IsPanic(c) THEN c ELSE IF IsPanic(m) THEN m ELSE x
    BY DEF SetChild
  <2> HIDE DEF m, x
  <2>2. QED BY <1>1, <2>1
<1>3. /\ key < n.key =>
           HasFields(n1, n.key, n.version, c, n.right, Hash(c), n.rightHash)
      /\ ~ (key < n.key) =>
           HasFields(n1, n.key, n.version, n.left, c, n.leftHash, Hash(c))
  BY WithChild
<1> HIDE DEF n1
<1>4. /\ InnerShape(n1) /\ Loads(n1)
      /\ key < n.key => LeftIn(db, n1) = c /\ RightIn(db, n1) = RightIn(db, n)
      /\ ~ (key < n.key) => LeftIn(db, n1) = LeftIn(db, n) /\ RightIn(db, n1) = c
  <2>1. CASE key < n.key
    BY <1>1, <1>3, <2>1 DEF HasFields, Loads, LeftIn, RightIn
  <2>2. CASE ~ (key < n.key)
    BY <1>1, <1>3, <2>2 DEF HasFields, Loads, LeftIn, RightIn
  <2>3. QED BY <2>1, <2>2
<1>5. Remeasured(m, n1) /\ Measures(m, LeftIn(db, n1), RightIn(db, n1))
  BY <1>2, <1>4, MeasuredByChildren
<1> HIDE DEF m
<1>6. InnerShape(m)
  BY <1>5 DEF Remeasured, HasFields
<1>7. HasFields(x, m.key, v, m.left, m.right, m.leftHash, m.rightHash)
  BY <1>6, FieldSet
<1>8. x.height = m.height /\ x.size = m.size
  BY <1>6 DEF InnerShape
<1> HIDE DEF x
<1>9. HasFields(x, n1.key, v, n1.left, n1.right, n1.leftHash, n1.rightHash)
  BY <1>5, <1>7 DEF Remeasured, HasFields
<1>10. Measures(x, LeftIn(db, n1), RightIn(db, n1))
  BY <1>5, <1>8 DEF Measures
<1>11. LeftIn(db, x) = LeftIn(db, n1) /\ RightIn(db, x) = RightIn(db, n1)
  BY <1>9 DEF HasFields, LeftIn, RightIn
<1>12. CASE key < n.key
  <2>1. HasFields(x, n.key, v, c, n.right, Hash(c), n.rightHash)
    BY <1>3, <1>9, <1>12 DEF HasFields
  <2>2. Parent(x, n.key, v, c, RightIn(db, n))
    BY <1>4, <1>10, <1>11, <1>12, <2>1 DEF HasFields, Parent
  <2>3. QED BY <1>2, <1>12, <2>1, <2>2
<1>13. CASE ~ (key < n.key)
  <2>1. HasFields(x, n.key, v, n.left, c, n.leftHash, Hash(c))
    BY <1>3, <1>9, <1>13 DEF HasFields
  <2>2. Parent(x, n.key, v, LeftIn(db, n), c)
    BY <1>4, <1>10, <1>11, <1>13, <2>1 DEF HasFields, Parent
  <2>3. QED BY <1>2, <1>13, <2>1, <2>2
<1>14. QED BY <1>12, <1>13

\* Left-left: one rotation to the right, of a node whose left child has just
\* been set.
LEMMA LeftLeftIs ==
  ASSUME DbTyped(db), NEW n, InnerShape(n), Loads(n), NEW v,
         Shaped(LeftIn(db, n)), n.leftHash \notin DOMAIN db,
         LET m == [n EXCEPT !.left = LeftNode(n)] IN ~IsPanic(RightRotate(m, v))
  PROVE  LET l == LeftIn(db, n)
             w == RightRotate([n EXCEPT !.left = LeftNode(n)], v)
         IN /\ InnerShape(l) /\ l.right # NoNode
            /\ \E z : /\ Parent(z, n.key, v, RightIn(db, l), RightIn(db, n))
                      /\ z.right = n.right
                      /\ Parent(w, l.key, v, LeftIn(db, l), z)
                      /\ w.right = z
<1> DEFINE l == LeftIn(db, n)
           m == [n EXCEPT !.left = LeftNode(n)]
           w == RightRotate(m, v)
<1>1. LeftNode(n) = l /\ l # NoNode /\ Shaped(l) /\ Typed(l)
  BY Lookups, HeightIs DEF Shaped
<1> HIDE DEF l
<1>2. HasFields(m, n.key, n.version, l, n.right, n.leftHash, n.rightHash)
  BY <1>1, FieldSet
<1>3. ~IsPanic(w)
  OBVIOUS
<1> HIDE DEF m
<1>4. /\ InnerShape(m) /\ Loads(m)
      /\ LeftIn(db, m) = l /\ RightIn(db, m) = RightIn(db, n)
  BY <1>1, <1>2 DEF HasFields, Loads, LeftIn, RightIn
<1>5. InnerShape(l) /\ \E z : RotatedRight(w, z, m, l, v)
  BY <1>1, <1>3, <1>4, RightRotateIs
<1> HIDE DEF w
<1>6. PICK z : RotatedRight(w, z, m, l, v)
  BY <1>5
<1>7. l.right # NoNode
  BY <1>2, <1>6 DEF RotatedRight, HasFields
<1>8. Parent(z, n.key, v, RightIn(db, l), RightIn(db, n)) /\ z.right = n.right
  <2>1. HasFields(z, n.key, v, l.right, n.right, l.rightHash, n.rightHash)
    BY <1>2, <1>6 DEF RotatedRight, HasFields
  <2>2. LeftIn(db, z) = RightIn(db, l) /\ RightIn(db, z) = RightIn(db, n)
    BY <2>1 DEF HasFields, LeftIn, RightIn
  <2>3. QED BY <1>4, <1>6, <1>7, <2>1, <2>2 DEF RotatedRight, HasFields, Parent
<1>9. z # NoNode
  BY <1>8, HeightIs DEF Parent, Typed
<1>10. Parent(w, l.key, v, LeftIn(db, l), z) /\ w.right = z
  <2>1. LeftIn(db, w) = LeftIn(db, l) /\ RightIn(db, w) = z
    BY <1>6, <1>9 DEF RotatedRight, HasFields, LeftIn, RightIn
  <2>2. QED BY <1>6, <2>1 DEF RotatedRight, HasFields, Parent
<1>11. QED BY <1>5, <1>7, <1>8, <1>10 DEF l, w, m

\* Right-right: one rotation to the left, of a node whose right child has just
\* been set.
LEMMA RightRightIs ==
  ASSUME DbTyped(db), NEW n, InnerShape(n), Loads(n), NEW v,
         Shaped(RightIn(db, n)), n.rightHash \notin DOMAIN db,
         LET m == [n EXCEPT !.right = RightNode(n)] IN ~IsPanic(LeftRotate(m, v))
  PROVE  LET r == RightIn(db, n)
             w == LeftRotate([n EXCEPT !.right = RightNode(n)], v)
         IN /\ InnerShape(r) /\ r.left # NoNode
            /\ \E z : /\ Parent(z, n.key, v, LeftIn(db, n), LeftIn(db, r))
                      /\ Parent(w, r.key, v, z, RightIn(db, r))
                      /\ w.right = r.right
<1> DEFINE r == RightIn(db, n)
           m == [n EXCEPT !.right = RightNode(n)]
           w == LeftRotate(m, v)
<1>1. RightNode(n) = r /\ r # NoNode /\ Shaped(r) /\ Typed(r)
  BY Lookups, HeightIs DEF Shaped
<1> HIDE DEF r
<1>2. HasFields(m, n.key, n.version, n.left, r, n.leftHash, n.rightHash)
  BY <1>1, FieldSet
<1>3. ~IsPanic(w)
  OBVIOUS
<1> HIDE DEF m
<1>4. /\ InnerShape(m) /\ Loads(m)
      /\ LeftIn(db, m) = LeftIn(db, n) /\ RightIn(db, m) = r
  BY <1>1, <1>2 DEF HasFields, Loads, LeftIn, RightIn
<1>5. InnerShape(r) /\ \E z : RotatedLeft(w, z, m, r, v)
  BY <1>1, <1>3, <1>4, LeftRotateIs
<1> HIDE DEF w
<1>6. PICK z : RotatedLeft(w, z, m, r, v)
  BY <1>5
<1>7. r.left # NoNode
  BY <1>2, <1>6 DEF RotatedLeft, HasFields
<1>8. Parent(z, n.key, v, LeftIn(db, n), LeftIn(db, r))
  <2>1. HasFields(z, n.key, v, n.left, r.left, n.leftHash, r.leftHash)
    BY <1>2, <1>6 DEF RotatedLeft, HasFields
  <2>2. LeftIn(db, z) = LeftIn(db, n) /\ RightIn(db, z) = LeftIn(db, r)
    BY <2>1 DEF HasFields, LeftIn, RightIn
  <2>3. QED BY <1>4, <1>6, <1>7, <2>1, <2>2 DEF RotatedLeft, HasFields, Parent
<1>9. z # NoNode
  BY <1>8, HeightIs DEF Parent, Typed
<1>10. Parent(w, r.key, v, z, RightIn(db, r)) /\ w.right = r.right
  <2>1. LeftIn(db, w) = z /\ RightIn(db, w) = RightIn(db, r)
    BY <1>6, <1>9 DEF RotatedLeft, HasFields, LeftIn, RightIn
  <2>2. QED BY <1>6, <2>1 DEF RotatedLeft, HasFields, Parent
<1>11. QED BY <1>5, <1>7, <1>8, <1>10 DEF r, w, m

\* Left-right: the node is rotated to the left and back to the right, which
\* makes it again what it was, with a new version of its right child.
LEMMA LeftRightIs ==
  ASSUME DbTyped(db), NEW n, InnerShape(n), Loads(n), NEW v, Fresh(v),
         Shaped(LeftIn(db, n)), Shaped(RightIn(db, n)),
         LET left == LeftRotate([n EXCEPT !.left = LeftNode(n)], v) IN
           ~IsPanic(left) /\ ~IsPanic(RightRotate(left, v))
  PROVE  LET l == LeftIn(db, n)
             r == RightIn(db, n)
             w == RightRotate(LeftRotate([n EXCEPT !.left = LeftNode(n)], v), v)
         IN /\ InnerShape(r) /\ r.left # NoNode
            /\ \E s : /\ Parent(s, r.key, v, LeftIn(db, r), RightIn(db, r))
                      /\ s.right = r.right
                      /\ Parent(w, n.key, v, l, s)
                      /\ w.left = l /\ w.right = s
<1> DEFINE l == LeftIn(db, n)
           r == RightIn(db, n)
           m == [n EXCEPT !.left = LeftNode(n)]
           left == LeftRotate(m, v)
           w == RightRotate(left, v)
<1>1. /\ LeftNode(n) = l /\ l # NoNode /\ Shaped(l) /\ Typed(l)
      /\ r # NoNode /\ Shaped(r) /\ Typed(r)
  BY Lookups, HeightIs DEF Shaped
<1> HIDE DEF l
<1>2. HasFields(m, n.key, n.version, l, n.right, n.leftHash, n.rightHash)
  BY <1>1, FieldSet
<1>3. ~IsPanic(left) /\ ~IsPanic(w)
  OBVIOUS
<1> HIDE DEF m
<1>4. /\ InnerShape(m) /\ Loads(m)
      /\ LeftIn(db, m) = l /\ RightIn(db, m) = r
  BY <1>1, <1>2 DEF HasFields, Loads, LeftIn, RightIn
<1> HIDE DEF r
<1>5. InnerShape(r) /\ \E z : RotatedLeft(left, z, m, r, v)
  BY <1>1, <1>3, <1>4, LeftRotateIs
<1>6. PICK y : RotatedLeft(left, y, m, r, v)
  BY <1>5
<1> HIDE DEF left
<1>7. Loads(r)
  BY <1>1, <1>5 DEF Shaped
<1>8. /\ HasFields(y, n.key, v, l, r.left, n.leftHash, r.leftHash)
      /\ HasFields(left, r.key, v, y, r.right, Hash(y), r.rightHash)
  BY <1>2, <1>6 DEF RotatedLeft, HasFields
<1>9. Typed(y) /\ y # NoNode /\ Loads(y) /\ Shaped(y) /\ y.version = v
  <2>1. Typed(y) /\ y.version = v
    BY <1>8 DEF HasFields, Typed
  <2>2. Loads(y)
    BY <1>1, <1>7, <1>8 DEF HasFields, Loads
  <2>3. QED BY <2>1, <2>2, HeightIs DEF Shaped
<1>10. /\ InnerShape(left) /\ Loads(left)
       /\ LeftIn(db, left) = y /\ RightIn(db, left) = RightIn(db, r)
  BY <1>7, <1>8, <1>9 DEF HasFields, Loads, LeftIn, RightIn
<1>11. \E z : RotatedRight(w, z, left, y, v)
  BY <1>3, <1>9, <1>10, RightRotateIs
<1> HIDE DEF w
<1>12. PICK s : RotatedRight(w, s, left, y, v)
  BY <1>11
<1>13. r.left # NoNode
  <2>1. left.leftHash \notin DOMAIN db
    BY <1>8, <1>9, NotStored DEF HasFields
  <2>2. y.right # NoNode
    BY <1>12, <2>1 DEF RotatedRight
  <2>3. QED BY <1>8, <2>2 DEF HasFields
<1>14. LeftIn(db, y) = l /\ RightIn(db, y) = LeftIn(db, r)
  BY <1>1, <1>8, <1>13 DEF HasFields, LeftIn, RightIn
<1>15. /\ HasFields(s, r.key, v, r.left, r.right, r.leftHash, r.rightHash)
       /\ HasFields(w, n.key, v, l, s, n.leftHash, Hash(s))
       /\ Measures(w, l, s)
       /\ Measures(s, LeftIn(db, r), RightIn(db, r))
  <2>1. y.right # NoNode
    BY <1>8, <1>13 DEF HasFields
  <2>2. Measures(s, LeftIn(db, r), RightIn(db, r)) /\ Measures(w, l, s)
    BY <1>10, <1>12, <1>14, <2>1 DEF RotatedRight
  <2>3. QED BY <1>8, <1>12, <2>2 DEF RotatedRight, HasFields
<1>16. Parent(s, r.key, v, LeftIn(db, r), RightIn(db, r)) /\ s.right = r.right
  BY <1>15 DEF HasFields, Parent, LeftIn, RightIn
<1>17. s # NoNode
  BY <1>16, HeightIs DEF Parent, Typed
<1>18. Parent(w, n.key, v, l, s) /\ w.left = l /\ w.right = s
  BY <1>1, <1>15, <1>17 DEF HasFields, Parent, LeftIn, RightIn
<1>19. QED BY <1>5, <1>13, <1>16, <1>18 DEF l, r, w, left, m

\* Right-left: the right child, whose left child has just been set, is rotated
\* to the right, and the node to the left.
LEMMA RightLeftIs ==
  ASSUME DbTyped(db), NEW n, InnerShape(n), Loads(n), NEW v,
         Shaped(RightIn(db, n)), InnerShape(RightIn(db, n)),
         Shaped(LeftIn(db, RightIn(db, n))),
         RightIn(db, n).leftHash \notin DOMAIN db, n.rightHash \notin DOMAIN db,
         LET right == RightRotate(RightNode(n), v)
             m == [n EXCEPT !.right = RightNode(n)]
         IN ~IsPanic(right) /\ ~IsPanic(LeftRotate([m EXCEPT !.right = right], v))
  PROVE  LET r == RightIn(db, n)
             b == LeftIn(db, r)
             right == RightRotate(RightNode(n), v)
             m == [n EXCEPT !.right = RightNode(n)]
             w == LeftRotate([m EXCEPT !.right = right], v)
         IN /\ InnerShape(b) /\ b.left # NoNode /\ b.right # NoNode
            /\ \E z, s : /\ Parent(z, n.key, v, LeftIn(db, n), LeftIn(db, b))
                         /\ Parent(s, r.key, v, RightIn(db, b), RightIn(db, r))
                         /\ s.right = r.right
                         /\ Parent(w, b.key, v, z, s)
<1> DEFINE r == RightIn(db, n)
           b == LeftIn(db, r)
           right == RightRotate(RightNode(n), v)
           m == [n EXCEPT !.right = RightNode(n)]
           twice == [m EXCEPT !.right = right]
           w == LeftRotate(twice, v)
<1>1. /\ RightNode(n) = r /\ r # NoNode /\ Shaped(r) /\ Typed(r) /\ InnerShape(r) /\ Loads(r)
      /\ Shaped(b) /\ Typed(b) /\ b # NoNode
  BY Lookups, HeightIs DEF Shaped
<1>2. ~IsPanic(right) /\ ~IsPanic(w)
  OBVIOUS
<1>3. r.leftHash \notin DOMAIN db /\ n.rightHash \notin DOMAIN db
  OBVIOUS
<1> HIDE DEF w
<1>4. HasFields(m, n.key, n.version, n.left, r, n.leftHash, n.rightHash)
  <2> HIDE DEF r
  <2>1. QED BY <1>1, FieldSet
<1>5. right = RightRotate(r, v)
  BY <1>1
<1> HIDE DEF m, r, right
<1>6. InnerShape(b) /\ \E z : RotatedRight(right, z, r, b, v)
  BY <1>1, <1>2, <1>5, RightRotateIs
<1> HIDE DEF b
<1>7. PICK s : RotatedRight(right, s, r, b, v)
  BY <1>6
<1>8. b.right # NoNode
  BY <1>3, <1>7 DEF RotatedRight
<1>9. /\ HasFields(s, r.key, v, b.right, r.right, b.rightHash, r.rightHash)
      /\ HasFields(right, b.key, v, b.left, s, b.leftHash, Hash(s))
      /\ Measures(s, RightIn(db, b), RightIn(db, r))
  BY <1>7, <1>8 DEF RotatedRight
<1>10. Parent(s, r.key, v, RightIn(db, b), RightIn(db, r)) /\ s.right = r.right
  <2>1. LeftIn(db, s) = RightIn(db, b) /\ RightIn(db, s) = RightIn(db, r)
    BY <1>9 DEF HasFields, LeftIn, RightIn
  <2>2. QED BY <1>9, <2>1 DEF HasFields, Parent
<1>11. Typed(s) /\ s # NoNode
  BY <1>10, HeightIs DEF Parent, Typed
<1>12. Loads(b)
  BY <1>1, <1>6 DEF Shaped
<1>13. InnerShape(right) /\ Loads(right) /\ Typed(right) /\ Shaped(right) /\ right # NoNode
  <2>1. InnerShape(right) /\ Typed(right)
    BY <1>9 DEF HasFields, Typed
  <2>2. Loads(right)
    BY <1>9, <1>11, <1>12 DEF HasFields, Loads
  <2>3. QED BY <2>1, <2>2, HeightIs DEF Shaped
<1>14. HasFields(twice, n.key, n.version, n.left, right, n.leftHash, n.rightHash)
  <2>1. InnerShape(m)
    BY <1>4 DEF HasFields
  <2>2. HasFields(twice, m.key, m.version, m.left, right, m.leftHash, m.rightHash)
    BY <2>1, FieldSet
  <2> HIDE DEF twice
  <2>3. QED BY <1>4, <2>2 DEF HasFields
<1>15. w = LeftRotate(twice, v)
  BY DEF w
<1> HIDE DEF twice
<1>16. /\ InnerShape(twice) /\ Loads(twice)
       /\ LeftIn(db, twice) = LeftIn(db, n) /\ RightIn(db, twice) = right
       /\ twice.key = n.key /\ twice.rightHash = n.rightHash
  BY <1>13, <1>14 DEF HasFields, Loads, LeftIn, RightIn
<1>17. \E z : RotatedLeft(w, z, twice, right, v)
  BY <1>2, <1>13, <1>15, <1>16, LeftRotateIs
<1>18. PICK z : RotatedLeft(w, z, twice, right, v)
  BY <1>17
<1>19. b.left # NoNode /\ right.left # NoNode
  <2>1. right.left # NoNode
    BY <1>3, <1>16, <1>18 DEF RotatedLeft
  <2>2. QED BY <1>9, <2>1 DEF HasFields
<1>20. LeftIn(db, right) = LeftIn(db, b) /\ RightIn(db, right) = s
  BY <1>9, <1>11, <1>19 DEF HasFields, LeftIn, RightIn
<1>21. Parent(z, n.key, v, LeftIn(db, n), LeftIn(db, b))
  <2>1. HasFields(z, n.key, v, n.left, right.left, n.leftHash, right.leftHash)
    BY <1>14, <1>18 DEF RotatedLeft, HasFields
  <2>2. LeftIn(db, z) = LeftIn(db, n) /\ RightIn(db, z) = LeftIn(db, right)
    BY <2>1 DEF HasFields, LeftIn, RightIn
  <2>3. QED BY <1>16, <1>18, <1>19, <1>20, <2>1, <2>2 DEF RotatedLeft, HasFields, Parent
<1>22. z # NoNode
  BY <1>21, HeightIs DEF Parent, Typed
<1>23. Parent(w, b.key, v, z, s)
  <2>1. HasFields(w, b.key, v, z, s, Hash(z), Hash(s)) /\ Measures(w, z, s)
    BY <1>9, <1>18, <1>20 DEF RotatedLeft, HasFields
  <2>2. QED BY <1>11, <1>22, <2>1 DEF HasFields, Parent, LeftIn, RightIn
<1>24. QED
  <2>1. InnerShape(b) /\ b.left # NoNode /\ b.right # NoNode
    BY <1>6, <1>8, <1>19
  <2>2. QED BY <2>1, <1>10, <1>21, <1>23 DEF b, r, right, m, w, twice

-----------------------------------------------------------------------------
(* Heights.  A node is poised if it is measured by its children, its right *)
(* subtree is at most one higher than its left one, and its right child is *)
(* not in memory unless key is at or past it: the sets of a version go up. *)
(* The nodes with the key x are excepted from the last; even asks also for *)
(* a left subtree at most one higher than the right one.                   *)

\* The node n, with the children l and r, for itself.
PoisedAbove(n, l, r, key, x, even) ==
  /\ Measures(n, l, r)
  /\ Height(r) <= Height(l) + 1
  /\ (even => Height(l) <= Height(r) + 1)
  /\ n.key \in Int
  /\ n.key <= key \/ n.key = x \/ n.right = NoNode

\* A leaf, or an inner node with its children in S.
PoisedIn(n, S, d, key, x, even) ==
  /\ n # Missing
  /\ IsInner(n) => /\ LeftIn(d, n) \in S /\ RightIn(d, n) \in S
                   /\ PoisedAbove(n, LeftIn(d, n), RightIn(d, n), key, x, even)

AllPoised(S, d, key, x, even) == \A n \in S : PoisedIn(n, S, d, key, x, even)

\* The node n and all below it.
Poised(n, d, key, x, even) == \E S : n \in S /\ AllPoised(S, d, key, x, even)

\* An inner node is poised above its children, which are poised.
LEMMA PoisedIs ==
  ASSUME NEW n, NEW d, NEW key, NEW x, NEW even, Poised(n, d, key, x, even), IsInner(n)
  PROVE  /\ Poised(LeftIn(d, n), d, key, x, even)
         /\ Poised(RightIn(d, n), d, key, x, even)
         /\ PoisedAbove(n, LeftIn(d, n), RightIn(d, n), key, x, even)
<1>1. PICK S : n \in S /\ AllPoised(S, d, key, x, even)
  BY DEF Poised
<1>2. PoisedIn(n, S, d, key, x, even)
  BY <1>1 DEF AllPoised
<1>3. QED BY <1>1, <1>2 DEF PoisedIn, Poised

\* A leaf is poised.
LEMMA LeafIsPoised ==
  ASSUME NEW n, Typed(n), IsLeaf(n), NEW d, NEW key, NEW x, NEW even
  PROVE  Poised(n, d, key, x, even)
<1>1. ~IsInner(n) /\ n # Missing
  BY HeightIs DEF IsLeaf, IsInner
<1>2. AllPoised({n}, d, key, x, even)
  BY <1>1 DEF AllPoised, PoisedIn
<1>3. QED BY <1>2 DEF Poised

\* So is a node that is poised above its children.
LEMMA ParentIsPoised ==
  ASSUME NEW n, Typed(n), NEW d, NEW key, NEW x, NEW even,
         Poised(LeftIn(d, n), d, key, x, even),
         Poised(RightIn(d, n), d, key, x, even),
         PoisedAbove(n, LeftIn(d, n), RightIn(d, n), key, x, even)
  PROVE  Poised(n, d, key, x, even)
<1>1. PICK S : LeftIn(d, n) \in S /\ AllPoised(S, d, key, x, even)
  BY DEF Poised
<1>2. PICK T : RightIn(d, n) \in T /\ AllPoised(T, d, key, x, even)
  BY DEF Poised
<1> DEFINE U == S \cup T \cup {n}
<1>3. ASSUME NEW m \in U PROVE PoisedIn(m, U, d, key, x, even)
  <2>1. CASE m \in S
    <3>1. PoisedIn(m, S, d, key, x, even)
      BY <1>1, <2>1 DEF AllPoised
    <3>2. QED BY <3>1 DEF PoisedIn
  <2>2. CASE m \in T
    <3>1. PoisedIn(m, T, d, key, x, even)
      BY <1>2, <2>2 DEF AllPoised
    <3>2. QED BY <3>1 DEF PoisedIn
  <2>3. CASE m = n
    <3>1. n # Missing
      BY HeightIs
    <3>2. QED BY <1>1, <1>2, <2>3, <3>1 DEF PoisedIn
  <2>4. QED BY <2>1, <2>2, <2>3
<1>4. AllPoised(U, d, key, x, even) /\ n \in U
  BY <1>3 DEF AllPoised
<1> HIDE DEF U
<1>5. QED BY <1>4 DEF Poised

\* A poised node stays so for later keys, for another exception that does not
\* matter, and when less is asked.
LEMMA PoisedLater ==
  ASSUME NEW n, NEW d, NEW key \in Int, NEW later \in Int, key <= later,
         NEW x \in Int, NEW y, x <= later \/ y = x,
         NEW even, NEW less, less => even,
         Poised(n, d, key, x, even)
  PROVE  Poised(n, d, later, y, less)
<1>1. PICK S : n \in S /\ AllPoised(S, d, key, x, even)
  BY DEF Poised
<1>2. ASSUME NEW m \in S PROVE PoisedIn(m, S, d, later, y, less)
  <2>1. PoisedIn(m, S, d, key, x, even)
    BY <1>1 DEF AllPoised
  <2>2. QED BY <2>1 DEF PoisedIn, PoisedAbove
<1>3. QED BY <1>1, <1>2 DEF Poised, AllPoised

\* A poised node stays so when nodes are added to the database.
LEMMA PoisedExtends ==
  ASSUME NEW n, NEW d, NEW e, Extends(d, e), NEW key, NEW x, NEW even,
         Poised(n, d, key, x, even)
  PROVE  Poised(n, e, key, x, even)
<1>1. PICK S : n \in S /\ AllPoised(S, d, key, x, even)
  BY DEF Poised
<1>2. \A m \in S : m # Missing
  BY <1>1 DEF AllPoised, PoisedIn
<1>3. ASSUME NEW m \in S PROVE PoisedIn(m, S, e, key, x, even)
  <2>1. PoisedIn(m, S, d, key, x, even)
    BY <1>1 DEF AllPoised
  <2>2. ASSUME IsInner(m)
        PROVE  LeftIn(e, m) = LeftIn(d, m) /\ RightIn(e, m) = RightIn(d, m)
    <3>1. LeftIn(d, m) # Missing /\ RightIn(d, m) # Missing
      BY <1>2, <2>1, <2>2 DEF PoisedIn
    <3>2. QED BY <3>1 DEF LeftIn, RightIn, Extends
  <2>3. QED BY <2>1, <2>2 DEF PoisedIn
<1>4. QED BY <1>1, <1>3 DEF Poised, AllPoised

\* A parent is poised if its children are.
LEMMA ParentPoised ==
  ASSUME NEW n, NEW k \in Int, NEW v, NEW l, NEW r, Parent(n, k, v, l, r),
         NEW key, NEW x, NEW even,
         Poised(l, db, key, x, even), Poised(r, db, key, x, even),
         Height(r) <= Height(l) + 1, even => Height(l) <= Height(r) + 1,
         k <= key \/ k = x \/ n.right = NoNode
  PROVE  /\ Poised(n, db, key, x, even)
         /\ Height(n) = 1 + Max2(Height(l), Height(r))
<1>1. Typed(n) /\ ~IsLeaf(n)
  BY Kinds DEF Parent, Typed, IsLeaf
<1>2. PoisedAbove(n, l, r, key, x, even)
  BY DEF Parent, PoisedAbove
<1>3. Poised(n, db, key, x, even)
  BY <1>1, <1>2, ParentIsPoised DEF Parent
<1>4. Height(n) = n.height
  BY <1>1 DEF Height
<1>5. QED BY <1>3, <1>4 DEF Parent, Measures

-----------------------------------------------------------------------------
(* What a set does to the heights of a tree that key does not come before. *)

\* What is known of a poised tree of an inner node.
LEMMA NodeIs ==
  ASSUME DbSound(db), NEW n, NEW lo, NEW hi, NEW f, NEW key, NEW x, NEW even,
         Tree(n, lo, hi, db, f), Poised(n, db, key, x, even), IsInner(n)
  PROVE  LET l == LeftIn(db, n)
             r == RightIn(db, n)
         IN /\ InnerShape(n) /\ Loads(n)
            /\ lo \in Int /\ hi \in Int /\ n.key \in Int /\ lo < n.key /\ n.key < hi
            /\ Tree(l, lo, n.key, db, f) /\ Poised(l, db, key, x, even)
            /\ Tree(r, n.key, hi, db, f) /\ Poised(r, db, key, x, even)
            /\ Shaped(l) /\ Typed(l) /\ Height(l) \in Nat
            /\ Shaped(r) /\ Typed(r) /\ Height(r) \in Nat
            /\ PoisedAbove(n, l, r, key, x, even)
            /\ Height(n) = 1 + Max2(Height(l), Height(r))
            /\ n.leftHash = Hash(l) /\ n.rightHash = Hash(r)
            /\ LeftNode(n) = l /\ RightNode(n) = r
<1> DEFINE l == LeftIn(db, n)
           r == RightIn(db, n)
<1>1. lo \in Key /\ hi \in Int /\ InnerTree(n, lo, hi, db, f)
  BY TreeIs DEF LeafTree, IsLeaf, IsInner
<1>2. InnerShape(n) /\ Loads(n)
  BY <1>1, TreeLoads DEF InnerTree
<1>3. LeftNode(n) = l /\ RightNode(n) = r
  BY <1>2, SoundIsTyped, Lookups
<1>4. /\ lo \in Int /\ n.key \in Int /\ lo < n.key /\ n.key < hi
      /\ Tree(l, lo, n.key, db, f) /\ Tree(r, n.key, hi, db, f)
      /\ n.leftHash = Hash(l) /\ n.rightHash = Hash(r)
  BY <1>1 DEF InnerTree, Key
<1>5. /\ Poised(l, db, key, x, even) /\ Poised(r, db, key, x, even)
      /\ PoisedAbove(n, l, r, key, x, even)
  BY PoisedIs
<1> HIDE DEF l, r
<1>6. Height(n) = 1 + Max2(Height(l), Height(r))
  BY <1>1, <1>5 DEF Height, PoisedAbove, Measures, InnerTree
<1>7. /\ Shaped(l) /\ Typed(l) /\ Height(l) \in Nat
      /\ Shaped(r) /\ Typed(r) /\ Height(r) \in Nat
  BY <1>4, TreeIsShaped, TreeIsTyped
<1>8. QED BY <1>1, <1>2, <1>3, <1>4, <1>5, <1>6, <1>7 DEF l, r

\* The tree n is poised, and none of its inner nodes is excepted.
Off(n, lo, hi, f, key, x, even) ==
  /\ Tree(n, lo, hi, db, f)
  /\ Poised(n, db, key, x, even)
  /\ x <= lo \/ hi <= x

\* The children of one are such trees.
LEMMA OffIs ==
  ASSUME DbSound(db), NEW n, NEW lo, NEW hi, NEW f, NEW key, NEW x \in Int, NEW even,
         Off(n, lo, hi, f, key, x, even), IsInner(n)
  PROVE  /\ InnerShape(n) /\ Loads(n)
         /\ lo \in Int /\ hi \in Int /\ n.key \in Int /\ lo < n.key /\ n.key < hi
         /\ Off(LeftIn(db, n), lo, n.key, f, key, x, even)
         /\ Off(RightIn(db, n), n.key, hi, f, key, x, even)
         /\ PoisedAbove(n, LeftIn(db, n), RightIn(db, n), key, x, even)
         /\ n.key # x
         /\ Height(n) = 1 + Max2(Height(LeftIn(db, n)), Height(RightIn(db, n)))
         /\ n.leftHash = Hash(LeftIn(db, n)) /\ n.rightHash = Hash(RightIn(db, n))
         /\ LeftNode(n) = LeftIn(db, n) /\ RightNode(n) = RightIn(db, n)
<1> DEFINE l == LeftIn(db, n)
           r == RightIn(db, n)
<1>1. Tree(n, lo, hi, db, f) /\ Poised(n, db, key, x, even) /\ (x <= lo \/ hi <= x)
  BY DEF Off
<1>2. /\ InnerShape(n) /\ Loads(n)
      /\ lo \in Int /\ hi \in Int /\ n.key \in Int /\ lo < n.key /\ n.key < hi
      /\ Tree(l, lo, n.key, db, f) /\ Poised(l, db, key, x, even)
      /\ Tree(r, n.key, hi, db, f) /\ Poised(r, db, key, x, even)
      /\ PoisedAbove(n, l, r, key, x, even)
      /\ Height(n) = 1 + Max2(Height(l), Height(r))
      /\ n.leftHash = Hash(l) /\ n.rightHash = Hash(r)
      /\ LeftNode(n) = l /\ RightNode(n) = r
  BY <1>1, NodeIs
<1> HIDE DEF l, r
<1>3. (x <= lo \/ n.key <= x) /\ (x <= n.key \/ hi <= x) /\ n.key # x
  BY <1>1, <1>2
<1>4. Off(l, lo, n.key, f, key, x, even) /\ Off(r, n.key, hi, f, key, x, even)
  BY <1>2, <1>3 DEF Off
<1>5. QED BY <1>2, <1>3, <1>4 DEF l, r

\* The two subtrees differ by at most one.
Level(n) ==
  IsInner(n) => /\ Height(RightIn(db, n)) <= Height(LeftIn(db, n)) + 1
                /\ Height(LeftIn(db, n)) <= Height(RightIn(db, n)) + 1

\* A set of key has made n, of height h + 1, of a node of height h: the side of
\* the key has grown and the other one is lower.
Grown(n, h, key, v) ==
  /\ IsInner(n)
  /\ IF key < n.key
     THEN /\ Height(LeftIn(db, n)) = h
          /\ h # 0 /\ Height(RightIn(db, n)) = h - 1
          /\ LeftIn(db, n).version = v /\ Level(LeftIn(db, n))
     ELSE /\ Height(RightIn(db, n)) = h
          /\ \/ h = 0 /\ Height(LeftIn(db, n)) = 0
             \/ h # 0 /\ Height(LeftIn(db, n)) = h - 1 /\ n.key < key

\* A set of key has made c of n, whose least key is lo: the height is the same,
\* or one more if the key was not yet there.
Raised(c, n, lo, key, v) ==
  /\ c.version = v
  /\ \/ Height(c) = Height(n)
     \/ /\ Height(c) = Height(n) + 1
        /\ key # lo
        /\ Grown(c, Height(n), key, v)

\* What has grown is level.
LEMMA GrownIsLevel ==
  ASSUME NEW n, NEW h \in Nat, NEW key, NEW v, Grown(n, h, key, v)
  PROVE  Level(n)
BY DEF Grown, Level

\* A set of the left child: either that is all, or the rebalancing panics.
LEMMA OffLeft ==
  ASSUME DbSound(db), NEW v, Fresh(v), NEW n, NEW lo, NEW hi, NEW f, NEW g,
         NEW key \in Int, NEW x \in Int, NEW even,
         Off(n, lo, hi, f, key, x, even), IsInner(n), lo <= key, key < n.key,
         NEW c, Off(c, lo, n.key, g, key, x, even), Raised(c, LeftIn(db, n), lo, key, v),
         Tree(SetChild(n, c, key, v), lo, hi, db, g),
         ~IsPanic(SetInner(n, c, key, v))
  PROVE  /\ Poised(SetInner(n, c, key, v), db, key, x, even)
         /\ Raised(SetInner(n, c, key, v), n, lo, key, v)
<1> DEFINE l == LeftIn(db, n)
           q == RightIn(db, n)
           y == SetChild(n, c, key, v)
           w == SetInner(n, c, key, v)
<1>1. DbTyped(db)
  BY SoundIsTyped
<1>2. /\ InnerShape(n) /\ Loads(n)
      /\ lo \in Int /\ hi \in Int /\ n.key \in Int /\ lo < n.key /\ n.key < hi
      /\ Off(q, n.key, hi, f, key, x, even)
      /\ PoisedAbove(n, l, q, key, x, even)
      /\ n.key # x
      /\ Height(n) = 1 + Max2(Height(l), Height(q))
  BY OffIs
<1>3. /\ Shaped(l) /\ Shaped(q) /\ Shaped(c) /\ Typed(c) /\ Typed(q)
      /\ Height(l) \in Nat /\ Height(q) \in Nat /\ Height(c) \in Nat
  <2>1. Shaped(l) /\ Shaped(q) /\ Shaped(c)
    BY OffIs, TreeIsShaped DEF Off
  <2>2. QED BY <2>1, HeightIs DEF Shaped
<1>4. w = IF IsPanic(y) THEN y ELSE Rebalanced(y, key, v)
  BY DEF SetInner
<1>5. ~IsPanic(y)
  BY TreeIsTyped
<1>6. /\ HasFields(y, n.key, v, c, n.right, Hash(c), n.rightHash)
      /\ Parent(y, n.key, v, c, q)
  BY <1>1, <1>2, <1>3, <1>5, SetChildIs
<1> HIDE DEF y, l, q
<1>7. InnerShape(y) /\ Loads(y) /\ y.leftHash \notin DOMAIN db
  <2>1. InnerShape(y)
    BY <1>6 DEF Parent
  <2>2. Loads(y)
    BY <1>2, <1>3, <1>6 DEF HasFields, Loads
  <2>3. Hash(c) \notin DOMAIN db
    BY <1>3, NotStored DEF Raised
  <2>4. QED BY <1>6, <2>1, <2>2, <2>3 DEF HasFields
<1>8. LeftIn(db, y) = c /\ RightIn(db, y) = q /\ LeftNode(y) = c /\ RightNode(y) = q
  BY <1>1, <1>6, <1>7, Lookups DEF Parent
<1>9. /\ BalanceFactor(y) = Height(c) - Height(q)
      /\ Height(q) <= Height(l) + 1
      /\ Height(c) = Height(l) \/ Height(c) = Height(l) + 1
  BY <1>2, <1>8 DEF BalanceFactor, PoisedAbove, Raised, l
<1>10. CASE Height(c) <= Height(q) + 1
  <2>1. w = y
    <3>1. ~ (BalanceFactor(y) > 1) /\ ~ (BalanceFactor(y) < -1)
      BY <1>3, <1>9, <1>10
    <3>2. Rebalanced(y, key, v) = y
      BY <3>1, Zenon DEF Rebalanced
    <3>3. QED BY <1>4, <1>5, <3>2
  <2>2. Poised(y, db, key, x, even) /\ Height(y) = 1 + Max2(Height(c), Height(q))
    <3>1. Poised(c, db, key, x, even) /\ Poised(q, db, key, x, even)
      BY <1>2 DEF Off
    <3>2. Height(q) <= Height(c) + 1
      BY <1>3, <1>9
    <3>3. n.key <= key \/ n.key = x \/ y.right = NoNode
      BY <1>2, <1>6 DEF PoisedAbove, HasFields
    <3>4. QED BY <1>2, <1>6, <1>10, <3>1, <3>2, <3>3, ParentPoised
  <2>3. Raised(y, n, lo, key, v)
    <3>1. y.version = v /\ y.key = n.key
      BY <1>6 DEF HasFields
    <3>2. CASE Height(c) = Height(l) \/ Height(c) <= Height(q)
      <4>1. Height(y) = Height(n)
        BY <1>2, <1>3, <1>9, <2>2, <3>2 DEF Max2
      <4>2. QED BY <3>1, <4>1 DEF Raised
    <3>3. CASE ~ (Height(c) = Height(l) \/ Height(c) <= Height(q))
      <4>1. /\ Height(y) = Height(n) + 1 /\ Height(c) = Height(n)
            /\ Height(n) # 0 /\ Height(q) = Height(n) - 1
        <5>1. Height(c) = Height(l) + 1 /\ Height(c) > Height(q)
          BY <1>3, <1>9, <3>3
        <5>2. Max2(Height(c), Height(q)) = Height(c) /\ Max2(Height(l), Height(q)) = Height(l)
          BY <1>3, <5>1 DEF Max2
        <5>3. QED BY <1>2, <1>3, <1>10, <2>2, <5>1, <5>2
      <4>2. c.version = v /\ key # lo /\ Grown(c, Height(l), key, v)
        BY <3>3 DEF Raised, l
      <4>3. Level(c)
        BY <1>3, <4>2, GrownIsLevel
      <4>4. IsInner(y) /\ key < y.key
        BY <1>7, <3>1, Kinds DEF IsInner
      <4>5. Grown(y, Height(n), key, v)
        BY <1>8, <4>1, <4>2, <4>3, <4>4 DEF Grown
      <4>6. QED BY <3>1, <4>1, <4>2, <4>5 DEF Raised
    <3>4. QED BY <3>2, <3>3
  <2>4. QED BY <2>1, <2>2, <2>3 DEF w
<1>11. CASE Height(c) > Height(q) + 1
  <2> DEFINE ml == [y EXCEPT !.left = LeftNode(y)]
             left == LeftRotate(ml, v)
  <2>1. w = IF key < c.key THEN RightRotate(ml, v)
            ELSE IF IsPanic(left) THEN left ELSE RightRotate(left, v)
    <3>1. BalanceFactor(y) > 1
      BY <1>3, <1>9, <1>11
    <3>2. Rebalanced(y, key, v) =
            IF key < c.key THEN RightRotate(ml, v)
            ELSE IF IsPanic(left) THEN left ELSE RightRotate(left, v)
      BY <1>8, <3>1, Zenon DEF Rebalanced
    <3>3. QED BY <1>4, <1>5, <3>2
  <2>2. ~IsPanic(w)
    BY DEF w
  <2>3. CASE key < c.key
    <3>1. ~IsPanic(RightRotate(ml, v))
      BY <2>1, <2>2, <2>3
    <3>2. InnerShape(c) /\ c.right # NoNode
      BY <1>1, <1>3, <1>7, <1>8, <3>1, LeftLeftIs
    <3>3. IsInner(c)
      BY <3>2, Kinds DEF IsInner
    <3>4. /\ c.key # x /\ c.key \in Int
          /\ c.key <= key \/ c.key = x \/ c.right = NoNode
      BY <3>3, OffIs DEF PoisedAbove
    <3>5. QED BY <2>3, <3>2, <3>4
  <2>4. CASE ~ (key < c.key)
    <3>1. ~IsPanic(left) /\ ~IsPanic(RightRotate(left, v))
      BY <2>1, <2>2, <2>4
    <3>2. InnerShape(q) /\ q.left # NoNode
      BY <1>1, <1>3, <1>7, <1>8, <3>1, LeftRightIs
    <3>3. n.right = NoNode
      BY <1>2 DEF PoisedAbove
    <3>4. q \in {db[h] : h \in DOMAIN db}
      BY <1>3, <3>3, HeightIs DEF RightIn, q
    <3>5. Stored(q) = q
      BY <3>4 DEF DbSound
    <3>6. q.left = NoNode
      BY <3>2, <3>5, StoredIs
    <3>7. QED BY <3>2, <3>6
  <2>5. QED BY <2>3, <2>4
<1>12. QED BY <1>3, <1>10, <1>11

\* A right child that has grown two above the left one: a rotation, or two,
\* make the node as high as it was.
LEMMA OffRotates ==
  ASSUME DbSound(db), NEW v, Fresh(v), NEW y, NEW k \in Int, NEW l, NEW c,
         Parent(y, k, v, l, c), Loads(y), y.rightHash = Hash(c), Shaped(l),
         NEW lo, NEW hi, NEW g, NEW key \in Int, NEW x \in Int, NEW even,
         Off(c, k, hi, g, key, x, even), c.version = v,
         Poised(l, db, key, x, even), k <= key, key < hi,
         NEW h \in Nat, h # 0, Grown(c, h, key, v), Height(c) = h + 1, Height(l) = h - 1,
         ~IsPanic(Rebalanced(y, key, v))
  PROVE  /\ Poised(Rebalanced(y, key, v), db, key, x, even)
         /\ Rebalanced(y, key, v).version = v
         /\ Height(Rebalanced(y, key, v)) = h + 1
<1> DEFINE m == [y EXCEPT !.right = RightNode(y)]
           right == RightRotate(RightNode(y), v)
           twice == [m EXCEPT !.right = right]
           w == Rebalanced(y, key, v)
           b == LeftIn(db, c)
           d == RightIn(db, c)
<1>1. DbTyped(db)
  BY SoundIsTyped
<1>2. /\ InnerShape(y) /\ y.key = k /\ y.version = v
      /\ LeftIn(db, y) = l /\ RightIn(db, y) = c
      /\ LeftNode(y) = l /\ RightNode(y) = c
  BY <1>1, Lookups DEF Parent
<1>3. Shaped(c) /\ Typed(c) /\ Typed(l) /\ InnerShape(c)
  <2>1. Shaped(c) /\ Typed(c)
    BY TreeIsShaped DEF Off, Shaped
  <2>2. InnerShape(c)
    BY <2>1, Kinds DEF Grown, Typed, IsInner
  <2>3. QED BY <2>1, <2>2 DEF Shaped
<1>4. IsInner(c)
  BY DEF Grown
<1>5. /\ k \in Int /\ hi \in Int /\ c.key \in Int /\ k < c.key /\ c.key < hi
      /\ Off(b, k, c.key, g, key, x, even)
      /\ Off(d, c.key, hi, g, key, x, even)
      /\ PoisedAbove(c, b, d, key, x, even) /\ c.key # x
      /\ Height(c) = 1 + Max2(Height(b), Height(d))
      /\ c.leftHash = Hash(b)
  BY <1>4, OffIs
<1>6. /\ Shaped(b) /\ Shaped(d) /\ Typed(b) /\ Typed(d)
      /\ Height(b) \in Nat /\ Height(d) \in Nat
      /\ Poised(b, db, key, x, even) /\ Poised(d, db, key, x, even)
  <2>1. Shaped(b) /\ Shaped(d) /\ Poised(b, db, key, x, even) /\ Poised(d, db, key, x, even)
    BY <1>5, TreeIsShaped DEF Off
  <2>2. QED BY <2>1, HeightIs DEF Shaped
<1> HIDE DEF b, d
<1>7. w = IF key > c.key THEN LeftRotate(m, v)
          ELSE IF IsPanic(right) THEN right ELSE LeftRotate(twice, v)
  <2>1. BalanceFactor(y) < -1 /\ ~ (BalanceFactor(y) > 1)
    BY <1>2 DEF BalanceFactor
  <2>2. Rebalanced(y, key, v) =
          IF key > c.key THEN LeftRotate(m, v)
          ELSE IF IsPanic(right) THEN right ELSE LeftRotate(twice, v)
    BY <1>2, <2>1, Zenon DEF Rebalanced
  <2>3. QED BY <2>2
<1>8. ~IsPanic(w)
  OBVIOUS
<1>9. y.rightHash \notin DOMAIN db
  BY <1>3, NotStored
<1>10. ASSUME NEW z, Parent(z, k, v, l, LeftIn(db, c)), Height(b) = h - 1
       PROVE  Poised(z, db, key, x, even) /\ Height(z) = h
  <2>1. /\ Poised(z, db, key, x, even)
        /\ Height(z) = 1 + Max2(Height(l), Height(b))
    BY <1>6, <1>10, ParentPoised DEF b
  <2>2. QED BY <1>6, <1>10, <2>1 DEF Max2
<1> HIDE DEF w, m, twice, right
<1>11. CASE key > c.key
  <2>1. Height(d) = h /\ Height(b) = h - 1
    BY <1>5, <1>11 DEF Grown, b, d
  <2>2. w = LeftRotate(m, v) /\ ~IsPanic(LeftRotate(m, v))
    BY <1>7, <1>8, <1>11
  <2>3. \E z : /\ Parent(z, k, v, l, LeftIn(db, c))
               /\ Parent(w, c.key, v, z, RightIn(db, c))
    BY <1>1, <1>2, <1>3, <1>9, <2>2, RightRightIs DEF m
  <2>4. PICK z : /\ Parent(z, k, v, l, LeftIn(db, c))
                 /\ Parent(w, c.key, v, z, d)
    BY <2>3 DEF d
  <2>5. Poised(z, db, key, x, even) /\ Height(z) = h
    BY <1>10, <2>1, <2>4
  <2>6. Poised(w, db, key, x, even) /\ Height(w) = 1 + Max2(Height(z), Height(d))
    <3>1. /\ Height(d) <= Height(z) + 1 /\ (even => Height(z) <= Height(d) + 1)
          /\ c.key <= key
      BY <1>5, <1>11, <2>1, <2>5
    <3>2. QED BY <1>5, <1>6, <2>4, <2>5, <3>1, ParentPoised
  <2>7. QED BY <2>1, <2>4, <2>5, <2>6 DEF Max2, Parent, w
<1>12. CASE ~ (key > c.key)
  <2>1. key < c.key
    BY <1>5, <1>12 DEF Grown
  <2>2. /\ Height(b) = h /\ Height(d) = h - 1
        /\ b.version = v /\ Level(b)
    BY <2>1 DEF Grown, b, d
  <2>3. c.leftHash \notin DOMAIN db
    BY <1>5, <1>6, <2>2, NotStored
  <2>4. w = LeftRotate(twice, v) /\ ~IsPanic(right) /\ ~IsPanic(LeftRotate(twice, v))
    BY <1>7, <1>8, <1>12
  <2>5. /\ InnerShape(b) /\ b.left # NoNode /\ b.right # NoNode
        /\ \E z, s : /\ Parent(z, k, v, l, LeftIn(db, b))
                     /\ Parent(s, c.key, v, RightIn(db, b), d)
                     /\ s.right = c.right
                     /\ Parent(w, b.key, v, z, s)
    BY <1>1, <1>2, <1>3, <1>6, <1>9, <2>3, <2>4, RightLeftIs DEF m, twice, right, b, d
  <2> DEFINE p == LeftIn(db, b)
             q == RightIn(db, b)
  <2>6. PICK z, s : /\ Parent(z, k, v, l, p)
                    /\ Parent(s, c.key, v, q, d)
                    /\ s.right = c.right
                    /\ Parent(w, b.key, v, z, s)
    BY <2>5
  <2>7. IsInner(b)
    BY <2>5, Kinds DEF IsInner
  <2>8. /\ Off(p, k, b.key, g, key, x, even)
        /\ Off(q, b.key, c.key, g, key, x, even)
        /\ PoisedAbove(b, p, q, key, x, even) /\ b.key # x
        /\ Height(b) = 1 + Max2(Height(p), Height(q))
    BY <1>5, <2>7, OffIs
  <2>9. /\ Height(p) \in Nat /\ Height(q) \in Nat
        /\ Poised(p, db, key, x, even) /\ Poised(q, db, key, x, even)
    BY <2>8, TreeIsTyped DEF Off
  <2>10. /\ Height(q) <= Height(p) + 1 /\ Height(p) <= Height(q) + 1
    BY <2>2, <2>7 DEF Level
  <2> HIDE DEF p, q
  <2>11. /\ Height(p) <= h - 1 /\ Height(q) <= h - 1
         /\ Height(p) >= h - 2 /\ Height(q) >= h - 2
    BY <2>2, <2>8, <2>9, <2>10 DEF Max2
  <2>12. Poised(z, db, key, x, even) /\ Height(z) = h
    <3>1. /\ Height(p) <= Height(l) + 1 /\ (even => Height(l) <= Height(p) + 1)
      BY <2>9, <2>11
    <3>2. Poised(z, db, key, x, even) /\ Height(z) = 1 + Max2(Height(l), Height(p))
      BY <2>6, <2>9, <3>1, ParentPoised
    <3>3. QED BY <2>9, <2>11, <3>2 DEF Max2
  <2>13. Poised(s, db, key, x, even) /\ Height(s) = h
    <3>1. s.right = NoNode
      BY <1>5, <2>1, <2>6 DEF PoisedAbove
    <3>2. /\ Height(d) <= Height(q) + 1 /\ (even => Height(q) <= Height(d) + 1)
      BY <2>2, <2>9, <2>11
    <3>3. Poised(s, db, key, x, even) /\ Height(s) = 1 + Max2(Height(q), Height(d))
      BY <1>5, <1>6, <2>6, <2>9, <3>1, <3>2, ParentPoised
    <3>4. QED BY <2>2, <2>9, <2>11, <3>3 DEF Max2
  <2>14. Poised(w, db, key, x, even) /\ Height(w) = 1 + Max2(Height(z), Height(s))
    <3>1. b.key \in Int /\ b.key <= key
      BY <2>5, <2>8 DEF PoisedAbove
    <3>2. Height(s) <= Height(z) + 1 /\ (even => Height(z) <= Height(s) + 1)
      BY <2>12, <2>13
    <3>3. QED BY <2>6, <2>12, <2>13, <3>1, <3>2, ParentPoised
  <2>15. QED BY <2>6, <2>12, <2>13, <2>14 DEF Max2, Parent, w
<1>13. QED BY <1>11, <1>12

\* The left-right case, which is not even.
MeetsCase(y, key) == BalanceFactor(y) > 1 /\ key >= LeftNode(y).key

\* A node that is left-heavy after a set of its right child, or whose key is
\* excepted, stays as high as it is.
LEMMA LeftHeavyStays ==
  ASSUME DbSound(db), NEW v, Fresh(v), NEW y, NEW k \in Int, NEW l, NEW r,
         Parent(y, k, v, l, r), Loads(y), Shaped(l), Shaped(r),
         NEW key \in Int, NEW x \in Int, NEW even, ~even,
         Poised(l, db, key, x, even), Poised(r, db, key, x, even),
         k <= key \/ k = x, ~ (key < l.key),
         Height(l) > Height(r) + 1, ~IsPanic(Rebalanced(y, key, v))
  PROVE  LET w == Rebalanced(y, key, v) IN
         /\ Poised(w, db, key, x, even)
         /\ \E s : /\ Parent(w, k, v, l, s) /\ w.left = l /\ w.right = s
                   /\ Height(s) = Height(r) /\ Poised(s, db, key, x, even)
         /\ r.left # NoNode
<1> DEFINE left == LeftRotate([y EXCEPT !.left = LeftNode(y)], v)
           w == Rebalanced(y, key, v)
<1>1. DbTyped(db)
  BY SoundIsTyped
<1>2. /\ InnerShape(y) /\ y.key = k
      /\ LeftIn(db, y) = l /\ RightIn(db, y) = r
      /\ LeftNode(y) = l /\ RightNode(y) = r
  BY <1>1, Lookups DEF Parent
<1>3. Height(l) \in Nat /\ Height(r) \in Nat
  BY HeightIs DEF Shaped
<1>4. w = IF IsPanic(left) THEN left ELSE RightRotate(left, v)
  <2>1. BalanceFactor(y) > 1
    BY <1>2, <1>3 DEF BalanceFactor
  <2>2. Rebalanced(y, key, v) = IF IsPanic(left) THEN left ELSE RightRotate(left, v)
    BY <1>2, <2>1, Zenon DEF Rebalanced
  <2>3. QED BY <2>2
<1>5. ~IsPanic(w)
  OBVIOUS
<1> HIDE DEF w
<1>6. ~IsPanic(left) /\ ~IsPanic(RightRotate(left, v)) /\ w = RightRotate(left, v)
  BY <1>4, <1>5
<1>7. /\ InnerShape(r) /\ r.left # NoNode
      /\ \E s : /\ Parent(s, r.key, v, LeftIn(db, r), RightIn(db, r))
                /\ s.right = r.right
                /\ Parent(w, k, v, l, s)
                /\ w.left = l /\ w.right = s
  BY <1>1, <1>2, <1>6, LeftRightIs
<1>8. PICK s : /\ Parent(s, r.key, v, LeftIn(db, r), RightIn(db, r))
               /\ s.right = r.right
               /\ Parent(w, k, v, l, s)
               /\ w.left = l /\ w.right = s
  BY <1>7
<1> HIDE DEF left
<1>9. IsInner(r) /\ ~IsLeaf(r) /\ IsInner(s) /\ ~IsLeaf(s)
  BY <1>7, <1>8, Kinds DEF IsInner, IsLeaf, Parent
<1>10. /\ Poised(LeftIn(db, r), db, key, x, even)
       /\ Poised(RightIn(db, r), db, key, x, even)
       /\ PoisedAbove(r, LeftIn(db, r), RightIn(db, r), key, x, even)
  BY <1>9, PoisedIs
<1>11. Poised(s, db, key, x, even)
  BY <1>8, <1>10, ParentPoised DEF PoisedAbove
<1>12. Height(s) = Height(r)
  BY <1>8, <1>9, <1>10 DEF Height, Parent, PoisedAbove, Measures
<1>13. Poised(w, db, key, x, even)
  <2>1. Height(s) <= Height(l) + 1
    BY <1>3, <1>12
  <2>2. QED BY <1>8, <1>11, <2>1, ParentPoised
<1>14. QED BY <1>7, <1>8, <1>11, <1>12, <1>13 DEF w

\* A set of the right child.
LEMMA OffRight ==
  ASSUME DbSound(db), NEW v, Fresh(v), NEW n, NEW lo, NEW hi, NEW f, NEW g,
         NEW key \in Int, NEW x \in Int, NEW even \in BOOLEAN,
         Off(n, lo, hi, f, key, x, even), IsInner(n), ~ (key < n.key), key < hi,
         NEW c, Off(c, n.key, hi, g, key, x, even),
         Raised(c, RightIn(db, n), n.key, key, v),
         Tree(SetChild(n, c, key, v), lo, hi, db, g),
         even => ~MeetsCase(SetChild(n, c, key, v), key),
         ~IsPanic(SetInner(n, c, key, v))
  PROVE  /\ Poised(SetInner(n, c, key, v), db, key, x, even)
         /\ Raised(SetInner(n, c, key, v), n, lo, key, v)
<1> DEFINE l == LeftIn(db, n)
           r == RightIn(db, n)
           y == SetChild(n, c, key, v)
           w == SetInner(n, c, key, v)
<1>1. DbTyped(db)
  BY SoundIsTyped
<1>2. /\ InnerShape(n) /\ Loads(n)
      /\ lo \in Int /\ hi \in Int /\ n.key \in Int /\ lo < n.key /\ n.key < hi
      /\ Off(l, lo, n.key, f, key, x, even)
      /\ Off(r, n.key, hi, f, key, x, even)
      /\ PoisedAbove(n, l, r, key, x, even)
      /\ n.key # x
      /\ Height(n) = 1 + Max2(Height(l), Height(r))
  BY OffIs
<1>3. /\ Shaped(l) /\ Shaped(r) /\ Shaped(c) /\ Typed(c) /\ Typed(l)
      /\ Height(l) \in Nat /\ Height(r) \in Nat /\ Height(c) \in Nat
      /\ Poised(l, db, key, x, even) /\ Poised(c, db, key, x, even)
  <2>1. Shaped(l) /\ Shaped(r) /\ Shaped(c)
    BY <1>2, TreeIsShaped DEF Off
  <2>2. QED BY <1>2, <2>1, HeightIs DEF Shaped, Off
<1>4. w = IF IsPanic(y) THEN y ELSE Rebalanced(y, key, v)
  BY DEF SetInner
<1>5. ~IsPanic(y)
  BY TreeIsTyped
<1>6. /\ HasFields(y, n.key, v, n.left, c, n.leftHash, Hash(c))
      /\ Parent(y, n.key, v, l, c)
  BY <1>1, <1>2, <1>3, <1>5, SetChildIs
<1>7. w = Rebalanced(y, key, v) /\ ~IsPanic(Rebalanced(y, key, v))
  BY <1>4, <1>5
<1>8. even => ~MeetsCase(y, key)
  OBVIOUS
<1> HIDE DEF y, l, r, w
<1>9. InnerShape(y) /\ Loads(y) /\ y.version = v /\ y.key = n.key /\ y.rightHash = Hash(c)
  <2>1. InnerShape(y) /\ y.version = v /\ y.key = n.key /\ y.rightHash = Hash(c)
    BY <1>6 DEF HasFields
  <2>2. Loads(y)
    BY <1>2, <1>3, <1>6 DEF HasFields, Loads
  <2>3. QED BY <2>1, <2>2
<1>10. LeftIn(db, y) = l /\ RightIn(db, y) = c /\ LeftNode(y) = l /\ RightNode(y) = c
  BY <1>1, <1>6, <1>9, Lookups DEF Parent
<1>11. /\ BalanceFactor(y) = Height(l) - Height(c)
       /\ Height(r) <= Height(l) + 1
       /\ \/ Height(c) = Height(r)
          \/ /\ Height(c) = Height(r) + 1
             /\ key # n.key /\ Grown(c, Height(r), key, v)
  BY <1>2, <1>10 DEF BalanceFactor, PoisedAbove, Raised, r
<1>12. key \in Int /\ n.key <= key /\ key # lo
  BY <1>2
<1>13. SUFFICES /\ Poised(w, db, key, x, even)
                /\ Raised(w, n, lo, key, v)
  BY DEF w
<1>14. CASE Height(l) > Height(c) + 1
  <2>1. ~ (key < l.key)
    <3>1. IsInner(l)
      <4>1. Height(l) # 0
        BY <1>3, <1>14
      <4>2. ~IsLeaf(l)
        BY <4>1 DEF Height
      <4>3. QED BY <1>3, <4>2, Kinds DEF Typed, IsLeaf, IsInner
    <3>2. l.key \in Int /\ l.key < n.key
      BY <1>2, <3>1, OffIs
    <3>3. QED BY <1>2, <1>12, <3>2
  <2>2. ~even
    <3>1. BalanceFactor(y) > 1
      BY <1>3, <1>11, <1>14
    <3>2. even => ~ (key >= l.key)
      BY <1>8, <1>10, <3>1 DEF MeetsCase
    <3>3. ASSUME even PROVE FALSE
      <4>1. IsInner(l)
        <5>1. Height(l) # 0
          BY <1>3, <1>14
        <5>2. ~IsLeaf(l)
          BY <5>1 DEF Height
        <5>3. QED BY <1>3, <5>2, Kinds DEF Typed, IsLeaf, IsInner
      <4>2. l.key \in Int
        BY <1>2, <4>1, OffIs
      <4>3. QED BY <2>1, <3>2, <3>3, <4>2
    <3>4. QED BY <3>3
  <2>3. n.key <= key \/ n.key = x
    BY <1>12
  <2>4. /\ Poised(w, db, key, x, even)
        /\ \E s : Parent(w, n.key, v, l, s) /\ Height(s) = Height(c)
    BY <1>2, <1>3, <1>6, <1>7, <1>9, <1>14, <2>1, <2>2, <2>3, LeftHeavyStays
  <2>5. PICK s : Parent(w, n.key, v, l, s) /\ Height(s) = Height(c)
    BY <2>4
  <2>6. Height(w) = Height(n) /\ w.version = v
    <3>1. ~IsLeaf(w)
      BY <2>5, Kinds DEF Parent, IsLeaf
    <3>2. Height(w) = 1 + Max2(Height(l), Height(c)) /\ w.version = v
      BY <2>5, <3>1 DEF Parent, Measures, Height
    <3>3. Height(r) <= Height(c)
      BY <1>3, <1>11
    <3>4. QED BY <1>2, <1>3, <1>14, <3>2, <3>3 DEF Max2
  <2>7. QED BY <2>4, <2>6 DEF Raised
<1>15. CASE Height(l) <= Height(c) + 1 /\ Height(c) <= Height(l) + 1
  <2>1. w = y
    <3>1. ~ (BalanceFactor(y) > 1) /\ ~ (BalanceFactor(y) < -1)
      BY <1>3, <1>11, <1>15
    <3>2. Rebalanced(y, key, v) = y
      BY <3>1, Zenon DEF Rebalanced
    <3>3. QED BY <1>7, <3>2
  <2>2. Poised(y, db, key, x, even) /\ Height(y) = 1 + Max2(Height(l), Height(c))
    BY <1>2, <1>3, <1>6, <1>12, <1>15, ParentPoised
  <2>3. Raised(y, n, lo, key, v)
    <3>1. CASE Height(c) = Height(r) \/ Height(c) <= Height(l)
      <4>1. Height(y) = Height(n)
        BY <1>2, <1>3, <1>11, <2>2, <3>1 DEF Max2
      <4>2. QED BY <1>9, <4>1 DEF Raised
    <3>2. CASE ~ (Height(c) = Height(r) \/ Height(c) <= Height(l))
      <4>1. Height(c) = Height(r) + 1 /\ Height(c) > Height(l) /\ key # n.key
        BY <1>3, <1>11, <3>2
      <4>2. Max2(Height(l), Height(c)) = Height(c) /\ Max2(Height(l), Height(r)) = Height(r)
        BY <1>3, <4>1 DEF Max2
      <4>3. /\ Height(y) = Height(n) + 1 /\ Height(c) = Height(n)
            /\ Height(n) # 0 /\ Height(l) = Height(n) - 1
        BY <1>2, <1>3, <1>15, <2>2, <4>1, <4>2
      <4>4. IsInner(y) /\ ~ (key < y.key) /\ y.key < key
        BY <1>2, <1>9, <1>12, <4>1, Kinds DEF IsInner
      <4>5. Grown(y, Height(n), key, v)
        BY <1>10, <4>3, <4>4 DEF Grown
      <4>6. QED BY <1>9, <1>12, <4>3, <4>5 DEF Raised
    <3>3. QED BY <3>1, <3>2
  <2>4. QED BY <2>1, <2>2, <2>3
<1>16. CASE Height(c) > Height(l) + 1
  <2> DEFINE h == Height(r)
  <2>1. /\ Height(c) = h + 1 /\ Height(l) = h - 1 /\ h \in Nat /\ h # 0
        /\ Grown(c, h, key, v)
    BY <1>3, <1>11, <1>16
  <2>2. c.version = v
    BY DEF Raised
  <2> HIDE DEF h
  <2>3. Poised(w, db, key, x, even) /\ w.version = v /\ Height(w) = h + 1
    BY <1>2, <1>3, <1>6, <1>7, <1>9, <1>12, <2>1, <2>2, OffRotates
  <2>4. Height(n) = h + 1
    BY <1>2, <2>1 DEF Max2, h
  <2>5. QED BY <2>3, <2>4 DEF Raised
<1>17. QED BY <1>3, <1>14, <1>15, <1>16

\* A pair of leaves.
LEMMA PairIs ==
  ASSUME NEW a, NEW b, Typed(a), Typed(b), IsLeaf(a), IsLeaf(b), NEW v
  PROVE  Parent(Pair(a, b, v), b.key, v, a, b)
<1> DEFINE n == Pair(a, b, v)
<1>1. a # NoNode /\ b # NoNode
  BY HeightIs
<1>2. /\ n.height = 1 /\ n.size = 2 /\ InnerShape(n) /\ n.key = b.key /\ n.version = v
      /\ n.left = a /\ n.right = b
  BY DEF Pair, InnerShape
<1>3. Height(a) = 0 /\ Height(b) = 0 /\ Size(a) = 1 /\ Size(b) = 1
  BY DEF Height, Size
<1> HIDE DEF n
<1>4. LeftIn(db, n) = a /\ RightIn(db, n) = b
  BY <1>1, <1>2 DEF LeftIn, RightIn
<1>5. Parent(n, b.key, v, a, b)
  BY <1>2, <1>3, <1>4 DEF Parent, Measures, Max2
<1>6. QED BY <1>5 DEF n

\* A set that ends at a leaf which key does not come before.
LEMMA OffLeaf ==
  ASSUME NEW n, NEW lo, NEW hi, NEW f, NEW key \in Int, NEW x, NEW even, NEW value, NEW v,
         Off(n, lo, hi, f, key, x, even), IsLeaf(n), lo <= key
  PROVE  LET w == SetLeaf(n, NewLeaf(key, value, v), v) IN
         /\ Poised(w, db, key, x, even)
         /\ Raised(w, n, lo, key, v)
<1> DEFINE leaf == NewLeaf(key, value, v)
           w == SetLeaf(n, leaf, v)
<1>1. /\ lo \in Int /\ n.key = lo /\ Typed(n)
      /\ Tree(n, lo, hi, db, f) /\ Poised(n, db, key, x, even)
  <2>1. Tree(n, lo, hi, db, f) /\ Poised(n, db, key, x, even)
    BY DEF Off
  <2>2. lo \in Key /\ n.key = lo
    BY <2>1, TreeIs DEF LeafTree, InnerTree
  <2>3. QED BY <2>1, <2>2, TreeIsTyped DEF Key
<1>2. leaf.key = key /\ leaf.version = v /\ IsLeaf(leaf) /\ Typed(leaf)
  BY DEF NewLeaf, IsLeaf, Typed, LeafShape
<1>3. Height(n) = 0 /\ Height(leaf) = 0
  BY <1>2 DEF Height
<1> HIDE DEF leaf
<1>4. Poised(leaf, db, key, x, even)
  BY <1>2, LeafIsPoised
<1>5. CASE key = lo
  <2>1. w = leaf
    BY <1>1, <1>2, <1>5 DEF SetLeaf
  <2>2. QED BY <1>2, <1>3, <1>4, <2>1 DEF Raised, leaf
<1>6. CASE key # lo
  <2>1. w = Pair(n, leaf, v)
    BY <1>1, <1>2, <1>6 DEF SetLeaf
  <2> HIDE DEF w
  <2>2. Parent(w, key, v, n, leaf)
    BY <1>1, <1>2, <2>1, PairIs
  <2>3. Poised(w, db, key, x, even) /\ Height(w) = 1 + Max2(Height(n), Height(leaf))
    BY <1>1, <1>3, <1>4, <2>2, ParentPoised
  <2>4. Height(w) = Height(n) + 1
    BY <1>3, <2>3 DEF Max2
  <2>5. Grown(w, Height(n), key, v)
    BY <1>1, <1>3, <2>2, Kinds DEF Grown, Parent, IsInner
  <2>6. Raised(w, n, lo, key, v)
    BY <1>6, <2>2, <2>4, <2>5 DEF Raised, Parent
  <2>7. QED BY <2>3, <2>6 DEF w, leaf
<1>7. QED BY <1>5, <1>6

-----------------------------------------------------------------------------
(* What a set does to the heights of a tree that key comes before.         *)

\* The left edge of a tree down to the node of the key x, with the height that
\* each node would have without the left subtree of that node.
EdgeIn(m, k, T, d, x) ==
  /\ IsInner(m) /\ k \in Nat
  /\ \/ m.key = x /\ k = Height(RightIn(d, m))
     \/ /\ m.key > x
        /\ Height(LeftIn(d, m)) <= Height(RightIn(d, m)) + 1
        /\ \E j : /\ <<LeftIn(d, m), j>> \in T
                  /\ Height(RightIn(d, m)) <= j + 1
                  /\ k = 1 + Max2(j, Height(RightIn(d, m)))

AllEdge(T, d, x) == \A m, k : <<m, k>> \in T => EdgeIn(m, k, T, d, x)

\* The edge of the tree n, which would have the height h.
Edge(n, d, h, x) == \E T : <<n, h>> \in T /\ AllEdge(T, d, x)

\* An edge is its lowest node, or a node above one.
LEMMA EdgeIs ==
  ASSUME NEW n, NEW d, NEW h, NEW x, Edge(n, d, h, x)
  PROVE  /\ IsInner(n) /\ h \in Nat
         /\ \/ n.key = x /\ h = Height(RightIn(d, n))
            \/ /\ n.key > x
               /\ Height(LeftIn(d, n)) <= Height(RightIn(d, n)) + 1
               /\ \E j : /\ Edge(LeftIn(d, n), d, j, x)
                         /\ Height(RightIn(d, n)) <= j + 1
                         /\ h = 1 + Max2(j, Height(RightIn(d, n)))
<1>1. PICK T : <<n, h>> \in T /\ AllEdge(T, d, x)
  BY DEF Edge
<1>2. EdgeIn(n, h, T, d, x)
  BY <1>1 DEF AllEdge
<1>3. ASSUME NEW j, <<LeftIn(d, n), j>> \in T PROVE Edge(LeftIn(d, n), d, j, x)
  BY <1>1, <1>3 DEF Edge
<1>4. QED BY <1>2, <1>3 DEF EdgeIn

\* The node of the key x is an edge.
LEMMA LowestIsEdge ==
  ASSUME NEW n, IsInner(n), NEW d, NEW x, n.key = x, Height(RightIn(d, n)) \in Nat
  PROVE  Edge(n, d, Height(RightIn(d, n)), x)
<1> DEFINE h == Height(RightIn(d, n))
           T == {<<n, h>>}
<1>1. EdgeIn(n, h, T, d, x)
  BY DEF EdgeIn
<1>2. AllEdge(T, d, x)
  BY <1>1 DEF AllEdge
<1>3. QED BY <1>2 DEF Edge

\* So is a node above an edge.
LEMMA AboveIsEdge ==
  ASSUME NEW n, IsInner(n), NEW d, NEW x, n.key > x, NEW j \in Nat,
         Edge(LeftIn(d, n), d, j, x), Height(RightIn(d, n)) \in Nat,
         Height(LeftIn(d, n)) <= Height(RightIn(d, n)) + 1,
         Height(RightIn(d, n)) <= j + 1
  PROVE  Edge(n, d, 1 + Max2(j, Height(RightIn(d, n))), x)
<1> DEFINE h == 1 + Max2(j, Height(RightIn(d, n)))
<1>1. PICK T : <<LeftIn(d, n), j>> \in T /\ AllEdge(T, d, x)
  BY DEF Edge
<1> DEFINE U == T \cup {<<n, h>>}
<1>2. h \in Nat
  BY DEF Max2
<1>3. EdgeIn(n, h, U, d, x)
  BY <1>1, <1>2 DEF EdgeIn
<1> HIDE DEF h
<1>4. ASSUME NEW m, NEW k, <<m, k>> \in U PROVE EdgeIn(m, k, U, d, x)
  <2>1. CASE <<m, k>> \in T
    <3>1. EdgeIn(m, k, T, d, x)
      BY <1>1, <2>1 DEF AllEdge
    <3>2. QED BY <3>1 DEF EdgeIn
  <2>2. CASE m = n /\ k = h
    BY <1>3, <2>2
  <2>3. QED BY <1>4, <2>1, <2>2
<1>5. AllEdge(U, d, x) /\ <<n, h>> \in U
  BY <1>4 DEF AllEdge
<1> HIDE DEF U
<1>6. QED BY <1>5 DEF Edge, h

\* A set of key has made c of the left child of n, a node above the edge.
AboveEdge(n, c, k, key, x, even, v) ==
  /\ \E lo, hi, f : Tree(n, lo, hi, db, f)
  /\ Poised(n, db, key, x, even) /\ IsInner(n)
  /\ key < x /\ x < n.key
  /\ \E low, g : Tree(c, low, n.key, db, g)
  /\ Poised(c, db, key, x, even) /\ k \in Nat /\ Edge(c, db, k, x) /\ c.version = v
  /\ \/ Height(c) = Height(LeftIn(db, n))
     \/ Height(c) = Height(LeftIn(db, n)) + 1
  /\ Height(RightIn(db, n)) <= k + 1
  /\ c.key = x /\ Height(c) > Height(RightIn(db, n)) + 1 =>
       /\ Height(LeftIn(db, c)) > Height(RightIn(db, c))
       /\ Height(LeftIn(db, n)) <= Height(RightIn(db, n)) + 1

\* A set of the left child of a node above the edge.
LEMMA FrontStep ==
  ASSUME DbSound(db), NEW v, Fresh(v), NEW n, NEW c, NEW k,
         NEW key \in Int, NEW x \in Int, NEW even,
         AboveEdge(n, c, k, key, x, even, v),
         ~IsPanic(SetChild(n, c, key, v)), ~IsPanic(SetInner(n, c, key, v))
  PROVE  LET w == SetInner(n, c, key, v) IN
         /\ Poised(w, db, key, x, even)
         /\ Edge(w, db, 1 + Max2(k, Height(RightIn(db, n))), x)
         /\ w.version = v
         /\ Height(w) = Height(n) \/ Height(w) = Height(n) + 1
         /\ w.key = x => /\ Height(w) = Height(n) /\ c.key = x
                         /\ Height(c) > Height(RightIn(db, n)) + 1
<1> DEFINE l == LeftIn(db, n)
           q == RightIn(db, n)
           y == SetChild(n, c, key, v)
           w == SetInner(n, c, key, v)
<1>0. /\ \E lo, hi, f : Tree(n, lo, hi, db, f)
      /\ Poised(n, db, key, x, even) /\ IsInner(n)
      /\ key < x /\ x < n.key
      /\ \E low, g : Tree(c, low, n.key, db, g)
      /\ Poised(c, db, key, x, even) /\ k \in Nat /\ Edge(c, db, k, x) /\ c.version = v
      /\ Height(c) = Height(l) \/ Height(c) = Height(l) + 1
      /\ Height(q) <= k + 1
      /\ c.key = x /\ Height(c) > Height(q) + 1 =>
           /\ Height(LeftIn(db, c)) > Height(RightIn(db, c))
           /\ Height(l) <= Height(q) + 1
  BY DEF AboveEdge
<1>1. DbTyped(db)
  BY SoundIsTyped
<1>2. /\ InnerShape(n) /\ Loads(n) /\ n.key \in Int
      /\ Shaped(q) /\ Typed(q) /\ Height(l) \in Nat /\ Height(q) \in Nat
      /\ Poised(q, db, key, x, even)
      /\ PoisedAbove(n, l, q, key, x, even)
      /\ Height(n) = 1 + Max2(Height(l), Height(q))
  BY <1>0, NodeIs
<1>3. /\ Shaped(c) /\ Typed(c) /\ IsInner(c) /\ Height(c) \in Nat
  BY <1>0, TreeIsShaped, TreeIsTyped, EdgeIs
<1>4. w = Rebalanced(y, key, v)
  BY DEF SetInner
<1>5. /\ HasFields(y, n.key, v, c, n.right, Hash(c), n.rightHash)
      /\ Parent(y, n.key, v, c, q)
  BY <1>0, <1>1, <1>2, <1>3, SetChildIs
<1>6. ~IsPanic(w)
  OBVIOUS
<1> HIDE DEF y, w
<1>7. InnerShape(y) /\ Loads(y) /\ y.leftHash \notin DOMAIN db
  <2>1. InnerShape(y)
    BY <1>5 DEF Parent
  <2>2. Loads(y)
    BY <1>0, <1>2, <1>3, <1>5 DEF HasFields, Loads
  <2>3. Hash(c) \notin DOMAIN db
    BY <1>0, <1>3, NotStored
  <2>4. QED BY <1>5, <2>1, <2>2, <2>3 DEF HasFields
<1>8. LeftIn(db, y) = c /\ RightIn(db, y) = q /\ LeftNode(y) = c /\ RightNode(y) = q
  BY <1>0, <1>1, <1>5, <1>7, Lookups DEF Parent
<1>9. /\ BalanceFactor(y) = Height(c) - Height(q)
      /\ Height(q) <= Height(l) + 1
      /\ Height(c) = Height(l) \/ Height(c) = Height(l) + 1
      /\ Height(q) <= k + 1
  BY <1>0, <1>2, <1>8 DEF BalanceFactor, PoisedAbove
<1>10. n.right = NoNode
  BY <1>0, <1>2 DEF PoisedAbove
<1>11. c.key = x /\ Height(c) > Height(q) + 1 =>
           /\ Height(LeftIn(db, c)) > Height(RightIn(db, c))
           /\ Height(l) <= Height(q) + 1
  BY <1>0
<1>12. SUFFICES /\ Poised(w, db, key, x, even)
                /\ Edge(w, db, 1 + Max2(k, Height(q)), x)
                /\ w.version = v
                /\ Height(w) = Height(n) \/ Height(w) = Height(n) + 1
                /\ w.key = x => Height(w) = Height(n) /\ c.key = x /\ Height(c) > Height(q) + 1
  BY DEF w
<1> HIDE DEF l, q
<1>13. CASE Height(c) <= Height(q) + 1
  <2>1. w = y
    <3>1. ~ (BalanceFactor(y) > 1) /\ ~ (BalanceFactor(y) < -1)
      BY <1>0, <1>2, <1>3, <1>9, <1>13
    <3>2. Rebalanced(y, key, v) = y
      BY <3>1, Zenon DEF Rebalanced
    <3>3. QED BY <1>4, <3>2
  <2>2. Poised(y, db, key, x, even) /\ Height(y) = 1 + Max2(Height(c), Height(q))
    <3>1. Height(q) <= Height(c) + 1
      BY <1>0, <1>2, <1>3, <1>9
    <3>2. y.right = NoNode
      BY <1>5, <1>10 DEF HasFields
    <3>3. QED BY <1>0, <1>2, <1>5, <1>13, <3>1, <3>2, ParentPoised
  <2>3. y.key = n.key /\ y.version = v /\ IsInner(y)
    BY <1>5, <1>7, Kinds DEF HasFields, IsInner
  <2>4. Edge(y, db, 1 + Max2(k, Height(q)), x)
    BY <1>0, <1>2, <1>8, <1>9, <1>13, <2>3, AboveIsEdge
  <2>5. Height(y) = Height(n) \/ Height(y) = Height(n) + 1
    BY <1>0, <1>2, <1>3, <1>9, <2>2 DEF Max2
  <2>6. y.key # x
    BY <1>0, <1>2, <2>3
  <2>7. QED BY <2>1, <2>2, <2>3, <2>4, <2>5, <2>6
<1>14. CASE Height(c) > Height(q) + 1
  <2> DEFINE ml == [y EXCEPT !.left = LeftNode(y)]
             left == LeftRotate(ml, v)
             a == LeftIn(db, c)
             s == RightIn(db, c)
  <2>1. key < c.key /\ c.key \in Int
    <3>1. c.key = x \/ c.key > x
      BY <1>0, EdgeIs
    <3>2. c.key \in Int
      BY <1>0, <1>3, NodeIs
    <3>3. QED BY <1>0, <3>1, <3>2
  <2>2. w = RightRotate(ml, v)
    <3>1. BalanceFactor(y) > 1
      BY <1>0, <1>2, <1>3, <1>9, <1>14
    <3>2. Rebalanced(y, key, v) =
            IF key < c.key THEN RightRotate(ml, v)
            ELSE IF IsPanic(left) THEN left ELSE RightRotate(left, v)
      BY <1>8, <3>1, Zenon DEF Rebalanced
    <3>3. QED BY <1>4, <2>1, <3>2
  <2>3. ~IsPanic(RightRotate(ml, v))
    BY <1>6, <2>2
  <2> HIDE DEF left
  <2>4. /\ InnerShape(c) /\ c.right # NoNode
        /\ \E z : /\ Parent(z, n.key, v, s, q)
                  /\ z.right = n.right
                  /\ Parent(w, c.key, v, a, z)
    <3>1. y.key = n.key /\ y.right = n.right
      BY <1>5 DEF HasFields
    <3>2. QED BY <1>0, <1>1, <1>3, <1>7, <1>8, <2>2, <2>3, <3>1, LeftLeftIs
  <2>5. PICK z : /\ Parent(z, n.key, v, s, q)
                 /\ z.right = n.right
                 /\ Parent(w, c.key, v, a, z)
    BY <2>4
  <2> HIDE DEF ml
  <2>6. /\ PoisedAbove(c, a, s, key, x, even)
        /\ Poised(a, db, key, x, even) /\ Poised(s, db, key, x, even)
        /\ Height(a) \in Nat /\ Height(s) \in Nat
        /\ Height(c) = 1 + Max2(Height(a), Height(s))
    BY <1>0, <1>3, NodeIs
  <2>7. c.key = x
    BY <1>0, <2>1, <2>4, <2>6 DEF PoisedAbove
  <2>8. k = Height(s)
    BY <1>0, <2>1, <2>7, EdgeIs
  <2>9. /\ Height(a) > Height(s) /\ Height(l) <= Height(q) + 1
        /\ (even => Height(a) <= Height(s) + 1)
    BY <1>0, <1>11, <1>14, <2>6, <2>7 DEF PoisedAbove
  <2> HIDE DEF a, s
  <2>10. Max2(Height(a), Height(s)) = Height(a)
    BY <2>6, <2>9 DEF Max2
  <2>11. /\ Height(c) = Height(q) + 2 /\ Height(l) = Height(q) + 1
         /\ Height(a) = Height(q) + 1 /\ Height(s) <= Height(q)
    BY <1>0, <1>2, <1>3, <1>9, <1>14, <2>6, <2>9, <2>10
  <2>12. Poised(z, db, key, x, even) /\ Height(z) = 1 + Max2(Height(s), Height(q))
    <3>1. Height(q) <= Height(s) + 1 /\ (even => Height(s) <= Height(q) + 1)
      BY <1>0, <1>2, <1>9, <2>6, <2>8, <2>11
    <3>2. QED BY <1>0, <1>2, <1>10, <2>5, <2>6, <3>1, ParentPoised
  <2>13. Height(z) = Height(q) + 1
    BY <1>0, <1>2, <2>6, <2>11, <2>12 DEF Max2
  <2>14. Poised(w, db, key, x, even) /\ Height(w) = 1 + Max2(Height(a), Height(z))
    <3>1. Height(z) <= Height(a) + 1 /\ (even => Height(a) <= Height(z) + 1)
      BY <1>0, <1>2, <2>6, <2>11, <2>13
    <3>2. QED BY <2>1, <2>5, <2>6, <2>7, <2>12, <3>1, ParentPoised
  <2>15. Height(w) = Height(n)
    <3>1. Max2(Height(a), Height(z)) = Height(q) + 1
      BY <1>0, <1>2, <2>6, <2>11, <2>13 DEF Max2
    <3>2. Max2(Height(l), Height(q)) = Height(q) + 1
      BY <1>0, <1>2, <2>11 DEF Max2
    <3>3. QED BY <1>0, <1>2, <2>14, <3>1, <3>2
  <2>16. w.key = x /\ w.version = v /\ RightIn(db, w) = z /\ IsInner(w)
    BY <2>5, <2>7, Kinds DEF Parent, IsInner
  <2>17. Edge(w, db, 1 + Max2(k, Height(q)), x)
    <3>1. Height(z) = 1 + Max2(k, Height(q))
      BY <2>8, <2>12
    <3>2. Edge(w, db, Height(z), x)
      BY <1>0, <1>2, <2>13, <2>16, LowestIsEdge
    <3>3. QED BY <3>1, <3>2
  <2>18. QED BY <1>0, <1>14, <2>7, <2>14, <2>15, <2>16, <2>17
<1>15. QED BY <1>0, <1>2, <1>3, <1>13, <1>14

\* A set of the left child of the lowest node of the edge.
LEMMA FrontLowest ==
  ASSUME DbSound(db), NEW v, Fresh(v), NEW n, NEW lo, NEW hi, NEW f, NEW g,
         NEW key \in Int, NEW x \in Int, NEW even \in BOOLEAN,
         Tree(n, lo, hi, db, f), Poised(n, db, key, x, even), IsInner(n),
         key < x, n.key = x,
         NEW c, Off(c, lo, x, g, key, x, even), Raised(c, LeftIn(db, n), lo, key, v),
         even => ~MeetsCase(SetChild(n, c, key, v), key),
         ~IsPanic(SetChild(n, c, key, v)), ~IsPanic(SetInner(n, c, key, v))
  PROVE  LET w == SetInner(n, c, key, v) IN
         /\ Poised(w, db, key, x, even)
         /\ Edge(w, db, Height(RightIn(db, n)), x)
         /\ w.version = v /\ w.key = x
         /\ \/ Height(w) = Height(n)
            \/ /\ Height(w) = Height(n) + 1
               /\ Height(LeftIn(db, w)) > Height(RightIn(db, w))
<1> DEFINE l == LeftIn(db, n)
           q == RightIn(db, n)
           y == SetChild(n, c, key, v)
           w == SetInner(n, c, key, v)
<1>1. DbTyped(db)
  BY SoundIsTyped
<1>2. /\ InnerShape(n) /\ Loads(n) /\ n.key \in Int
      /\ Shaped(q) /\ Typed(q) /\ Height(l) \in Nat /\ Height(q) \in Nat
      /\ Poised(q, db, key, x, even)
      /\ PoisedAbove(n, l, q, key, x, even)
      /\ Height(n) = 1 + Max2(Height(l), Height(q))
  BY NodeIs
<1>3. /\ Shaped(c) /\ Typed(c) /\ Height(c) \in Nat /\ Poised(c, db, key, x, even)
  BY TreeIsShaped, TreeIsTyped DEF Off
<1>4. w = Rebalanced(y, key, v)
  BY DEF SetInner
<1>5. /\ HasFields(y, n.key, v, c, n.right, Hash(c), n.rightHash)
      /\ Parent(y, n.key, v, c, q)
  BY <1>1, <1>2, <1>3, SetChildIs
<1>6. ~IsPanic(w) /\ (even => ~MeetsCase(y, key))
  OBVIOUS
<1> HIDE DEF y, w
<1>7. InnerShape(y) /\ Loads(y) /\ y.leftHash \notin DOMAIN db
  <2>1. InnerShape(y)
    BY <1>5 DEF Parent
  <2>2. Loads(y)
    BY <1>2, <1>3, <1>5 DEF HasFields, Loads
  <2>3. Hash(c) \notin DOMAIN db
    BY <1>3, NotStored DEF Raised
  <2>4. QED BY <1>5, <2>1, <2>2, <2>3 DEF HasFields
<1>8. LeftIn(db, y) = c /\ RightIn(db, y) = q /\ LeftNode(y) = c /\ RightNode(y) = q
  BY <1>1, <1>5, <1>7, Lookups DEF Parent
<1>9. /\ BalanceFactor(y) = Height(c) - Height(q)
      /\ Height(q) <= Height(l) + 1
      /\ Height(c) = Height(l) \/ Height(c) = Height(l) + 1
  BY <1>2, <1>8 DEF BalanceFactor, PoisedAbove, Raised
<1> HIDE DEF l, q
<1>10. SUFFICES \E s : /\ Poised(w, db, key, x, even)
                       /\ Parent(w, x, v, c, s) /\ Height(s) = Height(q)
  <2>1. PICK s : /\ Poised(w, db, key, x, even)
                 /\ Parent(w, x, v, c, s) /\ Height(s) = Height(q)
    BY <1>10
  <2>2. /\ IsInner(w) /\ ~IsLeaf(w) /\ w.key = x /\ w.version = v
        /\ LeftIn(db, w) = c /\ RightIn(db, w) = s
    BY <2>1, Kinds DEF Parent, IsInner, IsLeaf
  <2>3. Height(w) = 1 + Max2(Height(c), Height(q))
    BY <2>1, <2>2 DEF Parent, Measures, Height
  <2>4. Edge(w, db, Height(q), x)
    BY <1>2, <2>1, <2>2, LowestIsEdge
  <2>5. \/ Height(w) = Height(n)
        \/ Height(w) = Height(n) + 1 /\ Height(c) > Height(q)
    BY <1>2, <1>3, <1>9, <2>3 DEF Max2
  <2>6. QED BY <2>1, <2>2, <2>4, <2>5 DEF w, q
<1>11. CASE Height(c) <= Height(q) + 1
  <2>1. w = y
    <3>1. ~ (BalanceFactor(y) > 1) /\ ~ (BalanceFactor(y) < -1)
      BY <1>2, <1>3, <1>9, <1>11
    <3>2. Rebalanced(y, key, v) = y
      BY <3>1, Zenon DEF Rebalanced
    <3>3. QED BY <1>4, <3>2
  <2>2. Poised(y, db, key, x, even)
    <3>1. Height(q) <= Height(c) + 1
      BY <1>2, <1>3, <1>9
    <3>2. QED BY <1>2, <1>3, <1>5, <1>11, <3>1, ParentPoised
  <2>3. QED BY <1>5, <2>1, <2>2
<1>12. CASE Height(c) > Height(q) + 1
  <2> DEFINE ml == [y EXCEPT !.left = LeftNode(y)]
             left == LeftRotate(ml, v)
  <2>1. BalanceFactor(y) > 1
    BY <1>2, <1>3, <1>9, <1>12
  <2>2. IsInner(c)
    <3>1. ~IsLeaf(c)
      BY <1>2, <1>12 DEF Height
    <3>2. QED BY <1>3, <3>1, Kinds DEF Typed, IsLeaf, IsInner
  <2>3. /\ c.key # x /\ c.key \in Int
        /\ c.key <= key \/ c.key = x \/ c.right = NoNode
    BY <2>2, OffIs DEF PoisedAbove
  <2>4. CASE key < c.key
    <3>1. Rebalanced(y, key, v) =
            IF key < c.key THEN RightRotate(ml, v)
            ELSE IF IsPanic(left) THEN left ELSE RightRotate(left, v)
      BY <1>8, <2>1, Zenon DEF Rebalanced
    <3>2. ~IsPanic(RightRotate(ml, v))
      BY <1>4, <1>6, <2>4, <3>1
    <3>3. c.right # NoNode
      BY <1>1, <1>3, <1>7, <1>8, <3>2, LeftLeftIs
    <3>4. QED BY <2>3, <2>4, <3>3
  <2>5. CASE ~ (key < c.key)
    <3>1. ~even
      <4>1. key >= LeftNode(y).key
        BY <1>8, <2>3, <2>5
      <4>2. QED BY <1>6, <2>1, <4>1 DEF MeetsCase
    <3>2. ~IsPanic(Rebalanced(y, key, v)) /\ Parent(y, x, v, c, q)
      BY <1>4, <1>5, <1>6
    <3>3. /\ Poised(w, db, key, x, even)
          /\ \E s : Parent(w, x, v, c, s) /\ Height(s) = Height(q)
      BY <1>2, <1>3, <1>4, <1>7, <1>12, <2>5, <3>1, <3>2, LeftHeavyStays
    <3>4. QED BY <3>3
  <2>6. QED BY <2>4, <2>5
<1>13. QED BY <1>2, <1>3, <1>11, <1>12

\* A set of a key before the leaf n.
LEMMA FrontLeaf ==
  ASSUME NEW n, NEW lo, NEW hi, NEW f, NEW key \in Int, NEW even, NEW value, NEW v,
         Tree(n, lo, hi, db, f), IsLeaf(n), key < lo
  PROVE  LET w == SetLeaf(n, NewLeaf(key, value, v), v) IN
         /\ Poised(w, db, key, lo, even)
         /\ Edge(w, db, Height(n), lo)
         /\ w.version = v
         /\ Height(w) = 1 /\ Height(n) = 0
<1> DEFINE leaf == NewLeaf(key, value, v)
           w == SetLeaf(n, leaf, v)
<1>1. lo \in Int /\ n.key = lo /\ Typed(n)
  <2>1. lo \in Key /\ n.key = lo
    BY TreeIs DEF LeafTree, InnerTree
  <2>2. QED BY <2>1, TreeIsTyped DEF Key
<1>2. leaf.key = key /\ leaf.version = v /\ IsLeaf(leaf) /\ Typed(leaf)
  BY DEF NewLeaf, IsLeaf, Typed, LeafShape
<1>3. Height(n) = 0 /\ Height(leaf) = 0
  BY <1>2 DEF Height
<1> HIDE DEF leaf
<1>4. Poised(leaf, db, key, lo, even) /\ Poised(n, db, key, lo, even)
  BY <1>1, <1>2, LeafIsPoised
<1>5. w = Pair(leaf, n, v)
  BY <1>1, <1>2 DEF SetLeaf
<1> HIDE DEF w
<1>6. Parent(w, lo, v, leaf, n)
  BY <1>1, <1>2, <1>5, PairIs
<1>7. Poised(w, db, key, lo, even) /\ Height(w) = 1 + Max2(Height(leaf), Height(n))
  BY <1>1, <1>3, <1>4, <1>6, ParentPoised
<1>8. Height(w) = 1
  BY <1>3, <1>7 DEF Max2
<1>9. IsInner(w) /\ w.key = lo /\ w.version = v /\ RightIn(db, w) = n
  BY <1>6, Kinds DEF Parent, IsInner
<1>10. Edge(w, db, Height(n), lo)
  BY <1>3, <1>9, LowestIsEdge
<1>11. QED BY <1>3, <1>7, <1>8, <1>9, <1>10 DEF w, leaf

-----------------------------------------------------------------------------
(* A set, from the leaf up the path.                                       *)

\* The set of a key in the tree n.
SetOn(n, lo, hi, f, g, key, value, v) ==
  /\ DbSound(db) /\ Tree(n, lo, hi, db, f) /\ hi <= MaxKey + 1
  /\ key \in Key /\ key < hi
  /\ \A k \in Key : k < lo => f[k] = NoNode
  /\ Updates(g, f, key) /\ g[key] = NewLeaf(key, value, v)

\* What is known of an inner node of the path, when the set has not panicked.
LEMMA SetLevelIs ==
  ASSUME NEW n, NEW lo, NEW hi, NEW f, NEW g, NEW key, NEW value, NEW v,
         SetOn(n, lo, hi, f, g, key, value, v),
         NEW i \in Nat, i + 1 <= MaxKey, NEW l, NEW h, NEW m,
         m = Path(n, key)[MaxKey - (i + 1)],
         OnPath(m, MaxKey - (i + 1), l, h, lo, hi, key, f), IsInner(m),
         ~IsPanic(SetAbove(n, key, value, v)[i + 1])
  PROVE  LET b == Path(n, key)[MaxKey - i]
             c == SetAbove(n, key, value, v)[i]
             y == SetChild(m, c, key, v)
         IN /\ SetAbove(n, key, value, v)[i + 1] = SetInner(m, c, key, v)
            /\ ~IsPanic(c) /\ ~IsPanic(y) /\ Tree(y, Lower(key, l), h, db, g)
            /\ key < m.key => /\ b = LeftIn(db, m)
                              /\ OnPath(b, MaxKey - i, l, m.key, lo, hi, key, f)
                              /\ Tree(c, Lower(key, l), m.key, db, g)
            /\ ~ (key < m.key) => /\ b = RightIn(db, m)
                                  /\ OnPath(b, MaxKey - i, m.key, h, lo, hi, key, f)
                                  /\ Tree(c, m.key, h, db, g)
<1> DEFINE path == Path(n, key)
           s == SetAbove(n, key, value, v)
           depth == MaxKey - (i + 1)
           b == path[MaxKey - i]
           c == s[i]
           y == SetChild(m, c, key, v)
<1>1. /\ DbTyped(db) /\ lo \in Key /\ lo \in Int /\ hi \in Int /\ key \in Key /\ key \in Int
      /\ MaxKey \in Nat /\ depth \in Nat /\ depth + 1 = MaxKey - i /\ i \in Depth
      /\ depth + 1 \in 0..MaxKey /\ i + 1 \in 0..MaxKey
  BY SoundIsTyped, TreeIs, MaxKeyAssumption DEF SetOn, Key, Depth
<1>2. b = Toward(m, key)
  <2>1. path[depth + 1] = IF depth + 1 = 0 THEN n ELSE Toward(path[(depth + 1) - 1], key)
    BY <1>1, PathIs DEF IsPath
  <2>2. (depth + 1) - 1 = depth /\ depth + 1 # 0
    BY <1>1
  <2>3. QED BY <1>1, <2>1, <2>2
<1>3. s[i + 1] = SetOf(m, s[(i + 1) - 1], i + 1, key, value, v)
  BY <1>1, SetAboveIs DEF AreSets
<1>4. ~IsLeaf(m) /\ ~IsPanic(m) /\ i + 1 # 0 /\ (i + 1) - 1 = i
  BY DEF IsLeaf, IsInner, IsPanic
<1>5. s[i + 1] = SetInner(m, c, key, v)
  BY <1>3, <1>4 DEF SetOf
<1> HIDE DEF path, s, depth, b, c
<1>6. ~IsPanic(y)
  BY <1>5 DEF SetInner, s
<1>7. ~IsPanic(c)
  BY <1>6 DEF SetChild
<1>8. Tree(m, l, h, db, f) /\ key < h
  BY DEF OnPath
<1>9. LeftNode(m) = LeftIn(db, m) /\ RightNode(m) = RightIn(db, m)
  BY <1>1, <1>8, LoadKeeps
<1>10. /\ key < m.key => /\ b = LeftIn(db, m)
                         /\ OnPath(b, MaxKey - i, l, m.key, lo, hi, key, f)
       /\ ~ (key < m.key) => /\ b = RightIn(db, m)
                             /\ OnPath(b, MaxKey - i, m.key, h, lo, hi, key, f)
  <2>1. OnPath(m, depth, l, h, lo, hi, key, f)
    BY DEF depth
  <2>2. /\ key < m.key => OnPath(LeftNode(m), depth + 1, l, m.key, lo, hi, key, f)
        /\ ~ (key < m.key) => OnPath(RightNode(m), depth + 1, m.key, h, lo, hi, key, f)
    BY <1>1, <2>1, TowardKeeps
  <2>3. b = IF key < m.key THEN LeftNode(m) ELSE RightNode(m)
    BY <1>2 DEF Toward
  <2>4. QED BY <1>1, <1>9, <2>2, <2>3
<1>11. \A a, z : OnPath(b, MaxKey - i, a, z, lo, hi, key, f)
                   => IsPanic(c) \/ Tree(c, Lower(key, a), z, db, g)
  BY <1>1, SetKeepsBelow DEF SetOn, path, s, b, c
<1>12. /\ key < m.key => Tree(c, Lower(key, l), m.key, db, g)
       /\ ~ (key < m.key) => Tree(c, m.key, h, db, g)
  BY <1>7, <1>10, <1>11 DEF Lower
<1>13. Result(y, Lower(key, l), h, db, g)
  BY <1>1, <1>8, <1>12, SetChildKeeps DEF SetOn
<1>14. QED BY <1>5, <1>6, <1>7, <1>10, <1>12, <1>13 DEF Result, path, s, b, c

\* What a set of key makes of the heights of a tree m of the path, that then is
\* w: for a key that is not before the tree and one that is, the first time in
\* a version, when the least key of before becomes the exception x, and after.
Heights(m, w, l, h, f, key, x, even, v) ==
  /\ Off(m, l, h, f, key, x, even) /\ l <= key
       => Poised(w, db, key, x, even) /\ Raised(w, m, l, key, v)
  /\ Poised(m, db, key, x, even) /\ key < l /\ l = x
       => /\ Poised(w, db, key, x, even) /\ Edge(w, db, Height(m), x)
          /\ w.version = v
          /\ Height(w) = Height(m) \/ Height(w) = Height(m) + 1
          /\ w.key = x => Height(w) = 1
  /\ \A k : Poised(m, db, key, x, even) /\ l <= key /\ key < x /\ Edge(m, db, k, x)
       => /\ Poised(w, db, key, x, even) /\ Edge(w, db, k, x)
          /\ w.version = v
          /\ Height(w) = Height(m) \/ Height(w) = Height(m) + 1
          /\ w.key = x => \/ Height(w) = Height(m)
                          \/ Height(LeftIn(db, w)) > Height(RightIn(db, w))

\* The leaf at which a set ends.
LEMMA HeightsAtLeaf ==
  ASSUME NEW m, NEW l, NEW h, NEW f, NEW key \in Int, NEW x, NEW even,
         NEW value, NEW v, Tree(m, l, h, db, f), IsLeaf(m)
  PROVE  Heights(m, SetLeaf(m, NewLeaf(key, value, v), v), l, h, f, key, x, even, v)
<1> DEFINE w == SetLeaf(m, NewLeaf(key, value, v), v)
<1>1. Off(m, l, h, f, key, x, even) /\ l <= key
        => Poised(w, db, key, x, even) /\ Raised(w, m, l, key, v)
  BY OffLeaf
<1>2. key < l => /\ Poised(w, db, key, l, even) /\ Edge(w, db, Height(m), l)
                 /\ w.version = v /\ Height(w) = 1 /\ Height(m) = 0
  BY FrontLeaf
<1>3. \A k : ~Edge(m, db, k, x)
  BY EdgeIs DEF IsInner, IsLeaf
<1> HIDE DEF w
<1>4. Heights(m, w, l, h, f, key, x, even, v)
  BY <1>1, <1>2, <1>3 DEF Heights
<1>5. QED BY <1>4 DEF w

\* A node above, whose left child the set has changed.
LEMMA HeightsOfLeft ==
  ASSUME DbSound(db), NEW v, Fresh(v), NEW m, NEW l, NEW h, NEW f, NEW g,
         NEW key \in Int, NEW x \in Int, NEW even \in BOOLEAN,
         Tree(m, l, h, db, f), IsInner(m), key < m.key, NEW c,
         Heights(LeftIn(db, m), c, l, m.key, f, key, x, even, v),
         Tree(c, Lower(key, l), m.key, db, g),
         ~IsPanic(SetChild(m, c, key, v)), ~IsPanic(SetInner(m, c, key, v)),
         Tree(SetChild(m, c, key, v), Lower(key, l), h, db, g),
         even => ~MeetsCase(SetChild(m, c, key, v), key)
  PROVE  Heights(m, SetInner(m, c, key, v), l, h, f, key, x, even, v)
<1> DEFINE b == LeftIn(db, m)
           q == RightIn(db, m)
           y == SetChild(m, c, key, v)
           w == SetInner(m, c, key, v)
<1>1. l \in Int /\ (l <= key => Lower(key, l) = l)
  BY TreeIs DEF Key, Lower
<1>2. ~IsPanic(y) /\ ~IsPanic(w) /\ (even => ~MeetsCase(y, key))
      /\ Tree(y, Lower(key, l), h, db, g)
  OBVIOUS
<1> HIDE DEF y, w
<1>3. ASSUME Off(m, l, h, f, key, x, even), l <= key
      PROVE  Poised(w, db, key, x, even) /\ Raised(w, m, l, key, v)
  <2>1. Off(b, l, m.key, f, key, x, even)
    BY <1>3, OffIs
  <2>2. Poised(c, db, key, x, even) /\ Raised(c, b, l, key, v)
    BY <1>3, <2>1 DEF Heights
  <2>3. Off(c, l, m.key, g, key, x, even)
    BY <1>1, <1>3, <2>1, <2>2 DEF Off
  <2>4. Tree(y, l, h, db, g)
    BY <1>1, <1>2, <1>3
  <2>5. QED BY <1>2, <1>3, <2>2, <2>3, <2>4, OffLeft DEF y, w
<1>4. ASSUME Poised(m, db, key, x, even), key < l, l = x
      PROVE  /\ Poised(w, db, key, x, even) /\ Edge(w, db, Height(m), x)
             /\ w.version = v
             /\ Height(w) = Height(m) \/ Height(w) = Height(m) + 1
             /\ w.key = x => Height(w) = 1
  <2>1. /\ m.key \in Int /\ l < m.key /\ Poised(b, db, key, x, even)
        /\ Height(b) \in Nat /\ Height(q) \in Nat
        /\ PoisedAbove(m, b, q, key, x, even)
        /\ Height(m) = 1 + Max2(Height(b), Height(q))
    BY <1>4, NodeIs
  <2>2. /\ Poised(c, db, key, x, even) /\ Edge(c, db, Height(b), x)
        /\ c.version = v
        /\ Height(c) = Height(b) \/ Height(c) = Height(b) + 1
        /\ c.key = x => Height(c) = 1
    BY <1>4, <2>1 DEF Heights
  <2>3. key < x /\ x < m.key
    BY <1>4, <2>1
  <2>4. Height(q) <= Height(b) + 1
    BY <2>1 DEF PoisedAbove
  <2>5. ~ (c.key = x /\ Height(c) > Height(q) + 1)
    BY <2>1, <2>2
  <2>6. /\ Poised(w, db, key, x, even)
        /\ Edge(w, db, 1 + Max2(Height(b), Height(q)), x)
        /\ w.version = v
        /\ Height(w) = Height(m) \/ Height(w) = Height(m) + 1
        /\ w.key = x => c.key = x /\ Height(c) > Height(q) + 1
    <3>1. AboveEdge(m, c, Height(b), key, x, even, v)
      BY <1>4, <2>1, <2>2, <2>3, <2>4, <2>5 DEF AboveEdge
    <3>2. QED BY <1>2, <2>5, <3>1, FrontStep DEF y, w
  <2>7. QED BY <2>1, <2>5, <2>6
<1>5. ASSUME NEW k, Poised(m, db, key, x, even), l <= key, key < x, Edge(m, db, k, x)
      PROVE  /\ Poised(w, db, key, x, even) /\ Edge(w, db, k, x)
             /\ w.version = v
             /\ Height(w) = Height(m) \/ Height(w) = Height(m) + 1
             /\ w.key = x => \/ Height(w) = Height(m)
                             \/ Height(LeftIn(db, w)) > Height(RightIn(db, w))
  <2>1. /\ m.key \in Int /\ l < m.key /\ Poised(b, db, key, x, even)
        /\ Height(b) \in Nat /\ Height(q) \in Nat /\ Tree(b, l, m.key, db, f)
    BY <1>5, NodeIs
  <2>2. CASE m.key = x /\ k = Height(q)
    <3>1. Off(b, l, m.key, f, key, x, even)
      BY <2>1, <2>2 DEF Off
    <3>2. Poised(c, db, key, x, even) /\ Raised(c, b, l, key, v)
      BY <1>5, <3>1 DEF Heights
    <3>3. Off(c, l, x, g, key, x, even)
      BY <1>1, <1>5, <2>2, <3>2 DEF Off
    <3>4. /\ Poised(w, db, key, x, even)
          /\ Edge(w, db, Height(q), x)
          /\ w.version = v /\ w.key = x
          /\ \/ Height(w) = Height(m)
             \/ /\ Height(w) = Height(m) + 1
                /\ Height(LeftIn(db, w)) > Height(RightIn(db, w))
      BY <1>2, <1>5, <2>2, <3>2, <3>3, FrontLowest DEF y, w
    <3>5. QED BY <2>2, <3>4
  <2>3. CASE ~ (m.key = x /\ k = Height(q))
    <3>1. PICK j : /\ m.key > x
                   /\ Height(b) <= Height(q) + 1
                   /\ Edge(b, db, j, x)
                   /\ Height(q) <= j + 1
                   /\ k = 1 + Max2(j, Height(q))
      BY <1>5, <2>3, EdgeIs
    <3>2. /\ Poised(c, db, key, x, even) /\ Edge(c, db, j, x)
          /\ c.version = v
          /\ Height(c) = Height(b) \/ Height(c) = Height(b) + 1
          /\ c.key = x => \/ Height(c) = Height(b)
                          \/ Height(LeftIn(db, c)) > Height(RightIn(db, c))
      BY <1>5, <2>1, <3>1 DEF Heights
    <3>3. j \in Nat /\ x < m.key
      BY <2>1, <3>1, EdgeIs
    <3>4. c.key = x /\ Height(c) > Height(q) + 1 =>
            /\ Height(LeftIn(db, c)) > Height(RightIn(db, c))
            /\ Height(b) <= Height(q) + 1
      BY <2>1, <3>1, <3>2
    <3>5. /\ Poised(w, db, key, x, even)
          /\ Edge(w, db, 1 + Max2(j, Height(q)), x)
          /\ w.version = v
          /\ Height(w) = Height(m) \/ Height(w) = Height(m) + 1
          /\ w.key = x => Height(w) = Height(m)
      <4>1. AboveEdge(m, c, j, key, x, even, v)
        BY <1>5, <3>1, <3>2, <3>3, <3>4 DEF AboveEdge
      <4>2. QED BY <1>2, <4>1, FrontStep DEF y, w
    <3>6. QED BY <3>1, <3>5
  <2>4. QED BY <2>2, <2>3
<1>6. Heights(m, w, l, h, f, key, x, even, v)
  BY <1>3, <1>4, <1>5 DEF Heights
<1>7. QED BY <1>6 DEF w

\* A node above, whose right child the set has changed.
LEMMA HeightsOfRight ==
  ASSUME DbSound(db), NEW v, Fresh(v), NEW m, NEW l, NEW h, NEW f, NEW g,
         NEW key \in Int, NEW x \in Int, NEW even \in BOOLEAN,
         Tree(m, l, h, db, f), IsInner(m), ~ (key < m.key), key < h, NEW c,
         Heights(RightIn(db, m), c, m.key, h, f, key, x, even, v),
         Tree(c, m.key, h, db, g),
         ~IsPanic(SetChild(m, c, key, v)), ~IsPanic(SetInner(m, c, key, v)),
         Tree(SetChild(m, c, key, v), Lower(key, l), h, db, g),
         even => ~MeetsCase(SetChild(m, c, key, v), key)
  PROVE  Heights(m, SetInner(m, c, key, v), l, h, f, key, x, even, v)
<1> DEFINE q == RightIn(db, m)
           y == SetChild(m, c, key, v)
           w == SetInner(m, c, key, v)
<1>1. l \in Int /\ (l <= key => Lower(key, l) = l)
  BY TreeIs DEF Key, Lower
<1>2. ~IsPanic(y) /\ ~IsPanic(w) /\ (even => ~MeetsCase(y, key))
      /\ Tree(y, Lower(key, l), h, db, g)
  OBVIOUS
<1> HIDE DEF y, w
<1>3. ASSUME Off(m, l, h, f, key, x, even), l <= key
      PROVE  Poised(w, db, key, x, even) /\ Raised(w, m, l, key, v)
  <2>1. Off(q, m.key, h, f, key, x, even) /\ m.key \in Int /\ m.key <= key
    BY <1>3, OffIs
  <2>2. Poised(c, db, key, x, even) /\ Raised(c, q, m.key, key, v)
    BY <2>1 DEF Heights
  <2>3. Off(c, m.key, h, g, key, x, even)
    BY <2>1, <2>2 DEF Off
  <2>4. Tree(y, l, h, db, g)
    BY <1>1, <1>2, <1>3
  <2>5. QED BY <1>2, <1>3, <2>2, <2>3, <2>4, OffRight DEF y, w
<1>4. ~ (key < l)
  <2>1. m.key \in Int /\ l < m.key
    BY TreeIs DEF LeafTree, InnerTree, IsLeaf, IsInner, Key
  <2>2. QED BY <1>1, <2>1
<1>5. ASSUME NEW k, key < x PROVE ~Edge(m, db, k, x)
  <2>1. m.key \in Int
    BY TreeIs DEF LeafTree, InnerTree, IsLeaf, IsInner, Key
  <2>2. ~ (m.key = x \/ m.key > x)
    BY <1>5, <2>1
  <2>3. QED BY <2>2, EdgeIs
<1>6. Heights(m, w, l, h, f, key, x, even, v)
  BY <1>3, <1>4, <1>5 DEF Heights
<1>7. QED BY <1>6 DEF w

-----------------------------------------------------------------------------
(* Versions: no node in memory is of a later version than the next one.    *)

\* A node not later than v, with its children in memory in S.
YoungIn(n, S, v) ==
  /\ n.version \in Int /\ n.version <= v
  /\ IsInner(n) => /\ n.left # NoNode => n.left \in S
                   /\ n.right # NoNode => n.right \in S

AllYoung(S, v) == \A n \in S : YoungIn(n, S, v)

\* The node n and all below it in memory.
Young(n, v) == \E S : n \in S /\ AllYoung(S, v)

\* The nodes of the database, whose hashes have their versions.
DbYoung(d, v) == \A hash \in DOMAIN d : hash.version \in Int /\ hash.version <= v

\* A child in memory, if there is one, is young.
YoungOr(c, v) == c = NoNode \/ Young(c, v)

\* So are the children of a young node.
LEMMA YoungIs ==
  ASSUME NEW n, NEW v, Young(n, v)
  PROVE  /\ n.version \in Int /\ n.version <= v
         /\ IsInner(n) => YoungOr(n.left, v) /\ YoungOr(n.right, v)
<1>1. PICK S : n \in S /\ AllYoung(S, v)
  BY DEF Young
<1>2. YoungIn(n, S, v)
  BY <1>1 DEF AllYoung
<1>3. QED BY <1>1, <1>2 DEF YoungIn, YoungOr, Young

\* So is a node of the version v with young children.
LEMMA YoungParent ==
  ASSUME NEW n, NEW v \in Int, n.version \in Int, n.version <= v,
         IsInner(n) => YoungOr(n.left, v) /\ YoungOr(n.right, v)
  PROVE  Young(n, v)
<1>1. PICK S : IsInner(n) /\ n.left # NoNode => n.left \in S /\ AllYoung(S, v)
  BY DEF YoungOr, Young
<1>2. PICK T : IsInner(n) /\ n.right # NoNode => n.right \in T /\ AllYoung(T, v)
  BY DEF YoungOr, Young
<1> DEFINE A == IF IsInner(n) /\ n.left # NoNode THEN S ELSE {}
           B == IF IsInner(n) /\ n.right # NoNode THEN T ELSE {}
           U == A \cup B \cup {n}
<1>3. AllYoung(A, v) /\ AllYoung(B, v)
  BY <1>1, <1>2 DEF AllYoung
<1>4. IsInner(n) => (n.left # NoNode => n.left \in A) /\ (n.right # NoNode => n.right \in B)
  BY <1>1, <1>2
<1> HIDE DEF A, B
<1>5. ASSUME NEW m \in U PROVE YoungIn(m, U, v)
  <2>1. CASE m \in A
    <3>1. YoungIn(m, A, v)
      BY <1>3, <2>1 DEF AllYoung
    <3>2. QED BY <3>1 DEF YoungIn
  <2>2. CASE m \in B
    <3>1. YoungIn(m, B, v)
      BY <1>3, <2>2 DEF AllYoung
    <3>2. QED BY <3>1 DEF YoungIn
  <2>3. CASE m = n
    BY <1>4, <2>3 DEF YoungIn
  <2>4. QED BY <2>1, <2>2, <2>3
<1>6. n \in U /\ AllYoung(U, v)
  BY <1>5 DEF AllYoung
<1> HIDE DEF U
<1>7. QED BY <1>6 DEF Young

\* A node made by a set.
LEMMA YoungFields ==
  ASSUME NEW w, NEW k, NEW v \in Int, NEW l, NEW r, NEW lh, NEW rh,
         HasFields(w, k, v, l, r, lh, rh), YoungOr(l, v), YoungOr(r, v)
  PROVE  Young(w, v)
<1>1. w.version = v /\ w.left = l /\ w.right = r
  BY DEF HasFields
<1>2. QED BY <1>1, YoungParent

\* A node of the database.
LEMMA StoredIsYoung ==
  ASSUME DbSound(db), NEW v \in Int, DbYoung(db, v), NEW hash \in DOMAIN db
  PROVE  Young(db[hash], v)
<1> DEFINE n == db[hash]
<1>1. Typed(n) /\ Hash(n) = hash /\ Stored(n) = n
  BY SoundIsTyped DEF DbSound, DbTyped
<1>2. n.version = hash.version
  BY <1>1 DEF Hash
<1>3. IsInner(n) => n.left = NoNode /\ n.right = NoNode
  <2>1. IsInner(n) => InnerShape(n)
    BY <1>1, Kinds DEF Typed, IsInner
  <2>2. QED BY <1>1, <2>1, StoredIs
<1> HIDE DEF n
<1>4. Young(n, v)
  BY <1>2, <1>3, YoungParent DEF YoungOr, DbYoung
<1>5. QED BY <1>4 DEF n

\* The children of an inner node, in memory or in the database.
LEMMA YoungChildren ==
  ASSUME DbSound(db), NEW v \in Int, DbYoung(db, v), NEW n
  PROVE  /\ YoungOr(n.left, v) /\ Typed(LeftIn(db, n)) => Young(LeftIn(db, n), v)
         /\ YoungOr(n.right, v) /\ Typed(RightIn(db, n)) => Young(RightIn(db, n), v)
<1>1. \A c : Typed(c) => c # Missing
  BY HeightIs
<1>2. \A hash \in DOMAIN db : Young(db[hash], v)
  BY StoredIsYoung
<1>3. QED BY <1>1, <1>2 DEF YoungOr, LeftIn, RightIn

\* What the rotations make.
LEMMA YoungRotations ==
  ASSUME DbSound(db), NEW v \in Int, DbYoung(db, v), NEW z, InnerShape(z), Loads(z),
         YoungOr(z.left, v), YoungOr(z.right, v)
  PROVE  /\ Shaped(LeftIn(db, z)) /\ ~IsPanic(RightRotate(z, v))
              => Young(RightRotate(z, v), v)
         /\ Shaped(RightIn(db, z)) /\ ~IsPanic(LeftRotate(z, v))
              => Young(LeftRotate(z, v), v)
<1>1. DbTyped(db)
  BY SoundIsTyped
<1>2. ASSUME Shaped(LeftIn(db, z)), ~IsPanic(RightRotate(z, v))
      PROVE  Young(RightRotate(z, v), v)
  <2> DEFINE y == LeftIn(db, z)
             w == RightRotate(z, v)
  <2>1. InnerShape(y) /\ \E down : RotatedRight(w, down, z, y, v)
    BY <1>1, <1>2, RightRotateIs
  <2>2. PICK down : RotatedRight(w, down, z, y, v)
    BY <2>1
  <2>3. Young(y, v) /\ IsInner(y)
    BY <1>2, <2>1, Kinds, YoungChildren DEF Shaped, IsInner
  <2>4. YoungOr(y.left, v) /\ YoungOr(y.right, v)
    BY <2>3, YoungIs
  <2> HIDE DEF y, w
  <2>5. Young(down, v)
    BY <2>2, <2>4, YoungFields DEF RotatedRight
  <2>6. Young(w, v)
    BY <2>2, <2>4, <2>5, YoungFields DEF RotatedRight, YoungOr
  <2>7. QED BY <2>6 DEF w
<1>3. ASSUME Shaped(RightIn(db, z)), ~IsPanic(LeftRotate(z, v))
      PROVE  Young(LeftRotate(z, v), v)
  <2> DEFINE y == RightIn(db, z)
             w == LeftRotate(z, v)
  <2>1. InnerShape(y) /\ \E down : RotatedLeft(w, down, z, y, v)
    BY <1>1, <1>3, LeftRotateIs
  <2>2. PICK down : RotatedLeft(w, down, z, y, v)
    BY <2>1
  <2>3. Young(y, v) /\ IsInner(y)
    BY <1>3, <2>1, Kinds, YoungChildren DEF Shaped, IsInner
  <2>4. YoungOr(y.left, v) /\ YoungOr(y.right, v)
    BY <2>3, YoungIs
  <2> HIDE DEF y, w
  <2>5. Young(down, v)
    BY <2>2, <2>4, YoungFields DEF RotatedLeft
  <2>6. Young(w, v)
    BY <2>2, <2>4, <2>5, YoungFields DEF RotatedLeft, YoungOr
  <2>7. QED BY <2>6 DEF w
<1>4. QED BY <1>2, <1>3

\* An inner node that is a tree has what the rotations need.
LEMMA TreeRotates ==
  ASSUME NEW n, NEW lo, NEW hi, NEW d, NEW f, Tree(n, lo, hi, d, f), IsInner(n)
  PROVE  /\ InnerShape(n) /\ Loads(n) /\ ~IsLeaf(n)
         /\ Shaped(LeftIn(d, n)) /\ Shaped(RightIn(d, n))
<1>1. InnerTree(n, lo, hi, d, f)
  BY TreeIs DEF LeafTree, IsLeaf, IsInner
<1>2. QED BY <1>1, TreeIsShaped, TreeLoads DEF InnerTree

\* What a rebalancing makes.
LEMMA YoungRebalanced ==
  ASSUME DbSound(db), NEW v \in Int, DbYoung(db, v), NEW n, NEW lo, NEW hi, NEW f,
         NEW key, Tree(n, lo, hi, db, f), IsInner(n), Young(n, v),
         ~IsPanic(Rebalanced(n, key, v))
  PROVE  Young(Rebalanced(n, key, v), v)
<1> DEFINE l == LeftNode(n)
           r == RightNode(n)
           ml == [n EXCEPT !.left = l]
           mr == [n EXCEPT !.right = r]
           left == LeftRotate(ml, v)
           right == RightRotate(r, v)
           twice == [mr EXCEPT !.right = right]
           result == Rebalanced(n, key, v)
<1>1. /\ Tree(ml, lo, hi, db, f) /\ IsInner(ml)
      /\ Tree(mr, lo, hi, db, f) /\ IsInner(mr)
      /\ l = LeftIn(db, n) /\ r = RightIn(db, n)
      /\ DbTyped(db) /\ InnerShape(n)
  BY SoundIsTyped, LoadKeeps, TreeRotates
<1>2. /\ YoungOr(n.left, v) /\ YoungOr(n.right, v)
      /\ Young(l, v) /\ Young(r, v) /\ Shaped(l) /\ Shaped(r)
  BY <1>1, YoungIs, YoungChildren, TreeRotates DEF Shaped
<1>3. /\ HasFields(ml, n.key, n.version, l, n.right, n.leftHash, n.rightHash)
      /\ HasFields(mr, n.key, n.version, n.left, r, n.leftHash, n.rightHash)
  <2> HIDE DEF l, r
  <2>1. QED BY <1>1, FieldSet
<1>4. \/ result = n
      \/ result = RightRotate(ml, v)
      \/ result = RightRotate(left, v) /\ ~IsPanic(left)
      \/ result = LeftRotate(mr, v)
      \/ BalanceFactor(n) < -1 /\ result = LeftRotate(twice, v) /\ ~IsPanic(right)
  <2> HIDE DEF result, l, r, ml, mr, left, right, twice
  <2>1. result =
          IF BalanceFactor(n) > 1
          THEN IF key < l.key THEN RightRotate(ml, v)
               ELSE IF IsPanic(left) THEN left ELSE RightRotate(left, v)
          ELSE IF BalanceFactor(n) < -1
          THEN IF key > r.key THEN LeftRotate(mr, v)
               ELSE IF IsPanic(right) THEN right
               ELSE LeftRotate(twice, v)
          ELSE n
    BY Zenon DEF result, Rebalanced, l, r, ml, mr, left, right, twice
  <2>2. ~IsPanic(result)
    BY DEF result
  <2>3. QED BY <2>1, <2>2
<1>5. ~IsPanic(result)
  OBVIOUS
<1> HIDE DEF result
<1>6. SUFFICES Young(result, v)
  BY DEF result
<1> HIDE DEF ml, mr, l
<1>7. CASE result = n
  BY <1>7
<1>8. YoungOr(l, v) /\ YoungOr(r, v)
  BY <1>2 DEF YoungOr
<1>9. CASE result = RightRotate(ml, v)
  <2>1. /\ InnerShape(ml) /\ Loads(ml) /\ Shaped(LeftIn(db, ml))
        /\ YoungOr(ml.left, v) /\ YoungOr(ml.right, v)
    BY <1>1, <1>2, <1>3, <1>8, TreeRotates DEF HasFields
  <2>2. QED BY <1>5, <1>9, <2>1, YoungRotations
<1>10. CASE result = RightRotate(left, v) /\ ~IsPanic(left)
  <2>1. /\ InnerShape(ml) /\ Loads(ml) /\ Shaped(RightIn(db, ml))
        /\ YoungOr(ml.left, v) /\ YoungOr(ml.right, v)
    BY <1>1, <1>2, <1>3, <1>8, TreeRotates DEF HasFields
  <2>2. Young(left, v)
    BY <1>10, <2>1, YoungRotations
  <2>3. Tree(left, lo, hi, db, f) /\ IsInner(left)
    BY <1>1, <1>10, TreeIsNewRight, LeftRotateKeeps DEF Result
  <2> HIDE DEF left
  <2>4. /\ InnerShape(left) /\ Loads(left) /\ Shaped(LeftIn(db, left))
        /\ YoungOr(left.left, v) /\ YoungOr(left.right, v)
    BY <2>2, <2>3, TreeRotates, YoungIs
  <2>5. QED BY <1>5, <1>10, <2>4, YoungRotations
<1>11. CASE result = LeftRotate(mr, v)
  <2>1. /\ InnerShape(mr) /\ Loads(mr) /\ Shaped(RightIn(db, mr))
        /\ YoungOr(mr.left, v) /\ YoungOr(mr.right, v)
    BY <1>1, <1>2, <1>3, <1>8, TreeRotates DEF HasFields
  <2>2. QED BY <1>5, <1>11, <2>1, YoungRotations
<1>12. CASE BalanceFactor(n) < -1 /\ result = LeftRotate(twice, v) /\ ~IsPanic(right)
  <2>1. lo \in Key /\ hi \in Int /\ InnerTree(n, lo, hi, db, f)
    BY TreeIs DEF LeafTree, IsLeaf, IsInner
  <2>2. Tree(l, lo, n.key, db, f) /\ Tree(r, n.key, hi, db, f)
    BY <1>1, <2>1 DEF InnerTree
  <2>3. IsInner(r)
    <3>1. Height(l) \in Nat /\ Height(r) \in Nat /\ Height(l) - Height(r) < -1
      BY <1>12, <2>2, TreeIsTyped DEF BalanceFactor, l
    <3> HIDE DEF r
    <3>2. Height(r) # 0
      BY <3>1
    <3>3. ~IsLeaf(r)
      BY <3>2 DEF Height
    <3>4. QED BY <2>2, <3>3, TreeIs DEF LeafTree, InnerTree
  <2> HIDE DEF r
  <2>4. Young(right, v)
    <3>1. /\ InnerShape(r) /\ Loads(r) /\ Shaped(LeftIn(db, r))
          /\ YoungOr(r.left, v) /\ YoungOr(r.right, v)
      BY <1>2, <2>2, <2>3, TreeRotates, YoungIs
    <3>2. QED BY <1>12, <3>1, YoungRotations
  <2>5. Shaped(right) /\ Typed(right) /\ right # NoNode
    <3>1. Result(right, n.key, hi, db, f)
      BY <1>1, <2>2, <2>3, RightRotateKeeps
    <3> HIDE DEF right
    <3>2. QED BY <1>12, <3>1, TreeIsTyped, TreeIsShaped DEF Result
  <2> HIDE DEF right
  <2>6. HasFields(twice, n.key, n.version, n.left, right, n.leftHash, n.rightHash)
    <3>1. InnerShape(mr)
      BY <1>3 DEF HasFields
    <3>2. HasFields(twice, mr.key, mr.version, mr.left, right, mr.leftHash, mr.rightHash)
      BY <3>1, FieldSet
    <3> HIDE DEF twice
    <3>3. QED BY <1>3, <3>2 DEF HasFields
  <2> HIDE DEF twice
  <2>7. /\ InnerShape(twice) /\ RightIn(db, twice) = right
        /\ Loads(twice) /\ YoungOr(twice.left, v) /\ YoungOr(twice.right, v)
    <3>1. Loads(n)
      BY TreeRotates
    <3>2. QED BY <1>2, <2>4, <2>5, <2>6, <3>1 DEF RightIn, HasFields, Loads, YoungOr
  <2>8. QED BY <1>5, <1>12, <2>5, <2>7, YoungRotations
<1>13. QED BY <1>4, <1>7, <1>9, <1>10, <1>11, <1>12

\* What a set makes of an inner node.
LEMMA YoungInner ==
  ASSUME DbSound(db), NEW v \in Int, DbYoung(db, v), NEW n, NEW lo, NEW hi, NEW f,
         NEW key, Tree(n, lo, hi, db, f), IsInner(n), Young(n, v),
         NEW c, Typed(c), Young(c, v), NEW low, NEW g,
         Tree(SetChild(n, c, key, v), low, hi, db, g),
         ~IsPanic(SetInner(n, c, key, v))
  PROVE  Young(SetInner(n, c, key, v), v)
<1> DEFINE y == SetChild(n, c, key, v)
           w == SetInner(n, c, key, v)
<1>1. /\ DbTyped(db) /\ InnerShape(n) /\ Loads(n)
      /\ YoungOr(n.left, v) /\ YoungOr(n.right, v) /\ YoungOr(c, v)
  BY SoundIsTyped, TreeRotates, YoungIs DEF YoungOr
<1>2. ~IsPanic(y)
  BY TreeIsTyped
<1>3. \/ HasFields(y, n.key, v, c, n.right, Hash(c), n.rightHash)
      \/ HasFields(y, n.key, v, n.left, c, n.leftHash, Hash(c))
  BY <1>1, <1>2, SetChildIs
<1>4. w = Rebalanced(y, key, v) /\ ~IsPanic(w)
  BY <1>2 DEF SetInner
<1>5. Tree(y, low, hi, db, g)
  OBVIOUS
<1> HIDE DEF y, w
<1>6. Young(y, v) /\ IsInner(y)
  BY <1>1, <1>3, YoungFields, Kinds DEF HasFields, IsInner
<1>7. QED BY <1>4, <1>5, <1>6, YoungRebalanced DEF w

\* What a set makes of the leaf at which it ends.
LEMMA YoungLeaf ==
  ASSUME NEW n, NEW v \in Int, IsLeaf(n), Young(n, v), NEW key, NEW value
  PROVE  Young(SetLeaf(n, NewLeaf(key, value, v), v), v)
<1> DEFINE leaf == NewLeaf(key, value, v)
           w == SetLeaf(n, leaf, v)
<1>1. Young(leaf, v)
  <2>1. leaf.version = v /\ ~IsInner(leaf)
    BY DEF NewLeaf, IsInner
  <2>2. QED BY <2>1, YoungParent
<1> HIDE DEF leaf
<1>2. ASSUME NEW a, NEW b, Young(a, v), Young(b, v) PROVE Young(Pair(a, b, v), v)
  <2> DEFINE m == Pair(a, b, v)
  <2>1. m.version = v /\ m.left = a /\ m.right = b
    BY DEF Pair
  <2> HIDE DEF m
  <2>2. Young(m, v)
    BY <1>2, <2>1, YoungParent DEF YoungOr
  <2>3. QED BY <2>2 DEF m
<1>3. w = Pair(leaf, n, v) \/ w = leaf \/ w = Pair(n, leaf, v)
  BY DEF SetLeaf
<1> HIDE DEF w
<1>4. Young(w, v)
  BY <1>1, <1>2, <1>3
<1>5. QED BY <1>4 DEF w, leaf

\* No node of the path is in the left-right case.
Straight(n, key, value, v) ==
  \A i \in Depth \ {0} :
    LET m == Path(n, key)[MaxKey - i]
        y == SetChild(m, SetAbove(n, key, value, v)[i - 1], key, v)
    IN IsInner(m) /\ ~IsPanic(y) => ~MeetsCase(y, key)

\* A set that does not panic, of a database whose nodes are of earlier versions,
\* makes the heights that it should, and no node of a later version.
LEMMA SetMakesHeights ==
  ASSUME NEW n, NEW lo, NEW hi, NEW f, NEW g, NEW key, NEW value, NEW v \in Int,
         SetOn(n, lo, hi, f, g, key, value, v), Fresh(v), DbYoung(db, v), Young(n, v),
         NEW x \in Int, NEW even \in BOOLEAN,
         even => Straight(n, key, value, v),
         ~IsPanic(RecursiveSet(n, key, value, v))
  PROVE  LET w == RecursiveSet(n, key, value, v) IN
         Heights(n, w, lo, hi, f, key, x, even, v) /\ Young(w, v)
<1> DEFINE path == Path(n, key)
           s == SetAbove(n, key, value, v)
           Made(i) == \A l, h :
                        OnPath(path[MaxKey - i], MaxKey - i, l, h, lo, hi, key, f)
                        /\ Young(path[MaxKey - i], v)
                          => \/ IsPanic(s[i])
                             \/ /\ Heights(path[MaxKey - i], s[i], l, h, f, key, x, even, v)
                                /\ Young(s[i], v)
           Q == {i \in Nat : i <= MaxKey => Made(i)}
<1>1. /\ DbSound(db) /\ Tree(n, lo, hi, db, f) /\ hi <= MaxKey + 1
      /\ key \in Key /\ key \in Int /\ key < hi /\ MaxKey \in Nat /\ DbTyped(db)
      /\ lo \in Key /\ lo \in Int /\ hi \in Int
  BY SoundIsTyped, TreeIs, MaxKeyAssumption DEF SetOn, Key
<1>2. ASSUME NEW i \in Nat, i <= MaxKey, NEW l, NEW h,
             OnPath(path[MaxKey - i], MaxKey - i, l, h, lo, hi, key, f),
             Young(path[MaxKey - i], v), IsLeaf(path[MaxKey - i])
      PROVE  /\ Heights(path[MaxKey - i], s[i], l, h, f, key, x, even, v)
             /\ Young(s[i], v)
  <2> DEFINE m == path[MaxKey - i]
  <2>1. s[i] = SetLeaf(m, NewLeaf(key, value, v), v)
    <3>1. i \in 0..MaxKey
      BY <1>1, <1>2
    <3>2. s[i] = SetOf(m, s[i - 1], i, key, value, v)
      BY <3>1, SetAboveIs DEF AreSets
    <3>3. QED BY <1>2, <3>2 DEF SetOf
  <2>2. Tree(m, l, h, db, f) /\ IsLeaf(m) /\ Young(m, v)
    BY <1>2 DEF OnPath
  <2> HIDE DEF m, s
  <2>3. QED BY <1>1, <2>1, <2>2, HeightsAtLeaf, YoungLeaf DEF m
<1>3. 0 \in Q
  <2> SUFFICES ASSUME NEW l, NEW h, Young(path[MaxKey - 0], v),
                      OnPath(path[MaxKey - 0], MaxKey - 0, l, h, lo, hi, key, f)
               PROVE  /\ Heights(path[MaxKey - 0], s[0], l, h, f, key, x, even, v)
                      /\ Young(s[0], v)
    OBVIOUS
  <2> HIDE DEF path, s
  <2>1. /\ Tree(path[MaxKey - 0], l, h, db, f)
        /\ IsLeaf(path[MaxKey - 0]) \/ h - l <= MaxKey - (MaxKey - 0)
    BY DEF OnPath
  <2>2. l \in Int /\ h \in Int /\ l < h
    BY <2>1, TreeIs DEF Key
  <2>3. IsLeaf(path[MaxKey - 0])
    BY <1>1, <2>1, <2>2
  <2>4. QED BY <1>1, <1>2, <2>3
<1>4. ASSUME NEW i \in Nat, i \in Q PROVE i + 1 \in Q
  <2> SUFFICES ASSUME i + 1 <= MaxKey, NEW l, NEW h,
                      OnPath(path[MaxKey - (i + 1)], MaxKey - (i + 1), l, h, lo, hi, key, f),
                      Young(path[MaxKey - (i + 1)], v), ~IsPanic(s[i + 1])
               PROVE  /\ Heights(path[MaxKey - (i + 1)], s[i + 1], l, h, f, key, x, even, v)
                      /\ Young(s[i + 1], v)
    OBVIOUS
  <2> DEFINE m == path[MaxKey - (i + 1)]
             b == path[MaxKey - i]
             c == s[i]
             w == s[i + 1]
             y == SetChild(m, c, key, v)
  <2>1. CASE IsLeaf(m)
    <3>1. i + 1 \in Nat
      OBVIOUS
    <3> HIDE DEF path, s
    <3>2. QED BY <1>2, <2>1, <3>1
  <2>2. CASE ~IsLeaf(m)
    <3>1. OnPath(m, MaxKey - (i + 1), l, h, lo, hi, key, f) /\ Young(m, v)
      OBVIOUS
    <3>2. Tree(m, l, h, db, f) /\ key < h
      BY <3>1 DEF OnPath
    <3>3. IsInner(m)
      <4> HIDE DEF m
      <4>1. QED BY <2>2, <3>2, TreeIs DEF LeafTree, InnerTree
    <3>4. /\ w = SetInner(m, c, key, v)
          /\ ~IsPanic(c) /\ ~IsPanic(y) /\ Tree(y, Lower(key, l), h, db, g)
          /\ key < m.key => /\ b = LeftIn(db, m)
                            /\ OnPath(b, MaxKey - i, l, m.key, lo, hi, key, f)
                            /\ Tree(c, Lower(key, l), m.key, db, g)
          /\ ~ (key < m.key) => /\ b = RightIn(db, m)
                                /\ OnPath(b, MaxKey - i, m.key, h, lo, hi, key, f)
                                /\ Tree(c, m.key, h, db, g)
      <4>1. m = Path(n, key)[MaxKey - (i + 1)] /\ ~IsPanic(SetAbove(n, key, value, v)[i + 1])
        OBVIOUS
      <4> HIDE DEF m
      <4>2. QED BY <3>1, <3>3, <4>1, SetLevelIs
    <3>5. even => ~MeetsCase(y, key)
      <4>1. i + 1 \in Depth \ {0} /\ (i + 1) - 1 = i
        BY <1>1 DEF Depth
      <4>2. Straight(n, key, value, v) => ~MeetsCase(y, key)
        BY <3>3, <3>4, <4>1 DEF Straight
      <4>3. QED BY <4>2
    <3>6. Young(b, v)
      <4>1. Typed(LeftIn(db, m)) /\ Typed(RightIn(db, m))
        <5> HIDE DEF m
        <5>1. QED BY <3>2, <3>3, TreeRotates DEF Shaped
      <4>2. YoungOr(m.left, v) /\ YoungOr(m.right, v)
        <5> HIDE DEF m
        <5>1. QED BY <3>1, <3>3, YoungIs
      <4>3. Young(LeftIn(db, m), v) /\ Young(RightIn(db, m), v)
        <5> HIDE DEF m
        <5>1. QED BY <1>1, <4>1, <4>2, YoungChildren
      <4>4. QED BY <3>4, <4>3
    <3>7. i <= MaxKey /\ Made(i)
      BY <1>1, <1>4
    <3>8. /\ key < m.key => Heights(b, c, l, m.key, f, key, x, even, v)
          /\ ~ (key < m.key) => Heights(b, c, m.key, h, f, key, x, even, v)
          /\ Young(c, v)
      <4>1. \A a, z : OnPath(b, MaxKey - i, a, z, lo, hi, key, f)
                        => Heights(b, c, a, z, f, key, x, even, v) /\ Young(c, v)
        BY <3>4, <3>6, <3>7
      <4> HIDE DEF m, b, c, path, s
      <4>2. QED BY <3>4, <4>1
    <3>9. ~IsPanic(w)
      OBVIOUS
    <3> HIDE DEF m, b, c, w, path, s, Made
    <3>10. Heights(m, w, l, h, f, key, x, even, v)
      <4>1. CASE key < m.key
        <5>1. /\ Heights(LeftIn(db, m), c, l, m.key, f, key, x, even, v)
              /\ Tree(c, Lower(key, l), m.key, db, g)
          BY <3>4, <3>8, <4>1
        <5>2. QED BY <1>1, <3>2, <3>3, <3>4, <3>5, <3>9, <4>1, <5>1, HeightsOfLeft
      <4>2. CASE ~ (key < m.key)
        <5>1. /\ Heights(RightIn(db, m), c, m.key, h, f, key, x, even, v)
              /\ Tree(c, m.key, h, db, g)
          BY <3>4, <3>8, <4>2
        <5>2. QED BY <1>1, <3>2, <3>3, <3>4, <3>5, <3>9, <4>2, <5>1, HeightsOfRight
      <4>3. QED BY <4>1, <4>2
    <3>11. Young(w, v)
      <4>1. Typed(c)
        BY <3>4, TreeIsTyped
      <4>2. QED BY <1>1, <3>1, <3>2, <3>3, <3>4, <3>8, <3>9, <4>1, YoungInner
    <3>12. QED BY <3>10, <3>11 DEF m, w
  <2>3. QED BY <2>1, <2>2
<1> HIDE DEF Q
<1>5. MaxKey \in Q
  BY <1>1, <1>3, <1>4, StepsInduction
<1>6. Made(MaxKey)
  BY <1>1, <1>5 DEF Q
<1>7. /\ path[MaxKey - MaxKey] = n
      /\ OnPath(path[MaxKey - MaxKey], MaxKey - MaxKey, lo, hi, lo, hi, key, f)
  BY <1>1, PathStarts
<1>8. s[MaxKey] = RecursiveSet(n, key, value, v)
  BY DEF RecursiveSet
<1> HIDE DEF path, s
<1>9. QED BY <1>6, <1>7, <1>8

-----------------------------------------------------------------------------
(* The heights of every tree of the specification.                         *)

\* The root n, if there is one, of a tree of contents that is poised after a
\* set of key: unless no node is excepted any more, the excepted nodes are on
\* the edge, as a set of this version was of a key before the tree.
RootPoised(n, d, contents, key, even) ==
  n # NoNode =>
    \E lo \in Key, x \in Int :
      /\ Tree(n, lo, MaxKey + 1, d, contents)
      /\ \A k \in Key : k < lo => contents[k] = NoNode
      /\ Poised(n, d, key, x, even)
      /\ x <= key \/ (lo <= key /\ lo < x /\ \E h : Edge(n, d, h, x))

\* A set of a later key keeps this, and the tree even if it does not meet the
\* left-right case.
LEMMA SetPoises ==
  ASSUME DbSound(db), NEW v \in Int, Fresh(v), DbYoung(db, v),
         NEW n, n # NoNode, Young(n, v), NEW f, NEW g, NEW last \in Nat,
         NEW even \in BOOLEAN, RootPoised(n, db, f, last, even),
         NEW key \in Key, NEW value, last < key, even => Straight(n, key, value, v),
         Updates(g, f, key), g[key] = NewLeaf(key, value, v),
         ~IsPanic(RecursiveSet(n, key, value, v))
  PROVE  LET w == RecursiveSet(n, key, value, v) IN
         Young(w, v) /\ RootPoised(w, db, g, key, even)
<1> DEFINE w == RecursiveSet(n, key, value, v)
           hi == MaxKey + 1
<1>1. PICK lo \in Key, x \in Int :
        /\ Tree(n, lo, hi, db, f)
        /\ \A k \in Key : k < lo => f[k] = NoNode
        /\ Poised(n, db, last, x, even)
        /\ x <= last \/ (lo <= last /\ lo < x /\ \E h : Edge(n, db, h, x))
  BY DEF RootPoised
<1>2. /\ key \in Nat /\ lo \in Nat /\ MaxKey \in Nat /\ hi \in Int /\ key < hi
      /\ DbTyped(db) /\ key > 0 /\ hi <= MaxKey + 1
  BY MaxKeyAssumption, SoundIsTyped DEF Key
<1> HIDE DEF hi
<1>3. SetOn(n, lo, hi, f, g, key, value, v)
  BY <1>1, <1>2 DEF SetOn
<1>4. Tree(w, Lower(key, lo), hi, db, g)
  BY <1>1, <1>2, SetKeeps
<1>5. Lower(key, lo) \in Key /\ \A k \in Key : k < Lower(key, lo) => g[k] = NoNode
  <2>1. ASSUME NEW k \in Key, k < Lower(key, lo) PROVE k < lo /\ k # key
    <3>1. k \in Int
      BY DEF Key
    <3>2. QED BY <1>2, <2>1, <3>1 DEF Lower
  <2>2. QED BY <1>1, <2>1 DEF Lower, Updates
<1>6. ASSUME NEW y \in Int
      PROVE  Heights(n, w, lo, hi, f, key, y, even, v) /\ Young(w, v)
  BY <1>3, SetMakesHeights
<1>7. 0 \in Int
  OBVIOUS
<1>8. Young(w, v)
  BY <1>6, <1>7
<1>9. SUFFICES \E y \in Int :
                 /\ Poised(w, db, key, y, even)
                 /\ \/ y <= key
                    \/ /\ Lower(key, lo) <= key /\ Lower(key, lo) < y
                       /\ \E h : Edge(w, db, h, y)
  BY <1>4, <1>5, <1>8 DEF RootPoised, hi
<1> HIDE DEF w
<1>10. CASE lo <= key /\ x <= key
  <2>1. Poised(n, db, key, 0, even)
    BY <1>1, <1>2, <1>10, PoisedLater
  <2>2. Off(n, lo, hi, f, key, 0, even)
    BY <1>1, <1>2, <2>1 DEF Off
  <2>3. Poised(w, db, key, 0, even)
    BY <1>6, <1>7, <1>10, <2>2 DEF Heights
  <2>4. 0 <= key
    BY <1>2
  <2>5. QED BY <1>7, <2>3, <2>4
<1>11. CASE key < lo
  <2>1. x <= last /\ last <= key /\ last \in Int /\ key \in Int /\ lo \in Int /\ x <= key
    BY <1>1, <1>2, <1>11
  <2>2. Poised(n, db, key, lo, even)
    BY <1>1, <2>1, PoisedLater
  <2>3. Heights(n, w, lo, hi, f, key, lo, even, v)
    BY <1>6, <2>1
  <2>4. Poised(w, db, key, lo, even) /\ Edge(w, db, Height(n), lo)
    BY <1>11, <2>2, <2>3 DEF Heights
  <2>5. Lower(key, lo) = key
    BY <1>11 DEF Lower
  <2>6. QED BY <1>11, <2>1, <2>4, <2>5
<1>12. CASE lo <= key /\ key < x
  <2>1. PICK h : lo < x /\ Edge(n, db, h, x)
    BY <1>1, <1>2, <1>12
  <2>2. last \in Int /\ key \in Int /\ last <= key
    BY <1>2
  <2>3. Poised(n, db, key, x, even)
    BY <1>1, <2>2, PoisedLater
  <2>4. Heights(n, w, lo, hi, f, key, x, even, v)
    BY <1>6
  <2>5. Poised(w, db, key, x, even) /\ Edge(w, db, h, x)
    BY <1>12, <2>1, <2>3, <2>4 DEF Heights
  <2>6. Lower(key, lo) = lo
    BY <1>2, <1>12 DEF Lower
  <2>7. QED BY <1>12, <2>1, <2>5, <2>6
<1>13. QED BY <1>1, <1>2, <1>10, <1>11, <1>12

\* Before the first set of a version no node is excepted, and the heights stay
\* when nodes are added to the database.
LEMMA RootPoisedExtends ==
  ASSUME NEW n, NEW d, NEW e, Extends(d, e), NEW f, NEW even,
         RootPoised(n, d, f, 0, even)
  PROVE  RootPoised(n, e, f, 0, even)
<1> SUFFICES ASSUME n # NoNode
             PROVE  \E lo \in Key, x \in Int :
                      /\ Tree(n, lo, MaxKey + 1, e, f)
                      /\ \A k \in Key : k < lo => f[k] = NoNode
                      /\ Poised(n, e, 0, x, even)
                      /\ x <= 0 \/ (lo <= 0 /\ lo < x /\ \E h : Edge(n, e, h, x))
  BY DEF RootPoised
<1>1. PICK lo \in Key, x \in Int :
        /\ Tree(n, lo, MaxKey + 1, d, f)
        /\ \A k \in Key : k < lo => f[k] = NoNode
        /\ Poised(n, d, 0, x, even)
        /\ x <= 0 \/ (lo <= 0 /\ lo < x /\ \E h : Edge(n, d, h, x))
  BY DEF RootPoised
<1>2. Tree(n, lo, MaxKey + 1, e, f) /\ Poised(n, e, 0, x, even)
  BY <1>1, TreeExtends, PoisedExtends
<1>3. x <= 0
  BY <1>1 DEF Key
<1>4. QED BY <1>1, <1>2, <1>3

\* The heights stay for a later key, and more is allowed.
LEMMA RootPoisedLater ==
  ASSUME NEW n, NEW d, NEW f, NEW key \in Int, NEW later \in Int, key <= later,
         NEW even, NEW less, less => even, RootPoised(n, d, f, key, even)
  PROVE  RootPoised(n, d, f, later, less)
<1> SUFFICES ASSUME n # NoNode
             PROVE  \E lo \in Key, x \in Int :
                      /\ Tree(n, lo, MaxKey + 1, d, f)
                      /\ \A k \in Key : k < lo => f[k] = NoNode
                      /\ Poised(n, d, later, x, less)
                      /\ x <= later \/ (lo <= later /\ lo < x /\ \E h : Edge(n, d, h, x))
  BY DEF RootPoised
<1>1. PICK lo \in Key, x \in Int :
        /\ Tree(n, lo, MaxKey + 1, d, f)
        /\ \A k \in Key : k < lo => f[k] = NoNode
        /\ Poised(n, d, key, x, even)
        /\ x <= key \/ (lo <= key /\ lo < x /\ \E h : Edge(n, d, h, x))
  BY DEF RootPoised
<1>2. Poised(n, d, later, x, less)
  BY <1>1, PoisedLater
<1>3. x <= later \/ (lo <= later /\ lo < x /\ \E h : Edge(n, d, h, x))
  <2>1. lo \in Int
    BY DEF Key
  <2>2. QED BY <1>1, <2>1
<1>4. QED BY <1>1, <1>2, <1>3

\* A stored tree is poised as the tree is, with no node excepted.
LEMMA SavePoises ==
  ASSUME DbSound(db), NEW n, NEW lo, NEW hi, NEW f, Tree(n, lo, hi, db, f),
         hi <= MaxKey + 1, NEW key, NEW x, NEW even, Poised(n, db, key, x, even),
         NEW later, NEW y
  PROVE  Poised(Stored(n), WithNodes(SavedNodes(n)), later, y, even)
<1> DEFINE nodes == SavedNodes(n)
           e == WithNodes(nodes)
           M == {c[2] : c \in nodes} \cup {db[h] : h \in DOMAIN db}
<1>1. PICK S : n \in S /\ AllPoised(S, db, key, x, even)
  BY DEF Poised
<1> DEFINE T == {Stored(m) : m \in S \cap M}
<1>2. /\ Extends(db, e)
      /\ \A c \in nodes : c[1] \in DOMAIN e /\ e[c[1]] = Stored(c[2])
  BY WithNodesIs
<1>3. /\ <<Hash(n), n>> \in nodes
      /\ \A c \in nodes : /\ \E l, h : Tree(c[2], l, h, db, f)
                          /\ InMemory(c[2]) \subseteq nodes
  BY SavedNodesKeep
<1> HIDE DEF nodes, e
<1>4. ASSUME NEW m \in M
      PROVE  /\ Typed(m)
             /\ IsInner(m) /\ m.left # NoNode =>
                  m.left \in M /\ m.leftHash \in DOMAIN e /\ e[m.leftHash] = Stored(m.left)
             /\ IsInner(m) /\ m.right # NoNode =>
                  m.right \in M /\ m.rightHash \in DOMAIN e /\ e[m.rightHash] = Stored(m.right)
  <2>1. CASE \E c \in nodes : m = c[2]
    <3>1. PICK c \in nodes : m = c[2]
      BY <2>1
    <3>2. Typed(m) /\ InMemory(m) \subseteq nodes
      BY <1>3, <3>1, TreeIsTyped
    <3>3. IsInner(m) /\ m.left # NoNode => <<m.leftHash, m.left>> \in nodes
      BY <3>2 DEF InMemory
    <3>4. IsInner(m) /\ m.right # NoNode => <<m.rightHash, m.right>> \in nodes
      BY <3>2 DEF InMemory
    <3>5. ASSUME NEW a, NEW b, <<a, b>> \in nodes
          PROVE  b \in M /\ a \in DOMAIN e /\ e[a] = Stored(b)
      BY <1>2, <3>5
    <3> HIDE DEF M
    <3>6. QED BY <3>2, <3>3, <3>4, <3>5
  <2>2. CASE \E h \in DOMAIN db : m = db[h]
    <3>1. Typed(m) /\ Stored(m) = m
      BY <2>2, SoundIsTyped DEF DbSound, DbTyped
    <3>2. IsInner(m) => m.left = NoNode /\ m.right = NoNode
      <4>1. IsInner(m) => InnerShape(m)
        BY <3>1, Kinds DEF Typed, IsInner
      <4>2. QED BY <3>1, <4>1, StoredIs
    <3>3. QED BY <3>1, <3>2
  <2>3. QED BY <2>1, <2>2
<1>5. ASSUME NEW m \in S \cap M, IsInner(m)
      PROVE  /\ LeftIn(db, m) \in S \cap M /\ LeftIn(e, Stored(m)) = Stored(LeftIn(db, m))
             /\ RightIn(db, m) \in S \cap M /\ RightIn(e, Stored(m)) = Stored(RightIn(db, m))
  <2>1. InnerShape(m)
    BY <1>4, <1>5, Kinds DEF Typed, IsInner
  <2>2. /\ Stored(m).left = NoNode /\ Stored(m).right = NoNode
        /\ Stored(m).leftHash = m.leftHash /\ Stored(m).rightHash = m.rightHash
    BY <2>1, StoredIs
  <2>3. /\ LeftIn(db, m) \in S /\ LeftIn(db, m) # Missing
        /\ RightIn(db, m) \in S /\ RightIn(db, m) # Missing
    BY <1>1, <1>5 DEF AllPoised, PoisedIn
  <2>4. \A h \in DOMAIN db : db[h] \in M /\ h \in DOMAIN e /\ e[h] = Stored(db[h])
    BY <1>2 DEF Extends, DbSound
  <2> HIDE DEF M
  <2>5. LeftIn(db, m) \in M /\ LeftIn(e, Stored(m)) = Stored(LeftIn(db, m))
    <3>1. CASE m.left # NoNode
      BY <1>4, <1>5, <2>2, <3>1 DEF LeftIn
    <3>2. CASE m.left = NoNode
      BY <2>2, <2>3, <2>4, <3>2 DEF LeftIn
    <3>3. QED BY <3>1, <3>2
  <2>6. RightIn(db, m) \in M /\ RightIn(e, Stored(m)) = Stored(RightIn(db, m))
    <3>1. CASE m.right # NoNode
      BY <1>4, <1>5, <2>2, <3>1 DEF RightIn
    <3>2. CASE m.right = NoNode
      BY <2>2, <2>3, <2>4, <3>2 DEF RightIn
    <3>3. QED BY <3>1, <3>2
  <2>7. QED BY <2>3, <2>5, <2>6
<1>6. n \in M
  <2>1. <<Hash(n), n>>[2] = n
    OBVIOUS
  <2>2. QED BY <1>3, <2>1
<1>7. \A m \in S \cap M : Typed(m)
  BY <1>4
<1> HIDE DEF M
<1>8. ASSUME NEW m \in S \cap M
      PROVE  /\ Stored(m) # Missing
             /\ Height(Stored(m)) = Height(m) /\ Size(Stored(m)) = Size(m)
             /\ IsInner(Stored(m)) => IsInner(m)
  <2>1. CASE LeafShape(m)
    BY <1>7, <2>1, HeightIs, Kinds DEF Stored, IsLeaf
  <2>2. CASE InnerShape(m)
    <3> DEFINE s == [kind |-> "inner", key |-> m.key, height |-> m.height,
                     size |-> m.size, version |-> m.version, left |-> NoNode,
                     right |-> NoNode, leftHash |-> m.leftHash,
                     rightHash |-> m.rightHash]
    <3>1. Stored(m) = s
      BY <2>2, StoredIs
    <3>2. InnerShape(s) /\ s.height = m.height /\ s.size = m.size
      BY <2>2 DEF InnerShape
    <3> HIDE DEF s
    <3>3. QED BY <2>2, <3>1, <3>2, HeightIs, Kinds DEF Typed, Height, Size, IsLeaf, IsInner
  <2>3. QED BY <1>7, <2>1, <2>2 DEF Typed
<1>9. ASSUME NEW m \in S \cap M PROVE PoisedIn(Stored(m), T, e, later, y, even)
  <2> SUFFICES ASSUME IsInner(Stored(m))
               PROVE  /\ LeftIn(e, Stored(m)) \in T /\ RightIn(e, Stored(m)) \in T
                      /\ PoisedAbove(Stored(m), LeftIn(e, Stored(m)),
                                     RightIn(e, Stored(m)), later, y, even)
    BY <1>8 DEF PoisedIn
  <2>1. IsInner(m)
    BY <1>8
  <2> DEFINE l == LeftIn(db, m)
             r == RightIn(db, m)
  <2>2. /\ l \in S \cap M /\ LeftIn(e, Stored(m)) = Stored(l)
        /\ r \in S \cap M /\ RightIn(e, Stored(m)) = Stored(r)
    BY <1>5, <2>1
  <2>3. PoisedAbove(m, l, r, key, x, even)
    BY <1>1, <2>1 DEF AllPoised, PoisedIn
  <2>4. /\ Stored(m).key = m.key /\ Stored(m).height = m.height
        /\ Stored(m).size = m.size /\ Stored(m).right = NoNode
    <3>1. InnerShape(m)
      BY <1>7, <2>1, Kinds DEF Typed, IsInner
    <3>2. QED BY <3>1, StoredIs
  <2> HIDE DEF l, r, T
  <2>5. /\ Height(Stored(l)) = Height(l) /\ Size(Stored(l)) = Size(l)
        /\ Height(Stored(r)) = Height(r) /\ Size(Stored(r)) = Size(r)
    BY <1>8, <2>2
  <2>6. PoisedAbove(Stored(m), Stored(l), Stored(r), later, y, even)
    BY <2>3, <2>4, <2>5 DEF PoisedAbove, Measures
  <2>7. Stored(l) \in T /\ Stored(r) \in T
    BY <2>2 DEF T
  <2>8. QED BY <2>2, <2>6, <2>7
<1>10. AllPoised(T, e, later, y, even)
  BY <1>9 DEF AllPoised
<1>11. Stored(n) \in T
  BY <1>1, <1>6
<1>12. QED BY <1>10, <1>11 DEF Poised, nodes, e

\* The saved nodes are in every set that has the tree and, with every node, its
\* children in memory.
LEMMA SavedNodesWithin ==
  ASSUME NEW n, NEW S, n \in S, \A m \in S : \A c \in InMemory(m) : c[2] \in S
  PROVE  \A c \in SavedNodes(n) : c[2] \in S
<1>1. PICK p : SavedLevels(p, MaxKey, n) /\ SavedNodes(n) = UNION {p[i] : i \in Depth}
  BY SavedNodesAre
<1> DEFINE Q == {depth \in Nat : depth <= MaxKey => \A c \in p[depth] : c[2] \in S}
<1>2. MaxKey \in Nat
  BY MaxKeyAssumption
<1>3. 0 \in Q
  <2>1. 0 \in 0..MaxKey
    BY <1>2
  <2>2. p[0] = {<<Hash(n), n>>}
    BY <1>1, <2>1 DEF SavedLevels
  <2>3. QED BY <2>2
<1>4. ASSUME NEW depth \in Nat, depth \in Q PROVE depth + 1 \in Q
  <2> SUFFICES ASSUME depth + 1 <= MaxKey, NEW c \in p[depth + 1] PROVE c[2] \in S
    OBVIOUS
  <2>1. depth + 1 \in 0..MaxKey /\ depth + 1 # 0 /\ (depth + 1) - 1 = depth
    BY <1>2
  <2>2. PICK b \in p[depth] : c \in InMemory(b[2])
    <3>1. p[depth + 1] = UNION {InMemory(b[2]) : b \in p[depth]}
      BY <1>1, <2>1 DEF SavedLevels
    <3>2. QED BY <3>1
  <2>3. b[2] \in S
    BY <1>2, <1>4, <2>2
  <2>4. QED BY <2>2, <2>3
<1> HIDE DEF Q
<1>5. Nat \subseteq Q
  BY <1>3, <1>4, StepsInduction
<1>6. ASSUME NEW depth \in Depth, NEW c \in p[depth] PROVE c[2] \in S
  <2>1. depth \in Nat /\ depth <= MaxKey
    BY <1>2 DEF Depth
  <2>2. QED BY <1>5, <1>6, <2>1 DEF Q
<1>7. QED BY <1>1, <1>6

\* A saved version is not later than the nodes it was made of.
LEMMA SaveIsYoung ==
  ASSUME DbSound(db), NEW n, NEW lo, NEW hi, NEW f, Tree(n, lo, hi, db, f),
         hi <= MaxKey + 1, NEW v \in Int, DbYoung(db, v), Young(n, v)
  PROVE  DbYoung(WithNodes(SavedNodes(n)), v)
<1> DEFINE nodes == SavedNodes(n)
           e == WithNodes(nodes)
<1>1. PICK S : n \in S /\ AllYoung(S, v)
  BY DEF Young
<1>2. \A m \in S : \A c \in InMemory(m) : c[2] \in S
  BY <1>1 DEF AllYoung, YoungIn, InMemory
<1>3. \A c \in nodes : c[2] \in S
  BY <1>1, <1>2, SavedNodesWithin
<1>4. /\ Extends(db, e)
      /\ \A h \in DOMAIN e : h \in DOMAIN db \/ \E c \in nodes : h = c[1]
  BY WithNodesIs
<1>5. \A c \in nodes : c = <<Hash(c[2]), c[2]>>
  BY SavedNodesKeep
<1> HIDE DEF nodes, e
<1>6. ASSUME NEW h \in DOMAIN e PROVE h.version \in Int /\ h.version <= v
  <2>1. CASE h \in DOMAIN db
    BY <2>1 DEF DbYoung
  <2>2. CASE \E c \in nodes : h = c[1]
    <3>1. PICK c \in nodes : h = c[1]
      BY <2>2
    <3>2. h = Hash(c[2])
      <4>1. c[1] = Hash(c[2])
        BY <1>5
      <4>2. QED BY <3>1, <4>1
    <3>3. h.version = c[2].version
      BY <3>2 DEF Hash
    <3>4. QED BY <1>1, <1>3, <3>3 DEF AllYoung, YoungIn
  <2>3. QED BY <1>4, <2>1, <2>2
<1>7. QED BY <1>6 DEF DbYoung, nodes, e

\* A stored node has no children in memory.
LEMMA StoredHasNone ==
  ASSUME NEW n, Typed(n), NEW v \in Int, n.version \in Int, n.version <= v
  PROVE  Young(Stored(n), v)
<1> DEFINE s == Stored(n)
<1>1. s.version = n.version /\ (IsInner(s) => s.left = NoNode /\ s.right = NoNode)
  <2>1. CASE LeafShape(n)
    BY <2>1, Kinds DEF Stored, IsLeaf, IsInner
  <2>2. CASE InnerShape(n)
    BY <2>2, StoredIs
  <2>3. QED BY <2>1, <2>2 DEF Typed
<1> HIDE DEF s
<1>2. Young(s, v)
  BY <1>1, YoungParent DEF YoungOr
<1>3. QED BY <1>2 DEF s

\* Nothing is later than a later version.
LEMMA YoungLater ==
  ASSUME NEW v \in Int, NEW w \in Int, v <= w
  PROVE  /\ \A d : DbYoung(d, v) => DbYoung(d, w)
         /\ \A n : Young(n, v) => Young(n, w)
         /\ v < w => \A hash : hash.version \in Int /\ hash.version <= v => hash.version # w
<1>1. ASSUME NEW d, DbYoung(d, v) PROVE DbYoung(d, w)
  BY <1>1 DEF DbYoung
<1>2. ASSUME NEW n, Young(n, v) PROVE Young(n, w)
  <2>1. PICK S : n \in S /\ AllYoung(S, v)
    BY <1>2 DEF Young
  <2>2. ASSUME NEW m \in S PROVE YoungIn(m, S, w)
    BY <2>1 DEF AllYoung, YoungIn
  <2>3. QED BY <2>1, <2>2 DEF Young, AllYoung
<1>3. QED BY <1>1, <1>2

-----------------------------------------------------------------------------
(* The inductive invariant with the heights.                               *)

\* The trees saved, before the first set on them.
VersionsPoised(d) ==
  \A v \in 1..loadedVersion : \E even \in BOOLEAN :
    RootPoised(RootIn(d, roots[v]), d, saved[v], 0, even)

\* No node is later than the version being written, and none of the database
\* than the last one saved.
NodesYoung ==
  /\ DbYoung(db, loadedVersion)
  /\ root # NoNode => Young(root, loadedVersion + 1)

\* The heights and sizes of every tree are exact, and no right subtree is more
\* than one higher than its sibling.
HeightsHold ==
  /\ TreesHold
  /\ lastKey \in Nat
  /\ NodesYoung
  /\ \E even \in BOOLEAN : RootPoised(root, db, written, lastKey, even)
  /\ VersionsPoised(db)

\* A set keeps what is known of the heights, and the balance unless it goes
\* through the left-right case.
LEMMA SetIsPoised ==
  ASSUME TreesHold, lastKey \in Nat, NodesYoung, NEW even \in BOOLEAN,
         RootPoised(root, db, written, lastKey, even),
         NEW key \in Key, NEW value \in Value, Set(key, value),
         even /\ root # NoNode => Straight(root, key, value, loadedVersion + 1)
  PROVE  /\ NodesYoung' /\ lastKey' = key /\ db' = db
         /\ RootPoised(root', db, written', key, even)
<1> DEFINE version == loadedVersion + 1
           leaf == NewLeaf(key, value, version)
           next == [written EXCEPT ![key] = leaf]
           result == IF root = NoNode THEN leaf
                     ELSE RecursiveSet(root, key, value, version)
<1>1. /\ UNCHANGED <<db, roots, loadedVersion, saved>>
      /\ lastKey' = key /\ lastKey < key /\ key \in Nat
      /\ IF IsPanic(result) THEN UNCHANGED <<root, written>>
         ELSE root' = result /\ written' = next
  <2>1. key > lastKey /\ key \in Nat
    BY DEF Set, Key
  <2>2. QED BY <2>1 DEF Set
<1>2. /\ loadedVersion \in Nat /\ version \in Int /\ loadedVersion < version
      /\ written \in Contents /\ DbSound(db)
  BY DEF TreesHold, VersionsTyped
<1>3. Updates(next, written, key) /\ next[key] = leaf
  BY <1>2 DEF Updates, Contents
<1>4. DbYoung(db, loadedVersion)
  BY DEF NodesYoung
<1>5. DbYoung(db, version) /\ Fresh(version)
  <2>1. loadedVersion \in Int /\ loadedVersion <= version
    BY <1>2
  <2> HIDE DEF version
  <2>2. DbYoung(db, version)
    BY <1>2, <1>4, <2>1, YoungLater
  <2>3. \A hash : hash.version \in Int /\ hash.version <= loadedVersion
                    => hash.version # version
    BY <1>2, <2>1, YoungLater
  <2>4. QED BY <1>4, <2>2, <2>3 DEF DbYoung, Fresh
<1> HIDE DEF next
<1>6. CASE IsPanic(result)
  <2>1. root' = root /\ written' = written /\ db' = db /\ loadedVersion' = loadedVersion
    BY <1>1, <1>6
  <2>2. RootPoised(root, db, written, key, even)
    BY <1>1, RootPoisedLater
  <2>3. QED BY <1>1, <2>1, <2>2 DEF NodesYoung
<1>7. CASE ~IsPanic(result)
  <2>1. root' = result /\ written' = next /\ db' = db /\ loadedVersion' = loadedVersion
    BY <1>1, <1>7
  <2>2. Young(result, version) /\ RootPoised(result, db, next, key, even)
    <3>1. CASE root = NoNode
      <4>1. result = leaf
        BY <3>1
      <4>2. /\ LeafShape(leaf) /\ IsLeaf(leaf) /\ ~IsInner(leaf) /\ leaf.key = key
            /\ leaf.version = version
        BY DEF LeafShape, IsLeaf, IsInner, NewLeaf
      <4> HIDE DEF leaf, version
      <4>3. Young(leaf, version)
        BY <1>2, <4>2, YoungParent
      <4>4. PICK hi : hi = MaxKey + 1 /\ hi \in Int /\ key < hi
        BY MaxKeyAssumption DEF Key
      <4>5. written = NothingWritten
        <5>1. Holds(root, db, written)
          BY DEF TreesHold
        <5>2. ASSUME NEW lo, Tree(root, lo, MaxKey + 1, db, written) PROVE FALSE
          BY <3>1, <5>2, TreeIsTyped
        <5>3. QED BY <5>1, <5>2 DEF Holds
      <4>6. \A k \in Key : k # key => next[k] = NoNode
        BY <1>3, <4>5 DEF Updates, NothingWritten
      <4>7. \A k \in Key : k < key \/ key < k => next[k] = NoNode
        BY <4>6 DEF Key
      <4>8. LeafTree(leaf, key, hi, next)
        BY <1>3, <4>2, <4>7 DEF LeafTree
      <4>9. Tree(leaf, key, MaxKey + 1, db, next)
        BY <4>4, <4>8, LeafIsTree
      <4>10. Poised(leaf, db, key, key, even)
        BY <4>2, LeafIsPoised DEF Typed
      <4>11. key \in Int /\ key <= key
        BY <1>1
      <4>12. RootPoised(leaf, db, next, key, even)
        BY <4>7, <4>9, <4>10, <4>11 DEF RootPoised
      <4>13. QED BY <4>1, <4>3, <4>12
    <3>2. CASE root # NoNode
      <4>1. result = RecursiveSet(root, key, value, version)
        BY <3>2
      <4>2. Young(root, version)
        BY <3>2 DEF NodesYoung
      <4>3. even => Straight(root, key, value, version)
        BY <3>2
      <4> HIDE DEF result, version
      <4>4. next[key] = NewLeaf(key, value, version)
        BY <1>3
      <4>5. ~IsPanic(RecursiveSet(root, key, value, version))
        BY <1>7, <4>1
      <4> HIDE DEF leaf
      <4>6. LET w == RecursiveSet(root, key, value, version) IN
            Young(w, version) /\ RootPoised(w, db, next, key, even)
        BY <1>1, <1>2, <1>3, <1>5, <3>2, <4>2, <4>3, <4>4, <4>5, SetPoises
      <4>7. QED BY <4>1, <4>6
    <3>3. QED BY <3>1, <3>2
  <2> HIDE DEF result
  <2>3. NodesYoung'
    BY <1>4, <2>1, <2>2 DEF NodesYoung
  <2>4. QED BY <1>1, <2>1, <2>2, <2>3
<1>8. QED BY <1>6, <1>7

\* A set keeps the invariant.
LEMMA SetKeepsHeights ==
  ASSUME HeightsHold, NEW key \in Key, NEW value \in Value, Set(key, value)
  PROVE  HeightsHold'
<1>1. PICK even \in BOOLEAN : RootPoised(root, db, written, lastKey, even)
  BY DEF HeightsHold
<1>2. PICK less \in BOOLEAN : ~less
  OBVIOUS
<1>3. TreesHold /\ lastKey \in Nat /\ NodesYoung
  BY DEF HeightsHold
<1>4. RootPoised(root, db, written, lastKey, less)
  <2>1. lastKey \in Int /\ lastKey <= lastKey
    BY <1>3
  <2>2. QED BY <1>1, <1>2, <2>1, RootPoisedLater
<1>5. /\ NodesYoung' /\ lastKey' = key /\ db' = db
      /\ RootPoised(root', db, written', key, less)
  BY <1>2, <1>3, <1>4, SetIsPoised
<1>6. TreesHold' /\ key \in Nat
  BY <1>3, SetHolds DEF Key
<1>7. VersionsPoised(db)'
  <2>1. roots' = roots /\ saved' = saved /\ loadedVersion' = loadedVersion
    BY DEF Set
  <2>2. VersionsPoised(db)
    BY DEF HeightsHold
  <2>3. \A v \in 1..loadedVersion' : \E e \in BOOLEAN :
          RootPoised(RootIn(db', roots'[v]), db', saved'[v], 0, e)
    BY <1>5, <2>1, <2>2 DEF VersionsPoised
  <2>4. QED BY <2>3 DEF VersionsPoised
<1>8. \E e \in BOOLEAN : RootPoised(root', db', written', lastKey', e)
  BY <1>5
<1>9. QED BY <1>5, <1>6, <1>7, <1>8 DEF HeightsHold

\* A save keeps the invariant.
LEMMA SaveKeepsHeights ==
  ASSUME HeightsHold, SaveVersion
  PROVE  HeightsHold'
<1> DEFINE version == loadedVersion + 1
           hash == IF root = NoNode THEN EmptyHash ELSE Hash(root)
<1>1. /\ loadedVersion' = version
      /\ roots' = Append(roots, hash)
      /\ saved' = Append(saved, written) /\ written' = written /\ lastKey' = 0
  BY DEF SaveVersion
<1>2. /\ TreesHold /\ VersionsTyped /\ DbSound(db) /\ lastKey \in Nat
      /\ roots \in Seq(DOMAIN db \cup {EmptyHash}) /\ Len(roots) = loadedVersion
      /\ saved \in Seq(Contents) /\ Len(saved) = loadedVersion
      /\ loadedVersion \in Nat /\ version \in Int /\ loadedVersion <= version
      /\ NodesYoung /\ DbYoung(db, loadedVersion)
  BY DEF HeightsHold, NodesYoung, TreesHold, VersionsTyped
<1>3. DbYoung(db, version)
  <2> HIDE DEF version
  <2>1. loadedVersion \in Int
    BY <1>2
  <2>2. QED BY <1>2, <2>1, YoungLater
<1>4. PICK even \in BOOLEAN : RootPoised(root, db, written, lastKey, even)
  BY DEF HeightsHold
<1>5. TreesHold'
  BY <1>2, SaveHolds
<1> HIDE DEF hash
<1>6. /\ Extends(db, db') /\ DbYoung(db', version)
      /\ root' # NoNode => Young(root', version + 1)
      /\ RootPoised(root', db', written, 0, even)
      /\ RootIn(db', hash) = root'
  <2>1. CASE root = NoNode
    <3>1. db' = db /\ root' = root /\ hash = EmptyHash
      BY <2>1 DEF SaveVersion, hash
    <3>2. RootIn(db', hash) = root' /\ Extends(db, db')
      BY <2>1, <3>1 DEF RootIn, Extends
    <3>3. RootPoised(root', db', written, 0, even)
      BY <2>1, <3>1 DEF RootPoised
    <3>4. QED BY <1>3, <2>1, <3>1, <3>2, <3>3
  <2>2. CASE root # NoNode
    <3>1. PICK lo \in Key, x \in Int :
            /\ Tree(root, lo, MaxKey + 1, db, written)
            /\ \A k \in Key : k < lo => written[k] = NoNode
            /\ Poised(root, db, lastKey, x, even)
      BY <1>4, <2>2 DEF RootPoised
    <3>2. /\ db' = WithNodes(SavedNodes(root)) /\ root' = Stored(root)
          /\ hash = Hash(root)
      BY <2>2 DEF SaveVersion, hash
    <3>3. MaxKey + 1 <= MaxKey + 1 /\ 0 \in Int /\ 0 <= 0
      BY MaxKeyAssumption
    <3>4. /\ Extends(db, db')
          /\ Tree(root', lo, MaxKey + 1, db', written)
          /\ hash \in DOMAIN db' /\ db'[hash] = root'
      BY <1>2, <3>1, <3>2, <3>3, SaveKeeps
    <3>5. Poised(root', db', 0, 0, even)
      BY <1>2, <3>1, <3>2, <3>3, SavePoises
    <3>6. RootPoised(root', db', written, 0, even)
      BY <3>1, <3>3, <3>4, <3>5 DEF RootPoised
    <3>7. Typed(root) /\ hash # EmptyHash
      BY <3>1, <3>2, TreeIsTyped, HashIsNotEmpty
    <3>8. RootIn(db', hash) = root'
      BY <3>4, <3>7 DEF RootIn
    <3>9. Young(root, version)
      BY <1>2, <2>2 DEF NodesYoung
    <3> HIDE DEF version
    <3>10. DbYoung(db', version)
      BY <1>2, <1>3, <3>1, <3>2, <3>3, <3>9, SaveIsYoung
    <3>11. version + 1 \in Int /\ root.version \in Int /\ root.version <= version + 1
      <4>1. root.version \in Int /\ root.version <= version
        BY <3>9, YoungIs
      <4>2. QED BY <1>2, <4>1
    <3>12. Young(root', version + 1)
      BY <3>2, <3>7, <3>11, StoredHasNone
    <3>13. QED BY <3>4, <3>6, <3>8, <3>10, <3>12
  <2>3. QED BY <2>1, <2>2
<1>7. NodesYoung' /\ lastKey' \in Nat
  BY <1>1, <1>6 DEF NodesYoung
<1>8. \E e \in BOOLEAN : RootPoised(root', db', written', lastKey', e)
  BY <1>1, <1>6
<1>9. ASSUME NEW v \in 1..version
      PROVE  \E e \in BOOLEAN : RootPoised(RootIn(db', roots'[v]), db', saved'[v], 0, e)
  <2>1. CASE v = version
    <3>1. roots'[v] = hash /\ saved'[v] = written
      BY <1>1, <1>2, <2>1
    <3>2. QED BY <1>6, <3>1
  <2>2. CASE v # version
    <3>1. v \in 1..loadedVersion
      BY <1>2, <2>2
    <3>2. roots'[v] = roots[v] /\ saved'[v] = saved[v]
      BY <1>1, <1>2, <3>1
    <3>3. PICK e \in BOOLEAN : RootPoised(RootIn(db, roots[v]), db, saved[v], 0, e)
      BY <3>1 DEF HeightsHold, VersionsPoised
    <3>4. RootIn(db', roots[v]) = RootIn(db, roots[v])
      <4>1. roots[v] \in DOMAIN db \cup {EmptyHash}
        BY <1>2, <3>1
      <4>2. QED BY <1>6, <4>1 DEF RootIn, Extends
    <3>5. RootPoised(RootIn(db, roots[v]), db', saved[v], 0, e)
      BY <1>6, <3>3, RootPoisedExtends
    <3>6. QED BY <3>2, <3>4, <3>5
  <2>3. QED BY <2>1, <2>2
<1>10. VersionsPoised(db)'
  BY <1>1, <1>9 DEF VersionsPoised
<1>11. QED BY <1>5, <1>7, <1>8, <1>10 DEF HeightsHold

\* Opening the tree again keeps the invariant.
LEMMA ReopenKeepsHeights ==
  ASSUME HeightsHold, Reopen
  PROVE  HeightsHold'
<1>1. /\ UNCHANGED <<db, roots, loadedVersion, saved>>
      /\ root' = RootOf(loadedVersion) /\ lastKey' = 0
      /\ written' = IF loadedVersion = 0 THEN NothingWritten ELSE saved[loadedVersion]
  BY DEF Reopen
<1>2. /\ TreesHold /\ VersionsTyped /\ DbSound(db) /\ VersionsPoised(db)
      /\ loadedVersion \in Nat /\ DbYoung(db, loadedVersion)
      /\ roots \in Seq(DOMAIN db \cup {EmptyHash}) /\ Len(roots) = loadedVersion
  BY DEF HeightsHold, NodesYoung, TreesHold, VersionsTyped
<1>3. TreesHold'
  BY <1>2, ReopenHolds
<1>4. VersionsPoised(db)'
  <2>1. \A v \in 1..loadedVersion' : \E e \in BOOLEAN :
          RootPoised(RootIn(db', roots'[v]), db', saved'[v], 0, e)
    BY <1>1, <1>2 DEF VersionsPoised
  <2>2. QED BY <2>1 DEF VersionsPoised
<1>5. /\ \E e \in BOOLEAN : RootPoised(root', db', written', 0, e)
      /\ root' # NoNode => Young(root', loadedVersion + 1)
  <2>1. CASE loadedVersion = 0
    <3>1. root' = NoNode
      BY <1>1, <2>1 DEF RootOf
    <3>2. QED BY <3>1 DEF RootPoised
  <2>2. CASE loadedVersion # 0
    <3>1. loadedVersion \in 1..loadedVersion
      BY <1>2, <2>2
    <3>2. root' = RootIn(db, roots[loadedVersion])
      BY <1>1, <1>2, <3>1, RootIs
    <3>3. PICK e \in BOOLEAN : RootPoised(root', db, saved[loadedVersion], 0, e)
      BY <1>2, <3>1, <3>2 DEF VersionsPoised
    <3>4. ASSUME root' # NoNode PROVE Young(root', loadedVersion + 1)
      <4>1. roots[loadedVersion] \in DOMAIN db /\ root' = db[roots[loadedVersion]]
        <5>1. roots[loadedVersion] \in DOMAIN db \cup {EmptyHash}
          BY <1>2, <3>1
        <5>2. QED BY <3>2, <3>4, <5>1 DEF RootIn
      <4>2. /\ loadedVersion \in Int /\ loadedVersion + 1 \in Int
            /\ loadedVersion <= loadedVersion + 1
        BY <1>2
      <4>3. Young(root', loadedVersion)
        BY <1>2, <4>1, <4>2, StoredIsYoung
      <4>4. QED BY <4>2, <4>3, YoungLater
    <3>5. QED BY <1>1, <2>2, <3>3, <3>4
  <2>3. QED BY <2>1, <2>2
<1>6. NodesYoung' /\ lastKey' \in Nat
  BY <1>1, <1>2, <1>5 DEF NodesYoung
<1>7. QED BY <1>1, <1>3, <1>4, <1>5, <1>6 DEF HeightsHold

\* Always: the heights and sizes of every tree are exact, no right subtree is
\* more than one higher than its sibling, and the nodes that a set can find out
\* of balance are on the edge before which it sets (Tree::set with its
\* rotations, Tree::save_version, Tree::new).
THEOREM HeightsAlwaysHold == Spec => []HeightsHold
<1>1. Init /\ TreesHold => HeightsHold
  <2> SUFFICES ASSUME Init, TreesHold PROVE HeightsHold
    OBVIOUS
  <2>1. /\ root = NoNode /\ db = <<>> /\ loadedVersion = 0 /\ lastKey = 0
    BY DEF Init
  <2>2. NodesYoung
    BY <2>1 DEF NodesYoung, DbYoung
  <2>3. \E even \in BOOLEAN : RootPoised(root, db, written, lastKey, even)
    BY <2>1 DEF RootPoised
  <2>4. VersionsPoised(db)
    BY <2>1 DEF VersionsPoised
  <2>5. QED BY <2>1, <2>2, <2>3, <2>4 DEF HeightsHold
<1>2. HeightsHold /\ [Next]_vars => HeightsHold'
  <2> SUFFICES ASSUME HeightsHold, [Next]_vars PROVE HeightsHold'
    OBVIOUS
  <2>1. CASE \E key \in Key, value \in Value : Set(key, value)
    BY <2>1, SetKeepsHeights
  <2>2. CASE SaveVersion
    BY <2>2, SaveKeepsHeights
  <2>3. CASE Reopen
    BY <2>3, ReopenKeepsHeights
  <2>4. CASE UNCHANGED vars
    <3>1. /\ root' = root /\ db' = db /\ roots' = roots /\ written' = written
          /\ loadedVersion' = loadedVersion /\ saved' = saved /\ lastKey' = lastKey
      BY <2>4 DEF vars
    <3>2. TreesHold'
      BY <3>1 DEF HeightsHold, TreesHold, VersionsTyped, VersionsHold, Contents
    <3>3. NodesYoung' /\ VersionsPoised(db)'
      BY <3>1 DEF HeightsHold, NodesYoung, VersionsPoised
    <3>4. \E even \in BOOLEAN : RootPoised(root', db', written', lastKey', even)
      BY <3>1 DEF HeightsHold
    <3>5. QED BY <3>1, <3>2, <3>3, <3>4 DEF HeightsHold
  <2>5. QED BY <2>1, <2>2, <2>3, <2>4 DEF Next
<1>3. QED BY <1>1, <1>2, TreesAlwaysHold, PTL DEF Spec

-----------------------------------------------------------------------------
(* What the heights say.                                                   *)

\* The nodes of a tree have its root and, with every node, its children.
LEMMA NodesClose ==
  ASSUME DbTyped(db), NEW n, n # NoNode, NEW f, Holds(n, db, f)
  PROVE  /\ n \in Nodes(n)
         /\ \A m \in Nodes(n) : Children(m) \subseteq Nodes(n)
<1>1. PICK p : NodeLevels(p, MaxKey, n) /\ Nodes(n) = UNION {p[i] : i \in Depth}
  BY NodesAre
<1> DEFINE Good(m, depth) ==
             \E l, h : Tree(m, l, h, db, f) /\ h - l <= MaxKey - depth
           Q == {depth \in Nat : depth <= MaxKey => \A m \in p[depth] : Good(m, depth)}
<1>2. MaxKey \in Nat
  BY MaxKeyAssumption
<1>3. p[0] = {n}
  <2>1. 0 \in 0..MaxKey
    BY <1>2
  <2>2. p[0] = {n} \ {NoNode}
    BY <1>1, <2>1 DEF NodeLevels
  <2>3. QED BY <2>2
<1>4. \A depth \in Nat : depth + 1 <= MaxKey =>
        p[depth + 1] = UNION {Children(m) : m \in p[depth]}
  <2> SUFFICES ASSUME NEW depth \in Nat, depth + 1 <= MaxKey
               PROVE  p[depth + 1] = UNION {Children(m) : m \in p[depth]}
    OBVIOUS
  <2>1. depth + 1 \in 0..MaxKey /\ depth + 1 # 0 /\ (depth + 1) - 1 = depth
    BY <1>2
  <2>2. QED BY <1>1, <2>1 DEF NodeLevels
<1>5. 0 \in Q
  <2>1. PICK lo \in Key : Tree(n, lo, MaxKey + 1, db, f)
    BY DEF Holds
  <2>2. (MaxKey + 1) - lo <= MaxKey - 0
    BY <1>2 DEF Key
  <2>3. Good(n, 0)
    BY <2>1, <2>2
  <2>4. QED BY <1>3, <2>3
<1>6. ASSUME NEW depth \in Nat, depth \in Q PROVE depth + 1 \in Q
  <2> SUFFICES ASSUME depth + 1 <= MaxKey, NEW m \in p[depth + 1]
               PROVE  Good(m, depth + 1)
    OBVIOUS
  <2>1. PICK b \in p[depth] : m \in Children(b)
    BY <1>4
  <2>2. PICK l, h : Tree(b, l, h, db, f) /\ h - l <= MaxKey - depth
    BY <1>2, <1>6, <2>1
  <2>3. IsInner(b) /\ (m = LeftNode(b) \/ m = RightNode(b))
    BY <2>1 DEF Children
  <2>4. /\ l \in Int /\ h \in Int /\ b.key \in Int /\ l < b.key /\ b.key < h
        /\ Tree(LeftNode(b), l, b.key, db, f) /\ Tree(RightNode(b), b.key, h, db, f)
    <3>1. l \in Key /\ h \in Int /\ InnerTree(b, l, h, db, f)
      BY <2>2, <2>3, TreeIs DEF LeafTree, IsLeaf, IsInner
    <3>2. LeftNode(b) = LeftIn(db, b) /\ RightNode(b) = RightIn(db, b)
      BY <3>1, TreeLoads, Lookups
    <3>3. QED BY <3>1, <3>2 DEF InnerTree, Key
  <2>5. b.key - l <= MaxKey - (depth + 1) /\ h - b.key <= MaxKey - (depth + 1)
    BY <1>2, <2>2, <2>4
  <2>6. QED BY <2>3, <2>4, <2>5
<1> HIDE DEF Q
<1>7. Nat \subseteq Q
  BY <1>5, <1>6, StepsInduction
<1>8. ASSUME NEW m \in Nodes(n) PROVE Children(m) \subseteq Nodes(n)
  <2>1. PICK depth \in Depth : m \in p[depth]
    BY <1>1
  <2>2. depth \in Nat /\ depth <= MaxKey
    BY <1>2 DEF Depth
  <2>3. PICK l, h : Tree(m, l, h, db, f) /\ h - l <= MaxKey - depth
    BY <1>7, <2>1, <2>2 DEF Q
  <2>4. l \in Int /\ h \in Int /\ l < h
    BY <2>3, TreeIs DEF Key
  <2>5. depth + 1 <= MaxKey /\ depth + 1 \in Depth
    BY <1>2, <2>2, <2>3, <2>4 DEF Depth
  <2>6. Children(m) \subseteq p[depth + 1]
    BY <1>4, <2>1, <2>2, <2>5
  <2>7. QED BY <1>1, <2>5, <2>6
<1>9. n \in Nodes(n)
  <2>1. 0 \in Depth
    BY <1>2 DEF Depth
  <2>2. QED BY <1>1, <1>3, <2>1
<1>10. QED BY <1>8, <1>9

\* The children of a node of a tree are those of the database, and are nodes.
LEMMA NodesHaveChildren ==
  ASSUME DbTyped(db), NEW n, NEW f, Holds(n, db, f), NEW m \in Nodes(n), IsInner(m)
  PROVE  /\ InnerShape(m)
         /\ LeftNode(m) = LeftIn(db, m) /\ RightNode(m) = RightIn(db, m)
         /\ Typed(LeftIn(db, m)) /\ Typed(RightIn(db, m))
<1>1. PICK l, h : Tree(m, l, h, db, f)
  BY NodesAreTrees
<1>2. InnerTree(m, l, h, db, f)
  BY <1>1, TreeIs DEF LeafTree, IsLeaf, IsInner
<1>3. LeftNode(m) = LeftIn(db, m) /\ RightNode(m) = RightIn(db, m)
  BY <1>2, TreeLoads, Lookups DEF InnerTree
<1>4. QED BY <1>2, <1>3, TreeIsTyped DEF InnerTree

\* The nodes of a poised tree are poised.
LEMMA NodesArePoised ==
  ASSUME DbTyped(db), NEW n, NEW f, Holds(n, db, f), NEW key, NEW x, NEW even,
         n # NoNode, Poised(n, db, key, x, even)
  PROVE  \A m \in Nodes(n) : Poised(m, db, key, x, even)
<1>1. PICK p : NodeLevels(p, MaxKey, n) /\ Nodes(n) = UNION {p[i] : i \in Depth}
  BY NodesAre
<1> DEFINE Q == {depth \in Nat : depth <= MaxKey =>
                   \A m \in p[depth] : Poised(m, db, key, x, even)}
<1>2. MaxKey \in Nat
  BY MaxKeyAssumption
<1>3. 0 \in Q
  <2>1. 0 \in 0..MaxKey
    BY <1>2
  <2>2. p[0] = {n} \ {NoNode}
    BY <1>1, <2>1 DEF NodeLevels
  <2>3. QED BY <2>2
<1>4. ASSUME NEW depth \in Nat, depth \in Q PROVE depth + 1 \in Q
  <2> SUFFICES ASSUME depth + 1 <= MaxKey, NEW m \in p[depth + 1]
               PROVE  Poised(m, db, key, x, even)
    OBVIOUS
  <2>1. depth + 1 \in 0..MaxKey /\ depth + 1 # 0 /\ (depth + 1) - 1 = depth
    BY <1>2
  <2>2. PICK b \in p[depth] : m \in Children(b)
    <3>1. p[depth + 1] = UNION {Children(b) : b \in p[depth]}
      BY <1>1, <2>1 DEF NodeLevels
    <3>2. QED BY <3>1
  <2>3. Poised(b, db, key, x, even)
    BY <1>2, <1>4, <2>2
  <2>4. IsInner(b) /\ (m = LeftNode(b) \/ m = RightNode(b))
    BY <2>2 DEF Children
  <2>5. depth \in Depth
    BY <1>2 DEF Depth
  <2>6. b \in Nodes(n)
    BY <1>1, <2>2, <2>5
  <2>7. LeftNode(b) = LeftIn(db, b) /\ RightNode(b) = RightIn(db, b)
    BY <2>4, <2>6, NodesHaveChildren
  <2>8. QED BY <2>3, <2>4, <2>7, PoisedIs
<1> HIDE DEF Q
<1>5. Nat \subseteq Q
  BY <1>3, <1>4, StepsInduction
<1>6. ASSUME NEW depth \in Depth, NEW m \in p[depth]
      PROVE  Poised(m, db, key, x, even)
  <2>1. depth \in Nat /\ depth <= MaxKey
    BY <1>2 DEF Depth
  <2>2. QED BY <1>5, <1>6, <2>1 DEF Q
<1>7. QED BY <1>1, <1>6

\* The empty tree has no nodes.
LEMMA NodesAreOfRoot ==
  ASSUME NEW n, NEW m \in Nodes(n)
  PROVE  n # NoNode
<1>1. PICK p : NodeLevels(p, MaxKey, n) /\ Nodes(n) = UNION {p[i] : i \in Depth}
  BY NodesAre
<1> SUFFICES ASSUME n = NoNode PROVE FALSE
  OBVIOUS
<1> DEFINE Q == {depth \in Nat : depth <= MaxKey => p[depth] = {}}
<1>2. MaxKey \in Nat
  BY MaxKeyAssumption
<1>3. 0 \in Q
  <2>1. 0 \in 0..MaxKey
    BY <1>2
  <2>2. p[0] = {n} \ {NoNode}
    BY <1>1, <2>1 DEF NodeLevels
  <2>3. QED BY <2>2
<1>4. ASSUME NEW depth \in Nat, depth \in Q PROVE depth + 1 \in Q
  <2> SUFFICES ASSUME depth + 1 <= MaxKey PROVE p[depth + 1] = {}
    OBVIOUS
  <2>1. depth + 1 \in 0..MaxKey /\ depth + 1 # 0 /\ (depth + 1) - 1 = depth
    BY <1>2
  <2>2. p[depth + 1] = UNION {Children(b) : b \in p[depth]}
    BY <1>1, <2>1 DEF NodeLevels
  <2>3. p[depth] = {}
    BY <1>2, <1>4
  <2>4. QED BY <2>2, <2>3
<1> HIDE DEF Q
<1>5. Nat \subseteq Q
  BY <1>3, <1>4, StepsInduction
<1>6. PICK depth \in Depth : m \in p[depth]
  BY <1>1
<1>7. depth \in Nat /\ depth <= MaxKey
  BY <1>2 DEF Depth
<1>8. QED BY <1>5, <1>6, <1>7 DEF Q

\* The height and size of every node of the current tree are those of its
\* children, whatever rotations, saves and reopenings it went through
\* (recursive_set, right_rotate and left_rotate, which each compute them anew).
THEOREM MeasuresAreAlwaysExact == Spec => []MeasuresAreExact
<1>1. ASSUME HeightsHold PROVE MeasuresAreExact
  <2> SUFFICES ASSUME NEW n \in Nodes(root), IsInner(n) PROVE Measured(n) = n
    BY DEF MeasuresAreExact
  <2>1. DbTyped(db) /\ Holds(root, db, written)
    BY <1>1, SoundIsTyped DEF HeightsHold, TreesHold
  <2>2. root # NoNode
    BY NodesAreOfRoot
  <2>3. PICK even \in BOOLEAN, x \in Int : Poised(root, db, lastKey, x, even)
    BY <1>1, <2>2 DEF HeightsHold, RootPoised
  <2>4. Poised(n, db, lastKey, x, even)
    BY <2>1, <2>2, <2>3, NodesArePoised
  <2> DEFINE l == LeftIn(db, n)
             r == RightIn(db, n)
             height == 1 + Max2(Height(l), Height(r))
             size == Size(l) + Size(r)
  <2>5. n.height = height /\ n.size = size
    BY <2>4, PoisedIs DEF PoisedAbove, Measures
  <2>6. InnerShape(n) /\ LeftNode(n) = l /\ RightNode(n) = r /\ Typed(l) /\ Typed(r)
    BY <2>1, NodesHaveChildren
  <2>7. ~IsPanic(l) /\ ~IsPanic(r)
    BY <2>6, HeightIs
  <2>8. Measured(n) = [n EXCEPT !.height = height, !.size = size]
    BY <2>6, <2>7 DEF Measured
  <2> HIDE DEF l, r, height, size
  <2>9. [n EXCEPT !.height = height, !.size = size] = n
    BY <2>5, <2>6 DEF InnerShape
  <2>10. QED BY <2>8, <2>9
<1>2. QED BY <1>1, HeightsAlwaysHold, PTL

\* The current tree is poised, and no left subtree is more than one higher than
\* its sibling either.
RootEven ==
  \E even \in BOOLEAN : even /\ RootPoised(root, db, written, lastKey, even)

\* A balanced tree is even.
LEMMA BalancedIsEven == HeightsHold /\ Balanced => RootEven
<1> SUFFICES ASSUME HeightsHold, Balanced PROVE RootEven
  OBVIOUS
<1>1. DbTyped(db) /\ Holds(root, db, written)
  BY SoundIsTyped DEF HeightsHold, TreesHold
<1>2. PICK even \in BOOLEAN : even
  OBVIOUS
<1>3. CASE root = NoNode
  BY <1>2, <1>3 DEF RootEven, RootPoised
<1>4. CASE root # NoNode
  <2>1. PICK less \in BOOLEAN : RootPoised(root, db, written, lastKey, less)
    BY DEF HeightsHold
  <2>2. PICK lo \in Key, x \in Int :
          /\ Tree(root, lo, MaxKey + 1, db, written)
          /\ \A k \in Key : k < lo => written[k] = NoNode
          /\ Poised(root, db, lastKey, x, less)
          /\ x <= lastKey \/ (lo <= lastKey /\ lo < x /\ \E h : Edge(root, db, h, x))
    BY <1>4, <2>1 DEF RootPoised
  <2> DEFINE S == Nodes(root)
  <2>3. root \in S /\ \A n \in S : Children(n) \subseteq S
    BY <1>1, <1>4, NodesClose
  <2>4. ASSUME NEW n \in S PROVE PoisedIn(n, S, db, lastKey, x, even)
    <3>1. Poised(n, db, lastKey, x, less)
      BY <1>1, <1>4, <2>2, NodesArePoised
    <3>2. n # Missing
      BY <3>1 DEF Poised, AllPoised, PoisedIn
    <3>3. ASSUME IsInner(n)
          PROVE  /\ LeftIn(db, n) \in S /\ RightIn(db, n) \in S
                 /\ PoisedAbove(n, LeftIn(db, n), RightIn(db, n), lastKey, x, even)
      <4> DEFINE l == LeftIn(db, n)
                 r == RightIn(db, n)
      <4>1. LeftNode(n) = l /\ RightNode(n) = r /\ Typed(l) /\ Typed(r)
        BY <1>1, <3>3, NodesHaveChildren
      <4>2. l \in S /\ r \in S
        BY <2>3, <3>3, <4>1 DEF Children
      <4>3. PoisedAbove(n, l, r, lastKey, x, less)
        BY <3>1, <3>3, PoisedIs
      <4>4. BalanceFactor(n) \in {-1, 0, 1}
        BY <3>3 DEF Balanced
      <4>5. Height(l) - Height(r) <= 1 /\ Height(l) \in Nat /\ Height(r) \in Nat
        BY <4>1, <4>4, HeightIs DEF BalanceFactor
      <4>6. Height(l) <= Height(r) + 1
        BY <4>5
      <4>7. QED BY <4>2, <4>3, <4>6 DEF PoisedAbove
    <3>4. QED BY <3>2, <3>3 DEF PoisedIn
  <2>5. Poised(root, db, lastKey, x, even)
    BY <2>3, <2>4 DEF Poised, AllPoised
  <2>6. RootPoised(root, db, written, lastKey, even)
    BY <2>2, <2>5 DEF RootPoised
  <2>7. QED BY <1>2, <2>6 DEF RootEven
<1>5. QED BY <1>3, <1>4

\* An even tree is balanced.
LEMMA EvenIsBalanced == HeightsHold /\ RootEven => Balanced
<1> SUFFICES ASSUME HeightsHold, RootEven, NEW n \in Nodes(root), IsInner(n)
             PROVE  BalanceFactor(n) \in {-1, 0, 1}
  BY DEF Balanced
<1>1. DbTyped(db) /\ Holds(root, db, written)
  BY SoundIsTyped DEF HeightsHold, TreesHold
<1>2. root # NoNode
  BY NodesAreOfRoot
<1>3. PICK even \in BOOLEAN : even /\ RootPoised(root, db, written, lastKey, even)
  BY DEF RootEven
<1>4. PICK x \in Int : Poised(root, db, lastKey, x, even)
  BY <1>2, <1>3 DEF RootPoised
<1>5. Poised(n, db, lastKey, x, even)
  BY <1>1, <1>2, <1>4, NodesArePoised
<1> DEFINE l == LeftIn(db, n)
           r == RightIn(db, n)
<1>6. LeftNode(n) = l /\ RightNode(n) = r /\ Typed(l) /\ Typed(r)
  BY <1>1, NodesHaveChildren
<1>7. Height(r) <= Height(l) + 1 /\ Height(l) <= Height(r) + 1
  BY <1>3, <1>5, PoisedIs DEF PoisedAbove
<1>8. Height(l) \in Nat /\ Height(r) \in Nat
  BY <1>6, HeightIs
<1> HIDE DEF l, r
<1>9. Height(l) - Height(r) \in {-1, 0, 1}
  BY <1>7, <1>8
<1>10. QED BY <1>6, <1>9 DEF BalanceFactor

\* A set that does not go through the left-right case keeps an even tree even.
LEMMA SetKeepsEven ==
  ASSUME HeightsHold, RootEven, NEW key \in Key, NEW value \in Value,
         Set(key, value), ~MeetsLeftRight(key, value)
  PROVE  RootEven'
<1>1. PICK even \in BOOLEAN : even /\ RootPoised(root, db, written, lastKey, even)
  BY DEF RootEven
<1>2. root # NoNode => Straight(root, key, value, loadedVersion + 1)
  BY DEF MeetsLeftRight, Straight, MeetsCase
<1>3. TreesHold /\ lastKey \in Nat /\ NodesYoung
  BY DEF HeightsHold
<1>4. lastKey' = key /\ db' = db /\ RootPoised(root', db', written', key, even)
  BY <1>1, <1>2, <1>3, SetIsPoised
<1>5. QED BY <1>1, <1>4 DEF RootEven

\* A set keeps a balanced tree balanced, unless it goes through the left-right
\* case, which rotates the wrong node (the four cases of recursive_set).
THEOREM SetsAlwaysKeepBalance == Spec => SetsKeepBalance
<1> DEFINE Keeps == \A key \in Key, value \in Value :
                      /\ Set(key, value)
                      /\ Balanced
                      /\ ~MeetsLeftRight(key, value)
                      => Balanced'
<1>1. HeightsHold' /\ RootEven' => Balanced'
  BY EvenIsBalanced, PTL
<1>2. HeightsHold /\ HeightsHold' /\ [Next]_vars => [Keeps]_vars
  <2> SUFFICES ASSUME HeightsHold, HeightsHold', NEW key \in Key, NEW value \in Value,
                      Set(key, value), Balanced, ~MeetsLeftRight(key, value)
               PROVE  Balanced'
    OBVIOUS
  <2>1. RootEven
    BY BalancedIsEven
  <2>2. RootEven'
    BY <2>1, SetKeepsEven
  <2>3. QED BY <1>1, <2>2
<1>3. QED BY <1>2, HeightsAlwaysHold, PTL DEF Spec, SetsKeepBalance

\* No node has a right subtree more than one higher than its left one.
NeverRightHeavy ==
  \A n \in Nodes(root) : IsInner(n) => BalanceFactor(n) >= -1

\* What the left-right case costs is on the left only: after any sets, saves
\* and reopenings no right subtree is more than one higher than its sibling.  The
\* cases 3 and 4 of recursive_set do what they are there for.
THEOREM NeverRightHeavyAlways == Spec => []NeverRightHeavy
<1>1. ASSUME HeightsHold PROVE NeverRightHeavy
  <2> SUFFICES ASSUME NEW n \in Nodes(root), IsInner(n) PROVE BalanceFactor(n) >= -1
    BY DEF NeverRightHeavy
  <2>1. DbTyped(db) /\ Holds(root, db, written)
    BY <1>1, SoundIsTyped DEF HeightsHold, TreesHold
  <2>2. root # NoNode
    BY NodesAreOfRoot
  <2>3. PICK even \in BOOLEAN, x \in Int : Poised(root, db, lastKey, x, even)
    BY <1>1, <2>2 DEF HeightsHold, RootPoised
  <2>4. Poised(n, db, lastKey, x, even)
    BY <2>1, <2>2, <2>3, NodesArePoised
  <2> DEFINE l == LeftIn(db, n)
             r == RightIn(db, n)
  <2>5. LeftNode(n) = l /\ RightNode(n) = r /\ Typed(l) /\ Typed(r)
    BY <2>1, NodesHaveChildren
  <2>6. Height(r) <= Height(l) + 1
    BY <2>4, PoisedIs DEF PoisedAbove
  <2>7. Height(l) \in Nat /\ Height(r) \in Nat
    BY <2>5, HeightIs
  <2> HIDE DEF l, r
  <2>8. Height(l) - Height(r) >= -1
    BY <2>6, <2>7
  <2>9. QED BY <2>5, <2>8 DEF BalanceFactor
<1>2. QED BY <1>1, HeightsAlwaysHold, PTL

=============================================================================
