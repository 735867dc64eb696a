------------------------------ MODULE MerkleRoot ------------------------------
(***************************************************************************)
(* The application hash: the Merkle root (trees/src/merkle.rs) of the      *)
(* stores' names and hashes (store/src/hash.rs). Bytes are a sequence of   *)
(* tokens, a byte or a digest of 32 bytes; a digest is the term Sha256 of  *)
(* the bytes it is of, that is, the hash has no collisions.                *)
(***************************************************************************)
EXTENDS Integers, SequencesExt

Byte(b) == <<"byte", b>>
Sha256(bytes) == <<"digest", bytes>>

LeafPrefix == <<Byte(0)>>
InnerPrefix == <<Byte(1)>>
EmptyHash == Sha256(<<>>)

(* A wrong LeafHash: leaves are told from inner nodes by their content. *)
LeafHashWithoutPrefix(leaf) == Sha256(leaf)

LeafHash(leaf) == Sha256(LeafPrefix \o leaf)
InnerHash(left, right) == Sha256(InnerPrefix \o <<left, right>>)

(* The largest power of two less than length, for a length above one. *)
SplitPoint(length) ==
    LET power[bits \in 0 .. length] == IF bits = 0 THEN 1 ELSE 2 * power[bits - 1]
    IN  CHOOSE k \in Range(power) : k < length /\ length <= 2 * k

(* root[length][first] is the root of length items from the first on. *)
RootHash(items) ==
    LET root[length \in 1 .. Len(items)] ==
            [first \in 1 .. Len(items) - length + 1 |->
               IF length = 1
               THEN LeafHash(items[first])
               ELSE LET k == SplitPoint(length)
                    IN  InnerHash(root[k][first], root[length - k][first + k])]
    IN  IF items = <<>> THEN EmptyHash ELSE root[Len(items)][1]

(* A store's pair: its name and the digest of its hash, each after its     *)
(* length. The pairs are hashed in the order of the names: before has a    *)
(* pair <<m, n>> for every name m that comes before a name n.              *)
PairOf(info) == [key |-> info.name, value |-> <<Sha256(<<info.hash>>)>>]
ToBytes(pair) ==
    <<Byte(Len(pair.key))>> \o pair.key \o <<Byte(32)>> \o pair.value

HashOfStores(infos, before) ==
    LET pairs == {PairOf(info) : info \in infos}
        sorted == CHOOSE s \in [1 .. Cardinality(pairs) -> pairs] :
                     \A i, j \in DOMAIN s : i < j => <<s[i].key, s[j].key>> \in before
    IN  RootHash([i \in DOMAIN sorted |-> ToBytes(sorted[i])])

-----------------------------------------------------------------------------
(* The root of root_hash says which items it is of, how many there are and *)
(* in which order; no leaf can be taken for an inner node.                 *)
RootSaysItems(items, others) == RootHash(items) = RootHash(others) => items = others

(* The application hash of hash_store_infos says which stores there are    *)
(* and what each one's hash is.                                            *)
HashSaysStores(infos, others, before) ==
    HashOfStores(infos, before) = HashOfStores(others, before) => infos = others
=============================================================================
