------------------------------ MODULE KeyRanges ------------------------------
(***************************************************************************)
(* The keys of the stores: byte strings, the ranges over them, and the     *)
(* three databases (database/src: memory.rs, rocks.rs, prefix.rs) and the  *)
(* prefix stores (store/src/store.rs) that iterate them. A database is a   *)
(* function from its keys to values; an iterator is the sequence of the    *)
(* keys it yields.                                                         *)
(***************************************************************************)
EXTENDS Integers, SequencesExt

CONSTANTS
    MaxByte,    \* 255
    NoValue     \* what get returns for a key that is not there

ASSUME MaxByteAssumption == MaxByte \in Nat

(* Keys are ordered byte by byte, a prefix before what it is a prefix of. *)
Precedes(k, l) ==
    \E n \in 0 .. Min({Len(k), Len(l)}) :
        /\ SubSeq(k, 1, n) = SubSeq(l, 1, n)
        /\ n < Len(l)
        /\ n < Len(k) => k[n + 1] < l[n + 1]

InOrder(keys) ==
    CHOOSE s \in [1 .. Cardinality(keys) -> keys] :
        \A i, j \in DOMAIN s : i < j => Precedes(s[i], s[j])

(* Ranges of keys. *)
Included(k) == [kind |-> "Included", key |-> k]
Excluded(k) == [kind |-> "Excluded", key |-> k]
Unbounded == [kind |-> "Unbounded", key |-> <<>>]

InRange(k, start, end) ==
    /\ start.kind = "Included" => ~ Precedes(k, start.key)
    /\ start.kind = "Excluded" => Precedes(start.key, k)
    /\ end.kind = "Included" => ~ Precedes(end.key, k)
    /\ end.kind = "Excluded" => Precedes(k, end.key)

(* A wrong PrefixEnd: only the last byte of the prefix is looked at. *)
PrefixEndOfLastByte(prefix) ==
    IF prefix = <<>> \/ Last(prefix) = MaxByte
    THEN Unbounded
    ELSE Excluded([prefix EXCEPT ![Len(prefix)] = @ + 1])

(* prefix_end_bound: the largest bytes at the end of the prefix are dropped *)
(* and the byte before them is incremented.                                *)
PrefixEnd(prefix) ==
    LET kept == {n \in DOMAIN prefix : prefix[n] # MaxByte}
    IN  IF kept = {}
        THEN Unbounded
        ELSE Excluded([SubSeq(prefix, 1, Max(kept)) EXCEPT ![Max(kept)] = @ + 1])

-----------------------------------------------------------------------------
(* The databases. *)
Lookup(db, k) == IF k \in DOMAIN db THEN db[k] ELSE NoValue
Put(db, k, v) == [l \in DOMAIN db \cup {k} |-> IF l = k THEN v ELSE db[l]]

Within(db, start, end) == InOrder({k \in DOMAIN db : InRange(k, start, end)})
Iterator(db) == InOrder(DOMAIN db)

MemPrefixIterator(db, prefix) == Within(db, Included(prefix), PrefixEnd(prefix))

(* RocksDB seeks to the prefix and goes on while the keys have it. *)
RocksPrefixIterator(db, prefix) ==
    LET keys == Within(db, Included(prefix), Unbounded)
        others == {i \in DOMAIN keys : ~ IsPrefix(prefix, keys[i])}
    IN  IF others = {} THEN keys ELSE SubSeq(keys, 1, Min(others) - 1)

(* PrefixDB over RocksDB: one store's part of the node's database. Both    *)
(* iterators yield keys without all that was asked for.                    *)
Stripped(keys, prefix) ==
    [i \in DOMAIN keys |-> SubSeq(keys[i], Len(prefix) + 1, Len(keys[i]))]

PrefixLookup(db, name, k) == Lookup(db, name \o k)
PrefixPut(db, name, k, v) == Put(db, name \o k, v)
PrefixIterator(db, name) == Stripped(RocksPrefixIterator(db, name), name)
PrefixPrefixIterator(db, name, prefix) ==
    Stripped(RocksPrefixIterator(db, name \o prefix), name \o prefix)

-----------------------------------------------------------------------------
(* Prefix stores. store is what KVStore::get reads, tree what its range    *)
(* reads; KVStore::set panics on an empty key.                             *)
PrefixStoreGet(store, prefix, k) == Lookup(store, prefix \o k)
PrefixStoreSet(store, prefix, k, v) == Put(store, prefix \o k, v)

Prefixed(prefix, bound, unbounded) ==
    IF bound.kind = "Unbounded" THEN unbounded
    ELSE [bound EXCEPT !.key = prefix \o @]

PrefixStoreRange(tree, prefix, start, end) ==
    Stripped(Within(tree, Prefixed(prefix, start, Included(prefix)),
                          Prefixed(prefix, end, PrefixEnd(prefix))),
             prefix)

-----------------------------------------------------------------------------
(* The keys of the bank and of the auth module. An address is a byte       *)
(* string; the balances' key has its length in a byte before it.           *)
SupplyPrefix == <<0>>
BalancesPrefix == <<2>>
AccountPrefix == <<1>>

(* A wrong DenomBalancePrefix: without the length of the address. *)
UnlimitedBalancePrefix(address) == BalancesPrefix \o address

DenomBalancePrefix(address) == BalancesPrefix \o <<Len(address)>> \o address
AuthStoreKey(address) == AccountPrefix \o address

-----------------------------------------------------------------------------
(* What the ranges promise. *)
KeysWith(db, prefix) == {k \in DOMAIN db : IsPrefix(prefix, k)}
Rest(k, prefix) == SubSeq(k, Len(prefix) + 1, Len(k))

(* The iterators of the databases (MemDB::prefix_iterator, by a range, and *)
(* RocksDB::prefix_iterator, by a seek) yield the keys with the prefix,    *)
(* all of them, in order.                                                  *)
PrefixIteratorsAreExact(db, prefix) ==
    LET own == InOrder(KeysWith(db, prefix))
    IN  /\ MemPrefixIterator(db, prefix) = own
        /\ RocksPrefixIterator(db, prefix) = own
        /\ PrefixIterator(db, prefix) = Stripped(own, prefix)

(* A prefix store's range (ImmutablePrefixStore::range) yields the rests   *)
(* of the keys with its prefix that are within the bounds, in order.       *)
PrefixStoresAreExact(tree, prefix, start, end) ==
    PrefixStoreRange(tree, prefix, start, end)
      = Stripped(InOrder({k \in KeysWith(tree, prefix) :
                            InRange(Rest(k, prefix), start, end)}), prefix)

(* No address's balances are among another's, whatever the denomination,   *)
(* nor among the supply, and no two addresses' accounts have one key.      *)
AddressesAreSeparate(address, other, denom) ==
    /\ IsPrefix(DenomBalancePrefix(address), DenomBalancePrefix(other) \o denom)
         => address = other
    /\ ~ IsPrefix(SupplyPrefix, DenomBalancePrefix(other) \o denom)
    /\ AuthStoreKey(address) = AuthStoreKey(other) => address = other
=============================================================================
