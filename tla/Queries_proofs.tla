--------------------------- MODULE Queries_proofs ---------------------------
(***************************************************************************)
(* What a client is answered, for every genesis, transfers, clients and    *)
(* bounds. The store and the ledger on paper are related key by key: first *)
(* a transfer's coins, then run_tx, then the steps of the node.            *)
(***************************************************************************)
EXTENDS Queries, Folds_proofs

-----------------------------------------------------------------------------
(* Keys and views.                                                         *)

LEMMA Keys ==
  /\ \A a \in Holder, d \in Denom : Balance(a, d) \in Key
  /\ \A d \in Denom : Supply(d) \in Key
  /\ \A a \in Holder : Account(a) \in Key
<1>1. \A a \in Holder, d \in Denom : Balance(a, d) \in Key
  BY KeyAssumption
<1>2. \A d \in Denom : Supply(d) \in Key
  BY KeyAssumption
<1>3. \A a \in Holder : Account(a) \in Key
  BY KeyAssumption
<1>4. QED BY <1>1, <1>2, <1>3

\* No two entries share a key.
LEMMA KeysDiffer ==
  /\ \A a, b, d, e : Balance(a, d) = Balance(b, e) <=> a = b /\ d = e
  /\ \A d, e : Supply(d) = Supply(e) <=> d = e
  /\ \A a, b : Account(a) = Account(b) <=> a = b
  /\ \A a, d, e : Balance(a, d) # Supply(e) /\ Balance(a, d) # Account(e)
  /\ \A d, a : Supply(d) # Account(a)
  /\ \A a, d : Balance(a, d)[2] = a /\ Balance(a, d)[3] = d /\ Supply(d)[2] = d
<1>1. \A a, b, d, e : Balance(a, d) = Balance(b, e) <=> a = b /\ d = e
  BY DEF Balance
<1>2. \A d, e : Supply(d) = Supply(e) <=> d = e
  BY DEF Supply
<1>3. \A a, b : Account(a) = Account(b) <=> a = b
  BY DEF Account
<1>4. \A a, d, e : Balance(a, d) # Supply(e) /\ Balance(a, d) # Account(e)
  BY DEF Balance, Supply, Account
<1>5. \A d, a : Supply(d) # Account(a)
  BY DEF Supply, Account
<1>6. \A a, d : Balance(a, d)[2] = a /\ Balance(a, d)[3] = d /\ Supply(d)[2] = d
  BY DEF Balance, Supply
<1>7. QED BY <1>1, <1>2, <1>3, <1>4, <1>5, <1>6

Cached == [Key -> Nat \cup {None}]

LEMMA Types ==
  /\ Cache = Cached
  /\ None \notin Nat /\ None \notin Leaf /\ None \notin Tree
  /\ Leaf = [value : Nat, version : Version]
BY NoneAssumption, ValueAssumption DEF Cache, Cached, Leaf, Tree

\* The operators of KVStore, by what is read.
LEMMA Reads ==
  ASSUME NEW kv \in KV
  PROVE  /\ TreeView(kv.tree) \in Cached
         /\ BlockView(kv) \in Cached
         /\ Get(kv) \in Cached
         /\ \A k \in Key : Get(kv)[k] = IF kv.txCache[k] # None THEN kv.txCache[k]
                                        ELSE BlockView(kv)[k]
<1>1. kv.txCache \in Cached /\ kv.blockCache \in Cached
  BY Types DEF KV
<1>2. TreeView(kv.tree) \in Cached
  BY Types DEF KV, Tree, TreeView, Cached
<1>3. BlockView(kv) \in Cached
  BY <1>1, <1>2 DEF BlockView, Overlay, Cached
<1>4. QED BY <1>1, <1>2, <1>3 DEF Get, Overlay, Cached

SameStore(new, old) ==
  /\ new.blockCache = old.blockCache
  /\ new.tree = old.tree
  /\ new.loadedVersion = old.loadedVersion
  /\ new.versions = old.versions

LEMMA SetReads ==
  ASSUME NEW kv \in KV, NEW k \in Key, NEW v \in Nat
  PROVE  /\ Set(kv, k, v) \in KV
         /\ SameStore(Set(kv, k, v), kv)
         /\ \A l \in Key : Get(Set(kv, k, v))[l] = IF l = k THEN v ELSE Get(kv)[l]
<1>1. Set(kv, k, v).txCache = [kv.txCache EXCEPT ![k] = v] /\ kv.txCache \in Cached
  BY Types DEF KV, Set
<1>2. SameStore(Set(kv, k, v), kv)
  BY DEF SameStore, Set, KV
<1>3. Set(kv, k, v) \in KV
  BY Types DEF Set, KV, Cached
<1>4. BlockView(Set(kv, k, v)) = BlockView(kv)
  BY <1>2 DEF BlockView, SameStore
<1>5. \A l \in Key : Get(kv)[l] = IF kv.txCache[l] # None THEN kv.txCache[l]
                                  ELSE BlockView(kv)[l]
  BY Reads
<1>6. \A l \in Key :
        Get(Set(kv, k, v))[l] = IF Set(kv, k, v).txCache[l] # None
                                THEN Set(kv, k, v).txCache[l]
                                ELSE BlockView(Set(kv, k, v))[l]
  BY <1>3, Reads
<1>7. v # None /\ \A l \in Key : Set(kv, k, v).txCache[l]
                                   = IF l = k THEN v ELSE kv.txCache[l]
  BY <1>1, Types DEF Cached
<1>8. \A l \in Key : Get(Set(kv, k, v))[l] = IF l = k THEN v ELSE Get(kv)[l]
  BY <1>4, <1>5, <1>6, <1>7
<1>9. QED BY <1>2, <1>3, <1>8

-----------------------------------------------------------------------------
(* A transfer's coins.                                                     *)

IsCoins(coins) ==
  /\ coins \in Seq([denom : Denom, amount : Nat])
  /\ \A i, j \in DOMAIN coins : coins[i].denom = coins[j].denom => i = j

LEMMA CoinsByIndex ==
  ASSUME NEW coins, IsCoins(coins)
  PROVE  /\ Len(coins) \in Nat /\ DOMAIN coins = 1..Len(coins)
         /\ \A n \in DOMAIN coins : coins[n] \in [denom : Denom, amount : Nat]
<1> DEFINE C == [denom : Denom, amount : Nat]
<1>1. coins \in Seq(C)
  BY DEF IsCoins
<1> HIDE DEF C
<1>2. /\ Len(coins) \in Nat /\ DOMAIN coins = 1..Len(coins)
      /\ \A n \in DOMAIN coins : coins[n] \in C
  BY <1>1
<1>3. QED BY <1>2 DEF C

Number(v) == IF v = None THEN 0 ELSE v

LEMMA AmountsRead ==
  ASSUME NEW kv \in KV, NEW k \in Key
  PROVE  /\ Amount(kv, k) = Number(Get(kv)[k])
         /\ Amount(kv, k) \in Nat
BY Reads DEF Amount, Number, Cached

\* What is read after one coin is moved.
LEMMA MovedReads ==
  ASSUME NEW kv \in KV, NEW from \in Holder, NEW to \in Holder,
         NEW coin \in [denom : Denom, amount : Nat],
         coin.amount <= Amount(kv, Balance(from, coin.denom))
  PROVE  /\ Moved(kv, from, to, coin) \in KV
         /\ SameStore(Moved(kv, from, to, coin), kv)
         /\ \A k \in Key :
              k \notin {Balance(from, coin.denom), Balance(to, coin.denom)} =>
                Get(Moved(kv, from, to, coin))[k] = Get(kv)[k]
         /\ \A a \in {from, to} :
              Amount(Moved(kv, from, to, coin), Balance(a, coin.denom))
                = Amount(kv, Balance(a, coin.denom))
                    - (IF a = from THEN coin.amount ELSE 0)
                    + (IF a = to THEN coin.amount ELSE 0)
<1> DEFINE f == Balance(from, coin.denom)
           t == Balance(to, coin.denom)
           less == Amount(kv, f) - coin.amount
           taken == Set(kv, f, less)
           more == Amount(taken, t) + coin.amount
           moved == Set(taken, t, more)
<1>1. f \in Key /\ t \in Key /\ (f = t <=> from = to) /\ coin.amount \in Nat
  BY Keys, KeysDiffer
<1>2. Moved(kv, from, to, coin) = moved
  BY DEF Moved
<1> HIDE DEF f, t
<1>3. less \in Nat
  BY <1>1, AmountsRead DEF f
<1> HIDE DEF less
<1>4. /\ taken \in KV /\ SameStore(taken, kv)
      /\ \A k \in Key : Get(taken)[k] = IF k = f THEN less ELSE Get(kv)[k]
  BY <1>1, <1>3, SetReads
<1> HIDE DEF taken
<1>5. more \in Nat
  BY <1>1, <1>4, AmountsRead
<1> HIDE DEF more
<1>6. /\ moved \in KV /\ SameStore(moved, taken)
      /\ \A k \in Key : Get(moved)[k] = IF k = t THEN more ELSE Get(taken)[k]
  BY <1>1, <1>4, <1>5, SetReads
<1> HIDE DEF moved
<1>7. SameStore(moved, kv)
  BY <1>4, <1>6 DEF SameStore
<1>8. \A k \in Key : k \notin {f, t} => Get(moved)[k] = Get(kv)[k]
  BY <1>4, <1>6
<1>9. /\ Amount(kv, f) \in Nat /\ Amount(kv, t) \in Nat
      /\ Amount(taken, t) = IF from = to THEN less ELSE Amount(kv, t)
      /\ Amount(moved, t) = more
      /\ Amount(moved, f) = IF from = to THEN more ELSE less
  <2>1. \A s \in KV : /\ Amount(s, f) = Number(Get(s)[f]) /\ Amount(s, f) \in Nat
                      /\ Amount(s, t) = Number(Get(s)[t]) /\ Amount(s, t) \in Nat
    BY <1>1, AmountsRead
  <2>2. less # None /\ more # None
    BY <1>3, <1>5, Types
  <2>3. QED BY <1>1, <1>3, <1>4, <1>5, <1>6, <2>1, <2>2 DEF Number
<1>10. /\ Amount(moved, f) = Amount(kv, f) - coin.amount
                               + (IF from = to THEN coin.amount ELSE 0)
       /\ Amount(moved, t) = Amount(kv, t) - (IF from = to THEN coin.amount ELSE 0)
                               + coin.amount
  <2>1. CASE from = to
    BY <1>1, <1>9, <2>1 DEF less, more
  <2>2. CASE from # to
    BY <1>1, <1>9, <2>2 DEF less, more
  <2>3. QED BY <2>1, <2>2
<1>11. QED
  BY <1>1, <1>2, <1>6, <1>7, <1>8, <1>10 DEF f, t

\* The equation SendCoins chooses a solution of.
SendsEquation(kv, from, to, coins, g) ==
  g = [T \in SUBSET DOMAIN coins |->
         IF T = {} THEN Done(kv)
         ELSE SendCoin(from, to, g[T \ {Max(T)}], coins[Max(T)])]

LEMMA SendsAreChosen ==
  ASSUME NEW kv, NEW from, NEW to, NEW coins
  PROVE  SendCoins(kv, from, to, coins)
           = (CHOOSE g : SendsEquation(kv, from, to, coins, g))[DOMAIN coins]
BY Zenon DEF SendCoins, FoldLeft, MapThenFoldSet, SendsEquation

\* What sending coins one after the other can reach.
States(kv) == [kv : {s \in KV : SameStore(s, kv)}, ok : BOOLEAN]

LEMMA SendCoinType ==
  ASSUME NEW kv \in KV, NEW from \in Holder, NEW to \in Holder,
         NEW state \in States(kv), NEW coin \in [denom : Denom, amount : Nat]
  PROVE  SendCoin(from, to, state, coin) \in States(kv)
<1>1. state.kv \in KV /\ SameStore(state.kv, kv) /\ state.ok \in BOOLEAN
  BY DEF States
<1>2. Refused(state.kv) \in States(kv)
  BY <1>1 DEF Refused, States
<1>3. ASSUME coin.amount <= Amount(state.kv, Balance(from, coin.denom))
      PROVE  Done(Moved(state.kv, from, to, coin)) \in States(kv)
  <2>1. /\ Moved(state.kv, from, to, coin) \in KV
        /\ SameStore(Moved(state.kv, from, to, coin), state.kv)
    BY <1>1, <1>3, MovedReads
  <2>2. SameStore(Moved(state.kv, from, to, coin), kv)
    BY <1>1, <2>1 DEF SameStore
  <2>3. QED BY <2>1, <2>2 DEF Done, States
<1>4. Amount(state.kv, Balance(from, coin.denom)) \in Nat /\ coin.amount \in Nat
  BY <1>1, Keys, AmountsRead
<1>5. QED BY <1>2, <1>3, <1>4 DEF SendCoin

LEMMA NumbersBelow ==
  ASSUME NEW m \in Nat, NEW T, T \subseteq 1..m, T # {}
  PROVE  Max(T) \in T /\ \A n \in T : n <= Max(T)
<1>1. T \subseteq 0..m
  OBVIOUS
<1>2. PICK n \in T : \A k \in T : k <= n
  BY <1>1, GreatestExists
<1>3. \A k \in T : n >= k
  BY <1>2
<1>4. QED BY <1>1, <1>3 DEF Max

\* g has the states coin by coin.
CoinByCoin(g, kv, from, to, coins) ==
  /\ SendCoins(kv, from, to, coins) = g[1..Len(coins)]
  /\ g[{}] = Done(kv)
  /\ \A n \in 1..Len(coins) :
       g[1..n] = SendCoin(from, to, g[1..(n - 1)], coins[n])

LEMMA SendsExist ==
  ASSUME NEW kv \in KV, NEW from \in Holder, NEW to \in Holder,
         NEW coins, IsCoins(coins)
  PROVE  \E g \in [SUBSET DOMAIN coins -> States(kv)] : CoinByCoin(g, kv, from, to, coins)
<1> DEFINE S == DOMAIN coins
           V == States(kv)
<1>1. /\ Len(coins) \in Nat /\ S = 1..Len(coins)
      /\ \A n \in S : coins[n] \in [denom : Denom, amount : Nat]
  BY CoinsByIndex
<1>2. IsFiniteSet(S)
  BY <1>1, FS_Interval, 1 \in Int
<1>3. \A T \in SUBSET S : T # {} => Max(T) \in T
  BY <1>1, NumbersBelow
<1>4. Done(kv) \in V
  BY DEF Done, States, SameStore
<1>5. PICK g \in [SUBSET S -> V] : \A T \in SUBSET S :
        g[T] = IF T = {} THEN Done(kv)
               ELSE SendCoin(from, to, g[T \ {Max(T)}], coins[Max(T)])
  <2> DEFINE pick == [T \in SUBSET S |-> Max(T)]
             step == [n \in S |-> [state \in V |-> SendCoin(from, to, state, coins[n])]]
  <2>1. \A T \in SUBSET S : pick[T] = Max(T)
    OBVIOUS
  <2>2. \A n \in S, state \in V :
          /\ step[n][state] = SendCoin(from, to, state, coins[n])
          /\ step[n][state] \in V
    BY <1>1, SendCoinType
  <2>3. \A T \in SUBSET S : T # {} => pick[T] \in T
    BY <1>3, <2>1
  <2> HIDE DEF pick, step, V
  <2>4. PICK g \in [SUBSET S -> V] : Recursion(g, S, Done(kv), pick, step)
    <3> HIDE DEF S
    <3>1. \A n \in S, state \in V : step[n][state] \in V
      BY <2>2
    <3>2. QED BY <1>2, <1>4, <2>3, <3>1, RecursionExists
  <2>5. ASSUME NEW T \in SUBSET S
        PROVE  g[T] = IF T = {} THEN Done(kv)
                      ELSE SendCoin(from, to, g[T \ {Max(T)}], coins[Max(T)])
    <3> HIDE DEF S
    <3>1. g[T] = IF T = {} THEN Done(kv) ELSE step[pick[T]][g[T \ {pick[T]}]]
      BY <2>4 DEF Recursion
    <3>2. T # {} => Max(T) \in S /\ g[T \ {Max(T)}] \in V
      BY <1>3, <2>4
    <3>3. QED BY <2>1, <2>2, <3>1, <3>2
  <2>6. QED BY <2>4, <2>5
<1>6. \E h : SendsEquation(kv, from, to, coins, h)
  <2>1. g = [T \in SUBSET S |-> g[T]]
    BY <1>5
  <2>2. [T \in SUBSET S |-> g[T]]
          = [T \in SUBSET S |-> IF T = {} THEN Done(kv)
               ELSE SendCoin(from, to, g[T \ {Max(T)}], coins[Max(T)])]
    BY <1>5
  <2>3. SendsEquation(kv, from, to, coins, g)
    BY <2>1, <2>2 DEF SendsEquation
  <2>4. QED BY <2>3
<1> DEFINE h == CHOOSE h : SendsEquation(kv, from, to, coins, h)
<1>7. SendsEquation(kv, from, to, coins, h)
  BY <1>6
<1>8. SendCoins(kv, from, to, coins) = h[S]
  BY SendsAreChosen
<1> HIDE DEF h
<1>9. \A T \in SUBSET S :
        h[T] = IF T = {} THEN Done(kv)
               ELSE SendCoin(from, to, h[T \ {Max(T)}], coins[Max(T)])
  BY <1>7 DEF SendsEquation
<1>10. h \in [SUBSET S -> V]
  <2> DEFINE Q == {T \in SUBSET S : h[T] \in V}
  <2>1. \A T \in SUBSET S : (\A x \in T : T \ {x} \in Q) => T \in Q
    <3> SUFFICES ASSUME NEW T \in SUBSET S, \A x \in T : T \ {x} \in Q PROVE T \in Q
      OBVIOUS
    <3>1. CASE T = {}
      BY <1>4, <1>9, <3>1
    <3>2. CASE T # {}
      <4>1. Max(T) \in T /\ coins[Max(T)] \in [denom : Denom, amount : Nat]
        BY <1>1, <1>3, <3>2
      <4>2. h[T \ {Max(T)}] \in V
        BY <4>1
      <4>3. h[T] = SendCoin(from, to, h[T \ {Max(T)}], coins[Max(T)])
        BY <1>9, <3>2
      <4>4. QED BY <4>1, <4>2, <4>3, SendCoinType
    <3>3. QED BY <3>1, <3>2
  <2> DEFINE Inductive(R) == \A T \in SUBSET S : (\A x \in T : T \ {x} \in R) => T \in R
  <2>2. SUBSET S \subseteq Q
    <3>1. Inductive(Q)
      BY <2>1
    <3> HIDE DEF Q, S, V
    <3>2. \A R : Inductive(R) => SUBSET S \subseteq R
      BY <1>2, SubsetsInduction
    <3> HIDE DEF Inductive
    <3>3. QED BY <3>1, <3>2
  <2>3. h = [T \in SUBSET S |-> h[T]]
    BY <1>7 DEF SendsEquation
  <2>4. QED BY <2>2, <2>3
<1>11. ASSUME NEW n \in 1..Len(coins)
       PROVE  h[1..n] = SendCoin(from, to, h[1..(n - 1)], coins[n])
  <2>1. 1..n \in SUBSET S /\ 1..n # {} /\ n \in 1..n
    BY <1>1
  <2>2. Max(1..n) = n
    <3>1. Max(1..n) \in 1..n /\ \A m \in 1..n : m <= Max(1..n)
      BY <1>1, <2>1, NumbersBelow
    <3>2. QED BY <2>1, <3>1
  <2>3. (1..n) \ {n} = 1..(n - 1)
    BY <1>1
  <2>4. QED BY <1>9, <2>1, <2>2, <2>3
<1>12. h[{}] = Done(kv) /\ S = 1..Len(coins)
  <2>1. {} \in SUBSET S
    OBVIOUS
  <2>2. QED BY <1>1, <1>9, <2>1
<1>13. QED
  <2>1. h \in [SUBSET DOMAIN coins -> States(kv)]
    BY <1>10
  <2>2. SendCoins(kv, from, to, coins) = h[1..Len(coins)] /\ h[{}] = Done(kv)
    BY <1>8, <1>12
  <2>3. CoinByCoin(h, kv, from, to, coins)
    BY <1>11, <2>2 DEF CoinByCoin
  <2> HIDE DEF S, V
  <2>4. QED BY <2>1, <2>3

\* The balances of new are those of old after the first n coins.
CoinsMoved(new, old, from, to, coins, n) ==
  \A a \in Holder, d \in Denom :
    /\ (\A i \in 1..n : coins[i].denom # d) =>
         Amount(new, Balance(a, d)) = Amount(old, Balance(a, d))
    /\ \A i \in 1..n : coins[i].denom = d =>
         Amount(new, Balance(a, d))
           = Amount(old, Balance(a, d))
               - (IF a = from THEN coins[i].amount ELSE 0)
               + (IF a = to THEN coins[i].amount ELSE 0)

\* What has no balance.
SameRest(new, old) ==
  /\ \A a \in Holder : Get(new)[Account(a)] = Get(old)[Account(a)]
  /\ \A d \in Denom : Get(new)[Supply(d)] = Get(old)[Supply(d)]

Covers(kv, from, coin) == coin.amount <= Amount(kv, Balance(from, coin.denom))

LEMMA OneMoreCoin ==
  ASSUME NEW kv \in KV, NEW from \in Holder, NEW to \in Holder,
         NEW coins, IsCoins(coins), NEW n \in Nat, NEW m \in DOMAIN coins, m = n + 1,
         NEW state \in States(kv), state.ok,
         CoinsMoved(state.kv, kv, from, to, coins, n), SameRest(state.kv, kv)
  PROVE  LET next == SendCoin(from, to, state, coins[m])
         IN  /\ next.ok <=> Covers(kv, from, coins[m])
             /\ next.ok => /\ CoinsMoved(next.kv, kv, from, to, coins, m)
                           /\ SameRest(next.kv, kv)
<1> DEFINE coin == coins[m]
           next == SendCoin(from, to, state, coin)
           moved == Moved(state.kv, from, to, coin)
<1>1. /\ coin \in [denom : Denom, amount : Nat]
      /\ \A i \in 1..n : coins[i].denom # coin.denom
  <2>1. Len(coins) \in Nat /\ DOMAIN coins = 1..Len(coins)
    BY CoinsByIndex
  <2>2. \A i \in 1..n : i \in DOMAIN coins /\ i # m
    BY <2>1
  <2>3. QED BY <2>2, CoinsByIndex DEF IsCoins
<1>2. state.kv \in KV
  BY DEF States
<1>3. \A a \in Holder : Amount(state.kv, Balance(a, coin.denom))
                          = Amount(kv, Balance(a, coin.denom))
  BY <1>1 DEF CoinsMoved
<1>4. Covers(state.kv, from, coin) <=> Covers(kv, from, coin)
  BY <1>3 DEF Covers
<1>5. CASE ~ Covers(kv, from, coin)
  <2>1. Amount(state.kv, Balance(from, coin.denom)) \in Nat /\ coin.amount \in Nat
    BY <1>1, <1>2, Keys, AmountsRead
  <2>2. Amount(state.kv, Balance(from, coin.denom)) < coin.amount
    BY <1>4, <1>5, <2>1 DEF Covers
  <2>3. next = Refused(state.kv)
    BY <2>2 DEF SendCoin
  <2>4. QED BY <1>5, <2>3 DEF Refused
<1>6. CASE Covers(kv, from, coin)
  <2>1. Amount(state.kv, Balance(from, coin.denom)) \in Nat /\ coin.amount \in Nat
    BY <1>1, <1>2, Keys, AmountsRead
  <2>2. next = Done(moved) /\ coin.amount <= Amount(state.kv, Balance(from, coin.denom))
    BY <1>4, <1>6, <2>1 DEF Covers, SendCoin
  <2>3. /\ moved \in KV
        /\ \A k \in Key :
             k \notin {Balance(from, coin.denom), Balance(to, coin.denom)} =>
               Get(moved)[k] = Get(state.kv)[k]
        /\ \A a \in {from, to} :
             Amount(moved, Balance(a, coin.denom))
               = Amount(state.kv, Balance(a, coin.denom))
                   - (IF a = from THEN coin.amount ELSE 0)
                   + (IF a = to THEN coin.amount ELSE 0)
    BY <1>1, <1>2, <2>2, MovedReads
  <2> HIDE DEF moved, next, coin
  <2>4. ASSUME NEW a \in Holder, NEW d \in Denom, d # coin.denom \/ a \notin {from, to}
        PROVE  Amount(moved, Balance(a, d)) = Amount(state.kv, Balance(a, d))
    <3>1. Balance(a, d) \notin {Balance(from, coin.denom), Balance(to, coin.denom)}
      BY <2>4, KeysDiffer
    <3>2. Get(moved)[Balance(a, d)] = Get(state.kv)[Balance(a, d)]
      BY <2>3, <3>1, Keys
    <3>3. QED BY <3>2 DEF Amount
  <2>5. \A a \in Holder :
          Amount(moved, Balance(a, coin.denom))
            = Amount(kv, Balance(a, coin.denom))
                - (IF a = from THEN coin.amount ELSE 0)
                + (IF a = to THEN coin.amount ELSE 0)
    <3>1. \A a \in Holder : Amount(kv, Balance(a, coin.denom)) \in Nat
      BY <1>1, Keys, AmountsRead
    <3>2. coin.denom \in Denom
      BY <1>1
    <3>3. QED BY <1>3, <2>1, <2>3, <2>4, <3>1, <3>2
  <2>6. SameRest(moved, kv)
    <3>1. SameRest(moved, state.kv)
      BY <2>3, Keys, KeysDiffer DEF SameRest
    <3>2. QED BY <3>1 DEF SameRest
  <2>7. CoinsMoved(moved, kv, from, to, coins, m)
    <3> SUFFICES ASSUME NEW a \in Holder, NEW d \in Denom
                 PROVE  /\ (\A i \in 1..m : coins[i].denom # d) =>
                             Amount(moved, Balance(a, d)) = Amount(kv, Balance(a, d))
                        /\ \A i \in 1..m : coins[i].denom = d =>
                             Amount(moved, Balance(a, d))
                               = Amount(kv, Balance(a, d))
                                   - (IF a = from THEN coins[i].amount ELSE 0)
                                   + (IF a = to THEN coins[i].amount ELSE 0)
      BY DEF CoinsMoved
    <3>1. \A i \in 1..m : i \in 1..n \/ i = m
      OBVIOUS
    <3>2. \A i \in 1..n : i \in 1..m
      OBVIOUS
    <3>3. m \in 1..m
      OBVIOUS
    <3>4. CASE d = coin.denom
      BY <1>1, <2>5, <3>1, <3>3, <3>4 DEF coin
    <3>5. CASE d # coin.denom
      <4>1. Amount(moved, Balance(a, d)) = Amount(state.kv, Balance(a, d))
        BY <2>4, <3>5
      <4>2. QED BY <3>1, <3>2, <3>5, <4>1 DEF CoinsMoved, coin
    <3>6. QED BY <3>4, <3>5
  <2>8. QED BY <1>6, <2>2, <2>6, <2>7 DEF Done, next, coin
<1>7. QED BY <1>5, <1>6

\* Coins are sent if there is enough of each.
LEMMA SendCoinsReads ==
  ASSUME NEW kv \in KV, NEW from \in Holder, NEW to \in Holder,
         NEW coins, IsCoins(coins)
  PROVE  LET sent == SendCoins(kv, from, to, coins)
         IN  /\ sent \in States(kv)
             /\ sent.ok <=> \A i \in DOMAIN coins : Covers(kv, from, coins[i])
             /\ sent.ok => /\ CoinsMoved(sent.kv, kv, from, to, coins, Len(coins))
                           /\ SameRest(sent.kv, kv)
<1>1. Len(coins) \in Nat /\ DOMAIN coins = 1..Len(coins)
  BY CoinsByIndex
<1>2. PICK g \in [SUBSET DOMAIN coins -> States(kv)] :
        CoinByCoin(g, kv, from, to, coins)
  BY SendsExist
<1> DEFINE Right(n) ==
      /\ g[1..n].ok <=> \A i \in 1..n : Covers(kv, from, coins[i])
      /\ g[1..n].ok => /\ CoinsMoved(g[1..n].kv, kv, from, to, coins, n)
                       /\ SameRest(g[1..n].kv, kv)
           Q == {n \in Nat : n <= Len(coins) => Right(n)}
<1>3. ASSUME NEW n \in Nat, n = 0 PROVE Right(n)
  <2>1. 1..n = {}
    BY <1>3
  <2>2. g[1..n].kv = kv /\ g[1..n].ok
    BY <1>2, <2>1 DEF Done, CoinByCoin
  <2>3. CoinsMoved(kv, kv, from, to, coins, n) /\ SameRest(kv, kv)
    BY <2>1 DEF CoinsMoved, SameRest
  <2>4. QED BY <2>1, <2>2, <2>3
<1>4. ASSUME NEW n \in Nat, NEW m \in 1..Len(coins), m = n + 1, Right(n)
      PROVE  Right(m)
  <2>1. m - 1 = n /\ 1..n \in SUBSET DOMAIN coins /\ m \in DOMAIN coins
    BY <1>1, <1>4
  <2>2. g[1..m] = SendCoin(from, to, g[1..n], coins[m]) /\ g[1..n] \in States(kv)
    BY <1>2, <2>1 DEF CoinByCoin
  <2>3. \A i : i \in 1..m <=> i \in 1..n \/ i = m
    BY <1>4
  <2>4. CASE g[1..n].ok
    <3>1. /\ g[1..m].ok <=> Covers(kv, from, coins[m])
          /\ g[1..m].ok => /\ CoinsMoved(g[1..m].kv, kv, from, to, coins, m)
                           /\ SameRest(g[1..m].kv, kv)
      BY <1>4, <2>1, <2>2, <2>4, OneMoreCoin
    <3>2. QED BY <1>4, <2>3, <2>4, <3>1
  <2>5. CASE ~ g[1..n].ok
    <3>1. g[1..m] = Refused(g[1..n].kv)
      BY <2>2, <2>5 DEF SendCoin
    <3>2. ~ g[1..m].ok
      BY <3>1 DEF Refused
    <3>3. QED BY <1>4, <2>3, <2>5, <3>2
  <2>6. QED BY <2>4, <2>5
<1>5. Nat \subseteq Q
  <2>1. \A n \in Nat : (\A m \in Nat : m < n => m \in Q) => n \in Q
    <3> SUFFICES ASSUME NEW n \in Nat, \A m \in Nat : m < n => m \in Q, n <= Len(coins)
                 PROVE  Right(n)
      OBVIOUS
    <3>1. CASE n = 0
      BY <1>3, <3>1
    <3>2. CASE n # 0
      <4>1. n - 1 \in Nat /\ n - 1 < n /\ n = (n - 1) + 1 /\ n \in 1..Len(coins)
            /\ n - 1 <= Len(coins)
        BY <1>1, <3>2
      <4>2. Right(n - 1)
        BY <4>1
      <4> HIDE DEF Right
      <4>3. QED BY <1>4, <4>1, <4>2
    <3>3. QED BY <3>1, <3>2
  <2> HIDE DEF Q
  <2>2. QED BY <2>1, NumbersInduction
<1>6. Right(Len(coins))
  BY <1>1, <1>5
<1>7. g[1..Len(coins)] \in States(kv)
  BY <1>1, <1>2
<1>8. QED BY <1>1, <1>2, <1>6, <1>7 DEF CoinByCoin

-----------------------------------------------------------------------------
(* The books: what a view of the store amounts to on paper.                *)

Ledger == [sequence : [Holder -> Nat \cup {None}],
           balance : [Holder -> [Denom -> Nat]]]

Supplied(view, d) == view[Supply(d)] # None

Books(view, paper) ==
  /\ paper \in Ledger
  /\ \A a \in Holder : view[Account(a)] = paper.sequence[a]
  /\ \A a \in Holder, d \in Denom : Number(view[Balance(a, d)]) = paper.balance[a][d]
  /\ \A d \in Denom : Supplied(view, d) =>
       view[Supply(d)] = SumFunction([a \in Holder |-> paper.balance[a][d]])

LEMMA SumOfHolders ==
  ASSUME NEW f \in [Holder -> Nat]
  PROVE  /\ SumFunction(f) = SumFunctionOnSet(f, Holder)
         /\ IsFiniteSet(Holder)
         /\ \A a \in Holder : f[a] \in Int
<1>1. SumFunction(f) = SumFunctionOnSet(f, DOMAIN f)
  BY Zenon DEF SumFunction, SumFunctionOnSet
<1>2. IsFiniteSet(Holder)
  BY AddressAssumption, FS_AddElement DEF Holder
<1>3. QED BY <1>1, <1>2

LEMMA AmountOfCoins ==
  ASSUME NEW coins, IsCoins(coins), NEW d \in Denom
  PROVE  /\ AmountOf(coins, d) \in Nat
         /\ \A i \in DOMAIN coins : coins[i].denom = d => AmountOf(coins, d) = coins[i].amount
         /\ (\A i \in DOMAIN coins : coins[i].denom # d) => AmountOf(coins, d) = 0
<1>1. \A i \in DOMAIN coins : coins[i].amount \in Nat
  BY CoinsByIndex
<1>2. QED BY <1>1 DEF IsCoins, AmountOf

SameSums(new, old) ==
  \A d \in Denom : SumFunction([a \in Holder |-> new[a][d]])
                     = SumFunction([a \in Holder |-> old[a][d]])

\* A payment on paper leaves every sum as it was.
LEMMA SettledAddsUp ==
  ASSUME NEW balance \in [Holder -> [Denom -> Nat]], NEW from \in Holder, NEW to \in Holder,
         NEW coins, IsCoins(coins), Affordable(balance, from, coins)
  PROVE  /\ Settled(balance, from, to, coins) \in [Holder -> [Denom -> Nat]]
         /\ SameSums(Settled(balance, from, to, coins), balance)
<1> DEFINE s == Settled(balance, from, to, coins)
<1>1. \A a \in Holder, d \in Denom :
        /\ s[a][d] = balance[a][d] - (IF a = from THEN AmountOf(coins, d) ELSE 0)
                                   + (IF a = to THEN AmountOf(coins, d) ELSE 0)
        /\ s[a][d] \in Nat
  <2> SUFFICES ASSUME NEW a \in Holder, NEW d \in Denom
               PROVE  /\ s[a][d] = balance[a][d]
                                     - (IF a = from THEN AmountOf(coins, d) ELSE 0)
                                     + (IF a = to THEN AmountOf(coins, d) ELSE 0)
                      /\ s[a][d] \in Nat
    OBVIOUS
  <2>1. AmountOf(coins, d) \in Nat /\ balance[a][d] \in Nat
    BY AmountOfCoins
  <2>2. a = from => AmountOf(coins, d) <= balance[a][d]
    BY DEF Affordable
  <2>3. s[a][d] = balance[a][d] - (IF a = from THEN AmountOf(coins, d) ELSE 0)
                                + (IF a = to THEN AmountOf(coins, d) ELSE 0)
    BY DEF Settled
  <2>4. QED BY <2>1, <2>2, <2>3
<1>2. s \in [Holder -> [Denom -> Nat]]
  BY <1>1 DEF Settled
<1> HIDE DEF s
<1>3. ASSUME NEW d \in Denom
      PROVE  SumFunction([a \in Holder |-> s[a][d]])
               = SumFunction([a \in Holder |-> balance[a][d]])
  <2> DEFINE c == AmountOf(coins, d)
             f == [a \in Holder |-> balance[a][d]]
             minus == - c
             g == [a \in Holder |-> IF a = from THEN f[a] + minus ELSE f[a]]
             h == [a \in Holder |-> s[a][d]]
  <2>1. c \in Nat /\ c <= balance[from][d]
    BY AmountOfCoins DEF Affordable
  <2>2. f \in [Holder -> Nat] /\ g \in [Holder -> Nat] /\ h \in [Holder -> Nat]
    BY <1>2, <2>1
  <2>3. \A a \in Holder : h[a] = IF a = to THEN g[a] + c ELSE g[a]
    BY <1>1, <1>2, <2>1
  <2>4. \A a \in Holder : g[a] = IF a = from THEN f[a] + minus ELSE f[a]
    OBVIOUS
  <2>5. IsFiniteSet(Holder) /\ SumFunction(f) = SumFunctionOnSet(f, Holder)
        /\ SumFunction(h) = SumFunctionOnSet(h, Holder)
    BY <2>2, SumOfHolders
  <2>6. (\A a \in Holder : f[a] \in Int /\ g[a] \in Int)/\ minus \in Int /\ c \in Int
        /\ minus + c = 0
    BY <2>1, <2>2
  <2> HIDE DEF c, f, g, h, minus
  <2>7. SumFunctionOnSet(g, Holder) = SumFunctionOnSet(f, Holder) + minus
    BY <2>4, <2>5, <2>6, SumChanged
  <2>8. SumFunctionOnSet(h, Holder) = SumFunctionOnSet(g, Holder) + c
    BY <2>3, <2>5, <2>6, SumChanged
  <2>9. SumFunctionOnSet(f, Holder) \in Int
    BY <2>5, <2>6, SumWithout
  <2>10. SumFunction(h) = SumFunction(f)
    BY <2>5, <2>6, <2>7, <2>8, <2>9
  <2>11. QED BY <2>10 DEF f, h
<1>4. SameSums(s, balance)
  BY <1>3 DEF SameSums
<1>5. QED BY <1>2, <1>4 DEF s

\* Coins sent are coins settled on paper.
LEMMA SendCoinsBooks ==
  ASSUME NEW kv \in KV, NEW from \in Holder, NEW to \in Holder,
         NEW coins, IsCoins(coins), NEW paper, Books(Get(kv), paper)
  PROVE  LET sent == SendCoins(kv, from, to, coins)
         IN  /\ sent \in States(kv)
             /\ sent.ok <=> Affordable(paper.balance, from, coins)
             /\ sent.ok =>
                  Books(Get(sent.kv),
                        [sequence |-> paper.sequence,
                         balance |-> Settled(paper.balance, from, to, coins)])
<1> DEFINE sent == SendCoins(kv, from, to, coins)
           settled == Settled(paper.balance, from, to, coins)
<1>1. /\ sent \in States(kv)
      /\ sent.ok <=> \A i \in DOMAIN coins : Covers(kv, from, coins[i])
      /\ sent.ok => /\ CoinsMoved(sent.kv, kv, from, to, coins, Len(coins))
                    /\ SameRest(sent.kv, kv)
  BY SendCoinsReads
<1>2. /\ paper.balance \in [Holder -> [Denom -> Nat]]
      /\ \A a \in Holder, d \in Denom : Amount(kv, Balance(a, d)) = paper.balance[a][d]
  <2>1. \A a \in Holder, d \in Denom : Number(Get(kv)[Balance(a, d)]) = paper.balance[a][d]
    BY DEF Books
  <2>2. QED BY <2>1, Keys, AmountsRead DEF Books, Ledger
<1>3. DOMAIN coins = 1..Len(coins)
      /\ \A i \in DOMAIN coins : coins[i].denom \in Denom /\ coins[i].amount \in Nat
  BY CoinsByIndex
<1>4. \A d \in Denom :
        /\ AmountOf(coins, d) \in Nat
        /\ \A i \in DOMAIN coins : coins[i].denom = d => AmountOf(coins, d) = coins[i].amount
        /\ (\A i \in DOMAIN coins : coins[i].denom # d) => AmountOf(coins, d) = 0
  BY AmountOfCoins
<1> HIDE DEF sent
<1>5. sent.ok <=> Affordable(paper.balance, from, coins)
  <2>1. \A i \in DOMAIN coins :
          Covers(kv, from, coins[i])
            <=> AmountOf(coins, coins[i].denom) <= paper.balance[from][coins[i].denom]
    BY <1>2, <1>3, <1>4 DEF Covers
  <2>2. \A d \in Denom : (\A i \in DOMAIN coins : coins[i].denom # d) =>
          AmountOf(coins, d) <= paper.balance[from][d]
    BY <1>2, <1>4
  <2>3. QED BY <1>1, <1>3, <2>1, <2>2 DEF Affordable
<1>6. ASSUME sent.ok
      PROVE  Books(Get(sent.kv), [sequence |-> paper.sequence, balance |-> settled])
  <2>1. /\ settled \in [Holder -> [Denom -> Nat]]
        /\ SameSums(settled, paper.balance)
    <3> DEFINE balance == paper.balance
    <3>1. balance \in [Holder -> [Denom -> Nat]] /\ Affordable(balance, from, coins)
      BY <1>2, <1>5, <1>6
    <3> HIDE DEF balance
    <3>2. /\ Settled(balance, from, to, coins) \in [Holder -> [Denom -> Nat]]
          /\ SameSums(Settled(balance, from, to, coins), balance)
      BY <3>1, SettledAddsUp
    <3>3. QED BY <3>2 DEF balance
  <2>2. ASSUME NEW a \in Holder, NEW d \in Denom
        PROVE  Number(Get(sent.kv)[Balance(a, d)]) = settled[a][d]
    <3>1. settled[a][d] = paper.balance[a][d]
                            - (IF a = from THEN AmountOf(coins, d) ELSE 0)
                            + (IF a = to THEN AmountOf(coins, d) ELSE 0)
      BY DEF Settled
    <3>2. Amount(sent.kv, Balance(a, d)) = settled[a][d]
      <4> HIDE DEF settled
      <4>1. CASE \A i \in DOMAIN coins : coins[i].denom # d
        <5>1. AmountOf(coins, d) = 0 /\ paper.balance[a][d] \in Nat
          BY <1>2, <1>4, <4>1
        <5>2. Amount(sent.kv, Balance(a, d)) = paper.balance[a][d]
          BY <1>1, <1>2, <1>3, <1>6, <4>1 DEF CoinsMoved
        <5>3. QED BY <3>1, <5>1, <5>2
      <4>2. ASSUME NEW i \in DOMAIN coins, coins[i].denom = d
            PROVE  Amount(sent.kv, Balance(a, d)) = settled[a][d]
        <5>1. AmountOf(coins, d) = coins[i].amount
          BY <1>4, <4>2
        <5>2. Amount(sent.kv, Balance(a, d))
                = paper.balance[a][d]
                    - (IF a = from THEN coins[i].amount ELSE 0)
                    + (IF a = to THEN coins[i].amount ELSE 0)
          BY <1>1, <1>2, <1>3, <1>6, <4>2 DEF CoinsMoved
        <5>3. QED BY <3>1, <5>1, <5>2
      <4>3. QED BY <4>1, <4>2
    <3>3. sent.kv \in KV
      BY <1>1 DEF States
    <3>4. QED BY <3>2, <3>3, Keys, AmountsRead
  <2>3. SameRest(sent.kv, kv)
    BY <1>1, <1>6
  <2> HIDE DEF settled
  <2>4. [sequence |-> paper.sequence, balance |-> settled] \in Ledger
    BY <2>1 DEF Books, Ledger
  <2>5. \A a \in Holder : Get(sent.kv)[Account(a)] = paper.sequence[a]
    BY <2>3 DEF Books, SameRest
  <2>6. \A d \in Denom : Supplied(Get(sent.kv), d) =>
          Get(sent.kv)[Supply(d)] = SumFunction([a \in Holder |-> settled[a][d]])
    <3> SUFFICES ASSUME NEW d \in Denom, Supplied(Get(sent.kv), d)
                 PROVE  Get(sent.kv)[Supply(d)]
                          = SumFunction([a \in Holder |-> settled[a][d]])
      OBVIOUS
    <3>1. Get(sent.kv)[Supply(d)] = Get(kv)[Supply(d)] /\ Supplied(Get(kv), d)
      BY <2>3 DEF SameRest, Supplied
    <3>2. Get(kv)[Supply(d)] = SumFunction([a \in Holder |-> paper.balance[a][d]])
      BY <3>1 DEF Books
    <3>3. QED BY <2>1, <3>1, <3>2 DEF SameSums
  <2>7. QED BY <2>2, <2>4, <2>5, <2>6 DEF Books
<1>7. QED BY <1>1, <1>5, <1>6 DEF sent

-----------------------------------------------------------------------------
(* run_tx.                                                                 *)

IsTx(tx) ==
  /\ tx.from \in Address /\ tx.to \in Address
  /\ IsCoins(tx.coins) /\ tx.fee \in Nat /\ tx.sequence \in Nat

PaperFee(tx) == <<[denom |-> FeeDenom, amount |-> tx.fee]>>

Charged(paper, tx) ==
  [sequence |-> [paper.sequence EXCEPT ![tx.from] = tx.sequence + 1],
   balance |-> Settled(paper.balance, tx.from, FeeCollector, PaperFee(tx))]

Valid(paper, tx) ==
  /\ paper.sequence[tx.from] = tx.sequence
  /\ Affordable(paper.balance, tx.from, PaperFee(tx))

\* No fee is a fee of nothing.
LEMMA FeesAgree ==
  ASSUME NEW tx, IsTx(tx), NEW fee,
         fee = IF tx.fee = 0 THEN <<>>
               ELSE <<[denom |-> FeeDenom, amount |-> tx.fee]>>
  PROVE  /\ IsCoins(fee)
         /\ \A d \in Denom : AmountOf(fee, d) = AmountOf(PaperFee(tx), d)
<1> DEFINE C == [denom : Denom, amount : Nat]
           coin == [denom |-> FeeDenom, amount |-> tx.fee]
<1>1. coin \in C /\ coin.denom = FeeDenom /\ coin.amount = tx.fee
  BY AddressAssumption DEF IsTx
<1> HIDE DEF C, coin
<1>2. <<coin>> \in Seq(C) /\ <<>> \in Seq(C)
      /\ DOMAIN <<coin>> = {1} /\ <<coin>>[1] = coin /\ DOMAIN << >> = {}
  BY <1>1
<1>3. fee = IF tx.fee = 0 THEN <<>> ELSE <<coin>>
  BY DEF coin
<1>4. IsCoins(fee)
  <2>1. fee \in Seq(C)
    BY <1>2, <1>3
  <2>2. \A i, j \in DOMAIN fee : i = j
    <3>1. DOMAIN fee = {} \/ DOMAIN fee = {1}
      BY <1>2, <1>3
    <3>2. QED BY <3>1
  <2>3. QED BY <2>1, <2>2 DEF IsCoins, C
<1>5. PaperFee(tx) = <<coin>>
  BY DEF PaperFee, coin
<1>6. ASSUME NEW d \in Denom PROVE AmountOf(fee, d) = AmountOf(<<coin>>, d)
  <2>1. CASE tx.fee = 0
    <3>1. AmountOf(<<>>, d) = 0
      BY <1>2 DEF AmountOf
    <3>2. AmountOf(<<coin>>, d) = 0
      <4>1. \A i \in DOMAIN <<coin>> : <<coin>>[i].amount = 0
        BY <1>1, <1>2, <2>1
      <4>2. QED BY <4>1 DEF AmountOf
    <3>3. QED BY <1>3, <2>1, <3>1, <3>2
  <2>2. CASE tx.fee # 0
    BY <1>3, <2>2
  <2>3. QED BY <2>1, <2>2
<1>7. QED BY <1>4, <1>5, <1>6

\* A sequence written is one on paper.
LEMMA SequenceBooks ==
  ASSUME NEW kv \in KV, NEW a \in Holder, NEW n \in Nat, NEW paper, Books(Get(kv), paper)
  PROVE  /\ Set(kv, Account(a), n) \in KV
         /\ SameStore(Set(kv, Account(a), n), kv)
         /\ Books(Get(Set(kv, Account(a), n)),
                  [sequence |-> [paper.sequence EXCEPT ![a] = n],
                   balance |-> paper.balance])
<1> DEFINE new == Get(Set(kv, Account(a), n))
           sequence == [paper.sequence EXCEPT ![a] = n]
<1>1. /\ Set(kv, Account(a), n) \in KV
      /\ SameStore(Set(kv, Account(a), n), kv)
      /\ \A l \in Key : new[l] = IF l = Account(a) THEN n ELSE Get(kv)[l]
  BY Keys, SetReads
<1> HIDE DEF new
<1>2. paper.sequence \in [Holder -> Nat \cup {None}]
      /\ paper.balance \in [Holder -> [Denom -> Nat]]
  BY DEF Books, Ledger
<1>3. \A b \in Holder : new[Account(b)] = sequence[b]
  <2>1. \A b \in Holder : Get(kv)[Account(b)] = paper.sequence[b]
    BY DEF Books
  <2>2. QED BY <1>1, <1>2, <2>1, Keys, KeysDiffer
<1>4. \A b \in Holder, d \in Denom : new[Balance(b, d)] = Get(kv)[Balance(b, d)]
  BY <1>1, Keys, KeysDiffer
<1>5. \A d \in Denom : new[Supply(d)] = Get(kv)[Supply(d)]
  BY <1>1, Keys, KeysDiffer
<1>6. sequence \in [Holder -> Nat \cup {None}]
  BY <1>2
<1> HIDE DEF sequence
<1>7. Books(new, [sequence |-> sequence, balance |-> paper.balance])
  <2>1. [sequence |-> sequence, balance |-> paper.balance] \in Ledger
    BY <1>2, <1>6 DEF Ledger
  <2>2. \A d \in Denom : Supplied(new, d) =>
          new[Supply(d)] = SumFunction([b \in Holder |-> paper.balance[b][d]])
    BY <1>5 DEF Books, Supplied
  <2>3. \A b \in Holder, d \in Denom : Number(new[Balance(b, d)]) = paper.balance[b][d]
    BY <1>4 DEF Books
  <2>4. QED BY <1>3, <2>1, <2>2, <2>3 DEF Books
<1>8. QED BY <1>1, <1>7 DEF new, sequence

LEMMA AnteBooks ==
  ASSUME NEW kv \in KV, NEW tx, IsTx(tx), NEW paper, Books(Get(kv), paper)
  PROVE  /\ Ante(kv, tx) \in States(kv)
         /\ Ante(kv, tx).ok <=> Valid(paper, tx)
         /\ Ante(kv, tx).ok => Books(Get(Ante(kv, tx).kv), Charged(paper, tx))
<1> DEFINE fee == IF tx.fee = 0 THEN <<>>
                  ELSE <<[denom |-> FeeDenom, amount |-> tx.fee]>>
           paid == SendCoins(kv, tx.from, FeeCollector, fee)
           known == ~ (Get(kv)[Account(tx.from)] = None
                         \/ Get(kv)[Account(tx.from)] # tx.sequence)
<1>1. tx.from \in Holder /\ FeeCollector \in Holder /\ tx.sequence \in Nat
      /\ tx.sequence + 1 \in Nat
  BY DEF IsTx, Holder
<1>2. known <=> paper.sequence[tx.from] = tx.sequence
  <2>1. Get(kv)[Account(tx.from)] = paper.sequence[tx.from]
    BY <1>1 DEF Books
  <2>2. QED BY <1>1, <2>1, Types
<1>3. IsCoins(fee) /\ \A d \in Denom : AmountOf(fee, d) = AmountOf(PaperFee(tx), d)
  BY FeesAgree
<1>4. Ante(kv, tx) = IF ~ known THEN Refused(kv)
                     ELSE IF paid.ok
                     THEN Done(Set(paid.kv, Account(tx.from), tx.sequence + 1))
                     ELSE paid
  BY DEF Ante
<1> HIDE DEF fee, known
<1>5. /\ Affordable(paper.balance, tx.from, fee)
           <=> Affordable(paper.balance, tx.from, PaperFee(tx))
      /\ Settled(paper.balance, tx.from, FeeCollector, fee)
           = Settled(paper.balance, tx.from, FeeCollector, PaperFee(tx))
  BY <1>3 DEF Affordable, Settled
<1> DEFINE settled == Settled(paper.balance, tx.from, FeeCollector, fee)
           half == [sequence |-> paper.sequence, balance |-> settled]
<1>6. /\ paid \in States(kv)
      /\ paid.ok <=> Affordable(paper.balance, tx.from, fee)
      /\ paid.ok => Books(Get(paid.kv), half)
  BY <1>1, <1>3, SendCoinsBooks
<1>7. /\ half.sequence = paper.sequence /\ half.balance = settled
      /\ Charged(paper, tx) = [sequence |-> [half.sequence EXCEPT ![tx.from] = tx.sequence + 1],
                               balance |-> half.balance]
  BY <1>5 DEF Charged
<1> HIDE DEF paid, settled, half
<1>8. CASE ~ known
  <2>1. Refused(kv) \in States(kv) /\ ~ Refused(kv).ok
    BY DEF Refused, States, SameStore
  <2>2. QED BY <1>2, <1>4, <1>8, <2>1 DEF Valid
<1>9. CASE known /\ ~ paid.ok
  BY <1>2, <1>4, <1>5, <1>6, <1>9 DEF Valid
<1>10. CASE known /\ paid.ok
  <2> DEFINE set == Set(paid.kv, Account(tx.from), tx.sequence + 1)
  <2>1. paid.kv \in KV /\ SameStore(paid.kv, kv)
    BY <1>6 DEF States
  <2>2. /\ set \in KV /\ SameStore(set, paid.kv)
        /\ Books(Get(set), Charged(paper, tx))
    BY <1>1, <1>6, <1>7, <1>10, <2>1, SequenceBooks
  <2> HIDE DEF set
  <2>3. SameStore(set, kv)
    BY <2>1, <2>2 DEF SameStore
  <2>4. Ante(kv, tx) = Done(set)
    BY <1>4, <1>10 DEF set
  <2>5. /\ Done(set) \in States(kv) /\ Done(set).ok /\ Done(set).kv = set
    BY <2>2, <2>3 DEF Done, States
  <2>6. Valid(paper, tx)
    BY <1>2, <1>5, <1>6, <1>10 DEF Valid
  <2>7. QED BY <2>2, <2>4, <2>5, <2>6
<1>11. QED BY <1>8, <1>9, <1>10

\* A message's transfer, and the account of a recipient who has none.
Delivered(paper, tx) ==
  [sequence |-> [paper.sequence EXCEPT ![tx.to] = IF @ = None THEN 0 ELSE @],
   balance |-> Settled(paper.balance, tx.from, tx.to, tx.coins)]

LEMMA RunMsgsBooks ==
  ASSUME NEW kv \in KV, NEW tx, IsTx(tx), NEW paper, Books(Get(kv), paper)
  PROVE  /\ RunMsgs(kv, tx) \in States(kv)
         /\ RunMsgs(kv, tx).ok <=> Affordable(paper.balance, tx.from, tx.coins)
         /\ RunMsgs(kv, tx).ok => Books(Get(RunMsgs(kv, tx).kv), Delivered(paper, tx))
<1> DEFINE sent == SendCoins(kv, tx.from, tx.to, tx.coins)
           settled == Settled(paper.balance, tx.from, tx.to, tx.coins)
           half == [sequence |-> paper.sequence, balance |-> settled]
           set == Set(sent.kv, Account(tx.to), 0)
<1>1. tx.from \in Holder /\ tx.to \in Holder /\ IsCoins(tx.coins)
  BY DEF IsTx, Holder
<1>2. /\ sent \in States(kv)
      /\ sent.ok <=> Affordable(paper.balance, tx.from, tx.coins)
      /\ sent.ok => Books(Get(sent.kv), half)
  BY <1>1, SendCoinsBooks
<1>3. sent.kv \in KV /\ SameStore(sent.kv, kv)
  BY <1>2 DEF States
<1>4. /\ half.sequence = paper.sequence /\ half.balance = settled
      /\ Delivered(paper, tx)
           = [sequence |-> [half.sequence EXCEPT ![tx.to] = IF @ = None THEN 0 ELSE @],
              balance |-> half.balance]
      /\ half.sequence = [a \in Holder |-> half.sequence[a]]
  BY DEF Delivered, Books, Ledger
<1>5. RunMsgs(kv, tx) = IF sent.ok /\ Get(sent.kv)[Account(tx.to)] = None
                        THEN Done(set) ELSE sent
  BY DEF RunMsgs
<1> HIDE DEF sent, settled, half
<1>6. CASE ~ sent.ok
  BY <1>2, <1>5, <1>6
<1>7. CASE sent.ok /\ Get(sent.kv)[Account(tx.to)] # None
  <2>1. half.sequence[tx.to] # None
    BY <1>1, <1>2, <1>7 DEF Books
  <2>2. [half.sequence EXCEPT ![tx.to] = IF @ = None THEN 0 ELSE @] = half.sequence
    BY <1>4, <2>1
  <2>3. half = [sequence |-> half.sequence, balance |-> half.balance]
    BY DEF half
  <2>4. Delivered(paper, tx) = half
    BY <1>4, <2>2, <2>3
  <2>5. QED BY <1>2, <1>5, <1>7, <2>4
<1>8. CASE sent.ok /\ Get(sent.kv)[Account(tx.to)] = None
  <2>1. half.sequence[tx.to] = None
    BY <1>1, <1>2, <1>8 DEF Books
  <2>2. [half.sequence EXCEPT ![tx.to] = IF @ = None THEN 0 ELSE @]
          = [half.sequence EXCEPT ![tx.to] = 0]
    BY <1>4, <2>1
  <2>3. Delivered(paper, tx) = [sequence |-> [half.sequence EXCEPT ![tx.to] = 0],
                                balance |-> half.balance]
    BY <1>4, <2>2
  <2>4. /\ set \in KV /\ SameStore(set, sent.kv)
        /\ Books(Get(set), Delivered(paper, tx))
    BY <1>1, <1>2, <1>3, <1>8, <2>3, 0 \in Nat, SequenceBooks
  <2> HIDE DEF set
  <2>5. SameStore(set, kv)
    BY <1>3, <2>4 DEF SameStore
  <2>6. /\ Done(set) \in States(kv) /\ Done(set).ok /\ Done(set).kv = set
    BY <2>4, <2>5 DEF Done, States
  <2>7. QED BY <1>2, <1>5, <1>8, <2>4, <2>6
<1>9. QED BY <1>6, <1>7, <1>8

\* What is not written is not read any more; what is written is.
LEMMA CachesRead ==
  ASSUME NEW kv \in KV
  PROVE  /\ WriteThenClearTxCache(kv) \in KV
         /\ Get(WriteThenClearTxCache(kv)) = Get(kv)
         /\ BlockView(WriteThenClearTxCache(kv)) = Get(kv)
         /\ WriteThenClearTxCache(kv).txCache = EmptyCache
         /\ ClearTxCache(kv) \in KV
         /\ Get(ClearTxCache(kv)) = BlockView(kv)
         /\ ClearTxCache(kv).txCache = EmptyCache
<1> DEFINE w == WriteThenClearTxCache(kv)
           c == ClearTxCache(kv)
<1>1. kv.txCache \in Cached /\ kv.blockCache \in Cached /\ EmptyCache \in Cached
  BY Types DEF KV, EmptyCache, Cached
<1>2. Overlay(kv.txCache, kv.blockCache) \in Cached
  BY <1>1 DEF Overlay, Cached
<1>3. /\ w \in KV /\ w.txCache = EmptyCache
      /\ w.blockCache = Overlay(kv.txCache, kv.blockCache) /\ w.tree = kv.tree
  BY <1>1, <1>2, Types DEF WriteThenClearTxCache, KV
<1>4. c \in KV /\ c.txCache = EmptyCache /\ BlockView(c) = BlockView(kv)
  BY <1>1, Types DEF ClearTxCache, KV, BlockView
<1> HIDE DEF w, c
<1>5. \A view \in Cached : Overlay(EmptyCache, view) = view
  BY DEF Overlay, EmptyCache, Cached
<1>6. TreeView(kv.tree) \in Cached /\ BlockView(kv) \in Cached
      /\ BlockView(w) \in Cached /\ BlockView(c) \in Cached
  BY <1>3, <1>4, Reads
<1>7. BlockView(w) = Get(kv)
  BY <1>1, <1>3, <1>6 DEF BlockView, Get, Overlay, Cached
<1>8. Get(w) = BlockView(w) /\ Get(c) = BlockView(c)
  BY <1>3, <1>4, <1>5, <1>6 DEF Get
<1>9. QED BY <1>3, <1>4, <1>7, <1>8 DEF w, c

\* A view of what the tree and the block cache hold.
LEMMA SameStoreReads ==
  ASSUME NEW new, NEW old, SameStore(new, old)
  PROVE  BlockView(new) = BlockView(old)
BY DEF SameStore, BlockView

SameTree(new, old) ==
  /\ new.tree = old.tree
  /\ new.loadedVersion = old.loadedVersion
  /\ new.versions = old.versions

\* run_tx does to the store what it does on paper: a transaction that is not
\* valid does nothing, one whose message fails pays its fee.
LEMMA RunTxBooks ==
  ASSUME NEW kv \in KV, kv.txCache = EmptyCache, NEW tx, IsTx(tx),
         NEW paper, Books(Get(kv), paper)
  PROVE  /\ RunTx(kv, tx) \in KV
         /\ SameTree(RunTx(kv, tx), kv)
         /\ RunTx(kv, tx).txCache = EmptyCache
         /\ Books(Get(RunTx(kv, tx)), PaperRunTx(paper, tx))
<1> DEFINE ante == Ante(kv, tx)
           kept == WriteThenClearTxCache(ante.kv)
           run == RunMsgs(kept, tx)
           charged == Charged(paper, tx)
<1>1. Get(kv) = BlockView(kv)
  <2>1. ClearTxCache(kv) = kv
    BY DEF ClearTxCache, KV
  <2>2. QED BY <2>1, CachesRead
<1>2. /\ ante \in States(kv)
      /\ ante.ok <=> Valid(paper, tx)
      /\ ante.ok => Books(Get(ante.kv), charged)
  BY AnteBooks
<1>3. RunTx(kv, tx) = IF ~ ante.ok THEN ClearTxCache(ante.kv)
                      ELSE IF run.ok THEN WriteThenClearTxCache(run.kv)
                      ELSE ClearTxCache(run.kv)
  BY DEF RunTx
<1>4. PaperRunTx(paper, tx)
        = IF ~ Valid(paper, tx) THEN paper
          ELSE IF ~ Affordable(charged.balance, tx.from, tx.coins) THEN charged
          ELSE Delivered(charged, tx)
  BY DEF PaperRunTx, Valid, Charged, PaperFee, Delivered
<1>5. ante.kv \in KV /\ SameStore(ante.kv, kv)
  BY <1>2 DEF States
<1>6. /\ kept \in KV /\ Get(kept) = Get(ante.kv) /\ BlockView(kept) = Get(ante.kv)
      /\ SameTree(kept, kv)
  BY <1>5, CachesRead DEF SameTree, SameStore, WriteThenClearTxCache, KV
<1> HIDE DEF ante, kept, charged
<1>7. CASE ~ ante.ok
  <2>1. /\ ClearTxCache(ante.kv) \in KV
        /\ ClearTxCache(ante.kv).txCache = EmptyCache
        /\ Get(ClearTxCache(ante.kv)) = BlockView(kv)
        /\ SameTree(ClearTxCache(ante.kv), kv)
    BY <1>5, CachesRead, SameStoreReads DEF SameTree, SameStore, ClearTxCache, KV
  <2>2. QED BY <1>1, <1>2, <1>3, <1>4, <1>7, <2>1
<1>8. CASE ante.ok
  <2>1. /\ run \in States(kept)
        /\ run.ok <=> Affordable(charged.balance, tx.from, tx.coins)
        /\ run.ok => Books(Get(run.kv), Delivered(charged, tx))
    BY <1>2, <1>6, <1>8, RunMsgsBooks
  <2> HIDE DEF run
  <2>2. run.kv \in KV /\ SameStore(run.kv, kept)
    BY <2>1 DEF States
  <2>3. /\ ClearTxCache(run.kv) \in KV /\ WriteThenClearTxCache(run.kv) \in KV
        /\ ClearTxCache(run.kv).txCache = EmptyCache
        /\ WriteThenClearTxCache(run.kv).txCache = EmptyCache
        /\ Get(ClearTxCache(run.kv)) = Get(ante.kv)
        /\ Get(WriteThenClearTxCache(run.kv)) = Get(run.kv)
    BY <1>6, <2>2, CachesRead, SameStoreReads
  <2>4. SameTree(ClearTxCache(run.kv), kv) /\ SameTree(WriteThenClearTxCache(run.kv), kv)
    BY <1>6, <2>2 DEF SameTree, SameStore, ClearTxCache, WriteThenClearTxCache, KV
  <2>5. QED BY <1>2, <1>3, <1>4, <1>8, <2>1, <2>3, <2>4
<1>9. QED BY <1>7, <1>8

-----------------------------------------------------------------------------
(* Genesis.                                                                *)

LEMMA GenesisByIndex ==
  /\ Len(Genesis) \in Nat /\ DOMAIN Genesis = 1..Len(Genesis)
  /\ \A i \in DOMAIN Genesis :
       /\ Genesis[i][1] \in Address /\ Genesis[i][2] \in Denom /\ Genesis[i][3] \in Nat
       /\ \A a, d : i \in Listed(a, d) => GenesisBalance(a, d) = Genesis[i][3]
  /\ \A a, d : Listed(a, d) # {} => \E i \in DOMAIN Genesis : i \in Listed(a, d)
  /\ \A a, d : \A i \in Listed(a, d) :
       i \in DOMAIN Genesis /\ Genesis[i][1] = a /\ Genesis[i][2] = d
<1> DEFINE B == Address \X Denom \X Nat
<1>1. Genesis \in Seq(B)
  BY GenesisAssumption
<1> HIDE DEF B
<1>2. /\ Len(Genesis) \in Nat /\ DOMAIN Genesis = 1..Len(Genesis)
      /\ \A i \in DOMAIN Genesis : Genesis[i] \in B
  BY <1>1
<1>3. \A a, d : \A i, j \in Listed(a, d) : i = j
  BY GenesisAssumption DEF Listed
<1>4. \A a, d : \A i \in Listed(a, d) : GenesisBalance(a, d) = Genesis[i][3]
  BY <1>3 DEF GenesisBalance
<1>5. \A i \in DOMAIN Genesis :
        Genesis[i][1] \in Address /\ Genesis[i][2] \in Denom /\ Genesis[i][3] \in Nat
  BY <1>2 DEF B
<1>6. \A a, d : \A i \in Listed(a, d) :
        i \in DOMAIN Genesis /\ Genesis[i][1] = a /\ Genesis[i][2] = d
  BY DEF Listed
<1>7. QED BY <1>2, <1>4, <1>5, <1>6

\* The balances of a denomination add up to its supply: one entry after the
\* other, both grow by the entry's amount.
LEMMA GenesisAddsUp ==
  ASSUME NEW d \in Denom
  PROVE  /\ GenesisSupply(d) \in Nat
         /\ GenesisSupply(d) = SumFunction([a \in Holder |-> PaperGenesis.balance[a][d]])
<1> DEFINE S == DOMAIN Genesis
           f == [i \in S |-> IF Genesis[i][2] = d THEN Genesis[i][3] ELSE 0]
           Held(n) == [a \in Holder |->
                         IF \E i \in 1..n : i \in Listed(a, d)
                         THEN GenesisBalance(a, d) ELSE 0]
           Right(n) == SumFunctionOnSet(f, 1..n) = SumFunctionOnSet(Held(n), Holder)
           Q == {n \in Nat : n <= Len(Genesis) => Right(n)}
<1>1. Len(Genesis) \in Nat /\ S = 1..Len(Genesis)
  BY GenesisByIndex
<1>2. \A i \in S : f[i] \in Nat /\ f[i] \in Int
  BY GenesisByIndex
<1>3. \A n \in Nat : /\ Held(n) \in [Holder -> Nat]
                     /\ \A a \in Holder : Held(n)[a] \in Int
  BY GenesisByIndex
<1>4. IsFiniteSet(Holder)
  BY AddressAssumption, FS_AddElement DEF Holder
<1>5. ASSUME NEW n \in Nat, n = 0 PROVE Right(n)
  <2>1. 1..n = {}
    BY <1>5
  <2>2. SumFunctionOnSet(f, {}) = 0
    <3> HIDE DEF f
    <3>1. IsFiniteSet({}) /\ \A x \in {} : f[x] \in Int
      BY FS_EmptySet
    <3>2. QED BY <3>1, SumWithout
  <2>3. \A a \in Holder : Held(n)[a] = 0
    BY <2>1
  <2> DEFINE h == Held(n)
  <2>4. SumFunctionOnSet(h, Holder) = 0
    <3>1. \A a \in Holder : h[a] = 0
      BY <2>3
    <3> HIDE DEF h
    <3>2. QED BY <1>4, <3>1, SumOfZeros
  <2>5. QED BY <2>1, <2>2, <2>4
<1>6. ASSUME NEW n \in Nat, NEW m \in S, m = n + 1, Right(n)
      PROVE  Right(m)
  <2>1. m \notin 1..n /\ 1..m = (1..n) \cup {m} /\ 1..n \subseteq S /\ m \in Nat
    BY <1>1, <1>6
  <2>2. IsFiniteSet(1..n)
    BY FS_Interval, 1 \in Int, n \in Int
  <2>3. SumFunctionOnSet(f, 1..m) = SumFunctionOnSet(f, 1..n) + f[m]
    <3> HIDE DEF f
    <3>1. (\A i \in 1..n : f[i] \in Int) /\ f[m] \in Int
      BY <1>2, <2>1
    <3>2. QED BY <2>1, <2>2, <3>1, SumWith
  <2>4. \A i : i \in 1..m <=> i \in 1..n \/ i = m
    BY <2>1
  <2> DEFINE before == Held(n)
             after == Held(m)
             who == Genesis[m][1]
  <2>5. who \in Holder /\ \A a, e : m \in Listed(a, e) <=> a = who /\ e = Genesis[m][2]
    BY GenesisByIndex DEF Holder, Listed
  <2>6. \A a \in Holder : after[a] = IF a = who THEN before[a] + f[m] ELSE before[a]
    <3> SUFFICES ASSUME NEW a \in Holder
                 PROVE  after[a] = IF a = who THEN before[a] + f[m] ELSE before[a]
      OBVIOUS
    <3>1. CASE m \in Listed(a, d)
      <4>1. \A i \in 1..n : i \notin Listed(a, d)
        <5>1. \A i \in DOMAIN Genesis : i \in Listed(a, d) => i = m
          BY <3>1, GenesisAssumption, GenesisByIndex
        <5>2. QED BY <2>1, <5>1
      <4>2. before[a] = 0 /\ after[a] = GenesisBalance(a, d)
        BY <2>4, <3>1, <4>1
      <4>3. a = who /\ f[m] = Genesis[m][3] /\ GenesisBalance(a, d) = Genesis[m][3]
        BY <2>5, <3>1, GenesisByIndex
      <4>4. QED BY <1>2, <4>2, <4>3
    <3>2. CASE m \notin Listed(a, d)
      <4>1. after[a] = before[a]
        BY <2>4, <3>2
      <4>2. a = who => f[m] = 0
        BY <2>5, <3>2
      <4>3. before[a] \in Int
        BY <1>3
      <4>4. QED BY <4>1, <4>2, <4>3
    <3>3. QED BY <3>1, <3>2
  <2>7. (\A a \in Holder : before[a] \in Int) /\ f[m] \in Int
    BY <1>2, <1>3
  <2>8. SumFunctionOnSet(f, 1..n) = SumFunctionOnSet(before, Holder)
    BY <1>6
  <2> DEFINE change == f[m]
  <2>9. SumFunctionOnSet(after, Holder) = SumFunctionOnSet(before, Holder) + f[m]
    <3>1. change \in Int /\ \A a \in Holder :
             after[a] = IF a = who THEN before[a] + change ELSE before[a]
      BY <2>6, <2>7
    <3> HIDE DEF change, before, after, who, f
    <3>2. SumFunctionOnSet(after, Holder) = SumFunctionOnSet(before, Holder) + change
      BY <1>4, <2>5, <2>7, <3>1, SumChanged
    <3>3. QED BY <3>2 DEF change
  <2>10. QED BY <2>3, <2>8, <2>9
<1>7. Nat \subseteq Q
  <2>1. \A n \in Nat : (\A m \in Nat : m < n => m \in Q) => n \in Q
    <3> SUFFICES ASSUME NEW n \in Nat, \A m \in Nat : m < n => m \in Q, n <= Len(Genesis)
                 PROVE  Right(n)
      OBVIOUS
    <3>1. CASE n = 0
      BY <1>5, <3>1
    <3>2. CASE n # 0
      <4>1. n - 1 \in Nat /\ n - 1 < n /\ n = (n - 1) + 1 /\ n \in S
            /\ n - 1 <= Len(Genesis)
        BY <1>1, <3>2
      <4>2. Right(n - 1)
        BY <4>1
      <4> HIDE DEF Right
      <4>3. QED BY <1>6, <4>1, <4>2
    <3>3. QED BY <3>1, <3>2
  <2> HIDE DEF Q
  <2>2. QED BY <2>1, NumbersInduction
<1>8. SumFunctionOnSet(f, S) = SumFunctionOnSet(Held(Len(Genesis)), Holder)
  BY <1>1, <1>7
<1>9. GenesisSupply(d) = SumFunctionOnSet(f, S)
  <2>1. SumFunction(f) = SumFunctionOnSet(f, DOMAIN f)
    BY Zenon DEF SumFunction, SumFunctionOnSet
  <2>2. QED BY <2>1 DEF GenesisSupply
<1>10. GenesisSupply(d) \in Nat
  <2>1. IsFiniteSet(S)
    BY <1>1, FS_Interval, 1 \in Int
  <2> HIDE DEF f, S
  <2>2. QED BY <1>2, <1>9, <2>1, SumOfNumbers
<1>11. Held(Len(Genesis)) = [a \in Holder |-> PaperGenesis.balance[a][d]]
  <2>1. \A a \in Holder : (\E i \in 1..Len(Genesis) : i \in Listed(a, d))
                            <=> Listed(a, d) # {}
    BY <1>1, GenesisByIndex
  <2>2. \A a \in Holder : PaperGenesis.balance[a][d]
                            = IF Listed(a, d) = {} THEN 0 ELSE GenesisBalance(a, d)
    BY DEF PaperGenesis
  <2>3. QED BY <2>1, <2>2
<1>12. SumFunction(Held(Len(Genesis))) = SumFunctionOnSet(Held(Len(Genesis)), Holder)
  <2> DEFINE h == Held(Len(Genesis))
  <2>1. h \in [Holder -> Nat]
    BY <1>1, <1>3
  <2> HIDE DEF h
  <2>2. SumFunction(h) = SumFunctionOnSet(h, Holder)
    BY <2>1, SumOfHolders
  <2>3. QED BY <2>2 DEF h
<1>13. QED BY <1>8, <1>9, <1>10, <1>11, <1>12

\* The state after init_chain.
GenesisOf(kv) == WriteThenClearTxCache(AuthGenesis(BankGenesis(kv)))

LEMMA GenesisBooks ==
  ASSUME NEW kv \in KV, Get(kv) = EmptyCache
  PROVE  /\ GenesisOf(kv) \in KV
         /\ SameTree(GenesisOf(kv), kv)
         /\ GenesisOf(kv).txCache = EmptyCache
         /\ Books(Get(GenesisOf(kv)), PaperGenesis)
<1> DEFINE bankValues ==
             [k \in Key |->
                CASE \E a \in Address, d \in Denom : k = Balance(a, d) /\ Listed(a, d) # {} ->
                        GenesisBalance(k[2], k[3])
                  [] \E d \in GenesisDenoms : k = Supply(d) -> GenesisSupply(k[2])
                  [] OTHER -> None]
           authValues ==
             [k \in Key |->
                IF \E a \in Accounts \cup {FeeCollector} : k = Account(a) THEN 0 ELSE None]
           both == Overlay(authValues, bankValues)
           written == AuthGenesis(BankGenesis(kv))
           view == Get(written)
<1>1. \A k \in Key : kv.txCache[k] = None /\ Get(kv)[k] = None
                     /\ BlockView(kv)[k] = None
  BY Reads DEF EmptyCache
<1>2. \A a \in Address, d \in Denom :
        bankValues[Balance(a, d)] = IF Listed(a, d) = {} THEN None ELSE GenesisBalance(a, d)
  <2> SUFFICES ASSUME NEW a \in Address, NEW d \in Denom
               PROVE  bankValues[Balance(a, d)]
                        = IF Listed(a, d) = {} THEN None ELSE GenesisBalance(a, d)
    OBVIOUS
  <2>1. Balance(a, d) \in Key
    BY Keys DEF Holder
  <2>2. (\E b \in Address, e \in Denom : Balance(a, d) = Balance(b, e) /\ Listed(b, e) # {})
          <=> Listed(a, d) # {}
    BY KeysDiffer
  <2>3. ~ \E e \in GenesisDenoms : Balance(a, d) = Supply(e)
    BY KeysDiffer
  <2>4. QED BY <2>1, <2>2, <2>3, KeysDiffer
<1>3. \A d \in Denom :
        bankValues[Supply(d)] = IF d \in GenesisDenoms THEN GenesisSupply(d) ELSE None
  <2> SUFFICES ASSUME NEW d \in Denom
               PROVE  bankValues[Supply(d)]
                        = IF d \in GenesisDenoms THEN GenesisSupply(d) ELSE None
    OBVIOUS
  <2>1. Supply(d) \in Key
    BY Keys
  <2>2. (\E e \in GenesisDenoms : Supply(d) = Supply(e)) <=> d \in GenesisDenoms
    BY KeysDiffer
  <2>3. ~ \E a \in Address, e \in Denom : Supply(d) = Balance(a, e) /\ Listed(a, e) # {}
    BY KeysDiffer
  <2>4. QED BY <2>1, <2>2, <2>3, KeysDiffer
<1>4. \A a \in Holder : bankValues[Account(a)] = None
  <2>1. \A a \in Holder : Account(a) \in Key
    BY Keys
  <2>2. \A a \in Holder :
          /\ ~ \E e \in GenesisDenoms : Account(a) = Supply(e)
          /\ ~ \E b \in Address, e \in Denom : Account(a) = Balance(b, e) /\ Listed(b, e) # {}
    BY KeysDiffer
  <2>3. QED BY <2>1, <2>2
<1>5. \A d \in Denom : FeeCollector \notin Address => bankValues[Balance(FeeCollector, d)] = None
  <2> SUFFICES ASSUME NEW d \in Denom, FeeCollector \notin Address
               PROVE  bankValues[Balance(FeeCollector, d)] = None
    OBVIOUS
  <2>1. Balance(FeeCollector, d) \in Key
    BY Keys DEF Holder
  <2>2. /\ ~ \E e \in GenesisDenoms : Balance(FeeCollector, d) = Supply(e)
        /\ ~ \E b \in Address, e \in Denom :
               Balance(FeeCollector, d) = Balance(b, e) /\ Listed(b, e) # {}
    BY KeysDiffer
  <2>3. QED BY <2>1, <2>2
<1>6. \A a \in Holder :
        authValues[Account(a)] = IF a \in Accounts \cup {FeeCollector} THEN 0 ELSE None
  BY Keys, KeysDiffer
<1>7. \A k \in Key : (\A a \in Holder : k # Account(a)) => authValues[k] = None
  BY GenesisAssumption DEF Holder
<1>8. \A a \in Address, d \in Denom : GenesisBalance(a, d) \in Nat \/ Listed(a, d) = {}
  BY GenesisByIndex
<1>9. \A d \in Denom : GenesisSupply(d) \in Nat
  BY GenesisAddsUp
<1>10. bankValues \in Cached
  <2> SUFFICES ASSUME NEW k \in Key PROVE bankValues[k] \in Nat \cup {None}
    BY DEF Cached
  <2>1. CASE \E a \in Holder, d \in Denom : k = Balance(a, d)
    <3>1. PICK a \in Holder, d \in Denom : k = Balance(a, d)
      BY <2>1
    <3> HIDE DEF bankValues
    <3>2. a \in Address \/ (a = FeeCollector /\ FeeCollector \notin Address)
      BY DEF Holder
    <3>3. QED BY <1>2, <1>5, <1>8, <3>1, <3>2
  <2>2. CASE \E d \in Denom : k = Supply(d)
    <3> HIDE DEF bankValues
    <3> QED BY <1>3, <1>9, <2>2
  <2>3. CASE \E a \in Holder : k = Account(a)
    <3> HIDE DEF bankValues
    <3> QED BY <1>4, <2>3
  <2>4. QED
    <3> HIDE DEF bankValues
    <3> QED BY <2>1, <2>2, <2>3, KeyAssumption
<1>11. authValues \in Cached
  BY DEF Cached
<1>12. /\ written \in KV /\ SameStore(written, kv)
       /\ \A k \in Key : written.txCache[k] = IF authValues[k] # None THEN authValues[k]
                                              ELSE bankValues[k]
  <2>1. BankGenesis(kv) = SetAll(kv, bankValues)
    BY DEF BankGenesis
  <2>2. AuthGenesis(BankGenesis(kv)) = SetAll(BankGenesis(kv), authValues)
    BY DEF AuthGenesis
  <2> HIDE DEF bankValues, authValues
  <2> DEFINE first == Overlay(bankValues, kv.txCache)
             second == Overlay(authValues, first)
  <2>3. first \in Cached /\ second \in Cached
    BY <1>10, <1>11, Types DEF Overlay, Cached, KV
  <2>4. written = [kv EXCEPT !.txCache = second]
    BY <2>1, <2>2 DEF SetAll, KV
  <2>5. \A k \in Key : second[k] = IF authValues[k] # None THEN authValues[k]
                                   ELSE bankValues[k]
    BY <1>1, <1>10 DEF Overlay, Cached
  <2> HIDE DEF first, second, written
  <2>6. written.txCache = second
    BY <2>4 DEF KV
  <2>7. written \in KV
    BY <2>3, <2>4, Types DEF KV
  <2>8. SameStore(written, kv)
    BY <2>4 DEF SameStore, KV
  <2>9. QED BY <2>5, <2>6, <2>7, <2>8
<1> HIDE DEF bankValues, authValues, written
<1>13. \A k \in Key : view[k] = IF authValues[k] # None THEN authValues[k] ELSE bankValues[k]
  <2>1. \A k \in Key : view[k] = IF written.txCache[k] # None THEN written.txCache[k]
                                 ELSE BlockView(written)[k]
    BY <1>12, Reads
  <2>2. BlockView(written) = BlockView(kv)
    BY <1>12, SameStoreReads
  <2>3. QED BY <1>1, <1>12, <2>1, <2>2
<1> HIDE DEF view
<1>14. /\ \A a \in Holder : view[Account(a)] = PaperGenesis.sequence[a]
       /\ \A a \in Holder, d \in Denom :
            Number(view[Balance(a, d)]) = PaperGenesis.balance[a][d]
       /\ \A d \in Denom :
            view[Supply(d)] = IF d \in GenesisDenoms THEN GenesisSupply(d) ELSE None
  <2>1. \A a \in Holder : view[Account(a)] = PaperGenesis.sequence[a]
    BY <1>4, <1>6, <1>13, Keys, Types DEF PaperGenesis
  <2>2. ASSUME NEW a \in Holder, NEW d \in Denom
        PROVE  Number(view[Balance(a, d)]) = PaperGenesis.balance[a][d]
    <3>1. view[Balance(a, d)] = bankValues[Balance(a, d)]
      BY <1>7, <1>13, Keys, KeysDiffer
    <3>2. PaperGenesis.balance[a][d]
            = IF Listed(a, d) = {} THEN 0 ELSE GenesisBalance(a, d)
      BY DEF PaperGenesis
    <3>3. CASE a \in Address
      BY <1>2, <1>8, <3>1, <3>2, <3>3, Types DEF Number
    <3>4. CASE a \notin Address
      <4>1. a = FeeCollector /\ FeeCollector \notin Address
        BY <3>4 DEF Holder
      <4>2. Listed(a, d) = {}
        BY <3>4, GenesisByIndex
      <4>3. QED BY <1>5, <3>1, <3>2, <4>1, <4>2 DEF Number
    <3>5. QED BY <3>3, <3>4
  <2>3. \A d \in Denom :
          view[Supply(d)] = IF d \in GenesisDenoms THEN GenesisSupply(d) ELSE None
    BY <1>3, <1>7, <1>13, Keys, KeysDiffer
  <2>4. QED BY <2>1, <2>2, <2>3
<1>15. Books(view, PaperGenesis)
  <2>1. PaperGenesis \in Ledger
    <3>1. \A a \in Holder, d \in Denom : Listed(a, d) # {} => GenesisBalance(a, d) \in Nat
      BY GenesisByIndex
    <3>2. QED BY <3>1 DEF PaperGenesis, Ledger
  <2>2. \A d \in Denom : Supplied(view, d) =>
          view[Supply(d)] = SumFunction([a \in Holder |-> PaperGenesis.balance[a][d]])
    BY <1>14, GenesisAddsUp DEF Supplied
  <2>3. QED BY <1>14, <2>1, <2>2 DEF Books
<1>16. /\ GenesisOf(kv) = WriteThenClearTxCache(written)
       /\ Get(GenesisOf(kv)) = view
       /\ GenesisOf(kv) \in KV
       /\ GenesisOf(kv).txCache = EmptyCache
  BY <1>12, CachesRead DEF GenesisOf, written, view
<1>17. SameTree(GenesisOf(kv), kv)
  BY <1>12, <1>16 DEF SameTree, SameStore, WriteThenClearTxCache, KV
<1>18. QED BY <1>15, <1>16, <1>17

-----------------------------------------------------------------------------
(* Versions.                                                               *)

\* KVStore::new opens the last version saved.
LEMMA OpenedReads ==
  ASSUME NEW rs \in Roots, NEW n \in Nat, n <= MaxVersion, SavedVersions(rs) = 1..n
  PROVE  /\ LatestVersion(rs) = n
         /\ Opened(rs) \in KV
         /\ Opened(rs).txCache = EmptyCache
         /\ Opened(rs).loadedVersion = n
         /\ Opened(rs).tree = IF n = 0 THEN EmptyTree ELSE rs[n]
         /\ Get(Opened(rs)) = TreeView(Opened(rs).tree)
<1> DEFINE kv == Opened(rs)
           tree == IF n = 0 THEN EmptyTree ELSE rs[n]
<1>1. LatestVersion(rs) = n
  <2>1. CASE n = 0
    <3>1. SavedVersions(rs) = {}
      BY <2>1
    <3>2. QED BY <2>1, <3>1 DEF LatestVersion
  <2>2. CASE n # 0
    <3>1. n \in SavedVersions(rs) /\ \A w \in SavedVersions(rs) : w <= n
      BY <2>2
    <3>2. \A v \in SavedVersions(rs) : (\A w \in SavedVersions(rs) : w <= v) => v = n
      BY <3>1
    <3>3. QED BY <3>1, <3>2 DEF LatestVersion
  <2>3. QED BY <2>1, <2>2
<1>2. n \in Version /\ (n # 0 => rs[n] \in Tree) /\ EmptyTree \in Tree
  <2>1. n \in Version
    BY MaxVersionAssumption DEF Version
  <2>2. n # 0 => n \in SavedVersions(rs)
    OBVIOUS
  <2>3. n # 0 => rs[n] \in Tree
    BY <2>1, <2>2 DEF SavedVersions, Roots
  <2>4. QED BY <2>1, <2>3 DEF EmptyTree, Tree
<1>3. (SavedVersions(rs) = {}) <=> n = 0
  OBVIOUS
<1>4. kv = [txCache |-> EmptyCache, blockCache |-> EmptyCache, tree |-> tree,
            loadedVersion |-> n, versions |-> SavedVersions(rs)]
  BY <1>1, <1>3 DEF Opened
<1>5. EmptyCache \in Cached /\ tree \in Tree /\ SavedVersions(rs) \in SUBSET Version
  BY <1>2 DEF EmptyCache, Cached, SavedVersions
<1> HIDE DEF tree, kv
<1>6. kv \in KV /\ kv.txCache = EmptyCache /\ kv.blockCache = EmptyCache
      /\ kv.tree = tree /\ kv.loadedVersion = n
  BY <1>2, <1>4, <1>5, Types DEF KV
<1>7. TreeView(kv.tree) \in Cached
  BY <1>6, Reads
<1>8. \A view \in Cached : Overlay(EmptyCache, view) = view
  BY DEF Overlay, EmptyCache, Cached
<1>9. Get(kv) = TreeView(kv.tree)
  BY <1>6, <1>7, <1>8 DEF Get, BlockView
<1>10. QED BY <1>1, <1>6, <1>9 DEF kv, tree

\* A commit writes what is read into the tree.
LEMMA FlushedReads ==
  ASSUME NEW kv \in KV, kv.loadedVersion + 1 \in Version
  PROVE  /\ Flushed(kv) \in KV
         /\ Flushed(kv).txCache = EmptyCache
         /\ Flushed(kv).loadedVersion = kv.loadedVersion
         /\ TreeView(Flushed(kv).tree) = Get(kv)
         /\ Get(Flushed(kv)) = Get(kv)
<1> DEFINE w == WriteThenClearTxCache(kv)
           tree == [k \in Key |-> IF w.blockCache[k] # None
                                  THEN [value |-> w.blockCache[k],
                                        version |-> w.loadedVersion + 1]
                                  ELSE w.tree[k]]
           f == Flushed(kv)
<1>1. w \in KV /\ BlockView(w) = Get(kv) /\ w.txCache = EmptyCache
      /\ w.loadedVersion = kv.loadedVersion
  BY CachesRead DEF WriteThenClearTxCache, KV
<1>2. w.blockCache \in Cached /\ w.tree \in Tree
  BY <1>1, Types DEF KV
<1>3. f = [w EXCEPT !.tree = tree, !.blockCache = EmptyCache]
  BY DEF Flushed, WriteThenClearBlockCache
<1> HIDE DEF w, f
<1>4. tree \in Tree
  BY <1>1, <1>2, Types DEF Tree, Cached
<1>5. TreeView(tree) = BlockView(w)
  <2>1. TreeView(tree) \in Cached /\ TreeView(w.tree) \in Cached
    BY <1>2, <1>4, Types DEF TreeView, Cached, Tree
  <2>2. \A k \in Key : TreeView(tree)[k] = BlockView(w)[k]
    <3> SUFFICES ASSUME NEW k \in Key PROVE TreeView(tree)[k] = BlockView(w)[k]
      OBVIOUS
    <3>1. BlockView(w)[k] = IF w.blockCache[k] # None THEN w.blockCache[k]
                            ELSE TreeView(w.tree)[k]
      BY DEF BlockView, Overlay
    <3>2. /\ TreeView(tree)[k] = IF tree[k] = None THEN None ELSE tree[k].value
          /\ TreeView(w.tree)[k] = IF w.tree[k] = None THEN None ELSE w.tree[k].value
      BY DEF TreeView
    <3>3. CASE w.blockCache[k] # None
      <4>1. tree[k] = [value |-> w.blockCache[k], version |-> w.loadedVersion + 1]
        BY <3>3
      <4>2. tree[k] # None
        <5>1. w.blockCache[k] \in Nat
          BY <1>2, <3>3 DEF Cached
        <5>2. w.loadedVersion + 1 \in Version
          BY <1>1
        <5>3. [value |-> w.blockCache[k], version |-> w.loadedVersion + 1] \in Leaf
          BY <5>1, <5>2, Types
        <5>4. QED BY <4>1, <5>3, Types
      <4>3. QED BY <3>1, <3>2, <3>3, <4>1, <4>2
    <3>4. CASE w.blockCache[k] = None
      BY <3>1, <3>2, <3>4
    <3>5. QED BY <3>3, <3>4
  <2>3. BlockView(w) \in Cached
    BY <1>1, Reads
  <2> HIDE DEF tree
  <2>4. QED BY <2>1, <2>2, <2>3 DEF Cached
<1> HIDE DEF tree
<1>6. EmptyCache \in Cached
  BY DEF EmptyCache, Cached
<1>7. /\ f \in KV /\ f.txCache = EmptyCache /\ f.blockCache = EmptyCache
      /\ f.tree = tree /\ f.loadedVersion = w.loadedVersion
  BY <1>1, <1>3, <1>4, <1>6, Types DEF KV
<1>8. \A view \in Cached : Overlay(EmptyCache, view) = view
  BY DEF Overlay, EmptyCache, Cached
<1>9. Get(f) = TreeView(f.tree)
  BY <1>7, <1>8, Reads DEF Get, BlockView
<1>10. QED BY <1>1, <1>5, <1>7, <1>9 DEF f, w

\* The head that a commit saves is opened again as it was.
LEMMA SavedReads ==
  ASSUME NEW kv \in KV, kv.txCache = EmptyCache, NEW rs \in Roots,
         NEW n \in Nat, n < MaxVersion, kv.loadedVersion = n, SavedVersions(rs) = 1..n
  PROVE  /\ SaveVersion(kv) \in KV
         /\ SaveVersion(kv).txCache = EmptyCache
         /\ SaveVersion(kv).loadedVersion = n + 1
         /\ SaveVersion(kv).tree = kv.tree
         /\ Get(SaveVersion(kv)) = Get(kv)
         /\ SavedRoots(kv, rs) \in Roots
         /\ SavedVersions(SavedRoots(kv, rs)) = 1..(n + 1)
         /\ SavedRoots(kv, rs)[n + 1] = kv.tree
<1>1. n + 1 \in Version /\ NextVersion(kv) = n + 1 /\ kv.tree \in Tree
  BY MaxVersionAssumption DEF Version, NextVersion, KV
<1>2. /\ SaveVersion(kv) \in KV
      /\ SaveVersion(kv).txCache = kv.txCache
      /\ SaveVersion(kv).blockCache = kv.blockCache
      /\ SaveVersion(kv).loadedVersion = n + 1
      /\ SaveVersion(kv).tree = kv.tree
  BY <1>1 DEF SaveVersion, KV
<1>3. Get(SaveVersion(kv)) = Get(kv)
  BY <1>2 DEF Get, BlockView
<1>4. SavedRoots(kv, rs) = [rs EXCEPT ![n + 1] = kv.tree]
  BY <1>1 DEF SavedRoots
<1>5. SavedRoots(kv, rs) \in Roots
  BY <1>1, <1>4 DEF Roots
<1>6. \A v \in Version : SavedRoots(kv, rs)[v] # None <=> v \in 1..n \/ v = n + 1
  <2>1. kv.tree # None
    BY <1>1, Types
  <2>2. \A v \in Version : rs[v] # None <=> v \in 1..n
    BY DEF SavedVersions
  <2>3. QED BY <1>1, <1>4, <2>1, <2>2 DEF Roots
<1>7. SavedVersions(SavedRoots(kv, rs)) = 1..(n + 1)
  <2>1. 1..(n + 1) \subseteq Version /\ \A v : v \in 1..(n + 1) <=> v \in 1..n \/ v = n + 1
    BY MaxVersionAssumption DEF Version
  <2>2. QED BY <1>6, <2>1 DEF SavedVersions
<1>8. SavedRoots(kv, rs)[n + 1] = kv.tree
  BY <1>1, <1>4 DEF Roots
<1>9. QED BY <1>2, <1>3, <1>5, <1>7, <1>8

-----------------------------------------------------------------------------
(* The node.                                                               *)

\* The block being executed, the last one committed and the database.
BlockInv ==
  /\ phase \in {"start", "idle", "block", "commit"}
  /\ chain \in Seq(Ledger) /\ Len(chain) <= MaxVersion
  /\ phase \in {"block", "commit"} \/ replay # <<>> => Len(chain) < MaxVersion
  /\ phase = "commit" => replay = <<>>
  /\ height = Len(chain) + (IF phase = "commit" THEN 1 ELSE 0)
  /\ phase = "start" => chain = <<>> /\ Get(bank) = EmptyCache

StoreInv ==
  /\ bank \in KV /\ bank.txCache = EmptyCache
  /\ bank.loadedVersion = Len(chain)
  /\ roots \in Roots /\ SavedVersions(roots) = 1..Len(chain)
  /\ bank.tree = IF chain = <<>> THEN EmptyTree ELSE roots[Len(chain)]
  /\ Books(Get(bank), ledger)
  /\ Books(TreeView(bank.tree), LastBlock)

\* What clients have been told makes what they broadcast transactions.
ClientInv ==
  /\ asking \in [Client -> Request \cup {None}]
  /\ DOMAIN answer = Client
  /\ \A c \in Client :
       answer[c] # None /\ answer[c].request.path = "Account" /\ answer[c].response.code = 0
         => answer[c].response.value \in Nat
  /\ \A tx \in mempool : IsTx(tx)

QueryInv == BlockInv /\ StoreInv /\ ClientInv

LEMMA LastBlockStays == UNCHANGED chain => LastBlock' = LastBlock
BY DEF LastBlock

\* A step that neither executes, commits nor restarts.
LEMMA StoreStays ==
  ASSUME StoreInv, UNCHANGED <<bank, roots, chain, ledger>>
  PROVE  StoreInv'
BY LastBlockStays DEF StoreInv

LEMMA QueryInvInit == Init => QueryInv
<1> SUFFICES ASSUME Init PROVE QueryInv
  OBVIOUS
<1>1. roots \in Roots /\ SavedVersions(roots) = 1..0 /\ 0 <= MaxVersion
  BY MaxVersionAssumption DEF Init, Roots, SavedVersions
<1>2. /\ bank \in KV /\ bank.txCache = EmptyCache /\ bank.loadedVersion = 0
      /\ bank.tree = EmptyTree /\ Get(bank) = TreeView(bank.tree)
  BY <1>1, 0 \in Nat, OpenedReads DEF Init
<1>3. TreeView(EmptyTree) = EmptyCache
  BY DEF TreeView, EmptyTree, EmptyCache
<1>4. Len(chain) = 0 /\ chain = <<>> /\ chain \in Seq(Ledger) /\ LastBlock = EmptyLedger
  BY DEF Init, LastBlock
<1>5. Books(EmptyCache, EmptyLedger)
  <2>1. EmptyLedger \in Ledger
    BY DEF EmptyLedger, Ledger
  <2>2. \A k \in Key : EmptyCache[k] = None
    BY DEF EmptyCache
  <2>3. QED BY <2>1, <2>2, Keys DEF Books, EmptyLedger, Number, Supplied
<1>6. StoreInv
  BY <1>1, <1>2, <1>3, <1>4, <1>5 DEF StoreInv, Init
<1>7. BlockInv
  BY <1>2, <1>3, <1>4, MaxVersionAssumption DEF BlockInv, Init
<1>8. ClientInv
  BY DEF ClientInv, Init
<1>9. QED BY <1>6, <1>7, <1>8 DEF QueryInv

LEMMA ClientInvStep == QueryInv /\ [Next]_vars => ClientInv'
<1> SUFFICES ASSUME QueryInv, [Next]_vars PROVE ClientInv'
  OBVIOUS
<1> USE DEF QueryInv
<1>1. CASE UNCHANGED <<asking, answer, mempool>>
  BY <1>1 DEF ClientInv
<1>2. CASE Commit
  BY <1>2 DEF Commit, ClientInv
<1>3. CASE Restart
  BY <1>3 DEF Restart, ClientInv
<1>4. ASSUME NEW c \in Client, Ask(c) PROVE ClientInv'
  BY <1>4 DEF Ask, ClientInv
<1>5. ASSUME NEW c \in Client, Answer(c) PROVE ClientInv'
  <2> DEFINE r == [request |-> asking[c], response |-> ResponseQuery(bank, asking[c])]
  <2>1. /\ asking[c] \in Request
        /\ answer' = [answer EXCEPT ![c] = r]
        /\ asking' = [asking EXCEPT ![c] = None]
        /\ mempool' = mempool
    BY <1>5 DEF Answer, ClientInv
  <2>2. ASSUME r.request.path = "Account", r.response.code = 0
        PROVE  r.response.value \in Nat
    <3> DEFINE value == HandleQuery(bank, asking[c])
    <3>1. \E a \in Address : asking[c] = GetAccount(a)
      BY <2>1, <2>2 DEF Request, SupplyRequest, GetBalances, GetBalancesByDenom
    <3>2. PICK a \in Address : asking[c] = GetAccount(a)
      BY <3>1
    <3>3. asking[c].path = "Account" /\ asking[c].address = a
      BY <3>2 DEF GetAccount
    <3>4. value = Get(bank)[Account(a)]
      BY <3>3 DEF HandleQuery, AuthQuery, QueryAccount
    <3>5. value # None /\ r.response.value = value
      BY <2>2, <3>3 DEF ResponseQuery
    <3>6. value \in Nat \cup {None}
      BY <3>4, Keys, Reads DEF StoreInv, Cached, Holder
    <3>7. QED BY <3>5, <3>6
  <2> HIDE DEF r
  <2>3. QED BY <2>1, <2>2 DEF ClientInv
<1>6. ASSUME NEW c \in Client, Broadcast(c) PROVE ClientInv'
  <2>1. PICK t \in Transfer :
          /\ t.from = answer[c].request.address
          /\ mempool' = mempool \cup
               {[from |-> t.from, to |-> t.to, coins |-> t.coins, fee |-> t.fee,
                 sequence |-> answer[c].response.value]}
    BY <1>6 DEF Broadcast
  <2>2. answer' = [answer EXCEPT ![c] = None] /\ asking' = asking
        /\ answer[c].response.value \in Nat
    BY <1>6 DEF Broadcast, ClientInv
  <2>3. IsTx([from |-> t.from, to |-> t.to, coins |-> t.coins, fee |-> t.fee,
              sequence |-> answer[c].response.value])
    BY <2>2, TransferAssumption DEF IsTx, IsCoins
  <2>4. QED BY <2>1, <2>2, <2>3 DEF ClientInv
<1>7. QED
  BY <1>1, <1>2, <1>3, <1>4, <1>5, <1>6
     DEF Next, vars, InitChain, BeginBlock, DeliverTx, IncrementBlockHeight

LEMMA InitChainStep == QueryInv /\ InitChain => BlockInv' /\ StoreInv'
<1> SUFFICES ASSUME QueryInv, InitChain PROVE BlockInv' /\ StoreInv'
  OBVIOUS
<1>1. bank' = GenesisOf(bank) /\ bank \in KV /\ Get(bank) = EmptyCache
  BY DEF QueryInv, BlockInv, StoreInv, InitChain, GenesisOf
<1>2. /\ bank' \in KV /\ SameTree(bank', bank) /\ bank'.txCache = EmptyCache
      /\ Books(Get(bank'), PaperGenesis)
  BY <1>1, GenesisBooks
<1>3. StoreInv'
  BY <1>2, LastBlockStays DEF QueryInv, StoreInv, InitChain, SameTree
<1>4. BlockInv'
  BY DEF QueryInv, BlockInv, InitChain
<1>5. QED BY <1>3, <1>4

LEMMA DeliverTxStep == QueryInv /\ DeliverTx => BlockInv' /\ StoreInv'
<1> SUFFICES ASSUME QueryInv, DeliverTx PROVE BlockInv' /\ StoreInv'
  OBVIOUS
<1>1. PICK tx \in mempool : /\ bank' = RunTx(bank, tx)
                            /\ ledger' = PaperRunTx(ledger, tx)
  BY DEF DeliverTx
<1>2. IsTx(tx) /\ bank \in KV /\ bank.txCache = EmptyCache /\ Books(Get(bank), ledger)
  BY DEF QueryInv, ClientInv, StoreInv
<1>3. /\ bank' \in KV /\ SameTree(bank', bank) /\ bank'.txCache = EmptyCache
      /\ Books(Get(bank'), ledger')
  BY <1>1, <1>2, RunTxBooks
<1>4. StoreInv'
  BY <1>3, LastBlockStays DEF QueryInv, StoreInv, DeliverTx, SameTree
<1>5. BlockInv'
  BY DEF QueryInv, BlockInv, DeliverTx
<1>6. QED BY <1>4, <1>5

LEMMA CommitStep == QueryInv /\ Commit => BlockInv' /\ StoreInv'
<1> SUFFICES ASSUME QueryInv, Commit PROVE BlockInv' /\ StoreInv'
  OBVIOUS
<1> DEFINE n == Len(chain)
           f == Flushed(bank)
<1>1. /\ n \in Nat /\ n < MaxVersion /\ chain \in Seq(Ledger) /\ height = n + 1
      /\ bank \in KV /\ bank.loadedVersion = n
      /\ roots \in Roots /\ SavedVersions(roots) = 1..n
      /\ Books(Get(bank), ledger) /\ ledger \in Ledger
  BY DEF QueryInv, BlockInv, StoreInv, Commit, Books
<1>2. /\ bank' = SaveVersion(f) /\ roots' = SavedRoots(f, roots)
      /\ chain' = Append(chain, ledger) /\ ledger' = ledger
  BY DEF Commit
<1>3. bank.loadedVersion + 1 \in Version
  BY <1>1, MaxVersionAssumption DEF Version
<1>4. /\ f \in KV /\ f.txCache = EmptyCache /\ f.loadedVersion = n
      /\ TreeView(f.tree) = Get(bank) /\ Get(f) = Get(bank)
  BY <1>1, <1>3, FlushedReads
<1> HIDE DEF f
<1>5. /\ bank' \in KV /\ bank'.txCache = EmptyCache /\ bank'.loadedVersion = n + 1
      /\ bank'.tree = f.tree /\ Get(bank') = Get(bank)
      /\ roots' \in Roots /\ SavedVersions(roots') = 1..(n + 1)
      /\ roots'[n + 1] = f.tree
  BY <1>1, <1>2, <1>4, SavedReads
<1>6. /\ chain' \in Seq(Ledger) /\ Len(chain') = n + 1 /\ chain' # <<>>
      /\ chain'[n + 1] = ledger
  BY <1>1, <1>2
<1>7. LastBlock' = ledger
  BY <1>6 DEF LastBlock
<1>8. StoreInv'
  BY <1>1, <1>2, <1>4, <1>5, <1>6, <1>7 DEF StoreInv
<1>9. BlockInv'
  <2>1. phase = "commit" /\ replay = <<>>
    BY DEF QueryInv, BlockInv, Commit
  <2>2. phase' = "idle" /\ replay' = <<>> /\ height' = height
    BY <2>1 DEF Commit
  <2>3. /\ phase' \in {"start", "idle", "block", "commit"}
        /\ phase' # "start" /\ phase' # "block" /\ phase' # "commit"
    BY <2>2
  <2>4. n + 1 \in Nat /\ n + 1 <= MaxVersion /\ n + 1 # 0
    BY <1>1, MaxVersionAssumption
  <2>5. QED BY <1>1, <1>6, <2>2, <2>3, <2>4 DEF BlockInv
<1>10. QED BY <1>8, <1>9

LEMMA RestartStep == QueryInv /\ Restart => BlockInv' /\ StoreInv'
<1> SUFFICES ASSUME QueryInv, Restart PROVE BlockInv' /\ StoreInv'
  OBVIOUS
<1> DEFINE n == Len(chain)
<1>1. /\ n \in Nat /\ n <= MaxVersion /\ chain \in Seq(Ledger)
      /\ roots \in Roots /\ SavedVersions(roots) = 1..n
      /\ bank.tree = (IF chain = <<>> THEN EmptyTree ELSE roots[n])
      /\ Books(TreeView(bank.tree), LastBlock)
      /\ (chain = <<>>) <=> n = 0
  BY DEF QueryInv, BlockInv, StoreInv
<1>2. /\ bank' = Opened(roots) /\ height' = LatestVersion(roots)
      /\ ledger' = LastBlock /\ UNCHANGED <<roots, chain>>
  BY DEF Restart
<1>3. /\ height' = n /\ bank' \in KV /\ bank'.txCache = EmptyCache
      /\ bank'.loadedVersion = n
      /\ bank'.tree = (IF n = 0 THEN EmptyTree ELSE roots[n])
      /\ Get(bank') = TreeView(bank'.tree)
  BY <1>1, <1>2, OpenedReads
<1>4. bank'.tree = bank.tree
  BY <1>1, <1>3
<1>5. StoreInv'
  BY <1>1, <1>2, <1>3, <1>4, LastBlockStays DEF StoreInv
<1>6. phase' = "start" => chain = <<>> /\ Get(bank') = EmptyCache
  <2>1. TreeView(EmptyTree) = EmptyCache
    BY DEF TreeView, EmptyTree, EmptyCache
  <2>2. phase' = "start" => n = 0
    BY <1>1 DEF Restart
  <2>3. QED BY <1>1, <1>3, <2>1, <2>2
<1>7. /\ phase' \in {"start", "idle", "block"}
      /\ phase' = "block" => replay' # <<>>
  BY <1>1 DEF Restart
<1>8. replay' # <<>> => n < MaxVersion
  BY DEF Restart, QueryInv, BlockInv
<1>9. BlockInv'
  BY <1>1, <1>2, <1>3, <1>6, <1>7, <1>8 DEF BlockInv
<1>10. QED BY <1>5, <1>9

LEMMA QueryInvStep == QueryInv /\ [Next]_vars => QueryInv'
<1> SUFFICES ASSUME QueryInv, [Next]_vars PROVE QueryInv'
  OBVIOUS
<1>1. ClientInv'
  BY ClientInvStep
<1>2. BlockInv' /\ StoreInv'
  <2>1. CASE InitChain
    BY <2>1, InitChainStep
  <2>2. CASE DeliverTx
    BY <2>2, DeliverTxStep
  <2>3. CASE Commit
    BY <2>3, CommitStep
  <2>4. CASE Restart
    BY <2>4, RestartStep
  <2>5. CASE BeginBlock
    BY <2>5, StoreStays DEF BeginBlock, QueryInv, BlockInv
  <2>6. CASE IncrementBlockHeight
    BY <2>6, StoreStays DEF IncrementBlockHeight, QueryInv, BlockInv
  <2>7. ASSUME NEW c \in Client, Ask(c) \/ Answer(c) \/ Broadcast(c)
        PROVE  BlockInv' /\ StoreInv'
    BY <2>7, StoreStays DEF Ask, Answer, Broadcast, QueryInv, BlockInv
  <2>8. CASE UNCHANGED vars
    BY <2>8, StoreStays DEF vars, QueryInv, BlockInv
  <2>9. QED BY <2>1, <2>2, <2>3, <2>4, <2>5, <2>6, <2>7, <2>8 DEF Next
<1>3. QED BY <1>1, <1>2 DEF QueryInv

-----------------------------------------------------------------------------
(* What clients are told.                                                  *)

\* A new answer is the one to what the client was asking.
LEMMA NewAnswers ==
  ASSUME QueryInv, [Next]_vars, NEW path, NEW r \in Answered(path)
  PROVE  /\ r.request \in Request /\ r.request.path = path
         /\ r.response = ResponseQuery(bank, r.request)
<1>1. PICK c \in Client : /\ answer'[c] # None /\ answer'[c] # answer[c]
                          /\ r = answer'[c] /\ r.request.path = path
  BY DEF Answered
<1>2. DOMAIN answer = Client /\ asking \in [Client -> Request \cup {None}]
  BY DEF QueryInv, ClientInv
<1>3. CASE Answer(c)
  <2>1. /\ answer' = [answer EXCEPT ![c] = [request |-> asking[c],
                                          response |-> ResponseQuery(bank, asking[c])]]
        /\ asking[c] \in Request
    BY <1>2, <1>3 DEF Answer
  <2>2. r = [request |-> asking[c], response |-> ResponseQuery(bank, asking[c])]
    BY <1>1, <1>2, <2>1
  <2>3. r.request = asking[c] /\ r.response = ResponseQuery(bank, asking[c])
    BY <2>2
  <2>4. QED BY <1>1, <2>1, <2>3
<1>4. ASSUME NEW o \in Client, o # c, Answer(o) PROVE FALSE
  BY <1>1, <1>2, <1>4 DEF Answer
<1>5. ASSUME NEW o \in Client, Ask(o) \/ Broadcast(o) PROVE FALSE
  BY <1>1, <1>2, <1>5 DEF Ask, Broadcast
<1>6. CASE UNCHANGED answer
  BY <1>1, <1>6
<1>7. QED
  BY <1>3, <1>4, <1>5, <1>6
     DEF Next, vars, InitChain, BeginBlock, DeliverTx, IncrementBlockHeight, Commit, Restart

LEMMA RequestsOfPath ==
  ASSUME NEW q \in Request
  PROVE  /\ q.path = "TotalSupply" => q = SupplyRequest
         /\ q.path = "AllBalances" => \E a \in Address : q = GetBalances(a) /\ q.address = a
         /\ q.path = "Balance" => \E a \in Address, d \in Denom :
              q = GetBalancesByDenom(a, d) /\ q.address = a /\ q.denom = d
         /\ q.path = "Account" => \E a \in Address : q = GetAccount(a) /\ q.address = a
BY DEF Request, SupplyRequest, GetBalances, GetBalancesByDenom, GetAccount

\* What is answered to each request.
LEMMA AnswersOfPath ==
  ASSUME NEW q \in Request
  PROVE  /\ q.path = "AllBalances" =>
              /\ ResponseQuery(bank, q).value = QueryAllBalances(bank, q.address)
              /\ ResponseQuery(bank, q).height = height
         /\ q.path = "TotalSupply" =>
              /\ ResponseQuery(bank, q).value = GetPaginatedTotalSupply(bank)
              /\ ResponseQuery(bank, q).height = height
         /\ q.path = "Balance" =>
              ResponseQuery(bank, q).value = QueryBalance(bank, q.address, q.denom)
         /\ q.path = "Account" =>
              ResponseQuery(bank, q).value = QueryAccount(bank, q.address)
BY DEF ResponseQuery, HandleQuery, BankQuery, AuthQuery

-----------------------------------------------------------------------------
(* What the answers say.                                                   *)

\* One balance or one account answered.
LEMMA ReadsStep ==
  ASSUME QueryInv, [Next]_vars
  PROVE  /\ \A r \in Answered("Balance") :
              (IF r.response.value = None THEN 0 ELSE r.response.value)
                = ledger.balance[r.request.address][r.request.denom]
         /\ \A r \in Answered("Account") :
              r.response.value = ledger.sequence[r.request.address]
<1>1. /\ \A a \in Holder : Get(bank)[Account(a)] = ledger.sequence[a]
      /\ \A a \in Holder, d \in Denom :
           Number(Get(bank)[Balance(a, d)]) = ledger.balance[a][d]
      /\ Address \subseteq Holder
  BY DEF QueryInv, StoreInv, Books, Holder
<1>2. ASSUME NEW r \in Answered("Balance")
      PROVE  (IF r.response.value = None THEN 0 ELSE r.response.value)
               = ledger.balance[r.request.address][r.request.denom]
  <2>1. /\ r.request \in Request /\ r.request.path = "Balance"
        /\ r.response = ResponseQuery(bank, r.request)
    BY NewAnswers
  <2>2. PICK a \in Address, d \in Denom : r.request.address = a /\ r.request.denom = d
    BY <2>1, RequestsOfPath
  <2>3. r.response.value = Get(bank)[Balance(a, d)]
    BY <2>1, <2>2, AnswersOfPath DEF QueryBalance
  <2>4. QED BY <1>1, <2>2, <2>3 DEF Number
<1>3. ASSUME NEW r \in Answered("Account")
      PROVE  r.response.value = ledger.sequence[r.request.address]
  <2>1. /\ r.request \in Request /\ r.request.path = "Account"
        /\ r.response = ResponseQuery(bank, r.request)
    BY NewAnswers
  <2>2. PICK a \in Address : r.request.address = a
    BY <2>1, RequestsOfPath
  <2>3. r.response.value = Get(bank)[Account(a)]
    BY <2>1, <2>2, AnswersOfPath DEF QueryAccount
  <2>4. QED BY <1>1, <2>2, <2>3
<1>4. QED BY <1>2, <1>3

\* One list answered.
LEMMA ListsStep ==
  ASSUME QueryInv, [Next]_vars
  PROVE  /\ \A r \in Answered("AllBalances") : \A d \in Denom :
              (IF d \in DOMAIN r.response.value THEN r.response.value[d] ELSE 0)
                = LastBlock.balance[r.request.address][d]
         /\ \A r \in Answered("TotalSupply") : \A d \in DOMAIN r.response.value :
              r.response.value[d]
                = SumFunction([a \in Holder |-> LastBlock.balance[a][d]])
         /\ \A r \in Answered("AllBalances") \cup Answered("TotalSupply") :
              r.response.height - Len(chain) \in {0, IF phase = "commit" THEN 1 ELSE 0}
<1> DEFINE tree == TreeView(bank.tree)
<1>1. /\ \A a \in Holder, d \in Denom :
           Number(tree[Balance(a, d)]) = LastBlock.balance[a][d]
      /\ \A d \in Denom : tree[Supply(d)] # None =>
           tree[Supply(d)] = SumFunction([a \in Holder |-> LastBlock.balance[a][d]])
      /\ Address \subseteq Holder
  BY DEF QueryInv, StoreInv, Books, Holder, Supplied
<1>2. Len(chain) \in Nat /\ height - Len(chain) \in {0, IF phase = "commit" THEN 1 ELSE 0}
  BY DEF QueryInv, BlockInv
<1>3. ASSUME NEW r \in Answered("AllBalances"), NEW d \in Denom
      PROVE  (IF d \in DOMAIN r.response.value THEN r.response.value[d] ELSE 0)
               = LastBlock.balance[r.request.address][d]
  <2>1. /\ r.request \in Request /\ r.request.path = "AllBalances"
        /\ r.response = ResponseQuery(bank, r.request)
    BY NewAnswers
  <2>2. PICK a \in Address : r.request.address = a
    BY <2>1, RequestsOfPath
  <2>3. r.response.value = QueryAllBalances(bank, a)
    BY <2>1, <2>2, AnswersOfPath
  <2>4. r.response.value = [e \in {e \in Denom : tree[Balance(a, e)] # None}
                              |-> tree[Balance(a, e)]]
    BY <2>3 DEF QueryAllBalances
  <2>5. Number(tree[Balance(a, d)]) = LastBlock.balance[a][d]
    BY <1>1
  <2> HIDE DEF tree
  <2>6. /\ d \in DOMAIN r.response.value <=> tree[Balance(a, d)] # None
        /\ d \in DOMAIN r.response.value => r.response.value[d] = tree[Balance(a, d)]
    BY <2>4
  <2>7. QED BY <2>2, <2>5, <2>6 DEF Number
<1>4. ASSUME NEW r \in Answered("TotalSupply"), NEW d \in DOMAIN r.response.value
      PROVE  r.response.value[d] = SumFunction([a \in Holder |-> LastBlock.balance[a][d]])
  <2>1. /\ r.request \in Request /\ r.request.path = "TotalSupply"
        /\ r.response = ResponseQuery(bank, r.request)
    BY NewAnswers
  <2>2. r.response.value = GetPaginatedTotalSupply(bank)
    BY <2>1, AnswersOfPath
  <2>3. r.response.value = [e \in {e \in Denom : tree[Supply(e)] # None} |-> tree[Supply(e)]]
    BY <2>2 DEF GetPaginatedTotalSupply
  <2>4. d \in Denom /\ tree[Supply(d)] # None /\ r.response.value[d] = tree[Supply(d)]
    <3> HIDE DEF tree
    <3>1. QED BY <2>3
  <2>5. tree[Supply(d)] = SumFunction([a \in Holder |-> LastBlock.balance[a][d]])
    BY <1>1, <2>4
  <2>6. QED BY <2>4, <2>5
<1>5. ASSUME NEW r \in Answered("AllBalances") \cup Answered("TotalSupply")
      PROVE  r.response.height - Len(chain) \in {0, IF phase = "commit" THEN 1 ELSE 0}
  <2>1. /\ r.request \in Request /\ r.request.path \in {"AllBalances", "TotalSupply"}
        /\ r.response = ResponseQuery(bank, r.request)
    BY NewAnswers
  <2>2. r.response.height = height
    BY <2>1, AnswersOfPath
  <2>3. QED BY <1>2, <2>2
<1> HIDE DEF tree
<1>6. QED BY <1>3, <1>4, <1>5

-----------------------------------------------------------------------------
\* At every step of every behaviour, the chain's height and versions, the
\* store, the transactions executed and what clients know agree.
LEMMA QueryInvAlways == Spec => []QueryInv
BY QueryInvInit, QueryInvStep, PTL DEF Spec

\* A balance or an account answered is what the transactions executed so far
\* left, each entirely or, but for its fee and sequence, not at all: run_tx
\* clears or writes the cache of transactions before it gives the lock back.
THEOREM QueriesReadWholeTransactions == Spec => ReadsAreOfWholeTransactions
<1>1. QueryInv /\ [Next]_vars =>
        [/\ \A r \in Answered("Balance") :
              (IF r.response.value = None THEN 0 ELSE r.response.value)
                = ledger.balance[r.request.address][r.request.denom]
         /\ \A r \in Answered("Account") :
              r.response.value = ledger.sequence[r.request.address]]_vars
  BY ReadsStep
<1>2. QED BY <1>1, QueryInvAlways, PTL DEF Spec, ReadsAreOfWholeTransactions

\* A list answered is that of the last block committed, at its height or the
\* next one's, and adds up: range reads the tree, which only a commit and
\* a restart change.
THEOREM ListsReadTheLastCommit == Spec => ListsAreOfTheLastCommit
<1>1. QueryInv /\ [Next]_vars =>
        [/\ \A r \in Answered("AllBalances") : \A d \in Denom :
              (IF d \in DOMAIN r.response.value THEN r.response.value[d] ELSE 0)
                = LastBlock.balance[r.request.address][d]
         /\ \A r \in Answered("TotalSupply") : \A d \in DOMAIN r.response.value :
              r.response.value[d]
                = SumFunction([a \in Holder |-> LastBlock.balance[a][d]])
         /\ \A r \in Answered("AllBalances") \cup Answered("TotalSupply") :
              r.response.height - Len(chain) \in {0, IF phase = "commit" THEN 1 ELSE 0}]_vars
  BY ListsStep
<1>2. QED BY <1>1, QueryInvAlways, PTL DEF Spec, ListsAreOfTheLastCommit
=============================================================================
