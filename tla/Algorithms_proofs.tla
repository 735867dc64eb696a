--------------------------- MODULE Algorithms_proofs ---------------------------
(***************************************************************************)
(* Theorems about the pure modules, for inputs of any size.                *)
(***************************************************************************)
EXTENDS Algorithms, Folds_proofs, SequenceTheorems

-----------------------------------------------------------------------------
(* Keys in order.                                                          *)

Bytes == Seq(0 .. MaxByte)

Agree(k, l, n) == \A i \in 1..n : k[i] = l[i]

LEMMA BytesAre ==
  ASSUME NEW k \in Bytes
  PROVE  Len(k) \in Nat /\ DOMAIN k = 1..Len(k) /\ \A i \in 1..Len(k) : k[i] \in 0 .. MaxByte
<1>1. Len(k) \in Nat /\ DOMAIN k = 1..Len(k)
  BY DEF Bytes
<1>2. \A i \in 1..Len(k) : k[i] \in 0 .. MaxByte
  <2> DEFINE AByte == 0 .. MaxByte
  <2>1. k \in Seq(AByte)
    BY DEF Bytes
  <2> HIDE DEF AByte
  <2>2. \A i \in 1..Len(k) : k[i] \in AByte
    BY <2>1
  <2>3. QED BY <2>2 DEF AByte
<1>3. QED BY <1>1, <1>2

LEMMA FirstBytes ==
  ASSUME NEW k \in Bytes, NEW n \in Nat, n <= Len(k)
  PROVE  /\ SubSeq(k, 1, n) \in Bytes /\ Len(SubSeq(k, 1, n)) = n
         /\ \A i \in 1..n : SubSeq(k, 1, n)[i] = k[i]
<1>1. \A i \in 1..n : k[i] \in 0 .. MaxByte
  BY BytesAre
<1>2. 1 \in Int /\ n \in Int
  OBVIOUS
<1>3. QED BY <1>1, <1>2, SubSeqProperties DEF Bytes

LEMMA SameFirstBytes ==
  ASSUME NEW k \in Bytes, NEW l \in Bytes, NEW n \in Nat, n <= Len(k), n <= Len(l)
  PROVE  SubSeq(k, 1, n) = SubSeq(l, 1, n) <=> Agree(k, l, n)
<1>1. ASSUME Agree(k, l, n) PROVE SubSeq(k, 1, n) = SubSeq(l, 1, n)
  BY <1>1, FirstBytes, SeqEqual DEF Agree, Bytes
<1>2. ASSUME SubSeq(k, 1, n) = SubSeq(l, 1, n) PROVE Agree(k, l, n)
  BY <1>2, FirstBytes DEF Agree
<1>3. QED BY <1>1, <1>2

LEMMA PrefixByBytes ==
  ASSUME NEW k \in Bytes, NEW l \in Bytes
  PROVE  IsPrefix(k, l) <=> Len(k) <= Len(l) /\ Agree(k, l, Len(k))
BY BytesAre, SameFirstBytes DEF IsPrefix

\* The bytes of k and l agree up to n; there l goes on and k does not, or
\* with a smaller byte.
Parts(k, l, n) ==
  /\ n \in Nat /\ n <= Len(k) /\ n < Len(l)
  /\ Agree(k, l, n)
  /\ n < Len(k) => k[n + 1] < l[n + 1]

LEMMA PrecedesByBytes ==
  ASSUME NEW k \in Bytes, NEW l \in Bytes
  PROVE  Precedes(k, l) <=> \E n : Parts(k, l, n)
<1>1. Len(k) \in Nat /\ Len(l) \in Nat
  BY BytesAre
<1>2. Min({Len(k), Len(l)}) = IF Len(k) <= Len(l) THEN Len(k) ELSE Len(l)
  BY <1>1 DEF Min
<1>3. \A n : n \in 0 .. Min({Len(k), Len(l)}) <=> n \in Nat /\ n <= Len(k) /\ n <= Len(l)
  BY <1>1, <1>2
<1>4. \A n \in Nat : n <= Len(k) /\ n <= Len(l) =>
        (SubSeq(k, 1, n) = SubSeq(l, 1, n) <=> Agree(k, l, n))
  BY SameFirstBytes
<1>5. ASSUME Precedes(k, l) PROVE \E n : Parts(k, l, n)
  <2>1. PICK n \in 0 .. Min({Len(k), Len(l)}) :
          /\ SubSeq(k, 1, n) = SubSeq(l, 1, n)
          /\ n < Len(l)
          /\ n < Len(k) => k[n + 1] < l[n + 1]
    BY <1>5 DEF Precedes
  <2>2. Parts(k, l, n)
    BY <1>3, <1>4, <2>1 DEF Parts
  <2>3. QED BY <2>2
<1>6. ASSUME NEW n, Parts(k, l, n) PROVE Precedes(k, l)
  <2>1. n \in 0 .. Min({Len(k), Len(l)})
    <3>1. n \in Nat /\ n <= Len(k) /\ n < Len(l)
      BY <1>6 DEF Parts
    <3>2. n <= Len(l)
      BY <1>1, <3>1
    <3>3. QED BY <1>3, <3>1, <3>2
  <2>2. SubSeq(k, 1, n) = SubSeq(l, 1, n)
    BY <1>1, <1>4, <1>6 DEF Parts
  <2>3. QED BY <1>6, <2>1, <2>2 DEF Precedes, Parts
<1>7. QED BY <1>5, <1>6

\* Keys are totally ordered.
LEMMA PrecedesNotBack ==
  ASSUME NEW k \in Bytes, NEW l \in Bytes, Precedes(k, l)
  PROVE  ~ Precedes(l, k)
<1> SUFFICES ASSUME NEW n, Parts(k, l, n), NEW m, Parts(l, k, m) PROVE FALSE
  BY PrecedesByBytes
<1>1. /\ n \in Nat /\ m \in Nat /\ Len(k) \in Nat /\ Len(l) \in Nat
      /\ n <= Len(k) /\ n < Len(l) /\ m <= Len(l) /\ m < Len(k)
      /\ n < Len(k) => k[n + 1] < l[n + 1]
      /\ m < Len(l) => l[m + 1] < k[m + 1]
      /\ \A i \in 1..n : k[i] = l[i]
      /\ \A i \in 1..m : l[i] = k[i]
  BY BytesAre DEF Parts, Agree
<1>2. /\ n < Len(k) => k[n + 1] \in Int
      /\ n < Len(l) => l[n + 1] \in Int
      /\ m < Len(k) => k[m + 1] \in Int
      /\ m < Len(l) => l[m + 1] \in Int
  BY <1>1, BytesAre, MaxByteAssumption
<1>3. CASE n < m
  <2>1. n + 1 \in 1..m /\ n < Len(k)
    BY <1>1, <1>3
  <2>2. QED BY <1>1, <1>2, <2>1
<1>4. CASE m < n
  <2>1. m + 1 \in 1..n /\ m < Len(l)
    BY <1>1, <1>4
  <2>2. QED BY <1>1, <1>2, <2>1
<1>5. CASE n = m
  BY <1>1, <1>2, <1>5
<1>6. QED BY <1>1, <1>3, <1>4, <1>5

LEMMA PrecedesTransitive ==
  ASSUME NEW k \in Bytes, NEW l \in Bytes, NEW j \in Bytes,
         Precedes(k, l), Precedes(l, j)
  PROVE  Precedes(k, j)
<1>1. PICK n : Parts(k, l, n)
  BY PrecedesByBytes
<1>2. PICK m : Parts(l, j, m)
  BY PrecedesByBytes
<1>3. /\ n \in Nat /\ m \in Nat /\ Len(k) \in Nat /\ Len(l) \in Nat /\ Len(j) \in Nat
      /\ n <= Len(k) /\ n < Len(l) /\ m <= Len(l) /\ m < Len(j)
      /\ n < Len(k) => k[n + 1] < l[n + 1]
      /\ m < Len(l) => l[m + 1] < j[m + 1]
      /\ \A i \in 1..n : k[i] = l[i]
      /\ \A i \in 1..m : l[i] = j[i]
  BY <1>1, <1>2, BytesAre DEF Parts, Agree
<1>4. CASE n < m
  <2>1. n + 1 \in 1..m /\ n < Len(j) /\ \A i \in 1..n : i \in 1..m
    BY <1>3, <1>4
  <2>2. Parts(k, j, n)
    BY <1>3, <2>1 DEF Parts, Agree
  <2>3. QED BY <2>2, PrecedesByBytes
<1>5. CASE m < n
  <2>1. m + 1 \in 1..n /\ m < Len(l) /\ m <= Len(k) /\ \A i \in 1..m : i \in 1..n
    BY <1>3, <1>5
  <2>2. Parts(k, j, m)
    BY <1>3, <2>1 DEF Parts, Agree
  <2>3. QED BY <2>2, PrecedesByBytes
<1>6. CASE n = m
  <2>1. n < Len(k) => k[n + 1] < j[n + 1]
    <3>1. n < Len(k) => k[n + 1] \in Int /\ l[n + 1] \in Int /\ j[n + 1] \in Int
      BY <1>3, <1>6, BytesAre, MaxByteAssumption
    <3>2. QED BY <1>3, <1>6, <3>1
  <2>2. Parts(k, j, n)
    BY <1>3, <1>6, <2>1 DEF Parts, Agree
  <2>3. QED BY <2>2, PrecedesByBytes
<1>7. QED BY <1>3, <1>4, <1>5, <1>6

LEMMA PrecedesTotal ==
  ASSUME NEW k \in Bytes, NEW l \in Bytes, k # l
  PROVE  Precedes(k, l) \/ Precedes(l, k)
<1> DEFINE ends == {n \in Nat : /\ n <= Len(k) /\ n <= Len(l)
                                /\ n = Len(k) \/ n = Len(l) \/ k[n + 1] # l[n + 1]}
<1>1. Len(k) \in Nat /\ Len(l) \in Nat
  BY BytesAre
<1>2. ends # {} /\ ends \subseteq Nat
  <2>1. CASE Len(k) <= Len(l)
    <3>1. Len(k) \in ends
      BY <1>1, <2>1
    <3>2. QED BY <3>1
  <2>2. CASE Len(l) <= Len(k)
    <3>1. Len(l) \in ends
      BY <1>1, <2>2
    <3>2. QED BY <3>1
  <2>3. QED BY <1>1, <2>1, <2>2
<1>3. PICK n \in ends : \A m \in ends : n <= m
  <2> HIDE DEF ends
  <2>1. QED BY <1>2, LeastExists
<1>4. Agree(k, l, n) /\ Agree(l, k, n)
  <2>1. ASSUME NEW i \in 1..n PROVE k[i] = l[i]
    <3>1. i - 1 \in Nat /\ i - 1 < n /\ (i - 1) + 1 = i
      BY <1>1
    <3>2. i - 1 \notin ends
      <4>1. ~ (n <= i - 1)
        BY <3>1
      <4> HIDE DEF ends
      <4>2. QED BY <1>3, <4>1
    <3>3. QED BY <1>1, <3>1, <3>2
  <2>2. QED BY <2>1 DEF Agree
<1>5. CASE n = Len(k) /\ n = Len(l)
  <2>1. k = l
    BY <1>4, <1>5, SeqEqual DEF Agree, Bytes
  <2>2. QED BY <2>1
<1>6. CASE n = Len(k) /\ n # Len(l)
  <2>1. Parts(k, l, n)
    BY <1>1, <1>4, <1>6 DEF Parts
  <2>2. QED BY <2>1, PrecedesByBytes
<1>7. CASE n # Len(k) /\ n = Len(l)
  <2>1. Parts(l, k, n)
    BY <1>1, <1>4, <1>7 DEF Parts
  <2>2. QED BY <2>1, PrecedesByBytes
<1>8. CASE n < Len(k) /\ n < Len(l) /\ k[n + 1] # l[n + 1]
  <2>1. k[n + 1] \in Int /\ l[n + 1] \in Int
    BY <1>1, <1>8, BytesAre, MaxByteAssumption
  <2>2. Parts(k, l, n) \/ Parts(l, k, n)
    BY <1>1, <1>4, <1>8, <2>1 DEF Parts
  <2>3. QED BY <2>2, PrecedesByBytes
<1>9. QED BY <1>1, <1>5, <1>6, <1>7, <1>8

-----------------------------------------------------------------------------
(* Ranges over a prefix.                                                   *)

Kept(prefix) == {n \in DOMAIN prefix : prefix[n] # MaxByte}

\* The end of a prefix's range: the bytes up to the last one that is not the
\* largest, and that one incremented.
LEMMA PrefixEndByBytes ==
  ASSUME NEW prefix \in Bytes
  PROVE  \/ Kept(prefix) = {} /\ PrefixEnd(prefix) = Unbounded
         \/ \E m \in Kept(prefix) :
              /\ \A i \in DOMAIN prefix : i > m => prefix[i] = MaxByte
              /\ PrefixEnd(prefix).kind = "Excluded"
              /\ PrefixEnd(prefix).key \in Bytes
              /\ Len(PrefixEnd(prefix).key) = m
              /\ \A i \in 1..m : PrefixEnd(prefix).key[i]
                                   = IF i = m THEN prefix[m] + 1 ELSE prefix[i]
<1> DEFINE kept == Kept(prefix)
<1>1. CASE kept = {}
  BY <1>1 DEF PrefixEnd, Kept
<1>2. CASE kept # {}
  <2>1. Len(prefix) \in Nat /\ kept \subseteq 1..Len(prefix)
    BY BytesAre DEF Kept
  <2>2. PICK g \in kept : \A k \in kept : k <= g
    <3>1. kept \subseteq 0..Len(prefix)
      BY <2>1
    <3> HIDE DEF kept
    <3>2. QED BY <1>2, <2>1, <3>1, GreatestExists
  <2> DEFINE m == Max(kept)
  <2>3. m \in kept /\ \A k \in kept : k <= m
    <3>1. m \in kept /\ \A k \in kept : m >= k
      <4> HIDE DEF kept
      <4>1. \A k \in kept : g >= k
        BY <2>1, <2>2
      <4>2. QED BY <2>2, <4>1 DEF Max
    <3> HIDE DEF kept, m
    <3>2. QED BY <2>1, <3>1
  <2> DEFINE first == SubSeq(prefix, 1, m)
             end == [first EXCEPT ![m] = @ + 1]
  <2>4. PrefixEnd(prefix) = Excluded(end)
    BY <1>2 DEF PrefixEnd, Kept
  <2> HIDE DEF m
  <2>5. /\ m \in Nat /\ m \in 1..Len(prefix) /\ m <= Len(prefix)
        /\ prefix[m] \in 0 .. MaxByte /\ prefix[m] # MaxByte
    BY <2>1, <2>3, BytesAre DEF Kept
  <2>6. /\ first \in Bytes /\ Len(first) = m
        /\ \A i \in 1..m : first[i] = prefix[i]
    BY <2>5, FirstBytes
  <2> HIDE DEF first
  <2>7. /\ end \in Bytes /\ Len(end) = m
        /\ \A i \in 1..m : end[i] = IF i = m THEN prefix[m] + 1 ELSE prefix[i]
    <3>1. m \in 1..Len(first) /\ first[m] + 1 \in 0 .. MaxByte
      BY <2>1, <2>5, <2>6, MaxByteAssumption
    <3>2. QED BY <2>6, <3>1, ExceptSeq DEF Bytes
  <2>8. \A i \in DOMAIN prefix : i > m => prefix[i] = MaxByte
    <3> SUFFICES ASSUME NEW i \in DOMAIN prefix, i > m, prefix[i] # MaxByte PROVE FALSE
      OBVIOUS
    <3>1. i \in kept
      BY DEF Kept
    <3>2. i <= m
      BY <2>3, <3>1
    <3>3. QED BY <2>1, <2>5, <3>1, <3>2
  <2> HIDE DEF end
  <2>9. /\ PrefixEnd(prefix).kind = "Excluded" /\ PrefixEnd(prefix).key = end
    BY <2>4 DEF Excluded
  <2>10. QED BY <2>3, <2>7, <2>8, <2>9
<1>3. QED BY <1>1, <1>2

\* A key is in the range from a prefix to its end exactly if it has the prefix.
LEMMA PrefixRange ==
  ASSUME NEW prefix \in Bytes, NEW k \in Bytes
  PROVE  InRange(k, Included(prefix), PrefixEnd(prefix)) <=> IsPrefix(prefix, k)
<1> DEFINE end == PrefixEnd(prefix)
<1>1. InRange(k, Included(prefix), end) <=>
        /\ ~ Precedes(k, prefix)
        /\ end.kind = "Included" => ~ Precedes(end.key, k)
        /\ end.kind = "Excluded" => Precedes(k, end.key)
  BY DEF InRange, Included
<1>2. /\ Len(k) \in Nat /\ Len(prefix) \in Nat /\ DOMAIN prefix = 1..Len(prefix)
      /\ \A i \in 1..Len(k) : k[i] \in Int /\ k[i] <= MaxByte
      /\ \A i \in 1..Len(prefix) : prefix[i] \in Int
  BY BytesAre, MaxByteAssumption
\* What agrees up to the last byte that is not the largest is before the
\* prefix, or has it.
<1>3. ASSUME NEW m \in 0..Len(prefix), Agree(k, prefix, m), m <= Len(k),
             \A i \in 1..Len(prefix) : i > m => prefix[i] = MaxByte,
             ~ Precedes(k, prefix)
      PROVE  IsPrefix(prefix, k)
  <2> DEFINE Q == {n \in Nat : m <= n /\ n <= Len(prefix) => n <= Len(k) /\ Agree(k, prefix, n)}
  <2>1. ASSUME NEW n \in Nat, \A i \in Nat : i < n => i \in Q
        PROVE  n \in Q
    <3> SUFFICES ASSUME m < n, n <= Len(prefix)
                 PROVE  n <= Len(k) /\ Agree(k, prefix, n)
      BY <1>3
    <3> DEFINE l == n - 1
    <3>1. l \in Nat /\ l < n /\ m <= l /\ l < Len(prefix) /\ l + 1 = n
      BY <1>2
    <3>2. l \in Q
      <4> HIDE DEF Q, l
      <4>1. QED BY <2>1, <3>1
    <3>3. l <= Len(k) /\ Agree(k, prefix, l)
      BY <1>2, <3>1, <3>2
    <3> HIDE DEF l
    <3>4. ~ Parts(k, prefix, l)
      BY <1>3, PrecedesByBytes
    <3>5. l < Len(k) /\ ~ (k[n] < prefix[n])
      BY <3>1, <3>3, <3>4 DEF Parts
    <3>6. prefix[n] = MaxByte /\ k[n] \in Int /\ k[n] <= MaxByte /\ n <= Len(k)
      BY <1>2, <1>3, <3>1, <3>5
    <3>7. k[n] = prefix[n]
      BY <3>5, <3>6, MaxByteAssumption
    <3>8. Agree(k, prefix, n)
      BY <3>1, <3>3, <3>7 DEF Agree
    <3>9. QED BY <3>6, <3>8
  <2> HIDE DEF Q
  <2>2. Nat \subseteq Q
    BY <2>1, NumbersInduction
  <2>3. Len(prefix) \in Q
    BY <1>2, <2>2
  <2>4. Len(prefix) <= Len(k) /\ Agree(k, prefix, Len(prefix))
    BY <1>2, <2>3 DEF Q
  <2>5. Agree(prefix, k, Len(prefix))
    BY <2>4 DEF Agree
  <2>6. QED BY <2>4, <2>5, PrefixByBytes
<1>4. ASSUME IsPrefix(prefix, k)
      PROVE  /\ ~ Precedes(k, prefix)
             /\ Len(prefix) <= Len(k) /\ \A i \in 1..Len(prefix) : k[i] = prefix[i]
  <2>1. Len(prefix) <= Len(k) /\ \A i \in 1..Len(prefix) : k[i] = prefix[i]
    BY <1>4, PrefixByBytes DEF Agree
  <2>2. ASSUME NEW n, Parts(k, prefix, n) PROVE FALSE
    BY <1>2, <2>1, <2>2 DEF Parts
  <2>3. QED BY <2>1, <2>2, PrecedesByBytes
<1>5. CASE Kept(prefix) = {} /\ end = Unbounded
  <2>1. ASSUME ~ Precedes(k, prefix) PROVE IsPrefix(prefix, k)
    <3>1. 0 \in 0..Len(prefix) /\ Agree(k, prefix, 0) /\ 0 <= Len(k)
      BY <1>2 DEF Agree
    <3>2. \A i \in 1..Len(prefix) : prefix[i] = MaxByte
      BY <1>2, <1>5 DEF Kept
    <3>3. QED BY <1>3, <2>1, <3>1, <3>2
  <2>2. QED BY <1>1, <1>4, <1>5, <2>1 DEF Unbounded
<1>6. ASSUME NEW m \in Kept(prefix),
             \A i \in DOMAIN prefix : i > m => prefix[i] = MaxByte,
             end.kind = "Excluded", end.key \in Bytes, Len(end.key) = m,
             \A i \in 1..m : end.key[i] = IF i = m THEN prefix[m] + 1 ELSE prefix[i]
      PROVE  InRange(k, Included(prefix), end) <=> IsPrefix(prefix, k)
  <2> DEFINE last == end.key
  <2>1. m \in Nat /\ m \in 1..Len(prefix) /\ m - 1 \in Nat /\ (m - 1) + 1 = m /\ prefix[m] \in Int
    BY <1>2 DEF Kept
  <2> HIDE DEF end
  <2>2. ASSUME IsPrefix(prefix, k) PROVE Precedes(k, last)
    <3>1. Parts(k, last, m - 1)
      <4>1. m - 1 <= Len(k) /\ m - 1 < Len(last) /\ m <= Len(k)
        BY <1>2, <1>4, <1>6, <2>1, <2>2
      <4>2. Agree(k, last, m - 1)
        BY <1>2, <1>4, <1>6, <2>1, <2>2 DEF Agree
      <4>3. k[m] = prefix[m] /\ last[m] = prefix[m] + 1
        BY <1>4, <1>6, <2>1, <2>2
      <4>4. k[(m - 1) + 1] < last[(m - 1) + 1]
        BY <2>1, <4>3
      <4>5. QED BY <2>1, <4>1, <4>2, <4>4 DEF Parts
    <3>2. QED BY <1>6, <3>1, PrecedesByBytes
  <2>3. ASSUME ~ Precedes(k, prefix), Precedes(k, last) PROVE IsPrefix(prefix, k)
    <3>1. PICK n : Parts(k, last, n)
      BY <1>6, <2>3, PrecedesByBytes
    <3>2. /\ n \in Nat /\ n <= Len(k) /\ n < m /\ n < Len(prefix)
          /\ n < Len(k) => k[n + 1] < last[n + 1]
          /\ Agree(k, prefix, n)
      BY <1>2, <1>6, <2>1, <3>1 DEF Parts, Agree
    <3>3. n < Len(k) /\ ~ (k[n + 1] < prefix[n + 1])
      <4>1. ~ Parts(k, prefix, n)
        BY <2>3, PrecedesByBytes
      <4>2. QED BY <3>2, <4>1 DEF Parts
    <3>4. n + 1 \in 1..m /\ n + 1 \in 1..Len(k) /\ n + 1 \in 1..Len(prefix)
      BY <1>2, <2>1, <3>2, <3>3
    <3>5. n + 1 = m
      BY <1>2, <1>6, <3>2, <3>3, <3>4
    <3>6. k[m] = prefix[m]
      BY <1>2, <1>6, <2>1, <3>2, <3>3, <3>4, <3>5
    <3>7. Agree(k, prefix, m) /\ m <= Len(k) /\ m \in 0..Len(prefix)
      <4>1. m <= Len(k) /\ m \in 0..Len(prefix)
        BY <1>2, <2>1, <3>4, <3>5
      <4>2. \A i \in 1..m : i # m => i \in 1..n
        BY <2>1, <3>2, <3>5
      <4>3. \A i \in 1..n : k[i] = prefix[i]
        BY <3>2 DEF Agree
      <4>4. Agree(k, prefix, m)
        BY <3>6, <4>2, <4>3 DEF Agree
      <4>5. QED BY <4>1, <4>4
    <3>8. QED BY <1>2, <1>3, <1>6, <2>3, <3>7
  <2>4. QED BY <1>1, <1>4, <1>6, <2>2, <2>3
<1>7. QED BY <1>5, <1>6, PrefixEndByBytes

-----------------------------------------------------------------------------
(* Keys in a sequence.                                                     *)

Before == {kl \in Bytes \X Bytes : Precedes(kl[1], kl[2])}

LEMMA BytesOrdered ==
  ASSUME NEW K, K \subseteq Bytes
  PROVE  Orders(Before, K)
<1>1. \A k, l \in Bytes : <<k, l>> \in Before <=> Precedes(k, l)
  BY DEF Before
<1>2. \A x, y \in K : x # y => <<x, y>> \in Before \/ <<y, x>> \in Before
  BY <1>1, PrecedesTotal
<1>3. \A x, y \in K : <<x, y>> \in Before => <<y, x>> \notin Before
  BY <1>1, PrecedesNotBack
<1>4. \A x, y, z \in K : <<x, y>> \in Before /\ <<y, z>> \in Before => <<x, z>> \in Before
  BY <1>1, PrecedesTransitive
<1>5. QED BY <1>2, <1>3, <1>4 DEF Orders

IsInOrder(s, n, K) ==
  /\ s \in [1..n -> K]
  /\ \A i, j \in 1..n : i < j => Precedes(s[i], s[j])

LEMMA IsInOrderAscends ==
  ASSUME NEW K, K \subseteq Bytes, NEW n \in Nat, NEW s \in [1..n -> K]
  PROVE  IsInOrder(s, n, K) <=> Ascending(s, Before)
<1>1. \A k, l \in Bytes : <<k, l>> \in Before <=> Precedes(k, l)
  BY DEF Before
<1>2. DOMAIN s = 1..n /\ \A i \in 1..n : s[i] \in Bytes
  OBVIOUS
<1>3. QED BY <1>1, <1>2 DEF IsInOrder, Ascending

\* InOrder has all the keys in order, each once.
LEMMA InOrderIs ==
  ASSUME NEW K, K \subseteq Bytes, IsFiniteSet(K)
  PROVE  /\ IsInOrder(InOrder(K), Cardinality(K), K)
         /\ Lists(InOrder(K), Cardinality(K), K)
<1> DEFINE n == Cardinality(K)
<1>1. n \in Nat /\ Orders(Before, K)
  BY FS_CardinalityType, BytesOrdered
<1>2. PICK s \in [1..n -> K] : Ascending(s, Before)
  BY <1>1, AscendingExists
<1>3. IsInOrder(s, n, K)
  <2> HIDE DEF n
  <2>1. QED BY <1>1, <1>2, IsInOrderAscends
<1>4. \E t \in [1..n -> K] : \A i, j \in DOMAIN t : i < j => Precedes(t[i], t[j])
  BY <1>3 DEF IsInOrder
<1>5. IsInOrder(InOrder(K), n, K)
  <2>1. /\ InOrder(K) \in [1..n -> K]
        /\ \A i, j \in DOMAIN InOrder(K) : i < j => Precedes(InOrder(K)[i], InOrder(K)[j])
    BY <1>4 DEF InOrder
  <2>2. QED BY <2>1 DEF IsInOrder
<1>6. InOrder(K) \in [1..n -> K] /\ Ascending(InOrder(K), Before)
  <2>1. InOrder(K) \in [1..n -> K]
    BY <1>5 DEF IsInOrder
  <2> HIDE DEF n
  <2>2. QED BY <1>1, <1>5, <2>1, IsInOrderAscends
<1>7. QED BY <1>1, <1>5, <1>6, AscendingOnto

\* It is the only sequence of the keys that does.
LEMMA InOrderUnique ==
  ASSUME NEW K, K \subseteq Bytes, NEW n \in Nat, NEW s,
         IsInOrder(s, n, K), \A k \in K : \E i \in 1..n : s[i] = k
  PROVE  IsFiniteSet(K) /\ s = InOrder(K)
<1>1. s \in [1..n -> K] /\ Ascending(s, Before) /\ Orders(Before, K)
  <2>1. s \in [1..n -> K]
    BY DEF IsInOrder
  <2>2. QED BY <2>1, IsInOrderAscends, BytesOrdered
<1>2. s \in Surjection(1..n, K)
  BY <1>1 DEF Surjection
<1>3. s \in Injection(1..n, K)
  <2>1. ASSUME NEW i \in 1..n, NEW j \in 1..n, i < j PROVE s[i] # s[j]
    <3>1. <<s[i], s[j]>> \in Before /\ s[i] \in K
      BY <1>1, <2>1 DEF Ascending
    <3>2. QED BY <1>1, <3>1 DEF Orders
  <2>2. ASSUME NEW i \in 1..n, NEW j \in 1..n, s[i] = s[j] PROVE i = j
    <3>1. ~ (i < j) /\ ~ (j < i)
      BY <2>1, <2>2
    <3>2. QED BY <3>1
  <2>3. QED BY <1>1, <2>2 DEF Injection, IsInjective
<1>4. IsFiniteSet(1..n) /\ Cardinality(1..n) = n
  BY FS_Interval
<1>5. IsFiniteSet(K) /\ Cardinality(K) = n
  BY <1>2, <1>3, <1>4, FS_Surjection
<1> DEFINE m == Cardinality(K)
           t == InOrder(K)
<1>6. IsInOrder(t, m, K)
  BY <1>5, InOrderIs
<1>7. t \in [1..m -> K] /\ Ascending(t, Before)
  <2>1. t \in [1..m -> K]
    BY <1>6 DEF IsInOrder
  <2>2. m \in Nat
    BY <1>5
  <2> HIDE DEF m, t
  <2>3. QED BY <1>6, <2>1, <2>2, IsInOrderAscends
<1> HIDE DEF t
<1>8. s \in [1..m -> K] /\ t \in [1..m -> K]
  BY <1>1, <1>5, <1>7
<1>9. s = t
  BY <1>1, <1>5, <1>7, <1>8, AscendingUnique
<1>10. QED BY <1>5, <1>9 DEF t

-----------------------------------------------------------------------------
(* The iterators.                                                          *)

\* From the prefix on, the keys with it come first.
LEMMA PrefixedFirst ==
  ASSUME NEW prefix \in Bytes, NEW k \in Bytes, NEW l \in Bytes,
         ~ Precedes(k, prefix), Precedes(k, l), IsPrefix(prefix, l)
  PROVE  IsPrefix(prefix, k)
<1> DEFINE end == PrefixEnd(prefix)
<1>1. InRange(l, Included(prefix), end)
  BY PrefixRange
<1>2. CASE end = Unbounded
  <2>1. InRange(k, Included(prefix), end)
    BY <1>2 DEF InRange, Included, Unbounded
  <2>2. QED BY <2>1, PrefixRange
<1>3. CASE end.kind = "Excluded" /\ end.key \in Bytes
  <2>1. Precedes(l, end.key)
    BY <1>1, <1>3 DEF InRange
  <2>2. Precedes(k, end.key)
    <3> HIDE DEF end
    <3>1. QED BY <1>3, <2>1, PrecedesTransitive
  <2>3. InRange(k, Included(prefix), end)
    BY <1>3, <2>2 DEF InRange, Included
  <2>4. QED BY <2>3, PrefixRange
<1>4. QED BY <1>2, <1>3, PrefixEndByBytes

LEMMA MemPrefixIteratorIsExact ==
  ASSUME NEW db, DOMAIN db \subseteq Bytes, NEW prefix \in Bytes
  PROVE  MemPrefixIterator(db, prefix) = InOrder(KeysWith(db, prefix))
<1>1. \A k \in DOMAIN db :
        InRange(k, Included(prefix), PrefixEnd(prefix)) <=> IsPrefix(prefix, k)
  BY PrefixRange
<1>2. {k \in DOMAIN db : InRange(k, Included(prefix), PrefixEnd(prefix))}
        = KeysWith(db, prefix)
  BY <1>1 DEF KeysWith
<1>3. QED BY <1>2 DEF MemPrefixIterator, Within

LEMMA RocksPrefixIteratorIsExact ==
  ASSUME NEW db, DOMAIN db \subseteq Bytes, IsFiniteSet(DOMAIN db), NEW prefix \in Bytes
  PROVE  RocksPrefixIterator(db, prefix) = InOrder(KeysWith(db, prefix))
<1> DEFINE K == {k \in DOMAIN db : InRange(k, Included(prefix), Unbounded)}
           P == KeysWith(db, prefix)
           keys == InOrder(K)
           n == Cardinality(K)
           others == {i \in DOMAIN keys : ~ IsPrefix(prefix, keys[i])}
<1>1. K \subseteq Bytes /\ IsFiniteSet(K) /\ P \subseteq Bytes
  BY FS_Subset DEF KeysWith
<1>2. \A k \in DOMAIN db : k \in K <=> ~ Precedes(k, prefix)
  BY DEF InRange, Included, Unbounded
<1>3. P \subseteq K
  <2>1. ASSUME NEW k \in P PROVE ~ Precedes(k, prefix)
    <3>1. InRange(k, Included(prefix), PrefixEnd(prefix))
      BY <1>1, <2>1, PrefixRange DEF KeysWith
    <3>2. QED BY <3>1 DEF InRange, Included
  <2>2. QED BY <1>2, <2>1 DEF KeysWith
<1>4. \A k \in K : k \in P <=> IsPrefix(prefix, k)
  BY DEF KeysWith
<1>5. n \in Nat /\ IsInOrder(keys, n, K) /\ Lists(keys, n, K)
  <2>1. n \in Nat
    BY <1>1, FS_CardinalityType
  <2> HIDE DEF K
  <2>2. QED BY <1>1, <2>1, InOrderIs
<1>6. RocksPrefixIterator(db, prefix)
        = IF others = {} THEN keys ELSE SubSeq(keys, 1, Min(others) - 1)
  BY DEF RocksPrefixIterator, Within
<1>7. \A k \in K : ~ Precedes(k, prefix) /\ k \in Bytes
  BY <1>1, <1>2
<1> HIDE DEF K, P, keys, n
<1>8. /\ keys \in [1..n -> K]
      /\ \A i, j \in 1..n : i < j => Precedes(keys[i], keys[j])
      /\ \A k \in K : \E i \in 1..n : keys[i] = k
  BY <1>5 DEF IsInOrder, Lists
<1>9. CASE others = {}
  <2>1. \A i \in 1..n : keys[i] \in P
    BY <1>4, <1>8, <1>9
  <2>2. IsInOrder(keys, n, P) /\ \A k \in P : \E i \in 1..n : keys[i] = k
    <3>1. keys \in [1..n -> P]
      BY <1>8, <2>1
    <3>2. QED BY <1>3, <1>8, <3>1 DEF IsInOrder
  <2>3. keys = InOrder(P)
    BY <1>1, <1>5, <2>2, InOrderUnique
  <2>4. QED BY <1>6, <1>9, <2>3 DEF P
<1>10. CASE others # {}
  <2>1. others \subseteq 1..n
    BY <1>8
  <2>2. PICK m \in others : \A i \in others : m <= i
    <3>1. others \subseteq Nat
      BY <1>5, <2>1
    <3> HIDE DEF others
    <3>2. QED BY <1>10, <3>1, LeastExists
  <2>3. m \in 1..n /\ ~ IsPrefix(prefix, keys[m]) /\ m \in Nat
    BY <1>5, <2>1
  <2>4. Min(others) = m
    <3>1. \A x \in others : x \in Nat
      BY <1>5, <2>1
    <3> HIDE DEF others
    <3>2. QED BY <2>2, <3>1 DEF Min
  <2>5. \A i \in 1..n : i < m => keys[i] \in P
    <3> SUFFICES ASSUME NEW i \in 1..n, i < m, keys[i] \notin P PROVE FALSE
      OBVIOUS
    <3>1. i \in others
      BY <1>4, <1>8
    <3>2. m <= i
      <4> HIDE DEF others
      <4>1. QED BY <2>2, <3>1
    <3>3. QED BY <1>5, <2>3, <3>2
  <2>6. \A i \in 1..n : keys[i] \in P => i < m
    <3> SUFFICES ASSUME NEW i \in 1..n, keys[i] \in P, ~ (i < m) PROVE FALSE
      OBVIOUS
    <3>1. i # m /\ keys[i] \in K /\ keys[m] \in K /\ IsPrefix(prefix, keys[i])
      BY <1>4, <1>8, <2>3
    <3>2. Precedes(keys[m], keys[i])
      BY <1>5, <1>8, <2>3, <3>1
    <3>3. IsPrefix(prefix, keys[m])
      BY <1>7, <3>1, <3>2, PrefixedFirst
    <3>4. QED BY <2>3, <3>3
  <2> DEFINE s == SubSeq(keys, 1, m - 1)
  <2>7. s \in [1 .. m - 1 -> P] /\ \A i \in 1 .. m - 1 : s[i] = keys[i]
    <3>1. \A i \in 1 .. m - 1 : i \in 1..n /\ keys[i] \in P
      BY <1>5, <2>3, <2>5
    <3>2. s = [i \in 1 .. (m - 1) |-> keys[i]]
      BY <2>3
    <3>3. QED BY <3>1, <3>2
  <2> HIDE DEF s
  <2>8. IsInOrder(s, m - 1, P)
    <3>1. \A i \in 1 .. m - 1 : i \in 1..n
      BY <1>5, <2>3
    <3>2. QED BY <1>8, <2>7, <3>1 DEF IsInOrder
  <2>9. \A k \in P : \E i \in 1 .. m - 1 : s[i] = k
    <3> SUFFICES ASSUME NEW k \in P PROVE \E i \in 1 .. m - 1 : s[i] = k
      OBVIOUS
    <3>1. PICK i \in 1..n : keys[i] = k
      BY <1>3, <1>8
    <3>2. i < m
      BY <2>6, <3>1
    <3>3. i \in 1 .. m - 1
      BY <1>5, <2>3, <3>2
    <3>4. QED BY <2>7, <3>1, <3>3
  <2>10. s = InOrder(P)
    <3>1. m - 1 \in Nat
      BY <2>3
    <3>2. QED BY <1>1, <2>8, <2>9, <3>1, InOrderUnique
  <2>11. QED BY <1>6, <1>10, <2>4, <2>10 DEF P, s
<1>11. QED BY <1>9, <1>10

\* However many keys a database has and whatever the bytes of a prefix, the
\* largest ones included, MemDB's range and RocksDB's seek yield exactly the
\* keys with the prefix, in order, and PrefixDB what follows it in them.
THEOREM PrefixIteratorsStayExact ==
  ASSUME NEW db, DOMAIN db \subseteq Bytes, IsFiniteSet(DOMAIN db), NEW prefix \in Bytes
  PROVE  PrefixIteratorsAreExact(db, prefix)
BY MemPrefixIteratorIsExact, RocksPrefixIteratorIsExact
   DEF PrefixIteratorsAreExact, PrefixIterator

-----------------------------------------------------------------------------
(* Prefix stores.                                                          *)

LEMMA ConcatBytes ==
  ASSUME NEW p \in Bytes, NEW a \in Bytes
  PROVE  /\ p \o a \in Bytes
         /\ Len(p \o a) = Len(p) + Len(a)
         /\ \A i \in 1 .. Len(p) : (p \o a)[i] = p[i]
         /\ \A i \in 1 .. Len(a) : (p \o a)[Len(p) + i] = a[i]
<1>1. Len(p) \in Nat /\ Len(a) \in Nat
  BY BytesAre
<1>2. /\ p \o a \in Bytes
      /\ Len(p \o a) = Len(p) + Len(a)
      /\ \A i \in 1 .. Len(p) + Len(a) :
           (p \o a)[i] = IF i <= Len(p) THEN p[i] ELSE a[i - Len(p)]
  BY ConcatProperties DEF Bytes
<1>3. \A i \in 1 .. Len(p) : i \in 1 .. Len(p) + Len(a) /\ i <= Len(p)
  BY <1>1
<1>4. \A i \in 1 .. Len(a) : /\ Len(p) + i \in 1 .. Len(p) + Len(a)
                             /\ ~ (Len(p) + i <= Len(p)) /\ (Len(p) + i) - Len(p) = i
  BY <1>1
<1>5. QED BY <1>2, <1>3, <1>4

LEMMA RestBytes ==
  ASSUME NEW p \in Bytes, NEW k \in Bytes, IsPrefix(p, k)
  PROVE  Rest(k, p) \in Bytes /\ p \o Rest(k, p) = k
<1> DEFINE r == Rest(k, p)
<1>1. /\ Len(p) \in Nat /\ Len(k) \in Nat /\ Len(p) <= Len(k)
      /\ \A i \in 1 .. Len(p) : p[i] = k[i]
  BY BytesAre, PrefixByBytes DEF Agree
<1>2. /\ r \in Bytes /\ Len(r) = Len(k) - Len(p)
      /\ \A i \in 1 .. Len(k) - Len(p) : r[i] = k[Len(p) + i]
  <2>1. \A i \in Len(p) + 1 .. Len(k) : k[i] \in 0 .. MaxByte
    BY <1>1, BytesAre
  <2>2. Len(p) + 1 \in Int /\ Len(k) \in Int
    BY <1>1
  <2>3. /\ r \in Bytes
        /\ Len(r) = IF Len(p) + 1 <= Len(k) THEN Len(k) - (Len(p) + 1) + 1 ELSE 0
        /\ \A i \in 1 .. Len(k) - (Len(p) + 1) + 1 : r[i] = k[(Len(p) + 1) + i - 1]
    BY <2>1, <2>2, SubSeqProperties DEF Bytes, Rest
  <2> HIDE DEF r
  <2>4. \A i \in 1 .. Len(k) - Len(p) : /\ i \in 1 .. Len(k) - (Len(p) + 1) + 1
                                        /\ (Len(p) + 1) + i - 1 = Len(p) + i
    BY <1>1
  <2>5. QED BY <1>1, <2>3, <2>4
<1> HIDE DEF r
<1>3. /\ p \o r \in Bytes /\ Len(p \o r) = Len(k)
      /\ \A i \in 1 .. Len(p) : (p \o r)[i] = p[i]
      /\ \A i \in 1 .. Len(r) : (p \o r)[Len(p) + i] = r[i]
  BY <1>1, <1>2, ConcatBytes
<1>4. ASSUME NEW i \in 1 .. Len(k) PROVE (p \o r)[i] = k[i]
  <2>1. CASE i <= Len(p)
    BY <1>1, <1>3, <2>1
  <2>2. CASE i > Len(p)
    <3>1. i - Len(p) \in 1 .. Len(r) /\ i - Len(p) \in 1 .. Len(k) - Len(p) /\ Len(p) + (i - Len(p)) = i
      BY <1>1, <1>2, <2>2
    <3>2. QED BY <1>2, <1>3, <3>1
  <2>3. i \in Int /\ Len(p) \in Int
    BY <1>1
  <2>4. i <= Len(p) \/ i > Len(p)
    BY <2>3
  <2>5. QED BY <2>1, <2>2, <2>4
<1>5. p \o r = k
  BY <1>3, <1>4, SeqEqual DEF Bytes
<1>6. QED BY <1>2, <1>5 DEF r

LEMMA PrecedesAfterPrefix ==
  ASSUME NEW p \in Bytes, NEW a \in Bytes, NEW b \in Bytes
  PROVE  Precedes(p \o a, p \o b) <=> Precedes(a, b)
<1> DEFINE k == p \o a
           l == p \o b
<1>1. /\ k \in Bytes /\ Len(k) = Len(p) + Len(a)
      /\ \A i \in 1 .. Len(p) : k[i] = p[i]
      /\ \A i \in 1 .. Len(a) : k[Len(p) + i] = a[i]
  BY ConcatBytes
<1>2. /\ l \in Bytes /\ Len(l) = Len(p) + Len(b)
      /\ \A i \in 1 .. Len(p) : l[i] = p[i]
      /\ \A i \in 1 .. Len(b) : l[Len(p) + i] = b[i]
  BY ConcatBytes
<1>3. Len(p) \in Nat /\ Len(a) \in Nat /\ Len(b) \in Nat
  BY BytesAre
<1>4. /\ \A i \in 1 .. Len(a) : a[i] \in Int
      /\ \A i \in 1 .. Len(b) : b[i] \in Int
  BY BytesAre, MaxByteAssumption
<1> HIDE DEF k, l
<1>5. ASSUME NEW n, Parts(a, b, n) PROVE Parts(k, l, Len(p) + n)
  <2>1. /\ n \in Nat /\ n <= Len(a) /\ n < Len(b)
        /\ \A i \in 1..n : a[i] = b[i]
        /\ n < Len(a) => a[n + 1] < b[n + 1]
    BY <1>5 DEF Parts, Agree
  <2>2. Agree(k, l, Len(p) + n)
    <3> SUFFICES ASSUME NEW i \in 1 .. Len(p) + n PROVE k[i] = l[i]
      BY DEF Agree
    <3>1. CASE i <= Len(p)
      BY <1>1, <1>2, <1>3, <3>1
    <3>2. CASE i > Len(p)
      <4>1. /\ i - Len(p) \in 1..n /\ i - Len(p) \in 1 .. Len(a)
            /\ i - Len(p) \in 1 .. Len(b) /\ Len(p) + (i - Len(p)) = i
        BY <1>3, <2>1, <3>2
      <4>2. QED BY <1>1, <1>2, <2>1, <4>1
    <3>3. QED BY <1>3, <2>1, <3>1, <3>2
  <2>3. (Len(p) + n) + 1 = Len(p) + (n + 1) /\ n + 1 \in 1 .. Len(b)
    BY <1>3, <2>1
  <2>4. ASSUME Len(p) + n < Len(k) PROVE k[(Len(p) + n) + 1] < l[(Len(p) + n) + 1]
    <3>1. n < Len(a) /\ n + 1 \in 1 .. Len(a)
      BY <1>1, <1>3, <2>1, <2>4
    <3>2. QED BY <1>1, <1>2, <2>1, <2>3, <3>1
  <2>5. Len(p) + n \in Nat /\ Len(p) + n <= Len(k) /\ Len(p) + n < Len(l)
    BY <1>1, <1>2, <1>3, <2>1
  <2>6. QED BY <2>2, <2>4, <2>5 DEF Parts
<1>6. ASSUME NEW m, Parts(k, l, m) PROVE Parts(a, b, m - Len(p))
  <2>1. /\ m \in Nat /\ m <= Len(k) /\ m < Len(l)
        /\ \A i \in 1..m : k[i] = l[i]
        /\ m < Len(k) => k[m + 1] < l[m + 1]
    BY <1>6 DEF Parts, Agree
  <2>2. Len(p) <= m
    <3> SUFFICES ASSUME m < Len(p) PROVE FALSE
      BY <1>3, <2>1
    <3>1. m + 1 \in 1 .. Len(p) /\ m < Len(k)
      BY <1>1, <1>3, <2>1
    <3>2. k[m + 1] = l[m + 1] /\ k[m + 1] \in Int
      BY <1>1, <1>2, <3>1, BytesAre, MaxByteAssumption
    <3>3. QED BY <2>1, <3>1, <3>2
  <2> DEFINE n == m - Len(p)
  <2>3. n \in Nat /\ n <= Len(a) /\ n < Len(b) /\ Len(p) + n = m /\ Len(p) + (n + 1) = m + 1
    BY <1>1, <1>2, <1>3, <2>1, <2>2
  <2> HIDE DEF n
  <2>4. \A i \in 1..n : i \in 1 .. Len(a) /\ i \in 1 .. Len(b) /\ Len(p) + i \in 1..m
    BY <1>3, <2>3
  <2>5. Agree(a, b, n)
    BY <1>1, <1>2, <2>1, <2>4 DEF Agree
  <2>6. ASSUME n < Len(a) PROVE a[n + 1] < b[n + 1]
    <3>1. n + 1 \in 1 .. Len(a) /\ n + 1 \in 1 .. Len(b) /\ m < Len(k)
      BY <1>1, <1>3, <2>3, <2>6
    <3>2. QED BY <1>1, <1>2, <2>1, <2>3, <3>1
  <2>7. Parts(a, b, n)
    BY <2>3, <2>5, <2>6 DEF Parts
  <2>8. QED BY <2>7 DEF n
<1>7. Precedes(k, l) <=> Precedes(a, b)
  BY <1>1, <1>2, <1>5, <1>6, PrecedesByBytes
<1>8. QED BY <1>7 DEF k, l

Bounds == [kind : {"Included", "Excluded", "Unbounded"}, key : Bytes]

\* The bounds of a prefix store are those of its keys' rests.
LEMMA PrefixedRange ==
  ASSUME NEW p \in Bytes, NEW k \in Bytes, NEW start \in Bounds, NEW end \in Bounds
  PROVE  InRange(k, Prefixed(p, start, Included(p)), Prefixed(p, end, PrefixEnd(p)))
           <=> IsPrefix(p, k) /\ InRange(Rest(k, p), start, end)
<1> DEFINE from == Prefixed(p, start, Included(p))
           to == Prefixed(p, end, PrefixEnd(p))
           a == p \o start.key
           b == p \o end.key
           Starts == /\ start.kind = "Unbounded" => ~ Precedes(k, p)
                     /\ start.kind = "Included" => ~ Precedes(k, a)
                     /\ start.kind = "Excluded" => Precedes(a, k)
           Ends == /\ end.kind = "Unbounded" => InRange(k, Unbounded, PrefixEnd(p))
                   /\ end.kind = "Included" => ~ Precedes(b, k)
                   /\ end.kind = "Excluded" => Precedes(k, b)
<1>1. /\ start.kind \in {"Included", "Excluded", "Unbounded"} /\ start.key \in Bytes
      /\ end.kind \in {"Included", "Excluded", "Unbounded"} /\ end.key \in Bytes
  BY DEF Bounds
<1>2. InRange(k, from, to) <=> Starts /\ Ends
  <2>1. (from.kind = "Included" => ~ Precedes(k, from.key))
          /\ (from.kind = "Excluded" => Precedes(from.key, k)) <=> Starts
    <3>1. CASE start.kind = "Unbounded"
      BY <3>1 DEF Prefixed, Included
    <3>2. CASE start.kind # "Unbounded"
      <4>1. from.kind = start.kind /\ from.key = a
        BY <3>2 DEF Prefixed, Bounds
      <4>2. QED BY <1>1, <3>2, <4>1
    <3>3. QED BY <3>1, <3>2
  <2>2. (to.kind = "Included" => ~ Precedes(to.key, k))
          /\ (to.kind = "Excluded" => Precedes(k, to.key)) <=> Ends
    <3>1. CASE end.kind = "Unbounded"
      BY <3>1 DEF Prefixed, InRange, Unbounded
    <3>2. CASE end.kind # "Unbounded"
      <4>1. to.kind = end.kind /\ to.key = b
        BY <3>2 DEF Prefixed, Bounds
      <4>2. QED BY <1>1, <3>2, <4>1
    <3>3. QED BY <3>1, <3>2
  <2> HIDE DEF from, to, Starts, Ends
  <2>3. QED BY <2>1, <2>2 DEF InRange
<1>3. a \in Bytes /\ b \in Bytes /\ IsPrefix(p, a) /\ IsPrefix(p, b)
  <2>1. ASSUME NEW x \in Bytes PROVE p \o x \in Bytes /\ IsPrefix(p, p \o x)
    <3>1. /\ p \o x \in Bytes /\ Len(p \o x) = Len(p) + Len(x)
          /\ \A i \in 1 .. Len(p) : (p \o x)[i] = p[i]
      BY ConcatBytes
    <3>2. Len(p) \in Nat /\ Len(x) \in Nat
      BY BytesAre
    <3>3. Len(p) <= Len(p \o x) /\ Agree(p, p \o x, Len(p))
      BY <3>1, <3>2 DEF Agree
    <3>4. QED BY <3>1, <3>3, PrefixByBytes
  <2>2. QED BY <1>1, <2>1
<1> HIDE DEF a, b
\* What is before the prefix is before what has it.
<1>4. ASSUME NEW x \in Bytes, IsPrefix(p, x) PROVE Precedes(k, p) => Precedes(k, x)
  <2>1. ~ Precedes(x, p)
    <3>1. InRange(x, Included(p), PrefixEnd(p))
      BY <1>4, PrefixRange
    <3>2. QED BY <3>1 DEF InRange, Included
  <2>2. x = p \/ Precedes(p, x)
    BY <1>4, <2>1, PrecedesTotal
  <2>3. QED BY <1>4, <2>2, PrecedesTransitive
<1>5. ASSUME Starts PROVE ~ Precedes(k, p)
  <2>1. CASE start.kind = "Unbounded"
    BY <1>5, <2>1
  <2>2. CASE start.kind = "Included"
    BY <1>3, <1>4, <1>5, <2>2
  <2>3. CASE start.kind = "Excluded"
    BY <1>3, <1>4, <1>5, <2>3, PrecedesNotBack
  <2>4. QED BY <1>1, <2>1, <2>2, <2>3
<1>6. InRange(k, Included(p), PrefixEnd(p)) <=>
        ~ Precedes(k, p) /\ InRange(k, Unbounded, PrefixEnd(p))
  BY DEF InRange, Included, Unbounded
<1>7. ASSUME Starts, Ends PROVE IsPrefix(p, k)
  <2>1. CASE end.kind = "Unbounded"
    BY <1>5, <1>6, <1>7, <2>1, PrefixRange
  <2>2. CASE end.kind = "Included"
    <3>1. k = b \/ Precedes(k, b)
      BY <1>3, <1>7, <2>2, PrecedesTotal
    <3>2. QED BY <1>3, <1>5, <1>7, <3>1, PrefixedFirst
  <2>3. CASE end.kind = "Excluded"
    BY <1>3, <1>5, <1>7, <2>3, PrefixedFirst
  <2>4. QED BY <1>1, <2>1, <2>2, <2>3
<1>8. ASSUME IsPrefix(p, k) PROVE Starts /\ Ends <=> InRange(Rest(k, p), start, end)
  <2>1. Rest(k, p) \in Bytes /\ p \o Rest(k, p) = k
    BY <1>8, RestBytes
  <2>2. /\ Precedes(k, a) <=> Precedes(Rest(k, p), start.key)
        /\ Precedes(a, k) <=> Precedes(start.key, Rest(k, p))
        /\ Precedes(k, b) <=> Precedes(Rest(k, p), end.key)
        /\ Precedes(b, k) <=> Precedes(end.key, Rest(k, p))
    <3> DEFINE r == Rest(k, p)
    <3>1. r \in Bytes /\ k = p \o r
      BY <2>1
    <3> HIDE DEF r
    <3>2. /\ Precedes(p \o r, p \o start.key) <=> Precedes(r, start.key)
          /\ Precedes(p \o start.key, p \o r) <=> Precedes(start.key, r)
          /\ Precedes(p \o r, p \o end.key) <=> Precedes(r, end.key)
          /\ Precedes(p \o end.key, p \o r) <=> Precedes(end.key, r)
      BY <1>1, <3>1, PrecedesAfterPrefix
    <3>3. QED BY <3>1, <3>2 DEF a, b, r
  <2>3. ~ Precedes(k, p) /\ InRange(k, Unbounded, PrefixEnd(p))
    BY <1>6, <1>8, PrefixRange
  <2>4. QED BY <1>1, <2>2, <2>3 DEF InRange
<1>9. QED BY <1>2, <1>7, <1>8

\* Whatever the store holds and whatever the prefix and the bounds, a prefix
\* store's range is the rests of the keys with its prefix between the bounds.
THEOREM PrefixStoresStayExact ==
  ASSUME NEW tree, DOMAIN tree \subseteq Bytes, NEW prefix \in Bytes,
         NEW start \in Bounds, NEW end \in Bounds
  PROVE  PrefixStoresAreExact(tree, prefix, start, end)
<1>1. \A k \in DOMAIN tree :
        InRange(k, Prefixed(prefix, start, Included(prefix)),
                   Prefixed(prefix, end, PrefixEnd(prefix)))
          <=> IsPrefix(prefix, k) /\ InRange(Rest(k, prefix), start, end)
  BY PrefixedRange
<1>2. {k \in DOMAIN tree : InRange(k, Prefixed(prefix, start, Included(prefix)),
                                      Prefixed(prefix, end, PrefixEnd(prefix)))}
        = {k \in KeysWith(tree, prefix) : InRange(Rest(k, prefix), start, end)}
  BY <1>1 DEF KeysWith
<1>3. QED BY <1>2 DEF PrefixStoresAreExact, PrefixStoreRange, Within

-----------------------------------------------------------------------------
(* The keys of the bank and of the auth module.                            *)

\* No two addresses share a prefix of balances' keys, whatever denomination
\* follows and also when one is the beginning of the other; no balance is
\* among the supply; and no two addresses' accounts have one key.
THEOREM AddressesStaySeparate ==
  ASSUME NEW B, NEW address \in Seq(B), NEW other \in Seq(B), NEW denom \in Seq(B)
  PROVE  AddressesAreSeparate(address, other, denom)
<1> DEFINE k == DenomBalancePrefix(address)
           l == DenomBalancePrefix(other) \o denom
<1>1. Len(address) \in Nat /\ Len(other) \in Nat /\ Len(denom) \in Nat
  OBVIOUS
<1>2. /\ Len(k) = 2 + Len(address) /\ k[2] = Len(address)
      /\ \A i \in 1 .. Len(address) : k[2 + i] = address[i]
  BY <1>1 DEF DenomBalancePrefix, BalancesPrefix
<1>3. /\ Len(l) = 2 + Len(other) + Len(denom) /\ l[1] = 2 /\ l[2] = Len(other)
      /\ \A i \in 1 .. Len(other) : l[2 + i] = other[i]
  BY <1>1 DEF DenomBalancePrefix, BalancesPrefix
<1>4. ASSUME IsPrefix(k, l) PROVE address = other
  <2>1. \A i \in 1 .. Len(k) : k[i] = l[i]
    BY <1>1, <1>2, <1>3, <1>4 DEF IsPrefix
  <2> HIDE DEF k, l
  <2>2. Len(address) = Len(other)
    BY <1>1, <1>2, <1>3, <2>1
  <2>3. \A i \in 1 .. Len(address) : 2 + i \in 1 .. Len(k)
    BY <1>1, <1>2
  <2>4. \A i \in 1 .. Len(address) : address[i] = other[i]
    BY <1>2, <1>3, <2>1, <2>2, <2>3
  <2>5. QED BY <2>2, <2>4, SeqEqual
<1>5. ~ IsPrefix(SupplyPrefix, l)
  BY <1>1, <1>3 DEF IsPrefix, SupplyPrefix
<1>6. ASSUME AuthStoreKey(address) = AuthStoreKey(other) PROVE address = other
  <2>1. Len(address) = Len(other)
    BY <1>1, <1>6 DEF AuthStoreKey, AccountPrefix
  <2>2. \A i \in 1 .. Len(address) : address[i] = AuthStoreKey(address)[1 + i]
    BY <1>1 DEF AuthStoreKey, AccountPrefix
  <2>3. \A i \in 1 .. Len(other) : other[i] = AuthStoreKey(other)[1 + i]
    BY <1>1 DEF AuthStoreKey, AccountPrefix
  <2>4. QED BY <1>6, <2>1, <2>2, <2>3, SeqEqual
<1>7. QED BY <1>4, <1>5, <1>6 DEF AddressesAreSeparate

-----------------------------------------------------------------------------
(* Merkle roots.                                                           *)

Powers(power, length) ==
  \A bits \in 0..length : power[bits] = IF bits = 0 THEN 1 ELSE 2 * power[bits - 1]

LEMMA PowersExist ==
  ASSUME NEW length \in Nat
  PROVE  \E power \in [0..length -> Nat] : Powers(power, length)
<1> DEFINE Q == {n \in Nat : \E power \in [0..n -> Nat] : Powers(power, n)}
<1>1. 0 \in Q
  <2> DEFINE p == [bits \in 0..0 |-> 1]
  <2>1. p \in [0..0 -> Nat] /\ Powers(p, 0)
    BY DEF Powers
  <2>2. QED BY <2>1
<1>2. ASSUME NEW n \in Nat, n \in Q PROVE n + 1 \in Q
  <2>1. PICK p \in [0..n -> Nat] : Powers(p, n)
    BY <1>2
  <2> DEFINE q == [bits \in 0 .. n + 1 |-> IF bits = n + 1 THEN 2 * p[n] ELSE p[bits]]
  <2>2. p[n] \in Nat
    BY <2>1
  <2>3. \A bits \in 0 .. n + 1 : bits # n + 1 => bits \in 0..n
    OBVIOUS
  <2>4. q \in [0 .. n + 1 -> Nat]
    BY <2>1, <2>2, <2>3
  <2>5. \A bits \in 0..n : q[bits] = p[bits] /\ bits \in 0 .. n + 1
    OBVIOUS
  <2>6. q[n + 1] = 2 * p[n]
    OBVIOUS
  <2> HIDE DEF q
  <2>7. ASSUME NEW bits \in 0 .. n + 1
        PROVE  q[bits] = IF bits = 0 THEN 1 ELSE 2 * q[bits - 1]
    <3>1. CASE bits = n + 1
      <4>1. bits - 1 = n /\ n \in 0..n /\ bits # 0
        BY <3>1
      <4>2. QED BY <2>5, <2>6, <3>1, <4>1
    <3>2. CASE bits # n + 1
      <4>1. bits \in 0..n /\ (bits # 0 => bits - 1 \in 0..n)
        BY <3>2
      <4>2. QED BY <2>1, <2>5, <4>1 DEF Powers
    <3>3. QED BY <3>1, <3>2
  <2>8. Powers(q, n + 1)
    BY <2>7 DEF Powers
  <2>9. \E power \in [0 .. n + 1 -> Nat] : Powers(power, n + 1)
    BY <2>4, <2>8
  <2>10. QED BY <2>9
<1> HIDE DEF Q
<1>3. \A n \in Nat : (\A m \in Nat : m < n => m \in Q) => n \in Q
  <2> SUFFICES ASSUME NEW n \in Nat, \A m \in Nat : m < n => m \in Q PROVE n \in Q
    OBVIOUS
  <2>1. CASE n = 0
    BY <1>1, <2>1
  <2>2. CASE n # 0
    <3>1. n - 1 \in Nat /\ n - 1 < n /\ (n - 1) + 1 = n
      BY <2>2
    <3>2. n - 1 \in Q
      BY <3>1
    <3>3. (n - 1) + 1 \in Q
      BY <1>2, <3>1, <3>2
    <3>4. QED BY <3>1, <3>3
  <2>3. QED BY <2>1, <2>2
<1>4. Nat \subseteq Q
  BY <1>3, NumbersInduction
<1>5. QED BY <1>4 DEF Q

\* The code splits n items into two lists that are not empty.
LEMMA SplitPointIs ==
  ASSUME NEW length \in Nat, length > 1
  PROVE  SplitPoint(length) \in 1 .. length - 1
<1> DEFINE power == CHOOSE power : power = [bits \in 0 .. length |->
                       IF bits = 0 THEN 1 ELSE 2 * power[bits - 1]]
<1>1. SplitPoint(length) = CHOOSE k \in Range(power) : k < length /\ length <= 2 * k
  BY DEF SplitPoint
<1>2. power = [bits \in 0 .. length |-> IF bits = 0 THEN 1 ELSE 2 * power[bits - 1]]
  <2>1. PICK p \in [0..length -> Nat] : Powers(p, length)
    BY PowersExist
  <2>2. p = [bits \in 0 .. length |-> IF bits = 0 THEN 1 ELSE 2 * p[bits - 1]]
    <3>1. p = [bits \in 0 .. length |-> p[bits]]
      BY <2>1
    <3>2. [bits \in 0 .. length |-> p[bits]]
            = [bits \in 0 .. length |-> IF bits = 0 THEN 1 ELSE 2 * p[bits - 1]]
      BY <2>1 DEF Powers
    <3>3. QED BY <3>1, <3>2, Zenon
  <2>3. QED BY <2>2, Zenon
<1> HIDE DEF power
<1>3. /\ DOMAIN power = 0..length
      /\ \A bits \in 0..length : power[bits] = IF bits = 0 THEN 1 ELSE 2 * power[bits - 1]
  BY <1>2
<1>4. \A bits \in Nat : bits <= length => power[bits] \in Nat /\ power[bits] > bits
  <2> DEFINE Q == {bits \in Nat : bits <= length => power[bits] \in Nat /\ power[bits] > bits}
  <2>1. ASSUME NEW n \in Nat, \A m \in Nat : m < n => m \in Q PROVE n \in Q
    <3> SUFFICES ASSUME n <= length PROVE power[n] \in Nat /\ power[n] > n
      OBVIOUS
    <3>1. CASE n = 0
      BY <1>3, <3>1
    <3>2. CASE n # 0
      <4>1. n - 1 \in Nat /\ n - 1 < n /\ n - 1 <= length /\ n \in 0..length
        BY <3>2
      <4>2. power[n - 1] \in Nat /\ power[n - 1] > n - 1
        BY <2>1, <4>1
      <4>3. power[n] = 2 * power[n - 1]
        BY <1>3, <3>2, <4>1
      <4>4. 2 * power[n - 1] \in Nat /\ 2 * power[n - 1] > n
        <5> DEFINE half == power[n - 1]
        <5>1. half \in Nat /\ half > n - 1
          BY <4>2
        <5> HIDE DEF half
        <5>2. 2 * half \in Nat /\ 2 * half > n
          BY <3>2, <5>1
        <5>3. QED BY <5>2 DEF half
      <4>5. QED BY <4>3, <4>4
    <3>3. QED BY <3>1, <3>2
  <2> HIDE DEF Q
  <2>2. Nat \subseteq Q
    BY <2>1, NumbersInduction
  <2>3. QED BY <2>2 DEF Q
<1> DEFINE enough == {bits \in 0..length : length <= 2 * power[bits]}
<1>5. PICK b \in enough : \A c \in enough : b <= c
  <2>1. length \in enough
    BY <1>4
  <2>2. enough \subseteq Nat /\ enough # {}
    BY <2>1
  <2> HIDE DEF enough
  <2>3. QED BY <2>2, LeastExists
<1>6. b \in 0..length /\ b \in Nat /\ length <= 2 * power[b] /\ power[b] \in Nat
  BY <1>4
<1>7. power[b] < length
  <2>1. CASE b = 0
    BY <1>3, <2>1
  <2>2. CASE b # 0
    <3>1. b - 1 \in 0..length /\ ~ (b <= b - 1) /\ b - 1 \in Nat /\ b - 1 <= length
      BY <1>6, <2>2
    <3>2. b - 1 \notin enough
      <4> HIDE DEF enough
      <4>1. QED BY <1>5, <3>1
    <3>3. ~ (length <= 2 * power[b - 1]) /\ power[b - 1] \in Nat
      BY <1>4, <3>1, <3>2
    <3>4. power[b] = 2 * power[b - 1]
      BY <1>3, <1>6, <2>2
    <3>5. QED BY <3>3, <3>4
  <2>3. QED BY <2>1, <2>2
<1>8. \E k \in Range(power) : k < length /\ length <= 2 * k
  <2>1. power[b] \in Range(power)
    BY <1>3, <1>6 DEF Range
  <2>2. QED BY <1>6, <1>7, <2>1
<1> DEFINE k == SplitPoint(length)
<1>9. k \in Range(power) /\ k < length /\ length <= 2 * k
  BY <1>1, <1>8
<1> HIDE DEF k
<1>10. k \in Nat
  <2>1. PICK bits \in 0..length : k = power[bits]
    BY <1>3, <1>9 DEF Range
  <2>2. QED BY <1>4, <2>1
<1>11. k \in 1 .. length - 1
  BY <1>9, <1>10
<1>12. QED BY <1>11 DEF k

\* The roots of all the stretches of length items.
Level(root, items, length) ==
  [first \in 1 .. Len(items) - length + 1 |->
     IF length = 1
     THEN LeafHash(items[first])
     ELSE LET k == SplitPoint(length)
          IN  InnerHash(root[k][first], root[length - k][first + k])]

AreRoots(root, items, n) == \A length \in 1..n : root[length] = Level(root, items, length)

LEMMA LevelUses ==
  ASSUME NEW items, NEW length \in Nat, length > 0, NEW f, NEW g,
         \A l \in 1 .. length - 1 : f[l] = g[l]
  PROVE  Level(f, items, length) = Level(g, items, length)
<1>1. CASE length = 1
  BY <1>1 DEF Level
<1>2. CASE length > 1
  <2> DEFINE k == SplitPoint(length)
  <2>1. k \in 1 .. length - 1
    BY <1>2, SplitPointIs
  <2> HIDE DEF k
  <2>2. f[k] = g[k] /\ f[length - k] = g[length - k]
    BY <2>1
  <2>3. QED BY <2>2 DEF Level, k
<1>3. QED BY <1>1, <1>2

LEMMA RootsExist ==
  ASSUME NEW items, NEW N \in Nat
  PROVE  \E root : DOMAIN root = 1..N /\ AreRoots(root, items, N)
<1> DEFINE Has(n) == \E root : DOMAIN root = 1..n /\ AreRoots(root, items, n)
           Q == {n \in Nat : Has(n)}
<1>1. Has(0)
  <2>1. DOMAIN [l \in 1..0 |-> l] = 1..0 /\ AreRoots([l \in 1..0 |-> l], items, 0)
    BY DEF AreRoots
  <2>2. QED BY <2>1
<1>2. ASSUME NEW n \in Nat, Has(n) PROVE Has(n + 1)
  <2>1. PICK r : DOMAIN r = 1..n /\ AreRoots(r, items, n)
    BY <1>2
  <2> DEFINE s == [l \in 1 .. n + 1 |-> IF l = n + 1 THEN Level(r, items, n + 1) ELSE r[l]]
  <2>2. \A l \in 1..n : s[l] = r[l]
    OBVIOUS
  <2>3. s[n + 1] = Level(r, items, n + 1) /\ DOMAIN s = 1 .. n + 1
    OBVIOUS
  <2> HIDE DEF s
  <2>4. ASSUME NEW l \in 1 .. n + 1 PROVE s[l] = Level(s, items, l)
    <3>1. l \in Nat /\ l > 0 /\ \A j \in 1 .. l - 1 : s[j] = r[j]
      BY <2>2
    <3>2. Level(s, items, l) = Level(r, items, l)
      BY <3>1, LevelUses
    <3>3. CASE l = n + 1
      BY <2>3, <3>2, <3>3
    <3>4. CASE l # n + 1
      <4>1. l \in 1..n
        BY <3>4
      <4>2. r[l] = Level(r, items, l)
        BY <2>1, <4>1 DEF AreRoots
      <4>3. QED BY <2>2, <3>2, <4>1, <4>2
    <3>5. QED BY <3>3, <3>4
  <2>5. AreRoots(s, items, n + 1)
    BY <2>4 DEF AreRoots
  <2>6. QED BY <2>3, <2>5
<1> HIDE DEF Has
<1>3. \A n \in Nat : (\A m \in Nat : m < n => m \in Q) => n \in Q
  <2> SUFFICES ASSUME NEW n \in Nat, \A m \in Nat : m < n => m \in Q PROVE n \in Q
    OBVIOUS
  <2>1. CASE n = 0
    BY <1>1, <2>1
  <2>2. CASE n # 0
    <3>1. n - 1 \in Nat /\ n - 1 < n /\ (n - 1) + 1 = n
      BY <2>2
    <3>2. Has(n - 1)
      BY <3>1
    <3>3. Has((n - 1) + 1)
      BY <1>2, <3>1, <3>2
    <3>4. QED BY <3>1, <3>3
  <2>3. QED BY <2>1, <2>2
<1> HIDE DEF Q
<1>4. Nat \subseteq Q
  BY <1>3, NumbersInduction
<1>5. Has(N)
  BY <1>4 DEF Q
<1>6. QED BY <1>5 DEF Has

\* RootHash as the recursion that its function solves.
LEMMA RootHashIs ==
  ASSUME NEW T, NEW items \in Seq(T)
  PROVE  /\ items = <<>> => RootHash(items) = EmptyHash
         /\ items # <<>> =>
              \E root : /\ AreRoots(root, items, Len(items))
                        /\ RootHash(items) = root[Len(items)][1]
<1> DEFINE N == Len(items)
           root == CHOOSE root : root = [length \in 1..N |->
                     [first \in 1 .. N - length + 1 |->
                        IF length = 1
                        THEN LeafHash(items[first])
                        ELSE LET k == SplitPoint(length)
                             IN  InnerHash(root[k][first], root[length - k][first + k])]]
<1>1. RootHash(items) = IF items = <<>> THEN EmptyHash ELSE root[N][1]
  BY Zenon DEF RootHash
<1>2. \E r : r = [length \in 1..N |-> Level(r, items, length)]
  <2>1. N \in Nat
    OBVIOUS
  <2> HIDE DEF N
  <2>2. PICK r : DOMAIN r = 1..N /\ AreRoots(r, items, N)
    BY <2>1, RootsExist
  <2> DEFINE s == [length \in 1..N |-> r[length]]
  <2>3. \A length \in 1..N : s[length] = r[length]
    OBVIOUS
  <2>4. ASSUME NEW length \in 1..N PROVE s[length] = Level(s, items, length)
    <3>1. length \in Nat /\ length > 0 /\ \A l \in 1 .. length - 1 : s[l] = r[l]
      BY <2>1, <2>3
    <3> HIDE DEF s
    <3>2. Level(s, items, length) = Level(r, items, length)
      BY <3>1, LevelUses
    <3>3. QED BY <2>2, <2>3, <3>2 DEF AreRoots
  <2>5. s = [length \in 1..N |-> s[length]]
    OBVIOUS
  <2> HIDE DEF s
  <2>6. [length \in 1..N |-> s[length]] = [length \in 1..N |-> Level(s, items, length)]
    BY <2>4, Zenon
  <2>7. s = [length \in 1..N |-> Level(s, items, length)]
    BY <2>5, <2>6, Zenon
  <2>8. QED BY <2>7, Zenon
<1>3. root = [length \in 1..N |-> Level(root, items, length)]
  BY <1>2, Zenon DEF Level
<1> HIDE DEF root
<1>4. AreRoots(root, items, N)
  BY <1>3, Zenon DEF AreRoots
<1>5. QED BY <1>1, <1>4

\* A digest says which node it is of: a leaf and its bytes, or the digests of
\* its two children.
LEMMA LeafHashSays ==
  ASSUME NEW T, NEW a \in Seq(T), NEW b \in Seq(T), LeafHash(a) = LeafHash(b)
  PROVE  a = b
<1>1. <<Byte(0)>> \o a = <<Byte(0)>> \o b
  BY DEF LeafHash, Sha256, LeafPrefix
<1> DEFINE zero == Byte(0)
<1>2. <<zero>> \o a = <<zero>> \o b
  BY <1>1
<1> HIDE DEF zero
<1>3. /\ Len(a) \in Nat /\ Len(b) \in Nat
      /\ Len(<<zero>> \o a) = 1 + Len(a) /\ Len(<<zero>> \o b) = 1 + Len(b)
      /\ \A i \in 1 .. Len(a) : (<<zero>> \o a)[1 + i] = a[i]
      /\ \A i \in 1 .. Len(b) : (<<zero>> \o b)[1 + i] = b[i]
  OBVIOUS
<1>4. Len(a) = Len(b)
  BY <1>2, <1>3
<1>5. \A i \in 1 .. Len(a) : a[i] = b[i]
  BY <1>2, <1>3, <1>4
<1>6. QED BY <1>4, <1>5, SeqEqual

LEMMA InnerHashSays ==
  ASSUME NEW a, NEW b, NEW c, NEW d, InnerHash(a, b) = InnerHash(c, d)
  PROVE  a = c /\ b = d
<1>1. InnerPrefix \o <<a, b>> = InnerPrefix \o <<c, d>>
  BY DEF InnerHash, Sha256
<1> DEFINE one == Byte(1)
<1>2. <<one>> \o <<a, b>> = <<one>> \o <<c, d>>
  BY <1>1 DEF InnerPrefix
<1> HIDE DEF one
<1>3. \A x, y : (<<one>> \o <<x, y>>)[2] = x /\ (<<one>> \o <<x, y>>)[3] = y
  OBVIOUS
<1>4. QED BY <1>2, <1>3

LEMMA LeafIsNotInner ==
  ASSUME NEW T, NEW a \in Seq(T), NEW c, NEW d
  PROVE  LeafHash(a) # InnerHash(c, d)
<1> SUFFICES ASSUME LeafHash(a) = InnerHash(c, d) PROVE FALSE
  OBVIOUS
<1> DEFINE zero == Byte(0)
           one == Byte(1)
<1>1. <<zero>> \o a = <<one>> \o <<c, d>>
  BY DEF LeafHash, InnerHash, Sha256, LeafPrefix, InnerPrefix
<1>2. zero # one
  BY DEF Byte
<1> HIDE DEF zero, one
<1>3. (<<zero>> \o a)[1] = zero /\ (<<one>> \o <<c, d>>)[1] = one
  OBVIOUS
<1>4. QED BY <1>1, <1>2, <1>3

LEMMA NothingHashesEmpty ==
  ASSUME NEW T, NEW a \in Seq(T), NEW c, NEW d
  PROVE  EmptyHash # LeafHash(a) /\ EmptyHash # InnerHash(c, d)
<1> DEFINE zero == Byte(0)
           one == Byte(1)
<1>1. EmptyHash = LeafHash(a) => <<>> = <<zero>> \o a
  BY DEF EmptyHash, LeafHash, Sha256, LeafPrefix
<1>2. EmptyHash = InnerHash(c, d) => <<>> = <<one>> \o <<c, d>>
  BY DEF EmptyHash, InnerHash, Sha256, InnerPrefix
<1> HIDE DEF zero, one
<1>3. <<zero>> \o a # <<>>
  <2>1. Len(<<zero>> \o a) = 1 + Len(a) /\ Len(a) \in Nat /\ Len(<<>>) = 0
    OBVIOUS
  <2> DEFINE s == <<zero>> \o a
  <2>2. Len(s) # Len(<<>>)
    BY <2>1
  <2> HIDE DEF s
  <2>3. s # <<>>
    BY <2>2, Zenon
  <2>4. QED BY <2>3 DEF s
<1>4. <<one>> \o <<c, d>> # <<>>
  <2>1. Len(<<one>> \o <<c, d>>) = 3 /\ Len(<<>>) = 0
    OBVIOUS
  <2> DEFINE s == <<one>> \o <<c, d>>
  <2>2. Len(s) # Len(<<>>)
    BY <2>1
  <2> HIDE DEF s
  <2>3. s # <<>>
    BY <2>2, Zenon
  <2>4. QED BY <2>3 DEF s
<1>5. QED BY <1>1, <1>2, <1>3, <1>4

Stretch(f, items, n, i) == n \in Nat /\ n > 0 /\ i \in Nat /\ i > 0 /\ i + n <= Len(items) + 1

LEMMA RootOfStretch ==
  ASSUME NEW T, NEW items \in Seq(Seq(T)), NEW f, AreRoots(f, items, Len(items)),
         NEW n, NEW i, Stretch(f, items, n, i)
  PROVE  /\ items[i] \in Seq(T)
         /\ n = 1 => f[n][i] = LeafHash(items[i])
         /\ n > 1 => \E k \in 1 .. n - 1 :
              /\ f[n][i] = InnerHash(f[k][i], f[n - k][i + k])
              /\ Stretch(f, items, k, i) /\ Stretch(f, items, n - k, i + k)
<1> DEFINE Leaf == Seq(T)
<1>1. /\ Len(items) \in Nat /\ n \in Nat /\ i \in Nat /\ n \in 1 .. Len(items)
      /\ i \in 1 .. Len(items) /\ i \in 1 .. Len(items) - n + 1
  BY DEF Stretch
<1>2. items[i] \in Seq(T)
  <2>1. items \in Seq(Leaf)
    OBVIOUS
  <2> HIDE DEF Leaf
  <2>2. items[i] \in Leaf
    BY <1>1, <2>1
  <2>3. QED BY <2>2 DEF Leaf
<1>3. f[n] = Level(f, items, n)
  BY <1>1 DEF AreRoots
<1>4. f[n][i] = IF n = 1 THEN LeafHash(items[i])
                ELSE InnerHash(f[SplitPoint(n)][i], f[n - SplitPoint(n)][i + SplitPoint(n)])
  BY <1>1, <1>3, Zenon DEF Level
<1>5. ASSUME n > 1
      PROVE  \E k \in 1 .. n - 1 :
              /\ f[n][i] = InnerHash(f[k][i], f[n - k][i + k])
              /\ Stretch(f, items, k, i) /\ Stretch(f, items, n - k, i + k)
  <2> DEFINE k == SplitPoint(n)
  <2>1. k \in 1 .. n - 1
    BY <1>1, <1>5, SplitPointIs
  <2>2. f[n][i] = InnerHash(f[k][i], f[n - k][i + k])
    BY <1>4, <1>5
  <2> HIDE DEF k
  <2>3. Stretch(f, items, k, i) /\ Stretch(f, items, n - k, i + k)
    BY <1>1, <2>1 DEF Stretch
  <2>4. QED BY <2>1, <2>2, <2>3
<1>6. QED BY <1>2, <1>4, <1>5

SameFrom(items, i, others, j, n) == \A d \in 0 .. n - 1 : items[i + d] = others[j + d]

LEMMA SameRoots ==
  ASSUME NEW T, NEW items \in Seq(Seq(T)), NEW others \in Seq(Seq(T)),
         NEW f, AreRoots(f, items, Len(items)),
         NEW g, AreRoots(g, others, Len(others)),
         NEW n, NEW i, Stretch(f, items, n, i),
         NEW m, NEW j, Stretch(g, others, m, j),
         f[n][i] = g[m][j]
  PROVE  n = m /\ SameFrom(items, i, others, j, n)
<1> DEFINE Same(l, x, y) == SameFrom(items, x, others, y, l)
           Says(l) == \A x, h, y : Stretch(f, items, l, x) /\ Stretch(g, others, h, y)
                                      /\ f[l][x] = g[h][y] => l = h /\ Same(l, x, y)
           Q == {l \in Nat : Says(l)}
<1>1. ASSUME NEW l \in Nat, \A e \in Nat : e < l => e \in Q PROVE l \in Q
  <2> SUFFICES Says(l)
    OBVIOUS
  <2> SUFFICES ASSUME NEW x, NEW h, NEW y, Stretch(f, items, l, x),
                      Stretch(g, others, h, y), f[l][x] = g[h][y]
               PROVE  l = h /\ Same(l, x, y)
    BY Zenon
  <2>1. /\ l \in Nat /\ l > 0 /\ x \in Nat /\ x > 0
        /\ h \in Nat /\ h > 0 /\ y \in Nat /\ y > 0
    BY DEF Stretch
  <2>2. /\ items[x] \in Seq(T)
        /\ l = 1 => f[l][x] = LeafHash(items[x])
        /\ l > 1 => \E k \in 1 .. l - 1 :
              /\ f[l][x] = InnerHash(f[k][x], f[l - k][x + k])
              /\ Stretch(f, items, k, x) /\ Stretch(f, items, l - k, x + k)
    BY RootOfStretch
  <2>3. /\ others[y] \in Seq(T)
        /\ h = 1 => g[h][y] = LeafHash(others[y])
        /\ h > 1 => \E k \in 1 .. h - 1 :
              /\ g[h][y] = InnerHash(g[k][y], g[h - k][y + k])
              /\ Stretch(g, others, k, y) /\ Stretch(g, others, h - k, y + k)
    BY RootOfStretch
  <2>4. CASE l = 1 /\ h = 1
    <3>1. items[x] = others[y]
      BY <2>2, <2>3, <2>4, LeafHashSays
    <3>2. QED BY <2>1, <2>4, <3>1 DEF SameFrom
  <2>5. CASE l = 1 /\ h > 1
    BY <2>2, <2>3, <2>5, LeafIsNotInner
  <2>6. CASE l > 1 /\ h = 1
    BY <2>2, <2>3, <2>6, LeafIsNotInner
  <2>7. CASE l > 1 /\ h > 1
    <3>1. PICK k \in 1 .. l - 1 :
            /\ f[l][x] = InnerHash(f[k][x], f[l - k][x + k])
            /\ Stretch(f, items, k, x) /\ Stretch(f, items, l - k, x + k)
      BY <2>2, <2>7
    <3>2. PICK e \in 1 .. h - 1 :
            /\ g[h][y] = InnerHash(g[e][y], g[h - e][y + e])
            /\ Stretch(g, others, e, y) /\ Stretch(g, others, h - e, y + e)
      BY <2>3, <2>7
    <3>3. f[k][x] = g[e][y] /\ f[l - k][x + k] = g[h - e][y + e]
      <4>1. InnerHash(f[k][x], f[l - k][x + k]) = InnerHash(g[e][y], g[h - e][y + e])
        BY <3>1, <3>2
      <4> DEFINE a == f[k][x]
                 b == f[l - k][x + k]
                 c == g[e][y]
                 d == g[h - e][y + e]
      <4>2. InnerHash(a, b) = InnerHash(c, d)
        BY <4>1
      <4> HIDE DEF a, b, c, d
      <4>3. a = c /\ b = d
        BY <4>2, InnerHashSays
      <4>4. QED BY <4>3 DEF a, b, c, d
    <3>4. Says(k) /\ Says(l - k)
      <4>1. k \in Nat /\ k < l /\ l - k \in Nat /\ l - k < l
        BY <2>1
      <4> HIDE DEF Says
      <4>2. QED BY <1>1, <4>1
    <3>5. k = e /\ Same(k, x, y)
      <4> HIDE DEF Same
      <4>1. QED BY <3>1, <3>2, <3>3, <3>4
    <3>6. l - k = h - e /\ Same(l - k, x + k, y + e)
      <4> HIDE DEF Same
      <4>1. QED BY <3>1, <3>2, <3>3, <3>4
    <3>7. l = h
      BY <2>1, <3>5, <3>6
    <3>8. ASSUME NEW d \in 0 .. l - 1 PROVE items[x + d] = others[y + d]
      <4>1. CASE d < k
        <5>1. d \in 0 .. k - 1
          BY <2>1, <4>1
        <5>2. QED BY <3>5, <5>1 DEF SameFrom
      <4>2. CASE d >= k
        <5>1. /\ d - k \in 0 .. l - k - 1
              /\ (x + k) + (d - k) = x + d /\ (y + e) + (d - k) = y + d
          BY <2>1, <3>5, <4>2
        <5>2. items[(x + k) + (d - k)] = others[(y + e) + (d - k)]
          BY <3>6, <5>1 DEF SameFrom
        <5>3. QED BY <5>1, <5>2
      <4>3. d \in Int /\ k \in Int
        OBVIOUS
      <4>4. d < k \/ d >= k
        BY <4>3
      <4>5. QED BY <4>1, <4>2, <4>4
    <3>9. QED BY <3>7, <3>8 DEF SameFrom
  <2>8. l = 1 \/ l > 1
    BY <2>1
  <2>9. h = 1 \/ h > 1
    BY <2>1
  <2>10. QED BY <2>4, <2>5, <2>6, <2>7, <2>8, <2>9
<1>2. Nat \subseteq Q
  <2> HIDE DEF Q
  <2>1. QED BY <1>1, NumbersInduction
<1>3. n \in Nat
  BY DEF Stretch
<1>4. Says(n)
  <2> HIDE DEF Says
  <2>1. QED BY <1>2, <1>3
<1>5. QED BY <1>4

\* The root of a list says which items it is of, how many there are and in
\* which order: the prefixes keep a leaf from being taken for an inner node,
\* and the split of a number of items is of no other number. (Sha256 is the
\* term of its bytes: no two have one digest.)
THEOREM RootsSayItems ==
  ASSUME NEW T, NEW items \in Seq(Seq(T)), NEW others \in Seq(Seq(T))
  PROVE  RootSaysItems(items, others)
<1> SUFFICES ASSUME RootHash(items) = RootHash(others) PROVE items = others
  BY DEF RootSaysItems
<1>1. /\ Len(items) \in Nat /\ Len(others) \in Nat
      /\ items # <<>> => Len(items) > 0
      /\ others # <<>> => Len(others) > 0
  <2> DEFINE Leaf == Seq(T)
  <2>1. items \in Seq(Leaf) /\ others \in Seq(Leaf)
    OBVIOUS
  <2> HIDE DEF Leaf
  <2>2. QED BY <2>1, EmptySeq
<1>2. ASSUME NEW list \in Seq(Seq(T)), list # <<>>, Len(list) \in Nat, Len(list) > 0
      PROVE  \E root : /\ AreRoots(root, list, Len(list))
                       /\ RootHash(list) = root[Len(list)][1]
                       /\ Stretch(root, list, Len(list), 1)
                       /\ EmptyHash # RootHash(list)
  <2>1. PICK root : /\ AreRoots(root, list, Len(list))
                    /\ RootHash(list) = root[Len(list)][1]
    BY <1>2, RootHashIs
  <2>2. Stretch(root, list, Len(list), 1)
    BY <1>2 DEF Stretch
  <2> DEFINE n == Len(list)
  <2>3. /\ list[1] \in Seq(T)
        /\ n = 1 => root[n][1] = LeafHash(list[1])
        /\ n > 1 => \E k \in 1 .. n - 1 :
             /\ root[n][1] = InnerHash(root[k][1], root[n - k][1 + k])
             /\ Stretch(root, list, k, 1) /\ Stretch(root, list, n - k, 1 + k)
    BY <2>1, <2>2, RootOfStretch
  <2>4. EmptyHash # RootHash(list)
    <3>1. n \in Nat /\ n > 0 /\ RootHash(list) = root[n][1]
      BY <1>2, <2>1
    <3> HIDE DEF n
    <3>2. n = 1 \/ n > 1
      BY <3>1
    <3>3. QED BY <2>3, <3>1, <3>2, NothingHashesEmpty
  <2>5. QED BY <2>1, <2>2, <2>4
<1>3. CASE items = <<>> \/ others = <<>>
  <2>1. items = <<>> => RootHash(items) = EmptyHash
    BY RootHashIs
  <2>2. others = <<>> => RootHash(others) = EmptyHash
    BY RootHashIs
  <2>3. QED BY <1>1, <1>2, <1>3, <2>1, <2>2
<1>4. CASE items # <<>> /\ others # <<>>
  <2>1. PICK f : /\ AreRoots(f, items, Len(items))
                 /\ RootHash(items) = f[Len(items)][1]
                 /\ Stretch(f, items, Len(items), 1)
    BY <1>1, <1>2, <1>4
  <2>2. PICK g : /\ AreRoots(g, others, Len(others))
                 /\ RootHash(others) = g[Len(others)][1]
                 /\ Stretch(g, others, Len(others), 1)
    BY <1>1, <1>2, <1>4
  <2>3. f[Len(items)][1] = g[Len(others)][1]
    BY <2>1, <2>2
  <2>4. /\ Len(items) = Len(others)
        /\ SameFrom(items, 1, others, 1, Len(items))
    <3> DEFINE n == Len(items)
               m == Len(others)
    <3>1. f[n][1] = g[m][1]
      BY <2>3
    <3>2. AreRoots(f, items, Len(items)) /\ Stretch(f, items, n, 1)
      BY <2>1
    <3>3. AreRoots(g, others, Len(others)) /\ Stretch(g, others, m, 1)
      BY <2>2
    <3> HIDE DEF n, m
    <3>4. n = m /\ SameFrom(items, 1, others, 1, n)
      BY <3>1, <3>2, <3>3, SameRoots
    <3>5. QED BY <3>4 DEF n, m
  <2>5. ASSUME NEW i \in 1 .. Len(items) PROVE items[i] = others[i]
    <3>1. i - 1 \in 0 .. Len(items) - 1 /\ 1 + (i - 1) = i
      BY <1>1
    <3>2. QED BY <2>4, <3>1 DEF SameFrom
  <2>6. QED BY <2>4, <2>5, SeqEqual
<1>5. QED BY <1>3, <1>4

\* What hash_store_infos is given: stores of distinct names, which before
\* puts in order. T are the tokens of the names, H the hashes.
AreStores(infos, T, H, before) ==
  /\ infos \subseteq [name : Seq(T), hash : H] /\ IsFiniteSet(infos)
  /\ \A a, b \in infos : a.name = b.name => a = b
  /\ Orders(before, {info.name : info \in infos})

PairsOf(infos) == {PairOf(info) : info \in infos}

Tokens(T, H) == T \cup {Byte(n) : n \in Nat} \cup {Sha256(<<h>>) : h \in H}

LEMMA PairFields ==
  ASSUME NEW T, NEW H, NEW info \in [name : Seq(T), hash : H]
  PROVE  /\ PairOf(info).key = info.name /\ info.name \in Seq(T)
         /\ PairOf(info).value = <<Sha256(<<info.hash>>)>> /\ info.hash \in H
BY DEF PairOf

LEMMA PairsFinite ==
  ASSUME NEW infos, IsFiniteSet(infos)
  PROVE  IsFiniteSet(PairsOf(infos))
<1> DEFINE f == [info \in infos |-> PairOf(info)]
<1>1. f \in Surjection(infos, PairsOf(infos))
  BY DEF Surjection, PairsOf
<1>2. QED BY <1>1, FS_Surjection

\* The bytes of a pair say what it is.
LEMMA ToBytesSay ==
  ASSUME NEW T, NEW H,
         NEW a \in [name : Seq(T), hash : H], NEW b \in [name : Seq(T), hash : H]
  PROVE  /\ ToBytes(PairOf(a)) \in Seq(Tokens(T, H))
         /\ ToBytes(PairOf(a)) = ToBytes(PairOf(b)) => a = b
<1> DEFINE U == Tokens(T, H)
           Said(info) == ToBytes(PairOf(info))
<1>1. ASSUME NEW info \in [name : Seq(T), hash : H]
      PROVE  /\ Said(info) \in Seq(U)
             /\ Said(info)[1] = Byte(Len(info.name))
             /\ Len(info.name) \in Nat
             /\ \A i \in 1 .. Len(info.name) : Said(info)[1 + i] = info.name[i]
             /\ Said(info)[Len(info.name) + 3] = Sha256(<<info.hash>>)
  <2> DEFINE name == info.name
             first == Byte(Len(name))
             middle == Byte(32)
             last == Sha256(<<info.hash>>)
  <2>1. Said(info) = <<first>> \o name \o <<middle>> \o <<last>>
    <3>1. PairOf(info).key = name /\ PairOf(info).value = <<last>>
      BY PairFields
    <3>2. Said(info) = <<Byte(Len(PairOf(info).key))>> \o PairOf(info).key
                         \o <<Byte(32)>> \o PairOf(info).value
      BY Zenon DEF ToBytes
    <3> HIDE DEF Said, name, middle, last
    <3>3. Said(info) = <<Byte(Len(name))>> \o name \o <<Byte(32)>> \o <<last>>
      BY <3>1, <3>2, Zenon
    <3>4. QED BY <3>3, Zenon DEF middle
  <2>2. /\ name \in Seq(U) /\ Len(name) \in Nat
        /\ first \in U /\ middle \in U /\ last \in U
    <3>1. name \in Seq(T) /\ Len(name) \in Nat /\ info.hash \in H
      BY PairFields
    <3>2. T \subseteq U
      BY DEF Tokens
    <3>3. name \in Seq(U)
      <4> HIDE DEF name, U
      <4>1. QED BY <3>1, <3>2, SeqMonotonic
    <3>4. first \in U /\ middle \in U /\ last \in U
      BY <3>1, Zenon, 32 \in Nat DEF Tokens
    <3>5. QED BY <3>1, <3>3, <3>4
  <2> HIDE DEF name, first, middle, last, U, Said
  <2>3. /\ Said(info) \in Seq(U)
        /\ Said(info)[1] = first
        /\ \A i \in 1 .. Len(name) : Said(info)[1 + i] = name[i]
        /\ Said(info)[Len(name) + 3] = last
    BY <2>1, <2>2
  <2>4. QED BY <2>2, <2>3 DEF name, first, last
<1>2. ASSUME Said(a) = Said(b) PROVE a = b
  <2>1. Len(a.name) = Len(b.name)
    <3>1. Byte(Len(a.name)) = Byte(Len(b.name))
      <4> HIDE DEF Said
      <4>1. QED BY <1>1, <1>2
    <3>2. QED BY <3>1 DEF Byte
  <2> HIDE DEF Said
  <2>2. \A i \in 1 .. Len(a.name) : a.name[i] = b.name[i]
    BY <1>1, <1>2, <2>1
  <2>3. a.name = b.name
    <3>1. a.name \in Seq(T) /\ b.name \in Seq(T)
      OBVIOUS
    <3>2. QED BY <2>1, <2>2, <3>1, SeqEqual
  <2>4. Sha256(<<a.hash>>) = Sha256(<<b.hash>>)
    BY <1>1, <1>2, <2>1
  <2>5. a.hash = b.hash
    BY <2>4 DEF Sha256
  <2>6. QED BY <2>3, <2>5
<1>3. QED BY <1>1, <1>2

LEMMA HashOfStoresIs ==
  ASSUME NEW infos, NEW T, NEW H, NEW before, AreStores(infos, T, H, before)
  PROVE  \E n \in Nat : \E s \in [1..n -> PairsOf(infos)] :
           /\ Lists(s, n, PairsOf(infos))
           /\ HashOfStores(infos, before) = RootHash([i \in 1..n |-> ToBytes(s[i])])
<1> DEFINE P == PairsOf(infos)
           n == Cardinality(P)
           R == {pq \in P \X P : <<pq[1].key, pq[2].key>> \in before}
           names == {info.name : info \in infos}
           sorted == CHOOSE s \in [1..n -> P] :
                        \A i, j \in DOMAIN s : i < j => <<s[i].key, s[j].key>> \in before
<1>1. IsFiniteSet(P)
  BY PairsFinite DEF AreStores
<1>2. n \in Nat
  BY <1>1, FS_CardinalityType
<1>3. ASSUME NEW p \in P, NEW q \in P
      PROVE  /\ p.key \in names /\ q.key \in names
             /\ p.key = q.key => p = q
             /\ <<p, q>> \in R <=> <<p.key, q.key>> \in before
  <2>1. PICK a \in infos : p = PairOf(a)
    BY DEF PairsOf
  <2>2. PICK b \in infos : q = PairOf(b)
    BY DEF PairsOf
  <2>3. p.key = a.name /\ q.key = b.name
    BY <2>1, <2>2 DEF PairOf
  <2>4. p.key = q.key => p = q
    BY <2>1, <2>2, <2>3 DEF AreStores
  <2>5. QED BY <2>3, <2>4
<1>4. Orders(R, P)
  <2>1. Orders(before, names)
    BY DEF AreStores
  <2> HIDE DEF P, R, names
  <2>2. QED BY <1>3, <2>1 DEF Orders
<1>5. \E s \in [1..n -> P] : \A i, j \in DOMAIN s : i < j => <<s[i].key, s[j].key>> \in before
  <2>1. PICK s \in [1..n -> P] : Ascending(s, R)
    <3> HIDE DEF P, R
    <3>1. QED BY <1>1, <1>4, AscendingExists
  <2> HIDE DEF P, R, n
  <2>2. ASSUME NEW i \in 1..n, NEW j \in 1..n, i < j PROVE <<s[i].key, s[j].key>> \in before
    BY <1>3, <2>1, <2>2 DEF Ascending
  <2>3. QED BY <2>1, <2>2
<1>6. /\ sorted \in [1..n -> P]
      /\ \A i, j \in DOMAIN sorted : i < j => <<sorted[i].key, sorted[j].key>> \in before
  <2> HIDE DEF n, P
  <2>1. QED BY <1>5
<1>7. HashOfStores(infos, before) = RootHash([i \in DOMAIN sorted |-> ToBytes(sorted[i])])
  BY Zenon DEF HashOfStores, PairsOf
<1> HIDE DEF sorted
<1>8. Ascending(sorted, R)
  <2> HIDE DEF P, R, n
  <2>1. QED BY <1>3, <1>6 DEF Ascending
<1>9. Lists(sorted, n, P)
  <2> HIDE DEF P, R
  <2>1. QED BY <1>1, <1>4, <1>6, <1>8, AscendingOnto
<1>10. DOMAIN sorted = 1..n
  BY <1>6
<1> HIDE DEF n, P
<1>11. HashOfStores(infos, before) = RootHash([i \in 1..n |-> ToBytes(sorted[i])])
  BY <1>7, <1>10
<1>12. \E s \in [1..n -> P] :
         /\ Lists(s, n, P)
         /\ HashOfStores(infos, before) = RootHash([i \in 1..n |-> ToBytes(s[i])])
  BY <1>6, <1>9, <1>11, Zenon
<1>13. QED BY <1>2, <1>12 DEF P

\* The application hash says which stores there are and what each one's hash
\* is: no two different lists of stores have one, whatever their names (also
\* when one is the beginning of the other) and their hashes.
THEOREM HashesSayStores ==
  ASSUME NEW infos, NEW others, NEW T, NEW H, NEW before,
         AreStores(infos, T, H, before), AreStores(others, T, H, before)
  PROVE  HashSaysStores(infos, others, before)
<1> SUFFICES ASSUME HashOfStores(infos, before) = HashOfStores(others, before)
             PROVE  infos = others
  BY DEF HashSaysStores
<1> DEFINE U == Tokens(T, H)
           bytes(n, s) == [i \in 1..n |-> ToBytes(s[i])]
<1>1. PICK n \in Nat : \E s \in [1..n -> PairsOf(infos)] :
        /\ Lists(s, n, PairsOf(infos))
        /\ HashOfStores(infos, before) = RootHash(bytes(n, s))
  BY HashOfStoresIs
<1>2. PICK s \in [1..n -> PairsOf(infos)] :
        /\ Lists(s, n, PairsOf(infos))
        /\ HashOfStores(infos, before) = RootHash(bytes(n, s))
  BY <1>1
<1>3. PICK m \in Nat : \E t \in [1..m -> PairsOf(others)] :
        /\ Lists(t, m, PairsOf(others))
        /\ HashOfStores(others, before) = RootHash(bytes(m, t))
  BY HashOfStoresIs
<1>4. PICK t \in [1..m -> PairsOf(others)] :
        /\ Lists(t, m, PairsOf(others))
        /\ HashOfStores(others, before) = RootHash(bytes(m, t))
  BY <1>3
<1>5. \A i \in 1..n : \E a \in infos : s[i] = PairOf(a)
  BY DEF PairsOf
<1>6. \A i \in 1..m : \E a \in others : t[i] = PairOf(a)
  BY DEF PairsOf
<1>7. /\ infos \subseteq [name : Seq(T), hash : H]
      /\ others \subseteq [name : Seq(T), hash : H]
  BY DEF AreStores
<1>8. /\ \A i \in 1..n : ToBytes(s[i]) \in Seq(U)
      /\ \A i \in 1..m : ToBytes(t[i]) \in Seq(U)
  BY <1>5, <1>6, <1>7, ToBytesSay
<1>9. bytes(n, s) = bytes(m, t)
  <2> HIDE DEF U
  <2>1. bytes(n, s) \in Seq(Seq(U)) /\ bytes(m, t) \in Seq(Seq(U))
    BY <1>8, IsASeq
  <2>2. RootHash(bytes(n, s)) = RootHash(bytes(m, t))
    BY <1>2, <1>4
  <2> DEFINE x == bytes(n, s)
             y == bytes(m, t)
  <2>3. x \in Seq(Seq(U)) /\ y \in Seq(Seq(U)) /\ RootHash(x) = RootHash(y)
    BY <2>1, <2>2
  <2> HIDE DEF x, y
  <2>4. x = y
    BY <2>3, RootsSayItems DEF RootSaysItems
  <2>5. QED BY <2>4 DEF x, y
<1>10. n = m /\ \A i \in 1..n : ToBytes(s[i]) = ToBytes(t[i])
  <2> DEFINE x == bytes(n, s)
             y == bytes(m, t)
  <2>1. /\ Len(x) = n /\ \A i \in 1..n : x[i] = ToBytes(s[i])
        /\ Len(y) = m /\ \A i \in 1..m : y[i] = ToBytes(t[i])
    OBVIOUS
  <2>2. x = y
    BY <1>9
  <2> HIDE DEF x, y
  <2>3. n = m
    BY <2>1, <2>2
  <2>4. QED BY <2>1, <2>2, <2>3
<1>11. ASSUME NEW i \in 1..n, NEW a \in infos, NEW b \in others,
             s[i] = PairOf(a), t[i] = PairOf(b)
      PROVE  a = b
  <2>1. ToBytes(PairOf(a)) = ToBytes(PairOf(b))
    BY <1>10, <1>11
  <2>2. QED BY <1>7, <2>1, ToBytesSay
<1>12. ASSUME NEW a \in infos PROVE a \in others
  <2>1. PairOf(a) \in PairsOf(infos)
    BY DEF PairsOf
  <2>2. PICK i \in 1..n : s[i] = PairOf(a)
    BY <1>2, <2>1 DEF Lists
  <2>3. PICK b \in others : t[i] = PairOf(b)
    BY <1>6, <1>10
  <2>4. QED BY <1>11, <2>2, <2>3
<1>13. ASSUME NEW b \in others PROVE b \in infos
  <2>1. PairOf(b) \in PairsOf(others)
    BY DEF PairsOf
  <2>2. PICK i \in 1..m : t[i] = PairOf(b)
    BY <1>4, <2>1 DEF Lists
  <2>3. PICK a \in infos : s[i] = PairOf(a)
    BY <1>5, <1>10
  <2>4. QED BY <1>10, <1>11, <2>2, <2>3
<1>14. QED BY <1>12, <1>13

-----------------------------------------------------------------------------
(* Decoded transactions.                                                   *)

\* A list of results that does not fail is all of them, and none fails.
LEMMA CollectedSucceeds ==
  ASSUME NEW n \in Nat, NEW results, DOMAIN results = 1..n, ~ Failed(Collected(results))
  PROVE  /\ Collected(results) = results
         /\ \A i \in DOMAIN results : ~ Failed(results[i])
<1> DEFINE failures == {i \in DOMAIN results : Failed(results[i])}
<1>1. failures = {}
  <2> SUFFICES ASSUME failures # {} PROVE FALSE
    OBVIOUS
  <2>1. PICK l \in failures : \A i \in failures : l <= i
    <3>1. failures \subseteq Nat
      OBVIOUS
    <3> HIDE DEF failures
    <3>2. QED BY <3>1, LeastExists
  <2>2. Min(failures) \in failures
    <3>1. \A i \in failures : i \in Nat
      OBVIOUS
    <3> HIDE DEF failures
    <3>2. QED BY <2>1, <3>1 DEF Min
  <2>3. Collected(results) = results[Min(failures)]
    BY DEF Collected
  <2>4. QED BY <2>2, <2>3
<1>2. QED BY <1>1 DEF Collected

LEMMA CoinsAreSendCoins ==
  ASSUME NEW R, NEW raws \in Seq(R), ~ Failed(SendCoinsFrom(raws))
  PROVE  AreSendCoins(SendCoinsFrom(raws))
<1> DEFINE results == Each(CoinFrom, raws)
           coins == Collected(results)
           n == Len(raws)
<1>1. n \in Nat /\ DOMAIN results = 1..n /\ \A i \in 1..n : results[i] = CoinFrom(raws[i])
  BY DEF Each
<1>2. SendCoinsFrom(raws) = IF ~ Failed(coins) /\ ValidateCoins(coins) THEN coins ELSE Malformed
  BY DEF SendCoinsFrom, NewSendCoins
<1> HIDE DEF results, n
<1>3. ~ Failed(coins) /\ ValidateCoins(coins) /\ SendCoinsFrom(raws) = coins
  BY <1>2 DEF Failed
<1>4. coins = results /\ \A i \in 1..n : ~ Failed(results[i])
  BY <1>1, <1>3, CollectedSucceeds
<1>5. ASSUME NEW i \in 1..n PROVE results[i].denom \in Denom /\ results[i].amount \in Uint
  <2> DEFINE denom == DenomFrom(raws[i].denom)
             amount == ParsedUint(raws[i].amount)
  <2>1. results[i] = IF Malformed \in {denom, amount} THEN Malformed
                     ELSE [denom |-> denom, amount |-> amount]
    BY <1>1 DEF CoinFrom
  <2>2. denom \in Denom \cup {Malformed} /\ amount \in Uint \cup {Malformed}
    BY DEF DenomFrom, ParsedUint, Fits
  <2> HIDE DEF denom, amount
  <2>3. denom # Malformed /\ amount # Malformed /\ results[i] = [denom |-> denom, amount |-> amount]
    BY <1>4, <2>1 DEF Failed
  <2>4. QED BY <2>2, <2>3
<1> HIDE DEF coins
<1>6. /\ coins # <<>> /\ Len(coins) = n
      /\ \A i \in 1..n : coins[i].denom \in Denom /\ coins[i].amount \in Uint \ {0}
      /\ \A i \in 2..n : coins[i - 1].denom < coins[i].denom
  <2>1. Len(coins) = n /\ DOMAIN coins = 1..n
    BY <1>1, <1>4
  <2>2. QED BY <1>3, <1>4, <1>5, <2>1 DEF ValidateCoins
<1>7. Len(coins) > 0
  <2>1. n # 0
    <3>1. ASSUME n = 0 PROVE coins = <<>>
      BY <1>1, <1>4, <3>1 DEF results, Each
    <3>2. QED BY <1>6, <3>1
  <2>2. QED BY <1>1, <1>6, <2>1
<1>8. \A i, j \in 1..n : i < j => coins[i].denom < coins[j].denom
  <2> DEFINE Q == {j \in Nat : j \in 1..n => \A i \in 1..n : i < j => coins[i].denom < coins[j].denom}
  <2>1. ASSUME NEW j \in Nat, \A l \in Nat : l < j => l \in Q PROVE j \in Q
    <3> SUFFICES ASSUME j \in 1..n, NEW i \in 1..n, i < j
                 PROVE  coins[i].denom < coins[j].denom
      OBVIOUS
    <3>1. j \in 2..n /\ j - 1 \in Nat /\ j - 1 < j /\ j - 1 \in 1..n
      BY <1>1
    <3>2. /\ coins[j - 1].denom < coins[j].denom
          /\ coins[i].denom \in Nat /\ coins[j - 1].denom \in Nat /\ coins[j].denom \in Nat
      BY <1>6, <3>1, EncodingAssumption
    <3>3. CASE i = j - 1
      BY <3>2, <3>3
    <3>4. CASE i # j - 1
      <4>1. i < j - 1
        BY <1>1, <3>4
      <4>2. j - 1 \in Q
        <5> HIDE DEF Q
        <5>1. QED BY <2>1, <3>1
      <4>3. coins[i].denom < coins[j - 1].denom
        BY <3>1, <4>1, <4>2
      <4>4. QED BY <3>2, <4>3
    <3>5. QED BY <3>3, <3>4
  <2> HIDE DEF Q
  <2>2. Nat \subseteq Q
    BY <2>1, NumbersInduction
  <2>3. QED BY <1>1, <2>2 DEF Q
<1>9. DOMAIN coins = 1..n
  BY <1>1, <1>4
<1>10. AreSendCoins(coins)
  BY <1>6, <1>7, <1>8, <1>9 DEF AreSendCoins
<1>11. QED BY <1>3, <1>10

LEMMA MessageHasSendCoins ==
  ASSUME NEW R, NEW any, ~ Failed(MessageFrom(any)),
         any.type_url = "MsgSend" /\ any.value # Malformed => any.value.amount \in Seq(R)
  PROVE  AreSendCoins(MessageFrom(any).amount)
<1> DEFINE raw == any.value
           from == FromBech32(raw.from_address)
           to == FromBech32(raw.to_address)
           amount == SendCoinsFrom(raw.amount)
<1>1. any.type_url = "MsgSend" /\ MessageFrom(any) = Unwrapped(Decoded(MsgSendFrom, raw))
  BY DEF MessageFrom, BankMessageFrom, Failed
<1>2. ~ Failed(Decoded(MsgSendFrom, raw)) /\ MessageFrom(any) = Decoded(MsgSendFrom, raw)
  BY <1>1 DEF Unwrapped, Failed
<1>3. raw # Malformed /\ MessageFrom(any) = MsgSendFrom(raw) /\ ~ Failed(MsgSendFrom(raw))
  BY <1>2 DEF Decoded, Failed
<1>4. MsgSendFrom(raw) = IF Failed(from) \/ Failed(to) \/ Failed(amount) THEN Malformed
        ELSE [from_address |-> from, to_address |-> to, amount |-> amount]
  BY DEF MsgSendFrom
<1> HIDE DEF from, to, amount
<1>5. ~ Failed(amount) /\ MessageFrom(any).amount = amount
  BY <1>3, <1>4 DEF Failed
<1>6. AreSendCoins(amount)
  BY <1>1, <1>3, <1>5, CoinsAreSendCoins DEF amount
<1>7. QED BY <1>5, <1>6

\* A raw transaction: an absent body or fee is None, and bytes that are no
\* MsgSend are Malformed.
IsRawTx(raw, R) ==
  /\ raw.signatures \in Seq(R)
  /\ raw.body # None =>
       /\ "messages" \in DOMAIN raw.body /\ raw.body.messages \in Seq(R)
       /\ \A i \in DOMAIN raw.body.messages :
            raw.body.messages[i].type_url = "MsgSend" /\ raw.body.messages[i].value # Malformed
              => raw.body.messages[i].value.amount \in Seq(R)
  /\ raw.auth_info # None /\ raw.auth_info.fee # None =>
       /\ {"amount", "payer"} \subseteq DOMAIN raw.auth_info.fee
       /\ raw.auth_info.fee.amount \in Seq(R)

LEMMA FeeHasSendCoins ==
  ASSUME NEW R, NEW raw, {"amount", "payer"} \subseteq DOMAIN raw, raw.amount \in Seq(R),
         ~ Failed(FeeFrom(raw))
  PROVE  FeeFrom(raw).amount # None => AreSendCoins(FeeFrom(raw).amount)
<1> DEFINE payer == Optional(FromBech32, raw.payer)
           allZero == \A i \in DOMAIN raw.amount : ParsedUint(raw.amount[i].amount) = 0
           amount == IF allZero THEN None ELSE SendCoinsFrom(raw.amount)
<1>1. FeeFrom(raw) = IF raw.gas_limit > MaxGasWanted \/ Failed(payer) \/ Failed(amount)
                     THEN Malformed
                     ELSE [raw EXCEPT !.amount = amount, !.payer = payer]
  BY DEF FeeFrom
<1>2. amount # None => amount = SendCoinsFrom(raw.amount)
  OBVIOUS
<1> HIDE DEF payer, allZero, amount
<1>3. ~ Failed(amount) /\ FeeFrom(raw) = [raw EXCEPT !.amount = amount, !.payer = payer]
  BY <1>1 DEF Failed
<1>4. FeeFrom(raw).amount = amount
  BY <1>3
<1>5. amount # None => AreSendCoins(amount)
  BY <1>2, <1>3, CoinsAreSendCoins
<1>6. QED BY <1>4, <1>5

\* Whatever a client sends, of any length and with any bytes in its parts,
\* what is decoded of it is a transaction as run_tx assumes one, or nothing.
THEOREM DecodedTransactionsAreGood ==
  ASSUME NEW R, NEW raw, IsRawTx(raw, R)
  PROVE  DecodesTransactions(raw)
<1> SUFFICES ASSUME ~ Failed(TxFrom(raw)) PROVE IsTransaction(TxFrom(raw))
  BY DEF DecodesTransactions
<1> DEFINE tx == TxFrom(raw)
           auth == IF raw.auth_info = None THEN Malformed ELSE AuthInfoFrom(raw.auth_info)
           body == TxBodyFrom(raw.body)
           data == [i \in DOMAIN raw.signatures |->
                      [signature |-> raw.signatures[i],
                       sequence |-> auth.signer_infos[i].sequence]]
<1>1. tx = IF \/ raw.body = None \/ raw.body.extension_options # <<>>
              \/ Failed(auth) \/ Len(raw.signatures) # Len(auth.signer_infos)
           THEN Malformed
           ELSE IF Failed(body.messages) THEN body.messages
           ELSE [body |-> body, auth_info |-> auth, signatures |-> raw.signatures,
                 signatures_data |-> data]
  BY DEF TxFrom, TxOf
<1>2. ~ Failed(tx)
  OBVIOUS
<1> HIDE DEF tx, auth, body, data
<1>3. /\ raw.body # None /\ ~ Failed(auth) /\ ~ Failed(body.messages)
      /\ Len(raw.signatures) = Len(auth.signer_infos)
      /\ tx = [body |-> body, auth_info |-> auth, signatures |-> raw.signatures,
               signatures_data |-> data]
  BY <1>1, <1>2 DEF Failed
<1>4. \A i \in DOMAIN raw.signatures :
        data[i] = [signature |-> raw.signatures[i], sequence |-> auth.signer_infos[i].sequence]
  BY DEF data
<1>5. ASSUME NEW i \in DOMAIN body.messages PROVE AreSendCoins(body.messages[i].amount)
  <2> DEFINE msgs == raw.body.messages
             results == Each(MessageFrom, msgs)
             n == Len(msgs)
  <2>1. msgs \in Seq(R) /\ body.messages = Collected(results)
    BY <1>3 DEF IsRawTx, TxBodyFrom, body
  <2>2. n \in Nat /\ DOMAIN results = 1..n /\ \A j \in 1..n : results[j] = MessageFrom(msgs[j])
    BY <2>1 DEF Each
  <2> HIDE DEF results, n
  <2>3. body.messages = results /\ \A j \in 1..n : ~ Failed(results[j])
    BY <1>3, <2>1, <2>2, CollectedSucceeds
  <2>4. i \in 1..n /\ i \in DOMAIN msgs
    BY <2>1, <2>2, <2>3 DEF n
  <2>5. ~ Failed(MessageFrom(msgs[i])) /\ body.messages[i] = MessageFrom(msgs[i])
    BY <2>2, <2>3, <2>4
  <2>6. msgs[i].type_url = "MsgSend" /\ msgs[i].value # Malformed => msgs[i].value.amount \in Seq(R)
    BY <1>3, <2>4 DEF IsRawTx
  <2>7. AreSendCoins(MessageFrom(msgs[i]).amount)
    BY <2>5, <2>6, MessageHasSendCoins
  <2>8. QED BY <2>5, <2>7
<1>6. auth.fee.amount # None => AreSendCoins(auth.fee.amount)
  <2> DEFINE info == raw.auth_info
             infos == Collected(Each(SignerInfoFrom, info.signer_infos))
             fee == IF info.fee = None THEN Malformed ELSE FeeFrom(info.fee)
             tip == Optional(TipFrom, info.tip)
  <2>1. info # None /\ auth = AuthInfoFrom(info)
    BY <1>3 DEF auth, Failed
  <2>2. auth = IF Failed(infos) \/ Failed(fee) \/ Failed(tip) THEN Malformed
               ELSE [signer_infos |-> infos, fee |-> fee, tip |-> tip]
    BY <2>1 DEF AuthInfoFrom
  <2> HIDE DEF infos, fee, tip
  <2>3. ~ Failed(fee) /\ auth.fee = fee
    BY <1>3, <2>2 DEF Failed
  <2>4. info.fee # None /\ fee = FeeFrom(info.fee)
    BY <2>3 DEF fee, Failed
  <2>5. {"amount", "payer"} \subseteq DOMAIN info.fee /\ info.fee.amount \in Seq(R)
    BY <2>1, <2>4 DEF IsRawTx
  <2>6. QED BY <2>3, <2>4, <2>5, FeeHasSendCoins
<1>7. IsTransaction(tx)
  BY <1>3, <1>4, <1>5, <1>6 DEF IsTransaction
<1>8. QED BY <1>7 DEF tx

-----------------------------------------------------------------------------
(* Numerals.                                                               *)

\* v[i] is the value of the first i digits of a numeral.
AreValues(v, numeral, n) ==
  \A i \in 0..n : v[i] = IF i = 0 THEN 0 ELSE 10 * v[i - 1] + numeral[i]

\* d[m] is the numeral of m.
AreNumerals(d, n) ==
  \A m \in 0..n : d[m] = IF m < 10 THEN <<m>> ELSE Append(d[m \div 10], m % 10)

LEMMA ValuesExist ==
  ASSUME NEW numeral, NEW n \in Nat
  PROVE  \E v : v = [i \in 0..n |-> v[i]] /\ AreValues(v, numeral, n)
<1> DEFINE Has(k) == \E v : v = [i \in 0..k |-> v[i]] /\ AreValues(v, numeral, k)
           Q == {k \in Nat : Has(k)}
<1>1. 0 \in Q
  <2> DEFINE v == [i \in 0..0 |-> 0]
  <2>1. v = [i \in 0..0 |-> v[i]] /\ AreValues(v, numeral, 0)
    BY DEF AreValues
  <2>2. QED BY <2>1
<1>2. ASSUME NEW k \in Nat, k \in Q PROVE k + 1 \in Q
  <2>1. PICK v : v = [i \in 0..k |-> v[i]] /\ AreValues(v, numeral, k)
    BY <1>2
  <2> DEFINE w == [i \in 0 .. k + 1 |-> IF i = k + 1 THEN 10 * v[k] + numeral[k + 1] ELSE v[i]]
  <2>2. /\ w = [i \in 0 .. k + 1 |-> w[i]]
        /\ w[k + 1] = 10 * v[k] + numeral[k + 1] /\ \A i \in 0..k : w[i] = v[i]
    OBVIOUS
  <2> HIDE DEF w
  <2>3. ASSUME NEW i \in 0 .. k + 1
        PROVE  w[i] = IF i = 0 THEN 0 ELSE 10 * w[i - 1] + numeral[i]
    <3>1. CASE i = k + 1
      <4>1. i # 0 /\ i - 1 = k /\ k \in 0..k
        BY <3>1
      <4>2. QED BY <2>2, <3>1, <4>1
    <3>2. CASE i # k + 1
      <4>1. i \in 0..k /\ (i # 0 => i - 1 \in 0..k)
        BY <3>2
      <4>2. QED BY <2>1, <2>2, <4>1 DEF AreValues
    <3>3. QED BY <3>1, <3>2
  <2>4. AreValues(w, numeral, k + 1)
    BY <2>3 DEF AreValues
  <2>5. QED BY <2>2, <2>4
<1> HIDE DEF Q
<1>3. n \in Q
  BY <1>1, <1>2, StepsInduction
<1>4. QED BY <1>3 DEF Q

LEMMA ValueIs ==
  ASSUME NEW numeral, Len(numeral) \in Nat
  PROVE  \E v : AreValues(v, numeral, Len(numeral)) /\ ValueOf(numeral) = v[Len(numeral)]
<1> DEFINE n == Len(numeral)
<1>1. PICK v : v = [i \in 0..n |-> v[i]] /\ AreValues(v, numeral, n)
  BY ValuesExist
<1>2. v = [i \in 0..n |-> IF i = 0 THEN 0 ELSE 10 * v[i - 1] + numeral[i]]
  <2>1. \A i \in 0..n : v[i] = IF i = 0 THEN 0 ELSE 10 * v[i - 1] + numeral[i]
    BY <1>1 DEF AreValues
  <2>2. QED BY <1>1, <2>1
<1> DEFINE value == CHOOSE value : value =
             [i \in 0 .. n |-> IF i = 0 THEN 0 ELSE 10 * value[i - 1] + numeral[i]]
<1> HIDE DEF n
<1>3. value = [i \in 0 .. n |-> IF i = 0 THEN 0 ELSE 10 * value[i - 1] + numeral[i]]
  BY <1>2, Zenon
<1>4. ValueOf(numeral) = value[n]
  BY Zenon DEF ValueOf, n
<1> HIDE DEF value
<1>5. AreValues(value, numeral, n)
  BY <1>3 DEF AreValues
<1>6. QED BY <1>4, <1>5 DEF n

\* A digit more is ten times the value and the digit.
LEMMA ValueOfAppend ==
  ASSUME NEW s \in Seq(Digit), NEW d \in Digit, ValueOf(s) \in Nat
  PROVE  ValueOf(Append(s, d)) = 10 * ValueOf(s) + d
<1> DEFINE t == Append(s, d)
           n == Len(s)
<1>1. t \in Seq(Digit) /\ n \in Nat /\ Len(t) = n + 1 /\ t[n + 1] = d /\ \A i \in 1..n : t[i] = s[i]
  OBVIOUS
<1> HIDE DEF t
<1>2. PICK v : AreValues(v, s, n) /\ ValueOf(s) = v[n]
  BY <1>1, ValueIs
<1>3. PICK w : AreValues(w, t, n + 1) /\ ValueOf(t) = w[n + 1]
  BY <1>1, ValueIs
<1> HIDE DEF n
<1> DEFINE Q == {k \in Nat : k <= n => w[k] = v[k]}
<1>4. 0 \in Q
  BY <1>1, <1>2, <1>3 DEF AreValues
<1>5. ASSUME NEW k \in Nat, k \in Q PROVE k + 1 \in Q
  <2> SUFFICES ASSUME k + 1 <= n PROVE w[k + 1] = v[k + 1]
    OBVIOUS
  <2>1. k + 1 \in 0..n /\ k + 1 \in 0 .. n + 1 /\ k + 1 # 0 /\ (k + 1) - 1 = k /\ k + 1 \in 1..n
    BY <1>1
  <2>2. w[k] = v[k] /\ t[k + 1] = s[k + 1]
    BY <1>1, <1>5, <2>1
  <2>3. w[k + 1] = 10 * w[k] + t[k + 1] /\ v[k + 1] = 10 * v[k] + s[k + 1]
    BY <1>2, <1>3, <2>1 DEF AreValues
  <2>4. QED BY <2>2, <2>3
<1> HIDE DEF Q
<1>6. n \in Q
  BY <1>1, <1>4, <1>5, StepsInduction
<1>7. w[n] = v[n]
  BY <1>1, <1>6 DEF Q
<1>8. n + 1 \in 0 .. n + 1 /\ n + 1 # 0 /\ (n + 1) - 1 = n
  BY <1>1
<1>9. w[n + 1] = 10 * w[n] + t[n + 1]
  BY <1>3, <1>8 DEF AreValues
<1>10. QED BY <1>1, <1>2, <1>3, <1>7, <1>9 DEF t

LEMMA ValueOfDigit ==
  ASSUME NEW d \in Digit
  PROVE  ValueOf(<<d>>) = d
<1> DEFINE s == <<d>>
<1>1. Len(s) = 1 /\ s[1] = d
  OBVIOUS
<1> HIDE DEF s
<1>2. PICK v : AreValues(v, s, 1) /\ ValueOf(s) = v[1]
  <2>1. Len(s) \in Nat
    BY <1>1
  <2>2. \E v : AreValues(v, s, Len(s)) /\ ValueOf(s) = v[Len(s)]
    BY <2>1, ValueIs
  <2>3. QED BY <1>1, <2>2
<1>3. 0 \in 0..1 /\ 1 \in 0..1 /\ 1 - 1 = 0
  OBVIOUS
<1>4. v[0] = 0 /\ v[1] = 10 * v[0] + s[1]
  BY <1>2, <1>3 DEF AreValues
<1>5. QED BY <1>1, <1>2, <1>4 DEF s, Digit

LEMMA NumeralsExist ==
  ASSUME NEW n \in Nat
  PROVE  \E d : d = [m \in 0..n |-> d[m]] /\ AreNumerals(d, n)
<1> DEFINE Has(k) == \E d : d = [m \in 0..k |-> d[m]] /\ AreNumerals(d, k)
           Q == {k \in Nat : Has(k)}
<1>1. 0 \in Q
  <2> DEFINE d == [m \in 0..0 |-> <<m>>]
  <2>1. d = [m \in 0..0 |-> d[m]] /\ AreNumerals(d, 0)
    BY DEF AreNumerals
  <2>2. QED BY <2>1
<1>2. ASSUME NEW k \in Nat, k \in Q PROVE k + 1 \in Q
  <2>1. PICK d : d = [m \in 0..k |-> d[m]] /\ AreNumerals(d, k)
    BY <1>2
  <2> DEFINE last == IF k + 1 < 10 THEN <<k + 1>> ELSE Append(d[(k + 1) \div 10], (k + 1) % 10)
             e == [m \in 0 .. k + 1 |-> IF m = k + 1 THEN last ELSE d[m]]
  <2>2. /\ e = [m \in 0 .. k + 1 |-> e[m]]
        /\ e[k + 1] = last /\ \A m \in 0..k : e[m] = d[m]
    OBVIOUS
  <2> HIDE DEF e
  <2>3. ASSUME NEW m \in 0 .. k + 1
        PROVE  e[m] = IF m < 10 THEN <<m>> ELSE Append(e[m \div 10], m % 10)
    <3>1. CASE m = k + 1
      <4>1. m >= 10 => (k + 1) \div 10 \in 0..k
        BY <3>1
      <4>2. CASE m < 10
        BY <2>2, <3>1, <4>2
      <4>3. CASE ~ (m < 10)
        <5>1. e[m \div 10] = d[m \div 10]
          <6>1. m >= 10
            BY <4>3
          <6>2. m \div 10 \in 0..k
            BY <3>1, <4>1, <6>1
          <6>3. QED BY <2>2, <6>2
        <5>2. e[m] = Append(d[m \div 10], m % 10)
          BY <2>2, <3>1, <4>3
        <5>3. QED BY <4>3, <5>1, <5>2
      <4>4. QED BY <4>2, <4>3
    <3>2. CASE m # k + 1
      <4>1. m \in 0..k /\ (m >= 10 => m \div 10 \in 0..k)
        BY <3>2
      <4>2. d[m] = IF m < 10 THEN <<m>> ELSE Append(d[m \div 10], m % 10)
        BY <2>1, <4>1 DEF AreNumerals
      <4>3. e[m] = d[m] /\ (m >= 10 => e[m \div 10] = d[m \div 10])
        BY <2>2, <4>1
      <4>4. CASE m < 10
        BY <4>2, <4>3, <4>4
      <4>5. CASE ~ (m < 10)
        <5>1. m >= 10
          BY <4>5
        <5>2. QED BY <4>2, <4>3, <4>5, <5>1
      <4>6. QED BY <4>4, <4>5
    <3>3. QED BY <3>1, <3>2
  <2>4. AreNumerals(e, k + 1)
    BY <2>3 DEF AreNumerals
  <2>5. QED BY <2>2, <2>4
<1> HIDE DEF Q
<1>3. n \in Q
  BY <1>1, <1>2, StepsInduction
<1>4. QED BY <1>3 DEF Q

\* The numeral of a number has digits, and the number for its value.
LEMMA NumeralSays ==
  ASSUME NEW n \in Nat
  PROVE  /\ Numeral(n) \in Seq(Digit) /\ Len(Numeral(n)) > 0
         /\ ValueOf(Numeral(n)) = n
<1>1. PICK d : d = [m \in 0..n |-> d[m]] /\ AreNumerals(d, n)
  BY NumeralsExist
<1>2. d = [m \in 0..n |-> IF m < 10 THEN <<m>> ELSE Append(d[m \div 10], m % 10)]
  <2>1. \A m \in 0..n : d[m] = IF m < 10 THEN <<m>> ELSE Append(d[m \div 10], m % 10)
    BY <1>1 DEF AreNumerals
  <2>2. QED BY <1>1, <2>1
<1> DEFINE digits == CHOOSE digits : digits =
             [m \in 0 .. n |-> IF m < 10 THEN <<m>> ELSE Append(digits[m \div 10], m % 10)]
<1>3. digits = [m \in 0 .. n |-> IF m < 10 THEN <<m>> ELSE Append(digits[m \div 10], m % 10)]
  BY <1>2, Zenon
<1>4. Numeral(n) = digits[n]
  BY Zenon DEF Numeral
<1> HIDE DEF digits
<1>5. \A m \in 0..n : digits[m] = IF m < 10 THEN <<m>> ELSE Append(digits[m \div 10], m % 10)
  BY <1>3
<1> DEFINE Says(m) == /\ digits[m] \in Seq(Digit) /\ Len(digits[m]) > 0
                      /\ ValueOf(digits[m]) = m
           Q == {m \in Nat : m <= n => Says(m)}
<1>6. ASSUME NEW m \in Nat, \A l \in Nat : l < m => l \in Q PROVE m \in Q
  <2> SUFFICES ASSUME m <= n PROVE Says(m)
    OBVIOUS
  <2>1. m \in 0..n
    OBVIOUS
  <2>2. CASE m < 10
    <3>1. m \in Digit
      BY <2>2 DEF Digit
    <3>2. digits[m] = <<m>>
      BY <1>5, <2>1, <2>2
    <3>3. <<m>> \in Seq(Digit) /\ Len(<<m>>) > 0
      BY <3>1
    <3>4. ValueOf(<<m>>) = m
      BY <3>1, ValueOfDigit
    <3>5. QED BY <3>2, <3>3, <3>4
  <2>3. CASE ~ (m < 10)
    <3> DEFINE l == m \div 10
               r == m % 10
    <3>1. l \in Nat /\ l < m /\ l <= n /\ r \in Digit /\ 10 * l + r = m
      BY <2>3 DEF Digit
    <3>2. digits[m] = Append(digits[l], r)
      BY <1>5, <2>1, <2>3
    <3> HIDE DEF l, r
    <3>3. Says(l)
      BY <1>6, <3>1
    <3>4. Append(digits[l], r) \in Seq(Digit) /\ Len(Append(digits[l], r)) > 0
      BY <3>1, <3>3
    <3>5. ValueOf(Append(digits[l], r)) = 10 * ValueOf(digits[l]) + r
      BY <3>1, <3>3, ValueOfAppend
    <3>6. QED BY <3>1, <3>2, <3>3, <3>4, <3>5
  <2>4. QED BY <2>2, <2>3
<1> HIDE DEF Q
<1>7. n \in Q
  BY <1>6, NumbersInduction
<1>8. QED BY <1>4, <1>7 DEF Q

LEMMA NumeralIsReadBack ==
  ASSUME NEW n \in Uint
  PROVE  ParsedUint(Numeral(n)) = n
<1>1. n \in Nat
  BY MaxUintAssumption DEF Uint
<1>2. /\ Numeral(n) \in Seq(Digit) /\ Len(Numeral(n)) > 0 /\ ValueOf(Numeral(n)) = n
  BY <1>1, NumeralSays
<1>3. Numeral(n) # Malformed
  BY <1>2, FailureAssumption
<1>4. Numeral(n) # <<>>
  BY <1>2
<1>5. QED BY <1>2, <1>3, <1>4 DEF ParsedUint, Fits

-----------------------------------------------------------------------------
(* Powers.                                                                 *)

ArePowers(p, b, n) == \A i \in 0..n : p[i] = IF i = 0 THEN 1 ELSE b * p[i - 1]

LEMMA PowersOfExist ==
  ASSUME NEW b \in Nat, NEW n \in Nat
  PROVE  \E p : p = [i \in 0..n |-> p[i]] /\ ArePowers(p, b, n)
<1> DEFINE Has(k) == \E p : p = [i \in 0..k |-> p[i]] /\ ArePowers(p, b, k)
           Q == {k \in Nat : Has(k)}
<1>1. 0 \in Q
  <2> DEFINE p == [i \in 0..0 |-> 1]
  <2>1. p = [i \in 0..0 |-> p[i]] /\ ArePowers(p, b, 0)
    BY DEF ArePowers
  <2>2. QED BY <2>1
<1>2. ASSUME NEW k \in Nat, k \in Q PROVE k + 1 \in Q
  <2>1. PICK p : p = [i \in 0..k |-> p[i]] /\ ArePowers(p, b, k)
    BY <1>2
  <2> DEFINE q == [i \in 0 .. k + 1 |-> IF i = k + 1 THEN b * p[k] ELSE p[i]]
  <2>2. /\ q = [i \in 0 .. k + 1 |-> q[i]]
        /\ q[k + 1] = b * p[k] /\ \A i \in 0..k : q[i] = p[i]
    OBVIOUS
  <2> HIDE DEF q
  <2>3. ASSUME NEW i \in 0 .. k + 1
        PROVE  q[i] = IF i = 0 THEN 1 ELSE b * q[i - 1]
    <3>1. CASE i = k + 1
      <4>1. i # 0 /\ i - 1 = k /\ k \in 0..k
        BY <3>1
      <4>2. QED BY <2>2, <3>1, <4>1
    <3>2. CASE i # k + 1
      <4>1. i \in 0..k /\ (i # 0 => i - 1 \in 0..k)
        BY <3>2
      <4>2. QED BY <2>1, <2>2, <4>1 DEF ArePowers
    <3>3. QED BY <3>1, <3>2
  <2>4. ArePowers(q, b, k + 1)
    BY <2>3 DEF ArePowers
  <2>5. QED BY <2>2, <2>4
<1> HIDE DEF Q
<1>3. n \in Q
  BY <1>1, <1>2, StepsInduction
<1>4. QED BY <1>3 DEF Q

LEMMA PowerIs ==
  ASSUME NEW b \in Nat, NEW n \in Nat
  PROVE  \E p : ArePowers(p, b, n) /\ PowerOf(b, n) = p[n]
<1>1. PICK p : p = [i \in 0..n |-> p[i]] /\ ArePowers(p, b, n)
  BY PowersOfExist
<1>2. p = [i \in 0..n |-> IF i = 0 THEN 1 ELSE b * p[i - 1]]
  <2>1. \A i \in 0..n : p[i] = IF i = 0 THEN 1 ELSE b * p[i - 1]
    BY <1>1 DEF ArePowers
  <2>2. QED BY <1>1, <2>1
<1> DEFINE power == CHOOSE power : power =
             [i \in 0 .. n |-> IF i = 0 THEN 1 ELSE b * power[i - 1]]
<1>3. power = [i \in 0 .. n |-> IF i = 0 THEN 1 ELSE b * power[i - 1]]
  BY <1>2, Zenon
<1>4. PowerOf(b, n) = power[n]
  BY Zenon DEF PowerOf
<1> HIDE DEF power
<1>5. ArePowers(power, b, n)
  BY <1>3 DEF ArePowers
<1>6. QED BY <1>4, <1>5

\* Powers computed up to different numbers agree.
LEMMA PowersAgree ==
  ASSUME NEW b \in Nat, NEW n \in Nat, NEW p, ArePowers(p, b, n), NEW m \in 0..n
  PROVE  PowerOf(b, m) = p[m]
<1>1. PICK q : ArePowers(q, b, m) /\ PowerOf(b, m) = q[m]
  BY PowerIs
<1> DEFINE Q == {k \in Nat : k <= m => q[k] = p[k]}
<1>2. 0 \in Q
  BY <1>1 DEF ArePowers
<1>3. ASSUME NEW k \in Nat, k \in Q PROVE k + 1 \in Q
  <2> SUFFICES ASSUME k + 1 <= m PROVE q[k + 1] = p[k + 1]
    OBVIOUS
  <2>1. k + 1 \in 0..n /\ k + 1 \in 0..m /\ k + 1 # 0 /\ (k + 1) - 1 = k
    OBVIOUS
  <2>2. q[k + 1] = b * q[k] /\ p[k + 1] = b * p[k]
    BY <1>1, <2>1 DEF ArePowers
  <2>3. QED BY <1>3, <2>2
<1> HIDE DEF Q
<1>4. m \in Q
  BY <1>2, <1>3, StepsInduction
<1>5. QED BY <1>1, <1>4 DEF Q

LEMMA PowerOfZero ==
  ASSUME NEW b \in Nat
  PROVE  PowerOf(b, 0) = 1
<1>1. PICK p : ArePowers(p, b, 0) /\ PowerOf(b, 0) = p[0]
  BY PowerIs
<1>2. QED BY <1>1 DEF ArePowers

LEMMA PowerOfNext ==
  ASSUME NEW b \in Nat, NEW n \in Nat
  PROVE  PowerOf(b, n + 1) = b * PowerOf(b, n)
<1>1. PICK p : ArePowers(p, b, n + 1) /\ PowerOf(b, n + 1) = p[n + 1]
  BY PowerIs
<1>2. n + 1 \in 0 .. n + 1 /\ n + 1 # 0 /\ (n + 1) - 1 = n /\ n \in 0 .. n + 1 /\ n + 1 \in Nat
  OBVIOUS
<1>3. p[n + 1] = b * p[n]
  BY <1>1, <1>2 DEF ArePowers
<1>4. PowerOf(b, n) = p[n]
  BY <1>1, <1>2, PowersAgree
<1>5. QED BY <1>1, <1>3, <1>4

LEMMA PowerOfType ==
  ASSUME NEW b \in Nat, NEW n \in Nat
  PROVE  PowerOf(b, n) \in Nat /\ (b > 0 => PowerOf(b, n) > 0)
<1> DEFINE Q == {k \in Nat : PowerOf(b, k) \in Nat /\ (b > 0 => PowerOf(b, k) > 0)}
<1>1. 0 \in Q
  BY PowerOfZero
<1>2. ASSUME NEW k \in Nat, k \in Q PROVE k + 1 \in Q
  <2>1. PowerOf(b, k + 1) = b * PowerOf(b, k)
    BY PowerOfNext
  <2> DEFINE c == PowerOf(b, k)
  <2>2. c \in Nat /\ (b > 0 => c > 0)
    BY <1>2
  <2> HIDE DEF c
  <2>3. b * c \in Nat /\ (b > 0 => b * c > 0)
    BY <2>2
  <2>4. QED BY <2>1, <2>3 DEF c
<1> HIDE DEF Q
<1>3. n \in Q
  BY <1>1, <1>2, StepsInduction
<1>4. QED BY <1>3 DEF Q

LEMMA PowerOfPlus ==
  ASSUME NEW b \in Nat, NEW m \in Nat, NEW n \in Nat
  PROVE  PowerOf(b, m + n) = PowerOf(b, m) * PowerOf(b, n)
<1> DEFINE Q == {k \in Nat : PowerOf(b, m + k) = PowerOf(b, m) * PowerOf(b, k)}
<1>1. PowerOf(b, m) \in Nat
  BY PowerOfType
<1>2. 0 \in Q
  BY PowerOfZero, <1>1
<1>3. ASSUME NEW k \in Nat, k \in Q PROVE k + 1 \in Q
  <2>1. m + k \in Nat /\ m + (k + 1) = (m + k) + 1
    OBVIOUS
  <2>2. PowerOf(b, (m + k) + 1) = b * PowerOf(b, m + k)
    BY <2>1, PowerOfNext
  <2>3. PowerOf(b, k + 1) = b * PowerOf(b, k) /\ PowerOf(b, k) \in Nat
    BY PowerOfNext, PowerOfType
  <2>4. b * (PowerOf(b, m) * PowerOf(b, k)) = PowerOf(b, m) * (b * PowerOf(b, k))
    BY <1>1, <2>3
  <2>5. QED BY <1>3, <2>1, <2>2, <2>3, <2>4
<1> HIDE DEF Q
<1>4. n \in Q
  BY <1>2, <1>3, StepsInduction
<1>5. QED BY <1>4 DEF Q

LEMMA PowerOfProduct ==
  ASSUME NEW a \in Nat, NEW b \in Nat, NEW n \in Nat
  PROVE  PowerOf(a * b, n) = PowerOf(a, n) * PowerOf(b, n)
<1> DEFINE Q == {k \in Nat : PowerOf(a * b, k) = PowerOf(a, k) * PowerOf(b, k)}
<1>1. a * b \in Nat
  OBVIOUS
<1>2. 0 \in Q
  BY PowerOfZero, <1>1
<1>3. ASSUME NEW k \in Nat, k \in Q PROVE k + 1 \in Q
  <2>1. /\ PowerOf(a * b, k + 1) = (a * b) * PowerOf(a * b, k)
        /\ PowerOf(a, k + 1) = a * PowerOf(a, k) /\ PowerOf(b, k + 1) = b * PowerOf(b, k)
        /\ PowerOf(a, k) \in Nat /\ PowerOf(b, k) \in Nat
    BY <1>1, PowerOfNext, PowerOfType
  <2>2. \A x, y \in Nat : (a * b) * (x * y) = (a * x) * (b * y)
    <3> SUFFICES ASSUME NEW x \in Nat, NEW y \in Nat PROVE (a * b) * (x * y) = (a * x) * (b * y)
      OBVIOUS
    <3>1. (a * b) * (x * y) = ((a * b) * x) * y /\ (a * b) * x = (a * x) * b
      OBVIOUS
    <3>2. ((a * x) * b) * y = (a * x) * (b * y)
      OBVIOUS
    <3>3. QED BY <3>1, <3>2
  <2>3. QED BY <1>3, <2>1, <2>2
<1> HIDE DEF Q
<1>4. n \in Q
  BY <1>2, <1>3, StepsInduction
<1>5. QED BY <1>4 DEF Q

LEMMA PowerOfGrows ==
  ASSUME NEW a \in Nat, NEW b \in Nat, a <= b, NEW n \in Nat
  PROVE  PowerOf(a, n) <= PowerOf(b, n)
<1> DEFINE Q == {k \in Nat : PowerOf(a, k) <= PowerOf(b, k)}
<1>1. 0 \in Q
  BY PowerOfZero
<1>2. ASSUME NEW k \in Nat, k \in Q PROVE k + 1 \in Q
  <2>1. /\ PowerOf(a, k + 1) = a * PowerOf(a, k) /\ PowerOf(b, k + 1) = b * PowerOf(b, k)
        /\ PowerOf(a, k) \in Nat /\ PowerOf(b, k) \in Nat
    BY PowerOfNext, PowerOfType
  <2>2. \A x, y \in Nat : x <= y => a * x <= b * y
    <3> SUFFICES ASSUME NEW x \in Nat, NEW y \in Nat, x <= y PROVE a * x <= b * y
      OBVIOUS
    <3>1. a * x <= b * x /\ b * x <= b * y
      OBVIOUS
    <3>2. a * x \in Nat /\ b * x \in Nat /\ b * y \in Nat
      OBVIOUS
    <3>3. QED BY <3>1, <3>2
  <2>3. QED BY <1>2, <2>1, <2>2
<1> HIDE DEF Q
<1>3. n \in Q
  BY <1>1, <1>2, StepsInduction
<1>4. QED BY <1>3 DEF Q

LEMMA TenToZero == TenTo(0) = 1
BY PowerOfZero DEF TenTo

LEMMA TenToNext ==
  ASSUME NEW n \in Nat
  PROVE  TenTo(n + 1) = 10 * TenTo(n)
BY PowerOfNext DEF TenTo

LEMMA TenToType ==
  ASSUME NEW n \in Nat
  PROVE  TenTo(n) \in Nat \ {0}
BY PowerOfType DEF TenTo

LEMMA TenToPlus ==
  ASSUME NEW m \in Nat, NEW n \in Nat
  PROVE  TenTo(m + n) = TenTo(m) * TenTo(n)
BY PowerOfPlus DEF TenTo

-----------------------------------------------------------------------------
(* The arithmetic of decimals.                                             *)

LEMMA Units ==
  /\ MaxUint \in Nat /\ Uint \subseteq Nat /\ \A n \in Nat : n \in Uint <=> n <= MaxUint
  /\ One \in Nat \ {0} /\ One \in Uint /\ One * One \in Uint
  /\ Places \in Nat \ {0} /\ Panic \notin Nat /\ Overflow \notin Nat /\ DivideByZero \notin Nat
<1>1. /\ MaxUint \in Nat /\ Places \in Nat \ {0}
      /\ Panic \notin Nat /\ Overflow \notin Nat /\ DivideByZero \notin Nat
  BY MaxUintAssumption, PlacesAssumption, FailureAssumption
<1>2. One \in Nat \ {0}
  BY <1>1, TenToType DEF One
<1>3. One * One <= MaxUint
  <2>1. 2 * Places = Places + Places
    BY <1>1
  <2>2. TenTo(2 * Places) = One * One
    BY <1>1, <2>1, TenToPlus DEF One
  <2>3. QED BY <2>2, PlacesAssumption
<1>4. One <= One * One /\ One * One \in Nat
  BY <1>2
<1>5. One <= MaxUint
  BY <1>1, <1>2, <1>3, <1>4
<1>6. QED BY <1>1, <1>2, <1>3, <1>4, <1>5 DEF Uint

LEMMA QuotientBounds ==
  ASSUME NEW a \in Nat, NEW b \in Nat \ {0}
  PROVE  /\ a \div b \in Nat /\ a \div b <= a
         /\ (a \div b) * b <= a /\ a < ((a \div b) + 1) * b
<1> DEFINE q == a \div b
           r == a % b
<1>1. q \in Nat /\ r \in Nat /\ r < b /\ (q * b) + r = a
  OBVIOUS
<1> HIDE DEF q, r
<1>2. (q + 1) * b = (q * b) + b /\ q * b \in Nat
  BY <1>1
<1>3. q <= q * b
  BY <1>1
<1>4. q <= a /\ q * b <= a /\ a < (q + 1) * b
  BY <1>1, <1>2, <1>3
<1>5. QED BY <1>1, <1>4 DEF q

\* A quotient that is checked is the quotient.
LEMMA QuotientFits ==
  ASSUME NEW a \in Nat, NEW b \in Nat \ {0}, NEW error, error \notin Nat
  PROVE  IsQuotient(Fits(a \div b, error), a, b)
<1> DEFINE q == a \div b
<1>1. q \in Nat /\ q * b <= a /\ a < (q + 1) * b
  BY QuotientBounds
<1>2. MaxUint \in Nat /\ Uint \subseteq Nat /\ (q \notin Uint => q > MaxUint)
  BY <1>1, Units
<1> HIDE DEF q
<1>3. CASE q \in Uint
  <2>1. Fits(q, error) = q
    BY <1>3 DEF Fits
  <2>2. IsQuotient(q, a, b)
    BY <1>1, <1>3 DEF IsQuotient
  <2>3. QED BY <2>1, <2>2 DEF q
<1>4. CASE q \notin Uint
  <2>1. Fits(q, error) = error /\ error \notin Uint
    BY <1>2, <1>4 DEF Fits
  <2>2. a \div b > MaxUint
    BY <1>2, <1>4 DEF q
  <2>3. IsQuotient(error, a, b)
    BY <2>1, <2>2 DEF IsQuotient
  <2>4. QED BY <2>1, <2>3 DEF q
<1>5. QED BY <1>3, <1>4

LEMMA SmallerOf ==
  ASSUME NEW a \in Nat, NEW b \in Nat
  PROVE  Min({a, b}) = IF a <= b THEN a ELSE b
<1> DEFINE c == IF a <= b THEN a ELSE b
<1>1. c \in {a, b} /\ \A y \in {a, b} : c <= y
  OBVIOUS
<1>2. \A x \in {a, b} : (\A y \in {a, b} : x <= y) => x = c
  OBVIOUS
<1>3. QED BY <1>1, <1>2 DEF Min

\* A sum of three decimals fails exactly when it does not fit.
LEMMA ThreeSummed ==
  ASSUME NEW a \in Uint, NEW b \in Uint, NEW c \in Uint
  PROVE  Summed(<<a, b, c>>) = Fits(a + b + c, Panic)
<1> DEFINE ds == <<a, b, c>>
           Adding(s, d) == IF s = Panic THEN Panic ELSE Added(s, d)
           s1 == Adding(0, a)
           s2 == Adding(s1, b)
           s3 == Adding(s2, c)
           f == [i \in 0..3 |-> IF i = 0 THEN 0 ELSE IF i = 1 THEN s1 ELSE IF i = 2 THEN s2 ELSE s3]
           sum == CHOOSE sum : sum = [i \in 0 .. Len(ds) |->
                    IF i = 0 THEN 0
                    ELSE IF sum[i - 1] = Panic THEN Panic ELSE Added(sum[i - 1], ds[i])]
<1>1. Len(ds) = 3 /\ ds[1] = a /\ ds[2] = b /\ ds[3] = c
  OBVIOUS
<1>2. f[0] = 0 /\ f[1] = Adding(f[0], ds[1]) /\ f[2] = Adding(f[1], ds[2]) /\ f[3] = Adding(f[2], ds[3])
  BY <1>1
<1>3. f = [i \in 0..3 |-> f[i]]
  OBVIOUS
<1> HIDE DEF ds, f
<1>4. f = [i \in 0..3 |-> IF i = 0 THEN 0
                          ELSE IF f[i - 1] = Panic THEN Panic ELSE Added(f[i - 1], ds[i])]
  <2>1. \A i \in 0..3 : i = 0 \/ i = 1 \/ i = 2 \/ i = 3
    OBVIOUS
  <2>2. \A i \in 0..3 : f[i] = IF i = 0 THEN 0
                         ELSE IF f[i - 1] = Panic THEN Panic ELSE Added(f[i - 1], ds[i])
    BY <1>2, <2>1
  <2>3. QED BY <1>3, <2>2
<1>5. sum = [i \in 0 .. Len(ds) |->
              IF i = 0 THEN 0
              ELSE IF sum[i - 1] = Panic THEN Panic ELSE Added(sum[i - 1], ds[i])]
  BY <1>1, <1>4, Zenon
<1>6. Summed(ds) = sum[Len(ds)]
  BY Zenon DEF Summed
<1> HIDE DEF sum
<1>7. sum[0] = 0 /\ sum[1] = Adding(sum[0], ds[1]) /\ sum[2] = Adding(sum[1], ds[2])
      /\ sum[3] = Adding(sum[2], ds[3])
  BY <1>1, <1>5
<1>8. Summed(ds) = s3
  BY <1>1, <1>6, <1>7
<1>9. s3 = Fits(a + b + c, Panic)
  <2>1. /\ a \in Nat /\ b \in Nat /\ c \in Nat /\ MaxUint \in Nat
        /\ Panic \notin Nat /\ Overflow \notin Nat /\ 0 \in Uint
    BY Units
  <2>2. \A s, d \in Nat : Added(s, d) = IF s + d <= MaxUint THEN s + d ELSE Panic
    BY <2>1 DEF Added, OrElse, CheckedAdd, Fits, Uint
  <2>3. s1 = a
    <3>1. a <= MaxUint /\ 0 # Panic /\ 0 + a = a
      BY <2>1 DEF Uint
    <3>2. Added(0, a) = a
      BY <2>1, <2>2, <3>1
    <3>3. QED BY <3>1, <3>2
  <2>4. s2 = IF a + b <= MaxUint THEN a + b ELSE Panic
    <3>1. a # Panic
      BY <2>1
    <3>2. QED BY <2>1, <2>2, <2>3, <3>1
  <2> HIDE DEF s2
  <2>5. CASE a + b <= MaxUint
    <3>1. s2 = a + b /\ s2 # Panic /\ s2 \in Nat
      BY <2>1, <2>4, <2>5
    <3>2. s3 = IF s2 + c <= MaxUint THEN s2 + c ELSE Panic
      BY <2>1, <2>2, <3>1
    <3>3. QED BY <2>1, <3>1, <3>2 DEF Fits, Uint
  <2>6. CASE ~ (a + b <= MaxUint)
    <3>1. s2 = Panic
      BY <2>4, <2>6
    <3>2. ~ (a + b + c <= MaxUint)
      BY <2>1, <2>6
    <3>3. QED BY <2>1, <3>1, <3>2 DEF Fits, Uint
  <2>7. QED BY <2>5, <2>6
<1>10. QED BY <1>8, <1>9 DEF ds

LEMMA ArithmeticIs ==
  ASSUME NEW d \in Uint, NEW e \in Uint
  PROVE  ArithmeticIsExact(d, e)
<1>1. /\ d \in Nat /\ e \in Nat /\ MaxUint \in Nat /\ Uint \subseteq Nat
      /\ (\A n \in Nat : n \in Uint <=> n <= MaxUint)
      /\ One \in Nat \ {0} /\ One * One \in Uint
      /\ Panic \notin Nat /\ Overflow \notin Nat /\ DivideByZero \notin Nat
  BY Units
<1>2. d * e \in Nat /\ d * One \in Nat
  BY <1>1
<1>3. IsQuotient(CheckedMul(d, e), d * e, One)
  BY <1>1, <1>2, QuotientFits DEF CheckedMul
<1>4. IsQuotient(UintTimes(d, e), d * e, One)
  <2>1. CASE d = 0 \/ e = 0
    <3>1. UintTimes(d, e) = 0 /\ d * e = 0 /\ 0 \in Uint
      BY <1>1, <2>1 DEF UintTimes
    <3>2. QED BY <1>1, <3>1 DEF IsQuotient
  <2>2. CASE ~ (d = 0 \/ e = 0)
    BY <1>1, <1>2, <2>2, QuotientFits DEF UintTimes
  <2>3. QED BY <2>1, <2>2
<1>5. ASSUME e # 0
      PROVE  /\ IsQuotient(CheckedDiv(d, e), d * One, e)
             /\ IsQuotient(DividedByUint(d, e), d, e)
             /\ IsQuotient(Inv(e), One * One, e)
             /\ CheckedRem(d, e) = d - e * (d \div e)
  <2>1. IsQuotient(CheckedDiv(d, e), d * One, e)
    BY <1>1, <1>2, <1>5, QuotientFits DEF CheckedDiv, CheckedFromRatio
  <2>2. \A a \in Uint : IsQuotient(a \div e, a, e)
    <3> SUFFICES ASSUME NEW a \in Uint PROVE IsQuotient(a \div e, a, e)
      OBVIOUS
    <3>1. a \in Nat /\ a <= MaxUint
      BY <1>1
    <3>2. a \div e \in Nat /\ a \div e <= a /\ (a \div e) * e <= a /\ a < ((a \div e) + 1) * e
      BY <1>1, <1>5, <3>1, QuotientBounds
    <3>3. a \div e \in Uint
      BY <1>1, <3>1, <3>2
    <3>4. QED BY <3>2, <3>3 DEF IsQuotient
  <2>3. IsQuotient(DividedByUint(d, e), d, e)
    BY <1>5, <2>2 DEF DividedByUint
  <2>4. IsQuotient(Inv(e), One * One, e)
    BY <1>1, <1>5, <2>2 DEF Inv
  <2>5. d % e = d - e * (d \div e)
    <3>1. e \in Nat \ {0}
      BY <1>1, <1>5
    <3>2. ((d \div e) * e) + (d % e) = d /\ d \div e \in Nat /\ d % e \in Nat
      BY <1>1, <3>1
    <3>3. (d \div e) * e = e * (d \div e)
      BY <1>1, <3>2
    <3>4. QED BY <1>1, <3>2, <3>3
  <2>6. QED BY <1>5, <2>1, <2>3, <2>4, <2>5 DEF CheckedRem
<1>6. e = 0 => {CheckedDiv(d, e), CheckedRem(d, e), Inv(e)} = {DivideByZero}
  BY DEF CheckedDiv, CheckedFromRatio, CheckedRem, Inv
<1>7. IsQuotient(Floor(d) \div One, d, One)
  <2> DEFINE q == d \div One
  <2>1. q \in Nat /\ q <= d /\ q * One <= d /\ d < (q + 1) * One
    BY <1>1, QuotientBounds
  <2> HIDE DEF q
  <2>2. (q * One) \div One = q
    BY <1>1, <2>1
  <2>3. Floor(d) \div One = q
    BY <2>2 DEF Floor, q
  <2>4. q \in Uint
    BY <1>1, <2>1
  <2>5. QED BY <2>1, <2>3, <2>4 DEF IsQuotient
<1>8. /\ \A a, b \in Nat : b <= a /\ a <= MaxUint => Subtracted(a, b) = a - b
      /\ \A a, b \in Nat : Added(a, b) = IF a + b <= MaxUint THEN a + b ELSE Panic
  <2>1. ASSUME NEW a \in Nat, NEW b \in Nat, b <= a, a <= MaxUint
        PROVE  Subtracted(a, b) = a - b
    <3>1. a - b \in Uint
      BY <1>1, <2>1
    <3>2. QED BY <3>1 DEF Subtracted, OrElse, CheckedSub, Fits
  <2>2. ASSUME NEW a \in Nat, NEW b \in Nat
        PROVE  Added(a, b) = IF a + b <= MaxUint THEN a + b ELSE Panic
    <3>1. a + b \in Uint <=> a + b <= MaxUint
      BY <1>1
    <3>2. QED BY <1>1, <3>1 DEF Added, OrElse, CheckedAdd, Fits
  <2>3. QED BY <2>1, <2>2
<1>9. d <= MaxUint /\ e <= MaxUint
  BY <1>1
<1>10. AbsDiff(d, e) = AbsDiff(e, d)
  BY <1>1, <1>8, <1>9 DEF AbsDiff
<1>11. e <= d => Added(AbsDiff(d, e), e) = d
  <2> SUFFICES ASSUME e <= d PROVE Added(AbsDiff(d, e), e) = d
    OBVIOUS
  <2>1. AbsDiff(d, e) = d - e /\ d - e \in Nat
    BY <1>1, <1>8, <1>9 DEF AbsDiff
  <2>2. QED BY <1>1, <1>8, <1>9, <2>1
<1>12. SaturatingAdd(d, e) = Min({d + e, MaxUint})
  <2>1. d + e \in Nat
    BY <1>1
  <2>2. Min({d + e, MaxUint}) = IF d + e <= MaxUint THEN d + e ELSE MaxUint
    BY <1>1, <2>1, SmallerOf
  <2>3. QED BY <1>1, <2>1, <2>2 DEF SaturatingAdd, OrElse, CheckedAdd, Fits
<1>13. SaturatingSub(d, e) = d - Min({d, e})
  <2>1. Min({d, e}) = IF d <= e THEN d ELSE e
    BY <1>1, SmallerOf
  <2>2. QED BY <1>1, <1>9, <2>1 DEF SaturatingSub, OrElse, CheckedSub, Fits, Uint
<1>14. SaturatingMul(d, e) = Min({(d * e) \div One, MaxUint})
  <2> DEFINE q == (d * e) \div One
  <2>1. q \in Nat
    BY <1>1, <1>2, QuotientBounds
  <2> HIDE DEF q
  <2>2. Min({q, MaxUint}) = IF q <= MaxUint THEN q ELSE MaxUint
    BY <1>1, <2>1, SmallerOf
  <2>3. OrElse(Fits(q, Overflow), MaxUint) = IF q <= MaxUint THEN q ELSE MaxUint
    BY <1>1, <2>1 DEF OrElse, Fits
  <2>4. QED BY <2>2, <2>3 DEF SaturatingMul, CheckedMul, q
<1>15. Summed(<<d, e, d>>) = Fits(d + e + d, Panic)
  BY ThreeSummed
<1>16. QED BY <1>3, <1>4, <1>5, <1>6, <1>7, <1>10, <1>11, <1>12, <1>13, <1>14, <1>15
           DEF ArithmeticIsExact

-----------------------------------------------------------------------------
(* Square roots.                                                           *)

LEMMA GreatestIs ==
  ASSUME NEW n \in Nat, NEW S, S \subseteq 0..n, S # {}
  PROVE  Max(S) \in S /\ \A k \in S : k <= Max(S)
<1>1. \E m \in S : \A k \in S : m >= k
  BY GreatestExists
<1>2. QED BY <1>1 DEF Max

LEMMA SquaresGrow ==
  ASSUME NEW a \in Nat, NEW b \in Nat, a < b
  PROVE  a * a < b * b
<1> DEFINE k == b - a
<1>1. k \in Nat /\ k > 0 /\ b = a + k
  OBVIOUS
<1> HIDE DEF k
<1>2. (a + k) * (a + k) = (a * a) + (2 * (a * k)) + (k * k)
  BY <1>1
<1>3. a * k >= 0 /\ k * k > 0
  BY <1>1
<1>4. QED BY <1>1, <1>2, <1>3

LEMMA SquareOfProduct ==
  ASSUME NEW a \in Nat, NEW b \in Nat
  PROVE  (a * b) * (a * b) = (a * a) * (b * b)
<1>1. (a * b) * (a * b) = ((a * b) * a) * b
  OBVIOUS
<1>2. (a * b) * a = (a * a) * b
  OBVIOUS
<1>3. ((a * a) * b) * b = (a * a) * (b * b)
  OBVIOUS
<1>4. QED BY <1>1, <1>2, <1>3

LEMMA IsqrtIs ==
  ASSUME NEW n \in Nat
  PROVE  /\ Isqrt(n) \in Nat /\ Isqrt(n) * Isqrt(n) <= n
         /\ n < (Isqrt(n) + 1) * (Isqrt(n) + 1)
<1> DEFINE S == {r \in 0..n : r * r <= n}
<1>1. 0 \in S /\ S \subseteq 0..n
  OBVIOUS
<1>2. PICK r \in S : \A k \in S : k <= r
  BY <1>1, GreatestExists
<1>3. r \in 0..n /\ r * r <= n
  BY <1>2
<1>4. (r + 1) * (r + 1) > n
  <2> SUFFICES ASSUME (r + 1) * (r + 1) <= n PROVE FALSE
    BY <1>3
  <2>1. r + 1 <= (r + 1) * (r + 1)
    BY <1>3
  <2>2. r + 1 \in S
    BY <1>3, <2>1
  <2>3. r + 1 <= r
    BY <1>2, <2>2
  <2>4. QED BY <1>3, <2>3
<1>5. \E s \in 0..n : s * s <= n /\ (s + 1) * (s + 1) > n
  BY <1>3, <1>4
<1>6. /\ Isqrt(n) \in 0..n
      /\ Isqrt(n) * Isqrt(n) <= n /\ (Isqrt(n) + 1) * (Isqrt(n) + 1) > n
  BY <1>5, Zenon DEF Isqrt
<1> DEFINE s == Isqrt(n)
<1> HIDE DEF s
<1>7. s \in 0..n /\ s * s <= n /\ (s + 1) * (s + 1) > n
  BY <1>6 DEF s
<1>8. s \in Nat /\ s * s <= n /\ n < (s + 1) * (s + 1)
  BY <1>7
<1>9. QED BY <1>8 DEF s

\* A root is taken without a precision that multiplies it first.
LEMMA PrecisionIs ==
  ASSUME NEW d \in Uint
  PROVE  /\ Precision(d) \in 0 .. Places \div 2
         /\ SqrtWithPrecision(d, Precision(d)) # Overflow
<1> DEFINE h == Places \div 2
           root == Fits(Isqrt(d) * TenTo(h), Panic)
<1>1. /\ MaxUint \in Nat /\ d \in Nat /\ d <= MaxUint /\ Places \in Nat /\ h \in Nat
      /\ Overflow \notin Nat /\ Overflow # Panic /\ Uint \subseteq Nat
  BY Units, PlacesAssumption
<1> HIDE DEF h
<1>2. root # Overflow
  BY <1>1 DEF Fits
<1>3. d * TenTo(0) = d
  BY <1>1, TenToZero
<1>4. 2 * 0 = 0 /\ h - 0 = h
  BY <1>1
<1>5. SqrtWithPrecision(d, 0) = root
  BY <1>1, <1>3, <1>4 DEF SqrtWithPrecision, h
<1>6. 0 \in Precisions(d)
  BY <1>1, <1>2, <1>5 DEF Precisions, h
<1>7. Precisions(d) \subseteq 0..h
  BY DEF Precisions, h
<1>8. Precision(d) \in Precisions(d)
  BY <1>1, <1>6, <1>7, GreatestIs DEF Precision
<1>9. QED BY <1>8 DEF Precisions

LEMMA RootIs ==
  ASSUME NEW d \in Uint
  PROVE  RootIsExact(d)
<1> DEFINE h == Places \div 2
           p == Precision(d)
           x == d * TenTo(2 * p)
           r == Isqrt(x)
           u == TenTo(h - p)
<1>1. /\ MaxUint \in Nat /\ d \in Nat /\ d <= MaxUint /\ Places \in Nat
      /\ One \in Nat \ {0} /\ One <= MaxUint /\ \A n \in Nat : n \in Uint <=> n <= MaxUint
  BY Units
<1>2. h \in Nat /\ 2 * h = Places
  BY <1>1, PlacesAssumption
<1>3. p \in 0..h /\ SqrtWithPrecision(d, p) # Overflow
  BY PrecisionIs
<1> HIDE DEF h, p
<1>4. 2 * p \in Nat /\ h - p \in Nat /\ 2 * (h - p) \in Nat /\ p \in Nat
  BY <1>2, <1>3
<1>5. TenTo(2 * p) \in Nat /\ u \in Nat \ {0} /\ x \in Nat
  BY <1>1, <1>4, TenToType
<1>6. x * (u * u) = d * One
  <2>1. 2 * (h - p) = (h - p) + (h - p) /\ 2 * p + 2 * (h - p) = Places
    BY <1>2, <1>4
  <2>2. u * u = TenTo(2 * (h - p))
    BY <1>4, <2>1, TenToPlus
  <2>3. TenTo(2 * p) * TenTo(2 * (h - p)) = One
    BY <1>4, <2>1, TenToPlus DEF One
  <2> DEFINE a == TenTo(2 * p)
  <2> HIDE DEF u, a
  <2>4. (d * a) * (u * u) = d * (a * (u * u))
    BY <1>1, <1>5 DEF a
  <2>5. QED BY <2>2, <2>3, <2>4 DEF a
<1>7. r \in Nat /\ r * r <= x /\ x < (r + 1) * (r + 1)
  BY <1>5, IsqrtIs
<1>8. ~ (x > MaxUint) /\ Sqrt(d) = Fits(r * u, Panic)
  BY <1>3 DEF Sqrt, SqrtWithPrecision, p, h
<1> HIDE DEF x, r, u
<1> DEFINE root == r * u
<1>9. root \in Nat /\ root * root = (r * r) * (u * u)
  BY <1>5, <1>7, SquareOfProduct
<1>10. (root + u) * (root + u) = ((r + 1) * (r + 1)) * (u * u)
  <2>1. root + u = (r + 1) * u /\ r + 1 \in Nat
    BY <1>5, <1>7
  <2>2. QED BY <1>5, <2>1, SquareOfProduct
<1>11. u * u \in Nat \ {0}
  BY <1>5
<1> DEFINE w == u * u
<1> HIDE DEF root, w
<1>12. (r * r) * w <= x * w /\ x * w < ((r + 1) * (r + 1)) * w
  <2>1. \A a, b, c \in Nat : c > 0 /\ a <= b => a * c <= b * c
    OBVIOUS
  <2>2. \A a, b, c \in Nat : c > 0 /\ a < b => a * c < b * c
    OBVIOUS
  <2>3. r * r \in Nat /\ (r + 1) * (r + 1) \in Nat /\ w \in Nat /\ w > 0
    BY <1>7, <1>11 DEF w
  <2>4. QED BY <1>5, <1>7, <2>1, <2>2, <2>3
<1>13. root * root <= d * One /\ d * One < (root + u) * (root + u)
  BY <1>6, <1>9, <1>10, <1>12 DEF w
<1>14. root <= MaxUint
  <2> SUFFICES ASSUME MaxUint < root PROVE FALSE
    BY <1>1, <1>9
  <2>1. MaxUint * MaxUint < root * root
    BY <1>1, <1>9, SquaresGrow
  <2>2. d * One <= MaxUint * One /\ MaxUint * One <= MaxUint * MaxUint
    <3>1. \A a, b, c \in Nat : a <= b => a * c <= b * c /\ c * a <= c * b
      OBVIOUS
    <3>2. QED BY <1>1, <3>1
  <2>3. d * One \in Nat /\ MaxUint * One \in Nat /\ MaxUint * MaxUint \in Nat /\ root * root \in Nat
    BY <1>1, <1>9
  <2>4. QED BY <1>13, <2>1, <2>2, <2>3
<1>15. Sqrt(d) = root /\ root \in Uint
  BY <1>1, <1>8, <1>9, <1>14 DEF Fits, root
<1>16. QED BY <1>13, <1>15 DEF RootIsExact, u, h, p

-----------------------------------------------------------------------------
(* The texts of decimals.                                                  *)

\* Numerals computed up to different numbers agree.
LEMMA NumeralsAgree ==
  ASSUME NEW n \in Nat, NEW d, AreNumerals(d, n), NEW m \in 0..n
  PROVE  Numeral(m) = d[m]
<1>1. PICK e : e = [l \in 0..m |-> e[l]] /\ AreNumerals(e, m)
  BY NumeralsExist
<1>2. e = [l \in 0..m |-> IF l < 10 THEN <<l>> ELSE Append(e[l \div 10], l % 10)]
  <2>1. \A l \in 0..m : e[l] = IF l < 10 THEN <<l>> ELSE Append(e[l \div 10], l % 10)
    BY <1>1 DEF AreNumerals
  <2>2. QED BY <1>1, <2>1
<1> DEFINE digits == CHOOSE digits : digits =
             [l \in 0 .. m |-> IF l < 10 THEN <<l>> ELSE Append(digits[l \div 10], l % 10)]
<1>3. digits = [l \in 0 .. m |-> IF l < 10 THEN <<l>> ELSE Append(digits[l \div 10], l % 10)]
  BY <1>2, Zenon
<1>4. Numeral(m) = digits[m]
  BY Zenon DEF Numeral
<1> HIDE DEF digits
<1>5. AreNumerals(digits, m)
  BY <1>3 DEF AreNumerals
<1> DEFINE Q == {k \in Nat : k <= m => digits[k] = d[k]}
<1>6. ASSUME NEW k \in Nat, \A l \in Nat : l < k => l \in Q PROVE k \in Q
  <2> SUFFICES ASSUME k <= m PROVE digits[k] = d[k]
    OBVIOUS
  <2>1. k \in 0..m /\ k \in 0..n
    OBVIOUS
  <2>2. /\ digits[k] = IF k < 10 THEN <<k>> ELSE Append(digits[k \div 10], k % 10)
        /\ d[k] = IF k < 10 THEN <<k>> ELSE Append(d[k \div 10], k % 10)
    BY <1>5, <2>1 DEF AreNumerals
  <2>3. k >= 10 => k \div 10 \in Nat /\ k \div 10 < k /\ k \div 10 <= m
    OBVIOUS
  <2>4. k >= 10 => digits[k \div 10] = d[k \div 10]
    BY <1>6, <2>3
  <2>5. CASE k < 10
    BY <2>2, <2>5
  <2>6. CASE ~ (k < 10)
    <3>1. k >= 10
      BY <2>6
    <3>2. QED BY <2>2, <2>4, <2>6, <3>1
  <2>7. QED BY <2>5, <2>6
<1> HIDE DEF Q
<1>7. m \in Q
  BY <1>6, NumbersInduction
<1>8. QED BY <1>4, <1>7 DEF Q

LEMMA NumeralIs ==
  ASSUME NEW n \in Nat
  PROVE  Numeral(n) = IF n < 10 THEN <<n>> ELSE Append(Numeral(n \div 10), n % 10)
<1>1. PICK d : AreNumerals(d, n)
  BY NumeralsExist
<1>2. n \in 0..n /\ (n >= 10 => n \div 10 \in 0..n)
  OBVIOUS
<1>3. Numeral(n) = d[n] /\ (n >= 10 => Numeral(n \div 10) = d[n \div 10])
  BY <1>1, <1>2, NumeralsAgree
<1>4. d[n] = IF n < 10 THEN <<n>> ELSE Append(d[n \div 10], n % 10)
  BY <1>1, <1>2 DEF AreNumerals
<1>5. CASE n < 10
  BY <1>3, <1>4, <1>5
<1>6. CASE ~ (n < 10)
  <2>1. n >= 10
    BY <1>6
  <2>2. QED BY <1>3, <1>4, <1>6, <2>1
<1>7. QED BY <1>5, <1>6

\* A number below a power of ten has no more digits than the power has zeros.
LEMMA NumeralIsShort ==
  ASSUME NEW k \in Nat \ {0}, NEW n \in Nat, n < TenTo(k)
  PROVE  Len(Numeral(n)) <= k
<1> DEFINE Short(j) == \A m \in Nat : m < TenTo(j + 1) => Len(Numeral(m)) <= j + 1
           Q == {j \in Nat : Short(j)}
<1>1. 0 \in Q
  <2>1. TenTo(0 + 1) = 10
    BY TenToNext, TenToZero
  <2>2. ASSUME NEW m \in Nat, m < 10 PROVE Len(Numeral(m)) <= 0 + 1
    <3>1. Numeral(m) = <<m>>
      BY <2>2, NumeralIs
    <3>2. Len(<<m>>) = 1
      OBVIOUS
    <3>3. QED BY <3>1, <3>2
  <2>3. QED BY <2>1, <2>2
<1>2. ASSUME NEW j \in Nat, j \in Q PROVE j + 1 \in Q
  <2> SUFFICES ASSUME NEW m \in Nat, m < TenTo((j + 1) + 1)
               PROVE  Len(Numeral(m)) <= (j + 1) + 1
    OBVIOUS
  <2>1. TenTo((j + 1) + 1) = 10 * TenTo(j + 1) /\ TenTo(j + 1) \in Nat
    BY TenToNext, TenToType
  <2>2. CASE m < 10
    <3>1. Numeral(m) = <<m>>
      BY <2>2, NumeralIs
    <3>2. Len(<<m>>) = 1
      OBVIOUS
    <3>3. QED BY <3>1, <3>2
  <2>3. CASE ~ (m < 10)
    <3> DEFINE l == m \div 10
    <3>1. l \in Nat /\ l < TenTo(j + 1)
      BY <2>1
    <3>2. Numeral(m) = Append(Numeral(l), m % 10)
      BY <2>3, NumeralIs
    <3> HIDE DEF l
    <3>3. Len(Numeral(l)) <= j + 1 /\ Numeral(l) \in Seq(Digit)
      BY <1>2, <3>1, NumeralSays
    <3> DEFINE s == Numeral(l)
    <3> HIDE DEF s
    <3>4. s \in Seq(Digit) => Len(Append(s, m % 10)) = Len(s) + 1 /\ Len(s) \in Nat
      OBVIOUS
    <3>5. QED BY <3>2, <3>3, <3>4 DEF s
  <2>4. QED BY <2>2, <2>3
<1> HIDE DEF Q
<1>3. k - 1 \in Nat /\ (k - 1) + 1 = k
  OBVIOUS
<1>4. k - 1 \in Q
  BY <1>1, <1>2, <1>3, StepsInduction
<1>5. QED BY <1>3, <1>4 DEF Q

\* Numerals that begin with the same digits have the same values up to there.
LEMMA ValuesAgree ==
  ASSUME NEW s, NEW t, NEW v, NEW w, NEW m \in Nat, NEW n \in Nat,
         AreValues(v, s, m), AreValues(w, t, n),
         NEW k \in Nat, k <= m, k <= n, \A i \in 1..k : s[i] = t[i]
  PROVE  v[k] = w[k]
<1> DEFINE Q == {j \in Nat : j <= k => v[j] = w[j]}
<1>1. 0 \in Q
  BY DEF AreValues
<1>2. ASSUME NEW j \in Nat, j \in Q PROVE j + 1 \in Q
  <2> SUFFICES ASSUME j + 1 <= k PROVE v[j + 1] = w[j + 1]
    OBVIOUS
  <2>1. j + 1 \in 0..m /\ j + 1 \in 0..n /\ j + 1 # 0 /\ (j + 1) - 1 = j /\ j + 1 \in 1..k
    OBVIOUS
  <2>2. v[j + 1] = 10 * v[j] + s[j + 1] /\ w[j + 1] = 10 * w[j] + t[j + 1]
    BY <2>1 DEF AreValues
  <2>3. v[j] = w[j] /\ s[j + 1] = t[j + 1]
    BY <1>2, <2>1
  <2>4. QED BY <2>2, <2>3
<1> HIDE DEF Q
<1>3. k \in Q
  BY <1>1, <1>2, StepsInduction
<1>4. QED BY <1>3 DEF Q

LEMMA ValuesAreNumbers ==
  ASSUME NEW s \in Seq(Digit), NEW v, AreValues(v, s, Len(s)), NEW k \in 0 .. Len(s)
  PROVE  v[k] \in Nat
<1> DEFINE Q == {j \in Nat : j <= Len(s) => v[j] \in Nat}
<1>1. Len(s) \in Nat /\ \A i \in 1 .. Len(s) : s[i] \in Nat
  BY DEF Digit
<1>2. 0 \in Q
  BY <1>1 DEF AreValues
<1>3. ASSUME NEW j \in Nat, j \in Q PROVE j + 1 \in Q
  <2> SUFFICES ASSUME j + 1 <= Len(s) PROVE v[j + 1] \in Nat
    OBVIOUS
  <2>1. j + 1 \in 0 .. Len(s) /\ j + 1 # 0 /\ (j + 1) - 1 = j /\ j + 1 \in 1 .. Len(s)
    BY <1>1
  <2>2. v[j + 1] = 10 * v[j] + s[j + 1]
    BY <2>1 DEF AreValues
  <2>3. v[j] \in Nat /\ s[j + 1] \in Nat
    BY <1>1, <1>3, <2>1
  <2>4. QED BY <2>2, <2>3
<1> HIDE DEF Q
<1>4. k \in Nat /\ k <= Len(s)
  BY <1>1
<1>5. k \in Q
  BY <1>2, <1>3, <1>4, StepsInduction
<1>6. QED BY <1>4, <1>5 DEF Q

\* Zeros before a numeral leave its value as it is.
LEMMA ZerosBefore ==
  ASSUME NEW s \in Seq(Digit), NEW z \in Nat, NEW t \in Seq(Digit),
         Len(t) = z + Len(s), \A i \in 1..z : t[i] = 0,
         \A i \in 1 .. Len(s) : t[z + i] = s[i]
  PROVE  ValueOf(t) = ValueOf(s)
<1> DEFINE n == Len(s)
<1>1. n \in Nat /\ z + n \in Nat /\ Len(t) = z + n
  OBVIOUS
<1>2. PICK v : AreValues(v, s, n) /\ ValueOf(s) = v[n]
  BY <1>1, ValueIs
<1>3. PICK w : AreValues(w, t, z + n) /\ ValueOf(t) = w[z + n]
  BY <1>1, ValueIs
<1> HIDE DEF n
<1> DEFINE Q == {k \in Nat : k <= z => w[k] = 0}
           R == {k \in Nat : k <= n => w[z + k] = v[k]}
<1>4. 0 \in Q
  BY <1>1, <1>3 DEF AreValues
<1>5. ASSUME NEW k \in Nat, k \in Q PROVE k + 1 \in Q
  <2> SUFFICES ASSUME k + 1 <= z PROVE w[k + 1] = 0
    OBVIOUS
  <2>1. k + 1 \in 0 .. z + n /\ k + 1 # 0 /\ (k + 1) - 1 = k /\ k + 1 \in 1..z
    BY <1>1
  <2>2. w[k + 1] = 10 * w[k] + t[k + 1]
    BY <1>3, <2>1 DEF AreValues
  <2>3. w[k] = 0 /\ t[k + 1] = 0
    BY <1>5, <2>1
  <2>4. QED BY <2>2, <2>3
<1> HIDE DEF Q
<1>6. z \in Q
  BY <1>4, <1>5, StepsInduction
<1>7. w[z] = 0
  BY <1>6 DEF Q
<1>8. 0 \in R
  <2>1. v[0] = 0 /\ z + 0 = z
    BY <1>1, <1>2 DEF AreValues
  <2>2. QED BY <1>7, <2>1
<1>9. ASSUME NEW k \in Nat, k \in R PROVE k + 1 \in R
  <2> SUFFICES ASSUME k + 1 <= n PROVE w[z + (k + 1)] = v[k + 1]
    OBVIOUS
  <2>1. /\ z + (k + 1) \in 0 .. z + n /\ z + (k + 1) # 0 /\ (z + (k + 1)) - 1 = z + k
        /\ k + 1 \in 0..n /\ k + 1 # 0 /\ (k + 1) - 1 = k /\ k + 1 \in 1..n
    BY <1>1
  <2>2. w[z + (k + 1)] = 10 * w[z + k] + t[z + (k + 1)]
    BY <1>3, <2>1 DEF AreValues
  <2>3. v[k + 1] = 10 * v[k] + s[k + 1]
    BY <1>2, <2>1 DEF AreValues
  <2>4. w[z + k] = v[k] /\ t[z + (k + 1)] = s[k + 1]
    BY <1>9, <2>1 DEF n
  <2>5. QED BY <2>2, <2>3, <2>4
<1> HIDE DEF R
<1>10. n \in R
  BY <1>1, <1>8, <1>9, StepsInduction
<1>11. w[z + n] = v[n]
  BY <1>1, <1>10 DEF R
<1>12. QED BY <1>2, <1>3, <1>11

\* A zero after a numeral makes its value ten times as much.
LEMMA ZerosAfter ==
  ASSUME NEW s \in Seq(Digit), NEW k \in 0 .. Len(s),
         \A i \in 1 .. Len(s) : i > k => s[i] = 0
  PROVE  ValueOf(s) = ValueOf(SubSeq(s, 1, k)) * TenTo(Len(s) - k)
<1> DEFINE n == Len(s)
           t == SubSeq(s, 1, k)
<1>1. /\ n \in Nat /\ k \in Nat /\ k <= n /\ n - k \in Nat
      /\ Len(t) = k /\ \A i \in 1..k : s[i] = t[i]
  OBVIOUS
<1>2. PICK v : AreValues(v, s, n) /\ ValueOf(s) = v[n]
  BY <1>1, ValueIs
<1> HIDE DEF t
<1>3. PICK w : AreValues(w, t, k) /\ ValueOf(t) = w[k]
  <2>1. Len(t) \in Nat
    BY <1>1
  <2>2. \E w : AreValues(w, t, Len(t)) /\ ValueOf(t) = w[Len(t)]
    BY <2>1, ValueIs
  <2>3. QED BY <1>1, <2>2
<1>4. v[k] \in Nat
  BY <1>1, <1>2, ValuesAreNumbers
<1>5. w[k] = v[k]
  <2>1. k <= k
    BY <1>1
  <2>2. QED BY <1>1, <1>2, <1>3, <2>1, ValuesAgree
<1> DEFINE Q == {j \in Nat : k + j <= n => v[k + j] = v[k] * TenTo(j)}
<1>6. 0 \in Q
  <2>1. k + 0 = k /\ v[k] * 1 = v[k]
    BY <1>1, <1>4
  <2>2. QED BY <2>1, TenToZero
<1>7. ASSUME NEW j \in Nat, j \in Q PROVE j + 1 \in Q
  <2> SUFFICES ASSUME k + (j + 1) <= n PROVE v[k + (j + 1)] = v[k] * TenTo(j + 1)
    OBVIOUS
  <2>1. /\ k + (j + 1) \in 0..n /\ k + (j + 1) # 0 /\ (k + (j + 1)) - 1 = k + j
        /\ k + (j + 1) \in 1..n /\ k + (j + 1) > k /\ k + j <= n
    BY <1>1
  <2>2. v[k + (j + 1)] = 10 * v[k + j] + s[k + (j + 1)]
    BY <1>2, <2>1 DEF AreValues
  <2>3. v[k + j] = v[k] * TenTo(j) /\ s[k + (j + 1)] = 0
    BY <1>7, <2>1
  <2>4. TenTo(j + 1) = 10 * TenTo(j) /\ TenTo(j) \in Nat
    BY TenToNext, TenToType
  <2>5. 10 * (v[k] * TenTo(j)) = v[k] * (10 * TenTo(j)) /\ v[k] * TenTo(j) \in Nat
    BY <1>4, <2>4
  <2>6. QED BY <2>2, <2>3, <2>4, <2>5
<1> HIDE DEF Q
<1>8. n - k \in Q
  BY <1>1, <1>6, <1>7, StepsInduction
<1>9. k + (n - k) = n /\ n <= n
  BY <1>1
<1>10. v[n] = v[k] * TenTo(n - k)
  BY <1>8, <1>9 DEF Q
<1>11. QED BY <1>2, <1>3, <1>5, <1>10 DEF t

LEMMA PaddedIs ==
  ASSUME NEW n \in Nat, n < One
  PROVE  /\ Padded(Numeral(n)) \in Seq(Digit) /\ Len(Padded(Numeral(n))) = Places
         /\ ValueOf(Padded(Numeral(n))) = n
<1> DEFINE s == Numeral(n)
           z == Places - Len(s)
           zeros == [i \in 1..z |-> 0]
           t == zeros \o s
<1>1. s \in Seq(Digit) /\ ValueOf(s) = n /\ Len(s) \in Nat
  BY NumeralSays
<1>2. Len(s) <= Places /\ Places \in Nat
  BY Units, NumeralIsShort DEF One
<1> HIDE DEF s
<1>3. z \in Nat /\ Places = z + Len(s)
  BY <1>1, <1>2
<1> HIDE DEF z
<1>4. zeros \in Seq(Digit) /\ Len(zeros) = z /\ \A i \in 1..z : zeros[i] = 0
  BY <1>3 DEF Digit
<1> HIDE DEF zeros
<1>5. /\ t \in Seq(Digit) /\ Len(t) = z + Len(s)
      /\ \A i \in 1..z : t[i] = 0
      /\ \A i \in 1 .. Len(s) : t[z + i] = s[i]
  BY <1>1, <1>3, <1>4
<1> HIDE DEF t
<1>6. ValueOf(t) = n
  BY <1>1, <1>3, <1>5, ZerosBefore
<1>7. Padded(s) = t
  BY DEF Padded, t, zeros, z
<1>8. QED BY <1>3, <1>5, <1>6, <1>7 DEF s

\* A fraction without its trailing zeros is worth the units it was printed of.
LEMMA TrimmedIs ==
  ASSUME NEW s \in Seq(Digit), ValueOf(s) # 0
  PROVE  /\ Trimmed(s) \in Seq(Digit) /\ Len(Trimmed(s)) \in 1 .. Len(s)
         /\ ValueOf(Trimmed(s)) \in Nat
         /\ ValueOf(s) = ValueOf(Trimmed(s)) * TenTo(Len(s) - Len(Trimmed(s)))
<1> DEFINE S == {0} \cup {i \in DOMAIN s : s[i] # 0}
           k == Max(S)
           t == SubSeq(s, 1, k)
<1>1. Len(s) \in Nat /\ DOMAIN s = 1 .. Len(s)
  OBVIOUS
<1>2. S \subseteq 0 .. Len(s) /\ S # {}
  BY <1>1
<1>3. k \in S /\ \A i \in S : i <= k
  BY <1>1, <1>2, GreatestIs
<1>4. k \in 0 .. Len(s)
  BY <1>2, <1>3
<1>5. \A i \in 1 .. Len(s) : i > k => s[i] = 0
  <2> SUFFICES ASSUME NEW i \in 1 .. Len(s), i > k, s[i] # 0 PROVE FALSE
    OBVIOUS
  <2>1. i \in S
    BY <1>1
  <2>2. i <= k
    BY <1>3, <2>1
  <2>3. QED BY <1>1, <1>4, <2>2
<1>6. Trimmed(s) = t
  BY DEF Trimmed
<1> HIDE DEF S, k
<1>7. t \in Seq(Digit) /\ Len(t) = k
  BY <1>1, <1>4
<1>8. ValueOf(s) = ValueOf(t) * TenTo(Len(s) - k)
  BY <1>4, <1>5, ZerosAfter
<1> HIDE DEF t
<1>9. ValueOf(t) \in Nat
  <2>1. Len(t) \in Nat /\ Len(t) \in 0 .. Len(t)
    BY <1>7
  <2>2. PICK v : AreValues(v, t, Len(t)) /\ ValueOf(t) = v[Len(t)]
    BY <2>1, ValueIs
  <2>3. QED BY <1>7, <2>1, <2>2, ValuesAreNumbers
<1>10. k # 0
  <2> SUFFICES ASSUME k = 0 PROVE FALSE
    OBVIOUS
  <2>1. Len(t) = 0 /\ Len(t) \in Nat
    BY <1>7
  <2>2. PICK v : AreValues(v, t, Len(t)) /\ ValueOf(t) = v[Len(t)]
    BY <2>1, ValueIs
  <2>3. ValueOf(t) = 0
    BY <2>1, <2>2 DEF AreValues
  <2>4. TenTo(Len(s) - k) \in Nat
    BY <1>1, <1>4, TenToType
  <2>5. QED BY <1>8, <2>3, <2>4
<1>11. k \in 1 .. Len(s)
  BY <1>1, <1>4, <1>10
<1>12. QED BY <1>6, <1>7, <1>8, <1>9, <1>11

LEMMA TextsAre ==
  ASSUME NEW d \in Uint
  PROVE  TextsAreReadBack(d)
<1> DEFINE q == d \div One
           f == d % One
           w == Numeral(q)
<1>1. /\ MaxUint \in Nat /\ d \in Nat /\ d <= MaxUint /\ One \in Nat \ {0}
      /\ Places \in Nat /\ \A n \in Nat : n \in Uint <=> n <= MaxUint
  BY Units
<1>2. q \in Nat /\ q <= d /\ f \in Nat /\ f < One /\ (q * One) + f = d
  BY <1>1, QuotientBounds
<1>3. q \in Uint /\ q * One <= MaxUint /\ f <= MaxUint /\ q * One \in Nat
  BY <1>1, <1>2
<1>4. ParsedUint(w) = q
  BY <1>3, NumeralIsReadBack
<1>5. q # Malformed
  BY <1>2, FailureAssumption
<1>6. Display(d) = IF f = 0 THEN <<w>> ELSE <<w, Trimmed(Padded(Numeral(f)))>>
  BY DEF Display
<1> HIDE DEF q, f, w
<1>7. CASE f = 0
  <2> DEFINE text == <<w>>
  <2>1. Len(text) = 1 /\ text[1] = w /\ Display(d) = text
    BY <1>6, <1>7
  <2> HIDE DEF text
  <2>2. TenTo(Places - 0) \in Nat
    BY <1>1, TenToType
  <2>3. 0 * TenTo(Places - 0) = 0
    BY <2>2
  <2>4. 0 # Malformed /\ q * One + 0 = d
    BY <1>2, <1>7, FailureAssumption
  <2>5. ~ (Len(text) > 1) /\ Len(text) <= 2
    BY <2>1
  <2>6. FromStr(text) = d
    BY <1>1, <1>3, <1>4, <1>5, <2>1, <2>3, <2>4, <2>5 DEF FromStr
  <2>7. QED BY <1>1, <2>1, <2>6, NumeralIsReadBack
        DEF TextsAreReadBack, ToCosmosProtoString, FromCosmosProtoString
<1>8. CASE f # 0
  <2> DEFINE p == Padded(Numeral(f))
             t == Trimmed(p)
             text == <<w, t>>
             l == Len(t)
             a == ValueOf(t)
  <2>1. p \in Seq(Digit) /\ Len(p) = Places /\ ValueOf(p) = f
    BY <1>2, PaddedIs
  <2> HIDE DEF p
  <2>2. /\ t \in Seq(Digit) /\ l \in 1..Places /\ a \in Nat
        /\ f = a * TenTo(Places - l)
    BY <1>8, <2>1, TrimmedIs
  <2>3. Len(text) = 2 /\ text[1] = w /\ text[2] = t /\ Display(d) = text
    BY <1>6, <1>8 DEF p
  <2> HIDE DEF text, t, a
  <2>4. TenTo(Places - l) \in Nat \ {0}
    BY <1>1, <2>2, TenToType
  <2>5. a <= f
    BY <2>2, <2>4
  <2>6. a \in Uint /\ a # Malformed
    <3>1. a \in Nat /\ a <= MaxUint
      BY <1>1, <1>2, <1>3, <2>2, <2>5
    <3>2. QED BY <1>1, <3>1, FailureAssumption
  <2>7. t # Malformed /\ t # <<>>
    BY <2>2, FailureAssumption
  <2>8. ParsedUint(t) = a
    BY <2>6, <2>7 DEF ParsedUint, Fits, a
  <2>9. q * One + a * TenTo(Places - l) = d
    BY <1>2, <2>2
  <2>10. l <= Places /\ Len(text) > 1 /\ Len(text) <= 2
    BY <1>1, <2>2, <2>3
  <2>11. FromStr(text) = d
    BY <1>1, <1>3, <1>4, <1>5, <2>3, <2>6, <2>8, <2>9, <2>10 DEF FromStr
  <2>12. QED BY <1>1, <2>3, <2>11, NumeralIsReadBack
         DEF TextsAreReadBack, ToCosmosProtoString, FromCosmosProtoString
<1>9. QED BY <1>7, <1>8

LEMMA ValueIsNumber ==
  ASSUME NEW s \in Seq(Digit)
  PROVE  ValueOf(s) \in Nat
<1>1. Len(s) \in Nat /\ Len(s) \in 0 .. Len(s)
  OBVIOUS
<1>2. PICK v : AreValues(v, s, Len(s)) /\ ValueOf(s) = v[Len(s)]
  BY <1>1, ValueIs
<1>3. QED BY <1>1, <1>2, ValuesAreNumbers

\* A text of a whole part and of l digits after the dot is the number of units
\* that the two say, when that fits.
LEMMA UnitsOfText ==
  ASSUME NEW W \in Nat, NEW F \in Nat, NEW l \in 0..Places
  PROVE  /\ TenTo(Places - l) \in Nat \ {0} /\ TenTo(l) \in Nat \ {0}
         /\ (W * TenTo(l) + F) * One = (W * One + F * TenTo(Places - l)) * TenTo(l)
         /\ W <= W * One + F * TenTo(Places - l)
         /\ F <= W * One + F * TenTo(Places - l)
         /\ W * One <= W * One + F * TenTo(Places - l)
<1> DEFINE a == TenTo(l)
           b == TenTo(Places - l)
<1>1. One \in Nat \ {0} /\ Places \in Nat /\ l \in Nat /\ Places - l \in Nat /\ l + (Places - l) = Places
  BY Units
<1>2. a \in Nat \ {0} /\ b \in Nat \ {0}
  BY <1>1, TenToType
<1>3. One = a * b
  BY <1>1, TenToPlus DEF One
<1> HIDE DEF a, b
<1>4. (W * a + F) * (a * b) = (W * (a * b) + F * b) * a
  <2>1. (W * a + F) * (a * b) = ((W * a) * (a * b)) + (F * (a * b))
    BY <1>2
  <2>2. (W * (a * b) + F * b) * a = ((W * (a * b)) * a) + ((F * b) * a)
    BY <1>2
  <2>3. (W * a) * (a * b) = (W * (a * b)) * a /\ F * (a * b) = (F * b) * a
    BY <1>2
  <2>4. QED BY <2>1, <2>2, <2>3
<1>5. W <= W * One /\ F <= F * b /\ W * One \in Nat /\ F * b \in Nat
  BY <1>1, <1>2
<1>6. QED BY <1>2, <1>3, <1>4, <1>5 DEF a, b

\* A number of units that is exact is a quotient without a rest.
LEMMA ExactQuotient ==
  ASSUME NEW A \in Nat, NEW T \in Nat \ {0}, NEW n, n = A * T
  PROVE  IsQuotient(IF A \in Uint THEN A ELSE Overflow, n, T)
<1>1. Overflow \notin Uint /\ (A \notin Uint => A > MaxUint)
  <2>1. /\ MaxUint \in Nat /\ Overflow \notin Nat /\ Uint \subseteq Nat
        /\ \A m \in Nat : m \in Uint <=> m <= MaxUint
    BY Units
  <2>2. A \in Uint <=> A <= MaxUint
    BY <2>1
  <2>3. ~ (A <= MaxUint) => A > MaxUint
    BY <2>1
  <2>4. QED BY <2>1, <2>2, <2>3
<1>2. n \div T = A
  OBVIOUS
<1>3. A * T <= A * T /\ A * T < (A + 1) * T
  <2>1. (A + 1) * T = (A * T) + T /\ A * T \in Nat
    OBVIOUS
  <2>2. QED BY <2>1
<1>4. QED BY <1>1, <1>2, <1>3 DEF IsQuotient

LEMMA ParsedIs ==
  ASSUME NEW s \in Seq(Digit), s # <<>>
  PROVE  ParsedUint(s) = IF ValueOf(s) \in Uint THEN ValueOf(s) ELSE Malformed
BY FailureAssumption DEF ParsedUint, Fits

LEMMA TextIs ==
  ASSUME NEW text \in Seq(Seq(Digit)), text # <<>>
  PROVE  TextIsExact(text)
<1> DEFINE l == IF Len(text) > 1 THEN Len(text[2]) ELSE 0
           fraction == IF Len(text) > 1 THEN ParsedUint(text[2]) ELSE 0
           F == IF Len(text) > 1 THEN ValueOf(text[2]) ELSE 0
           W == ValueOf(text[1])
           A == W * One + F * TenTo(Places - l)
           n == (W * TenTo(l) + F) * One
<1>1. /\ MaxUint \in Nat /\ One \in Nat \ {0} /\ Places \in Nat
      /\ Malformed \notin Nat /\ Malformed \notin Uint /\ 0 \in Uint
      /\ \A m \in Nat : m \in Uint <=> m <= MaxUint
  <2>1. Malformed \notin Nat /\ 0 \in Nat
    BY FailureAssumption
  <2>2. /\ MaxUint \in Nat /\ One \in Nat \ {0} /\ Places \in Nat
        /\ Uint \subseteq Nat /\ \A m \in Nat : m \in Uint <=> m <= MaxUint
    BY Units
  <2>3. 0 <= MaxUint
    BY <2>2
  <2>4. QED BY <2>1, <2>2, <2>3
<1>2. /\ Len(text) \in Nat /\ Len(text) >= 1 /\ DOMAIN text = 1 .. Len(text)
      /\ text[1] \in Seq(Digit) /\ (Len(text) > 1 => text[2] \in Seq(Digit))
  OBVIOUS
<1>3. /\ l = IF Len(text) = 1 THEN 0 ELSE Len(text[2])
      /\ F = IF Len(text) = 1 THEN 0 ELSE ValueOf(text[2])
  <2>1. \A k \in Nat : k >= 1 => (k > 1 <=> ~ (k = 1))
    OBVIOUS
  <2>2. Len(text) > 1 <=> ~ (Len(text) = 1)
    BY <1>2, <2>1
  <2>3. QED BY <2>2
<1>4. l \in Nat /\ F \in Nat /\ W \in Nat
  BY <1>2, ValueIsNumber
<1>5. TextIsExact(text) <=>
        IF <<>> \in Range(text) \/ l > Places \/ Len(text) > 2
        THEN FromStr(text) = Malformed
        ELSE IsQuotient(OrElse(FromStr(text), Overflow), n, TenTo(l))
  BY <1>3 DEF TextIsExact
<1>6. /\ FromStr(text) =
           IF /\ ParsedUint(text[1]) # Malformed /\ ParsedUint(text[1]) * One <= MaxUint
              /\ fraction # Malformed /\ l <= Places
              /\ ParsedUint(text[1]) * One + fraction * TenTo(Places - l) <= MaxUint
              /\ Len(text) <= 2
           THEN ParsedUint(text[1]) * One + fraction * TenTo(Places - l)
           ELSE Malformed
  BY DEF FromStr
<1>7. Range(text) = {text[i] : i \in 1 .. Len(text)}
  BY <1>2 DEF Range
<1>8. CASE <<>> \in Range(text) \/ l > Places \/ Len(text) > 2
  <2>1. CASE l > Places \/ Len(text) > 2
    <3>1. ~ (l <= Places /\ Len(text) <= 2)
      BY <1>1, <1>2, <1>4, <2>1
    <3>2. FromStr(text) = Malformed
      BY <1>6, <3>1
    <3>3. QED BY <1>5, <1>8, <3>2
  <2>2. CASE <<>> \in Range(text) /\ Len(text) <= 2
    <3>1. PICK i \in 1 .. Len(text) : text[i] = <<>>
      BY <1>7, <2>2
    <3>2. ParsedUint(<<>>) = Malformed
      BY DEF ParsedUint
    <3>3. i = 1 \/ (i = 2 /\ Len(text) > 1)
      BY <1>2, <2>2
    <3>4. ParsedUint(text[1]) = Malformed \/ fraction = Malformed
      BY <3>1, <3>2, <3>3
    <3>5. FromStr(text) = Malformed
      BY <1>6, <3>4
    <3>6. QED BY <1>5, <1>8, <3>5
  <2>3. QED BY <1>2, <1>8, <2>1, <2>2
<1>9. CASE ~ (<<>> \in Range(text) \/ l > Places \/ Len(text) > 2)
  <2>1. text[1] # <<>> /\ (Len(text) > 1 => text[2] # <<>>)
    BY <1>2, <1>7, <1>9
  <2>2. ParsedUint(text[1]) = IF W \in Uint THEN W ELSE Malformed
    BY <1>2, <2>1, ParsedIs
  <2>3. fraction = IF F \in Uint THEN F ELSE Malformed
    BY <1>1, <1>2, <2>1, ParsedIs
  <2>4. l \in 0..Places /\ l <= Places /\ Len(text) <= 2
    BY <1>1, <1>2, <1>4, <1>9
  <2> HIDE DEF l, F, W, fraction
  <2>5. /\ TenTo(Places - l) \in Nat \ {0} /\ TenTo(l) \in Nat \ {0} /\ n = A * TenTo(l)
        /\ W <= A /\ F <= A /\ W * One <= A
    BY <1>4, <2>4, UnitsOfText
  <2>6. A \in Nat
    BY <1>1, <1>4, <2>5
  <2> HIDE DEF A, n
  <2>7. IsQuotient(IF A \in Uint THEN A ELSE Overflow, n, TenTo(l))
    BY <2>5, <2>6, ExactQuotient
  <2>8. CASE A \in Uint
    <3>1. A <= MaxUint /\ W * One \in Nat
      BY <1>1, <1>4, <2>6, <2>8
    <3>2. W \in Uint /\ F \in Uint /\ W * One <= MaxUint
      BY <1>1, <1>4, <2>5, <2>6, <3>1
    <3>3. ParsedUint(text[1]) = W /\ fraction = F /\ W # Malformed /\ F # Malformed
      BY <1>1, <1>4, <2>2, <2>3, <3>2
    <3>4. FromStr(text) = A
      BY <1>6, <2>4, <3>1, <3>2, <3>3 DEF A
    <3>5. OrElse(FromStr(text), Overflow) = A
      BY <2>8, <3>4 DEF OrElse
    <3>6. QED BY <1>5, <1>9, <2>7, <2>8, <3>5
  <2>9. CASE A \notin Uint
    <3>1. ~ (A <= MaxUint)
      BY <1>1, <2>6, <2>9
    <3>2. FromStr(text) = Malformed
      <4> SUFFICES ASSUME ParsedUint(text[1]) # Malformed, fraction # Malformed
                   PROVE  FromStr(text) = Malformed
        BY <1>6
      <4>1. ParsedUint(text[1]) = W /\ fraction = F
        BY <2>2, <2>3
      <4>2. ~ (W * One + F * TenTo(Places - l) <= MaxUint)
        BY <3>1 DEF A
      <4>3. QED BY <1>6, <4>1, <4>2
    <3>3. OrElse(FromStr(text), Overflow) = Overflow
      BY <1>1, <3>2 DEF OrElse
    <3>4. QED BY <1>5, <1>9, <2>7, <2>9, <3>3
  <2>10. QED BY <2>8, <2>9
<1>10. QED BY <1>8, <1>9

-----------------------------------------------------------------------------
(* Powers of decimals.                                                     *)

LEMMA FromAtomicsIs ==
  ASSUME NEW atomics \in Uint, NEW places \in Nat
  PROVE  FromAtomicsIsExact(atomics, places)
<1>1. /\ atomics \in Nat /\ Places \in Nat /\ One \in Nat \ {0} /\ Overflow \notin Nat
      /\ Uint \subseteq Nat /\ MaxUint \in Nat /\ \A m \in Nat : m \in Uint <=> m <= MaxUint
  BY Units
<1>2. CASE places <= Places
  <2> DEFINE t == TenTo(places)
             u == TenTo(Places - places)
             A == atomics * u
  <2>1. Places - places \in Nat /\ places + (Places - places) = Places
    BY <1>1, <1>2
  <2>2. t \in Nat \ {0} /\ u \in Nat \ {0} /\ One = t * u
    BY <2>1, TenToType, TenToPlus DEF One
  <2>3. FromAtomics(atomics, places) = IF A \in Uint THEN A ELSE Overflow
    BY <1>2 DEF FromAtomics, Fits
  <2> HIDE DEF t, u
  <2>4. A \in Nat /\ atomics * One = A * t
    <3>1. atomics * (t * u) = (atomics * u) * t
      BY <1>1, <2>2
    <3>2. QED BY <1>1, <2>2, <3>1
  <2> HIDE DEF A
  <2>5. IsQuotient(IF A \in Uint THEN A ELSE Overflow, atomics * One, t)
    BY <2>2, <2>4, ExactQuotient
  <2>6. QED BY <2>3, <2>5 DEF FromAtomicsIsExact, t
<1>3. CASE ~ (places <= Places)
  <2> DEFINE t == TenTo(places - Places)
             q == atomics \div t
  <2>1. places - Places \in Nat /\ places = Places + (places - Places)
    BY <1>1, <1>3
  <2>2. t \in Nat \ {0} /\ TenTo(places) = One * t
    BY <1>1, <2>1, TenToType, TenToPlus DEF One
  <2>3. FromAtomics(atomics, places) = q
    BY <1>3 DEF FromAtomics
  <2> HIDE DEF t
  <2>4. q \in Nat /\ q <= atomics /\ q * t <= atomics /\ atomics < (q + 1) * t
    BY <1>1, <2>2, QuotientBounds
  <2> HIDE DEF q
  <2>5. q \in Uint
    BY <1>1, <2>4
  <2>6. \A k \in Nat : k * (One * t) = (k * t) * One
    BY <1>1, <2>2
  <2>7. \A k, l \in Nat : (k <= l => k * One <= l * One) /\ (k < l => k * One < l * One)
    BY <1>1
  <2>8. q * t \in Nat /\ (q + 1) * t \in Nat /\ q + 1 \in Nat
    BY <2>2, <2>4
  <2>9. q * (One * t) <= atomics * One /\ atomics * One < (q + 1) * (One * t)
    BY <1>1, <2>4, <2>6, <2>7, <2>8
  <2>10. QED BY <2>2, <2>3, <2>5, <2>9 DEF FromAtomicsIsExact, IsQuotient
<1>4. QED BY <1>2, <1>3

\* x is at most d to the power of a, both of them decimals.
AtMost(x, d, a) == x * PowerOf(One, a) <= One * PowerOf(d, a)
TooLarge(d, a) == MaxUint * PowerOf(One, a) < One * PowerOf(d, a)

LEMMA TimesGrows ==
  ASSUME NEW a \in Nat, NEW b \in Nat, NEW c \in Nat, NEW d \in Nat, a <= b, c <= d
  PROVE  a * c <= b * d
<1>1. a * c <= b * c /\ b * c <= b * d
  OBVIOUS
<1>2. a * c \in Nat /\ b * c \in Nat /\ b * d \in Nat
  OBVIOUS
<1>3. QED BY <1>1, <1>2

LEMMA TimesCancels ==
  ASSUME NEW a \in Nat, NEW b \in Nat, NEW c \in Nat \ {0}
  PROVE  (a * c <= b * c <=> a <= b) /\ (a * c < b * c <=> a < b)
<1>1. a <= b => a * c <= b * c
  OBVIOUS
<1>2. a < b => a * c < b * c
  OBVIOUS
<1>3. b < a => b * c < a * c
  OBVIOUS
<1>4. b <= a => b * c <= a * c
  OBVIOUS
<1>5. a * c \in Nat /\ b * c \in Nat
  OBVIOUS
<1>6. QED BY <1>1, <1>2, <1>3, <1>4, <1>5

LEMMA TimesSwaps ==
  ASSUME NEW a \in Nat, NEW b \in Nat, NEW c \in Nat, NEW d \in Nat
  PROVE  (a * b) * (c * d) = (a * c) * (b * d)
<1>1. (a * b) * (c * d) = ((a * b) * c) * d
  OBVIOUS
<1>2. (a * b) * c = (a * c) * b
  OBVIOUS
<1>3. ((a * c) * b) * d = (a * c) * (b * d)
  OBVIOUS
<1>4. QED BY <1>1, <1>2, <1>3

\* The product of two powers that are at most those on paper is so, too.
LEMMA RoundedProduct ==
  ASSUME NEW d \in Nat, NEW x \in Nat, NEW y \in Nat, NEW a \in Nat, NEW b \in Nat,
         AtMost(x, d, a), AtMost(y, d, b)
  PROVE  AtMost((x * y) \div One, d, a + b)
<1> DEFINE O == One
           P == PowerOf(One, a)
           Q == PowerOf(One, b)
           D == PowerOf(d, a)
           E == PowerOf(d, b)
           q == (x * y) \div One
<1>1. O \in Nat \ {0} /\ P \in Nat /\ Q \in Nat /\ D \in Nat /\ E \in Nat
  BY Units, PowerOfType
<1>2. x * P <= O * D /\ y * Q <= O * E
  BY DEF AtMost
<1>3. PowerOf(One, a + b) = P * Q /\ PowerOf(d, a + b) = D * E
  BY <1>1, PowerOfPlus
<1>4. x * y \in Nat
  OBVIOUS
<1>5. q \in Nat /\ q * O <= x * y
  BY <1>1, <1>4, QuotientBounds
<1> HIDE DEF O, P, Q, D, E, q
<1>6. /\ P * Q \in Nat /\ D * E \in Nat /\ x * P \in Nat /\ y * Q \in Nat
      /\ O * D \in Nat /\ O * E \in Nat /\ q * O \in Nat /\ q * (P * Q) \in Nat /\ O * O \in Nat
      /\ O * (D * E) \in Nat
  <2>1. \A m, n \in Nat : m * n \in Nat
    OBVIOUS
  <2>2. QED BY <1>1, <1>5, <2>1
<1>7. (q * O) * (P * Q) <= (x * y) * (P * Q)
  <2>1. P * Q <= P * Q
    BY <1>6
  <2>2. QED BY <1>4, <1>5, <1>6, <2>1, TimesGrows
<1>8. (x * y) * (P * Q) = (x * P) * (y * Q)
  BY <1>1, TimesSwaps
<1>9. (x * P) * (y * Q) <= (O * D) * (O * E)
  BY <1>2, <1>6, TimesGrows
<1>10. (O * D) * (O * E) = (O * O) * (D * E)
  BY <1>1, TimesSwaps
<1>11. (q * O) * (P * Q) = (q * (P * Q)) * O
  BY <1>1, <1>5, <1>6
<1>12. (O * O) * (D * E) = (O * (D * E)) * O
  BY <1>1, <1>6
<1>13. (q * (P * Q)) * O <= (O * (D * E)) * O
  <2>1. \A k, l, m \in Nat : k <= l /\ l <= m => k <= m
    OBVIOUS
  <2>2. \A m, n \in Nat : m * n \in Nat
    OBVIOUS
  <2>3. /\ (q * (P * Q)) * O \in Nat /\ (O * (D * E)) * O \in Nat /\ (x * P) * (y * Q) \in Nat
    BY <1>1, <1>6, <2>2
  <2>4. /\ (q * (P * Q)) * O <= (x * P) * (y * Q)
        /\ (x * P) * (y * Q) <= (O * (D * E)) * O
    BY <1>7, <1>8, <1>9, <1>10, <1>11, <1>12
  <2>5. QED BY <2>1, <2>3, <2>4
<1>14. q * (P * Q) <= O * (D * E)
  BY <1>1, <1>6, <1>13, TimesCancels
<1>15. QED BY <1>3, <1>14 DEF AtMost, O, q

\* A product that does not fit is of a power that does not.
LEMMA TooLargeProduct ==
  ASSUME NEW d \in Nat, NEW q \in Nat, NEW a \in Nat, AtMost(q, d, a), q > MaxUint
  PROVE  TooLarge(d, a)
<1> DEFINE P == PowerOf(One, a)
           D == One * PowerOf(d, a)
<1>1. MaxUint \in Nat /\ One \in Nat \ {0} /\ P \in Nat \ {0} /\ PowerOf(d, a) \in Nat
  BY Units, PowerOfType
<1>2. D \in Nat
  BY <1>1
<1>3. q * P <= D
  BY DEF AtMost
<1> HIDE DEF P, D
<1>4. MaxUint * P < q * P
  BY <1>1, TimesCancels
<1>5. MaxUint * P \in Nat /\ q * P \in Nat
  BY <1>1
<1>6. MaxUint * P < D
  BY <1>2, <1>3, <1>4, <1>5
<1>7. QED BY <1>6 DEF TooLarge, P, D

\* No greater power fits, either.
LEMMA TooLargeStays ==
  ASSUME NEW d \in Nat, NEW a \in Nat, NEW e \in Nat, a <= e, TooLarge(d, a)
  PROVE  TooLarge(d, e)
<1> DEFINE P == PowerOf(One, a)
           D == PowerOf(d, a)
           m == e - a
           R == PowerOf(One, m)
           S == PowerOf(d, m)
<1>1. m \in Nat /\ e = a + m
  OBVIOUS
<1> HIDE DEF m
<1>2. /\ MaxUint \in Nat /\ One \in Nat \ {0} /\ One <= MaxUint
      /\ P \in Nat \ {0} /\ D \in Nat /\ R \in Nat \ {0} /\ S \in Nat
  <2>1. /\ MaxUint \in Nat /\ One \in Nat \ {0} /\ One \in Uint
        /\ \A k \in Nat : k \in Uint <=> k <= MaxUint
    BY Units
  <2>2. One > 0 /\ One <= MaxUint
    BY <2>1
  <2>3. P \in Nat /\ P > 0 /\ D \in Nat
    BY <2>1, <2>2, PowerOfType
  <2>4. R \in Nat /\ R > 0 /\ S \in Nat
    BY <1>1, <2>1, <2>2, PowerOfType
  <2> HIDE DEF P, D, R, S
  <2>5. QED BY <2>1, <2>2, <2>3, <2>4
<1>3. PowerOf(One, e) = P * R /\ PowerOf(d, e) = D * S
  BY <1>1, <1>2, PowerOfPlus
<1>4. MaxUint * P < One * D
  BY DEF TooLarge
<1>5. One < d
  <2> SUFFICES ASSUME d <= One PROVE FALSE
    BY <1>2
  <2>1. D <= P
    BY <1>2, PowerOfGrows
  <2> HIDE DEF P, D
  <2>2. One * D <= MaxUint * P
    BY <1>2, <2>1, TimesGrows
  <2>3. One * D \in Nat /\ MaxUint * P \in Nat
    BY <1>2
  <2>4. QED BY <1>4, <2>2, <2>3
<1>6. R <= S
  BY <1>1, <1>2, <1>5, PowerOfGrows
<1> HIDE DEF P, D, R, S
<1>7. /\ MaxUint * P \in Nat /\ One * D \in Nat
      /\ (MaxUint * P) * R \in Nat /\ (One * D) * R \in Nat /\ (One * D) * S \in Nat
  <2>1. \A k, l \in Nat : k * l \in Nat
    OBVIOUS
  <2>2. MaxUint * P \in Nat /\ One * D \in Nat
    BY <1>2, <2>1
  <2>3. QED BY <1>2, <2>1, <2>2
<1>8. (MaxUint * P) * R < (One * D) * R
  BY <1>2, <1>4, <1>7, TimesCancels
<1>9. (One * D) * R <= (One * D) * S
  <2>1. One * D <= One * D
    BY <1>7
  <2>2. QED BY <1>2, <1>6, <1>7, <2>1, TimesGrows
<1>10. (MaxUint * P) * R < (One * D) * S
  BY <1>7, <1>8, <1>9
<1>11. (MaxUint * P) * R = MaxUint * (P * R) /\ (One * D) * S = One * (D * S)
  BY <1>2
<1>12. QED BY <1>3, <1>10, <1>11 DEF TooLarge

\* The states of checked_pow's loop.
PowStart(d, e) == [x |-> d, y |-> One, n |-> e]
PowNext(s) == IF s.n <= 1 THEN s ELSE Squared(s)
ArePowStates(l, d, e, n) ==
  \A i \in 0..n : l[i] = IF i = 0 THEN PowStart(d, e) ELSE PowNext(l[i - 1])

LEMMA PowStatesExist ==
  ASSUME NEW d, NEW e, NEW n \in Nat
  PROVE  \E l : l = [i \in 0..n |-> l[i]] /\ ArePowStates(l, d, e, n)
<1> DEFINE Has(k) == \E l : l = [i \in 0..k |-> l[i]] /\ ArePowStates(l, d, e, k)
           Q == {k \in Nat : Has(k)}
<1>1. 0 \in Q
  <2> DEFINE l == [i \in 0..0 |-> PowStart(d, e)]
  <2>1. l = [i \in 0..0 |-> l[i]] /\ ArePowStates(l, d, e, 0)
    BY DEF ArePowStates
  <2>2. QED BY <2>1
<1>2. ASSUME NEW k \in Nat, k \in Q PROVE k + 1 \in Q
  <2>1. PICK l : l = [i \in 0..k |-> l[i]] /\ ArePowStates(l, d, e, k)
    BY <1>2
  <2> DEFINE m == [i \in 0 .. k + 1 |-> IF i = k + 1 THEN PowNext(l[k]) ELSE l[i]]
  <2>2. /\ m = [i \in 0 .. k + 1 |-> m[i]]
        /\ m[k + 1] = PowNext(l[k]) /\ \A i \in 0..k : m[i] = l[i]
    OBVIOUS
  <2> HIDE DEF m
  <2>3. ASSUME NEW i \in 0 .. k + 1
        PROVE  m[i] = IF i = 0 THEN PowStart(d, e) ELSE PowNext(m[i - 1])
    <3>1. CASE i = k + 1
      <4>1. i # 0 /\ i - 1 = k /\ k \in 0..k
        BY <3>1
      <4>2. QED BY <2>2, <3>1, <4>1
    <3>2. CASE i # k + 1
      <4>1. i \in 0..k /\ (i # 0 => i - 1 \in 0..k)
        BY <3>2
      <4>2. QED BY <2>1, <2>2, <4>1 DEF ArePowStates
    <3>3. QED BY <3>1, <3>2
  <2>4. ArePowStates(m, d, e, k + 1)
    BY <2>3 DEF ArePowStates
  <2>5. QED BY <2>2, <2>4
<1> HIDE DEF Q
<1>3. n \in Q
  BY <1>1, <1>2, StepsInduction
<1>4. QED BY <1>3 DEF Q

LEMMA CheckedPowIs ==
  ASSUME NEW d, NEW e \in Nat \ {0}
  PROVE  \E l : /\ ArePowStates(l, d, e, e)
                /\ CheckedPow(d, e) = IF Overflow \in {l[e].x, l[e].y} THEN Overflow
                                      ELSE Multiplied(l[e].x, l[e].y)
<1>1. PICK l : l = [i \in 0..e |-> l[i]] /\ ArePowStates(l, d, e, e)
  BY PowStatesExist
<1>2. l = [i \in 0..e |-> IF i = 0 THEN [x |-> d, y |-> One, n |-> e]
                          ELSE LET s == l[i - 1] IN IF s.n <= 1 THEN s ELSE Squared(s)]
  <2>1. \A i \in 0..e : l[i] = IF i = 0 THEN [x |-> d, y |-> One, n |-> e]
                          ELSE LET s == l[i - 1] IN IF s.n <= 1 THEN s ELSE Squared(s)
    BY <1>1 DEF ArePowStates, PowStart, PowNext
  <2>2. QED BY <1>1, <2>1
<1> DEFINE loop == CHOOSE loop : loop =
             [i \in 0 .. e |->
                IF i = 0
                THEN [x |-> d, y |-> One, n |-> e]
                ELSE LET s == loop[i - 1] IN IF s.n <= 1 THEN s ELSE Squared(s)]
<1>3. loop = [i \in 0 .. e |->
                IF i = 0
                THEN [x |-> d, y |-> One, n |-> e]
                ELSE LET s == loop[i - 1] IN IF s.n <= 1 THEN s ELSE Squared(s)]
  BY <1>2, Zenon
<1>4. CheckedPow(d, e) = IF Overflow \in {loop[e].x, loop[e].y} THEN Overflow
                         ELSE Multiplied(loop[e].x, loop[e].y)
  BY Zenon DEF CheckedPow
<1> HIDE DEF loop
<1>5. ArePowStates(loop, d, e, e)
  BY <1>3 DEF ArePowStates, PowStart, PowNext
<1>6. QED BY <1>4, <1>5

\* What is left to multiply, and what the factors are: powers rounded down,
\* exact for whole numbers, unless the power asked for does not fit.
PowHolds(s, i, d, e) ==
  \/ Overflow \in {s.x, s.y} /\ TooLarge(d, e)
  \/ /\ s.x \in Uint /\ s.y \in Uint
     /\ s.n \in Nat \ {0} /\ (s.n = 1 \/ s.n + i <= e)
     /\ \E a, b \in Nat :
          /\ a * s.n + b = e
          /\ AtMost(s.x, d, a) /\ AtMost(s.y, d, b)
          /\ d % One = 0 => /\ s.x = One * PowerOf(d \div One, a)
                            /\ s.y = One * PowerOf(d \div One, b)

LEMMA PowStartHolds ==
  ASSUME NEW d \in Uint, NEW e \in Nat \ {0}
  PROVE  PowHolds(PowStart(d, e), 0, d, e)
<1> DEFINE s == PowStart(d, e)
           w == d \div One
<1>1. s.x = d /\ s.y = One /\ s.n = e
  BY DEF PowStart
<1>2. d \in Nat /\ One \in Nat \ {0} /\ One \in Uint
  BY Units
<1>3. w \in Nat /\ (d % One = 0 => d = One * w)
  <2>1. (w * One) + (d % One) = d /\ w \in Nat
    BY <1>2
  <2>2. QED BY <1>2, <2>1
<1> HIDE DEF s, w
<1>4. \A b \in Nat : PowerOf(b, 1) = b /\ PowerOf(b, 0) = 1
  <2> SUFFICES ASSUME NEW b \in Nat PROVE PowerOf(b, 1) = b /\ PowerOf(b, 0) = 1
    OBVIOUS
  <2>1. PowerOf(b, 0 + 1) = b * PowerOf(b, 0) /\ PowerOf(b, 0) = 1 /\ 0 + 1 = 1 /\ b * 1 = b
    BY PowerOfNext, PowerOfZero
  <2>2. QED BY <2>1
<1>5. AtMost(d, d, 1) /\ AtMost(One, d, 0)
  <2>1. d * One = One * d /\ One * 1 <= One * 1 /\ d * One <= d * One
    BY <1>2
  <2>2. QED BY <1>2, <1>4, <2>1 DEF AtMost
<1>6. d % One = 0 => d = One * PowerOf(w, 1) /\ One = One * PowerOf(w, 0)
  BY <1>2, <1>3, <1>4
<1>7. 1 * e + 0 = e /\ e + 0 <= e
  OBVIOUS
<1>8. QED BY <1>1, <1>2, <1>5, <1>6, <1>7 DEF PowHolds, s, w

\* One of the loop's products: it fits and is a power, or the power asked for
\* does not fit.
LEMMA ProductHolds ==
  ASSUME NEW d \in Uint, NEW e \in Nat, NEW x \in Uint, NEW y \in Uint,
         NEW a \in Nat, NEW b \in Nat, a + b <= e,
         AtMost(x, d, a), AtMost(y, d, b),
         d % One = 0 => /\ x = One * PowerOf(d \div One, a)
                        /\ y = One * PowerOf(d \div One, b)
  PROVE  \/ (x * y) \div One \notin Uint /\ TooLarge(d, e)
         \/ /\ (x * y) \div One \in Uint /\ AtMost((x * y) \div One, d, a + b)
            /\ d % One = 0 => (x * y) \div One = One * PowerOf(d \div One, a + b)
<1> DEFINE q == (x * y) \div One
           w == d \div One
<1>1. /\ d \in Nat /\ x \in Nat /\ y \in Nat /\ One \in Nat \ {0} /\ MaxUint \in Nat
      /\ \A k \in Nat : k \in Uint <=> k <= MaxUint
  BY Units
<1>2. x * y \in Nat
  BY <1>1
<1>3. q \in Nat /\ w \in Nat
  BY <1>1, <1>2, QuotientBounds
<1>4. AtMost(q, d, a + b)
  BY <1>1, RoundedProduct
<1>5. d % One = 0 => q = One * PowerOf(w, a + b)
  <2> SUFFICES ASSUME d % One = 0 PROVE q = One * PowerOf(w, a + b)
    OBVIOUS
  <2> DEFINE A == PowerOf(w, a)
             B == PowerOf(w, b)
  <2>1. x = One * A /\ y = One * B /\ A \in Nat /\ B \in Nat /\ PowerOf(w, a + b) = A * B
    BY <1>3, PowerOfType, PowerOfPlus
  <2> HIDE DEF A, B, w
  <2>2. x * y = (One * (A * B)) * One
    <3>1. (One * A) * (One * B) = (One * One) * (A * B) /\ A * B \in Nat
      BY <1>1, <2>1, TimesSwaps
    <3>2. (One * One) * (A * B) = (One * (A * B)) * One
      BY <1>1, <3>1
    <3>3. QED BY <2>1, <3>1, <3>2
  <2>3. One * (A * B) \in Nat
    BY <1>1, <2>1
  <2>4. \A k \in Nat : (k * One) \div One = k
    BY <1>1
  <2>5. QED BY <2>1, <2>2, <2>3, <2>4
<1> HIDE DEF q, w
<1>6. CASE q \in Uint
  BY <1>4, <1>5, <1>6 DEF q, w
<1>7. CASE q \notin Uint
  <2>1. q > MaxUint /\ a + b \in Nat
    BY <1>1, <1>3, <1>7
  <2>2. TooLarge(d, a + b)
    BY <1>1, <1>3, <1>4, <2>1, TooLargeProduct
  <2>3. TooLarge(d, e)
    BY <1>1, <2>1, <2>2, TooLargeStays
  <2>4. QED BY <1>7, <2>3 DEF q
<1>8. QED BY <1>6, <1>7

LEMMA ProductIs ==
  ASSUME NEW x \in Uint, NEW y \in Uint
  PROVE  Product(x, y) = IF (x * y) \div One \in Uint THEN (x * y) \div One ELSE Overflow
<1>1. Overflow \notin Uint
  BY Units
<1>2. Overflow \notin {x, y}
  BY <1>1
<1>3. QED BY <1>2 DEF Product, CheckedMul, Fits

LEMMA PowNextHolds ==
  ASSUME NEW d \in Uint, NEW e \in Nat, NEW i \in Nat, NEW s, PowHolds(s, i, d, e)
  PROVE  PowHolds(PowNext(s), i + 1, d, e)
<1>1. CASE Overflow \in {s.x, s.y} /\ TooLarge(d, e)
  <2>1. /\ Squared(s).x = Product(s.x, s.x)
        /\ Squared(s).y = IF s.n % 2 = 0 THEN s.y ELSE Product(s.x, s.y)
    BY DEF Squared
  <2>2. Overflow \in {Squared(s).x, Squared(s).y}
    BY <1>1, <2>1 DEF Product
  <2>3. Overflow \in {PowNext(s).x, PowNext(s).y}
    BY <1>1, <2>2 DEF PowNext
  <2>4. QED BY <1>1, <2>3 DEF PowHolds
<1>2. CASE ~ (Overflow \in {s.x, s.y} /\ TooLarge(d, e))
  <2>1. /\ s.x \in Uint /\ s.y \in Uint
        /\ s.n \in Nat \ {0} /\ (s.n = 1 \/ s.n + i <= e)
    BY <1>2 DEF PowHolds
  <2>2. PICK a \in Nat, b \in Nat :
          /\ a * s.n + b = e
          /\ AtMost(s.x, d, a) /\ AtMost(s.y, d, b)
          /\ d % One = 0 => /\ s.x = One * PowerOf(d \div One, a)
                            /\ s.y = One * PowerOf(d \div One, b)
    BY <1>2 DEF PowHolds
  <2>3. CASE s.n <= 1
    <3>1. PowNext(s) = s /\ s.n = 1
      BY <2>1, <2>3 DEF PowNext
    <3>2. QED BY <2>1, <2>2, <3>1 DEF PowHolds
  <2>4. CASE ~ (s.n <= 1)
    <3> DEFINE x == s.x
               y == s.y
               n == s.n
               t == PowNext(s)
               h == n \div 2
               odd == n % 2 # 0
               c == IF odd THEN a + b ELSE b
    <3>1. n \in Nat /\ n > 1 /\ n + i <= e /\ x \in Uint /\ y \in Uint
      BY <2>1, <2>4
    <3>2. t.x = Product(x, x) /\ t.y = (IF odd THEN Product(x, y) ELSE y) /\ t.n = h
      BY <2>4 DEF PowNext, Squared
    <3>3. a * n + b = e
      BY <2>2
    <3>4. /\ AtMost(x, d, a) /\ AtMost(y, d, b)
          /\ d % One = 0 => /\ x = One * PowerOf(d \div One, a)
                            /\ y = One * PowerOf(d \div One, b)
      BY <2>2
    <3> HIDE DEF x, y, n, t
    <3>5. /\ h \in Nat \ {0} /\ h + 1 <= n
          /\ n = (IF odd THEN 2 * h + 1 ELSE 2 * h)
      BY <3>1
    <3> HIDE DEF h
    <3>6. a * n = (IF odd THEN (a + a) * h + a ELSE (a + a) * h)
      BY <3>5
    <3>7. (a + a) * h + c = e /\ a + a <= e /\ c <= e /\ c \in Nat
      <4>1. (a + a) * h \in Nat /\ a + a <= (a + a) * h
        BY <3>5
      <4>2. CASE odd
        BY <3>3, <3>6, <4>1, <4>2
      <4>3. CASE ~ odd
        BY <3>3, <3>6, <4>1, <4>3
      <4>4. QED BY <4>2, <4>3
    <3>8. \/ t.x = Overflow /\ TooLarge(d, e)
          \/ /\ t.x \in Uint /\ AtMost(t.x, d, a + a)
             /\ d % One = 0 => t.x = One * PowerOf(d \div One, a + a)
      <4>1. \/ (x * x) \div One \notin Uint /\ TooLarge(d, e)
            \/ /\ (x * x) \div One \in Uint /\ AtMost((x * x) \div One, d, a + a)
               /\ d % One = 0 => (x * x) \div One = One * PowerOf(d \div One, a + a)
        BY <3>1, <3>4, <3>7, ProductHolds
      <4>2. t.x = IF (x * x) \div One \in Uint THEN (x * x) \div One ELSE Overflow
        BY <3>1, <3>2, ProductIs
      <4>3. QED BY <4>1, <4>2
    <3>9. \/ t.y = Overflow /\ TooLarge(d, e)
          \/ /\ t.y \in Uint /\ AtMost(t.y, d, c)
             /\ d % One = 0 => t.y = One * PowerOf(d \div One, c)
      <4>1. CASE odd
        <5>1. a + b <= e
          BY <3>7, <4>1
        <5>2. \/ (x * y) \div One \notin Uint /\ TooLarge(d, e)
              \/ /\ (x * y) \div One \in Uint /\ AtMost((x * y) \div One, d, a + b)
                 /\ d % One = 0 => (x * y) \div One = One * PowerOf(d \div One, a + b)
          BY <3>1, <3>4, <5>1, ProductHolds
        <5>3. t.y = IF (x * y) \div One \in Uint THEN (x * y) \div One ELSE Overflow
          BY <3>1, <3>2, <4>1, ProductIs
        <5>4. QED BY <4>1, <5>2, <5>3
      <4>2. CASE ~ odd
        BY <3>1, <3>2, <3>4, <4>2
      <4>3. QED BY <4>1, <4>2
    <3>10. CASE TooLarge(d, e) /\ Overflow \in {t.x, t.y}
      BY <3>10 DEF PowHolds, t
    <3>11. CASE ~ (TooLarge(d, e) /\ Overflow \in {t.x, t.y})
      <4>1. /\ t.x \in Uint /\ AtMost(t.x, d, a + a)
            /\ d % One = 0 => t.x = One * PowerOf(d \div One, a + a)
        BY <3>8, <3>11
      <4>2. /\ t.y \in Uint /\ AtMost(t.y, d, c)
            /\ d % One = 0 => t.y = One * PowerOf(d \div One, c)
        BY <3>9, <3>11
      <4> HIDE DEF c
      <4>3. t.n \in Nat \ {0} /\ t.n + (i + 1) <= e
        BY <3>1, <3>2, <3>5
      <4>4. a + a \in Nat /\ (a + a) * t.n + c = e
        BY <3>2, <3>7
      <4>5. \E k, l \in Nat :
              /\ k * t.n + l = e
              /\ AtMost(t.x, d, k) /\ AtMost(t.y, d, l)
              /\ d % One = 0 => /\ t.x = One * PowerOf(d \div One, k)
                                /\ t.y = One * PowerOf(d \div One, l)
        BY <3>7, <4>1, <4>2, <4>4
      <4>6. PowHolds(t, i + 1, d, e)
        BY <4>1, <4>2, <4>3, <4>5 DEF PowHolds
      <4>7. QED BY <4>6 DEF t
    <3>12. QED BY <3>10, <3>11
  <2>5. QED BY <2>3, <2>4
<1>3. QED BY <1>1, <1>2

\* A product that is a power, in units.
LEMMA PowerSays ==
  ASSUME NEW d \in Uint, NEW e \in Nat \ {0}
  PROVE  /\ \A q \in Nat : AtMost(q, d, e) => q * PowerOf(One, e - 1) <= PowerOf(d, e)
         /\ TooLarge(d, e) => MaxUint * PowerOf(One, e - 1) < PowerOf(d, e)
         /\ d % One = 0 =>
              (One * PowerOf(d \div One, e)) * PowerOf(One, e - 1) = PowerOf(d, e)
<1> DEFINE R == PowerOf(One, e - 1)
           D == PowerOf(d, e)
           w == d \div One
           W == PowerOf(w, e)
<1>1. d \in Nat /\ One \in Nat \ {0} /\ MaxUint \in Nat
  BY Units
<1>2. e - 1 \in Nat /\ (e - 1) + 1 = e
  OBVIOUS
<1>3. PowerOf(One, e) = One * R
  BY <1>1, <1>2, PowerOfNext
<1>4. R \in Nat /\ D \in Nat
  BY <1>1, <1>2, PowerOfType
<1>5. w \in Nat /\ (d % One = 0 => d = w * One)
  <2>1. (w * One) + (d % One) = d /\ w \in Nat
    BY <1>1
  <2>2. QED BY <1>1, <2>1
<1> HIDE DEF w
<1>6. W \in Nat
  BY <1>5, PowerOfType
<1>7. d % One = 0 => D = W * (One * R)
  <2>1. PowerOf(w * One, e) = W * PowerOf(One, e)
    BY <1>1, <1>5, PowerOfProduct
  <2>2. QED BY <1>3, <1>5, <2>1
<1>8. \A q \in Nat : q * (One * R) = (q * R) * One
  BY <1>1, <1>4
<1>9. One * D = D * One
  BY <1>1, <1>4
<1> HIDE DEF R, D, W
<1>10. \A q \in Nat : q * R \in Nat
  BY <1>4
<1>11. \A q \in Nat : AtMost(q, d, e) => q * R <= D
  <2> SUFFICES ASSUME NEW q \in Nat, AtMost(q, d, e) PROVE q * R <= D
    OBVIOUS
  <2>1. (q * R) * One <= D * One
    BY <1>3, <1>8, <1>9 DEF AtMost, D
  <2>2. QED BY <1>1, <1>4, <1>10, <2>1, TimesCancels
<1>12. TooLarge(d, e) => MaxUint * R < D
  <2> SUFFICES ASSUME TooLarge(d, e) PROVE MaxUint * R < D
    OBVIOUS
  <2>1. (MaxUint * R) * One < D * One
    BY <1>1, <1>3, <1>8, <1>9 DEF TooLarge, D
  <2>2. QED BY <1>1, <1>4, <1>10, <2>1, TimesCancels
<1>13. d % One = 0 => (One * W) * R = D
  BY <1>1, <1>4, <1>6, <1>7
<1>14. QED BY <1>11, <1>12, <1>13 DEF R, D, W, w

LEMMA PowerIsComputed ==
  ASSUME NEW d \in Uint, NEW e \in Nat
  PROVE  PowerIsExact(d, e)
<1>1. SaturatingPow(d, e) \in {CheckedPow(d, e), MaxUint}
  BY DEF SaturatingPow
<1>2. CASE e = 0
  <2>1. CheckedPow(d, e) = One
    BY <1>2 DEF CheckedPow
  <2>2. QED BY <1>1, <1>2, <2>1 DEF PowerIsExact
<1>3. CASE e # 0
  <2> DEFINE power == CheckedPow(d, e)
  <2>1. e \in Nat \ {0}
    BY <1>3
  <2>2. PICK l : /\ ArePowStates(l, d, e, e)
                 /\ power = IF Overflow \in {l[e].x, l[e].y} THEN Overflow
                            ELSE Multiplied(l[e].x, l[e].y)
    BY <2>1, CheckedPowIs
  <2> HIDE DEF power
  <2> DEFINE Q == {i \in Nat : i <= e => PowHolds(l[i], i, d, e)}
  <2>3. 0 \in Q
    <3>1. l[0] = PowStart(d, e)
      BY <2>2 DEF ArePowStates
    <3>2. QED BY <2>1, <3>1, PowStartHolds
  <2>4. ASSUME NEW i \in Nat, i \in Q PROVE i + 1 \in Q
    <3> SUFFICES ASSUME i + 1 <= e PROVE PowHolds(l[i + 1], i + 1, d, e)
      OBVIOUS
    <3>1. i + 1 \in 0..e /\ i + 1 # 0 /\ (i + 1) - 1 = i /\ i <= e
      OBVIOUS
    <3>2. l[i + 1] = PowNext(l[i])
      BY <2>2, <3>1 DEF ArePowStates
    <3>3. PowHolds(l[i], i, d, e)
      BY <2>4, <3>1
    <3>4. QED BY <3>2, <3>3, PowNextHolds
  <2> HIDE DEF Q
  <2>5. e \in Q
    BY <2>3, <2>4, StepsInduction
  <2> DEFINE s == l[e]
  <2>6. PowHolds(s, e, d, e)
    BY <2>5 DEF Q
  <2>7. power = IF Overflow \in {s.x, s.y} THEN Overflow ELSE Multiplied(s.x, s.y)
    BY <2>2
  <2> HIDE DEF s
  <2>8. /\ Overflow \notin Uint /\ Panic \notin Uint
        /\ \A q \in Nat : AtMost(q, d, e) => q * PowerOf(One, e - 1) <= PowerOf(d, e)
        /\ TooLarge(d, e) => MaxUint * PowerOf(One, e - 1) < PowerOf(d, e)
        /\ d % One = 0 =>
             (One * PowerOf(d \div One, e)) * PowerOf(One, e - 1) = PowerOf(d, e)
    BY <2>1, Units, PowerSays
  <2>9. /\ MaxUint \in Nat /\ Uint \subseteq Nat /\ One \in Nat
        /\ PowerOf(One, e - 1) \in Nat /\ PowerOf(d, e) \in Nat
    <3>1. MaxUint \in Nat /\ Uint \subseteq Nat /\ One \in Nat /\ d \in Nat /\ e - 1 \in Nat
      BY <2>1, Units
    <3>2. QED BY <3>1, PowerOfType
  <2>10. ASSUME power \notin Uint, TooLarge(d, e) PROVE PowerIsExact(d, e)
    <3>1. MaxUint * PowerOf(One, e - 1) < PowerOf(d, e)
      BY <2>8, <2>10
    <3>2. PowerOf(d, e) > MaxUint * PowerOf(One, e - 1)
      BY <2>9, <3>1
    <3>3. QED BY <1>1, <1>3, <2>10, <3>2 DEF PowerIsExact, power
  <2>11. CASE Overflow \in {s.x, s.y} /\ TooLarge(d, e)
    <3>1. power \notin Uint
      BY <2>7, <2>8, <2>11
    <3>2. QED BY <2>10, <2>11, <3>1
  <2>12. CASE ~ (Overflow \in {s.x, s.y} /\ TooLarge(d, e))
    <3> DEFINE q == (s.x * s.y) \div One
    <3>1. /\ s.x \in Uint /\ s.y \in Uint
          /\ s.n \in Nat \ {0} /\ (s.n = 1 \/ s.n + e <= e)
      BY <2>6, <2>12 DEF PowHolds
    <3>2. s.n = 1
      BY <3>1
    <3>3. PICK a \in Nat, b \in Nat :
            /\ a * s.n + b = e
            /\ AtMost(s.x, d, a) /\ AtMost(s.y, d, b)
            /\ d % One = 0 => /\ s.x = One * PowerOf(d \div One, a)
                              /\ s.y = One * PowerOf(d \div One, b)
      BY <2>6, <2>12 DEF PowHolds
    <3>4. a + b = e /\ a + b <= e
      BY <3>2, <3>3
    <3>5. \/ q \notin Uint /\ TooLarge(d, e)
          \/ /\ q \in Uint /\ AtMost(q, d, e)
             /\ d % One = 0 => q = One * PowerOf(d \div One, e)
      <4>1. \/ q \notin Uint /\ TooLarge(d, e)
            \/ /\ q \in Uint /\ AtMost(q, d, a + b)
               /\ d % One = 0 => q = One * PowerOf(d \div One, a + b)
        BY <3>1, <3>3, <3>4, ProductHolds
      <4>2. QED BY <3>4, <4>1
    <3> HIDE DEF q
    <3>6. power = IF q \in Uint THEN q ELSE Panic
      <4>1. Overflow \notin {s.x, s.y}
        BY <2>8, <3>1
      <4>2. power = OrElse(Fits(q, Overflow), Panic)
        BY <2>7, <4>1 DEF Multiplied, CheckedMul, q
      <4>3. QED BY <2>8, <4>2 DEF OrElse, Fits
    <3>7. CASE q \notin Uint
      BY <2>8, <2>10, <3>5, <3>6, <3>7
    <3>8. CASE q \in Uint
      <4>1. power = q /\ q \in Nat /\ AtMost(q, d, e)
        BY <2>9, <3>5, <3>6, <3>8
      <4>2. power * PowerOf(One, e - 1) <= PowerOf(d, e)
        BY <2>8, <4>1
      <4>3. d % One = 0 => power * PowerOf(One, e - 1) = PowerOf(d, e)
        BY <2>8, <3>5, <3>8, <4>1
      <4>4. QED BY <1>1, <1>3, <3>8, <4>1, <4>2, <4>3 DEF PowerIsExact, power
    <3>9. QED BY <3>7, <3>8
  <2>13. QED BY <2>11, <2>12
<1>4. QED BY <1>2, <1>3

\* Every operation of Decimal256 does what it does on paper, rounded down, and
\* fails exactly where that does not fit, for any width and number of places.
THEOREM DecimalsStayExact ==
  ASSUME NEW d \in Uint, NEW e \in Uint, NEW n \in Nat
  PROVE  ArithmeticIsExact(d, e) /\ FromAtomicsIsExact(d, n) /\ PowerIsExact(d, n)
BY ArithmeticIs, FromAtomicsIs, PowerIsComputed

\* A root is off by less than a unit of the precision it was computed with.
THEOREM RootsStayExact ==
  ASSUME NEW d \in Uint
  PROVE  RootIsExact(d)
BY RootIs

\* Whatever a decimal prints is read back as it, and whatever text is read is
\* the number it says.
THEOREM DecimalTextsStayExact ==
  ASSUME NEW d \in Uint, NEW text \in Seq(Seq(Digit)), text # <<>>
  PROVE  TextsAreReadBack(d) /\ TextIsExact(text)
BY TextsAre, TextIs

-----------------------------------------------------------------------------
(* Decoding what was encoded.                                              *)

\* An absent value and the failures are neither each other nor records or lists.
ValuesDiffer ==
  /\ Malformed # Panic /\ None \notin {Malformed, Panic}
  /\ \A v \in {None, Malformed, Panic} : v # [x \in DOMAIN v |-> v[x]]

LEMMA RecordsDiffer ==
  ASSUME ValuesDiffer, NEW f, f = [x \in DOMAIN f |-> f[x]]
  PROVE  f # None /\ f # Malformed /\ ~ Failed(f)
BY DEF ValuesDiffer, Failed

LEMMA AddressSurvives ==
  ASSUME ValuesDiffer, NEW a, IsAddress(a)
  PROVE  FromBech32(ToBech32(a)) = a /\ ToBech32(a) # None
<1> DEFINE text == ToBech32(a)
<1>1. /\ text = [x \in DOMAIN text |-> text[x]]
      /\ text.data = a /\ text.hrp = "cosmos" /\ text.variant = "Bech32"
  BY DEF ToBech32
<1> HIDE DEF text
<1>2. text # None
  BY <1>1, RecordsDiffer
<1>3. a # Malformed /\ TryFromBytes(a) = a
  BY DEF IsAddress, Failed
<1>4. FromBech32(text) = a
  BY <1>1, <1>2, <1>3 DEF FromBech32
<1>5. QED BY <1>2, <1>4 DEF text

LEMMA DecodedAddress ==
  ASSUME NEW text, ~ Failed(FromBech32(text))
  PROVE  IsAddress(FromBech32(text))
<1>1. FromBech32(text) = TryFromBytes(text.data)
  BY DEF FromBech32, Failed
<1>2. TryFromBytes(text.data) = text.data
  BY <1>1 DEF TryFromBytes, Failed
<1>3. QED BY <1>1, <1>2 DEF IsAddress

LEMMA CoinSurvives ==
  ASSUME NEW c, IsCoin(c)
  PROVE  CoinFrom(RawCoin(c)) = c
<1> DEFINE raw == RawCoin(c)
<1>1. raw.denom = c.denom /\ raw.amount = Numeral(c.amount)
  BY DEF RawCoin
<1> HIDE DEF raw
<1>2. DenomFrom(raw.denom) = c.denom /\ ParsedUint(raw.amount) = c.amount
  BY <1>1, NumeralIsReadBack DEF IsCoin, DenomFrom
<1>3. c.denom # Malformed /\ c.amount # Malformed
  <2>1. c.denom \in Nat /\ c.amount \in Nat
    BY EncodingAssumption, Units DEF IsCoin
  <2>2. QED BY <2>1, FailureAssumption
<1>4. CoinFrom(raw) = [denom |-> c.denom, amount |-> c.amount]
  BY <1>2, <1>3 DEF CoinFrom
<1>5. QED BY <1>4 DEF IsCoin, raw

LEMMA DecodedCoin ==
  ASSUME NEW raw, ~ Failed(CoinFrom(raw))
  PROVE  IsCoin(CoinFrom(raw))
<1> DEFINE denom == DenomFrom(raw.denom)
           amount == ParsedUint(raw.amount)
<1>1. CoinFrom(raw) = IF Malformed \in {denom, amount} THEN Malformed
                      ELSE [denom |-> denom, amount |-> amount]
  BY DEF CoinFrom
<1>2. denom \in Denom \cup {Malformed} /\ amount \in Uint \cup {Malformed}
  BY DEF DenomFrom, ParsedUint, Fits
<1> HIDE DEF denom, amount
<1>3. denom # Malformed /\ amount # Malformed /\ CoinFrom(raw) = [denom |-> denom, amount |-> amount]
  BY <1>1 DEF Failed
<1>4. CoinFrom(raw).denom = denom /\ CoinFrom(raw).amount = amount
  BY <1>3
<1>5. QED BY <1>2, <1>3, <1>4 DEF IsCoin

\* A list of results none of which fails is collected.
LEMMA CollectedWhole ==
  ASSUME NEW results, \A i \in DOMAIN results : ~ Failed(results[i])
  PROVE  Collected(results) = results
BY DEF Collected

IsList(l) == Len(l) \in Nat /\ DOMAIN l = 1 .. Len(l) /\ l = [i \in DOMAIN l |-> l[i]]

AreCoins(l) == ~ Failed(l) /\ IsList(l) /\ \A i \in DOMAIN l : IsCoin(l[i])

LEMMA CoinsSurvive ==
  ASSUME NEW l, AreCoins(l)
  PROVE  /\ Collected(Each(CoinFrom, RawCoins(l))) = l
         /\ DOMAIN RawCoins(l) = DOMAIN l
         /\ \A i \in DOMAIN l : ParsedUint(RawCoins(l)[i].amount) = l[i].amount
<1> DEFINE raws == RawCoins(l)
           results == Each(CoinFrom, raws)
<1>1. DOMAIN raws = DOMAIN l /\ \A i \in DOMAIN l : raws[i] = RawCoin(l[i])
  BY DEF RawCoins, Each
<1>2. results = [i \in DOMAIN raws |-> CoinFrom(raws[i])]
  BY DEF Each
<1>3. \A i \in DOMAIN l : CoinFrom(raws[i]) = l[i]
  BY <1>1, CoinSurvives DEF AreCoins
<1> HIDE DEF raws, results
<1>4. results = [i \in DOMAIN l |-> l[i]]
  BY <1>1, <1>2, <1>3
<1>5. results = l /\ \A i \in DOMAIN l : ~ Failed(l[i])
  BY <1>4 DEF AreCoins, IsList, IsCoin
<1>6. Collected(results) = l
  BY <1>5, CollectedWhole
<1>7. \A i \in DOMAIN l : ParsedUint(raws[i].amount) = l[i].amount
  BY <1>1, NumeralIsReadBack DEF RawCoin, AreCoins, IsCoin
<1>8. QED BY <1>1, <1>6, <1>7 DEF raws, results

LEMMA DecodedCoins ==
  ASSUME NEW R, NEW raws \in Seq(R), ~ Failed(Collected(Each(CoinFrom, raws)))
  PROVE  AreCoins(Collected(Each(CoinFrom, raws)))
<1> DEFINE results == Each(CoinFrom, raws)
           n == Len(raws)
<1>1. n \in Nat /\ DOMAIN raws = 1..n /\ results = [i \in 1..n |-> CoinFrom(raws[i])]
  BY DEF Each
<1> HIDE DEF results, n
<1>2. DOMAIN results = 1..n /\ \A i \in 1..n : results[i] = CoinFrom(raws[i])
  BY <1>1
<1>3. Collected(results) = results /\ \A i \in 1..n : ~ Failed(results[i])
  BY <1>1, <1>2, CollectedSucceeds DEF results
<1>4. Len(results) = n
  BY <1>1
<1>5. results = [i \in DOMAIN results |-> results[i]]
  BY <1>1
<1>6. \A i \in 1..n : IsCoin(results[i])
  BY <1>2, <1>3, DecodedCoin
<1>7. ~ Failed(results)
  BY <1>3 DEF results
<1>8. AreCoins(results)
  BY <1>1, <1>2, <1>4, <1>5, <1>6, <1>7 DEF AreCoins, IsList
<1>9. QED BY <1>3, <1>8 DEF results

\* The coins of a message or a fee.
AreGood(l) == AreCoins(l) /\ ValidateCoins(l)

LEMMA GoodSurvive ==
  ASSUME NEW l, AreGood(l)
  PROVE  SendCoinsFrom(RawCoins(l)) = l
<1>1. Collected(Each(CoinFrom, RawCoins(l))) = l
  BY CoinsSurvive DEF AreGood
<1>2. QED BY <1>1 DEF SendCoinsFrom, NewSendCoins, AreGood, AreCoins

LEMMA DecodedGood ==
  ASSUME NEW R, NEW raws \in Seq(R), ~ Failed(SendCoinsFrom(raws))
  PROVE  AreGood(SendCoinsFrom(raws))
<1> DEFINE coins == Collected(Each(CoinFrom, raws))
<1>1. SendCoinsFrom(raws) = IF ~ Failed(coins) /\ ValidateCoins(coins) THEN coins ELSE Malformed
  BY DEF SendCoinsFrom, NewSendCoins
<1>2. ~ Failed(coins) => AreCoins(coins)
  BY DecodedCoins
<1> HIDE DEF coins
<1>3. ~ Failed(coins) /\ ValidateCoins(coins) /\ SendCoinsFrom(raws) = coins
  BY <1>1 DEF Failed
<1>4. QED BY <1>2, <1>3 DEF AreGood

IsMessage(m) ==
  /\ m = [from_address |-> m.from_address, to_address |-> m.to_address, amount |-> m.amount]
  /\ IsAddress(m.from_address) /\ IsAddress(m.to_address) /\ AreGood(m.amount)

LEMMA MessageSurvives ==
  ASSUME ValuesDiffer, NEW m, IsMessage(m)
  PROVE  MessageFrom(AnyMessage(m)) = m
<1> DEFINE raw == RawMsgSend(m)
           any == AnyMessage(m)
<1>1. /\ raw = [x \in DOMAIN raw |-> raw[x]]
      /\ raw.from_address = ToBech32(m.from_address) /\ raw.to_address = ToBech32(m.to_address)
      /\ raw.amount = RawCoins(m.amount)
  BY DEF RawMsgSend
<1>2. any.type_url = "MsgSend" /\ any.value = raw
  BY DEF AnyMessage, AnyOf
<1> HIDE DEF raw, any
<1>3. /\ FromBech32(raw.from_address) = m.from_address
      /\ FromBech32(raw.to_address) = m.to_address
      /\ SendCoinsFrom(raw.amount) = m.amount
  BY <1>1, AddressSurvives, GoodSurvive DEF IsMessage
<1>4. ~ Failed(m.from_address) /\ ~ Failed(m.to_address) /\ ~ Failed(m.amount)
  BY DEF IsMessage, IsAddress, AreGood, AreCoins
<1>5. MsgSendFrom(raw) = m
  BY <1>3, <1>4 DEF MsgSendFrom, IsMessage
<1>6. raw # Malformed
  BY <1>1, RecordsDiffer
<1>7. m = [x \in DOMAIN m |-> m[x]]
  <2> DEFINE r == [from_address |-> m.from_address, to_address |-> m.to_address, amount |-> m.amount]
  <2>1. r = [x \in DOMAIN r |-> r[x]]
    OBVIOUS
  <2>2. m = r
    BY DEF IsMessage
  <2> HIDE DEF r
  <2>3. QED BY <2>1, <2>2
<1>8. ~ Failed(m)
  BY <1>7, RecordsDiffer
<1>9. Decoded(MsgSendFrom, any.value) = m
  BY <1>2, <1>5, <1>6 DEF Decoded
<1>10. Unwrapped(Decoded(MsgSendFrom, any.value)) = m
  BY <1>8, <1>9 DEF Unwrapped
<1>11. BankMessageFrom(any) = m
  BY <1>2, <1>10 DEF BankMessageFrom
<1>12. MessageFrom(any) = m
  BY <1>2, <1>11, EncodingAssumption DEF MessageFrom
<1>13. QED BY <1>12 DEF any

LEMMA DecodedMessage ==
  ASSUME NEW R, NEW any, ~ Failed(MessageFrom(any)),
         any.type_url = "MsgSend" /\ any.value # Malformed => any.value.amount \in Seq(R)
  PROVE  IsMessage(MessageFrom(any))
<1> DEFINE raw == any.value
           from == FromBech32(raw.from_address)
           to == FromBech32(raw.to_address)
           amount == SendCoinsFrom(raw.amount)
<1>1. any.type_url = "MsgSend" /\ MessageFrom(any) = Unwrapped(Decoded(MsgSendFrom, raw))
  BY DEF MessageFrom, BankMessageFrom, Failed
<1>2. ~ Failed(Decoded(MsgSendFrom, raw)) /\ MessageFrom(any) = Decoded(MsgSendFrom, raw)
  BY <1>1 DEF Unwrapped, Failed
<1>3. raw # Malformed /\ MessageFrom(any) = MsgSendFrom(raw) /\ ~ Failed(MsgSendFrom(raw))
  BY <1>2 DEF Decoded, Failed
<1>4. MsgSendFrom(raw) = IF Failed(from) \/ Failed(to) \/ Failed(amount) THEN Malformed
        ELSE [from_address |-> from, to_address |-> to, amount |-> amount]
  BY DEF MsgSendFrom
<1>5. /\ ~ Failed(from) => IsAddress(from)
      /\ ~ Failed(to) => IsAddress(to)
      /\ ~ Failed(amount) => AreGood(amount)
  BY <1>1, <1>3, DecodedAddress, DecodedGood
<1> HIDE DEF raw, from, to, amount
<1>6. ~ Failed(from) /\ ~ Failed(to) /\ ~ Failed(amount)
  BY <1>3, <1>4 DEF Failed
<1>7. MessageFrom(any) = [from_address |-> from, to_address |-> to, amount |-> amount]
  BY <1>3, <1>4, <1>6
<1>8. QED BY <1>5, <1>6, <1>7 DEF IsMessage

\* A public key, or none.
LEMMA KeySurvives ==
  ASSUME ValuesDiffer, NEW key, ~ Failed(key)
  PROVE  Optional(PublicKeyFrom, Optional(AnyPublicKey, key)) = key
<1>1. CASE key = None
  BY <1>1 DEF Optional
<1>2. CASE key # None
  <2> DEFINE raw == RawPubKey(key)
             any == AnyPublicKey(key)
  <2>1. raw = [x \in DOMAIN raw |-> raw[x]] /\ raw.point = key
    BY DEF RawPubKey
  <2>2. any = [x \in DOMAIN any |-> any[x]] /\ any.type_url = "PubKey" /\ any.value = raw
    BY DEF AnyPublicKey, AnyOf
  <2> HIDE DEF raw, any
  <2>3. raw # Malformed /\ any # None
    BY <2>1, <2>2, RecordsDiffer
  <2>4. PublicKeyFrom(any) = key
    BY <2>1, <2>2, <2>3 DEF PublicKeyFrom, Decoded, PubKeyFrom
  <2>5. Optional(AnyPublicKey, key) = any
    BY <1>2 DEF Optional, any
  <2>6. QED BY <2>3, <2>4, <2>5 DEF Optional
<1>3. QED BY <1>1, <1>2

\* A record with one of its fields written, and written again with the same.
LEMMA ExceptTwice ==
  ASSUME NEW f, f = [x \in DOMAIN f |-> f[x]], NEW a \in DOMAIN f, NEW v
  PROVE  [[f EXCEPT ![a] = v] EXCEPT ![a] = f[a]] = f
OBVIOUS

IsInfo(info) ==
  /\ info = [x \in DOMAIN info |-> info[x]]
  /\ "public_key" \in DOMAIN info /\ ~ Failed(info.public_key)

LEMMA InfoSurvives ==
  ASSUME ValuesDiffer, NEW info, IsInfo(info)
  PROVE  SignerInfoFrom(RawSignerInfo(info)) = info /\ ~ Failed(info)
<1> DEFINE raw == RawSignerInfo(info)
           v == Optional(AnyPublicKey, info.public_key)
<1>1. raw = [info EXCEPT !.public_key = v]
  BY DEF RawSignerInfo
<1>2. Optional(PublicKeyFrom, v) = info.public_key
  BY KeySurvives DEF IsInfo
<1> HIDE DEF raw, v
<1>3. raw.public_key = v
  BY <1>1 DEF IsInfo
<1>4. SignerInfoFrom(raw) = [raw EXCEPT !.public_key = info.public_key]
  BY <1>2, <1>3 DEF SignerInfoFrom, IsInfo
<1>5. [raw EXCEPT !.public_key = info.public_key] = info
  BY <1>1, ExceptTwice DEF IsInfo
<1>6. ~ Failed(info)
  BY RecordsDiffer DEF IsInfo
<1>7. QED BY <1>4, <1>5, <1>6 DEF raw

LEMMA DecodedInfo ==
  ASSUME NEW raw, "public_key" \in DOMAIN raw, ~ Failed(SignerInfoFrom(raw))
  PROVE  IsInfo(SignerInfoFrom(raw))
<1> DEFINE key == Optional(PublicKeyFrom, raw.public_key)
           info == SignerInfoFrom(raw)
<1>1. info = IF Failed(key) THEN Malformed ELSE [raw EXCEPT !.public_key = key]
  BY DEF SignerInfoFrom
<1> HIDE DEF key
<1>2. ~ Failed(key) /\ info = [raw EXCEPT !.public_key = key]
  BY <1>1 DEF Failed
<1> HIDE DEF info
<1>3. /\ DOMAIN info = DOMAIN raw /\ info = [x \in DOMAIN info |-> info[x]]
      /\ info.public_key = key
  BY <1>2
<1>4. QED BY <1>2, <1>3 DEF IsInfo, info

IsFee(fee) ==
  /\ fee = [x \in DOMAIN fee |-> fee[x]]
  /\ {"amount", "payer", "gas_limit"} \subseteq DOMAIN fee
  /\ ~ (fee.gas_limit > MaxGasWanted)
  /\ ~ Failed(fee.amount) /\ (fee.amount # None => AreGood(fee.amount))
  /\ ~ Failed(fee.payer) /\ (fee.payer # None => IsAddress(fee.payer))

LEMMA FeeSurvives ==
  ASSUME ValuesDiffer, NEW fee, IsFee(fee)
  PROVE  FeeFrom(RawFee(fee)) = fee /\ RawFee(fee) # None /\ ~ Failed(fee)
<1> DEFINE raw == RawFee(fee)
           amount == IF fee.amount = None THEN <<>> ELSE RawCoins(fee.amount)
           payer == Optional(ToBech32, fee.payer)
           allZero == \A i \in DOMAIN amount : ParsedUint(amount[i].amount) = 0
<1>1. raw = [fee EXCEPT !.amount = amount, !.payer = payer]
  BY DEF RawFee
<1>2. Optional(FromBech32, payer) = fee.payer
  <2>1. CASE fee.payer = None
    BY <2>1 DEF Optional
  <2>2. CASE fee.payer # None
    <3>1. FromBech32(ToBech32(fee.payer)) = fee.payer /\ ToBech32(fee.payer) # None
      BY <2>2, AddressSurvives DEF IsFee
    <3>2. QED BY <2>2, <3>1 DEF Optional
  <2>3. QED BY <2>1, <2>2
<1>3. (IF allZero THEN None ELSE SendCoinsFrom(amount)) = fee.amount
  <2>1. CASE fee.amount = None
    BY <2>1
  <2>2. CASE fee.amount # None
    <3> DEFINE l == fee.amount
    <3>1. AreGood(l)
      BY <2>2 DEF IsFee
    <3>2. SendCoinsFrom(RawCoins(l)) = l
      BY <3>1, GoodSurvive
    <3>3. /\ DOMAIN RawCoins(l) = DOMAIN l
          /\ \A i \in DOMAIN l : ParsedUint(RawCoins(l)[i].amount) = l[i].amount
      BY <3>1, CoinsSurvive DEF AreGood
    <3>4. 1 \in DOMAIN l /\ l[1].amount # 0
      <4>1. IsList(l) /\ l # <<>> /\ \A i \in DOMAIN l : l[i].amount # 0
        BY <3>1 DEF AreGood, AreCoins, ValidateCoins
      <4> HIDE DEF l
      <4>2. Len(l) # 0
        <5>1. ASSUME Len(l) = 0 PROVE l = <<>>
          BY <4>1, <5>1 DEF IsList
        <5>2. QED BY <4>1, <5>1
      <4>3. 1 \in DOMAIN l
        BY <4>1, <4>2 DEF IsList
      <4>4. QED BY <4>1, <4>3
    <3>5. amount = RawCoins(l)
      BY <2>2
    <3> HIDE DEF l, amount
    <3>6. ~ allZero
      BY <3>3, <3>4, <3>5
    <3> HIDE DEF allZero
    <3>7. QED BY <3>2, <3>5, <3>6 DEF l
  <2>3. QED BY <2>1, <2>2
<1> HIDE DEF raw, amount, payer
<1>4. /\ raw.amount = amount /\ raw.payer = payer /\ raw.gas_limit = fee.gas_limit
      /\ DOMAIN raw = DOMAIN fee
  BY <1>1 DEF IsFee
<1>5. FeeFrom(raw) = [raw EXCEPT !.amount = fee.amount, !.payer = fee.payer]
  <2>1. FeeFrom(raw) =
          IF raw.gas_limit > MaxGasWanted \/ Failed(fee.payer) \/ Failed(fee.amount)
          THEN Malformed
          ELSE [raw EXCEPT !.amount = fee.amount, !.payer = fee.payer]
    BY <1>2, <1>3, <1>4 DEF FeeFrom
  <2>2. QED BY <1>4, <2>1 DEF IsFee
<1>6. [raw EXCEPT !.amount = fee.amount, !.payer = fee.payer] = fee
  BY <1>1 DEF IsFee
<1>7. raw = [x \in DOMAIN raw |-> raw[x]]
  BY <1>1
<1>8. raw # None /\ ~ Failed(fee)
  BY <1>7, RecordsDiffer DEF IsFee
<1>9. QED BY <1>5, <1>6, <1>8 DEF raw

LEMMA DecodedFee ==
  ASSUME NEW R, NEW raw, {"amount", "payer", "gas_limit"} \subseteq DOMAIN raw,
         raw.amount \in Seq(R), ~ Failed(FeeFrom(raw))
  PROVE  IsFee(FeeFrom(raw))
<1> DEFINE payer == Optional(FromBech32, raw.payer)
           allZero == \A i \in DOMAIN raw.amount : ParsedUint(raw.amount[i].amount) = 0
           amount == IF allZero THEN None ELSE SendCoinsFrom(raw.amount)
           fee == FeeFrom(raw)
<1>1. fee = IF raw.gas_limit > MaxGasWanted \/ Failed(payer) \/ Failed(amount)
            THEN Malformed
            ELSE [raw EXCEPT !.amount = amount, !.payer = payer]
  BY DEF FeeFrom
<1>2. ~ Failed(payer) /\ payer # None => IsAddress(payer)
  BY DecodedAddress DEF Optional
<1>3. ~ Failed(amount) /\ amount # None => AreGood(amount)
  <2>1. amount # None => amount = SendCoinsFrom(raw.amount)
    OBVIOUS
  <2> HIDE DEF amount
  <2>2. QED BY <2>1, DecodedGood
<1> HIDE DEF payer, allZero, amount
<1>4. /\ ~ (raw.gas_limit > MaxGasWanted) /\ ~ Failed(payer) /\ ~ Failed(amount)
      /\ fee = [raw EXCEPT !.amount = amount, !.payer = payer]
  BY <1>1 DEF Failed
<1> HIDE DEF fee
<1>5. /\ DOMAIN fee = DOMAIN raw /\ fee = [x \in DOMAIN fee |-> fee[x]]
      /\ fee.amount = amount /\ fee.payer = payer /\ fee.gas_limit = raw.gas_limit
  BY <1>4
<1>6. QED BY <1>2, <1>3, <1>4, <1>5 DEF IsFee, fee

IsTip(tip) ==
  /\ tip = [amount |-> tip.amount, tipper |-> tip.tipper]
  /\ AreGood(tip.amount) /\ IsAddress(tip.tipper)

LEMMA TipSurvives ==
  ASSUME ValuesDiffer, NEW tip, IsTip(tip)
  PROVE  TipFrom(RawTip(tip)) = tip /\ RawTip(tip) # None /\ tip # None /\ ~ Failed(tip)
<1> DEFINE raw == RawTip(tip)
<1>1. tip.amount # None
  <2>1. tip.amount = [i \in DOMAIN tip.amount |-> tip.amount[i]]
    BY DEF IsTip, AreGood, AreCoins, IsList
  <2>2. QED BY <2>1, RecordsDiffer
<1>2. /\ raw = [x \in DOMAIN raw |-> raw[x]]
      /\ raw.amount = RawCoins(tip.amount) /\ raw.tipper = ToBech32(tip.tipper)
  BY <1>1 DEF RawTip
<1> HIDE DEF raw
<1>3. raw # None
  BY <1>2, RecordsDiffer
<1>4. FromBech32(raw.tipper) = tip.tipper /\ SendCoinsFrom(raw.amount) = tip.amount
  BY <1>2, AddressSurvives, GoodSurvive DEF IsTip
<1>5. ~ Failed(tip.tipper) /\ ~ Failed(tip.amount)
  BY DEF IsTip, IsAddress, AreGood, AreCoins
<1>6. TipFrom(raw) = tip
  BY <1>4, <1>5 DEF TipFrom, IsTip
<1>7. tip = [x \in DOMAIN tip |-> tip[x]]
  <2> DEFINE r == [amount |-> tip.amount, tipper |-> tip.tipper]
  <2>1. r = [x \in DOMAIN r |-> r[x]] /\ tip = r
    BY DEF IsTip
  <2> HIDE DEF r
  <2>2. QED BY <2>1
<1>8. tip # None /\ ~ Failed(tip)
  BY <1>7, RecordsDiffer
<1>9. QED BY <1>3, <1>6, <1>8 DEF raw

LEMMA DecodedTip ==
  ASSUME NEW R, NEW raw, raw.amount \in Seq(R), ~ Failed(TipFrom(raw))
  PROVE  IsTip(TipFrom(raw))
<1> DEFINE tipper == FromBech32(raw.tipper)
           amount == SendCoinsFrom(raw.amount)
<1>1. TipFrom(raw) = IF Failed(tipper) \/ Failed(amount) THEN Malformed
                     ELSE [amount |-> amount, tipper |-> tipper]
  BY DEF TipFrom
<1>2. (~ Failed(tipper) => IsAddress(tipper)) /\ (~ Failed(amount) => AreGood(amount))
  BY DecodedAddress, DecodedGood
<1> HIDE DEF tipper, amount
<1>3. ~ Failed(tipper) /\ ~ Failed(amount) /\ TipFrom(raw) = [amount |-> amount, tipper |-> tipper]
  BY <1>1 DEF Failed
<1>4. QED BY <1>2, <1>3 DEF IsTip

IsAuth(auth) ==
  /\ auth = [signer_infos |-> auth.signer_infos, fee |-> auth.fee, tip |-> auth.tip]
  /\ ~ Failed(auth.signer_infos) /\ IsList(auth.signer_infos)
  /\ \A i \in DOMAIN auth.signer_infos : IsInfo(auth.signer_infos[i])
  /\ IsFee(auth.fee)
  /\ ~ Failed(auth.tip) /\ (auth.tip # None => IsTip(auth.tip))

LEMMA InfosSurvive ==
  ASSUME ValuesDiffer, NEW infos, IsList(infos), \A i \in DOMAIN infos : IsInfo(infos[i])
  PROVE  Collected(Each(SignerInfoFrom, Each(RawSignerInfo, infos))) = infos
<1> DEFINE raws == Each(RawSignerInfo, infos)
           results == Each(SignerInfoFrom, raws)
<1>1. DOMAIN raws = DOMAIN infos /\ \A i \in DOMAIN infos : raws[i] = RawSignerInfo(infos[i])
  BY DEF Each
<1>2. results = [i \in DOMAIN raws |-> SignerInfoFrom(raws[i])]
  BY DEF Each
<1>3. \A i \in DOMAIN infos : SignerInfoFrom(raws[i]) = infos[i] /\ ~ Failed(infos[i])
  BY <1>1, InfoSurvives
<1> HIDE DEF raws, results
<1>4. results = [i \in DOMAIN infos |-> infos[i]]
  BY <1>1, <1>2, <1>3
<1>5. results = infos
  BY <1>4 DEF IsList
<1>6. Collected(results) = infos
  BY <1>3, <1>5, CollectedWhole
<1>7. QED BY <1>6 DEF raws, results

LEMMA AuthSurvives ==
  ASSUME ValuesDiffer, NEW auth, IsAuth(auth)
  PROVE  /\ AuthInfoFrom(RawAuthInfo(auth)) = auth
         /\ RawAuthInfo(auth) # None /\ ~ Failed(auth)
<1> DEFINE raw == RawAuthInfo(auth)
           infos == Collected(Each(SignerInfoFrom, raw.signer_infos))
           fee == IF raw.fee = None THEN Malformed ELSE FeeFrom(raw.fee)
           tip == Optional(TipFrom, raw.tip)
<1>1. /\ raw = [x \in DOMAIN raw |-> raw[x]]
      /\ raw.signer_infos = Each(RawSignerInfo, auth.signer_infos)
      /\ raw.fee = RawFee(auth.fee) /\ raw.tip = Optional(RawTip, auth.tip)
  BY DEF RawAuthInfo
<1>2. AuthInfoFrom(raw) = IF Failed(infos) \/ Failed(fee) \/ Failed(tip) THEN Malformed
                          ELSE [signer_infos |-> infos, fee |-> fee, tip |-> tip]
  BY DEF AuthInfoFrom
<1> HIDE DEF raw
<1>3. infos = auth.signer_infos /\ ~ Failed(infos)
  BY <1>1, InfosSurvive DEF IsAuth
<1>4. fee = auth.fee /\ ~ Failed(fee)
  BY <1>1, FeeSurvives DEF IsAuth
<1>5. tip = auth.tip /\ ~ Failed(tip)
  <2>1. CASE auth.tip = None
    BY <1>1, <2>1 DEF Optional, IsAuth
  <2>2. CASE auth.tip # None
    <3>1. TipFrom(RawTip(auth.tip)) = auth.tip /\ RawTip(auth.tip) # None /\ ~ Failed(auth.tip)
      BY <2>2, TipSurvives DEF IsAuth
    <3>2. QED BY <1>1, <2>2, <3>1 DEF Optional
  <2>3. QED BY <2>1, <2>2
<1> HIDE DEF infos, fee, tip
<1>6. AuthInfoFrom(raw) = auth
  BY <1>2, <1>3, <1>4, <1>5 DEF IsAuth
<1>7. auth = [x \in DOMAIN auth |-> auth[x]]
  <2> DEFINE r == [signer_infos |-> auth.signer_infos, fee |-> auth.fee, tip |-> auth.tip]
  <2>1. r = [x \in DOMAIN r |-> r[x]] /\ auth = r
    BY DEF IsAuth
  <2> HIDE DEF r
  <2>2. QED BY <2>1
<1>8. raw # None /\ ~ Failed(auth)
  BY <1>1, <1>7, RecordsDiffer
<1>9. QED BY <1>6, <1>8 DEF raw

\* What a raw AuthInfo is: lists, and records with their fields.
IsRawAuth(raw, R) ==
  /\ raw.signer_infos \in Seq(R)
  /\ \A i \in DOMAIN raw.signer_infos : "public_key" \in DOMAIN raw.signer_infos[i]
  /\ raw.fee # None => /\ {"amount", "payer", "gas_limit"} \subseteq DOMAIN raw.fee
                       /\ raw.fee.amount \in Seq(R)
  /\ raw.tip # None => raw.tip.amount \in Seq(R)

LEMMA DecodedAuth ==
  ASSUME NEW R, NEW raw, IsRawAuth(raw, R), ~ Failed(AuthInfoFrom(raw))
  PROVE  IsAuth(AuthInfoFrom(raw))
<1> DEFINE results == Each(SignerInfoFrom, raw.signer_infos)
           infos == Collected(results)
           fee == IF raw.fee = None THEN Malformed ELSE FeeFrom(raw.fee)
           tip == Optional(TipFrom, raw.tip)
           n == Len(raw.signer_infos)
<1>1. AuthInfoFrom(raw) = IF Failed(infos) \/ Failed(fee) \/ Failed(tip) THEN Malformed
                          ELSE [signer_infos |-> infos, fee |-> fee, tip |-> tip]
  BY DEF AuthInfoFrom
<1>2. ~ Failed(infos) => IsList(infos) /\ \A i \in DOMAIN infos : IsInfo(infos[i])
  <2> SUFFICES ASSUME ~ Failed(infos)
               PROVE  IsList(infos) /\ \A i \in DOMAIN infos : IsInfo(infos[i])
    OBVIOUS
  <2>1. /\ n \in Nat /\ DOMAIN raw.signer_infos = 1..n
        /\ results = [i \in 1..n |-> SignerInfoFrom(raw.signer_infos[i])]
    BY DEF Each, IsRawAuth
  <2> HIDE DEF results, n
  <2>2. DOMAIN results = 1..n /\ \A i \in 1..n : results[i] = SignerInfoFrom(raw.signer_infos[i])
    BY <2>1
  <2>3. infos = results /\ \A i \in 1..n : ~ Failed(results[i])
    BY <2>1, <2>2, CollectedSucceeds
  <2>4. Len(results) = n /\ results = [i \in DOMAIN results |-> results[i]]
    BY <2>1
  <2>5. \A i \in 1..n : IsInfo(results[i])
    BY <2>1, <2>2, <2>3, DecodedInfo DEF IsRawAuth
  <2> HIDE DEF infos
  <2>6. QED BY <2>1, <2>2, <2>3, <2>4, <2>5 DEF IsList
<1>3. ~ Failed(fee) => IsFee(fee)
  <2> SUFFICES ASSUME ~ Failed(fee) PROVE IsFee(fee)
    OBVIOUS
  <2>1. raw.fee # None /\ fee = FeeFrom(raw.fee)
    BY DEF Failed
  <2> HIDE DEF fee
  <2>2. {"amount", "payer", "gas_limit"} \subseteq DOMAIN raw.fee /\ raw.fee.amount \in Seq(R)
    BY <2>1 DEF IsRawAuth
  <2>3. QED BY <2>1, <2>2, DecodedFee
<1>4. ~ Failed(tip) /\ tip # None => IsTip(tip)
  BY DecodedTip DEF Optional, IsRawAuth
<1> HIDE DEF infos, fee, tip
<1>5. /\ ~ Failed(infos) /\ ~ Failed(fee) /\ ~ Failed(tip)
      /\ AuthInfoFrom(raw) = [signer_infos |-> infos, fee |-> fee, tip |-> tip]
  BY <1>1 DEF Failed
<1>6. QED BY <1>2, <1>3, <1>4, <1>5 DEF IsAuth

IsBody(body) ==
  /\ body = [x \in DOMAIN body |-> body[x]]
  /\ "messages" \in DOMAIN body
  /\ ~ Failed(body.messages) /\ IsList(body.messages)
  /\ \A i \in DOMAIN body.messages : IsMessage(body.messages[i])

LEMMA BodySurvives ==
  ASSUME ValuesDiffer, NEW body, IsBody(body)
  PROVE  TxBodyFrom(RawTxBody(body)) = body /\ RawTxBody(body) # None
<1> DEFINE raws == Each(AnyMessage, body.messages)
           raw == RawTxBody(body)
           results == Each(MessageFrom, raws)
<1>1. raw = [body EXCEPT !.messages = raws]
  BY DEF RawTxBody
<1>2. DOMAIN raws = DOMAIN body.messages
      /\ \A i \in DOMAIN raws : raws[i] = AnyMessage(body.messages[i])
  BY DEF Each
<1>3. results = [i \in DOMAIN raws |-> MessageFrom(raws[i])]
  BY DEF Each
<1> HIDE DEF raws, raw
<1>4. \A i \in DOMAIN raws : MessageFrom(raws[i]) = body.messages[i] /\ ~ Failed(body.messages[i])
  <2> SUFFICES ASSUME NEW i \in DOMAIN raws
               PROVE  MessageFrom(raws[i]) = body.messages[i] /\ ~ Failed(body.messages[i])
    OBVIOUS
  <2> DEFINE m == body.messages[i]
  <2>1. IsMessage(m)
    BY <1>2 DEF IsBody
  <2>2. MessageFrom(AnyMessage(m)) = m
    BY <2>1, MessageSurvives
  <2>3. m = [x \in DOMAIN m |-> m[x]]
    <3> DEFINE r == [from_address |-> m.from_address, to_address |-> m.to_address, amount |-> m.amount]
    <3>1. r = [x \in DOMAIN r |-> r[x]] /\ m = r
      BY <2>1 DEF IsMessage
    <3> HIDE DEF r
    <3>2. QED BY <3>1
  <2>4. ~ Failed(m)
    BY <2>3, RecordsDiffer
  <2>5. QED BY <1>2, <2>2, <2>4
<1> HIDE DEF results
<1>5. results = [i \in DOMAIN body.messages |-> body.messages[i]]
  BY <1>2, <1>3, <1>4
<1>6. results = body.messages
  BY <1>5 DEF IsBody, IsList
<1>7. Collected(results) = body.messages
  BY <1>2, <1>4, <1>6, CollectedWhole
<1>8. raw.messages = raws /\ raw = [x \in DOMAIN raw |-> raw[x]]
  BY <1>1 DEF IsBody
<1>9. TxBodyFrom(raw) = [raw EXCEPT !.messages = body.messages]
  BY <1>7, <1>8 DEF TxBodyFrom, results
<1>10. [raw EXCEPT !.messages = body.messages] = body
  BY <1>1, ExceptTwice DEF IsBody
<1>11. raw # None
  BY <1>8, RecordsDiffer
<1>12. QED BY <1>9, <1>10, <1>11 DEF raw

LEMMA DecodedBody ==
  ASSUME NEW R, NEW raw, "messages" \in DOMAIN raw, raw.messages \in Seq(R),
         \A i \in DOMAIN raw.messages :
            raw.messages[i].type_url = "MsgSend" /\ raw.messages[i].value # Malformed
              => raw.messages[i].value.amount \in Seq(R),
         ~ Failed(TxBodyFrom(raw).messages)
  PROVE  IsBody(TxBodyFrom(raw))
<1> DEFINE msgs == raw.messages
           results == Each(MessageFrom, msgs)
           body == TxBodyFrom(raw)
           n == Len(msgs)
<1>1. body = [raw EXCEPT !.messages = Collected(results)]
  BY DEF TxBodyFrom
<1>2. /\ n \in Nat /\ DOMAIN msgs = 1..n
      /\ results = [i \in 1..n |-> MessageFrom(msgs[i])]
  BY DEF Each
<1> HIDE DEF results, n, body
<1>3. /\ DOMAIN body = DOMAIN raw /\ body = [x \in DOMAIN body |-> body[x]]
      /\ body.messages = Collected(results)
  BY <1>1
<1>4. DOMAIN results = 1..n /\ \A i \in 1..n : results[i] = MessageFrom(msgs[i])
  BY <1>2
<1>5. ~ Failed(Collected(results))
  BY <1>3 DEF body
<1>6. Collected(results) = results /\ \A i \in 1..n : ~ Failed(results[i])
  BY <1>2, <1>4, <1>5, CollectedSucceeds
<1>7. Len(results) = n /\ results = [i \in DOMAIN results |-> results[i]]
  BY <1>2
<1>8. \A i \in 1..n : IsMessage(results[i])
  BY <1>2, <1>4, <1>6, DecodedMessage
<1>9. QED BY <1>2, <1>3, <1>4, <1>5, <1>6, <1>7, <1>8 DEF IsBody, IsList, body

LEMMA Surviving ==
  ASSUME NEW raw, ~ Failed(TxFrom(raw)) => TxFrom(RawTx(TxFrom(raw))) = TxFrom(raw)
  PROVE  SurvivesEncoding(TxFrom, RawTx, raw)
BY DEF SurvivesEncoding

\* A transaction that was decoded, of any length and with any bytes in its
\* parts, is encoded as bytes that are decoded as the same transaction: the
\* same messages, fee, tip, signers and signatures.
THEOREM TransactionsSurviveEncoding ==
  ASSUME ValuesDiffer, NEW R, NEW raw, IsRawTx(raw, R),
         raw.body # None => "extension_options" \in DOMAIN raw.body,
         raw.auth_info # None => IsRawAuth(raw.auth_info, R)
  PROVE  SurvivesEncoding(TxFrom, RawTx, raw)
<1> SUFFICES ASSUME ~ Failed(TxFrom(raw)) PROVE TxFrom(RawTx(TxFrom(raw))) = TxFrom(raw)
  BY Surviving
<1> DEFINE tx == TxFrom(raw)
           again == RawTx(tx)
           auth == IF raw.auth_info = None THEN Malformed ELSE AuthInfoFrom(raw.auth_info)
           body == TxBodyFrom(raw.body)
           data == [i \in DOMAIN raw.signatures |->
                      [signature |-> raw.signatures[i],
                       sequence |-> auth.signer_infos[i].sequence]]
<1>1. tx = IF \/ raw.body = None \/ raw.body.extension_options # <<>>
              \/ Failed(auth) \/ Len(raw.signatures) # Len(auth.signer_infos)
           THEN Malformed
           ELSE IF Failed(body.messages) THEN body.messages
           ELSE [body |-> body, auth_info |-> auth, signatures |-> raw.signatures,
                 signatures_data |-> data]
  BY DEF TxFrom, TxOf
<1>2. ~ Failed(tx)
  OBVIOUS
<1>3. again = [body |-> RawTxBody(tx.body), auth_info |-> RawAuthInfo(tx.auth_info),
               signatures |-> tx.signatures]
  BY DEF RawTx
<1> HIDE DEF tx, again, auth, body, data
<1>4. /\ raw.body # None /\ raw.body.extension_options = <<>>
      /\ ~ Failed(auth) /\ ~ Failed(body.messages)
      /\ Len(raw.signatures) = Len(auth.signer_infos)
      /\ tx = [body |-> body, auth_info |-> auth, signatures |-> raw.signatures,
               signatures_data |-> data]
  BY <1>1, <1>2 DEF Failed
<1>5. again.body = RawTxBody(body) /\ again.auth_info = RawAuthInfo(auth)
      /\ again.signatures = raw.signatures
  BY <1>3, <1>4
<1>6. IsAuth(auth)
  <2>1. raw.auth_info # None /\ auth = AuthInfoFrom(raw.auth_info)
    BY <1>4 DEF auth, Failed
  <2>2. QED BY <1>4, <2>1, DecodedAuth
<1>7. IsBody(body)
  <2>1. /\ "messages" \in DOMAIN raw.body /\ raw.body.messages \in Seq(R)
        /\ \A i \in DOMAIN raw.body.messages :
             raw.body.messages[i].type_url = "MsgSend" /\ raw.body.messages[i].value # Malformed
               => raw.body.messages[i].value.amount \in Seq(R)
    BY <1>4 DEF IsRawTx
  <2>2. ~ Failed(TxBodyFrom(raw.body).messages)
    BY <1>4 DEF body
  <2>3. QED BY <2>1, <2>2, DecodedBody DEF body
<1>8. AuthInfoFrom(again.auth_info) = auth /\ again.auth_info # None
  BY <1>5, <1>6, AuthSurvives
<1>9. TxBodyFrom(again.body) = body /\ again.body # None
  BY <1>5, <1>7, BodySurvives
<1>10. again.body.extension_options = <<>>
  <2>1. "extension_options" \in DOMAIN raw.body
    BY <1>4
  <2>2. body.extension_options = <<>> /\ "extension_options" \in DOMAIN body
    BY <1>4, <2>1 DEF body, TxBodyFrom
  <2>3. QED BY <1>5, <2>2 DEF RawTxBody
<1>11. TxFrom(again) =
         IF \/ again.body = None \/ again.body.extension_options # <<>>
            \/ Failed(auth) \/ Len(again.signatures) # Len(auth.signer_infos)
         THEN Malformed
         ELSE IF Failed(body.messages) THEN body.messages
         ELSE [body |-> body, auth_info |-> auth, signatures |-> again.signatures,
               signatures_data |->
                 [i \in DOMAIN again.signatures |->
                      [signature |-> again.signatures[i],
                       sequence |-> auth.signer_infos[i].sequence]]]
  BY <1>8, <1>9 DEF TxFrom, TxOf
<1>12. TxFrom(again) = tx
  BY <1>4, <1>5, <1>9, <1>10, <1>11 DEF data
<1>13. QED BY <1>12 DEF again, tx

-----------------------------------------------------------------------------
(* Accounts, and the requests and responses of the queries.                *)

IsBase(account) ==
  /\ account = [x \in DOMAIN account |-> account[x]]
  /\ {"address", "pub_key"} \subseteq DOMAIN account
  /\ IsAddress(account.address) /\ ~ Failed(account.pub_key)

LEMMA BaseSurvives ==
  ASSUME ValuesDiffer, NEW account, IsBase(account)
  PROVE  /\ BaseAccountFrom(RawBaseAccount(account)) = account
         /\ RawBaseAccount(account) # None /\ RawBaseAccount(account) # Malformed
         /\ ~ Failed(account)
<1> DEFINE raw == RawBaseAccount(account)
           text == ToBech32(account.address)
           key == Optional(AnyPublicKey, account.pub_key)
<1>1. raw = [account EXCEPT !.address = text, !.pub_key = key]
  BY DEF RawBaseAccount
<1>2. FromBech32(text) = account.address /\ Optional(PublicKeyFrom, key) = account.pub_key
  BY AddressSurvives, KeySurvives DEF IsBase
<1> HIDE DEF raw, text, key
<1>3. raw.address = text /\ raw.pub_key = key /\ raw = [x \in DOMAIN raw |-> raw[x]]
  BY <1>1 DEF IsBase
<1>4. BaseAccountFrom(raw) = [raw EXCEPT !.address = account.address, !.pub_key = account.pub_key]
  BY <1>2, <1>3 DEF BaseAccountFrom, IsBase, IsAddress
<1>5. [raw EXCEPT !.address = account.address, !.pub_key = account.pub_key] = account
  BY <1>1 DEF IsBase
<1>6. raw # None /\ raw # Malformed /\ ~ Failed(account)
  BY <1>3, RecordsDiffer DEF IsBase
<1>7. QED BY <1>4, <1>5, <1>6 DEF raw

LEMMA DecodedBase ==
  ASSUME NEW raw, {"address", "pub_key"} \subseteq DOMAIN raw, ~ Failed(BaseAccountFrom(raw))
  PROVE  IsBase(BaseAccountFrom(raw)) /\ DOMAIN BaseAccountFrom(raw) = DOMAIN raw
<1> DEFINE address == FromBech32(raw.address)
           key == Optional(PublicKeyFrom, raw.pub_key)
           account == BaseAccountFrom(raw)
<1>1. account = IF Failed(address) \/ Failed(key) THEN Malformed
                ELSE [raw EXCEPT !.address = address, !.pub_key = key]
  BY DEF BaseAccountFrom
<1>2. ~ Failed(address) => IsAddress(address)
  BY DecodedAddress
<1> HIDE DEF address, key
<1>3. /\ ~ Failed(address) /\ ~ Failed(key)
      /\ account = [raw EXCEPT !.address = address, !.pub_key = key]
  BY <1>1 DEF Failed
<1> HIDE DEF account
<1>4. /\ DOMAIN account = DOMAIN raw /\ account = [x \in DOMAIN account |-> account[x]]
      /\ account.address = address /\ account.pub_key = key
  BY <1>3
<1>5. QED BY <1>2, <1>3, <1>4 DEF IsBase, account

LEMMA ModuleSurvives ==
  ASSUME ValuesDiffer, NEW raw, "base_account" \in DOMAIN raw,
         raw.base_account # None => {"address", "pub_key"} \subseteq DOMAIN raw.base_account,
         ~ Failed(ModuleAccountFrom(raw))
  PROVE  /\ "base_account" \in DOMAIN ModuleAccountFrom(raw)
         /\ RawModuleAccount(ModuleAccountFrom(raw)) # Malformed
         /\ ModuleAccountFrom(RawModuleAccount(ModuleAccountFrom(raw))) = ModuleAccountFrom(raw)
<1> DEFINE base == IF raw.base_account = None THEN Malformed
                   ELSE BaseAccountFrom(raw.base_account)
           account == ModuleAccountFrom(raw)
           again == RawModuleAccount(account)
<1>1. account = IF Failed(base) THEN Malformed ELSE [raw EXCEPT !.base_account = base]
  BY DEF ModuleAccountFrom
<1>2. ~ Failed(base) => IsBase(base)
  <2> SUFFICES ASSUME ~ Failed(base) PROVE IsBase(base)
    OBVIOUS
  <2>1. raw.base_account # None /\ base = BaseAccountFrom(raw.base_account)
    BY DEF Failed
  <2> HIDE DEF base
  <2>2. QED BY <2>1, DecodedBase
<1> HIDE DEF base
<1>3. ~ Failed(base) /\ account = [raw EXCEPT !.base_account = base]
  BY <1>1 DEF Failed
<1> HIDE DEF account
<1>4. /\ "base_account" \in DOMAIN account /\ account.base_account = base
      /\ account = [x \in DOMAIN account |-> account[x]]
  BY <1>3
<1>5. again = [account EXCEPT !.base_account = RawBaseAccount(base)]
  BY <1>4 DEF RawModuleAccount
<1> HIDE DEF again
<1>6. again.base_account = RawBaseAccount(base) /\ again = [x \in DOMAIN again |-> again[x]]
  BY <1>4, <1>5
<1>7. BaseAccountFrom(RawBaseAccount(base)) = base /\ RawBaseAccount(base) # None
  BY <1>2, <1>3, BaseSurvives
<1>8. ModuleAccountFrom(again) = [again EXCEPT !.base_account = base]
  BY <1>3, <1>6, <1>7 DEF ModuleAccountFrom
<1>9. [again EXCEPT !.base_account = base] = account
  BY <1>4, <1>5
<1>10. again # Malformed
  BY <1>6, RecordsDiffer
<1>11. QED BY <1>4, <1>8, <1>9, <1>10 DEF again, account

LEMMA AccountSurvives ==
  ASSUME ValuesDiffer, NEW any, IsRawAccount(any), ~ Failed(AccountFrom(any))
  PROVE  AccountFrom(AnyAccount(AccountFrom(any))) = AccountFrom(any)
         /\ AnyAccount(AccountFrom(any)) # None
<1> DEFINE account == AccountFrom(any)
           again == AnyAccount(account)
<1>1. CASE any.type_url = "BaseAccount"
  <2>1. account = Decoded(BaseAccountFrom, any.value)
    BY <1>1 DEF AccountFrom
  <2>2. any.value # Malformed /\ account = BaseAccountFrom(any.value) /\ ~ Failed(account)
    BY <2>1 DEF Decoded, Failed
  <2>3. /\ {"address", "pub_key"} \subseteq DOMAIN any.value
        /\ "base_account" \notin DOMAIN any.value
    BY <1>1, <2>2 DEF IsRawAccount, IsRawBase
  <2> HIDE DEF account
  <2>4. IsBase(account) /\ DOMAIN account = DOMAIN any.value
    BY <2>2, <2>3, DecodedBase
  <2>5. again = [type_url |-> "BaseAccount", value |-> RawBaseAccount(account)]
    BY <2>3, <2>4 DEF AnyAccount, AnyOf
  <2> HIDE DEF again
  <2>6. /\ again = [x \in DOMAIN again |-> again[x]]
        /\ again.type_url = "BaseAccount" /\ again.value = RawBaseAccount(account)
    BY <2>5
  <2>7. BaseAccountFrom(again.value) = account /\ again.value # Malformed
    BY <2>4, <2>6, BaseSurvives
  <2>8. AccountFrom(again) = account
    BY <2>6, <2>7 DEF AccountFrom, Decoded
  <2>9. QED BY <2>6, <2>8, RecordsDiffer DEF again, account
<1>2. CASE any.type_url # "BaseAccount"
  <2>1. any.type_url = "ModuleAccount" /\ account = Decoded(ModuleAccountFrom, any.value)
    BY <1>2 DEF AccountFrom, Failed
  <2>2. any.value # Malformed /\ account = ModuleAccountFrom(any.value) /\ ~ Failed(account)
    BY <2>1 DEF Decoded, Failed
  <2>3. /\ "base_account" \in DOMAIN any.value
        /\ any.value.base_account # None =>
             {"address", "pub_key"} \subseteq DOMAIN any.value.base_account
    BY <2>1, <2>2 DEF IsRawAccount, IsRawBase
  <2> HIDE DEF account
  <2>4. /\ "base_account" \in DOMAIN account /\ RawModuleAccount(account) # Malformed
        /\ ModuleAccountFrom(RawModuleAccount(account)) = account
    BY <2>2, <2>3, ModuleSurvives
  <2>5. again = [type_url |-> "ModuleAccount", value |-> RawModuleAccount(account)]
    BY <2>4 DEF AnyAccount, AnyOf
  <2> HIDE DEF again
  <2>6. /\ again = [x \in DOMAIN again |-> again[x]]
        /\ again.type_url = "ModuleAccount" /\ again.value = RawModuleAccount(account)
    BY <2>5
  <2>7. AccountFrom(again) = account
    BY <2>4, <2>6 DEF AccountFrom, Decoded
  <2>8. QED BY <2>6, <2>7, RecordsDiffer DEF again, account
<1>3. QED BY <1>1, <1>2

\* An account, also in the response to a query, is stored and answered as
\* bytes that are decoded as the same account.
THEOREM AccountsSurviveEncoding ==
  ASSUME ValuesDiffer, NEW any, IsRawAccount(any)
  PROVE  /\ SurvivesEncoding(AccountFrom, AnyAccount, any)
         /\ SurvivesEncoding(QueryAccountResponseFrom, RawQueryAccountResponse,
                             [account |-> any])
<1>1. ~ Failed(AccountFrom(any)) =>
        AccountFrom(AnyAccount(AccountFrom(any))) = AccountFrom(any)
        /\ AnyAccount(AccountFrom(any)) # None
  BY AccountSurvives
<1>2. SurvivesEncoding(AccountFrom, AnyAccount, any)
  BY <1>1 DEF SurvivesEncoding
<1> DEFINE raw == [account |-> any]
           account == QueryAccountResponseFrom(raw)
           again == RawQueryAccountResponse(account)
<1>3. raw.account = any
  OBVIOUS
<1>4. account = IF any = None THEN Malformed ELSE AccountFrom(any)
  BY <1>3 DEF QueryAccountResponseFrom
<1>5. again.account = AnyAccount(account)
  BY DEF RawQueryAccountResponse
<1> HIDE DEF raw, account, again
<1>6. ~ Failed(account) => QueryAccountResponseFrom(again) = account
  BY <1>1, <1>4, <1>5 DEF QueryAccountResponseFrom, Failed
<1>7. SurvivesEncoding(QueryAccountResponseFrom, RawQueryAccountResponse, raw)
  BY <1>6 DEF SurvivesEncoding, account, again
<1>8. QED BY <1>2, <1>7 DEF raw

LEMMA CoinsAreAnswered ==
  ASSUME NEW R, NEW raws \in Seq(R), ~ Failed(Collected(Each(CoinFrom, raws)))
  PROVE  LET coins == Collected(Each(CoinFrom, raws))
         IN  Collected(Each(CoinFrom, RawCoins(coins))) = coins
BY DecodedCoins, CoinsSurvive

LEMMA OneCoinIsAnswered ==
  ASSUME ValuesDiffer, NEW raw, ~ Failed(Optional(CoinFrom, raw))
  PROVE  LET coin == Optional(CoinFrom, raw)
         IN  Optional(CoinFrom, Optional(RawCoin, coin)) = coin
<1>1. CASE raw = None
  BY <1>1 DEF Optional
<1>2. CASE raw # None
  <2> DEFINE coin == CoinFrom(raw)
             again == RawCoin(coin)
  <2>1. Optional(CoinFrom, raw) = coin
    BY <1>2 DEF Optional
  <2>2. IsCoin(coin) /\ CoinFrom(again) = coin
    BY <2>1, DecodedCoin, CoinSurvives
  <2>3. again = [x \in DOMAIN again |-> again[x]]
    BY DEF RawCoin
  <2> DEFINE r == [denom |-> coin.denom, amount |-> coin.amount]
  <2>4. r = [x \in DOMAIN r |-> r[x]] /\ coin = r
    BY <2>2 DEF IsCoin
  <2> HIDE DEF coin, again, r
  <2>5. coin # None /\ again # None
    BY <2>3, <2>4, RecordsDiffer
  <2>6. Optional(CoinFrom, Optional(RawCoin, coin)) = coin
    BY <2>2, <2>5 DEF Optional, again
  <2>7. QED BY <2>1, <2>6
<1>3. QED BY <1>1, <1>2

\* The requests of the command line and the responses of a node, encoded as
\* bytes, are decoded as the same requests and responses.
THEOREM QueriesSurviveEncoding ==
  ASSUME ValuesDiffer, NEW R, NEW address, NEW denom, NEW coin, NEW coins \in Seq(R),
         NEW pagination
  PROVE  /\ SurvivesEncoding(QueryAccountRequestFrom, RawQueryAccountRequest,
                             [address |-> address])
         /\ SurvivesEncoding(QueryBalanceRequestFrom, RawQueryBalanceRequest,
                             [address |-> address, denom |-> denom])
         /\ SurvivesEncoding(QueryAllBalancesRequestFrom, RawQueryAllBalancesRequest,
                             [address |-> address, pagination |-> pagination])
         /\ SurvivesEncoding(QueryBalanceResponseFrom, RawQueryBalanceResponse,
                             [balance |-> coin])
         /\ SurvivesEncoding(QueryAllBalancesResponseFrom, RawQueryAllBalancesResponse,
                             [balances |-> coins])
         /\ SurvivesEncoding(QueryTotalSupplyResponseFrom, RawQueryTotalSupplyResponse,
                             [supply |-> coins])
<1> DEFINE a == FromBech32(address)
<1>1. ~ Failed(a) => FromBech32(ToBech32(a)) = a
  BY DecodedAddress, AddressSurvives
<1>2. SurvivesEncoding(QueryAccountRequestFrom, RawQueryAccountRequest, [address |-> address])
  BY <1>1 DEF SurvivesEncoding, QueryAccountRequestFrom, RawQueryAccountRequest
<1> HIDE DEF a
<1>3. SurvivesEncoding(QueryBalanceRequestFrom, RawQueryBalanceRequest,
                       [address |-> address, denom |-> denom])
  <2> DEFINE raw == [address |-> address, denom |-> denom]
             d == DenomFrom(denom)
             query == [address |-> a, denom |-> d]
             again == [address |-> ToBech32(a), denom |-> d]
  <2>1. QueryBalanceRequestFrom(raw) = IF Failed(a) \/ Failed(d) THEN Malformed ELSE query
    BY DEF QueryBalanceRequestFrom, a
  <2>2. ~ Failed(d) => DenomFrom(d) = d
    BY DEF DenomFrom, Failed
  <2>3. RawQueryBalanceRequest(query) = again
    BY DEF RawQueryBalanceRequest
  <2> HIDE DEF d
  <2>4. ~ Failed(a) /\ ~ Failed(d) => QueryBalanceRequestFrom(again) = query
    BY <1>1, <2>2 DEF QueryBalanceRequestFrom
  <2> HIDE DEF raw, query, again
  <2>5. SurvivesEncoding(QueryBalanceRequestFrom, RawQueryBalanceRequest, raw)
    BY <2>1, <2>3, <2>4 DEF SurvivesEncoding, Failed
  <2>6. QED BY <2>5 DEF raw
<1>4. SurvivesEncoding(QueryAllBalancesRequestFrom, RawQueryAllBalancesRequest,
                       [address |-> address, pagination |-> pagination])
  <2> DEFINE raw == [address |-> address, pagination |-> pagination]
             query == [address |-> a, pagination |-> pagination]
             again == [address |-> ToBech32(a), pagination |-> pagination]
  <2>1. QueryAllBalancesRequestFrom(raw) = IF Failed(a) THEN Malformed ELSE query
    BY DEF QueryAllBalancesRequestFrom, a
  <2>2. RawQueryAllBalancesRequest(query) = again
    BY DEF RawQueryAllBalancesRequest
  <2>3. ~ Failed(a) => QueryAllBalancesRequestFrom(again) = query
    BY <1>1 DEF QueryAllBalancesRequestFrom
  <2> HIDE DEF raw, query, again
  <2>4. SurvivesEncoding(QueryAllBalancesRequestFrom, RawQueryAllBalancesRequest, raw)
    BY <2>1, <2>2, <2>3 DEF SurvivesEncoding, Failed
  <2>5. QED BY <2>4 DEF raw
<1>5. SurvivesEncoding(QueryBalanceResponseFrom, RawQueryBalanceResponse, [balance |-> coin])
  <2> DEFINE raw == [balance |-> coin]
             c == Optional(CoinFrom, coin)
             query == [balance |-> c]
             again == [balance |-> Optional(RawCoin, c)]
  <2>1. QueryBalanceResponseFrom(raw) = IF Failed(c) THEN Malformed ELSE query
    BY DEF QueryBalanceResponseFrom
  <2>2. RawQueryBalanceResponse(query) = again
    BY DEF RawQueryBalanceResponse
  <2>3. ~ Failed(c) => Optional(CoinFrom, Optional(RawCoin, c)) = c
    BY OneCoinIsAnswered
  <2> HIDE DEF c
  <2>4. ~ Failed(c) => QueryBalanceResponseFrom(again) = query
    BY <2>3 DEF QueryBalanceResponseFrom
  <2> HIDE DEF raw, query, again
  <2>5. SurvivesEncoding(QueryBalanceResponseFrom, RawQueryBalanceResponse, raw)
    BY <2>1, <2>2, <2>4 DEF SurvivesEncoding, Failed
  <2>6. QED BY <2>5 DEF raw
<1> DEFINE cs == Collected(Each(CoinFrom, coins))
<1>6. ~ Failed(cs) => Collected(Each(CoinFrom, RawCoins(cs))) = cs
  BY CoinsAreAnswered
<1> HIDE DEF cs
<1>7. SurvivesEncoding(QueryAllBalancesResponseFrom, RawQueryAllBalancesResponse,
                       [balances |-> coins])
  BY <1>6 DEF SurvivesEncoding, QueryAllBalancesResponseFrom, RawQueryAllBalancesResponse, cs
<1>8. SurvivesEncoding(QueryTotalSupplyResponseFrom, RawQueryTotalSupplyResponse,
                       [supply |-> coins])
  BY <1>6 DEF SurvivesEncoding, QueryTotalSupplyResponseFrom, RawQueryTotalSupplyResponse, cs
<1>9. QED BY <1>2, <1>3, <1>4, <1>5, <1>7, <1>8

-----------------------------------------------------------------------------
(* The command line's transfer.                                            *)

LEMMA OneCoin ==
  ASSUME ValuesDiffer, NEW c, IsCoin(c)
  PROVE  /\ c.amount # 0 => NewSendCoins(<<c>>) = <<c>> /\ AreGood(<<c>>)
         /\ c.amount = 0 => NewSendCoins(<<c>>) = Malformed
<1> DEFINE l == <<c>>
<1>1. Len(l) = 1 /\ DOMAIN l = 1..1 /\ l[1] = c /\ l # <<>>
  OBVIOUS
<1>2. l = [i \in DOMAIN l |-> l[i]]
  OBVIOUS
<1> HIDE DEF l
<1>3. ~ Failed(l)
  BY <1>2, RecordsDiffer
<1>4. AreCoins(l)
  BY <1>1, <1>2, <1>3 DEF AreCoins, IsList
<1>5. ValidateCoins(l) <=> c.amount # 0
  BY <1>1 DEF ValidateCoins
<1>6. QED BY <1>3, <1>4, <1>5 DEF NewSendCoins, AreGood, l

\* Whoever signs, whoever is paid, whichever the coin and the fee, a node
\* decodes what the command line signs as what it was asked to send.
THEOREM TransfersStayAsSigned ==
  ASSUME ValuesDiffer,
         NEW key, ~ Failed(key), IsAddress(GetAddress(key)),
         NEW to, IsAddress(to), NEW coin, IsCoin(coin),
         NEW fee, fee # None => IsCoin(fee), NEW sequence, NEW number
  PROVE  DecodedAsSigned(key, to, coin, fee, sequence, number)
<1> DEFINE from == GetAddress(key)
           raw == CreateSignedSendTx(from, to, coin, fee, sequence, number, key)
           coins == NewSendCoins(<<coin>>)
           fees == IF fee = None THEN None ELSE NewSendCoins(<<fee>>)
           message == [from_address |-> from, to_address |-> to, amount |-> coins]
           info == [public_key |-> key, sequence |-> sequence]
           rawfee == [amount |-> fees, gas_limit |-> 1, payer |-> None]
           body == [messages |-> <<message>>, timeout_height |-> 0, extension_options |-> <<>>]
           auth == [signer_infos |-> <<info>>, fee |-> rawfee, tip |-> None]
           unsigned == [body |-> RawTxBody(body), auth_info |-> RawAuthInfo(auth)]
           sig == [key |-> key, over |-> SignBytes(unsigned, number)]
           zero == coin.amount = 0 \/ (fee # None /\ fee.amount = 0)
<1>1. raw = IF Failed(coins) \/ Failed(fees) THEN Malformed
            ELSE [body |-> unsigned.body, auth_info |-> unsigned.auth_info,
                  signatures |-> <<sig>>]
  BY DEF CreateSignedSendTx
<1>2. IF coin.amount = 0 THEN coins = Malformed
      ELSE coins = <<coin>> /\ AreGood(coins) /\ ~ Failed(coins)
  BY OneCoin DEF AreGood, AreCoins
<1>3. IF fee = None THEN fees = None
      ELSE IF fee.amount = 0 THEN fees = Malformed
      ELSE fees = <<fee>> /\ AreGood(fees) /\ ~ Failed(fees)
  BY OneCoin DEF AreGood, AreCoins
<1>4. ~ Failed(None)
  BY DEF ValuesDiffer, Failed
<1>5. CASE zero
  <2>1. Failed(coins) \/ Failed(fees)
    BY <1>2, <1>3, <1>5 DEF Failed
  <2> HIDE DEF coins, fees, unsigned, sig
  <2>2. raw = Malformed
    BY <1>1, <2>1
  <2> HIDE DEF raw
  <2>3. QED BY <1>5, <2>2 DEF DecodedAsSigned, raw
<1>6. CASE ~ zero
  <2>1. /\ coins = <<coin>> /\ AreGood(coins) /\ ~ Failed(coins)
        /\ fees = IF fee = None THEN None ELSE <<fee>>
        /\ ~ Failed(fees) /\ (fees # None => AreGood(fees))
    BY <1>2, <1>3, <1>4, <1>6
  <2> HIDE DEF coins, fees, zero
  <2>2. IsMessage(message)
    BY <2>1 DEF IsMessage
  <2>3. IsInfo(info)
    BY DEF IsInfo
  <2>4. IsFee(rawfee)
    <3>1. ~ (1 > MaxGasWanted)
      BY EncodingAssumption
    <3>2. QED BY <1>4, <2>1, <3>1 DEF IsFee
  <2> HIDE DEF message, info, rawfee
  <2> DEFINE messages == <<message>>
             infos == <<info>>
  <2>5. /\ IsList(messages) /\ DOMAIN messages = 1..1 /\ messages[1] = message
        /\ IsList(infos) /\ DOMAIN infos = 1..1 /\ infos[1] = info /\ Len(infos) = 1
        /\ messages = [i \in DOMAIN messages |-> messages[i]]
        /\ infos = [i \in DOMAIN infos |-> infos[i]]
    BY DEF IsList
  <2>6. /\ body.messages = messages /\ body.extension_options = <<>>
        /\ "messages" \in DOMAIN body /\ "extension_options" \in DOMAIN body
        /\ body = [x \in DOMAIN body |-> body[x]]
    OBVIOUS
  <2>7. /\ auth = [signer_infos |-> infos, fee |-> rawfee, tip |-> None]
        /\ auth.signer_infos = infos /\ auth.fee = rawfee /\ auth.tip = None
    OBVIOUS
  <2> HIDE DEF messages, infos, body, auth
  <2>8. ~ Failed(messages) /\ ~ Failed(infos)
    BY <2>5, RecordsDiffer
  <2>9. IsBody(body)
    <3>1. \A i \in DOMAIN body.messages : IsMessage(body.messages[i])
      BY <2>2, <2>5, <2>6
    <3>2. QED BY <2>5, <2>6, <2>8, <3>1 DEF IsBody
  <2>10. IsAuth(auth)
    <3>1. \A i \in DOMAIN auth.signer_infos : IsInfo(auth.signer_infos[i])
      BY <2>3, <2>5, <2>7
    <3>2. QED BY <1>4, <2>4, <2>5, <2>7, <2>8, <3>1 DEF IsAuth
  <2>11. unsigned.body = RawTxBody(body) /\ unsigned.auth_info = RawAuthInfo(auth)
    OBVIOUS
  <2> HIDE DEF unsigned
  <2>12. raw = [body |-> RawTxBody(body), auth_info |-> RawAuthInfo(auth),
                signatures |-> <<sig>>]
    BY <1>1, <2>1, <2>11
  <2>13. /\ raw.body = RawTxBody(body) /\ raw.auth_info = RawAuthInfo(auth)
         /\ raw.signatures = <<sig>>
    BY <2>12
  <2> HIDE DEF raw
  <2>14. TxBodyFrom(raw.body) = body /\ raw.body # None
    BY <2>9, <2>13, BodySurvives
  <2>15. AuthInfoFrom(raw.auth_info) = auth /\ raw.auth_info # None /\ ~ Failed(auth)
    BY <2>10, <2>13, AuthSurvives
  <2>16. raw.body.extension_options = <<>>
    BY <2>6, <2>13 DEF RawTxBody
  <2>17. /\ Len(raw.signatures) = 1 /\ DOMAIN raw.signatures = 1..1
         /\ raw.signatures[1] = sig
    BY <2>13
  <2> DEFINE data == [i \in DOMAIN raw.signatures |->
                        [signature |-> raw.signatures[i],
                         sequence |-> auth.signer_infos[i].sequence]]
             tx == [body |-> body, auth_info |-> auth, signatures |-> raw.signatures,
                    signatures_data |-> data]
             decoded == TxWithRaw(NoEarlier, raw)
  <2>18. TxFrom(raw) = tx
    BY <2>5, <2>6, <2>7, <2>8, <2>14, <2>15, <2>16, <2>17 DEF TxFrom, TxOf
  <2>19. tx = [x \in DOMAIN tx |-> tx[x]]
    OBVIOUS
  <2>20. /\ tx.body = body /\ tx.auth_info = auth /\ tx.signatures_data = data
    OBVIOUS
  <2>21. data = <<[sequence |-> sequence, signature |-> sig]>>
    <3>1. data = [i \in 1..1 |-> [signature |-> sig, sequence |-> sequence]]
      BY <2>5, <2>7, <2>17 DEF info
    <3> HIDE DEF data
    <3>2. QED BY <3>1
  <2> HIDE DEF tx, data
  <2>22. ~ Failed(tx)
    BY <2>19, RecordsDiffer
  <2>23. decoded = [tx |-> tx, raw |-> raw]
    <3>1. MergedTx(NoEarlier, raw) = raw
      BY <2>12, <2>13 DEF MergedTx, MergedFields, NoEarlier
    <3>2. QED BY <2>18, <2>22, <3>1 DEF TxWithRaw
  <2> HIDE DEF decoded
  <2>24. decoded.tx = tx /\ decoded.raw = raw /\ decoded = [x \in DOMAIN decoded |-> decoded[x]]
    BY <2>23
  <2>25. ~ Failed(decoded)
    BY <2>24, RecordsDiffer
  <2>26. sig = [key |-> key, over |-> SignBytes(decoded.raw, number)]
    BY <2>11, <2>13, <2>24 DEF SignBytes
  <2>27. decoded.tx.body.messages =
           <<[from_address |-> from, to_address |-> to, amount |-> <<coin>>]>>
    BY <2>1, <2>6, <2>20, <2>24 DEF messages, message
  <2>28. decoded.tx.auth_info.fee.amount = (IF fee = None THEN None ELSE <<fee>>)
    BY <2>1, <2>7, <2>20, <2>24 DEF rawfee
  <2>29. decoded.tx.auth_info.signer_infos[1].public_key = key
    BY <2>5, <2>7, <2>20, <2>24 DEF info
  <2>30. decoded.tx.signatures_data =
           <<[sequence |-> sequence,
              signature |-> [key |-> key, over |-> SignBytes(decoded.raw, number)]]>>
    BY <2>20, <2>21, <2>24, <2>26
  <2> HIDE DEF sig, from
  <2>31. QED
    BY <1>6, <2>25, <2>27, <2>28, <2>29, <2>30 DEF DecodedAsSigned, zero, raw, decoded, from
<1>7. QED BY <1>5, <1>6

-----------------------------------------------------------------------------
(* Parameters.                                                             *)

IsStore(store) == store = [k \in DOMAIN store |-> store[k]]

LEMMA PutReads ==
  ASSUME NEW db, NEW k, NEW v
  PROVE  /\ Lookup(Put(db, k, v), k) = v
         /\ \A l : l # k => Lookup(Put(db, k, v), l) = Lookup(db, l)
BY DEF Put, Lookup

\* The equation Written chooses a solution of.
WrittenEquation(store, space, texts, S, g) ==
  g = [T \in SUBSET S |->
         IF T = {} THEN store
         ELSE PrefixStoreSet(g[T \ {Picked(T)}], space, KeyOf(Picked(T)), texts[Picked(T)])]

LEMMA WrittenIsChosen ==
  ASSUME NEW store, NEW space, NEW texts
  PROVE  LET S == DOMAIN texts
         IN  Written(store, space, texts)
               = (CHOOSE g : WrittenEquation(store, space, texts, S, g))[S]
BY Zenon DEF Written, FoldSet, MapThenFoldSet, WrittenEquation, Picked

LEMMA WrittenExists ==
  ASSUME NEW store, IsStore(store), NEW space, NEW texts, NEW S, IsFiniteSet(S)
  PROVE  \E g : WrittenEquation(store, space, texts, S, g)
<1> DEFINE K == DOMAIN store \cup {space \o KeyOf(p) : p \in S}
           U == {store[k] : k \in DOMAIN store} \cup {texts[p] : p \in S}
           V == UNION {[L -> U] : L \in SUBSET K}
           pick == [T \in SUBSET S |-> Picked(T)]
           step == [x \in S |-> [v \in V |-> PrefixStoreSet(v, space, KeyOf(x), texts[x])]]
<1>1. store \in V
  <2>1. store \in [DOMAIN store -> U] /\ DOMAIN store \in SUBSET K
    BY DEF IsStore
  <2> HIDE DEF U, K
  <2>2. QED BY <2>1
<1>2. \A T \in SUBSET S : pick[T] = Picked(T) /\ (T # {} => pick[T] \in T)
  BY DEF Picked
<1>3. ASSUME NEW x \in S, NEW v \in V
      PROVE  PrefixStoreSet(v, space, KeyOf(x), texts[x]) \in V
  <2> DEFINE k == space \o KeyOf(x)
             after == Put(v, k, texts[x])
  <2>1. PICK L \in SUBSET K : v \in [L -> U]
    OBVIOUS
  <2>2. k \in K /\ texts[x] \in U
    OBVIOUS
  <2> HIDE DEF K, U, k
  <2>3. after = [l \in {k} \cup L |-> IF l = k THEN texts[x] ELSE v[l]]
    BY <2>1 DEF Put
  <2> HIDE DEF after
  <2>4. after \in [{k} \cup L -> U] /\ {k} \cup L \in SUBSET K
    BY <2>1, <2>2, <2>3
  <2>5. after \in V
    BY <2>4
  <2>6. QED BY <2>5 DEF PrefixStoreSet, after, k
<1> HIDE DEF V
<1>4. \A x \in S, v \in V : /\ step[x][v] = PrefixStoreSet(v, space, KeyOf(x), texts[x])
                            /\ step[x][v] \in V
  BY <1>3
<1> HIDE DEF pick, step
<1>5. PICK g \in [SUBSET S -> V] : Recursion(g, S, store, pick, step)
  BY <1>1, <1>2, <1>4, RecursionExists
<1>6. ASSUME NEW T \in SUBSET S
      PROVE  g[T] = IF T = {} THEN store
                    ELSE PrefixStoreSet(g[T \ {Picked(T)}], space, KeyOf(Picked(T)), texts[Picked(T)])
  <2>1. g[T] = IF T = {} THEN store ELSE step[Picked(T)][g[T \ {Picked(T)}]]
    BY <1>2, <1>5 DEF Recursion
  <2>2. T # {} => Picked(T) \in S /\ g[T \ {Picked(T)}] \in V
    BY <1>2
  <2>3. QED BY <1>4, <2>1, <2>2
<1>7. g = [T \in SUBSET S |-> g[T]]
  OBVIOUS
<1>8. WrittenEquation(store, space, texts, S, g)
  BY <1>6, <1>7, Zenon DEF WrittenEquation
<1>9. QED BY <1>8

\* A write of texts to a subspace: each is read back, and nothing else changes.
LEMMA WrittenReads ==
  ASSUME NEW store, IsStore(store), NEW space, NEW texts, IsFiniteSet(DOMAIN texts),
         \A p, q \in DOMAIN texts : space \o KeyOf(p) = space \o KeyOf(q) => p = q
  PROVE  LET after == Written(store, space, texts)
         IN  /\ \A p \in DOMAIN texts : Lookup(after, space \o KeyOf(p)) = texts[p]
             /\ \A k : (\A p \in DOMAIN texts : k # space \o KeyOf(p))
                         => Lookup(after, k) = Lookup(store, k)
<1> DEFINE S == DOMAIN texts
           g == CHOOSE g : WrittenEquation(store, space, texts, S, g)
           At(p) == space \o KeyOf(p)
<1>1. WrittenEquation(store, space, texts, S, g)
  BY WrittenExists, Zenon
<1>2. Written(store, space, texts) = g[S]
  BY WrittenIsChosen
<1>3. \A T : T # {} => Picked(T) \in T
  BY DEF Picked
<1> HIDE DEF g, At, S
<1>4. ASSUME NEW T \in SUBSET S
      PROVE  g[T] = IF T = {} THEN store ELSE Put(g[T \ {Picked(T)}], At(Picked(T)), texts[Picked(T)])
  BY <1>1 DEF WrittenEquation, PrefixStoreSet, At
<1> DEFINE Reads(T) ==
             /\ \A p \in T : Lookup(g[T], At(p)) = texts[p]
             /\ \A k : (\A p \in T : k # At(p)) => Lookup(g[T], k) = Lookup(store, k)
           Q == {T \in SUBSET S : Reads(T)}
<1>5. ASSUME NEW T \in SUBSET S, \A x \in T : T \ {x} \in Q
      PROVE  T \in Q
  <2>1. CASE T = {}
    BY <1>4, <2>1
  <2>2. CASE T # {}
    <3> DEFINE x == Picked(T)
               R == T \ {x}
    <3>1. x \in T /\ Reads(R)
      BY <1>3, <1>5, <2>2
    <3>2. g[T] = Put(g[R], At(x), texts[x])
      BY <1>4, <2>2
    <3> HIDE DEF x
    <3>3. \A p \in R : At(p) # At(x)
      BY <3>1 DEF At, S
    <3>4. /\ Lookup(g[T], At(x)) = texts[x]
          /\ \A l : l # At(x) => Lookup(g[T], l) = Lookup(g[R], l)
      <4> DEFINE before == g[R]
                 k == At(x)
                 v == texts[x]
                 after == g[T]
      <4>1. after = Put(before, k, v)
        BY <3>2
      <4> HIDE DEF before, k, v, after
      <4>2. Lookup(after, k) = v /\ \A l : l # k => Lookup(after, l) = Lookup(before, l)
        BY <4>1, PutReads
      <4>3. QED BY <4>2 DEF before, k, v, after
    <3>5. \A p \in T : Lookup(g[T], At(p)) = texts[p]
      BY <3>1, <3>3, <3>4
    <3>6. \A k : (\A p \in T : k # At(p)) => Lookup(g[T], k) = Lookup(store, k)
      BY <3>1, <3>4
    <3>7. QED BY <3>5, <3>6
  <2>3. QED BY <2>1, <2>2
<1> HIDE DEF Q
<1>6. SUBSET S \subseteq Q
  BY <1>5, SubsetsInduction DEF S
<1>7. Reads(S)
  BY <1>6 DEF Q
<1>8. QED BY <1>2, <1>7 DEF At, S

LEMMA KeysApart ==
  ASSUME NEW s \in Bytes, NEW k \in Bytes, NEW l \in Bytes, s \o k = s \o l
  PROVE  k = l
<1>1. /\ Len(s) \in Nat /\ Len(k) \in Nat /\ Len(l) \in Nat
      /\ Len(s \o k) = Len(s) + Len(k) /\ Len(s \o l) = Len(s) + Len(l)
  BY ConcatBytes, BytesAre
<1>2. Len(k) = Len(l)
  BY <1>1
<1>3. \A i \in 1 .. Len(k) : k[i] = l[i]
  <2>1. /\ \A i \in 1 .. Len(k) : (s \o k)[Len(s) + i] = k[i]
        /\ \A i \in 1 .. Len(l) : (s \o l)[Len(s) + i] = l[i]
    BY ConcatBytes
  <2> DEFINE j == s \o k
  <2> HIDE DEF j
  <2>2. /\ \A i \in 1 .. Len(k) : j[Len(s) + i] = k[i]
        /\ \A i \in 1 .. Len(l) : j[Len(s) + i] = l[i]
    BY <2>1 DEF j
  <2>3. QED BY <1>2, <2>2
<1>4. QED BY <1>2, <1>3, SeqEqual DEF Bytes

LEMMA SpacesApart ==
  ASSUME NEW s \in Bytes, NEW t \in Bytes, NEW k \in Bytes, NEW l \in Bytes,
         s \o k = t \o l
  PROVE  IsPrefix(s, t) \/ IsPrefix(t, s)
<1> DEFINE j == s \o k
<1>1. /\ Len(s) \in Nat /\ Len(t) \in Nat
      /\ \A i \in 1 .. Len(s) : j[i] = s[i]
      /\ \A i \in 1 .. Len(t) : j[i] = t[i]
  <2>1. /\ \A i \in 1 .. Len(s) : (s \o k)[i] = s[i]
        /\ \A i \in 1 .. Len(t) : (t \o l)[i] = t[i]
    BY ConcatBytes
  <2>2. j = t \o l
    OBVIOUS
  <2>3. Len(s) \in Nat /\ Len(t) \in Nat
    BY BytesAre
  <2>4. \A i \in 1 .. Len(t) : j[i] = t[i]
    BY <2>1, <2>2
  <2>5. QED BY <2>1, <2>3, <2>4
<1> HIDE DEF j
<1>2. CASE Len(s) <= Len(t)
  <2>1. Agree(s, t, Len(s))
    BY <1>1, <1>2 DEF Agree
  <2>2. QED BY <1>2, <2>1, PrefixByBytes
<1>3. CASE ~ (Len(s) <= Len(t))
  <2>1. Len(t) <= Len(s) /\ Agree(t, s, Len(t))
    BY <1>1, <1>3 DEF Agree
  <2>2. QED BY <2>1, PrefixByBytes
<1>4. QED BY <1>2, <1>3

Spaces == {AuthSpace, BankSpace, BaseAppSpace}
Names == AuthParams \cup BankParams \cup ConsensusParams

LEMMA FewAreFinite ==
  ASSUME NEW a, NEW b, NEW c, NEW d, NEW e
  PROVE  IsFiniteSet({a, b}) /\ IsFiniteSet({a, b, c}) /\ IsFiniteSet({a, b, c, d, e})
<1>1. IsFiniteSet({a} \cup {b})
  BY FS_Singleton, FS_AddElement
<1>2. IsFiniteSet({a, b})
  <2>1. {a, b} = {a} \cup {b}
    OBVIOUS
  <2>2. QED BY <1>1, <2>1
<1>3. IsFiniteSet({a, b, c})
  <2>1. {a, b, c} = {a, b} \cup {c}
    OBVIOUS
  <2>2. QED BY <1>2, <2>1, FS_AddElement
<1>4. IsFiniteSet({a, b, c, d})
  <2>1. {a, b, c, d} = {a, b, c} \cup {d}
    OBVIOUS
  <2>2. QED BY <1>3, <2>1, FS_AddElement
<1>5. IsFiniteSet({a, b, c, d, e})
  <2>1. {a, b, c, d, e} = {a, b, c, d} \cup {e}
    OBVIOUS
  <2>2. QED BY <1>4, <2>1, FS_AddElement
<1>6. QED BY <1>2, <1>3, <1>5

\* A write to a subspace: its texts are read back, and the others' are as before.
LEMMA SubspaceReads ==
  ASSUME NEW store, IsStore(store), NEW space \in Spaces,
         NEW params \in {AuthParams, BankParams, ConsensusParams},
         NEW texts, DOMAIN texts \subseteq params
  PROVE  LET after == Written(store, space, texts)
         IN  /\ \A p \in DOMAIN texts : Read(after, space, p) = texts[p]
             /\ \A other \in Spaces \ {space}, p \in Names :
                  Read(after, other, p) = Read(store, other, p)
<1>1. \A s \in Spaces : s \in Bytes
  BY SubspaceAssumption DEF Spaces, Bytes
<1>2. \A p \in Names : KeyOf(p) \in Bytes
  BY KeyAssumption DEF Names, Bytes
<1>3. params \subseteq Names
  BY DEF Names
<1>4. IsFiniteSet(DOMAIN texts)
  <2>1. /\ IsFiniteSet(AuthParams)
        /\ IsFiniteSet(BankParams) /\ IsFiniteSet(ConsensusParams)
    BY FewAreFinite DEF AuthParams, BankParams, ConsensusParams
  <2>2. QED BY <2>1, FS_Subset
<1> DEFINE after == Written(store, space, texts)
<1>5. \A p, q \in DOMAIN texts : space \o KeyOf(p) = space \o KeyOf(q) => p = q
  <2> SUFFICES ASSUME NEW p \in DOMAIN texts, NEW q \in DOMAIN texts,
                      space \o KeyOf(p) = space \o KeyOf(q)
               PROVE  p = q
    OBVIOUS
  <2>1. KeyOf(p) = KeyOf(q)
    BY <1>1, <1>2, <1>3, KeysApart
  <2>2. QED BY <2>1, KeyAssumption
<1>6. /\ \A p \in DOMAIN texts : Lookup(after, space \o KeyOf(p)) = texts[p]
      /\ \A k : (\A p \in DOMAIN texts : k # space \o KeyOf(p))
                  => Lookup(after, k) = Lookup(store, k)
  BY <1>4, <1>5, WrittenReads
<1> HIDE DEF after
<1>7. ASSUME NEW other \in Spaces \ {space}, NEW p \in Names
      PROVE  Lookup(after, other \o KeyOf(p)) = Lookup(store, other \o KeyOf(p))
  <2>1. ASSUME NEW q \in DOMAIN texts, other \o KeyOf(p) = space \o KeyOf(q) PROVE FALSE
    <3>1. IsPrefix(other, space) \/ IsPrefix(space, other)
      BY <1>1, <1>2, <1>3, <2>1, SpacesApart
    <3>2. other = space
      BY <3>1, SubspaceAssumption DEF Spaces
    <3>3. QED BY <3>2
  <2> DEFINE k == other \o KeyOf(p)
  <2>2. \A q \in DOMAIN texts : k # space \o KeyOf(q)
    BY <2>1
  <2> HIDE DEF k
  <2>3. Lookup(after, k) = Lookup(store, k)
    BY <1>6, <2>2
  <2>4. QED BY <2>3 DEF k
<1>8. QED BY <1>6, <1>7 DEF Read, PrefixStoreGet, after

LEMMA AuthParamsReads ==
  ASSUME NEW store, NEW before,
         \A p \in AuthParams : Read(store, AuthSpace, p) = Read(before, AuthSpace, p)
  PROVE  GetAuthParams(store) = GetAuthParams(before)
<1> DEFINE new == [p \in AuthParams |-> ParseParam(Read(store, AuthSpace, p))]
           old == [p \in AuthParams |-> ParseParam(Read(before, AuthSpace, p))]
<1>1. new = old
  OBVIOUS
<1>2. /\ GetAuthParams(store) = IF \E p \in AuthParams : new[p] = Panic THEN Panic ELSE new
      /\ GetAuthParams(before) = IF \E p \in AuthParams : old[p] = Panic THEN Panic ELSE old
  BY DEF GetAuthParams
<1> HIDE DEF new, old
<1>3. QED BY <1>1, <1>2

LEMMA QuotedIsParsed ==
  ASSUME NEW n \in Uint
  PROVE  ParseParam(Quoted(n)) = n
<1> DEFINE text == Quoted(n)
<1>1. text = [quoted |-> TRUE, digits |-> Numeral(n)]
  BY DEF Quoted
<1>2. text # NoValue /\ text.quoted /\ text.digits = Numeral(n)
  BY <1>1, TextAssumption
<1>3. ParsedUint(Numeral(n)) = n /\ n # Malformed
  <2>1. n \in Nat
    BY MaxUintAssumption DEF Uint
  <2>2. QED BY <2>1, NumeralIsReadBack, FailureAssumption
<1> HIDE DEF text
<1>4. QED BY <1>2, <1>3 DEF ParseParam, text

\* Whatever numbers and booleans the parameters are, and whatever the store
\* held, a module gets what it set, and no other module's set changes that.
THEOREM ParamsAlwaysStayApart ==
  ASSUME NEW store, IsStore(store), NEW auth \in [AuthParams -> Uint],
         NEW bank \in [default_send_enabled : BOOLEAN], NEW consensus
  PROVE  ParamsStayApart(store, auth, bank, consensus)
<1>1. /\ AuthSpace \in Spaces /\ BankSpace \in Spaces /\ BaseAppSpace \in Spaces
      /\ AuthSpace # BankSpace /\ AuthSpace # BaseAppSpace /\ BankSpace # BaseAppSpace
      /\ AuthParams \subseteq Names /\ "default_send_enabled" \in Names
  BY SubspaceAssumption DEF Spaces, Names, BankParams
<1>2. ASSUME NEW other,
             Read(other, BankSpace, "default_send_enabled")
               = Read(store, BankSpace, "default_send_enabled")
      PROVE  GetBankParams(other) = GetBankParams(store)
  BY <1>2 DEF GetBankParams
<1>3. LET after == SetAuthParams(store, auth)
      IN  GetAuthParams(after) = auth /\ GetBankParams(after) = GetBankParams(store)
  <2> DEFINE texts == [p \in AuthParams |-> Quoted(auth[p])]
             after == SetAuthParams(store, auth)
  <2>1. after = Written(store, AuthSpace, texts)
    BY DEF SetAuthParams
  <2>2. DOMAIN texts = AuthParams /\ \A p \in AuthParams : texts[p] = Quoted(auth[p])
    OBVIOUS
  <2> HIDE DEF after, texts
  <2>3. /\ \A p \in AuthParams : Read(after, AuthSpace, p) = Quoted(auth[p])
        /\ Read(after, BankSpace, "default_send_enabled")
             = Read(store, BankSpace, "default_send_enabled")
    BY <1>1, <2>1, <2>2, SubspaceReads
  <2>4. \A p \in AuthParams : ParseParam(Read(after, AuthSpace, p)) = auth[p] /\ auth[p] # Panic
    <3>1. \A p \in AuthParams : auth[p] \in Uint
      OBVIOUS
    <3>2. \A n \in Uint : n # Panic
      BY MaxUintAssumption, FailureAssumption DEF Uint
    <3>3. QED BY <2>3, <3>1, <3>2, QuotedIsParsed
  <2> DEFINE params == [p \in AuthParams |-> ParseParam(Read(after, AuthSpace, p))]
  <2>5. params = auth
    BY <2>4
  <2>6. GetAuthParams(after) = IF \E p \in AuthParams : params[p] = Panic THEN Panic ELSE params
    BY DEF GetAuthParams
  <2> HIDE DEF params
  <2>7. GetAuthParams(after) = auth
    BY <2>4, <2>5, <2>6
  <2>8. QED BY <1>2, <2>3, <2>7 DEF after
<1>4. LET after == SetBankParams(store, bank)
      IN  GetBankParams(after) = bank /\ GetAuthParams(after) = GetAuthParams(store)
  <2> DEFINE text == IF bank.default_send_enabled THEN "true" ELSE "false"
             texts == [default_send_enabled |-> text, send_enabled |-> "[]"]
             after == SetBankParams(store, bank)
  <2>1. after = Written(store, BankSpace, texts)
    BY DEF SetBankParams
  <2>2. DOMAIN texts = BankParams /\ texts["default_send_enabled"] = text
        /\ "default_send_enabled" \in DOMAIN texts
    BY DEF BankParams
  <2> HIDE DEF after, texts
  <2>3. /\ Read(after, BankSpace, "default_send_enabled") = text
        /\ \A p \in AuthParams : Read(after, AuthSpace, p) = Read(store, AuthSpace, p)
    BY <1>1, <2>1, <2>2, SubspaceReads
  <2>4. text # NoValue
    BY TextAssumption
  <2>5. GetBankParams(after) = [default_send_enabled |-> text = "true"]
    BY <2>3, <2>4 DEF GetBankParams
  <2>6. [default_send_enabled |-> text = "true"] = bank
    <3>1. PICK b \in BOOLEAN : bank = [default_send_enabled |-> b]
      OBVIOUS
    <3>2. (text = "true") = b
      BY <3>1
    <3>3. QED BY <3>1, <3>2
  <2>7. GetAuthParams(after) = GetAuthParams(store)
    BY <2>3, AuthParamsReads
  <2>8. QED BY <2>5, <2>6, <2>7 DEF after
<1>5. LET after == SetConsensusParams(store, consensus)
      IN  \/ after = Panic
          \/ /\ GetAuthParams(after) = GetAuthParams(store)
             /\ GetBankParams(after) = GetBankParams(store)
  <2> DEFINE all == [BlockParams |-> IF consensus.block = None THEN None
                                     ELSE BlockParams(consensus.block),
                     EvidenceParams |-> IF consensus.evidence = None THEN None
                                        ELSE EvidenceParams(consensus.evidence),
                     ValidatorParams |-> IF consensus.validator = None THEN None
                                         ELSE ValidatorParams(consensus.validator)]
             own == {p \in DOMAIN all : all[p] # None}
             texts == Restrict(all, own)
             after == SetConsensusParams(store, consensus)
  <2>1. after = Panic \/ after = Written(store, BaseAppSpace, texts)
    BY DEF SetConsensusParams
  <2>2. DOMAIN texts \subseteq ConsensusParams
    BY DEF ConsensusParams, Restrict
  <2> HIDE DEF after, texts, own, all
  <2>3. CASE after = Written(store, BaseAppSpace, texts)
    <3>1. /\ Read(after, BankSpace, "default_send_enabled")
               = Read(store, BankSpace, "default_send_enabled")
          /\ \A p \in AuthParams : Read(after, AuthSpace, p) = Read(store, AuthSpace, p)
      BY <1>1, <2>2, <2>3, SubspaceReads
    <3>2. QED BY <1>2, <3>1, AuthParamsReads DEF after
  <2>4. QED BY <2>1, <2>3 DEF after
<1>6. QED BY <1>3, <1>4, <1>5 DEF ParamsStayApart

-----------------------------------------------------------------------------
(* The inputs.                                                             *)

LEMMA SeqIn ==
  ASSUME NEW s, IsSeq(s), NEW R, Range(s) \subseteq R
  PROVE  s \in Seq(R)
<1> DEFINE T == Range(s)
<1>1. s \in Seq(T)
  BY DEF IsSeq
<1> HIDE DEF T
<1>2. Len(s) \in Nat /\ DOMAIN s = 1..Len(s) /\ s = [i \in 1..Len(s) |-> s[i]]
      /\ \A i \in 1..Len(s) : s[i] \in T
  BY <1>1
<1>3. \A i \in 1..Len(s) : s[i] \in R
  BY <1>2 DEF T
<1>4. s \in [1..Len(s) -> R]
  BY <1>2, <1>3
<1>5. QED BY <1>2, <1>4

\* A protobuf message's lists are lists of one set of values.
LEMMA RawTxIs ==
  ASSUME NEW raw, IsRawTransaction(raw)
  PROVE  \E R : /\ IsRawTx(raw, R)
                /\ raw.auth_info # None => IsRawAuth(raw.auth_info, R)
<1> DEFINE body == raw.body
           auth == raw.auth_info
           amounts == {Range(body.messages[i].value.amount) : i \in DOMAIN body.messages}
           ofSignatures == Range(raw.signatures)
           ofMessages == Range(body.messages)
           ofAmounts == UNION amounts
           ofSigners == Range(auth.signer_infos)
           ofFee == Range(auth.fee.amount)
           ofTip == Range(auth.tip.amount)
           R == ofSignatures \cup ofMessages \cup ofAmounts \cup ofSigners \cup ofFee \cup ofTip
<1>1. /\ Range(raw.signatures) \subseteq R /\ Range(body.messages) \subseteq R
      /\ UNION amounts \subseteq R /\ Range(auth.signer_infos) \subseteq R
      /\ Range(auth.fee.amount) \subseteq R /\ Range(auth.tip.amount) \subseteq R
  <2> HIDE DEF ofSignatures, ofMessages, ofAmounts, ofSigners, ofFee, ofTip
  <2>1. /\ ofSignatures \subseteq R /\ ofMessages \subseteq R /\ ofAmounts \subseteq R
        /\ ofSigners \subseteq R /\ ofFee \subseteq R /\ ofTip \subseteq R
    OBVIOUS
  <2> HIDE DEF R
  <2>2. QED BY <2>1 DEF ofSignatures, ofMessages, ofAmounts, ofSigners, ofFee, ofTip
<1>2. \A i \in DOMAIN body.messages : Range(body.messages[i].value.amount) \subseteq UNION amounts
  OBVIOUS
<1> HIDE DEF R, amounts
<1>3. raw.signatures \in Seq(R)
  BY <1>1, SeqIn DEF IsRawTransaction
<1>4. raw.body # None =>
        /\ "messages" \in DOMAIN raw.body /\ raw.body.messages \in Seq(R)
        /\ \A i \in DOMAIN raw.body.messages :
             raw.body.messages[i].type_url = "MsgSend" /\ raw.body.messages[i].value # Malformed
               => raw.body.messages[i].value.amount \in Seq(R)
  <2> SUFFICES ASSUME raw.body # None
               PROVE  /\ "messages" \in DOMAIN body /\ body.messages \in Seq(R)
                      /\ \A i \in DOMAIN body.messages :
                           body.messages[i].type_url = "MsgSend" /\ body.messages[i].value # Malformed
                             => body.messages[i].value.amount \in Seq(R)
    OBVIOUS
  <2>1. IsRawBody(body)
    BY DEF IsRawTransaction
  <2> HIDE DEF body
  <2>2. body.messages \in Seq(R)
    BY <1>1, <2>1, SeqIn DEF IsRawBody
  <2>3. ASSUME NEW i \in DOMAIN body.messages, body.messages[i].type_url = "MsgSend",
               body.messages[i].value # Malformed
        PROVE  body.messages[i].value.amount \in Seq(R)
    <3> DEFINE amount == body.messages[i].value.amount
    <3>1. IsSeq(amount)
      BY <2>1, <2>3 DEF IsRawBody
    <3>2. Range(amount) \subseteq R
      BY <1>1, <1>2
    <3> HIDE DEF amount
    <3>3. amount \in Seq(R)
      BY <3>1, <3>2, SeqIn
    <3>4. QED BY <3>3 DEF amount
  <2>4. QED BY <2>1, <2>2, <2>3 DEF IsRawBody
<1>5. raw.auth_info # None => IsRawAuth(raw.auth_info, R)
  <2> SUFFICES ASSUME raw.auth_info # None PROVE IsRawAuth(auth, R)
    OBVIOUS
  <2>1. IsRawAuthInfo(auth)
    BY DEF IsRawTransaction
  <2> HIDE DEF auth
  <2>2. auth.signer_infos \in Seq(R)
    BY <1>1, <2>1, SeqIn DEF IsRawAuthInfo
  <2>3. auth.fee # None => auth.fee.amount \in Seq(R)
    <3> DEFINE amount == auth.fee.amount
    <3>1. auth.fee # None => IsSeq(amount)
      BY <2>1 DEF IsRawAuthInfo, IsRawFee
    <3>2. Range(amount) \subseteq R
      BY <1>1
    <3> HIDE DEF amount
    <3>3. auth.fee # None => amount \in Seq(R)
      BY <3>1, <3>2, SeqIn
    <3>4. QED BY <3>3 DEF amount
  <2>4. auth.tip # None => auth.tip.amount \in Seq(R)
    <3> DEFINE amount == auth.tip.amount
    <3>1. auth.tip # None => IsSeq(amount)
      BY <2>1 DEF IsRawAuthInfo
    <3>2. Range(amount) \subseteq R
      BY <1>1
    <3> HIDE DEF amount
    <3>3. auth.tip # None => amount \in Seq(R)
      BY <3>1, <3>2, SeqIn
    <3>4. QED BY <3>3 DEF amount
  <2>5. QED BY <2>1, <2>2, <2>3, <2>4 DEF IsRawAuth, IsRawAuthInfo, IsRawFee
<1>6. IsRawTx(raw, R)
  <2>1. raw.auth_info # None /\ raw.auth_info.fee # None =>
          /\ {"amount", "payer"} \subseteq DOMAIN raw.auth_info.fee
          /\ raw.auth_info.fee.amount \in Seq(R)
    BY <1>5 DEF IsRawAuth
  <2>2. QED BY <1>3, <1>4, <2>1 DEF IsRawTx
<1>7. QED BY <1>5, <1>6

\* A list of results of which one fails is the failure of one.
LEMMA CollectedFails ==
  ASSUME NEW n \in Nat, NEW results, DOMAIN results = 1..n,
         NEW k \in 1..n, Failed(results[k])
  PROVE  \E i \in 1..n : Failed(results[i]) /\ Collected(results) = results[i]
<1> DEFINE failures == {i \in DOMAIN results : Failed(results[i])}
<1>1. failures # {}
  OBVIOUS
<1>2. PICK l \in failures : \A i \in failures : l <= i
  <2>1. failures \subseteq Nat
    OBVIOUS
  <2> HIDE DEF failures
  <2>2. QED BY <1>1, <2>1, LeastExists
<1>3. Min(failures) \in failures
  <2>1. \A i \in failures : i \in Nat
    OBVIOUS
  <2> HIDE DEF failures
  <2>2. QED BY <1>2, <2>1 DEF Min
<1>4. Collected(results) = results[Min(failures)]
  BY <1>1 DEF Collected
<1>5. QED BY <1>3, <1>4

LEMMA MessagesPanic ==
  ASSUME ValuesDiffer, NEW raw, IsRawTransaction(raw)
  PROVE  OnlyMessagesPanic(raw)
<1> SUFFICES ASSUME TxFrom(raw) = Panic
             PROVE  \E i \in DOMAIN raw.body.messages :
                       /\ raw.body.messages[i].type_url = "MsgSend"
                       /\ MessageFrom(raw.body.messages[i]) = Panic
  BY DEF OnlyMessagesPanic
<1> DEFINE auth == IF raw.auth_info = None THEN Malformed ELSE AuthInfoFrom(raw.auth_info)
           messages == raw.body.messages
           results == Each(MessageFrom, messages)
           all == Collected(results)
           body == TxBodyFrom(raw.body)
           tx == [body |-> body, auth_info |-> auth, signatures |-> raw.signatures,
                  signatures_data |->
                    [i \in DOMAIN raw.signatures |->
                       [signature |-> raw.signatures[i],
                        sequence |-> auth.signer_infos[i].sequence]]]
<1>1. TxFrom(raw) = IF \/ raw.body = None \/ raw.body.extension_options # <<>>
                       \/ Failed(auth) \/ Len(raw.signatures) # Len(auth.signer_infos)
                    THEN Malformed
                    ELSE IF Failed(body.messages) THEN body.messages ELSE tx
  BY DEF TxFrom, TxOf
<1>2. tx = [x \in DOMAIN tx |-> tx[x]]
  OBVIOUS
<1>3. body = [raw.body EXCEPT !.messages = all]
  BY DEF TxBodyFrom
<1> HIDE DEF tx, body, all
<1>4. tx # Panic
  BY <1>2, RecordsDiffer DEF Failed
<1>5. raw.body # None /\ body.messages = Panic
  BY <1>1, <1>4 DEF ValuesDiffer
<1>6. "messages" \in DOMAIN raw.body /\ IsSeq(messages)
  BY <1>5 DEF IsRawTransaction, IsRawBody
<1>7. all = Panic
  BY <1>3, <1>5, <1>6
<1> DEFINE n == Len(messages)
<1>8. n \in Nat /\ DOMAIN messages = 1..n
  <2> DEFINE T == Range(messages)
  <2>1. messages \in Seq(T)
    BY <1>6 DEF IsSeq
  <2> HIDE DEF T, messages
  <2>2. QED BY <2>1
<1>9. /\ DOMAIN results = 1..n /\ results = [i \in DOMAIN results |-> results[i]]
      /\ \A i \in 1..n : results[i] = MessageFrom(messages[i])
  BY <1>8 DEF Each
<1> HIDE DEF results, n
<1>10. PICK k \in 1..n : Failed(results[k])
  <2> SUFFICES ASSUME \A k \in DOMAIN results : ~ Failed(results[k]) PROVE FALSE
    BY <1>9
  <2>1. all = results
    BY CollectedWhole DEF all
  <2>2. QED BY <1>7, <1>9, <2>1, RecordsDiffer DEF Failed
<1>11. PICK i \in 1..n : results[i] = Panic
  BY <1>7, <1>8, <1>9, <1>10, CollectedFails DEF all
<1>12. MessageFrom(messages[i]) = Panic
  BY <1>9, <1>11
<1>13. messages[i].type_url = "MsgSend"
  BY <1>12 DEF MessageFrom, BankMessageFrom, ValuesDiffer
<1>14. QED BY <1>8, <1>12, <1>13

LEMMA ListIs ==
  ASSUME ValuesDiffer, NEW n \in Nat, NEW found, DOMAIN found = 1..n, Len(found) = n
  PROVE  ListsTransactions(found)
<1> DEFINE results == [i \in DOMAIN found |-> TxFrom(found[i].tx)]
           txs == Collected(results)
           responses == [i \in DOMAIN found |-> [found[i] EXCEPT !.tx = txs[i]]]
           list == [total |-> Len(txs), txs |-> txs, tx_responses |-> responses]
<1>1. MapResponses(found) = IF Failed(txs) THEN txs ELSE list
  BY DEF MapResponses, ResponsesOf
<1>2. DOMAIN results = 1..n /\ \A i \in DOMAIN found : results[i] = TxFrom(found[i].tx)
  OBVIOUS
<1>3. Len(results) = n
  OBVIOUS
<1>4. list.total = Len(txs) /\ list.txs = txs
  OBVIOUS
<1> HIDE DEF list, responses
<1>5. ~ Failed(txs) => txs = results
  <2> HIDE DEF results
  <2>1. QED BY <1>2, CollectedSucceeds
<1> HIDE DEF txs, results
<1>6. CASE Failed(txs)
  BY <1>1, <1>6 DEF ListsTransactions
<1>7. CASE ~ Failed(txs)
  BY <1>1, <1>2, <1>3, <1>4, <1>5, <1>7 DEF ListsTransactions
<1>8. QED BY <1>6, <1>7

-----------------------------------------------------------------------------
(* Keys, gets and puts.                                                    *)

LEMMA OwnKeysAre ==
  ASSUME NEW db, DOMAIN db \subseteq Bytes, IsFiniteSet(DOMAIN db),
         NEW prefix \in Bytes, NEW k \in Bytes
  PROVE  k \in Range(Stripped(InOrder(KeysWith(db, prefix)), prefix))
           <=> prefix \o k \in DOMAIN db
<1> DEFINE K == KeysWith(db, prefix)
           n == Cardinality(K)
           keys == InOrder(K)
           own == Stripped(keys, prefix)
<1>1. K \subseteq Bytes /\ IsFiniteSet(K) /\ n \in Nat
  BY FS_Subset, FS_CardinalityType DEF KeysWith
<1>2. keys \in [1..n -> K] /\ \A l \in K : \E i \in 1..n : keys[i] = l
  <2> HIDE DEF K
  <2>1. QED BY <1>1, InOrderIs DEF IsInOrder, Lists
<1>3. DOMAIN own = 1..n /\ \A i \in 1..n : own[i] = Rest(keys[i], prefix)
  <2> HIDE DEF keys, n
  <2>1. DOMAIN keys = 1..n
    BY <1>2
  <2>2. QED BY <2>1 DEF Stripped, Rest
<1>4. \A l : l \in K <=> l \in DOMAIN db /\ IsPrefix(prefix, l)
  BY DEF KeysWith
<1> HIDE DEF K, n, keys, own
<1>5. ASSUME k \in Range(own) PROVE prefix \o k \in DOMAIN db
  <2>1. PICK i \in 1..n : k = Rest(keys[i], prefix)
    BY <1>3, <1>5 DEF Range
  <2>2. keys[i] \in Bytes /\ IsPrefix(prefix, keys[i]) /\ keys[i] \in DOMAIN db
    BY <1>1, <1>2, <1>4
  <2>3. prefix \o k = keys[i]
    BY <2>1, <2>2, RestBytes
  <2>4. QED BY <2>2, <2>3
<1>6. ASSUME prefix \o k \in DOMAIN db PROVE k \in Range(own)
  <2> DEFINE l == prefix \o k
  <2>1. l \in Bytes /\ IsPrefix(prefix, l)
    <3>1. /\ l \in Bytes /\ Len(l) = Len(prefix) + Len(k)
          /\ \A i \in 1 .. Len(prefix) : l[i] = prefix[i]
      BY ConcatBytes
    <3>2. Len(prefix) \in Nat /\ Len(k) \in Nat
      BY BytesAre
    <3> HIDE DEF l
    <3>3. QED BY <3>1, <3>2, PrefixByBytes DEF Agree
  <2>2. Rest(l, prefix) = k
    <3>1. Rest(l, prefix) \in Bytes /\ prefix \o Rest(l, prefix) = prefix \o k
      BY <2>1, RestBytes
    <3> HIDE DEF l
    <3>2. QED BY <3>1, KeysApart
  <2>3. PICK i \in 1..n : keys[i] = l
    BY <1>2, <1>4, <1>6, <2>1
  <2>4. own[i] = k
    BY <1>3, <2>2, <2>3
  <2>5. QED BY <1>3, <2>4 DEF Range
<1>7. QED BY <1>5, <1>6 DEF own, keys, K

LEMMA GetsAgree ==
  ASSUME NEW db, DOMAIN db \subseteq Bytes, IsFiniteSet(DOMAIN db),
         NEW prefix \in Bytes, NEW k \in Bytes
  PROVE  GetsAgreeWithRanges(db, prefix, k)
<1> DEFINE all == InOrder(KeysWith(db, prefix))
           own == Stripped(all, prefix)
<1>1. PrefixStoreGet(db, prefix, k) = IF k \in Range(own) THEN db[prefix \o k] ELSE NoValue
  BY OwnKeysAre DEF PrefixStoreGet, Lookup
<1>2. PrefixLookup(PrefixPut(db, prefix, k, "new"), prefix, k) = "new"
  BY PutReads DEF PrefixLookup, PrefixPut
<1>3. ASSUME NEW n \in 0 .. Len(prefix)
      PROVE  PrefixPrefixIterator(db, SubSeq(prefix, 1, n),
                                  SubSeq(prefix, n + 1, Len(prefix))) = own
  <2> DEFINE name == SubSeq(prefix, 1, n)
             rest == Rest(prefix, name)
  <2>1. Len(prefix) \in Nat /\ n \in Nat /\ n <= Len(prefix)
    BY BytesAre
  <2>2. name \in Bytes /\ Len(name) = n /\ Agree(name, prefix, n)
    BY <2>1, FirstBytes DEF Agree
  <2>3. IsPrefix(name, prefix)
    <3> HIDE DEF name
    <3>1. QED BY <2>1, <2>2, PrefixByBytes
  <2>4. name \o rest = prefix
    <3> HIDE DEF name
    <3>1. QED BY <2>2, <2>3, RestBytes
  <2>5. rest = SubSeq(prefix, n + 1, Len(prefix))
    BY <2>2 DEF Rest
  <2> HIDE DEF name, rest
  <2>6. PrefixPrefixIterator(db, name, rest) = own
    BY <2>4, RocksPrefixIteratorIsExact DEF PrefixPrefixIterator
  <2>7. QED BY <2>5, <2>6 DEF name
<1> HIDE DEF own
<1>4. QED BY <1>1, <1>2, <1>3 DEF GetsAgreeWithRanges, own

-----------------------------------------------------------------------------
(* The names of the stores.                                                *)

LEMMA NamesAreOrdered == Orders(NamesInOrder, StoreNames)
<1> DEFINE T == {Byte(b) : b \in 0 .. MaxByte}
<1>1. StoreNames \subseteq Seq(T)
  BY RootsAssumption
<1>2. \A x \in T : x[2] \in 0 .. MaxByte /\ x = Byte(x[2])
  BY DEF Byte
<1>3. ASSUME NEW m \in StoreNames
      PROVE  /\ BytesOf(m) \in Bytes
             /\ Len(m) \in Nat /\ DOMAIN m = 1..Len(m) /\ DOMAIN BytesOf(m) = 1..Len(m)
             /\ \A i \in 1..Len(m) : m[i] = Byte(BytesOf(m)[i])
  <2> DEFINE bytes == BytesOf(m)
             AByte == 0 .. MaxByte
  <2> HIDE DEF T, AByte
  <2>1. Len(m) \in Nat /\ DOMAIN m = 1..Len(m) /\ \A i \in 1..Len(m) : m[i] \in T
    BY <1>1
  <2>2. bytes = [i \in 1..Len(m) |-> m[i][2]]
    BY <2>1 DEF BytesOf
  <2>3. \A i \in 1..Len(m) : m[i][2] \in AByte /\ m[i] = Byte(m[i][2])
    BY <1>2, <2>1 DEF AByte
  <2> HIDE DEF bytes
  <2>4. bytes \in [1..Len(m) -> AByte]
    BY <2>2, <2>3
  <2>5. bytes \in Seq(AByte)
    BY <2>1, <2>4
  <2>6. QED BY <2>1, <2>2, <2>3, <2>5 DEF bytes, Bytes, AByte
<1>4. ASSUME NEW m \in StoreNames, NEW l \in StoreNames, BytesOf(m) = BytesOf(l)
      PROVE  m = l
  <2>1. Len(m) = Len(l)
    <3>1. 1..Len(m) = 1..Len(l) /\ Len(m) \in Nat /\ Len(l) \in Nat
      BY <1>3, <1>4
    <3>2. QED BY <3>1
  <2>2. \A i \in 1..Len(m) : m[i] = l[i]
    BY <1>3, <1>4, <2>1
  <2>3. m \in Seq(T) /\ l \in Seq(T)
    BY <1>1
  <2> HIDE DEF T
  <2>4. QED BY <2>1, <2>2, <2>3, SeqEqual
<1>5. \A x, y \in StoreNames : <<x, y>> \in NamesInOrder <=> Precedes(BytesOf(x), BytesOf(y))
  BY DEF NamesInOrder
<1>6. \A x, y \in StoreNames : x # y => <<x, y>> \in NamesInOrder \/ <<y, x>> \in NamesInOrder
  BY <1>3, <1>4, <1>5, PrecedesTotal
<1>7. \A x, y \in StoreNames : <<x, y>> \in NamesInOrder => <<y, x>> \notin NamesInOrder
  BY <1>3, <1>5, PrecedesNotBack
<1>8. \A x, y, z \in StoreNames :
        <<x, y>> \in NamesInOrder /\ <<y, z>> \in NamesInOrder => <<x, z>> \in NamesInOrder
  BY <1>3, <1>5, PrecedesTransitive
<1>9. QED BY <1>6, <1>7, <1>8 DEF Orders

LEMMA StoresAre ==
  ASSUME NEW hashes \in Stores
  PROVE  AreStores(StoreInfos(hashes), {Byte(b) : b \in 0 .. MaxByte}, StoreHashes, NamesInOrder)
<1> DEFINE T == {Byte(b) : b \in 0 .. MaxByte}
           infos == StoreInfos(hashes)
<1>1. PICK names \in SUBSET StoreNames : hashes \in [names -> StoreHashes]
  BY DEF Stores
<1>2. IsFiniteSet(names) /\ names \subseteq Seq(T)
  BY RootsAssumption, FS_Subset
<1>3. infos = {[name |-> m, hash |-> hashes[m]] : m \in names}
  BY <1>1 DEF StoreInfos
<1> HIDE DEF T, infos
<1>4. infos \subseteq [name : Seq(T), hash : StoreHashes]
  BY <1>1, <1>2, <1>3
<1>5. IsFiniteSet(infos)
  <2> DEFINE f == [m \in names |-> [name |-> m, hash |-> hashes[m]]]
  <2>1. f \in Surjection(names, infos)
    BY <1>3 DEF Surjection
  <2> HIDE DEF f
  <2>2. QED BY <1>2, <2>1, FS_Surjection
<1>6. \A a, b \in infos : a.name = b.name => a = b
  BY <1>3
<1>7. {info.name : info \in infos} \subseteq StoreNames
  BY <1>3
<1>8. Orders(NamesInOrder, {info.name : info \in infos})
  BY <1>7, NamesAreOrdered DEF Orders
<1>9. QED BY <1>4, <1>5, <1>6, <1>8 DEF AreStores, T, infos

-----------------------------------------------------------------------------
(* The params store, write by write.                                       *)

LEMMA WrittenIsStore ==
  ASSUME NEW store, IsStore(store), NEW space, NEW texts, IsFiniteSet(DOMAIN texts)
  PROVE  IsStore(Written(store, space, texts))
<1> DEFINE S == DOMAIN texts
           g == CHOOSE g : WrittenEquation(store, space, texts, S, g)
           x == Picked(S)
<1>1. WrittenEquation(store, space, texts, S, g)
  BY WrittenExists, Zenon
<1>2. Written(store, space, texts) = g[S]
  BY WrittenIsChosen
<1> HIDE DEF g, S
<1>3. g[S] = IF S = {} THEN store
             ELSE Put(g[S \ {x}], space \o KeyOf(x), texts[x])
  BY <1>1 DEF WrittenEquation, PrefixStoreSet
<1>4. ASSUME NEW db, NEW k, NEW v PROVE IsStore(Put(db, k, v))
  BY DEF Put, IsStore
<1> HIDE DEF x
<1>5. IsStore(g[S])
  <2> DEFINE before == g[S \ {x}]
             k == space \o KeyOf(x)
             v == texts[x]
  <2>1. IsStore(Put(before, k, v))
    BY <1>4
  <2>2. QED BY <1>3, <2>1
<1>6. QED BY <1>2, <1>5

LEMMA SetsAreStores ==
  ASSUME NEW store, IsStore(store), NEW auth, NEW bank
  PROVE  IsStore(SetAuthParams(store, auth)) /\ IsStore(SetBankParams(store, bank))
<1> DEFINE a == [p \in AuthParams |-> Quoted(auth[p])]
           b == [default_send_enabled |->
                   IF bank.default_send_enabled THEN "true" ELSE "false",
                 send_enabled |-> "[]"]
<1>1. SetAuthParams(store, auth) = Written(store, AuthSpace, a)
  BY DEF SetAuthParams
<1>2. SetBankParams(store, bank) = Written(store, BankSpace, b)
  BY DEF SetBankParams
<1>3. DOMAIN a = AuthParams /\ DOMAIN b = BankParams
  BY DEF BankParams
<1>4. IsFiniteSet(AuthParams) /\ IsFiniteSet(BankParams)
  BY FewAreFinite DEF AuthParams, BankParams
<1> HIDE DEF a, b
<1>5. QED BY <1>1, <1>2, <1>3, <1>4, WrittenIsStore

\* Setting consensus parameters panics if their duration overflows, and
\* otherwise makes a store.
LEMMA ConsensusIs ==
  ASSUME ValuesDiffer, NEW store, IsStore(store), NEW consensus, consensus # None
  PROVE  LET after == SetConsensusParams(store, consensus)
         IN  IF Overflows(consensus) THEN after = Panic ELSE IsStore(after)
<1> DEFINE evidence == consensus.evidence
           duration == evidence.max_age_duration
           seconds == duration.seconds * NanosPerSecond
           nanos == seconds + duration.nanos
           fit == InI64(seconds) /\ InI64(nanos)
           age == IF duration = None THEN None ELSE Nanoseconds(duration)
           text == EvidenceParams(evidence)
           all == [BlockParams |-> IF consensus.block = None THEN None
                                   ELSE BlockParams(consensus.block),
                   EvidenceParams |-> IF consensus.evidence = None THEN None
                                      ELSE EvidenceParams(consensus.evidence),
                   ValidatorParams |-> IF consensus.validator = None THEN None
                                       ELSE ValidatorParams(consensus.validator)]
           own == {p \in DOMAIN all : all[p] # None}
           texts == Restrict(all, own)
           after == SetConsensusParams(store, consensus)
           panics == evidence # None /\ all.EvidenceParams.max_age_duration = Panic
<1>1. after = IF panics THEN Panic ELSE Written(store, BaseAppSpace, texts)
  BY DEF SetConsensusParams
<1>2. evidence # None => all.EvidenceParams = text
  OBVIOUS
<1>3. text.max_age_duration = age
  BY DEF EvidenceParams
<1>4. Nanoseconds(duration) = IF fit THEN Printed(nanos) ELSE Panic
  BY DEF Nanoseconds
<1>5. Printed(nanos) # Panic
  <2> DEFINE printed == Printed(nanos)
  <2>1. printed = [x \in DOMAIN printed |-> printed[x]]
    BY DEF Printed
  <2> HIDE DEF printed
  <2>2. printed # Panic
    BY <2>1, RecordsDiffer DEF Failed
  <2>3. QED BY <2>2 DEF printed
<1>6. DOMAIN texts \subseteq ConsensusParams /\ IsFiniteSet(ConsensusParams)
  <2>1. DOMAIN texts \subseteq ConsensusParams
    BY DEF ConsensusParams, Restrict
  <2>2. QED BY <2>1, FewAreFinite DEF ConsensusParams
<1>7. Overflows(consensus) <=> evidence # None /\ duration # None /\ ~ fit
  BY DEF Overflows
<1>8. None # Panic
  BY DEF ValuesDiffer
<1> HIDE DEF texts, all, own, after, text, nanos, duration, evidence, fit
<1>9. panics <=> Overflows(consensus)
  BY <1>2, <1>3, <1>4, <1>5, <1>7, <1>8
<1> HIDE DEF panics
<1>10. IsStore(Written(store, BaseAppSpace, texts))
  BY <1>6, WrittenIsStore, FS_Subset
<1>11. QED BY <1>1, <1>9, <1>10 DEF after

LEMMA NothingIsRead ==
  ASSUME ValuesDiffer
  PROVE  /\ IsStore(<<>>) /\ GetAuthParams(<<>>) = Panic /\ GetBankParams(<<>>) = Panic
<1> DEFINE nothing == <<>>
<1>1. DOMAIN nothing = {} /\ IsStore(nothing)
  BY DEF IsStore
<1> HIDE DEF nothing
<1>2. \A space, p : Read(nothing, space, p) = NoValue
  BY <1>1 DEF Read, PrefixStoreGet, Lookup
<1> DEFINE params == [p \in AuthParams |-> ParseParam(Read(nothing, AuthSpace, p))]
<1>3. "tx_sig_limit" \in AuthParams
  BY DEF AuthParams
<1>4. params["tx_sig_limit"] = Panic
  BY <1>2, <1>3 DEF ParseParam
<1>5. GetAuthParams(nothing) = IF \E p \in AuthParams : params[p] = Panic THEN Panic ELSE params
  BY DEF GetAuthParams
<1> HIDE DEF params
<1>6. GetAuthParams(nothing) = Panic
  BY <1>3, <1>4, <1>5
<1>7. GetBankParams(nothing) = Panic
  BY <1>2 DEF GetBankParams
<1>8. QED BY <1>1, <1>6, <1>7 DEF nothing

\* A write of one module's parameters.
LEMMA WritesRead ==
  ASSUME NEW store, IsStore(store)
  PROVE  /\ \A auth \in [AuthParams -> Uint] :
              LET after == SetAuthParams(store, auth)
              IN  GetAuthParams(after) = auth /\ GetBankParams(after) = GetBankParams(store)
         /\ \A bank \in [default_send_enabled : BOOLEAN] :
              LET after == SetBankParams(store, bank)
              IN  GetBankParams(after) = bank /\ GetAuthParams(after) = GetAuthParams(store)
         /\ \A consensus :
              LET after == SetConsensusParams(store, consensus)
              IN  after # Panic =>
                    /\ GetAuthParams(after) = GetAuthParams(store)
                    /\ GetBankParams(after) = GetBankParams(store)
<1> DEFINE someAuth == [p \in AuthParams |-> 0]
           someBank == [default_send_enabled |-> TRUE]
<1>1. someAuth \in [AuthParams -> Uint] /\ someBank \in [default_send_enabled : BOOLEAN]
  BY MaxUintAssumption DEF Uint
<1> HIDE DEF someAuth, someBank
<1>2. ASSUME NEW auth \in [AuthParams -> Uint], NEW bank \in [default_send_enabled : BOOLEAN],
             NEW consensus
      PROVE  ParamsStayApart(store, auth, bank, consensus)
  BY ParamsAlwaysStayApart
<1>3. QED BY <1>1, <1>2 DEF ParamsStayApart

WrittenInv ==
  /\ written = [store |-> written.store, auth |-> written.auth, bank |-> written.bank,
                consensus |-> written.consensus]
  /\ written.store = Panic <=> Overflows(written.consensus)
  /\ written.store # Panic =>
       /\ IsStore(written.store)
       /\ GetAuthParams(written.store) = written.auth
       /\ GetBankParams(written.store) = written.bank

LEMMA UnwrittenReads ==
  ASSUME ValuesDiffer
  PROVE  LET w == Unwritten
         IN  /\ w = [store |-> w.store, auth |-> w.auth, bank |-> w.bank,
                     consensus |-> w.consensus]
             /\ w.store # Panic /\ ~ Overflows(w.consensus) /\ IsStore(w.store)
             /\ GetAuthParams(w.store) = w.auth
             /\ GetBankParams(w.store) = w.bank
<1> DEFINE w == Unwritten
<1>1. /\ w.store = <<>> /\ w.auth = Panic /\ w.bank = Panic /\ w.consensus = None
      /\ w = [store |-> w.store, auth |-> w.auth, bank |-> w.bank, consensus |-> w.consensus]
  BY DEF Unwritten
<1>2. ~ Overflows(None)
  BY DEF Overflows
<1> HIDE DEF w
<1>3. IsStore(w.store)
  BY <1>1, NothingIsRead
<1>4. w.store # Panic
  BY <1>3, RecordsDiffer DEF IsStore, Failed
<1>5. QED BY <1>1, <1>2, <1>3, <1>4, NothingIsRead DEF w

LEMMA WriteKeeps ==
  ASSUME ValuesDiffer, WrittenInv, Write
  PROVE  WrittenInv'
<1> DEFINE store == written.store
           consensus == written.consensus
<1>1. /\ written = [store |-> written.store, auth |-> written.auth, bank |-> written.bank,
                    consensus |-> written.consensus]
      /\ IsStore(store) /\ ~ Overflows(consensus)
      /\ GetAuthParams(store) = written.auth /\ GetBankParams(store) = written.bank
  BY DEF Write, WrittenInv
<1>2. ASSUME NEW db, IsStore(db) PROVE db # Panic
  BY <1>2, RecordsDiffer DEF IsStore, Failed
<1>3. ASSUME NEW auth \in AuthWrites, WriteAuth(auth) PROVE WrittenInv'
  <2> DEFINE after == SetAuthParams(store, auth)
  <2>1. written' = [store |-> after, auth |-> auth, bank |-> written.bank, consensus |-> consensus]
    BY <1>1, <1>3 DEF WriteAuth
  <2>2. IsStore(after) /\ after # Panic
    BY <1>1, <1>2, SetsAreStores
  <2>3. GetAuthParams(after) = auth /\ GetBankParams(after) = written.bank
    BY <1>1, WritesRead, WritesAssumption
  <2> HIDE DEF after
  <2>4. QED BY <1>1, <2>1, <2>2, <2>3 DEF WrittenInv
<1>4. ASSUME NEW bank \in BankWrites, WriteBank(bank) PROVE WrittenInv'
  <2> DEFINE after == SetBankParams(store, bank)
  <2>1. written' = [store |-> after, auth |-> written.auth, bank |-> bank, consensus |-> consensus]
    BY <1>1, <1>4 DEF WriteBank
  <2>2. IsStore(after) /\ after # Panic
    BY <1>1, <1>2, SetsAreStores
  <2>3. GetBankParams(after) = bank /\ GetAuthParams(after) = written.auth
    BY <1>1, WritesRead, WritesAssumption
  <2> HIDE DEF after
  <2>4. QED BY <1>1, <2>1, <2>2, <2>3 DEF WrittenInv
<1>5. ASSUME NEW new \in ConsensusWrites, WriteConsensus(new) PROVE WrittenInv'
  <2> DEFINE after == SetConsensusParams(store, new)
  <2>1. written' = [store |-> after, auth |-> written.auth, bank |-> written.bank, consensus |-> new]
    BY <1>1, <1>5 DEF WriteConsensus
  <2>2. IF Overflows(new) THEN after = Panic ELSE IsStore(after) /\ after # Panic
    BY <1>1, <1>2, <1>5, ConsensusIs, WritesAssumption
  <2>3. after # Panic => /\ GetAuthParams(after) = written.auth
                         /\ GetBankParams(after) = written.bank
    BY <1>1, WritesRead
  <2> HIDE DEF after
  <2>4. QED BY <2>1, <2>2, <2>3 DEF WrittenInv
<1>6. QED BY <1>3, <1>4, <1>5 DEF Write

-----------------------------------------------------------------------------
(* The specification.                                                      *)

Given ==
  {Idle} \cup DecimalInputs \cup PowerInputs \cup TextInputs
    \cup TxInputs \cup AccountInputs \cup QueryInputs \cup TransferInputs
    \cup KeyInputs \cup LeafInputs \cup StoreInputs

LEMMA InputsAreGiven == Spec => [](input \in Given)
<1>1. Init => input \in Given
  BY DEF Init, Given
<1>2. input \in Given /\ [Next]_vars => (input \in Given)'
  <2>1. Take => (input \in Given)'
    BY DEF Take, Given
  <2>2. Leave => (input \in Given)'
    BY DEF Leave, Given
  <2>3. input \in Given /\ (Write \/ Restart \/ UNCHANGED vars) => (input \in Given)'
    BY DEF Write, Restart, vars
  <2>4. QED BY <2>1, <2>2, <2>3 DEF Next
<1>3. QED BY <1>1, <1>2, PTL DEF Spec

\* What is given of a kind has the fields of that kind.
LEMMA GivenByKind ==
  ASSUME input \in Given
  PROVE  /\ Is("decimals") => input \in DecimalInputs
         /\ Is("power") => input \in PowerInputs
         /\ Is("text") => input \in TextInputs
         /\ Is("tx") => input \in TxInputs
         /\ Is("account") => input \in AccountInputs
         /\ Is("query") => input \in QueryInputs
         /\ Is("transfer") => input \in TransferInputs
         /\ Is("keys") => input \in KeyInputs
         /\ Is("leaves") => input \in LeafInputs
         /\ Is("stores") => input \in StoreInputs
<1>1. /\ Idle.kind = "idle"
      /\ \A i \in DecimalInputs : i.kind = "decimals"
      /\ \A i \in PowerInputs : i.kind = "power"
      /\ \A i \in TextInputs : i.kind = "text"
      /\ \A i \in TxInputs : i.kind = "tx"
      /\ \A i \in AccountInputs : i.kind = "account"
      /\ \A i \in QueryInputs : i.kind = "query"
      /\ \A i \in TransferInputs : i.kind = "transfer"
      /\ \A i \in KeyInputs : i.kind = "keys"
      /\ \A i \in LeafInputs : i.kind = "leaves"
      /\ \A i \in StoreInputs : i.kind = "stores"
  BY DEF Idle, DecimalInputs, PowerInputs, TextInputs, TxInputs, AccountInputs, QueryInputs,
         TransferInputs, KeyInputs, LeafInputs, StoreInputs
<1>2. QED BY <1>1 DEF Given, Is

LEMMA DecimalsHold ==
  ASSUME input \in Given
  PROVE  DecimalsAreExact
<1>1. ASSUME Is("decimals")
      PROVE  /\ FromAtomicsIsExact(input.d, input.n)
             /\ ArithmeticIsExact(input.d, input.e)
             /\ RootIsExact(input.d)
             /\ TextsAreReadBack(input.d)
  <2>1. input.d \in Uint /\ input.e \in Uint /\ input.n \in Nat
    BY <1>1, GivenByKind, DecimalsAssumption DEF DecimalInputs
  <2>2. QED BY <2>1, DecimalsStayExact, RootsStayExact, TextsAre
<1>2. ASSUME Is("power") PROVE PowerIsExact(input.power[1], input.power[2])
  <2>1. input.power[1] \in Uint /\ input.power[2] \in Nat
    BY <1>2, GivenByKind, DecimalsAssumption DEF PowerInputs
  <2>2. QED BY <2>1, DecimalsStayExact
<1>3. ASSUME Is("text") PROVE TextIsExact(input.text)
  <2>1. input.text # <<>> /\ input.text \in Seq(Seq(Digit))
    BY <1>3, GivenByKind, DecimalsAssumption DEF TextInputs
  <2>2. QED BY <2>1, TextIs
<1>4. QED BY <1>1, <1>2, <1>3 DEF DecimalsAreExact

LEMMA CoinsAreRead ==
  ASSUME NEW raw
  PROVE  ReadsCoins(raw)
BY DEF ReadsCoins, CoinFromStr, CoinFrom

LEMMA TransactionsHold ==
  ASSUME ValuesDiffer, NEW raw, IsRawTransaction(raw)
  PROVE  /\ SurvivesEncoding(TxFrom, RawTx, raw)
         /\ DecodesTransactions(raw)
         /\ OnlyMessagesPanic(raw)
         /\ ListsTransactions(<<[height |-> 1, tx |-> raw], [height |-> 2, tx |-> raw]>>)
<1>1. PICK R : IsRawTx(raw, R) /\ (raw.auth_info # None => IsRawAuth(raw.auth_info, R))
  BY RawTxIs
<1>2. raw.body # None => "extension_options" \in DOMAIN raw.body
  BY DEF IsRawTransaction, IsRawBody
<1>3. SurvivesEncoding(TxFrom, RawTx, raw)
  BY <1>1, <1>2, TransactionsSurviveEncoding
<1>4. DecodesTransactions(raw)
  BY <1>1, DecodedTransactionsAreGood
<1>5. OnlyMessagesPanic(raw)
  BY MessagesPanic
<1> DEFINE found == <<[height |-> 1, tx |-> raw], [height |-> 2, tx |-> raw]>>
<1>6. DOMAIN found = 1..2 /\ Len(found) = 2
  OBVIOUS
<1> HIDE DEF found
<1>7. ListsTransactions(found)
  BY <1>6, ListIs
<1>8. QED BY <1>3, <1>4, <1>5, <1>7 DEF found

LEMMA QueriesHold ==
  ASSUME ValuesDiffer, NEW address, NEW coins, IsSeq(coins)
  PROVE  /\ SurvivesEncoding(QueryAccountRequestFrom, RawQueryAccountRequest,
                             [address |-> address])
         /\ SurvivesEncoding(QueryAllBalancesRequestFrom, RawQueryAllBalancesRequest,
                             [address |-> address, pagination |-> None])
         /\ SurvivesEncoding(QueryAllBalancesResponseFrom, RawQueryAllBalancesResponse,
                             [balances |-> coins])
         /\ SurvivesEncoding(QueryTotalSupplyResponseFrom, RawQueryTotalSupplyResponse,
                             [supply |-> coins])
         /\ \A i \in DOMAIN coins :
              /\ SurvivesEncoding(QueryBalanceRequestFrom, RawQueryBalanceRequest,
                                  [address |-> address, denom |-> coins[i].denom])
              /\ SurvivesEncoding(QueryBalanceResponseFrom, RawQueryBalanceResponse,
                                  [balance |-> coins[i]])
              /\ ReadsCoins(coins[i])
<1>1. coins \in Seq(Range(coins))
  BY DEF IsSeq
<1>2. ASSUME NEW coin
      PROVE  /\ SurvivesEncoding(QueryAccountRequestFrom, RawQueryAccountRequest,
                                 [address |-> address])
             /\ SurvivesEncoding(QueryAllBalancesRequestFrom, RawQueryAllBalancesRequest,
                                 [address |-> address, pagination |-> None])
             /\ SurvivesEncoding(QueryAllBalancesResponseFrom, RawQueryAllBalancesResponse,
                                 [balances |-> coins])
             /\ SurvivesEncoding(QueryTotalSupplyResponseFrom, RawQueryTotalSupplyResponse,
                                 [supply |-> coins])
             /\ SurvivesEncoding(QueryBalanceRequestFrom, RawQueryBalanceRequest,
                                 [address |-> address, denom |-> coin.denom])
             /\ SurvivesEncoding(QueryBalanceResponseFrom, RawQueryBalanceResponse,
                                 [balance |-> coin])
  BY <1>1, QueriesSurviveEncoding
<1>3. ASSUME NEW i \in DOMAIN coins
      PROVE  /\ SurvivesEncoding(QueryBalanceRequestFrom, RawQueryBalanceRequest,
                                 [address |-> address, denom |-> coins[i].denom])
             /\ SurvivesEncoding(QueryBalanceResponseFrom, RawQueryBalanceResponse,
                                 [balance |-> coins[i]])
             /\ ReadsCoins(coins[i])
  <2> DEFINE coin == coins[i]
  <2> HIDE DEF coin
  <2>1. /\ SurvivesEncoding(QueryBalanceRequestFrom, RawQueryBalanceRequest,
                            [address |-> address, denom |-> coin.denom])
        /\ SurvivesEncoding(QueryBalanceResponseFrom, RawQueryBalanceResponse,
                            [balance |-> coin])
        /\ ReadsCoins(coin)
    BY <1>2, CoinsAreRead
  <2>2. QED BY <2>1 DEF coin
<1>4. QED BY <1>2, <1>3

LEMMA DecodingHolds ==
  ASSUME ValuesDiffer, input \in Given
  PROVE  DecodingIsExact
<1>1. ASSUME Is("tx") PROVE IsRawTransaction(input.tx)
  BY <1>1, GivenByKind, MessagesAssumption DEF TxInputs
<1>2. ASSUME Is("account") PROVE IsRawAccount(input.account)
  BY <1>2, GivenByKind, MessagesAssumption DEF AccountInputs
<1>3. ASSUME Is("query") PROVE IsSeq(input.coins)
  BY <1>3, GivenByKind, MessagesAssumption DEF QueryInputs
<1>4. QED
  BY <1>1, <1>2, <1>3, TransactionsHold, AccountsSurviveEncoding, QueriesHold DEF DecodingIsExact

LEMMA TransfersHold ==
  ASSUME ValuesDiffer, input \in Given
  PROVE  TransfersAreDecodedAsSigned
<1> SUFFICES ASSUME Is("transfer") PROVE TransfersAreDecodedAsSigned
  BY DEF TransfersAreDecodedAsSigned
<1> DEFINE t == input.transfer
<1>1. IsTransfer(t)
  BY GivenByKind, MessagesAssumption DEF TransferInputs
<1> HIDE DEF t
<1>2. DecodedAsSigned(t.key, t.to, t.coin, t.fee, t.sequence, t.number)
  BY <1>1, TransfersStayAsSigned DEF IsTransfer
<1>3. QED BY <1>2 DEF TransfersAreDecodedAsSigned, t

LEMMA KeysHold ==
  ASSUME input \in Given, Is("keys")
  PROVE  LET db == input.keys.db
             prefix == input.keys.prefix
         IN  /\ PrefixIteratorsAreExact(db, prefix)
             /\ \A start, end \in Limits : PrefixStoresAreExact(db, prefix, start, end)
             /\ \A k \in ByteStrings : GetsAgreeWithRanges(db, prefix, k)
             /\ \A other, denom \in ByteStrings : AddressesAreSeparate(prefix, other, denom)
<1> DEFINE db == input.keys.db
           prefix == input.keys.prefix
<1>1. DOMAIN db \subseteq Bytes /\ IsFiniteSet(DOMAIN db) /\ prefix \in Bytes
  BY GivenByKind, KeysAssumption DEF KeyInputs, Bytes
<1>2. ByteStrings \subseteq Bytes
  BY KeysAssumption DEF Bytes
<1>3. ASSUME NEW end \in Limits PROVE end \in Bounds
  <2>1. end.key \in Bytes /\ end \in {Unbounded, Included(end.key), Excluded(end.key)}
    BY KeysAssumption DEF Bytes
  <2>2. <<>> \in Bytes
    BY DEF Bytes
  <2> DEFINE k == end.key
  <2> HIDE DEF k
  <2>3. k \in Bytes => {Unbounded, Included(k), Excluded(k)} \subseteq Bounds
    BY <2>2 DEF Bounds, Unbounded, Included, Excluded
  <2>4. QED BY <2>1, <2>3 DEF k
<1> HIDE DEF db, prefix
<1>4. \A start, end \in Limits : PrefixStoresAreExact(db, prefix, start, end)
  BY <1>1, <1>3, PrefixStoresStayExact
<1>5. \A k \in ByteStrings : GetsAgreeWithRanges(db, prefix, k)
  BY <1>1, <1>2, GetsAgree
<1>6. \A other, denom \in ByteStrings : AddressesAreSeparate(prefix, other, denom)
  <2> DEFINE AByte == 0 .. MaxByte
  <2>1. prefix \in Seq(AByte) /\ ByteStrings \subseteq Seq(AByte)
    BY <1>1, <1>2 DEF Bytes
  <2> HIDE DEF AByte
  <2>2. QED BY <2>1, AddressesStaySeparate
<1>7. PrefixIteratorsAreExact(db, prefix)
  BY <1>1, PrefixIteratorsStayExact
<1>8. QED BY <1>4, <1>5, <1>6, <1>7 DEF db, prefix

LEMMA WritesAreRead == ASSUME ValuesDiffer PROVE Spec => []WrittenInv
<1>1. Init => WrittenInv
  BY UnwrittenReads DEF Init, WrittenInv
<1>2. WrittenInv /\ [Next]_vars => WrittenInv'
  <2> SUFFICES ASSUME WrittenInv, [Next]_vars PROVE WrittenInv'
    OBVIOUS
  <2>1. CASE Write
    BY <2>1, WriteKeeps
  <2>2. CASE Restart
    <3>1. written' = Unwritten
      BY <2>2 DEF Restart
    <3>2. QED BY <3>1, UnwrittenReads DEF WrittenInv
  <2>3. CASE UNCHANGED written
    BY <2>3 DEF WrittenInv
  <2>4. QED BY <2>1, <2>2, <2>3 DEF Next, Take, Leave, vars
<1>3. QED BY <1>1, <1>2, PTL DEF Spec

LEMMA RootsHold ==
  ASSUME input \in Given
  PROVE  RootsCommit
<1>1. ASSUME Is("leaves"), NEW other \in LeafLists PROVE RootSaysItems(input.leaves, other)
  <2> DEFINE T == UNION {Range(leaf) : leaf \in Leaves}
  <2>1. Leaves \subseteq Seq(T)
    <3>1. ASSUME NEW leaf \in Leaves PROVE leaf \in Seq(T)
      <4>1. IsSeq(leaf) /\ Range(leaf) \subseteq T
        BY RootsAssumption
      <4> HIDE DEF T
      <4>2. QED BY <4>1, SeqIn
    <3>2. QED BY <3>1
  <2> HIDE DEF T
  <2>2. LeafLists \subseteq Seq(Seq(T))
    <3> DEFINE U == Seq(T)
    <3>1. Leaves \subseteq U /\ LeafLists \subseteq Seq(Leaves)
      BY <2>1, RootsAssumption
    <3> HIDE DEF U
    <3>2. ASSUME NEW l \in Seq(Leaves) PROVE l \in Seq(U)
      <4>1. Len(l) \in Nat /\ l \in [1..Len(l) -> U]
        BY <3>1
      <4>2. QED BY <4>1
    <3>3. QED BY <3>1, <3>2 DEF U
  <2>3. input.leaves \in LeafLists
    BY <1>1, GivenByKind DEF LeafInputs
  <2>4. QED BY <2>2, <2>3, RootsSayItems
<1>2. ASSUME Is("stores"), NEW other \in Stores
      PROVE  HashSaysStores(StoreInfos(input.stores), StoreInfos(other), NamesInOrder)
  <2> DEFINE T == {Byte(b) : b \in 0 .. MaxByte}
  <2>1. input.stores \in Stores
    BY <1>2, GivenByKind DEF StoreInputs
  <2>2. /\ AreStores(StoreInfos(input.stores), T, StoreHashes, NamesInOrder)
        /\ AreStores(StoreInfos(other), T, StoreHashes, NamesInOrder)
    BY <2>1, StoresAre
  <2> HIDE DEF T
  <2>3. QED BY <2>2, HashesSayStores
<1>3. QED BY <1>1, <1>2 DEF RootsCommit

\* Every operation of Decimal256, of any decimals and texts, is exact.
THEOREM DecimalsAreAlwaysExact == Spec => []DecimalsAreExact
<1>1. input \in Given => DecimalsAreExact
  BY DecimalsHold
<1>2. QED BY <1>1, InputsAreGiven, PTL

\* Whatever is decoded is encoded and decoded again as the same.
THEOREM DecodingIsAlwaysExact == ASSUME ValuesDiffer PROVE Spec => []DecodingIsExact
<1>1. input \in Given => DecodingIsExact
  BY DecodingHolds
<1>2. QED BY <1>1, InputsAreGiven, PTL

\* A node executes the transfers that the command line signs.
THEOREM TransfersAreAlwaysDecodedAsSigned ==
  ASSUME ValuesDiffer PROVE Spec => []TransfersAreDecodedAsSigned
<1>1. input \in Given => TransfersAreDecodedAsSigned
  BY TransfersHold
<1>2. QED BY <1>1, InputsAreGiven, PTL

\* Prefixes keep apart what shares a store.
THEOREM PrefixesAlwaysKeepApart == ASSUME ValuesDiffer PROVE Spec => []PrefixesKeepApart
<1>1. input \in Given /\ WrittenInv => PrefixesKeepApart
  BY KeysHold DEF PrefixesKeepApart, WrittenInv
<1>2. QED BY <1>1, InputsAreGiven, WritesAreRead, PTL

\* Roots and application hashes say what they are of.
THEOREM RootsAlwaysCommit == Spec => []RootsCommit
<1>1. input \in Given => RootsCommit
  BY RootsHold
<1>2. QED BY <1>1, InputsAreGiven, PTL

=============================================================================
