----------------------------- MODULE MCBaseApp -----------------------------
(* Instances of BaseApp for TLC: a chain of three blocks over two stores.  *)
(* The genesis writes both stores; the blocks move the first one back and  *)
(* forth, so that a block applied twice or out of order shows.             *)
EXTENDS BaseApp

CONSTANTS bank, params, k1, v1, v2

Nothing == [k \in Key |-> None]

OnlyBank(v) == [s \in Store |-> IF s = bank THEN [k \in Key |-> v] ELSE Nothing]

MCWrites ==
  [b \in Version |->
     IF b = 0 THEN [s \in Store |-> [k \in Key |-> v1]]
     ELSE OnlyBank(IF b % 2 = 1 THEN v2 ELSE v1)]

=============================================================================
