------------------------------ MODULE MCQueries ------------------------------
(* Queries with two users, one of whom is unknown at genesis. *)
EXTENDS Queries

CONSTANTS a, b, collector, d, e

MCValue == Nat
MCGenesis == <<<<a, d, 2>>, <<a, e, 1>>>>
MCKey ==
    {Balance(x, y) : x \in {a, b, collector}, y \in {d, e}}
      \cup {Supply(y) : y \in {d, e}} \cup {Account(x) : x \in {a, b, collector}}

Coin(denom, amount) == [denom |-> denom, amount |-> amount]
(* A transfer of two coins, one that fails at its second coin, and one     *)
(* back, without a fee, from the account that was created.                 *)
MCTransfer ==
    {[from |-> a, to |-> b, coins |-> <<Coin(d, 1), Coin(e, 1)>>, fee |-> 1],
     [from |-> a, to |-> b, coins |-> <<Coin(d, 1), Coin(e, 2)>>, fee |-> 0],
     [from |-> b, to |-> a, coins |-> <<Coin(d, 1)>>, fee |-> 0]}
=============================================================================
