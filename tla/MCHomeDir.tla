----------------------------- MODULE MCHomeDir -----------------------------
(* HomeDir with two users adding keys under names that share a file. *)
EXTENDS HomeDir, TLC

CONSTANTS p, q, k1, k2

MCFileOf == [n \in Name |-> "bob.json"]
MCSymmetry == Permutations(Adder)
=============================================================================
