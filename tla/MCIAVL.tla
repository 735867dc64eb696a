------------------------------- MODULE MCIAVL -------------------------------
(* Instances of IAVL for TLC. *)
EXTENDS IAVL

=============================================================================
