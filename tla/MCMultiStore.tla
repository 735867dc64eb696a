--------------------------- MODULE MCMultiStore ---------------------------
(* Instances of MultiStore for TLC: two stores, of which params is the one *)
(* MultiStore::new opens last.                                             *)
EXTENDS MultiStore

=============================================================================
