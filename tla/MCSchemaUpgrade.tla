-------------------------- MODULE MCSchemaUpgrade --------------------------
(* Three processes open one file with two nonces, and up to two failures. *)
EXTENDS SchemaUpgrade, TLC

CONSTANTS o1, o2, o3, n1, n2
============================================================================
