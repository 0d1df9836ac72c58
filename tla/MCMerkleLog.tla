---------------------------- MODULE MCMerkleLog ----------------------------
(* Up to five keys: every tree shape with an odd end on some level. *)
EXTENDS MerkleLog, TLC
============================================================================
