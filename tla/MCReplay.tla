------------------------------ MODULE MCReplay ------------------------------
(***************************************************************************)
(* Instances of ReplayTransaction for TLC.  Each plan makes calls collide  *)
(* in the ways requests can: one nonce in two receipts, one in a receipt   *)
(* and a capability, and nonces in caches of different kinds.              *)
(***************************************************************************)
EXTENDS ReplayRefinement, TLC

CONSTANTS c1, c2, c3, mem, lst, sql, r1, r2, k1, k2, dr, dk, dr2

Receipt(store_, nonce) ==
    [store |-> store_, domain |-> dr, nonce |-> nonce,
     code |-> "ANTI_REPLAY_FAILURE"]
Capability(store_, nonce) ==
    [store |-> store_, domain |-> dk, nonce |-> nonce,
     code |-> "CAPABILITY_REPLAY"]

(* The instance's calls, each with its entry of a table of plans. *)
OfCalls(table) == [c \in Calls |-> table[c]]

(* A SQLite cache for everything, whose methods may raise. *)
SQLitePlan == OfCalls(c1 :> <<Receipt(sql, r1), Capability(sql, k1)>>)

(* used_nonces lists: raw nonces, so that c2, whose receipt is of another  *)
(* issuer but has the same nonce, and c3, whose capability has the nonce of *)
(* c1's receipt, collide with c1.                                          *)
ListPlan == OfCalls(
    c1 :> <<Receipt(lst, r1), Capability(mem, k1)>> @@
    c2 :> <<[Receipt(lst, r1) EXCEPT !.domain = dr2], Capability(sql, k2)>> @@
    c3 :> <<Receipt(sql, r2), Capability(lst, r1)>>)
============================================================================
