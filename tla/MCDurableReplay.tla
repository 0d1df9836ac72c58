-------------------------- MODULE MCDurableReplay --------------------------
(***************************************************************************)
(* Two processes over one SQLite file, each with a memory cache of its     *)
(* own.  c1 and c2 present one receipt to the same process; c3 presents    *)
(* their capability alone, to the gateway in the other process.            *)
(***************************************************************************)
EXTENDS DurableReplay, TLC

CONSTANTS c1, c2, c3, p1, p2, sql, mem1, r1, k1, dr, dk

Receipt(store_) == [store |-> store_, domain |-> dr, nonce |-> r1,
                    code |-> "ANTI_REPLAY_FAILURE"]
Capability(store_) == [store |-> store_, domain |-> dk, nonce |-> k1,
                       code |-> "CAPABILITY_REPLAY"]

OfCalls(table) == [c \in Calls |-> table[c]]

(* Receipt nonces on disk; capability nonces on disk for c2 and c3, in the *)
(* memory of p1 for c1.                                                    *)
MixedPlan == OfCalls(
    c1 :> <<Receipt(sql), Capability(mem1)>> @@
    c2 :> <<Receipt(sql), Capability(sql)>> @@
    c3 :> <<Capability(sql)>>)

Hosts == OfCalls(c1 :> p1 @@ c2 :> p1 @@ c3 :> p2)
Memories == p1 :> {mem1} @@ p2 :> {}
============================================================================
